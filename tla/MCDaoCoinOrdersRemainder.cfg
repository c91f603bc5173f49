CONSTANTS
    NanosPerUnitDigits = 1
    BaseUnitsPerCoinDigits = 3
    OneE38Digits = 4
    SupportedPrecisionDigits = 2
    UintWidth = 30
    DESO = DESO
    UnknownCoin = UnknownCoin
    NoOrder = NoOrder
    OrderIds = {o1}
    Transactors = {t1}
    DAOCoins = {d1}
    Prices <- MCRemainderPrices
    Quantities <- MCRemainderQuantities
    FillAmounts <- MCFillAmounts

SPECIFICATION Spec
INVARIANT DisplayedQuantityNeverExceedsRemaining
