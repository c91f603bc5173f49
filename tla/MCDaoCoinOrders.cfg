CONSTANTS
    NanosPerUnitDigits = 1
    BaseUnitsPerCoinDigits = 3
    OneE38Digits = 4
    SupportedPrecisionDigits = 2
    UintWidth = 30
    DESO = DESO
    UnknownCoin = UnknownCoin
    NoOrder = NoOrder
    OrderIds = {o1, o2}
    Transactors = {t1}
    DAOCoins = {d1, d2}
    Prices <- MCPrices
    Quantities <- MCQuantities
    FillAmounts <- MCFillAmounts

SYMMETRY MCSymmetry
SPECIFICATION Spec
INVARIANT TypeOK
INVARIANT ReadShowsEachOrderAsPlaced
INVARIANT OrderDenomination
