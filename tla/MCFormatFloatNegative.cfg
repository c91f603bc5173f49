CONSTANTS
    NanosPerUnitDigits = 1
    BaseUnitsPerCoinDigits = 3
    OneE38Digits = 4
    SupportedPrecisionDigits = 2
    UintWidth = 30
    DESO = DESO
    NoString = NoString
    MaxDigitCount = 8
    Inputs <- MCNegativeInputs

SPECIFICATION Spec
\* formatFloatAsString returns: the state where it has is final.
CHECK_DEADLOCK FALSE
PROPERTY Termination
