--------------------------- MODULE DaoCoinExchange ---------------------------
(***************************************************************************)
(* The DAO coin price and quantity conversions of routes/dao_coin_exchange *)
(* (src/unnamed/part_003), as pure operators.                              *)
(*                                                                         *)
(* Every power of ten of the code is a CONSTANT number of digits, so that  *)
(* TLC can hold the numbers: in the code NanosPerUnit = 10^9,              *)
(* BaseUnitsPerCoin = 10^18, OneE38 = 10^38, the float precision is 15     *)
(* digits and the canonical integer is a uint256.  The model keeps the     *)
(* relations between them that decide which branch a value takes (see the *)
(* ASSUMEs).                                                               *)
(*                                                                         *)
(* A float64 is modelled by its value as an integer count of 1/OneE38, the *)
(* finest resolution the conversions produce.  A decimal string is modelled*)
(* by its sign and its value in the same unit.                             *)
(***************************************************************************)
EXTENDS Integers

CONSTANTS
    NanosPerUnitDigits,        \* lib.NanosPerUnit     = 10^NanosPerUnitDigits
    BaseUnitsPerCoinDigits,    \* lib.BaseUnitsPerCoin = 10^BaseUnitsPerCoinDigits
    OneE38Digits,              \* lib.OneE38           = 10^OneE38Digits
    SupportedPrecisionDigits,  \* the 15 of formatFloatAsString
    UintWidth,                 \* the 256 of uint256.Int
    DESO                       \* the coin whose public key string is ""

ASSUME /\ NanosPerUnitDigits \in Nat
       \* DESO quantities lose digits at the float precision, DAO quantities do not
       /\ NanosPerUnitDigits < SupportedPrecisionDigits
       /\ SupportedPrecisionDigits < BaseUnitsPerCoinDigits
       /\ BaseUnitsPerCoinDigits <= OneE38Digits
       \* a rate parsed from a formatted float is a multiple of the DESO/DAO factor
       /\ OneE38Digits - SupportedPrecisionDigits >= BaseUnitsPerCoinDigits - NanosPerUnitDigits
       /\ UintWidth \in Nat \ {0}

NanosPerUnit     == 10^NanosPerUnitDigits
BaseUnitsPerCoin == 10^BaseUnitsPerCoinDigits
OneE38           == 10^OneE38Digits
MaxUint          == 2^UintWidth - 1

\* A float or a decimal string is valued in units of 1/OneE38.
FloatUnit == OneE38

Ok(v)   == [ok |-> TRUE, val |-> v]
Fail(e) == [ok |-> FALSE, err |-> e]
Errors  == {"ParseError", "RangeError", "OverflowError", "UnknownOperationType"}
Results == {Ok(v) : v \in 0..MaxUint} \cup {Fail(e) : e \in Errors}

Abs(x) == IF x < 0 THEN -x ELSE x

(***************************************************************************)
(* Unit model.                                                             *)
(***************************************************************************)
\* getDESOToDAOCoinBaseUnitsScalingFactor: BaseUnitsPerCoin / NanosPerUnit
GetDESOToDAOCoinBaseUnitsScalingFactor == BaseUnitsPerCoin \div NanosPerUnit

\* The operation types of the API (strings) and of the ledger (lib enum).
BID == "BID"
ASK == "ASK"
LibASK == 1
LibBID == 2

\* Mutant: a DESO-selling ASK not recognised as filled in $DESO.
IsCoinToFillDESONoAsk(buy, sell, op) == buy = DESO /\ op = BID

\* isCoinToFillDESO: the QuantityToFill of the order is in $DESO nanos.
IsCoinToFillDESO(buy, sell, op) ==
    \/ buy = DESO /\ op = BID
    \/ sell = DESO /\ op = ASK

\* orderOperationTypeToString and orderOperationTypeToUint64
OrderOperationTypeToString(t) ==
    CASE t = LibASK -> Ok(ASK)
      [] t = LibBID -> Ok(BID)
      [] OTHER      -> Fail("UnknownOperationType")
OrderOperationTypeToUint64(s) ==
    CASE s = ASK -> Ok(LibASK)
      [] s = BID -> Ok(LibBID)
      [] OTHER   -> Fail("UnknownOperationType")

(***************************************************************************)
(* Decimal formatting.                                                     *)
(***************************************************************************)
\* big.NewFloat(f).Int(nil): the integer part, truncated toward zero.
TruncToInt(f) == IF f >= 0 THEN f \div FloatUnit ELSE -((-f) \div FloatUnit)

\* getNumDigits for a non-negative value (for a negative one the code's loop
\* does not end: see FormatFloat).
RECURSIVE NumDigits(_)
NumDigits(v) == IF v = 0 THEN 0 ELSE 1 + NumDigits(v \div 10)

\* The magnitude a rounded to a multiple of step, as fmt's "%.Nf" does.  The
\* model value of a float is its decimal value; when it lies exactly half way
\* the float64 underneath decides, so both neighbours are possible.
RoundToStep(a, step) ==
    LET q == a \div step
        r == a % step
    IN  IF 2 * r > step THEN {(q + 1) * step}
        ELSE IF 2 * r < step THEN {q * step}
        ELSE {q * step, (q + 1) * step}

\* formatFloatAsString once getNumDigits has returned n: print the float with
\* (precision - n) decimals, or keep its top `precision` whole digits and ".0".
FormatWithDigits(f, n) ==
    IF n <= SupportedPrecisionDigits
    THEN {[neg |-> f < 0, units |-> u] :
            u \in RoundToStep(Abs(f), 10^(OneE38Digits - (SupportedPrecisionDigits - n)))}
    ELSE LET divisorToDropDigits == 10^(n - SupportedPrecisionDigits)
         IN  {[neg |-> FALSE,
               units |-> (TruncToInt(f) \div divisorToDropDigits) * divisorToDropDigits * FloatUnit]}

\* formatFloatAsString, for a float whose integer part is not negative.
FormatFloatAsString(f) == FormatWithDigits(f, NumDigits(TruncToInt(f)))

\* lib.CalculateScaledExchangeRateFromString / lib.ScaleFloatFormatStringToUint256:
\* floor(value * 10^scaleDigits), rejecting a negative string, an overflow
\* of the uint256 and a result of zero.
ParseDecimalToScaled(s, scaleDigits) ==
    LET v == s.units \div 10^(OneE38Digits - scaleDigits)
    IN  CASE s.neg        -> Fail("ParseError")
          [] v > MaxUint  -> Fail("OverflowError")
          [] v = 0        -> Fail("RangeError")
          [] OTHER        -> Ok(v)

(***************************************************************************)
(* Rate converter.                                                         *)
(***************************************************************************)
\* uint256 MulOverflow(a, b) without forming a product TLC cannot hold.
MulOverflows(a, b) == a > MaxUint \div b

\* Mutant: the MulOverflow check of the DESO-buying branch dropped.
CalculateScaledExchangeRateNoOverflowCheck(buy, sell, f) ==
    LET k == GetDESOToDAOCoinBaseUnitsScalingFactor
        Scale(raw) ==
            CASE ~raw.ok        -> raw
              [] raw.val = 0    -> Fail("RangeError")
              [] buy = DESO     -> Ok(raw.val * k)
              [] sell = DESO    -> IF raw.val \div k = 0
                                   THEN Fail("RangeError") ELSE Ok(raw.val \div k)
              [] OTHER          -> raw
    IN  {Scale(ParseDecimalToScaled(s, OneE38Digits)) : s \in FormatFloatAsString(f)}

\* CalculateScaledExchangeRate: the set of results the code can return.
CalculateScaledExchangeRate(buy, sell, f) ==
    LET k == GetDESOToDAOCoinBaseUnitsScalingFactor
        Scale(raw) ==
            CASE ~raw.ok        -> raw
              [] raw.val = 0    -> Fail("RangeError")
              [] buy = DESO     -> IF MulOverflows(raw.val, k)
                                   THEN Fail("OverflowError") ELSE Ok(raw.val * k)
              [] sell = DESO    -> IF raw.val \div k = 0
                                   THEN Fail("RangeError") ELSE Ok(raw.val \div k)
              [] OTHER          -> raw
    IN  {Scale(ParseDecimalToScaled(s, OneE38Digits)) : s \in FormatFloatAsString(f)}

\* CalculateExchangeRateAsFloat: the coin-level price as a float.  The
\* "%d.%s%d" string is whole + decimal / OneE38 exactly; ParseFloat keeps it,
\* as a model value has far fewer digits than a float64.  (A real value of
\* more than about 16 significant digits is rounded to the nearest float64.)
CalculateExchangeRateAsFloat(buy, sell, scaledValue) ==
    LET k == GetDESOToDAOCoinBaseUnitsScalingFactor
    IN  CASE buy = DESO  -> scaledValue \div k
          [] sell = DESO -> scaledValue * k
          [] OTHER       -> scaledValue

(***************************************************************************)
(* Quantity converter.                                                     *)
(***************************************************************************)
\* calculateQuantityToFillAsFloatWithScalingFactor: quantity / 10^digits.
QuantityAsFloatWithScalingDigits(q, digits) == q * 10^(OneE38Digits - digits)

\* CalculateQuantityToFillAsFloat
CalculateQuantityToFillAsFloat(buy, sell, op, q) ==
    IF IsCoinToFillDESO(buy, sell, op)
    THEN QuantityAsFloatWithScalingDigits(q, NanosPerUnitDigits)
    ELSE QuantityAsFloatWithScalingDigits(q, BaseUnitsPerCoinDigits)

\* CalculateQuantityToFillAsBaseUnits: the set of results the code can return.
CalculateQuantityToFillAsBaseUnits(buy, sell, op, f) ==
    LET digits == IF IsCoinToFillDESO(buy, sell, op)
                  THEN NanosPerUnitDigits ELSE BaseUnitsPerCoinDigits
    IN  {ParseDecimalToScaled(s, digits) : s \in FormatFloatAsString(f)}

=============================================================================
