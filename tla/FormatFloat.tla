----------------------------- MODULE FormatFloat -----------------------------
(***************************************************************************)
(* formatFloatAsString as the code runs it (src/unnamed/part_003): the     *)
(* integer part is taken with big.Float.Int, getNumDigits counts its       *)
(* digits one big.Int Div by ten at a time, and the string is printed once *)
(* the count is known.  big.Int.Div is Euclidean division, which for the   *)
(* positive divisor 10 is TLA+'s \div (floor division): -1 \div 10 = -1.   *)
(***************************************************************************)
EXTENDS DaoCoinExchange

CONSTANTS
    Inputs,            \* floats the function is called with
    NoString,          \* no result yet
    MaxDigitCount      \* numDigits saturates here: the count the model keeps

ASSUME \A x \in Inputs : x >= 0 => NumDigits(TruncToInt(x)) < MaxDigitCount

VARIABLES f, quotient, numDigits, pc, out

vars == <<f, quotient, numDigits, pc, out>>

\* fAsBigInt := big.NewFloat(0).SetFloat64(f).Int(nil); getNumDigits starts
\* from a copy of it.
Init ==
    /\ f \in Inputs
    /\ quotient = TruncToInt(f)
    /\ numDigits = 0
    /\ pc = "count"
    /\ out = NoString

\* Mutant: the loop condition dropped.
CountDigitNoCheck ==
    /\ pc = "count"
    /\ numDigits' = numDigits + 1
    /\ quotient' = quotient \div 10
    /\ UNCHANGED <<f, pc, out>>

\* One iteration of getNumDigits' loop.  A count past MaxDigitCount is kept
\* as MaxDigitCount (no input the code is given with a result has that many).
CountDigit ==
    /\ pc = "count"
    /\ quotient # 0
    /\ numDigits' = IF numDigits < MaxDigitCount THEN numDigits + 1 ELSE numDigits
    /\ quotient' = quotient \div 10
    /\ UNCHANGED <<f, pc, out>>

\* Mutant: the loop stops while one digit is left (quotient >= 10).
EndCountEarly ==
    /\ pc = "count"
    /\ quotient < 10
    /\ out' \in FormatWithDigits(f, numDigits)
    /\ pc' = "done"
    /\ UNCHANGED <<f, quotient, numDigits>>

\* The loop ends; formatFloatAsString prints with the count.
EndCount ==
    /\ pc = "count"
    /\ quotient = 0
    /\ out' \in FormatWithDigits(f, numDigits)
    /\ pc' = "done"
    /\ UNCHANGED <<f, quotient, numDigits>>

Next == CountDigit \/ EndCount

\* The loop runs on one goroutine with nothing to wait for: every step it
\* can take, it takes.
Spec == Init /\ [][Next]_vars /\ WF_vars(Next)

(***************************************************************************)
(* Properties.                                                             *)
(***************************************************************************)
TypeOK ==
    /\ f \in Inputs
    /\ quotient \in Int
    /\ numDigits \in 0..MaxDigitCount
    /\ pc \in {"count", "done"}
    /\ out \in {NoString} \cup [neg : BOOLEAN, units : Nat]

\* formatFloatAsString refines its one-step specification: the getNumDigits
\* loop, with big.Int's Euclidean Div, ends with the count of whole digits
\* that the specification defines as the n with 10^(n-1) <= v < 10^n, so the
\* string printed is one the specification allows, and the call returns.
Abstract == INSTANCE FormatFloatSpec
FormatFloatRefinesSpec == Abstract!Spec

\* The spec (section 3) rejects a negative value as a ParseError: a call of
\* formatFloatAsString returns, whatever float it is given.
Termination == <>(pc = "done")
=============================================================================
