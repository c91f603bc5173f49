--------------------------- MODULE FormatFloatSpec ---------------------------
(***************************************************************************)
(* What formatFloatAsString promises (src/unnamed/part_003): called on a   *)
(* float, it returns, in one step, its decimal string at 15 significant    *)
(* digits.  How many of them are whole digits is stated here by what a     *)
(* digit count is, the n with 10^(n-1) <= v < 10^n, not by a loop.         *)
(***************************************************************************)
EXTENDS DaoCoinExchange

CONSTANTS Inputs, NoString

VARIABLES f, out

\* The number of decimal digits of a non-negative integer below 10^9 (TLC's
\* integers are 32 bits wide); 0 has none, as getNumDigits returns for it.
WholeDigits(v) ==
    IF v = 0 THEN 0 ELSE CHOOSE n \in 1..9 : 10^(n - 1) <= v /\ v < 10^n

Init == f \in Inputs /\ out = NoString

\* The call returns a formatted string.
Format ==
    /\ out = NoString
    /\ out' \in FormatWithDigits(f, WholeDigits(TruncToInt(f)))
    /\ UNCHANGED f

Spec == Init /\ [][Format]_<<f, out>> /\ WF_<<f, out>>(Format)
=============================================================================
