---------------------------- MODULE MCDaoCoinOrders ----------------------------
(***************************************************************************)
(* DaoCoinOrders at a scale TLC can hold.  The code's 10^9 / 10^18 / 10^38 *)
(* / 15 digits / uint256 become 10^1 / 10^3 / 10^4 / 2 digits / 2^30:      *)
(* DESO quantities have fewer decimals than the float precision, DAO       *)
(* quantities more; a rate parsed from a float is a multiple of the        *)
(* DESO/DAO factor; and the uint holds about ten times OneE38^2, as 2^256  *)
(* holds about 1.16 * 10^77.                                               *)
(***************************************************************************)
EXTENDS DaoCoinOrders, TLC

\* Floats are written in units of 1/OneE38 = 10^-4.
MCPrices ==
    { 30,           \* 0.003:  below the float precision, formats to "0.00"
      1270,         \* 0.127:  "%.2f" rounds it up to 0.13
      15000,        \* 1.5
      99960,        \* 9.996:  rounds to "10.0", one more whole digit
      15670000,     \* 1567:   cut to its top two digits, 1500; times the
                    \*         DESO/DAO factor it overflows the uint
      1500000000,   \* 150000: overflows the uint once scaled by OneE38
      -5000 }       \* -0.5:   "-0.50", rejected as negative

MCQuantities ==
    { 30,           \* 0.003: zero at any scale
      1300,         \* 0.13:  1 nano (0.1 DESO) or 130 DAO base units
      127000 }      \* 12.7:  "%.0f" rounds it up to 13

MCFillAmounts == {3}

\* A DAO quantity of 0.13 (130 base units) of which the ledger fills 3 base
\* units: the remaining 0.127 displays as "0.13".  No input is a rounding tie.
MCRemainderPrices == {15000}
MCRemainderQuantities == {1300}

MCSymmetry == Permutations(OrderIds) \cup Permutations(DAOCoins)
=============================================================================
