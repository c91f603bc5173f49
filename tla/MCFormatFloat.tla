----------------------------- MODULE MCFormatFloat -----------------------------
(***************************************************************************)
(* FormatFloat at the scale of MCDaoCoinOrders (floats in units of 10^-4,  *)
(* 2 digits of precision).                                                 *)
(***************************************************************************)
EXTENDS FormatFloat

\* Values that a read computes and a create formats: fractions, values with
\* up to six whole digits (more than the precision), round-up carries, and
\* negative values whose integer part is zero, as a price of -0.5 has.
MCInputs ==
    {k * 1237 : k \in 0..40}
    \cup {1567 * 10^j : j \in 0..5}
    \cup {99960, -5000, -30}

\* Calls with a negative whole part, as -5.0 and -12.7: what a client may send
\* as a price or a quantity.
MCNegativeInputs == {-50000, -127000, 15000}
=============================================================================
