--------------------------- MODULE MCFolioBilling ---------------------------
(* FolioBilling on small instances: values for the constants a .cfg cannot write. *)
EXTENDS FolioBilling, TLC

CONSTANTS w1, w2, t1, t2, t3, c1, c2, p1, none

Symmetric == Permutations(Workers) \cup Permutations(Transfers)

\* a charge that can be split, and single units
SmallWorth == [c \in Charges |-> IF c = c1 THEN 2 ELSE 1]
=============================================================================
