--------------------------- MODULE MCKMailService ---------------------------
(* KMailService on small instances: the values of its constants.           *)
EXTENDS KMailProperties, TLC

CONSTANTS m1, m2

TwoItems == {m1, m2}
Symmetry == Permutations(TwoItems)
=============================================================================
