--------------------------- MODULE MCKMailSystem ---------------------------
(* KMailSystem on small instances: the values of its constants.            *)
EXTENDS KMailSystem, TLC

CONSTANTS m1, m2
=============================================================================
