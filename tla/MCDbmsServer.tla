---------------------------- MODULE MCDbmsServer ----------------------------
(* Instances of DbmsServer for TLC.                                        *)
EXTENDS ServerRefinement, TLC

CONSTANTS c1, c2, c3

Two      == {c1, c2}
Swaps    == Permutations(Conns)
=============================================================================
