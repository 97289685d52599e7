--------------------------- MODULE MCRunDelivery ---------------------------
(* Small instances of RunDelivery: which control planes and boxes there    *)
(* are comes from each configuration.                                      *)
EXTENDS RunDelivery, TLC

Symmetry == Permutations(Planes) \cup Permutations(Boxes)
=============================================================================
