--------------------------- MODULE MCStripeBilling ---------------------------
(* Instances of StripeBilling for TLC.                                      *)
EXTENDS StripeBilling, TLC

Symmetry == Permutations(Worker)
=============================================================================
