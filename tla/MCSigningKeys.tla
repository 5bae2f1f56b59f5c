--------------------------- MODULE MCSigningKeys ---------------------------
(* Instances of SigningKeys: keys and requests are interchangeable. *)
EXTENDS SigningKeys, TLC

Symmetry == Permutations(SigningKey) \cup Permutations(Request)
=============================================================================
