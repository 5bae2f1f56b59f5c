---------------------------- MODULE MCJobOutbox ----------------------------
(* Instances of JobOutbox: invocations are interchangeable. *)
EXTENDS JobOutbox, TLC

Symmetry == Permutations(Worker)
=============================================================================
