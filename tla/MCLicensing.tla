---- MODULE MCLicensing ----
(* Small instances of Licensing for TLC. *)
EXTENDS Licensing, TLC

\* Requests, activation ids and viewers are interchangeable.
Symmetry ==
    Permutations(Request) \cup Permutations(Device) \cup Permutations(Activation)
      \cup Permutations(Viewer)
====
