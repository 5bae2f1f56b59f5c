----------------------------- MODULE SeatLedger -----------------------------
(***************************************************************************)
(* What a device-seat licence promises (the seat rules of activate() in    *)
(* src/services/machine.ts, with no transactions): devices take and free   *)
(* seats one at a time, a seat that was never taken is free of charge, and *)
(* only when every seat has been taken once is another activation a move.  *)
(***************************************************************************)
EXTENDS Naturals, FiniteSets

CONSTANT Device

VARIABLES
    limit,    \* seats of the entitlement
    seated,   \* devices that hold a seat
    opened,   \* activations that filled a never-used seat
    moved     \* activations that re-used a released one

Init ==
    /\ limit \in Nat \ {0}
    /\ seated = {}
    /\ opened = 0
    /\ moved = 0

Take(d) ==
    /\ d \notin seated
    /\ Cardinality(seated) < limit
    /\ seated' = seated \cup {d}
    /\ IF opened < limit
       THEN opened' = opened + 1 /\ UNCHANGED moved
       ELSE moved' = moved + 1 /\ UNCHANGED opened
    /\ UNCHANGED limit

Free(d) ==
    /\ seated' = seated \ {d}
    /\ UNCHANGED <<limit, opened, moved>>

Resize ==
    /\ limit' \in Nat \ {0}
    /\ UNCHANGED <<seated, opened, moved>>

Next ==
    \/ \E d \in Device : Take(d) \/ Free(d)
    \/ Resize

Spec == Init /\ [][Next]_<<limit, seated, opened, moved>>
=============================================================================
