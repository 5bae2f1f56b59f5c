------------------------------ MODULE MCSigning ------------------------------
(***************************************************************************)
(* Instances of what signs a licence and what is signed: the key registry, *)
(* and the rules for policies and claims.  They share no state, so that in *)
(* each behaviour one of them moves.  Only the registry is checked for     *)
(* deadlock: amendments come to an end.                                    *)
(***************************************************************************)
EXTENDS SigningKeys, PolicyRules, TLC

VARIABLE service

signingVars == <<service, vars, policyVars>>

SigningInit ==
    /\ service \in {"keys", "policies"}
    /\ Init /\ PolicyInit

SigningNext ==
    /\ service' = service
    /\ \/ service = "keys" /\ Next /\ UNCHANGED policyVars
       \/ service = "policies" /\ PolicyNext /\ UNCHANGED vars
       \/ service = "policies" /\ UNCHANGED <<vars, policyVars>>

SigningSpec == SigningInit /\ [][SigningNext]_signingVars

-----------------------------------------------------------------------------
(* Values of the constants                                                  *)

Community == [major |-> 1, wire |-> "community", model |-> "none", ownership |-> "individual",
              certificate |-> Null, offline |-> "indefinite"]
Business == [Community EXCEPT !.wire = "business", !.model = "device_seats"]

Policies == {Community, [Community EXCEPT !.major = 2], [Community EXCEPT !.certificate = 1],
    [Community EXCEPT !.wire = "other"], Business, [Business EXCEPT !.model = "none"],
    [Business EXCEPT !.ownership = "organisation", !.certificate = 1, !.offline = "periodic_check"]}

Perpetual == [term |-> "perpetual", length |-> Null, unit |-> Null, scales |-> FALSE, grace |-> 0]

Components == {Perpetual, [Perpetual EXCEPT !.unit = 2, !.scales = TRUE],
    [Perpetual EXCEPT !.term = "fixed_term", !.length = 3, !.unit = 1],
    [Perpetual EXCEPT !.term = "subscription", !.unit = 1, !.scales = TRUE, !.grace = 1]}

\* Both of the buyer's names are an address; a reissue gives others.
Names == {[display |-> "address", organisation |-> "address"]}

Symmetry == Permutations(SigningKey) \cup Permutations(Request)
=============================================================================
