----------------------------- MODULE SigningProofs ----------------------------
(***************************************************************************)
(* Proofs about SigningKeys, for any number of keys, majors, requests and  *)
(* releases, and about PolicyRules, for any editions, components and       *)
(* quantities.                                                             *)
(*                                                                         *)
(* The limit on signatures is kept by a count that one step makes and a    *)
(* later one relies on. Inv says why that is sound: between the two the    *)
(* transaction holds the lock of the major (Granting), every other grant   *)
(* for the major needs that lock, and what else may happen - a retirement, *)
(* a withdrawal - only lowers the count. Retiring says the same of the     *)
(* status a retirement has read.                                           *)
(*                                                                         *)
(* That a licence which is sold can be signed depends on the policy it was *)
(* sold under, whose snapshot the licence keeps: Signable says what of the *)
(* rules for policies the snapshot still shows, and PolicyInv that it does *)
(* so for every licence.                                                   *)
(***************************************************************************)
EXTENDS SigningKeys, PolicyRules, FiniteSetTheorems, TLAPS

\* A transaction past its check holds its major, and what it found still holds.
GrantingAt(r) ==
    At(r, "checked", Eligibility) \/ At(r, "written", Eligibility) =>
      /\ majorLock[MajorOf(r)] = r
      /\ trust[PairOf(r)] # NoTrust
      /\ tx[r].call.op = "eligible" =>
           /\ Covers(tx[r].read, minimum[MajorOf(r)])
           /\ Cardinality(EligibleFor(MajorOf(r)) \ {KeyOf(r)}) + 1 <= MaxSignatures

Granting == \A r \in Request : GrantingAt(r)

\* A retirement past its check holds its key, whose status is the one it read.
RetiringAt(r) ==
    At(r, "checked", Retirement) \/ At(r, "cleared", Retirement) =>
      keyLock[KeyOf(r)] = r /\ Retirable(r)

Retiring == \A r \in Request : RetiringAt(r)

\* What a retirement found is so for as long as nothing is committed.
AloneAt(r) == At(r, "cleared", {"retire"}) /\ tx[r].alone => ~Strands(KeyOf(r))

Alone == \A r \in Request : AloneAt(r)

Inv == TypeOK /\ Granting /\ Retiring /\ SignatureLimit

\* The fields of a call.
LEMMA CallFields ==
    \A c \in Call :
      /\ c.key \in SigningKey
      /\ c.op \in {"trust"} \cup Eligibility => c.major \in Major
      /\ c.op = "trust" => c.interval \in Interval
  BY DEF Call, Eligibility

\* A transaction that stands somewhere has a call.
LEMMA Standing_ ==
    ASSUME TypeOK, NEW r \in Request, tx[r].pc # "idle"
    PROVE  /\ tx[r] \in Transaction
           /\ tx[r].call \in Call
           /\ KeyOf(r) \in SigningKey
           /\ tx[r].call.op \in {"trust"} \cup Eligibility =>
                MajorOf(r) \in Major /\ PairOf(r) \in Pair
<1>1. tx[r] \in Transaction
  BY DEF TypeOK, Idle
<1>2. tx[r].call \in Call
  BY <1>1 DEF Transaction
<1> QED BY <1>1, <1>2, CallFields DEF KeyOf, MajorOf, PairOf, Pair

\* A recorded interval is not the absence of one.
LEMMA IntervalIsTrust == \A i \in Interval : i # NoTrust
<1>1. ASSUME NEW i \in Interval PROVE i.since # NoRelease
  <2>1. i.since \in Since
    BY <1>1 DEF Interval
  <2> QED BY <2>1, SigningAssumption DEF SigningAssumption
<1>2. NoTrust.since = NoRelease
  BY DEF NoTrust
<1> QED BY <1>1, <1>2

\* The eligible keys of a major are finitely many, before and after any step.
LEMMA EligibleFinite ==
    \A m : IsFiniteSet(EligibleFor(m)) /\ IsFiniteSet(EligibleFor(m)')
  BY SigningAssumption, FS_Subset DEF EligibleFor, SigningAssumption

\* Freeing the locks of one transaction takes none from another.
LEMMA FreedLock ==
    ASSUME NEW S, NEW lock \in [S -> Request \cup {Nobody}], NEW r \in Request
    PROVE  /\ Freed(lock, r) \in [S -> Request \cup {Nobody}]
           /\ \A x \in S, s \in Request \ {r} : lock[x] = s => Freed(lock, r)[x] = s
           /\ \A x \in S : Freed(lock, r)[x] \in {Nobody, lock[x]}
  BY DEF Freed

\* Unlocking keeps the types of the locks.
LEMMA UnlockType ==
    ASSUME TypeOK, NEW r \in Request, Unlock(r)
    PROVE  /\ keyLock' \in [SigningKey -> Request \cup {Nobody}]
           /\ majorLock' \in [Major -> Request \cup {Nobody}]
           /\ rowLock' \in [Pair -> Request \cup {Nobody}]
           /\ \A k \in SigningKey, s \in Request \ {r} : keyLock[k] = s => keyLock'[k] = s
           /\ \A m \in Major, s \in Request \ {r} : majorLock[m] = s => majorLock'[m] = s
  BY FreedLock DEF Unlock, TypeOK

\* Interrupting the others changes where they stand in nothing but the history.
LEMMA InterruptType ==
    ASSUME TypeOK, NEW D \in SUBSET Request, Interrupt(D)
    PROVE  /\ tx' \in [Request -> Transaction \cup {Idle}]
           /\ \A s \in D : tx'[s] = Idle
           /\ \A s \in Request \ D :
                /\ tx'[s].pc = tx[s].pc
                /\ tx[s].pc # "idle" => tx'[s].call = tx[s].call /\ tx'[s].read = tx[s].read
<1>1. ASSUME NEW s \in Request, tx[s].pc = "cleared"
      PROVE  /\ [tx[s] EXCEPT !.alone = FALSE] \in Transaction
             /\ [tx[s] EXCEPT !.alone = FALSE].pc = tx[s].pc
             /\ [tx[s] EXCEPT !.alone = FALSE].call = tx[s].call
             /\ [tx[s] EXCEPT !.alone = FALSE].read = tx[s].read
  <2>1. tx[s] \in Transaction BY <1>1, Standing_
  <2> QED BY <2>1 DEF Transaction
<1> QED BY <1>1 DEF Interrupt, TypeOK

-----------------------------------------------------------------------------
(* Types                                                                    *)

\* Every step keeps the types, given what a grant knows of its row.
LEMMA StepTypes == TypeOK /\ Granting /\ [Next]_vars => TypeOK'
<1> SUFFICES ASSUME TypeOK, Granting, [Next]_vars PROVE TypeOK' OBVIOUS
<1>1. ASSUME NEW k \in SigningKey, StoreKey(k) \/ Publish(k) PROVE TypeOK'
  <2>1. Interrupt({}) /\ status' \in [SigningKey -> KeyStatus]
    BY <1>1 DEF StoreKey, Publish, TypeOK, KeyStatus
  <2> QED BY <1>1, <2>1, InterruptType DEF StoreKey, Publish, TypeOK, Locks
<1>2. ASSUME NEW m \in Major, NEW v \in Release, SaveRelease(m, v) PROVE TypeOK'
  BY <1>2, InterruptType DEF SaveRelease, TypeOK, Locks
<1>3. ASSUME NEW r \in Request, NEW c \in Call, Begin(r, c) PROVE TypeOK'
  <2>1. Asked(c) \in Transaction
    BY DEF Asked, Transaction
  <2> QED BY <1>3, <2>1 DEF Begin, TypeOK, Locks
<1>4. ASSUME NEW r \in Request, WriteTrust(r) \/ WriteEligibility(r) PROVE TypeOK'
  <2>1. tx[r].pc # "idle" /\ PairOf(r) \in Pair
    BY <1>4, Standing_ DEF WriteTrust, WriteEligibility, At
  <2>2. tx[r] \in Transaction BY <2>1, Standing_
  <2>3. \A f \in BOOLEAN : [tx[r] EXCEPT !.pc = "written", !.first = f] \in Transaction
    BY <2>2 DEF Transaction
  <2>4. [tx[r] EXCEPT !.pc = "written"] \in Transaction
    BY <2>2 DEF Transaction
  <2>5. tx' \in [Request -> Transaction \cup {Idle}]
    BY <1>4, <2>3, <2>4 DEF WriteTrust, WriteEligibility, Step, TypeOK
  <2> QED BY <1>4, <2>1, <2>5 DEF WriteTrust, WriteEligibility, TypeOK
<1>5. ASSUME NEW r \in Request, CommitTrust(r) PROVE TypeOK'
  <2>1. tx[r].pc # "idle" /\ tx[r].call.interval \in Interval /\ PairOf(r) \in Pair
    BY <1>5, Standing_, CallFields DEF CommitTrust, At
  <2>2. trust' \in [Pair -> Interval \cup {NoTrust}] /\ \A p \in Pair : trust[p] # NoTrust => trust'[p] # NoTrust
    BY <1>5, <2>1, IntervalIsTrust DEF CommitTrust, TypeOK
  <2> QED BY <1>5, <2>2, InterruptType, UnlockType DEF CommitTrust, Commit, TypeOK
<1>6. ASSUME NEW r \in Request, CheckEligibility(r) \/ LockKey(r) \/ CheckStranded(r) PROVE TypeOK'
  <2>1. tx[r].pc # "idle"
    BY <1>6 DEF CheckEligibility, LockKey, CheckStranded, At
  <2>2. tx[r] \in Transaction BY <2>1, Standing_
  <2>a. CheckEligibility(r) => trust[PairOf(r)] \in Interval \cup {NoTrust}
    BY <2>1, Standing_ DEF CheckEligibility, At, TypeOK
  <2>3. /\ [tx[r] EXCEPT !.pc = "checked"] \in Transaction
        /\ CheckEligibility(r) =>
             [tx[r] EXCEPT !.pc = "checked", !.read = trust[PairOf(r)]] \in Transaction
        /\ [tx[r] EXCEPT !.pc = "cleared", !.alone = TRUE] \in Transaction
    BY <2>2, <2>a DEF Transaction
  <2>4. tx' \in [Request -> Transaction \cup {Idle}]
    BY <1>6, <2>3 DEF CheckEligibility, ReadRow, LockKey, CheckStranded, Step, TypeOK
  <2> QED BY <1>6, <2>4 DEF CheckEligibility, LockKey, CheckStranded, TypeOK, Locks
<1>7. ASSUME NEW r \in Request, Refuse(r) PROVE TypeOK'
  BY <1>7, UnlockType DEF Refuse, TypeOK
<1>8. ASSUME NEW r \in Request, CommitEligibility(r) PROVE TypeOK'
  <2>1. PairOf(r) \in Pair /\ trust[PairOf(r)] # NoTrust
    BY <1>8, Standing_ DEF CommitEligibility, At, Granting, GrantingAt
  <2>2. eligible' \subseteq {p \in Pair : trust'[p] # NoTrust}
    BY <1>8, <2>1 DEF CommitEligibility, TypeOK
  <2> QED BY <1>8, <2>2, InterruptType, UnlockType DEF CommitEligibility, Commit, TypeOK
<1>9. ASSUME NEW r \in Request, CommitRetirement(r) PROVE TypeOK'
  <2>1. status' \in [SigningKey -> KeyStatus]
    BY <1>9 DEF CommitRetirement, TypeOK, KeyStatus
  <2> QED BY <1>9, <2>1, InterruptType, UnlockType DEF CommitRetirement, Commit, TypeOK
<1>10. CASE UNCHANGED vars
  BY <1>10 DEF vars, TypeOK
<1> QED
  BY <1>1, <1>2, <1>3, <1>4, <1>5, <1>6, <1>7, <1>8, <1>9, <1>10
  DEF Next, Proceed, RefuseEligibility, RefuseRetired, RefuseStranded, Abort

-----------------------------------------------------------------------------
(* The invariant                                                            *)

\* The first state.
LEMMA InitInv == Init => Inv
<1> SUFFICES ASSUME Init PROVE Inv OBVIOUS
<1>1. TypeOK
  BY DEF Init, TypeOK, KeyStatus, Locks
<1>2. Granting /\ Retiring
  BY DEF Init, Granting, Retiring, GrantingAt, RetiringAt, At, Idle
<1>3. ASSUME NEW m \in Major PROVE Cardinality(EligibleFor(m)) <= MaxSignatures
  <2>1. EligibleFor(m) = {}
    BY DEF Init, EligibleFor
  <2> QED BY <2>1, FS_EmptySet, SigningAssumption DEF SigningAssumption
<1> QED BY <1>1, <1>2, <1>3 DEF Inv, SignatureLimit

\* A major that has gained no eligible key has no more of them.
LEMMA NoMore ==
    ASSUME NEW m, EligibleFor(m)' \subseteq EligibleFor(m)
    PROVE  /\ Cardinality(EligibleFor(m)') <= Cardinality(EligibleFor(m))
           /\ \A k : Cardinality(EligibleFor(m)' \ {k}) <= Cardinality(EligibleFor(m) \ {k})
<1>1. Cardinality(EligibleFor(m)') <= Cardinality(EligibleFor(m))
  BY EligibleFinite, FS_Subset
<1>2. ASSUME NEW k
      PROVE  Cardinality(EligibleFor(m)' \ {k}) <= Cardinality(EligibleFor(m) \ {k})
  <2>1. IsFiniteSet(EligibleFor(m) \ {k})
    BY EligibleFinite, FS_Subset
  <2> QED BY <2>1, FS_Subset
<1> QED BY <1>1, <1>2

\* Counts are numbers.
LEMMA CountIsNat ==
    \A m, k : /\ Cardinality(EligibleFor(m)) \in Nat
              /\ Cardinality(EligibleFor(m) \ {k}) \in Nat
              /\ Cardinality(EligibleFor(m)') \in Nat
              /\ Cardinality(EligibleFor(m)' \ {k}) \in Nat
  BY EligibleFinite, FS_Subset, FS_CardinalityType

\* A transaction that a step leaves where it stands keeps what it relies on, if the
\* step takes none of its locks and changes nothing of what they protect.
LEMMA Kept ==
    ASSUME TypeOK, NEW s \in Request,
           tx'[s].pc = tx[s].pc,
           tx[s].pc # "idle" => tx'[s].call = tx[s].call /\ tx'[s].read = tx[s].read,
           \A k \in SigningKey : keyLock[k] = s =>
             keyLock'[k] = s /\ status'[k] \in {status[k], "generated"},
           \A m \in Major : majorLock[m] = s =>
             /\ majorLock'[m] = s /\ minimum'[m] = minimum[m]
             /\ EligibleFor(m)' \subseteq EligibleFor(m),
           \A p \in Pair : trust[p] # NoTrust => trust'[p] # NoTrust
    PROVE  (GrantingAt(s) => GrantingAt(s)') /\ (RetiringAt(s) => RetiringAt(s)')
<1>1. ASSUME GrantingAt(s) PROVE GrantingAt(s)'
  <2> SUFFICES ASSUME At(s, "checked", Eligibility)' \/ At(s, "written", Eligibility)'
      PROVE  /\ (majorLock[MajorOf(s)] = s)'
             /\ (trust[PairOf(s)] # NoTrust)'
             /\ (tx[s].call.op = "eligible" =>
                  /\ Covers(tx[s].read, minimum[MajorOf(s)])
                  /\ Cardinality(EligibleFor(MajorOf(s)) \ {KeyOf(s)}) + 1 <= MaxSignatures)'
    BY DEF GrantingAt
  <2>1. tx'[s].call = tx[s].call /\ tx'[s].read = tx[s].read /\ tx[s].call.op \in Eligibility
        /\ (At(s, "checked", Eligibility) \/ At(s, "written", Eligibility))
    BY DEF At
  <2>2. tx[s].pc # "idle" BY <2>1 DEF At
  <2>3. MajorOf(s) \in Major /\ PairOf(s) \in Pair
    BY <2>1, <2>2, Standing_
  <2>4. majorLock[MajorOf(s)] = s /\ trust[PairOf(s)] # NoTrust
    BY <1>1, <2>1 DEF GrantingAt
  <2>5. MajorOf(s)' = MajorOf(s) /\ KeyOf(s)' = KeyOf(s) /\ PairOf(s)' = PairOf(s)
    BY <2>1 DEF MajorOf, KeyOf, PairOf
  <2>6. ASSUME tx[s].call.op = "eligible"
        PROVE  /\ Covers(tx[s].read, minimum'[MajorOf(s)])
               /\ (Cardinality(EligibleFor(MajorOf(s)) \ {KeyOf(s)}) + 1 <= MaxSignatures)'
    <3>1. /\ Covers(tx[s].read, minimum[MajorOf(s)])
          /\ Cardinality(EligibleFor(MajorOf(s)) \ {KeyOf(s)}) + 1 <= MaxSignatures
      BY <1>1, <2>1, <2>6 DEF GrantingAt
    <3>2. PICK m \in Major : m = MajorOf(s)
      BY <2>3
    <3>3. minimum'[m] = minimum[m] /\ EligibleFor(m)' \subseteq EligibleFor(m)
      BY <2>4, <3>2
    <3>4. Cardinality(EligibleFor(m)' \ {KeyOf(s)}) <= Cardinality(EligibleFor(m) \ {KeyOf(s)})
      BY <3>3, NoMore
    <3>5. Cardinality(EligibleFor(m)' \ {KeyOf(s)}) + 1 <= MaxSignatures
      <4> DEFINE before == Cardinality(EligibleFor(m) \ {KeyOf(s)})
                 after == Cardinality(EligibleFor(m)' \ {KeyOf(s)})
      <4>1. before \in Nat /\ after \in Nat
        BY CountIsNat
      <4>2. before + 1 <= MaxSignatures /\ after <= before
        BY <3>1, <3>2, <3>4
      <4>3. MaxSignatures \in Nat
        BY SigningAssumption DEF SigningAssumption
      <4> HIDE DEF before, after
      <4>4. after + 1 <= MaxSignatures
        BY <4>1, <4>2, <4>3
      <4> QED BY <4>4 DEF after
    <3>6. (EligibleFor(MajorOf(s)) \ {KeyOf(s)})' = EligibleFor(m)' \ {KeyOf(s)}
      BY <2>5, <3>2 DEF EligibleFor
    <3> QED BY <3>1, <3>2, <3>3, <3>5, <3>6
  <2> QED BY <2>1, <2>3, <2>4, <2>5, <2>6
<1>2. ASSUME RetiringAt(s) PROVE RetiringAt(s)'
  <2> SUFFICES ASSUME At(s, "checked", Retirement)' \/ At(s, "cleared", Retirement)'
      PROVE  keyLock'[KeyOf(s)'] = s /\ Retirable(s)'
    BY DEF RetiringAt
  <2>1. tx'[s].call = tx[s].call
        /\ (At(s, "checked", Retirement) \/ At(s, "cleared", Retirement))
    BY DEF At
  <2>2. tx[s].pc # "idle" BY <2>1 DEF At
  <2>3. KeyOf(s) \in SigningKey /\ KeyOf(s)' = KeyOf(s)
    BY <2>1, <2>2, Standing_ DEF KeyOf
  <2>4. keyLock[KeyOf(s)] = s /\ Retirable(s)
    BY <1>2, <2>1 DEF RetiringAt
  <2> QED BY <2>1, <2>3, <2>4 DEF Retirable
<1> QED BY <1>1, <1>2

\* A transaction that is not in flight relies on nothing.
LEMMA Gone ==
    ASSUME NEW s \in Request, tx'[s] = Idle \/ tx'[s].pc = "asked"
    PROVE  GrantingAt(s)' /\ RetiringAt(s)'
  BY DEF GrantingAt, RetiringAt, At, Idle

\* Every step keeps what the transactions in flight rely on.
LEMMA StepRelies == Inv /\ [Next]_vars => Granting' /\ Retiring'
<1> SUFFICES ASSUME Inv, [Next]_vars, NEW s \in Request PROVE GrantingAt(s)' /\ RetiringAt(s)'
  BY DEF Granting, Retiring
<1>0. TypeOK /\ GrantingAt(s) /\ RetiringAt(s)
  BY DEF Inv, Granting, Retiring
<1>a. s # Nobody
  BY SigningAssumption DEF SigningAssumption
<1>1. ASSUME NEW k \in SigningKey, StoreKey(k) PROVE GrantingAt(s)' /\ RetiringAt(s)'
  <2>1. tx'[s].pc = tx[s].pc /\ (tx[s].pc # "idle" => tx'[s].call = tx[s].call /\ tx'[s].read = tx[s].read)
    BY <1>0, <1>1, InterruptType DEF StoreKey
  <2>2. \A j \in SigningKey : status'[j] \in {status[j], "generated"}
    BY <1>0, <1>1 DEF StoreKey, TypeOK
  <2>3. UNCHANGED <<trust, eligible, minimum, keyLock, majorLock>>
    BY <1>1 DEF StoreKey, Locks
  <2> QED BY <1>0, <2>1, <2>2, <2>3, Kept DEF EligibleFor
<1>2. ASSUME NEW k \in SigningKey, Publish(k) PROVE GrantingAt(s)' /\ RetiringAt(s)'
  <2>1. tx'[s].pc = tx[s].pc /\ (tx[s].pc # "idle" => tx'[s].call = tx[s].call /\ tx'[s].read = tx[s].read)
    BY <1>0, <1>2, InterruptType DEF Publish
  <2>2. \A j \in SigningKey : keyLock[j] = s => status'[j] = status[j]
    BY <1>0, <1>2, <1>a DEF Publish, TypeOK
  <2>3. UNCHANGED <<trust, eligible, minimum, keyLock, majorLock>>
    BY <1>2 DEF Publish, Locks
  <2> QED BY <1>0, <2>1, <2>2, <2>3, Kept DEF EligibleFor
<1>3. ASSUME NEW m \in Major, NEW v \in Release, SaveRelease(m, v) PROVE GrantingAt(s)' /\ RetiringAt(s)'
  <2>1. tx'[s].pc = tx[s].pc /\ (tx[s].pc # "idle" => tx'[s].call = tx[s].call /\ tx'[s].read = tx[s].read)
    BY <1>0, <1>3, InterruptType DEF SaveRelease
  <2>2. \A n \in Major : majorLock[n] = s => minimum'[n] = minimum[n]
    BY <1>0, <1>3, <1>a DEF SaveRelease, TypeOK
  <2>3. UNCHANGED <<status, trust, eligible, keyLock, majorLock>>
    BY <1>3 DEF SaveRelease, Locks
  <2> QED BY <1>0, <2>1, <2>2, <2>3, Kept DEF EligibleFor
<1>4. ASSUME NEW r \in Request, NEW c \in Call, Begin(r, c) PROVE GrantingAt(s)' /\ RetiringAt(s)'
  <2>1. UNCHANGED <<status, trust, eligible, minimum, keyLock, majorLock>>
    BY <1>4 DEF Begin, Locks
  <2>2. CASE s = r
    BY <1>0, <1>4, <2>2, Gone DEF Begin, Asked, TypeOK
  <2>3. CASE s # r
    <3>1. tx'[s] = tx[s]
      BY <1>0, <1>4, <2>3 DEF Begin, TypeOK
    <3> QED BY <1>0, <2>1, <3>1, Kept DEF EligibleFor
  <2> QED BY <2>2, <2>3
<1>5. ASSUME NEW r \in Request, WriteTrust(r) \/ WriteEligibility(r) \/ CheckStranded(r)
      PROVE GrantingAt(s)' /\ RetiringAt(s)'
  <2>1. UNCHANGED <<status, trust, eligible, minimum, keyLock, majorLock>>
    BY <1>5 DEF WriteTrust, WriteEligibility, CheckStranded, Locks
  <2>2. CASE s # r
    <3>1. tx'[s] = tx[s]
      BY <1>0, <1>5, <2>2 DEF WriteTrust, WriteEligibility, CheckStranded, Step, TypeOK
    <3> QED BY <1>0, <2>1, <3>1, Kept DEF EligibleFor
  <2>3. CASE s = r
    <3>1. tx[r].pc # "idle" BY <1>5 DEF WriteTrust, WriteEligibility, CheckStranded, At
    <3>2. tx[r] \in Transaction BY <1>0, <3>1, Standing_
    <3>3. CASE WriteTrust(r)
      <4>1. tx'[r].call = tx[r].call /\ tx[r].call.op = "trust"
        BY <1>0, <3>2, <3>3 DEF WriteTrust, At, TypeOK, Transaction
      <4> QED BY <2>3, <4>1 DEF GrantingAt, RetiringAt, At, Eligibility, Retirement
    <3>4. CASE WriteEligibility(r)
      <4>1. tx'[r].call = tx[r].call /\ tx'[r].read = tx[r].read /\ tx'[r].pc = "written"
            /\ tx[r].call.op \in Eligibility /\ tx[r].pc = "checked"
        BY <1>0, <3>2, <3>4 DEF WriteEligibility, Step, At, TypeOK, Transaction
      <4>2. RetiringAt(r)'
        BY <4>1 DEF RetiringAt, At
      <4>3. GrantingAt(r)'
        BY <1>0, <2>1, <2>3, <4>1 DEF GrantingAt, At, MajorOf, KeyOf, PairOf, EligibleFor
      <4> QED BY <2>3, <4>2, <4>3
    <3>5. CASE CheckStranded(r)
      <4>1. tx'[r].call = tx[r].call /\ tx'[r].pc = "cleared"
            /\ tx[r].call.op = "retire" /\ tx[r].pc = "checked"
        BY <1>0, <3>2, <3>5 DEF CheckStranded, At, TypeOK, Transaction
      <4>2. GrantingAt(r)'
        BY <4>1 DEF GrantingAt, At
      <4>3. RetiringAt(r)'
        BY <1>0, <2>1, <2>3, <4>1 DEF RetiringAt, Retirable, At, KeyOf, Retirement
      <4> QED BY <2>3, <4>2, <4>3
    <3> QED BY <1>5, <3>3, <3>4, <3>5
  <2> QED BY <2>2, <2>3
<1>6. ASSUME NEW r \in Request, CheckEligibility(r) PROVE GrantingAt(s)' /\ RetiringAt(s)'
  <2>1. UNCHANGED <<status, trust, eligible, minimum, keyLock>>
    BY <1>6 DEF CheckEligibility
  <2>2. tx[r].pc = "asked" /\ tx[r].call.op \in Eligibility /\ tx[r] \in Transaction
    BY <1>0, <1>6, Standing_ DEF CheckEligibility, At
  <2>3. MajorOf(r) \in Major
    BY <1>0, <2>2, Standing_
  <2>4. CASE s # r
    <3>1. tx'[s] = tx[s]
      BY <1>0, <1>6, <2>4 DEF CheckEligibility, ReadRow, TypeOK
    <3>2. \A n \in Major : majorLock[n] = s => majorLock'[n] = s
      BY <1>0, <1>6, <1>a, <2>3 DEF CheckEligibility, TypeOK
    <3> QED BY <1>0, <2>1, <3>1, <3>2, Kept DEF EligibleFor
  <2>5. CASE s = r
    <3>1. tx'[r].call = tx[r].call
      BY <1>0, <1>6, <2>2 DEF CheckEligibility, ReadRow, TypeOK, Transaction
    <3>2. RetiringAt(r)'
      BY <2>2, <3>1 DEF RetiringAt, At, Eligibility, Retirement
    <3>3. majorLock'[MajorOf(r)] = r
      BY <1>0, <1>6, <2>3 DEF CheckEligibility, TypeOK
    <3>4. tx'[r].read = trust[PairOf(r)]
      BY <1>0, <1>6, <2>2 DEF CheckEligibility, ReadRow, TypeOK, Transaction
    <3>5. tx[r].call.op = "eligible" => Covers(tx'[r].read, minimum[MajorOf(r)])
      BY <1>6, <3>4 DEF CheckEligibility, Grantable, Unblocked, MajorOf, KeyOf, PairOf
    <3>6. GrantingAt(r)'
      BY <1>6, <2>1, <3>1, <3>3, <3>5
      DEF CheckEligibility, Grantable, GrantingAt, MajorOf, KeyOf, PairOf, EligibleFor
    <3> QED BY <2>5, <3>2, <3>6
  <2> QED BY <2>4, <2>5
<1>7. ASSUME NEW r \in Request, LockKey(r) PROVE GrantingAt(s)' /\ RetiringAt(s)'
  <2>1. UNCHANGED <<status, trust, eligible, minimum, majorLock>>
    BY <1>7 DEF LockKey
  <2>2. tx[r].pc = "asked" /\ tx[r].call.op \in Retirement /\ tx[r] \in Transaction /\ KeyOf(r) \in SigningKey
    BY <1>0, <1>7, Standing_ DEF LockKey, At
  <2>3. CASE s # r
    <3>1. tx'[s] = tx[s]
      BY <1>0, <1>7, <2>3 DEF LockKey, Step, TypeOK
    <3>2. \A k \in SigningKey : keyLock[k] = s => keyLock'[k] = s
      BY <1>0, <1>7, <1>a, <2>2 DEF LockKey, TypeOK
    <3> QED BY <1>0, <2>1, <3>1, <3>2, Kept DEF EligibleFor
  <2>4. CASE s = r
    <3>1. tx'[r].call = tx[r].call
      BY <1>0, <1>7, <2>2 DEF LockKey, Step, TypeOK, Transaction
    <3>2. GrantingAt(r)'
      BY <2>2, <3>1 DEF GrantingAt, At, Eligibility, Retirement
    <3>3. keyLock'[KeyOf(r)] = r
      BY <1>0, <1>7, <2>2 DEF LockKey, TypeOK
    <3>4. RetiringAt(r)'
      BY <1>7, <2>1, <3>1, <3>3 DEF LockKey, Retirable, RetiringAt, KeyOf
    <3> QED BY <2>4, <3>2, <3>4
  <2> QED BY <2>3, <2>4
<1>8. ASSUME NEW r \in Request, Refuse(r) PROVE GrantingAt(s)' /\ RetiringAt(s)'
  <2>1. CASE s = r
    BY <1>0, <1>8, <2>1, Gone DEF Refuse, TypeOK
  <2>2. CASE s # r
    <3>1. tx'[s] = tx[s] /\ UNCHANGED <<status, trust, eligible, minimum>> /\ Unlock(r)
      BY <1>0, <1>8, <2>2 DEF Refuse, TypeOK
    <3>2. /\ \A k \in SigningKey : keyLock[k] = s => keyLock'[k] = s
          /\ \A m \in Major : majorLock[m] = s => majorLock'[m] = s
      BY <1>0, <2>2, <3>1, UnlockType
    <3> QED BY <1>0, <3>1, <3>2, Kept DEF EligibleFor
  <2> QED BY <2>1, <2>2
<1>9. ASSUME NEW r \in Request, Commit(r), s = r PROVE GrantingAt(s)' /\ RetiringAt(s)'
  BY <1>0, <1>9, InterruptType, Gone DEF Commit
<1>10. ASSUME NEW r \in Request, Commit(r), s # r
       PROVE  /\ tx'[s].pc = tx[s].pc /\ (tx[s].pc # "idle" => tx'[s].call = tx[s].call /\ tx'[s].read = tx[s].read)
              /\ \A k \in SigningKey : keyLock[k] = s => keyLock'[k] = s
              /\ \A m \in Major : majorLock[m] = s => majorLock'[m] = s
  BY <1>0, <1>10, InterruptType, UnlockType DEF Commit
<1>11. ASSUME NEW r \in Request, CommitTrust(r) PROVE GrantingAt(s)' /\ RetiringAt(s)'
  <2>1. Commit(r) /\ UNCHANGED <<status, eligible, minimum>>
    BY <1>11 DEF CommitTrust
  <2>2. tx[r].pc # "idle" /\ tx[r].call.interval \in Interval /\ PairOf(r) \in Pair
    BY <1>0, <1>11, Standing_, CallFields DEF CommitTrust, At
  <2>3. \A p \in Pair : trust[p] # NoTrust => trust'[p] # NoTrust
    BY <1>0, <1>11, <2>2, IntervalIsTrust DEF CommitTrust, TypeOK
  <2>4. CASE s # r
    BY <1>0, <1>10, <2>1, <2>3, <2>4, Kept DEF EligibleFor
  <2> QED BY <1>9, <2>1, <2>4
<1>12. ASSUME NEW r \in Request, CommitEligibility(r) PROVE GrantingAt(s)' /\ RetiringAt(s)'
  <2>1. Commit(r) /\ UNCHANGED <<status, trust, minimum>>
    BY <1>12 DEF CommitEligibility
  <2>2. majorLock[MajorOf(r)] = r
    BY <1>12 DEF CommitEligibility, Inv, Granting, GrantingAt
  <2>3. CASE s # r
    <3>1. \A m \in Major : majorLock[m] = s => EligibleFor(m)' \subseteq EligibleFor(m)
      BY <1>12, <2>2, <2>3 DEF CommitEligibility, EligibleFor, PairOf
    <3> QED BY <1>0, <1>10, <2>1, <2>3, <3>1, Kept
  <2> QED BY <1>9, <2>1, <2>3
<1>13. ASSUME NEW r \in Request, CommitRetirement(r) PROVE GrantingAt(s)' /\ RetiringAt(s)'
  <2>1. Commit(r) /\ UNCHANGED <<trust, minimum>> /\ eligible' \subseteq eligible
    BY <1>13 DEF CommitRetirement
  <2>2. keyLock[KeyOf(r)] = r
    BY <1>13 DEF CommitRetirement, Inv, Retiring, RetiringAt, At, Retirement
  <2>3. CASE s # r
    <3>1. \A k \in SigningKey : keyLock[k] = s => status'[k] = status[k]
      BY <1>0, <1>13, <2>2, <2>3 DEF CommitRetirement, TypeOK
    <3> QED BY <1>0, <1>10, <2>1, <2>3, <3>1, Kept DEF EligibleFor
  <2> QED BY <1>9, <2>1, <2>3
<1>14. CASE UNCHANGED vars
  BY <1>0, <1>14, Kept DEF vars, EligibleFor
<1> QED
  BY <1>1, <1>2, <1>3, <1>4, <1>5, <1>6, <1>7, <1>8, <1>11, <1>12, <1>13, <1>14
  DEF Next, Proceed, RefuseEligibility, RefuseRetired, RefuseStranded, Abort

\* The eligible keys of a major grow in no step but a grant.
LEMMA OnlyGrants ==
    ASSUME [Next]_vars, NEW p, p \in eligible', p \notin eligible
    PROVE  \E r \in Request : CommitEligibility(r) /\ tx[r].call.op = "eligible" /\ p = PairOf(r)
<1>1. PICK r \in Request : CommitEligibility(r)
  BY DEF Next, Proceed, vars, StoreKey, Publish, SaveRelease, Begin, WriteTrust, CommitTrust,
         CheckEligibility, RefuseEligibility, WriteEligibility, LockKey, RefuseRetired,
         CheckStranded, RefuseStranded, CommitRetirement, Abort, Refuse
<1> QED BY <1>1 DEF CommitEligibility

\* Every step keeps the limit: a grant adds one key to those it counted.
LEMMA StepLimit == Inv /\ [Next]_vars => SignatureLimit'
<1> SUFFICES ASSUME Inv, [Next]_vars, NEW m \in Major
    PROVE  Cardinality(EligibleFor(m)') <= MaxSignatures
  BY DEF SignatureLimit
<1>1. MaxSignatures \in Nat
  BY SigningAssumption DEF SigningAssumption
<1>2. CASE EligibleFor(m)' \subseteq EligibleFor(m)
  <2>1. Cardinality(EligibleFor(m)') <= Cardinality(EligibleFor(m))
    BY <1>2, NoMore
  <2>2. Cardinality(EligibleFor(m)) <= MaxSignatures
    BY DEF Inv, SignatureLimit
  <2>3. Cardinality(EligibleFor(m)) \in Nat /\ Cardinality(EligibleFor(m)') \in Nat
    BY CountIsNat
  <2> QED BY <1>1, <2>1, <2>2, <2>3
<1>3. CASE ~(EligibleFor(m)' \subseteq EligibleFor(m))
  <2>1. PICK k \in SigningKey : <<k, m>> \in eligible' /\ <<k, m>> \notin eligible
    BY <1>3 DEF EligibleFor
  <2>2. PICK r \in Request : CommitEligibility(r) /\ tx[r].call.op = "eligible" /\ <<k, m>> = PairOf(r)
    BY <2>1, OnlyGrants
  <2>3. m = MajorOf(r) /\ k = KeyOf(r)
    BY <2>2 DEF PairOf
  <2>4. Cardinality(EligibleFor(m) \ {k}) + 1 <= MaxSignatures
    BY <2>2, <2>3 DEF CommitEligibility, Inv, Granting, GrantingAt
  <2>5. EligibleFor(m)' = (EligibleFor(m) \ {k}) \cup {k}
    BY <2>2, <2>3 DEF CommitEligibility, EligibleFor
  <2>6. IsFiniteSet(EligibleFor(m) \ {k})
    BY EligibleFinite, FS_Subset
  <2>7. Cardinality((EligibleFor(m) \ {k}) \cup {k}) = Cardinality(EligibleFor(m) \ {k}) + 1
    BY <2>6, FS_AddElement
  <2> QED BY <2>4, <2>5, <2>7
<1> QED BY <1>2, <1>3

\* Steps that write no key and no eligibility leave the check of a retirement true.
LEMMA StillAlone ==
    ASSUME NEW s \in Request, AloneAt(s), tx'[s] = tx[s], UNCHANGED <<status, eligible>>
    PROVE  AloneAt(s)'
  BY DEF AloneAt, At, KeyOf, Strands, Standing, EligibleFor

\* Every step keeps what a retirement that is still alone has found.
LEMMA StepAlone == TypeOK /\ Alone /\ [Next]_vars => Alone'
<1> SUFFICES ASSUME TypeOK, Alone, [Next]_vars, NEW s \in Request PROVE AloneAt(s)'
  BY DEF Alone
<1>0. AloneAt(s)
  BY DEF Alone
<1>1. ASSUME NEW D \in SUBSET Request, Interrupt(D) PROVE AloneAt(s)'
  <2>1. CASE tx[s].pc = "cleared" /\ s \notin D
    <3>1. tx[s] \in Transaction
      BY <2>1, Standing_
    <3>2. tx'[s].alone = FALSE
      BY <1>1, <2>1, <3>1 DEF Interrupt, Transaction
    <3> QED BY <3>2 DEF AloneAt
  <2>2. CASE ~(tx[s].pc = "cleared" /\ s \notin D)
    <3>1. tx'[s].pc # "cleared"
      BY <1>1, <2>2 DEF Interrupt, Idle
    <3> QED BY <3>1 DEF AloneAt, At
  <2> QED BY <2>1, <2>2
<1>2. CASE \/ \E k \in SigningKey : StoreKey(k) \/ Publish(k)
           \/ \E m \in Major, v \in Release : SaveRelease(m, v)
           \/ \E r \in Request : CommitTrust(r) \/ CommitEligibility(r) \/ CommitRetirement(r)
  BY <1>1, <1>2 DEF StoreKey, Publish, SaveRelease, CommitTrust, CommitEligibility, CommitRetirement, Commit
<1>3. ASSUME NEW r \in Request,
             UNCHANGED <<status, eligible>>,
             \A q \in Request \ {r} : tx'[q] = tx[q],
             tx'[r].pc # "cleared" \/ (At(r, "checked", {"retire"}) /\ tx'[r].call = tx[r].call /\ ~Strands(KeyOf(r)))
      PROVE  AloneAt(s)'
  <2>1. CASE s # r
    BY <1>0, <1>3, <2>1, StillAlone
  <2>2. CASE s = r /\ tx'[r].pc # "cleared"
    BY <2>2 DEF AloneAt, At
  <2>3. CASE s = r /\ At(r, "checked", {"retire"}) /\ tx'[r].call = tx[r].call /\ ~Strands(KeyOf(r))
    BY <1>3, <2>3 DEF AloneAt, KeyOf, Strands, Standing, EligibleFor
  <2> QED BY <1>3, <2>1, <2>2, <2>3
<1>4. ASSUME NEW r \in Request, NEW c \in Call, Begin(r, c) PROVE AloneAt(s)'
  <2>1. tx'[r].pc # "cleared" /\ (\A q \in Request \ {r} : tx'[q] = tx[q]) /\ UNCHANGED <<status, eligible>>
    BY <1>4 DEF Begin, Asked, TypeOK
  <2> QED BY <1>3, <2>1
<1>5. ASSUME NEW r \in Request,
             WriteTrust(r) \/ CheckEligibility(r) \/ WriteEligibility(r) \/ LockKey(r)
      PROVE AloneAt(s)'
  <2>1. tx[r] \in Transaction
    BY <1>5, Standing_ DEF WriteTrust, CheckEligibility, WriteEligibility, LockKey, At
  <2>2. tx'[r].pc # "cleared"
    BY <1>5, <2>1 DEF WriteTrust, CheckEligibility, WriteEligibility, LockKey, Step, ReadRow, TypeOK, Transaction
  <2>3. (\A q \in Request \ {r} : tx'[q] = tx[q]) /\ UNCHANGED <<status, eligible>>
    BY <1>5 DEF WriteTrust, CheckEligibility, WriteEligibility, LockKey, Step, ReadRow, TypeOK
  <2> QED BY <1>3, <2>2, <2>3
<1>6. ASSUME NEW r \in Request, CheckStranded(r) PROVE AloneAt(s)'
  <2>1. tx[r] \in Transaction
    BY <1>6, Standing_ DEF CheckStranded, At
  <2>2. tx'[r].call = tx[r].call
    BY <1>6, <2>1 DEF CheckStranded, TypeOK, Transaction
  <2>3. (\A q \in Request \ {r} : tx'[q] = tx[q]) /\ UNCHANGED <<status, eligible>>
    BY <1>6 DEF CheckStranded, TypeOK
  <2>4. At(r, "checked", {"retire"}) /\ ~Strands(KeyOf(r))
    BY <1>6 DEF CheckStranded
  <2> QED BY <1>3, <2>2, <2>3, <2>4
<1>7. ASSUME NEW r \in Request, Refuse(r) PROVE AloneAt(s)'
  <2>1. tx'[r].pc # "cleared" /\ (\A q \in Request \ {r} : tx'[q] = tx[q]) /\ UNCHANGED <<status, eligible>>
    BY <1>7 DEF Refuse, Idle, TypeOK
  <2> QED BY <1>3, <2>1
<1>8. CASE UNCHANGED vars
  BY <1>0, <1>8, StillAlone DEF vars
<1> QED
  BY <1>2, <1>4, <1>5, <1>6, <1>7, <1>8
  DEF Next, Proceed, RefuseEligibility, RefuseRetired, RefuseStranded, Abort

-----------------------------------------------------------------------------
(* Theorems                                                                 *)

\* Inv holds in every reachable state.
THEOREM Invariance == Spec => []Inv
<1>1. Inv /\ [Next]_vars => Inv'
  BY StepTypes, StepRelies, StepLimit DEF Inv
<1> QED BY <1>1, InitInv, PTL DEF Spec

\* The rows, the locks and the transactions of src/services/signing-keys.ts keep
\* their types; in particular only a recorded trust is ever eligible.
THEOREM KeyTyping == Spec => []TypeOK
  BY Invariance, PTL DEF Inv

\* setKeyEligibility() never lets a major have more eligible keys than the protocol
\* allows signatures, whatever grants, retirements and releases overlap.
THEOREM LimitHolds == Spec => []SignatureLimit
  BY Invariance, PTL DEF Inv

\* setKeyEligibility() holds the major from its check to its commit, and upsertRelease()
\* waits for it: the minimum release in force when a key becomes eligible is one that the
\* trust record read by the check covers.
THEOREM GrantsUnderMinimum == Spec => GrantedUnderMinimum
<1>1. Inv /\ [Next]_vars =>
        [\A r \in Request :
           At(r, "written", {"eligible"}) /\ PairOf(r) \in eligible' \ eligible
             => Covers(tx[r].read, minimum[MajorOf(r)])]_vars
  <2> SUFFICES ASSUME Inv, NEW r \in Request, At(r, "written", {"eligible"})
      PROVE  Covers(tx[r].read, minimum[MajorOf(r)])
    OBVIOUS
  <2>1. At(r, "written", Eligibility) /\ tx[r].call.op = "eligible" /\ GrantingAt(r)
    BY DEF At, Eligibility, Inv, Granting
  <2> QED BY <2>1 DEF GrantingAt
<1> QED BY <1>1, Invariance, PTL DEF Spec, GrantedUnderMinimum

\* publishSigningKey() and retireSigningKey() move a key in one direction only,
\* whatever overlaps.
THEOREM LivesGoOn == Spec => LifeGoesOn
<1>1. Inv /\ [Next]_vars => [\A k \in SigningKey : Rank[status[k]] <= Rank[status'[k]]]_vars
  <2> SUFFICES ASSUME Inv, [Next]_vars, NEW k \in SigningKey PROVE Rank[status[k]] <= Rank[status'[k]]
    OBVIOUS
  <2>1. status[k] \in KeyStatus /\ status \in [SigningKey -> KeyStatus]
    BY DEF Inv, TypeOK
  <2>2. CASE status' = status
    BY <2>1, <2>2 DEF Rank, KeyStatus
  <2>3. ASSUME NEW j \in SigningKey, StoreKey(j) \/ Publish(j) PROVE Rank[status[k]] <= Rank[status'[k]]
    BY <2>1, <2>3 DEF StoreKey, Publish, Rank, KeyStatus
  <2>4. ASSUME NEW r \in Request, CommitRetirement(r) PROVE Rank[status[k]] <= Rank[status'[k]]
    <3>1. Retirable(r)
      BY <2>4 DEF CommitRetirement, Inv, Retiring, RetiringAt, At, Retirement
    <3> QED BY <2>1, <2>4, <3>1 DEF CommitRetirement, Retirable, Rank, KeyStatus
  <2> QED
    BY <2>2, <2>3, <2>4
    DEF Next, Proceed, vars, SaveRelease, Begin, WriteTrust, CommitTrust, CheckEligibility,
        RefuseEligibility, WriteEligibility, CommitEligibility, LockKey, RefuseRetired,
        CheckStranded, RefuseStranded, Abort, Refuse
<1> QED BY <1>1, Invariance, PTL DEF Spec, LifeGoesOn

\* retireSigningKey() without force leaves no major without a key when no other
\* transaction commits between its check and its own commit.
THEOREM RetirementAlone == Spec => StrandsOnlyWhenOverlapped
<1>1. Init => Alone
  BY DEF Init, Alone, AloneAt, At, Idle
<1>2. Inv /\ Alone /\ [Next]_vars => Alone'
  BY StepAlone DEF Inv
<1>3. Inv /\ Alone /\ [Next]_vars =>
        [\A r \in Request, m \in Major :
          At(r, "cleared", {"retire"}) /\ tx[r].alone /\ <<KeyOf(r), m>> \in eligible
          /\ status'[KeyOf(r)] = "retired"
            => Standing(m)' # {}]_vars
  <2> SUFFICES ASSUME Inv, Alone, [Next]_vars, NEW r \in Request, NEW m \in Major,
                      At(r, "cleared", {"retire"}), tx[r].alone, <<KeyOf(r), m>> \in eligible,
                      status'[KeyOf(r)] = "retired"
      PROVE  Standing(m)' # {}
    OBVIOUS
  <2>0. TypeOK /\ Retirable(r) /\ keyLock[KeyOf(r)] = r /\ KeyOf(r) \in SigningKey
    BY Standing_ DEF Inv, Retiring, RetiringAt, At, Retirement
  <2>1. PICK j \in SigningKey : j \in EligibleFor(m) /\ status[j] = "published" /\ j # KeyOf(r)
    <3>1. ~Strands(KeyOf(r)) /\ KeyOf(r) \in EligibleFor(m)
      BY <2>0 DEF Alone, AloneAt, EligibleFor
    <3> QED BY <3>1 DEF Strands, Standing, EligibleFor
  <2>2. status[KeyOf(r)] # "retired"
    BY <2>0 DEF Retirable, At
  <2>3. PICK q \in Request : CommitRetirement(q)
    <3>1. ASSUME NEW k \in SigningKey, StoreKey(k) \/ Publish(k) PROVE FALSE
      BY <2>0, <2>2, <3>1 DEF StoreKey, Publish, TypeOK
    <3> QED
      BY <2>2, <3>1
      DEF Next, Proceed, vars, SaveRelease, Begin, WriteTrust, CommitTrust, CheckEligibility,
          RefuseEligibility, WriteEligibility, CommitEligibility, LockKey, RefuseRetired,
          CheckStranded, RefuseStranded, Abort, Refuse
  <2>4. KeyOf(q) = KeyOf(r)
    BY <2>0, <2>2, <2>3 DEF CommitRetirement, TypeOK
  <2>5. <<j, m>> \in eligible' /\ status'[j] = "published"
    BY <2>0, <2>1, <2>3, <2>4 DEF CommitRetirement, EligibleFor, TypeOK
  <2> QED BY <2>5 DEF Standing, EligibleFor
<1> QED BY <1>1, <1>2, <1>3, Invariance, PTL DEF Spec, StrandsOnlyWhenOverlapped

-----------------------------------------------------------------------------
(* What is sold can be signed.                                              *)


Snapshot == [wire : {"community", "business", "other"}, model : {"none", "device_seats"},
             ownership : {"individual", "organisation"}, offline : {"indefinite", "periodic_check"},
             certificate : {Null} \cup (Nat \ {0}), term : {"perpetual", "subscription", "fixed_term"},
             length : {Null} \cup (Nat \ {0}), grace : Nat, seats : {Null} \cup Int]

LicenceRow == [policy : Snapshot, expires : {Null} \cup Int, customer : {Null, "name"},
               organisation : {Null, "name"}]

\* The rules for a policy, as far as claims show them.
Signable(l) ==
    /\ l.policy.wire \in V1Editions
    /\ l.expires # Null => l.policy.wire = "business"
    /\ l.policy.wire = "business" <=> l.policy.model = "device_seats"
    /\ l.policy.model = "device_seats" => l.policy.seats # Null /\ ~(l.policy.seats < 1)

PolicyInv ==
    /\ PolicyTypeOK /\ SignedOrRefused
    /\ \E n \in 0..2 : licences \in [1..n -> LicenceRow]
    /\ \A i \in DOMAIN licences : Signable(licences[i])

LEMMA SnapshotType ==
    ASSUME NEW ep \in EditionPolicy, NEW c \in Component, NEW quantity \in Quantity
    PROVE  EffectivePolicy(ep, c, quantity) \in Snapshot
<1> DEFINE unit == IF c.unit = Null THEN 1 ELSE c.unit
           seats == IF ep.model # "device_seats" THEN Null ELSE IF c.scales THEN unit * quantity ELSE unit
<1>1. ep \in [major : {1, 2}, wire : {"community", "business", "other"},
              model : {"none", "device_seats"}, ownership : {"individual", "organisation"},
              certificate : {Null} \cup (Nat \ {0}), offline : {"indefinite", "periodic_check"}]
  BY PolicyAssumption DEF PolicyAssumption
<1>2. /\ c.term \in {"perpetual", "subscription", "fixed_term"}
      /\ c.length \in {Null} \cup (Nat \ {0}) /\ c.unit \in {Null} \cup (Nat \ {0}) /\ c.grace \in Nat
  BY PolicyAssumption DEF PolicyAssumption
<1>3. unit \in Int /\ quantity \in Int BY <1>2, PolicyAssumption DEF PolicyAssumption
<1> HIDE DEF unit
<1>4. unit * quantity \in Int BY <1>3
<1>5. seats \in {Null} \cup Int BY <1>3, <1>4
<1> HIDE DEF seats
<1>6. EffectivePolicy(ep, c, quantity) =
        [wire |-> ep.wire, model |-> ep.model, ownership |-> ep.ownership, offline |-> ep.offline,
         certificate |-> ep.certificate, term |-> c.term, length |-> c.length, grace |-> c.grace,
         seats |-> seats]
  BY DEF EffectivePolicy, seats, unit
<1> QED BY <1>1, <1>2, <1>5, <1>6 DEF Snapshot

\* A policy without problems, and an end only if it has one.
LEMMA PolicySignable ==
    ASSUME NEW l, PolicyProblems(l.policy) = {}, l.expires # Null => l.policy.term # "perpetual",
           l.policy.model \in {"none", "device_seats"}
    PROVE  Signable(l)
<1>1. ProtocolProblems(l.policy) = {} /\ "seats.required" \notin PolicyProblems(l.policy) BY DEF PolicyProblems
<1>2. /\ "v1.edition" \notin ProtocolProblems(l.policy) /\ "v1.perpetual" \notin ProtocolProblems(l.policy)
      /\ "v1.business.seats" \notin ProtocolProblems(l.policy)
      /\ "v1.device.business_only" \notin ProtocolProblems(l.policy)
  BY <1>1
<1>3. l.policy.wire \in V1Editions BY <1>2 DEF ProtocolProblems
<1>4. l.policy.term = "perpetual" \/ l.policy.wire = "business" BY <1>2 DEF ProtocolProblems
<1>5. l.policy.wire = "business" => l.policy.model = "device_seats" BY <1>2 DEF ProtocolProblems
<1>6. l.policy.wire # "business" => l.policy.model = "none" BY <1>2 DEF ProtocolProblems
<1>7. l.policy.model = "device_seats" => l.policy.seats # Null /\ ~(l.policy.seats < 1)
  BY <1>1 DEF PolicyProblems
<1> QED BY <1>3, <1>4, <1>5, <1>6, <1>7 DEF Signable

\* What is signable is signed unless it ends.
LEMMA ClaimsFine ==
    ASSUME instant \in Int, NEW l \in LicenceRow, Signable(l), ~EndsNow(l)
    PROVE  ClaimsProblems(l) = {}
<1>1. l.organisation # "address" /\ l.customer # "address" BY PolicyAssumption DEF LicenceRow, PolicyAssumption
<1>2. l.expires # Null => l.expires \in Int /\ l.expires > instant + 2 BY DEF EndsNow, LicenceRow
<1>3. l.expires # Null => ~(Second(l.expires) <= Second(instant)) BY <1>2 DEF Second
<1>4. l.policy.wire \in V1Editions /\ (l.expires # Null => l.policy.wire = "business") BY DEF Signable
<1>5. IF l.policy.wire = "business"
      THEN l.policy.model = "device_seats" /\ l.policy.seats # Null /\ ~(l.policy.seats < 1)
      ELSE l.policy.model # "device_seats"
  BY DEF Signable
<1>6. ASSUME NEW field \in ClaimsProblems(l) PROVE FALSE
  <2>1. field \in {"edition", "organisation", "customerName", "expiresAt", "perpetual", "maxActivations"}
    BY DEF ClaimsProblems
  <2>2. field # "edition" BY <1>4 DEF ClaimsProblems
  <2>3. field # "organisation" BY <1>1 DEF ClaimsProblems
  <2>4. field # "customerName" BY <1>1 DEF ClaimsProblems
  <2>5. field # "expiresAt" BY <1>3 DEF ClaimsProblems
  <2>6. field # "perpetual" BY <1>4 DEF ClaimsProblems
  <2>7. field # "maxActivations" BY <1>5 DEF ClaimsProblems
  <2> QED BY <2>1, <2>2, <2>3, <2>4, <2>5, <2>6, <2>7
<1> QED BY <1>6

LEMMA SignedFine ==
    ASSUME instant \in Int, NEW ls, \A i \in DOMAIN ls : ls[i] \in LicenceRow /\ Signable(ls[i])
    PROVE  Signed(ls) \in {"signed", "expired"}
<1>1. \A i \in DOMAIN ls : ~EndsNow(ls[i]) => ClaimsProblems(ls[i]) = {} BY ClaimsFine
<1> QED BY <1>1 DEF Signed

LEMMA CertificateFine ==
    ASSUME instant \in Int, NEW l \in LicenceRow
    PROVE  CertificateProblems(CertificateClaims(l)) = {}
<1>1. l.policy.certificate = Null \/ l.policy.certificate \in Nat \ {0} BY DEF LicenceRow, Snapshot
<1>2. Second(instant) \in Int BY DEF Second
<1>3. CASE l.policy.certificate = Null BY <1>3 DEF CertificateProblems, CertificateClaims
<1>4. CASE l.policy.certificate # Null
  <2>1. l.policy.certificate \in Int /\ l.policy.certificate > 0 BY <1>1, <1>4
  <2>2. ~(Second(instant) + l.policy.certificate <= Second(instant)) BY <1>2, <2>1
  <2> QED BY <1>4, <2>2 DEF CertificateProblems, CertificateClaims
<1> QED BY <1>3, <1>4

LEMMA PartsType ==
    ASSUME PolicyTypeOK, sold # Null
    PROVE  \E n \in 1..2 : /\ DOMAIN sold.parts = 1..n
                           /\ sold.parts \in [1..n -> Part]
<1>1. sold.parts \in UNION {[1..n -> Part] : n \in 1..2} BY DEF PolicyTypeOK, OfferShape
<1> QED BY <1>1

-----------------------------------------------------------------------------
(* The steps                                                                *)

LEMMA PoliciesBegin == PolicyInit => PolicyInv
<1> SUFFICES ASSUME PolicyInit PROVE PolicyInv OBVIOUS
<1>1. licences = <<>> /\ licences \in [1..0 -> LicenceRow] /\ DOMAIN licences = {} /\ Len(licences) = 0 BY DEF PolicyInit
<1>2. 0 \in 0..MaxInstant /\ 0 \in 0..MaxAmendment BY PolicyAssumption DEF PolicyAssumption
<1> QED BY <1>1, <1>2 DEF PolicyInit, PolicyInv, PolicyTypeOK, SignedOrRefused

\* What a step that signs or writes licences has to keep.
LEMMA LicencesKeep ==
    ASSUME PolicyInv, UNCHANGED <<sold, instant>>, answer' \in {"none", "signed", "expired"},
           amendments' \in 0..MaxAmendment,
           NEW n \in 0..2, licences' \in [1..n -> LicenceRow], \A i \in 1..n : Signable(licences'[i])
    PROVE  PolicyInv'
<1>1. Len(licences') <= 2 /\ DOMAIN licences' = 1..n
  <2>1. licences' \in Seq(LicenceRow) /\ Len(licences') = n OBVIOUS
  <2> QED BY <2>1
<1> QED BY <1>1 DEF PolicyInv, PolicyTypeOK, SignedOrRefused, Signable, V1Editions

LEMMA GrantKeeps ==
    ASSUME PolicyInv, NEW quantity \in Quantity, NEW customer \in Customer, NEW end \in {Null} \cup 0..MaxInstant,
           Grant(quantity, customer, end)
    PROVE  PolicyInv'
<1> DEFINE policy(i) == EffectivePolicy(sold.parts[i].edition, sold.parts[i].component, quantity)
           created == [i \in DOMAIN sold.parts |-> Entitlement(policy(i), customer, end)]
<1>1. PICK n \in 1..2 : DOMAIN sold.parts = 1..n /\ sold.parts \in [1..n -> Part]
  BY PartsType DEF PolicyInv, Grant
<1>2. instant \in Int BY PolicyAssumption DEF PolicyInv, PolicyTypeOK, PolicyAssumption
<1>3. ASSUME NEW i \in 1..n
      PROVE  Entitlement(policy(i), customer, end) \in LicenceRow /\ Signable(Entitlement(policy(i), customer, end))
  <2>1. sold.parts[i].edition \in EditionPolicy /\ sold.parts[i].component \in Component
    BY <1>1 DEF Part
  <2>2. PICK p : p = policy(i) OBVIOUS
  <2>3. p \in Snapshot BY <2>1, <2>2, SnapshotType
  <2>4. p.term = "fixed_term" => p.length \in Nat
    <3>1. p.term = sold.parts[i].component.term /\ p.length = sold.parts[i].component.length
      BY <2>2 DEF EffectivePolicy
    <3> QED BY <2>1, <3>1, PolicyAssumption DEF PolicyAssumption
  <2>5. PolicyProblems(p) = {} /\ (p.term = "subscription" => end # Null) BY <1>1, <2>2 DEF Grant
  <2>6. Expiry(p, end) \in {Null} \cup Int
    <3>1. CASE p.term = "perpetual" BY <3>1 DEF Expiry
    <3>2. CASE p.term = "fixed_term"
      <4>1. instant + p.length \in Int BY <1>2, <2>4, <3>2
      <4> QED BY <3>2, <4>1 DEF Expiry
    <3>3. CASE p.term = "subscription"
      <4>1. end \in Int /\ p.grace \in Int BY <2>3, <2>5, <3>3, PolicyAssumption DEF Snapshot, PolicyAssumption
      <4>2. end + p.grace \in Int BY <4>1
      <4> QED BY <3>3, <4>2 DEF Expiry
    <3> QED BY <2>3, <3>1, <3>2, <3>3 DEF Snapshot
  <2>7. p.term = "perpetual" => Expiry(p, end) = Null BY DEF Expiry
  <2>8. PICK e : e = Entitlement(p, customer, end) OBVIOUS
  <2>9. e.policy = p /\ e.expires = Expiry(p, end) BY <2>8 DEF Entitlement
  <2>10. e \in LicenceRow
    <3>1. /\ customer.display \in {"name", "address"}
          /\ customer.organisation \in {Null, "name", "address"}
      BY PolicyAssumption DEF PolicyAssumption
    <3>2. \A x \in {Null, "name", "address"} : Clean(x) \in {Null, "name"} BY DEF Clean
    <3> DEFINE owner == IF customer.organisation = Null THEN customer.display ELSE customer.organisation
               his == IF p.ownership = "individual" THEN Clean(customer.display) ELSE Null
               its == IF p.ownership = "individual" THEN Null ELSE Clean(owner)
    <3>3. his \in {Null, "name"} /\ its \in {Null, "name"} BY <3>1, <3>2
    <3>4. e = [policy |-> p, expires |-> Expiry(p, end), customer |-> his, organisation |-> its]
      BY <2>8 DEF Entitlement
    <3> HIDE DEF his, its
    <3> QED BY <2>3, <2>6, <3>3, <3>4 DEF LicenceRow
  <2>11. Signable(e)
    <3>1. e.policy.model \in {"none", "device_seats"} BY <2>3, <2>9 DEF Snapshot
    <3>2. PolicyProblems(e.policy) = {} /\ (e.expires # Null => e.policy.term # "perpetual") BY <2>5, <2>7, <2>9
    <3> QED BY <3>1, <3>2, PolicySignable
  <2> QED BY <2>2, <2>8, <2>10, <2>11
<1> HIDE DEF policy
<1>4. created = [i \in 1..n |-> Entitlement(policy(i), customer, end)] BY <1>1
<1>5. DOMAIN created = 1..n /\ created \in [1..n -> LicenceRow] /\ \A i \in 1..n : created[i] \in LicenceRow /\ Signable(created[i])
  BY <1>3, <1>4
<1>6. answer' = Signed(created) /\ licences' = (IF answer' = "signed" THEN created ELSE <<>>)
      /\ UNCHANGED <<sold, instant, amendments>>
  BY DEF Grant, policy
<1> HIDE DEF created
<1>7. answer' \in {"signed", "expired"} BY <1>2, <1>5, <1>6, SignedFine
<1>8. amendments' \in 0..MaxAmendment BY <1>6 DEF PolicyInv, PolicyTypeOK
<1>9. CASE answer' = "signed" BY <1>5, <1>6, <1>7, <1>8, <1>9, LicencesKeep
<1>10. CASE answer' # "signed"
  <2>1. licences' \in [1..0 -> LicenceRow] /\ \A i \in 1..0 : Signable(licences'[i]) BY <1>6, <1>10
  <2> QED BY <1>6, <1>7, <1>8, <2>1, LicencesKeep
<1> QED BY <1>9, <1>10

LEMMA AmendKeeps ==
    ASSUME PolicyInv, NEW i \in 1..2, NEW seats \in {Null} \cup Quantity, NEW end \in {Null} \cup 0..MaxInstant,
           AmendLicence(i, seats, end)
    PROVE  PolicyInv'
<1>1. PICK n \in 0..2 : licences \in [1..n -> LicenceRow] BY DEF PolicyInv
<1>2. i \in 1..n /\ licences[i] \in LicenceRow /\ Signable(licences[i]) BY <1>1 DEF AmendLicence, PolicyInv
<1> DEFINE l == licences[i]
           s == IF seats = Null THEN l.policy.seats ELSE seats
           x == IF end = Null THEN l.expires ELSE end
           m == [l EXCEPT !.policy.seats = s, !.expires = x]
<1>3. seats # Null => seats \in Int /\ ~(seats < 1) /\ l.policy.model = "device_seats"
  BY PolicyAssumption DEF AmendLicence, PolicyAssumption
<1>4. end # Null => end \in Int /\ l.expires # Null BY PolicyAssumption DEF AmendLicence, PolicyAssumption
<1>5. l.policy \in Snapshot /\ s \in {Null} \cup Int /\ x \in {Null} \cup Int BY <1>2, <1>3, <1>4 DEF LicenceRow, Snapshot
<1>6. licences' = [licences EXCEPT ![i] = m] BY <1>1, <1>2 DEF AmendLicence
<1>7. [l.policy EXCEPT !.seats = s] \in Snapshot BY <1>5 DEF Snapshot
<1>8. m \in LicenceRow /\ m.policy = [l.policy EXCEPT !.seats = s] /\ m.expires = x
  BY <1>2, <1>5, <1>7 DEF LicenceRow
<1>9. m.policy.seats = s /\ m.policy.wire = l.policy.wire /\ m.policy.model = l.policy.model
  BY <1>5, <1>8 DEF Snapshot
<1>10. Signable(m) BY <1>2, <1>3, <1>4, <1>8, <1>9 DEF Signable
<1> HIDE DEF m
<1>11. licences' \in [1..n -> LicenceRow] /\ \A j \in 1..n : Signable(licences'[j])
  BY <1>1, <1>2, <1>6, <1>8, <1>10 DEF PolicyInv
<1>12. amendments' \in 0..MaxAmendment BY PolicyAssumption DEF AmendLicence, PolicyInv, PolicyTypeOK, PolicyAssumption
<1> QED BY <1>11, <1>12, LicencesKeep DEF AmendLicence, PolicyInv, PolicyTypeOK, SignedOrRefused

LEMMA ReissueKeeps ==
    ASSUME PolicyInv, NEW i \in 1..2, NEW customer \in {Null, "name", "address"},
           NEW organisation \in {Null, "name", "address"}, ReissueLicence(i, customer, organisation)
    PROVE  PolicyInv'
<1>1. PICK n \in 0..2 : licences \in [1..n -> LicenceRow] BY DEF PolicyInv
<1>2. i \in 1..n /\ licences[i] \in LicenceRow /\ Signable(licences[i]) BY <1>1 DEF ReissueLicence, PolicyInv
<1> DEFINE m == [licences[i] EXCEPT !.customer = customer, !.organisation = organisation]
<1>3. m \in LicenceRow /\ m.policy = licences[i].policy /\ m.expires = licences[i].expires
  BY <1>2 DEF ReissueLicence, LicenceRow
<1>4. Signable(m) BY <1>2, <1>3 DEF Signable
<1>5. instant \in Int BY PolicyAssumption DEF PolicyInv, PolicyTypeOK, PolicyAssumption
<1>6. answer' = Signed(<<m>>) /\ licences' = (IF answer' = "signed" THEN [licences EXCEPT ![i] = m] ELSE licences)
      /\ UNCHANGED <<sold, instant, amendments>>
  BY DEF ReissueLicence
<1> HIDE DEF m
<1>7. \A j \in DOMAIN <<m>> : <<m>>[j] \in LicenceRow /\ Signable(<<m>>[j]) BY <1>3, <1>4
<1>8. answer' \in {"signed", "expired"} BY <1>5, <1>6, <1>7, SignedFine
<1>9. licences' \in [1..n -> LicenceRow] /\ \A j \in 1..n : Signable(licences'[j])
  BY <1>1, <1>2, <1>3, <1>4, <1>6 DEF PolicyInv
<1> QED BY <1>6, <1>8, <1>9, LicencesKeep DEF PolicyInv, PolicyTypeOK

LEMMA SignKeeps == ASSUME PolicyInv, NEW i \in 1..2, SignAgain(i) PROVE PolicyInv'
<1>1. PICK n \in 0..2 : licences \in [1..n -> LicenceRow] BY DEF PolicyInv
<1>2. i \in 1..n /\ licences[i] \in LicenceRow /\ Signable(licences[i]) BY <1>1 DEF SignAgain, PolicyInv
<1>3. instant \in Int BY PolicyAssumption DEF PolicyInv, PolicyTypeOK, PolicyAssumption
<1>4. CertificateProblems(CertificateClaims(licences[i])) = {} BY <1>2, <1>3, CertificateFine
<1>5. answer' = Signed(<<licences[i]>>) /\ UNCHANGED <<sold, licences, instant, amendments>> BY <1>4 DEF SignAgain
<1>6. \A j \in DOMAIN <<licences[i]>> : <<licences[i]>>[j] \in LicenceRow /\ Signable(<<licences[i]>>[j]) BY <1>2
<1>7. Signed(<<licences[i]>>) \in {"signed", "expired"} BY <1>3, <1>6, SignedFine
<1>8. licences' \in [1..n -> LicenceRow] /\ \A j \in 1..n : Signable(licences'[j]) BY <1>1, <1>5 DEF PolicyInv
<1> QED BY <1>5, <1>7, <1>8, LicencesKeep DEF PolicyInv, PolicyTypeOK

LEMMA OfferKeeps ==
    ASSUME PolicyInv, sold' = Null \/ sold' \in OfferShape, UNCHANGED <<licences, answer, amendments>>,
           instant' \in 0..MaxInstant
    PROVE  PolicyInv'
  BY DEF PolicyInv, PolicyTypeOK, SignedOrRefused, Signable, V1Editions

LEMMA ChangeKeeps == ASSUME PolicyInv, NEW i \in 1..2, NEW ep \in EditionPolicy, ChangeEdition(i, ep) PROVE PolicyInv'
<1>1. PICK n \in 1..2 : DOMAIN sold.parts = 1..n /\ sold.parts \in [1..n -> Part]
  BY PartsType DEF PolicyInv, ChangeEdition
<1>2. i \in 1..n /\ sold.parts[i] \in Part BY <1>1 DEF ChangeEdition
<1> DEFINE part == [sold.parts[i] EXCEPT !.edition = ep]
           parts == [sold.parts EXCEPT ![i] = part]
<1>3. part \in Part BY <1>2 DEF Part
<1>4. sold' = [sold EXCEPT !.parts = parts] BY DEF ChangeEdition
<1> HIDE DEF part
<1>5. parts \in [1..n -> Part] BY <1>1, <1>2, <1>3
<1> HIDE DEF parts
<1>6. sold \in OfferShape BY DEF PolicyInv, PolicyTypeOK, ChangeEdition
<1>7. parts \in UNION {[1..k -> Part] : k \in 1..2} BY <1>5
<1>8. sold' \in OfferShape BY <1>4, <1>6, <1>7 DEF OfferShape
<1> QED BY <1>8, OfferKeeps DEF ChangeEdition, PolicyInv, PolicyTypeOK

LEMMA PoliciesKeep == PolicyInv /\ [PolicyNext]_policyVars => PolicyInv'
<1> SUFFICES ASSUME PolicyInv, [PolicyNext]_policyVars PROVE PolicyInv' OBVIOUS
<1>1. ASSUME NEW o \in OfferShape, NEW amount, NEW interval, SellOffer(o, amount, interval) PROVE PolicyInv'
  BY <1>1, OfferKeeps DEF SellOffer, PolicyInv, PolicyTypeOK
<1>2. CASE TimePasses
  <2>1. instant' \in 0..MaxInstant BY <1>2, PolicyAssumption DEF TimePasses, PolicyInv, PolicyTypeOK, PolicyAssumption
  <2> QED BY <1>2, <2>1, OfferKeeps DEF TimePasses, PolicyInv, PolicyTypeOK
<1>3. CASE UNCHANGED policyVars BY <1>3, OfferKeeps DEF policyVars, PolicyInv, PolicyTypeOK
<1> QED BY <1>1, <1>2, <1>3, GrantKeeps, AmendKeeps, ReissueKeeps, SignKeeps, ChangeKeeps DEF PolicyNext

\* Every offer, licence and answer keeps its type, whatever is sold, granted and amended.
THEOREM PolicyTyping == PolicySpec => []PolicyTypeOK
<1>1. PolicyInv => PolicyTypeOK BY DEF PolicyInv
<1> QED BY <1>1, PoliciesBegin, PoliciesKeep, PTL DEF PolicySpec

\* Whatever can be put on sale, granted and amended can be signed, to the second it ends, for
\* every policy, quantity, name and period: validatePolicy() and grantEntitlements() leave
\* nothing to validateLicenseClaimsV1() but what has ended.
THEOREM SoldIsSigned == PolicySpec => []SignedOrRefused
<1>1. PolicyInv => SignedOrRefused BY DEF PolicyInv
<1> QED BY <1>1, PoliciesBegin, PoliciesKeep, PTL DEF PolicySpec
===============================================================================
