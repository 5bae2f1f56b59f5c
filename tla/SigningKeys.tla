----------------------------- MODULE SigningKeys -----------------------------
(***************************************************************************)
(* The signing-key registry: src/services/signing-keys.ts, with the minimum *)
(* supported release that upsertRelease() of src/services/catalogue.ts      *)
(* keeps for each product major.                                            *)
(*                                                                         *)
(* Operations that take one row lock and wait for nothing after it are one *)
(* step.  Recording trust, granting eligibility and retiring wait for a    *)
(* second row after they have locked a first one, so they are transactions *)
(* of several steps.  What a transaction wrote is visible when it commits; *)
(* until then it holds                                                     *)
(*   - FOR UPDATE on a signing key (retirement, which therefore also holds *)
(*     up every insertion of a lifecycle event of that key: the foreign    *)
(*     key takes FOR KEY SHARE on it),                                     *)
(*   - FOR UPDATE on a product major (eligibility),                        *)
(*   - the rows of key_compatibilities it has written.                     *)
(* When two transactions wait for each other PostgreSQL rolls one back.    *)
(*                                                                         *)
(* A definition marked "Variant" is a faulty form of the one that follows. *)
(***************************************************************************)
EXTENDS Integers, FiniteSets

CONSTANTS
    SigningKey,     \* key ids; ids are never reused
    Major,          \* product majors
    Request,        \* requests of operators in flight
    Release,        \* versions of the releases of a major, as numbers
    Since, Until,   \* those that operators name as first and last to trust a key
    MaxSignatures,  \* protocol.maxSignatures
    NoRelease, Nobody

VARIABLES
    status,    \* signing_keys.status; "none" is no row
    trust,     \* key_compatibilities: the releases that trust a key; NoTrust is no row
    eligible,  \* key_compatibilities.eligible
    minimum,   \* the shipped minimum supported release of each major
    keyLock,   \* who holds FOR UPDATE on a signing key
    majorLock, \* who holds FOR UPDATE on a product major
    rowLock,   \* who has written a row of key_compatibilities and not committed
    tx         \* the transactions of several steps

vars == <<status, trust, eligible, minimum, keyLock, majorLock, rowLock, tx>>
Locks == <<keyLock, majorLock, rowLock>>

SigningAssumption ==
    /\ Release \subseteq Nat /\ Since \subseteq Release /\ Until \subseteq Release
    /\ NoRelease \notin Release
    /\ Nobody \notin Request
    /\ MaxSignatures \in Nat \ {0}
    /\ IsFiniteSet(SigningKey)

ASSUME SigningAssumption

-----------------------------------------------------------------------------
(* Rows                                                                     *)

Pair == SigningKey \X Major

KeyStatus == {"none", "generated", "published", "retired", "compromised"}

NoTrust == [since |-> NoRelease, until |-> NoRelease]

\* until is the last release that trusts the key; NoRelease while there is none.
Interval == {i \in [since : Since, until : Until \cup {NoRelease}] :
               i.until = NoRelease \/ i.since <= i.until}

EligibleFor(m) == {k \in SigningKey : <<k, m>> \in eligible}

\* eligibilityBlock(): nothing stands in the way of signing.
Covers(i, release) ==
    /\ release # NoRelease
    /\ i.since <= release
    /\ i.until \in {NoRelease} \cup {v \in Release : release <= v}

Unblocked(k, m) ==
    /\ status[k] = "published"
    /\ Covers(trust[<<k, m>>], minimum[m])

\* What the registry looks up when it asks for another key.
Standing(m) == {k \in EligibleFor(m) : status[k] = "published"}

-----------------------------------------------------------------------------
(* Transactions                                                             *)

Call ==
       [op : {"trust"}, key : SigningKey, major : Major, interval : Interval]
  \cup [op : {"eligible", "ineligible"}, key : SigningKey, major : Major]
  \cup [op : {"retire", "force", "compromise"}, key : SigningKey]

\* first: setKeyTrust() inserts the row.  read: the trust record setKeyEligibility() has
\* read.  alone: nothing has been committed since retireSigningKey() made its check
\* (history).
Transaction == [pc : {"asked", "checked", "cleared", "written"}, call : Call,
                first : BOOLEAN, read : Interval \cup {NoTrust}, alone : BOOLEAN]

Idle == [pc |-> "idle"]

Asked(c) == [pc |-> "asked", call |-> c, first |-> FALSE, read |-> NoTrust, alone |-> FALSE]

At(r, pc, ops) == tx[r].pc = pc /\ tx[r].call.op \in ops
KeyOf(r) == tx[r].call.key
MajorOf(r) == tx[r].call.major
PairOf(r) == <<KeyOf(r), MajorOf(r)>>

Eligibility == {"eligible", "ineligible"}
Retirement == {"retire", "force", "compromise"}

Step(r, pc) == tx' = [tx EXCEPT ![r].pc = pc]

Freed(lock, r) == [x \in DOMAIN lock |-> IF lock[x] = r THEN Nobody ELSE lock[x]]

Unlock(r) ==
    /\ keyLock' = Freed(keyLock, r)
    /\ majorLock' = Freed(majorLock, r)
    /\ rowLock' = Freed(rowLock, r)

\* Every other transaction is no longer alone with what it has read.
Interrupt(done) ==
    tx' = [s \in Request |-> IF s \in done THEN Idle
                             ELSE IF tx[s].pc = "cleared" THEN [tx[s] EXCEPT !.alone = FALSE]
                             ELSE tx[s]]

Commit(r) == Interrupt({r}) /\ Unlock(r)

Refuse(r) ==
    /\ tx' = [tx EXCEPT ![r] = Idle]
    /\ Unlock(r)
    /\ UNCHANGED <<status, trust, eligible, minimum>>

TypeOK ==
    /\ status \in [SigningKey -> KeyStatus]
    /\ trust \in [Pair -> Interval \cup {NoTrust}]
    /\ eligible \subseteq {p \in Pair : trust[p] # NoTrust}
    /\ minimum \in [Major -> Release \cup {NoRelease}]
    /\ keyLock \in [SigningKey -> Request \cup {Nobody}]
    /\ majorLock \in [Major -> Request \cup {Nobody}]
    /\ rowLock \in [Pair -> Request \cup {Nobody}]
    /\ tx \in [Request -> Transaction \cup {Idle}]

Init ==
    /\ status = [k \in SigningKey |-> "none"]
    /\ trust = [p \in Pair |-> NoTrust]
    /\ eligible = {}
    /\ minimum = [m \in Major |-> NoRelease]
    /\ keyLock = [k \in SigningKey |-> Nobody]
    /\ majorLock = [m \in Major |-> Nobody]
    /\ rowLock = [p \in Pair |-> Nobody]
    /\ tx = [r \in Request |-> Idle]

-----------------------------------------------------------------------------
(* Operations of one step                                                   *)

\* generateSigningKey() and importSigningKey(): storeKey() inserts the rows.
StoreKey(k) ==
    /\ status[k] = "none"
    /\ status' = [status EXCEPT ![k] = "generated"]
    /\ Interrupt({})
    /\ UNCHANGED <<trust, eligible, minimum, Locks>>

\* publishSigningKey()
Publish(k) ==
    /\ keyLock[k] = Nobody
    /\ status[k] = "generated"
    /\ status' = [status EXCEPT ![k] = "published"]
    /\ Interrupt({})
    /\ UNCHANGED <<trust, eligible, minimum, Locks>>

\* upsertRelease(): a release becomes the minimum, or the minimum stops being it
\* (withdrawn, or saved again without the mark).
SaveRelease(m, v) ==
    /\ majorLock[m] = Nobody
    /\ \/ minimum' = [minimum EXCEPT ![m] = v]
       \/ /\ minimum[m] = v
          /\ minimum' = [minimum EXCEPT ![m] = NoRelease]
    /\ Interrupt({})
    /\ UNCHANGED <<status, trust, eligible, Locks>>

Begin(r, c) ==
    /\ tx[r] = Idle
    /\ status[c.key] # "none"
    /\ tx' = [tx EXCEPT ![r] = Asked(c)]
    /\ UNCHANGED <<status, trust, eligible, minimum, Locks>>

-----------------------------------------------------------------------------
(* setKeyTrust()                                                            *)

\* INSERT ... ON CONFLICT DO UPDATE waits for whoever has written the row.
WriteTrust(r) ==
    /\ At(r, "asked", {"trust"})
    /\ rowLock[PairOf(r)] = Nobody
    /\ rowLock' = [rowLock EXCEPT ![PairOf(r)] = r]
    /\ tx' = [tx EXCEPT ![r].pc = "written", ![r].first = trust[PairOf(r)] = NoTrust]
    /\ UNCHANGED <<status, trust, eligible, minimum, keyLock, majorLock>>

\* The foreign keys of the event and, for a new row, of the row itself.
CommitTrust(r) ==
    /\ At(r, "written", {"trust"})
    /\ keyLock[KeyOf(r)] = Nobody
    /\ tx[r].first => majorLock[MajorOf(r)] = Nobody
    /\ trust' = [trust EXCEPT ![PairOf(r)] = tx[r].call.interval]
    /\ Commit(r)
    /\ UNCHANGED <<status, eligible, minimum>>

-----------------------------------------------------------------------------
(* setKeyEligibility()                                                      *)

\* What stands against the request; the key and the row are read, not locked.
Grantable(r) ==
    /\ trust[PairOf(r)] # NoTrust
    /\ tx[r].call.op = "eligible" =>
         /\ Unblocked(KeyOf(r), MajorOf(r))
         /\ Cardinality(EligibleFor(MajorOf(r)) \ {KeyOf(r)}) + 1 <= MaxSignatures

ReadRow(r) == tx' = [tx EXCEPT ![r].pc = "checked", ![r].read = trust[PairOf(r)]]

\* Variant: the major is read without FOR UPDATE.
CheckEligibilityUnlocked(r) ==
    /\ At(r, "asked", Eligibility)
    /\ Grantable(r)
    /\ ReadRow(r)
    /\ UNCHANGED <<status, trust, eligible, minimum, Locks>>

\* The lock on the major and the reads under it.
CheckEligibility(r) ==
    /\ At(r, "asked", Eligibility)
    /\ majorLock[MajorOf(r)] = Nobody
    /\ Grantable(r)
    /\ majorLock' = [majorLock EXCEPT ![MajorOf(r)] = r]
    /\ ReadRow(r)
    /\ UNCHANGED <<status, trust, eligible, minimum, keyLock, rowLock>>

RefuseEligibility(r) ==
    /\ At(r, "asked", Eligibility)
    /\ majorLock[MajorOf(r)] = Nobody
    /\ ~Grantable(r)
    /\ Refuse(r)

WriteEligibility(r) ==
    /\ At(r, "checked", Eligibility)
    /\ rowLock[PairOf(r)] = Nobody
    /\ rowLock' = [rowLock EXCEPT ![PairOf(r)] = r]
    /\ Step(r, "written")
    /\ UNCHANGED <<status, trust, eligible, minimum, keyLock, majorLock>>

\* The foreign key of the event waits for a retirement of the key.
CommitEligibility(r) ==
    /\ At(r, "written", Eligibility)
    /\ keyLock[KeyOf(r)] = Nobody
    /\ eligible' = IF tx[r].call.op = "eligible" THEN eligible \cup {PairOf(r)}
                   ELSE eligible \ {PairOf(r)}
    /\ Commit(r)
    /\ UNCHANGED <<status, trust, minimum>>

-----------------------------------------------------------------------------
(* retireSigningKey()                                                       *)

\* Variant: the key finds itself.
StrandsNone(k) == \E m \in Major : k \in EligibleFor(m) /\ Standing(m) = {}

\* A major that lists the key as eligible and has no other published one.
Strands(k) == \E m \in Major : k \in EligibleFor(m) /\ Standing(m) \ {k} = {}

Retirable(r) ==
    /\ status[KeyOf(r)] # "compromised"
    /\ tx[r].call.op # "compromise" => status[KeyOf(r)] # "retired"

\* Variant: SELECT status without FOR UPDATE.
LockKeyUnlocked(r) ==
    /\ At(r, "asked", Retirement)
    /\ Retirable(r)
    /\ Step(r, "checked")
    /\ UNCHANGED <<status, trust, eligible, minimum, Locks>>

LockKey(r) ==
    /\ At(r, "asked", Retirement)
    /\ keyLock[KeyOf(r)] = Nobody
    /\ Retirable(r)
    /\ keyLock' = [keyLock EXCEPT ![KeyOf(r)] = r]
    /\ Step(r, "checked")
    /\ UNCHANGED <<status, trust, eligible, minimum, majorLock, rowLock>>

RefuseRetired(r) ==
    /\ At(r, "asked", Retirement)
    /\ keyLock[KeyOf(r)] = Nobody
    /\ ~Retirable(r)
    /\ Refuse(r)

\* The check reads the rows of other keys and locks none of them.
CheckStranded(r) ==
    /\ At(r, "checked", {"retire"})
    /\ ~Strands(KeyOf(r))
    /\ tx' = [tx EXCEPT ![r].pc = "cleared", ![r].alone = TRUE]
    /\ UNCHANGED <<status, trust, eligible, minimum, Locks>>

RefuseStranded(r) ==
    /\ At(r, "checked", {"retire"})
    /\ Strands(KeyOf(r))
    /\ Refuse(r)

\* UPDATE key_compatibilities waits for whoever has written a row of the key; a row
\* that is being inserted is not seen.
RowsOf(r) == {<<KeyOf(r), m>> : m \in {n \in Major : trust[<<KeyOf(r), n>>] # NoTrust}}

CommitRetirement(r) ==
    /\ At(r, "cleared", {"retire"}) \/ At(r, "checked", {"force", "compromise"})
    /\ \A p \in RowsOf(r) : rowLock[p] = Nobody
    /\ status' = [status EXCEPT ![KeyOf(r)] =
                    IF tx[r].call.op = "compromise" THEN "compromised" ELSE "retired"]
    /\ eligible' = {p \in eligible : p[1] # KeyOf(r)}
    /\ Commit(r)
    /\ UNCHANGED <<trust, minimum>>

-----------------------------------------------------------------------------
(* Rollbacks                                                                *)

\* The worker stops or loses its connection, or PostgreSQL rolls the transaction back
\* because it and another wait for each other.
Abort(r) == tx[r] # Idle /\ Refuse(r)

Proceed(r) ==
    \/ WriteTrust(r) \/ CommitTrust(r)
    \/ CheckEligibility(r) \/ RefuseEligibility(r) \/ WriteEligibility(r) \/ CommitEligibility(r)
    \/ LockKey(r) \/ RefuseRetired(r) \/ CheckStranded(r) \/ RefuseStranded(r)
    \/ CommitRetirement(r)

Next ==
    \/ \E k \in SigningKey : StoreKey(k) \/ Publish(k)
    \/ \E m \in Major, v \in Release : SaveRelease(m, v)
    \/ \E r \in Request :
         \/ \E c \in Call : Begin(r, c)
         \/ Proceed(r) \/ Abort(r)

Spec == Init /\ [][Next]_vars

-----------------------------------------------------------------------------
(* Properties                                                               *)

\* setKeyEligibility() counts under the lock of the major: a major never has more
\* eligible keys than its protocol allows signatures, so loadSigners() never finds
\* too many.
SignatureLimit == \A m \in Major : Cardinality(EligibleFor(m)) <= MaxSignatures

\* setKeyEligibility() decides on the minimum release that is still in force when it
\* commits: no release is saved between its check and its commit, so the trust record it
\* read covers the minimum of that moment.  (The record itself is not locked: setKeyTrust()
\* may have replaced it since.)
GrantedUnderMinimum ==
    [][ \A r \in Request :
          At(r, "written", {"eligible"}) /\ PairOf(r) \in eligible' \ eligible
            => Covers(tx[r].read, minimum[MajorOf(r)]) ]_vars

Rank == [none |-> 0, generated |-> 1, published |-> 2, retired |-> 3, compromised |-> 4]

\* A key goes through its life in one direction, whatever overlaps: a compromised one
\* never becomes merely retired, and a retired one is not published again.
LifeGoesOn == [][ \A k \in SigningKey : Rank[status[k]] <= Rank[status'[k]] ]_vars

\* The check of an unforced retirement works while nothing is committed after it:
\* each major that listed the key keeps an eligible published one.
StrandsOnlyWhenOverlapped ==
    [][ \A r \in Request, m \in Major :
          At(r, "cleared", {"retire"}) /\ tx[r].alone /\ <<KeyOf(r), m>> \in eligible
          /\ status'[KeyOf(r)] = "retired"
            => Standing(m)' # {} ]_vars

\* docs/runbooks/signing-keys.md:29: "Retiring is refused if it would leave a major
\* with no eligible key, unless you force it."
RetiringKeepsKey ==
    [][ \A r \in Request, m \in Major :
          At(r, "cleared", {"retire"}) /\ KeyOf(r) \in Standing(m)
          /\ status'[KeyOf(r)] = "retired"
            => Standing(m)' # {} ]_vars
=============================================================================
