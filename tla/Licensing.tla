------------------------------ MODULE Licensing ------------------------------
(***************************************************************************)
(* The licensing core for one licence: src/services/licensing.ts and       *)
(* src/services/machine.ts over the PostgreSQL rows of                     *)
(* migrations/0001_core_schema.sql.                                        *)
(*                                                                         *)
(* A request is one transaction of a stateless worker.  It starts (BEGIN   *)
(* fixes now(), and its first SELECT ... FOR UPDATE fixes the snapshot     *)
(* that statement sees), waits for the row locks of the licence and the    *)
(* entitlement, reads the locked rows, and commits or rolls back.  All     *)
(* that the transaction does between two lock waits is one step, except    *)
(* that a new activation counts the seats in one step and takes one in the *)
(* next.  READ COMMITTED: an uncommitted transaction is invisible, and a   *)
(* statement that waited for a lock re-evaluates its join against the new  *)
(* version of the locked rows only.                                        *)
(*                                                                         *)
(* Every transaction starts at an instant of its own (clock): now() has    *)
(* microseconds, and that two transactions of one licence coincide to the  *)
(* microsecond is left out.  A JavaScript Date has milliseconds, so dates  *)
(* that the program compares coincide as soon as their Milli does.         *)
(*                                                                         *)
(* A definition marked "Variant" is a faulty form of the one that follows: *)
(* no action uses it, and the property it names in PROJECT.json fails with *)
(* it.                                                                     *)
(***************************************************************************)
EXTENDS Integers, FiniteSets, FiniteSetsExt

CONSTANTS
    Request,          \* in-flight requests (worker invocations)
    Device,           \* device ids presented by clients
    Secret,           \* client secrets presented by clients
    Activation,       \* activation ids newId('act') can return: bounds activations
    ActivationKey,    \* activation keys: bounds rotations
    Viewer,           \* portal requests that reveal an activation key
    SigningKey,       \* signing key ids
    Ref,              \* source references of revocations (refund and dispute ids)
    Name,             \* organisation / customer names printed on a licence
    SeatChoice,       \* seat counts support may set
    AllowanceChoice,  \* transfer allowances support may set
    ExpiryChoice,     \* expiry instants support or billing may set
    InitialExpiry,    \* expiry of the entitlement as created: Never or an instant
    ActivationModel,  \* "device_seats" or "none" (policy snapshot)
    MaxSignatures,    \* protocol.maxSignatures
    SignMargin,       \* the second a licence must still have to run to be signed
    Resolution,       \* instants in a millisecond of a JavaScript Date
    Window,           \* the 365 days over which transfers count
    RevealLife,       \* the 30 days an unrevealed key can be revealed
    MaxGrant,         \* grantTransfers accepts 1..MaxGrant (100 in the code)
    Operation,        \* the operations this instance exercises
    MaxClock,         \* bound: instants of the behaviour, so transactions too
    Nobody, Never, NoEnvelope, NoActivation

VARIABLES
    clock,    \* database time
    ent,      \* the entitlements row
    lic,      \* the licenses row
    acts,     \* the activations rows, by id (with the transfer event of each)
    grants,   \* transfer_events of kind 'grant': amount granted at each instant
    keys,     \* the activation_keys rows
    revs,     \* the revocations rows: references that revoked, and the last action
    usable,   \* usableSigningKeyIds(product major)
    lock,     \* who holds FOR UPDATE on the licence and entitlement rows
    tx,       \* what each request knows and where it stands
    reply     \* the answer given by the last step, if it gave one

vars == <<clock, ent, lic, acts, grants, keys, revs, usable, lock, tx, reply>>

LicensingAssumption ==
    /\ SeatChoice \subseteq Nat \ {0}
    /\ AllowanceChoice \subseteq Nat
    /\ ExpiryChoice \subseteq Nat
    /\ InitialExpiry \in Nat \cup {Never}
    /\ Never \notin Nat
    /\ ActivationModel \in {"device_seats", "none"}
    /\ MaxSignatures \in Nat
    /\ SignMargin \in Nat
    /\ Resolution \in Nat \ {0}
    /\ Window \in Nat
    /\ RevealLife \in Nat
    /\ MaxGrant \in Nat
    /\ MaxClock \in Nat \ {0}
    /\ Nobody \notin Request
    /\ NoActivation \notin Activation
    /\ IsFiniteSet(Activation) /\ IsFiniteSet(AllowanceChoice)

ASSUME LicensingAssumption

-----------------------------------------------------------------------------
(* Rows                                                                     *)

Instant == 0..MaxClock
Expiry == Nat \cup {Never}

Envelope == [expires : Expiry, seats : Nat, name : Name, keys : SUBSET SigningKey]

EntitlementRow == [status : {"active", "revoked"}, seats : Nat \ {0}, allowance : Nat,
                   expires : Expiry, name : Name, resetAt : Instant,
                   snap : Nat, updated : Instant]

LicenseRow == [env : Envelope \cup {NoEnvelope}, updated : Instant]

Status == {"unused", "active", "inactive"}   \* of an activation; "unused" is no row

ActivationRow == [status : Status,
                  device : Device \cup {Nobody}, secret : Secret \cup {Nobody},
                  transfer : BOOLEAN, at : Instant]

\* "held" is who has the row FOR UPDATE; "shown" (history) how often an answer
\* carried the key.
KeyRow == [status : {"unused", "active", "rotated"}, reveal : Nat,
           held : SUBSET Viewer, shown : Nat]

\* refs: the (source, source_ref) pairs of the 'revoke' rows; last: the newest action.
RevocationLog == [refs : SUBSET Ref, last : {"none", "revoke", "unrevoke"}]

NoRow == [status |-> "unused", device |-> Nobody, secret |-> Nobody,
          transfer |-> FALSE, at |-> 0]

ActiveActs == {a \in Activation : acts[a].status = "active"}
IssuedActs == {a \in Activation : acts[a].status # "unused"}
FreshUsed  == {a \in IssuedActs : ~acts[a].transfer}
LiveOn(d)  == {a \in ActiveActs : acts[a].device = d}
SeatedDevices == {d \in Device : LiveOn(d) # {}}

\* What a JavaScript Date keeps of an instant.
Milli(t) == t \div Resolution

\* An expiry instant that has passed at time t (NULL never has).
Lapsed(e, t) == e # Never /\ e <= t

-----------------------------------------------------------------------------
(* Signing                                                                  *)

CanSign == usable # {} /\ Cardinality(usable) <= MaxSignatures

EnvelopeOf(e) ==
    [expires |-> e.expires, name |-> e.name, keys |-> usable,
     seats |-> IF ActivationModel = "device_seats" THEN e.seats ELSE 0]

\* signLicense(): the licence row after signing e in r's transaction.
SignedBy(r, e) == [env |-> EnvelopeOf(e), updated |-> tx[r].ts]

SignRefusal(e, now) ==
    IF e.status = "revoked" THEN "revoked"
    ELSE IF Lapsed(e.expires, now + SignMargin) THEN "subscription_expired"
    ELSE IF ~CanSign THEN "server_error"
    ELSE "ok"

\* Variant: the licence is not compared with the time of the last change.
CurrentWhateverChanged(c, now) ==
    /\ c.lic.env # NoEnvelope
    /\ c.lic.env.keys = usable
    /\ ~Lapsed(c.ent.expires, now)

\* currentOrFreshLicense(): is the stored licence served as it is?  getTime() compares
\* milliseconds.
Current(c, now) ==
    /\ c.lic.env # NoEnvelope
    /\ Milli(c.lic.updated) >= Milli(c.ent.updated)
    /\ c.lic.env.keys = usable
    /\ ~Lapsed(c.ent.expires, now)

CurrentRefusal(c, now) ==
    IF c.ent.status = "revoked" THEN "revoked"
    ELSE IF Current(c, now) THEN "ok"
    ELSE SignRefusal(c.ent, now)

CurrentOrFresh(r, c, now) == IF Current(c, now) THEN c.lic ELSE SignedBy(r, c.ent)

Answer(l, a) == [code |-> "ok", licence |-> l, certificate |-> a]

-----------------------------------------------------------------------------
(* Requests                                                                 *)

ActivateCall ==
       [op : {"activate"}, key : ActivationKey, device : Device, secret : Secret]

Call ==
       ActivateCall
  \cup [op : {"renew"}, act : Activation \cup {NoActivation}, device : Device, secret : Secret]
  \cup [op : {"deactivate"}, act : Activation, device : Device, secret : Secret]
  \cup [op : {"release"}, act : Activation]
  \cup [op : {"amend"}, seats : SeatChoice, allowance : AllowanceChoice,
        expires : ExpiryChoice \cup {Never}]
  \cup [op : {"reissue"}, name : Name]
  \cup [op : {"revoke"}, ref : Ref \cup {Nobody}]
  \cup [op : {"extend"}, expires : ExpiryChoice]
  \cup [op : {"grant"}, amount : 1..MaxGrant]
  \cup [op : {"unrevoke", "rotate", "reset", "download"}]

Idle == [pc |-> "idle"]

Key(status, reveal, shown) ==
    [status |-> status, reveal |-> reveal, held |-> {}, shown |-> shown]

NoReply == [code |-> "none", licence |-> NoEnvelope, certificate |-> NoActivation]
Reply(code) == [NoReply EXCEPT !.code = code]

Standing(r) == tx[r].pc
Ctx(r) == tx[r].ctx

\* The transaction that created the entitlement signed its first licence as well.
Init ==
    /\ clock = 1
    /\ ent \in [status : {"active"}, seats : SeatChoice, allowance : AllowanceChoice,
                expires : {InitialExpiry}, name : Name, resetAt : {0}, snap : {0}, updated : {1}]
    /\ usable \in SUBSET SigningKey
    /\ SignRefusal(ent, 1) = "ok"
    /\ lic = [env |-> EnvelopeOf(ent), updated |-> 1]
    /\ acts = [a \in Activation |-> NoRow]
    /\ grants = [t \in Instant |-> 0]
    /\ \E k \in ActivationKey :
         keys = [j \in ActivationKey |->
                   IF j = k THEN Key("active", 1 + RevealLife, 0) ELSE Key("unused", 0, 0)]
    /\ revs = [refs |-> {}, last |-> "none"]
    /\ lock = Nobody
    /\ tx = [r \in Request |-> Idle]
    /\ reply = NoReply

Rows == <<ent, lic, acts, grants, keys, revs>>

\* BEGIN, the reads before the lock, and the start of the locking statement.
Waiting(c, n) ==
    [pc |-> "waiting", call |-> c, now |-> n, ts |-> clock + 1, snap |-> ent.snap,
     seen |-> IF c.op = "release" THEN acts[c.act].status ELSE "unused"]

\* Ids and keys still to hand out, less those already on their way (bounds).
IdsLeft ==
    Cardinality(Activation \ IssuedActs) >
      Cardinality({r \in Request : Standing(r) # "idle" /\ tx[r].call.op = "activate"})

KeysLeft ==
    Cardinality({k \in ActivationKey : keys[k].status = "unused"}) >
      Cardinality({r \in Request : Standing(r) # "idle" /\ tx[r].call.op = "rotate"})

-----------------------------------------------------------------------------
(* Starting a transaction                                                   *)

\* activate() looks the activation key up in a statement of its own, before its
\* transaction begins.
LookUpKey(r) ==
    /\ Standing(r) = "idle"
    /\ "activate" \in Operation
    /\ IdsLeft /\ clock < MaxClock    \* there is room for its transaction (bounds)
    /\ \E k \in ActivationKey, d \in Device, s \in Secret :
         /\ keys[k].status = "active"
         /\ tx' = [tx EXCEPT ![r] =
                     [pc |-> "keyed", now |-> clock,
                      call |-> [op |-> "activate", key |-> k, device |-> d, secret |-> s]]]
    /\ reply' = NoReply
    /\ UNCHANGED <<clock, Rows, usable, lock>>

BeginActivate(r) ==
    /\ Standing(r) = "keyed"
    /\ clock < MaxClock
    /\ clock' = clock + 1
    /\ tx' = [tx EXCEPT ![r] = Waiting(tx[r].call, tx[r].now)]
    /\ reply' = NoReply
    /\ UNCHANGED <<Rows, usable, lock>>

\* deactivate() and releaseActivation() fail before the lock when there is no such row.
Acceptable(c) ==
    /\ c.op \in Operation \ {"activate"}
    /\ c.op \in {"deactivate", "release"} => acts[c.act].status # "unused"
    /\ c.op = "extend" => ent.expires # Never    \* an invoice belongs to a subscription
    /\ c.op = "rotate" => KeysLeft

Begin(r) ==
    /\ Standing(r) = "idle"
    /\ clock < MaxClock
    /\ \E c \in Call :
         /\ Acceptable(c)
         /\ tx' = [tx EXCEPT ![r] = Waiting(c, clock + 1)]
    /\ clock' = clock + 1
    /\ reply' = NoReply
    /\ UNCHANGED <<Rows, usable, lock>>

-----------------------------------------------------------------------------
(* The row lock                                                             *)

Close(r, answer) ==
    /\ tx' = [tx EXCEPT ![r] = Idle]
    /\ lock' = IF lock = r THEN Nobody ELSE lock
    /\ reply' = answer
    /\ UNCHANGED <<clock, usable>>

\* Variant: a refused transaction is left open.
RefuseLeftOpen(r, code) ==
    /\ tx' = [tx EXCEPT ![r] = Idle]
    /\ reply' = Reply(code)
    /\ UNCHANGED <<clock, usable, lock, Rows>>

Refuse(r, code) ==
    /\ Close(r, Reply(code))
    /\ UNCHANGED Rows

\* Variant: the SELECT without FOR UPDATE.
AcquireWithoutLock(r) ==
    /\ Standing(r) = "waiting"
    /\ ent.snap = tx[r].snap
    /\ lock' = r
    /\ tx' = [tx EXCEPT ![r] = [pc |-> "locked", call |-> tx[r].call, now |-> tx[r].now,
                                ts |-> tx[r].ts, seen |-> tx[r].seen,
                                ctx |-> [ent |-> ent, lic |-> lic]]]
    /\ reply' = NoReply
    /\ UNCHANGED <<clock, Rows, usable>>

\* loadLicenseContext(tx, id, true): the locked rows as they are now.
Acquire(r) ==
    /\ Standing(r) = "waiting"
    /\ lock = Nobody
    /\ ent.snap = tx[r].snap
    /\ lock' = r
    /\ tx' = [tx EXCEPT ![r] = [pc |-> "locked", call |-> tx[r].call, now |-> tx[r].now,
                                ts |-> tx[r].ts, seen |-> tx[r].seen,
                                ctx |-> [ent |-> ent, lic |-> lic]]]
    /\ reply' = NoReply
    /\ UNCHANGED <<clock, Rows, usable>>

\* The statement joins the policy snapshot without locking it.  When the row it
\* waited for has moved to another snapshot, the joined snapshot no longer matches
\* and the statement returns no row.
RowGone(r) ==
    /\ Standing(r) = "waiting"
    /\ lock = Nobody
    /\ ent.snap # tx[r].snap
    /\ Refuse(r, IF tx[r].call.op = "activate" THEN "invalid_key" ELSE "not_found")

\* The worker dies or the connection drops: PostgreSQL rolls back.
Abort(r) ==
    /\ Standing(r) # "idle"
    /\ Refuse(r, "server_error")

Holds(r, op) == Standing(r) = "locked" /\ tx[r].call.op = op

-----------------------------------------------------------------------------
(* Seats and transfers                                                      *)

Counted(t, now) == t > ent.resetAt /\ t + Window > now

\* Variant: a transfer is forgotten when its device is released.
TransfersStillActive(now) ==
    Cardinality({a \in ActiveActs : acts[a].transfer /\ Counted(acts[a].at, now)})

TransfersUsed(now) ==
    Cardinality({a \in IssuedActs : acts[a].transfer /\ Counted(acts[a].at, now)})

TransfersGranted(now) ==
    MapThenSumSet(LAMBDA t : grants[t], {t \in Instant : Counted(t, now)})

\* transferStatus(): what is left of the allowance, net of grants.
TransfersLeft(now) ==
    LET net == TransfersUsed(now) - TransfersGranted(now)
        left == ent.allowance - (IF net > 0 THEN net ELSE 0)
    IN  IF left > 0 THEN left ELSE 0

ActivateRefusal(r) ==
    LET e == Ctx(r).ent
    IN  IF e.status = "revoked" THEN "revoked"
        ELSE IF Lapsed(e.expires, tx[r].now) THEN "subscription_expired"
        ELSE "ok"

\* The certificate is signed by the same keys, so it too needs a signer.
CertificateRefusal(r) ==
    IF CurrentRefusal(Ctx(r), tx[r].now) # "ok" THEN CurrentRefusal(Ctx(r), tx[r].now)
    ELSE IF ~CanSign THEN "server_error"
    ELSE "ok"

RefuseActivate(r) ==
    /\ Holds(r, "activate")
    /\ ActivateRefusal(r) # "ok"
    /\ Refuse(r, ActivateRefusal(r))

\* Provisioning only: no device, no seat.
Provision(r) ==
    /\ Holds(r, "activate")
    /\ ActivateRefusal(r) = "ok"
    /\ ActivationModel = "none"
    /\ IF CurrentRefusal(Ctx(r), tx[r].now) # "ok"
       THEN Refuse(r, CurrentRefusal(Ctx(r), tx[r].now))
       ELSE /\ lic' = CurrentOrFresh(r, Ctx(r), tx[r].now)
            /\ Close(r, Answer(lic'.env, NoActivation))
            /\ UNCHANGED <<ent, acts, grants, keys, revs>>

\* A device that is already active keeps its seat and its activation id.
Reactivate(r) ==
    /\ Holds(r, "activate")
    /\ ActivateRefusal(r) = "ok"
    /\ ActivationModel = "device_seats"
    /\ \E a \in LiveOn(tx[r].call.device) :
         IF CertificateRefusal(r) # "ok"
         THEN Refuse(r, CertificateRefusal(r))
         ELSE /\ acts' = [acts EXCEPT ![a].secret = tx[r].call.secret]
              /\ lic' = CurrentOrFresh(r, Ctx(r), tx[r].now)
              /\ Close(r, Answer(lic'.env, a))
              /\ UNCHANGED <<ent, grants, keys, revs>>

\* Variant: a device that is active already is given another seat.
CountSeatsAgain(r) ==
    /\ Holds(r, "activate")
    /\ ActivateRefusal(r) = "ok"
    /\ ActivationModel = "device_seats"
    /\ tx' = [tx EXCEPT ![r] = [pc |-> "counted", call |-> tx[r].call, now |-> tx[r].now,
                                ts |-> tx[r].ts, ctx |-> Ctx(r),
                                active |-> Cardinality(ActiveActs),
                                fresh |-> Cardinality(FreshUsed)]]
    /\ reply' = NoReply
    /\ UNCHANGED <<clock, Rows, usable, lock>>

\* The two counts, read under the lock.
CountSeats(r) ==
    /\ Holds(r, "activate")
    /\ ActivateRefusal(r) = "ok"
    /\ ActivationModel = "device_seats"
    /\ LiveOn(tx[r].call.device) = {}
    /\ tx' = [tx EXCEPT ![r] = [pc |-> "counted", call |-> tx[r].call, now |-> tx[r].now,
                                ts |-> tx[r].ts, ctx |-> Ctx(r),
                                active |-> Cardinality(ActiveActs),
                                fresh |-> Cardinality(FreshUsed)]]
    /\ reply' = NoReply
    /\ UNCHANGED <<clock, Rows, usable, lock>>

\* Variants: one seat too many is free; a released seat counts as never used.
IsTransferLate(r) == tx[r].fresh > Ctx(r).ent.seats
IsTransferByActive(r) == tx[r].active >= Ctx(r).ent.seats

\* Filling a never-used seat is free; re-using a released one is a transfer.
IsTransfer(r) == tx[r].fresh >= Ctx(r).ent.seats

\* Variant: one seat too many.
SeatRefusalLate(r) ==
    IF tx[r].active > Ctx(r).ent.seats THEN "seat_limit"
    ELSE IF IsTransfer(r) /\ TransfersLeft(tx[r].now) <= 0 THEN "transfer_limit"
    ELSE CertificateRefusal(r)

\* Variant: what is left is never less than zero, so no transfer is refused.
SeatRefusalAtZero(r) ==
    IF tx[r].active >= Ctx(r).ent.seats THEN "seat_limit"
    ELSE IF IsTransfer(r) /\ TransfersLeft(tx[r].now) < 0 THEN "transfer_limit"
    ELSE CertificateRefusal(r)

SeatRefusal(r) ==
    IF tx[r].active >= Ctx(r).ent.seats THEN "seat_limit"
    ELSE IF IsTransfer(r) /\ TransfersLeft(tx[r].now) <= 0 THEN "transfer_limit"
    ELSE CertificateRefusal(r)

TakeSeat(r) ==
    /\ Standing(r) = "counted"
    /\ IF SeatRefusal(r) # "ok"
       THEN Refuse(r, SeatRefusal(r))
       ELSE /\ \E a \in Activation \ IssuedActs :
                 /\ acts' = [acts EXCEPT ![a] =
                               [status |-> "active", device |-> tx[r].call.device,
                                secret |-> tx[r].call.secret, transfer |-> IsTransfer(r),
                                at |-> tx[r].ts]]
                 /\ lic' = CurrentOrFresh(r, Ctx(r), tx[r].now)
                 /\ Close(r, Answer(lic'.env, a))
            /\ UNCHANGED <<ent, grants, keys, revs>>

\* Variant: the status of the activation is not checked.
CredentialRefusalAnyStatus(c) ==
    IF acts[c.act].status = "unused" THEN "not_found"
    ELSE IF acts[c.act].secret # c.secret \/ acts[c.act].device # c.device THEN "unauthorized"
    ELSE "ok"

\* verifyActivationCredentials() and the status check that follows it.
CredentialRefusal(c) ==
    IF acts[c.act].status = "unused" THEN "not_found"
    ELSE IF acts[c.act].secret # c.secret \/ acts[c.act].device # c.device THEN "unauthorized"
    ELSE IF acts[c.act].status # "active" THEN "activation_inactive"
    ELSE "ok"

RenewRefusal(r) ==
    LET c == tx[r].call
        e == Ctx(r).ent
    IN  IF e.status = "revoked" THEN "revoked"
        ELSE IF c.act # NoActivation /\ CredentialRefusal(c) # "ok" THEN CredentialRefusal(c)
        ELSE SignRefusal(e, tx[r].now)

Renew(r) ==
    /\ Holds(r, "renew")
    /\ IF RenewRefusal(r) # "ok"
       THEN Refuse(r, RenewRefusal(r))
       ELSE /\ lic' = SignedBy(r, Ctx(r).ent)
            /\ Close(r, Answer(lic'.env, tx[r].call.act))
            /\ UNCHANGED <<ent, acts, grants, keys, revs>>

Deactivate(r) ==
    /\ Holds(r, "deactivate")
    /\ IF CredentialRefusal(tx[r].call) # "ok"
       THEN Refuse(r, CredentialRefusal(tx[r].call))
       ELSE /\ acts' = [acts EXCEPT ![tx[r].call.act].status = "inactive"]
            /\ Close(r, Reply("ok"))
            /\ UNCHANGED <<ent, lic, grants, keys, revs>>

\* releaseActivation() goes by the status it read before it had the lock.
Release(r) ==
    /\ Holds(r, "release")
    /\ acts' = IF tx[r].seen = "active"
               THEN [acts EXCEPT ![tx[r].call.act].status = "inactive"]
               ELSE acts
    /\ Close(r, Reply("ok"))
    /\ UNCHANGED <<ent, lic, grants, keys, revs>>

-----------------------------------------------------------------------------
(* Changes to the entitlement                                               *)

\* Every UPDATE of the row runs the touch_updated_at trigger: now() of its transaction.
Touched(r, e) == [e EXCEPT !.updated = tx[r].ts]

\* amendEntitlement(): an expiry of Never stands for "not given".
AmendRefusal(r) ==
    LET c == tx[r].call
        e == Ctx(r).ent
    IN  IF ActivationModel # "device_seats" /\ (c.seats # e.seats \/ c.allowance # e.allowance)
        THEN "invalid"
        ELSE IF c.expires # Never /\ e.expires = Never THEN "invalid"
        ELSE "ok"

Amend(r) ==
    /\ Holds(r, "amend")
    /\ IF AmendRefusal(r) # "ok"
       THEN Refuse(r, AmendRefusal(r))
       ELSE /\ LET c == tx[r].call
               IN  ent' = Touched(r, [ent EXCEPT !.seats = c.seats, !.allowance = c.allowance,
                                        !.snap = @ + 1,
                                        !.expires = IF c.expires # Never THEN c.expires ELSE @])
            /\ Close(r, Reply("ok"))
            /\ UNCHANGED <<lic, acts, grants, keys, revs>>

\* Variant: the licence is signed with the name read before the rename.
ReissueOldName(r) ==
    /\ Holds(r, "reissue")
    /\ LET e == [Ctx(r).ent EXCEPT !.name = tx[r].call.name]
       IN  IF SignRefusal(e, tx[r].now) # "ok"
           THEN Refuse(r, SignRefusal(e, tx[r].now))
           ELSE /\ ent' = Touched(r, e)
                /\ lic' = SignedBy(r, Ctx(r).ent)
                /\ Close(r, Answer(lic'.env, NoActivation))
                /\ UNCHANGED <<acts, grants, keys, revs>>

\* Renaming and re-signing are one transaction: a refusal undoes the rename.
Reissue(r) ==
    /\ Holds(r, "reissue")
    /\ LET e == [Ctx(r).ent EXCEPT !.name = tx[r].call.name]
       IN  IF SignRefusal(e, tx[r].now) # "ok"
           THEN Refuse(r, SignRefusal(e, tx[r].now))
           ELSE /\ ent' = Touched(r, e)
                /\ lic' = SignedBy(r, e)
                /\ Close(r, Answer(lic'.env, NoActivation))
                /\ UNCHANGED <<acts, grants, keys, revs>>

\* INSERT INTO revocations: an admin revocation has no reference (NULL).
Recorded(ref) == [refs |-> revs.refs \cup ({ref} \ {Nobody}), last |-> "revoke"]

\* Variant: a reference that is on file already revokes again.
RevokeEachTime(r) ==
    /\ Holds(r, "revoke")
    /\ revs' = IF tx[r].call.ref \in revs.refs THEN revs ELSE Recorded(tx[r].call.ref)
    /\ ent' = IF Ctx(r).ent.status = "revoked" THEN ent
              ELSE Touched(r, [ent EXCEPT !.status = "revoked"])
    /\ Close(r, Reply("ok"))
    /\ UNCHANGED <<lic, acts, grants, keys>>

\* revokeInTx(): a reference that is on file revokes nothing (ON CONFLICT DO NOTHING).
Revoke(r) ==
    /\ Holds(r, "revoke")
    /\ LET ref == tx[r].call.ref
           inserted == ref \notin revs.refs
       IN  /\ revs' = IF inserted THEN Recorded(ref) ELSE revs
           /\ ent' = IF Ctx(r).ent.status = "revoked" \/ ~inserted THEN ent
                     ELSE Touched(r, [ent EXCEPT !.status = "revoked"])
    /\ Close(r, Reply("ok"))
    /\ UNCHANGED <<lic, acts, grants, keys>>

Unrevoke(r) ==
    /\ Holds(r, "unrevoke")
    /\ IF Ctx(r).ent.status # "revoked"
       THEN Refuse(r, "conflict")
       ELSE /\ ent' = Touched(r, [ent EXCEPT !.status = "active"])
            /\ revs' = [revs EXCEPT !.last = "unrevoke"]
            /\ Close(r, Reply("ok"))
            /\ UNCHANGED <<lic, acts, grants, keys>>

\* handleInvoice() extends the row it locked, never shortening it.
Extend(r) ==
    /\ Holds(r, "extend")
    /\ LET target == tx[r].call.expires
           e == Ctx(r).ent
       IN  ent' = IF e.expires = Never \/ e.expires < target
                  THEN Touched(r, [ent EXCEPT !.expires = target])
                  ELSE ent
    /\ Close(r, Reply("ok"))
    /\ UNCHANGED <<lic, acts, grants, keys, revs>>

GrantTransfers(r) ==
    /\ Holds(r, "grant")
    /\ grants' = [grants EXCEPT ![tx[r].ts] = @ + tx[r].call.amount]
    /\ Close(r, Reply("ok"))
    /\ UNCHANGED <<ent, lic, acts, keys, revs>>

ResetTransfers(r) ==
    /\ Holds(r, "reset")
    /\ ent' = Touched(r, [ent EXCEPT !.resetAt = tx[r].ts])
    /\ Close(r, Reply("reset"))
    /\ UNCHANGED <<lic, acts, grants, keys, revs>>

-----------------------------------------------------------------------------
(* Activation keys and the licence file                                     *)

Rotated(row) == [row EXCEPT !.status = "rotated", !.reveal = 0]

\* The UPDATE of the active key waits while a reveal holds that row.
Rotating(r) ==
    /\ Holds(r, "rotate")
    /\ \A k \in ActivationKey : keys[k].status = "active" => keys[k].held = {}
    /\ Close(r, Reply("rotated"))
    /\ UNCHANGED <<ent, lic, acts, grants, revs>>

\* Variants: the old key stays active; the new key keeps its reveal slot.
RotateKeepingOld(r) ==
    /\ Rotating(r)
    /\ \E new \in {k \in ActivationKey : keys[k].status = "unused"} :
         keys' = [keys EXCEPT ![new] = Key("active", 0, 1)]

RotateRevealable(r) ==
    /\ Rotating(r)
    /\ \E new \in {k \in ActivationKey : keys[k].status = "unused"} :
         keys' = [k \in ActivationKey |->
                    IF k = new THEN Key("active", tx[r].ts + RevealLife, 1)
                    ELSE IF keys[k].status = "active" THEN Rotated(keys[k])
                    ELSE keys[k]]

\* The new key is shown in the answer, so its reveal slot is cleared at once.
Rotate(r) ==
    /\ Rotating(r)
    /\ \E new \in {k \in ActivationKey : keys[k].status = "unused"} :
         keys' = [k \in ActivationKey |->
                    IF k = new THEN Key("active", 0, 1)
                    ELSE IF keys[k].status = "active" THEN Rotated(keys[k])
                    ELSE keys[k]]

\* revealActivationKey() locks the row of the key, not the licence.
Revealing(answer) ==
    /\ reply' = answer
    /\ UNCHANGED <<clock, ent, lic, acts, grants, revs, usable, lock, tx>>

Viewing(v, k) == v \in keys[k].held

\* Variant: the SELECT without FOR UPDATE.
ReadKeyUnlocked(v) ==
    /\ "reveal" \in Operation
    /\ \A k \in ActivationKey : ~Viewing(v, k)
    /\ \E k \in ActivationKey :
         /\ keys[k].status = "active"
         /\ keys[k].reveal # 0 /\ keys[k].reveal >= clock
         /\ keys' = [keys EXCEPT ![k].held = @ \cup {v}]
    /\ Revealing(NoReply)

\* SELECT ... FOR UPDATE finds the active key still in its slot.
ReadKey(v) ==
    /\ "reveal" \in Operation
    /\ \A k \in ActivationKey : ~Viewing(v, k)
    /\ \E k \in ActivationKey :
         /\ keys[k].status = "active" /\ keys[k].held = {}
         /\ keys[k].reveal # 0 /\ keys[k].reveal >= clock
         /\ keys' = [keys EXCEPT ![k].held = {v}]
    /\ Revealing(NoReply)

\* The slot is cleared, the transaction commits, and the key goes out.
ShowKey(v) ==
    /\ \E k \in ActivationKey :
         /\ Viewing(v, k)
         /\ keys' = [keys EXCEPT ![k].held = @ \ {v}, ![k].reveal = 0, ![k].shown = @ + 1]
    /\ Revealing(Reply("revealed"))

\* The worker dies before it commits.
DropKey(v) ==
    /\ \E k \in ActivationKey :
         /\ Viewing(v, k)
         /\ keys' = [keys EXCEPT ![k].held = @ \ {v}]
    /\ Revealing(NoReply)

Reveal(v) == ReadKey(v) \/ ShowKey(v) \/ DropKey(v)

\* An expired term still downloads the last licence that was validly signed.
DownloadRefusal(r) ==
    LET c == Ctx(r)
        refusal == CurrentRefusal(c, tx[r].now)
    IN  IF refusal = "subscription_expired" /\ c.lic.env # NoEnvelope THEN "last" ELSE refusal

Download(r) ==
    /\ Holds(r, "download")
    /\ \/ /\ DownloadRefusal(r) = "ok"
          /\ lic' = CurrentOrFresh(r, Ctx(r), tx[r].now)
          /\ Close(r, Answer(lic'.env, NoActivation))
          /\ UNCHANGED <<ent, acts, grants, keys, revs>>
       \/ /\ DownloadRefusal(r) = "last"
          /\ Close(r, [Answer(Ctx(r).lic.env, NoActivation) EXCEPT !.code = "last"])
          /\ UNCHANGED Rows
       \/ /\ DownloadRefusal(r) \notin {"ok", "last"}
          /\ Refuse(r, DownloadRefusal(r))

-----------------------------------------------------------------------------
(* The rest of the world                                                    *)

\* signing-keys.ts: a key is published, made eligible, retired, or a release moves
\* the trust interval.
ChangeUsable ==
    /\ "keychange" \in Operation
    /\ \E k \in SigningKey : usable' = (usable \ {k}) \cup ({k} \ usable)
    /\ reply' = NoReply
    /\ UNCHANGED <<clock, Rows, lock, tx>>

\* Time also passes while no transaction starts.
Elapse ==
    /\ "elapse" \in Operation
    /\ clock < MaxClock
    /\ clock' = clock + 1
    /\ reply' = NoReply
    /\ UNCHANGED <<Rows, usable, lock, tx>>

Start(r) == LookUpKey(r) \/ BeginActivate(r) \/ Begin(r)

Locking(r) == Acquire(r) \/ RowGone(r)

Machine(r) ==
    \/ RefuseActivate(r) \/ Provision(r) \/ Reactivate(r) \/ CountSeats(r) \/ TakeSeat(r)
    \/ Renew(r) \/ Deactivate(r)

Support(r) ==
    \/ Release(r) \/ Amend(r) \/ Reissue(r) \/ Revoke(r) \/ Unrevoke(r) \/ Extend(r)
    \/ GrantTransfers(r) \/ ResetTransfers(r) \/ Rotate(r) \/ Download(r)

Next ==
    \/ \E r \in Request :
         Start(r) \/ Locking(r) \/ Machine(r) \/ Support(r) \/ Abort(r)
    \/ \E v \in Viewer : Reveal(v)
    \/ ChangeUsable
    \/ Elapse

Spec == Init /\ [][Next]_vars

\* A worker that holds a lock goes on to commit or roll back, and PostgreSQL grants
\* a row lock to its waiters in the order they came (the licence to Locking, the
\* active key to Rotate).
RequestFairness ==
    /\ \A r \in Request : SF_vars(Locking(r)) /\ SF_vars(Machine(r) \/ Support(r))
    /\ WF_vars(\E v \in Viewer : ShowKey(v) \/ DropKey(v))

-----------------------------------------------------------------------------
(* Types and the lock                                                       *)

Context == [ent : EntitlementRow, lic : LicenseRow]

Keyed   == [pc : {"keyed"}, call : ActivateCall, now : Instant]
Queued  == [pc : {"waiting"}, call : Call, now : Instant, ts : Instant, snap : Nat,
            seen : Status]
Locked  == [pc : {"locked"}, call : Call, now : Instant, ts : Instant,
            seen : Status, ctx : Context]
Tallied == [pc : {"counted"}, call : ActivateCall, now : Instant, ts : Instant, ctx : Context,
            active : Nat, fresh : Nat]

Transaction == {Idle} \cup Keyed \cup Queued \cup Locked \cup Tallied

Code == {"none", "ok", "last", "reset", "rotated", "revealed", "conflict", "invalid",
         "invalid_key", "not_found", "server_error", "revoked", "subscription_expired",
         "seat_limit", "transfer_limit", "unauthorized", "activation_inactive"}

AnswerType == [code : Code, licence : Envelope \cup {NoEnvelope},
               certificate : Activation \cup {NoActivation}]

\* The types of the rows, of the requests and of the last answer.
TypeOK ==
    /\ clock \in Instant
    /\ ent \in EntitlementRow
    /\ lic \in LicenseRow
    /\ acts \in [Activation -> ActivationRow]
    /\ grants \in [Instant -> Nat]
    /\ keys \in [ActivationKey -> KeyRow]
    /\ revs \in RevocationLog
    /\ usable \subseteq SigningKey
    /\ lock \in Request \cup {Nobody}
    /\ tx \in [Request -> Transaction]
    /\ reply \in AnswerType

\* SELECT ... FOR UPDATE serialises the requests of a licence: whoever is past the
\* lock holds it, the rows it read are still the committed ones, and so is its count
\* of the seats.
LockInv ==
    \A r \in Request :
      /\ Standing(r) \in {"locked", "counted"} <=> lock = r
      /\ lock = r => Ctx(r) = [ent |-> ent, lic |-> lic]
      /\ Standing(r) = "counted" =>
           /\ tx[r].active = Cardinality(ActiveActs)
           /\ tx[r].fresh = Cardinality(FreshUsed)
           /\ LiveOn(tx[r].call.device) = {}

-----------------------------------------------------------------------------
(* Safety                                                                   *)

\* "activations_one_live_per_device": activate() never gives a device two seats,
\* whatever requests of the device overlap.
OneLivePerDevice == \A d \in Device : Cardinality(LiveOn(d)) <= 1

\* activate() checks the seats under the lock: an activation is added only within
\* the seats of the entitlement at that moment.  (Fewer seats later deactivate
\* nobody: ADR-0001, decision 7.)
SeatCeiling ==
    [][ Cardinality(ActiveActs') > Cardinality(ActiveActs)
          => Cardinality(ActiveActs') <= ent'.seats ]_vars

\* A seat is taken afresh at most once: the activations that did not count as a
\* transfer never outnumber the seats the entitlement has when one is added.
FreshSeats ==
    [][ Cardinality(FreshUsed') > Cardinality(FreshUsed)
          => Cardinality(FreshUsed') <= ent'.seats ]_vars

\* Releasing devices and activating others is bounded: with no support reset, at
\* most the largest allowance plus what was granted moves inside a window.
TransferBudget ==
    \A t \in Instant :
      LET within(u) == u <= t /\ u + Window > t
      IN  Cardinality({a \in IssuedActs : acts[a].transfer /\ within(acts[a].at)})
            <= Max(AllowanceChoice) + MapThenSumSet(LAMBDA u : grants[u], Instant)

\* renew() checks the credentials under the lock: no certificate is signed for an
\* activation that has been released, even by a request that started before.
NoCertificateOnceReleased ==
    [][ reply'.certificate # NoActivation
          => acts'[reply'.certificate].status = "active" ]_vars

\* No request is answered with a licence once the entitlement is revoked.
RevokedServesNothing ==
    [][ reply'.licence # NoEnvelope => ent.status = "active" ]_vars

\* A licence that is signed shows the entitlement as it is when it is signed.
SignedAsEntitled ==
    [][ lic' # lic => lic'.env = EnvelopeOf(ent') ]_vars

\* The log of revocations accounts for the status: an entitlement is revoked exactly
\* if the last thing on record is a revocation.  A refund that comes again after
\* support restored the entitlement takes nothing away, and no revocation that waited
\* for another change of the entitlement is recorded without effect.
RevokedAsRecorded == ent.status = "revoked" <=> revs.last = "revoke"

\* Rotation swaps the active activation key in one step: a licence always has
\* exactly one ("activation_keys_one_active").
OneActiveKey == Cardinality({k \in ActivationKey : keys[k].status = "active"}) = 1

\* Reveals of one licence overlap each other and its rotations, yet one key is active
\* and no key is shown twice: not to two viewers, nor by a reveal after the rotation
\* that handed it out.
KeysShownOnce ==
    /\ OneActiveKey
    /\ \A k \in ActivationKey : keys[k].shown <= 1

\* currentOrFreshLicense(): a licence served by activate or download shows the
\* entitlement of that moment.
ServedAsEntitled ==
    [][ reply'.code = "ok" /\ reply'.licence # NoEnvelope
          => reply'.licence = EnvelopeOf(ent') ]_vars

\* What currentOrFreshLicense() does guarantee: a licence is out of date when it is
\* served only if another transaction changed the entitlement after the signing and is
\* dated no later than the millisecond of the signing: it began first and committed
\* last, or both began in one millisecond.
ServedUnlessBackdated ==
    [][ reply'.code = "ok" /\ reply'.licence # NoEnvelope
        /\ reply'.licence # EnvelopeOf(ent')
          => /\ ent'.updated # lic'.updated
             /\ Milli(ent'.updated) <= Milli(lic'.updated) ]_vars

\* What the licence promises about seats, whatever transactions carry it out.
Ledger == INSTANCE SeatLedger
    WITH limit <- ent.seats,
         seated <- SeatedDevices,
         opened <- Cardinality(FreshUsed),
         moved <- Cardinality(IssuedActs \ FreshUsed)

\* The transactions implement the seat ledger.
ImplementsLedger == Ledger!Spec

\* Every request is answered, however many wait for the same licence.
EveryRequestAnswered == \A r \in Request : Standing(r) = "waiting" ~> Standing(r) = "idle"
=============================================================================
