---------------------------- MODULE LicensingProofs ---------------------------
(***************************************************************************)
(* Proofs about Licensing, for every number of requests, devices,          *)
(* activations and seats.                                                  *)
(*                                                                         *)
(* The safety properties rest on two invariants: Typing, and LockInv,      *)
(* which says that what a request read under the row lock of its           *)
(* entitlement (its snapshot of the entitlement and of the licence) is     *)
(* what the row still says, since nobody else writes it until the request  *)
(* commits or aborts. With it the count of the live seats that a request   *)
(* made is still right when it takes one.                                  *)
(*                                                                         *)
(* ServedUnlessBackdated compares dates, and needs to know where they come *)
(* from: every open transaction has a now() of its own that nothing is     *)
(* dated with yet (Dated), so that a licence and an entitlement of the     *)
(* same date were written together (Shown).                                *)
(*                                                                         *)
(* TransferBudget counts over windows that the code does not look at: it   *)
(* looks at the transfers that count at now(). BudgetInv says that these   *)
(* are all those of any window the new transfer falls into. What is        *)
(* granted is a sum over a set; that sums of numbers grow with the set and *)
(* with the numbers is shown by looking at a smallest set for which they   *)
(* do not.                                                                 *)
(***************************************************************************)
EXTENDS Licensing, FiniteSetTheorems, WellFoundedInduction, TLAPS

USE LicensingAssumption DEF LicensingAssumption

-----------------------------------------------------------------------------
(* The shape of a request at each stage, and of each call.                  *)

LEMMA StageType ==
  ASSUME TypeOK, NEW r \in Request
  PROVE  /\ Standing(r) = "keyed" => tx[r] \in Keyed
         /\ Standing(r) = "waiting" => tx[r] \in Queued
         /\ Standing(r) = "locked" => tx[r] \in Locked
         /\ Standing(r) = "counted" => tx[r] \in Tallied
  <1>1. tx[r] \in Transaction
    BY DEF TypeOK
  <1>2. QED
    BY <1>1 DEF Transaction, Idle, Keyed, Queued, Locked, Tallied, Standing

LEMMA CallType ==
  ASSUME NEW c \in Call
  PROVE  /\ c.op = "activate" =>
              c.key \in ActivationKey /\ c.device \in Device /\ c.secret \in Secret
         /\ c.op = "activate" => c \in ActivateCall
         /\ c.op = "renew" => c.act \in Activation \cup {NoActivation}
         /\ c.op = "deactivate" => c.act \in Activation
         /\ c.op = "release" => c.act \in Activation
         /\ c.op = "amend" => /\ c.seats \in SeatChoice
                              /\ c.allowance \in AllowanceChoice
                              /\ c.expires \in ExpiryChoice \cup {Never}
         /\ c.op = "reissue" => c.name \in Name
         /\ c.op = "revoke" => c.ref \in Ref \cup {Nobody}
         /\ c.op = "extend" => c.expires \in ExpiryChoice
         /\ c.op = "grant" => c.amount \in 1..MaxGrant
  BY DEF Call, ActivateCall

LEMMA RefuseType ==
  ASSUME TypeOK, NEW r \in Request, NEW code \in Code, Refuse(r, code)
  PROVE  TypeOK'
  BY DEF TypeOK, Refuse, Close, Reply, NoReply, AnswerType, Rows, Transaction

LEMMA SignedType ==
  ASSUME TypeOK, NEW r \in Request, NEW e \in EntitlementRow, tx[r].ts \in Instant
  PROVE  SignedBy(r, e) \in LicenseRow /\ SignedBy(r, e).env \in Envelope
  BY DEF TypeOK, SignedBy, EnvelopeOf, LicenseRow, Envelope, EntitlementRow

LEMMA InitType == ASSUME Init PROVE TypeOK
  <1>1. clock \in Instant /\ 0 \in Instant /\ 1 \in Instant
    BY DEF Init, Instant
  <1>2. ent \in EntitlementRow
    <2>1. PICK s \in SeatChoice, w \in AllowanceChoice, n \in Name :
            ent = [status |-> "active", seats |-> s, allowance |-> w, expires |-> InitialExpiry,
                   name |-> n, resetAt |-> 0, snap |-> 0, updated |-> 1]
      BY DEF Init
    <2>2. s \in Nat \ {0} /\ w \in Nat /\ InitialExpiry \in Expiry
      BY DEF Expiry
    <2>3. QED
      BY <1>1, <2>1, <2>2 DEF EntitlementRow
  <1>3. lic \in LicenseRow
    <2>1. EnvelopeOf(ent) \in Envelope
      BY <1>2 DEF Init, EnvelopeOf, Envelope, EntitlementRow
    <2>2. QED
      BY <1>1, <2>1 DEF Init, LicenseRow
  <1>4. acts \in [Activation -> ActivationRow]
    BY <1>1 DEF Init, ActivationRow, Status, NoRow
  <1>5. keys \in [ActivationKey -> KeyRow]
    BY DEF Init, KeyRow, Key
  <1>6. tx \in [Request -> Transaction]
    BY DEF Init, Transaction
  <1>7. reply \in AnswerType
    BY DEF Init, AnswerType, NoReply, Code
  <1>8. QED
    BY <1>1, <1>2, <1>3, <1>4, <1>5, <1>6, <1>7 DEF Init, TypeOK, RevocationLog

-----------------------------------------------------------------------------
(* Every step preserves the types.                                          *)

LEMMA RefusalCodes ==
  ASSUME NEW r \in Request, NEW c \in Call, NEW e, NEW x, NEW now
  PROVE  /\ SignRefusal(e, now) \in Code
         /\ CurrentRefusal(x, now) \in Code
         /\ CertificateRefusal(r) \in Code
         /\ ActivateRefusal(r) \in Code
         /\ SeatRefusal(r) \in Code
         /\ CredentialRefusal(c) \in Code
         /\ RenewRefusal(r) \in Code
         /\ AmendRefusal(r) \in Code
         /\ DownloadRefusal(r) \in Code
  BY DEF Code, SignRefusal, CurrentRefusal, CertificateRefusal, ActivateRefusal, SeatRefusal,
         CredentialRefusal, RenewRefusal, AmendRefusal, DownloadRefusal

LEMMA WaitingType ==
  ASSUME TypeOK, NEW c \in Call, NEW n \in Instant, clock < MaxClock
  PROVE  Waiting(c, n) \in Queued /\ clock + 1 \in Instant
  <1>1. (IF c.op = "release" THEN acts[c.act].status ELSE "unused") \in Status
    BY CallType DEF TypeOK, ActivationRow, Status
  <1>2. QED
    BY <1>1 DEF TypeOK, Waiting, Queued, Instant, EntitlementRow

LEMMA StartType ==
  ASSUME TypeOK, NEW r \in Request, Start(r)
  PROVE  TypeOK'
  <1>1. CASE LookUpKey(r)
    <2>1. PICK k \in ActivationKey, d \in Device, s \in Secret :
            tx' = [tx EXCEPT ![r] =
                     [pc |-> "keyed", now |-> clock,
                      call |-> [op |-> "activate", key |-> k, device |-> d, secret |-> s]]]
      BY <1>1 DEF LookUpKey
    <2>2. [op |-> "activate", key |-> k, device |-> d, secret |-> s] \in ActivateCall
      BY DEF ActivateCall
    <2>3. tx' \in [Request -> Transaction]
      BY <2>1, <2>2 DEF TypeOK, Transaction, Keyed
    <2>4. reply' \in AnswerType
      BY <1>1 DEF LookUpKey, NoReply, AnswerType, Code
    <2>5. QED
      BY <1>1, <2>3, <2>4 DEF LookUpKey, TypeOK, Rows
  <1>2. CASE BeginActivate(r)
    <2>1. Waiting(tx[r].call, tx[r].now) \in Queued /\ clock' \in Instant
      BY <1>2, StageType, WaitingType DEF BeginActivate, Keyed, Call
    <2>2. tx' \in [Request -> Transaction]
      BY <1>2, <2>1 DEF BeginActivate, TypeOK, Transaction
    <2>3. reply' \in AnswerType
      BY <1>2 DEF BeginActivate, NoReply, AnswerType, Code
    <2>4. QED
      BY <1>2, <2>1, <2>2, <2>3 DEF BeginActivate, TypeOK, Rows
  <1>3. CASE Begin(r)
    <2>1. PICK c \in Call : tx' = [tx EXCEPT ![r] = Waiting(c, clock + 1)]
      BY <1>3 DEF Begin
    <2>2. clock + 1 \in Instant
      BY <1>3 DEF Begin, TypeOK, Instant
    <2>3. Waiting(c, clock + 1) \in Queued
      BY <1>3, <2>2, WaitingType DEF Begin
    <2>4. tx' \in [Request -> Transaction]
      BY <2>1, <2>3 DEF TypeOK, Transaction
    <2>5. reply' \in AnswerType
      BY <1>3 DEF Begin, NoReply, AnswerType, Code
    <2>6. QED
      BY <1>3, <2>2, <2>4, <2>5 DEF Begin, TypeOK, Rows
  <1>4. QED
    BY <1>1, <1>2, <1>3 DEF Start

LEMMA LockingType ==
  ASSUME TypeOK, NEW r \in Request, Locking(r)
  PROVE  TypeOK'
  <1>1. CASE Acquire(r)
    <2>1. tx[r] \in Queued
      BY <1>1, StageType DEF Acquire
    <2>2. [ent |-> ent, lic |-> lic] \in Context
      BY DEF TypeOK, Context
    <2>3. tx' \in [Request -> Transaction]
      BY <1>1, <2>1, <2>2 DEF Acquire, TypeOK, Transaction, Queued, Locked
    <2>4. reply' \in AnswerType
      BY <1>1 DEF Acquire, NoReply, AnswerType, Code
    <2>5. QED
      BY <1>1, <2>3, <2>4 DEF Acquire, TypeOK, Rows
  <1>2. CASE RowGone(r)
    BY <1>2, RefuseType DEF RowGone, Code
  <1>3. QED
    BY <1>1, <1>2 DEF Locking

\* A reveal touches the keys and answers without a licence.
LEMMA RevealFrame ==
  ASSUME NEW v \in Viewer, Reveal(v)
  PROVE  /\ UNCHANGED <<clock, ent, lic, acts, grants, revs, usable, lock, tx>>
         /\ reply' = NoReply \/ reply' = Reply("revealed")
  <1>1. CASE ReadKey(v)
    BY <1>1 DEF ReadKey, Revealing
  <1>2. CASE ShowKey(v)
    BY <1>2 DEF ShowKey, Revealing
  <1>3. CASE DropKey(v)
    BY <1>3 DEF DropKey, Revealing
  <1>4. QED
    BY <1>1, <1>2, <1>3 DEF Reveal

LEMMA RevealType ==
  ASSUME TypeOK, NEW v \in Viewer, Reveal(v)
  PROVE  TypeOK'
  <1>1. keys' \in [ActivationKey -> KeyRow]
    <2>1. PICK k \in ActivationKey :
            \/ keys' = [keys EXCEPT ![k].held = {v}]
            \/ keys' = [keys EXCEPT ![k].held = @ \ {v}, ![k].reveal = 0, ![k].shown = @ + 1]
            \/ keys' = [keys EXCEPT ![k].held = @ \ {v}]
      BY DEF Reveal, ReadKey, ShowKey, DropKey
    <2>2. keys[k] \in KeyRow
      BY DEF TypeOK
    <2>3. /\ keys[k].held \ {v} \in SUBSET Viewer /\ {v} \in SUBSET Viewer
          /\ keys[k].shown + 1 \in Nat
      BY <2>2 DEF KeyRow
    <2>4. /\ [keys[k] EXCEPT !.held = {v}] \in KeyRow
          /\ [keys[k] EXCEPT !.held = keys[k].held \ {v}] \in KeyRow
      BY <2>2, <2>3 DEF KeyRow
    <2>5. [keys[k] EXCEPT !.held = keys[k].held \ {v}, !.reveal = 0,
                          !.shown = keys[k].shown + 1] \in KeyRow
      BY <2>2, <2>3 DEF KeyRow
    <2>6. QED
      BY <2>1, <2>4, <2>5 DEF TypeOK
  <1>2. reply' \in AnswerType
    BY RevealFrame DEF Reply, NoReply, AnswerType, Code
  <1>3. QED
    BY <1>1, <1>2, RevealFrame DEF TypeOK, Instant

LEMMA CloseType ==
  ASSUME TypeOK, NEW r \in Request, NEW answer \in AnswerType, Close(r, answer)
  PROVE  /\ clock' \in Instant
         /\ usable' \subseteq SigningKey
         /\ lock' \in Request \cup {Nobody}
         /\ tx' \in [Request -> Transaction]
         /\ reply' \in AnswerType
  BY DEF TypeOK, Close, Transaction

LEMMA ReplyType ==
  ASSUME NEW code \in Code
  PROVE  Reply(code) \in AnswerType
  BY DEF Reply, NoReply, AnswerType

LEMMA AnswerOfType ==
  ASSUME NEW l \in Envelope \cup {NoEnvelope}, NEW a \in Activation \cup {NoActivation}
  PROVE  Answer(l, a) \in AnswerType
  BY DEF Answer, AnswerType, Code

\* currentOrFreshLicense() leaves a licence row with an envelope in it.
LEMMA CurrentOrFreshType ==
  ASSUME TypeOK, NEW r \in Request, NEW c \in Context, NEW now, tx[r].ts \in Instant
  PROVE  /\ CurrentOrFresh(r, c, now) \in LicenseRow
         /\ CurrentOrFresh(r, c, now).env \in Envelope
  <1>1. c.ent \in EntitlementRow /\ c.lic \in LicenseRow
    BY DEF Context
  <1>2. SignedBy(r, c.ent) \in LicenseRow /\ SignedBy(r, c.ent).env \in Envelope
    BY <1>1, SignedType
  <1>3. Current(c, now) => c.lic.env \in Envelope
    BY <1>1 DEF Current, LicenseRow
  <1>4. QED
    BY <1>1, <1>2, <1>3 DEF CurrentOrFresh

LEMMA MachineType ==
  ASSUME TypeOK, NEW r \in Request, Machine(r)
  PROVE  TypeOK'
  <1>0. /\ Standing(r) \in {"locked", "counted"}
        /\ tx[r].call \in Call /\ tx[r].ts \in Instant /\ tx[r].now \in Instant
        /\ Ctx(r) \in Context
    BY StageType DEF Machine, RefuseActivate, Provision, Reactivate, CountSeats, TakeSeat,
         Renew, Deactivate, Holds, Ctx, Locked, Tallied, Call
  <1> DEFINE row == CurrentOrFresh(r, Ctx(r), tx[r].now)
  <1>a. row \in LicenseRow /\ row.env \in Envelope
    BY <1>0, CurrentOrFreshType
  <1>1. CASE RefuseActivate(r)
    BY <1>0, <1>1, RefuseType, RefusalCodes DEF RefuseActivate
  <1>2. CASE Provision(r)
    <2>1. CASE CurrentRefusal(Ctx(r), tx[r].now) # "ok"
      BY <1>0, <1>2, <2>1, RefuseType, RefusalCodes DEF Provision
    <2>2. CASE CurrentRefusal(Ctx(r), tx[r].now) = "ok"
      <3>1. lic' = row /\ Close(r, Answer(lic'.env, NoActivation))
        BY <1>2, <2>2 DEF Provision
      <3>2. Answer(lic'.env, NoActivation) \in AnswerType
        BY <1>a, <3>1, AnswerOfType
      <3>3. QED
        BY <1>2, <1>a, <2>2, <3>1, <3>2, CloseType DEF Provision, TypeOK
    <2>3. QED
      BY <2>1, <2>2
  <1>3. CASE Reactivate(r)
    <2>1. PICK a \in LiveOn(tx[r].call.device) :
            IF CertificateRefusal(r) # "ok"
            THEN Refuse(r, CertificateRefusal(r))
            ELSE /\ acts' = [acts EXCEPT ![a].secret = tx[r].call.secret]
                 /\ lic' = row
                 /\ Close(r, Answer(lic'.env, a))
                 /\ UNCHANGED <<ent, grants, keys, revs>>
      BY <1>3 DEF Reactivate
    <2>2. CASE CertificateRefusal(r) # "ok"
      BY <1>0, <2>1, <2>2, RefuseType, RefusalCodes
    <2>3. CASE CertificateRefusal(r) = "ok"
      <3>1. a \in Activation
        BY DEF LiveOn, ActiveActs
      <3>2. tx[r].call.secret \in Secret
        BY <1>0, <1>3, CallType DEF Reactivate, Holds
      <3>3. acts' \in [Activation -> ActivationRow]
        <4>1. acts[a] \in ActivationRow /\ acts \in [Activation -> ActivationRow]
          BY <3>1 DEF TypeOK
        <4>2. [acts[a] EXCEPT !.secret = tx[r].call.secret] \in ActivationRow
          BY <3>2, <4>1 DEF ActivationRow, Status
        <4>3. acts' = [acts EXCEPT ![a].secret = tx[r].call.secret]
          BY <2>1, <2>3
        <4>4. QED
          BY <3>1, <4>1, <4>2, <4>3
      <3>4. Answer(lic'.env, a) \in AnswerType
        BY <1>a, <2>1, <2>3, <3>1, AnswerOfType
      <3>5. QED
        BY <1>a, <2>1, <2>3, <3>3, <3>4, CloseType DEF TypeOK
    <2>4. QED
      BY <2>2, <2>3
  <1>4. CASE CountSeats(r)
    <2>1. Cardinality(ActiveActs) \in Nat /\ Cardinality(FreshUsed) \in Nat
      BY FS_Subset, FS_CardinalityType DEF ActiveActs, FreshUsed, IssuedActs
    <2>2. tx[r].call \in ActivateCall
      BY <1>0, <1>4, CallType DEF CountSeats, Holds
    <2>3. tx' \in [Request -> Transaction]
      BY <1>0, <1>4, <2>1, <2>2 DEF CountSeats, TypeOK, Transaction, Tallied
    <2>4. reply' \in AnswerType
      BY <1>4 DEF CountSeats, NoReply, AnswerType, Code
    <2>5. QED
      BY <1>4, <2>3, <2>4 DEF CountSeats, TypeOK, Rows
  <1>5. CASE TakeSeat(r)
    <2>1. CASE SeatRefusal(r) # "ok"
      BY <1>0, <1>5, <2>1, RefuseType, RefusalCodes DEF TakeSeat
    <2>2. CASE SeatRefusal(r) = "ok"
      <3>1. PICK a \in Activation \ IssuedActs :
              /\ acts' = [acts EXCEPT ![a] =
                            [status |-> "active", device |-> tx[r].call.device,
                             secret |-> tx[r].call.secret, transfer |-> IsTransfer(r),
                             at |-> tx[r].ts]]
              /\ lic' = row
              /\ Close(r, Answer(lic'.env, a))
        BY <1>5, <2>2 DEF TakeSeat
      <3>2. tx[r].call.device \in Device /\ tx[r].call.secret \in Secret
        BY <1>5, StageType DEF TakeSeat, Tallied, ActivateCall
      <3>3. IsTransfer(r) \in BOOLEAN
        BY DEF IsTransfer
      <3>4. acts' \in [Activation -> ActivationRow]
        BY <1>0, <3>1, <3>2, <3>3 DEF TypeOK, ActivationRow, Status
      <3>5. Answer(lic'.env, a) \in AnswerType
        BY <1>a, <3>1, AnswerOfType
      <3>6. QED
        BY <1>5, <1>a, <2>2, <3>1, <3>4, <3>5, CloseType DEF TakeSeat, TypeOK
    <2>3. QED
      BY <2>1, <2>2
  <1>6. CASE Renew(r)
    <2>1. CASE RenewRefusal(r) # "ok"
      BY <1>0, <1>6, <2>1, RefuseType, RefusalCodes DEF Renew
    <2>2. CASE RenewRefusal(r) = "ok"
      <3>1. lic' = SignedBy(r, Ctx(r).ent) /\ Close(r, Answer(lic'.env, tx[r].call.act))
        BY <1>6, <2>2 DEF Renew
      <3>2. lic' \in LicenseRow /\ lic'.env \in Envelope
        BY <1>0, <3>1, SignedType DEF Context
      <3>3. Answer(lic'.env, tx[r].call.act) \in AnswerType
        BY <1>0, <1>6, <3>2, AnswerOfType, CallType DEF Renew, Holds
      <3>4. QED
        BY <1>6, <2>2, <3>1, <3>2, <3>3, CloseType DEF Renew, TypeOK
    <2>3. QED
      BY <2>1, <2>2
  <1>7. CASE Deactivate(r)
    <2>1. CASE CredentialRefusal(tx[r].call) # "ok"
      BY <1>0, <1>7, <2>1, RefuseType, RefusalCodes DEF Deactivate
    <2>2. CASE CredentialRefusal(tx[r].call) = "ok"
      <3>1. tx[r].call.act \in Activation
        BY <1>0, <1>7, CallType DEF Deactivate, Holds
      <3>2. acts' \in [Activation -> ActivationRow]
        BY <1>7, <2>2, <3>1 DEF Deactivate, TypeOK, ActivationRow, Status
      <3>3. QED
        BY <1>7, <2>2, <3>2, CloseType, ReplyType DEF Deactivate, TypeOK, Code
    <2>3. QED
      BY <2>1, <2>2
  <1>8. QED
    BY <1>1, <1>2, <1>3, <1>4, <1>5, <1>6, <1>7 DEF Machine

LEMMA SupportType ==
  ASSUME TypeOK, NEW r \in Request, Support(r)
  PROVE  TypeOK'
  <1>0. /\ Standing(r) = "locked"
        /\ tx[r].call \in Call /\ tx[r].ts \in Instant /\ tx[r].now \in Instant
        /\ Ctx(r) \in Context /\ Ctx(r).ent \in EntitlementRow /\ Ctx(r).lic \in LicenseRow
        /\ ent \in EntitlementRow
    BY StageType DEF Support, Release, Amend, Reissue, Revoke, Unrevoke, Extend,
         GrantTransfers, ResetTransfers, Rotate, Rotating, Download, Holds, Ctx, Locked, Context, TypeOK
  <1>1. CASE Release(r)
    <2>1. tx[r].call.act \in Activation
      BY <1>0, <1>1, CallType DEF Release, Holds
    <2>2. acts' \in [Activation -> ActivationRow]
      BY <1>1, <2>1 DEF Release, TypeOK, ActivationRow, Status
    <2>3. QED
      BY <1>1, <2>2, CloseType, ReplyType DEF Release, TypeOK, Code
  <1>2. CASE Amend(r)
    <2>1. CASE AmendRefusal(r) # "ok"
      BY <1>0, <1>2, <2>1, RefuseType, RefusalCodes DEF Amend
    <2>2. CASE AmendRefusal(r) = "ok"
      <3>1. /\ tx[r].call.seats \in Nat \ {0} /\ tx[r].call.allowance \in Nat
            /\ tx[r].call.expires \in Expiry
        BY <1>0, <1>2, CallType DEF Amend, Holds, Expiry
      <3>2. ent' \in EntitlementRow
        <4> DEFINE until == IF tx[r].call.expires # Never THEN tx[r].call.expires ELSE ent.expires
        <4>1. until \in Expiry
          BY <1>0, <3>1 DEF EntitlementRow
        <4>2. ent.snap + 1 \in Nat
          BY <1>0 DEF EntitlementRow
        <4>3. ent' = [ent EXCEPT !.seats = tx[r].call.seats, !.allowance = tx[r].call.allowance,
                                 !.snap = ent.snap + 1, !.expires = until, !.updated = tx[r].ts]
          BY <1>0, <1>2, <2>2 DEF Amend, Touched, EntitlementRow
        <4>4. QED
          BY <1>0, <3>1, <4>1, <4>2, <4>3 DEF EntitlementRow
      <3>3. QED
        BY <1>2, <2>2, <3>2, CloseType, ReplyType DEF Amend, TypeOK, Code
    <2>3. QED
      BY <2>1, <2>2
  <1>3. CASE Reissue(r)
    <2> DEFINE e == [Ctx(r).ent EXCEPT !.name = tx[r].call.name]
    <2>1. tx[r].call.name \in Name
      BY <1>0, <1>3, CallType DEF Reissue, Holds
    <2>2. e \in EntitlementRow
      BY <1>0, <2>1 DEF EntitlementRow
    <2>3. CASE SignRefusal(e, tx[r].now) # "ok"
      BY <1>0, <1>3, <2>3, RefuseType, RefusalCodes DEF Reissue
    <2>4. CASE SignRefusal(e, tx[r].now) = "ok"
      <3>1. /\ ent' = Touched(r, e) /\ lic' = SignedBy(r, e)
            /\ Close(r, Answer(lic'.env, NoActivation))
        BY <1>3, <2>4 DEF Reissue
      <3>2. ent' \in EntitlementRow
        BY <1>0, <2>2, <3>1 DEF Touched, EntitlementRow
      <3>3. lic' \in LicenseRow /\ lic'.env \in Envelope
        BY <1>0, <2>2, <3>1, SignedType
      <3>4. Answer(lic'.env, NoActivation) \in AnswerType
        BY <3>3, AnswerOfType
      <3>5. QED
        BY <1>3, <2>4, <3>1, <3>2, <3>3, <3>4, CloseType DEF Reissue, TypeOK
    <2>5. QED
      BY <2>3, <2>4
  <1>4. CASE Revoke(r)
    <2>1. tx[r].call.ref \in Ref \cup {Nobody}
      BY <1>0, <1>4, CallType DEF Revoke, Holds
    <2>2. revs' \in RevocationLog
      BY <1>4, <2>1 DEF Revoke, Recorded, TypeOK, RevocationLog
    <2>3. ent' \in EntitlementRow
      BY <1>0, <1>4 DEF Revoke, Touched, EntitlementRow
    <2>4. QED
      BY <1>4, <2>2, <2>3, CloseType, ReplyType DEF Revoke, TypeOK, Code
  <1>5. CASE Unrevoke(r)
    <2>1. CASE Ctx(r).ent.status # "revoked"
      BY <1>5, <2>1, RefuseType DEF Unrevoke, Code
    <2>2. CASE Ctx(r).ent.status = "revoked"
      <3>1. ent' \in EntitlementRow
        BY <1>0, <1>5, <2>2 DEF Unrevoke, Touched, EntitlementRow
      <3>2. revs' \in RevocationLog
        BY <1>5, <2>2 DEF Unrevoke, TypeOK, RevocationLog
      <3>3. QED
        BY <1>5, <2>2, <3>1, <3>2, CloseType, ReplyType DEF Unrevoke, TypeOK, Code
    <2>3. QED
      BY <2>1, <2>2
  <1>6. CASE Extend(r)
    <2>1. tx[r].call.expires \in Expiry
      BY <1>0, <1>6, CallType DEF Extend, Holds, Expiry
    <2>2. ent' \in EntitlementRow
      BY <1>0, <1>6, <2>1 DEF Extend, Touched, EntitlementRow
    <2>3. QED
      BY <1>6, <2>2, CloseType, ReplyType DEF Extend, TypeOK, Code
  <1>7. CASE GrantTransfers(r)
    <2>1. tx[r].call.amount \in Nat
      BY <1>0, <1>7, CallType DEF GrantTransfers, Holds
    <2>2. grants' \in [Instant -> Nat]
      BY <1>0, <1>7, <2>1 DEF GrantTransfers, TypeOK
    <2>3. QED
      BY <1>7, <2>2, CloseType, ReplyType DEF GrantTransfers, TypeOK, Code
  <1>8. CASE ResetTransfers(r)
    <2>1. ent' \in EntitlementRow
      BY <1>0, <1>8 DEF ResetTransfers, Touched, EntitlementRow
    <2>2. QED
      BY <1>8, <2>1, CloseType, ReplyType DEF ResetTransfers, TypeOK, Code
  <1>9. CASE Rotate(r)
    <2>1. keys' \in [ActivationKey -> KeyRow]
      <3>1. \A k \in ActivationKey : keys[k] \in KeyRow /\ Rotated(keys[k]) \in KeyRow
        BY DEF TypeOK, Rotated, KeyRow
      <3>2. Key("active", 0, 1) \in KeyRow
        BY DEF Key, KeyRow
      <3>3. QED
        BY <1>9, <3>1, <3>2 DEF Rotate
    <2>2. QED
      BY <1>9, <2>1, CloseType, ReplyType DEF Rotate, Rotating, TypeOK, Code
  <1>10. CASE Download(r)
    <2>1. CASE DownloadRefusal(r) = "ok"
      <3>1. /\ lic' = CurrentOrFresh(r, Ctx(r), tx[r].now)
            /\ Close(r, Answer(lic'.env, NoActivation))
            /\ UNCHANGED <<ent, acts, grants, keys, revs>>
        BY <1>10, <2>1, ZenonT(30) DEF Download
      <3>2. lic' \in LicenseRow /\ lic'.env \in Envelope
        BY <1>0, <3>1, CurrentOrFreshType
      <3>3. Answer(lic'.env, NoActivation) \in AnswerType
        BY <3>2, AnswerOfType
      <3>4. QED
        BY <3>1, <3>2, <3>3, CloseType DEF TypeOK
    <2>2. CASE DownloadRefusal(r) = "last"
      <3>1. /\ Close(r, [Answer(Ctx(r).lic.env, NoActivation) EXCEPT !.code = "last"])
            /\ UNCHANGED Rows
        BY <1>10, <2>2 DEF Download
      <3>2. Ctx(r).lic.env \in Envelope \cup {NoEnvelope}
        BY <1>0 DEF LicenseRow
      <3>3. [Answer(Ctx(r).lic.env, NoActivation) EXCEPT !.code = "last"] \in AnswerType
        BY <3>2 DEF Answer, AnswerType, Code
      <3>4. QED
        BY <3>1, <3>3, CloseType DEF TypeOK, Rows
    <2>3. CASE DownloadRefusal(r) \notin {"ok", "last"}
      BY <1>0, <1>10, <2>3, RefuseType, RefusalCodes DEF Download
    <2>4. QED
      BY <2>1, <2>2, <2>3
  <1>11. QED
    BY <1>1, <1>2, <1>3, <1>4, <1>5, <1>6, <1>7, <1>8, <1>9, <1>10 DEF Support

\* The types hold in every reachable state: every handler of licensing.ts and machine.ts
\* leaves well-formed rows behind and answers with a code the API documents.
THEOREM Typing == Spec => []TypeOK
  <1>1. Init => TypeOK
    BY InitType
  <1>2. TypeOK /\ [Next]_vars => TypeOK'
    <2> SUFFICES ASSUME TypeOK, [Next]_vars PROVE TypeOK'
      OBVIOUS
    <2>1. ASSUME NEW r \in Request, Start(r) \/ Locking(r) \/ Machine(r) \/ Support(r)
          PROVE  TypeOK'
      BY <2>1, StartType, LockingType, MachineType, SupportType
    <2>2. ASSUME NEW r \in Request, Abort(r) PROVE TypeOK'
      BY <2>2, RefuseType DEF Abort, Code
    <2>3. ASSUME NEW v \in Viewer, Reveal(v) PROVE TypeOK'
      BY <2>3, RevealType
    <2>4. CASE ChangeUsable
      BY <2>4 DEF ChangeUsable, TypeOK, Rows, NoReply, AnswerType, Code
    <2>5. CASE Elapse
      BY <2>5 DEF Elapse, TypeOK, Rows, NoReply, AnswerType, Code, Instant
    <2>6. CASE UNCHANGED vars
      BY <2>6 DEF vars, TypeOK, Instant
    <2>7. QED
      BY <2>1, <2>2, <2>3, <2>4, <2>5, <2>6 DEF Next
  <1>3. QED
    BY <1>1, <1>2, PTL DEF Spec

-----------------------------------------------------------------------------
(* The lock.                                                                *)

\* A request that holds the lock gives it up when it closes; nobody holds it then.
LEMMA CloseLock ==
  ASSUME TypeOK, LockInv, NEW r \in Request, NEW answer, lock = r, Close(r, answer)
  PROVE  LockInv'
  <1>1. lock' = Nobody /\ tx' = [tx EXCEPT ![r] = Idle]
    BY DEF Close
  <1>2. ASSUME NEW q \in Request
        PROVE  Standing(q)' \notin {"locked", "counted"} /\ lock' # q
    <2>1. CASE q = r
      BY <1>1, <2>1 DEF TypeOK, Standing, Idle
    <2>2. CASE q # r
      BY <1>1, <2>2 DEF TypeOK, Standing, LockInv
    <2>3. QED
      BY <2>1, <2>2
  <1>3. QED
    BY <1>2 DEF LockInv

\* Rows, holder and the requests past the lock are as before: so is the invariant.
LEMMA LockFrame ==
  ASSUME LockInv, UNCHANGED <<ent, lic, acts>>, lock' = lock,
         \A q \in Request : \/ tx'[q] = tx[q]
                            \/ /\ Standing(q) \notin {"locked", "counted"}
                               /\ Standing(q)' \notin {"locked", "counted"}
  PROVE  LockInv'
  <1>1. ASSUME NEW d PROVE LiveOn(d)' = LiveOn(d)
    BY DEF LiveOn, ActiveActs
  <1>2. ActiveActs' = ActiveActs /\ FreshUsed' = FreshUsed
    BY DEF ActiveActs, FreshUsed, IssuedActs
  <1>3. QED
    BY <1>1, <1>2 DEF LockInv, Standing, Ctx

LEMMA RefuseLock ==
  ASSUME TypeOK, LockInv, NEW r \in Request, NEW code, Refuse(r, code)
  PROVE  LockInv'
  <1>1. CASE lock = r
    BY <1>1, CloseLock DEF Refuse
  <1>2. CASE lock # r
    <2>1. Standing(r) \notin {"locked", "counted"}
      BY <1>2 DEF LockInv
    <2>2. UNCHANGED <<ent, lic, acts>> /\ lock' = lock /\ tx' = [tx EXCEPT ![r] = Idle]
      BY <1>2 DEF Refuse, Close, Rows
    <2>3. \A q \in Request : q # r => tx'[q] = tx[q]
      BY <2>2 DEF TypeOK
    <2>4. Standing(r)' \notin {"locked", "counted"}
      BY <2>2 DEF TypeOK, Standing, Idle
    <2>5. QED
      BY <2>1, <2>2, <2>3, <2>4, LockFrame
  <1>3. QED
    BY <1>1, <1>2

\* BEGIN and the statements before the lock leave the holder and the rows alone.
LEMMA StartLock ==
  ASSUME TypeOK, LockInv, NEW r \in Request, Start(r)
  PROVE  LockInv'
  <1>1. /\ UNCHANGED <<ent, lic, acts>> /\ lock' = lock
        /\ Standing(r) \notin {"locked", "counted"}
    BY DEF Start, LookUpKey, BeginActivate, Begin, Rows
  <1>2. /\ \A q \in Request : q # r => tx'[q] = tx[q]
        /\ Standing(r)' \in {"keyed", "waiting"}
    <2>1. CASE LookUpKey(r)
      BY <2>1 DEF LookUpKey, TypeOK, Standing
    <2>2. CASE BeginActivate(r)
      BY <2>2 DEF BeginActivate, Waiting, TypeOK, Standing
    <2>3. CASE Begin(r)
      BY <2>3 DEF Begin, Waiting, TypeOK, Standing
    <2>4. QED
      BY <2>1, <2>2, <2>3 DEF Start
  <1>3. QED
    BY <1>1, <1>2, LockFrame

\* The statement that is granted the lock reads the rows as they are at that moment.
LEMMA LockingLock ==
  ASSUME TypeOK, LockInv, NEW r \in Request, Locking(r)
  PROVE  LockInv'
  <1>1. CASE Acquire(r)
    <2>1. /\ lock = Nobody /\ lock' = r /\ ent' = ent /\ lic' = lic
          /\ \A q \in Request : q # r => tx'[q] = tx[q]
          /\ Standing(r)' = "locked" /\ Ctx(r)' = [ent |-> ent, lic |-> lic]
      BY <1>1 DEF Acquire, TypeOK, Rows, Standing, Ctx
    <2>2. \A q \in Request : q # r => Standing(q)' \notin {"locked", "counted"}
      BY <2>1 DEF LockInv, Standing
    <2>3. QED
      BY <2>1, <2>2 DEF LockInv
  <1>2. CASE RowGone(r)
    BY <1>2, RefuseLock DEF RowGone
  <1>3. QED
    BY <1>1, <1>2 DEF Locking

\* Every handler of a locked request either closes it or, in CountSeats, counts under
\* the lock.
LEMMA HandlerLock ==
  ASSUME TypeOK, LockInv, NEW r \in Request, Machine(r) \/ Support(r)
  PROVE  LockInv'
  <1>1. Standing(r) \in {"locked", "counted"}
    BY DEF Machine, RefuseActivate, Provision, Reactivate, CountSeats, TakeSeat, Renew,
           Deactivate, Support, Release, Amend, Reissue, Revoke, Unrevoke, Extend,
           GrantTransfers, ResetTransfers, Rotate, Rotating, Download, Holds
  <1>2. lock = r
    BY <1>1 DEF LockInv
  <1>3. CASE CountSeats(r)
    <2>1. /\ UNCHANGED <<ent, lic, acts>> /\ lock' = lock
          /\ \A q \in Request : q # r => tx'[q] = tx[q]
          /\ Standing(r)' = "counted" /\ Ctx(r)' = Ctx(r)
          /\ tx'[r].active = Cardinality(ActiveActs) /\ tx'[r].fresh = Cardinality(FreshUsed)
          /\ tx'[r].call = tx[r].call /\ LiveOn(tx[r].call.device) = {}
      BY <1>3 DEF CountSeats, TypeOK, Rows, Standing, Ctx
    <2>2. ActiveActs' = ActiveActs /\ FreshUsed' = FreshUsed
      BY <2>1 DEF ActiveActs, FreshUsed, IssuedActs
    <2>3. LiveOn(tx[r].call.device)' = {}
      BY <2>1 DEF LiveOn, ActiveActs
    <2>4. QED
      BY <1>2, <2>1, <2>2, <2>3 DEF LockInv, Standing, Ctx
  <1>4. CASE ~CountSeats(r)
    <2>1. PICK answer : Close(r, answer)
      BY <1>4 DEF Machine, RefuseActivate, Provision, Reactivate, TakeSeat, Renew,
           Deactivate, Support, Release, Amend, Reissue, Revoke, Unrevoke, Extend,
           GrantTransfers, ResetTransfers, Rotate, Rotating, Download, Refuse
    <2>2. QED
      BY <1>2, <2>1, CloseLock
  <1>5. QED
    BY <1>3, <1>4

LEMMA LockStep ==
  ASSUME TypeOK, LockInv, [Next]_vars
  PROVE  LockInv'
  <1>1. ASSUME NEW r \in Request, Start(r) \/ Locking(r) \/ Machine(r) \/ Support(r)
        PROVE  LockInv'
    BY <1>1, StartLock, LockingLock, HandlerLock
  <1>2. ASSUME NEW r \in Request, Abort(r) PROVE LockInv'
    BY <1>2, RefuseLock DEF Abort
  <1>3. ASSUME NEW v \in Viewer, Reveal(v) PROVE LockInv'
    BY <1>3, LockFrame, RevealFrame
  <1>4. CASE ChangeUsable
    BY <1>4, LockFrame DEF ChangeUsable, Rows
  <1>5. CASE Elapse
    BY <1>5, LockFrame DEF Elapse, Rows
  <1>6. CASE UNCHANGED vars
    BY <1>6, LockFrame DEF vars
  <1>7. QED
    BY <1>1, <1>2, <1>3, <1>4, <1>5, <1>6 DEF Next

\* SELECT ... FOR UPDATE serialises all work on a licence (loadLicenseContext with
\* lock = true): at most one request is past the lock, the rows it read are the committed
\* ones, and the seats it counted are still the seats.
THEOREM Serialised == Spec => []LockInv
  <1>1. Init => LockInv
    BY DEF Init, LockInv, Standing, Idle
  <1>2. TypeOK /\ LockInv /\ [Next]_vars => LockInv'
    BY LockStep
  <1>3. QED
    BY <1>1, <1>2, Typing, PTL DEF Spec

-----------------------------------------------------------------------------
(* The safety properties.                                                   *)

HIDE DEF LicensingAssumption

-----------------------------------------------------------------------------
(* What a request past the lock knows.                                      *)

LEMMA HeldContext ==
  ASSUME TypeOK, LockInv, NEW r \in Request, Standing(r) \in {"locked", "counted"}
  PROVE  /\ lock = r /\ Ctx(r).ent = ent /\ Ctx(r).lic = lic
         /\ ent \in EntitlementRow /\ lic \in LicenseRow
         /\ tx[r].call \in Call
  <1>1. tx[r].call \in Call
    BY StageType DEF Locked, Tallied, Call
  <1>2. QED
    BY <1>1 DEF LockInv, TypeOK

LEMMA HandlerStanding ==
  ASSUME NEW r \in Request, Machine(r) \/ Support(r)
  PROVE  Standing(r) \in {"locked", "counted"}
  BY DEF Machine, RefuseActivate, Provision, Reactivate, CountSeats, TakeSeat, Renew,
         Deactivate, Support, Release, Amend, Reissue, Revoke, Unrevoke, Extend,
         GrantTransfers, ResetTransfers, Rotate, Rotating, Download, Holds

\* Only the handlers of activate, renew, reissue and download answer with a licence.
LEMMA PlainReply ==
  ASSUME NEW code
  PROVE  Reply(code).licence = NoEnvelope /\ Reply(code).certificate = NoActivation
  BY DEF Reply, NoReply

LEMMA RefusedReply ==
  ASSUME NEW r, NEW code, Refuse(r, code)
  PROVE  reply'.licence = NoEnvelope /\ reply'.certificate = NoActivation
  BY PlainReply DEF Refuse, Close

LEMMA QuietReply ==
  ASSUME NEW r \in Request, Start(r) \/ Locking(r) \/ CountSeats(r) \/ Abort(r)
  PROVE  reply'.licence = NoEnvelope /\ reply'.certificate = NoActivation
  BY RefusedReply DEF Start, LookUpKey, BeginActivate, Begin, Locking, Acquire, RowGone,
     CountSeats, Abort, NoReply

-----------------------------------------------------------------------------
(* Revocation                                                               *)

LEMMA RevokedMachine ==
  ASSUME TypeOK, LockInv, NEW r \in Request, Machine(r)
  PROVE  reply'.licence # NoEnvelope => ent.status = "active"
  <1>0. Ctx(r).ent = ent /\ ent.status \in {"active", "revoked"}
    BY HeldContext, HandlerStanding DEF EntitlementRow
  <1>1. CurrentRefusal(Ctx(r), tx[r].now) = "ok" => ent.status = "active"
    BY <1>0 DEF CurrentRefusal
  <1>2. CertificateRefusal(r) = "ok" => ent.status = "active"
    BY <1>1 DEF CertificateRefusal
  <1>3. CASE RefuseActivate(r)
    BY <1>3, RefusedReply DEF RefuseActivate
  <1>4. CASE Provision(r)
    BY <1>1, <1>4, RefusedReply DEF Provision
  <1>5. CASE Reactivate(r)
    BY <1>2, <1>5, RefusedReply DEF Reactivate
  <1>6. CASE CountSeats(r)
    BY <1>6, QuietReply
  <1>7. CASE TakeSeat(r)
    BY <1>2, <1>7, RefusedReply DEF TakeSeat, SeatRefusal
  <1>8. CASE Renew(r)
    <2>1. RenewRefusal(r) = "ok" => ent.status = "active"
      BY <1>0 DEF RenewRefusal
    <2>2. QED
      BY <1>8, <2>1, RefusedReply DEF Renew
  <1>9. CASE Deactivate(r)
    BY <1>9, PlainReply, RefusedReply DEF Deactivate, Close
  <1>10. QED
    BY <1>3, <1>4, <1>5, <1>6, <1>7, <1>8, <1>9 DEF Machine

LEMMA RevokedSupport ==
  ASSUME TypeOK, LockInv, NEW r \in Request, Support(r)
  PROVE  reply'.licence # NoEnvelope => ent.status = "active"
  <1>0. Ctx(r).ent = ent /\ ent.status \in {"active", "revoked"}
    BY HeldContext, HandlerStanding DEF EntitlementRow
  <1>1. CASE Reissue(r)
    <2> DEFINE e == [Ctx(r).ent EXCEPT !.name = tx[r].call.name]
    <2>1. e.status = ent.status
      BY <1>0, HeldContext, HandlerStanding DEF EntitlementRow
    <2>2. SignRefusal(e, tx[r].now) = "ok" => ent.status = "active"
      BY <1>0, <2>1 DEF SignRefusal
    <2>3. QED
      BY <1>1, <2>2, RefusedReply DEF Reissue
  <1>2. CASE Download(r)
    <2>1. DownloadRefusal(r) \in {"ok", "last"} => ent.status = "active"
      BY <1>0 DEF DownloadRefusal, CurrentRefusal
    <2>2. QED
      BY <1>2, <2>1, RefusedReply DEF Download
  <1>3. CASE Amend(r) \/ Unrevoke(r)
    BY <1>3, PlainReply, RefusedReply DEF Amend, Unrevoke, Close
  <1>4. CASE \/ Release(r) \/ Revoke(r) \/ Extend(r) \/ GrantTransfers(r) \/ ResetTransfers(r)
             \/ Rotate(r)
    BY <1>4, PlainReply DEF Release, Revoke, Extend, GrantTransfers, ResetTransfers, Rotate, Rotating, Close
  <1>5. QED
    BY <1>1, <1>2, <1>3, <1>4 DEF Support

\* No request, however it overlaps the revocation, is answered with a licence once the
\* entitlement is revoked (the status checks of activate, renew, signLicense and
\* currentOrFreshLicense are made on locked rows).
THEOREM RevocationHolds == Spec => RevokedServesNothing
  <1>1. TypeOK /\ LockInv /\ [Next]_vars
          => [reply'.licence # NoEnvelope => ent.status = "active"]_vars
    <2> SUFFICES ASSUME TypeOK, LockInv, Next
                 PROVE  reply'.licence # NoEnvelope => ent.status = "active"
      OBVIOUS
    <2>1. ASSUME NEW r \in Request, Start(r) \/ Locking(r) \/ Abort(r)
          PROVE  reply'.licence = NoEnvelope
      BY <2>1, QuietReply
    <2>2. ASSUME NEW v \in Viewer, Reveal(v) PROVE reply'.licence = NoEnvelope
      BY <2>2, PlainReply, RevealFrame DEF NoReply
    <2>3. ASSUME ChangeUsable \/ Elapse PROVE reply'.licence = NoEnvelope
      BY <2>3 DEF ChangeUsable, Elapse, NoReply
    <2>4. QED
      BY <2>1, <2>2, <2>3, RevokedMachine, RevokedSupport DEF Next
  <1>2. QED
    BY <1>1, Typing, Serialised, PTL DEF RevokedServesNothing, Spec

-----------------------------------------------------------------------------
(* Certificates                                                             *)

LEMMA CertifiedMachine ==
  ASSUME TypeOK, NEW r \in Request, Machine(r), reply'.certificate # NoActivation
  PROVE  acts'[reply'.certificate].status = "active"
  <1>1. CASE RefuseActivate(r) \/ CountSeats(r)
    BY <1>1, RefusedReply, QuietReply DEF RefuseActivate
  <1>2. CASE Provision(r)
    BY <1>2, RefusedReply DEF Provision, Close, Answer
  <1>3. CASE Reactivate(r)
    <2>1. PICK a \in LiveOn(tx[r].call.device) :
            IF CertificateRefusal(r) # "ok"
            THEN Refuse(r, CertificateRefusal(r))
            ELSE /\ acts' = [acts EXCEPT ![a].secret = tx[r].call.secret]
                 /\ Close(r, Answer(lic'.env, a))
      BY <1>3 DEF Reactivate
    <2>2. /\ acts' = [acts EXCEPT ![a].secret = tx[r].call.secret]
          /\ reply'.certificate = a
      BY <2>1, RefusedReply DEF Close, Answer
    <2>3. a \in Activation /\ acts[a].status = "active" /\ acts[a] \in ActivationRow
      BY DEF LiveOn, ActiveActs, TypeOK
    <2>4. QED
      BY <2>2, <2>3 DEF TypeOK, ActivationRow, Status
  <1>4. CASE TakeSeat(r)
    <2>1. PICK a \in Activation \ IssuedActs :
            /\ acts' = [acts EXCEPT ![a] =
                          [status |-> "active", device |-> tx[r].call.device,
                           secret |-> tx[r].call.secret, transfer |-> IsTransfer(r),
                           at |-> tx[r].ts]]
            /\ Close(r, Answer(lic'.env, a))
      BY <1>4, RefusedReply DEF TakeSeat
    <2>2. QED
      BY <2>1 DEF Close, Answer, TypeOK
  <1>5. CASE Renew(r)
    <2>1. RenewRefusal(r) = "ok" /\ reply'.certificate = tx[r].call.act /\ acts' = acts
      BY <1>5, RefusedReply DEF Renew, Close, Answer
    <2>2. CredentialRefusal(tx[r].call) = "ok"
      BY <2>1 DEF RenewRefusal
    <2>3. QED
      BY <2>1, <2>2 DEF CredentialRefusal
  <1>6. CASE Deactivate(r)
    BY <1>6, PlainReply, RefusedReply DEF Deactivate, Close
  <1>7. QED
    BY <1>1, <1>2, <1>3, <1>4, <1>5, <1>6 DEF Machine

LEMMA UncertifiedSupport ==
  ASSUME NEW r \in Request, Support(r)
  PROVE  reply'.certificate = NoActivation
  BY PlainReply, RefusedReply DEF Support, Release, Amend, Reissue, Revoke, Unrevoke, Extend,
     GrantTransfers, ResetTransfers, Rotate, Rotating, Download, Close, Answer

\* activate and renew look at the activation under the lock: whoever released the
\* device first, no certificate is signed for a released activation.
THEOREM NoStaleCertificate == Spec => NoCertificateOnceReleased
  <1>1. TypeOK /\ [Next]_vars
          => [reply'.certificate # NoActivation
                => acts'[reply'.certificate].status = "active"]_vars
    <2> SUFFICES ASSUME TypeOK, Next, reply'.certificate # NoActivation
                 PROVE  acts'[reply'.certificate].status = "active"
      OBVIOUS
    <2>1. ASSUME NEW r \in Request, Start(r) \/ Locking(r) \/ Abort(r) PROVE FALSE
      BY <2>1, QuietReply
    <2>2. ASSUME NEW v \in Viewer, Reveal(v) PROVE FALSE
      BY <2>2, PlainReply, RevealFrame DEF NoReply
    <2>3. ASSUME ChangeUsable \/ Elapse PROVE FALSE
      BY <2>3 DEF ChangeUsable, Elapse, NoReply
    <2>4. QED
      BY <2>1, <2>2, <2>3, CertifiedMachine, UncertifiedSupport DEF Next
  <1>2. QED
    BY <1>1, Typing, PTL DEF NoCertificateOnceReleased, Spec

-----------------------------------------------------------------------------
(* Signing                                                                  *)

\* What is signed depends on the entitlement's expiry, name and seats alone.
LEMMA SameEnvelope ==
  ASSUME NEW e, NEW f, f.expires = e.expires, f.name = e.name, f.seats = e.seats
  PROVE  EnvelopeOf(f) = EnvelopeOf(e)
  BY DEF EnvelopeOf

LEMMA FreshEnvelope ==
  ASSUME TypeOK, LockInv, NEW r \in Request, Standing(r) \in {"locked", "counted"},
         ent' = ent, lic' = CurrentOrFresh(r, Ctx(r), tx[r].now), lic' # lic
  PROVE  lic'.env = EnvelopeOf(ent')
  BY HeldContext DEF CurrentOrFresh, SignedBy

LEMMA SignedMachine ==
  ASSUME TypeOK, LockInv, NEW r \in Request, Machine(r), lic' # lic
  PROVE  lic'.env = EnvelopeOf(ent')
  <1>1. CASE Provision(r)
    BY <1>1, HandlerStanding, FreshEnvelope DEF Provision, Refuse, Rows
  <1>2. CASE Reactivate(r)
    BY <1>2, HandlerStanding, FreshEnvelope DEF Reactivate, Refuse, Rows
  <1>3. CASE TakeSeat(r)
    BY <1>3, HandlerStanding, FreshEnvelope DEF TakeSeat, Refuse, Rows
  <1>4. CASE Renew(r)
    BY <1>4, HandlerStanding, HeldContext DEF Renew, Refuse, Rows, SignedBy
  <1>5. CASE RefuseActivate(r) \/ CountSeats(r) \/ Deactivate(r)
    BY <1>5 DEF RefuseActivate, CountSeats, Deactivate, Refuse, Rows
  <1>6. QED
    BY <1>1, <1>2, <1>3, <1>4, <1>5 DEF Machine

LEMMA SignedSupport ==
  ASSUME TypeOK, LockInv, NEW r \in Request, Support(r), lic' # lic
  PROVE  lic'.env = EnvelopeOf(ent')
  <1>0. Ctx(r).ent \in EntitlementRow
    BY HandlerStanding, HeldContext
  <1>1. CASE Reissue(r)
    <2> DEFINE e == [Ctx(r).ent EXCEPT !.name = tx[r].call.name]
    <2>1. ent' = Touched(r, e) /\ lic' = SignedBy(r, e)
      BY <1>1 DEF Reissue, Refuse, Rows
    <2>2. /\ Touched(r, e).expires = e.expires /\ Touched(r, e).name = e.name
          /\ Touched(r, e).seats = e.seats
      BY <1>0 DEF Touched, EntitlementRow
    <2>3. QED
      BY <2>1, <2>2, SameEnvelope DEF SignedBy
  <1>2. CASE Download(r)
    BY <1>2, HandlerStanding, FreshEnvelope DEF Download, Refuse, Rows
  <1>3. CASE ~Reissue(r) /\ ~Download(r)
    BY <1>3 DEF Support, Release, Amend, Revoke, Unrevoke, Extend, GrantTransfers,
       ResetTransfers, Rotate, Rotating, Refuse, Rows
  <1>4. QED
    BY <1>1, <1>2, <1>3

\* signLicense() works from locked rows: a licence that is signed shows the entitlement
\* as it is committed with it.
THEOREM SigningIsCurrent == Spec => SignedAsEntitled
  <1>1. TypeOK /\ LockInv /\ [Next]_vars => [lic' # lic => lic'.env = EnvelopeOf(ent')]_vars
    <2> SUFFICES ASSUME TypeOK, LockInv, Next, lic' # lic
                 PROVE  lic'.env = EnvelopeOf(ent')
      OBVIOUS
    <2>1. ASSUME NEW r \in Request, Start(r) \/ Locking(r) \/ Abort(r) PROVE FALSE
      BY <2>1 DEF Start, LookUpKey, BeginActivate, Begin, Locking, Acquire, RowGone, Abort,
         Refuse, Rows
    <2>2. ASSUME NEW v \in Viewer, Reveal(v) PROVE FALSE
      BY <2>2, RevealFrame
    <2>3. ASSUME ChangeUsable \/ Elapse PROVE FALSE
      BY <2>3 DEF ChangeUsable, Elapse, Rows
    <2>4. QED
      BY <2>1, <2>2, <2>3, SignedMachine, SignedSupport DEF Next
  <1>2. QED
    BY <1>1, Typing, Serialised, PTL DEF SignedAsEntitled, Spec

-----------------------------------------------------------------------------
(* What a step can do to the activations.                                   *)

Rearmed == \E a \in ActiveActs, s \in Secret : acts' = [acts EXCEPT ![a].secret = s]

Freed == \E a \in IssuedActs : acts' = [acts EXCEPT ![a].status = "inactive"]

Seated(a, d, moves) ==
  /\ a \in Activation \ IssuedActs
  /\ LiveOn(d) = {}
  /\ Cardinality(ActiveActs) < ent.seats
  /\ moves <=> Cardinality(FreshUsed) >= ent.seats
  /\ \E s \in Secret, t \in Instant :
       acts' = [acts EXCEPT ![a] = [status |-> "active", device |-> d, secret |-> s,
                                    transfer |-> moves, at |-> t]]

\* An activation row is never deleted: a release finds the row it saw before its lock.
ReleaseInv ==
  \A r \in Request :
    Standing(r) \in {"waiting", "locked"} /\ tx[r].seen = "active" => tx[r].call.act \in IssuedActs

LEMMA SeatsTaken ==
  ASSUME TypeOK, LockInv, NEW r \in Request, TakeSeat(r)
  PROVE  \/ acts' = acts /\ ent' = ent
         \/ /\ ent' = ent
            /\ \E a \in Activation, d \in Device, moves \in BOOLEAN : Seated(a, d, moves)
  <1>1. Standing(r) = "counted" /\ tx[r] \in Tallied
    BY StageType DEF TakeSeat
  <1>2. CASE SeatRefusal(r) # "ok"
    BY <1>2 DEF TakeSeat, Refuse, Rows
  <1>3. CASE SeatRefusal(r) = "ok"
    <2>1. PICK a \in Activation \ IssuedActs :
            acts' = [acts EXCEPT ![a] =
                       [status |-> "active", device |-> tx[r].call.device,
                        secret |-> tx[r].call.secret, transfer |-> IsTransfer(r),
                        at |-> tx[r].ts]]
      BY <1>3 DEF TakeSeat
    <2>2. /\ tx[r].call.device \in Device /\ tx[r].call.secret \in Secret
          /\ tx[r].ts \in Instant /\ IsTransfer(r) \in BOOLEAN
      BY <1>1 DEF Tallied, ActivateCall, IsTransfer
    <2>3. /\ tx[r].active = Cardinality(ActiveActs) /\ tx[r].fresh = Cardinality(FreshUsed)
          /\ LiveOn(tx[r].call.device) = {} /\ Ctx(r).ent = ent
      BY <1>1, HeldContext DEF LockInv
    <2>4. tx[r].active \in Nat /\ ent.seats \in Nat
      BY <1>1 DEF Tallied, TypeOK, EntitlementRow
    <2>5. Cardinality(ActiveActs) < ent.seats
      BY <1>3, <2>3, <2>4 DEF SeatRefusal
    <2>6. IsTransfer(r) <=> Cardinality(FreshUsed) >= ent.seats
      BY <2>3 DEF IsTransfer
    <2>7. Seated(a, tx[r].call.device, IsTransfer(r))
      BY <2>1, <2>2, <2>3, <2>5, <2>6 DEF Seated
    <2>8. QED
      BY <1>3, <2>2, <2>7 DEF TakeSeat
  <1>4. QED
    BY <1>2, <1>3

LEMMA ActsElse ==
  ASSUME TypeOK, LockInv, ReleaseInv, Next, \A r \in Request : ~TakeSeat(r)
  PROVE  \/ acts' = acts
         \/ ent' = ent /\ (Rearmed \/ Freed)
  <1>1. ASSUME NEW r \in Request, Reactivate(r)
        PROVE  acts' = acts \/ (ent' = ent /\ Rearmed)
    <2>1. tx[r].call.secret \in Secret
      BY <1>1, HandlerStanding, HeldContext, CallType DEF Reactivate, Machine, Holds
    <2>2. QED
      BY <1>1, <2>1 DEF Reactivate, Refuse, Rows, Rearmed, LiveOn
  <1>2. ASSUME NEW r \in Request, Deactivate(r)
        PROVE  acts' = acts \/ (ent' = ent /\ Freed)
    <2>1. tx[r].call.act \in Activation
      BY <1>2, HandlerStanding, HeldContext, CallType DEF Deactivate, Machine, Holds
    <2>2. QED
      BY <1>2, <2>1 DEF Deactivate, Refuse, Rows, Freed, IssuedActs, CredentialRefusal
  <1>3. ASSUME NEW r \in Request, Release(r)
        PROVE  acts' = acts \/ (ent' = ent /\ Freed)
    BY <1>3 DEF Release, Holds, ReleaseInv, Freed
  <1>4. ASSUME NEW r \in Request,
               \/ Start(r) \/ Locking(r) \/ Abort(r) \/ RefuseActivate(r) \/ Provision(r)
               \/ CountSeats(r) \/ Renew(r)
        PROVE  acts' = acts
    BY <1>4 DEF Start, LookUpKey, BeginActivate, Begin, Locking, Acquire, RowGone, Abort,
       RefuseActivate, Provision, CountSeats, Renew, Refuse, Rows
  <1>5. ASSUME NEW r \in Request, Support(r), ~Release(r) PROVE acts' = acts
    BY <1>5 DEF Support, Amend, Reissue, Revoke, Unrevoke, Extend, GrantTransfers,
       ResetTransfers, Rotate, Rotating, Download, Refuse, Rows
  <1>6. ASSUME \/ ChangeUsable \/ Elapse \/ \E v \in Viewer : Reveal(v)
        PROVE  acts' = acts
    BY <1>6, RevealFrame DEF ChangeUsable, Elapse, Rows
  <1>7. QED
    BY <1>1, <1>2, <1>3, <1>4, <1>5, <1>6 DEF Next, Machine

LEMMA ActsStep ==
  ASSUME TypeOK, LockInv, ReleaseInv, Next
  PROVE  \/ acts' = acts
         \/ ent' = ent /\ (Rearmed \/ Freed)
         \/ /\ ent' = ent
            /\ \E a \in Activation, d \in Device, moves \in BOOLEAN : Seated(a, d, moves)
  BY ActsElse, SeatsTaken

-----------------------------------------------------------------------------
(* The seats after each kind of step.                                       *)

LEMMA FiniteSeats ==
  /\ IsFiniteSet(ActiveActs) /\ IsFiniteSet(FreshUsed) /\ IsFiniteSet(IssuedActs \ FreshUsed)
  /\ Cardinality(ActiveActs) \in Nat /\ Cardinality(FreshUsed) \in Nat
  <1>1. /\ ActiveActs \in SUBSET Activation /\ FreshUsed \in SUBSET Activation
        /\ IssuedActs \ FreshUsed \in SUBSET Activation
    BY DEF ActiveActs, FreshUsed, IssuedActs
  <1>2. /\ IsFiniteSet(ActiveActs) /\ IsFiniteSet(FreshUsed)
        /\ IsFiniteSet(IssuedActs \ FreshUsed)
    BY <1>1, FS_Subset, LicensingAssumption DEF LicensingAssumption
  <1>3. QED
    BY <1>2, FS_CardinalityType

LEMMA SameActs ==
  ASSUME acts' = acts \/ (TypeOK /\ Rearmed)
  PROVE  /\ ActiveActs' = ActiveActs /\ IssuedActs' = IssuedActs /\ FreshUsed' = FreshUsed
         /\ \A d : LiveOn(d)' = LiveOn(d)
  <1>1. CASE acts' = acts
    BY <1>1 DEF ActiveActs, IssuedActs, FreshUsed, LiveOn
  <1>2. CASE TypeOK /\ Rearmed
    <2>1. PICK a \in ActiveActs, s \in Secret : acts' = [acts EXCEPT ![a].secret = s]
      BY <1>2 DEF Rearmed
    <2>2. \A b \in Activation : /\ acts'[b].status = acts[b].status
                                /\ acts'[b].transfer = acts[b].transfer
                                /\ acts'[b].device = acts[b].device
      BY <1>2, <2>1 DEF TypeOK, ActivationRow, Status, ActiveActs
    <2>3. QED
      BY <2>2 DEF ActiveActs, IssuedActs, FreshUsed, LiveOn
  <1>3. QED
    BY <1>1, <1>2

LEMMA FreedSeats ==
  ASSUME TypeOK, NEW a \in IssuedActs, acts' = [acts EXCEPT ![a].status = "inactive"]
  PROVE  /\ ActiveActs' = ActiveActs \ {a} /\ IssuedActs' = IssuedActs /\ FreshUsed' = FreshUsed
         /\ \A d : LiveOn(d)' = LiveOn(d) \ {a}
  <1>1. a \in Activation /\ acts[a].status # "unused"
    BY DEF IssuedActs
  <1>2. \A b \in Activation : /\ b # a => acts'[b] = acts[b]
                              /\ acts'[b].transfer = acts[b].transfer
                              /\ acts'[b].device = acts[b].device
    BY <1>1 DEF TypeOK, ActivationRow, Status
  <1>3. acts'[a].status = "inactive"
    BY <1>1 DEF TypeOK, ActivationRow, Status
  <1>4. QED
    BY <1>1, <1>2, <1>3 DEF ActiveActs, IssuedActs, FreshUsed, LiveOn

LEMMA TakenSeats ==
  ASSUME TypeOK, NEW a \in Activation, NEW d \in Device, NEW moves \in BOOLEAN,
         Seated(a, d, moves)
  PROVE  /\ a \notin IssuedActs /\ a \notin ActiveActs /\ a \notin FreshUsed
         /\ ActiveActs' = ActiveActs \cup {a} /\ IssuedActs' = IssuedActs \cup {a}
         /\ FreshUsed' = IF moves THEN FreshUsed ELSE FreshUsed \cup {a}
         /\ LiveOn(d)' = {a}
         /\ \A e : e # d => LiveOn(e)' = LiveOn(e)
  <1>1. acts[a].status = "unused" /\ LiveOn(d) = {}
    BY DEF Seated, IssuedActs
  <1>2. \A b \in Activation : b # a => acts'[b] = acts[b]
    BY DEF Seated, TypeOK
  <1>3. acts'[a].status = "active" /\ acts'[a].device = d /\ acts'[a].transfer = moves
    BY DEF Seated, TypeOK
  <1>4. QED
    BY <1>1, <1>2, <1>3 DEF ActiveActs, IssuedActs, FreshUsed, LiveOn

\* Rows stay issued, and a release that is under way keeps pointing at one.
LEMMA ReleaseStep ==
  ASSUME TypeOK, LockInv, ReleaseInv, [Next]_vars
  PROVE  ReleaseInv'
  <1>1. IssuedActs \subseteq IssuedActs'
    <2>1. CASE Next
      BY <2>1, ActsStep, SameActs, FreedSeats, TakenSeats DEF Freed
    <2>2. CASE UNCHANGED vars
      BY <2>2, SameActs DEF vars
    <2>3. QED
      BY <2>1, <2>2
  <1> SUFFICES ASSUME NEW q \in Request, Standing(q)' \in {"waiting", "locked"}, tx'[q].seen = "active"
               PROVE  tx'[q].call.act \in IssuedActs
    BY <1>1 DEF ReleaseInv
  <1>2. CASE tx'[q] = tx[q]
    BY <1>2 DEF ReleaseInv, Standing
  <1>3. CASE BeginActivate(q)
    <2>1. tx'[q] = Waiting(tx[q].call, tx[q].now) /\ tx[q].call.op = "activate"
      BY <1>3, StageType DEF BeginActivate, TypeOK, Keyed, ActivateCall
    <2>2. tx'[q].seen = "unused"
      BY <2>1 DEF Waiting
    <2>3. QED
      BY <2>2
  <1>4. CASE Begin(q)
    <2>1. PICK c \in Call : tx'[q] = Waiting(c, clock + 1)
      BY <1>4 DEF Begin, TypeOK
    <2>2. /\ tx'[q].seen = (IF c.op = "release" THEN acts[c.act].status ELSE "unused")
          /\ tx'[q].call = c
      BY <2>1 DEF Waiting
    <2>3. c.op = "release" /\ acts[c.act].status = "active"
      BY <2>2
    <2>4. c.act \in Activation
      BY <2>3, CallType
    <2>5. QED
      BY <2>2, <2>3, <2>4 DEF IssuedActs
  <1>5. CASE Acquire(q)
    <2>1. Standing(q) = "waiting" /\ tx'[q].seen = tx[q].seen /\ tx'[q].call = tx[q].call
      BY <1>5 DEF Acquire, TypeOK
    <2>2. QED
      BY <2>1 DEF ReleaseInv
  <1>6. ASSUME LookUpKey(q) \/ CountSeats(q)
        PROVE  FALSE
    BY <1>6 DEF LookUpKey, CountSeats, TypeOK, Standing
  <1>7. ASSUME NEW answer, Close(q, answer) PROVE FALSE
    BY <1>7 DEF Close, TypeOK, Standing, Idle
  <1>8. ASSUME NEW r \in Request, r # q,
               Start(r) \/ Locking(r) \/ Machine(r) \/ Support(r) \/ Abort(r)
        PROVE  tx'[q] = tx[q]
    <2>1. CASE Start(r)
      BY <1>8, <2>1 DEF Start, LookUpKey, BeginActivate, Begin, TypeOK
    <2>2. CASE Acquire(r) \/ CountSeats(r)
      BY <1>8, <2>2 DEF Acquire, CountSeats, TypeOK
    <2>3. CASE (Locking(r) /\ ~Acquire(r)) \/ (Machine(r) /\ ~CountSeats(r)) \/ Support(r)
               \/ Abort(r)
      <3>1. PICK answer : Close(r, answer)
        BY <2>3 DEF Locking, RowGone, Abort, Machine, RefuseActivate, Provision, Reactivate,
           TakeSeat, Renew, Deactivate, Support, Release, Amend, Reissue, Revoke, Unrevoke,
           Extend, GrantTransfers, ResetTransfers, Rotate, Rotating, Download, Refuse
      <3>2. QED
        BY <1>8, <3>1 DEF Close, TypeOK
    <2>4. QED
      BY <1>8, <2>1, <2>2, <2>3
  <1>9. ASSUME (Locking(q) /\ ~Acquire(q)) \/ (Machine(q) /\ ~CountSeats(q)) \/ Support(q)
               \/ Abort(q)
        PROVE  FALSE
    <2>1. PICK answer : Close(q, answer)
      BY <1>9 DEF Locking, RowGone, Abort, Machine, RefuseActivate, Provision, Reactivate,
         TakeSeat, Renew, Deactivate, Support, Release, Amend, Reissue, Revoke, Unrevoke,
         Extend, GrantTransfers, ResetTransfers, Rotate, Rotating, Download, Refuse
    <2>2. QED
      BY <1>7, <2>1
  <1>10. ASSUME ChangeUsable \/ Elapse \/ (\E v \in Viewer : Reveal(v)) \/ UNCHANGED vars
         PROVE  tx' = tx
    BY <1>10, RevealFrame DEF ChangeUsable, Elapse, vars
  <1>11. QED
    BY <1>2, <1>3, <1>4, <1>5, <1>6, <1>8, <1>9, <1>10 DEF Next, Start, Locking

\* Every device holds at most one seat: the inductive form of OneLivePerDevice.
OneLive == \A d \in Device : \A a, b \in LiveOn(d) : a = b

SeatInv == ReleaseInv /\ OneLive

LEMMA OneLiveStep ==
  ASSUME TypeOK, LockInv, SeatInv, [Next]_vars
  PROVE  OneLive'
  <1>1. CASE \A d : LiveOn(d)' \subseteq LiveOn(d)
    BY <1>1 DEF SeatInv, OneLive
  <1>2. CASE UNCHANGED vars
    BY <1>1, <1>2, SameActs DEF vars
  <1>3. CASE Next
    <2>1. CASE acts' = acts \/ Rearmed
      BY <1>1, <2>1, SameActs
    <2>2. CASE Freed
      <3>1. PICK a \in IssuedActs : acts' = [acts EXCEPT ![a].status = "inactive"]
        BY <2>2 DEF Freed
      <3>2. QED
        BY <1>1, <3>1, FreedSeats
    <2>3. ASSUME NEW a \in Activation, NEW d \in Device, NEW moves \in BOOLEAN, Seated(a, d, moves)
          PROVE  OneLive'
      BY <2>3, TakenSeats DEF SeatInv, OneLive
    <2>4. QED
      BY <1>3, <2>1, <2>2, <2>3, ActsStep DEF SeatInv
  <1>4. QED
    BY <1>2, <1>3

LEMMA Seating == Spec => []SeatInv
  <1>1. Init => SeatInv
    BY DEF Init, SeatInv, ReleaseInv, OneLive, LiveOn, ActiveActs, NoRow, Standing, Idle
  <1>2. TypeOK /\ LockInv /\ SeatInv /\ [Next]_vars => SeatInv'
    BY ReleaseStep, OneLiveStep DEF SeatInv
  <1>3. QED
    BY <1>1, <1>2, Typing, Serialised, PTL DEF Spec

\* "activations_one_live_per_device" never has to refuse an insert: activate() looks for
\* the device's live activation under the lock and re-uses it.
THEOREM OneSeatPerDevice == Spec => []OneLivePerDevice
  <1>1. SeatInv => OneLivePerDevice
    <2> SUFFICES ASSUME SeatInv, NEW d \in Device PROVE Cardinality(LiveOn(d)) <= 1
      BY DEF OneLivePerDevice
    <2>1. CASE LiveOn(d) = {}
      BY <2>1, FS_EmptySet
    <2>2. CASE LiveOn(d) # {}
      <3>1. PICK a : LiveOn(d) = {a}
        BY <2>2 DEF SeatInv, OneLive
      <3>2. Cardinality({a}) = 1
        BY FS_Singleton
      <3>3. QED
        BY <3>1, <3>2
    <2>3. QED
      BY <2>1, <2>2
  <1>2. QED
    BY <1>1, Seating, PTL

LEMMA SeatCounts ==
  ASSUME TypeOK, NEW a \in Activation, NEW d \in Device, NEW moves \in BOOLEAN,
         Seated(a, d, moves)
  PROVE  /\ Cardinality(ActiveActs)' = Cardinality(ActiveActs) + 1
         /\ Cardinality(FreshUsed)' = Cardinality(FreshUsed) + (IF moves THEN 0 ELSE 1)
         /\ Cardinality(IssuedActs \ FreshUsed)'
              = Cardinality(IssuedActs \ FreshUsed) + (IF moves THEN 1 ELSE 0)
  <1> DEFINE Moved == IssuedActs \ FreshUsed
  <1>1. ActiveActs' = ActiveActs \cup {a} /\ a \notin ActiveActs /\ a \notin FreshUsed
    BY TakenSeats
  <1>2. Cardinality(ActiveActs') = Cardinality(ActiveActs) + 1
    BY <1>1, FiniteSeats, FS_AddElement
  <1>3. CASE moves
    <2>1. FreshUsed' = FreshUsed /\ Moved' = Moved \cup {a} /\ a \notin Moved
      BY <1>3, TakenSeats
    <2>2. Cardinality(Moved') = Cardinality(Moved) + 1
      BY <2>1, FiniteSeats, FS_AddElement
    <2>3. QED
      BY <1>2, <1>3, <2>1, <2>2, FiniteSeats
  <1>4. CASE ~moves
    <2>1. FreshUsed' = FreshUsed \cup {a} /\ Moved' = Moved
      BY <1>4, TakenSeats DEF FreshUsed
    <2>2. Cardinality(FreshUsed') = Cardinality(FreshUsed) + 1
      BY <1>1, <2>1, FiniteSeats, FS_AddElement
    <2>3. Cardinality(Moved) \in Nat
      BY FiniteSeats, FS_CardinalityType
    <2>4. Cardinality(Moved') = Cardinality(Moved) + 0
      <3> HIDE DEF Moved
      <3>1. Cardinality(Moved') = Cardinality(Moved)
        BY <2>1
      <3>2. QED
        BY <2>3, <3>1
    <2>5. QED
      BY <1>2, <1>4, <2>2, <2>4
  <1>5. QED
    BY <1>3, <1>4

\* However activations, releases and seat changes overlap, activate() never seats a
\* device beyond the seats the entitlement has at that moment.
THEOREM SeatsBounded == Spec => SeatCeiling
  <1>1. TypeOK /\ LockInv /\ SeatInv /\ [Next]_vars
          => [Cardinality(ActiveActs') > Cardinality(ActiveActs)
                => Cardinality(ActiveActs') <= ent'.seats]_vars
    <2> SUFFICES ASSUME TypeOK, LockInv, SeatInv, Next,
                        Cardinality(ActiveActs') > Cardinality(ActiveActs)
                 PROVE  Cardinality(ActiveActs') <= ent'.seats
      OBVIOUS
    <2>0. Cardinality(ActiveActs) \in Nat /\ ent.seats \in Nat
      BY FiniteSeats DEF TypeOK, EntitlementRow
    <2>1. CASE acts' = acts \/ Rearmed
      BY <2>0, <2>1, SameActs
    <2>2. CASE Freed
      <3>1. PICK a \in IssuedActs : acts' = [acts EXCEPT ![a].status = "inactive"]
        BY <2>2 DEF Freed
      <3>2. ActiveActs' \in SUBSET ActiveActs
        BY <3>1, FreedSeats
      <3>3. IsFiniteSet(ActiveActs') /\ Cardinality(ActiveActs') <= Cardinality(ActiveActs)
        BY <3>2, FiniteSeats, FS_Subset
      <3>4. Cardinality(ActiveActs') \in Nat
        BY <3>3, FS_CardinalityType
      <3>5. QED
        BY <2>0, <3>3, <3>4
    <2>3. ASSUME NEW a \in Activation, NEW d \in Device, NEW moves \in BOOLEAN,
                 Seated(a, d, moves), ent' = ent
          PROVE  Cardinality(ActiveActs') <= ent'.seats
      <3>1. Cardinality(ActiveActs)' = Cardinality(ActiveActs) + 1
        BY <2>3, SeatCounts
      <3>2. Cardinality(ActiveActs) < ent.seats
        BY <2>3 DEF Seated
      <3>3. QED
        BY <2>0, <2>3, <3>1, <3>2
    <2>4. QED
      BY <2>1, <2>2, <2>3, ActsStep DEF SeatInv
  <1>2. QED
    BY <1>1, Typing, Serialised, Seating, PTL DEF SeatCeiling, Spec

\* A seat is filled free of charge at most once: the activations recorded without a
\* transfer event never pass the seats the entitlement has when one is added.
THEOREM FreshSeatsBounded == Spec => FreshSeats
  <1>1. TypeOK /\ LockInv /\ SeatInv /\ [Next]_vars
          => [Cardinality(FreshUsed') > Cardinality(FreshUsed)
                => Cardinality(FreshUsed') <= ent'.seats]_vars
    <2> SUFFICES ASSUME TypeOK, LockInv, SeatInv, Next,
                        Cardinality(FreshUsed') > Cardinality(FreshUsed)
                 PROVE  Cardinality(FreshUsed') <= ent'.seats
      OBVIOUS
    <2>0. Cardinality(FreshUsed) \in Nat /\ ent.seats \in Nat
      BY FiniteSeats DEF TypeOK, EntitlementRow
    <2>1. CASE acts' = acts \/ Rearmed
      BY <2>0, <2>1, SameActs
    <2>2. CASE Freed
      <3>1. PICK a \in IssuedActs : acts' = [acts EXCEPT ![a].status = "inactive"]
        BY <2>2 DEF Freed
      <3>2. FreshUsed' = FreshUsed
        BY <3>1, FreedSeats
      <3>3. QED
        BY <2>0, <3>2
    <2>3. ASSUME NEW a \in Activation, NEW d \in Device, NEW moves \in BOOLEAN,
                 Seated(a, d, moves), ent' = ent
          PROVE  Cardinality(FreshUsed') <= ent'.seats
      <3>1. CASE moves
        <4>1. FreshUsed' = FreshUsed
          BY <2>3, <3>1, TakenSeats
        <4>2. QED
          BY <2>0, <4>1
      <3>2. CASE ~moves
        <4>1. Cardinality(FreshUsed)' = Cardinality(FreshUsed) + 1
          BY <2>3, <3>2, SeatCounts
        <4>2. Cardinality(FreshUsed) < ent.seats
          BY <2>0, <2>3, <3>2 DEF Seated
        <4>3. QED
          BY <2>0, <2>3, <4>1, <4>2
      <3>3. QED
        BY <3>1, <3>2
    <2>4. QED
      BY <2>1, <2>2, <2>3, ActsStep DEF SeatInv
  <1>2. QED
    BY <1>1, Typing, Serialised, Seating, PTL DEF FreshSeats, Spec

-----------------------------------------------------------------------------
(* Revocation sources and activation keys                                   *)

LEMMA LogSupport ==
  ASSUME TypeOK, LockInv, RevokedAsRecorded, NEW r \in Request, Support(r)
  PROVE  RevokedAsRecorded'
  <1>0. /\ Ctx(r).ent = ent /\ ent \in EntitlementRow /\ revs \in RevocationLog
        /\ ent.status \in {"active", "revoked"}
    BY HandlerStanding, HeldContext DEF TypeOK, EntitlementRow
  <1>1. CASE Revoke(r)
    <2>1. CASE tx[r].call.ref \in revs.refs
      BY <1>1, <2>1 DEF Revoke, RevokedAsRecorded
    <2>2. CASE tx[r].call.ref \notin revs.refs
      <3>1. revs'.last = "revoke"
        BY <1>1, <2>2 DEF Revoke, Recorded
      <3>2. ent'.status = "revoked"
        BY <1>0, <1>1, <2>2 DEF Revoke, Touched, EntitlementRow
      <3>3. QED
        BY <3>1, <3>2 DEF RevokedAsRecorded
    <2>3. QED
      BY <2>1, <2>2
  <1>2. CASE Unrevoke(r)
    <2>1. CASE ent.status # "revoked"
      BY <1>0, <1>2, <2>1 DEF Unrevoke, Refuse, Rows, RevokedAsRecorded
    <2>2. CASE ent.status = "revoked"
      BY <1>0, <1>2, <2>2 DEF Unrevoke, Touched, EntitlementRow, RevocationLog,
         RevokedAsRecorded
    <2>3. QED
      BY <2>1, <2>2
  <1>3. CASE Amend(r) \/ Extend(r) \/ ResetTransfers(r)
    <2>1. ent'.status = ent.status /\ revs' = revs
      BY <1>0, <1>3 DEF Amend, Extend, ResetTransfers, Touched, Refuse, Rows, EntitlementRow
    <2>2. QED
      BY <2>1 DEF RevokedAsRecorded
  <1>4. CASE Reissue(r)
    <2>1. ent'.status = ent.status /\ revs' = revs
      BY <1>0, <1>4 DEF Reissue, Touched, Refuse, Rows, EntitlementRow
    <2>2. QED
      BY <2>1 DEF RevokedAsRecorded
  <1>5. CASE Release(r) \/ GrantTransfers(r) \/ Rotate(r) \/ Download(r)
    BY <1>5 DEF Release, GrantTransfers, Rotate, Rotating, Download, Refuse, Rows,
       RevokedAsRecorded
  <1>6. QED
    BY <1>1, <1>2, <1>3, <1>4, <1>5 DEF Support

\* revokeInTx() and unrevoke() look at the status and at the references on locked rows:
\* however refunds, disputes, their repetitions and support's restorations overlap, the
\* entitlement is revoked exactly if the newest revocation record says so.
THEOREM RevocationsRecorded == Spec => []RevokedAsRecorded
  <1>1. Init => RevokedAsRecorded
    BY DEF Init, RevokedAsRecorded
  <1>2. TypeOK /\ LockInv /\ RevokedAsRecorded /\ [Next]_vars => RevokedAsRecorded'
    <2> SUFFICES ASSUME TypeOK, LockInv, RevokedAsRecorded, Next \/ UNCHANGED vars
                 PROVE  RevokedAsRecorded'
      OBVIOUS
    <2>1. ASSUME NEW r \in Request, Start(r) \/ Locking(r) \/ Machine(r) \/ Abort(r)
          PROVE  ent' = ent /\ revs' = revs
      BY <2>1 DEF Start, LookUpKey, BeginActivate, Begin, Locking, Acquire, RowGone, Abort,
         Machine, RefuseActivate, Provision, Reactivate, CountSeats, TakeSeat, Renew,
         Deactivate, Refuse, Rows
    <2>2. ASSUME ChangeUsable \/ Elapse \/ (\E v \in Viewer : Reveal(v)) \/ UNCHANGED vars
          PROVE  ent' = ent /\ revs' = revs
      BY <2>2, RevealFrame DEF ChangeUsable, Elapse, Rows, vars
    <2>3. CASE ent' = ent /\ revs' = revs
      BY <2>3 DEF RevokedAsRecorded
    <2>4. QED
      BY <2>1, <2>2, <2>3, LogSupport DEF Next
  <1>3. QED
    BY <1>1, <1>2, Typing, Serialised, PTL DEF Spec

ActiveKeys == {k \in ActivationKey : keys[k].status = "active"}

LEMMA KeysFrame ==
  ASSUME Next \/ UNCHANGED vars
  PROVE  \/ keys' = keys
         \/ \E r \in Request : Rotate(r)
         \/ \E v \in Viewer : ReadKey(v) \/ ShowKey(v) \/ DropKey(v)
  <1>1. ASSUME NEW r \in Request, Start(r) \/ Locking(r) \/ Machine(r) \/ Abort(r)
        PROVE  keys' = keys
    BY <1>1 DEF Start, LookUpKey, BeginActivate, Begin, Locking, Acquire, RowGone, Abort,
       Machine, RefuseActivate, Provision, Reactivate, CountSeats, TakeSeat, Renew,
       Deactivate, Refuse, Rows
  <1>2. ASSUME NEW r \in Request, Support(r), ~Rotate(r) PROVE keys' = keys
    BY <1>2 DEF Support, Release, Amend, Reissue, Revoke, Unrevoke, Extend, GrantTransfers,
       ResetTransfers, Download, Refuse, Rows
  <1>3. ASSUME ChangeUsable \/ Elapse PROVE keys' = keys
    BY <1>3 DEF ChangeUsable, Elapse, Rows
  <1>4. QED
    BY <1>1, <1>2, <1>3 DEF Next, Reveal, vars

\* A row of the activation keys: it is unused, or in its slot and not shown yet, or out of
\* its slot; one viewer at most holds it, and only while it is in its slot.
Slotted(row) ==
  /\ row.shown <= 1
  /\ row.status = "unused" => row.shown = 0 /\ row.reveal = 0
  /\ row.reveal # 0 => row.shown = 0
  /\ row.held # {} => row.reveal # 0
  /\ \A v, w \in row.held : v = w

KeyInv ==
  /\ \E k : ActiveKeys = {k}
  /\ \A k \in ActivationKey : Slotted(keys[k])

\* Rotation retires the active key, which nobody holds then, and the new one has been shown.
LEMMA RotateKeys ==
  ASSUME TypeOK, KeyInv, NEW r \in Request, Rotate(r)
  PROVE  KeyInv'
  <1>1. PICK new \in {k \in ActivationKey : keys[k].status = "unused"} :
          keys' = [k \in ActivationKey |->
                     IF k = new THEN Key("active", 0, 1)
                     ELSE IF keys[k].status = "active" THEN Rotated(keys[k])
                     ELSE keys[k]]
    BY DEF Rotate
  <1>2. /\ Key("active", 0, 1).status = "active"
        /\ \A k \in ActivationKey : Rotated(keys[k]).status = "rotated"
    BY DEF Key, Rotated, TypeOK, KeyRow
  <1>3. ActiveKeys' = {new}
    BY <1>1, <1>2 DEF ActiveKeys
  <1>4. ASSUME NEW k \in ActivationKey PROVE Slotted(keys[k])'
    <2>1. CASE k = new
      BY <1>1, <2>1 DEF Slotted, Key
    <2>2. CASE k # new /\ keys[k].status = "active"
      <3>1. keys[k].held = {} /\ keys[k].shown <= 1 /\ keys[k] \in KeyRow
        BY <2>2 DEF Rotate, Rotating, KeyInv, Slotted, TypeOK
      <3>2. keys'[k] = Rotated(keys[k])
        BY <1>1, <2>2
      <3>3. QED
        BY <3>1, <3>2 DEF Slotted, Rotated, KeyRow
    <2>3. CASE k # new /\ keys[k].status # "active"
      BY <1>1, <2>3 DEF KeyInv, Slotted
    <2>4. QED
      BY <2>1, <2>2, <2>3
  <1>5. QED
    BY <1>3, <1>4 DEF KeyInv

\* A reveal takes a key that nobody holds, and shows it as it takes it out of its slot.
LEMMA RevealKeys ==
  ASSUME TypeOK, KeyInv, NEW v \in Viewer, ReadKey(v) \/ ShowKey(v) \/ DropKey(v)
  PROVE  KeyInv'
  <1>1. PICK k \in ActivationKey :
          \/ /\ keys[k].held = {} /\ keys[k].reveal # 0
             /\ keys' = [keys EXCEPT ![k].held = {v}]
          \/ /\ v \in keys[k].held
             /\ keys' = [keys EXCEPT ![k].held = @ \ {v}, ![k].reveal = 0, ![k].shown = @ + 1]
          \/ /\ v \in keys[k].held
             /\ keys' = [keys EXCEPT ![k].held = @ \ {v}]
    BY DEF ReadKey, ShowKey, DropKey, Viewing
  <1>2. keys[k] \in KeyRow /\ Slotted(keys[k])
    BY DEF TypeOK, KeyInv
  <1>3. \A j \in ActivationKey : j # k => keys'[j] = keys[j]
    BY <1>1 DEF TypeOK
  <1>4. keys'[k].status = keys[k].status /\ Slotted(keys'[k])
    <2>1. CASE keys[k].held = {} /\ keys[k].reveal # 0 /\ keys' = [keys EXCEPT ![k].held = {v}]
      <3>1. keys'[k] = [keys[k] EXCEPT !.held = {v}]
        BY <2>1 DEF TypeOK
      <3>2. QED
        BY <1>2, <2>1, <3>1 DEF Slotted, KeyRow
    <2>2. CASE /\ v \in keys[k].held
               /\ keys' = [keys EXCEPT ![k].held = @ \ {v}, ![k].reveal = 0, ![k].shown = @ + 1]
      <3>1. keys'[k] = [keys[k] EXCEPT !.held = @ \ {v}, !.reveal = 0, !.shown = @ + 1]
        BY <2>2 DEF TypeOK
      <3>2. keys[k].held \ {v} = {} /\ keys[k].shown = 0 /\ keys[k].status # "unused"
        BY <1>2, <2>2 DEF Slotted
      <3>3. QED
        BY <1>2, <3>1, <3>2 DEF Slotted, KeyRow
    <2>3. CASE v \in keys[k].held /\ keys' = [keys EXCEPT ![k].held = @ \ {v}]
      <3>1. keys'[k] = [keys[k] EXCEPT !.held = @ \ {v}]
        BY <2>3 DEF TypeOK
      <3>2. keys[k].held \ {v} = {}
        BY <1>2, <2>3 DEF Slotted
      <3>3. QED
        BY <1>2, <3>1, <3>2 DEF Slotted, KeyRow
    <2>4. QED
      BY <1>1, <2>1, <2>2, <2>3
  <1>5. ActiveKeys' = ActiveKeys
    BY <1>3, <1>4 DEF ActiveKeys
  <1>6. QED
    BY <1>3, <1>4, <1>5 DEF KeyInv

\* "activation_keys_one_active" and the one-time reveal of revealActivationKey(): however
\* reveals of one licence overlap each other and its rotations, one key is active, and no
\* key leaves the server twice.
THEOREM RevealedOnce == Spec => []KeysShownOnce
  <1>1. Init => KeyInv
    <2> SUFFICES ASSUME Init PROVE KeyInv
      OBVIOUS
    <2>1. PICK k \in ActivationKey :
            keys = [j \in ActivationKey |->
                      IF j = k THEN Key("active", 1 + RevealLife, 0) ELSE Key("unused", 0, 0)]
      BY DEF Init
    <2>2. ActiveKeys = {k}
      BY <2>1 DEF ActiveKeys, Key
    <2>3. \A j \in ActivationKey : Slotted(keys[j])
      BY <2>1 DEF Slotted, Key
    <2>4. QED
      BY <2>2, <2>3 DEF KeyInv
  <1>2. TypeOK /\ KeyInv /\ [Next]_vars => KeyInv'
    <2> SUFFICES ASSUME TypeOK, KeyInv, Next \/ UNCHANGED vars PROVE KeyInv'
      OBVIOUS
    <2>1. CASE keys' = keys
      BY <2>1 DEF KeyInv, ActiveKeys, Slotted
    <2>2. QED
      BY <2>1, RotateKeys, RevealKeys, KeysFrame
  <1>3. KeyInv => KeysShownOnce
    BY FS_Singleton DEF KeyInv, Slotted, KeysShownOnce, OneActiveKey, ActiveKeys
  <1>4. QED
    BY <1>1, <1>2, <1>3, Typing, PTL DEF Spec

-----------------------------------------------------------------------------
(* The seat ledger                                                          *)

\* The devices that hold a seat are no more than the live activations.
LEMMA SeatsCounted ==
  ASSUME TypeOK
  PROVE  IsFiniteSet(SeatedDevices) /\ Cardinality(SeatedDevices) <= Cardinality(ActiveActs)
         /\ Cardinality(SeatedDevices) \in Nat
  <1> DEFINE Busy == {a \in ActiveActs : acts[a].device \in Device}
             f == [a \in Busy |-> acts[a].device]
  <1>1. Busy \in SUBSET ActiveActs
    OBVIOUS
  <1>2. IsFiniteSet(Busy) /\ Cardinality(Busy) <= Cardinality(ActiveActs)
    BY <1>1, FiniteSeats, FS_Subset
  <1>3. f \in Surjection(Busy, SeatedDevices)
    BY DEF Surjection, SeatedDevices, LiveOn
  <1>4. IsFiniteSet(SeatedDevices) /\ Cardinality(SeatedDevices) <= Cardinality(Busy)
    BY <1>2, <1>3, FS_Surjection
  <1>5. Cardinality(SeatedDevices) \in Nat /\ Cardinality(Busy) \in Nat
    BY <1>2, <1>4, FS_CardinalityType
  <1>6. QED
    BY <1>2, <1>4, <1>5, FiniteSeats

LEMMA SameCardinality ==
  ASSUME NEW S
  PROVE  Ledger!Cardinality(S) = Cardinality(S)
  BY DEF Ledger!Cardinality, Cardinality

LedgerVars == <<ent.seats, SeatedDevices, Cardinality(FreshUsed), Cardinality(IssuedActs \ FreshUsed)>>

\* A step that leaves the seats alone at most changes how many there are.
LEMMA QuietLedger ==
  ASSUME TypeOK, TypeOK', acts' = acts \/ Rearmed
  PROVE  [Ledger!Next]_LedgerVars
  <1>1. /\ SeatedDevices' = SeatedDevices /\ FreshUsed' = FreshUsed
        /\ (IssuedActs \ FreshUsed)' = IssuedActs \ FreshUsed
    BY SameActs DEF SeatedDevices
  <1>2. ent'.seats \in Nat \ {0}
    BY DEF TypeOK, EntitlementRow
  <1>3. Ledger!Resize
    BY <1>1, <1>2 DEF Ledger!Resize
  <1>4. QED
    BY <1>3 DEF Ledger!Next

LEMMA FreeLedger ==
  ASSUME TypeOK, OneLive, Freed, ent' = ent
  PROVE  [Ledger!Next]_LedgerVars
  <1>1. PICK a \in IssuedActs : acts' = [acts EXCEPT ![a].status = "inactive"]
    BY DEF Freed
  <1>2. /\ FreshUsed' = FreshUsed /\ (IssuedActs \ FreshUsed)' = IssuedActs \ FreshUsed
        /\ \A d : LiveOn(d)' = LiveOn(d) \ {a}
    BY <1>1, FreedSeats
  <1>3. CASE \E d \in Device : a \in LiveOn(d)
    <2>1. PICK d \in Device : a \in LiveOn(d)
      BY <1>3
    <2>2. LiveOn(d) = {a}
      BY <2>1 DEF OneLive
    <2>3. \A e \in Device : e # d => a \notin LiveOn(e)
      BY <2>1 DEF LiveOn
    <2>4. SeatedDevices' = SeatedDevices \ {d}
      BY <1>2, <2>2, <2>3 DEF SeatedDevices
    <2>5. Ledger!Free(d)
      BY <1>2, <2>4 DEF Ledger!Free
    <2>6. QED
      BY <2>5 DEF Ledger!Next
  <1>4. CASE \A d \in Device : a \notin LiveOn(d)
    <2>1. SeatedDevices' = SeatedDevices
      BY <1>2, <1>4 DEF SeatedDevices
    <2>2. QED
      BY <1>2, <2>1 DEF LedgerVars
  <1>5. QED
    BY <1>3, <1>4

LEMMA TakeLedger ==
  ASSUME TypeOK, NEW a \in Activation, NEW d \in Device, NEW moves \in BOOLEAN,
         Seated(a, d, moves), ent' = ent
  PROVE  [Ledger!Next]_LedgerVars
  <1>0. ent.seats \in Nat /\ Cardinality(FreshUsed) \in Nat
        /\ Cardinality(IssuedActs \ FreshUsed) \in Nat
    BY FiniteSeats, FS_CardinalityType DEF TypeOK, EntitlementRow
  <1>1. d \notin SeatedDevices /\ SeatedDevices' = SeatedDevices \cup {d}
    <2>1. LiveOn(d) = {}
      BY DEF Seated
    <2>2. LiveOn(d)' = {a} /\ \A e : e # d => LiveOn(e)' = LiveOn(e)
      BY TakenSeats
    <2>3. QED
      BY <2>1, <2>2 DEF SeatedDevices
  <1>2. Cardinality(SeatedDevices) < ent.seats
    <2>1. Cardinality(ActiveActs) < ent.seats
      BY DEF Seated
    <2>2. QED
      BY <1>0, <2>1, SeatsCounted, FiniteSeats
  <1>3. moves <=> ~(Cardinality(FreshUsed) < ent.seats)
    BY <1>0 DEF Seated
  <1>4. /\ Cardinality(FreshUsed)' = Cardinality(FreshUsed) + (IF moves THEN 0 ELSE 1)
        /\ Cardinality(IssuedActs \ FreshUsed)'
             = Cardinality(IssuedActs \ FreshUsed) + (IF moves THEN 1 ELSE 0)
    BY SeatCounts
  <1>5. CASE Cardinality(FreshUsed) < ent.seats
    <2>1. /\ Cardinality(FreshUsed)' = Cardinality(FreshUsed) + 1
          /\ Cardinality(IssuedActs \ FreshUsed)' = Cardinality(IssuedActs \ FreshUsed)
      BY <1>0, <1>3, <1>4, <1>5
    <2>2. Ledger!Take(d)
      <3> USE <1>1, <1>2, <1>5, <2>1
      <3>1. /\ d \notin SeatedDevices /\ Cardinality(SeatedDevices) < ent.seats
            /\ SeatedDevices' = SeatedDevices \cup {d}
            /\ ent'.seats = ent.seats
        OBVIOUS
      <3>2. QED
        BY <3>1, SameCardinality DEF Ledger!Take
    <2>3. QED
      BY <2>2 DEF Ledger!Next
  <1>6. CASE ~(Cardinality(FreshUsed) < ent.seats)
    <2>1. /\ Cardinality(FreshUsed)' = Cardinality(FreshUsed)
          /\ Cardinality(IssuedActs \ FreshUsed)' = Cardinality(IssuedActs \ FreshUsed) + 1
      BY <1>0, <1>3, <1>4, <1>6
    <2>2. Ledger!Take(d)
      <3> USE <1>1, <1>2, <1>6, <2>1
      <3>1. /\ d \notin SeatedDevices /\ Cardinality(SeatedDevices) < ent.seats
            /\ SeatedDevices' = SeatedDevices \cup {d}
            /\ ent'.seats = ent.seats
        OBVIOUS
      <3>2. QED
        BY <3>1, SameCardinality DEF Ledger!Take
    <2>3. QED
      BY <2>2 DEF Ledger!Next
  <1>7. QED
    BY <1>5, <1>6

\* The transactions of machine.ts and licensing.ts implement the seat ledger: every
\* step takes one seat within the limit, frees one, changes the limit, or does none of it.
THEOREM Implementation == Spec => ImplementsLedger
  <1>1. Init => Ledger!Init
    <2> SUFFICES ASSUME Init PROVE Ledger!Init
      OBVIOUS
    <2>1. ent.seats \in Nat \ {0}
      BY InitType DEF TypeOK, EntitlementRow
    <2>2. SeatedDevices = {} /\ FreshUsed = {} /\ IssuedActs = {}
      BY DEF Init, SeatedDevices, LiveOn, ActiveActs, FreshUsed, IssuedActs, NoRow
    <2>3. Cardinality(FreshUsed) = 0 /\ Cardinality(IssuedActs \ FreshUsed) = 0
      BY <2>2, FS_EmptySet
    <2>4. QED
      BY <2>1, <2>2, <2>3 DEF Ledger!Init
  <1>2. TypeOK /\ TypeOK' /\ LockInv /\ SeatInv /\ [Next]_vars => [Ledger!Next]_LedgerVars
    <2> SUFFICES ASSUME TypeOK, TypeOK', LockInv, SeatInv, [Next]_vars
                 PROVE  [Ledger!Next]_LedgerVars
      OBVIOUS
    <2>1. CASE UNCHANGED vars
      BY <2>1, QuietLedger DEF vars
    <2>2. CASE Next
      BY <2>2, ActsStep, QuietLedger, FreeLedger, TakeLedger DEF SeatInv
    <2>3. QED
      BY <2>1, <2>2
  <1>3. QED
    BY <1>1, <1>2, Typing, Serialised, Seating, PTL
       DEF ImplementsLedger, Ledger!Spec, Spec, LedgerVars

-----------------------------------------------------------------------------
(* What a licence that is served unsigned shows.                            *)

Open(r) == Standing(r) \in {"waiting", "locked", "counted"}

\* now() of an open transaction is its own: nothing is dated with it yet.
Dated ==
  /\ ent.updated <= clock /\ lic.updated <= clock
  /\ \A q \in Request : Open(q) =>
       tx[q].ts <= clock /\ tx[q].ts # ent.updated /\ tx[q].ts # lic.updated
  /\ \A p, q \in Request : p # q /\ Open(p) /\ Open(q) => tx[p].ts # tx[q].ts

\* A licence as old as the entitlement's last change was signed by that change.
Shown ==
  ent.updated = lic.updated =>
    /\ lic.env.expires = ent.expires /\ lic.env.name = ent.name
    /\ lic.env.seats = IF ActivationModel = "device_seats" THEN ent.seats ELSE 0

\* What is written is dated with now() of its transaction.
LEMMA WrittenMachine ==
  ASSUME TypeOK, LockInv, NEW r \in Request, Machine(r)
  PROVE  ent' = ent /\ (lic' # lic => lic'.updated = tx[r].ts)
  <1>1. Ctx(r).lic = lic
    BY HeldContext, HandlerStanding
  <1>2. CASE RefuseActivate(r) \/ CountSeats(r) \/ Deactivate(r)
    BY <1>2 DEF RefuseActivate, CountSeats, Deactivate, Refuse, Rows
  <1>3. CASE Provision(r)
    BY <1>1, <1>3 DEF Provision, Refuse, Rows, CurrentOrFresh, SignedBy
  <1>4. CASE Reactivate(r)
    BY <1>1, <1>4 DEF Reactivate, Refuse, Rows, CurrentOrFresh, SignedBy
  <1>5. CASE TakeSeat(r)
    BY <1>1, <1>5 DEF TakeSeat, Refuse, Rows, CurrentOrFresh, SignedBy
  <1>6. CASE Renew(r)
    BY <1>6 DEF Renew, Refuse, Rows, SignedBy
  <1>7. QED
    BY <1>2, <1>3, <1>4, <1>5, <1>6 DEF Machine

LEMMA WrittenSupport ==
  ASSUME TypeOK, LockInv, NEW r \in Request, Support(r)
  PROVE  /\ ent' # ent => ent'.updated = tx[r].ts
         /\ lic' # lic => lic'.updated = tx[r].ts
  <1>1. /\ Ctx(r).lic = lic /\ Ctx(r).ent = ent /\ ent \in EntitlementRow
    BY HeldContext, HandlerStanding
  <1>3. CASE Amend(r)
    BY <1>1, <1>3 DEF Amend, Refuse, Rows, Touched, EntitlementRow
  <1>4. CASE Reissue(r)
    <2> DEFINE e == [Ctx(r).ent EXCEPT !.name = tx[r].call.name]
    <2>1. \/ ent' = ent /\ lic' = lic
          \/ ent' = Touched(r, e) /\ lic' = SignedBy(r, e)
      BY <1>4 DEF Reissue, Refuse, Rows
    <2>2. Touched(r, e).updated = tx[r].ts
      BY <1>1 DEF Touched, EntitlementRow
    <2>3. QED
      BY <2>1, <2>2 DEF SignedBy
  <1>5. CASE Revoke(r)
    BY <1>1, <1>5 DEF Revoke, Touched, EntitlementRow
  <1>6. CASE Unrevoke(r)
    BY <1>1, <1>6 DEF Unrevoke, Refuse, Rows, Touched, EntitlementRow
  <1>7. CASE Extend(r)
    BY <1>1, <1>7 DEF Extend, Touched, EntitlementRow
  <1>8. CASE ResetTransfers(r)
    BY <1>1, <1>8 DEF ResetTransfers, Touched, EntitlementRow
  <1>9. CASE Download(r)
    BY <1>1, <1>9 DEF Download, Refuse, Rows, CurrentOrFresh, SignedBy
  <1>10. CASE Release(r) \/ GrantTransfers(r) \/ Rotate(r)
    BY <1>10 DEF Release, GrantTransfers, Rotate, Rotating
  <1>11. QED
    BY <1>3, <1>4, <1>5, <1>6, <1>7, <1>8, <1>9, <1>10 DEF Support

\* A handler closes its transaction, or has counted the seats and goes on.
LEMMA HandledTx ==
  ASSUME TypeOK, NEW r \in Request, Machine(r) \/ Support(r)
  PROVE  /\ clock' = clock /\ usable' = usable
         /\ \A q \in Request : q # r => tx'[q] = tx[q]
         /\ \/ tx'[r] = Idle
            \/ /\ ent' = ent /\ lic' = lic
               /\ tx'[r].ts = tx[r].ts
  <1>1. CASE CountSeats(r)
    BY <1>1 DEF CountSeats, TypeOK, Rows
  <1>2. CASE ~CountSeats(r)
    <2>1. PICK answer : Close(r, answer)
      BY <1>2 DEF Machine, RefuseActivate, Provision, Reactivate, TakeSeat, Renew,
           Deactivate, Support, Release, Amend, Reissue, Revoke, Unrevoke, Extend,
           GrantTransfers, ResetTransfers, Rotate, Rotating, Download, Refuse
    <2>2. QED
      BY <2>1 DEF Close, TypeOK
  <1>3. QED
    BY <1>1, <1>2

LEMMA HandlerDated ==
  ASSUME TypeOK, LockInv, Dated, Shown, NEW r \in Request, Machine(r) \/ Support(r)
  PROVE  Dated' /\ Shown'
  <1>1. Open(r) /\ tx[r].ts <= clock /\ tx[r].ts # ent.updated /\ tx[r].ts # lic.updated
    BY HandlerStanding DEF Open, Dated
  <1>2. /\ ent' # ent => ent'.updated = tx[r].ts
        /\ lic' # lic => lic'.updated = tx[r].ts
    BY WrittenMachine, WrittenSupport
  <1>3. /\ clock' = clock
        /\ \A q \in Request : q # r => tx'[q] = tx[q]
        /\ tx'[r] = Idle \/ (ent' = ent /\ lic' = lic /\ tx'[r].ts = tx[r].ts)
    BY HandledTx
  <1>4. lic' # lic => lic'.env = EnvelopeOf(ent')
    BY SignedMachine, SignedSupport
  <1>5. Dated'
    <2>1. ent'.updated <= clock' /\ lic'.updated <= clock'
      BY <1>1, <1>2, <1>3 DEF Dated
    <2>2. CASE tx'[r] = Idle
      <3>1. \A q \in Request : Open(q)' => q # r /\ Open(q) /\ tx'[q] = tx[q]
        BY <1>3, <2>2 DEF Open, Standing, Idle
      <3>2. \A q \in Request : Open(q)' => tx[q].ts # tx[r].ts
        BY <1>1, <3>1 DEF Dated
      <3>3. QED
        BY <1>2, <1>3, <2>1, <3>1, <3>2 DEF Dated
    <2>3. CASE ent' = ent /\ lic' = lic /\ tx'[r].ts = tx[r].ts
      <3>1. \A q \in Request : Open(q)' => Open(q) /\ tx'[q].ts = tx[q].ts
        BY <1>1, <1>3, <2>3 DEF Open, Standing
      <3>2. QED
        BY <1>3, <2>1, <2>3, <3>1 DEF Dated
    <2>4. QED
      BY <1>3, <2>2, <2>3
  <1>6. Shown'
    <2>1. CASE lic' = lic
      BY <1>1, <1>2, <2>1 DEF Shown
    <2>2. CASE lic' # lic /\ ent' = ent
      BY <1>1, <1>2, <2>2 DEF Shown
    <2>3. CASE lic' # lic /\ ent' # ent
      <3>1. lic'.env = EnvelopeOf(ent')
        BY <1>4, <2>3
      <3>2. QED
        BY <3>1 DEF Shown, EnvelopeOf
    <2>4. QED
      BY <2>1, <2>2, <2>3
  <1>7. QED
    BY <1>5, <1>6

LEMMA DatedStep ==
  ASSUME TypeOK, LockInv, Dated, Shown, [Next]_vars
  PROVE  Dated' /\ Shown'
  <1>1. ASSUME NEW r \in Request, Start(r) PROVE Dated' /\ Shown'
    <2>1. ent' = ent /\ lic' = lic /\ \A q \in Request : q # r => tx'[q] = tx[q]
      BY <1>1 DEF Start, LookUpKey, BeginActivate, Begin, Rows, TypeOK
    <2>2. Shown'
      BY <2>1 DEF Shown
    <2>3. clock \in Nat /\ ent.updated \in Nat /\ lic.updated \in Nat
      BY DEF TypeOK, Instant, EntitlementRow, LicenseRow
    <2>4. \/ clock' = clock /\ ~Open(r)'
          \/ clock' = clock + 1 /\ tx'[r].ts = clock + 1
      BY <1>1 DEF Start, LookUpKey, BeginActivate, Begin, Waiting, Open, Standing, TypeOK
    <2>5. \A q \in Request : Open(q) => tx[q].ts \in Nat
      BY StageType DEF Open, Queued, Locked, Tallied, Instant
    <2>6. \A q \in Request : q # r /\ Open(q)' => Open(q) /\ tx'[q] = tx[q]
      BY <2>1 DEF Open, Standing
    <2>7. Dated'
      BY <2>1, <2>3, <2>4, <2>5, <2>6 DEF Dated
    <2>8. QED
      BY <2>2, <2>7
  <1>2. ASSUME NEW r \in Request, Acquire(r) PROVE Dated' /\ Shown'
    <2>1. /\ ent' = ent /\ lic' = lic /\ clock' = clock
          /\ \A q \in Request : Open(q)' => Open(q) /\ tx'[q].ts = tx[q].ts
      BY <1>2 DEF Acquire, Rows, TypeOK, Open, Standing
    <2>2. QED
      BY <2>1 DEF Dated, Shown
  <1>3. ASSUME NEW r \in Request, RowGone(r) \/ Abort(r) PROVE Dated' /\ Shown'
    <2>1. /\ ent' = ent /\ lic' = lic /\ clock' = clock /\ tx' = [tx EXCEPT ![r] = Idle]
      BY <1>3 DEF RowGone, Abort, Refuse, Close, Rows
    <2>2. \A q \in Request : Open(q)' => Open(q) /\ tx'[q] = tx[q]
      BY <2>1 DEF TypeOK, Open, Standing, Idle
    <2>3. QED
      BY <2>1, <2>2 DEF Dated, Shown
  <1>4. ASSUME NEW r \in Request, Machine(r) \/ Support(r) PROVE Dated' /\ Shown'
    BY <1>4, HandlerDated
  <1>5. ASSUME \/ \E v \in Viewer : Reveal(v)
               \/ ChangeUsable \/ Elapse \/ UNCHANGED vars
        PROVE  Dated' /\ Shown'
    <2>1. ent' = ent /\ lic' = lic /\ tx' = tx /\ (clock' = clock \/ clock' = clock + 1)
      BY <1>5, RevealFrame DEF ChangeUsable, Elapse, Rows, vars
    <2>2. clock \in Nat /\ ent.updated \in Nat /\ lic.updated \in Nat
      BY DEF TypeOK, Instant, EntitlementRow, LicenseRow
    <2>3. \A q \in Request : Open(q) => tx[q].ts \in Nat
      BY StageType DEF Open, Queued, Locked, Tallied, Instant
    <2>4. \A q \in Request : Open(q)' <=> Open(q)
      BY <2>1 DEF Open, Standing
    <2>5. QED
      BY <2>1, <2>2, <2>3, <2>4 DEF Dated, Shown
  <1>6. QED
    BY <1>1, <1>2, <1>3, <1>4, <1>5 DEF Next, Locking

LEMMA Dating == Spec => [](Dated /\ Shown)
  <1>1. Init => Dated /\ Shown
    <2> SUFFICES ASSUME Init PROVE Dated /\ Shown
      OBVIOUS
    <2>1. Dated
      BY DEF Init, Dated, Open, Standing, Idle
    <2>2. lic.env = EnvelopeOf(ent)
      BY DEF Init
    <2>3. QED
      BY <2>1, <2>2 DEF Shown, EnvelopeOf
  <1>2. TypeOK /\ LockInv /\ Dated /\ Shown /\ [Next]_vars => Dated' /\ Shown'
    BY DatedStep
  <1>3. QED
    BY <1>1, <1>2, Typing, Serialised, PTL DEF Spec

\* The licence an answer carries is the stored one, just signed or found current.
Stored ==
  /\ lic' = lic /\ ent' = ent /\ reply'.licence = lic.env
  /\ lic.env # NoEnvelope /\ Milli(lic.updated) >= Milli(ent.updated)
  /\ lic.env.keys = usable

LEMMA ServedFrom ==
  ASSUME TypeOK, LockInv, NEW r \in Request, Standing(r) \in {"locked", "counted"},
         NEW answer, Close(r, answer), answer.licence = lic'.env, ent' = ent,
         lic' = CurrentOrFresh(r, Ctx(r), tx[r].now)
  PROVE  Stored \/ reply'.licence = EnvelopeOf(ent')
  BY HeldContext DEF Close, CurrentOrFresh, Current, SignedBy, Stored

LEMMA ServedMachine ==
  ASSUME TypeOK, LockInv, NEW r \in Request, Machine(r), reply'.licence # NoEnvelope
  PROVE  Stored \/ reply'.licence = EnvelopeOf(ent')
  <1>0. Standing(r) \in {"locked", "counted"} /\ Ctx(r).ent = ent
    BY HandlerStanding, HeldContext
  <1>1. ASSUME NEW l, NEW a PROVE Answer(l, a).licence = l
    BY DEF Answer
  <1>2. CASE RefuseActivate(r) \/ CountSeats(r) \/ Deactivate(r)
    BY <1>2, QuietReply, RefusedReply, PlainReply DEF RefuseActivate, Deactivate, Close
  <1>3. CASE Provision(r)
    BY <1>0, <1>1, <1>3, RefusedReply, ServedFrom DEF Provision
  <1>4. CASE Reactivate(r)
    BY <1>0, <1>1, <1>4, RefusedReply, ServedFrom DEF Reactivate
  <1>5. CASE TakeSeat(r)
    BY <1>0, <1>1, <1>5, RefusedReply, ServedFrom DEF TakeSeat
  <1>6. CASE Renew(r)
    BY <1>0, <1>1, <1>6, RefusedReply DEF Renew, Close, SignedBy
  <1>7. QED
    BY <1>2, <1>3, <1>4, <1>5, <1>6 DEF Machine

LEMMA ServedSupport ==
  ASSUME TypeOK, LockInv, NEW r \in Request, Support(r),
         reply'.code = "ok", reply'.licence # NoEnvelope
  PROVE  Stored \/ reply'.licence = EnvelopeOf(ent')
  <1>0. Standing(r) \in {"locked", "counted"} /\ Ctx(r).ent = ent /\ ent \in EntitlementRow
    BY HandlerStanding, HeldContext
  <1>1. ASSUME NEW l, NEW a PROVE Answer(l, a).licence = l
    BY DEF Answer
  <1>2. CASE Reissue(r)
    <2> DEFINE e == [Ctx(r).ent EXCEPT !.name = tx[r].call.name]
    <2>1. /\ ent' = Touched(r, e) /\ lic' = SignedBy(r, e)
          /\ Close(r, Answer(lic'.env, NoActivation))
      BY <1>2, RefusedReply DEF Reissue
    <2>2. /\ Touched(r, e).expires = e.expires /\ Touched(r, e).name = e.name
          /\ Touched(r, e).seats = e.seats
      BY <1>0 DEF Touched, EntitlementRow
    <2>3. EnvelopeOf(ent') = EnvelopeOf(e)
      BY <2>1, <2>2, SameEnvelope
    <2>4. QED
      BY <1>1, <2>1, <2>3 DEF SignedBy, Close
  <1>3. CASE Download(r)
    <2>1. CASE DownloadRefusal(r) = "ok"
      BY <1>0, <1>1, <1>3, <2>1, ServedFrom DEF Download
    <2>2. CASE DownloadRefusal(r) = "last"
      <3>1. reply' = [Answer(Ctx(r).lic.env, NoActivation) EXCEPT !.code = "last"]
        BY <1>3, <2>2 DEF Download, Close
      <3>2. QED
        BY <3>1 DEF Answer
    <2>3. CASE DownloadRefusal(r) \notin {"ok", "last"}
      BY <1>3, <2>3, RefusedReply DEF Download
    <2>4. QED
      BY <2>1, <2>2, <2>3
  <1>4. CASE Amend(r) \/ Unrevoke(r)
    BY <1>4, RefusedReply, PlainReply DEF Amend, Unrevoke, Close
  <1>5. CASE \/ Release(r) \/ Revoke(r) \/ Extend(r) \/ GrantTransfers(r) \/ ResetTransfers(r)
             \/ Rotate(r)
    BY <1>5, PlainReply DEF Release, Revoke, Extend, GrantTransfers, ResetTransfers, Rotate, Rotating, Close
  <1>6. QED
    BY <1>2, <1>3, <1>4, <1>5 DEF Support

\* A stored licence is found current by comparing dates to the millisecond: it shows the
\* entitlement unless another transaction changed the entitlement after the signing and is
\* dated no later than the millisecond of the signing.
THEOREM ServedIsCurrent == Spec => ServedUnlessBackdated
  <1>1. TypeOK /\ LockInv /\ Dated /\ Shown /\ [Next]_vars
          => [reply'.code = "ok" /\ reply'.licence # NoEnvelope
              /\ reply'.licence # EnvelopeOf(ent')
                => /\ ent'.updated # lic'.updated
                   /\ Milli(ent'.updated) <= Milli(lic'.updated)]_vars
    <2> SUFFICES ASSUME TypeOK, LockInv, Shown, Next, reply'.code = "ok",
                        reply'.licence # NoEnvelope, reply'.licence # EnvelopeOf(ent')
                 PROVE  /\ ent'.updated # lic'.updated
                        /\ Milli(ent'.updated) <= Milli(lic'.updated)
      OBVIOUS
    <2>1. ASSUME NEW r \in Request, Start(r) \/ Locking(r) \/ Abort(r) PROVE FALSE
      BY <2>1, QuietReply
    <2>2. ASSUME NEW v \in Viewer, Reveal(v) PROVE FALSE
      BY <2>2, PlainReply, RevealFrame DEF NoReply
    <2>3. ASSUME ChangeUsable \/ Elapse PROVE FALSE
      BY <2>3 DEF ChangeUsable, Elapse, NoReply
    <2>4. ASSUME NEW r \in Request, Machine(r) \/ Support(r) PROVE Stored
      BY <2>4, ServedMachine, ServedSupport
    <2>5. Stored
      BY <2>1, <2>2, <2>3, <2>4 DEF Next
    <2>6. /\ Milli(ent.updated) \in Int /\ Milli(lic.updated) \in Int
          /\ lic.env \in Envelope
      BY <2>5, LicensingAssumption
         DEF LicensingAssumption, Milli, TypeOK, EntitlementRow, LicenseRow, Instant, Stored
    <2>7. ent.updated # lic.updated
      <3>1. SUFFICES ASSUME ent.updated = lic.updated PROVE lic.env = EnvelopeOf(ent)
        BY <2>5 DEF Stored
      <3>2. QED
        BY <2>5, <2>6, <3>1 DEF Shown, Stored, Envelope, EnvelopeOf
    <2>8. QED
      BY <2>5, <2>6, <2>7 DEF Stored
  <1>2. QED
    BY <1>1, Typing, Serialised, Dating, PTL DEF Spec, ServedUnlessBackdated

-----------------------------------------------------------------------------
(* Sums.  Induction on a finite set takes a smallest counterexample.        *)

Total(g, S) == MapThenSumSet(LAMBDA t : g[t], S)

Pick(s) == CHOOSE x \in s : TRUE

\* f is the function that sums g over each subset of S.
Totals(f, g, S) ==
  f = [s \in SUBSET S |-> IF s = {} THEN 0 ELSE g[Pick(s)] + f[s \ {Pick(s)}]]

LEMMA PickIn ==
  ASSUME NEW s, s # {}
  PROVE  Pick(s) \in s
  BY DEF Pick

LEMMA SmallestSet ==
  ASSUME NEW S, IsFiniteSet(S), NEW T, T \subseteq SUBSET S, T # {}
  PROVE  \E x \in T : \A y \in T : ~(y \subseteq x /\ y # x)
  <1>1. T \subseteq FiniteSubsetsOf(S)
    BY FS_Subset DEF FiniteSubsetsOf
  <1>2. PICK x \in T : \A y \in T : <<y, x>> \notin StrictSubsetOrdering(S)
    BY <1>1, FS_StrictSubsetOrderingWellFounded, WFMin
  <1>3. QED
    BY <1>2 DEF StrictSubsetOrdering

LEMMA TotalsUnique ==
  ASSUME NEW S, IsFiniteSet(S), NEW g, NEW f, NEW h, NEW A \in SUBSET S, NEW B \in SUBSET S,
         Totals(f, g, A), Totals(h, g, B), NEW s \in SUBSET S, s \subseteq A, s \subseteq B
  PROVE  f[s] = h[s]
  <1> DEFINE bad == {t \in SUBSET S : t \subseteq A /\ t \subseteq B /\ f[t] # h[t]}
  <1> SUFFICES ASSUME bad # {} PROVE FALSE
    OBVIOUS
  <1>1. PICK t \in bad : \A u \in bad : ~(u \subseteq t /\ u # t)
    <2>1. bad \subseteq SUBSET S
      OBVIOUS
    <2> HIDE DEF bad
    <2>2. QED
      BY <2>1, SmallestSet
  <1>2. /\ f[t] = IF t = {} THEN 0 ELSE g[Pick(t)] + f[t \ {Pick(t)}]
        /\ h[t] = IF t = {} THEN 0 ELSE g[Pick(t)] + h[t \ {Pick(t)}]
    BY DEF Totals
  <1>3. t # {}
    BY <1>2
  <1>4. t \ {Pick(t)} \notin bad
    BY <1>1, <1>3, PickIn
  <1>5. f[t \ {Pick(t)}] = h[t \ {Pick(t)}]
    BY <1>4
  <1>6. QED
    BY <1>2, <1>3, <1>5

LEMMA TotalsExist ==
  ASSUME NEW S, IsFiniteSet(S), NEW g
  PROVE  \E f : Totals(f, g, S)
  <1> DEFINE bad == {t \in SUBSET S : ~ \E f : Totals(f, g, t)}
  <1> SUFFICES ASSUME bad # {} PROVE FALSE
    OBVIOUS
  <1>1. PICK t \in bad : \A u \in bad : ~(u \subseteq t /\ u # t)
    <2>1. bad \subseteq SUBSET S
      OBVIOUS
    <2> HIDE DEF bad
    <2>2. QED
      BY <2>1, SmallestSet
  <1> DEFINE sub(u) == CHOOSE f : Totals(f, g, u)
             F == [s \in SUBSET t |-> IF s = {} THEN 0 ELSE g[Pick(s)] + sub(s \ {Pick(s)})[s \ {Pick(s)}]]
  <1>2. ASSUME NEW u \in SUBSET t, u # t PROVE Totals(sub(u), g, u)
    BY <1>1, <1>2
  <1>3. ASSUME NEW u \in SUBSET t, u # t PROVE F[u] = sub(u)[u]
    <2>1. sub(u)[u] = IF u = {} THEN 0 ELSE g[Pick(u)] + sub(u)[u \ {Pick(u)}]
      <3>1. Totals(sub(u), g, u)
        BY <1>2, <1>3
      <3> HIDE DEF sub
      <3>2. QED
        BY <3>1 DEF Totals
    <2>2. F[u] = IF u = {} THEN 0 ELSE g[Pick(u)] + sub(u \ {Pick(u)})[u \ {Pick(u)}]
      OBVIOUS
    <2>3. CASE u = {}
      BY <2>1, <2>2, <2>3
    <2>4. CASE u # {}
      <3> DEFINE v == u \ {Pick(u)}
      <3>1. v \in SUBSET t /\ v # t /\ v \subseteq u
        BY <2>4, PickIn
      <3>2. Totals(sub(u), g, u) /\ Totals(sub(v), g, v)
        BY <1>2, <1>3, <3>1
      <3>3. u \in SUBSET S /\ v \in SUBSET S
        BY <3>1
      <3> HIDE DEF v, sub, F
      <3>4. sub(u)[v] = sub(v)[v]
        BY <3>1, <3>2, <3>3, TotalsUnique
      <3>5. QED
        BY <2>1, <2>2, <2>4, <3>4 DEF v
    <2>5. QED
      BY <2>3, <2>4
  <1>4. Totals(F, g, t)
    <2> SUFFICES ASSUME NEW s \in SUBSET t
                 PROVE  F[s] = IF s = {} THEN 0 ELSE g[Pick(s)] + F[s \ {Pick(s)}]
      <3>1. F = [s \in SUBSET t |-> F[s]]
        OBVIOUS
      <3> HIDE DEF F
      <3>2. QED
        BY <3>1 DEF Totals
    <2>1. CASE s = {}
      BY <2>1
    <2>2. CASE s # {}
      <3>1. s \ {Pick(s)} \in SUBSET t /\ s \ {Pick(s)} # t
        BY <2>2, PickIn
      <3>2. F[s \ {Pick(s)}] = sub(s \ {Pick(s)})[s \ {Pick(s)}]
        BY <1>3, <3>1
      <3>3. F[s] = g[Pick(s)] + sub(s \ {Pick(s)})[s \ {Pick(s)}]
        BY <2>2
      <3>4. QED
        BY <2>2, <3>2, <3>3
    <2>3. QED
      BY <2>1, <2>2
  <1>5. QED
    BY <1>4

LEMMA TotalIs ==
  ASSUME NEW S, IsFiniteSet(S), NEW g, NEW A \in SUBSET S, NEW f, Totals(f, g, S)
  PROVE  Total(g, A) = f[A]
  <1>1. Total(g, A) = (CHOOSE h : Totals(h, g, A))[A]
    BY DEF Total, MapThenSumSet, MapThenFoldSet, Totals, Pick
  <1>2. Totals(CHOOSE h : Totals(h, g, A), g, A)
    BY TotalsExist, FS_Subset
  <1>3. QED
    BY <1>1, <1>2, TotalsUnique

\* The sum over a set is the sum over the rest and what the element taken first adds.
LEMMA TotalStep ==
  ASSUME NEW S, IsFiniteSet(S), NEW g
  PROVE  Total(g, S) = IF S = {} THEN 0 ELSE g[Pick(S)] + Total(g, S \ {Pick(S)})
  <1>1. PICK f : Totals(f, g, S)
    BY TotalsExist
  <1>2. Total(g, S) = f[S] /\ Total(g, S \ {Pick(S)}) = f[S \ {Pick(S)}]
    BY <1>1, TotalIs
  <1>3. f[S] = IF S = {} THEN 0 ELSE g[Pick(S)] + f[S \ {Pick(S)}]
    BY <1>1 DEF Totals
  <1>4. QED
    BY <1>2, <1>3

LEMMA TotalType ==
  ASSUME NEW S, IsFiniteSet(S), NEW g, \A x \in S : g[x] \in Nat
  PROVE  Total(g, S) \in Nat
  <1> DEFINE bad == {t \in SUBSET S : Total(g, t) \notin Nat}
  <1> SUFFICES ASSUME bad # {} PROVE FALSE
    OBVIOUS
  <1>1. PICK t \in bad : \A u \in bad : ~(u \subseteq t /\ u # t)
    <2>1. bad \subseteq SUBSET S
      OBVIOUS
    <2> HIDE DEF bad
    <2>2. QED
      BY <2>1, SmallestSet
  <1>2. Total(g, t) = IF t = {} THEN 0 ELSE g[Pick(t)] + Total(g, t \ {Pick(t)})
    BY TotalStep, FS_Subset
  <1>3. t # {}
    BY <1>2
  <1>4. t \ {Pick(t)} \notin bad /\ g[Pick(t)] \in Nat
    BY <1>1, <1>3, PickIn
  <1>5. QED
    BY <1>2, <1>3, <1>4

\* A larger function has the larger sum.
LEMMA TotalGrows ==
  ASSUME NEW S, IsFiniteSet(S), NEW g, NEW h,
         \A x \in S : g[x] \in Nat /\ h[x] \in Nat /\ g[x] <= h[x]
  PROVE  Total(g, S) <= Total(h, S)
  <1> DEFINE bad == {t \in SUBSET S : ~(Total(g, t) <= Total(h, t))}
  <1> SUFFICES ASSUME bad # {} PROVE FALSE
    OBVIOUS
  <1>1. PICK t \in bad : \A u \in bad : ~(u \subseteq t /\ u # t)
    <2>1. bad \subseteq SUBSET S
      OBVIOUS
    <2> HIDE DEF bad
    <2>2. QED
      BY <2>1, SmallestSet
  <1> DEFINE v == t \ {Pick(t)}
  <1>2. /\ Total(g, t) = IF t = {} THEN 0 ELSE g[Pick(t)] + Total(g, v)
        /\ Total(h, t) = IF t = {} THEN 0 ELSE h[Pick(t)] + Total(h, v)
    BY TotalStep, FS_Subset
  <1>3. t # {}
    BY <1>2
  <1>4. v \notin bad /\ v \in SUBSET S /\ Pick(t) \in S
    BY <1>1, <1>3, PickIn
  <1>5. Total(g, v) \in Nat /\ Total(h, v) \in Nat
    BY <1>4, TotalType, FS_Subset
  <1>6. Total(g, v) <= Total(h, v)
    BY <1>4
  <1> HIDE DEF v
  <1>7. QED
    BY <1>2, <1>3, <1>4, <1>5, <1>6

\* A larger set has the larger sum.
LEMMA TotalOfPart ==
  ASSUME NEW S, IsFiniteSet(S), NEW g, \A x \in S : g[x] \in Nat, NEW A \in SUBSET S
  PROVE  Total(g, A) <= Total(g, S)
  <1>1. ASSUME NEW t \in SUBSET S, NEW x \in t
        PROVE  Total(g, t) = g[x] + Total(g, t \ {x})
    <2> DEFINE bad == {u \in SUBSET S : \E y \in u : Total(g, u) # g[y] + Total(g, u \ {y})}
    <2> SUFFICES ASSUME bad # {} PROVE FALSE
      BY <1>1
    <2>1. PICK u \in bad : \A w \in bad : ~(w \subseteq u /\ w # u)
      <3>1. bad \subseteq SUBSET S
        OBVIOUS
      <3> HIDE DEF bad
      <3>2. QED
        BY <3>1, SmallestSet
    <2>2. PICK y \in u : Total(g, u) # g[y] + Total(g, u \ {y})
      OBVIOUS
    <2> DEFINE p == Pick(u)
    <2>3. p \in u
      BY PickIn
    <2>4. Total(g, u) = g[p] + Total(g, u \ {p})
      BY TotalStep, FS_Subset
    <2>5. p # y
      BY <2>2, <2>4
    <2>6. u \ {p} \notin bad /\ u \ {y} \notin bad /\ y \in u \ {p} /\ p \in u \ {y}
      BY <2>1, <2>3, <2>5
    <2>7. /\ Total(g, u \ {p}) = g[y] + Total(g, (u \ {p}) \ {y})
          /\ Total(g, u \ {y}) = g[p] + Total(g, (u \ {y}) \ {p})
      BY <2>6
    <2>8. (u \ {p}) \ {y} = (u \ {y}) \ {p}
      OBVIOUS
    <2>9. g[p] \in Nat /\ g[y] \in Nat /\ Total(g, (u \ {p}) \ {y}) \in Nat
      <3>1. (u \ {p}) \ {y} \in SUBSET S
        OBVIOUS
      <3>2. QED
        BY <2>3, <3>1, TotalType, FS_Subset
    <2> HIDE DEF p
    <2>10. Total(g, u) = g[y] + Total(g, u \ {y})
      <3> DEFINE rest == Total(g, (u \ {p}) \ {y})
      <3>1. Total(g, u) = g[p] + (g[y] + rest) /\ Total(g, u \ {y}) = g[p] + rest
        BY <2>4, <2>7, <2>8
      <3>2. g[p] \in Nat /\ g[y] \in Nat /\ rest \in Nat
        BY <2>9
      <3> HIDE DEF rest
      <3>3. QED
        BY <3>1, <3>2
    <2>11. QED
      BY <2>2, <2>10
  <1> DEFINE bad == {t \in SUBSET S : A \subseteq t /\ ~(Total(g, A) <= Total(g, t))}
  <1> SUFFICES ASSUME bad # {} PROVE FALSE
    OBVIOUS
  <1>2. PICK t \in bad : \A u \in bad : ~(u \subseteq t /\ u # t)
    <2>1. bad \subseteq SUBSET S
      OBVIOUS
    <2> HIDE DEF bad
    <2>2. QED
      BY <2>1, SmallestSet
  <1>3. Total(g, A) \in Nat
    BY TotalType, FS_Subset
  <1>4. PICK x \in t : x \notin A
    <2>1. A \subseteq t /\ ~(Total(g, A) <= Total(g, t))
      BY <1>2
    <2>2. t # A
      BY <1>3, <2>1
    <2>3. QED
      BY <2>1, <2>2
  <1>5. t \ {x} \notin bad /\ t \ {x} \in SUBSET S /\ A \subseteq t \ {x}
    BY <1>2, <1>4
  <1>6. Total(g, A) <= Total(g, t \ {x}) /\ Total(g, t \ {x}) \in Nat
    BY <1>5, TotalType, FS_Subset
  <1>7. Total(g, t) = g[x] + Total(g, t \ {x}) /\ g[x] \in Nat
    BY <1>1
  <1>8. QED
    BY <1>3, <1>6, <1>7

\* A finite set of numbers that is not empty has a largest.
LEMMA MaxOf ==
  ASSUME NEW S, IsFiniteSet(S), S # {}, \A x \in S : x \in Nat
  PROVE  Max(S) \in S /\ \A y \in S : y <= Max(S)
  <1>1. \E x \in S : \A y \in S : x >= y
    <2> DEFINE bad == {t \in SUBSET S : t # {} /\ ~ \E x \in t : \A y \in t : x >= y}
    <2> SUFFICES ASSUME bad # {} PROVE FALSE
      OBVIOUS
    <2>1. PICK t \in bad : \A u \in bad : ~(u \subseteq t /\ u # t)
      <3>1. bad \subseteq SUBSET S
        OBVIOUS
      <3> HIDE DEF bad
      <3>2. QED
        BY <3>1, SmallestSet
    <2>2. PICK x \in t : TRUE
      OBVIOUS
    <2>3. CASE t \ {x} = {}
      BY <2>3
    <2>4. CASE t \ {x} # {}
      <3>1. t \ {x} \notin bad /\ t \ {x} \in SUBSET S
        BY <2>1
      <3>2. PICK m \in t \ {x} : \A y \in t \ {x} : m >= y
        BY <2>4, <3>1
      <3>3. (\A y \in t : m >= y) \/ (\A y \in t : x >= y)
        BY <3>2
      <3>4. QED
        BY <3>3
    <2>5. QED
      BY <2>3, <2>4
  <1>2. QED
    BY <1>1 DEF Max

-----------------------------------------------------------------------------
(* The budget of transfers.                                                 *)

\* The transfers of a window.
Moving(t) ==
  {a \in IssuedActs : acts[a].transfer /\ acts[a].at <= t /\ acts[a].at + Window > t}

Bounded ==
  \A t \in Instant : Cardinality(Moving(t)) <= Max(AllowanceChoice) + Total(grants, Instant)

LEMMA BudgetIs == TransferBudget <=> Bounded
  <1>1. MapThenSumSet(LAMBDA u : grants[u], Instant) = Total(grants, Instant)
    BY DEF Total
  <1>2. QED
    BY <1>1 DEF TransferBudget, Bounded, Moving

\* Without a reset every transfer counts from its transaction on, and a transaction
\* counts the transfers of a window that begins no later than it does.
BudgetInv ==
  /\ ent.allowance \in AllowanceChoice /\ ent.resetAt = 0
  /\ \A a \in IssuedActs : acts[a].transfer => acts[a].at > 0
  /\ \A q \in Request :
       /\ Standing(q) = "keyed" => tx[q].now <= clock
       /\ Open(q) => tx[q].call.op # "reset" /\ tx[q].now <= tx[q].ts /\ tx[q].ts > 0

LEMMA FiniteInstants == IsFiniteSet(Instant) /\ Instant \subseteq Nat
  BY LicensingAssumption, FS_Interval DEF LicensingAssumption, Instant

LEMMA FiniteMoving ==
  ASSUME NEW t
  PROVE  IsFiniteSet(Moving(t)) /\ Cardinality(Moving(t)) \in Nat
  <1>1. Moving(t) \in SUBSET Activation
    BY DEF Moving, IssuedActs
  <1>2. IsFiniteSet(Moving(t))
    BY <1>1, LicensingAssumption, FS_Subset DEF LicensingAssumption
  <1>3. QED
    BY <1>2, FS_CardinalityType

LEMMA LargestAllowance ==
  ASSUME TypeOK, ent.allowance \in AllowanceChoice
  PROVE  Max(AllowanceChoice) \in Nat /\ ent.allowance <= Max(AllowanceChoice)
  BY LicensingAssumption, MaxOf DEF LicensingAssumption

\* What is granted only grows.
LEMMA GrantsGrow ==
  ASSUME TypeOK, [Next]_vars
  PROVE  \A t \in Instant : grants[t] <= grants'[t]
  <1>1. \A t \in Instant : grants[t] \in Nat
    BY DEF TypeOK
  <1>2. CASE grants' = grants
    BY <1>1, <1>2
  <1>3. ASSUME NEW r \in Request, GrantTransfers(r) PROVE \A t \in Instant : grants[t] <= grants'[t]
    <2>1. tx[r].call.amount \in Nat
      BY <1>3, StageType, CallType DEF GrantTransfers, Holds, Locked
    <2>2. grants' = [grants EXCEPT ![tx[r].ts] = grants[tx[r].ts] + tx[r].call.amount]
      BY <1>3 DEF GrantTransfers
    <2>3. QED
      BY <1>1, <2>1, <2>2 DEF TypeOK
  <1>4. ASSUME NEW r \in Request, Support(r), ~GrantTransfers(r) PROVE grants' = grants
    BY <1>4 DEF Support, Release, Amend, Reissue, Revoke, Unrevoke, Extend,
       ResetTransfers, Rotate, Rotating, Download, Refuse, Rows
  <1>5. ASSUME NEW r \in Request, Start(r) \/ Locking(r) \/ Machine(r) \/ Abort(r) PROVE grants' = grants
    BY <1>5 DEF Start, LookUpKey, BeginActivate, Begin, Locking, Acquire, RowGone, Abort,
       Machine, RefuseActivate, Provision, Reactivate, CountSeats, TakeSeat, Renew, Deactivate,
       Refuse, Rows
  <1>6. CASE ChangeUsable \/ Elapse \/ UNCHANGED vars \/ \E v \in Viewer : Reveal(v)
    BY <1>2, <1>6, RevealFrame DEF ChangeUsable, Elapse, Rows, vars
  <1>7. QED
    BY <1>2, <1>3, <1>4, <1>5, <1>6 DEF Next

\* A window gains a transfer by a seat that is taken, and by nothing else.
LEMMA MovingElse ==
  ASSUME TypeOK, LockInv, ReleaseInv, Next, \A r \in Request : ~TakeSeat(r)
  PROVE  /\ \A t \in Instant : Moving(t)' = Moving(t)
         /\ \A a \in IssuedActs' :
              a \in IssuedActs /\ acts'[a].transfer = acts[a].transfer /\ acts'[a].at = acts[a].at
  <1>1. \A a \in Activation : /\ acts'[a].status # "unused" <=> acts[a].status # "unused"
                              /\ acts'[a].transfer = acts[a].transfer
                              /\ acts'[a].at = acts[a].at
    <2>1. CASE acts' = acts
      BY <2>1
    <2>2. CASE Rearmed
      BY <2>2 DEF Rearmed, ActiveActs, TypeOK, ActivationRow
    <2>3. CASE Freed
      BY <2>3 DEF Freed, IssuedActs, TypeOK, ActivationRow
    <2>4. QED
      BY <2>1, <2>2, <2>3, ActsElse
  <1>2. QED
    BY <1>1 DEF Moving, IssuedActs

LEMMA UsedType ==
  ASSUME NEW now
  PROVE  TransfersUsed(now) \in Nat
  <1> DEFINE used == {a \in IssuedActs : acts[a].transfer /\ Counted(acts[a].at, now)}
  <1>1. used \in SUBSET Activation
    BY DEF IssuedActs
  <1>2. IsFiniteSet(used)
    BY <1>1, LicensingAssumption, FS_Subset DEF LicensingAssumption
  <1>3. QED
    BY <1>2, FS_CardinalityType DEF TransfersUsed

\* transferStatus(): who may move a device has found fewer transfers than are allowed.
LEMMA LeftMeans ==
  ASSUME TypeOK, BudgetInv, NEW now \in Instant, TransfersLeft(now) > 0
  PROVE  TransfersUsed(now) < Max(AllowanceChoice) + Total(grants, Instant)
  <1> DEFINE window == {t \in Instant : Counted(t, now)}
  <1>1. TransfersGranted(now) = Total(grants, window)
    BY DEF TransfersGranted, Total
  <1>2. window \in SUBSET Instant /\ \A t \in Instant : grants[t] \in Nat
    BY DEF TypeOK
  <1> HIDE DEF window
  <1>3. Total(grants, window) <= Total(grants, Instant)
    BY <1>2, FiniteInstants, TotalOfPart
  <1>4. Total(grants, window) \in Nat /\ Total(grants, Instant) \in Nat
    BY <1>2, FiniteInstants, TotalType, FS_Subset
  <1>5. TransfersUsed(now) \in Nat
    BY UsedType
  <1>6. ent.allowance \in Nat /\ ent.allowance <= Max(AllowanceChoice) /\ Max(AllowanceChoice) \in Nat
    BY LargestAllowance DEF BudgetInv, TypeOK, EntitlementRow
  <1>7. TransfersUsed(now) - Total(grants, window) < ent.allowance
    <2> DEFINE net == TransfersUsed(now) - Total(grants, window)
    <2>1. TransfersLeft(now) = LET left == ent.allowance - (IF net > 0 THEN net ELSE 0)
                               IN  IF left > 0 THEN left ELSE 0
      BY <1>1 DEF TransfersLeft
    <2>2. net \in Int
      BY <1>4, <1>5
    <2> HIDE DEF net
    <2>3. net < ent.allowance
      BY <1>6, <2>1, <2>2
    <2>4. QED
      BY <2>3 DEF net
  <1>8. QED
    BY <1>3, <1>4, <1>5, <1>6, <1>7

LEMMA TakenBudget ==
  ASSUME TypeOK, LockInv, BudgetInv, Bounded, NEW r \in Request, TakeSeat(r)
  PROVE  /\ \A t \in Instant :
              Cardinality(Moving(t)') <= Max(AllowanceChoice) + Total(grants, Instant)
         /\ \A a \in IssuedActs' : acts'[a].transfer => acts'[a].at > 0
  <1>1. Standing(r) = "counted" /\ tx[r] \in Tallied /\ Open(r)
    BY StageType DEF TakeSeat, Open
  <1>2. CASE SeatRefusal(r) # "ok"
    <2>1. acts' = acts
      BY <1>2 DEF TakeSeat, Refuse, Rows
    <2>2. IssuedActs' = IssuedActs /\ \A t : Moving(t)' = Moving(t)
      BY <2>1 DEF Moving, IssuedActs
    <2>3. QED
      BY <2>1, <2>2 DEF Bounded, BudgetInv
  <1>3. CASE SeatRefusal(r) = "ok"
    <2>1. PICK a \in Activation \ IssuedActs :
            acts' = [acts EXCEPT ![a] =
                       [status |-> "active", device |-> tx[r].call.device,
                        secret |-> tx[r].call.secret, transfer |-> IsTransfer(r),
                        at |-> tx[r].ts]]
      BY <1>3 DEF TakeSeat
    <2>2. /\ tx[r].ts \in Instant /\ tx[r].now \in Instant /\ tx[r].now <= tx[r].ts /\ tx[r].ts > 0
      BY <1>1 DEF BudgetInv, Tallied
    <2>3. /\ acts'[a].status = "active" /\ acts'[a].transfer = IsTransfer(r) /\ acts'[a].at = tx[r].ts
          /\ \A b \in Activation : b # a => acts'[b] = acts[b]
      BY <2>1 DEF TypeOK
    <2>4. IssuedActs' = IssuedActs \cup {a} /\ a \notin IssuedActs
      BY <2>1, <2>3 DEF IssuedActs
    <2>5. \A b \in IssuedActs' : acts'[b].transfer => acts'[b].at > 0
      BY <2>2, <2>3, <2>4 DEF BudgetInv, IssuedActs
    <2>6. ASSUME NEW t \in Instant
          PROVE  Cardinality(Moving(t)') <= Max(AllowanceChoice) + Total(grants, Instant)
      <3>1. CASE ~(IsTransfer(r) /\ tx[r].ts <= t /\ tx[r].ts + Window > t)
        <4>1. Moving(t)' = Moving(t)
          BY <2>3, <2>4, <3>1 DEF Moving, IssuedActs
        <4>2. QED
          BY <4>1 DEF Bounded
      <3>2. CASE IsTransfer(r) /\ tx[r].ts <= t /\ tx[r].ts + Window > t
        <4>1. Moving(t)' = Moving(t) \cup {a} /\ a \notin Moving(t)
          BY <2>3, <2>4, <3>2 DEF Moving, IssuedActs
        <4>2. Cardinality(Moving(t)') = Cardinality(Moving(t)) + 1
          BY <4>1, FiniteMoving, FS_AddElement
        <4>3. Cardinality(Moving(t)) <= TransfersUsed(tx[r].now)
          <5> DEFINE used == {b \in IssuedActs : acts[b].transfer /\ Counted(acts[b].at, tx[r].now)}
          <5>1. used \in SUBSET Activation
            BY DEF IssuedActs
          <5>2. IsFiniteSet(used)
            BY <5>1, LicensingAssumption, FS_Subset DEF LicensingAssumption
          <5>3. Moving(t) \in SUBSET used
            <6> SUFFICES ASSUME NEW b \in Moving(t) PROVE b \in used
              OBVIOUS
            <6>1. b \in IssuedActs /\ acts[b].transfer /\ acts[b].at + Window > t /\ acts[b].at > 0
              BY DEF Moving, BudgetInv
            <6>2. acts[b].at \in Nat /\ t \in Nat /\ tx[r].now \in Nat /\ tx[r].ts \in Nat /\ Window \in Nat
              BY <2>2, <6>1, LicensingAssumption
              DEF LicensingAssumption, TypeOK, ActivationRow, IssuedActs, Instant
            <6>3. acts[b].at + Window > tx[r].now
              BY <2>2, <3>2, <6>1, <6>2
            <6>4. QED
              BY <6>1, <6>3 DEF Counted, BudgetInv
          <5>4. QED
            BY <5>2, <5>3, FS_Subset DEF TransfersUsed
        <4>4. TransfersLeft(tx[r].now) > 0
          <5>1. ~(TransfersLeft(tx[r].now) <= 0)
            BY <1>3, <3>2 DEF SeatRefusal
          <5>2. TransfersLeft(tx[r].now) = 0 \/ TransfersLeft(tx[r].now) > 0
            BY DEF TransfersLeft
          <5>3. QED
            BY <5>1, <5>2
        <4>5. TransfersUsed(tx[r].now) < Max(AllowanceChoice) + Total(grants, Instant)
          BY <2>2, <4>4, LeftMeans
        <4>6. Max(AllowanceChoice) \in Nat /\ Total(grants, Instant) \in Nat
          BY LargestAllowance, FiniteInstants, TotalType DEF BudgetInv, TypeOK
        <4> DEFINE limit == Max(AllowanceChoice) + Total(grants, Instant)
        <4>7. limit \in Nat
          BY <4>6
        <4> HIDE DEF limit
        <4>8. Cardinality(Moving(t)) + 1 <= limit
          BY <4>3, <4>5, <4>7, UsedType, FiniteMoving DEF limit
        <4>9. QED
          BY <4>2, <4>8 DEF limit
      <3>3. QED
        BY <3>1, <3>2
    <2>7. QED
      BY <2>5, <2>6
  <1>4. QED
    BY <1>2, <1>3

LEMMA BudgetStep ==
  ASSUME TypeOK, TypeOK', LockInv, ReleaseInv, BudgetInv, Bounded, [Next]_vars, "reset" \notin Operation
  PROVE  BudgetInv' /\ Bounded'
  <1>1. /\ \A t \in Instant :
             Cardinality(Moving(t)') <= Max(AllowanceChoice) + Total(grants, Instant)
        /\ \A a \in IssuedActs' : acts'[a].transfer => acts'[a].at > 0
    <2>1. CASE \E r \in Request : TakeSeat(r)
      BY <2>1, TakenBudget
    <2>2. CASE Next /\ \A r \in Request : ~TakeSeat(r)
      <3>1. \A t \in Instant : Moving(t)' = Moving(t)
        BY <2>2, MovingElse
      <3>2. \A a \in IssuedActs' :
              a \in IssuedActs /\ acts'[a].transfer = acts[a].transfer /\ acts'[a].at = acts[a].at
        BY <2>2, MovingElse
      <3>3. QED
        BY <3>1, <3>2 DEF Bounded, BudgetInv
    <2>3. CASE UNCHANGED vars
      <3>1. IssuedActs' = IssuedActs /\ acts' = acts /\ \A t : Moving(t)' = Moving(t)
        BY <2>3 DEF Moving, IssuedActs, vars
      <3>2. QED
        BY <3>1 DEF Bounded, BudgetInv
    <2>4. QED
      BY <2>1, <2>2, <2>3
  <1>2. Bounded'
    <2>1. Max(AllowanceChoice) \in Nat
      BY LargestAllowance DEF BudgetInv
    <2>2. \A t \in Instant : grants[t] \in Nat /\ grants'[t] \in Nat
      BY DEF TypeOK
    <2>3. Total(grants, Instant) \in Nat /\ Total(grants', Instant) \in Nat
      BY <2>2, FiniteInstants, TotalType
    <2>4. Total(grants, Instant) <= Total(grants', Instant)
      BY <2>2, GrantsGrow, FiniteInstants, TotalGrows
    <2>5. SUFFICES ASSUME NEW t \in Instant
                   PROVE  Cardinality(Moving(t)') <= Max(AllowanceChoice) + Total(grants', Instant)
      BY DEF Bounded
    <2>6. Cardinality(Moving(t)') \in Nat
      <3>1. Moving(t)' \in SUBSET Activation
        BY DEF Moving, IssuedActs
      <3>2. IsFiniteSet(Moving(t)')
        BY <3>1, LicensingAssumption, FS_Subset DEF LicensingAssumption
      <3>3. QED
        BY <3>2, FS_CardinalityType
    <2>7. Cardinality(Moving(t)') <= Max(AllowanceChoice) + Total(grants, Instant)
      BY <1>1
    <2>8. QED
      BY <2>1, <2>3, <2>4, <2>6, <2>7
  <1>3. ent'.allowance \in AllowanceChoice /\ ent'.resetAt = 0
    <2>1. ASSUME NEW r \in Request, Amend(r) PROVE ent'.allowance \in AllowanceChoice /\ ent'.resetAt = 0
      <3>1. tx[r].call.allowance \in AllowanceChoice
        BY <2>1, StageType, CallType DEF Amend, Holds, Locked
      <3>2. QED
        BY <2>1, <3>1 DEF Amend, Refuse, Rows, Touched, BudgetInv, TypeOK, EntitlementRow
    <2>2. ASSUME NEW r \in Request, Reissue(r) \/ Revoke(r) \/ Unrevoke(r) \/ Extend(r)
          PROVE  ent'.allowance = ent.allowance /\ ent'.resetAt = ent.resetAt
      <3>1. Ctx(r).ent = ent /\ ent \in EntitlementRow
        BY <2>2, HeldContext DEF Reissue, Revoke, Unrevoke, Extend, Holds
      <3>2. CASE Reissue(r)
        <4> DEFINE e == [ent EXCEPT !.name = tx[r].call.name]
        <4>1. ent' = ent \/ ent' = Touched(r, e)
          BY <3>1, <3>2 DEF Reissue, Refuse, Rows
        <4>2. Touched(r, e).allowance = ent.allowance /\ Touched(r, e).resetAt = ent.resetAt
          BY <3>1 DEF Touched, EntitlementRow
        <4>3. QED
          BY <4>1, <4>2
      <3>3. CASE Revoke(r) \/ Unrevoke(r) \/ Extend(r)
        BY <3>1, <3>3 DEF Revoke, Unrevoke, Extend, Refuse, Rows, Touched, EntitlementRow
      <3>4. QED
        BY <2>2, <3>2, <3>3
    <2>3. ASSUME NEW r \in Request, ResetTransfers(r) PROVE FALSE
      BY <2>3 DEF ResetTransfers, Holds, BudgetInv, Open, Standing
    <2>4. ASSUME NEW r \in Request,
                 \/ Start(r) \/ Locking(r) \/ Machine(r) \/ Abort(r)
                 \/ Release(r) \/ GrantTransfers(r) \/ Rotate(r) \/ Download(r)
          PROVE  ent' = ent
      BY <2>4, WrittenMachine DEF Start, LookUpKey, BeginActivate, Begin, Locking, Acquire, RowGone,
         Abort, Release, GrantTransfers, Rotate, Rotating, Download, Refuse, Rows
    <2>5. CASE ChangeUsable \/ Elapse \/ UNCHANGED vars \/ \E v \in Viewer : Reveal(v)
      BY <2>5, RevealFrame DEF ChangeUsable, Elapse, Rows, vars, BudgetInv
    <2>6. QED
      BY <2>1, <2>2, <2>3, <2>4, <2>5 DEF Next, Support, BudgetInv
  <1>4. ASSUME NEW q \in Request
        PROVE  /\ Standing(q)' = "keyed" => tx'[q].now <= clock'
               /\ Open(q)' => tx'[q].call.op # "reset" /\ tx'[q].now <= tx'[q].ts /\ tx'[q].ts > 0
    <2>0. clock \in Nat /\ (clock' = clock \/ clock' = clock + 1)
      <3>1. ASSUME NEW r \in Request, Machine(r) \/ Support(r) PROVE clock' = clock
        BY <3>1, HandledTx
      <3>2. ASSUME NEW r \in Request, Start(r) \/ Locking(r) \/ Abort(r)
            PROVE  clock' = clock \/ clock' = clock + 1
        BY <3>2 DEF Start, LookUpKey, BeginActivate, Begin, Locking, Acquire, RowGone, Abort,
           Refuse, Close
      <3>3. CASE ChangeUsable \/ Elapse \/ UNCHANGED vars \/ \E v \in Viewer : Reveal(v)
        BY <3>3, RevealFrame DEF ChangeUsable, Elapse, vars, TypeOK, Instant
      <3>4. QED
        BY <3>1, <3>2, <3>3 DEF Next, TypeOK, Instant
    <2>1. CASE tx'[q] = tx[q]
      <3>1. Standing(q) = "keyed" => tx[q].now \in Nat
        BY StageType DEF Keyed, Instant
      <3>2. QED
        BY <2>0, <2>1, <3>1 DEF BudgetInv, Open, Standing
    <2>2. CASE LookUpKey(q)
      BY <2>0, <2>2 DEF LookUpKey, TypeOK, Standing, Open
    <2>3. CASE BeginActivate(q)
      <3>1. tx[q].now \in Nat /\ tx[q].now <= clock /\ tx[q].call.op = "activate"
        BY <2>3, StageType DEF BeginActivate, Keyed, Instant, BudgetInv, ActivateCall
      <3>2. tx'[q].now = tx[q].now /\ tx'[q].ts = clock + 1 /\ tx'[q].call = tx[q].call
            /\ tx'[q].pc = "waiting"
        BY <2>3 DEF BeginActivate, Waiting, TypeOK
      <3>3. QED
        BY <2>0, <3>1, <3>2 DEF Standing
    <2>4. CASE Begin(q)
      <3>1. PICK c \in Call : Acceptable(c) /\ tx' = [tx EXCEPT ![q] = Waiting(c, clock + 1)]
        BY <2>4 DEF Begin
      <3>2. c.op # "reset"
        BY <3>1 DEF Acceptable
      <3>3. QED
        BY <2>0, <3>1, <3>2 DEF Waiting, TypeOK, Standing
    <2>5. CASE Acquire(q)
      BY <2>5 DEF Acquire, TypeOK, Standing, Open, BudgetInv
    <2>6. CASE CountSeats(q)
      BY <2>6 DEF CountSeats, TypeOK, Standing, Open, BudgetInv, Holds
    <2>7. CASE tx'[q] = Idle
      BY <2>7 DEF Standing, Open, Idle
    <2>8. ASSUME NEW r \in Request, Machine(r) \/ Support(r)
          PROVE  tx'[q] = tx[q] \/ CountSeats(q) \/ tx'[q] = Idle
      <3>1. CASE CountSeats(r)
        BY <3>1 DEF CountSeats, TypeOK
      <3>2. CASE ~CountSeats(r)
        <4>1. PICK answer : Close(r, answer)
          BY <2>8, <3>2 DEF Machine, RefuseActivate, Provision, Reactivate, TakeSeat, Renew,
             Deactivate, Support, Release, Amend, Reissue, Revoke, Unrevoke, Extend,
             GrantTransfers, ResetTransfers, Rotate, Rotating, Download, Refuse
        <4>2. QED
          BY <4>1 DEF Close, TypeOK
      <3>3. QED
        BY <3>1, <3>2
    <2>9. ASSUME NEW r \in Request, RowGone(r) \/ Abort(r) PROVE tx'[q] = tx[q] \/ tx'[q] = Idle
      BY <2>9 DEF RowGone, Abort, Refuse, Close, TypeOK
    <2>10. ASSUME NEW r \in Request, r # q, Start(r) \/ Acquire(r) PROVE tx'[q] = tx[q]
      BY <2>10 DEF Start, LookUpKey, BeginActivate, Begin, Acquire, TypeOK
    <2>11. CASE ChangeUsable \/ Elapse \/ UNCHANGED vars \/ \E v \in Viewer : Reveal(v)
      BY <2>1, <2>11, RevealFrame DEF ChangeUsable, Elapse, vars
    <2>12. QED
      BY <2>1, <2>2, <2>3, <2>4, <2>5, <2>6, <2>7, <2>8, <2>9, <2>10, <2>11 DEF Next, Start, Locking
  <1>5. QED
    BY <1>1, <1>2, <1>3, <1>4 DEF BudgetInv

\* Releasing devices and activating others is bounded in every window of time: however the
\* requests overlap, no more moves than the largest allowance and what was granted, unless
\* support resets the count (transferStatus() and the checks of activate() under the lock).
THEOREM TransfersBounded == ASSUME "reset" \notin Operation PROVE Spec => []TransferBudget
  <1>1. Init => BudgetInv /\ Bounded
    <2> SUFFICES ASSUME Init PROVE BudgetInv /\ Bounded
      OBVIOUS
    <2>1. TypeOK
      BY InitType
    <2>2. IssuedActs = {} /\ \A t : Moving(t) = {}
      BY DEF Init, NoRow, IssuedActs, Moving
    <2>3. BudgetInv
      BY <2>2 DEF Init, BudgetInv, Open, Standing, Idle
    <2>4. Max(AllowanceChoice) \in Nat
      BY <2>1, <2>3, LargestAllowance DEF BudgetInv
    <2>5. Total(grants, Instant) \in Nat
      BY <2>1, FiniteInstants, TotalType DEF TypeOK
    <2>6. ASSUME NEW t \in Instant
          PROVE  Cardinality(Moving(t)) <= Max(AllowanceChoice) + Total(grants, Instant)
      <3>1. Cardinality(Moving(t)) = 0
        BY <2>2, FS_EmptySet
      <3>2. QED
        BY <2>4, <2>5, <3>1
    <2>7. QED
      BY <2>3, <2>6 DEF Bounded
  <1>2. TypeOK /\ TypeOK' /\ LockInv /\ SeatInv /\ BudgetInv /\ Bounded /\ [Next]_vars
          => BudgetInv' /\ Bounded'
    BY BudgetStep DEF SeatInv
  <1>3. QED
    BY <1>1, <1>2, Typing, Serialised, Seating, BudgetIs, PTL DEF Spec
===============================================================================
