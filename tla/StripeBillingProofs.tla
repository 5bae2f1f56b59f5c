------------------------ MODULE StripeBillingProofs ------------------------
(***************************************************************************)
(* Proofs about StripeBilling, for any number of workers, periods and      *)
(* amendments, and whether or not payments that failed are tried again.    *)
(*                                                                         *)
(* Two facts carry the proofs.  Whoever waits for the entitlement holds    *)
(* the row of the subscription, so that there is at most one (OneReader)   *)
(* and, until an amendment overtakes it, the policy snapshot it has is the *)
(* one in force (SeenInForce).  And the checkout is completed, the         *)
(* subscription has its row and the entitlement exists all at once         *)
(* (Together), so that an invoice is applied to an entitlement that exists.*)
(***************************************************************************)
EXTENDS StripeBilling, TLAPS

\* What Stripe can tell of an event's object.
Happened(e) ==
    \/ e = TheSession
    \/ e = TheSubscription /\ sub # NoSub
    \/ \E i \in Invoice : e = The(i) /\ bill[i] # "none"

\* A session that is complete has its subscription.
Subscribed == session \in {"unpaid", "paid"} => sub # NoSub

EventsHappened ==
    /\ \A e \in queued : Happened(e)
    /\ \A w \in Worker : worker[w] # Idle => Happened(worker[w].event)

PaidHasSub ==
    \A w \in Worker :
      Has(w, "fetched", "session") /\ worker[w].session = "paid" =>
        worker[w].got \in Subscription /\ sub # NoSub

RowHasSub == row # NoSub => sub # NoSub

StripeParts == Subscribed /\ EventsHappened /\ PaidHasSub /\ RowHasSub

Reading(w) == worker[w].pc = "reading"

OneReader == \A v, w \in Worker : Reading(v) /\ Reading(w) => v = w

Together ==
    /\ checkout = "completed" <=> ent # NoEnt
    /\ row # NoSub <=> ent # NoEnt

ReaderHasEnt == \A w \in Worker : Reading(w) => ent # NoEnt

SeenInForce == ~overtaken => \A w \in Worker : Reading(w) => worker[w].seen = ent.snapshot

AppliedHasEnt == \A i \in Invoice : invoice[i].applied => ent # NoEnt

RowParts ==
    /\ OneReader /\ Together /\ ReaderHasEnt /\ SeenInForce
    /\ AppliedHasEnt /\ AppliedExtends /\ SeatsFollow

Inv == TypeOK /\ StripeParts /\ RowParts

-----------------------------------------------------------------------------
(* Types                                                                    *)

\* The three kinds of events are apart, and an event is of one of them.
LEMMA EventKinds ==
    /\ TheSession \in Event /\ TheSubscription \in Event
    /\ \A i \in Invoice : The(i) \in Event
    /\ \A e \in Event : \/ e = TheSession \/ e = TheSubscription
                        \/ \E i \in Invoice : e = The(i)
    /\ TheSession[1] = "session" /\ TheSubscription[1] = "subscription"
    /\ \A i \in Invoice : The(i)[1] = "invoice" /\ The(i)[2] = i
    /\ TheSession # TheSubscription
    /\ \A i \in Invoice : The(i) # TheSession /\ The(i) # TheSubscription
  BY DEF Event, TheSession, TheSubscription, The

\* No handler is idle, and none has a pc of its own.
LEMMA HandlerKinds ==
    ASSUME NEW h \in Handler
    PROVE  /\ h # Idle /\ h.pc # "idle" /\ h.event \in Event
           /\ h.event = TheSession =>
                /\ h.pc \in {"fetched", "awaiting"}
                /\ h \in [pc : {"fetched", "awaiting"}, event : {TheSession}, session : Session,
                          got : Subscription \cup {NoSub}]
           /\ h.event = TheSubscription =>
                h.pc \in {"fetched", "reading"} /\ h.got \in SubscriptionRow
           /\ \A i \in Invoice : h.event = The(i) =>
                h.pc \in {"fetched", "unknown", "reading"} /\ h.got \in {"open", "paid"}
           /\ h.pc = "reading" => h.seen \in 0..MaxAmend
  BY EventKinds DEF Handler, Idle

\* What the row keeps of a subscription is of the row's type.
LEMMA RowType == \A s \in Subscription : RowOf(s) \in SubscriptionRow /\ RowOf(s) # NoSub
  BY DEF Subscription, SubscriptionRow, RowOf, NoSub

\* A row is a row or none, told apart by its status.
LEMMA NoneApart ==
    /\ \A s \in Subscription : s # NoSub /\ s.status # "none"
    /\ \A r \in SubscriptionRow : r # NoSub
    /\ \A x \in EntitlementRow : x # NoEnt
    /\ NoSub.status = "none" /\ NoEnt.status = "none"
  BY DEF Subscription, SubscriptionRow, EntitlementRow, NoSub, NoEnt

\* What a handler fetches is of its event's type.
LEMMA FetchedType ==
    ASSUME TypeOK, Subscribed, NEW e \in Event, Happened(e)
    PROVE  /\ Fetched(e) \in Handler /\ Fetched(e).event = e /\ Fetched(e).pc = "fetched"
           /\ e = TheSession /\ Fetched(e).session = "paid" =>
                Fetched(e).got \in Subscription /\ sub # NoSub
<1>1. CASE e = TheSession
  <2>1. Fetched(e) = [pc |-> "fetched", event |-> e, session |-> session,
                      got |-> IF session = "paid" THEN sub ELSE NoSub]
    BY <1>1, EventKinds DEF Fetched
  <2>2. session \in Session /\ sub \in Subscription \cup {NoSub}
    BY DEF TypeOK
  <2>3. session = "paid" => sub \in Subscription /\ sub # NoSub
    BY <2>2 DEF Subscribed
  <2> DEFINE got == IF session = "paid" THEN sub ELSE NoSub
  <2>4. got \in Subscription \cup {NoSub} /\ (session = "paid" => got \in Subscription)
    BY <2>2, <2>3
  <2>5. Fetched(e) = [pc |-> "fetched", event |-> TheSession, session |-> session, got |-> got]
    BY <1>1, <2>1
  <2> HIDE DEF got
  <2>6. Fetched(e) \in [pc : {"fetched", "awaiting"}, event : {TheSession},
                       session : Session, got : Subscription \cup {NoSub}]
    BY <2>2, <2>4, <2>5
  <2> QED BY <1>1, <2>3, <2>4, <2>5, <2>6 DEF Handler
<1>2. CASE e = TheSubscription
  <2>1. Fetched(e) = [pc |-> "fetched", event |-> e, got |-> RowOf(sub)]
    BY <1>2, EventKinds DEF Fetched
  <2>2. sub \in Subscription
    BY <1>2, EventKinds DEF Happened, TypeOK
  <2> QED BY <1>2, <2>1, <2>2, RowType, EventKinds DEF Handler
<1>3. CASE \E i \in Invoice : e = The(i)
  <2> PICK i \in Invoice : e = The(i) BY <1>3
  <2>1. Fetched(e) = [pc |-> "fetched", event |-> e, got |-> bill[i]]
    BY EventKinds DEF Fetched
  <2>2. bill[i] \in {"open", "paid"}
    <3>1. bill[i] # "none" BY EventKinds DEF Happened, The
    <3> QED BY <3>1 DEF TypeOK
  <2> QED BY <2>1, <2>2, EventKinds DEF Handler
<1> QED BY <1>1, <1>2, <1>3, EventKinds

\* A worker that takes up a handler, or ends one, leaves the workers' type.
LEMMA WorkerType ==
    ASSUME TypeOK, NEW w \in Worker, NEW h \in Handler \cup {Idle},
           worker' = [worker EXCEPT ![w] = h]
    PROVE  worker' \in [Worker -> Handler \cup {Idle}]
  BY DEF TypeOK

\* The handler of a worker by its event.
LEMMA WorkerKinds ==
    ASSUME TypeOK, NEW w \in Worker
    PROVE  /\ worker[w] = Idle \/ worker[w] \in Handler
           /\ \A pc, kind : Has(w, pc, kind) /\ pc # "idle" => worker[w] \in Handler
           /\ \A pc : Has(w, pc, "session") /\ pc # "idle" =>
                /\ worker[w].event = TheSession
                /\ worker[w] \in [pc : {"fetched", "awaiting"}, event : {TheSession},
                                  session : Session, got : Subscription \cup {NoSub}]
           /\ \A pc : Has(w, pc, "subscription") /\ pc # "idle" =>
                worker[w].event = TheSubscription /\ worker[w].got \in SubscriptionRow
           /\ \A pc : Has(w, pc, "invoice") /\ pc # "idle" =>
                /\ Number(w) \in Invoice /\ worker[w].event = The(Number(w))
                /\ worker[w].got \in {"open", "paid"}
           /\ Reading(w) => worker[w] \in Handler
<1>1. worker[w] = Idle \/ worker[w] \in Handler
  BY DEF TypeOK
<1>2. Idle.pc = "idle" BY DEF Idle
<1>3. worker[w].pc # "idle" => worker[w] \in Handler
  BY <1>1, <1>2
<1>4. ASSUME worker[w] \in Handler, worker[w].event[1] = "session"
      PROVE  worker[w].event = TheSession
  BY <1>4, HandlerKinds, EventKinds
<1>5. ASSUME worker[w] \in Handler, worker[w].event[1] = "subscription"
      PROVE  worker[w].event = TheSubscription
  BY <1>5, HandlerKinds, EventKinds
<1>6. ASSUME worker[w] \in Handler, worker[w].event[1] = "invoice"
      PROVE  Number(w) \in Invoice /\ worker[w].event = The(Number(w))
  BY <1>6, HandlerKinds, EventKinds DEF Number
<1>7. \A pc, kind : Has(w, pc, kind) /\ pc # "idle" =>
        worker[w] \in Handler /\ worker[w].event[1] = kind
  BY <1>3 DEF Has
<1>8. \A pc : Has(w, pc, "session") /\ pc # "idle" =>
        /\ worker[w].event = TheSession
        /\ worker[w] \in [pc : {"fetched", "awaiting"}, event : {TheSession},
                          session : Session, got : Subscription \cup {NoSub}]
  BY <1>4, <1>7, HandlerKinds
<1>9. \A pc : Has(w, pc, "subscription") /\ pc # "idle" =>
        worker[w].event = TheSubscription /\ worker[w].got \in SubscriptionRow
  BY <1>5, <1>7, HandlerKinds
<1>10. \A pc : Has(w, pc, "invoice") /\ pc # "idle" =>
        /\ Number(w) \in Invoice /\ worker[w].event = The(Number(w))
        /\ worker[w].got \in {"open", "paid"}
  BY <1>6, <1>7, HandlerKinds
<1>11. Reading(w) => worker[w] \in Handler
  BY <1>3 DEF Reading
<1> QED BY <1>1, <1>7, <1>8, <1>9, <1>10, <1>11

-----------------------------------------------------------------------------
(* Frames: what a step that leaves the rows alone keeps                     *)

\* Steps of Stripe, redeliveries and reconciliation see to no row and no worker.
LEMMA RowsKept ==
    ASSUME RowParts, UNCHANGED <<rows, worker, history>>
    PROVE  RowParts'
  BY DEF RowParts, rows, OneReader, Together, ReaderHasEnt, SeenInForce, AppliedHasEnt,
         AppliedExtends, SeatsFollow, Reading, history

\* Nor does a worker that takes up a handler, goes on with it without waiting for the
\* entitlement, or ends it, whatever it makes of a checkout that is not completed.
LEMMA RowsKeptBy ==
    ASSUME TypeOK, RowParts, NEW w \in Worker, NEW h,
           worker' = [worker EXCEPT ![w] = h], h.pc # "reading",
           checkout' = "completed" <=> checkout = "completed",
           UNCHANGED <<row, ent, invoice, history>>
    PROVE  RowParts'
<1>1. \A v \in Worker : Reading(v)' => Reading(v) /\ worker'[v] = worker[v]
  BY DEF TypeOK, Reading
<1>2. OneReader'
  BY <1>1 DEF RowParts, OneReader
<1>3. ReaderHasEnt' /\ SeenInForce'
  BY <1>1 DEF RowParts, ReaderHasEnt, SeenInForce, history
<1>4. Together' /\ AppliedHasEnt' /\ AppliedExtends' /\ SeatsFollow'
  BY DEF RowParts, Together, AppliedHasEnt, AppliedExtends, SeatsFollow, history
<1> QED BY <1>2, <1>3, <1>4 DEF RowParts

\* A worker begins to wait for the entitlement: nobody else does, and the snapshot it
\* has is the one in force.
LEMMA RowsKeptByReader ==
    ASSUME TypeOK, RowParts, NEW w \in Worker, NEW h,
           worker' = [worker EXCEPT ![w] = h], h.seen = ent.snapshot,
           SubscriptionFree, row # NoSub,
           UNCHANGED <<rows, history>>
    PROVE  RowParts'
<1>1. \A v \in Worker : Reading(v)' => v = w /\ worker'[v] = h
  BY DEF TypeOK, Reading, SubscriptionFree
<1>2. OneReader'
  BY <1>1 DEF OneReader
<1>3. ReaderHasEnt' /\ SeenInForce'
  BY <1>1 DEF RowParts, Together, ReaderHasEnt, SeenInForce, rows, history
<1>4. Together' /\ AppliedHasEnt' /\ AppliedExtends' /\ SeatsFollow'
  BY DEF RowParts, Together, AppliedHasEnt, AppliedExtends, SeatsFollow, rows, history
<1> QED BY <1>2, <1>3, <1>4 DEF RowParts

\* What Stripe has told of stays told while its state is kept, and a handler that is
\* taken up is of an event that happened.
LEMMA StripeKept ==
    ASSUME TypeOK, StripeParts, UNCHANGED stripe, NEW w \in Worker,
           NEW h \in Handler \cup {Idle}, worker' = [worker EXCEPT ![w] = h],
           h # Idle => Happened(h.event),
           h.pc = "fetched" /\ h.event[1] = "session" /\ h.session = "paid" =>
             h.got \in Subscription /\ sub # NoSub,
           \A e \in queued' : Happened(e),
           row' # NoSub => sub # NoSub
    PROVE  StripeParts'
<1>1. \A e : Happened(e) => Happened(e)'
  BY DEF stripe, Happened
<1>2. Subscribed'
  BY DEF StripeParts, Subscribed, stripe
<1>3. \A v \in Worker : worker'[v] = IF v = w THEN h ELSE worker[v]
  BY DEF TypeOK
<1>4. EventsHappened'
  BY <1>1, <1>3 DEF StripeParts, EventsHappened
<1>5. PaidHasSub'
  BY <1>3 DEF StripeParts, PaidHasSub, Has, stripe
<1>6. RowHasSub'
  BY DEF RowHasSub, stripe
<1> QED BY <1>2, <1>4, <1>5, <1>6 DEF StripeParts

\* Ending a handler, or putting its event back, is such a step.
LEMMA StripeKeptByDone ==
    ASSUME TypeOK, StripeParts, NEW w \in Worker, Done(w), row' # NoSub => sub # NoSub
    PROVE  StripeParts' /\ worker' \in [Worker -> Handler \cup {Idle}]
<1>1. worker' = [worker EXCEPT ![w] = Idle] /\ UNCHANGED stripe /\ queued' = queued
  BY DEF Done
<1>2. Idle.pc = "idle"
  BY DEF Idle
<1>3. \A e \in queued' : Happened(e)
  BY <1>1 DEF StripeParts, EventsHappened
<1> QED BY <1>1, <1>2, <1>3, StripeKept, WorkerType

-----------------------------------------------------------------------------
(* Steps                                                                    *)

\* Nothing has happened at first.
LEMMA InitInv == Init => Inv
<1> SUFFICES ASSUME Init PROVE Inv OBVIOUS
<1>1. \A w \in Worker : worker[w] = Idle
  BY DEF Init
<1>2. TypeOK
  <2>1. invoice \in [Invoice -> InvoiceRow]
    BY DEF Init, InvoiceRow
  <2>2. worker \in [Worker -> Handler \cup {Idle}] /\ bill \in [Invoice -> {"none", "open", "paid"}]
    BY DEF Init
  <2> QED BY <2>1, <2>2 DEF Init, TypeOK, Session, CheckoutStatus
<1>3. StripeParts
  BY <1>1 DEF Init, StripeParts, Subscribed, EventsHappened, PaidHasSub, RowHasSub, Has, Idle
<1>4. OneReader /\ ReaderHasEnt /\ SeenInForce
  BY <1>1 DEF OneReader, ReaderHasEnt, SeenInForce, Reading, Idle
<1>5. Together /\ AppliedHasEnt /\ AppliedExtends /\ SeatsFollow
  BY DEF Init, Together, AppliedHasEnt, AppliedExtends, SeatsFollow
<1> QED BY <1>2, <1>3, <1>4, <1>5 DEF Inv, RowParts

\* A step that only raises events, of objects that go on existing.
LEMMA RaiseStep ==
    ASSUME Inv, NEW events \in SUBSET Event, Raise(events),
           session' \in Session, asyncFailed' \in BOOLEAN,
           sub' \in Subscription \cup {NoSub},
           bill' \in [Invoice -> {"none", "open", "paid"}],
           Subscribed', sub # NoSub => sub' # NoSub,
           \A i \in Invoice : bill[i] # "none" => bill'[i] # "none",
           \A e \in events : Happened(e)'
    PROVE  Inv'
<1>1. TypeOK'
  BY DEF Inv, TypeOK, Raise, rows, history
<1>2. \A e : Happened(e) => Happened(e)'
  BY DEF Happened
<1>3. EventsHappened'
  BY <1>2 DEF Inv, StripeParts, EventsHappened, Raise
<1>4. PaidHasSub'
  BY DEF Inv, StripeParts, PaidHasSub, Raise, Has
<1>5. RowParts'
  BY RowsKept DEF Inv, Raise
<1>6. RowHasSub'
  BY DEF Inv, StripeParts, RowHasSub, Raise, rows
<1> QED BY <1>1, <1>3, <1>4, <1>5, <1>6 DEF Inv, StripeParts

\* What the customer and the payment do to the session.
LEMMA SessionSteps ==
    ASSUME Inv, Complete \/ Expire \/ AsyncSucceed \/ AsyncFail
    PROVE  Inv'
<1> USE EventKinds DEF Inv, TypeOK, StripeParts
<1>0. 1 \in Invoice
  BY BillingAssumption DEF BillingAssumption, Invoice
<1>1. CASE Complete
  <2>1. PICK how \in {"paid", "unpaid"} :
          /\ session' = how
          /\ bill' = [bill EXCEPT ![1] = IF how = "paid" THEN "paid" ELSE "open"]
          /\ Raise({TheSession, TheSubscription} \cup {The(1) : x \in {how} \cap {"paid"}})
    BY <1>1 DEF Complete
  <2>2. sub' \in Subscription
    BY <1>0, <1>1, BillingAssumption DEF Complete, Subscription, BillingAssumption
  <2>3. sub' # NoSub
    BY <2>2, NoneApart
  <2>4. bill' \in [Invoice -> {"none", "open", "paid"}] /\ bill'[1] # "none"
        /\ \A i \in Invoice : bill[i] # "none" => bill'[i] # "none"
    BY <1>0, <2>1
  <2> DEFINE events == {TheSession, TheSubscription} \cup {The(1) : x \in {how} \cap {"paid"}}
  <2>5. events \in SUBSET Event /\ \A e \in events : Happened(e)'
    BY <1>0, <2>3, <2>4 DEF Happened
  <2>6. Subscribed'
    BY <2>3 DEF Subscribed
  <2>7. session' \in Session /\ asyncFailed' \in BOOLEAN
    BY <1>1, <2>1 DEF Complete, Session
  <2> HIDE DEF events
  <2>8. Raise(events)
    BY <2>1 DEF events
  <2> QED BY <2>2, <2>3, <2>4, <2>5, <2>6, <2>7, <2>8, RaiseStep
<1>2. CASE Expire
  <2>1. Raise({TheSession}) /\ session' = "expired" /\ UNCHANGED <<asyncFailed, sub, bill>>
    BY <1>2 DEF Expire
  <2> QED BY <2>1, RaiseStep DEF Happened, Subscribed, Session
<1>3. CASE AsyncSucceed
  <2>1. Raise({TheSession, The(1)}) /\ session' = "paid" /\ session = "unpaid"
        /\ bill' = [bill EXCEPT ![1] = "paid"] /\ UNCHANGED <<asyncFailed, sub>>
    BY <1>3 DEF AsyncSucceed
  <2>2. bill' \in [Invoice -> {"none", "open", "paid"}] /\ bill'[1] # "none"
        /\ \A i \in Invoice : bill[i] # "none" => bill'[i] # "none"
    BY <1>0, <2>1
  <2>3. \A e \in {TheSession, The(1)} : Happened(e)'
    BY <1>0, <2>2 DEF Happened
  <2>4. Subscribed' /\ session' \in Session
    BY <2>1 DEF Subscribed, Session
  <2>5. {TheSession, The(1)} \in SUBSET Event
    BY <1>0
  <2> QED BY <2>1, <2>2, <2>3, <2>4, <2>5, RaiseStep
<1>4. CASE AsyncFail
  <2>1. Raise({TheSession}) /\ asyncFailed' = TRUE /\ UNCHANGED <<session, sub, bill>>
    BY <1>4 DEF AsyncFail
  <2> QED BY <2>1, RaiseStep DEF Happened, Subscribed
<1> QED BY <1>1, <1>2, <1>3, <1>4

\* What becomes of the subscription and its invoices at Stripe.
LEMMA SubscriptionSteps ==
    ASSUME Inv,
           \/ Renew \/ Cancel \/ \E q \in Quantity : ChangeQuantity(q)
           \/ \E i \in Invoice : FailPayment(i) \/ PayInvoice(i)
    PROVE  Inv'
<1> USE EventKinds DEF Inv, TypeOK, StripeParts
<1>0. Live => sub \in Subscription
  BY NoneApart DEF Live
<1>1. CASE \E q \in Quantity : ChangeQuantity(q)
  <2> PICK q \in Quantity : ChangeQuantity(q) BY <1>1
  <2>1. Raise({TheSubscription}) /\ UNCHANGED <<session, asyncFailed, bill>>
        /\ sub' = [sub EXCEPT !.quantity = q] /\ sub \in Subscription
    BY <1>0 DEF ChangeQuantity
  <2>2. sub' \in Subscription
    BY <2>1 DEF Subscription
  <2>3. sub' # NoSub
    BY <2>2, NoneApart
  <2> QED BY <2>1, <2>2, <2>3, RaiseStep DEF Happened, Subscribed
<1>2. CASE Cancel
  <2>1. Raise({TheSubscription}) /\ UNCHANGED <<session, asyncFailed, bill>>
        /\ sub' = [sub EXCEPT !.status = "canceled"] /\ sub \in Subscription
    BY <1>0, <1>2 DEF Cancel
  <2>2. sub' \in Subscription
    BY <2>1 DEF Subscription
  <2>3. sub' # NoSub
    BY <2>2, NoneApart
  <2> QED BY <2>1, <2>2, <2>3, RaiseStep DEF Happened, Subscribed
<1>3. CASE Renew
  <2>1. Raise({TheSubscription}) /\ UNCHANGED <<session, asyncFailed>>
        /\ sub' = [sub EXCEPT !.period = sub.period + 1] /\ sub \in Subscription
        /\ bill' = [bill EXCEPT ![sub.period + 1] = "open"] /\ sub.period < MaxInvoice
    BY <1>0, <1>3 DEF Renew
  <2>2. sub.period + 1 \in Invoice
    BY <2>1, BillingAssumption DEF Subscription, Invoice, BillingAssumption
  <2>3. sub' \in Subscription
    BY <2>1, <2>2 DEF Subscription
  <2>4. sub' # NoSub
    BY <2>3, NoneApart
  <2>5. bill' \in [Invoice -> {"none", "open", "paid"}]
        /\ \A i \in Invoice : bill[i] # "none" => bill'[i] # "none"
    BY <2>1, <2>2
  <2> QED BY <2>1, <2>3, <2>4, <2>5, RaiseStep DEF Happened, Subscribed
<1>4. CASE \E i \in Invoice : FailPayment(i)
  <2> PICK i \in Invoice : FailPayment(i) BY <1>4
  <2>1. Raise({The(i)}) /\ UNCHANGED <<session, asyncFailed, sub, bill>> /\ bill[i] = "open"
    BY DEF FailPayment, stripe
  <2>2. \A e \in {The(i)} : Happened(e)'
    BY <2>1 DEF Happened
  <2> QED BY <2>1, <2>2, RaiseStep DEF Subscribed
<1>5. CASE \E i \in Invoice : PayInvoice(i)
  <2> PICK i \in Invoice : PayInvoice(i) BY <1>5
  <2>1. Raise({The(i)}) /\ UNCHANGED <<session, asyncFailed, sub>>
        /\ bill' = [bill EXCEPT ![i] = "paid"]
    BY DEF PayInvoice
  <2>2. bill' \in [Invoice -> {"none", "open", "paid"}] /\ bill'[i] # "none"
        /\ \A j \in Invoice : bill[j] # "none" => bill'[j] # "none"
    BY <2>1
  <2>3. \A e \in {The(i)} : Happened(e)'
    BY <2>2 DEF Happened
  <2> QED BY <2>1, <2>2, <2>3, RaiseStep DEF Subscribed
<1> QED BY <1>1, <1>2, <1>3, <1>4, <1>5

\* An event comes again, or reconciliation asks for what it tells of.
LEMMA AgainSteps ==
    ASSUME Inv, (\E e \in Event : Redeliver(e)) \/ Reconcile \/ ReconcileCheckout
    PROVE  Inv'
<1> USE EventKinds DEF Inv, TypeOK, StripeParts
<1>0. ASSUME NEW events \in SUBSET Event, queued' = queued \cup events,
             UNCHANGED <<stripe, matches, rows, worker, history>>,
             \A e \in events : Happened(e)
      PROVE  Inv'
  <2>1. Raise(events) /\ UNCHANGED <<session, asyncFailed, sub, bill>>
    BY <1>0 DEF Raise, stripe
  <2>2. \A e \in events : Happened(e)'
    BY <1>0, <2>1 DEF Happened
  <2> QED BY <2>1, <2>2, RaiseStep DEF Subscribed
<1>1. CASE \E e \in Event : Redeliver(e)
  <2> PICK e \in Event : Redeliver(e) BY <1>1
  <2>1. Happened(e)
    BY DEF Redeliver, Occurred, Happened
  <2>2. {e} \in SUBSET Event /\ \A d \in {e} : Happened(d)
    BY <2>1
  <2>3. queued' = queued \cup {e} /\ UNCHANGED <<stripe, matches, rows, worker, history>>
    BY DEF Redeliver
  <2> QED BY <1>0, <2>2, <2>3
<1>2. CASE Reconcile
  <2> DEFINE events == {TheSubscription} \cup {The(i) : i \in {j \in Invoice : bill[j] = "paid"}}
  <2>1. row # NoSub
    BY <1>2, NoneApart DEF Reconcile
  <2>2. Happened(TheSubscription)
    BY <2>1 DEF Happened, RowHasSub
  <2>3. \A i \in Invoice : bill[i] = "paid" => Happened(The(i))
    BY DEF Happened
  <2>4. events \in SUBSET Event /\ \A e \in events : Happened(e)
    BY <2>2, <2>3
  <2> QED BY <1>0, <1>2, <2>4 DEF Reconcile
<1>3. CASE ReconcileCheckout
  <2>1. {TheSession} \in SUBSET Event /\ \A d \in {TheSession} : Happened(d)
    BY DEF Happened
  <2>2. queued' = queued \cup {TheSession}
        /\ UNCHANGED <<stripe, matches, rows, worker, history>>
    BY <1>3 DEF ReconcileCheckout
  <2> QED BY <1>0, <2>1, <2>2
<1> QED BY <1>1, <1>2, <1>3

\* A worker takes up an event.
LEMMA BeginStep ==
    ASSUME Inv, NEW w \in Worker, NEW e \in Event, Begin(w, e)
    PROVE  Inv'
<1> USE DEF Inv
<1>1. e \in queued /\ worker' = [worker EXCEPT ![w] = Fetched(e)] /\ queued' = queued \ {e}
      /\ UNCHANGED <<stripe, matches, rows, history>>
  BY DEF Begin
<1>2. Happened(e) /\ \A d \in queued' : Happened(d)
  BY <1>1 DEF StripeParts, EventsHappened
<1>3. /\ Fetched(e) \in Handler /\ Fetched(e).event = e /\ Fetched(e).pc = "fetched"
      /\ e = TheSession /\ Fetched(e).session = "paid" =>
           Fetched(e).got \in Subscription /\ sub # NoSub
  BY <1>2, FetchedType DEF StripeParts
<1>4. e[1] = "session" => e = TheSession
  BY EventKinds
<1>5. row' # NoSub => sub # NoSub
  BY <1>1 DEF rows, StripeParts, RowHasSub
<1> DEFINE h == Fetched(e)
<1> HIDE DEF h
<1>6. h \in Handler /\ h.event = e /\ h.pc = "fetched"
      /\ (h.event[1] = "session" /\ h.session = "paid" => h.got \in Subscription /\ sub # NoSub)
      /\ worker' = [worker EXCEPT ![w] = h]
  BY <1>1, <1>3, <1>4 DEF h
<1>7. StripeParts' /\ worker' \in [Worker -> Handler \cup {Idle}]
  BY <1>1, <1>2, <1>5, <1>6, StripeKept, WorkerType
<1>8. RowParts'
  BY <1>1, <1>6, RowsKeptBy DEF rows
<1>9. TypeOK'
  BY <1>1, <1>7 DEF TypeOK, stripe, rows, history
<1> QED BY <1>7, <1>8, <1>9

\* A handler is given up and its event comes again.
LEMMA RetrySteps ==
    ASSUME Inv, NEW w \in Worker, Crash(w) \/ SyncUnknown(w) \/ InvoiceEarly(w)
    PROVE  Inv'
<1> USE DEF Inv
<1>1. worker[w] # Idle /\ worker' = [worker EXCEPT ![w] = Idle]
      /\ queued' = queued \cup {worker[w].event}
      /\ UNCHANGED <<stripe, matches, rows, history>>
  BY DEF Crash, SyncUnknown, InvoiceEarly, RetryLater, Has, Idle
<1>2. worker[w] \in Handler
  BY <1>1 DEF TypeOK
<1>3. worker[w].event \in Event /\ Happened(worker[w].event)
  BY <1>1, <1>2, HandlerKinds DEF StripeParts, EventsHappened
<1>4. \A d \in queued' : Happened(d)
  BY <1>1, <1>3 DEF StripeParts, EventsHappened
<1>5. row' # NoSub => sub # NoSub
  BY <1>1 DEF rows, StripeParts, RowHasSub
<1>6. Idle.pc = "idle"
  BY DEF Idle
<1>7. StripeParts' /\ worker' \in [Worker -> Handler \cup {Idle}]
  BY <1>1, <1>4, <1>5, <1>6, StripeKept, WorkerType
<1>8. RowParts'
  BY <1>1, <1>6, RowsKeptBy DEF rows
<1>9. TypeOK'
  BY <1>1, <1>3, <1>7 DEF TypeOK, stripe, rows, history
<1> QED BY <1>7, <1>8, <1>9

\* A handler ends, and writes no more than the status of a checkout that is not
\* completed, or nothing.
LEMMA EndSteps ==
    ASSUME Inv, NEW w \in Worker, ExpireCheckout(w) \/ GiveUp(w) \/ InvoiceIgnored(w)
    PROVE  Inv'
<1> USE DEF Inv
<1>1. Done(w) /\ UNCHANGED <<row, ent, invoice, apart>>
  BY DEF ExpireCheckout, GiveUp, InvoiceIgnored, rows
<1>2. checkout' \in CheckoutStatus /\ (checkout' = "completed" <=> checkout = "completed")
  BY DEF ExpireCheckout, GiveUp, InvoiceIgnored, rows, TypeOK, CheckoutStatus
<1>3. row' # NoSub => sub # NoSub
  BY <1>1 DEF StripeParts, RowHasSub
<1>4. StripeParts' /\ worker' \in [Worker -> Handler \cup {Idle}]
  BY <1>1, <1>3, StripeKeptByDone
<1>5. Idle.pc = "idle"
  BY DEF Idle
<1>6. RowParts'
  BY <1>1, <1>2, <1>5, RowsKeptBy DEF Done, history
<1>7. TypeOK'
  BY <1>1, <1>2, <1>4 DEF TypeOK, stripe, Done
<1> QED BY <1>4, <1>6, <1>7

\* A handler goes on without the lock of the subscription.
LEMMA OnSteps ==
    ASSUME Inv, NEW w \in Worker, AwaitPayment(w) \/ InvoiceUnknown(w)
    PROVE  Inv'
<1> USE DEF Inv
<1>1. /\ row' = row /\ ent' = ent /\ invoice' = invoice
      /\ UNCHANGED <<stripe, matches, queued, history>>
  BY DEF AwaitPayment, InvoiceUnknown, rows
<1>2. checkout' \in CheckoutStatus /\ (checkout' = "completed" <=> checkout = "completed")
  BY DEF AwaitPayment, InvoiceUnknown, rows, TypeOK, CheckoutStatus
<1>3. worker[w] \in Handler
  BY WorkerKinds DEF AwaitPayment, InvoiceUnknown
<1>4. PICK pc \in {"awaiting", "unknown"} :
        /\ worker' = [worker EXCEPT ![w].pc = pc]
        /\ [worker[w] EXCEPT !.pc = pc] \in Handler
        /\ [worker[w] EXCEPT !.pc = pc].event = worker[w].event
        /\ [worker[w] EXCEPT !.pc = pc].pc = pc
  <2>1. CASE AwaitPayment(w)
    <3>1. worker[w] \in [pc : {"fetched", "awaiting"}, event : {TheSession},
                         session : Session, got : Subscription \cup {NoSub}]
      BY <2>1, WorkerKinds DEF AwaitPayment
    <3>2. [worker[w] EXCEPT !.pc = "awaiting"] \in [pc : {"fetched", "awaiting"},
             event : {TheSession}, session : Session, got : Subscription \cup {NoSub}]
          /\ [worker[w] EXCEPT !.pc = "awaiting"].event = worker[w].event
          /\ [worker[w] EXCEPT !.pc = "awaiting"].pc = "awaiting"
      BY <3>1
    <3> QED BY <2>1, <3>2 DEF AwaitPayment, Handler
  <2>2. CASE InvoiceUnknown(w)
    <3>1. worker[w] \in [pc : {"fetched", "unknown"}, event : {The(i) : i \in Invoice},
                         got : {"open", "paid"}]
      BY <1>3, <2>2, EventKinds DEF InvoiceUnknown, Has, Handler
    <3>2. [worker[w] EXCEPT !.pc = "unknown"] \in [pc : {"fetched", "unknown"},
             event : {The(i) : i \in Invoice}, got : {"open", "paid"}]
          /\ [worker[w] EXCEPT !.pc = "unknown"].event = worker[w].event
          /\ [worker[w] EXCEPT !.pc = "unknown"].pc = "unknown"
      BY <3>1
    <3> QED BY <2>2, <3>2 DEF InvoiceUnknown, Handler
  <2> QED BY <2>1, <2>2
<1> DEFINE h == [worker[w] EXCEPT !.pc = pc]
<1>5. h \in Handler /\ h.event = worker[w].event /\ h.pc = pc
  BY <1>4
<1>6. worker' = [worker EXCEPT ![w] = h]
  BY <1>4 DEF TypeOK
<1> HIDE DEF h
<1>7. Happened(h.event)
  BY <1>3, <1>5, HandlerKinds DEF StripeParts, EventsHappened
<1>8. \A d \in queued' : Happened(d)
  BY <1>1 DEF StripeParts, EventsHappened
<1>9. row' # NoSub => sub # NoSub
  BY <1>1 DEF StripeParts, RowHasSub
<1>10. StripeParts' /\ worker' \in [Worker -> Handler \cup {Idle}]
  BY <1>1, <1>5, <1>6, <1>7, <1>8, <1>9, StripeKept, WorkerType
<1>11. RowParts'
  BY <1>1, <1>2, <1>5, <1>6, RowsKeptBy
<1>12. TypeOK'
  BY <1>1, <1>2, <1>10 DEF TypeOK, stripe, history
<1> QED BY <1>10, <1>11, <1>12

\* A handler locks the row of the subscription and waits for the entitlement.
LEMMA LockSteps ==
    ASSUME Inv, NEW w \in Worker, SyncSeats(w) \/ InvoiceKnown(w)
    PROVE  Inv'
<1> USE DEF Inv
<1>1. /\ row # NoSub /\ SubscriptionFree
      /\ UNCHANGED <<stripe, matches, rows, queued, history>>
  BY DEF SyncSeats, InvoiceKnown
<1>2. worker[w] \in Handler
  BY WorkerKinds DEF SyncSeats, InvoiceKnown
<1>3. ent \in EntitlementRow
  BY <1>1 DEF TypeOK, RowParts, Together
<1>4. ent.snapshot \in 0..MaxAmend
  BY <1>3 DEF EntitlementRow
<1> DEFINE h == [pc |-> "reading", event |-> worker[w].event, got |-> worker[w].got,
                 seen |-> ent.snapshot]
<1>5. worker' = [worker EXCEPT ![w] = h]
  <2>1. CASE SyncSeats(w)
    <3>1. worker[w].event = TheSubscription
      BY <2>1, WorkerKinds DEF SyncSeats
    <3> QED BY <2>1, <3>1 DEF SyncSeats
  <2>2. CASE InvoiceKnown(w)
    BY <2>2 DEF InvoiceKnown
  <2> QED BY <2>1, <2>2
<1>6. h \in Handler
  <2>1. CASE SyncSeats(w)
    <3>1. worker[w].event = TheSubscription /\ worker[w].got \in SubscriptionRow
      BY <2>1, WorkerKinds DEF SyncSeats
    <3> QED BY <1>4, <3>1 DEF Handler
  <2>2. CASE InvoiceKnown(w)
    <3>1. Number(w) \in Invoice /\ worker[w].event = The(Number(w))
          /\ worker[w].got \in {"open", "paid"}
      BY <2>2, WorkerKinds DEF InvoiceKnown
    <3> QED BY <1>4, <3>1 DEF Handler
  <2> QED BY <2>1, <2>2
<1>7. h.event = worker[w].event /\ h.pc = "reading" /\ h.seen = ent.snapshot
  OBVIOUS
<1> HIDE DEF h
<1>8. Happened(h.event)
  BY <1>2, <1>7, HandlerKinds DEF StripeParts, EventsHappened
<1>9. \A d \in queued' : Happened(d)
  BY <1>1 DEF StripeParts, EventsHappened
<1>10. row' # NoSub => sub # NoSub
  BY <1>1 DEF StripeParts, RowHasSub, rows
<1>11. StripeParts' /\ worker' \in [Worker -> Handler \cup {Idle}]
  BY <1>1, <1>5, <1>6, <1>7, <1>8, <1>9, <1>10, StripeKept, WorkerType
<1>12. RowParts'
  BY <1>1, <1>5, <1>7, RowsKeptByReader
<1>13. TypeOK'
  BY <1>1, <1>11 DEF TypeOK, stripe, rows, history
<1> QED BY <1>11, <1>12, <1>13

\* A handler ends, and nobody waits for the entitlement then.
LEMMA NobodyReads ==
    ASSUME TypeOK, OneReader, ReaderHasEnt, NEW w \in Worker, Done(w),
           Reading(w) \/ ent = NoEnt
    PROVE  /\ \A v \in Worker : ~Reading(v)'
           /\ OneReader' /\ ReaderHasEnt' /\ SeenInForce'
<1>1. \A v \in Worker : worker'[v] = IF v = w THEN Idle ELSE worker[v]
  BY DEF Done, TypeOK
<1>2. \A v \in Worker : v # w => ~Reading(v)
  BY DEF OneReader, ReaderHasEnt
<1>3. \A v \in Worker : ~Reading(v)'
  BY <1>1, <1>2 DEF Reading, Idle
<1> QED BY <1>3 DEF OneReader, ReaderHasEnt, SeenInForce

\* The checkout is fulfilled, quarantined, or was fulfilled before.
LEMMA FulfilStep ==
    ASSUME Inv, NEW w \in Worker, Fulfil(w)
    PROVE  Inv'
<1> USE DEF Inv
<1>1. Done(w) /\ UNCHANGED invoice /\ Has(w, "fetched", "session") /\ worker[w].session = "paid"
  BY DEF Fulfil
<1>2. worker[w].got \in Subscription /\ sub # NoSub
  BY <1>1 DEF StripeParts, PaidHasSub
<1>3. StripeParts' /\ worker' \in [Worker -> Handler \cup {Idle}]
  BY <1>1, <1>2, StripeKeptByDone
<1>4. Idle.pc = "idle"
  BY DEF Idle
<1>5. CASE checkout = "completed" \/ ~matches
  <2>1. UNCHANGED <<row, ent, invoice, history>>
    BY <1>1, <1>5 DEF Fulfil, Done, history
  <2>2. checkout' \in CheckoutStatus /\ (checkout' = "completed" <=> checkout = "completed")
    BY <1>5 DEF Fulfil, CheckoutStatus, TypeOK
  <2>3. RowParts'
    BY <1>1, <1>4, <2>1, <2>2, RowsKeptBy DEF Done
  <2>4. TypeOK'
    BY <1>1, <1>3, <2>1, <2>2 DEF TypeOK, stripe, Done, history
  <2> QED BY <1>3, <2>3, <2>4
<1>6. CASE checkout # "completed" /\ matches
  <2> DEFINE got == worker[w].got
  <2>1. /\ checkout' = "completed"
        /\ row' = RowOf(got)
        /\ ent' = [status |-> "active", expires |-> got.period,
                   seats |-> Ordered, snapshot |-> 0]
        /\ apart' = (got.quantity # Ordered)
    BY <1>6 DEF Fulfil
  <2>2. got \in Subscription
    BY <1>2
  <2> HIDE DEF got
  <2>3. row' \in SubscriptionRow /\ row' # NoSub /\ row'.quantity = got.quantity
    BY <2>1, <2>2, RowType DEF RowOf
  <2>4. ent' \in EntitlementRow
    BY <2>1, <2>2, BillingAssumption DEF EntitlementRow, Subscription, BillingAssumption, Invoice
  <2>5. ent' # NoEnt /\ ent'.seats = Ordered
    BY <2>1, <2>4, NoneApart
  <2>6. ent = NoEnt
    BY <1>6 DEF RowParts, Together
  <2>7. OneReader' /\ ReaderHasEnt' /\ SeenInForce'
    BY <1>1, <2>6, NobodyReads DEF RowParts
  <2>8. \A i \in Invoice : ~invoice'[i].applied
    BY <1>1, <2>6 DEF RowParts, AppliedHasEnt, TypeOK, InvoiceRow
  <2>9. Together' /\ AppliedHasEnt' /\ AppliedExtends'
    BY <2>1, <2>3, <2>5, <2>8 DEF Together, AppliedHasEnt, AppliedExtends
  <2>10. apart' \in BOOLEAN /\ (~apart' => got.quantity = Ordered)
    BY <2>1
  <2>11. SeatsFollow'
    BY <2>3, <2>5, <2>10 DEF SeatsFollow
  <2>12. TypeOK'
    BY <1>1, <1>3, <2>1, <2>3, <2>4, <2>10 DEF TypeOK, stripe, Done, CheckoutStatus
  <2> QED BY <1>3, <2>7, <2>9, <2>11, <2>12 DEF RowParts
<1> QED BY <1>5, <1>6

\* The row of the subscription is written, the seats if the quantity is another.
LEMMA SyncSteps ==
    ASSUME Inv, NEW w \in Worker, SyncSame(w) \/ CommitSync(w)
    PROVE  Inv'
<1> USE DEF Inv
<1>1. Done(w) /\ UNCHANGED <<checkout, invoice>> /\ row' = worker[w].got
  BY DEF SyncSame, CommitSync
<1>2. worker[w].got \in SubscriptionRow /\ worker[w] \in Handler
      /\ worker[w].event = TheSubscription
  BY WorkerKinds DEF SyncSame, CommitSync
<1>3. sub # NoSub
  BY <1>2, HandlerKinds, EventKinds DEF StripeParts, EventsHappened, Happened
<1>4. StripeParts' /\ worker' \in [Worker -> Handler \cup {Idle}]
  BY <1>1, <1>3, StripeKeptByDone
<1>5. row' \in SubscriptionRow /\ row' # NoSub
  BY <1>1, <1>2, NoneApart
<1>6. CASE SyncSame(w)
  <2>1. UNCHANGED <<ent, apart>> /\ row # NoSub /\ row.quantity = row'.quantity
    BY <1>1, <1>6 DEF SyncSame
  <2>2. \A v \in Worker : Reading(v)' => Reading(v) /\ worker'[v] = worker[v]
    BY <1>1 DEF Done, TypeOK, Reading, Idle
  <2>3. OneReader' /\ ReaderHasEnt' /\ SeenInForce'
    BY <1>1, <2>1, <2>2 DEF RowParts, OneReader, ReaderHasEnt, SeenInForce, Done
  <2>4. Together' /\ AppliedHasEnt' /\ AppliedExtends' /\ SeatsFollow'
    BY <1>1, <1>5, <2>1 DEF RowParts, Together, AppliedHasEnt, AppliedExtends, SeatsFollow, Done
  <2>5. TypeOK'
    BY <1>1, <1>4, <1>5, <2>1 DEF TypeOK, stripe, Done
  <2> QED BY <1>4, <2>3, <2>4, <2>5 DEF RowParts
<1>7. CASE CommitSync(w)
  <2>1. Reading(w)
    BY <1>7 DEF CommitSync, Has, Reading
  <2>2. ent # NoEnt /\ ent \in EntitlementRow
    BY <2>1 DEF RowParts, ReaderHasEnt, TypeOK
  <2>3. /\ ent' = IF Found(w) THEN [ent EXCEPT !.seats = worker[w].got.quantity] ELSE ent
        /\ apart' = FALSE
    BY <1>7 DEF CommitSync
  <2>4. worker[w].got.quantity \in Nat \ {0}
    BY <1>2, BillingAssumption DEF SubscriptionRow, BillingAssumption
  <2>5. ent' \in EntitlementRow /\ ent'.expires = ent.expires
    BY <2>2, <2>3, <2>4 DEF EntitlementRow
  <2>6. ent' # NoEnt
    BY <2>5, NoneApart
  <2>7. ~overtaken => ent'.seats = row'.quantity
    <3>1. ~overtaken => Found(w)
      <4>1. ent.status # "none"
        BY <2>2 DEF EntitlementRow
      <4> QED BY <2>1, <4>1 DEF RowParts, SeenInForce, Found
    <3>2. Found(w) => ent'.seats = worker[w].got.quantity
      BY <2>2, <2>3 DEF EntitlementRow
    <3> QED BY <1>1, <3>1, <3>2
  <2>8. OneReader' /\ ReaderHasEnt' /\ SeenInForce'
    BY <1>1, <2>1, NobodyReads DEF RowParts
  <2>9. UNCHANGED <<overtaken, excused>>
    BY <1>1 DEF Done
  <2>10. Together' /\ AppliedHasEnt' /\ AppliedExtends'
    BY <1>1, <1>5, <2>2, <2>5, <2>6, <2>9
       DEF RowParts, Together, AppliedHasEnt, AppliedExtends
  <2>11. SeatsFollow'
    BY <2>7, <2>9 DEF SeatsFollow
  <2>12. TypeOK'
    BY <1>1, <1>4, <1>5, <2>3, <2>5 DEF TypeOK, stripe, Done
  <2> QED BY <1>4, <2>8, <2>10, <2>11, <2>12 DEF RowParts
<1> QED BY <1>6, <1>7

\* The row of an invoice is written and, if it is paid for the first time, the
\* entitlement extended.
LEMMA InvoiceSteps ==
    ASSUME Inv, NEW w \in Worker, CommitUnpaid(w) \/ CommitPaid(w)
    PROVE  Inv'
<1> USE DEF Inv
<1> DEFINE n == Number(w)
<1>1. Done(w) /\ UNCHANGED <<checkout, row, apart>> /\ Has(w, "reading", "invoice")
  BY DEF CommitUnpaid, CommitPaid
<1>2. n \in Invoice
  BY <1>1, WorkerKinds
<1>3. Reading(w)
  BY <1>1 DEF Has, Reading
<1>4. ent # NoEnt /\ ent \in EntitlementRow
  BY <1>3 DEF RowParts, ReaderHasEnt, TypeOK
<1>5. ent.status # "none" /\ ent.expires \in Nat
  BY <1>4 DEF EntitlementRow
<1>6. row' # NoSub => sub # NoSub
  BY <1>1 DEF StripeParts, RowHasSub
<1>7. StripeParts' /\ worker' \in [Worker -> Handler \cup {Idle}]
  BY <1>1, <1>6, StripeKeptByDone
<1>8. OneReader' /\ ReaderHasEnt' /\ SeenInForce'
  BY <1>1, <1>3, NobodyReads DEF RowParts
<1>9. UNCHANGED <<overtaken, excused>>
  BY <1>1 DEF Done
<1> HIDE DEF n
<1>10. /\ invoice' \in [Invoice -> InvoiceRow]
       /\ \A i \in Invoice : i # n => invoice'[i] = invoice[i]
       /\ (ent' = ent \/ (ent' = [ent EXCEPT !.expires = n] /\ ent.expires < n))
       /\ ~overtaken /\ invoice'[n].applied /\ n \notin excused => ent'.expires >= n
  <2>1. CASE CommitUnpaid(w)
    <3>1. /\ invoice' = [invoice EXCEPT ![n].status = "open"]
          /\ ent' = ent
      BY <2>1 DEF CommitUnpaid, n
    <3>2. invoice[n] \in InvoiceRow
      BY <1>2 DEF TypeOK
    <3>3. [invoice[n] EXCEPT !.status = "open"] \in InvoiceRow
          /\ [invoice[n] EXCEPT !.status = "open"].applied = invoice[n].applied
      BY <3>2 DEF InvoiceRow
    <3>4. invoice' = [invoice EXCEPT ![n] = [invoice[n] EXCEPT !.status = "open"]]
      BY <1>2, <3>1 DEF TypeOK
    <3>5. invoice' \in [Invoice -> InvoiceRow] /\ invoice'[n].applied = invoice[n].applied
          /\ \A i \in Invoice : i # n => invoice'[i] = invoice[i]
      BY <1>2, <3>3, <3>4 DEF TypeOK
    <3>6. ~overtaken /\ invoice[n].applied /\ n \notin excused => ent.expires >= n
      BY <1>2 DEF RowParts, AppliedExtends
    <3> QED BY <3>1, <3>5, <3>6
  <2>2. CASE CommitPaid(w)
    <3>1. /\ invoice' = [invoice EXCEPT ![n] = [status |-> "paid", applied |-> TRUE]]
          /\ ent' = IF Found(w) /\ ~invoice[n].applied /\ ent.expires < n
                      THEN [ent EXCEPT !.expires = n] ELSE ent
      BY <2>2 DEF CommitPaid, n
    <3>2. ~overtaken => Found(w)
      BY <1>3, <1>5 DEF RowParts, SeenInForce, Found
    <3>3. ~overtaken /\ invoice[n].applied /\ n \notin excused => ent.expires >= n
      BY <1>2 DEF RowParts, AppliedExtends
    <3>4. [ent EXCEPT !.expires = n].expires = n
      BY <1>4 DEF EntitlementRow
    <3>5. n \in Int /\ ent.expires \in Int
      BY <1>2, <1>5 DEF Invoice
    <3>6. ~overtaken /\ n \notin excused => ent'.expires >= n
      BY <3>1, <3>2, <3>3, <3>4, <3>5
    <3>7. invoice' \in [Invoice -> InvoiceRow]
      BY <3>1 DEF TypeOK, InvoiceRow
    <3>8. \A i \in Invoice : i # n => invoice'[i] = invoice[i]
      BY <3>1 DEF TypeOK
    <3>9. ent' = ent \/ (ent' = [ent EXCEPT !.expires = n] /\ ent.expires < n)
      BY <3>1
    <3> QED BY <3>6, <3>7, <3>8, <3>9
  <2> QED BY <2>1, <2>2
<1>11. ent' \in EntitlementRow /\ ent'.expires >= ent.expires /\ ent'.seats = ent.seats
  BY <1>2, <1>4, <1>5, <1>10 DEF EntitlementRow, Invoice
<1>12. ent' # NoEnt
  BY <1>11, NoneApart
<1>13. AppliedExtends'
  <2> SUFFICES ASSUME ~overtaken, NEW i \in Invoice \ excused, invoice'[i].applied
               PROVE  ent'.expires >= i
    BY <1>9 DEF AppliedExtends
  <2>1. CASE i = n BY <1>10, <2>1
  <2>2. CASE i # n
    <3>1. ent.expires >= i
      BY <1>10, <2>2 DEF RowParts, AppliedExtends
    <3>2. ent'.expires \in Int /\ i \in Int /\ ent.expires \in Int
      BY <1>5, <1>11 DEF EntitlementRow, Invoice
    <3> QED BY <1>11, <3>1, <3>2
  <2> QED BY <2>1, <2>2
<1>14. Together' /\ AppliedHasEnt' /\ SeatsFollow'
  BY <1>1, <1>4, <1>9, <1>11, <1>12 DEF RowParts, Together, AppliedHasEnt, SeatsFollow
<1>15. TypeOK'
  BY <1>1, <1>7, <1>10, <1>11 DEF TypeOK, stripe, Done
<1> QED BY <1>7, <1>8, <1>13, <1>14, <1>15 DEF RowParts

\* Support amends the entitlement; whoever waits for it has been overtaken.
LEMMA AmendStep == ASSUME Inv, Amend PROVE Inv'
<1> USE DEF Inv
<1>1. /\ ent # NoEnt /\ ent.snapshot < MaxAmend
      /\ overtaken' = (overtaken \/ ~SubscriptionFree)
      /\ UNCHANGED <<stripe, matches, checkout, row, invoice, queued, worker>>
  BY DEF Amend
<1>2. ent \in EntitlementRow
  BY <1>1 DEF TypeOK
<1>3. PICK seats \in SeatChoice \cup {ent.seats}, expires \in ExpiryChoice \cup {ent.expires} :
        /\ ent' = [ent EXCEPT !.snapshot = ent.snapshot + 1, !.seats = seats, !.expires = expires]
        /\ apart' = (apart \/ seats # ent.seats)
        /\ excused' = IF expires # ent.expires THEN {i \in Invoice : invoice[i].applied}
                      ELSE excused
  BY DEF Amend
<1>4. seats \in Nat \ {0} /\ expires \in Nat
  BY <1>2, BillingAssumption DEF EntitlementRow, BillingAssumption
<1>5. ent' \in EntitlementRow /\ ent'.expires = expires /\ ent'.seats = seats
  <2>1. ent.snapshot \in 0..MaxAmend /\ MaxAmend \in Nat
    BY <1>2, BillingAssumption DEF EntitlementRow, BillingAssumption
  <2>2. ent.snapshot + 1 \in 0..MaxAmend
    BY <1>1, <2>1
  <2> DEFINE next == ent.snapshot + 1
  <2>3. ent' = [ent EXCEPT !.snapshot = next, !.seats = seats, !.expires = expires]
    BY <1>3
  <2> HIDE DEF next
  <2>4. next \in 0..MaxAmend
    BY <2>2 DEF next
  <2> QED BY <1>2, <1>4, <2>3, <2>4 DEF EntitlementRow
<1>6. ent' # NoEnt
  BY <1>5, NoneApart
<1>7. ~overtaken' => ~overtaken /\ \A w \in Worker : ~Reading(w)'
  BY <1>1 DEF SubscriptionFree, Reading, TypeOK
<1>8. OneReader' /\ ReaderHasEnt' /\ SeenInForce'
  BY <1>1, <1>6, <1>7 DEF RowParts, OneReader, ReaderHasEnt, SeenInForce, Reading
<1>9. Together' /\ AppliedHasEnt'
  BY <1>1, <1>6 DEF RowParts, Together, AppliedHasEnt
<1>10. AppliedExtends'
  <2>1. CASE expires = ent.expires
    BY <1>1, <1>3, <1>5, <1>7, <2>1 DEF RowParts, AppliedExtends
  <2>2. CASE expires # ent.expires
    BY <1>1, <1>3, <2>2 DEF AppliedExtends
  <2> QED BY <2>1, <2>2
<1>11. SeatsFollow'
  BY <1>1, <1>3, <1>5, <1>7 DEF RowParts, SeatsFollow
<1>12. StripeParts'
  BY <1>1 DEF StripeParts, Subscribed, EventsHappened, PaidHasSub, RowHasSub, Happened, Has, stripe
<1>13. overtaken' \in BOOLEAN /\ apart' \in BOOLEAN /\ excused' \subseteq Invoice
  BY <1>1, <1>3 DEF TypeOK
<1>14. TypeOK'
  BY <1>1, <1>5, <1>13 DEF TypeOK, stripe
<1> QED BY <1>8, <1>9, <1>10, <1>11, <1>12, <1>14 DEF RowParts

\* Every step keeps the invariant.
LEMMA NextInv == Inv /\ [Next]_vars => Inv'
<1> SUFFICES ASSUME Inv, [Next]_vars PROVE Inv' OBVIOUS
<1>1. CASE Stripe
  BY <1>1, SessionSteps, SubscriptionSteps DEF Stripe
<1>2. CASE (\E e \in Event : Redeliver(e)) \/ Reconcile \/ ReconcileCheckout
  BY <1>2, AgainSteps
<1>3. ASSUME NEW e \in Event, NEW w \in Worker, Begin(w, e) PROVE Inv'
  BY <1>3, BeginStep
<1>4. ASSUME NEW w \in Worker, Run(w) PROVE Inv'
  BY <1>4, RetrySteps, EndSteps, OnSteps, LockSteps, FulfilStep, SyncSteps, InvoiceSteps DEF Run
<1>5. ASSUME NEW w \in Worker, Crash(w) PROVE Inv'
  BY <1>5, RetrySteps
<1>6. CASE Amend
  BY <1>6, AmendStep
<1>7. CASE UNCHANGED vars
  <2>1. UNCHANGED stripe /\ UNCHANGED rows
        /\ UNCHANGED <<matches, queued, worker, history>>
    BY <1>7 DEF vars
  <2>2. RowParts'
    BY <2>1, RowsKept DEF Inv
  <2>3. StripeParts'
    BY <2>1 DEF Inv, StripeParts, Subscribed, EventsHappened, PaidHasSub, RowHasSub, Happened,
                Has, stripe, rows
  <2>4. TypeOK'
    BY <2>1 DEF Inv, TypeOK, stripe, rows, history
  <2> QED BY <2>2, <2>3, <2>4 DEF Inv
<1> QED BY <1>1, <1>2, <1>3, <1>4, <1>5, <1>6, <1>7 DEF Next

\* The invariant holds throughout.
THEOREM Invariance == Spec => []Inv
<1> QED BY InitInv, NextInv, PTL DEF Spec

\* The objects of Stripe, the rows and the handlers keep their types.
THEOREM BillingTyping == Spec => []TypeOK
<1>1. Inv => TypeOK BY DEF Inv
<1> QED BY <1>1, Invariance, PTL

\* src/services/billing.ts:9: an invoice that counts as applied has extended the
\* entitlement, unless an amendment overtook a handler that waited for it - or support
\* set the expiry after the invoice was applied, which is its own choice.
THEOREM AppliedHasExtended == Spec => []AppliedExtends
<1>1. Inv => AppliedExtends BY DEF Inv, RowParts
<1> QED BY <1>1, Invariance, PTL

\* syncSubscription(): the seats follow the quantity, unless an amendment overtook a
\* handler; from fulfilment with another quantity than the one ordered, or from support
\* setting the seats, they are apart until the next quantity that is written.
THEOREM SeatsInLine == Spec => []SeatsFollow
<1>1. Inv => SeatsFollow BY DEF Inv, RowParts
<1> QED BY <1>1, Invariance, PTL

\* Only a synchronisation, a paid invoice or an amendment changes an entitlement that
\* exists.
LEMMA EntKept ==
    ASSUME Inv, [Next]_vars, ent # NoEnt, ent' # ent
    PROVE  \/ \E w \in Worker : CommitSync(w) \/ CommitPaid(w)
           \/ Amend
<1>1. ~Stripe
  BY DEF Stripe, Complete, Expire, AsyncSucceed, AsyncFail, Renew, Cancel, ChangeQuantity,
         FailPayment, PayInvoice, Raise, rows
<1>2. ~Reconcile /\ ~ReconcileCheckout /\ \A e \in Event : ~Redeliver(e)
  BY DEF Reconcile, ReconcileCheckout, Redeliver, rows
<1>3. \A w \in Worker, e \in Event : ~Begin(w, e)
  BY DEF Begin, rows
<1>4. \A w \in Worker : ~Crash(w)
  BY DEF Crash, rows
<1>5. checkout = "completed"
  BY DEF Inv, RowParts, Together
<1>6. \A w \in Worker : ~Fulfil(w)
  BY <1>5 DEF Fulfil
<1>7. \A w \in Worker : /\ ~ExpireCheckout(w) /\ ~AwaitPayment(w) /\ ~GiveUp(w)
                      /\ ~SyncUnknown(w) /\ ~SyncSame(w) /\ ~SyncSeats(w)
                      /\ ~InvoiceUnknown(w) /\ ~InvoiceEarly(w) /\ ~InvoiceIgnored(w)
                      /\ ~InvoiceKnown(w) /\ ~CommitUnpaid(w)
  BY DEF ExpireCheckout, AwaitPayment, GiveUp, SyncUnknown, SyncSame, SyncSeats, InvoiceUnknown,
         InvoiceEarly, InvoiceIgnored, InvoiceKnown, CommitUnpaid, RetryLater, rows
<1>8. ~UNCHANGED vars
  BY DEF vars, rows
<1> QED BY <1>1, <1>2, <1>3, <1>4, <1>6, <1>7, <1>8 DEF Next, Run

\* "monotonic expiry": no event shortens what was paid for; only an amendment by support,
\* which makes another policy snapshot, may.
THEOREM ExpiryMonotonic == Spec => NeverShortened
<1>1. ASSUME Inv, [Next]_vars, ent # NoEnt, ent'.snapshot = ent.snapshot
      PROVE  ent'.expires >= ent.expires
  <2>1. ent \in EntitlementRow
    BY <1>1 DEF Inv, TypeOK
  <2>2. ent.expires \in Int /\ ent.snapshot \in Int
    BY <2>1 DEF EntitlementRow
  <2>3. CASE ent' = ent
    BY <2>2, <2>3
  <2>4. CASE \E w \in Worker : CommitSync(w)
    BY <2>1, <2>2, <2>4 DEF CommitSync, EntitlementRow
  <2>5. CASE \E w \in Worker : CommitPaid(w)
    <3> PICK w \in Worker : CommitPaid(w) BY <2>5
    <3>1. Number(w) \in Int
      BY <1>1, WorkerKinds DEF Inv, CommitPaid, Invoice
    <3>2. CASE ent' = [ent EXCEPT !.expires = Number(w)] /\ ent.expires < Number(w)
      BY <2>1, <2>2, <3>1, <3>2 DEF EntitlementRow
    <3> QED BY <2>3, <3>2 DEF CommitPaid
  <2>6. ~Amend
    <3>1. ASSUME NEW seats, NEW expires, NEW next,
                 ent' = [ent EXCEPT !.snapshot = next, !.seats = seats, !.expires = expires]
          PROVE  ent'.snapshot = next
      BY <2>1, <3>1 DEF EntitlementRow
    <3>2. Amend => ent'.snapshot = ent.snapshot + 1
      BY <3>1 DEF Amend
    <3> QED BY <1>1, <2>2, <3>2
  <2> QED BY <1>1, <2>3, <2>4, <2>5, <2>6, EntKept
<1>2. Inv /\ [Next]_vars
        => [ent # NoEnt /\ ent'.snapshot = ent.snapshot => ent'.expires >= ent.expires]_vars
  BY <1>1
<1> QED BY <1>2, Invariance, PTL DEF Spec, NeverShortened

\* A checkout that was fulfilled stays fulfilled, however its session's events come and
\* whether or not a failed payment is tried again.
THEOREM FulfilledStays == Spec => CompletedStays
<1>1. ASSUME [Next]_vars, checkout = "completed" PROVE checkout' = "completed"
  <2>1. Stripe => checkout' = checkout
    BY DEF Stripe, Complete, Expire, AsyncSucceed, AsyncFail, Renew, Cancel, ChangeQuantity,
           FailPayment, PayInvoice, Raise, rows
  <2>2. Reconcile \/ ReconcileCheckout \/ (\E e \in Event : Redeliver(e)) \/ Amend
          => checkout' = checkout
    BY DEF Reconcile, ReconcileCheckout, Redeliver, Amend, rows
  <2>3. \A w \in Worker : (Crash(w) \/ \E e \in Event : Begin(w, e)) => checkout' = checkout
    BY DEF Crash, Begin, rows
  <2>4. ASSUME NEW w \in Worker, Run(w) PROVE checkout' = "completed"
    <3>1. CASE ExpireCheckout(w) \/ AwaitPayment(w) \/ GiveUp(w) \/ Fulfil(w)
      BY <1>1, <3>1 DEF ExpireCheckout, AwaitPayment, GiveUp, Fulfil
    <3>2. CASE SyncUnknown(w) \/ SyncSame(w) \/ SyncSeats(w) \/ CommitSync(w)
      BY <1>1, <3>2 DEF SyncUnknown, SyncSame, SyncSeats, CommitSync, RetryLater, rows
    <3>3. CASE InvoiceUnknown(w) \/ InvoiceEarly(w) \/ InvoiceIgnored(w)
      BY <1>1, <3>3 DEF InvoiceUnknown, InvoiceEarly, InvoiceIgnored, RetryLater, rows
    <3>4. CASE InvoiceKnown(w) \/ CommitUnpaid(w) \/ CommitPaid(w)
      BY <1>1, <3>4 DEF InvoiceKnown, CommitUnpaid, CommitPaid, rows
    <3> QED BY <2>4, <3>1, <3>2, <3>3, <3>4 DEF Run
  <2>5. UNCHANGED vars => checkout' = checkout
    BY DEF vars, rows
  <2> QED BY <1>1, <2>1, <2>2, <2>3, <2>4, <2>5 DEF Next
<1>2. [Next]_vars => [checkout = "completed" => checkout' = "completed"]_vars
  BY <1>1
<1> QED BY <1>2, PTL DEF Spec, CompletedStays
=============================================================================
