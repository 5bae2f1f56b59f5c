---------------------------- MODULE StripeBilling ----------------------------
(***************************************************************************)
(* The life of one subscription checkout: what Stripe says of it, and what *)
(* the handlers of src/services/billing.ts make of that.  A checkout, its  *)
(* subscription and its entitlement are locked and read by their own ids,  *)
(* so one of each shows every interleaving.                                *)
(*                                                                         *)
(* A handler first fetches an object from Stripe and then works on rows;   *)
(* what it fetched may be old by then.  Its last transaction is one step,  *)
(* except where it locks the subscription and then waits for the           *)
(* entitlement: the statement that locks the entitlement joins its policy  *)
(* snapshot, and after a wait PostgreSQL joins the new row with the        *)
(* snapshot row it had, so that an amendment makes it find nothing.        *)
(*                                                                         *)
(* Invoice i bills the i-th period; its service period ends at instant i.  *)
(* The one component of the offer has a seat for each unit of quantity.    *)
(* Refunds and disputes are in Licensing (Revoke), the event inbox and its *)
(* jobs in JobOutbox.                                                      *)
(*                                                                         *)
(* A definition marked "Variant" is a faulty form of the one that follows. *)
(***************************************************************************)
EXTENDS Integers, FiniteSets

CONSTANTS
    Worker,      \* invocations that may run a handler
    Quantity,    \* quantities of the subscription
    Ordered,     \* checkouts.quantity
    Again,       \* bound: the kinds of events that may be delivered again
    PayAgain,    \* bound: whether a payment that failed may be tried again
    SeatChoice,  \* seats support may set
    ExpiryChoice,\* expiries support may set
    MaxInvoice,  \* bound: periods that are billed
    MaxAmend     \* bound: amendments by support

VARIABLES
    session,     \* the Checkout Session: open, unpaid (complete, payment pending), paid, expired
    asyncFailed, \* checkout.session.async_payment_failed has been received
    sub,         \* the Subscription; status "none" before the session is complete
    bill,        \* the Invoices
    matches,     \* the session agrees with what was priced
    checkout,    \* checkouts.status
    row,         \* the row of subscriptions; status "none" is no row
    ent,         \* the entitlement; status "none" is no row
    invoice,     \* the rows of invoices
    queued,      \* the events whose handler is due
    worker,      \* the handlers that run
    overtaken,   \* an amendment has overtaken a handler that waits for the entitlement (history)
    apart,       \* fulfilment found another quantity than the one ordered, or support has set
                 \* the seats, and no new quantity has been written since (history)
    excused      \* the invoices that were applied before support last set the expiry (history)

stripe == <<session, asyncFailed, sub, bill>>
rows == <<checkout, row, ent, invoice>>
history == <<overtaken, apart, excused>>
vars == <<stripe, matches, rows, queued, worker, history>>

BillingAssumption ==
    /\ Again \subseteq {"session", "subscription", "invoice"} /\ PayAgain \in BOOLEAN
    /\ Quantity \subseteq Nat \ {0} /\ Ordered \in Quantity
    /\ SeatChoice \subseteq Nat \ {0} /\ ExpiryChoice \subseteq Nat
    /\ MaxInvoice \in Nat \ {0} /\ MaxAmend \in Nat

ASSUME BillingAssumption

-----------------------------------------------------------------------------
(* Rows, events and handlers                                                *)

Invoice == 1..MaxInvoice

Session == {"open", "unpaid", "paid", "expired"}
CheckoutStatus == {"open", "awaiting_payment", "failed", "expired", "completed"}

Subscription == [status : {"active", "canceled"}, quantity : Quantity, period : Invoice]
SubscriptionRow == [status : {"active", "canceled"}, quantity : Quantity]
NoSub == [status |-> "none"]

\* upsertSubscription(): what the row keeps of the object.
RowOf(s) == [status |-> s.status, quantity |-> s.quantity]

EntitlementRow == [status : {"active"}, expires : Nat, seats : Nat \ {0}, snapshot : 0..MaxAmend]
NoEnt == [status |-> "none"]

InvoiceRow == [status : {"none", "open", "paid"}, applied : BOOLEAN]

Event == {<<"session", 0>>, <<"subscription", 0>>} \cup {<<"invoice", i>> : i \in Invoice}

TheSession == <<"session", 0>>
TheSubscription == <<"subscription", 0>>
The(i) == <<"invoice", i>>

\* got: the object that was fetched.  seen: the policy snapshot the waiting statement had.
Handler ==
       [pc : {"fetched", "awaiting"}, event : {TheSession}, session : Session,
        got : Subscription \cup {NoSub}]
  \cup [pc : {"fetched"}, event : {TheSubscription}, got : SubscriptionRow]
  \cup [pc : {"reading"}, event : {TheSubscription}, got : SubscriptionRow, seen : 0..MaxAmend]
  \cup [pc : {"fetched", "unknown"}, event : {The(i) : i \in Invoice}, got : {"open", "paid"}]
  \cup [pc : {"reading"}, event : {The(i) : i \in Invoice}, got : {"open", "paid"},
        seen : 0..MaxAmend]

Idle == [pc |-> "idle"]

Has(w, pc, kind) == worker[w].pc = pc /\ worker[w].event[1] = kind
Number(w) == worker[w].event[2]

\* Whoever waits for the entitlement holds the row of the subscription.
SubscriptionFree == \A w \in Worker : worker[w].pc # "reading"

\* The rows the waiting statement finds.
Found(w) == ent.status # "none" /\ ent.snapshot = worker[w].seen

TypeOK ==
    /\ session \in Session /\ asyncFailed \in BOOLEAN
    /\ sub \in Subscription \cup {NoSub}
    /\ bill \in [Invoice -> {"none", "open", "paid"}]
    /\ matches \in BOOLEAN
    /\ checkout \in CheckoutStatus
    /\ row \in SubscriptionRow \cup {NoSub}
    /\ ent \in EntitlementRow \cup {NoEnt}
    /\ invoice \in [Invoice -> InvoiceRow]
    /\ queued \subseteq Event
    /\ worker \in [Worker -> Handler \cup {Idle}]
    /\ overtaken \in BOOLEAN /\ apart \in BOOLEAN /\ excused \subseteq Invoice

Init ==
    /\ session = "open" /\ asyncFailed = FALSE
    /\ sub = NoSub
    /\ bill = [i \in Invoice |-> "none"]
    /\ matches \in BOOLEAN
    /\ checkout = "open"
    /\ row = NoSub /\ ent = NoEnt
    /\ invoice = [i \in Invoice |-> [status |-> "none", applied |-> FALSE]]
    /\ queued = {}
    /\ worker = [w \in Worker |-> Idle]
    /\ overtaken = FALSE /\ apart = FALSE /\ excused = {}

-----------------------------------------------------------------------------
(* Stripe: each change raises its events, which are received sooner or later *)

Raise(events) ==
    /\ queued' = queued \cup events
    /\ UNCHANGED <<matches, rows, worker, history>>

\* The customer completes the session; the payment may take its time.
Complete ==
    /\ session = "open"
    /\ \E how \in {"paid", "unpaid"} :
         /\ session' = how
         /\ bill' = [bill EXCEPT ![1] = IF how = "paid" THEN "paid" ELSE "open"]
         /\ Raise({TheSession, TheSubscription} \cup {The(1) : x \in {how} \cap {"paid"}})
    /\ sub' = [status |-> "active", quantity |-> Ordered, period |-> 1]
    /\ UNCHANGED asyncFailed

Expire ==
    /\ session = "open"
    /\ session' = "expired"
    /\ Raise({TheSession})
    /\ UNCHANGED <<asyncFailed, sub, bill>>

\* The payment succeeds, at the first attempt or at a later one.
AsyncSucceed ==
    /\ session = "unpaid" /\ (asyncFailed => PayAgain)
    /\ session' = "paid"
    /\ bill' = [bill EXCEPT ![1] = "paid"]
    /\ Raise({TheSession, The(1)})
    /\ UNCHANGED <<asyncFailed, sub>>

AsyncFail ==
    /\ session = "unpaid" /\ ~asyncFailed
    /\ asyncFailed' = TRUE
    /\ Raise({TheSession})
    /\ UNCHANGED <<session, sub, bill>>

Live == sub.status = "active"

ChangeQuantity(q) ==
    /\ Live
    /\ sub.quantity # q
    /\ sub' = [sub EXCEPT !.quantity = q]
    /\ Raise({TheSubscription})
    /\ UNCHANGED <<session, asyncFailed, bill>>

\* The next period begins and its invoice is opened.
Renew ==
    /\ Live /\ session = "paid"
    /\ sub.period < MaxInvoice
    /\ sub' = [sub EXCEPT !.period = sub.period + 1]
    /\ bill' = [bill EXCEPT ![sub.period + 1] = "open"]
    /\ Raise({TheSubscription})
    /\ UNCHANGED <<session, asyncFailed>>

\* invoice.payment_failed: a renewal that is still to be paid.
FailPayment(i) ==
    /\ Live /\ i > 1
    /\ bill[i] = "open"
    /\ Raise({The(i)})
    /\ UNCHANGED stripe

\* invoice.paid
PayInvoice(i) ==
    /\ i > 1
    /\ bill[i] = "open"
    /\ bill' = [bill EXCEPT ![i] = "paid"]
    /\ Raise({The(i)})
    /\ UNCHANGED <<session, asyncFailed, sub>>

Cancel ==
    /\ Live
    /\ sub' = [sub EXCEPT !.status = "canceled"]
    /\ Raise({TheSubscription})
    /\ UNCHANGED <<session, asyncFailed, bill>>

Occurred(e) ==
    \/ e = TheSession /\ session # "open"
    \/ e = TheSubscription /\ sub # NoSub
    \/ \E i \in Invoice : e = The(i) /\ bill[i] = "paid"

\* A webhook is delivered again, an operator replays an event or backfills.
Redeliver(e) ==
    /\ e[1] \in Again /\ Occurred(e)
    /\ queued' = queued \cup {e}
    /\ UNCHANGED <<stripe, matches, rows, worker, history>>

-----------------------------------------------------------------------------
(* Running handlers                                                         *)

Fetched(e) ==
    CASE e = TheSession ->
           [pc |-> "fetched", event |-> e, session |-> session,
            got |-> IF session = "paid" THEN sub ELSE NoSub]
      [] e = TheSubscription -> [pc |-> "fetched", event |-> e, got |-> RowOf(sub)]
      [] OTHER -> [pc |-> "fetched", event |-> e, got |-> bill[e[2]]]

\* processStripeEvent() and the fetch the handler begins with.
Begin(w, e) ==
    /\ worker[w] = Idle
    /\ e \in queued
    /\ queued' = queued \ {e}
    /\ worker' = [worker EXCEPT ![w] = Fetched(e)]
    /\ UNCHANGED <<stripe, matches, rows, history>>

Done(w) ==
    /\ worker' = [worker EXCEPT ![w] = Idle]
    /\ UNCHANGED <<stripe, matches, queued, overtaken, excused>>

\* RetryLater: the job comes back.
RetryLater(w) ==
    /\ worker' = [worker EXCEPT ![w] = Idle]
    /\ queued' = queued \cup {worker[w].event}
    /\ UNCHANGED <<stripe, matches, rows, history>>

\* The invocation is cut short, or a statement fails: rolled back, and tried again.
Crash(w) ==
    /\ worker[w] # Idle
    /\ worker' = [worker EXCEPT ![w] = Idle]
    /\ queued' = queued \cup {worker[w].event}
    /\ UNCHANGED <<stripe, matches, rows, history>>

\* Variant: invoices that were paid are not asked for.
ReconcileSubscription ==
    /\ row.status = "active"
    /\ queued' = queued \cup {TheSubscription}
    /\ UNCHANGED <<stripe, matches, rows, worker, history>>

\* reconcileSubscriptions(): synchronises the subscriptions whose row is not canceled
\* and handles the invoices that Stripe lists as paid.
Reconcile ==
    /\ row.status = "active"
    /\ queued' = queued \cup {TheSubscription}
                        \cup {The(i) : i \in {j \in Invoice : bill[j] = "paid"}}
    /\ UNCHANGED <<stripe, matches, rows, worker, history>>

\* reconcileCheckouts()
ReconcileCheckout ==
    /\ checkout \in {"open", "awaiting_payment"}
    /\ session # "open"
    /\ queued' = queued \cup {TheSession}
    /\ UNCHANGED <<stripe, matches, rows, worker, history>>

-----------------------------------------------------------------------------
(* handleCheckoutSession(), fulfilCheckout()                                *)

\* UPDATE checkouts SET status = 'expired' ... status IN ('open', 'awaiting_payment', ...)
ExpireCheckout(w) ==
    /\ Has(w, "fetched", "session") /\ worker[w].session = "expired"
    /\ checkout' = IF checkout \in {"open", "awaiting_payment"} THEN "expired" ELSE checkout
    /\ Done(w)
    /\ UNCHANGED <<row, ent, invoice, apart>>

\* Variant: without status = 'open'.
AwaitPaymentAlways(w) ==
    /\ Has(w, "fetched", "session") /\ worker[w].session = "unpaid"
    /\ checkout' = "awaiting_payment"
    /\ worker' = [worker EXCEPT ![w].pc = "awaiting"]
    /\ UNCHANGED <<stripe, matches, row, ent, invoice, queued, history>>

\* Asynchronous payment: the checkout waits, unless a later state was written before.
AwaitPayment(w) ==
    /\ Has(w, "fetched", "session") /\ worker[w].session = "unpaid"
    /\ checkout' = IF checkout = "open" THEN "awaiting_payment" ELSE checkout
    /\ worker' = [worker EXCEPT ![w].pc = "awaiting"]
    /\ UNCHANGED <<stripe, matches, row, ent, invoice, queued, history>>

\* After the second statement has asked for the event of the failed payment.
GiveUp(w) ==
    /\ Has(w, "awaiting", "session")
    /\ checkout' = IF asyncFailed /\ checkout # "completed" THEN "failed" ELSE checkout
    /\ Done(w)
    /\ UNCHANGED <<row, ent, invoice, apart>>

\* Variant: only a checkout that is open.
FulfilOpen(w) ==
    /\ Has(w, "fetched", "session") /\ worker[w].session = "paid"
    /\ IF checkout # "open"
         THEN UNCHANGED <<checkout, row, ent, apart>>
       ELSE IF ~matches
         THEN checkout' = "failed" /\ UNCHANGED <<row, ent, apart>>
       ELSE /\ checkout' = "completed"
            /\ row' = RowOf(worker[w].got)
            /\ ent' = [status |-> "active", expires |-> worker[w].got.period,
                       seats |-> Ordered, snapshot |-> 0]
            /\ apart' = (worker[w].got.quantity # Ordered)
    /\ Done(w)
    /\ UNCHANGED invoice

\* One transaction under the lock of the checkout.
Fulfil(w) ==
    /\ Has(w, "fetched", "session") /\ worker[w].session = "paid"
    /\ IF checkout = "completed"
         THEN UNCHANGED <<checkout, row, ent, apart>>
       ELSE IF ~matches
         THEN checkout' = "failed" /\ UNCHANGED <<row, ent, apart>>
       ELSE /\ checkout' = "completed"
            /\ row' = RowOf(worker[w].got)
            /\ ent' = [status |-> "active", expires |-> worker[w].got.period,
                       seats |-> Ordered, snapshot |-> 0]
            /\ apart' = (worker[w].got.quantity # Ordered)
    /\ Done(w)
    /\ UNCHANGED invoice

-----------------------------------------------------------------------------
(* syncSubscription()                                                       *)

SyncUnknown(w) ==
    /\ Has(w, "fetched", "subscription")
    /\ row = NoSub
    /\ RetryLater(w)

\* Variant: the quantity is compared after the row has been written.
SyncRowFirst(w) ==
    /\ Has(w, "fetched", "subscription")
    /\ row # NoSub /\ SubscriptionFree
    /\ row' = worker[w].got
    /\ Done(w)
    /\ UNCHANGED <<checkout, ent, invoice, apart>>

\* Variant: nothing is written when the quantity is the same.
SyncSameUnwritten(w) ==
    /\ Has(w, "fetched", "subscription")
    /\ row # NoSub /\ SubscriptionFree
    /\ row.quantity = worker[w].got.quantity
    /\ Done(w)
    /\ UNCHANGED <<rows, apart>>

\* The quantity is the one the row has: nothing to wait for.
SyncSame(w) ==
    /\ Has(w, "fetched", "subscription")
    /\ row # NoSub /\ SubscriptionFree
    /\ row.quantity = worker[w].got.quantity
    /\ row' = worker[w].got
    /\ Done(w)
    /\ UNCHANGED <<checkout, ent, invoice, apart>>

\* The statement that locks the entitlement begins.
SyncSeats(w) ==
    /\ Has(w, "fetched", "subscription")
    /\ row # NoSub /\ SubscriptionFree
    /\ row.quantity # worker[w].got.quantity
    /\ worker' = [worker EXCEPT ![w] = [pc |-> "reading", event |-> TheSubscription,
                                       got |-> worker[w].got, seen |-> ent.snapshot]]
    /\ UNCHANGED <<stripe, matches, rows, queued, history>>

\* A change of seats is a new policy snapshot too, but one nothing waits behind.
CommitSync(w) ==
    /\ Has(w, "reading", "subscription")
    /\ row' = worker[w].got
    /\ ent' = IF Found(w) THEN [ent EXCEPT !.seats = worker[w].got.quantity] ELSE ent
    /\ apart' = FALSE
    /\ Done(w)
    /\ UNCHANGED <<checkout, invoice>>

-----------------------------------------------------------------------------
(* handleInvoice()                                                          *)

\* The row of the subscription is looked for, and if there is none the checkout after it.
InvoiceUnknown(w) ==
    /\ Has(w, "fetched", "invoice")
    /\ row = NoSub
    /\ worker' = [worker EXCEPT ![w].pc = "unknown"]
    /\ UNCHANGED <<stripe, matches, rows, queued, history>>

InvoiceEarly(w) ==
    /\ Has(w, "unknown", "invoice")
    /\ checkout \notin {"completed", "failed", "expired"}
    /\ RetryLater(w)

InvoiceIgnored(w) ==
    /\ Has(w, "unknown", "invoice")
    /\ checkout \in {"completed", "failed", "expired"}
    /\ Done(w)
    /\ UNCHANGED <<rows, apart>>

\* The row is locked and the statement that locks the entitlement begins.
InvoiceKnown(w) ==
    /\ Has(w, "fetched", "invoice")
    /\ row # NoSub /\ SubscriptionFree
    /\ worker' = [worker EXCEPT ![w] = [pc |-> "reading", event |-> worker[w].event,
                                       got |-> worker[w].got, seen |-> ent.snapshot]]
    /\ UNCHANGED <<stripe, matches, rows, queued, history>>

\* Variant: an invoice is marked as applied before its status is looked at.
CommitUnpaidApplied(w) ==
    /\ Has(w, "reading", "invoice") /\ worker[w].got = "open"
    /\ invoice' = [invoice EXCEPT ![Number(w)] = [status |-> "open", applied |-> TRUE]]
    /\ Done(w)
    /\ UNCHANGED <<checkout, row, ent, apart>>

\* An invoice that is not paid: its row is written, nothing is extended.
CommitUnpaid(w) ==
    /\ Has(w, "reading", "invoice") /\ worker[w].got = "open"
    /\ invoice' = [invoice EXCEPT ![Number(w)].status = "open"]
    /\ Done(w)
    /\ UNCHANGED <<checkout, row, ent, apart>>

\* Variant: the expiry is set to the period of the invoice, whatever it is.
CommitPaidAnyOrder(w) ==
    /\ Has(w, "reading", "invoice") /\ worker[w].got = "paid"
    /\ invoice' = [invoice EXCEPT ![Number(w)] = [status |-> "paid", applied |-> TRUE]]
    /\ ent' = IF Found(w) /\ ~invoice[Number(w)].applied
                THEN [ent EXCEPT !.expires = Number(w)] ELSE ent
    /\ Done(w)
    /\ UNCHANGED <<checkout, row, apart>>

\* Extended once, and never back.
CommitPaid(w) ==
    /\ Has(w, "reading", "invoice") /\ worker[w].got = "paid"
    /\ invoice' = [invoice EXCEPT ![Number(w)] = [status |-> "paid", applied |-> TRUE]]
    /\ ent' = IF Found(w) /\ ~invoice[Number(w)].applied /\ ent.expires < Number(w)
                THEN [ent EXCEPT !.expires = Number(w)] ELSE ent
    /\ Done(w)
    /\ UNCHANGED <<checkout, row, apart>>

-----------------------------------------------------------------------------
(* Support                                                                  *)

\* amendEntitlement(): another policy snapshot, with the seats and the expiry that
\* support gives or else those the entitlement has.
Amend ==
    /\ ent # NoEnt /\ ent.snapshot < MaxAmend
    /\ \E seats \in SeatChoice \cup {ent.seats}, expires \in ExpiryChoice \cup {ent.expires} :
         /\ ent' = [ent EXCEPT !.snapshot = ent.snapshot + 1, !.seats = seats, !.expires = expires]
         /\ apart' = (apart \/ seats # ent.seats)
         /\ excused' = IF expires # ent.expires THEN {i \in Invoice : invoice[i].applied}
                       ELSE excused
    /\ overtaken' = (overtaken \/ ~SubscriptionFree)
    /\ UNCHANGED <<stripe, matches, checkout, row, invoice, queued, worker>>

Run(w) ==
    \/ ExpireCheckout(w) \/ AwaitPayment(w) \/ GiveUp(w) \/ Fulfil(w)
    \/ SyncUnknown(w) \/ SyncSame(w) \/ SyncSeats(w) \/ CommitSync(w)
    \/ InvoiceUnknown(w) \/ InvoiceEarly(w) \/ InvoiceIgnored(w)
    \/ InvoiceKnown(w) \/ CommitUnpaid(w) \/ CommitPaid(w)

Stripe ==
    \/ Complete \/ Expire \/ AsyncSucceed \/ AsyncFail \/ Renew \/ Cancel
    \/ \E q \in Quantity : ChangeQuantity(q)
    \/ \E i \in Invoice : FailPayment(i) \/ PayInvoice(i)

Next ==
    \/ Stripe
    \/ \E e \in Event : Redeliver(e) \/ \E w \in Worker : Begin(w, e)
    \/ \E w \in Worker : Run(w) \/ Crash(w)
    \/ Reconcile \/ ReconcileCheckout \/ Amend

Spec == Init /\ [][Next]_vars

\* Handlers run on; claimJobs() takes the job that is due longest, so no event is
\* passed over for ever; the daily tick reconciles; invocations are not cut short for
\* ever (a handler that puts its event back looks as if it were).
Fairness ==
    /\ \A w \in Worker : WF_vars(Run(w))
    /\ \A e \in Event : SF_vars(\E w \in Worker : Begin(w, e))
    /\ WF_vars(Reconcile)
    /\ <>[][\A w \in Worker : Crash(w) => SyncUnknown(w) \/ InvoiceEarly(w)]_vars

FairSpec == Spec /\ Fairness

-----------------------------------------------------------------------------
(* Properties                                                               *)

\* A checkout that was fulfilled is never given up afterwards, whatever order the
\* events of its session come in.
CompletedStays == [][checkout = "completed" => checkout' = "completed"]_vars

\* "monotonic expiry": no event shortens what was paid for, however late it comes.
\* (Support may: its amendments are those that change the policy snapshot.)
NeverShortened ==
    [][ ent # NoEnt /\ ent'.snapshot = ent.snapshot => ent'.expires >= ent.expires ]_vars

\* An invoice that counts as applied has extended the entitlement - unless an amendment
\* overtook a handler.  What support makes of the expiry afterwards is its own choice,
\* which no invoice that is applied later falls short of either.
AppliedExtends ==
    ~overtaken => \A i \in Invoice \ excused : invoice[i].applied => ent.expires >= i

\* The seats follow the quantity the row has, through overlapping synchronisations -
\* unless an amendment overtook one.  They may also differ since fulfilment found
\* another quantity than the one ordered, or since support set the seats: the next
\* quantity that is written brings them in line again.
SeatsFollow == ~overtaken /\ ~apart /\ ent # NoEnt => ent.seats = row.quantity

\* Fulfilment happens although payments settle late and events come out of order.
PaidIsFulfilled == session = "paid" /\ matches ~> checkout = "completed"

\* A paid invoice is applied in the end, by its event or by reconciliation, as long
\* as the subscription is not canceled.
PaidIsApplied ==
    \A i \in Invoice :
      bill[i] = "paid" /\ matches ~> invoice[i].applied \/ row.status = "canceled"

\* Once Stripe changes the subscription no more, its row ends up as Stripe has it,
\* although older answers may be written last.
Settles == <>[][FALSE]_sub => <>[](row # NoSub => row = RowOf(sub))

\* src/services/billing.ts:9: "one extension per invoice, monotonic expiry".
OneExtensionPerInvoice == \A i \in Invoice : invoice[i].applied => ent.expires >= i
=============================================================================
