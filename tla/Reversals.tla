------------------------------ MODULE Reversals ------------------------------
(***************************************************************************)
(* Refunds and disputes of one payment, src/services/billing.ts: how an    *)
(* event finds the licences that were paid for, and what becomes of them   *)
(* under the policy of each (revokeInTx() of services/licensing.ts).       *)
(*                                                                         *)
(* The payment bought a purchase, or renewed a subscription; until the     *)
(* event of that has been handled, a reversal finds nothing.  A handler    *)
(* asks Stripe for the charge or the dispute, then writes what it saw in   *)
(* one transaction that keeps every row it has locked, hence atomic here;  *)
(* a handler that fails, or that the database picks to end a deadlock,     *)
(* leaves nothing (BreakOff) and its event is handled again, as it is when *)
(* an operator replays it.                                                 *)
(*                                                                         *)
(* A definition marked "Variant" is a faulty form of the one that follows. *)
(***************************************************************************)
EXTENDS Naturals

CONSTANTS
    Licence,    \* the licences that were paid for
    Handler,    \* invocations that handle events
    Policy      \* [refund, dispute]: refund_action and dispute_action of components

Measure == {"revoke", "review", "none"}

ASSUME ReversalAssumption == Policy \subseteq [refund : Measure, dispute : Measure]

VARIABLES
    policy,      \* of each licence
    renewal,     \* the payment renewed a subscription
    known,       \* its purchase or its invoice has been stored
    purchase,    \* the row of the purchase, if there is one
    licence,     \* entitlements: revoked, review_required
    revocations, \* causes under which each was revoked
    charge,      \* Stripe: what has been paid back
    dispute,     \* Stripe: whether the payment is disputed
    handling,
    applied,     \* history: a refund in full was applied
    restored     \* history: licences support restored although the payment was paid back

reversalVars == <<policy, renewal, known, purchase, licence, revocations, charge, dispute,
                  handling, applied, restored>>

Stripe == <<charge, dispute>>

Refunds == {"paid", "part", "full"}
Event == {"charge.refunded", "charge.dispute.created", "charge.dispute.closed"}
Resting == [event |-> "none", saw |-> "none"]

ReversalTypeOK ==
    /\ policy \in [Licence -> Policy]
    /\ renewal \in BOOLEAN
    /\ known \in BOOLEAN
    /\ purchase \in [status : {"completed", "partially_refunded", "refunded", "disputed"},
                     refunded : Refunds]
    /\ licence \in [Licence -> [revoked : BOOLEAN, review : BOOLEAN]]
    /\ revocations \subseteq Licence \X {"refund", "dispute"}
    /\ charge \in Refunds
    /\ dispute \in {"none", "open", "closed"}
    /\ handling \in [Handler -> [event : Event \cup {"none"}, saw : Refunds \cup {"none"}]]
    /\ applied \in BOOLEAN
    /\ restored \subseteq Licence

ReversalInit ==
    /\ policy \in [Licence -> Policy]
    /\ renewal \in BOOLEAN
    /\ known = FALSE
    /\ purchase = [status |-> "completed", refunded |-> "paid"]
    /\ licence = [l \in Licence |-> [revoked |-> FALSE, review |-> FALSE]]
    /\ revocations = {}
    /\ charge = "paid"
    /\ dispute = "none"
    /\ handling = [h \in Handler |-> Resting]
    /\ applied = FALSE
    /\ restored = {}

-----------------------------------------------------------------------------
(* Stripe                                                                   *)

PayBack(to) ==
    /\ charge # "full"
    /\ to # "paid"
    /\ charge' = to
    /\ UNCHANGED <<policy, renewal, known, purchase, licence, revocations, dispute, handling,
                   applied, restored>>

Contest ==
    /\ dispute # "closed"
    /\ dispute' = IF dispute = "none" THEN "open" ELSE "closed"
    /\ UNCHANGED <<policy, renewal, known, purchase, licence, revocations, charge, handling,
                   applied, restored>>

Sent(event) ==
    CASE event = "charge.refunded" -> charge # "paid"
      [] event = "charge.dispute.created" -> dispute # "none"
      [] event = "charge.dispute.closed" -> dispute = "closed"

-----------------------------------------------------------------------------
(* Handlers                                                                 *)

\* fulfilCheckout() or handleInvoice() has stored what was paid for.
Store ==
    /\ ~known
    /\ known' = TRUE
    /\ UNCHANGED <<policy, renewal, purchase, licence, revocations, Stripe, handling, applied,
                   restored>>

\* handleRefund() and handleDispute() ask Stripe.
Fetch(h, event) ==
    /\ handling[h] = Resting
    /\ Sent(event)
    /\ handling' = [handling EXCEPT ![h] =
         [event |-> event, saw |-> IF event = "charge.refunded" THEN charge ELSE "none"]]
    /\ UNCHANGED <<policy, renewal, known, purchase, licence, revocations, Stripe, applied, restored>>

Return(h) == handling' = [handling EXCEPT ![h] = Resting]

\* entitlementsForPayment() finds nothing: a refund is noted in the audit trail only.
Unmapped(h) ==
    /\ handling[h] # Resting
    /\ ~known
    /\ Return(h)
    /\ UNCHANGED <<policy, renewal, known, purchase, licence, revocations, Stripe, applied, restored>>

\* Variant: an entitlement is revoked once, whatever for.
AlreadyAnyCause(l, cause) == \E c \in {"refund", "dispute"} : <<l, c>> \in revocations

\* The unique index of revocations.
Already(l, cause) == <<l, cause>> \in revocations

\* applyPaymentReversal(): what each licence's policy asks for, with revokeInTx().
Reverse(cause, measure) ==
    LET revoked == {l \in Licence : measure[l] = "revoke"} IN
    /\ licence' = [l \in Licence |->
         [revoked |-> licence[l].revoked \/ (l \in revoked /\ ~Already(l, cause)),
          review |-> licence[l].review \/ measure[l] = "review"]]
    /\ revocations' = revocations \cup (revoked \X {cause})

\* The rest of handleRefund().
CommitRefund(h) ==
    LET full == handling[h].saw = "full" IN
    /\ handling[h].event = "charge.refunded"
    /\ known
    /\ purchase' = IF renewal THEN purchase
                   ELSE [status |-> IF full THEN "refunded" ELSE "partially_refunded",
                         refunded |-> handling[h].saw]
    /\ Reverse("refund", [l \in Licence |-> IF full THEN policy[l].refund ELSE "review"])
    /\ applied' = (applied \/ full)
    /\ Return(h)
    /\ UNCHANGED <<policy, renewal, known, Stripe, restored>>

\* The rest of handleDispute(), of one that was opened.
CommitDispute(h) ==
    /\ handling[h].event = "charge.dispute.created"
    /\ known
    /\ purchase' = IF renewal THEN purchase ELSE [purchase EXCEPT !.status = "disputed"]
    /\ Reverse("dispute", [l \in Licence |-> policy[l].dispute])
    /\ Return(h)
    /\ UNCHANGED <<policy, renewal, known, Stripe, applied, restored>>

\* Variant: a dispute that was won restores the licences it revoked.
CommitClosedRestoring(h) ==
    /\ handling[h].event = "charge.dispute.closed"
    /\ known
    /\ licence' = [l \in Licence |-> [revoked |-> FALSE, review |-> TRUE]]
    /\ Return(h)
    /\ UNCHANGED <<policy, renewal, known, purchase, revocations, Stripe, applied, restored>>

\* Of one that was closed: every licence is to be reviewed.
CommitClosed(h) ==
    /\ handling[h].event = "charge.dispute.closed"
    /\ known
    /\ licence' = [l \in Licence |-> [licence[l] EXCEPT !.review = TRUE]]
    /\ Return(h)
    /\ UNCHANGED <<policy, renewal, known, purchase, revocations, Stripe, applied, restored>>

BreakOff(h) ==
    /\ handling[h] # Resting
    /\ Return(h)
    /\ UNCHANGED <<policy, renewal, known, purchase, licence, revocations, Stripe, applied, restored>>

-----------------------------------------------------------------------------
(* Support                                                                  *)

\* revokeEntitlement()
RevokeBySupport(l) ==
    /\ known
    /\ licence' = [licence EXCEPT ![l].revoked = TRUE]
    /\ UNCHANGED <<policy, renewal, known, purchase, revocations, Stripe, handling, applied, restored>>

\* unrevokeEntitlement()
Unrevoke(l) ==
    /\ licence[l].revoked
    /\ licence' = [licence EXCEPT ![l].revoked = FALSE]
    /\ restored' = IF <<l, "refund">> \in revocations THEN restored \cup {l} ELSE restored
    /\ UNCHANGED <<policy, renewal, known, purchase, revocations, Stripe, handling, applied>>

\* amendEntitlement() with clearReview.
MarkReviewed(l) ==
    /\ licence[l].review
    /\ licence' = [licence EXCEPT ![l].review = FALSE]
    /\ UNCHANGED <<policy, renewal, known, purchase, revocations, Stripe, handling, applied, restored>>

-----------------------------------------------------------------------------

Handle(h) ==
    \/ \E event \in Event : Fetch(h, event)
    \/ Unmapped(h)
    \/ CommitRefund(h) \/ CommitDispute(h) \/ CommitClosed(h)
    \/ BreakOff(h)

ReversalNext ==
    \/ \E to \in Refunds : PayBack(to)
    \/ Contest
    \/ Store
    \/ \E h \in Handler : Handle(h)
    \/ \E l \in Licence : RevokeBySupport(l) \/ Unrevoke(l) \/ MarkReviewed(l)

ReversalSpec == ReversalInit /\ [][ReversalNext]_reversalVars

-----------------------------------------------------------------------------
(* Properties                                                               *)

\* A refund in full that was applied leaves no licence whose policy is to revoke in force,
\* unless support restored it knowing of the refund; whatever disputes, partial refunds,
\* earlier revocations and their reversal came before or overlapped it.
RefundTakesEffect ==
    applied => \A l \in Licence :
                 policy[l].refund = "revoke" => licence[l].revoked \/ l \in restored

\* Stripe never takes a licence for less than a refund in full or a dispute.
RevokedForCause ==
    \A l \in Licence :
      /\ <<l, "refund">> \in revocations => charge = "full" /\ policy[l].refund = "revoke"
      /\ <<l, "dispute">> \in revocations => dispute # "none" /\ policy[l].dispute = "revoke"
=============================================================================
