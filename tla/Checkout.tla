------------------------------ MODULE Checkout ------------------------------
(***************************************************************************)
(* Opening a checkout: src/services/checkout.ts, and what it needs of      *)
(* Stripe, src/services/stripe-sync.ts: the product of the offer and the   *)
(* customer of the buyer, each made at most once and linked.               *)
(*                                                                         *)
(* One offer and one buyer; several checkouts (idempotency keys), each     *)
(* submitted by several callers, because a buyer submits twice or retries. *)
(* Every statement and every call of Stripe is a step of its own.  A call  *)
(* of Stripe may fail, may be carried out and its answer be lost, and      *)
(* carries an idempotency key under which Stripe repeats its answer for a  *)
(* day.  Its search of products sees a new one only after a while.         *)
(*                                                                         *)
(* What becomes of an open checkout is in StripeBilling; here the webhooks *)
(* only write its status.  The state of the link, which syncOffer() writes *)
(* and no checkout reads, is in Catalogue, where it matters to offers.     *)
(*                                                                         *)
(* A definition marked "Variant" is a faulty form of the one that follows. *)
(***************************************************************************)
EXTENDS Integers, FiniteSets

CONSTANTS
    Order,      \* idempotency keys of checkouts
    Caller,     \* requests that submit one
    MaxFault,   \* bound: failed calls, lost answers, failed statements, requests cut short
    MaxSell,    \* bound: products archived or reactivated in Stripe
    Relinking   \* administrators link a product (BOOLEAN)

ASSUME CheckoutAssumption ==
    /\ MaxFault \in Nat
    /\ MaxSell \in Nat
    /\ Relinking \in BOOLEAN

VARIABLES
    order,     \* checkouts: status
    opened,    \* checkouts: stripe_checkout_session_id, 0 for NULL
    mapping,   \* stripe_product_mappings.stripe_product_id of the offer, 0 for NULL
    buyer,     \* customers.stripe_customer_id, 0 for NULL
    caller,    \* where each request stands
    stripe,    \* what Stripe has
    faults,
    linking    \* an administrator's link has been checked and not yet written

checkoutVars == <<order, opened, mapping, buyer, caller, stripe, faults, linking>>

-----------------------------------------------------------------------------
(* Rows, requests and Stripe                                                *)

OrderStatus == {"none", "creating", "open", "awaiting_payment", "completed", "expired", "failed"}

\* Products: those the server has made, by number, and the one an administrator chose.
MaxMade == 1 + MaxFault
Chosen == MaxMade + 1
Product == 1..Chosen

\* At: the checkout; product, customer: those found or made for it.
Visit == [pc : {"idle", "screening", "inserting", "starting", "waiting", "searching", "making", "linking",
                "buyer", "listing", "customer", "claiming", "posting", "opening", "failing"},
          at : Order \cup {<<>>}, product : {0} \cup Product, customer : 0..(1 + MaxFault)]

Away == [pc |-> "idle", at |-> <<>>, product |-> 0, customer |-> 0]

\* made: products the server has made; found: those search sees; sellable: active ones;
\* repeats: products made that an idempotency key still repeats; customers, sessions: how
\* many there are; sold: the product of each session.
Provider == [made : 0..MaxMade, found : SUBSET Product, sellable : SUBSET Product,
             repeats : 0..MaxMade, customers : 0..(1 + MaxFault),
             sessions : [Order -> 0..2], sold : [Order -> {0} \cup Product],
             changes : 0..MaxSell]

CheckoutTypeOK ==
    /\ order \in [Order -> OrderStatus]
    /\ opened \in [Order -> 0..2]
    /\ mapping \in {0} \cup Product
    /\ buyer \in 0..(1 + MaxFault)
    /\ caller \in [Caller -> Visit]
    /\ \A c \in Caller : caller[c].pc # "idle" => caller[c].at \in Order
    /\ stripe \in Provider
    /\ faults \in 0..MaxFault
    /\ linking \in BOOLEAN

CheckoutInit ==
    /\ order = [k \in Order |-> "none"]
    /\ opened = [k \in Order |-> 0]
    /\ mapping = 0
    /\ buyer = 0
    /\ caller = [c \in Caller |-> Away]
    /\ stripe = [made |-> 0, found |-> {}, sellable |-> Product, repeats |-> 0, customers |-> 0,
                 sessions |-> [k \in Order |-> 0], sold |-> [k \in Order |-> 0], changes |-> 0]
    /\ faults = 0
    /\ linking = FALSE

Is(c, pc) == caller[c].pc = pc
Goes(c, pc) == caller' = [caller EXCEPT ![c].pc = pc]
Leaves(c) == caller' = [caller EXCEPT ![c] = Away]

\* A call or statement fails: the checkout is to be marked failed.
Fault(c) ==
    /\ faults < MaxFault
    /\ faults' = faults + 1
    /\ Goes(c, "failing")

-----------------------------------------------------------------------------
(* createCheckout()                                                         *)

\* The checkout is looked up: a new one is looked into, one that has not been opened is
\* tried again; of any other the answer is what it is.
Submit(c, k) ==
    /\ Is(c, "idle")
    /\ order[k] \in {"none", "creating", "failed"}
    /\ caller' = [caller EXCEPT ![c] = [Away EXCEPT
         !.at = k, !.pc = IF order[k] = "none" THEN "screening" ELSE "starting"]]
    /\ UNCHANGED <<order, opened, mapping, buyer, stripe, faults, linking>>

\* The offer, the quantity, the customer, what he owns already and the policies are read,
\* a statement each; any of them may turn the buyer away, nothing is locked.
Screen(c) ==
    /\ Is(c, "screening")
    /\ Goes(c, "inserting") \/ Leaves(c)
    /\ UNCHANGED <<order, opened, mapping, buyer, stripe, faults, linking>>

\* ON CONFLICT (idempotency_key) DO NOTHING: whoever comes second looks for a row under
\* the id it made up, and is told that there is none.
InsertCheckout(c) ==
    LET k == caller[c].at IN
    /\ Is(c, "inserting")
    /\ IF order[k] = "none"
       THEN order' = [order EXCEPT ![k] = "creating"] /\ Goes(c, "starting")
       ELSE order' = order /\ Leaves(c)
    /\ UNCHANGED <<opened, mapping, buyer, stripe, faults, linking>>

-----------------------------------------------------------------------------
(* ensureStripeProduct()                                                    *)

UseProduct(c, p) == caller' = [caller EXCEPT ![c].pc = "buyer", ![c].product = p]

ReadMapping(c) ==
    /\ Is(c, "starting")
    /\ IF mapping # 0 THEN UseProduct(c, mapping) ELSE Goes(c, "waiting")
    /\ UNCHANGED <<order, opened, mapping, buyer, stripe, faults, linking>>

\* The mapping's row is locked from here to the end of the transaction.
MappingLocked == \E c \in Caller : caller[c].pc \in {"searching", "making", "linking"}

RereadMapping(c) ==
    /\ Is(c, "waiting")
    /\ IF mapping # 0 THEN UseProduct(c, mapping) ELSE Goes(c, "searching")
    /\ UNCHANGED <<order, opened, mapping, buyer, stripe, faults, linking>>

LockMapping(c) == ~MappingLocked /\ RereadMapping(c)

\* searchStripeProducts() for products tagged with the offer.
SearchProduct(c) ==
    LET tagged == stripe.found IN
    /\ Is(c, "searching")
    /\ \/ /\ Cardinality(tagged) > 1 \/ ~(tagged \subseteq stripe.sellable)
          /\ Goes(c, "failing")
          /\ UNCHANGED faults
       \/ /\ Cardinality(tagged) <= 1 /\ tagged \subseteq stripe.sellable
          /\ \E p \in IF tagged = {} THEN {0} ELSE tagged :
               caller' = [caller EXCEPT ![c].pc = "making", ![c].product = p]
          /\ UNCHANGED faults
       \/ Fault(c)
    /\ UNCHANGED <<order, opened, mapping, buyer, stripe, linking>>

\* POST /v1/products under the key of the offer: Stripe repeats its answer, or makes one.
Made == IF stripe.repeats # 0 THEN stripe
        ELSE [stripe EXCEPT !.made = @ + 1, !.repeats = stripe.made + 1]

\* Variant: nothing is searched and the key is of the request.
MakeProductAnyway(c) ==
    /\ Is(c, "making")
    /\ stripe' = [stripe EXCEPT !.made = @ + 1, !.repeats = stripe.made + 1]
    /\ \/ /\ caller' = [caller EXCEPT ![c].pc = "linking", ![c].product = stripe'.repeats]
          /\ UNCHANGED faults
       \/ Fault(c)
    /\ UNCHANGED <<order, opened, mapping, buyer, linking>>

MakeProduct(c) ==
    /\ Is(c, "making")
    /\ \/ /\ caller[c].product # 0
          /\ Goes(c, "linking")
          /\ UNCHANGED <<stripe, faults>>
       \/ /\ caller[c].product = 0
          /\ stripe' = Made
          /\ \/ /\ caller' = [caller EXCEPT ![c].pc = "linking", ![c].product = Made.repeats]
                /\ UNCHANGED faults
             \/ Fault(c)
       \/ /\ caller[c].product = 0
          /\ Fault(c)
          /\ UNCHANGED stripe
    /\ UNCHANGED <<order, opened, mapping, buyer, linking>>

\* The transaction commits, or is undone.
LinkProduct(c) ==
    /\ Is(c, "linking")
    /\ \/ /\ mapping' = caller[c].product
          /\ UseProduct(c, caller[c].product)
          /\ UNCHANGED faults
       \/ Fault(c) /\ UNCHANGED mapping
    /\ UNCHANGED <<order, opened, buyer, stripe, linking>>

-----------------------------------------------------------------------------
(* ensureStripeCustomer()                                                   *)

ReadBuyer(c) ==
    /\ Is(c, "buyer")
    /\ caller' = [caller EXCEPT ![c].pc = IF buyer # 0 THEN "posting" ELSE "listing",
                                ![c].customer = buyer]
    /\ UNCHANGED <<order, opened, mapping, buyer, stripe, faults, linking>>

\* Stripe's oldest customer with the address, if it has one.
ListCustomers(c) ==
    /\ Is(c, "listing")
    /\ \/ /\ caller' = [caller EXCEPT
               ![c].pc = IF stripe.customers > 0 THEN "claiming" ELSE "customer",
               ![c].customer = IF stripe.customers > 0 THEN 1 ELSE 0]
          /\ UNCHANGED faults
       \/ Fault(c)
    /\ UNCHANGED <<order, opened, mapping, buyer, stripe, linking>>

\* POST /v1/customers under the key of the customer.  (While there is a customer with
\* the address the list shows it, so only requests of the same day come here again.)
MakeCustomer(c) ==
    /\ Is(c, "customer")
    /\ \/ /\ stripe' = [stripe EXCEPT !.customers = IF @ = 0 THEN 1 ELSE @]
          /\ \/ /\ caller' = [caller EXCEPT ![c].pc = "claiming", ![c].customer = 1]
                /\ UNCHANGED faults
             \/ Fault(c)
       \/ Fault(c) /\ UNCHANGED stripe
    /\ UNCHANGED <<order, opened, mapping, buyer, linking>>

\* Variant: each request uses a key of its own.
MakeAnotherCustomer(c) ==
    /\ Is(c, "customer")
    /\ stripe.customers <= MaxFault
    /\ stripe' = [stripe EXCEPT !.customers = @ + 1]
    /\ caller' = [caller EXCEPT ![c].pc = "claiming", ![c].customer = stripe.customers + 1]
    /\ UNCHANGED <<order, opened, mapping, buyer, faults, linking>>

\* coalesce(stripe_customer_id, ...): written once.
LinkCustomer(c) ==
    /\ Is(c, "claiming")
    /\ \/ /\ buyer' = IF buyer = 0 THEN caller[c].customer ELSE buyer
          /\ caller' = [caller EXCEPT ![c].pc = "posting", ![c].customer = buyer']
          /\ UNCHANGED faults
       \/ Fault(c) /\ UNCHANGED buyer
    /\ UNCHANGED <<order, opened, mapping, stripe, linking>>

-----------------------------------------------------------------------------
(* startStripeSession()                                                     *)

\* POST /v1/checkout/sessions under the key of the checkout, which outlives it: the same
\* request is answered by the same session, one with another product is refused.
PostSession(c) ==
    LET k == caller[c].at
        p == caller[c].product
    IN
    /\ Is(c, "posting")
    /\ \/ /\ stripe.sessions[k] = 0
          /\ p \in stripe.sellable
          /\ stripe' = [stripe EXCEPT !.sessions[k] = 1, !.sold[k] = p]
          /\ (Goes(c, "opening") /\ UNCHANGED faults) \/ Fault(c)
       \/ /\ stripe.sessions[k] > 0
          /\ Goes(c, IF p = stripe.sold[k] THEN "opening" ELSE "failing")
          /\ UNCHANGED <<stripe, faults>>
       \/ /\ stripe.sessions[k] = 0 /\ p \notin stripe.sellable
          /\ Goes(c, "failing")
          /\ UNCHANGED <<stripe, faults>>
       \/ Fault(c) /\ UNCHANGED stripe
    /\ UNCHANGED <<order, opened, mapping, buyer, linking>>

\* Variant: a key made of the time.
PostSessionAnew(c) ==
    LET k == caller[c].at IN
    /\ Is(c, "posting")
    /\ stripe.sessions[k] < 2
    /\ stripe' = [stripe EXCEPT !.sessions[k] = @ + 1, !.sold[k] = caller[c].product]
    /\ (Goes(c, "opening") /\ UNCHANGED faults) \/ Fault(c)
    /\ UNCHANGED <<order, opened, mapping, buyer, linking>>

Unopened(k) == order[k] \in {"creating", "failed"}

\* The checkout is opened unless it is past that; either way the request is answered.
Open(c) ==
    LET k == caller[c].at IN
    /\ Is(c, "opening")
    /\ \/ /\ order' = IF Unopened(k) THEN [order EXCEPT ![k] = "open"] ELSE order
          /\ opened' = IF Unopened(k) THEN [opened EXCEPT ![k] = stripe.sessions[k]] ELSE opened
          /\ Leaves(c)
          /\ UNCHANGED faults
       \/ Fault(c) /\ UNCHANGED <<order, opened>>
    /\ UNCHANGED <<mapping, buyer, stripe, linking>>

\* Variant: whatever the status.
FailAny(c) ==
    /\ Is(c, "failing")
    /\ order' = [order EXCEPT ![caller[c].at] = "failed"]
    /\ Leaves(c)
    /\ UNCHANGED <<opened, mapping, buyer, stripe, faults, linking>>

Fail(c) ==
    LET k == caller[c].at IN
    /\ Is(c, "failing")
    /\ order' = IF Unopened(k) THEN [order EXCEPT ![k] = "failed"] ELSE order
    /\ Leaves(c)
    /\ UNCHANGED <<opened, mapping, buyer, stripe, faults, linking>>

CutShort(c) ==
    /\ ~Is(c, "idle")
    /\ faults < MaxFault
    /\ faults' = faults + 1
    /\ Leaves(c)
    /\ UNCHANGED <<order, opened, mapping, buyer, stripe, linking>>

-----------------------------------------------------------------------------
(* Stripe, its webhooks and the administrators                              *)

\* The search index takes in what is tagged with the offer: new products, and one whose
\* link has been checked.
IndexProduct ==
    /\ stripe' = [stripe EXCEPT !.found = @ \cup 1..stripe.made \cup {p \in {Chosen} : linking}]
    /\ UNCHANGED <<order, opened, mapping, buyer, caller, faults, linking>>

\* A day later Stripe has forgotten the key; the index has long seen the product, and
\* the requests of that day are gone.
ForgetKey ==
    /\ stripe.repeats # 0
    /\ stripe.repeats \in stripe.found
    /\ ~MappingLocked
    /\ stripe' = [stripe EXCEPT !.repeats = 0]
    /\ UNCHANGED <<order, opened, mapping, buyer, caller, faults, linking>>

\* Somebody archives or reactivates a product in Stripe.
ChangeSale(p) ==
    /\ p \in 1..stripe.made \cup {Chosen}
    /\ stripe.changes < MaxSell
    /\ stripe' = [stripe EXCEPT !.changes = @ + 1,
         !.sellable = IF p \in @ THEN @ \ {p} ELSE @ \cup {p}]
    /\ UNCHANGED <<order, opened, mapping, buyer, caller, faults, linking>>

\* handleCheckoutSession() writes what became of the session: the buyer can only have
\* paid a session whose address he was given.
SessionEnds(k) ==
    /\ stripe.sessions[k] > 0
    /\ \/ /\ order[k] \in {"open", "awaiting_payment"}
          /\ order' = [order EXCEPT ![k] = "completed"]
       \/ /\ order[k] = "open"
          /\ order' = [order EXCEPT ![k] = "awaiting_payment"]
       \/ /\ order[k] = "awaiting_payment"
          /\ order' = [order EXCEPT ![k] = "failed"]
       \/ /\ order[k] \in {"open", "awaiting_payment", "creating"}
          /\ order' = [order EXCEPT ![k] = "expired"]
    /\ UNCHANGED <<opened, mapping, buyer, caller, stripe, faults, linking>>

\* linkStripeProduct(): checked, then written whatever the mapping has become.
\* (To link the product that is linked already changes nothing.)
CheckLink ==
    /\ Relinking
    /\ ~linking
    /\ mapping # Chosen
    /\ Chosen \in stripe.sellable
    /\ linking' = TRUE
    /\ UNCHANGED <<order, opened, mapping, buyer, caller, stripe, faults>>

WriteLink ==
    /\ linking
    /\ ~MappingLocked
    /\ mapping' = Chosen
    /\ linking' = FALSE
    /\ UNCHANGED <<order, opened, buyer, caller, stripe, faults>>

GoOn(c) ==
    \/ Screen(c) \/ InsertCheckout(c)
    \/ ReadMapping(c) \/ LockMapping(c) \/ SearchProduct(c) \/ MakeProduct(c) \/ LinkProduct(c)
    \/ ReadBuyer(c) \/ ListCustomers(c) \/ MakeCustomer(c) \/ LinkCustomer(c)
    \/ PostSession(c) \/ Open(c) \/ Fail(c)

CheckoutNext ==
    \/ \E c \in Caller :
         \/ \E k \in Order : Submit(c, k)
         \/ GoOn(c)
         \/ CutShort(c)
    \/ IndexProduct \/ ForgetKey
    \/ \E p \in Product : ChangeSale(p)
    \/ \E k \in Order : SessionEnds(k)
    \/ CheckLink \/ WriteLink

CheckoutSpec == CheckoutInit /\ [][CheckoutNext]_checkoutVars

-----------------------------------------------------------------------------
(* Properties                                                               *)

\* However often a checkout is submitted, whatever fails or is cut short, Stripe has one
\* session for it and makes one product for the offer and one customer for the buyer; and
\* a checkout whose address the buyer has is open with that session, for the customer he
\* is linked to.
MadeOnce ==
    /\ stripe.made <= 1
    /\ stripe.customers <= 1
    /\ \A k \in Order :
         /\ stripe.sessions[k] <= 1
         /\ order[k] \in {"open", "awaiting_payment", "completed"} =>
              opened[k] = 1 /\ stripe.sessions[k] = 1 /\ buyer # 0

\* A late request does not undo what another has reached: a checkout that is open fails
\* only by its payment, one that is completed or has expired stays so, and the buyer's
\* Stripe customer is never exchanged.
ReachedStays ==
    [][ /\ \A k \in Order :
             /\ order[k] = "open" => order'[k] \notin {"none", "creating", "failed"}
             /\ order[k] \in {"completed", "expired"} => order'[k] = order[k]
        /\ buyer # 0 => buyer' = buyer ]_checkoutVars

=============================================================================
