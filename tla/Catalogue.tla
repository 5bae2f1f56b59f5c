------------------------------ MODULE Catalogue ------------------------------
(***************************************************************************)
(* The catalogue, src/services/catalogue.ts: a product with a major and an *)
(* edition policy, offers on it, and their price versions, which are       *)
(* drafted, activated and archived and never change otherwise, though time *)
(* passes for them: an activated price may be yet to come, or be over.     *)
(*                                                                         *)
(* Publishing an offer and activating a price are transactions of several  *)
(* statements and are split where another may come in between; they hold   *)
(* the rows they have locked.  The other operations are one step each.     *)
(* What an offer grants never changes, and whether the wire protocol takes *)
(* it depends on nothing that a policy may change (module PolicyRules), so *)
(* the repeated validation of policies is left out here.                   *)
(*                                                                         *)
(* A definition marked "Variant" is a faulty form of the one that follows. *)
(***************************************************************************)
EXTENDS Integers, Sequences, FiniteSets

CONSTANTS
    Offer,            \* SKUs
    Currency,         \* STORE_CURRENCIES
    Amount,           \* unit amounts
    Interval,         \* billing intervals, with their counts
    CreatePriceInput, \* the price versions that administrators create
    Clerk,            \* transactions of administrators
    MaxVersion,       \* bound: price versions of one offer and currency
    MaxEdit,          \* bound: changes that administrators make
    CatalogueScenario \* sets of operations; a behaviour offers those of one of them

ASSUME CatalogueAssumption ==
    /\ Amount \subseteq Nat \ {0}
    /\ CreatePriceInput \subseteq [amount : Amount, every : Interval, begun : BOOLEAN,
                                  until : {"never", "ahead", "past"}]
    /\ MaxVersion \in Nat \ {0}
    /\ MaxEdit \in Nat

VARIABLES
    product,   \* the status of products, product_majors and product_edition_policies
    offer,     \* offers, with the state of stripe_product_mappings
    price,     \* price_versions of an offer and currency, oldest first
    clerk,     \* transactions in flight
    withdrawn, \* offers that something has been taken from since they were checked (history)
    edits,
    desk       \* the operations of this behaviour

catalogueVars == <<product, offer, price, clerk, withdrawn, edits, desk>>

-----------------------------------------------------------------------------
(* Rows                                                                     *)

Entity == {"product", "major", "edition"}

\* The statuses an administrator may set.
StatusOf(e) ==
    CASE e = "product" -> {"draft", "active", "retired"}
      [] e = "major" -> {"draft", "active", "sales_closed", "retired"}
      [] e = "edition" -> {"active", "retired"}

\* asked: name, description and visibility are those of the price list (see CatalogueImport).
OfferRow == [status : {"none", "draft", "active", "archived"},
             link : {"none", "synced", "failed"}, asked : BOOLEAN]

NoOffer == [status |-> "none", link |-> "none", asked |-> TRUE]

\* begun: whether effective_from has been reached.  until: where effective_until lies, if
\* there is one.
Version == [amount : Amount, every : Interval, status : {"draft", "active", "archived"},
            begun : BOOLEAN, until : {"never", "ahead", "past"}]

\* nth: the version being activated; previous: the active one before, 0 if there is none.
Dealing == [pc : {"idle", "publishing", "checked", "pricing", "holding"},
                at : Offer \cup {<<>>}, in : Currency \cup {<<>>},
                nth : 0..MaxVersion, previous : 0..MaxVersion]

NoTransaction == [pc |-> "idle", at |-> <<>>, in |-> <<>>, nth |-> 0, previous |-> 0]

CatalogueTypeOK ==
    /\ product \in [Entity -> {"none", "draft", "active", "sales_closed", "retired"}]
    /\ \A e \in Entity : product[e] \in StatusOf(e) \cup {"none"}
    /\ offer \in [Offer -> OfferRow]
    /\ \A o \in Offer, c \in Currency :
         /\ price[o][c] \in Seq(Version)
         /\ Len(price[o][c]) <= MaxVersion
    /\ clerk \in [Clerk -> Dealing]
    /\ withdrawn \subseteq Offer
    /\ edits \in 0..MaxEdit
    /\ desk \in CatalogueScenario

\* An empty catalogue, or one whose offers have been prepared, for some price.
CatalogueInit ==
    /\ desk \in CatalogueScenario
    /\ clerk = [k \in Clerk |-> NoTransaction]
    /\ withdrawn = {}
    /\ edits = 0
    /\ \/ /\ "new" \in desk
          /\ product = [e \in Entity |-> "none"]
          /\ offer = [o \in Offer |-> NoOffer]
          /\ price = [o \in Offer |-> [c \in Currency |-> <<>>]]
       \/ /\ "new" \notin desk
          /\ product = [e \in Entity |-> "active"]
          /\ offer = [o \in Offer |-> [NoOffer EXCEPT !.status = "draft"]]
          /\ \E a \in Amount, i \in Interval : price = [o \in Offer |-> [c \in Currency |->
               <<[amount |-> a, every |-> i, status |-> "active", begun |-> TRUE, until |-> "never"]>>]]

Versions(o, c) == DOMAIN price[o][c]
ActiveVersions(o, c) == {n \in Versions(o, c) : price[o][c][n].status = "active"}

\* Whose place an activated version of the interval takes: the others are left alone.
ActiveAt(o, c, interval) == {n \in ActiveVersions(o, c) : price[o][c][n].every = interval}

InForce(version) == version.begun /\ version.until # "past"
Sellable(o, c) == {n \in ActiveVersions(o, c) : InForce(price[o][c][n])}

OfferLocked(o) == \E k \in Clerk : clerk[k].pc \in {"publishing", "checked"} /\ clerk[k].at = o

Pricing(k, o, c) == clerk[k].at = o /\ clerk[k].in = c

\* Variant: only the version that is replaced is locked.
PreviousLocked(o, c, n) ==
    \E k \in Clerk : Pricing(k, o, c) /\ clerk[k].previous = n /\ clerk[k].pc = "holding"

VersionLocked(o, c, n) ==
    \E k \in Clerk :
      /\ Pricing(k, o, c)
      /\ \/ clerk[k].nth = n /\ clerk[k].pc \in {"pricing", "holding"}
         \/ clerk[k].previous = n /\ clerk[k].pc = "holding"

-----------------------------------------------------------------------------
(* What can be sold                                                         *)

\* missingCurrencies()
MissingCurrencies(o) == {c \in Currency : Sellable(o, c) = {}}

OnOffer == product["product"] = "active" /\ product["major"] = "active"

Complete(o) == OnOffer /\ MissingCurrencies(o) = {}

\* resolvePurchasable(), which sells the version created last: the status of the edition is
\* not asked for.
Purchasable(o, c) ==
    /\ offer[o].status = "active"
    /\ Sellable(o, c) # {}
    /\ MissingCurrencies(o) = {}
    /\ OnOffer

\* listPublicCatalogue(), of offers and products that are public.
Listed(o) ==
    /\ offer[o].status = "active"
    /\ OnOffer
    /\ product["edition"] = "active"
    /\ \A c \in Currency : Sellable(o, c) # {}

-----------------------------------------------------------------------------
(* Products, majors and edition policies                                    *)

CreateProduct ==
    /\ product["product"] = "none"
    /\ product' = [product EXCEPT !["product"] = "draft"]
    /\ UNCHANGED <<offer, price, withdrawn>>

CreateMajor ==
    /\ product["product"] # "none"
    /\ product["major"] = "none"
    /\ product' = [product EXCEPT !["major"] = "draft"]
    /\ UNCHANGED <<offer, price, withdrawn>>

\* updateProduct(), updateMajor(): any status may follow any other.
UpdateStatus(e, status) ==
    /\ e \in {"product", "major"}
    /\ product[e] # "none"
    /\ status \in StatusOf(e) \ {product[e]}
    /\ product' = [product EXCEPT ![e] = status]
    /\ withdrawn' = IF product[e] = "active" THEN Offer ELSE withdrawn
    /\ UNCHANGED <<offer, price>>

\* upsertEditionPolicy(): one that exists is overwritten.
UpsertEditionPolicy(status) ==
    /\ product["major"] # "none"
    /\ product' = [product EXCEPT !["edition"] = status]
    /\ UNCHANGED <<offer, price, withdrawn>>

-----------------------------------------------------------------------------
(* Offers                                                                   *)

\* createOffer(): on an active edition policy.
CreateOffer(o) ==
    /\ offer[o].status = "none"
    /\ product["edition"] = "active"
    /\ offer' = [offer EXCEPT ![o].status = "draft"]
    /\ UNCHANGED <<product, price, withdrawn>>

\* updateOffer(), for better or worse.
UpdateOffer(o, asked) ==
    /\ offer[o].status # "none"
    /\ ~OfferLocked(o)
    /\ offer' = [offer EXCEPT ![o].asked = asked]
    /\ UNCHANGED <<product, price, withdrawn>>

\* linkStripeProduct(), syncOffer(): what they leave behind.
LinkOffer(o, state) ==
    /\ offer[o].status # "none"
    /\ offer' = [offer EXCEPT ![o].link = state]
    /\ UNCHANGED <<product, price, withdrawn>>

\* setOfferStatus() to draft or archived.
SetAside(o, status) ==
    /\ offer[o].status \notin {"none", status}
    /\ ~OfferLocked(o)
    /\ offer' = [offer EXCEPT ![o].status = status]
    /\ UNCHANGED <<product, price, withdrawn>>

\* setOfferStatus() to active: its row is locked ...
BeginPublishing(k, o) ==
    /\ clerk[k] = NoTransaction
    /\ offer[o].status # "none"
    /\ ~OfferLocked(o)
    /\ clerk' = [clerk EXCEPT ![k].pc = "publishing", ![k].at = o]
    /\ UNCHANGED <<product, offer, price, withdrawn>>

\* Variant: the prices of one currency will do.
PublishableWithAPrice(o) ==
    OnOffer /\ MissingCurrencies(o) # Currency /\ offer[o].link # "failed"

\* ... what it needs is read ...
Publishable(o) == Complete(o) /\ offer[o].link # "failed"

CheckPublishing(k) ==
    /\ clerk[k].pc = "publishing"
    /\ Publishable(clerk[k].at)
    /\ clerk' = [clerk EXCEPT ![k].pc = "checked"]
    /\ withdrawn' = withdrawn \ {clerk[k].at}
    /\ UNCHANGED <<product, offer, price>>

\* ... and the status is written.
CommitPublishing(k) ==
    /\ clerk[k].pc = "checked"
    /\ offer' = [offer EXCEPT ![clerk[k].at].status = "active"]
    /\ clerk' = [clerk EXCEPT ![k] = NoTransaction]
    /\ UNCHANGED <<product, price, withdrawn>>

\* The same in one step, for an import or an administrator whom nobody gets in the way of.
PublishAtOnce(o) ==
    /\ ~OfferLocked(o)
    /\ Publishable(o)
    /\ offer' = [offer EXCEPT ![o].status = "active"]
    /\ withdrawn' = withdrawn \ {o}
    /\ UNCHANGED <<product, price>>

-----------------------------------------------------------------------------
(* Price versions                                                           *)

Drafted(input) == [amount |-> input.amount, every |-> input.every, status |-> "draft",
                   begun |-> input.begun, until |-> input.until]

MayBePriced(o) == offer[o].status \notin {"none", "archived"} /\ ~OfferLocked(o)

\* createPriceVersion(): perhaps to become effective later, or only until some day.
CreatePriceVersion(o, c, input) ==
    /\ MayBePriced(o)
    /\ Len(price[o][c]) < MaxVersion
    /\ price' = [price EXCEPT ![o][c] = Append(@, Drafted(input))]
    /\ UNCHANGED <<product, offer, withdrawn>>

\* effective_until = coalesce(effective_until, now())
Archived(version) ==
    [version EXCEPT !.status = "archived", !.until = IF @ = "never" THEN "past" ELSE @]

\* Version n takes the place of the active ones in old.  One that was to become effective
\* later does so later, and leaves a gap.
Activated(s, n, old) ==
    [i \in DOMAIN s |->
       IF i = n THEN [s[i] EXCEPT !.status = "active"]
       ELSE IF i \in old THEN Archived(s[i])
       ELSE s[i]]

Undated(a, interval) == [amount |-> a, every |-> interval, begun |-> TRUE, until |-> "never"]

\* createPriceSet(): the amounts asked for, for one interval, activated at once or not, in
\* one transaction.
PriceSet(o, asked, interval, activate) ==
    /\ MayBePriced(o)
    /\ \A c \in DOMAIN asked :
         /\ Len(price[o][c]) < MaxVersion
         /\ activate => \A n \in ActiveAt(o, c, interval) : ~VersionLocked(o, c, n)
    /\ price' = [price EXCEPT ![o] = [c \in Currency |->
         IF c \notin DOMAIN asked THEN price[o][c]
         ELSE LET added == Append(price[o][c], Drafted(Undated(asked[c], interval))) IN
              IF activate THEN Activated(added, Len(added), ActiveAt(o, c, interval)) ELSE added]]
    /\ UNCHANGED <<product, offer, withdrawn>>

\* activateInTx(): the draft is locked, the active version of its interval is found ...
BeginActivation(k, o, c, n) ==
    /\ clerk[k] = NoTransaction
    /\ n \in Versions(o, c)
    /\ price[o][c][n].status = "draft"
    /\ ~VersionLocked(o, c, n)
    /\ LET before == ActiveAt(o, c, price[o][c][n].every) IN
       \E m \in IF before = {} THEN {0} ELSE before :
         clerk' = [clerk EXCEPT ![k] = [pc |-> "pricing", at |-> o, in |-> c, nth |-> n, previous |-> m]]
    /\ UNCHANGED <<product, offer, price, withdrawn>>

\* ... and locked, if it still is the active one once it can be ...
HoldPrevious(k) ==
    LET o == clerk[k].at
        c == clerk[k].in
        m == clerk[k].previous
    IN
    /\ clerk[k].pc = "pricing"
    /\ m # 0 => ~VersionLocked(o, c, m)
    /\ clerk' = [clerk EXCEPT ![k].pc = "holding", ![k].previous = IF m \in ActiveVersions(o, c) THEN m ELSE 0]
    /\ UNCHANGED <<product, offer, price, withdrawn>>

\* ... and both are written, unless another version of the interval has become active: the
\* index price_versions_one_active then undoes the transaction.
CommitActivation(k) ==
    LET o == clerk[k].at
        c == clerk[k].in
        n == clerk[k].nth
        old == {clerk[k].previous} \ {0}
    IN
    /\ clerk[k].pc = "holding"
    /\ price' = IF ActiveAt(o, c, price[o][c][n].every) \subseteq old
                THEN [price EXCEPT ![o][c] = Activated(@, n, old)] ELSE price
    /\ withdrawn' = IF price' # price /\ ~InForce(price[o][c][n]) THEN withdrawn \cup {o} ELSE withdrawn
    /\ clerk' = [clerk EXCEPT ![k] = NoTransaction]
    /\ UNCHANGED <<product, offer>>

\* archivePriceVersion()
ArchivePriceVersion(o, c, n) ==
    /\ n \in Versions(o, c)
    /\ price[o][c][n].status # "archived"
    /\ ~VersionLocked(o, c, n)
    /\ price' = [price EXCEPT ![o][c][n] = Archived(@)]
    /\ withdrawn' = IF n \in ActiveVersions(o, c) THEN withdrawn \cup {o} ELSE withdrawn
    /\ UNCHANGED <<product, offer>>

\* A version's time comes ...
BecomeEffective(o, c, n) ==
    /\ n \in Versions(o, c)
    /\ ~price[o][c][n].begun
    /\ price' = [price EXCEPT ![o][c][n].begun = TRUE]
    /\ UNCHANGED <<product, offer, withdrawn>>

\* ... and is over.
RunOut(o, c, n) ==
    /\ n \in Versions(o, c)
    /\ price[o][c][n].until = "ahead"
    /\ price' = [price EXCEPT ![o][c][n].until = "past"]
    /\ withdrawn' = IF n \in ActiveVersions(o, c) THEN withdrawn \cup {o} ELSE withdrawn
    /\ UNCHANGED <<product, offer>>

\* A transaction fails, or its check does.
AbandonTransaction(k) ==
    /\ clerk[k] # NoTransaction
    /\ clerk' = [clerk EXCEPT ![k] = NoTransaction]
    /\ UNCHANGED <<product, offer, price, withdrawn>>

-----------------------------------------------------------------------------

Edit ==
    \/ /\ "entities" \in desk
       /\ \/ CreateProduct \/ CreateMajor
          \/ \E e \in Entity : \E status \in StatusOf(e) : UpdateStatus(e, status)
          \/ \E status \in StatusOf("edition") : UpsertEditionPolicy(status)
    \/ /\ "offers" \in desk
       /\ \E o \in Offer :
            \/ CreateOffer(o)
            \/ \E asked \in BOOLEAN : UpdateOffer(o, asked)
            \/ \E state \in {"synced", "failed"} : LinkOffer(o, state)
            \/ \E status \in {"draft", "archived"} : SetAside(o, status)
            \/ PublishAtOnce(o)
    \/ /\ "prices" \in desk
       /\ \E o \in Offer, c \in Currency :
            \/ \E input \in CreatePriceInput :
                 \/ CreatePriceVersion(o, c, input)
                 \/ \E activate \in BOOLEAN :
                      PriceSet(o, [x \in Currency |-> input.amount], input.every, activate)
            \/ \E n \in 1..MaxVersion : ArchivePriceVersion(o, c, n)

\* An administrator changes something at once ...
EditCatalogue ==
    /\ edits < MaxEdit
    /\ edits' = edits + 1
    /\ Edit
    /\ UNCHANGED <<clerk, desk>>

\* ... or begins a transaction ...
BeginTransaction(k) ==
    /\ "transactions" \in desk
    /\ edits < MaxEdit
    /\ edits' = edits + 1
    /\ \/ "offers" \in desk /\ \E o \in Offer : BeginPublishing(k, o)
       \/ /\ "prices" \in desk
          /\ \E o \in Offer, c \in Currency, n \in 1..MaxVersion : BeginActivation(k, o, c, n)
    /\ desk' = desk

\* ... that goes on by itself.
Continue(k) ==
    /\ \/ CheckPublishing(k) \/ CommitPublishing(k)
       \/ HoldPrevious(k) \/ CommitActivation(k)
       \/ AbandonTransaction(k)
    /\ UNCHANGED <<edits, desk>>

CatalogueNext ==
    \/ EditCatalogue
    \/ \E k \in Clerk : BeginTransaction(k) \/ Continue(k)
    \/ \E o \in Offer, c \in Currency, n \in 1..MaxVersion :
         (BecomeEffective(o, c, n) \/ RunOut(o, c, n)) /\ UNCHANGED <<clerk, edits, desk>>

CatalogueSpec == CatalogueInit /\ [][CatalogueNext]_catalogueVars

-----------------------------------------------------------------------------
(* Properties                                                               *)

\* An offer on sale has prices in every currency, and its product and major are on sale,
\* until the time of one of the prices is over, somebody archives one or replaces it by one
\* that is not in force, or withdraws the product: no activation, in whatever order its
\* statements fall, leaves the offer half priced, or with two active prices of one interval.
\* (Of two intervals it may have both: the store shows and sells the one created last.)  And
\* whatever the store shows can be bought, in every currency.
SaleIsWhole ==
    \A o \in Offer :
      /\ offer[o].status = "active" /\ o \notin withdrawn => Complete(o)
      /\ \A c \in Currency, i \in Interval : Cardinality(ActiveAt(o, c, i)) <= 1
      /\ Listed(o) => \A c \in Currency : Purchasable(o, c)

Age(status) == CASE status = "draft" -> 1 [] status = "active" -> 2 [] status = "archived" -> 3

\* Prices are history: a version keeps its amount, and one that is archived is not sold
\* again, by whatever activation was under way when it was archived.
PricesAreHistory ==
    [][ \A o \in Offer, c \in Currency :
          /\ Len(price'[o][c]) >= Len(price[o][c])
          /\ \A n \in Versions(o, c) :
               /\ price'[o][c][n].amount = price[o][c][n].amount
               /\ Age(price'[o][c][n].status) >= Age(price[o][c][n].status) ]_catalogueVars
=============================================================================
