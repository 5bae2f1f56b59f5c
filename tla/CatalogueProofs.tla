---------------------------- MODULE CatalogueProofs ---------------------------
(***************************************************************************)
(* Proofs about Catalogue and CatalogueImport, for any offers, currencies, *)
(* prices, transactions, imports and invocations.                          *)
(*                                                                         *)
(* SaleIsWhole is not inductive: an activation writes the offer after it   *)
(* has looked at its prices, and the prices may change in between.         *)
(* CatalogueInv says what a transaction that looked may still count on     *)
(* because of the row it holds (Dealt), that no two hold the same row, and *)
(* that of the versions of a price one is active at most for each interval.*)
(*                                                                         *)
(* ImportDelivers depends on what is left of a plan. ImportInv says of an  *)
(* invocation that executes one that what nobody else has changed since it *)
(* was made (news) is as the plan found it (Settled), and that if nothing  *)
(* has come between, the steps which are left are those that a new plan    *)
(* would show (OnPlan); and that an import which was never taken over from *)
(* an invocation still at it has one, which holds the claim (OneClaim).    *)
(***************************************************************************)
EXTENDS CatalogueImport, FiniteSetTheorems, TLAPS

-----------------------------------------------------------------------------
(* Versions                                                                 *)

Draft(v) == v.status = "draft"

LEMMA DraftedType == \A input \in CreatePriceInput : Drafted(input) \in Version /\ Drafted(input).status = "draft"
  BY CatalogueAssumption DEF CatalogueAssumption, Drafted, Version

LEMMA UndatedType ==
    ASSUME NEW a \in Amount, NEW i \in Interval
    PROVE  LET v == Drafted(Undated(a, i)) IN
           v \in Version /\ v.amount = a /\ v.every = i /\ v.status = "draft" /\ InForce(v)
  BY DEF Drafted, Undated, Version, InForce

LEMMA AppendType ==
    ASSUME NEW s \in Seq(Version), NEW v \in Version
    PROVE  /\ Append(s, v) \in Seq(Version) /\ Len(Append(s, v)) = Len(s) + 1 /\ Len(s) \in Nat
           /\ DOMAIN s = 1..Len(s) /\ DOMAIN Append(s, v) = 1..(Len(s) + 1)
           /\ \A i \in 1..Len(s) : Append(s, v)[i] = s[i]
           /\ Append(s, v)[Len(s) + 1] = v
  OBVIOUS

LEMMA StatusWritten ==
    ASSUME NEW v \in Version
    PROVE  LET x == [v EXCEPT !.status = "active"] IN
           /\ x \in Version /\ x.status = "active" /\ x.amount = v.amount /\ x.every = v.every
           /\ InForce(x) = InForce(v)
  BY DEF Version, InForce

LEMMA ArchivedType ==
    ASSUME NEW v \in Version
    PROVE  /\ Archived(v) \in Version /\ Archived(v).status = "archived"
           /\ Archived(v).amount = v.amount /\ Archived(v).every = v.every
<1> DEFINE until == IF v.until = "never" THEN "past" ELSE v.until
<1>1. until \in {"never", "ahead", "past"} BY DEF Version
<1>2. Archived(v) = [v EXCEPT !.status = "archived", !.until = until] BY DEF Archived, Version
<1> HIDE DEF until
<1> QED BY <1>1, <1>2 DEF Version

LEMMA ActivatedType ==
    ASSUME NEW s \in Seq(Version), NEW n, NEW old
    PROVE  /\ Activated(s, n, old) \in Seq(Version) /\ Len(Activated(s, n, old)) = Len(s)
           /\ DOMAIN Activated(s, n, old) = DOMAIN s
           /\ \A i \in DOMAIN s :
                /\ Activated(s, n, old)[i].amount = s[i].amount
                /\ Activated(s, n, old)[i].every = s[i].every
                /\ i = n => InForce(Activated(s, n, old)[i]) = InForce(s[i])
                /\ Activated(s, n, old)[i].status = IF i = n THEN "active" ELSE IF i \in old THEN "archived" ELSE s[i].status
<1> DEFINE t == Activated(s, n, old)
<1>1. DOMAIN s = 1..Len(s) /\ Len(s) \in Nat /\ \A i \in DOMAIN s : s[i] \in Version OBVIOUS
<1>2. DOMAIN t = DOMAIN s /\ t = [i \in 1..Len(s) |-> t[i]] BY <1>1 DEF Activated
<1>3. \A i \in DOMAIN s :
        /\ t[i] \in Version /\ t[i].amount = s[i].amount /\ t[i].every = s[i].every
        /\ i = n => InForce(t[i]) = InForce(s[i])
        /\ t[i].status = IF i = n THEN "active" ELSE IF i \in old THEN "archived" ELSE s[i].status
  BY <1>1, StatusWritten, ArchivedType DEF Activated
<1> HIDE DEF t
<1>4. t \in Seq(Version) /\ Len(t) = Len(s) BY <1>1, <1>2, <1>3
<1> QED BY <1>2, <1>3, <1>4 DEF t

-----------------------------------------------------------------------------
(* The invariant of the catalogue                                           *)

Prices == [Offer -> [Currency -> Seq(Version)]]

CatalogueTyped == CatalogueTypeOK /\ price \in Prices

Deals(k) == clerk[k].pc \in {"pricing", "holding"}

\* What a transaction holds.
Dealt(k) ==
    LET o == clerk[k].at
        c == clerk[k].in
    IN
    /\ clerk[k].pc \in {"publishing", "checked"} => o \in Offer
    /\ Deals(k) => /\ o \in Offer /\ c \in Currency
                   /\ clerk[k].nth \in Versions(o, c) /\ price[o][c][clerk[k].nth].status = "draft"
    /\ clerk[k].pc = "holding" /\ clerk[k].previous # 0 =>
         clerk[k].previous \in Versions(o, c) /\ price[o][c][clerk[k].previous].status # "draft"

DealtApart ==
    \A k, q \in Clerk :
      Deals(k) /\ Deals(q) /\ clerk[k].at = clerk[q].at /\ clerk[k].in = clerk[q].in /\ clerk[k].nth = clerk[q].nth =>
        k = q

OneActive == \A o \in Offer, c \in Currency : \A m, n \in ActiveVersions(o, c) :
    price[o][c][m].every = price[o][c][n].every => m = n

\* What is on sale, or about to be, is complete.
Whole ==
    \A o \in Offer \ withdrawn :
      /\ offer[o].status = "active" => Complete(o)
      /\ \A k \in Clerk : clerk[k].pc = "checked" /\ clerk[k].at = o => Complete(o)

CatalogueInv == CatalogueTyped /\ (\A k \in Clerk : Dealt(k)) /\ DealtApart /\ OneActive /\ Whole

LEMMA NoTransactionType == NoTransaction \in Dealing /\ NoTransaction.pc = "idle"
  BY CatalogueAssumption DEF CatalogueAssumption, NoTransaction, Dealing

LEMMA NoOfferType == NoOffer \in OfferRow /\ NoOffer.status = "none" /\ NoOffer.asked /\ NoOffer.link = "none"
  BY DEF NoOffer, OfferRow

LEMMA CatalogueBegins == CatalogueInit => CatalogueInv
<1> SUFFICES ASSUME CatalogueInit PROVE CatalogueInv OBVIOUS
<1>1. clerk \in [Clerk -> Dealing] /\ \A k \in Clerk : clerk[k].pc = "idle"
  BY NoTransactionType DEF CatalogueInit
<1>2. edits \in 0..MaxEdit /\ desk \in CatalogueScenario /\ withdrawn \subseteq Offer
  BY CatalogueAssumption DEF CatalogueInit, CatalogueAssumption
<1>3. (\A k \in Clerk : Dealt(k)) /\ DealtApart BY <1>1 DEF Dealt, Deals, DealtApart
<1>4. CASE "new" \in desk
  <2>1. /\ product = [e \in Entity |-> "none"] /\ offer = [o \in Offer |-> NoOffer]
        /\ price = [o \in Offer |-> [c \in Currency |-> <<>>]]
    BY <1>4 DEF CatalogueInit
  <2>2. <<>> \in Seq(Version) /\ Len(<<>>) = 0 /\ DOMAIN (<<>>) = {} OBVIOUS
  <2>3. 0 <= MaxVersion BY CatalogueAssumption DEF CatalogueAssumption
  <2>4. price \in Prices /\ \A o \in Offer, c \in Currency : price[o][c] = <<>> BY <2>1, <2>2 DEF Prices
  <2>5. /\ product \in [Entity -> {"none", "draft", "active", "sales_closed", "retired"}]
        /\ \A e \in Entity : product[e] \in StatusOf(e) \cup {"none"}
    BY <2>1
  <2>6. offer \in [Offer -> OfferRow] /\ \A o \in Offer : offer[o].status = "none" BY <2>1, NoOfferType
  <2>7. CatalogueTyped BY <1>1, <1>2, <2>2, <2>3, <2>4, <2>5, <2>6 DEF CatalogueTyped, CatalogueTypeOK
  <2>8. OneActive BY <2>2, <2>4 DEF OneActive, ActiveVersions, Versions
  <2>9. Whole BY <1>1, <2>6 DEF Whole
  <2> QED BY <1>3, <2>7, <2>8, <2>9 DEF CatalogueInv
<1>5. CASE "new" \notin desk
  <2>1. /\ product = [e \in Entity |-> "active"] /\ offer = [o \in Offer |-> [NoOffer EXCEPT !.status = "draft"]]
        /\ \E a \in Amount, i \in Interval : price = [o \in Offer |-> [c \in Currency |->
             <<[amount |-> a, every |-> i, status |-> "active", begun |-> TRUE, until |-> "never"]>>]]
    BY <1>5 DEF CatalogueInit
  <2>2. PICK a \in Amount, i \in Interval : price = [o \in Offer |-> [c \in Currency |->
             <<[amount |-> a, every |-> i, status |-> "active", begun |-> TRUE, until |-> "never"]>>]]
    BY <2>1
  <2> DEFINE v == [amount |-> a, every |-> i, status |-> "active", begun |-> TRUE, until |-> "never"]
  <2>3. v \in Version BY DEF Version
  <2>4. price = [o \in Offer |-> [c \in Currency |-> <<v>>]] BY <2>2
  <2> HIDE DEF v
  <2>5. <<v>> \in Seq(Version) /\ Len(<<v>>) = 1 /\ DOMAIN <<v>> = {1} BY <2>3
  <2>6. 1 <= MaxVersion BY CatalogueAssumption DEF CatalogueAssumption
  <2>7. price \in Prices /\ \A o \in Offer, c \in Currency : price[o][c] = <<v>> BY <2>4, <2>5 DEF Prices
  <2>8. /\ product \in [Entity -> {"none", "draft", "active", "sales_closed", "retired"}]
        /\ \A e \in Entity : product[e] \in StatusOf(e) \cup {"none"}
    BY <2>1 DEF Entity, StatusOf
  <2>9. offer \in [Offer -> OfferRow] /\ \A o \in Offer : offer[o].status = "draft"
    <3>1. LET x == [NoOffer EXCEPT !.status = "draft"] IN x \in OfferRow /\ x.status = "draft" BY NoOfferType DEF OfferRow
    <3> QED BY <2>1, <3>1
  <2>10. CatalogueTyped BY <1>1, <1>2, <2>5, <2>6, <2>7, <2>8, <2>9 DEF CatalogueTyped, CatalogueTypeOK
  <2>11. OneActive BY <2>5, <2>7 DEF OneActive, ActiveVersions, Versions
  <2>12. Whole BY <1>1, <2>9 DEF Whole
  <2> QED BY <1>3, <2>10, <2>11, <2>12 DEF CatalogueInv
<1> QED BY <1>4, <1>5

-----------------------------------------------------------------------------
(* What the operations do to it                                             *)

Same == edits' \in 0..MaxEdit /\ desk' = desk

LEMMA EntitiesKeep ==
    ASSUME CatalogueInv, Same, UNCHANGED clerk,
           \/ CreateProduct \/ CreateMajor
           \/ \E e \in Entity : \E status \in StatusOf(e) : UpdateStatus(e, status)
           \/ \E status \in StatusOf("edition") : UpsertEditionPolicy(status)
    PROVE  CatalogueInv'
<1>1. /\ UNCHANGED <<offer, price, clerk>> /\ withdrawn' \subseteq Offer
      /\ \E e \in Entity : \E status \in StatusOf(e) : product' = [product EXCEPT ![e] = status]
      /\ OnOffer => withdrawn' = Offer \/ (OnOffer' /\ withdrawn' = withdrawn)
      /\ withdrawn \subseteq withdrawn'
  <2>0. product \in [Entity -> {"none", "draft", "active", "sales_closed", "retired"}] /\ withdrawn \subseteq Offer
    BY DEF CatalogueInv, CatalogueTyped, CatalogueTypeOK
  <2>1. CASE CreateProduct BY <2>0, <2>1 DEF CreateProduct, OnOffer, Entity, StatusOf
  <2>2. CASE CreateMajor BY <2>0, <2>2 DEF CreateMajor, OnOffer, Entity, StatusOf
  <2>3. ASSUME NEW e \in Entity, NEW status \in StatusOf(e), UpdateStatus(e, status)
        PROVE  /\ OnOffer => withdrawn' = Offer
               /\ product' = [product EXCEPT ![e] = status] /\ UNCHANGED <<offer, price>>
               /\ withdrawn' \subseteq Offer /\ withdrawn \subseteq withdrawn'
    BY <2>0, <2>3 DEF UpdateStatus, OnOffer
  <2>4. ASSUME NEW status \in StatusOf("edition"), UpsertEditionPolicy(status)
        PROVE  /\ OnOffer => OnOffer'
               /\ product' = [product EXCEPT !["edition"] = status] /\ UNCHANGED <<offer, price, withdrawn>>
    BY <2>0, <2>4 DEF UpsertEditionPolicy, OnOffer, Entity
  <2> QED BY <2>0, <2>1, <2>2, <2>3, <2>4 DEF Entity
<1>2. CatalogueTyped'
  <2>0. PICK e \in Entity : \E status \in StatusOf(e) : product' = [product EXCEPT ![e] = status] BY <1>1
  <2>1. PICK status \in StatusOf(e) : product' = [product EXCEPT ![e] = status] BY <2>0
  <2>2. StatusOf(e) \subseteq {"none", "draft", "active", "sales_closed", "retired"} BY DEF Entity, StatusOf
  <2>3. /\ product' \in [Entity -> {"none", "draft", "active", "sales_closed", "retired"}]
        /\ \A x \in Entity : product'[x] \in StatusOf(x) \cup {"none"}
    BY <2>1, <2>2 DEF CatalogueInv, CatalogueTyped, CatalogueTypeOK
  <2> QED BY <1>1, <2>3 DEF Same, CatalogueInv, CatalogueTyped, CatalogueTypeOK
<1>3. (\A k \in Clerk : Dealt(k))' /\ DealtApart' /\ OneActive'
  BY <1>1 DEF CatalogueInv, Dealt, Deals, DealtApart, OneActive, ActiveVersions, Versions
<1>4. \A o \in Offer \ withdrawn' : Complete(o) => Complete(o)'
  BY <1>1 DEF Complete, MissingCurrencies, Sellable, InForce, ActiveVersions, Versions
<1>5. Whole' BY <1>1, <1>4 DEF CatalogueInv, Whole
<1> QED BY <1>2, <1>3, <1>5 DEF CatalogueInv

\* The row of one offer is written.
LEMMA OffersKeep ==
    ASSUME CatalogueInv, Same, UNCHANGED clerk, NEW o \in Offer,
           \/ CreateOffer(o)
           \/ \E asked \in BOOLEAN : UpdateOffer(o, asked)
           \/ \E state \in {"synced", "failed"} : LinkOffer(o, state)
           \/ \E status \in {"draft", "archived"} : SetAside(o, status)
           \/ PublishAtOnce(o)
    PROVE  CatalogueInv'
<1>0. offer \in [Offer -> OfferRow] BY DEF CatalogueInv, CatalogueTyped, CatalogueTypeOK
<1>1. /\ offer' \in [Offer -> OfferRow] /\ UNCHANGED <<product, price, clerk>>
      /\ withdrawn' \subseteq withdrawn
      /\ \A x \in Offer : offer'[x].status = "active" /\ x \notin withdrawn' => Complete(x)
      /\ \A x \in Offer : x \in withdrawn /\ x \notin withdrawn' => Complete(x)
  <2>0. \A x \in Offer : offer[x].status = "active" /\ x \notin withdrawn => Complete(x) BY DEF CatalogueInv, Whole
  <2>1. ASSUME NEW f \in OfferRow, offer' = [offer EXCEPT ![o] = f], f.status # "active" \/ f.status = offer[o].status \/ (Complete(o) /\ o \notin withdrawn')
        PROVE  offer' \in [Offer -> OfferRow] /\ \A x \in Offer : offer'[x].status = "active" => offer[x].status = "active" \/ (Complete(x) /\ x \notin withdrawn')
    BY <1>0, <2>1
  <2>2. CASE CreateOffer(o)
    <3>1. [offer[o] EXCEPT !.status = "draft"] \in OfferRow /\ [offer[o] EXCEPT !.status = "draft"].status = "draft"
      BY <1>0 DEF OfferRow
    <3> QED BY <2>0, <2>1, <2>2, <3>1 DEF CreateOffer
  <2>3. ASSUME NEW asked \in BOOLEAN, UpdateOffer(o, asked)
        PROVE  /\ offer' \in [Offer -> OfferRow] /\ UNCHANGED <<product, price, withdrawn>>
               /\ \A x \in Offer : offer'[x].status = "active" => offer[x].status = "active" \/ (Complete(x) /\ x \notin withdrawn')
    <3>1. LET f == [offer[o] EXCEPT !.asked = asked] IN f \in OfferRow /\ f.status = offer[o].status
      BY <1>0 DEF OfferRow
    <3> QED BY <2>1, <2>3, <3>1 DEF UpdateOffer
  <2>4. ASSUME NEW state \in {"synced", "failed"}, LinkOffer(o, state)
        PROVE  /\ offer' \in [Offer -> OfferRow] /\ UNCHANGED <<product, price, withdrawn>>
               /\ \A x \in Offer : offer'[x].status = "active" => offer[x].status = "active" \/ (Complete(x) /\ x \notin withdrawn')
    <3>1. LET f == [offer[o] EXCEPT !.link = state] IN f \in OfferRow /\ f.status = offer[o].status
      BY <1>0 DEF OfferRow
    <3> QED BY <2>1, <2>4, <3>1 DEF LinkOffer
  <2>5. ASSUME NEW status \in {"draft", "archived"}, SetAside(o, status)
        PROVE  /\ offer' \in [Offer -> OfferRow] /\ UNCHANGED <<product, price, withdrawn>>
               /\ \A x \in Offer : offer'[x].status = "active" => offer[x].status = "active" \/ (Complete(x) /\ x \notin withdrawn')
    <3>1. LET f == [offer[o] EXCEPT !.status = status] IN f \in OfferRow /\ f.status # "active"
      BY <1>0 DEF OfferRow
    <3> QED BY <2>1, <2>5, <3>1 DEF SetAside
  <2>6. CASE PublishAtOnce(o)
    <3>1. LET f == [offer[o] EXCEPT !.status = "active"] IN f \in OfferRow BY <1>0 DEF OfferRow
    <3>2. Complete(o) /\ withdrawn' = withdrawn \ {o} /\ UNCHANGED <<product, price>>
          /\ offer' = [offer EXCEPT ![o] = [offer[o] EXCEPT !.status = "active"]]
      BY <2>6 DEF PublishAtOnce, Publishable
    <3>3. \A x \in Offer : offer'[x].status = "active" => offer[x].status = "active" \/ (Complete(x) /\ x \notin withdrawn')
      BY <2>1, <3>1, <3>2
    <3> QED BY <1>0, <2>0, <3>1, <3>2, <3>3
  <2> QED BY <2>0, <2>2, <2>3, <2>4, <2>5, <2>6
<1>2. CatalogueTyped' BY <1>1 DEF Same, CatalogueInv, CatalogueTyped, CatalogueTypeOK
<1>3. (\A k \in Clerk : Dealt(k))' /\ DealtApart' /\ OneActive'
  BY <1>1 DEF CatalogueInv, Dealt, Deals, DealtApart, OneActive, ActiveVersions, Versions
<1>4. \A x \in Offer : Complete(x) => Complete(x)'
  BY <1>1 DEF Complete, OnOffer, MissingCurrencies, Sellable, InForce, ActiveVersions, Versions
<1>5. Whole' BY <1>1, <1>4 DEF CatalogueInv, Whole
<1> QED BY <1>2, <1>3, <1>5 DEF CatalogueInv

\* A transaction of an administrator goes on or ends; prices stay.
LEMMA ClerksKeep ==
    ASSUME CatalogueInv, Same, NEW k \in Clerk,
           \/ \E o \in Offer : BeginPublishing(k, o)
           \/ \E o \in Offer, c \in Currency, n \in 1..MaxVersion : BeginActivation(k, o, c, n)
           \/ CheckPublishing(k) \/ CommitPublishing(k) \/ HoldPrevious(k) \/ AbandonTransaction(k)
    PROVE  CatalogueInv'
<1>0. /\ clerk \in [Clerk -> Dealing] /\ offer \in [Offer -> OfferRow] /\ clerk[k] \in Dealing /\ Dealt(k)
      /\ 0 \in 0..MaxVersion
  BY CatalogueAssumption DEF CatalogueInv, CatalogueTyped, CatalogueTypeOK, CatalogueAssumption
<1>1. ASSUME NEW f \in Dealing, clerk' = [clerk EXCEPT ![k] = f], UNCHANGED <<product, price>>,
             offer' \in [Offer -> OfferRow], withdrawn' \subseteq withdrawn,
             f.pc \in {"publishing", "checked"} => f.at \in Offer,
             f.pc \in {"pricing", "holding"} =>
               /\ f.at \in Offer /\ f.in \in Currency
               /\ f.nth \in Versions(f.at, f.in) /\ price[f.at][f.in][f.nth].status = "draft"
               /\ \A q \in Clerk : q # k /\ Deals(q) => ~(clerk[q].at = f.at /\ clerk[q].in = f.in /\ clerk[q].nth = f.nth),
             f.pc = "holding" /\ f.previous # 0 => f.previous \in ActiveVersions(f.at, f.in),
             f.pc = "checked" => Complete(f.at),
             \A o \in Offer : o \in withdrawn /\ o \notin withdrawn' => Complete(o),
             \A o \in Offer : offer'[o].status = "active" => offer[o].status = "active" \/ o \in withdrawn' \/ Complete(o)
      PROVE  CatalogueInv'
  <2>1. clerk' \in [Clerk -> Dealing] /\ clerk'[k] = f /\ \A q \in Clerk : q # k => clerk'[q] = clerk[q]
    BY <1>0, <1>1
  <2>2. CatalogueTyped' BY <1>1, <2>1 DEF Same, CatalogueInv, CatalogueTyped, CatalogueTypeOK
  <2>3. ASSUME NEW q \in Clerk PROVE Dealt(q)'
    <3>1. CASE q = k BY <1>1, <2>1, <3>1 DEF Dealt, Deals, Versions, ActiveVersions
    <3>2. CASE q # k BY <1>1, <2>1, <3>2 DEF CatalogueInv, Dealt, Deals, Versions, ActiveVersions
    <3> QED BY <3>1, <3>2
  <2>4. DealtApart' BY <1>1, <2>1 DEF CatalogueInv, DealtApart, Deals
  <2>5. OneActive' BY <1>1 DEF CatalogueInv, OneActive, ActiveVersions, Versions
  <2>6. \A o \in Offer : Complete(o)' <=> Complete(o)
    BY <1>1 DEF Complete, OnOffer, MissingCurrencies, Sellable, InForce, ActiveVersions, Versions
  <2>7. Whole' BY <1>1, <2>1, <2>6 DEF CatalogueInv, Whole
  <2> QED BY <2>2, <2>3, <2>4, <2>5, <2>7 DEF CatalogueInv
<1>2. ASSUME NEW o \in Offer, BeginPublishing(k, o) PROVE CatalogueInv'
  <2> DEFINE f == [clerk[k] EXCEPT !.pc = "publishing", !.at = o]
  <2>1. f \in Dealing /\ f.pc = "publishing" /\ f.at = o BY <1>0 DEF Dealing
  <2>2. clerk' = [clerk EXCEPT ![k] = f] /\ UNCHANGED <<product, offer, price, withdrawn>>
    BY <1>0, <1>2 DEF BeginPublishing
  <2> HIDE DEF f
  <2> QED BY <1>0, <1>1, <2>1, <2>2
<1>3. ASSUME NEW o \in Offer, NEW c \in Currency, NEW n \in 1..MaxVersion, BeginActivation(k, o, c, n)
      PROVE  CatalogueInv'
  <2> DEFINE before == ActiveAt(o, c, price[o][c][n].every)
  <2>1. PICK m \in IF before = {} THEN {0} ELSE before :
          clerk' = [clerk EXCEPT ![k] = [pc |-> "pricing", at |-> o, in |-> c, nth |-> n, previous |-> m]]
    BY <1>3 DEF BeginActivation
  <2> DEFINE f == [pc |-> "pricing", at |-> o, in |-> c, nth |-> n, previous |-> m]
  <2>2. /\ n \in Versions(o, c) /\ price[o][c][n].status = "draft" /\ ~VersionLocked(o, c, n)
        /\ UNCHANGED <<product, offer, price, withdrawn>>
    BY <1>3 DEF BeginActivation
  <2>3. m \in 0..MaxVersion
    <3>1. price[o][c] \in Seq(Version) /\ Len(price[o][c]) <= MaxVersion /\ MaxVersion \in Nat
      BY CatalogueAssumption DEF CatalogueAssumption, CatalogueInv, CatalogueTyped, CatalogueTypeOK
    <3>2. DOMAIN price[o][c] = 1..Len(price[o][c]) BY <3>1
    <3> QED BY <1>0, <2>1, <3>1, <3>2 DEF ActiveAt, ActiveVersions, Versions
  <2> HIDE DEF before
  <2>4. n \in 0..MaxVersion BY CatalogueAssumption DEF CatalogueAssumption
  <2>5. f \in Dealing BY <2>3, <2>4 DEF Dealing
  <2>6. \A q \in Clerk : q # k /\ Deals(q) => ~(clerk[q].at = o /\ clerk[q].in = c /\ clerk[q].nth = n)
    BY <2>2 DEF VersionLocked, Pricing, Deals
  <2>7. /\ clerk' = [clerk EXCEPT ![k] = f] /\ f.pc = "pricing" /\ f.at = o /\ f.in = c /\ f.nth = n
    BY <2>1
  <2> HIDE DEF f
  <2> QED BY <1>0, <1>1, <2>2, <2>5, <2>6, <2>7
<1>4. CASE CheckPublishing(k)
  <2> DEFINE f == [clerk[k] EXCEPT !.pc = "checked"]
  <2>1. /\ clerk[k].pc = "publishing" /\ clerk[k].at \in Offer /\ Complete(clerk[k].at)
        /\ withdrawn' = withdrawn \ {clerk[k].at} /\ UNCHANGED <<product, offer, price>>
        /\ clerk' = [clerk EXCEPT ![k] = f]
    BY <1>0, <1>4 DEF CheckPublishing, Publishable, Dealt
  <2>2. f \in Dealing /\ f.pc = "checked" /\ f.at = clerk[k].at BY <1>0 DEF Dealing
  <2> HIDE DEF f
  <2> QED BY <1>0, <1>1, <2>1, <2>2
<1>5. CASE CommitPublishing(k)
  <2> DEFINE o == clerk[k].at
             f == [offer[o] EXCEPT !.status = "active"]
  <2>1. /\ clerk[k].pc = "checked" /\ o \in Offer /\ UNCHANGED <<product, price, withdrawn>>
        /\ clerk' = [clerk EXCEPT ![k] = NoTransaction] /\ offer' = [offer EXCEPT ![o] = f]
    BY <1>0, <1>5 DEF CommitPublishing, Dealt
  <2>2. o \in withdrawn \/ Complete(o) BY <2>1 DEF CatalogueInv, Whole
  <2>3. f \in OfferRow BY <1>0, <2>1 DEF OfferRow
  <2> HIDE DEF f
  <2>4. offer' \in [Offer -> OfferRow] /\ \A x \in Offer : x # o => offer'[x] = offer[x] BY <1>0, <2>1, <2>3
  <2> QED BY <1>1, <2>1, <2>2, <2>4, NoTransactionType
<1>6. CASE HoldPrevious(k)
  <2> DEFINE o == clerk[k].at
             c == clerk[k].in
             p == IF clerk[k].previous \in ActiveVersions(o, c) THEN clerk[k].previous ELSE 0
             f == [clerk[k] EXCEPT !.pc = "holding", !.previous = p]
  <2>1. /\ clerk[k].pc = "pricing" /\ UNCHANGED <<product, offer, price, withdrawn>>
        /\ clerk' = [clerk EXCEPT ![k] = f]
    BY <1>0, <1>6 DEF HoldPrevious
  <2>2. clerk[k].previous \in 0..MaxVersion BY <1>0 DEF Dealing
  <2>3. p \in 0..MaxVersion /\ (p # 0 => p \in ActiveVersions(o, c)) BY <1>0, <2>2
  <2> HIDE DEF p
  <2>4. /\ f \in Dealing /\ f.pc = "holding" /\ f.at = o /\ f.in = c /\ f.nth = clerk[k].nth /\ f.previous = p
    BY <1>0, <2>3 DEF Dealing
  <2>5. /\ o \in Offer /\ c \in Currency /\ clerk[k].nth \in Versions(o, c)
        /\ price[o][c][clerk[k].nth].status = "draft"
    BY <1>0, <2>1 DEF Dealt, Deals
  <2>6. \A q \in Clerk : q # k /\ Deals(q) => ~(clerk[q].at = o /\ clerk[q].in = c /\ clerk[q].nth = clerk[k].nth)
    BY <2>1 DEF CatalogueInv, DealtApart, Deals
  <2> HIDE DEF f, o, c
  <2> QED BY <1>0, <1>1, <2>1, <2>3, <2>4, <2>5, <2>6
<1>7. CASE AbandonTransaction(k)
  BY <1>0, <1>1, <1>7, NoTransactionType DEF AbandonTransaction
<1> QED BY <1>2, <1>3, <1>4, <1>5, <1>6, <1>7

-----------------------------------------------------------------------------
(* Prices                                                                   *)

Actives(s) == {n \in DOMAIN s : s[n].status = "active"}
ActivesAt(s, interval) == {n \in Actives(s) : s[n].every = interval}
Sold(s) == \E n \in Actives(s) : InForce(s[n])
One(s) == \A m, n \in Actives(s) : s[m].every = s[n].every => m = n

\* What may become of a series of versions, of whose drafts only the dth is touched.
Grown(s, t, d) ==
    /\ t \in Seq(Version) /\ Len(t) >= Len(s)
    /\ \A n \in DOMAIN s :
         /\ t[n].amount = s[n].amount /\ t[n].every = s[n].every /\ Age(t[n].status) >= Age(s[n].status)
         /\ s[n].status = "draft" /\ n # d => t[n].status = "draft"
    /\ One(s) => One(t)

LEMMA Statuses == \A s \in Seq(Version) : \A n \in DOMAIN s : s[n] \in Version /\ s[n].status \in {"draft", "active", "archived"}
<1>1. \A v \in Version : v.status \in {"draft", "active", "archived"} BY DEF Version
<1>2. \A s \in Seq(Version) : \A n \in DOMAIN s : s[n] \in Version OBVIOUS
<1> QED BY <1>1, <1>2

LEMMA Ages == Age("draft") = 1 /\ Age("active") = 2 /\ Age("archived") = 3 BY DEF Age

LEMMA StayGrown == ASSUME NEW s \in Seq(Version), NEW d PROVE Grown(s, s, d)
<1>1. \A n \in DOMAIN s : s[n].status \in {"draft", "active", "archived"} BY Statuses
<1>2. \A n \in DOMAIN s : Age(s[n].status) >= Age(s[n].status) BY <1>1, Ages
<1>3. Len(s) \in Nat OBVIOUS
<1> QED BY <1>2, <1>3 DEF Grown

LEMMA AppendGrown ==
    ASSUME NEW s \in Seq(Version), NEW v \in Version, v.status = "draft"
    PROVE  Grown(s, Append(s, v), 0) /\ (Sold(s) => Sold(Append(s, v))) /\ Actives(Append(s, v)) = Actives(s)
<1> DEFINE t == Append(s, v)
<1>1. /\ t \in Seq(Version) /\ Len(t) = Len(s) + 1 /\ Len(s) \in Nat /\ DOMAIN s = 1..Len(s)
      /\ DOMAIN t = 1..(Len(s) + 1) /\ (\A i \in 1..Len(s) : t[i] = s[i]) /\ t[Len(s) + 1] = v
  BY AppendType
<1> HIDE DEF t
<1>2. \A i \in DOMAIN t : i \in DOMAIN s \/ t[i].status = "draft" BY <1>1
<1>3. \A i \in DOMAIN s : i \in DOMAIN t /\ t[i] = s[i] BY <1>1
<1>4. Actives(t) = Actives(s) BY <1>2, <1>3 DEF Actives
<1>5. One(s) => One(t) BY <1>3, <1>4 DEF One, Actives
<1>6. Sold(s) => Sold(t) BY <1>3, <1>4 DEF Sold, Actives
<1>7. \A n \in DOMAIN s : Age(t[n].status) >= Age(s[n].status)
  BY <1>3, StayGrown DEF Grown
<1>8. Grown(s, t, 0) BY <1>1, <1>3, <1>5, <1>7 DEF Grown
<1> QED BY <1>4, <1>6, <1>8 DEF t

\* The version activated takes the place of the active ones of its interval.
LEMMA ActivatedGrown ==
    ASSUME NEW s \in Seq(Version), NEW n \in DOMAIN s, s[n].status = "draft",
           NEW old, ActivesAt(s, s[n].every) \subseteq old, \A m \in old : m \in DOMAIN s /\ s[m].status # "draft"
    PROVE  LET t == Activated(s, n, old) IN
           /\ Grown(s, t, n) /\ (InForce(s[n]) => Sold(t))
           /\ Actives(t) = (Actives(s) \ old) \cup {n}
<1> DEFINE t == Activated(s, n, old)
<1>1. /\ t \in Seq(Version) /\ Len(t) = Len(s) /\ DOMAIN t = DOMAIN s
      /\ \A i \in DOMAIN s :
           /\ t[i].amount = s[i].amount /\ t[i].every = s[i].every
           /\ i = n => InForce(t[i]) = InForce(s[i])
           /\ t[i].status = IF i = n THEN "active" ELSE IF i \in old THEN "archived" ELSE s[i].status
  BY ActivatedType
<1> HIDE DEF t
<1>2. \A i \in DOMAIN s : s[i].status \in {"draft", "active", "archived"} BY Statuses
<1>3. Actives(t) = (Actives(s) \ old) \cup {n} BY <1>1, <1>2 DEF Actives
<1>4. \A i \in DOMAIN s : Age(t[i].status) >= Age(s[i].status) BY <1>1, <1>2, Ages
<1>5. \A i \in DOMAIN s : s[i].status = "draft" /\ i # n => t[i].status = "draft" BY <1>1
<1>6. One(s) => One(t) BY <1>1, <1>3 DEF One, Actives, ActivesAt
<1>7. Len(s) \in Nat OBVIOUS
<1>8. Grown(s, t, n) BY <1>1, <1>4, <1>5, <1>6, <1>7 DEF Grown
<1>9. InForce(s[n]) => Sold(t) BY <1>1, <1>3 DEF Sold
<1> QED BY <1>3, <1>8, <1>9 DEF t

\* A version added and activated at once.
LEMMA AddedGrown ==
    ASSUME NEW s \in Seq(Version), NEW a \in Amount, NEW interval \in Interval
    PROVE  LET added == Append(s, Drafted(Undated(a, interval)))
               n == Len(s) + 1
               t == Activated(added, Len(added), ActivesAt(s, interval))
           IN  /\ Grown(s, t, 0) /\ Sold(t) /\ Len(t) = n
               /\ Actives(t) = (Actives(s) \ ActivesAt(s, interval)) \cup {n}
               /\ t[n].amount = a /\ t[n].every = interval
<1> DEFINE v == Drafted(Undated(a, interval))
           added == Append(s, v)
           n == Len(s) + 1
           old == ActivesAt(s, interval)
           t == Activated(added, n, old)
<1>1. v \in Version /\ v.amount = a /\ v.every = interval /\ v.status = "draft" /\ InForce(v) BY UndatedType
<1> HIDE DEF v
<1>2. /\ added \in Seq(Version) /\ Len(added) = n /\ Len(s) \in Nat /\ DOMAIN s = 1..Len(s)
      /\ DOMAIN added = 1..n /\ (\A i \in 1..Len(s) : added[i] = s[i]) /\ added[n] = v
  BY <1>1, AppendType
<1>3. Actives(added) = Actives(s) /\ Grown(s, added, 0) BY <1>1, AppendGrown
<1> HIDE DEF added
<1>4. \A m \in old : m \in DOMAIN added /\ added[m].status # "draft" BY <1>2 DEF Actives, ActivesAt
<1>5. n \in DOMAIN added BY <1>2
<1>10. ActivesAt(added, added[n].every) \subseteq old
  <2>1. \A m \in Actives(s) : added[m] = s[m] BY <1>2 DEF Actives
  <2> QED BY <1>1, <1>2, <1>3, <2>1 DEF ActivesAt
<1> HIDE DEF old, n
<1>6. /\ Grown(added, t, n) /\ (InForce(added[n]) => Sold(t))
      /\ Actives(t) = (Actives(added) \ old) \cup {n}
  BY <1>1, <1>2, <1>4, <1>5, <1>10, ActivatedGrown
<1>7. Sold(t) /\ Actives(t) = (Actives(s) \ old) \cup {n} BY <1>1, <1>2, <1>3, <1>6
<1>8. Len(t) = n /\ t[n].amount = a /\ t[n].every = interval BY <1>1, <1>2, <1>5, ActivatedType
<1> HIDE DEF t
<1>9. Grown(s, t, 0)
  <2>1. t \in Seq(Version) /\ Len(t) >= Len(s) BY <1>2, <1>6, <1>8 DEF Grown, n
  <2>2. ASSUME NEW i \in DOMAIN s
        PROVE  /\ t[i].amount = s[i].amount /\ t[i].every = s[i].every /\ Age(t[i].status) >= Age(s[i].status)
               /\ s[i].status = "draft" => t[i].status = "draft"
    <3>1. i \in DOMAIN added /\ i # n /\ added[i] = s[i] BY <1>2 DEF n
    <3> QED BY <1>6, <3>1 DEF Grown
  <2>3. One(s) => One(t) BY <1>3, <1>6 DEF Grown
  <2> QED BY <2>1, <2>2, <2>3 DEF Grown
<1> QED BY <1>2, <1>7, <1>8, <1>9 DEF t, added, v, old, n

\* The prices of the action property, step by step.
History ==
    \A o \in Offer, c \in Currency :
      /\ Len(price'[o][c]) >= Len(price[o][c])
      /\ \A n \in Versions(o, c) :
           /\ price'[o][c][n].amount = price[o][c][n].amount
           /\ Age(price'[o][c][n].status) >= Age(price[o][c][n].status)

\* Where a step touches a draft, it is the dth of offer o in currency c.
Touches(o, c, d) ==
    /\ price' \in Prices
    /\ \A x \in Offer, y \in Currency :
         /\ Len(price'[x][y]) <= MaxVersion
         /\ Grown(price[x][y], price'[x][y], IF x = o /\ y = c THEN d ELSE 0)
         /\ x \notin withdrawn' /\ Sold(price[x][y]) => Sold(price'[x][y])

\* Transactions end, or stay as they are and have nothing to do with that draft.
ClerksStay(o, c, d) ==
    /\ clerk' \in [Clerk -> Dealing]
    /\ \A k \in Clerk : clerk'[k] = NoTransaction \/
         (clerk'[k] = clerk[k] /\ (Deals(k) => ~(clerk[k].at = o /\ clerk[k].in = c /\ clerk[k].nth = d)))

LEMMA PricesKeep ==
    ASSUME CatalogueInv, Same, UNCHANGED <<product, offer>>, withdrawn' \in SUBSET Offer, withdrawn \subseteq withdrawn',
           NEW o \in Offer, NEW c \in Currency, NEW d, Touches(o, c, d), ClerksStay(o, c, d)
    PROVE  CatalogueInv' /\ History
<1>0. \A x \in Offer, y \in Currency : price[x][y] \in Seq(Version) /\ price'[x][y] \in Seq(Version)
  BY DEF CatalogueInv, CatalogueTyped, Prices, Touches
<1>1. History BY DEF History, Touches, Grown, Versions
<1>2. CatalogueTyped'
  <2>1. \A x \in Offer, y \in Currency : price'[x][y] \in Seq(Version) /\ Len(price'[x][y]) <= MaxVersion
    BY <1>0 DEF Touches
  <2> QED BY <2>1 DEF Touches, ClerksStay, Prices, Same, CatalogueInv, CatalogueTyped, CatalogueTypeOK
<1>3. OneActive'
  <2>1. \A x \in Offer, y \in Currency : One(price[x][y])
    BY DEF CatalogueInv, OneActive, One, Actives, ActiveVersions, Versions
  <2>2. \A x \in Offer, y \in Currency : One(price'[x][y]) BY <2>1 DEF Touches, Grown
  <2> QED BY <2>2 DEF OneActive, One, Actives, ActiveVersions, Versions
<1>4. \A k \in Clerk : clerk'[k].pc = "idle" \/ clerk'[k] = clerk[k] BY NoTransactionType DEF ClerksStay
<1>5. DealtApart' BY <1>4 DEF CatalogueInv, DealtApart, Deals
<1>6. ASSUME NEW k \in Clerk PROVE Dealt(k)'
  <2>1. CASE clerk'[k] = NoTransaction BY <2>1, NoTransactionType DEF Dealt, Deals
  <2>2. CASE clerk'[k] # NoTransaction
    <3> DEFINE a == clerk[k].at
               b == clerk[k].in
               s == price[a][b]
               t == price'[a][b]
    <3>1. clerk'[k] = clerk[k] /\ Dealt(k) /\ (Deals(k) => ~(a = o /\ b = c /\ clerk[k].nth = d))
      BY <2>2 DEF CatalogueInv, ClerksStay
    <3>2. CASE Deals(k)
      <4>1. /\ a \in Offer /\ b \in Currency /\ clerk[k].nth \in DOMAIN s /\ s[clerk[k].nth].status = "draft"
            /\ clerk[k].pc = "holding" /\ clerk[k].previous # 0 =>
                 clerk[k].previous \in DOMAIN s /\ s[clerk[k].previous].status # "draft"
        BY <3>1, <3>2 DEF Dealt, Versions
      <4>2. Grown(s, t, IF a = o /\ b = c THEN d ELSE 0) /\ s \in Seq(Version) /\ t \in Seq(Version)
        BY <1>0, <4>1 DEF Touches
      <4>3. DOMAIN s \subseteq DOMAIN t
        <5>1. Len(t) >= Len(s) BY <4>2 DEF Grown
        <5> HIDE DEF s, t
        <5>2. DOMAIN s = 1..Len(s) /\ DOMAIN t = 1..Len(t) /\ Len(s) \in Nat /\ Len(t) \in Nat BY <4>2
        <5> QED BY <5>1, <5>2
      <4>4. DOMAIN s \cap {0} = {}
        <5> HIDE DEF s
        <5> QED BY <4>2
      <4>5. t[clerk[k].nth].status = "draft"
        <5>1. clerk[k].nth # (IF a = o /\ b = c THEN d ELSE 0) BY <3>1, <3>2, <4>1, <4>4
        <5> HIDE DEF s, t
        <5> QED BY <4>1, <4>2, <5>1 DEF Grown
      <4>6. \A n \in DOMAIN s : s[n].status # "draft" => t[n].status # "draft"
        <5> HIDE DEF s, t
        <5>1. \A n \in DOMAIN s : s[n].status # "draft" => Age(s[n].status) >= 2 BY <4>2, Statuses, Ages
        <5>2. \A n \in DOMAIN s : Age(t[n].status) >= Age(s[n].status) BY <4>2 DEF Grown
        <5>3. \A n \in DOMAIN t : Age(t[n].status) \in Nat BY <4>2, Statuses, Ages
        <5>4. \A n \in DOMAIN s : Age(s[n].status) \in Nat BY <4>2, Statuses, Ages
        <5> QED BY <4>3, <5>1, <5>2, <5>3, <5>4, Ages
      <4> QED BY <3>1, <3>2, <4>1, <4>3, <4>5, <4>6 DEF Dealt, Deals, Versions
    <3>3. CASE ~Deals(k) BY <3>1, <3>3 DEF Dealt, Deals
    <3> QED BY <3>2, <3>3
  <2> QED BY <2>1, <2>2
<1>7. \A x \in Offer \ withdrawn' : Complete(x) => Complete(x)'
  <2>1. \A x \in Offer : MissingCurrencies(x) = {} <=> \A y \in Currency : Sold(price[x][y])
    BY DEF MissingCurrencies, Sellable, InForce, ActiveVersions, Versions, Sold, Actives
  <2>2. \A x \in Offer : MissingCurrencies(x)' = {} <=> \A y \in Currency : Sold(price'[x][y])
    BY DEF MissingCurrencies, Sellable, InForce, ActiveVersions, Versions, Sold, Actives
  <2>3. \A x \in Offer \ withdrawn' : MissingCurrencies(x) = {} => MissingCurrencies(x)' = {}
    BY <2>1, <2>2 DEF Touches
  <2>4. OnOffer => OnOffer' BY DEF OnOffer
  <2> QED BY <2>3, <2>4 DEF Complete
<1>8. Whole' BY <1>4, <1>7 DEF CatalogueInv, Whole
<1> QED BY <1>1, <1>2, <1>3, <1>5, <1>6, <1>8 DEF CatalogueInv

LEMMA Series ==
    ASSUME CatalogueInv
    PROVE  /\ price \in Prices
           /\ \A o \in Offer, c \in Currency :
                /\ price[o][c] \in Seq(Version) /\ Len(price[o][c]) \in Nat /\ Len(price[o][c]) <= MaxVersion
                /\ DOMAIN price[o][c] = 1..Len(price[o][c])
                /\ \A d : Grown(price[o][c], price[o][c], d)
                /\ ActiveVersions(o, c) = Actives(price[o][c])
                /\ \A i : ActiveAt(o, c, i) = ActivesAt(price[o][c], i)
  BY StayGrown DEF CatalogueInv, CatalogueTyped, CatalogueTypeOK, Prices, ActiveAt, ActiveVersions, Versions, Actives, ActivesAt

\* One series of prices is written.
LEMMA OneTouched ==
    ASSUME CatalogueInv, NEW o \in Offer, NEW c \in Currency, NEW t, NEW d,
           price' = [price EXCEPT ![o][c] = t], Grown(price[o][c], t, d), Len(t) <= MaxVersion,
           o \notin withdrawn' /\ Sold(price[o][c]) => Sold(t)
    PROVE  Touches(o, c, d)
<1>1. price \in [Offer -> [Currency -> Seq(Version)]] BY Series DEF Prices
<1>2. t \in Seq(Version) BY DEF Grown
<1>3. price' = [price EXCEPT ![o] = [price[o] EXCEPT ![c] = t]] OBVIOUS
<1>4. [price[o] EXCEPT ![c] = t] \in [Currency -> Seq(Version)] BY <1>1, <1>2
<1>5. price' \in Prices BY <1>1, <1>3, <1>4 DEF Prices
<1>6. \A x \in Offer, y \in Currency : price'[x][y] = IF x = o /\ y = c THEN t ELSE price[x][y]
  BY <1>1, <1>3
<1>7. ASSUME NEW x \in Offer, NEW y \in Currency
      PROVE  /\ Len(price'[x][y]) <= MaxVersion
             /\ Grown(price[x][y], price'[x][y], IF x = o /\ y = c THEN d ELSE 0)
             /\ x \notin withdrawn' /\ Sold(price[x][y]) => Sold(price'[x][y])
  <2>1. CASE x = o /\ y = c BY <1>6, <2>1
  <2>2. CASE ~(x = o /\ y = c) BY <1>6, <2>2, Series
  <2> QED BY <2>1, <2>2
<1> QED BY <1>5, <1>7 DEF Touches

LEMMA Zero ==
    ASSUME CatalogueInv, NEW k \in Clerk, Deals(k) PROVE clerk[k].nth # 0
<1>1. /\ clerk[k].at \in Offer /\ clerk[k].in \in Currency
      /\ clerk[k].nth \in DOMAIN price[clerk[k].at][clerk[k].in]
  BY DEF CatalogueInv, Dealt, Versions
<1>2. 0 \notin DOMAIN price[clerk[k].at][clerk[k].in]
  <2>1. DOMAIN price[clerk[k].at][clerk[k].in] = 1..Len(price[clerk[k].at][clerk[k].in])
        /\ Len(price[clerk[k].at][clerk[k].in]) \in Nat
    BY <1>1, Series
  <2> QED BY <2>1
<1> QED BY <1>1, <1>2

LEMMA ClerksStand ==
    ASSUME CatalogueInv, UNCHANGED clerk, NEW o, NEW c PROVE ClerksStay(o, c, 0)
  BY Zero DEF ClerksStay, CatalogueInv, CatalogueTyped, CatalogueTypeOK

LEMMA StandStill ==
    ASSUME CatalogueInv, Same, UNCHANGED <<product, offer, price, clerk, withdrawn>> PROVE CatalogueInv'
<1>1. CatalogueTyped' BY DEF Same, CatalogueInv, CatalogueTyped, CatalogueTypeOK
<1>2. (\A k \in Clerk : Dealt(k))' /\ DealtApart' /\ OneActive'
  BY DEF CatalogueInv, Dealt, Deals, DealtApart, OneActive, ActiveVersions, Versions
<1>3. Whole' BY DEF CatalogueInv, Whole, Complete, OnOffer, MissingCurrencies, Sellable, InForce, ActiveVersions, Versions
<1> QED BY <1>1, <1>2, <1>3 DEF CatalogueInv

LEMMA CreateKeeps ==
    ASSUME CatalogueInv, Same, UNCHANGED clerk, NEW o \in Offer, NEW c \in Currency,
           NEW input \in CreatePriceInput, CreatePriceVersion(o, c, input)
    PROVE  CatalogueInv' /\ History
<1> DEFINE s == price[o][c]
           v == Drafted(input)
<1>1. /\ price' = [price EXCEPT ![o][c] = Append(s, v)] /\ Len(s) < MaxVersion
      /\ UNCHANGED <<product, offer, withdrawn>>
  BY DEF CreatePriceVersion
<1>2. v \in Version /\ v.status = "draft" BY DraftedType
<1>3. s \in Seq(Version) /\ Len(s) \in Nat BY Series
<1> HIDE DEF v
<1>4. Grown(s, Append(s, v), 0) /\ (Sold(s) => Sold(Append(s, v))) /\ Len(Append(s, v)) = Len(s) + 1
  BY <1>2, <1>3, AppendGrown, AppendType
<1>5. MaxVersion \in Nat BY CatalogueAssumption DEF CatalogueAssumption
<1>6. Touches(o, c, 0)
  <2> DEFINE t == Append(s, v)
  <2>1. Len(t) <= MaxVersion BY <1>1, <1>3, <1>4, <1>5
  <2>2. price' = [price EXCEPT ![o][c] = t] BY <1>1
  <2>3. Grown(price[o][c], t, 0) /\ (o \notin withdrawn' /\ Sold(price[o][c]) => Sold(t)) BY <1>4
  <2> HIDE DEF t, s
  <2> QED BY <2>1, <2>2, <2>3, OneTouched
<1>7. ClerksStay(o, c, 0) BY ClerksStand
<1>8. withdrawn' \in SUBSET Offer BY <1>1 DEF CatalogueInv, CatalogueTyped, CatalogueTypeOK
<1>9. UNCHANGED <<product, offer>> /\ withdrawn \subseteq withdrawn' BY <1>1
<1> HIDE DEF s
<1> QED BY <1>6, <1>7, <1>8, <1>9, PricesKeep

LEMMA ArchiveKeeps ==
    ASSUME CatalogueInv, Same, UNCHANGED clerk, NEW o \in Offer, NEW c \in Currency, NEW n,
           ArchivePriceVersion(o, c, n)
    PROVE  CatalogueInv' /\ History
<1> DEFINE s == price[o][c]
           x == Archived(s[n])
           t == [s EXCEPT ![n] = x]
<1>1. /\ n \in DOMAIN s /\ ~VersionLocked(o, c, n) /\ UNCHANGED <<product, offer>>
      /\ withdrawn' = IF n \in ActiveVersions(o, c) THEN withdrawn \cup {o} ELSE withdrawn
      /\ price' = [price EXCEPT ![o][c] = t]
  BY DEF ArchivePriceVersion, Versions
<1>2. s \in Seq(Version) /\ Len(s) <= MaxVersion /\ Len(s) \in Nat /\ ActiveVersions(o, c) = Actives(s) BY Series
<1>3. \A i \in DOMAIN s : s[i] \in Version /\ s[i].status \in {"draft", "active", "archived"} BY <1>2, Statuses
<1>4. x \in Version /\ x.status = "archived" /\ x.amount = s[n].amount /\ x.every = s[n].every
  BY <1>1, <1>3, ArchivedType
<1> HIDE DEF x, s
<1>5. /\ t \in Seq(Version) /\ Len(t) = Len(s) /\ DOMAIN t = DOMAIN s /\ t[n] = x
      /\ \A i \in DOMAIN s : i # n => t[i] = s[i]
  BY <1>1, <1>2, <1>4
<1> HIDE DEF t
<1>6. Grown(s, t, n)
  <2>1. ASSUME NEW i \in DOMAIN s
        PROVE  /\ t[i].amount = s[i].amount /\ t[i].every = s[i].every /\ Age(t[i].status) >= Age(s[i].status)
               /\ s[i].status = "draft" /\ i # n => t[i].status = "draft"
    <3>1. CASE i = n BY <1>3, <1>4, <1>5, <3>1, Ages
    <3>2. CASE i # n BY <1>3, <1>5, <3>2, Ages
    <3> QED BY <3>1, <3>2
  <2>2. Actives(t) \subseteq Actives(s) BY <1>4, <1>5 DEF Actives
  <2>3. One(s) => One(t) BY <2>1, <2>2 DEF One, Actives
  <2> QED BY <1>2, <1>5, <2>1, <2>3 DEF Grown
<1>7. n \notin Actives(s) /\ Sold(s) => Sold(t) BY <1>5 DEF Sold, Actives
<1>8. o \notin withdrawn' /\ Sold(s) => Sold(t) BY <1>1, <1>2, <1>7
<1>9. Touches(o, c, n) BY <1>1, <1>2, <1>5, <1>6, <1>8, OneTouched DEF s
<1>10. ClerksStay(o, c, n)
  BY <1>1 DEF ClerksStay, CatalogueInv, CatalogueTyped, CatalogueTypeOK, VersionLocked, Pricing, Deals
<1>11. withdrawn' \in SUBSET Offer /\ withdrawn \subseteq withdrawn'
  BY <1>1 DEF CatalogueInv, CatalogueTyped, CatalogueTypeOK
<1> QED BY <1>1, <1>9, <1>10, <1>11, PricesKeep

LEMMA EffectiveKeeps ==
    ASSUME CatalogueInv, Same, UNCHANGED clerk, NEW o \in Offer, NEW c \in Currency, NEW n,
           BecomeEffective(o, c, n)
    PROVE  CatalogueInv' /\ History
<1> DEFINE s == price[o][c]
           x == [s[n] EXCEPT !.begun = TRUE]
           t == [s EXCEPT ![n] = x]
<1>1. /\ n \in DOMAIN s /\ UNCHANGED <<product, offer, withdrawn>> /\ price' = [price EXCEPT ![o][c] = t]
  BY DEF BecomeEffective, Versions
<1>2. s \in Seq(Version) /\ Len(s) <= MaxVersion /\ Len(s) \in Nat BY Series
<1>3. \A i \in DOMAIN s : s[i] \in Version /\ s[i].status \in {"draft", "active", "archived"} BY <1>2, Statuses
<1>4. /\ x \in Version /\ x.status = s[n].status /\ x.amount = s[n].amount /\ x.every = s[n].every
      /\ InForce(s[n]) => InForce(x)
  BY <1>1, <1>3 DEF Version, InForce
<1> HIDE DEF x, s
<1>5. /\ t \in Seq(Version) /\ Len(t) = Len(s) /\ DOMAIN t = DOMAIN s /\ t[n] = x
      /\ \A i \in DOMAIN s : i # n => t[i] = s[i]
  BY <1>1, <1>2, <1>4
<1> HIDE DEF t
<1>6. Grown(s, t, 0)
  <2>1. ASSUME NEW i \in DOMAIN s
        PROVE  /\ t[i].amount = s[i].amount /\ t[i].every = s[i].every /\ Age(t[i].status) >= Age(s[i].status)
               /\ s[i].status = "draft" => t[i].status = "draft"
    <3>1. CASE i = n BY <1>3, <1>4, <1>5, <3>1, Ages
    <3>2. CASE i # n BY <1>3, <1>5, <3>2, Ages
    <3> QED BY <3>1, <3>2
  <2>2. Actives(t) \subseteq Actives(s) BY <1>4, <1>5 DEF Actives
  <2>3. One(s) => One(t) BY <2>1, <2>2 DEF One, Actives
  <2> QED BY <1>2, <1>5, <2>1, <2>3 DEF Grown
<1>7. Sold(s) => Sold(t) BY <1>4, <1>5 DEF Sold, Actives
<1>8. Touches(o, c, 0) BY <1>1, <1>2, <1>5, <1>6, <1>7, OneTouched DEF s
<1>9. ClerksStay(o, c, 0) BY ClerksStand
<1>10. withdrawn' \in SUBSET Offer BY <1>1 DEF CatalogueInv, CatalogueTyped, CatalogueTypeOK
<1> QED BY <1>1, <1>8, <1>9, <1>10, PricesKeep

LEMMA RunOutKeeps ==
    ASSUME CatalogueInv, Same, UNCHANGED clerk, NEW o \in Offer, NEW c \in Currency, NEW n,
           RunOut(o, c, n)
    PROVE  CatalogueInv' /\ History
<1> DEFINE s == price[o][c]
           x == [s[n] EXCEPT !.until = "past"]
           t == [s EXCEPT ![n] = x]
<1>1. /\ n \in DOMAIN s /\ UNCHANGED <<product, offer>> /\ price' = [price EXCEPT ![o][c] = t]
      /\ withdrawn' = IF n \in ActiveVersions(o, c) THEN withdrawn \cup {o} ELSE withdrawn
  BY DEF RunOut, Versions
<1>2. s \in Seq(Version) /\ Len(s) <= MaxVersion /\ Len(s) \in Nat /\ ActiveVersions(o, c) = Actives(s) BY Series
<1>3. \A i \in DOMAIN s : s[i] \in Version /\ s[i].status \in {"draft", "active", "archived"} BY <1>2, Statuses
<1>4. x \in Version /\ x.status = s[n].status /\ x.amount = s[n].amount /\ x.every = s[n].every
  BY <1>1, <1>3 DEF Version
<1> HIDE DEF x, s
<1>5. /\ t \in Seq(Version) /\ Len(t) = Len(s) /\ DOMAIN t = DOMAIN s /\ t[n] = x
      /\ \A i \in DOMAIN s : i # n => t[i] = s[i]
  BY <1>1, <1>2, <1>4
<1> HIDE DEF t
<1>6. Grown(s, t, 0)
  <2>1. ASSUME NEW i \in DOMAIN s
        PROVE  /\ t[i].amount = s[i].amount /\ t[i].every = s[i].every /\ Age(t[i].status) >= Age(s[i].status)
               /\ s[i].status = "draft" => t[i].status = "draft"
    <3>1. CASE i = n BY <1>3, <1>4, <1>5, <3>1, Ages
    <3>2. CASE i # n BY <1>3, <1>5, <3>2, Ages
    <3> QED BY <3>1, <3>2
  <2>2. Actives(t) \subseteq Actives(s) BY <1>4, <1>5 DEF Actives
  <2>3. One(s) => One(t) BY <2>1, <2>2 DEF One, Actives
  <2> QED BY <1>2, <1>5, <2>1, <2>3 DEF Grown
<1>7. n \notin Actives(s) /\ Sold(s) => Sold(t) BY <1>5 DEF Sold, Actives
<1>8. Touches(o, c, 0) BY <1>1, <1>2, <1>5, <1>6, <1>7, OneTouched DEF s
<1>9. ClerksStay(o, c, 0) BY ClerksStand
<1>10. withdrawn' \in SUBSET Offer /\ withdrawn \subseteq withdrawn'
  BY <1>1 DEF CatalogueInv, CatalogueTyped, CatalogueTypeOK
<1> QED BY <1>1, <1>8, <1>9, <1>10, PricesKeep

LEMMA ActivationKeeps ==
    ASSUME CatalogueInv, Same, NEW k \in Clerk, CommitActivation(k)
    PROVE  CatalogueInv' /\ History
<1> DEFINE o == clerk[k].at
           c == clerk[k].in
           n == clerk[k].nth
           old == {clerk[k].previous} \ {0}
           s == price[o][c]
           t == Activated(s, n, old)
<1>1. /\ clerk[k].pc = "holding" /\ UNCHANGED <<product, offer>>
      /\ clerk' = [clerk EXCEPT ![k] = NoTransaction]
      /\ price' = IF ActiveAt(o, c, s[n].every) \subseteq old THEN [price EXCEPT ![o][c] = t] ELSE price
      /\ withdrawn' = IF price' # price /\ ~InForce(s[n]) THEN withdrawn \cup {o} ELSE withdrawn
  BY DEF CommitActivation
<1>2. /\ o \in Offer /\ c \in Currency /\ n \in DOMAIN s /\ s[n].status = "draft"
      /\ \A m \in old : m \in DOMAIN s /\ s[m].status # "draft"
  BY <1>1 DEF CatalogueInv, Dealt, Deals, Versions
<1>3. s \in Seq(Version) /\ Len(s) <= MaxVersion /\ Len(s) \in Nat /\ ActiveAt(o, c, s[n].every) = ActivesAt(s, s[n].every)
  BY <1>2, Series
<1>4. /\ clerk' \in [Clerk -> Dealing]
      /\ \A q \in Clerk : clerk'[q] = NoTransaction \/ (q # k /\ clerk'[q] = clerk[q])
  BY <1>1, NoTransactionType DEF CatalogueInv, CatalogueTyped, CatalogueTypeOK
<1>5. \A q \in Clerk : q # k /\ Deals(q) => ~(clerk[q].at = o /\ clerk[q].in = c /\ clerk[q].nth = n)
  BY <1>1 DEF CatalogueInv, DealtApart, Deals
<1>6. withdrawn' \in SUBSET Offer /\ withdrawn \subseteq withdrawn'
  BY <1>1, <1>2 DEF CatalogueInv, CatalogueTyped, CatalogueTypeOK
<1>7. Touches(o, c, n)
  <2> HIDE DEF s
  <2>1. CASE ActivesAt(s, s[n].every) \subseteq old
    <3>1. Grown(s, t, n) /\ (InForce(s[n]) => Sold(t)) BY <1>2, <1>3, <2>1, ActivatedGrown
    <3>2. Len(t) = Len(s) BY <1>3, ActivatedType
    <3> HIDE DEF t, old, o, c, n
    <3>3. price' = [price EXCEPT ![o][c] = t] BY <1>1, <1>3, <2>1
    <3>4. o \notin withdrawn' /\ Sold(s) => Sold(t)
      <4>1. CASE price' = price
        <5>1. price'[o][c] = t BY <1>2, <3>3, Series DEF Prices
        <5>2. t = s BY <4>1, <5>1 DEF s
        <5> QED BY <5>2
      <4>2. CASE price' # price BY <1>1, <3>1, <4>2
      <4> QED BY <4>1, <4>2
    <3> QED BY <1>2, <1>3, <3>1, <3>2, <3>3, <3>4, OneTouched DEF s
  <2>2. CASE ~(ActivesAt(s, s[n].every) \subseteq old)
    <3>1. price' = price BY <1>1, <1>3, <2>2
    <3> QED BY <3>1, Series DEF Touches
  <2> QED BY <2>1, <2>2
<1> HIDE DEF o, c, n, old, s, t
<1>8. ClerksStay(o, c, n)
  <2>1. ASSUME NEW q \in Clerk
        PROVE  clerk'[q] = NoTransaction \/
                 (clerk'[q] = clerk[q] /\ (Deals(q) => ~(clerk[q].at = o /\ clerk[q].in = c /\ clerk[q].nth = n)))
    <3>1. clerk'[q] = NoTransaction \/ (q # k /\ clerk'[q] = clerk[q]) BY <1>4
    <3>2. q # k /\ Deals(q) => ~(clerk[q].at = o /\ clerk[q].in = c /\ clerk[q].nth = n) BY <1>5
    <3> HIDE DEF Deals
    <3> QED BY <3>1, <3>2
  <2> QED BY <1>4, <2>1 DEF ClerksStay
<1> QED BY <1>1, <1>2, <1>6, <1>7, <1>8, PricesKeep

LEMMA PriceSetKeeps ==
    ASSUME CatalogueInv, Same, UNCHANGED clerk, NEW o \in Offer, NEW asked, NEW interval \in Interval, NEW activate \in BOOLEAN,
           DOMAIN asked \subseteq Currency, \A c \in DOMAIN asked : asked[c] \in Amount,
           PriceSet(o, asked, interval, activate)
    PROVE  CatalogueInv' /\ History
<1> DEFINE new(c) == IF c \notin DOMAIN asked THEN price[o][c]
                     ELSE LET added == Append(price[o][c], Drafted(Undated(asked[c], interval))) IN
                          IF activate THEN Activated(added, Len(added), ActiveAt(o, c, interval)) ELSE added
<1>1. /\ price' = [price EXCEPT ![o] = [c \in Currency |-> new(c)]]
      /\ \A c \in DOMAIN asked : Len(price[o][c]) < MaxVersion
      /\ UNCHANGED <<product, offer, withdrawn>>
  BY DEF PriceSet
<1>2. MaxVersion \in Nat BY CatalogueAssumption DEF CatalogueAssumption
<1>3. ASSUME NEW c \in Currency
      PROVE  Grown(price[o][c], new(c), 0) /\ Len(new(c)) <= MaxVersion /\ (Sold(price[o][c]) => Sold(new(c)))
  <2>0. /\ price[o][c] \in Seq(Version) /\ Len(price[o][c]) <= MaxVersion /\ Len(price[o][c]) \in Nat
        /\ ActiveAt(o, c, interval) = ActivesAt(price[o][c], interval)
    BY Series
  <2>1. CASE c \notin DOMAIN asked BY <2>0, <2>1, Series
  <2>2. CASE c \in DOMAIN asked /\ activate
    <3> DEFINE added == Append(price[o][c], Drafted(Undated(asked[c], interval)))
               t == Activated(added, Len(added), ActivesAt(price[o][c], interval))
    <3>1. Grown(price[o][c], t, 0) /\ Sold(t) /\ Len(t) = Len(price[o][c]) + 1 BY <2>0, <2>2, AddedGrown
    <3>2. new(c) = t BY <2>0, <2>2
    <3> HIDE DEF t, new
    <3> QED BY <1>1, <1>2, <2>0, <2>2, <3>1, <3>2
  <2>3. CASE c \in DOMAIN asked /\ ~activate
    <3> DEFINE v == Drafted(Undated(asked[c], interval))
    <3>1. v \in Version /\ v.status = "draft" BY <2>3, UndatedType
    <3>2. new(c) = Append(price[o][c], v) BY <2>3
    <3> HIDE DEF v, new
    <3>3. Grown(price[o][c], new(c), 0) /\ (Sold(price[o][c]) => Sold(new(c))) /\ Len(new(c)) = Len(price[o][c]) + 1
      BY <2>0, <3>1, <3>2, AppendGrown, AppendType
    <3> QED BY <1>1, <1>2, <2>0, <2>3, <3>3
  <2> QED BY <2>1, <2>2, <2>3
<1> HIDE DEF new
<1>4. \A c \in Currency : new(c) \in Seq(Version) BY <1>3 DEF Grown
<1>5. price' \in Prices /\ \A x \in Offer, y \in Currency : price'[x][y] = IF x = o THEN new(y) ELSE price[x][y]
  BY <1>1, <1>4, Series DEF Prices
<1>6. CASE Currency # {}
  <2>1. PICK c \in Currency : TRUE BY <1>6
  <2>2. ASSUME NEW x \in Offer, NEW y \in Currency
        PROVE  /\ Len(price'[x][y]) <= MaxVersion
               /\ Grown(price[x][y], price'[x][y], IF x = o /\ y = c THEN 0 ELSE 0)
               /\ x \notin withdrawn' /\ Sold(price[x][y]) => Sold(price'[x][y])
    <3>1. CASE x = o BY <1>3, <1>5, <3>1
    <3>2. CASE x # o BY <1>5, <3>2, Series
    <3> QED BY <3>1, <3>2
  <2>3. Touches(o, c, 0) BY <1>5, <2>2 DEF Touches
  <2>5. ClerksStay(o, c, 0) BY ClerksStand
  <2>4. withdrawn' \in SUBSET Offer BY <1>1 DEF CatalogueInv, CatalogueTyped, CatalogueTypeOK
  <2> QED BY <1>1, <2>3, <2>4, <2>5, PricesKeep
<1>7. CASE Currency = {}
  <2>1. price' = price BY <1>5, <1>7, Series DEF Prices
  <2> QED BY <1>1, <1>7, <2>1, StandStill DEF History
<1> QED BY <1>6, <1>7

\* A step that leaves the prices alone.
LEMMA PricesStand == ASSUME CatalogueInv, UNCHANGED price PROVE History
  BY Series DEF History, Grown, Versions

LEMMA EditKeeps ==
    ASSUME CatalogueInv, Same, UNCHANGED clerk, Edit PROVE CatalogueInv' /\ History
<1>1. CASE \/ CreateProduct \/ CreateMajor
           \/ \E e \in Entity : \E status \in StatusOf(e) : UpdateStatus(e, status)
           \/ \E status \in StatusOf("edition") : UpsertEditionPolicy(status)
  <2>1. CatalogueInv' BY <1>1, EntitiesKeep
  <2>2. UNCHANGED price BY <1>1 DEF CreateProduct, CreateMajor, UpdateStatus, UpsertEditionPolicy
  <2> QED BY <2>1, <2>2, PricesStand
<1>2. ASSUME NEW o \in Offer,
             \/ CreateOffer(o)
             \/ \E asked \in BOOLEAN : UpdateOffer(o, asked)
             \/ \E state \in {"synced", "failed"} : LinkOffer(o, state)
             \/ \E status \in {"draft", "archived"} : SetAside(o, status)
             \/ PublishAtOnce(o)
      PROVE  CatalogueInv' /\ History
  <2>1. CatalogueInv' BY <1>2, OffersKeep
  <2>2. UNCHANGED price BY <1>2 DEF CreateOffer, UpdateOffer, LinkOffer, SetAside, PublishAtOnce
  <2> QED BY <2>1, <2>2, PricesStand
<1>3. ASSUME NEW o \in Offer, NEW c \in Currency, NEW input \in CreatePriceInput, CreatePriceVersion(o, c, input)
      PROVE  CatalogueInv' /\ History
  BY <1>3, CreateKeeps
<1>4. ASSUME NEW o \in Offer, NEW input \in CreatePriceInput, NEW activate \in BOOLEAN,
             PriceSet(o, [x \in Currency |-> input.amount], input.every, activate)
      PROVE  CatalogueInv' /\ History
  <2> DEFINE asked == [x \in Currency |-> input.amount]
  <2>1. input.amount \in Amount /\ input.every \in Interval BY CatalogueAssumption DEF CatalogueAssumption
  <2>2. DOMAIN asked \subseteq Currency /\ (\A c \in DOMAIN asked : asked[c] \in Amount) BY <2>1
  <2>3. PriceSet(o, asked, input.every, activate) BY <1>4
  <2> HIDE DEF asked
  <2> QED BY <2>1, <2>2, <2>3, PriceSetKeeps
<1>5. ASSUME NEW o \in Offer, NEW c \in Currency, NEW n, ArchivePriceVersion(o, c, n)
      PROVE  CatalogueInv' /\ History
  BY <1>5, ArchiveKeeps
<1> QED BY <1>1, <1>2, <1>3, <1>4, <1>5 DEF Edit

LEMMA CatalogueKeeps ==
    ASSUME CatalogueInv, CatalogueNext PROVE CatalogueInv' /\ History
<1>0. edits \in 0..MaxEdit /\ MaxEdit \in Nat
  BY CatalogueAssumption DEF CatalogueAssumption, CatalogueInv, CatalogueTyped, CatalogueTypeOK
<1>1. CASE EditCatalogue
  <2>1. Same /\ UNCHANGED clerk /\ Edit BY <1>0, <1>1 DEF EditCatalogue, Same
  <2> QED BY <2>1, EditKeeps
<1>2. ASSUME NEW k \in Clerk, BeginTransaction(k) PROVE CatalogueInv' /\ History
  <2>1. Same BY <1>0, <1>2 DEF BeginTransaction, Same
  <2>2. \/ \E o \in Offer : BeginPublishing(k, o)
        \/ \E o \in Offer, c \in Currency, n \in 1..MaxVersion : BeginActivation(k, o, c, n)
    BY <1>2 DEF BeginTransaction
  <2>3. UNCHANGED price BY <2>2 DEF BeginPublishing, BeginActivation
  <2>4. CatalogueInv' BY <2>1, <2>2, ClerksKeep
  <2> QED BY <2>3, <2>4, PricesStand
<1>3. ASSUME NEW k \in Clerk, Continue(k) PROVE CatalogueInv' /\ History
  <2>1. Same BY <1>0, <1>3 DEF Continue, Same
  <2>2. CASE CommitActivation(k) BY <2>1, <2>2, ActivationKeeps
  <2>3. CASE CheckPublishing(k) \/ CommitPublishing(k) \/ HoldPrevious(k) \/ AbandonTransaction(k)
    <3>1. UNCHANGED price BY <2>3 DEF CheckPublishing, CommitPublishing, HoldPrevious, AbandonTransaction
    <3>2. CatalogueInv' BY <2>1, <2>3, ClerksKeep
    <3> QED BY <3>1, <3>2, PricesStand
  <2> QED BY <1>3, <2>2, <2>3 DEF Continue
<1>4. ASSUME NEW o \in Offer, NEW c \in Currency, NEW n, BecomeEffective(o, c, n) \/ RunOut(o, c, n),
             UNCHANGED <<clerk, edits, desk>>
      PROVE  CatalogueInv' /\ History
  <2>1. Same BY <1>0, <1>4 DEF Same
  <2> QED BY <1>4, <2>1, EffectiveKeeps, RunOutKeeps
<1> QED BY <1>1, <1>2, <1>3, <1>4 DEF CatalogueNext

LEMMA CatalogueStands ==
    ASSUME CatalogueInv, UNCHANGED catalogueVars PROVE CatalogueInv' /\ History
<1>1. Same BY DEF Same, CatalogueInv, CatalogueTyped, CatalogueTypeOK, catalogueVars
<1> QED BY <1>1, StandStill, PricesStand DEF catalogueVars

\* The invariant the theorems about the catalogue rest on.
THEOREM CatalogueInvariant == CatalogueSpec => []CatalogueInv
<1>1. CatalogueInv /\ [CatalogueNext]_catalogueVars => CatalogueInv' BY CatalogueKeeps, CatalogueStands
<1> QED BY <1>1, CatalogueBegins, PTL DEF CatalogueSpec

LEMMA WholeSold == CatalogueInv => SaleIsWhole
<1> SUFFICES ASSUME CatalogueInv, NEW o \in Offer
             PROVE  /\ offer[o].status = "active" /\ o \notin withdrawn => Complete(o)
                    /\ \A c \in Currency, i \in Interval : Cardinality(ActiveAt(o, c, i)) <= 1
                    /\ Listed(o) => \A c \in Currency : Purchasable(o, c)
  BY DEF SaleIsWhole
<1>1. offer[o].status = "active" /\ o \notin withdrawn => Complete(o) BY DEF CatalogueInv, Whole
<1>2. ASSUME NEW c \in Currency, NEW i \in Interval PROVE Cardinality(ActiveAt(o, c, i)) <= 1
  <2>1. CASE ActiveAt(o, c, i) = {} BY <2>1, FS_EmptySet
  <2>2. CASE ActiveAt(o, c, i) # {}
    <3>1. PICK n \in ActiveAt(o, c, i) : TRUE BY <2>2
    <3>2. ActiveAt(o, c, i) = {n} BY <3>1 DEF CatalogueInv, OneActive, ActiveAt
    <3>3. Cardinality({n}) = 1 BY FS_Singleton
    <3> QED BY <3>2, <3>3
  <2> QED BY <2>1, <2>2
<1>3. ASSUME Listed(o), NEW c \in Currency PROVE Purchasable(o, c)
  BY <1>3 DEF Listed, Purchasable, MissingCurrencies
<1> QED BY <1>1, <1>2, <1>3

\* Every offer, product, major, price and transaction of the catalogue keeps its type.
THEOREM CatalogueTyping == CatalogueSpec => []CatalogueTypeOK
<1>1. CatalogueInv => CatalogueTypeOK BY DEF CatalogueInv, CatalogueTyped
<1> QED BY <1>1, CatalogueInvariant, PTL

\* An offer on sale has prices in every currency, and its product and major are on sale, until
\* the time of one of the prices is over, somebody archives one, replaces it by one that is not
\* in force, or withdraws the product; of each interval one price is active at most; and whatever
\* the store shows can be bought, in every currency: however the transactions of setOfferStatus()
\* and activatePriceVersion() overlap, and whatever versions administrators create.
THEOREM SalesWhole == CatalogueSpec => []SaleIsWhole
  BY WholeSold, CatalogueInvariant, PTL

\* Prices are history: a version keeps its amount, and one that is archived is not sold again.
THEOREM PricesHistory == CatalogueSpec => PricesAreHistory
<1>1. CatalogueInv /\ [CatalogueNext]_catalogueVars => [History]_catalogueVars BY CatalogueKeeps
<1> QED BY <1>1, CatalogueInvariant, PTL DEF CatalogueSpec, PricesAreHistory, History

-----------------------------------------------------------------------------
(* The invariant of an import                                               *)

RowPlan == [errors : SUBSET {"stripe", "entity", "archived", "interval", "unpriced", "product"}, steps : SUBSET Step,
            prices : SUBSET Currency, activate : BOOLEAN, warned : SUBSET Currency]

FilePlan == {p \in [entities : [Entity -> {"create", "error", "unchanged"}], rows : [Offer -> RowPlan]] :
               \A o \in Offer : p.rows[o].prices \subseteq Priced(o)}

RecordRow == [status : {"none", "previewed", "applying", "applied"}, plan : FilePlan \cup {NoPlan},
              stale : BOOLEAN]

RunnerRow == [pc : {"idle", "claiming", "planning", "executing"}, of : Import \cup {<<>>},
              plan : FilePlan \cup {NoPlan}, entities : SUBSET Entity, rows : SUBSET Offer,
              at : Offer \cup {<<>>}, left : SUBSET Step, failed : BOOLEAN, blocked : BOOLEAN,
              news : SUBSET (Offer \cup Entity \cup {"stripe"})]

RecordFits(x) ==
    /\ x \in RecordRow
    /\ x.stale => x.status = "applying"
    /\ x.status # "none" => x.plan \in FilePlan

RunnerFits(f) ==
    /\ f \in RunnerRow
    /\ f.pc # "idle" => f.of \in Import /\ f.plan \in FilePlan
    /\ f.left # {} => f.at \in Offer /\ f.at \notin f.rows
    /\ f.pc # "executing" => f.news = {} /\ f.left = {} /\ ~f.failed /\ ~f.blocked

ImportTyped ==
    /\ record \in [Import -> RecordRow] /\ \A i \in Import : RecordFits(record[i])
    /\ runner \in [Runner -> RunnerRow] /\ \A r \in Runner : RunnerFits(runner[r])
    /\ agrees \in BOOLEAN /\ taken \subseteq Import /\ deaths \in 0..MaxDeath

\* Nobody has touched an offer that does not exist.
NeverAsked == \A o \in Offer : offer[o].status = "none" => offer[o].asked

Active(r) == runner[r].pc \in {"planning", "executing"}

\* Imports that are read exist; one claim, and one invocation that holds it, unless it was
\* taken over.
OneClaim ==
    /\ \A r \in Runner : runner[r].pc # "idle" => record[runner[r].of].status # "none"
    /\ \A i, j \in Import : record[i].status = "applying" /\ record[j].status = "applying" => i = j
    /\ \A r \in Runner : Active(r) /\ runner[r].of \notin taken => record[runner[r].of].status = "applying"
    /\ \A r, q \in Runner : Active(r) /\ Active(q) /\ runner[r].of = runner[q].of /\ runner[r].of \notin taken => r = q

\* The steps of a row that are still to be taken.
Left(r, o) ==
    IF o \in runner[r].rows THEN runner[r].plan.rows[o].steps
    ELSE IF o = runner[r].at THEN runner[r].left
    ELSE {}

\* What nobody else has changed is as the plan found it.
Settled(r) ==
    /\ \A o \in Offer \ runner[r].news :
         /\ offer[o].status = "archived" => Left(r, o) = {}
         /\ "prices" \in Left(r, o) /\ runner[r].plan.rows[o].activate => ~OnSale(o)
    /\ \A e \in runner[r].entities \ runner[r].news : product[e] = "none"

\* An invocation that nothing has come between has yet to do what a new plan would show.
OnPlan(r) ==
    ~runner[r].failed /\ runner[r].news = {} =>
      /\ ~runner[r].blocked
      /\ \A e \in Entity : product[e] = "none" => e \in runner[r].entities
      /\ \A o \in Offer :
           /\ RowSteps(o) = Left(r, o)
           /\ "prices" \in Left(r, o) => /\ runner[r].plan.rows[o].prices = PriceChanges(o)
                                         /\ runner[r].plan.rows[o].activate = ~OnSale(o)

ImportInv ==
    /\ CatalogueInv /\ ImportTyped /\ NeverAsked /\ OneClaim
    /\ \A r \in Runner : Executing(r) => Settled(r) /\ OnPlan(r)

-----------------------------------------------------------------------------
(* The rows of a plan                                                       *)

\* A row without errors.
Clean(x) ==
    /\ agrees /\ \A e \in Entity : product[e] # "retired"
    /\ offer[x].status # "archived" /\ ~OtherInterval(x)
    /\ ToActivate(x) => OnOffer /\ Unpriced(x) = {}

LEMMA ErrorRead == \A e \in Entity : EntityPlan[e] = "error" <=> product[e] = "retired"
  BY DEF EntityPlan

LEMMA CleanRead == ASSUME NEW x PROVE RowErrors(x) = {} <=> Clean(x)
<1> DEFINE Why == {"entity", "archived", "interval", "unpriced", "product"}
           Bad(why) == CASE why = "entity" -> \E e \in Entity : EntityPlan[e] = "error"
                         [] why = "archived" -> offer[x].status = "archived"
                         [] why = "interval" -> OtherInterval(x)
                         [] why = "unpriced" -> ToActivate(x) /\ Unpriced(x) # {}
                         [] why = "product" -> ToActivate(x) /\ ~OnOffer
<1>1. RowErrors(x) = StripeErrors(x) \cup {why \in Why : Bad(why)} BY DEF RowErrors
<1>2. StripeErrors(x) = {} <=> agrees BY DEF StripeErrors
<1>3. /\ Bad("entity") <=> \E e \in Entity : EntityPlan[e] = "error"
      /\ Bad("archived") <=> offer[x].status = "archived"
      /\ Bad("interval") <=> OtherInterval(x)
      /\ Bad("unpriced") <=> ToActivate(x) /\ Unpriced(x) # {}
      /\ Bad("product") <=> ToActivate(x) /\ ~OnOffer
  OBVIOUS
<1> HIDE DEF Bad
<1>4. {why \in Why : Bad(why)} = {} <=>
        ~Bad("entity") /\ ~Bad("archived") /\ ~Bad("interval") /\ ~Bad("unpriced") /\ ~Bad("product")
  OBVIOUS
<1>5. RowErrors(x) = {} <=> StripeErrors(x) = {} /\ {why \in Why : Bad(why)} = {} BY <1>1
<1> QED BY <1>2, <1>3, <1>4, <1>5, ErrorRead DEF Clean

LEMMA CleanReadNext == ASSUME NEW x PROVE (RowErrors(x) = {} <=> Clean(x))'
<1>1. RowErrors(x) = {} <=> Clean(x) BY CleanRead
<1> QED BY <1>1, PTL

\* The steps of a row, one by one.
StepsRead(x) ==
    /\ RowSteps(x) \subseteq Step
    /\ "create" \in RowSteps(x) <=> Clean(x) /\ offer[x].status = "none"
    /\ "update" \in RowSteps(x) <=> Clean(x) /\ offer[x].status # "none" /\ ~offer[x].asked
    /\ "prices" \in RowSteps(x) <=> Clean(x) /\ PriceChanges(x) # {}
    /\ "link" \in RowSteps(x) <=> Clean(x) /\ offer[x].link # "synced"
    /\ "activate" \in RowSteps(x) <=> Clean(x) /\ ToActivate(x)

LEMMA RowRead == ASSUME NEW x PROVE StepsRead(x)
  BY CleanRead DEF StepsRead, RowSteps, StepNeeded, Step, ToLink

LEMMA RowReadNext == ASSUME NEW x PROVE StepsRead(x)'
<1>1. StepsRead(x) BY RowRead
<1> QED BY <1>1, PTL

LEMMA StepsEqual ==
    ASSUME NEW A \in SUBSET Step, NEW B \in SUBSET Step,
           "create" \in A <=> "create" \in B, "update" \in A <=> "update" \in B, "prices" \in A <=> "prices" \in B,
           "link" \in A <=> "link" \in B, "activate" \in A <=> "activate" \in B
    PROVE  A = B
<1>1. \A s \in Step : s \in A <=> s \in B BY DEF Step
<1> QED BY <1>1

\* Products, majors and editions, and Stripe, do not come between a row and its plan.
Beside ==
    /\ agrees' = agrees
    /\ OnOffer' = OnOffer
    /\ (\A e \in Entity : product'[e] # "retired") <=> \A e \in Entity : product[e] # "retired"

LEMMA IntervalSame == ASSUME NEW x, price'[x] = price[x] PROVE OtherInterval(x)' <=> OtherInterval(x)
  BY DEF OtherInterval, ActiveVersions, Versions

LEMMA PricesSame ==
    ASSUME NEW x, price'[x] = price[x], OnSale(x)' = OnSale(x)
    PROVE  PriceChanges(x)' = PriceChanges(x) /\ Unpriced(x)' = Unpriced(x) /\ (OtherInterval(x)' <=> OtherInterval(x))
<1>1. \A c, a : SellsFor(x, c, a)' <=> SellsFor(x, c, a) BY DEF SellsFor, IsFor, ActiveVersions, Versions
<1>2. \A c, a : Drafts(x, c, a)' <=> Drafts(x, c, a) BY DEF Drafts, IsFor, Versions
<1>3. PriceChanges(x)' = PriceChanges(x) BY <1>1, <1>2, IntervalSame DEF PriceChanges, Priced
<1>4. Unpriced(x)' = Unpriced(x) BY DEF Unpriced, ActiveVersions, Versions, Priced
<1> QED BY <1>3, <1>4, IntervalSame

LEMMA RowSame ==
    ASSUME NEW x, offer'[x] = offer[x], price'[x] = price[x], Beside
    PROVE  RowSteps(x)' = RowSteps(x) /\ PriceChanges(x)' = PriceChanges(x) /\ OnSale(x)' = OnSale(x)
<1>1. OnSale(x)' = OnSale(x) BY DEF OnSale
<1>2. PriceChanges(x)' = PriceChanges(x) /\ Unpriced(x)' = Unpriced(x) /\ (OtherInterval(x)' <=> OtherInterval(x))
  BY <1>1, PricesSame
<1>3. ToActivate(x)' <=> ToActivate(x) BY <1>1 DEF ToActivate
<1>4. Clean(x)' <=> Clean(x) BY <1>2, <1>3 DEF Clean, Beside
<1>5. StepsRead(x) /\ StepsRead(x)' BY RowRead, RowReadNext
<1>6. RowSteps(x)' = RowSteps(x)
  <2>1. /\ RowSteps(x)' \in SUBSET Step /\ RowSteps(x) \in SUBSET Step
        /\ ("create" \in RowSteps(x)') <=> "create" \in RowSteps(x)
        /\ ("update" \in RowSteps(x)') <=> "update" \in RowSteps(x)
        /\ ("prices" \in RowSteps(x)') <=> "prices" \in RowSteps(x)
        /\ ("link" \in RowSteps(x)') <=> "link" \in RowSteps(x)
        /\ ("activate" \in RowSteps(x)') <=> "activate" \in RowSteps(x)
    BY <1>2, <1>3, <1>4, <1>5 DEF StepsRead
  <2> QED BY <2>1, StepsEqual
<1> QED BY <1>1, <1>2, <1>6

-----------------------------------------------------------------------------
(* A step that is taken is taken off the row                                *)

LEMMA SoonestLast ==
    ASSUME NEW waiting \in SUBSET Step, "activate" \in Soonest(waiting) PROVE waiting = {"activate"}
<1>1. \A t \in waiting : Rank["activate"] <= Rank[t] BY DEF Soonest
<1>2. "activate" \in waiting BY DEF Soonest
<1>3. \A t \in waiting : t = "activate" BY <1>1 DEF Rank, Step
<1> QED BY <1>2, <1>3

\* The status, the prices or what else there is of an offer changes, and nothing beside.
LEMMA RowTaken ==
    ASSUME NEW x, NEW s \in RowSteps(x), Beside,
           Clean(x) => Clean(x)',
           s = "create" \/ (offer'[x].status = "none" <=> offer[x].status = "none"),
           s = "create" => offer'[x].status # "none" /\ offer'[x].asked,
           s \in {"create", "update"} \/ offer'[x].asked = offer[x].asked,
           s = "update" => offer'[x].asked,
           s = "prices" \/ ((PriceChanges(x))' = {} <=> PriceChanges(x) = {}),
           s = "prices" => (PriceChanges(x))' = {},
           s = "link" \/ offer'[x].link = offer[x].link,
           s = "link" => offer'[x].link = "synced",
           s = "activate" \/ (ToActivate(x)' <=> ToActivate(x)),
           s = "activate" => ~ToActivate(x)'
    PROVE  RowSteps(x)' = RowSteps(x) \ {s}
<1>1. StepsRead(x) /\ StepsRead(x)' BY RowRead, RowReadNext
<1>2. s \in Step /\ Clean(x) /\ Clean(x)' BY <1>1, CleanRead DEF RowSteps
<1> DEFINE A == RowSteps(x)'
           B == RowSteps(x) \ {s}
<1>3. A \in SUBSET Step /\ B \in SUBSET Step BY <1>1 DEF StepsRead
<1>4. "create" \in A <=> "create" \in B BY <1>1, <1>2 DEF StepsRead
<1>5. "update" \in A <=> "update" \in B BY <1>1, <1>2 DEF StepsRead
<1>6. "prices" \in A <=> "prices" \in B BY <1>1, <1>2 DEF StepsRead
<1>7. "link" \in A <=> "link" \in B BY <1>1, <1>2 DEF StepsRead
<1>8. "activate" \in A <=> "activate" \in B BY <1>1, <1>2 DEF StepsRead
<1> HIDE DEF A, B
<1>9. A = B BY <1>3, <1>4, <1>5, <1>6, <1>7, <1>8, StepsEqual
<1> QED BY <1>9 DEF A, B

\* What the prices asked for come to.
PricesSet(o, asked, interval, activate) ==
    /\ UNCHANGED <<product, offer, withdrawn>>
    /\ \A x \in Offer : x # o => price'[x] = price[x]
    /\ \A c \in Currency \ DOMAIN asked : price'[o][c] = price[o][c]
    /\ \A c \in DOMAIN asked :
         LET s == price[o][c]
             t == price'[o][c]
             n == Len(s) + 1
         IN  /\ activate => /\ n \in Actives(t) /\ t[n].amount = asked[c] /\ t[n].every = interval
                            /\ \A m \in Actives(t) : m = n \/ (m \in Actives(s) /\ t[m].every = s[m].every)
             /\ ~activate => Actives(t) = Actives(s) /\ (\A i \in DOMAIN s : i \in DOMAIN t /\ t[i] = s[i])
                  /\ n \in DOMAIN t /\ t[n] = Drafted(Undated(asked[c], interval))

LEMMA PriceSetRead ==
    ASSUME CatalogueInv, NEW o \in Offer, NEW activate \in BOOLEAN, NEW asked, NEW interval \in Interval,
           DOMAIN asked \subseteq Currency, \A c \in DOMAIN asked : asked[c] \in Amount,
           PriceSet(o, asked, interval, activate)
    PROVE  PricesSet(o, asked, interval, activate)
<1> DEFINE new(c) == IF c \notin DOMAIN asked THEN price[o][c]
                     ELSE LET added == Append(price[o][c], Drafted(Undated(asked[c], interval))) IN
                          IF activate THEN Activated(added, Len(added), ActiveAt(o, c, interval)) ELSE added
<1>1. price' = [price EXCEPT ![o] = [c \in Currency |-> new(c)]] /\ UNCHANGED <<product, offer, withdrawn>>
  BY DEF PriceSet
<1>2. price \in [Offer -> [Currency -> Seq(Version)]] BY Series DEF Prices
<1> HIDE DEF new
<1>3. /\ \A x \in Offer : x # o => price'[x] = price[x]
      /\ \A c \in Currency : price'[o][c] = new(c)
  BY <1>1, <1>2
<1>4. \A c \in Currency \ DOMAIN asked : price'[o][c] = price[o][c] BY <1>3 DEF new
<1>5. ASSUME NEW c \in DOMAIN asked, activate
      PROVE  LET s == price[o][c]
                 t == price'[o][c]
                 n == Len(s) + 1
             IN /\ n \in Actives(t) /\ t[n].amount = asked[c] /\ t[n].every = interval
                /\ \A m \in Actives(t) : m = n \/ (m \in Actives(s) /\ t[m].every = s[m].every)
  <2> DEFINE s == price[o][c]
             added == Append(s, Drafted(Undated(asked[c], interval)))
             t == Activated(added, Len(added), ActivesAt(s, interval))
  <2>1. s \in Seq(Version) /\ ActiveAt(o, c, interval) = ActivesAt(s, interval) BY Series
  <2>2. price'[o][c] = t BY <1>3, <1>5, <2>1 DEF new
  <2>3. /\ Grown(s, t, 0) /\ Actives(t) = (Actives(s) \ ActivesAt(s, interval)) \cup {Len(s) + 1}
        /\ t[Len(s) + 1].amount = asked[c] /\ t[Len(s) + 1].every = interval
    BY <2>1, AddedGrown
  <2> HIDE DEF t, s
  <2>4. \A m \in Actives(s) : t[m].every = s[m].every BY <2>3 DEF Grown, Actives
  <2> QED BY <2>2, <2>3, <2>4 DEF s
<1>6. ASSUME NEW c \in DOMAIN asked, ~activate
      PROVE  LET s == price[o][c]
                 t == price'[o][c]
                 n == Len(s) + 1
             IN /\ Actives(t) = Actives(s) /\ (\A i \in DOMAIN s : i \in DOMAIN t /\ t[i] = s[i])
                /\ n \in DOMAIN t /\ t[n] = Drafted(Undated(asked[c], interval))
  <2> DEFINE v == Drafted(Undated(asked[c], interval))
             s == price[o][c]
  <2>1. price[o][c] \in Seq(Version) BY Series
  <2>2. price'[o][c] = Append(s, v) BY <1>3, <1>6 DEF new
  <2>3. v \in Version /\ v.status = "draft" BY UndatedType
  <2> HIDE DEF v
  <2>4. /\ DOMAIN s = 1..Len(s) /\ DOMAIN Append(s, v) = 1..(Len(s) + 1) /\ Len(s) \in Nat
        /\ (\A i \in 1..Len(s) : Append(s, v)[i] = s[i]) /\ Append(s, v)[Len(s) + 1] = v
        /\ Actives(Append(s, v)) = Actives(s)
    BY <2>1, <2>3, AppendType, AppendGrown
  <2> HIDE DEF s
  <2>5. Len(s) + 1 \in 1..(Len(s) + 1) /\ 1..Len(s) \subseteq 1..(Len(s) + 1) BY <2>4
  <2> QED BY <2>2, <2>4, <2>5 DEF v, s
<1> QED BY <1>1, <1>3, <1>4, <1>5, <1>6 DEF PricesSet

LEMMA PricesTaken ==
    ASSUME CatalogueInv, NEW o \in Offer, ~OtherInterval(o),
           PriceSet(o, [c \in PriceChanges(o) |-> Row[o].amount[c]], Row[o].every, ~OnSale(o))
    PROVE  /\ (PriceChanges(o))' = {} /\ ~OtherInterval(o)'
           /\ \A c \in Currency \ Priced(o) : price'[o][c] = price[o][c]
<1> DEFINE asked == [c \in PriceChanges(o) |-> Row[o].amount[c]]
           every == Row[o].every
<1>1. PriceChanges(o) \subseteq Priced(o) /\ Priced(o) \subseteq Currency BY ImportAssumption DEF ImportAssumption, PriceChanges, Priced
<1>2. DOMAIN asked = PriceChanges(o) /\ \A c \in PriceChanges(o) : asked[c] = Row[o].amount[c] /\ asked[c] \in Amount
  BY <1>1, ImportAssumption DEF ImportAssumption, Priced
<1> DEFINE activate == ~OnSale(o)
<1>3. PriceSet(o, asked, every, activate) /\ activate \in BOOLEAN /\ every \in Interval
  BY ImportAssumption DEF ImportAssumption, OnSale
<1> HIDE DEF asked, activate
<1>10. PricesSet(o, asked, every, activate)
  <2>1. DOMAIN asked \subseteq Currency /\ \A c \in DOMAIN asked : asked[c] \in Amount BY <1>1, <1>2
  <2> QED BY <1>3, <2>1, PriceSetRead
<1>4. /\ UNCHANGED offer
      /\ \A c \in Currency \ DOMAIN asked : price'[o][c] = price[o][c]
      /\ \A c \in DOMAIN asked :
           LET s == price[o][c]
               t == price'[o][c]
               n == Len(s) + 1
           IN  /\ ~OnSale(o) => /\ n \in Actives(t) /\ t[n].amount = asked[c] /\ t[n].every = every
                                /\ \A m \in Actives(t) : m = n \/ (m \in Actives(s) /\ t[m].every = s[m].every)
               /\ OnSale(o) => Actives(t) = Actives(s) /\ (\A i \in DOMAIN s : i \in DOMAIN t /\ t[i] = s[i])
                    /\ n \in DOMAIN t /\ t[n] = Drafted(Undated(asked[c], every))
  BY <1>10 DEF PricesSet, activate
<1>5. OnSale(o)' = OnSale(o) BY <1>4 DEF OnSale
<1>6. ASSUME NEW c \in Priced(o), c \notin PriceChanges(o)
      PROVE  (SellsFor(o, c, Row[o].amount[c]) \/ (OnSale(o) /\ Drafts(o, c, Row[o].amount[c])))'
  <2>1. SellsFor(o, c, Row[o].amount[c]) \/ (OnSale(o) /\ Drafts(o, c, Row[o].amount[c])) BY <1>6 DEF PriceChanges
  <2>2. price'[o][c] = price[o][c] BY <1>1, <1>2, <1>4, <1>6
  <2> QED BY <1>5, <2>1, <2>2 DEF SellsFor, Drafts, IsFor, ActiveVersions, Versions
<1>7. ASSUME NEW c \in PriceChanges(o), ~OnSale(o)
      PROVE  (SellsFor(o, c, Row[o].amount[c]))'
  BY <1>2, <1>4, <1>7 DEF SellsFor, IsFor, ActiveVersions, Versions, Actives
<1>8. ASSUME NEW c \in PriceChanges(o), OnSale(o)
      PROVE  (Drafts(o, c, Row[o].amount[c]))'
  <2> DEFINE t == price'[o][c]
             n == Len(price[o][c]) + 1
             a == Row[o].amount[c]
  <2>1. n \in DOMAIN t /\ t[n] = Drafted(Undated(a, every)) BY <1>2, <1>4, <1>8
  <2>2. LET v == Drafted(Undated(a, every)) IN v.status = "draft" /\ v.amount = a /\ v.every = every
    BY DEF Drafted, Undated
  <2>3. n \in DOMAIN t /\ t[n].status = "draft" /\ t[n].amount = a /\ t[n].every = every BY <2>1, <2>2
  <2> HIDE DEF n
  <2> QED BY <2>3 DEF Drafts, IsFor, Versions
<1>9. (PriceChanges(o))' = {} BY <1>5, <1>6, <1>7, <1>8 DEF PriceChanges, Priced
<1>11. ~OtherInterval(o)'
  <2> SUFFICES ASSUME NEW c \in Currency, NEW m \in Actives(price'[o][c]) PROVE price'[o][c][m].every = every
    BY DEF OtherInterval, ActiveVersions, Versions, Actives
  <2>1. \A i \in Actives(price[o][c]) : price[o][c][i].every = every BY DEF OtherInterval, ActiveVersions, Versions, Actives
  <2> HIDE DEF every
  <2>2. CASE c \notin DOMAIN asked BY <1>4, <2>1, <2>2
  <2>3. CASE c \in DOMAIN asked /\ ~OnSale(o) BY <1>4, <2>1, <2>3
  <2>4. CASE c \in DOMAIN asked /\ OnSale(o)
    <3>1. m \in Actives(price[o][c]) /\ price'[o][c][m] = price[o][c][m] BY <1>4, <2>4 DEF Actives
    <3> QED BY <2>1, <3>1
  <2> QED BY <2>2, <2>3, <2>4
<1> QED BY <1>1, <1>2, <1>4, <1>9, <1>11

LEMMA StepTaken ==
    ASSUME CatalogueInv, NeverAsked, agrees' = agrees, NEW o \in Offer, NEW row,
           NEW s \in Soonest(RowSteps(o)), ServiceStep(o, s, row),
           s = "prices" => row.prices = PriceChanges(o) /\ row.activate = ~OnSale(o)
    PROVE  /\ RowSteps(o)' = RowSteps(o) \ {s}
           /\ "prices" \in RowSteps(o) \ {s} => (PriceChanges(o))' = PriceChanges(o) /\ OnSale(o)' = OnSale(o)
<1>1. StepsRead(o) /\ s \in RowSteps(o) /\ RowSteps(o) \in SUBSET Step BY RowRead DEF Soonest, StepsRead
<1>2. Clean(o) /\ s \in Step BY <1>1 DEF StepsRead, Step
<1>3. offer \in [Offer -> OfferRow] /\ price \in [Offer -> [Currency -> Seq(Version)]] /\ offer[o] \in OfferRow
  BY DEF CatalogueInv, CatalogueTyped, CatalogueTypeOK, Prices
<1>4. UNCHANGED product
  BY DEF ServiceStep, CreateOffer, UpdateOffer, PriceSet, LinkOffer, PublishAtOnce
<1>5. Beside BY <1>4 DEF Beside, OnOffer
<1>6. CASE s = "create"
  <2>1. /\ offer[o].status = "none" /\ offer' = [offer EXCEPT ![o].status = "draft"] /\ UNCHANGED price
    BY <1>6 DEF ServiceStep, CreateOffer
  <2>2. /\ offer'[o].status = "draft" /\ offer'[o].asked = offer[o].asked /\ offer'[o].link = offer[o].link /\ offer[o].asked
    BY <1>3, <2>1 DEF OfferRow, NeverAsked
  <2>3. OnSale(o)' = OnSale(o) BY <2>1, <2>2 DEF OnSale
  <2>4. PriceChanges(o)' = PriceChanges(o) /\ Unpriced(o)' = Unpriced(o) /\ (OtherInterval(o)' <=> OtherInterval(o))
    BY <2>1, <2>3, PricesSame
  <2>5. ToActivate(o)' <=> ToActivate(o) BY <2>3 DEF ToActivate
  <2>6. Clean(o)' BY <1>2, <1>5, <2>2, <2>4, <2>5 DEF Clean, Beside
  <2>7. RowSteps(o)' = RowSteps(o) \ {s} BY <1>1, <1>5, <1>6, <2>2, <2>4, <2>5, <2>6, RowTaken
  <2> QED BY <2>3, <2>4, <2>7
<1>7. CASE s = "update" \/ s = "link"
  <2>1. /\ UNCHANGED price
        /\ s = "update" => offer' = [offer EXCEPT ![o].asked = TRUE]
        /\ s = "link" => offer' = [offer EXCEPT ![o].link = "synced"]
    BY <1>7 DEF ServiceStep, UpdateOffer, LinkOffer
  <2>2. /\ offer'[o].status = offer[o].status
        /\ s = "update" => offer'[o].asked /\ offer'[o].link = offer[o].link
        /\ s = "link" => offer'[o].asked = offer[o].asked /\ offer'[o].link = "synced"
    BY <1>3, <1>7, <2>1 DEF OfferRow
  <2>3. OnSale(o)' = OnSale(o) BY <2>2 DEF OnSale
  <2>4. PriceChanges(o)' = PriceChanges(o) /\ Unpriced(o)' = Unpriced(o) /\ (OtherInterval(o)' <=> OtherInterval(o))
    BY <2>1, <2>3, PricesSame
  <2>5. ToActivate(o)' <=> ToActivate(o) BY <2>3 DEF ToActivate
  <2>6. Clean(o)' BY <1>2, <1>5, <2>2, <2>4, <2>5 DEF Clean, Beside
  <2>7. RowSteps(o)' = RowSteps(o) \ {s} BY <1>1, <1>5, <1>7, <2>2, <2>4, <2>5, <2>6, RowTaken
  <2> QED BY <2>3, <2>4, <2>7
<1>8. CASE s = "prices"
  <2>1. PriceSet(o, [c \in PriceChanges(o) |-> Row[o].amount[c]], Row[o].every, ~OnSale(o)) BY <1>8 DEF ServiceStep
  <2>2. UNCHANGED offer BY <2>1 DEF PriceSet
  <2>3. /\ (PriceChanges(o))' = {} /\ ~OtherInterval(o)'
        /\ \A c \in Currency \ Priced(o) : price'[o][c] = price[o][c]
    BY <1>2, <2>1, PricesTaken DEF Clean
  <2>4. OnSale(o)' = OnSale(o) /\ (ToActivate(o)' <=> ToActivate(o)) BY <2>2 DEF OnSale, ToActivate
  <2>5. ToActivate(o) => Unpriced(o)' = Unpriced(o)
    BY <2>3, <2>4 DEF Unpriced, ToActivate, ActiveVersions, Versions, Priced
  <2>6. Clean(o)' BY <1>2, <1>5, <2>2, <2>3, <2>4, <2>5 DEF Clean, Beside
  <2>7. RowSteps(o)' = RowSteps(o) \ {s} BY <1>1, <1>5, <1>8, <2>2, <2>3, <2>4, <2>6, RowTaken
  <2> QED BY <1>8, <2>7
<1>9. CASE s = "activate"
  <2>1. /\ UNCHANGED price /\ offer' = [offer EXCEPT ![o].status = "active"]
    BY <1>9 DEF ServiceStep, PublishAtOnce
  <2>2. RowSteps(o) = {"activate"} BY <1>1, <1>9, SoonestLast
  <2>3. /\ offer'[o].status = "active" /\ offer'[o].asked = offer[o].asked /\ offer'[o].link = offer[o].link
        /\ offer[o].status # "none"
    BY <1>1, <1>2, <1>3, <2>1, <2>2 DEF OfferRow, StepsRead
  <2>4. ~ToActivate(o)' /\ ToActivate(o) BY <1>1, <1>9, <2>3 DEF ToActivate, OnSale, StepsRead
  <2>5. PriceChanges(o) = {} BY <1>1, <1>2, <2>2 DEF StepsRead
  <2>6. \A c \in Priced(o) : SellsFor(o, c, Row[o].amount[c]) BY <1>2, <2>4, <2>5 DEF PriceChanges, ToActivate, Clean
  <2>7. \A c \in Priced(o) : SellsFor(o, c, Row[o].amount[c])' BY <2>1, <2>6 DEF SellsFor, IsFor, ActiveVersions, Versions
  <2>8. PriceChanges(o)' = {} BY <2>7 DEF PriceChanges, Priced
  <2>9. Clean(o)' BY <1>2, <1>5, <2>1, <2>3, <2>4, IntervalSame DEF Clean, Beside
  <2>10. RowSteps(o)' = RowSteps(o) \ {s} BY <1>1, <1>5, <1>9, <2>3, <2>4, <2>5, <2>8, <2>9, RowTaken
  <2> QED BY <2>2, <2>10
<1> QED BY <1>2, <1>6, <1>7, <1>8, <1>9 DEF Step

-----------------------------------------------------------------------------
(* What others hear of a step                                               *)

\* No offer is forgotten, and none that does not exist is touched.
OffersGrow == \A o \in Offer : offer'[o].status = "none" => offer[o].status = "none" /\ offer'[o].asked = offer[o].asked

LEMMA PlannedRowWritten ==
    ASSUME CatalogueInv, NEW o \in Offer, NEW f \in OfferRow, offer' = [offer EXCEPT ![o] = f],
           f.status # "none" \/ (f.status = offer[o].status /\ f.asked = offer[o].asked)
    PROVE  OffersGrow
  BY DEF OffersGrow, CatalogueInv, CatalogueTyped, CatalogueTypeOK

LEMMA OfferWritten ==
    ASSUME CatalogueInv, NEW o \in Offer,
           \/ CreateOffer(o)
           \/ \E asked \in BOOLEAN : UpdateOffer(o, asked)
           \/ \E state \in {"synced", "failed"} : LinkOffer(o, state)
           \/ \E status \in {"draft", "archived"} : SetAside(o, status)
           \/ PublishAtOnce(o)
    PROVE  OffersGrow
<1>1. offer[o] \in OfferRow /\ offer \in [Offer -> OfferRow] BY DEF CatalogueInv, CatalogueTyped, CatalogueTypeOK
<1>2. \A status \in {"draft", "active", "archived"} :
        [offer[o] EXCEPT !.status = status] \in OfferRow /\ [offer[o] EXCEPT !.status = status].status = status
  BY <1>1 DEF OfferRow
<1>3. CASE CreateOffer(o) BY <1>1, <1>2, <1>3, PlannedRowWritten DEF CreateOffer
<1>4. ASSUME NEW asked \in BOOLEAN, UpdateOffer(o, asked) PROVE OffersGrow
  <2> DEFINE f == [offer[o] EXCEPT !.asked = asked]
  <2>1. f \in OfferRow /\ f.status = offer[o].status /\ f.status # "none" /\ offer' = [offer EXCEPT ![o] = f]
    BY <1>1, <1>4 DEF OfferRow, UpdateOffer
  <2> HIDE DEF f
  <2> QED BY <2>1, PlannedRowWritten
<1>5. ASSUME NEW state \in {"synced", "failed"}, LinkOffer(o, state) PROVE OffersGrow
  <2> DEFINE f == [offer[o] EXCEPT !.link = state]
  <2>1. f \in OfferRow /\ f.status = offer[o].status /\ f.status # "none" /\ offer' = [offer EXCEPT ![o] = f]
    BY <1>1, <1>5 DEF OfferRow, LinkOffer
  <2> HIDE DEF f
  <2> QED BY <2>1, PlannedRowWritten
<1>6. ASSUME NEW status \in {"draft", "archived"}, SetAside(o, status) PROVE OffersGrow
  BY <1>1, <1>2, <1>6, PlannedRowWritten DEF SetAside
<1>7. CASE PublishAtOnce(o) BY <1>1, <1>2, <1>7, PlannedRowWritten DEF PublishAtOnce
<1> QED BY <1>3, <1>4, <1>5, <1>6, <1>7

LEMMA OffersStand == UNCHANGED offer => OffersGrow BY DEF OffersGrow

LEMMA OffersWritten == ASSUME CatalogueInv, [CatalogueNext]_catalogueVars PROVE OffersGrow
<1>1. CASE EditCatalogue
  <2>1. CASE \/ CreateProduct \/ CreateMajor
             \/ \E e \in Entity : \E status \in StatusOf(e) : UpdateStatus(e, status)
             \/ \E status \in StatusOf("edition") : UpsertEditionPolicy(status)
    BY <2>1, OffersStand DEF CreateProduct, CreateMajor, UpdateStatus, UpsertEditionPolicy
  <2>2. CASE \E o \in Offer :
               \/ CreateOffer(o)
               \/ \E asked \in BOOLEAN : UpdateOffer(o, asked)
               \/ \E state \in {"synced", "failed"} : LinkOffer(o, state)
               \/ \E status \in {"draft", "archived"} : SetAside(o, status)
               \/ PublishAtOnce(o)
    BY <2>2, OfferWritten
  <2>3. CASE \E o \in Offer, c \in Currency :
               \/ \E input \in CreatePriceInput :
                    \/ CreatePriceVersion(o, c, input)
                    \/ \E activate \in BOOLEAN : PriceSet(o, [x \in Currency |-> input.amount], input.every, activate)
               \/ \E n \in 1..MaxVersion : ArchivePriceVersion(o, c, n)
    BY <2>3, OffersStand DEF CreatePriceVersion, PriceSet, ArchivePriceVersion
  <2> QED BY <1>1, <2>1, <2>2, <2>3 DEF EditCatalogue, Edit
<1>2. ASSUME NEW k \in Clerk, BeginTransaction(k) PROVE OffersGrow
  BY <1>2, OffersStand DEF BeginTransaction, BeginPublishing, BeginActivation
<1>3. ASSUME NEW k \in Clerk, Continue(k) PROVE OffersGrow
  <2>1. CASE CommitPublishing(k)
    <3> DEFINE o == clerk[k].at
               f == [offer[o] EXCEPT !.status = "active"]
    <3>1. o \in Offer /\ offer' = [offer EXCEPT ![o] = f]
      BY <2>1 DEF CommitPublishing, CatalogueInv, Dealt
    <3>2. f \in OfferRow /\ f.status = "active"
      BY <3>1 DEF CatalogueInv, CatalogueTyped, CatalogueTypeOK, OfferRow
    <3> HIDE DEF o, f
    <3> QED BY <3>1, <3>2, PlannedRowWritten
  <2>2. CASE CheckPublishing(k) \/ HoldPrevious(k) \/ CommitActivation(k) \/ AbandonTransaction(k)
    BY <2>2, OffersStand DEF CheckPublishing, HoldPrevious, CommitActivation, AbandonTransaction
  <2> QED BY <1>3, <2>1, <2>2 DEF Continue
<1>4. CASE \E o \in Offer, c \in Currency, n \in 1..MaxVersion : BecomeEffective(o, c, n) \/ RunOut(o, c, n)
  BY <1>4, OffersStand DEF BecomeEffective, RunOut
<1>5. CASE UNCHANGED catalogueVars BY <1>5, OffersStand DEF catalogueVars
<1> QED BY <1>1, <1>2, <1>3, <1>4, <1>5 DEF CatalogueNext

\* A step of an import through a service.
LEMMA ServiceKeeps ==
    ASSUME CatalogueInv, Same, UNCHANGED clerk, NEW o \in Offer, NEW s, NEW row,
           row.prices \subseteq Priced(o), row.activate \in BOOLEAN, ServiceStep(o, s, row)
    PROVE  CatalogueInv' /\ History /\ OffersGrow
<1>1. CASE CreateOffer(o) \/ UpdateOffer(o, TRUE) \/ LinkOffer(o, "synced") \/ PublishAtOnce(o)
  <2>1. CatalogueInv' /\ OffersGrow BY <1>1, OffersKeep, OfferWritten
  <2>2. UNCHANGED price BY <1>1 DEF CreateOffer, UpdateOffer, LinkOffer, PublishAtOnce
  <2> QED BY <2>1, <2>2, PricesStand
<1>2. CASE PriceSet(o, [c \in row.prices |-> Row[o].amount[c]], Row[o].every, row.activate)
  <2> DEFINE asked == [c \in row.prices |-> Row[o].amount[c]]
  <2>1. DOMAIN asked \subseteq Currency /\ \A c \in DOMAIN asked : asked[c] \in Amount
    BY ImportAssumption DEF ImportAssumption, Priced
  <2>4. Row[o].every \in Interval BY ImportAssumption DEF ImportAssumption
  <2>2. PriceSet(o, asked, Row[o].every, row.activate) BY <1>2
  <2>3. UNCHANGED offer BY <1>2 DEF PriceSet
  <2> HIDE DEF asked
  <2> QED BY <2>1, <2>2, <2>3, <2>4, PriceSetKeeps, OffersStand
<1> QED BY <1>1, <1>2 DEF ServiceStep

LEMMA EntityKeeps ==
    ASSUME CatalogueInv, Same, UNCHANGED clerk, NEW e \in Entity, CreateEntity(e)
    PROVE  CatalogueInv' /\ History /\ OffersGrow
<1>1. \/ CreateProduct \/ CreateMajor
      \/ \E x \in Entity : \E status \in StatusOf(x) : UpdateStatus(x, status)
      \/ \E status \in StatusOf("edition") : UpsertEditionPolicy(status)
  BY DEF CreateEntity, StatusOf
<1>2. CatalogueInv' BY <1>1, EntitiesKeep
<1>3. UNCHANGED <<offer, price>> BY DEF CreateEntity, CreateProduct, CreateMajor, UpsertEditionPolicy
<1> QED BY <1>2, <1>3, PricesStand, OffersStand

-----------------------------------------------------------------------------
(* Invocations                                                              *)

Heard(q) == runner'[q] = IF Executing(q) THEN [runner[q] EXCEPT !.news = @ \cup Touched] ELSE runner[q]

LEMMA AbsentFits == RunnerFits(Absent) /\ Absent.pc = "idle"
  BY DEF RunnerFits, Absent, RunnerRow, NoPlan

LEMMA TouchedType == Touched \subseteq Offer \cup Entity \cup {"stripe"} BY DEF Touched

LEMMA NoneTouched ==
    ASSUME Touched = {}
    PROVE  /\ \A o \in Offer : offer'[o] = offer[o] /\ price'[o] = price[o]
           /\ \A e \in Entity : product'[e] = product[e]
           /\ agrees' = agrees
  BY DEF Touched

LEMMA NoneBeside ==
    ASSUME \A e \in Entity : product'[e] = product[e], agrees' = agrees PROVE Beside
  BY DEF Beside, OnOffer, Entity

LEMMA HeardType ==
    ASSUME ImportTyped, NEW q \in Runner, Heard(q)
    PROVE  /\ RunnerFits(runner'[q])
           /\ runner'[q].pc = runner[q].pc /\ runner'[q].of = runner[q].of /\ runner'[q].plan = runner[q].plan
           /\ runner'[q].entities = runner[q].entities /\ runner'[q].rows = runner[q].rows
           /\ runner'[q].at = runner[q].at /\ runner'[q].left = runner[q].left
           /\ runner'[q].failed = runner[q].failed /\ runner'[q].blocked = runner[q].blocked
           /\ Executing(q) => runner'[q].news = runner[q].news \cup Touched
           /\ ~Executing(q) => runner'[q] = runner[q]
<1>1. RunnerFits(runner[q]) /\ runner[q] \in RunnerRow BY DEF ImportTyped
<1>2. CASE Executing(q)
  <2> DEFINE f == [runner[q] EXCEPT !.news = runner[q].news \cup Touched]
  <2>1. runner'[q] = f /\ runner[q].pc = "executing" BY <1>2 DEF Heard, Executing
  <2>2. runner[q].news \cup Touched \in SUBSET (Offer \cup Entity \cup {"stripe"})
    BY <1>1, TouchedType DEF RunnerRow
  <2>3. /\ f \in RunnerRow /\ f.pc = runner[q].pc /\ f.of = runner[q].of /\ f.plan = runner[q].plan
        /\ f.entities = runner[q].entities /\ f.rows = runner[q].rows
        /\ f.at = runner[q].at /\ f.left = runner[q].left
        /\ f.failed = runner[q].failed /\ f.blocked = runner[q].blocked
        /\ f.news = runner[q].news \cup Touched
    BY <1>1, <2>2 DEF RunnerRow
  <2> HIDE DEF f
  <2>4. RunnerFits(f) BY <1>1, <2>1, <2>3 DEF RunnerFits
  <2> QED BY <1>2, <2>1, <2>3, <2>4
<1>3. CASE ~Executing(q) BY <1>1, <1>3 DEF Heard
<1> QED BY <1>2, <1>3

LEMMA HeardKeeps ==
    ASSUME ImportInv, NEW q \in Runner, Heard(q), Executing(q)'
    PROVE  (Settled(q) /\ OnPlan(q))'
<1>1. ImportTyped /\ \A r \in Runner : Executing(r) => Settled(r) /\ OnPlan(r) BY DEF ImportInv
<1>2. Executing(q) BY <1>1, HeardType DEF Executing
<1>3. Settled(q) /\ OnPlan(q) BY <1>1, <1>2
<1>4. /\ runner'[q].plan = runner[q].plan /\ runner'[q].entities = runner[q].entities
      /\ runner'[q].failed = runner[q].failed /\ runner'[q].blocked = runner[q].blocked
      /\ runner'[q].news = runner[q].news \cup Touched
      /\ \A o \in Offer : Left(q, o)' = Left(q, o)
  BY <1>1, <1>2, HeardType DEF Left
<1>5. Settled(q)'
  <2>1. \A o \in Offer \ (runner[q].news \cup Touched) : offer'[o] = offer[o] BY DEF Touched
  <2>2. \A e \in Entity \ (runner[q].news \cup Touched) : product'[e] = product[e] BY DEF Touched
  <2>3. runner[q].entities \subseteq Entity BY <1>1 DEF ImportTyped, RunnerRow
  <2> QED BY <1>3, <1>4, <2>1, <2>2, <2>3 DEF Settled, OnSale
<1>6. OnPlan(q)'
  <2> SUFFICES ASSUME ~runner'[q].failed, runner'[q].news = {} PROVE OnPlan(q)' BY DEF OnPlan
  <2>1. Touched = {} /\ runner[q].news = {} /\ ~runner[q].failed BY <1>4
  <2>2. /\ \A o \in Offer : offer'[o] = offer[o] /\ price'[o] = price[o]
        /\ \A e \in Entity : product'[e] = product[e]
        /\ Beside
    BY <2>1, NoneTouched, NoneBeside
  <2>3. \A o \in Offer : RowSteps(o)' = RowSteps(o) /\ PriceChanges(o)' = PriceChanges(o) /\ OnSale(o)' = OnSale(o)
    BY <2>2, RowSame
  <2> QED BY <1>3, <1>4, <2>1, <2>2, <2>3 DEF OnPlan
<1> QED BY <1>5, <1>6

\* The rth invocation comes to g; the others hear of it.
Comes(r, g) ==
    /\ runner'[r] = g
    /\ runner' \in [Runner -> RunnerRow]
    /\ \A q \in Runner : RunnerFits(runner'[q]) /\ (q # r => Heard(q))

LEMMA QuietlyCome ==
    ASSUME ImportTyped, UNCHANGED <<catalogueVars, agrees>>, NEW r \in Runner, NEW g, RunnerFits(g),
           runner' = [runner EXCEPT ![r] = g]
    PROVE  Comes(r, g)
<1>1. g \in RunnerRow /\ runner \in [Runner -> RunnerRow] /\ \A q \in Runner : RunnerFits(runner[q])
  BY DEF ImportTyped, RunnerFits
<1>2. Touched = {} BY DEF Touched, catalogueVars
<1>3. ASSUME NEW q \in Runner, q # r PROVE Heard(q)
  <2>1. runner'[q] = runner[q] /\ runner[q] \in RunnerRow BY <1>1, <1>3
  <2>2. [runner[q] EXCEPT !.news = runner[q].news \cup {}] = runner[q] BY <2>1 DEF RunnerRow
  <2> QED BY <1>2, <2>1, <2>2 DEF Heard
<1>4. runner' \in [Runner -> RunnerRow] /\ runner'[r] = g BY <1>1
<1>5. \A q \in Runner : RunnerFits(runner'[q]) BY <1>1
<1> QED BY <1>3, <1>4, <1>5 DEF Comes

LEMMA LoudlyCome ==
    ASSUME ImportTyped, NEW r \in Runner, NEW g, RunnerFits(g), Advance(r, g)
    PROVE  Comes(r, g)
<1>1. g \in RunnerRow /\ runner \in [Runner -> RunnerRow] BY DEF ImportTyped, RunnerFits
<1>2. \A q \in Runner : runner'[q] = IF q = r THEN g ELSE Noticed(runner)[q] BY DEF Advance, Noticed
<1>3. ASSUME NEW q \in Runner, q # r PROVE Heard(q)
  BY <1>2, <1>3 DEF Noticed, Heard
<1>4. \A q \in Runner : RunnerFits(runner'[q]) BY <1>2, <1>3, HeardType
<1>5. DOMAIN runner' = Runner /\ runner' = [q \in Runner |-> runner'[q]] BY DEF Advance, Noticed
<1>6. runner' \in [Runner -> RunnerRow] BY <1>4, <1>5 DEF RunnerFits
<1> QED BY <1>2, <1>3, <1>4, <1>6 DEF Comes

LEMMA AllHear ==
    ASSUME ImportTyped, runner' = Noticed(runner)
    PROVE  /\ runner' \in [Runner -> RunnerRow]
           /\ \A q \in Runner : Heard(q) /\ RunnerFits(runner'[q])
<1>1. \A q \in Runner : Heard(q) BY DEF Noticed, Heard
<1>2. \A q \in Runner : RunnerFits(runner'[q]) BY <1>1, HeardType
<1>3. runner' = [q \in Runner |-> runner'[q]] BY DEF Noticed
<1> QED BY <1>1, <1>2, <1>3 DEF RunnerFits

-----------------------------------------------------------------------------
(* Claims                                                                   *)

RecordsFit == record' \in [Import -> RecordRow] /\ \A i \in Import : RecordFits(record'[i])

LEMMA RecordsStand == ASSUME ImportTyped, UNCHANGED record PROVE RecordsFit
  BY DEF ImportTyped, RecordsFit

LEMMA RecordWritten ==
    ASSUME ImportTyped, NEW i \in Import, NEW x, RecordFits(x), record' = [record EXCEPT ![i] = x]
    PROVE  RecordsFit /\ record'[i] = x /\ \A j \in Import : j # i => record'[j] = record[j]
<1>1. x \in RecordRow /\ record \in [Import -> RecordRow] /\ \A j \in Import : RecordFits(record[j])
  BY DEF ImportTyped, RecordFits
<1>2. record'[i] = x /\ \A j \in Import : j # i => record'[j] = record[j] BY <1>1
<1>3. record' \in [Import -> RecordRow] BY <1>1
<1>4. \A j \in Import : RecordFits(record'[j]) BY <1>1, <1>2
<1> QED BY <1>2, <1>3, <1>4 DEF RecordsFit

\* The status and the age of a record are written.
LEMMA StatusFits ==
    ASSUME NEW x, RecordFits(x), x.status # "none", NEW status \in {"previewed", "applying", "applied"},
           NEW stale \in BOOLEAN, stale => status = "applying"
    PROVE  LET y == [x EXCEPT !.status = status, !.stale = stale] IN
           RecordFits(y) /\ y.status = status /\ y.plan = x.plan
<1> DEFINE y == [x EXCEPT !.status = status, !.stale = stale]
<1>1. y \in RecordRow /\ y.status = status /\ y.stale = stale /\ y.plan = x.plan BY DEF RecordFits, RecordRow
<1> HIDE DEF y
<1>2. RecordFits(y) BY <1>1 DEF RecordFits
<1> QED BY <1>1, <1>2 DEF y

\* Nobody claims an import, and none that is executed is given up.
ClaimsStand ==
    /\ taken' = taken
    /\ \A q \in Runner : runner'[q].pc # "idle" => record'[runner'[q].of].status # "none"
    /\ \A q \in Runner : Active(q)' => Active(q) /\ runner'[q].of = runner[q].of
    /\ \A i \in Import : record'[i].status = "applying" => record[i].status = "applying"
    /\ \A q \in Runner : Active(q)' /\ runner[q].of \notin taken => record'[runner[q].of].status = "applying"

LEMMA ImportClaimKeeps == OneClaim /\ ClaimsStand => OneClaim' BY DEF OneClaim, ClaimsStand

\* Each of these is what the step of an invocation is to show.
LEMMA RunKeeps ==
    ASSUME ImportInv, NEW r \in Runner, NEW g, Comes(r, g), CatalogueInv', OffersGrow, OneClaim', RecordsFit,
           agrees' \in BOOLEAN, taken' \subseteq Import, deaths' \in 0..MaxDeath,
           g.pc = "executing" => (Settled(r) /\ OnPlan(r))'
    PROVE  ImportInv'
<1>1. ImportTyped' BY DEF ImportTyped, RecordsFit, Comes
<1>2. NeverAsked' BY DEF NeverAsked, OffersGrow, ImportInv
<1>3. ASSUME NEW q \in Runner, Executing(q)' PROVE (Settled(q) /\ OnPlan(q))'
  <2>1. CASE q = r BY <1>3, <2>1 DEF Comes, Executing
  <2>2. CASE q # r BY <1>3, <2>2, HeardKeeps DEF Comes
  <2> QED BY <2>1, <2>2
<1> QED BY <1>1, <1>2, <1>3 DEF ImportInv

\* A step that nobody takes for an import.
LEMMA OutsideKeeps ==
    ASSUME ImportInv, runner' = Noticed(runner), CatalogueInv', OffersGrow, UNCHANGED <<record, taken, deaths>>,
           agrees' \in BOOLEAN
    PROVE  ImportInv'
<1>0. ImportTyped /\ NeverAsked /\ OneClaim BY DEF ImportInv
<1>1. /\ runner' \in [Runner -> RunnerRow]
      /\ \A q \in Runner : Heard(q) /\ RunnerFits(runner'[q])
  BY <1>0, AllHear
<1>2. ImportTyped' BY <1>0, <1>1 DEF ImportTyped
<1>3. NeverAsked' BY <1>0 DEF NeverAsked, OffersGrow
<1>4. \A q \in Runner : runner'[q].pc = runner[q].pc /\ runner'[q].of = runner[q].of BY <1>0, <1>1, HeardType
<1>5. ClaimsStand
  BY <1>0, <1>4 DEF ClaimsStand, OneClaim, Active
<1>6. \A q \in Runner : Executing(q)' => (Settled(q) /\ OnPlan(q))' BY <1>1, HeardKeeps
<1> QED BY <1>0, <1>2, <1>3, <1>5, <1>6, ImportClaimKeeps DEF ImportInv

\* The catalogue and Stripe stay, and what is known of invocations.
Quiet == UNCHANGED <<catalogueVars, agrees>>

LEMMA QuietCatalogue ==
    ASSUME ImportInv, Quiet PROVE CatalogueInv' /\ OffersGrow /\ agrees' \in BOOLEAN
<1>1. CatalogueInv' BY CatalogueStands DEF ImportInv, Quiet
<1>2. OffersGrow BY OffersStand DEF Quiet, catalogueVars
<1> QED BY <1>1, <1>2 DEF ImportInv, ImportTyped, Quiet

LEMMA PlanFits ==
    ASSUME CatalogueInv
    PROVE  /\ Plan \in FilePlan
           /\ Plan.entities = EntityPlan
           /\ \A o \in Offer : /\ Plan.rows[o].steps = RowSteps(o) /\ Plan.rows[o].prices = PriceChanges(o)
                               /\ Plan.rows[o].activate = ~OnSale(o)
<1>1. EntityPlan \in [Entity -> {"create", "error", "unchanged"}] BY DEF EntityPlan
<1>2. ASSUME NEW o \in Offer
      PROVE  /\ RowErrors(o) \subseteq {"stripe", "entity", "archived", "interval", "unpriced", "product"}
             /\ RowSteps(o) \subseteq Step /\ PriceChanges(o) \subseteq Priced(o) /\ Priced(o) \subseteq Currency
             /\ (~OnSale(o)) \in BOOLEAN /\ Unpriced(o) \subseteq Currency
  BY ImportAssumption DEF ImportAssumption, RowErrors, StripeErrors, RowSteps, PriceChanges, Priced, OnSale, Unpriced
<1> DEFINE row(o) == [errors |-> RowErrors(o), steps |-> RowSteps(o), prices |-> PriceChanges(o), activate |-> ~OnSale(o),
                      warned |-> IF OnSale(o) THEN Priced(o) \ PriceChanges(o) ELSE Unpriced(o)]
<1>3. ASSUME NEW o \in Offer
      PROVE  /\ row(o) \in RowPlan /\ row(o).steps = RowSteps(o) /\ row(o).prices = PriceChanges(o)
             /\ row(o).activate = ~OnSale(o) /\ row(o).prices \subseteq Priced(o)
  BY <1>2 DEF RowPlan
<1>4. Plan = [entities |-> EntityPlan, rows |-> [o \in Offer |-> row(o)]] BY DEF Plan
<1> HIDE DEF row
<1>5. [o \in Offer |-> row(o)] \in [Offer -> RowPlan] BY <1>3
<1>6. Plan.entities = EntityPlan /\ \A o \in Offer : Plan.rows[o] = row(o) BY <1>4
<1>7. Plan \in FilePlan BY <1>1, <1>3, <1>4, <1>5, <1>6 DEF FilePlan
<1> QED BY <1>3, <1>6, <1>7

LEMMA StillKeeps ==
    ASSUME ImportInv, Quiet, UNCHANGED <<runner, taken, deaths>>, RecordsFit, OneClaim'
    PROVE  ImportInv'
<1>0. ImportTyped BY DEF ImportInv
<1>1. CatalogueInv' /\ OffersGrow /\ agrees' \in BOOLEAN BY QuietCatalogue
<1>2. ImportTyped' BY <1>0, <1>1 DEF ImportTyped, RecordsFit
<1>3. NeverAsked' BY <1>1 DEF ImportInv, NeverAsked, OffersGrow
<1>4. Touched = {} BY DEF Touched, Quiet, catalogueVars
<1>5. ASSUME NEW q \in Runner PROVE Heard(q)
  <2>1. runner'[q] = runner[q] /\ runner[q] \in RunnerRow BY <1>0 DEF ImportTyped
  <2>2. [runner[q] EXCEPT !.news = runner[q].news \cup {}] = runner[q] BY <2>1 DEF RunnerRow
  <2> QED BY <1>4, <2>1, <2>2 DEF Heard
<1>6. \A q \in Runner : Executing(q)' => (Settled(q) /\ OnPlan(q))' BY <1>5, HeardKeeps
<1> QED BY <1>1, <1>2, <1>3, <1>6 DEF ImportInv

LEMMA PreviewKeeps == ASSUME ImportInv, NEW i \in Import, Preview(i) PROVE ImportInv'
<1>0. ImportTyped /\ OneClaim /\ CatalogueInv BY DEF ImportInv
<1> DEFINE x == [NoRecord EXCEPT !.status = "previewed", !.plan = Plan]
<1>1. /\ record[i].status = "none" /\ record' = [record EXCEPT ![i] = x]
      /\ Quiet /\ UNCHANGED <<runner, taken, deaths>>
  BY DEF Preview, Quiet
<1>2. RecordFits(x) /\ x.status = "previewed"
  BY <1>0, PlanFits DEF NoRecord, RecordFits, RecordRow
<1> HIDE DEF x
<1>3. RecordsFit /\ record'[i] = x /\ \A j \in Import : j # i => record'[j] = record[j] BY <1>0, <1>1, <1>2, RecordWritten
<1>4. \A q \in Runner : runner[q].pc # "idle" => runner[q].of \in Import BY <1>0 DEF ImportTyped, RunnerFits
<1>5. ClaimsStand BY <1>0, <1>1, <1>2, <1>3, <1>4 DEF ClaimsStand, OneClaim, Active
<1> QED BY <1>0, <1>1, <1>3, <1>5, ImportClaimKeeps, StillKeeps

LEMMA StaleKeeps == ASSUME ImportInv, NEW i \in Import, GrowStale(i) PROVE ImportInv'
<1>0. ImportTyped /\ OneClaim /\ RecordFits(record[i]) BY DEF ImportInv, ImportTyped
<1> DEFINE x == [record[i] EXCEPT !.stale = TRUE]
<1>1. /\ record[i].status = "applying" /\ record' = [record EXCEPT ![i] = x]
      /\ Quiet /\ UNCHANGED <<runner, taken, deaths>>
  BY DEF GrowStale, Quiet
<1>2. x \in RecordRow /\ x.status = "applying" /\ x.plan = record[i].plan BY <1>0, <1>1 DEF RecordFits, RecordRow
<1>3. RecordFits(x) BY <1>0, <1>1, <1>2 DEF RecordFits
<1> HIDE DEF x
<1>4. RecordsFit /\ record'[i] = x /\ \A j \in Import : j # i => record'[j] = record[j] BY <1>0, <1>1, <1>3, RecordWritten
<1>5. \A q \in Runner : runner[q].pc # "idle" => runner[q].of \in Import BY <1>0 DEF ImportTyped, RunnerFits
<1>6. ClaimsStand BY <1>0, <1>1, <1>2, <1>4, <1>5 DEF ClaimsStand, OneClaim, Active
<1> QED BY <1>0, <1>1, <1>4, <1>6, ImportClaimKeeps, StillKeeps

\* The import of an invocation that is at it.
LEMMA Mine == ASSUME ImportInv, NEW r \in Runner, runner[r].pc # "idle"
              PROVE  /\ runner[r].of \in Import /\ runner[r].plan \in FilePlan /\ RunnerFits(runner[r])
                     /\ runner[r] \in RunnerRow /\ RecordFits(record[runner[r].of])
  BY DEF ImportInv, ImportTyped, RunnerFits

LEMMA ReadKeeps == ASSUME ImportInv, NEW r \in Runner, NEW i \in Import, ReadImport(r, i) PROVE ImportInv'
<1>0. ImportTyped /\ OneClaim /\ RecordFits(record[i]) BY DEF ImportInv, ImportTyped
<1> DEFINE g == [runner[r] EXCEPT !.pc = "claiming", !.of = i, !.plan = record[i].plan]
<1>1. /\ runner[r] = Absent /\ record[i].status # "none" /\ runner' = [runner EXCEPT ![r] = g]
      /\ Quiet /\ UNCHANGED <<record, taken, deaths>>
  BY DEF ReadImport, Quiet
<1>2. RunnerFits(g) /\ g.pc = "claiming" /\ g.of = i
  <2>1. RunnerFits(runner[r]) /\ runner[r].pc = "idle" /\ record[i].plan \in FilePlan
    BY <1>0, <1>1, AbsentFits DEF RecordFits
  <2>2. /\ g \in RunnerRow /\ g.pc = "claiming" /\ g.of = i /\ g.plan = record[i].plan /\ g.left = runner[r].left
        /\ g.news = runner[r].news /\ g.failed = runner[r].failed /\ g.blocked = runner[r].blocked
    BY <2>1 DEF RunnerFits, RunnerRow
  <2> HIDE DEF g
  <2> QED BY <2>1, <2>2 DEF RunnerFits
<1> HIDE DEF g
<1>3. Comes(r, g) BY <1>0, <1>1, <1>2, QuietlyCome DEF Quiet
<1>4. \A q \in Runner : q # r => runner'[q].pc = runner[q].pc /\ runner'[q].of = runner[q].of
  BY <1>0, <1>3, HeardType DEF Comes
<1>5. ClaimsStand BY <1>0, <1>1, <1>2, <1>3, <1>4 DEF ClaimsStand, OneClaim, Active, Comes
<1>6. RecordsFit /\ OneClaim' BY <1>0, <1>1, <1>5, ImportClaimKeeps, RecordsStand
<1>7. taken' \subseteq Import /\ deaths' \in 0..MaxDeath BY <1>0, <1>1 DEF ImportTyped
<1>8. CatalogueInv' /\ OffersGrow /\ agrees' \in BOOLEAN BY <1>1, QuietCatalogue
<1> QED BY <1>2, <1>3, <1>6, <1>7, <1>8, RunKeeps

LEMMA ClaimedKeeps == ASSUME ImportInv, NEW r \in Runner, Claim(r) PROVE ImportInv'
<1> DEFINE i == runner[r].of
<1>0. ImportTyped /\ OneClaim BY DEF ImportInv
<1>1. runner[r].pc = "claiming" /\ Quiet /\ UNCHANGED deaths BY DEF Claim, Quiet
<1>2. i \in Import /\ RunnerFits(runner[r]) /\ RecordFits(record[i]) BY <1>1, Mine
<1>3. CatalogueInv' /\ OffersGrow /\ agrees' \in BOOLEAN BY <1>1, QuietCatalogue
<1>4. CASE MayClaim(i)
  <2> DEFINE x == [record[i] EXCEPT !.status = "applying", !.stale = FALSE]
             g == [runner[r] EXCEPT !.pc = "planning"]
  <2>1. /\ record' = [record EXCEPT ![i] = x] /\ runner' = [runner EXCEPT ![r] = g]
        /\ taken' = IF \E q \in Runner : AtIt(q, i) THEN taken \cup {i} ELSE taken
    BY <1>4 DEF Claim
  <2>2. RecordFits(x) /\ x.status = "applying" BY <1>2, <1>4, StatusFits DEF MayClaim, Claimed
  <2>3. g \in RunnerRow /\ g.pc = "planning" /\ g.of = i /\ g.plan = runner[r].plan /\ g.left = runner[r].left
        /\ g.news = runner[r].news /\ g.failed = runner[r].failed /\ g.blocked = runner[r].blocked
    BY <1>2 DEF RunnerFits, RunnerRow
  <2> HIDE DEF x, g
  <2>4. RunnerFits(g) BY <1>1, <1>2, <2>3 DEF RunnerFits
  <2>5. Comes(r, g) BY <1>0, <1>1, <2>1, <2>4, QuietlyCome DEF Quiet
  <2>6. RecordsFit /\ record'[i] = x /\ \A j \in Import : j # i => record'[j] = record[j]
    BY <1>0, <1>2, <2>1, <2>2, RecordWritten
  <2>7. \A q \in Runner : q # r => runner'[q].pc = runner[q].pc /\ runner'[q].of = runner[q].of
    BY <1>0, <2>5, HeardType DEF Comes
  <2>8. \A j \in Import : j # i => record[j].status # "applying" BY <1>4 DEF MayClaim, OtherApplying
  <2>9. \A q \in Runner : runner[q].pc # "idle" => runner[q].of \in Import BY <1>0 DEF ImportTyped, RunnerFits
  <2>10. taken \subseteq taken' /\ (i \notin taken' => \A q \in Runner : Active(q) => runner[q].of # i)
    BY <2>1 DEF AtIt, Active
  <2>11. \A q \in Runner : Active(q) /\ runner[q].of \notin taken' => FALSE
    BY <1>0, <2>8, <2>9, <2>10 DEF OneClaim, Active
  <2>12. OneClaim'
    BY <1>0, <2>9, <2>2, <2>3, <2>5, <2>6, <2>7, <2>8, <2>11 DEF OneClaim, Active, Comes
  <2>13. taken' \subseteq Import /\ deaths' \in 0..MaxDeath BY <1>0, <1>1, <1>2, <2>1 DEF ImportTyped
  <2> QED BY <1>3, <2>3, <2>5, <2>6, <2>12, <2>13, RunKeeps
<1>5. CASE ~MayClaim(i)
  <2>1. runner' = [runner EXCEPT ![r] = Absent] /\ UNCHANGED <<record, taken>> BY <1>5 DEF Claim
  <2>2. Comes(r, Absent) BY <1>0, <1>1, <2>1, AbsentFits, QuietlyCome DEF Quiet
  <2>3. \A q \in Runner : q # r => runner'[q].pc = runner[q].pc /\ runner'[q].of = runner[q].of
    BY <1>0, <2>2, HeardType DEF Comes
  <2>4. ClaimsStand BY <1>0, <2>1, <2>2, <2>3, AbsentFits DEF ClaimsStand, OneClaim, Active, Comes
  <2>5. RecordsFit /\ OneClaim' BY <1>0, <2>1, <2>4, ImportClaimKeeps, RecordsStand
  <2>6. taken' \subseteq Import /\ deaths' \in 0..MaxDeath BY <1>0, <1>1, <2>1 DEF ImportTyped
  <2> QED BY <1>3, <2>2, <2>5, <2>6, AbsentFits, RunKeeps
<1> QED BY <1>4, <1>5

\* An invocation ends, and with it its claim; or it leaves it.
LEMMA EndKeeps ==
    ASSUME ImportInv, NEW r \in Runner, Active(r), Quiet, UNCHANGED taken, deaths' \in 0..MaxDeath,
           runner' = [runner EXCEPT ![r] = Absent],
           \/ record' = record
           \/ \E x : /\ RecordFits(x) /\ x.status \in {"previewed", "applied"}
                     /\ record' = [record EXCEPT ![runner[r].of] = x]
    PROVE  ImportInv'
<1>0. ImportTyped /\ OneClaim /\ runner[r].of \in Import BY Mine DEF ImportInv, Active
<1>1. Comes(r, Absent) BY <1>0, AbsentFits, QuietlyCome DEF Quiet
<1>2. \A q \in Runner : q # r => runner'[q].pc = runner[q].pc /\ runner'[q].of = runner[q].of
  BY <1>0, <1>1, HeardType DEF Comes
<1>3. \A q \in Runner : Active(q)' => Active(q) /\ runner'[q].of = runner[q].of /\ q # r
  BY <1>1, <1>2, AbsentFits DEF Active, Comes
<1>8. \A q \in Runner : runner'[q].pc # "idle" =>
        runner[q].pc # "idle" /\ runner'[q].of = runner[q].of /\ runner[q].of \in Import
  BY <1>0, <1>1, <1>2, AbsentFits DEF Comes, ImportTyped, RunnerFits
<1>4. RecordsFit /\ ClaimsStand
  <2>1. CASE record' = record BY <1>0, <1>3, <1>8, <2>1, RecordsStand DEF ClaimsStand, OneClaim
  <2>2. ASSUME NEW x, RecordFits(x), x.status \in {"previewed", "applied"}, record' = [record EXCEPT ![runner[r].of] = x]
        PROVE  RecordsFit /\ ClaimsStand
    <3>1. RecordsFit /\ record'[runner[r].of] = x /\ \A j \in Import : j # runner[r].of => record'[j] = record[j]
      BY <1>0, <2>2, RecordWritten
    <3>2. \A q \in Runner : Active(q)' /\ runner[q].of \notin taken => record'[runner[q].of].status = "applying"
      <4>1. ASSUME NEW q \in Runner, Active(q)', runner[q].of \notin taken
            PROVE  record'[runner[q].of].status = "applying"
        <5>1. Active(q) /\ q # r /\ runner[q].of \in Import BY <1>0, <1>3, <4>1 DEF Active, ImportTyped, RunnerFits
        <5>2. runner[q].of # runner[r].of /\ record[runner[q].of].status = "applying" BY <1>0, <4>1, <5>1 DEF OneClaim
        <5> QED BY <3>1, <5>1, <5>2
      <4> QED BY <4>1
    <3>3. \A j \in Import : record'[j].status = "applying" => record[j].status = "applying" BY <2>2, <3>1
    <3>4. \A j \in Import : record[j].status # "none" => record'[j].status # "none" BY <2>2, <3>1
    <3>5. \A q \in Runner : runner'[q].pc # "idle" => record'[runner'[q].of].status # "none"
      BY <1>0, <1>8, <3>4 DEF OneClaim
    <3> QED BY <1>3, <3>1, <3>2, <3>3, <3>5 DEF ClaimsStand
  <2> QED BY <2>1, <2>2
<1>5. CatalogueInv' /\ OffersGrow /\ agrees' \in BOOLEAN BY QuietCatalogue
<1>6. taken' \subseteq Import BY <1>0 DEF ImportTyped
<1>7. OneClaim' BY <1>0, <1>4, ImportClaimKeeps
<1> QED BY <1>1, <1>4, <1>5, <1>6, <1>7, AbsentFits, RunKeeps

LEMMA ImportEndsKeep ==
    ASSUME ImportInv, NEW r \in Runner, CannotPlan(r) \/ Replan(r) \/ Finish(r) \/ Die(r) PROVE ImportInv'
<1> DEFINE i == runner[r].of
<1>0. ImportTyped /\ CatalogueInv /\ OneClaim BY DEF ImportInv
<1>1. Active(r) /\ Quiet /\ UNCHANGED taken /\ runner' = [runner EXCEPT ![r] = Absent]
  BY DEF CannotPlan, Replan, Finish, Die, Done, Executing, Active, Quiet
<1>2. RecordFits(record[i]) /\ record[i].status # "none" BY <1>0, <1>1, Mine DEF Active, OneClaim
<1>3. deaths' \in 0..MaxDeath
  BY <1>0, ImportAssumption DEF ImportAssumption, ImportTyped, CannotPlan, Replan, Finish, Die
<1>4. CASE CannotPlan(r)
  <2> DEFINE x == [record[i] EXCEPT !.status = "previewed", !.stale = FALSE]
  <2>1. RecordFits(x) /\ x.status = "previewed" BY <1>2, StatusFits
  <2>2. record' = [record EXCEPT ![i] = x] BY <1>4 DEF CannotPlan
  <2> HIDE DEF x
  <2> QED BY <1>1, <1>3, <2>1, <2>2, EndKeeps
<1>7. CASE Finish(r)
  <2> DEFINE x == [record[i] EXCEPT !.status = "applied", !.stale = FALSE]
  <2>1. RecordFits(x) /\ x.status = "applied" BY <1>2, StatusFits
  <2>2. record' = [record EXCEPT ![i] = x] BY <1>7 DEF Finish
  <2> HIDE DEF x
  <2> QED BY <1>1, <1>3, <2>1, <2>2, EndKeeps
<1>5. CASE Replan(r)
  <2> DEFINE x == [status |-> "previewed", plan |-> Plan, stale |-> FALSE]
  <2>1. RecordFits(x) /\ x.status = "previewed" BY <1>0, PlanFits DEF RecordFits, RecordRow
  <2>2. record' = [record EXCEPT ![i] = x] BY <1>5 DEF Replan
  <2> HIDE DEF x
  <2> QED BY <1>1, <1>3, <2>1, <2>2, EndKeeps
<1>6. CASE Die(r)
  <2>1. record' = record BY <1>6 DEF Die
  <2> QED BY <1>1, <1>3, <2>1, EndKeeps
<1> QED BY <1>4, <1>5, <1>6, <1>7

\* An invocation stays at the import it is at.
LEMMA GoOnKeeps ==
    ASSUME ImportInv, NEW r \in Runner, NEW g, Active(r), Comes(r, g), g.pc = "executing", g.of = runner[r].of,
           CatalogueInv', OffersGrow, agrees' \in BOOLEAN, UNCHANGED <<record, taken, deaths>>,
           (Settled(r) /\ OnPlan(r))'
    PROVE  ImportInv'
<1>0. ImportTyped /\ OneClaim BY DEF ImportInv
<1>1. \A q \in Runner : q # r => runner'[q].pc = runner[q].pc /\ runner'[q].of = runner[q].of
  BY <1>0, HeardType DEF Comes
<1>2. ClaimsStand BY <1>0, <1>1 DEF ClaimsStand, OneClaim, Active, Comes
<1>3. OneClaim' /\ RecordsFit /\ taken' \subseteq Import /\ deaths' \in 0..MaxDeath
  BY <1>0, <1>2, ImportClaimKeeps, RecordsStand DEF ImportTyped
<1> QED BY <1>3, RunKeeps

LEMMA ToCreateRead == ASSUME NEW plan, plan.entities = EntityPlan
                      PROVE  ToCreate(plan) \subseteq Entity /\ \A e \in Entity : e \in ToCreate(plan) <=> product[e] = "none"
  BY DEF ToCreate, EntityPlan

LEMMA ImportBeginKeeps == ASSUME ImportInv, NEW r \in Runner, BeginExecution(r) PROVE ImportInv'
<1>0. ImportTyped /\ CatalogueInv /\ runner[r].pc = "planning" /\ Plan = runner[r].plan BY DEF ImportInv, BeginExecution
<1> DEFINE plan == runner[r].plan
           g == [runner[r] EXCEPT !.pc = "executing", !.rows = Offer, !.entities = ToCreate(plan)]
<1>1. /\ runner' = [runner EXCEPT ![r] = g] /\ Quiet /\ UNCHANGED <<record, taken, deaths>>
  BY DEF BeginExecution, Quiet
<1>2. RunnerFits(runner[r]) /\ runner[r].of \in Import BY <1>0, Mine
<1>3. /\ plan \in FilePlan /\ plan.entities = EntityPlan
      /\ \A o \in Offer : /\ plan.rows[o].steps = RowSteps(o) /\ plan.rows[o].prices = PriceChanges(o)
                          /\ plan.rows[o].activate = ~OnSale(o)
  BY <1>0, PlanFits
<1>4. ToCreate(plan) \subseteq Entity /\ \A e \in Entity : e \in ToCreate(plan) <=> product[e] = "none"
  BY <1>3, ToCreateRead
<1>5. /\ g \in RunnerRow /\ g.pc = "executing" /\ g.of = runner[r].of /\ g.plan = plan /\ g.rows = Offer
      /\ g.entities = ToCreate(plan) /\ g.left = {} /\ g.news = {} /\ ~g.failed /\ ~g.blocked
  BY <1>0, <1>2, <1>4 DEF RunnerFits, RunnerRow
<1> HIDE DEF g
<1>6. RunnerFits(g) BY <1>2, <1>3, <1>5 DEF RunnerFits
<1>7. Comes(r, g) BY <1>0, <1>1, <1>6, QuietlyCome DEF Quiet
<1>8. CatalogueInv' /\ OffersGrow /\ agrees' \in BOOLEAN BY <1>1, QuietCatalogue
<1>9. Beside /\ \A o \in Offer : RowSteps(o)' = RowSteps(o) /\ PriceChanges(o)' = PriceChanges(o) /\ OnSale(o)' = OnSale(o)
  <2>1. Beside BY <1>1, NoneBeside DEF Quiet, catalogueVars
  <2> QED BY <1>1, <2>1, RowSame DEF Quiet, catalogueVars
<1>10. runner'[r] = g BY <1>7 DEF Comes
<1>11. \A o \in Offer : Left(r, o)' = RowSteps(o) BY <1>3, <1>5, <1>10 DEF Left
<1>12. Settled(r)'
  <2>1. \A o \in Offer : offer[o].status = "archived" => RowSteps(o) = {} BY RowRead DEF RowSteps, RowErrors
  <2> QED BY <1>1, <1>3, <1>4, <1>5, <1>9, <1>10, <1>11, <2>1 DEF Settled, Quiet, catalogueVars
<1>13. OnPlan(r)'
  BY <1>1, <1>3, <1>4, <1>5, <1>9, <1>10, <1>11 DEF OnPlan, Quiet, catalogueVars
<1> QED BY <1>0, <1>1, <1>5, <1>7, <1>8, <1>12, <1>13, GoOnKeeps DEF Active

LEMMA TakeKeeps == ASSUME ImportInv, NEW r \in Runner, NEW o \in Offer, TakeRow(r, o) PROVE ImportInv'
<1>0. ImportTyped /\ Executing(r) /\ Settled(r) /\ OnPlan(r) /\ runner[r].pc = "executing" BY DEF ImportInv, TakeRow, Executing
<1> DEFINE f == runner[r]
           left == IF f.blocked THEN {} ELSE f.plan.rows[o].steps
           g == [f EXCEPT !.rows = f.rows \ {o}, !.at = o, !.left = left]
<1>1. /\ runner' = [runner EXCEPT ![r] = g] /\ Quiet /\ UNCHANGED <<record, taken, deaths>>
      /\ f.left = {} /\ o \in f.rows
  BY DEF TakeRow, Quiet
<1>2. RunnerFits(f) /\ f \in RunnerRow /\ f.of \in Import /\ f.plan \in FilePlan BY <1>0, Mine
<1>3. left \subseteq Step BY <1>2 DEF FilePlan, RowPlan
<1>4. /\ g \in RunnerRow /\ g.pc = "executing" /\ g.of = f.of /\ g.plan = f.plan /\ g.rows = f.rows \ {o}
      /\ g.at = o /\ g.left = left /\ g.entities = f.entities /\ g.news = f.news /\ g.failed = f.failed
      /\ g.blocked = f.blocked
  BY <1>0, <1>2, <1>3 DEF RunnerRow
<1> HIDE DEF g
<1>5. RunnerFits(g) BY <1>2, <1>4 DEF RunnerFits
<1>6. Comes(r, g) BY <1>0, <1>1, <1>5, QuietlyCome DEF Quiet
<1>7. CatalogueInv' /\ OffersGrow /\ agrees' \in BOOLEAN BY <1>1, QuietCatalogue
<1>8. \A x \in Offer : RowSteps(x)' = RowSteps(x) /\ PriceChanges(x)' = PriceChanges(x) /\ OnSale(x)' = OnSale(x)
  <2>1. Beside BY <1>1, NoneBeside DEF Quiet, catalogueVars
  <2> QED BY <1>1, <2>1, RowSame DEF Quiet, catalogueVars
<1>9. runner'[r] = g BY <1>6 DEF Comes
<1>10. \A x \in Offer : Left(r, x)' \subseteq Left(r, x) /\ (~f.blocked => Left(r, x)' = Left(r, x))
  BY <1>1, <1>4, <1>9 DEF Left
<1>11. Settled(r)'
  BY <1>0, <1>1, <1>4, <1>8, <1>9, <1>10 DEF Settled, Quiet, catalogueVars
<1>12. OnPlan(r)'
  BY <1>0, <1>1, <1>4, <1>8, <1>9, <1>10 DEF OnPlan, Quiet, catalogueVars
<1> QED BY <1>0, <1>1, <1>4, <1>6, <1>7, <1>11, <1>12, GoOnKeeps DEF Active

\* What creates an entity lets the rows be.
LEMMA EntityTaken ==
    ASSUME CatalogueInv, NEW e \in Entity, CreateEntity(e), UNCHANGED agrees
    PROVE  /\ UNCHANGED <<offer, price, withdrawn>>
           /\ \A x \in Entity : x # e => product'[x] = product[x]
           /\ product'[e] # "none"
           /\ product[e] = "none" => Beside
<1>1. product \in [Entity -> {"none", "draft", "active", "sales_closed", "retired"}]
  BY DEF CatalogueInv, CatalogueTyped, CatalogueTypeOK
<1>2. /\ UNCHANGED <<offer, price, withdrawn>>
      /\ \A x \in Entity : x # e => product'[x] = product[x]
      /\ product'[e] = IF e = "edition" THEN "active" ELSE "draft"
  BY <1>1 DEF CreateEntity, CreateProduct, CreateMajor, UpsertEditionPolicy, Entity
<1>3. ASSUME product[e] = "none" PROVE Beside
  <2>1. OnOffer' = OnOffer BY <1>2, <1>3 DEF OnOffer, Entity
  <2>2. (\A x \in Entity : product'[x] # "retired") <=> \A x \in Entity : product[x] # "retired" BY <1>2, <1>3
  <2> QED BY <2>1, <2>2 DEF Beside
<1> QED BY <1>2, <1>3

LEMMA SameOutside == ASSUME CatalogueInv, UNCHANGED <<edits, desk>> PROVE Same
  BY DEF Same, CatalogueInv, CatalogueTyped, CatalogueTypeOK

LEMMA ExecuteEntityKeeps == ASSUME ImportInv, NEW r \in Runner, ExecuteEntity(r) PROVE ImportInv'
<1>0. /\ ImportTyped /\ CatalogueInv /\ Executing(r) /\ Settled(r) /\ OnPlan(r) /\ runner[r].pc = "executing"
      /\ UNCHANGED <<clerk, edits, desk, agrees, record, taken, deaths>> /\ Same
  BY SameOutside DEF ImportInv, ExecuteEntity, Executing
<1> DEFINE f == runner[r]
<1>1. PICK e \in Soonest(f.entities) :
        \/ /\ CreateEntity(e)
           /\ Advance(r, [f EXCEPT !.entities = f.entities \ {e}])
        \/ /\ UNCHANGED <<product, offer, price, withdrawn>>
           /\ Advance(r, [f EXCEPT !.entities = f.entities \ {e}, !.failed = TRUE, !.blocked = TRUE])
  BY DEF ExecuteEntity
<1>2. RunnerFits(f) /\ f \in RunnerRow /\ f.of \in Import /\ f.plan \in FilePlan BY <1>0, Mine
<1>3. e \in f.entities /\ e \in Entity BY <1>2 DEF Soonest, RunnerRow
<1>4. agrees' \in BOOLEAN BY <1>0 DEF ImportTyped
<1>5. CASE CreateEntity(e) /\ Advance(r, [f EXCEPT !.entities = f.entities \ {e}])
  <2> DEFINE g == [f EXCEPT !.entities = f.entities \ {e}]
  <2>1. /\ g \in RunnerRow /\ g.pc = "executing" /\ g.of = f.of /\ g.plan = f.plan /\ g.rows = f.rows
        /\ g.at = f.at /\ g.left = f.left /\ g.entities = f.entities \ {e} /\ g.news = f.news /\ g.failed = f.failed
        /\ g.blocked = f.blocked
    BY <1>0, <1>2 DEF RunnerRow
  <2>2. Advance(r, g) BY <1>5
  <2> HIDE DEF g
  <2>3. RunnerFits(g) BY <1>2, <2>1 DEF RunnerFits
  <2>4. Comes(r, g) BY <1>0, <2>2, <2>3, LoudlyCome
  <2>5. CatalogueInv' /\ OffersGrow BY <1>0, <1>3, <1>5, EntityKeeps
  <2>6. /\ UNCHANGED <<offer, price, withdrawn>>
        /\ \A x \in Entity : x # e => product'[x] = product[x]
        /\ product'[e] # "none" /\ (product[e] = "none" => Beside)
    BY <1>0, <1>3, <1>5, EntityTaken
  <2>7. runner'[r] = g BY <2>4 DEF Comes
  <2>8. \A x \in Offer : Left(r, x)' = Left(r, x) BY <2>1, <2>7 DEF Left
  <2>9. Settled(r)'
    <3>1. f.entities \subseteq Entity BY <1>2 DEF RunnerRow
    <3> QED BY <1>0, <2>1, <2>6, <2>7, <2>8, <3>1 DEF Settled, OnSale
  <2>10. OnPlan(r)'
    <3> SUFFICES ASSUME ~g.failed, g.news = {} PROVE OnPlan(r)' BY <2>7 DEF OnPlan
    <3>1. product[e] = "none" BY <1>0, <1>3, <2>1 DEF Settled
    <3>2. \A x \in Offer : RowSteps(x)' = RowSteps(x) /\ PriceChanges(x)' = PriceChanges(x) /\ OnSale(x)' = OnSale(x)
      BY <2>6, <3>1, RowSame
    <3> QED BY <1>0, <2>1, <2>6, <2>7, <2>8, <3>2 DEF OnPlan
  <2> QED BY <1>0, <1>4, <2>1, <2>4, <2>5, <2>9, <2>10, GoOnKeeps DEF Active
<1>6. CASE /\ UNCHANGED <<product, offer, price, withdrawn>>
           /\ Advance(r, [f EXCEPT !.entities = f.entities \ {e}, !.failed = TRUE, !.blocked = TRUE])
  <2> DEFINE g == [f EXCEPT !.entities = f.entities \ {e}, !.failed = TRUE, !.blocked = TRUE]
  <2>1. /\ g \in RunnerRow /\ g.pc = "executing" /\ g.of = f.of /\ g.plan = f.plan /\ g.rows = f.rows
        /\ g.at = f.at /\ g.left = f.left /\ g.entities = f.entities \ {e} /\ g.news = f.news /\ g.failed
    BY <1>0, <1>2 DEF RunnerRow
  <2>2. Advance(r, g) BY <1>6
  <2> HIDE DEF g
  <2>3. RunnerFits(g) BY <1>2, <2>1 DEF RunnerFits
  <2>4. Comes(r, g) BY <1>0, <2>2, <2>3, LoudlyCome
  <2>5. Quiet BY <1>0, <1>6 DEF Quiet, catalogueVars
  <2>6. CatalogueInv' /\ OffersGrow BY <2>5, QuietCatalogue
  <2>7. runner'[r] = g BY <2>4 DEF Comes
  <2>8. \A x \in Offer : Left(r, x)' = Left(r, x) BY <2>1, <2>7 DEF Left
  <2>9. Settled(r)' BY <1>0, <1>6, <2>1, <2>7, <2>8 DEF Settled, OnSale
  <2>10. OnPlan(r)' BY <2>1, <2>7 DEF OnPlan
  <2> QED BY <1>0, <1>4, <2>1, <2>4, <2>6, <2>9, <2>10, GoOnKeeps DEF Active
<1> QED BY <1>1, <1>5, <1>6

\* A step of a row writes its offer only.
LEMMA OneOffer ==
    ASSUME CatalogueInv, NEW o \in Offer, NEW s, NEW row, row.prices \subseteq Priced(o), row.activate \in BOOLEAN,
           ServiceStep(o, s, row)
    PROVE  /\ UNCHANGED product
           /\ \A x \in Offer : x # o => offer'[x] = offer[x] /\ price'[x] = price[x]
           /\ offer[o].status # "archived" => offer'[o].status # "archived"
<1>1. offer \in [Offer -> OfferRow] /\ offer[o] \in OfferRow BY DEF CatalogueInv, CatalogueTyped, CatalogueTypeOK
<1>2. CASE CreateOffer(o) BY <1>1, <1>2 DEF CreateOffer, OfferRow
<1>3. CASE UpdateOffer(o, TRUE) BY <1>1, <1>3 DEF UpdateOffer, OfferRow
<1>4. CASE LinkOffer(o, "synced") BY <1>1, <1>4 DEF LinkOffer, OfferRow
<1>5. CASE PublishAtOnce(o) BY <1>1, <1>5 DEF PublishAtOnce, OfferRow
<1>6. CASE PriceSet(o, [c \in row.prices |-> Row[o].amount[c]], Row[o].every, row.activate)
  <2>1. price \in Prices BY Series
  <2>2. UNCHANGED <<product, offer>> BY <1>6 DEF PriceSet
  <2>3. \A x \in Offer : x # o => price'[x] = price[x] BY <1>6, <2>1 DEF PriceSet, Prices
  <2> QED BY <2>2, <2>3
<1> QED BY <1>2, <1>3, <1>4, <1>5, <1>6 DEF ServiceStep

LEMMA ExecuteStepKeeps == ASSUME ImportInv, NEW r \in Runner, ExecuteStep(r) PROVE ImportInv'
<1>0. /\ ImportTyped /\ CatalogueInv /\ NeverAsked /\ Executing(r) /\ Settled(r) /\ OnPlan(r) /\ runner[r].pc = "executing"
      /\ UNCHANGED <<clerk, edits, desk, agrees, record, taken, deaths>> /\ Same
  BY SameOutside DEF ImportInv, ExecuteStep, Executing
<1> DEFINE f == runner[r]
<1>7. PICK s \in Soonest(f.left) :
        \/ /\ ServiceStep(f.at, s, f.plan.rows[f.at])
           /\ Advance(r, [f EXCEPT !.left = f.left \ {s}])
        \/ /\ UNCHANGED <<product, offer, price, withdrawn>>
           /\ Advance(r, [f EXCEPT !.left = {}, !.failed = TRUE])
  BY DEF ExecuteStep
<1>2. RunnerFits(f) /\ f \in RunnerRow /\ f.of \in Import /\ f.plan \in FilePlan BY <1>0, Mine
<1>8. PICK o \in Offer : o = f.at BY <1>2 DEF Soonest, RunnerFits
<1> DEFINE row == f.plan.rows[o]
<1>1. \/ /\ ServiceStep(o, s, row)
         /\ Advance(r, [f EXCEPT !.left = f.left \ {s}])
      \/ /\ UNCHANGED <<product, offer, price, withdrawn>>
         /\ Advance(r, [f EXCEPT !.left = {}, !.failed = TRUE])
  BY <1>7, <1>8
<1>3. s \in f.left /\ f.left \subseteq Step /\ o \notin f.rows BY <1>2, <1>8 DEF Soonest, RunnerFits, RunnerRow
<1>4. agrees' \in BOOLEAN BY <1>0 DEF ImportTyped
<1>5. CASE ServiceStep(o, s, row) /\ Advance(r, [f EXCEPT !.left = f.left \ {s}])
  <2> DEFINE g == [f EXCEPT !.left = f.left \ {s}]
  <2>1. /\ g \in RunnerRow /\ g.pc = "executing" /\ g.of = f.of /\ g.plan = f.plan /\ g.rows = f.rows
        /\ g.at = f.at /\ g.left = f.left \ {s} /\ g.entities = f.entities /\ g.news = f.news /\ g.failed = f.failed
        /\ g.blocked = f.blocked
    BY <1>0, <1>2 DEF RunnerRow
  <2>2. Advance(r, g) BY <1>5
  <2> HIDE DEF g
  <2>3. RunnerFits(g) BY <1>2, <1>3, <2>1 DEF RunnerFits
  <2>4. Comes(r, g) BY <1>0, <2>2, <2>3, LoudlyCome
  <2>5. row.prices \subseteq Priced(o) /\ row.activate \in BOOLEAN BY <1>2, <1>3 DEF FilePlan, RowPlan
  <2>6. CatalogueInv' /\ OffersGrow BY <1>0, <1>3, <1>5, <2>5, ServiceKeeps
  <2>7. /\ UNCHANGED product
        /\ \A x \in Offer : x # o => offer'[x] = offer[x] /\ price'[x] = price[x]
        /\ offer[o].status # "archived" => offer'[o].status # "archived"
    BY <1>0, <1>3, <1>5, <2>5, OneOffer
  <2>8. runner'[r] = g BY <2>4 DEF Comes
  <2>9. /\ \A x \in Offer : x # o => Left(r, x)' = Left(r, x)
        /\ Left(r, o) = f.left /\ Left(r, o)' = f.left \ {s}
    BY <1>3, <1>8, <2>1, <2>8 DEF Left
  <2>10. Beside BY <1>0, <2>7 DEF Beside, OnOffer
  <2>11. \A x \in Offer : x # o =>
           RowSteps(x)' = RowSteps(x) /\ PriceChanges(x)' = PriceChanges(x) /\ OnSale(x)' = OnSale(x)
    BY <2>7, <2>10, RowSame
  <2>12. Settled(r)'
    <3>1. f.entities \subseteq Entity BY <1>2 DEF RunnerRow
    <3>2. ASSUME NEW x \in Offer \ f.news
          PROVE  /\ offer'[x].status = "archived" => Left(r, x)' = {}
                 /\ "prices" \in Left(r, x)' /\ f.plan.rows[x].activate => ~OnSale(x)'
      <4>1. CASE x # o BY <1>0, <2>7, <2>9, <2>11, <3>2, <4>1 DEF Settled
      <4>2. CASE x = o
        <5>1. offer[o].status # "archived" BY <1>0, <1>3, <2>9, <3>2, <4>2 DEF Settled
        <5>2. ASSUME "prices" \in f.left \ {s}, row.activate PROVE ~OnSale(o)'
          <6>1. s # "activate" BY <1>3, <5>2, SoonestLast
          <6>2. ~OnSale(o) BY <1>0, <2>9, <3>2, <4>2, <5>2 DEF Settled
          <6>3. offer \in [Offer -> OfferRow] /\ offer[o] \in OfferRow BY <1>0 DEF CatalogueInv, CatalogueTyped, CatalogueTypeOK
          <6> QED BY <1>3, <1>5, <6>1, <6>2, <6>3
               DEF ServiceStep, CreateOffer, UpdateOffer, PriceSet, LinkOffer, OnSale, OfferRow
        <5> QED BY <2>7, <2>9, <4>2, <5>1, <5>2
      <4> QED BY <4>1, <4>2
    <3> QED BY <1>0, <2>1, <2>7, <2>8, <3>1, <3>2 DEF Settled
  <2>13. OnPlan(r)'
    <3> SUFFICES ASSUME ~g.failed, g.news = {} PROVE OnPlan(r)' BY <2>8 DEF OnPlan
    <3>1. /\ ~f.blocked /\ (\A e \in Entity : product[e] = "none" => e \in f.entities)
          /\ \A x \in Offer :
               /\ RowSteps(x) = Left(r, x)
               /\ "prices" \in Left(r, x) => f.plan.rows[x].prices = PriceChanges(x) /\ f.plan.rows[x].activate = ~OnSale(x)
      BY <1>0, <2>1 DEF OnPlan
    <3>2. /\ RowSteps(o)' = RowSteps(o) \ {s}
          /\ "prices" \in RowSteps(o) \ {s} => (PriceChanges(o))' = PriceChanges(o) /\ OnSale(o)' = OnSale(o)
      <4>1. RowSteps(o) = f.left BY <1>3, <2>9, <3>1
      <4>2. s = "prices" => row.prices = PriceChanges(o) /\ row.activate = ~OnSale(o) BY <1>3, <2>9, <3>1
      <4>3. s \in Soonest(RowSteps(o)) BY <4>1
      <4> HIDE DEF row
      <4> QED BY <1>0, <1>3, <1>5, <4>2, <4>3, StepTaken
    <3>3. ASSUME NEW x \in Offer
          PROVE  /\ RowSteps(x)' = Left(r, x)'
                 /\ "prices" \in Left(r, x)' => /\ f.plan.rows[x].prices = PriceChanges(x)'
                                                /\ f.plan.rows[x].activate = ~OnSale(x)'
      <4>1. CASE x # o BY <2>9, <2>11, <3>1, <4>1
      <4>2. CASE x = o BY <1>3, <2>9, <3>1, <3>2, <4>2
      <4> QED BY <4>1, <4>2
    <3> QED BY <2>1, <2>7, <2>8, <3>1, <3>3 DEF OnPlan
  <2> QED BY <1>0, <1>4, <2>1, <2>4, <2>6, <2>12, <2>13, GoOnKeeps DEF Active
<1>6. CASE /\ UNCHANGED <<product, offer, price, withdrawn>>
           /\ Advance(r, [f EXCEPT !.left = {}, !.failed = TRUE])
  <2> DEFINE g == [f EXCEPT !.left = {}, !.failed = TRUE]
  <2>1. /\ g \in RunnerRow /\ g.pc = "executing" /\ g.of = f.of /\ g.plan = f.plan /\ g.rows = f.rows
        /\ g.at = f.at /\ g.left = {} /\ g.entities = f.entities /\ g.news = f.news /\ g.failed
    BY <1>0, <1>2 DEF RunnerRow
  <2>2. Advance(r, g) BY <1>6
  <2> HIDE DEF g
  <2>3. RunnerFits(g) BY <1>2, <2>1 DEF RunnerFits
  <2>4. Comes(r, g) BY <1>0, <2>2, <2>3, LoudlyCome
  <2>5. Quiet BY <1>0, <1>6 DEF Quiet, catalogueVars
  <2>6. CatalogueInv' /\ OffersGrow BY <1>0, <2>5, CatalogueStands, OffersStand DEF Quiet, catalogueVars
  <2>7. runner'[r] = g BY <2>4 DEF Comes
  <2>8. \A x \in Offer : Left(r, x)' \subseteq Left(r, x) BY <2>1, <2>7 DEF Left
  <2>9. Settled(r)' BY <1>0, <1>6, <2>1, <2>7, <2>8 DEF Settled, OnSale
  <2>10. OnPlan(r)' BY <2>1, <2>7 DEF OnPlan
  <2> QED BY <1>0, <1>4, <2>1, <2>4, <2>6, <2>9, <2>10, GoOnKeeps DEF Active
<1> QED BY <1>1, <1>5, <1>6

LEMMA StripeKeeps == ASSUME ImportInv, StripeChanges PROVE ImportInv'
<1>1. /\ UNCHANGED <<product, offer, price, clerk, withdrawn, desk, record, taken, deaths>>
      /\ edits < MaxMeanwhile /\ edits' = edits + 1 /\ agrees' = ~agrees /\ runner' = Noticed(runner)
  BY DEF StripeChanges
<1>2. Same
  BY <1>1, ImportAssumption, CatalogueAssumption
     DEF ImportAssumption, CatalogueAssumption, Same, ImportInv, CatalogueInv, CatalogueTyped, CatalogueTypeOK
<1>3. CatalogueInv' BY <1>1, <1>2, StandStill DEF ImportInv
<1>4. agrees' \in BOOLEAN BY <1>1 DEF ImportInv, ImportTyped
<1> QED BY <1>1, <1>3, <1>4, OffersStand, OutsideKeeps

LEMMA MeanwhileKeeps == ASSUME ImportInv, Meanwhile PROVE ImportInv'
<1>1. /\ CatalogueNext /\ UNCHANGED <<record, agrees, taken, deaths>> /\ runner' = Noticed(runner) BY DEF Meanwhile
<1>2. CatalogueInv' /\ OffersGrow BY <1>1, CatalogueKeeps, OffersWritten DEF ImportInv
<1>3. agrees' \in BOOLEAN BY <1>1 DEF ImportInv, ImportTyped
<1> QED BY <1>1, <1>2, <1>3, OutsideKeeps

LEMMA ImportKeeps == ASSUME ImportInv, [ImportNext]_importVars PROVE ImportInv'
<1>1. CASE UNCHANGED importVars
  <2>1. Quiet /\ UNCHANGED <<runner, taken, deaths, record>> BY <1>1 DEF Quiet, importVars
  <2>2. RecordsFit BY <2>1, RecordsStand DEF ImportInv
  <2>3. OneClaim' BY <2>1 DEF ImportInv, OneClaim, Active
  <2> QED BY <2>1, <2>2, <2>3, StillKeeps
<1>2. CASE ImportNext
  BY <1>2, PreviewKeeps, StaleKeeps, ReadKeeps, ClaimedKeeps, ImportEndsKeep, ImportBeginKeeps, ExecuteEntityKeeps, TakeKeeps,
     ExecuteStepKeeps, StripeKeeps, MeanwhileKeeps DEF ImportNext
<1> QED BY <1>1, <1>2

LEMMA ImportBegins == ImportInit => ImportInv
<1> SUFFICES ASSUME ImportInit PROVE ImportInv OBVIOUS
<1>1. CatalogueInv BY CatalogueBegins DEF ImportInit
<1>2. RecordFits(NoRecord) /\ NoRecord.status = "none" BY DEF NoRecord, RecordFits, RecordRow
<1>3. RunnerFits(Absent) /\ Absent.pc = "idle" BY AbsentFits
<1>4. ImportTyped BY <1>2, <1>3, ImportAssumption DEF ImportInit, ImportTyped, ImportAssumption, RecordFits, RunnerFits
<1>5. NeverAsked
  <2>1. \A o \in Offer : offer[o] = NoOffer \/ offer[o] = [NoOffer EXCEPT !.status = "draft"]
    BY DEF ImportInit, CatalogueInit
  <2>2. [NoOffer EXCEPT !.status = "draft"].asked BY DEF NoOffer
  <2> QED BY <2>1, <2>2, NoOfferType DEF NeverAsked
<1>6. OneClaim BY <1>2, <1>3 DEF ImportInit, OneClaim, Active
<1> QED BY <1>1, <1>3, <1>4, <1>5, <1>6 DEF ImportInit, ImportInv, Executing

\* The invariant the theorems about imports rest on.
THEOREM ImportInvariant == ImportSpec => []ImportInv
  BY ImportBegins, ImportKeeps, PTL DEF ImportSpec

\* Every record, plan and invocation of an import keeps its type.
THEOREM ImportTyping == ImportSpec => [](CatalogueTypeOK /\ ImportTypeOK)
<1>1. ImportInv => CatalogueTypeOK /\ ImportTypeOK
  <2> SUFFICES ASSUME ImportInv PROVE CatalogueTypeOK /\ ImportTypeOK OBVIOUS
  <2>1. CatalogueTypeOK /\ ImportTyped BY DEF ImportInv, CatalogueInv, CatalogueTyped
  <2>2. ASSUME NEW i \in Import
        PROVE  /\ record[i].status \in {"none", "previewed", "applying", "applied"}
               /\ record[i].stale => record[i].status = "applying"
               /\ record[i].status # "none" => DOMAIN record[i].plan.rows = Offer
    BY <2>1 DEF ImportTyped, RecordFits, RecordRow, FilePlan
  <2>3. ASSUME NEW r \in Runner
        PROVE  /\ runner[r].pc \in {"idle", "claiming", "planning", "executing"}
               /\ runner[r].pc # "idle" => runner[r].of \in Import
               /\ runner[r].rows \subseteq Offer
               /\ runner[r].entities \subseteq Entity
               /\ runner[r].left \subseteq Step
               /\ runner[r].left # {} => runner[r].at \in Offer
               /\ runner[r].news \subseteq Offer \cup Entity \cup {"stripe"}
    BY <2>1 DEF ImportTyped, RunnerFits, RunnerRow
  <2> QED BY <2>1, <2>2, <2>3 DEF ImportTypeOK, ImportTyped
<1> QED BY <1>1, ImportInvariant, PTL

\* An import does not break the catalogue it writes to: an offer on sale is whole in the sense
\* of SalesWhole, whatever previews, executions, crashes and edits by hand overlap.
THEOREM ImportsSellWhole == ImportSpec => []SaleIsWhole
<1>1. ImportInv => SaleIsWhole BY WholeSold DEF ImportInv
<1> QED BY <1>1, ImportInvariant, PTL

\* Two invocations execute imports at the same time only if one of them is at an import that was
\* taken over from an invocation still at it; and an execution without a failure, undisturbed,
\* leaves nothing for the same file to do.  (That a step does not fail is not promised: the
\* activation of an offer whose prices are yet to come is planned, and refused.)
THEOREM ImportsDeliver == ImportSpec => []ImportDelivers
<1>1. ASSUME ImportInv PROVE ImportDelivers
  <2>1. ExecuteAlone
    <3> SUFFICES ASSUME NEW r \in Runner, NEW q \in Runner, Active(r), Active(q),
                        runner[r].of \notin taken, runner[q].of \notin taken
                 PROVE  r = q
      BY DEF ExecuteAlone, Executing, Active
    <3>1. OneClaim /\ runner[r].of \in Import /\ runner[q].of \in Import
      BY <1>1 DEF ImportInv, ImportTyped, RunnerFits, Active
    <3>2. runner[r].of = runner[q].of BY <3>1 DEF OneClaim
    <3> QED BY <3>1, <3>2 DEF OneClaim
  <2>2. ASSUME NEW r \in Runner, Done(r), ~runner[r].failed, runner[r].news = {}
        PROVE  (\A e \in Entity : product[e] # "none") /\ \A o \in Offer : RowSteps(o) = {}
    <3>1. OnPlan(r) /\ runner[r].entities = {} /\ \A o \in Offer : Left(r, o) = {}
      BY <1>1, <2>2 DEF ImportInv, Done, Left
    <3> QED BY <2>2, <3>1 DEF OnPlan
  <2> QED BY <2>1, <2>2 DEF ImportDelivers, NothingLeft
<1> QED BY <1>1, ImportInvariant, PTL

-----------------------------------------------------------------------------
(* What a step may not do                                                   *)

\* The steps of the property, for one invocation.
Stays(r) ==
    Executing(r) /\ runner'[r] # runner[r] /\ runner'[r].news = runner[r].news =>
      /\ \A o \in Offer \ runner[r].news :
           /\ OnSale(o) => \A c \in Currency : (ActiveAmount(o, c))' = ActiveAmount(o, c)
           /\ offer[o].status = "archived" => offer'[o] = offer[o]
      /\ product["edition"] # "none" /\ "edition" \notin runner[r].news =>
           product'["edition"] = product["edition"]

LEMMA NothingStays == ASSUME UNCHANGED <<product, offer, price>>, NEW r PROVE Stays(r)
  BY DEF Stays, ActiveAmount, ActiveVersions, Versions

LEMMA HeardStays == ASSUME ImportTyped, NEW r \in Runner, Heard(r) PROVE Stays(r)
<1> SUFFICES ASSUME Executing(r), runner'[r].news = runner[r].news PROVE runner'[r] = runner[r] BY DEF Stays
<1>1. runner[r] \in RunnerRow BY DEF ImportTyped
<1>2. runner[r].news \cup Touched = runner[r].news BY HeardType
<1>3. runner'[r] = [runner[r] EXCEPT !.news = runner[r].news] BY <1>2 DEF Heard
<1> QED BY <1>1, <1>3 DEF RunnerRow

LEMMA EntityStays == ASSUME ImportInv, NEW r \in Runner, ExecuteEntity(r) PROVE Stays(r)
<1>0. /\ ImportTyped /\ CatalogueInv /\ Settled(r) /\ UNCHANGED agrees
  BY DEF ImportInv, ExecuteEntity
<1>1. PICK e \in Soonest(runner[r].entities) : CreateEntity(e) \/ UNCHANGED <<product, offer, price, withdrawn>>
  BY DEF ExecuteEntity
<1>2. e \in runner[r].entities /\ e \in Entity BY <1>0 DEF Soonest, ImportTyped, RunnerRow
<1>3. CASE CreateEntity(e)
  <2>1. UNCHANGED <<offer, price>> /\ \A x \in Entity : x # e => product'[x] = product[x]
    BY <1>0, <1>2, <1>3, EntityTaken
  <2>2. "edition" \notin runner[r].news /\ product["edition"] # "none" => e # "edition" BY <1>0, <1>2 DEF Settled
  <2>3. \A o \in Offer, c \in Currency : ActiveAmount(o, c)' = ActiveAmount(o, c)
    BY <2>1 DEF ActiveAmount, ActiveVersions, Versions
  <2> QED BY <2>1, <2>2, <2>3 DEF Stays, Entity
<1>4. CASE UNCHANGED <<product, offer, price, withdrawn>> BY <1>4, NothingStays
<1> QED BY <1>1, <1>3, <1>4

LEMMA StepStays == ASSUME ImportInv, NEW r \in Runner, ExecuteStep(r) PROVE Stays(r)
<1>0. /\ ImportTyped /\ CatalogueInv /\ Settled(r) /\ runner[r].pc = "executing"
  BY DEF ImportInv, ExecuteStep, Executing
<1> DEFINE f == runner[r]
<1>1. PICK s \in Soonest(f.left) :
        ServiceStep(f.at, s, f.plan.rows[f.at]) \/ UNCHANGED <<product, offer, price, withdrawn>>
  BY DEF ExecuteStep
<1>2. RunnerFits(f) /\ f.plan \in FilePlan BY <1>0, Mine
<1>3. PICK o \in Offer : o = f.at BY <1>2 DEF Soonest, RunnerFits
<1> DEFINE row == f.plan.rows[o]
<1>4. /\ s \in Left(r, o) /\ row.prices \subseteq Priced(o) /\ row.activate \in BOOLEAN
  BY <1>2, <1>3 DEF Soonest, RunnerFits, FilePlan, RowPlan, Left
<1>5. CASE UNCHANGED <<product, offer, price, withdrawn>> BY <1>5, NothingStays
<1>6. CASE ServiceStep(o, s, row)
  <2>1. UNCHANGED product /\ \A x \in Offer : x # o => offer'[x] = offer[x] /\ price'[x] = price[x]
    BY <1>0, <1>4, <1>6, OneOffer
  <2>2. \A x \in Offer : x # o => \A c \in Currency : ActiveAmount(x, c)' = ActiveAmount(x, c)
    BY <2>1 DEF ActiveAmount, ActiveVersions, Versions
  <2>3. ASSUME o \notin f.news PROVE offer[o].status # "archived" BY <1>0, <1>4, <2>3 DEF Settled
  <2>4. ASSUME o \notin f.news, OnSale(o), NEW c \in Currency PROVE ActiveAmount(o, c)' = ActiveAmount(o, c)
    <3>1. CASE s # "prices"
      <4>1. UNCHANGED price BY <1>6, <3>1 DEF ServiceStep, CreateOffer, UpdateOffer, LinkOffer, PublishAtOnce
      <4> QED BY <4>1 DEF ActiveAmount, ActiveVersions, Versions
    <3>2. CASE s = "prices"
      <4> DEFINE asked == [x \in row.prices |-> Row[o].amount[x]]
      <4>7. Row[o].every \in Interval BY ImportAssumption DEF ImportAssumption
      <4>1. row.activate = FALSE BY <1>0, <1>4, <2>4, <3>2 DEF Settled
      <4>2. PriceSet(o, asked, Row[o].every, FALSE) BY <1>6, <3>2, <4>1 DEF ServiceStep
      <4>3. DOMAIN asked \subseteq Currency /\ \A x \in DOMAIN asked : asked[x] \in Amount
        BY <1>4, ImportAssumption DEF ImportAssumption, Priced
      <4> HIDE DEF asked
      <4>4. PricesSet(o, asked, Row[o].every, FALSE) BY <1>0, <4>2, <4>3, <4>7, PriceSetRead
      <4>5. CASE c \in DOMAIN asked
        <5>1. /\ Actives(price'[o][c]) = Actives(price[o][c])
              /\ \A i \in DOMAIN price[o][c] : i \in DOMAIN price'[o][c] /\ price'[o][c][i] = price[o][c][i]
          BY <4>4, <4>5 DEF PricesSet
        <5>2. ActiveVersions(o, c)' = ActiveVersions(o, c) /\ ActiveVersions(o, c) \subseteq DOMAIN price[o][c]
          BY <5>1 DEF ActiveVersions, Versions, Actives
        <5> QED BY <5>1, <5>2 DEF ActiveAmount
      <4>6. CASE c \notin DOMAIN asked
        <5>1. price'[o][c] = price[o][c] BY <4>4, <4>6 DEF PricesSet
        <5> QED BY <5>1 DEF ActiveAmount, ActiveVersions, Versions
      <4> QED BY <4>5, <4>6
    <3> QED BY <3>1, <3>2
  <2> QED BY <2>1, <2>2, <2>3, <2>4 DEF Stays
<1> QED BY <1>1, <1>3, <1>5, <1>6

LEMMA AllStay == ASSUME ImportInv, [ImportNext]_importVars, NEW r \in Runner PROVE Stays(r)
<1>0. ImportTyped /\ CatalogueInv BY DEF ImportInv
<1>1. CASE UNCHANGED <<product, offer, price>> BY <1>0, <1>1, NothingStays
<1>2. CASE Meanwhile
  <2>1. Heard(r) BY <1>0, <1>2, AllHear DEF Meanwhile
  <2> QED BY <1>0, <1>2, <2>1, HeardStays DEF Meanwhile
<1>3. ASSUME NEW q \in Runner, ExecuteEntity(q) PROVE Stays(r)
  <2>1. CASE q # r
    <3>1. Heard(r)
      <4>1. PICK g : Advance(q, g) BY <1>3 DEF ExecuteEntity
      <4>2. runner'[r] = Noticed(runner)[r] BY <2>1, <4>1 DEF Advance, Noticed
      <4> QED BY <4>2 DEF Noticed, Heard
    <3> QED BY <1>0, <3>1, HeardStays
  <2>2. CASE q = r BY <1>3, <2>2, EntityStays
  <2> QED BY <2>1, <2>2
<1>4. ASSUME NEW q \in Runner, ExecuteStep(q) PROVE Stays(r)
  <2>1. CASE q # r
    <3>1. Heard(r)
      <4>1. PICK g : Advance(q, g) BY <1>4 DEF ExecuteStep
      <4>2. runner'[r] = Noticed(runner)[r] BY <2>1, <4>1 DEF Advance, Noticed
      <4> QED BY <4>2 DEF Noticed, Heard
    <3> QED BY <1>0, <3>1, HeardStays
  <2>2. CASE q = r BY <1>4, <2>2, StepStays
  <2> QED BY <2>1, <2>2
<1> QED
  <2>1. CASE UNCHANGED importVars BY <1>1, <2>1 DEF importVars, catalogueVars
  <2>2. CASE StripeChanges BY <1>1, <2>2 DEF StripeChanges
  <2>3. CASE \E i \in Import : Preview(i) \/ GrowStale(i) BY <1>1, <2>3 DEF Preview, GrowStale, catalogueVars
  <2>4. CASE \E q \in Runner :
               \/ \E i \in Import : ReadImport(q, i)
               \/ Claim(q) \/ CannotPlan(q) \/ Replan(q) \/ BeginExecution(q)
               \/ \E o \in Offer : TakeRow(q, o)
               \/ Finish(q) \/ Die(q)
    BY <1>1, <2>4 DEF ReadImport, Claim, CannotPlan, Replan, BeginExecution, TakeRow, Finish, Die, catalogueVars
  <2> QED BY <1>2, <1>3, <1>4, <2>1, <2>2, <2>3, <2>4 DEF ImportNext

LEMMA ImportHistory == ASSUME ImportInv, [ImportNext]_importVars PROVE History
<1>0. ImportTyped /\ CatalogueInv BY DEF ImportInv
<1>1. CASE UNCHANGED <<product, offer, price>> BY <1>0, <1>1, PricesStand
<1>2. CASE Meanwhile BY <1>0, <1>2, CatalogueKeeps DEF Meanwhile
<1>3. ASSUME NEW q \in Runner, ExecuteEntity(q) PROVE History
  <2>1. UNCHANGED <<clerk, edits, desk>> BY <1>3 DEF ExecuteEntity
  <2>2. Same BY <1>0, <2>1, SameOutside
  <2>3. \/ \E e \in Entity : CreateEntity(e)
        \/ UNCHANGED price
    BY <1>0, <1>3 DEF ExecuteEntity, Soonest, ImportTyped, RunnerRow
  <2> QED BY <1>0, <2>1, <2>2, <2>3, EntityKeeps, PricesStand
<1>4. ASSUME NEW q \in Runner, ExecuteStep(q) PROVE History
  <2>1. UNCHANGED <<clerk, edits, desk>> /\ runner[q].pc = "executing" BY <1>4 DEF ExecuteStep, Executing
  <2>2. Same BY <1>0, <2>1, SameOutside
  <2>3. RunnerFits(runner[q]) /\ runner[q].plan \in FilePlan BY <2>1, Mine
  <2>4. PICK s \in Soonest(runner[q].left) :
          ServiceStep(runner[q].at, s, runner[q].plan.rows[runner[q].at]) \/ UNCHANGED price
    BY <1>4 DEF ExecuteStep
  <2>5. PICK o \in Offer : o = runner[q].at BY <2>3 DEF Soonest, RunnerFits
  <2> DEFINE row == runner[q].plan.rows[o]
  <2>6. row.prices \subseteq Priced(o) /\ row.activate \in BOOLEAN BY <2>3 DEF FilePlan, RowPlan
  <2>7. ServiceStep(o, s, row) \/ UNCHANGED price BY <2>4, <2>5
  <2> HIDE DEF row
  <2> QED BY <1>0, <2>1, <2>2, <2>6, <2>7, ServiceKeeps, PricesStand
<1> QED
  <2>1. CASE UNCHANGED importVars BY <1>1, <2>1 DEF importVars, catalogueVars
  <2>2. CASE StripeChanges BY <1>1, <2>2 DEF StripeChanges
  <2>3. CASE \E i \in Import : Preview(i) \/ GrowStale(i) BY <1>1, <2>3 DEF Preview, GrowStale, catalogueVars
  <2>4. CASE \E q \in Runner :
               \/ \E i \in Import : ReadImport(q, i)
               \/ Claim(q) \/ CannotPlan(q) \/ Replan(q) \/ BeginExecution(q)
               \/ \E o \in Offer : TakeRow(q, o)
               \/ Finish(q) \/ Die(q)
    BY <1>1, <2>4 DEF ReadImport, Claim, CannotPlan, Replan, BeginExecution, TakeRow, Finish, Die, catalogueVars
  <2> QED BY <1>2, <1>3, <1>4, <2>1, <2>2, <2>3, <2>4 DEF ImportNext

\* An import never changes the price of an offer on sale, an offer that is archived or an edition
\* that exists, except what others have changed since its plan was made.
THEOREM ImportsSettle == ImportSpec => SettledStays
<1>1. ImportInv /\ [ImportNext]_importVars => [\A r \in Runner : Stays(r)]_importVars BY AllStay
<1> QED BY <1>1, ImportInvariant, PTL DEF ImportSpec, SettledStays, Stays

\* An import does not rewrite prices either: it adds versions, as a clerk does.
THEOREM ImportsKeepHistory == ImportSpec => PricesAreHistory
<1>1. ImportInv /\ [ImportNext]_importVars => [History]_catalogueVars BY ImportHistory
<1> QED BY <1>1, ImportInvariant, PTL DEF ImportSpec, PricesAreHistory, History
===============================================================================
