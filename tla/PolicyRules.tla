----------------------------- MODULE PolicyRules -----------------------------
(***************************************************************************)
(* What may be sold and what can be signed: the policy engine of           *)
(* src/domain/policy.ts, the rules of the protocol repass-v1 in            *)
(* src/domain/protocols.ts and src/domain/v1-claims.ts, and what goes      *)
(* through them: an offer is created (services/catalogue.ts), granted      *)
(* (services/entitlements.ts), amended, and signed again and again         *)
(* (services/licensing.ts).                                                *)
(*                                                                         *)
(* The rules at creation and at granting read a policy, those at signing   *)
(* read claims; only if the first imply the second can everything that was *)
(* sold be signed.  Problems are sets of the rules that are broken.        *)
(*                                                                         *)
(* Instants are half seconds: claims show whole seconds.  A name is        *)
(* "name" or contains an address ("address").                              *)
(*                                                                         *)
(* A definition marked "Variant" is a faulty form of the one that follows. *)
(***************************************************************************)
EXTENDS Integers, Sequences, FiniteSets

CONSTANTS
    EditionPolicy, \* product_edition_policies
    Component,     \* offer_entitlement_components
    Quantity,      \* quantities bought
    Customer,      \* customers: kind, display and organisation name
    Null,          \* NULL
    MaxInstant,    \* bound: half seconds
    MaxAmendment   \* bound: amendments of a licence

\* The CHECKs of the tables, and what the input schemas allow.
PolicyAssumption ==
    /\ EditionPolicy \subseteq
         [major : {1, 2}, wire : {"community", "business", "other"},
          model : {"none", "device_seats"}, ownership : {"individual", "organisation"},
          certificate : {Null} \cup (Nat \ {0}), offline : {"indefinite", "periodic_check"}]
    /\ \A c \in Component :
         /\ c.term \in {"perpetual", "subscription", "fixed_term"}
         /\ (c.term = "fixed_term") = (c.length # Null)
         /\ c.length \in {Null} \cup (Nat \ {0})
         /\ c.unit \in {Null} \cup (Nat \ {0})
         /\ c.scales \in BOOLEAN
         /\ c.scales => c.unit # Null
         /\ c.grace \in Nat
    /\ Quantity \subseteq Nat \ {0}
    /\ Customer \subseteq [display : {"name", "address"}, organisation : {Null, "name", "address"}]
    /\ Null \notin {"name", "address"}
    /\ MaxInstant \in Nat
    /\ MaxAmendment \in Nat

ASSUME PolicyAssumption

VARIABLES
    sold,       \* the offer, or Null
    licences,   \* a licence for each of its components, with the snapshot of its policy
    answer,     \* what the last operation on licences came to
    instant,
    amendments

policyVars == <<sold, licences, answer, instant, amendments>>

PolicyInit ==
    /\ sold = Null
    /\ licences = <<>>
    /\ answer = "none"
    /\ instant = 0
    /\ amendments = 0

-----------------------------------------------------------------------------
(* The policy engine                                                        *)

\* computeEffectivePolicy()
EffectivePolicy(ep, c, quantity) ==
    LET perUnit == IF c.unit = Null THEN 1 ELSE c.unit IN
    [wire |-> ep.wire, model |-> ep.model, ownership |-> ep.ownership, offline |-> ep.offline,
     certificate |-> ep.certificate, term |-> c.term, length |-> c.length, grace |-> c.grace,
     seats |-> IF ep.model # "device_seats" THEN Null
               ELSE IF c.scales THEN perUnit * quantity ELSE perUnit]

V1Editions == {"community", "business"}

\* Variant: a licence that ends may be of any edition.
ProtocolProblemsAnyTerm(p) ==
    {rule \in {"v1.edition", "v1.business.seats", "v1.device.business_only"} :
       CASE rule = "v1.edition" -> p.wire \notin V1Editions
         [] rule = "v1.business.seats" -> p.wire = "business" /\ p.model # "device_seats"
         [] rule = "v1.device.business_only" -> p.wire # "business" /\ p.model # "none"}

\* repassV1.validatePolicy()
ProtocolProblems(p) ==
    {rule \in {"v1.edition", "v1.perpetual", "v1.business.seats", "v1.device.business_only",
               "v1.certificate", "v1.periodic"} :
       CASE rule = "v1.edition" -> p.wire \notin V1Editions
         [] rule = "v1.perpetual" -> p.term # "perpetual" /\ p.wire # "business"
         [] rule = "v1.business.seats" -> p.wire = "business" /\ p.model # "device_seats"
         [] rule = "v1.device.business_only" -> p.wire # "business" /\ p.model # "none"
         [] rule = "v1.certificate" -> p.certificate # Null /\ p.model # "device_seats"
         [] rule = "v1.periodic" -> p.offline = "periodic_check" /\ p.certificate = Null}

\* validatePolicy()
PolicyProblems(p) ==
    ProtocolProblems(p) \cup
    {rule \in {"seats.required", "seats.forbidden"} :
       CASE rule = "seats.required" -> p.model = "device_seats" /\ (p.seats = Null \/ p.seats < 1)
         [] rule = "seats.forbidden" -> p.model = "none" /\ p.seats # Null}

\* validateOfferShape(), with the policies computed for one unit.
OfferProblems(o) ==
    LET parts == DOMAIN o.parts
        policy(i) == EffectivePolicy(o.parts[i].edition, o.parts[i].component, 1)
        renews == \E i \in parts : policy(i).term = "subscription"
    IN
    UNION {PolicyProblems(policy(i)) : i \in parts} \cup
    {rule \in {"offer.single", "offer.bundle", "offer.bundle.duplicate", "offer.billing.recurring",
               "offer.billing.subscription", "offer.quantity"} :
       CASE rule = "offer.single" -> o.kind = "single" /\ Len(o.parts) > 1
         [] rule = "offer.bundle" -> o.kind = "bundle" /\ Len(o.parts) < 2
         [] rule = "offer.bundle.duplicate" ->
              Cardinality({o.parts[i].edition.major : i \in parts}) # Len(o.parts)
         [] rule = "offer.billing.recurring" -> o.billing = "recurring" /\ ~renews
         [] rule = "offer.billing.subscription" -> o.billing # "recurring" /\ renews
         [] rule = "offer.quantity" ->
              o.maxQuantity > 1 /\ \E i \in parts : ~o.parts[i].component.scales}

\* validatePrice()
PriceProblems(billing, amount, interval) ==
    {rule \in {"price.free", "price.zero", "price.interval"} :
       CASE rule = "price.free" -> billing = "free" /\ amount # 0
         [] rule = "price.zero" -> billing # "free" /\ amount = 0
         [] rule = "price.interval" -> (billing = "recurring") # interval}

-----------------------------------------------------------------------------
(* Claims                                                                   *)

Second(t) == t \div 2

\* What buildLicenseClaimsV1() finds wrong (validateLicenseClaimsV1()) of a licence that
\* is signed now.
ClaimsProblems(l) ==
    LET maxActivations == IF l.policy.model = "device_seats" THEN l.policy.seats ELSE Null IN
    {field \in {"edition", "organisation", "customerName", "expiresAt", "perpetual", "maxActivations"} :
       CASE field = "edition" -> l.policy.wire \notin V1Editions
         [] field = "organisation" -> l.organisation = "address"
         [] field = "customerName" -> l.customer = "address"
         [] field = "expiresAt" -> l.expires # Null /\ Second(l.expires) <= Second(instant)
         [] field = "perpetual" -> l.expires # Null /\ l.policy.wire # "business"
         [] field = "maxActivations" ->
              IF l.policy.wire = "business" THEN maxActivations = Null \/ maxActivations < 1
              ELSE maxActivations # Null}

\* buildActivationClaimsV1(): of a certificate that is signed now, as signed claims show it.
CertificateClaims(l) ==
    [issuedAt |-> Second(instant),
     expiresAt |-> IF l.policy.certificate = Null THEN Null
                   ELSE Second(instant) + l.policy.certificate]

\* validateActivationClaimsV1()
CertificateProblems(claims) ==
    {field \in {"expiresAt"} : claims.expiresAt # Null /\ claims.expiresAt <= claims.issuedAt}

\* Variant: what ends within the second is signed.
EndsNowExactly(l) == l.expires # Null /\ l.expires <= instant

\* signLicense(): one that ends within a second is refused.
EndsNow(l) == l.expires # Null /\ l.expires <= instant + 2

\* What comes of signing all of some licences in one transaction.
Signed(ls) ==
    CASE \E i \in DOMAIN ls : EndsNow(ls[i]) -> "expired"
      [] \E i \in DOMAIN ls : ~EndsNow(ls[i]) /\ ClaimsProblems(ls[i]) # {} -> "broken"
      [] OTHER -> "signed"

-----------------------------------------------------------------------------
(* Operations                                                               *)

\* createOffer() and createPriceVersion(): an offer with problems is not created.
SellOffer(o, amount, interval) ==
    /\ sold = Null
    /\ OfferProblems(o) = {}
    /\ PriceProblems(o.billing, amount, interval) = {}
    /\ sold' = o
    /\ UNCHANGED <<licences, answer, instant, amendments>>

\* loadPolicyRows() without a component: what an edition itself is validated with.
Probe(ep) ==
    [term |-> "perpetual", length |-> Null, scales |-> FALSE, grace |-> 0,
     unit |-> IF ep.model = "device_seats" THEN 1 ELSE Null]

\* upsertEditionPolicy(): the edition of a part on sale changes, unless the offer would
\* become invalid by it.  Licences keep the snapshot they were granted under.
ChangeEdition(i, ep) ==
    /\ sold # Null
    /\ i \in DOMAIN sold.parts
    /\ ep.major = sold.parts[i].edition.major
    /\ ep.wire = sold.parts[i].edition.wire
    /\ PolicyProblems(EffectivePolicy(ep, Probe(ep), 1)) = {}
    /\ PolicyProblems(EffectivePolicy(ep, sold.parts[i].component, 1)) = {}
    /\ sold' = [sold EXCEPT !.parts[i].edition = ep]
    /\ UNCHANGED <<licences, answer, instant, amendments>>

\* Variant: a name is printed as it is.
CleanNothing(name) == name

\* ownerNames(): an address is not printed.
Clean(name) == IF name = "address" THEN Null ELSE name

\* computeExpiry()
Expiry(p, periodEnd) ==
    CASE p.term = "perpetual" -> Null
      [] p.term = "fixed_term" -> instant + p.length
      [] p.term = "subscription" -> periodEnd + p.grace

\* createEntitlement()
Entitlement(p, customer, periodEnd) ==
    LET individual == p.ownership = "individual"
        owner == IF customer.organisation = Null THEN customer.display ELSE customer.organisation
    IN
    [policy |-> p, expires |-> Expiry(p, periodEnd),
     customer |-> IF individual THEN Clean(customer.display) ELSE Null,
     organisation |-> IF individual THEN Null ELSE Clean(owner)]

\* grantEntitlements(): a subscription is given an end, which must be to come.  All
\* licences are signed, or none is created.
Grant(quantity, customer, end) ==
    LET policy(i) == EffectivePolicy(sold.parts[i].edition, sold.parts[i].component, quantity)
        created == [i \in DOMAIN sold.parts |-> Entitlement(policy(i), customer, end)]
    IN
    /\ sold # Null
    /\ licences = <<>>
    /\ quantity <= sold.maxQuantity
    /\ \A i \in DOMAIN sold.parts :
         /\ PolicyProblems(policy(i)) = {}
         /\ policy(i).term = "subscription" => end # Null
    /\ end # Null => end > instant
    /\ answer' = Signed(created)
    /\ licences' = IF answer' = "signed" THEN created ELSE <<>>
    /\ UNCHANGED <<sold, instant, amendments>>

\* amendEntitlement(): seats of a licence with seats, the end of one that ends.
AmendLicence(i, seats, end) ==
    LET l == licences[i] IN
    /\ i \in DOMAIN licences
    /\ amendments < MaxAmendment
    /\ seats # Null => l.policy.model = "device_seats"
    /\ end # Null => l.expires # Null
    /\ licences' = [licences EXCEPT
         ![i].policy.seats = IF seats = Null THEN @ ELSE seats,
         ![i].expires = IF end = Null THEN @ ELSE end]
    /\ amendments' = amendments + 1
    /\ UNCHANGED <<sold, answer, instant>>

\* reissueLicense(): names with an address are refused, the others signed at once.
ReissueLicence(i, customer, organisation) ==
    LET renamed == [licences[i] EXCEPT !.customer = customer, !.organisation = organisation] IN
    /\ i \in DOMAIN licences
    /\ "address" \notin {customer, organisation}
    /\ answer' = Signed(<<renamed>>)
    /\ licences' = IF answer' = "signed" THEN [licences EXCEPT ![i] = renamed] ELSE licences
    /\ UNCHANGED <<sold, instant, amendments>>

\* signLicense() and signActivationCertificate(), in a renewal or an activation.
SignAgain(i) ==
    /\ i \in DOMAIN licences
    /\ answer' = IF /\ Signed(<<licences[i]>>) = "signed"
                    /\ licences[i].policy.model = "device_seats"
                    /\ CertificateProblems(CertificateClaims(licences[i])) # {}
                 THEN "broken" ELSE Signed(<<licences[i]>>)
    /\ UNCHANGED <<sold, licences, instant, amendments>>

TimePasses ==
    /\ licences # <<>> \/ sold # Null
    /\ instant < MaxInstant
    /\ instant' = instant + 1
    /\ UNCHANGED <<sold, licences, answer, amendments>>

Part == [edition : EditionPolicy, component : Component]
OfferShape == [kind : {"single", "bundle"}, billing : {"one_time", "recurring", "free"},
               maxQuantity : Quantity, parts : UNION {[1..n -> Part] : n \in 1..2}]

PolicyNext ==
    \/ sold = Null /\ \E o \in OfferShape, amount \in {0, 1}, interval \in BOOLEAN :
                        SellOffer(o, amount, interval)
    \/ \E quantity \in Quantity, customer \in Customer, end \in {Null} \cup 0..MaxInstant :
         Grant(quantity, customer, end)
    \/ \E i \in 1..2 :
         \/ \E seats \in {Null} \cup Quantity, end \in {Null} \cup 0..MaxInstant :
              AmendLicence(i, seats, end)
         \/ \E customer, organisation \in {Null, "name", "address"} :
              ReissueLicence(i, customer, organisation)
         \/ SignAgain(i)
         \/ \E ep \in EditionPolicy : ChangeEdition(i, ep)
    \/ TimePasses

PolicySpec == PolicyInit /\ [][PolicyNext]_policyVars

-----------------------------------------------------------------------------
(* Properties                                                               *)

PolicyTypeOK ==
    /\ sold = Null \/ sold \in OfferShape
    /\ Len(licences) <= 2
    /\ answer \in {"none", "signed", "expired", "broken"}
    /\ instant \in 0..MaxInstant
    /\ amendments \in 0..MaxAmendment

\* Whatever can be put on sale, granted and amended can be signed, to the second it ends:
\* the checks of policies leave nothing for the check of claims to find, which would leave
\* a buyer with an internal error.
SignedOrRefused == answer # "broken"
=============================================================================
