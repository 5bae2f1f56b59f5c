--------------------------- MODULE ServicesProofs ---------------------------
(***************************************************************************)
(* The theorems of the components, for all the services around licences    *)
(* together: in a behaviour of ServicesSpec each of them behaves as its    *)
(* own specification says, and what that promises holds of the whole.      *)
(***************************************************************************)
EXTENDS MCServices, AccessProofs, StoreProofs, CatalogueProofs

-----------------------------------------------------------------------------
(* The components                                                           *)

LEMMA MailServed == ServicesSpec => EmailSpec
<1>1. ServicesInit => EmailInit BY DEF ServicesInit
<1>2. [ServicesNext]_servicesVars => [EmailNext]_emailVars BY DEF ServicesNext, servicesVars
<1> QED BY <1>1, <1>2, PTL DEF ServicesSpec, EmailSpec

LEMMA AdministratorsServed == ServicesSpec => AdminSpec
<1>1. ServicesInit => AdminInit BY DEF ServicesInit
<1>2. [ServicesNext]_servicesVars => [AdminNext]_adminVars BY DEF ServicesNext, servicesVars
<1> QED BY <1>1, <1>2, PTL DEF ServicesSpec, AdminSpec

LEMMA GuardsServed == ServicesSpec => GuardSpec
<1>1. ServicesInit => GuardInit BY DEF ServicesInit
<1>2. [ServicesNext]_servicesVars => [GuardNext]_guardVars BY DEF ServicesNext, servicesVars
<1> QED BY <1>1, <1>2, PTL DEF ServicesSpec, GuardSpec

LEMMA ImportsServed == ServicesSpec => ImportSpec
<1>1. ServicesInit => ImportInit BY DEF ServicesInit
<1>2. [ServicesNext]_servicesVars => [ImportNext]_importVars BY DEF ServicesNext, servicesVars
<1> QED BY <1>1, <1>2, PTL DEF ServicesSpec, ImportSpec

LEMMA CheckoutsServed == ServicesSpec => CheckoutSpec
<1>1. ServicesInit => CheckoutInit BY DEF ServicesInit
<1>2. [ServicesNext]_servicesVars => [CheckoutNext]_checkoutVars BY DEF ServicesNext, servicesVars
<1> QED BY <1>1, <1>2, PTL DEF ServicesSpec, CheckoutSpec

LEMMA CustomersServed == ServicesSpec => CustomersSpec
<1>1. ServicesInit => CustomersInit BY DEF ServicesInit
<1>2. [ServicesNext]_servicesVars => [CustomersNext]_customersVars BY DEF ServicesNext, servicesVars
<1> QED BY <1>1, <1>2, PTL DEF ServicesSpec, CustomersSpec

LEMMA ReversalsServed == ServicesSpec => ReversalSpec
<1>1. ServicesInit => ReversalInit BY DEF ServicesInit
<1>2. [ServicesNext]_servicesVars => [ReversalNext]_reversalVars BY DEF ServicesNext, servicesVars
<1> QED BY <1>1, <1>2, PTL DEF ServicesSpec, ReversalSpec

-----------------------------------------------------------------------------
(* The theorems                                                             *)

\* The rows, requests, plans and visits of every service keep their types.
THEOREM ServicesTyping == ServicesSpec => []ServicesTypeOK
<1>1. EmailTypeOK /\ AdminTypeOK /\ GuardTypeOK /\ CatalogueTypeOK /\ ImportTypeOK /\ CheckoutTypeOK
        /\ CustomersTypeOK /\ ReversalTypeOK => ServicesTypeOK
  BY DEF ServicesTypeOK
<1> QED BY <1>1, MailServed, AdministratorsServed, GuardsServed, ImportsServed, CheckoutsServed, CustomersServed,
           ReversalsServed, MailTyping, AdminTyping, GuardTyping, ImportTyping, CheckoutTyping, CustomersTyping,
           ReversalTyping, PTL

\* What was taken away is gone: sessions and tokens with what they rest on, whichever of
\* setAdminStatus(), resetTotp(), rotateApiToken() and a sign-in came first; and the licences
\* of a refunded payment, which are revoked for that or for a dispute and never for less.
THEOREM RightsEnding == ServicesSpec => []RightsEnd
<1>1. AccessEnds /\ RefundTakesEffect /\ RevokedForCause => RightsEnd BY DEF RightsEnd
<1> QED BY <1>1, AdministratorsServed, ReversalsServed, AccessEnding, RefundsTakeEffect, RevocationsHaveCause, PTL

\* What a mail, an import or a checkout has come to is not taken back, nor is a price that
\* something was sold at: reports, retries, imports and late requests find it settled.
THEOREM OutcomesAreKept == ServicesSpec => OutcomesStay
  BY MailServed, ImportsServed, CheckoutsServed, OutcomesRemain, ImportsSettle, ImportsKeepHistory,
     CheckoutsReachedStay, PTL DEF OutcomesStay

\* One customer for each address, whom his licences reach and who does not pay for one twice,
\* always with an owner, and with details that strangers do not change: whichever of orders,
\* support and the portal resolves, edits or leaves him.
THEOREM BuyersAreKept == ServicesSpec => BuyersKept
<1>1. OneCustomer /\ OwnerStays /\ BuyerReaches /\ BoughtOnce
        => (service = "customers" => OneCustomer /\ BuyerReaches /\ OwnerStays /\ BoughtOnce)
  OBVIOUS
<1> QED BY <1>1, CustomersServed, AddressIsCustomer, BuyersReach, LicenceBoughtOnce, FormsFillOnly, PTL DEF BuyersKept
=============================================================================
