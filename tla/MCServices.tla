----------------------------- MODULE MCServices -----------------------------
(***************************************************************************)
(* Instances of the services around licences: mail, administrators, what   *)
(* guards the requests of tokens, the catalogue with its imports,          *)
(* checkouts, customers, and the reversal of payments.  They share no      *)
(* state that matters to one another, so that in each behaviour one of     *)
(* them moves.                                                             *)
(* Sets whose members are interchangeable are made of the same model       *)
(* values: one symmetry does for all.                                      *)
(***************************************************************************)
EXTENDS EmailOutbox, Administrators, RequestGuards, CatalogueImport, Checkout,
    Customers, Reversals, TLC

CONSTANTS one, two, aud

VARIABLE service

servicesVars == <<service, emailVars, adminVars, guardVars, importVars, checkoutVars,
                  customersVars, reversalVars>>

\* Bound, of the prices that offers are prepared with: an import may meet another amount or
\* another interval than those of the price list; to transactions they are all the same.
Met(version) ==
    /\ version.amount = 1 \/ version.every = "month"
    /\ "transactions" \in desk => version.amount = 1 /\ version.every = "month"

ServicesInit ==
    /\ service \in {"mail", "administrators", "guards", "catalogue", "checkout", "customers",
                    "reversals"}
    /\ EmailInit /\ AdminInit /\ GuardInit
    /\ ImportInit /\ CheckoutInit /\ CustomersInit /\ ReversalInit
    /\ (service = "administrators") = (offered # {"login"})
    /\ (service = "catalogue") = (desk # {"new"})
    /\ \A o \in Offer, c \in Currency : \A n \in Versions(o, c) : Met(price[o][c][n])
    /\ (service = "customers") = (changing # {})
    /\ service # "reversals" => ~renewal /\ \A l \in Licence : policy[l].dispute = "none"

ServicesNext ==
    /\ service' = service
    /\ \/ /\ service = "mail" /\ EmailNext
          /\ UNCHANGED <<adminVars, guardVars, importVars, checkoutVars, customersVars, reversalVars>>
       \/ /\ service = "administrators" /\ AdminNext
          /\ UNCHANGED <<emailVars, guardVars, importVars, checkoutVars, customersVars, reversalVars>>
       \/ /\ service = "guards" /\ GuardNext
          /\ UNCHANGED <<emailVars, adminVars, importVars, checkoutVars, customersVars, reversalVars>>
       \/ /\ service = "catalogue" /\ ImportNext
          /\ UNCHANGED <<emailVars, adminVars, guardVars, checkoutVars, customersVars, reversalVars>>
       \/ /\ service = "checkout" /\ CheckoutNext
          /\ UNCHANGED <<emailVars, adminVars, guardVars, importVars, customersVars, reversalVars>>
       \/ /\ service = "customers" /\ CustomersNext
          /\ UNCHANGED <<emailVars, adminVars, guardVars, importVars, checkoutVars, reversalVars>>
       \/ /\ service = "reversals" /\ ReversalNext
          /\ UNCHANGED <<emailVars, adminVars, guardVars, importVars, checkoutVars, customersVars>>

ServicesSpec == ServicesInit /\ [][ServicesNext]_servicesVars

\* The types of the rows and requests of the service that moves.
ServicesTypeOK ==
    /\ service = "mail" => EmailTypeOK
    /\ service = "administrators" => AdminTypeOK
    /\ service = "guards" => GuardTypeOK
    /\ service = "catalogue" => CatalogueTypeOK /\ ImportTypeOK
    /\ service = "checkout" => CheckoutTypeOK
    /\ service = "customers" => CustomersTypeOK
    /\ service = "reversals" => ReversalTypeOK

\* What was taken away is gone: the access of administrators, sessions and tokens, and the
\* licences of a payment that was reversed, which are not taken away for less.
RightsEnd == AccessEnds /\ RefundTakesEffect /\ RevokedForCause

\* One customer for each address, whom his licences reach and who does not pay for one
\* twice, always with an owner, and with details that strangers do not change.
BuyersKept ==
    /\ [](service = "customers" => OneCustomer /\ BuyerReaches /\ OwnerStays /\ BoughtOnce)
    /\ FormsOnlyFill

\* What a mail, an import or a checkout has come to is not taken back, nor is a price that
\* something was sold at.
OutcomesStay == OutcomeStays /\ SettledStays /\ ReachedStays /\ PricesAreHistory

-----------------------------------------------------------------------------
(* Values of the constants                                                  *)

\* Role changes and disablements that overlap; removed second factors; tokens created,
\* rotated and revoked while their owners are disabled.
AdminOperations == {{"login"},
    {"roles", "status"}, {"login", "verify", "status"}, {"login", "enrol", "verify", "reset"},
    {"status", "token", "rotate"}, {"token", "rotate", "revoke", "logout"}}

CatalogueOperations == {{"new"}, {"offers", "prices", "transactions"},
    {"entities", "offers", "transactions"}, {"imports", "offers", "prices", "stripe"},
    {"imports", "entities", "new"}, {"imports", "new", "deaths"}, {"imports", "two imports"}}

\* What support and the portal change in one behaviour.
CustomerChanges == {{}, {"details"}, {"status", "addresses", "members"}}

\* What the components of an offer ask for when their payment is reversed.
Measures == {[refund |-> "revoke", dispute |-> "revoke"], [refund |-> "revoke", dispute |-> "review"],
             [refund |-> "review", dispute |-> "none"]}

PriceList == [o \in Offer |-> [amount |-> [c \in {aud} |-> 1], every |-> "month", activate |-> TRUE]]

\* A price that is to come and will end, and one from now on for another interval.
NewPrices ==
    {[amount |-> 2, every |-> "month", begun |-> FALSE, until |-> "ahead"],
     [amount |-> 1, every |-> "year", begun |-> TRUE, until |-> "never"]}

Symmetry == Permutations({one, two})
=============================================================================
