------------------------------ MODULE Customers ------------------------------
(***************************************************************************)
(* Customers and their members: src/services/customers.ts, with what the   *)
(* store asks of a customer before it sells (src/services/checkout.ts) and *)
(* how the portal admits its requests (src/http/portal-ui.tsx).            *)
(*                                                                         *)
(* Orders for one licence (a product major and an edition) meet support,   *)
(* which edits customers, and the requests of members in the portal.  Each *)
(* transaction is a step of its own, and that of an order is two, because  *)
(* it may have to wait for a row; what an order or a request has read may  *)
(* have changed by its next step.  A portal user is named by his address.  *)
(*                                                                         *)
(* What becomes of an order at Stripe is in Checkout and StripeBilling;    *)
(* here it may be granted once it is taken.                                *)
(*                                                                         *)
(* A definition marked "Variant" is a faulty form of the one that follows. *)
(***************************************************************************)
EXTENDS Integers, FiniteSets

CONSTANTS
    Person,     \* addresses
    Account,    \* customers
    Purchase,   \* orders at the store
    Visitor,    \* requests in the portal
    MaxSupport, \* bound: what support does
    CustomerScenario \* bound: what changes in one behaviour: sets of "details", "status",
                \* "addresses", "members"

ASSUME CustomersAssumption == MaxSupport \in Nat

VARIABLES
    account,    \* customers
    member,     \* customer_members: a role, or "none"
    shopping,   \* where each order stands
    licensed,   \* orders whose licence the customer has
    visitor,    \* portal requests: the customer each was admitted to
    moved,      \* history: customers whose billing address support has changed
    support,    \* what support has done
    changing    \* what changes in this behaviour

customersVars == <<account, member, shopping, licensed, visitor, moved, support, changing>>

-----------------------------------------------------------------------------
(* Rows and requests                                                        *)

NoOne == "none"

\* What is recorded of a customer: the name of the organisation, with its country (nothing:
\* an individual), and the tax identifier.  A value is whoever wrote it.
Detail == {"organisation", "taxId"}
Forms == {{}, {"organisation"}, Detail}
Source == {NoOne, "support"} \cup Purchase

Role == {NoOne, "owner", "admin", "member"}
Managing == {"owner", "admin"}

AccountRow == [status : {"none", "active", "disabled"}, email : Person \cup {NoOne},
               details : [Detail -> Source]]

Blank == [status |-> "none", email |-> NoOne, details |-> [d \in Detail |-> NoOne]]

\* gives: what the form says of the buyer; before: the licences there were when it was sent.
Shopping == [pc : {"new", "finding", "inserting", "finding again", "filling", "asking", "screening",
                   "taking", "taken", "refused"},
             email : Person \cup {NoOne}, gives : SUBSET Detail, at : Account \cup {NoOne},
             before : SUBSET Purchase]

Empty(pc) == [pc |-> pc, email |-> NoOne, gives |-> {}, at |-> NoOne, before |-> {}]

CustomersTypeOK ==
    /\ account \in [Account -> AccountRow]
    /\ member \in [Account -> [Person -> Role]]
    /\ shopping \in [Purchase -> Shopping]
    /\ licensed \in [Account -> SUBSET Purchase]
    /\ visitor \in [Visitor -> Account \cup {NoOne}]
    /\ moved \subseteq Account
    /\ support \in 0..MaxSupport
    /\ changing \in CustomerScenario

CustomersInit ==
    /\ account = [a \in Account |-> Blank]
    /\ member = [a \in Account |-> [u \in Person |-> NoOne]]
    /\ shopping = [p \in Purchase |-> Empty("new")]
    /\ licensed = [a \in Account |-> {}]
    /\ visitor = [v \in Visitor |-> NoOne]
    /\ moved = {}
    /\ support = 0
    /\ changing \in CustomerScenario

Exists(a) == account[a].status # "none"

\* customers_billing_email is unique.
With(email) == {a \in Account : Exists(a) /\ account[a].email = email}

\* An order in its transaction has locked the row it found.
Locked(a) == \E p \in Purchase : shopping[p].pc = "filling" /\ shopping[p].at = a

Stage(p, pc) == shopping[p].pc = pc
Turns(p, pc) ==
    shopping' = [shopping EXCEPT ![p] = IF pc = "refused" THEN Empty(pc) ELSE [@ EXCEPT !.pc = pc]]

\* A new customer, whose billing contact becomes the owning portal user.
Insert(a, email, details) ==
    /\ ~Exists(a)
    /\ account' = [account EXCEPT ![a] = [status |-> "active", email |-> email, details |-> details]]
    /\ member' = [member EXCEPT ![a][email] = "owner"]

-----------------------------------------------------------------------------
(* createCheckout() and resolveStoreCustomer()                              *)

\* Who buys as an organisation says so, with a tax identifier or without.
OrderLicence(p, email, gives) ==
    /\ Stage(p, "new")
    /\ shopping' = [shopping EXCEPT ![p] = [@ EXCEPT !.pc = "finding", !.email = email,
         !.gives = gives, !.before = UNION {licensed[a] : a \in Account}]]
    /\ UNCHANGED <<account, member, licensed, visitor, moved, support>>

\* FOR UPDATE: the customer with the address, once nobody else holds its row.
Find(p) ==
    LET found == With(shopping[p].email) IN
    /\ Stage(p, "finding") \/ Stage(p, "finding again")
    /\ \A a \in found : ~Locked(a)
    /\ \/ \E a \in found :
            IF account[a].status = "active"
            THEN shopping' = [shopping EXCEPT ![p].at = a, ![p].pc = "filling"]
            ELSE Turns(p, "refused")
       \/ found = {} /\ Turns(p, IF Stage(p, "finding") THEN "inserting" ELSE "refused")
    /\ UNCHANGED <<account, member, licensed, visitor, moved, support>>

\* Variant: nobody else has inserted one.
InsertBuyerAnyway(p) ==
    LET s == shopping[p]
        form == [d \in Detail |-> IF d \in s.gives THEN p ELSE NoOne]
    IN
    /\ Stage(p, "inserting")
    /\ \E a \in Account :
         Insert(a, s.email, form) /\ shopping' = [shopping EXCEPT ![p].at = a, ![p].pc = "asking"]
    /\ UNCHANGED <<licensed, visitor, moved, support>>

\* ON CONFLICT (billing_email) DO NOTHING: another order may have been quicker.
InsertBuyer(p) ==
    LET s == shopping[p]
        form == [d \in Detail |-> IF d \in s.gives THEN p ELSE NoOne]
    IN
    /\ Stage(p, "inserting")
    /\ \/ /\ With(s.email) = {}
          /\ \E a \in Account :
               Insert(a, s.email, form) /\ shopping' = [shopping EXCEPT ![p].at = a, ![p].pc = "asking"]
       \/ With(s.email) # {} /\ Turns(p, "finding again") /\ UNCHANGED <<account, member>>
    /\ UNCHANGED <<licensed, visitor, moved, support>>

\* Variant: the newest form is right.
FillOver(p) ==
    LET s == shopping[p] IN
    /\ Stage(p, "filling")
    /\ account' = [account EXCEPT ![s.at].details =
         [d \in Detail |-> IF d \in s.gives THEN p ELSE @[d]]]
    /\ Turns(p, "asking")
    /\ UNCHANGED <<member, licensed, visitor, moved, support>>

\* coalesce(): the form of an organisation fills what is empty.
Fill(p) ==
    LET s == shopping[p] IN
    /\ Stage(p, "filling")
    /\ account' = [account EXCEPT ![s.at].details =
         [d \in Detail |-> IF @[d] = NoOne /\ d \in s.gives THEN p ELSE @[d]]]
    /\ Turns(p, "asking")
    /\ UNCHANGED <<member, licensed, visitor, moved, support>>

\* After the commit the customer is read again: status, and whether the offer is for such.
Ask(p) ==
    /\ Stage(p, "asking")
    /\ Turns(p, IF account[shopping[p].at].status = "active" THEN "screening" ELSE "refused")
    /\ UNCHANGED <<account, member, licensed, visitor, moved, support>>

\* Variant: asked of the address, not of the customer it belongs to.
ScreenAddress(p) ==
    /\ Stage(p, "screening")
    /\ Turns(p, IF \E o \in licensed[shopping[p].at] : shopping[o].email = shopping[p].email
                THEN "refused" ELSE "taking")
    /\ UNCHANGED <<account, member, licensed, visitor, moved, support>>

\* Already owned?
ScreenBuyer(p) ==
    /\ Stage(p, "screening")
    /\ Turns(p, IF licensed[shopping[p].at] = {} THEN "taking" ELSE "refused")
    /\ UNCHANGED <<account, member, licensed, visitor, moved, support>>

\* The checkout is inserted, with its customer.
Take(p) ==
    /\ Stage(p, "taking")
    /\ Turns(p, "taken")
    /\ UNCHANGED <<account, member, licensed, visitor, moved, support>>

\* The order is turned away for another reason, or cut short.
GiveUp(p) ==
    /\ shopping[p].pc \notin {"new", "taken", "refused"}
    /\ Turns(p, "refused")
    /\ UNCHANGED <<account, member, licensed, visitor, moved, support>>

\* The payment arrives: a licence for the checkout's customer.
Deliver(p) ==
    /\ Stage(p, "taken")
    /\ licensed' = [licensed EXCEPT ![shopping[p].at] = @ \cup {p}]
    /\ UNCHANGED <<account, member, shopping, visitor, moved, support, changing>>

-----------------------------------------------------------------------------
(* Support                                                                  *)

Supports == support < MaxSupport /\ support' = support + 1

CreateAccount(a, email, given) ==
    /\ Supports
    /\ With(email) = {}
    /\ Insert(a, email, [d \in Detail |-> IF d \in given THEN "support" ELSE NoOne])
    /\ UNCHANGED <<shopping, licensed, visitor, moved>>

\* updateCustomer(): details that are given are replaced or emptied;
\* whatever the address, the members stay who they are.
UpdateAccount(a, email, status, given) ==
    /\ Supports
    /\ Exists(a) /\ ~Locked(a)
    /\ With(email) \subseteq {a}
    /\ \E w \in {NoOne, "support"} :
         account' = [account EXCEPT ![a] = [email |-> email, status |-> status,
           details |-> [d \in Detail |-> IF d \in given THEN w ELSE account[a].details[d]]]]
    /\ moved' = IF email # account[a].email THEN moved \cup {a} ELSE moved
    /\ UNCHANGED <<member, shopping, licensed, visitor>>

-----------------------------------------------------------------------------
(* Members                                                                  *)

\* customerAccess(): a manager of the customer, whatever the customer's status.
Admit(v, u, a) ==
    /\ visitor[v] = NoOne
    /\ member[a][u] \in Managing
    /\ visitor' = [visitor EXCEPT ![v] = a]
    /\ UNCHANGED <<account, member, shopping, licensed, moved, support>>

\* Variant: the role of who is a member already is updated.
JoinsOrChanges(a, u, role) ==
    /\ role \in Role \ {NoOne, "owner"}
    /\ member' = IF Exists(a) THEN [member EXCEPT ![a][u] = role] ELSE member

\* addMember(): ON CONFLICT DO NOTHING; nobody is made an owner.
Joins(a, u, role) ==
    /\ role \in Role \ {NoOne, "owner"}
    /\ member' = IF Exists(a) /\ member[a][u] = NoOne THEN [member EXCEPT ![a][u] = role] ELSE member

\* removeMember(): the owners' rows are locked; the last owner stays.
Parts(a, u) ==
    LET owners == {o \in Person : member[a][o] = "owner"} IN
    member' = IF owners = {u} THEN member ELSE [member EXCEPT ![a][u] = NoOne]

\* The transaction that a request in the portal was admitted to.
Act(v) ==
    /\ visitor[v] # NoOne
    /\ \E u \in Person :
         Parts(visitor[v], u) \/ \E role \in Role : Joins(visitor[v], u, role)
    /\ visitor' = [visitor EXCEPT ![v] = NoOne]
    /\ UNCHANGED <<account, shopping, licensed, moved, support>>

\* An administrator with customers:write is asked for no membership.
EditMembers(a) ==
    /\ Supports
    /\ \E u \in Person : Parts(a, u) \/ \E role \in Role : Joins(a, u, role)
    /\ UNCHANGED <<account, shopping, licensed, visitor, moved>>

-----------------------------------------------------------------------------
CustomersNext ==
    /\ \/ \E p \in Purchase :
            \/ \E email \in Person, gives \in Forms :
                 /\ gives # {} => "details" \in changing
                 /\ OrderLicence(p, email, gives)
            \/ Find(p) \/ InsertBuyer(p) \/ Fill(p) \/ Ask(p) \/ ScreenBuyer(p) \/ Take(p)
            \/ GiveUp(p) \/ Deliver(p)
       \/ \E a \in Account, email \in Person, given \in Forms :
            /\ given # {} => "details" \in changing
            /\ \/ CreateAccount(a, email, given)
               \/ \E status \in {"active", "disabled"} :
                    /\ email # account[a].email => "addresses" \in changing
                    /\ status # account[a].status => "status" \in changing
                    /\ UpdateAccount(a, email, status, given)
       \/ /\ "members" \in changing
          /\ \/ \E v \in Visitor, u \in Person, a \in Account : Admit(v, u, a)
             \/ \E v \in Visitor : Act(v)
             \/ \E a \in Account : EditMembers(a)
    /\ UNCHANGED changing

CustomersSpec == CustomersInit /\ [][CustomersNext]_customersVars

-----------------------------------------------------------------------------
(* Properties                                                               *)

\* One address is one customer, whoever makes him: orders that race one another, support
\* that creates one or gives one another's address.
OneCustomer == \A email \in Person : Cardinality(With(email)) <= 1

\* What somebody bought he finds in the portal: the customer of his order is his own, as
\* the owner, whatever was edited or whoever parted since; unless support has given that
\* customer another address.
BuyerReaches ==
    \A p \in Purchase : Stage(p, "taken") =>
      \/ member[shopping[p].at][shopping[p].email] = "owner"
      \/ shopping[p].at \in moved

\* A customer never is without an owner.
OwnerStays ==
    \A a \in Account : Exists(a) => \E u \in Person : member[a][u] = "owner"

\* Who has the licence cannot buy it again: a customer has it twice only by orders that
\* overlapped, both sent before the licence of either was there.
BoughtOnce ==
    \A a \in Account : \A p \in licensed[a] : licensed[a] \cap shopping[p].before = {}

\* A form in the store, which anybody can send, only fills what is empty: what is recorded
\* of a customer changes by support alone.
FormsOnlyFill ==
    [][ \A a \in Account, d \in Detail :
          LET was == account[a].details[d]
              is == account'[a].details[d]
          IN  was # NoOne /\ is # was => is \in {NoOne, "support"} ]_customersVars
=============================================================================
