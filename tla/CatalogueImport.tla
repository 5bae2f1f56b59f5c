--------------------------- MODULE CatalogueImport ---------------------------
(***************************************************************************)
(* The import of a price list, src/services/catalogue-import.ts: a file is *)
(* uploaded and previewed, the preview is confirmed, the plan is made once *)
(* more and compared with the one that was shown, and its steps are taken  *)
(* through the services of the catalogue (module Catalogue), while         *)
(* administrators go on changing the catalogue.                            *)
(*                                                                         *)
(* One file is imported, maybe several times: a row for each offer, all of *)
(* one product, major and edition, whose columns suffice to create what is *)
(* missing.  Parsing and the errors it finds are left out: rows with such  *)
(* errors take no part in what follows.  A plan is made in one step.       *)
(*                                                                         *)
(* A definition marked "Variant" is a faulty form of the one that follows. *)
(***************************************************************************)
EXTENDS Catalogue

CONSTANTS
    Import,    \* catalogue_imports
    Runner,    \* invocations of applyImport()
    Row,       \* the file: of each offer its amounts, for which interval, and whether it is
               \* to be activated
    MaxDeath,  \* bound: invocations that are cut short
    MaxMeanwhile \* bound: changes by others while imports are looked at

ASSUME ImportAssumption ==
    /\ \A o \in Offer :
         /\ DOMAIN Row[o].amount \subseteq Currency
         /\ \A c \in DOMAIN Row[o].amount : Row[o].amount[c] \in Amount
         /\ Row[o].every \in Interval
         /\ Row[o].activate \in BOOLEAN
    /\ MaxDeath \in Nat
    /\ MaxMeanwhile \in 0..MaxEdit

VARIABLES
    record,  \* catalogue_imports
    runner,  \* where each invocation stands
    agrees,  \* what Stripe has does not contradict the file
    taken,   \* imports that were taken over from an invocation still at it (history)
    deaths

importVars == <<catalogueVars, record, runner, agrees, taken, deaths>>

-----------------------------------------------------------------------------
(* Planning                                                                 *)

EntityPlan == [e \in Entity |->
    CASE product[e] = "none" -> "create"
      [] product[e] = "retired" -> "error"
      [] OTHER -> "unchanged"]

Priced(o) == DOMAIN Row[o].amount
OnSale(o) == offer[o].status = "active"

IsFor(version, o, a) == version.amount = a /\ version.every = Row[o].every
SellsFor(o, c, a) == \E n \in ActiveVersions(o, c) : IsFor(price[o][c][n], o, a)
Drafts(o, c, a) ==
    \E n \in Versions(o, c) : price[o][c][n].status = "draft" /\ IsFor(price[o][c][n], o, a)

\* An offer that is priced for another interval is not imported.
OtherInterval(o) ==
    \E c \in Currency : \E n \in ActiveVersions(o, c) : price[o][c][n].every # Row[o].every

\* Variant: a draft that waits already is not looked for.
PriceChangesAgain(o) == {c \in Priced(o) : ~SellsFor(o, c, Row[o].amount[c])}

\* priceChanges(): of an offer on sale, not those that wait as drafts already.
PriceChanges(o) ==
    {c \in Priced(o) :
       /\ ~OtherInterval(o)
       /\ ~SellsFor(o, c, Row[o].amount[c])
       /\ OnSale(o) => ~Drafts(o, c, Row[o].amount[c])}

\* Currencies in which the offer has no price, nor is given one by the file.  A price that is
\* active counts, in force or not: the offer may then be refused when it is to be activated.
Unpriced(o) ==
    {c \in Currency : ActiveVersions(o, c) = {} /\ (OnSale(o) \/ c \notin Priced(o))}

ToActivate(o) == Row[o].activate /\ ~OnSale(o)

\* reconcileStripe(): Stripe, the catalogue and the file may not contradict each other; what
\* agrees and is not linked is to be linked.
StripeErrors(o) == {why \in {"stripe"} : ~agrees}
ToLink(o) == offer[o].link # "synced"

\* planOffer(): why a row is not imported.
RowErrors(o) ==
    StripeErrors(o) \cup
    {why \in {"entity", "archived", "interval", "unpriced", "product"} :
       CASE why = "entity" -> \E e \in Entity : EntityPlan[e] = "error"
         [] why = "archived" -> offer[o].status = "archived"
         [] why = "interval" -> OtherInterval(o)
         [] why = "unpriced" -> ToActivate(o) /\ Unpriced(o) # {}
         [] why = "product" -> ToActivate(o) /\ ~OnOffer}

Step == {"create", "update", "prices", "link", "activate"}

StepNeeded(o, s) ==
    CASE s = "create" -> offer[o].status = "none"
      [] s = "update" -> offer[o].status # "none" /\ ~offer[o].asked
      [] s = "prices" -> PriceChanges(o) # {}
      [] s = "link" -> ToLink(o)
      [] s = "activate" -> ToActivate(o)

RowSteps(o) == {s \in Step : StepNeeded(o, s) /\ RowErrors(o) = {}}

\* Entities, and the steps of a row, are taken in this order.
Rank == [product |-> 1, major |-> 2, edition |-> 3,
         create |-> 1, update |-> 2, prices |-> 3, link |-> 4, activate |-> 5]

Soonest(waiting) == {s \in waiting : \A t \in waiting : Rank[s] <= Rank[t]}

\* planImport(), with the warnings: the fingerprint is made of all of it.
Plan == [entities |-> EntityPlan,
         rows |-> [o \in Offer |-> [errors |-> RowErrors(o), steps |-> RowSteps(o),
                     prices |-> PriceChanges(o), activate |-> ~OnSale(o),
                     warned |-> IF OnSale(o) THEN Priced(o) \ PriceChanges(o) ELSE Unpriced(o)]]]

NoPlan == <<>>

-----------------------------------------------------------------------------
(* Records and invocations                                                  *)

NoRecord == [status |-> "none", plan |-> NoPlan, stale |-> FALSE]

\* plan: the record's as it was read, and then the one executed; entities, rows, at, left:
\* what is still to be done; news: what others have changed since the plan was made.
Absent == [pc |-> "idle", of |-> <<>>, plan |-> NoPlan, entities |-> {}, rows |-> {},
           at |-> <<>>, left |-> {}, failed |-> FALSE, blocked |-> FALSE, news |-> {}]

ImportTypeOK ==
    /\ \A i \in Import :
         /\ record[i].status \in {"none", "previewed", "applying", "applied"}
         /\ record[i].stale => record[i].status = "applying"
         /\ record[i].status # "none" => DOMAIN record[i].plan.rows = Offer
    /\ \A r \in Runner :
         /\ runner[r].pc \in {"idle", "claiming", "planning", "executing"}
         /\ runner[r].pc # "idle" => runner[r].of \in Import
         /\ runner[r].rows \subseteq Offer
         /\ runner[r].entities \subseteq Entity
         /\ runner[r].left \subseteq Step
         /\ runner[r].left # {} => runner[r].at \in Offer
         /\ runner[r].news \subseteq Offer \cup Entity \cup {"stripe"}
    /\ agrees \in BOOLEAN
    /\ taken \subseteq Import
    /\ deaths \in 0..MaxDeath

ImportInit ==
    /\ CatalogueInit
    /\ record = [i \in Import |-> NoRecord]
    /\ runner = [r \in Runner |-> Absent]
    /\ agrees = TRUE
    /\ taken = {}
    /\ deaths = 0

Executing(r) == runner[r].pc = "executing"

\* What others find out of a step that has changed the catalogue or Stripe.
Touched ==
    {o \in Offer : offer'[o] # offer[o] \/ price'[o] # price[o]} \cup
    {e \in Entity : product'[e] # product[e]} \cup
    {s \in {"stripe"} : agrees' # agrees}

Noticed(f) == [q \in Runner |-> IF Executing(q) THEN [f[q] EXCEPT !.news = @ \cup Touched] ELSE f[q]]

\* previewImport()
Preview(i) ==
    /\ "imports" \in desk
    /\ "two imports" \in desk \/ \A j \in Import : record[j].status = "none"
    /\ record[i].status = "none"
    /\ record' = [record EXCEPT ![i] = [NoRecord EXCEPT !.status = "previewed", !.plan = Plan]]
    /\ UNCHANGED <<catalogueVars, runner, agrees, taken, deaths>>

\* applyImport(): the record is read.
ReadImport(r, i) ==
    /\ runner[r] = Absent
    /\ record[i].status \in {"previewed", "applying"}
    /\ runner' = [runner EXCEPT ![r].pc = "claiming", ![r].of = i, ![r].plan = record[i].plan]
    /\ UNCHANGED <<catalogueVars, record, agrees, taken, deaths>>

OtherApplying(i) == \E j \in Import \ {i} : record[j].status = "applying"

\* Variant: other imports are not looked at.
Claimed(i) ==
    \/ record[i].status = "previewed"
    \/ record[i].status = "applying" /\ record[i].stale

\* The claim: of this import, if it waits or its claim is old; the index
\* catalogue_imports_one_applying refuses it while another one is applied, however old.
MayClaim(i) == Claimed(i) /\ ~OtherApplying(i)

\* An invocation still works on the import.
AtIt(r, i) == runner[r].pc \in {"planning", "executing"} /\ runner[r].of = i

Claim(r) ==
    LET i == runner[r].of IN
    /\ runner[r].pc = "claiming"
    /\ IF MayClaim(i)
       THEN /\ record' = [record EXCEPT ![i].status = "applying", ![i].stale = FALSE]
            /\ runner' = [runner EXCEPT ![r].pc = "planning"]
            /\ taken' = IF \E q \in Runner : AtIt(q, i) THEN taken \cup {i} ELSE taken
       ELSE /\ runner' = [runner EXCEPT ![r] = Absent]
            /\ UNCHANGED <<record, taken>>
    /\ UNCHANGED <<catalogueVars, agrees, deaths>>

\* Stripe cannot be read: the import waits again.
CannotPlan(r) ==
    /\ runner[r].pc = "planning"
    /\ record' = [record EXCEPT ![runner[r].of].status = "previewed", ![runner[r].of].stale = FALSE]
    /\ runner' = [runner EXCEPT ![r] = Absent]
    /\ UNCHANGED <<catalogueVars, agrees, taken, deaths>>

\* The new plan differs from the one that was read, and is to be reviewed.
Replan(r) ==
    /\ runner[r].pc = "planning"
    /\ Plan # runner[r].plan
    /\ record' = [record EXCEPT ![runner[r].of] = [status |-> "previewed", plan |-> Plan, stale |-> FALSE]]
    /\ runner' = [runner EXCEPT ![r] = Absent]
    /\ UNCHANGED <<catalogueVars, agrees, taken, deaths>>

ToCreate(plan) == {e \in Entity : plan.entities[e] = "create"}

\* Variant: the plan that was shown is executed as it is.
BeginOldPlan(r) ==
    /\ runner[r].pc = "planning"
    /\ runner' = [runner EXCEPT ![r].pc = "executing", ![r].rows = Offer,
                                ![r].entities = ToCreate(runner[r].plan)]
    /\ UNCHANGED <<catalogueVars, record, agrees, taken, deaths>>

\* It does not differ: execute() begins.
BeginExecution(r) ==
    /\ runner[r].pc = "planning"
    /\ Plan = runner[r].plan
    /\ runner' = [runner EXCEPT ![r].pc = "executing", ![r].rows = Offer,
                                ![r].entities = ToCreate(runner[r].plan)]
    /\ UNCHANGED <<catalogueVars, record, agrees, taken, deaths>>

\* A step of the plan through a service.  upsertEditionPolicy() also overwrites.
CreateEntity(e) ==
    \/ e = "product" /\ CreateProduct
    \/ e = "major" /\ CreateMajor
    \/ e = "edition" /\ UpsertEditionPolicy("active")

ServiceStep(o, s, row) ==
    \/ s = "create" /\ CreateOffer(o)
    \/ s = "update" /\ UpdateOffer(o, TRUE)
    \/ s = "prices" /\ PriceSet(o, [c \in row.prices |-> Row[o].amount[c]], Row[o].every, row.activate)
    \/ s = "link" /\ agrees /\ LinkOffer(o, "synced")
    \/ s = "activate" /\ PublishAtOnce(o)

\* The invocation goes on: its own changes are no news to it.
Advance(r, f) == runner' = [Noticed(runner) EXCEPT ![r] = f]

\* execute(): the entities in order; one that fails blocks the rows.
ExecuteEntity(r) ==
    /\ Executing(r)
    /\ UNCHANGED agrees
    /\ \E e \in Soonest(runner[r].entities) :
         \/ /\ CreateEntity(e)
            /\ Advance(r, [runner[r] EXCEPT !.entities = @ \ {e}])
         \/ /\ UNCHANGED <<product, offer, price, withdrawn>>
            /\ Advance(r, [runner[r] EXCEPT !.entities = @ \ {e}, !.failed = TRUE, !.blocked = TRUE])
    /\ UNCHANGED <<clerk, edits, desk, record, taken, deaths>>

\* execute(): the next row.
TakeRow(r, o) ==
    /\ Executing(r)
    /\ runner[r].entities = {}
    /\ runner[r].left = {}
    /\ o \in runner[r].rows
    /\ runner' = [runner EXCEPT ![r].rows = @ \ {o}, ![r].at = o,
                                ![r].left = IF runner[r].blocked THEN {} ELSE runner[r].plan.rows[o].steps]
    /\ UNCHANGED <<catalogueVars, record, agrees, taken, deaths>>

\* execute(): a step of a row; when one fails the rest of the row is left.
ExecuteStep(r) ==
    LET o == runner[r].at IN
    /\ Executing(r)
    /\ UNCHANGED agrees
    /\ \E s \in Soonest(runner[r].left) :
         \/ /\ ServiceStep(o, s, runner[r].plan.rows[o])
            /\ Advance(r, [runner[r] EXCEPT !.left = @ \ {s}])
         \/ /\ UNCHANGED <<product, offer, price, withdrawn>>
            /\ Advance(r, [runner[r] EXCEPT !.left = {}, !.failed = TRUE])
    /\ UNCHANGED <<clerk, edits, desk, record, taken, deaths>>

Done(r) == Executing(r) /\ runner[r].entities = {} /\ runner[r].left = {} /\ runner[r].rows = {}

\* The last statement, whatever the record has become.  (Nothing that execute() does not
\* catch is thrown in it, so that no record is marked failed.)
Finish(r) ==
    /\ Done(r)
    /\ record' = [record EXCEPT ![runner[r].of].status = "applied", ![runner[r].of].stale = FALSE]
    /\ runner' = [runner EXCEPT ![r] = Absent]
    /\ UNCHANGED <<catalogueVars, agrees, taken, deaths>>

\* The invocation is cut short; its import stays claimed.
Die(r) ==
    /\ "deaths" \in desk
    /\ runner[r].pc \in {"planning", "executing"}
    /\ deaths < MaxDeath
    /\ deaths' = deaths + 1
    /\ runner' = [runner EXCEPT ![r] = Absent]
    /\ UNCHANGED <<catalogueVars, record, agrees, taken>>

\* Ten minutes have passed since the claim.
GrowStale(i) ==
    /\ record[i].status = "applying"
    /\ ~record[i].stale
    /\ record' = [record EXCEPT ![i].stale = TRUE]
    /\ UNCHANGED <<catalogueVars, runner, agrees, taken, deaths>>

\* Somebody changes the product in Stripe.
StripeChanges ==
    /\ "stripe" \in desk
    /\ edits < MaxMeanwhile
    /\ edits' = edits + 1
    /\ agrees' = ~agrees
    /\ UNCHANGED <<product, offer, price, clerk, withdrawn, desk, record, taken, deaths>>
    /\ runner' = Noticed(runner)

\* Administrators change the catalogue.
Meanwhile ==
    /\ CatalogueNext
    /\ "imports" \in desk => edits' <= MaxMeanwhile
    /\ UNCHANGED <<record, agrees, taken, deaths>>
    /\ runner' = Noticed(runner)

ImportNext ==
    \/ \E i \in Import : Preview(i) \/ GrowStale(i)
    \/ \E r \in Runner :
         \/ \E i \in Import : ReadImport(r, i)
         \/ Claim(r) \/ CannotPlan(r) \/ Replan(r) \/ BeginExecution(r)
         \/ ExecuteEntity(r)
         \/ \E o \in Offer : TakeRow(r, o)
         \/ ExecuteStep(r) \/ Finish(r) \/ Die(r)
    \/ StripeChanges
    \/ Meanwhile

ImportSpec == ImportInit /\ [][ImportNext]_importVars

-----------------------------------------------------------------------------
(* Properties                                                               *)

\* Two invocations execute imports at the same time only if one of them is at an import
\* that was taken over, ten minutes after its claim, from an invocation still at it: to take
\* one over from an invocation that is gone does no harm.
ExecuteAlone ==
    \A r, q \in Runner :
      Executing(r) /\ Executing(q) /\ r # q => runner[r].of \in taken \/ runner[q].of \in taken

\* An import none of whose steps failed, and to which nobody has got in the way, has nothing
\* left to do: the same file would show no step.
NothingLeft ==
    \A r \in Runner :
      Done(r) /\ ~runner[r].failed /\ runner[r].news = {} =>
        /\ \A e \in Entity : product[e] # "none"
        /\ \A o \in Offer : RowSteps(o) = {}

\* An import is executed by one invocation, and leaves nothing undone without a failure.
ImportDelivers == ExecuteAlone /\ NothingLeft

ActiveAmount(o, c) == {price[o][c][n].amount : n \in ActiveVersions(o, c)}

\* An import never changes the price of an offer on sale, an offer that is archived or an
\* edition that exists, except what others have changed since its plan was made.
SettledStays ==
    [][ \A r \in Runner :
          Executing(r) /\ runner'[r] # runner[r] /\ runner'[r].news = runner[r].news =>
            /\ \A o \in Offer \ runner[r].news :
                 /\ OnSale(o) => \A c \in Currency : (ActiveAmount(o, c))' = ActiveAmount(o, c)
                 /\ offer[o].status = "archived" => offer'[o] = offer[o]
            /\ product["edition"] # "none" /\ "edition" \notin runner[r].news =>
                 product'["edition"] = product["edition"] ]_importVars
=============================================================================
