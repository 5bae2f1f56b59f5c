# Verification of the licence server

TLA+ models of the licence server, TLC configurations that check them on small
instances, and theorems checked by TLAPS for every value of the constants. Every
definition is translated from the source; `PROJECT.json` names the lines.

## The system

The server is a Cloudflare Worker over PostgreSQL. Workers are stateless: all
state is in rows, every operation is one or more READ COMMITTED transactions, and
several workers run at once. A worker may stop at any point; its open transaction
then rolls back. There is no in-process lock; mutual exclusion comes from row
locks (`SELECT ... FOR UPDATE`), advisory locks and unique indexes.

| part | state | operations | interacts with |
|---|---|---|---|
| machine API (`services/machine.ts`) | activations, transfer events | activate, renew, deactivate | licensing, called by devices |
| licensing (`services/licensing.ts`, `entitlements.ts`) | entitlements, licenses, issuances, activation keys, revocations | create, sign, revoke, restore, reissue, amend, rotate, reveal, release, grant / reset transfers, download | signing keys, email, called by support, portal and billing |
| signing keys (`services/signing-keys.ts`) | signing keys, trust intervals, eligibility per product major | generate, import, publish, trust, eligibility, retire, rewrap | read by every signing |
| billing (`services/billing.ts`) | stripe_events, purchases, subscriptions, payments, refunds, disputes | receive / process event, fulfil, sync subscription, apply invoice, reverse payment, reconcile, replay | Stripe (calls, webhooks), licensing, job outbox, email |
| job outbox (`services/jobs.ts`, `jobs/runner.ts`) | outbox_jobs | enqueue, claim, complete, fail, retry | runs billing and Stripe synchronisation |
| email outbox (`services/email.ts`, `mail-webhooks.ts`) | email_outbox, mail_events, suppressions | enqueue, dispatch, retry, resolve, delivery report | the mail provider |
| administrators (`services/admins.ts`, `human-auth.ts`) | users, roles, tokens, sessions, login challenges | invite, roles, status, TOTP, tokens, login | every operator request |
| checkout (`services/checkout.ts`, `stripe-sync.ts`) | checkouts, Stripe links | create, open session, link, synchronise | Stripe, billing |
| idempotency, rate limits | idempotency_records, buckets | claim, replay, release, count | every API request |
| customers (`services/customers.ts`, `http/portal-ui.tsx`) | customers, members | found or made for an order, filled in, edited; members added and removed | checkout, support, the portal |
| catalogue, import, invoices, audit | their rows | row editing, bulk import, numbering | all of the above |

What is hard here: two workers on one licence (row locks taken late, reads before
the lock, statements that waited and re-evaluated); timestamps that are the
*start* of a transaction while commits happen in lock order; events of Stripe and
of the mail provider delivered twice, late or out of order; leases that run out
while the first worker is still going; a worker that stops between an external
call and the row that records it. `PROJECT.json` lists each at its line.

What makes each part correct, in one sentence:

- licensing: seats are never exceeded by an activation, a device has one seat, a
  transfer stays counted, nothing is served once revoked, what is signed is what
  is entitled, one activation key is active and shown once;
- signing keys: an eligible key is never a retired one, and a major that sells
  keeps a key;
- billing: a paid event extends or creates once, a reversal revokes what was paid,
  in whatever order events come;
- job outbox: a job ends done or dead, is not lost, and a dead one is retried only by an operator;
- email outbox: an email is queued once per business event, and one whose fate is
  unknown is not sent again by the dispatcher; what became of it is not taken back;
- administrators: an enrolled super administrator remains, a disabled account has no
  working session or token, a link and a code are good once;
- requests: one idempotency key, one mutation, one response; no more than the limit a minute;
- checkout: one session per key, one Stripe product per offer, one customer per buyer;
- customers: one address is one customer, whose orders reach him, with an owner, and
  whose details no stranger changes;
- catalogue: what is on sale has a price in every currency, and prices are history;
- import: an import is executed by one invocation, leaves nothing to do, and changes
  nothing that its preview did not show;
- policies and claims: whatever may be sold, granted or amended can be signed.

## Modules

| module | models | composed with |
|---|---|---|
| `Licensing` | one licence: the transactions of `machine.ts` and `licensing.ts` over its rows | refines `SeatLedger` |
| `SeatLedger` | abstract: what a licence promises about seats and transfers | - |
| `JobOutbox` | `stripe_events` and `outbox_jobs`: `jobs.ts`, `jobs/runner.ts`, the receiving and replaying half of `billing.ts` | - |
| `SigningKeys` | the key registry of `signing-keys.ts` | its usable keys are `Licensing!usable`, of which `ChangeUsable` adds or removes one at any time |
| `StripeBilling` | one subscription checkout: Stripe's objects and the handlers of `billing.ts` | - |
| `Reversals` | refunds and disputes of one payment: the handlers of `billing.ts` with `revokeInTx` | its revocations are `Licensing!Revoke` with a reference |
| `EmailOutbox` | `email.ts`, `mail-webhooks.ts`, the outcomes of the mail transport | - |
| `Administrators` | `admins.ts` and the administrator realm of `human-auth.ts` | - |
| `RequestGuards` | `authenticateApiToken`, `rate-limit.ts`, `idempotency.ts` | - |
| `Checkout` | `checkout.ts`, `stripe-sync.ts` | its open sessions are those of `StripeBilling` |
| `Customers` | `customers.ts`, the customer of an order in `checkout.ts`, how `portal-ui.tsx` admits a request | its orders are the checkouts of `Checkout`, which screens them by one choice |
| `Catalogue` | products, majors, editions, offers, price versions: `catalogue.ts` | - |
| `CatalogueImport` | `catalogue-import.ts` | EXTENDS `Catalogue`: its steps are that module's operations |
| `PolicyRules` | `domain/policy.ts`, `protocols.ts`, `v1-claims.ts`, and what goes through them | - |
| `LicensingProofs`, `JobOutboxProofs`, `StripeBillingProofs` | theorems and proofs | extend their module |
| `SigningProofs` | theorems and proofs | `SigningKeys`, `PolicyRules` |
| `AccessProofs` | theorems and proofs | `Administrators`, `RequestGuards` |
| `StoreProofs` | theorems and proofs | `EmailOutbox`, `Checkout`, `Customers`, `Reversals` |
| `CatalogueProofs` | theorems and proofs | `CatalogueImport`, and `Catalogue` with it |
| `ServicesProofs` | theorems about the services together | `MCServices` and the three above |
| `MCLicensing`, `MCJobOutbox`, `MCSigningKeys`, `MCStripeBilling` | symmetry sets for TLC; one `.cfg` per run | extend their module |
| `MCSigning` | values of the constants | `SigningKeys` and `PolicyRules` |
| `MCServices` | values of the constants | `EmailOutbox`, `Administrators`, `RequestGuards`, `CatalogueImport`, `Checkout`, `Customers`, `Reversals` |
| `MCServicesEnd` | liveness | `Licensing`, `EmailOutbox` and an instance of `JobOutbox` |

The last three put modules side by side whose services share no rows: a behaviour
chooses one service at the start (`service`) and only that one moves, so the states
are the sum of theirs and not the product. The run
`stranded` takes the registry by itself, from `MCSigningKeys`.

A definition marked "Variant" is a faulty form of the definition after it: a
dropped guard, a missing reset, another order. No action uses one; `PROJECT.json`
lists which property fails when it takes the place of the real one, so each
property is known to be able to fail.

### Licensing

One licence is enough: no transaction of these services locks two licences, and
requests of different licences share only the signing keys. A *request* `r` is one
transaction. Its program counter `tx[r].pc` follows the code:

| pc | the worker |
|---|---|
| `idle` -> `keyed` | has looked the activation key up before the transaction (`LookUpKey`, `activate` in `machine.ts`) |
| -> `waiting` | has begun: `now()` is fixed at `clock`, and the locking `SELECT` has taken its snapshot (`Begin`, `BeginActivate`) |
| -> `locked` | has the row locks and the rows as committed by whoever was before it (`Acquire`), or is told "not found" because the join with the policy snapshot fails on re-evaluation (`RowGone`) |
| `locked` -> `counted` | only `activate` for a new device: seats and transfers counted (`CountSeats`); then `TakeSeat` writes, signs and commits |
| -> `idle` | has committed and answered (`reply`) or rolled back (`Refuse...`, `Abort`) |

`ent`, `lic`, `acts`, `grants`, `keys`, `revs` are the rows `entitlements`,
`licenses`, `activations` with their `transfer_events`, the grants among
`transfer_events`, `activation_keys` and `revocations`. The envelope is reduced to
what changes in it: expiry, seats, the printed name, the signing keys. `clock` gives
every transaction an instant of its own, because several columns compare the
*start* times of transactions that commit in another order. An instant is a microsecond
of PostgreSQL; where the program compares dates it has milliseconds (`Milli`, with
`Resolution` instants to one), so transactions of their own instants may look
simultaneous. Each handler is one
action named after the service function (`Renew`, `Deactivate`, `Release`,
`Amend`, `Reissue`, `Revoke`, `Unrevoke`, `Extend`, `GrantTransfers`,
`ResetTransfers`, `Rotate`, `Download`); `activate` has a branch for
each outcome (`Provision` for `none`, `Reactivate` for a device that has a seat,
`CountSeats` / `TakeSeat` for a new one), with the refusals in the code's order.
`Abort` is a signer that fails, a lost connection or a worker that stops. A reveal of
an activation key locks the row of the key and not the licence, so it is a transaction
of its own, by a *viewer*: `ReadKey` takes the row, `ShowKey` clears the slot, commits and
answers, `DropKey` is cut short; a rotation waits for it. `held` is the lock and `shown`
counts the answers that carried the key.

`SeatLedger` keeps four things - the limit, the devices that have a seat, how many
activations were opened afresh and how many moved - and allows `Take`, `Free` and
`Resize`. `Licensing!ImplementsLedger` maps it with
`limit <- ent.seats`, `seated <- SeatedDevices`,
`opened <- Cardinality(FreshUsed)`, `moved <- Cardinality(IssuedActs \ FreshUsed)`.

### JobOutbox

An event row has a status, a job row a status, its attempts, the ticks it waits
and the ticks its lease has left. A job is keyed by its event and the replay it
comes from, as the dedupe key is. `Claim` takes up to `Batch` due jobs at once
(`claimJobs`); the worker then goes through them one at a time, and each statement
after the handler's return is a step of its own, since `drainJobs` runs them
without a transaction: the event is marked, the job is completed, or the job is
failed and then the event marked. `Crash` cuts an invocation short between any
two, and `Break` makes one of the statements around a handler answer with an error,
carried out or not: the mark of an event is in the `try` of its handler, with the audit
record after it, and the completion of a job in the `try` whose `catch` fails it, so that
a failure can be written over what has just succeeded. `Tick` lets time pass for waits
and leases, so a worker may outlive its lease (`late` records that one did). `held` is
what the invocation believes it has claimed. Replay is two statements (`MarkReplay`, `EnqueueReplay`), and
`LoseReplay` is stopping between them.

### SigningKeys

Each operation of several statements is several steps, because the locks differ:
`setKeyEligibility` locks the product major and reads the key's row without a lock,
retirement locks the key's row and reads the other keys' eligibility without one,
the release service locks the major, the trust record its own row.
`keyLock`, `majorLock` and `rowLock` are those locks; `tx[r].alone` is a history
field, true while nothing has committed since the retirement's check; `read` is the trust
record a grant has read.

### StripeBilling

Stripe's side (`session`, `asyncFailed`, `sub`, `bill`) moves by itself: the
customer completes or abandons the checkout, a delayed payment succeeds or fails,
a period is billed, a payment fails and is tried again, the quantity changes, the
subscription is canceled. Each raises its event. An event that is `queued` may be
begun by any worker, in any order; `Begin` fetches the object *as Stripe has it
then* and keeps it in `worker[w].got`, and what the handler does with it comes
later. `Redeliver` and `Reconcile` bring handled events back. `checkout`, `row`,
`ent`, `invoice` are the rows. The handlers' last transaction is one step except
where it locks the subscription and then waits for the entitlement (`pc =
"reading"`): there an amendment may get in between (`overtaken` records it), and
the join of `billing.ts:462` (or of `:372`) then finds nothing. `Amend` is support's
amendment with all that billing shares with it: another policy snapshot, and perhaps other
seats and another expiry. Support may so set the seats apart from the quantity (`apart`,
until a new quantity is written) and the expiry before what was paid for (`excused`: the
invoices applied by then).

One-off payments take the same way to fulfilment, without the subscription.

### Reversals

One payment, which bought a purchase or renewed a subscription (`renewal`), and the
licences it paid for, each under its own `policy`. Stripe's side (`charge`,
`dispute`) moves by itself. A handler asks Stripe (`Fetch`), and commits later what
it *saw*; between the two, other handlers, other refunds and support act. `known`
says whether the event that stored the purchase or the invoice has been handled;
before that a reversal finds nothing (`Unmapped`). `revocations` are the rows whose
unique index makes a cause revoke an entitlement once (`Already`).

### EmailOutbox

A mail is a business key. A dispatcher claims a batch (`ClaimMails`, one statement),
then takes its mails one by one: `PickMail` reads the suppression, `Send` calls the
provider and has the answer, or not; `RecordSent`, `RecordFailure` and `WriteOff`
write the row by its id, whatever it is by then. `due` and `leased` are the two
timestamps relative to `now()`. The provider's number is the number of the copy;
`Report` finds the row by it, so a report that comes before the number is stored
finds none. `doubted`, `overrun` and `retried` are history: mails of which a
dispatcher may not know what became, whose lease ran out under their dispatcher,
and which an operator has retried.

### Administrators

A request reads its session and administrator before its transaction
(`BeginManaging`, `BeginToken`, `LoadSession`) and acts on that. Role changes and
disablements count under the advisory lock (`Count`; `pc = "counted"` or `"swept"`
holds it), and write afterwards. A disablement is two steps because its three
`UPDATE`s take their rows in turn: `Sweep` writes the administrator's row and finds
the sessions and tokens, `Disable` commits; a token that is issued or rotated in
between is in `lateToken`. Signing in is `RequestLogin`, `TakeLink`, `Consume`,
`OpenSession`, and a code: `MatchCode` compares with what was read, `Prove` takes
the row lock, `CommitProof` writes. Time is counted in steps of 30 seconds and
matters to codes only.

### RequestGuards

One token, one idempotency key, several requests with it. Each statement is a step:
`Authenticate`, `CountHit`, `ClaimKey`, `LookUp`, `Perform`, `StoreResponse`, and
`FailRun` with `ReleaseKey` when the mutation, or something after its commit, fails.
`Break` cuts a request short anywhere. The mutation itself is only a number.

### Checkout

One offer, one buyer, several keys. `Submit` is the first lookup; a new checkout is
screened, inserted, and given a product (`ensureStripeProduct`: read, lock the
mapping, search, make, link), a customer (the same without a lock) and a session.
Stripe repeats an answer under its idempotency key (`repeats`) until `ForgetKey`,
its search sees a product only after `IndexProduct`; a call may fail, or be carried
out and its answer be lost. Administrators link a product of their own meanwhile. The state
of the link (`syncOffer`), which no checkout reads, is in `Catalogue` (`LinkOffer`).

### Customers

Orders for one licence, support, and members in the portal. `Find` takes the row of
the customer with the order's address and its lock, `InsertBuyer` makes one unless
another order was quicker (then `Find` again), `Fill` writes what the form adds and
commits. After that nothing is locked: `Ask`, `ScreenBuyer` and `Take` are three
statements, and support, the portal and other orders act in between; `Deliver` is the
fulfilment of a taken order. A request in the portal is admitted (`Admit`) before the
transaction that acts (`Act`). What a detail is does not matter, only who wrote it.

### Catalogue and CatalogueImport

One product with a major and an edition, some offers, their price versions by
currency. Publishing an offer and activating a price are several steps
(`BeginPublishing` .. `CommitPublishing`, `BeginActivation` .. `CommitActivation`)
holding the rows they lock, everything else one step. A price version has an interval, in
which it takes the place of the active one, and a time: `BecomeEffective` and `RunOut`
are its beginning and its end coming, which no one does. An import is previewed, and
applied by a runner: `ReadImport`, `Claim` (with the take-over after ten minutes,
`stale`), then either `Replan` (the plan differs and is shown again) or
`BeginExecution`, whose steps call the operations of `Catalogue`, entities first and
the steps of a row in the order in which `planOffer` pushes them (`Rank`, `Soonest`).
`news` remembers what others changed since the plan was made; what a runner does itself
is no news to it. A plan is made in one step; its fingerprint is the plan itself.

### PolicyRules

The rules are sets of what is broken (`OfferProblems`, `PolicyProblems`,
`ClaimsProblems`, `CertificateProblems`), evaluated where the code evaluates them:
an offer is put on sale, granted to a customer, amended, reissued, signed again.
Time is in half seconds because rows have milliseconds and claims whole seconds.

## Runs, bounds and why they are enough

| run | question | bounds |
|---|---|---|
| `seats` | seats and transfers under overlapping activations, releases, grants and seat changes; refinement of the ledger | 2 requests, 2 devices, 3 activations, seats 1 or 2, allowance 1, grants of 1, window 3 in 6 instants |
| `access` | can a released device or a revoked entitlement be served? is a revocation on record in force? is a key that rotates and is revealed shown once? | 2 requests, 2 viewers, 1 device, 2 secrets, 2 activations, 2 activation keys, 1 refund reference, allowance 0, 5 instants |
| `issue` | does what is signed and served show the entitlement of that moment? | 2 requests, 2 names, 2 expiries, 2 signing keys, 5 instants, 2 to a millisecond, model `none` |
| `jobs` | overlap, overrun, crash, failing statements, retry, replay | 2 events (one of a type the code ignores), 2 workers, batch 2, lease 2, 2 attempts, 1 replay, 1 crash or failing statement |
| `registry` | the key registry under overlap; can everything that is sold be signed? | 3 keys, 1 major, 2 requests, 2 releases, 2 signatures; 7 edition policies, 4 components, offers of 1 or 2 parts, 2 quantities, 4 half seconds, 1 amendment |
| `billing` | one subscription, events in any order, twice, late | 2 workers, quantities 1 and 2, 2 periods, 1 amendment, which may set 2 seats and the first period's end; the session's event is delivered again at any time, the others by reconciliation while the subscription is active |
| `billing_end` | does what was paid take effect? | 2 workers, 1 quantity, 2 periods, fairness |
| `services` | the seven services around licences, one at a time | see below |
| `services_end` | does every request, mail and job end? | 2 requests (activations, rotations, amendments), 1 viewer, 2 keys, 4 instants; 1 mail, 1 dispatcher, 2 attempts, 1 crash; 1 event, 2 workers, lease 1, 2 attempts, 1 crash; fairness |
| `stale`, `stranded`, `lost_renewal` | statements of the repository that the code breaks | as small as shows it |

Bounds of `services`:

- mail: 1 mail, 2 dispatchers, 2 attempts, 2 copies. Leases run out, so dispatchers
  overlap; that one is cut short is in `services_end`, and its history is `doubted`
  like a lost answer's. One mail is enough, for no statement relates two.
- administrators: 2, 2 links, 2 sessions, 2 tokens, 2 requests, 2 steps of time, 2
  secrets; each behaviour offers the operations of one of six scenarios
  (`AdminOperations`), the groups that touch the same rows.
- guards: 3 requests, 2 bodies, 2 a minute, 2 minutes, 1 failure.
- catalogue and imports: 1 offer, 2 currencies, 2 amounts, 2 intervals, 3 versions, 4 edits, 2
  transactions; 2 imports, 2 runners, 1 death, 1 change by others while an import is
  looked at; seven scenarios (`CatalogueOperations`). `Met` bounds the prices that offers
  are prepared with: two amounts or two intervals for imports, one for transactions. Administrators create two kinds of price
  (`NewPrices`: one by the month that is to come and will end, one by the year from now on),
  as single versions or as sets. The file gives a price by the month in one
  currency and activates. That the offers of a file do not interfere is the loop of
  `execute`, which takes them one after the other.
- checkout: 1 key, 2 callers, 1 fault, 1 product archived or reactivated, links.
- customers: 2 addresses, 2 customers, 2 orders, one portal request at a time, 1 act of
  support; two scenarios of what changes (`CustomerChanges`).
- reversals: 2 licences under each pair of three policies, 2 handlers.

Two requests, workers or transactions show every interleaving of two; a third
would wait behind the same lock and find what the second left. Where an invariant
needs a third object it is there: three activations (a seat, its successor and a
returning device), three signing keys (two eligible, one being granted). Two
periods let an older invoice follow a newer one. `MaxClock` is the number of
transactions that begin plus the instants that pass, so the six of `seats` leave room for two
overlapping requests after a seat was taken, released and counted out of the
window. The windows of 365 and 30 days become 3 and 2 instants where they are
exercised and longer than the run elsewhere. Symmetry is used only on sets that no
property distinguishes, and in no run with liveness.

`CHECK_DEADLOCK FALSE` is given in the `Licensing` runs, where behaviour ends at
`MaxClock`, in `billing_end`, where an expired or canceled checkout is done, and in
`services` and `services_end`, where a checkout, a mail or a request may be done for
good. `registry` is checked for deadlock, `PolicyRules` being let
stutter in it.

`PayAgain` is `FALSE` in `billing` and `billing_end` to keep them small;
`lost_renewal` lets a failed payment be tried again, and the theorems of
`StripeBillingProofs` hold for both values.

`issue` and `access` together cover all operations that serve a licence; the
`Operation` constant only selects which calls a run makes, never how one behaves.

## Fairness

- `Licensing!RequestFairness`: a worker past the lock goes on to commit or roll back (no
  handler waits for anything but the lock, and `rotate` for the row of the key: signing
  and sealing are local); both locks are granted strongly fairly, as PostgreSQL queues the
  waiters of a row; a reveal that has the key's row goes on to commit or roll back.
- `JobOutbox!JobFairness`: ticks keep coming (cron); a job that is due again and again
  is claimed in the end (`ORDER BY run_after`); an invocation that is not cut short
  works through its batch. Crashes and failing statements are bounded by `MaxCrash`: with
  unboundedly many, attempts grow and nothing ends (see the observations).
- `EmailOutbox!MailFairness`: the same of the dispatcher that every cron tick starts:
  a mail due again and again is claimed (`ORDER BY next_attempt_at`), delays and leases
  end, an invocation that is not cut short goes through its batch, and an operator's
  retry that has read goes on to write. Of the provider nothing is assumed: it may
  refuse, answer late, or never.
- `StripeBilling!Fairness`: handlers run on; an event that stays due is begun in the
  end, again by `ORDER BY run_after`; the daily reconciliation happens; and
  invocations are cut short only finitely often. A handler that puts its event
  back has the same effect on the rows as one that is cut short, so the last
  condition speaks of cuts other than those. Nothing is assumed of Stripe or of
  the customer.

## Proofs

TLAPS proves every invariant and every action property that a passing run checks, and
the refinement of `SeatLedger`, for every value of the constants that satisfies the
named assumptions.

### Assumptions

Each module names its own (`LicensingAssumption`, `JobAssumption`, ...); TLC evaluates
them in every run of the module. Most give the ranges of the constants and say that
the "none" values are not ordinary ones. These say more:

| assumption | why |
|---|---|
| `LicensingAssumption`: `AllowanceChoice` is finite | `TransferBudget` speaks of the largest allowance of a licence; there are as many allowances as there are amendments |
| `GuardAssumption`: `Call` is finite, `<<>>` is no body | a bucket counts requests with a number; `<<>>` stands for "nothing performed" |
| `AdminAssumption`: a behaviour that offers enrolment offers signing in | the steps of enrolment begin in a session, which only a sign-in opens |
| `ImportAssumption`: `MaxMeanwhile <= MaxEdit` | both bound the edits of others, the second over the whole behaviour |
| `PolicyAssumption`: `Null` is neither `"name"` nor `"address"` | an absent field is not a present one |

One theorem has a hypothesis of its own: `TransfersBounded` assumes that no support
reset is made (`"reset" \notin Operation`), as the property's words do: a reset is there
to make transfers count no longer. The run `seats` offers none either.

### The argument, module by module

- **Licensing.** `Typing`, then `Serialised`: `LockInv` says that whoever is past
  the lock is its only holder and that the rows it remembers, and the counts it
  made, are the committed ones. That is what every other result rests on, for a
  handler decides on what it remembers. From it: `OneSeatPerDevice` (with
  `ReleaseInv`: a release only knows activations that were issued),
  `SeatsBounded`, `FreshSeatsBounded`, `RevocationHolds`, `NoStaleCertificate`,
  `SigningIsCurrent`, `RevocationsRecorded` (a revocation is decided on the status as
  it is under the lock, so the log and the status change together), and
  `Implementation`: the transactions implement `SeatLedger`, each step of `acts`
  being one of `Rearmed` (same seat, new secret), `Freed` or `Seated`.
  - `RevealedOnce` does not rest on the licence's lock, which a reveal does not take.
    `KeyInv` says that one key is active, that whoever has a key's row has it alone, and
    that a key still in its slot was never shown (`Slotted`).
  - `ServedIsCurrent` compares dates that are the starts of transactions. `Dated`
    says that every open transaction has a `now()` of its own, with which nothing is
    dated yet; `Shown` that a licence of the same date as the entitlement's last change
    was signed by that change. Without `Dated` two changes could carry one date. What the
    code compares is their milliseconds, and the theorem promises no more than that.
  - `TransfersBounded` bounds every window, while the code looks only at the
    transfers that count at `now()`. `BudgetInv` says that without a reset every
    transfer counts from its transaction on, and that what a request counts at its
    `now()` includes all the transfers of the windows its own falls into; `Bounded` is
    the property over the sets `Moving`. What was granted is a sum over the
    instants, and needs that such a sum grows with the set and with the numbers.
- **JobOutbox.** `Inv` adds to `NoEventLost` what the steps need to know: jobs,
  held jobs, current events and pending replays belong to stored events, and a
  worker whose handler returned is at a handled event. It holds with leases that
  run out. `LeaseInv` is separate: as long as no lease has run out under its holder, a held
  job is running under a lease and nobody else holds it; hence `LeasesExclude`.
  `WorkInv` adds that an event which nobody replayed has one job (`OneKey`) and that a
  worker in the handler, or whose handler has thrown, finds it unprocessed (`Undone`);
  hence `SuccessIsFinal`, whose one exception is the invocation that has just handled the
  event and whose own record of that failed (`unrecorded`).
- **SigningKeys.** `Granting` (a grant past its check holds the major, and what it
  counted is still so, and the minimum is still covered by the trust it read) gives
  `LimitHolds` and `GrantsUnderMinimum`; `Retiring` (a
  retirement past its check holds its key, in the status it read) gives
  `LivesGoOn`; `AloneAt` gives `RetirementAlone`, the part of the runbook's promise
  that the code keeps.
- **PolicyRules.** `SoldIsSigned`: signing evaluates the rules for claims on a licence
  that keeps only a snapshot of the policy it was sold under. `Signable` is what of the
  rules for policies the snapshot still shows, and `PolicyInv` says that every licence
  has it; selling establishes it, amending and the passing of time keep it.
- **StripeBilling.** `OneReader` (one handler at a time is between the two locks),
  `Together` (checkout, row and entitlement come into being at once) and
  `SeenInForce` (without an amendment in between, what it read of the policy is in
  force) make `AppliedExtends` and `SeatsFollow` inductive, also over what support sets;
  `NeverShortened` and `CompletedStays` follow.
- **Reversals.** `CauseRemains` (a licence that has a cause is revoked, or support
  restored it), `RefundReachedAll` (once a full refund was applied every licence
  whose policy is to revoke has the cause) and `SawBefore` (a handler that saw a full
  refund saw what Stripe still has) give `RefundsTakeEffect` and `RevocationsHaveCause`,
  and with them what a partial refund committed late cannot undo.
- **EmailOutbox.** `OneCopy` speaks of copies at the provider, which no row knows. The
  invariant `Single` says of each mail that nothing excuses: a dispatcher that has it
  in its batch has it under a running lease, no other has it, and once a copy was
  accepted the row is `sending` in the hands of the dispatcher that has the answer,
  or in a status that is not claimed. Each excuse (`doubted`, `overrun`, `retried`) is
  where a step would break one of these. `OutcomesRemain` is about mails in doubt as
  well; `Alone` keeps for them that whoever has the mail has it alone.
- **Checkout.** `CInv` says what a caller between two statements may count on: one
  that is about to make a product under a new key has searched while Stripe still
  repeated the old one or could find the product (`OneProduct`); one that opens the
  checkout has had its session; a customer is there before a session is asked for.
  `CheckoutsMadeOnce` and `CheckoutsReachedStay` follow.
- **Customers.** `UInv`: the customer an order found is still there under its address
  unless support changed that (`Found`), addresses are unique, a customer has one owner,
  the person with his address unless support moved him (`OneOwner`), and a licence
  belongs to an order that was taken (`LicencesOfOrders`). It gives `AddressIsCustomer`,
  `BuyersReach`, `LicenceBoughtOnce` and `FormsFillOnly`.
- **Administrators.** `Local` says what a request past a check still knows (a
  disablement that has counted leaves somebody: `OthersRemain`), `Apart` which two
  requests exclude one another by the advisory lock or a row lock, `LinksUsed` and
  `Codes` what a link and an accepted code leave behind. From these `SuperadminStays`
  and `FactorsUsedOnce`. `AccessEnding` needs more: `Ready` (what a request that is
  about to open a session or rotate a token may still count on), `Parted` (which two do
  not do so together) and `Lines` (a rotated token's line begins with a token).
- **RequestGuards.** `GInv` counts: the counter of a minute lies between the requests
  that went on and those that were counted (`Counted`); one request at most holds the
  key (`KeyHeld`), and once something was performed under it nobody is about to perform
  again (`KeySpent`). `MutationsGuarded` follows.
- **Catalogue.** `Dealt` says what a transaction that has looked still counts on because
  of the row it holds, `DealtApart` that no two hold one, `OneActive` that a price has one
  active version of an interval; `SalesWhole` and `PricesHistory` follow.
- **CatalogueImport.** `ImportInv`: what nobody else has changed is as the plan found it
  (`Settled`); an invocation that nothing has come between has left to do exactly what a
  new plan would show (`OnPlan`), so nothing once it has done it all; one import is being
  applied, by one invocation unless it was taken over from one still at it (`OneClaim`).
  `ImportsDeliver` and `ImportsSettle` follow, and what is on sale stays whole whatever is imported.
- **The services together.** `ServicesProofs` shows that in a behaviour of
  `ServicesSpec` each service behaves as its own specification says, so that the
  theorems above give `ServicesTypeOK`, `RightsEnd`, `OutcomesStay` and `BuyersKept` as
  the run `services` checks them.

### What stays with TLC

- The liveness properties (`EveryRequestAnswered`, `MailEnds`, `JobsEnd`,
  `PaidIsFulfilled`, `PaidIsApplied`, `Settles`): the prover has no rule for `ENABLED`,
  and so none for fairness.
- The three runs that expect a violation.

The library's induction theorems take an operator as a parameter, which the installed
provers cannot instantiate. Where an induction over a finite set was needed (the sums of
`TransferBudget`) it is done without one: the sets for which a claim fails are
collected in a set, which by `WFMin` and `FS_StrictSubsetOrderingWellFounded` has a
smallest member, and that one is refuted (`SmallestSet` in `LicensingProofs`).
Recursive operators are out of reach, and the modules use none.

Some theorems have no run of their own, their properties being proved for every value
and checked before: `OneSeatPerDevice`, `Serialised` and the typing of
the modules whose runs ask other questions.

## Findings

- `stale` (`licensing.ts:247`): `currentOrFreshLicense` compares `updated_at` of the
  licence and the entitlement. Both are the start of a transaction. An extension
  that began before a signing and commits after it leaves the entitlement dated
  before the licence, and the old licence is served as current until something
  else touches the entitlement. `getTime()` compares milliseconds, so a change dated after
  the signing but within its millisecond is missed as well. `ServedUnlessBackdated`
  shows that these are the only ways.
- `stranded` (`signing-keys.ts:299`): two unforced retirements of the two eligible
  keys of a major lock different rows; each finds the other key eligible, and both
  commit. The runbook says that this is refused.
- `lost_renewal` (`billing.ts:462`): a paid invoice that waits for the entitlement's
  row behind an amendment finds nothing on re-evaluation, extends nothing and is
  marked applied; nothing applies it later.

Observations without a run, where no text of the repository says otherwise or the
step alone shows it:

- an activation whose key lookup precedes a rotation succeeds with the old key
  (`machine.ts:138`; `licensing.ts:379` says that the old key stops working);
- a reset of the transfers is dated by the start of its transaction: waiting behind
  a transfer dated later, it leaves that transfer counted (`licensing.ts:448`);
- a request that waits behind an amendment is told that its valid key or
  activation is not recognised (`licensing.ts:159`, `machine.ts:148`); trying again
  succeeds;
- fulfilment may send an activation key by mail (`activationKeyEmail`, `billing.ts:299`) and
  leaves its reveal slot open; `KeysShownOnce` counts what reveals and rotations answer;
- an event that is on file as `processed` is marked `failed`, and is run again, when the
  audit record after it cannot be written, which is in the same `try` (`billing.ts:111`);
  likewise `dead`, when its job cannot be completed for the last time
  (`jobs/runner.ts:43`). Handlers run twice for it, which they allow;
- a replay cut short between its two statements leaves the event `received` with
  no job (`billing.ts:645`);
- a job whose worker is cut short every time is claimed for ever: attempts are
  compared with their maximum only where a failure is caught (`jobs.ts:29`);
- eligibility can be granted to a key that is being retired, whose row is read
  without a lock (`signing-keys.ts:280`); signing asks for the status too. The trust record
  itself is not locked either: `GrantedUnderMinimum` speaks of the one that was read;
- `failJob` gives the job up one statement before its event is marked dead; an
  operator's retry that succeeds in between is overwritten (`jobs/runner.ts:51`);
- fulfilment stores the quantity Stripe has now and the seats that were ordered
  (`billing.ts:241`, `:372`); synchronisation compares with the stored quantity and
  does not repair it;
- an invoice that looks for its row just before fulfilment commits and reads the
  checkout just after is ignored (`billing.ts:440`); reconciliation repairs it.

Payments reversed:

- a partial refund that was read before a full one and is committed after it leaves
  the purchase `partially_refunded` (`billing.ts:572`); the licences stay revoked. A
  dispute writes over a refunded purchase likewise;
- a refund whose purchase is not stored yet is only audited, for the weekly review of
  `docs/operations.md:59`; a dispute in that place is not even audited.

Mail:

- a dispatcher that outlives its lease may mark a mail failed or dead that another has
  sent (`email.ts:119`; `overrun` in `OutcomeStays`);
- a report that overtakes the update to `sent` is stored and changes nothing
  (`mail-webhooks.ts:44`);
- `retryEmail` reads, then writes without a condition; a mail may be sent meanwhile;
- the mail transport ignores the idempotency key it is given, so a mail whose answer
  was lost with the connection is accepted twice; a `dead` mail keeps its payload.

Administrators and requests:

- removing a second factor does not ask whether it is that of the last super
  administrator (`admins.ts:118`); `SuperadminRemains` holds until one is removed;
- a token that is issued or rotated while its owner is being disabled stays live
  (`admins.ts:236`; `lateToken`); it works again if the owner is made active again;
- the audit record of a failed second factor is rolled back with its transaction
  (`human-auth.ts:198`);
- a request cut short after it has claimed its idempotency key leaves the key "in
  progress" until it expires (`idempotency.ts:37`); one that looks the key up after it
  was released is told that it was used for a different request.

Checkout:

- of two first submissions under one key, the second is told that there is no such
  checkout (`checkout.ts:119-135`); trying again succeeds;
- a checkout whose delayed payment failed can be opened again under its key; after the
  offer was linked to another product Stripe refuses that;
- whether the buyer owns the offer already is checked, then acted on: two keys can both
  be paid (`checkout.ts:97`). `BoughtOnce` shows that this takes orders that overlap;
- `syncOffer` may write an outcome about a product the offer is no longer linked to
  (`stripe-sync.ts:102-119`).

Customers:

- a customer whose address support changes keeps his members (`customers.ts:62`): an
  order from the new address is his, but its buyer sees it in the portal only once he is
  made a member (`moved` in `BuyerReaches`); an order from the old address makes another
  customer with the same owner;
- a request admitted before its manager was removed still acts (`portal-ui.tsx:106`), and
  may add him again; the portal admits managers of a disabled customer, whom its first
  page hides;
- a form in the store is written to the customer before the order is screened, and stays
  when the order is refused.

Catalogue, import, policies:

- activating a price that becomes effective later archives the current one at once:
  until then the offer cannot be bought (`withdrawn` in `SaleIsWhole`). A price whose time
  is over leaves an offer that is on sale without it, and nobody is told;
- an offer may have active prices of two intervals in a currency, since activation and its
  index are per interval (`catalogue.ts:564`); the one created last is shown and sold;
- `planOffer` counts a price that is active but not in force (`catalogue-import.ts:744`): the
  planned activation is then refused (`catalogue.ts:457`) and the import ends with a failed
  row, which `ImportDelivers` leaves aside;
- `resolvePurchasable` does not ask for the status of the edition;
- `upsertEditionPolicy` in an import overwrites an edition that was created after the
  plan; an offer published between the plan and its step has its price changed (`news`
  in `SettledStays`);
- an import whose runner stopped blocks every other import until it is applied again;
  a first runner that is still going after a take-over may write `applied`; the status
  `failed` is never reached (`catalogue-import.ts:958`);
- a certificate may end later than its licence; quantities above one may be sold of an
  edition without seats whose quantity scales seats.

## What is not modelled

- In `Licensing`: creation of a licence (the initial state; granting is in
  `PolicyRules`), bytes and file names
  of an envelope, formatting of names, validation of request bodies.
- In `SigningKeys`: re-encryption under another key-encryption key, the cache of
  decrypted keys, the cryptography.
- In `StripeBilling`: customers, invoice documents, emails; the limit on attempts (in
  `JobOutbox`). Reconciliation queues the same handlers the events have.
- In `JobOutbox`: offer synchronisation jobs, which the same claim drains, and
  the reminders.
- In `EmailOutbox`: templates, rendering, the encryption of payloads, the listing.
  They decide only that a mail cannot be sent, which `Send` may find.
- In `Administrators`: portal users, invitations, service accounts, permissions,
  addresses; the time limits of links, sessions and recent codes, which only refuse.
- In `Customers`: names, marketing consent, countries apart from the organisation's name,
  the customer that fulfilment makes for a checkout without one (the store never leaves
  one without), the mail to a new member, the sign-in of portal users.
- In `Checkout`: what screens a new checkout (one choice, some of it in `Customers`), tax rates, which are made
  the same way as products, and what becomes of an open session (`StripeBilling`).
- In `Catalogue`: when an offer may be bought (`available_from`, `available_until`),
  releases (their minimum is in `SigningKeys`), descriptive fields. In
  `CatalogueImport`: parsing the file and the errors of its cells; rows that have one
  take no part.
- In `PolicyRules`: encoding and cryptography of claims.
- HTTP adapters, views, audit inserts, operator scripts, invoice numbering:
  they change state only through the services above, or by one insert in the caller's
  transaction. The numbering is a database sequence.
- Two of the listed hazards have no property: that a replay is cut short between its
  statements and that a reversal comes before its purchase. Both are steps of the
  models (`LoseReplay`, `Unmapped`), whose loss is plain in the step itself.

## Plan

The modules of the first plan are written, and `Customers` with them; what their passing
runs check is proved, liveness apart. What is left, in the order of importance:

1. The composition of `StripeBilling`, `Reversals` and `Licensing` as a refinement of
   "what is not paid for is not served", and its proof from the invariants of the three.
2. Abstract specifications of the email outbox and of a checkout, as `SeatLedger` is one
   of the licence: their invariants already say what each would promise.
3. The safety half of the liveness properties as theorems: that a job, a mail or a request
   which has not ended always meets the guard of some step.
4. Tax rates and the sign-in of portal users, which follow `Checkout` and `Administrators`.
