------------------------------ MODULE JobOutbox ------------------------------
(***************************************************************************)
(* The job outbox and the Stripe event inbox it drains:                    *)
(* src/services/jobs.ts, drainJobs() of src/jobs/runner.ts, and the        *)
(* receive / process / replay frame of src/services/billing.ts.            *)
(*                                                                         *)
(* A worker claims a batch in one statement and then takes the jobs of the *)
(* batch one by one.  Every statement is a step, so a worker may stop      *)
(* between any two of them, and another may claim a job whose lease ran    *)
(* out while the first one is still at it.                                 *)
(*                                                                         *)
(* run_after and locked_until only matter relative to now(): a row keeps   *)
(* the time left until it is due (wait) and until its lease ends (lease),  *)
(* and Tick counts both down.  attempts is only compared with              *)
(* max_attempts, so it stops one above it.                                 *)
(*                                                                         *)
(* A definition marked "Variant" is a faulty form of the one that follows. *)
(***************************************************************************)
EXTENDS Integers, FiniteSets

CONSTANTS
    Event,            \* Stripe event ids
    Handled,          \* those whose type the server handles (HANDLED)
    Worker,           \* invocations: cron ticks and waitUntil kicks
    MaxReplay,        \* bound: replays of an event; each has a dedupe key of its own
    MaxAttempts,      \* max_attempts, 12 in the schema
    Batch,            \* the limit given to claimJobs, 3 or 1
    Lease,            \* leaseSeconds
    BackoffBase,      \* 30 seconds
    BackoffCap,       \* 6 hours
    RetryLaterDelay,  \* the 60 seconds of RetryLater
    MaxCrash          \* bound: invocations cut short and statements that fail

VARIABLES
    status,    \* stripe_events.status; "none" is no row
    job,       \* outbox_jobs by dedupe key; "none" is no row
    worker,    \* where each invocation stands
    handled,   \* events a handler has returned for (history)
    replaying, \* replays between their two statements
    crashes,   \* how many were
    late,      \* a lease has run out under the worker that held it (history)
    replayed   \* events that an operator replayed (history)

vars == <<status, job, worker, handled, replaying, crashes, late, replayed>>

JobAssumption ==
    /\ Handled \subseteq Event
    /\ MaxReplay \in Nat
    /\ MaxAttempts \in Nat \ {0}
    /\ Batch \in Nat \ {0}
    /\ Lease \in Nat \ {0}
    /\ BackoffBase \in Nat
    /\ BackoffCap \in Nat
    /\ RetryLaterDelay \in Nat
    /\ MaxCrash \in Nat

ASSUME JobAssumption

-----------------------------------------------------------------------------
(* Rows and invocations                                                     *)

\* 'stripe.event:<id>' is <<id, 0>>, 'stripe.event:<id>:replay:<time>' the others.
Key == Event \X (0..MaxReplay)

EventStatus == {"none", "received", "ignored", "processed", "failed", "dead"}

JobRow == [status : {"none", "pending", "running", "done", "dead"},
           attempts : 0..(MaxAttempts + 1), wait : Nat, lease : Nat]

NoJob == [status |-> "none", attempts |-> 0, wait |-> 0, lease |-> 0]
NewJob == [NoJob EXCEPT !.status = "pending"]

\* held: the attempts of each claimed job as RETURNING gave them, 0 if not claimed.
Invocation == [pc : {"ready", "handling", "handled", "returned", "thrown", "unrecorded",
                     "failing", "burying"},
               key : Key \cup {<<>>}, held : [Key -> 0..(MaxAttempts + 1)]]

Fresh == [pc |-> "ready", key |-> <<>>, held |-> [k \in Key |-> 0]]

Holds(w, k) == worker[w].held[k] > 0
Busy(w) == worker[w] # Fresh
At(w, pc) == worker[w].pc = pc
EventOf(w) == worker[w].key[1]
Live(k) == job[k].status \in {"pending", "running", "dead"}

TypeOK ==
    /\ status \in [Event -> EventStatus]
    /\ job \in [Key -> JobRow]
    /\ worker \in [Worker -> Invocation]
    /\ \A w \in Worker : ~At(w, "ready") => worker[w].key \in Key
    /\ handled \subseteq Event
    /\ replaying \subseteq Key
    /\ crashes \in 0..MaxCrash
    /\ late \in BOOLEAN
    /\ replayed \subseteq Event

Init ==
    /\ status = [e \in Event |-> "none"]
    /\ job = [k \in Key |-> NoJob]
    /\ worker = [w \in Worker |-> Fresh]
    /\ handled = {}
    /\ replaying = {}
    /\ crashes = 0
    /\ late = FALSE
    /\ replayed = {}

-----------------------------------------------------------------------------
(* Storing events                                                           *)

\* enqueueJob(): ON CONFLICT (dedupe_key) DO NOTHING.
Enqueued(k) == IF job[k].status = "none" THEN [job EXCEPT ![k] = NewJob] ELSE job

\* storeEvent(): row and job in one transaction; a known id changes nothing.
Receive(e) ==
    /\ status[e] = "none"
    /\ \/ /\ e \in Handled
          /\ status' = [status EXCEPT ![e] = "received"]
          /\ job' = Enqueued(<<e, 0>>)
       \/ /\ e \notin Handled
          /\ status' = [status EXCEPT ![e] = "ignored"]
          /\ job' = job
    /\ UNCHANGED <<worker, handled, replaying, crashes, late, replayed>>

\* replayStripeEvent(): first statement.  The key is dated, so it is a new one.
MarkReplay(e) ==
    /\ status[e] \in {"failed", "dead", "processed"}
    /\ \E n \in 1..MaxReplay :
         /\ job[<<e, n>>].status = "none"
         /\ <<e, n>> \notin replaying
         /\ replaying' = replaying \cup {<<e, n>>}
    /\ status' = [status EXCEPT ![e] = "received"]
    /\ replayed' = replayed \cup {e}
    /\ UNCHANGED <<job, worker, handled, crashes, late>>

\* replayStripeEvent(): second statement.
EnqueueReplay(k) ==
    /\ k \in replaying
    /\ job' = Enqueued(k)
    /\ replaying' = replaying \ {k}
    /\ UNCHANGED <<status, worker, handled, crashes, late, replayed>>

\* The operator's request stops between the two.
LoseReplay(k) ==
    /\ k \in replaying
    /\ crashes < MaxCrash
    /\ crashes' = crashes + 1
    /\ replaying' = replaying \ {k}
    /\ UNCHANGED <<status, job, worker, handled, late, replayed>>

-----------------------------------------------------------------------------
(* Draining                                                                 *)

\* Variants: leases are not looked at; expired leases are left alone.
DueAnyLease(k) ==
    \/ job[k].status = "pending" /\ job[k].wait = 0
    \/ job[k].status = "running"
DuePendingOnly(k) == job[k].status = "pending" /\ job[k].wait = 0

Due(k) ==
    \/ job[k].status = "pending" /\ job[k].wait = 0
    \/ job[k].status = "running" /\ job[k].lease = 0

Counted(n) == IF n > MaxAttempts THEN n ELSE n + 1

\* claimJobs().  ORDER BY run_after is not kept among jobs that are due: any of
\* them may come first.
Claim(w, S) ==
    /\ ~Busy(w)
    /\ S # {}
    /\ \A k \in S : Due(k)
    /\ Cardinality(S) <= Batch
    /\ Cardinality(S) < Batch => \A k \in Key : Due(k) => k \in S
    /\ job' = [k \in Key |->
         IF k \in S
         THEN [job[k] EXCEPT !.status = "running", !.attempts = Counted(@), !.lease = Lease]
         ELSE job[k]]
    /\ worker' = [worker EXCEPT ![w].held =
         [k \in Key |-> IF k \in S THEN Counted(job[k].attempts) ELSE 0]]
    /\ UNCHANGED <<status, handled, replaying, crashes, late, replayed>>

\* processStripeEvent() reads the event: processed and ignored ones return at once.
Begin(w, k) ==
    /\ At(w, "ready")
    /\ Holds(w, k)
    /\ worker' = [worker EXCEPT
         ![w].key = k,
         ![w].pc = IF status[k[1]] \in {"processed", "ignored"} THEN "returned" ELSE "handling"]
    /\ UNCHANGED <<status, job, handled, replaying, crashes, late, replayed>>

\* The handler of the event's type returns or throws.
Handle(w) ==
    /\ At(w, "handling")
    /\ \/ /\ handled' = handled \cup {EventOf(w)}
          /\ worker' = [worker EXCEPT ![w].pc = "handled"]
       \/ /\ handled' = handled
          /\ worker' = [worker EXCEPT ![w].pc = "thrown"]
    /\ UNCHANGED <<status, job, replaying, crashes, late, replayed>>

MarkProcessed(w) ==
    /\ At(w, "handled")
    /\ status' = [status EXCEPT ![EventOf(w)] = "processed"]
    /\ worker' = [worker EXCEPT ![w].pc = "returned"]
    /\ UNCHANGED <<job, handled, replaying, crashes, late, replayed>>

\* Variant: the event is marked first and the failure rethrown after it.
MarkFailedProcessed(w) ==
    /\ At(w, "thrown")
    /\ status' = [status EXCEPT ![EventOf(w)] = "processed"]
    /\ worker' = [worker EXCEPT ![w].pc = "returned"]
    /\ UNCHANGED <<job, handled, replaying, crashes, late, replayed>>

MarkFailed(w) ==
    /\ At(w, "thrown") \/ At(w, "unrecorded")
    /\ status' = [status EXCEPT ![EventOf(w)] = "failed"]
    /\ worker' = [worker EXCEPT ![w].pc = "failing"]
    /\ UNCHANGED <<job, handled, replaying, crashes, late, replayed>>

\* The worker is through with its job and goes on with the batch.
Advance(w, pc) ==
    worker' = [worker EXCEPT
      ![w].held = [@ EXCEPT ![worker[w].key] = 0],
      ![w].key = IF pc = "ready" THEN <<>> ELSE worker[w].key,
      ![w].pc = pc]

\* completeJob(): by id, whoever holds the lease now.
Complete(w) ==
    /\ At(w, "returned")
    /\ job' = [job EXCEPT ![worker[w].key] = [@ EXCEPT !.status = "done", !.lease = 0]]
    /\ Advance(w, "ready")
    /\ UNCHANGED <<status, handled, replaying, crashes, late, replayed>>

\* backoffSeconds().
Backoff(n) ==
    LET delay == BackoffBase * 2^(n - 1)
    IN  IF delay \in 0..BackoffCap THEN delay ELSE BackoffCap

\* Variant: the job is given the status of the event.
FailAsEvent(w) ==
    /\ At(w, "failing")
    /\ job' = [job EXCEPT ![worker[w].key] = [@ EXCEPT !.status = "failed", !.lease = 0]]
    /\ Advance(w, "ready")
    /\ UNCHANGED <<status, handled, replaying, crashes, late, replayed>>

\* failJob(): decides by the attempts of its own claim.
Fail(w) ==
    /\ At(w, "failing")
    /\ LET k == worker[w].key
           last == worker[w].held[k] >= MaxAttempts
       IN  /\ \E delay \in {Backoff(worker[w].held[k]), RetryLaterDelay} :
                job' = [job EXCEPT ![k] =
                  [@ EXCEPT !.status = IF last THEN "dead" ELSE "pending",
                            !.lease = 0,
                            !.wait = IF last THEN 0 ELSE delay]]
           /\ Advance(w, IF last THEN "burying" ELSE "ready")
    /\ UNCHANGED <<status, handled, replaying, crashes, late, replayed>>

\* drainJobs() after failJob() answered 'dead'.
Bury(w) ==
    /\ At(w, "burying")
    /\ status' = [status EXCEPT ![EventOf(w)] = "dead"]
    /\ Advance(w, "ready")
    /\ UNCHANGED <<job, handled, replaying, crashes, late, replayed>>

\* The invocation is cut short; the leases it holds run out.
Crash(w) ==
    /\ Busy(w)
    /\ crashes < MaxCrash
    /\ crashes' = crashes + 1
    /\ worker' = [worker EXCEPT ![w] = Fresh]
    /\ UNCHANGED <<status, job, handled, replaying, late, replayed>>

\* The read of the event fails, before the try of processStripeEvent().
ReadThrows(w) ==
    /\ At(w, "ready")
    /\ \E k \in Key :
         /\ Holds(w, k)
         /\ worker' = [worker EXCEPT ![w].key = k, ![w].pc = "failing"]
    /\ UNCHANGED <<status, job>>

\* The event is marked in the try of its handler, and the audit that follows is in it
\* too: the mark or its answer is lost, or the audit fails.
RecordThrows(w) ==
    /\ At(w, "handled")
    /\ status' \in {status, [status EXCEPT ![EventOf(w)] = "processed"]}
    /\ worker' = [worker EXCEPT ![w].pc = "unrecorded"]
    /\ job' = job

\* The catch cannot write; the exception reaches drainJobs() all the same.
MarkThrows(w) ==
    /\ At(w, "thrown") \/ At(w, "unrecorded")
    /\ worker' = [worker EXCEPT ![w].pc = "failing"]
    /\ UNCHANGED <<status, job>>

\* completeJob() is in the try whose catch fails the job.
CompleteThrows(w) ==
    /\ At(w, "returned")
    /\ job' \in {job, [job EXCEPT ![worker[w].key] = [@ EXCEPT !.status = "done", !.lease = 0]]}
    /\ worker' = [worker EXCEPT ![w].pc = "failing"]
    /\ status' = status

\* A statement answers with an error: it was not carried out, or only its answer is
\* lost.  (In failJob() and after it nothing catches: the invocation ends, see Crash.)
Break(w) ==
    /\ crashes < MaxCrash
    /\ crashes' = crashes + 1
    /\ ReadThrows(w) \/ RecordThrows(w) \/ MarkThrows(w) \/ CompleteThrows(w)
    /\ UNCHANGED <<handled, replaying, late, replayed>>

-----------------------------------------------------------------------------
(* Operators, housekeeping and time                                         *)

\* retryDeadJob()
Retry(k) ==
    /\ job[k].status = "dead"
    /\ job' = [job EXCEPT ![k] = [@ EXCEPT !.status = "pending", !.attempts = 0, !.wait = 0]]
    /\ UNCHANGED <<status, worker, handled, replaying, crashes, late, replayed>>

\* Variant: dead jobs are deleted too.
PurgeEnded(k) ==
    /\ job[k].status \in {"done", "dead"}
    /\ \A w \in Worker : ~Holds(w, k)
    /\ job' = [job EXCEPT ![k] = NoJob]
    /\ UNCHANGED <<status, worker, handled, replaying, crashes, late, replayed>>

\* dailyTick() deletes done jobs after 30 days, longer than any invocation lasts.
Purge(k) ==
    /\ job[k].status = "done"
    /\ \A w \in Worker : ~Holds(w, k)
    /\ job' = [job EXCEPT ![k] = NoJob]
    /\ UNCHANGED <<status, worker, handled, replaying, crashes, late, replayed>>

Down(n) == IF n = 0 THEN 0 ELSE n - 1

\* Time passes; a worker that is still at a job when its lease ends is late.
Tick ==
    /\ late' = (late \/ \E w \in Worker, k \in Key : Holds(w, k) /\ job[k].lease = 1)
    /\ job' = [k \in Key |-> [job[k] EXCEPT !.wait = Down(@), !.lease = Down(@)]]
    /\ UNCHANGED <<status, worker, handled, replaying, crashes, replayed>>

Finish(w) ==
    \/ Handle(w) \/ MarkProcessed(w) \/ MarkFailed(w)
    \/ Complete(w) \/ Fail(w) \/ Bury(w)

Operate(k) == EnqueueReplay(k) \/ LoseReplay(k) \/ Retry(k) \/ Purge(k)

Next ==
    \/ \E e \in Event : Receive(e) \/ MarkReplay(e)
    \/ \E k \in Key : Operate(k)
    \/ \E w \in Worker :
         \/ \E S \in SUBSET Key : Claim(w, S)
         \/ \E k \in Key : Begin(w, k)
         \/ Finish(w)
         \/ Break(w)
         \/ Crash(w)
    \/ Tick

Spec == Init /\ [][Next]_vars

\* Cron ticks keep coming, ORDER BY run_after passes no due job over for ever, and
\* an invocation that is not cut short goes through its batch.
JobFairness ==
    /\ WF_vars(Tick)
    /\ \A k \in Key :
         /\ SF_vars(\E w \in Worker, S \in SUBSET Key : k \in S /\ Claim(w, S))
         /\ \A w \in Worker : WF_vars(Begin(w, k))
    /\ \A w \in Worker : WF_vars(Finish(w))

-----------------------------------------------------------------------------
(* Properties                                                               *)

\* A stored event is handled before its job may end: until a handler has returned
\* for it, its job is pending, running or waits for an operator, whatever crashes
\* and whichever leases run out.
NoEventLost ==
    \A e \in Event : status[e] \notin {"none", "ignored"} /\ e \notin handled => Live(<<e, 0>>)

\* What an event's row says of it is true: no event is processed unhandled.
ProcessedWasHandled ==
    \A e \in Event : status[e] = "processed" => e \in handled

\* Until a worker outlives a lease, two invocations never work on one job, whatever
\* is claimed, retried, replayed or cut short.
OneWorkerPerJob ==
    ~late => \A k \in Key : \A v, w \in Worker : Holds(v, k) /\ Holds(w, k) => v = w

\* Nor is a failure written over the success of another invocation, unless an operator
\* replayed the event: only the one that has just handled it may, when its own record of
\* that fails.  (Its 'dead' may come over it as well: when its completion fails for the
\* last time, or an operator retries the job before drainJobs() has marked the event.)
NoFailureOverAnothersSuccess ==
    [][ \A e \in Event :
          status[e] = "processed" /\ status'[e] = "failed"
            => \/ late \/ e \in replayed
               \/ \E w \in Worker :
                    At(w, "unrecorded") /\ EventOf(w) = e /\ worker'[w] # worker[w] ]_vars

\* Every job ends done or dead when crashes are few.
JobsEnd ==
    \A k \in Key : job[k].status = "pending" ~> job[k].status \in {"done", "dead"}
=============================================================================
