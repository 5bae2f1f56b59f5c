--------------------------- MODULE JobOutboxProofs ---------------------------
(***************************************************************************)
(* Proofs about JobOutbox, for any number of events, workers, replays,     *)
(* attempts and crashes, and whether or not workers outlive their leases.  *)
(*                                                                         *)
(* NoEventLost is not inductive: a job ends when some worker says so, and  *)
(* that worker is trusted because of what it did several steps before.     *)
(* Inv records it: a worker about to complete a job has an event that was  *)
(* handled, an event that a job, a worker or a replay speaks of is stored, *)
(* and a stored event never becomes unknown or ignored again.              *)
(*                                                                         *)
(* That one worker has a job, and that no failure is written over a        *)
(* success, holds while no lease has run out under its holder: LeaseInv    *)
(* says that a held job then runs under a lease that is its holder's       *)
(* alone, and WorkInv that an event nobody replayed has one job (OneKey),  *)
(* whose worker has it unprocessed until the handler has returned          *)
(* (Undone).                                                               *)
(***************************************************************************)
EXTENDS JobOutbox, TLAPS

\* Stored, and of a type the server handles.
Known(e) == status[e] \notin {"none", "ignored"}

JobsKnown == \A k \in Key : job[k].status # "none" => Known(k[1])
HeldKnown == \A w \in Worker, k \in Key : Holds(w, k) => Known(k[1])
AtKnown == \A w \in Worker : ~At(w, "ready") => Known(EventOf(w))
ReplayKnown == \A k \in replaying : Known(k[1])
ReturnedWasHandled ==
    \A w \in Worker : worker[w].pc \in {"handled", "returned"} => EventOf(w) \in handled

Inv == /\ TypeOK /\ JobsKnown /\ HeldKnown /\ AtKnown /\ ReplayKnown
       /\ ReturnedWasHandled /\ ProcessedWasHandled /\ NoEventLost

\* The first component of a key is an event, and <<e, 0>> is a key.
LEMMA KeyParts ==
    /\ \A k \in Key : k[1] \in Event
    /\ \A e \in Event, n \in 0..MaxReplay : <<e, n>> \in Key /\ <<e, n>>[1] = e
    /\ \A e \in Event : <<e, 0>> \in Key
  BY JobAssumption DEF Key, JobAssumption

\* A claim raises the attempts of a job to at least one and at most one above the
\* maximum.
LEMMA CountedType ==
    ASSUME NEW n \in 0..(MaxAttempts + 1)
    PROVE  Counted(n) \in 0..(MaxAttempts + 1) /\ Counted(n) > 0
  BY JobAssumption DEF Counted, JobAssumption

\* A delay is never negative.
LEMMA BackoffType == ASSUME NEW n PROVE Backoff(n) \in Nat
  BY JobAssumption DEF Backoff, JobAssumption

\* Nothing is stored at first.
LEMMA InitInv == Init => Inv
<1> SUFFICES ASSUME Init PROVE Inv OBVIOUS
<1>1. NoJob \in JobRow /\ Fresh \in Invocation
  BY JobAssumption DEF NoJob, JobRow, Fresh, Invocation, JobAssumption
<1>2. TypeOK
  <2>1. \A w \in Worker : worker[w].pc = "ready"
    BY DEF Init, Fresh
  <2>2. crashes \in 0..MaxCrash /\ status \in [Event -> EventStatus]
    BY JobAssumption DEF Init, EventStatus, JobAssumption
  <2> QED BY <1>1, <2>1, <2>2 DEF Init, TypeOK, At
<1>3. JobsKnown /\ HeldKnown /\ AtKnown /\ ReplayKnown
  BY KeyParts DEF Init, JobsKnown, HeldKnown, AtKnown, ReplayKnown, Fresh, NoJob, Holds, At
<1>4. ReturnedWasHandled /\ ProcessedWasHandled /\ NoEventLost
  BY DEF Init, ReturnedWasHandled, ProcessedWasHandled, NoEventLost, Fresh
<1> QED BY <1>2, <1>3, <1>4 DEF Inv

\* Enqueueing keeps the type of the jobs.
LEMMA EnqueuedType ==
    ASSUME TypeOK, NEW k \in Key
    PROVE  Enqueued(k) \in [Key -> JobRow]
  BY JobAssumption DEF TypeOK, Enqueued, NewJob, NoJob, JobRow, JobAssumption

\* Going on with the batch keeps the type of the invocations.
LEMMA AdvanceType ==
    ASSUME TypeOK, NEW w \in Worker, ~At(w, "ready"),
           NEW pc \in {"ready", "burying"}, Advance(w, pc)
    PROVE  /\ worker' \in [Worker -> Invocation]
           /\ \A v \in Worker : worker'[v].pc # "ready" => worker'[v].key \in Key
<1> DEFINE k == worker[w].key
           h == [worker[w].held EXCEPT ![k] = 0]
           next == IF pc = "ready" THEN <<>> ELSE k
<1>1. k \in Key BY DEF TypeOK, At
<1>2. h \in [Key -> 0..(MaxAttempts + 1)]
  BY <1>1, JobAssumption DEF TypeOK, Invocation, JobAssumption
<1>3. next \in Key \cup {<<>>} /\ (pc # "ready" => next \in Key)
  BY <1>1
<1>4. ASSUME NEW H \in [Key -> 0..(MaxAttempts + 1)], NEW n \in Key \cup {<<>>}
      PROVE  [worker[w] EXCEPT !.held = H, !.key = n, !.pc = pc] \in Invocation
  BY DEF TypeOK, Invocation
<1>5. worker' = [worker EXCEPT ![w] = [worker[w] EXCEPT !.held = h, !.key = next, !.pc = pc]]
  BY DEF Advance, TypeOK
<1> HIDE DEF h, next
<1>6. worker' \in [Worker -> Invocation]
  BY <1>2, <1>3, <1>4, <1>5 DEF TypeOK
<1>7. ASSUME NEW v \in Worker, worker'[v].pc # "ready" PROVE worker'[v].key \in Key
  <2>1. CASE v = w
    <3>1. worker'[w].key = next /\ worker'[w].pc = pc
      BY <1>5 DEF TypeOK, Invocation
    <3> QED BY <1>3, <1>7, <2>1, <3>1
  <2>2. CASE v # w
    BY <1>5, <1>7, <2>2 DEF TypeOK, At
  <2> QED BY <2>1, <2>2
<1> QED BY <1>6, <1>7

\* What a statement that fails leaves behind: its worker still holds its job, an event
\* may have been marked by the worker that handled it, and a job may be done.
LEMMA BreakStep ==
    ASSUME TypeOK, NEW w \in Worker, Break(w)
    PROVE  /\ worker' \in [Worker -> Invocation]
           /\ \A v \in Worker : v # w => worker'[v] = worker[v]
           /\ worker[w].pc \in {"ready", "handled", "thrown", "unrecorded", "returned"}
           /\ worker'[w].pc \in {"unrecorded", "failing"}
           /\ worker'[w].held = worker[w].held
           /\ worker'[w].key \in Key
           /\ IF worker[w].pc = "ready" THEN Holds(w, worker'[w].key)
              ELSE worker'[w].key = worker[w].key
           /\ job' \in [Key -> JobRow]
           /\ \A k \in Key :
                \/ job'[k] = job[k]
                \/ /\ worker[w].pc = "returned" /\ k = worker[w].key
                   /\ job'[k] = [job[k] EXCEPT !.status = "done", !.lease = 0]
           /\ status' \in [Event -> EventStatus]
           /\ \A e \in Event :
                \/ status'[e] = status[e]
                \/ worker[w].pc = "handled" /\ e = EventOf(w) /\ status'[e] = "processed"
           /\ crashes' \in 0..MaxCrash
           /\ UNCHANGED <<handled, replaying, late, replayed>>
<1>1. crashes' \in 0..MaxCrash /\ UNCHANGED <<handled, replaying, late, replayed>>
  BY JobAssumption DEF Break, TypeOK, JobAssumption
<1>2. \A k \in Key, pc \in {"unrecorded", "failing"} :
        /\ [worker[w] EXCEPT !.key = k, !.pc = pc] \in Invocation
        /\ [worker[w] EXCEPT !.pc = pc] \in Invocation
  BY DEF TypeOK, Invocation
<1>3. \A k \in Key : [job[k] EXCEPT !.status = "done", !.lease = 0] \in JobRow
  BY DEF TypeOK, JobRow
<1>4. CASE ReadThrows(w)
  <2>1. PICK k \in Key :
          /\ At(w, "ready") /\ Holds(w, k)
          /\ worker' = [worker EXCEPT ![w] = [worker[w] EXCEPT !.key = k, !.pc = "failing"]]
    BY <1>4 DEF ReadThrows
  <2>2. /\ worker' \in [Worker -> Invocation]
        /\ \A v \in Worker : v # w => worker'[v] = worker[v]
        /\ worker'[w].pc = "failing" /\ worker'[w].key = k /\ worker'[w].held = worker[w].held
    <3> DEFINE x == [worker[w] EXCEPT !.key = k, !.pc = "failing"]
    <3>1. x \in Invocation BY <1>2
    <3>2. worker[w] \in Invocation BY DEF TypeOK
    <3>3. x.pc = "failing" /\ x.key = k /\ x.held = worker[w].held BY <3>2 DEF Invocation
    <3>4. worker' = [worker EXCEPT ![w] = x] BY <2>1
    <3> HIDE DEF x
    <3> QED BY <3>1, <3>3, <3>4 DEF TypeOK
  <2>3. status' = status /\ job' = job /\ worker[w].pc = "ready"
    BY <1>4, <2>1 DEF ReadThrows, At
  <2> QED BY <1>1, <2>1, <2>2, <2>3 DEF TypeOK
<1>8. ASSUME NEW pc \in {"unrecorded", "failing"}, worker' = [worker EXCEPT ![w].pc = pc], ~At(w, "ready")
      PROVE  /\ worker' \in [Worker -> Invocation]
             /\ \A v \in Worker : v # w => worker'[v] = worker[v]
             /\ worker'[w].pc = pc /\ worker'[w].key = worker[w].key /\ worker'[w].held = worker[w].held
             /\ worker[w].key \in Key
  BY <1>2, <1>8 DEF TypeOK, Invocation
<1>5. CASE RecordThrows(w)
  <2>1. /\ worker[w].pc = "handled" /\ ~At(w, "ready") /\ EventOf(w) = worker[w].key[1]
        /\ job' = job /\ worker' = [worker EXCEPT ![w].pc = "unrecorded"]
    BY <1>5 DEF RecordThrows, At, EventOf
  <2>2. /\ status' \in [Event -> EventStatus]
        /\ \A e \in Event : status'[e] = status[e] \/ (e = EventOf(w) /\ status'[e] = "processed")
    BY <1>5 DEF RecordThrows, TypeOK, EventStatus
  <2> QED BY <1>1, <1>8, <2>1, <2>2 DEF TypeOK
<1>6. CASE MarkThrows(w)
  <2>1. /\ worker[w].pc \in {"thrown", "unrecorded"} /\ ~At(w, "ready")
        /\ job' = job /\ status' = status /\ worker' = [worker EXCEPT ![w].pc = "failing"]
    BY <1>6 DEF MarkThrows, At
  <2> QED BY <1>1, <1>8, <2>1 DEF TypeOK
<1>7. CASE CompleteThrows(w)
  <2>1. /\ worker[w].pc = "returned" /\ ~At(w, "ready")
        /\ status' = status /\ worker' = [worker EXCEPT ![w].pc = "failing"]
    BY <1>7 DEF CompleteThrows, At
  <2>2. /\ job' \in [Key -> JobRow]
        /\ \A k \in Key :
             \/ job'[k] = job[k]
             \/ k = worker[w].key /\ job'[k] = [job[k] EXCEPT !.status = "done", !.lease = 0]
    BY <1>3, <1>7 DEF CompleteThrows, TypeOK
  <2> QED BY <1>1, <1>8, <2>1, <2>2 DEF TypeOK
<1> QED BY <1>4, <1>5, <1>6, <1>7 DEF Break

\* Every step keeps the types.
LEMMA StepTypes == TypeOK /\ [Next]_vars => TypeOK'
<1> SUFFICES ASSUME TypeOK, [Next]_vars PROVE TypeOK' OBVIOUS
<1>1. ASSUME NEW e \in Event, Receive(e) PROVE TypeOK'
  <2>1. job' \in [Key -> JobRow]
    BY <1>1, KeyParts, EnqueuedType DEF Receive, TypeOK
  <2>2. status' \in [Event -> EventStatus]
    BY <1>1 DEF Receive, TypeOK, EventStatus
  <2> QED BY <1>1, <2>1, <2>2 DEF Receive, TypeOK, At
<1>2. ASSUME NEW e \in Event, MarkReplay(e) PROVE TypeOK'
  BY <1>2, KeyParts DEF MarkReplay, TypeOK, At, EventStatus, Key
<1>3. ASSUME NEW k \in Key, Operate(k) PROVE TypeOK'
  <2>1. CASE EnqueueReplay(k)
    BY <2>1, EnqueuedType DEF EnqueueReplay, TypeOK, At
  <2>2. CASE LoseReplay(k)
    BY <2>2, JobAssumption DEF LoseReplay, TypeOK, At, JobAssumption
  <2>3. CASE Retry(k)
    <3>1. [job[k] EXCEPT !.status = "pending", !.attempts = 0, !.wait = 0] \in JobRow
      <4>1. job[k] \in JobRow /\ 0 \in 0..(MaxAttempts + 1)
        BY JobAssumption DEF TypeOK, JobAssumption
      <4> QED BY <4>1 DEF JobRow
    <3> QED BY <2>3, <3>1 DEF Retry, TypeOK, At
  <2>4. CASE Purge(k)
    BY <2>4, JobAssumption DEF Purge, TypeOK, At, JobRow, NoJob, JobAssumption
  <2> QED BY <1>3, <2>1, <2>2, <2>3, <2>4 DEF Operate
<1>4. ASSUME NEW w \in Worker, NEW S \in SUBSET Key, Claim(w, S) PROVE TypeOK'
  <2>1. \A k \in Key : job[k].attempts \in 0..(MaxAttempts + 1)
    BY DEF TypeOK, JobRow
  <2>2. \A k \in Key : Counted(job[k].attempts) \in 0..(MaxAttempts + 1)
    BY <2>1, CountedType
  <2>3. job' \in [Key -> JobRow]
    BY <1>4, <2>2, JobAssumption DEF Claim, TypeOK, JobRow, JobAssumption
  <2>4. worker' \in [Worker -> Invocation]
    <3> DEFINE H == [k \in Key |-> IF k \in S THEN Counted(job[k].attempts) ELSE 0]
    <3>1. H \in [Key -> 0..(MaxAttempts + 1)]
      BY <2>2, JobAssumption DEF JobAssumption
    <3>2. ASSUME NEW h \in [Key -> 0..(MaxAttempts + 1)]
          PROVE  [worker[w] EXCEPT !.held = h] \in Invocation
      BY DEF TypeOK, Invocation
    <3> HIDE DEF H
    <3>3. worker' = [worker EXCEPT ![w] = [worker[w] EXCEPT !.held = H]]
      BY <1>4 DEF Claim, H
    <3> QED BY <3>1, <3>2, <3>3 DEF TypeOK
  <2>5. \A v \in Worker : worker'[v].pc = worker[v].pc /\ worker'[v].key = worker[v].key
    BY <1>4 DEF Claim, TypeOK, Invocation
  <2> QED BY <1>4, <2>3, <2>4, <2>5 DEF Claim, TypeOK, At
<1>5. ASSUME NEW w \in Worker, NEW k \in Key, Begin(w, k) PROVE TypeOK'
  <2>1. \A pc \in {"returned", "handling"} : [worker[w] EXCEPT !.key = k, !.pc = pc] \in Invocation
    BY DEF TypeOK, Invocation
  <2> DEFINE pc == IF status[k[1]] \in {"processed", "ignored"} THEN "returned" ELSE "handling"
  <2>2. pc \in {"returned", "handling"} OBVIOUS
  <2>3. worker' = [worker EXCEPT ![w] = [worker[w] EXCEPT !.key = k, !.pc = pc]]
    BY <1>5 DEF Begin
  <2> HIDE DEF pc
  <2>4. worker' \in [Worker -> Invocation]
    BY <2>1, <2>2, <2>3 DEF TypeOK
  <2>5. ASSUME NEW v \in Worker, worker'[v].pc # "ready" PROVE worker'[v].key \in Key
    <3>1. CASE v = w
      BY <2>3, <3>1 DEF TypeOK, Invocation
    <3>2. CASE v # w
      BY <2>3, <2>5, <3>2 DEF TypeOK, At
    <3> QED BY <3>1, <3>2
  <2>6. UNCHANGED <<status, job, handled, replaying, crashes, late, replayed>>
    BY <1>5 DEF Begin
  <2> QED BY <2>4, <2>5, <2>6 DEF TypeOK, At
<1>6. ASSUME NEW w \in Worker, Finish(w) PROVE TypeOK'
  <2>0. ~At(w, "ready") /\ EventOf(w) \in Event
    BY <1>6, KeyParts
    DEF Finish, Handle, MarkProcessed, MarkFailed, Complete, Fail, Bury, TypeOK, At, EventOf
  <2>1. CASE Handle(w)
    <3>1. \A pc \in {"handled", "thrown"} : [worker[w] EXCEPT !.pc = pc] \in Invocation
      BY DEF TypeOK, Invocation
    <3>2. worker' \in [Worker -> Invocation]
      BY <2>1, <3>1 DEF Handle, TypeOK
    <3>3. \A v \in Worker : worker'[v].key = worker[v].key /\ (v # w => worker'[v] = worker[v])
      BY <2>1 DEF Handle, TypeOK, Invocation
    <3> QED BY <2>0, <2>1, <3>2, <3>3 DEF Handle, TypeOK, At
  <2>2. CASE MarkProcessed(w)
    BY <2>0, <2>2 DEF MarkProcessed, TypeOK, At, Invocation, EventStatus
  <2>3. CASE MarkFailed(w)
    BY <2>0, <2>3 DEF MarkFailed, TypeOK, At, Invocation, EventStatus
  <2>4. CASE Complete(w)
    <3>1. [job[worker[w].key] EXCEPT !.status = "done", !.lease = 0] \in JobRow
      BY <2>0, JobAssumption DEF TypeOK, At, JobRow, JobAssumption
    <3> QED BY <2>0, <2>4, <3>1, AdvanceType DEF Complete, TypeOK, At
  <2>5. CASE Fail(w)
    <3> DEFINE k == worker[w].key
               last == worker[w].held[k] >= MaxAttempts
    <3>1. PICK delay \in {Backoff(worker[w].held[k]), RetryLaterDelay} :
            job' = [job EXCEPT ![k] =
                  [@ EXCEPT !.status = IF last THEN "dead" ELSE "pending",
                            !.lease = 0,
                            !.wait = IF last THEN 0 ELSE delay]]
      BY <2>5 DEF Fail
    <3>2. delay \in Nat
      BY BackoffType, JobAssumption DEF JobAssumption
    <3>3. k \in Key
      BY <2>5 DEF Fail, TypeOK, At
    <3>4. [job[k] EXCEPT !.status = IF last THEN "dead" ELSE "pending", !.lease = 0,
                         !.wait = IF last THEN 0 ELSE delay] \in JobRow
      BY <3>2, <3>3 DEF TypeOK, JobRow
    <3>6. job' \in [Key -> JobRow]
      BY <3>1, <3>4 DEF TypeOK
    <3>5. /\ worker' \in [Worker -> Invocation]
          /\ \A v \in Worker : worker'[v].pc # "ready" => worker'[v].key \in Key
      BY <2>5, <2>0, AdvanceType DEF Fail, TypeOK, At
    <3> QED BY <2>5, <3>6, <3>5 DEF Fail, TypeOK, At
  <2>6. CASE Bury(w)
    BY <2>0, <2>6, AdvanceType DEF Bury, TypeOK, At, EventStatus
  <2> QED BY <1>6, <2>1, <2>2, <2>3, <2>4, <2>5, <2>6 DEF Finish
<1>7. ASSUME NEW w \in Worker, Crash(w) PROVE TypeOK'
  <2>1. Fresh \in Invocation /\ Fresh.pc = "ready"
    BY JobAssumption DEF Fresh, Invocation, JobAssumption
  <2>2. crashes' \in 0..MaxCrash
    BY <1>7, JobAssumption DEF Crash, TypeOK, JobAssumption
  <2>3. /\ worker' \in [Worker -> Invocation]
        /\ \A v \in Worker : worker'[v].pc # "ready" => worker'[v].key \in Key
    BY <1>7, <2>1 DEF Crash, TypeOK, At
  <2>4. UNCHANGED <<status, job, handled, replaying, late, replayed>>
    BY <1>7 DEF Crash
  <2> QED BY <2>2, <2>3, <2>4 DEF TypeOK, At
<1>10. ASSUME NEW w \in Worker, Break(w) PROVE TypeOK'
  <2>1. \A v \in Worker : worker'[v].pc # "ready" => worker'[v].key \in Key
    BY <1>10, BreakStep DEF TypeOK, At
  <2> QED BY <1>10, <2>1, BreakStep DEF TypeOK, At
<1>8. ASSUME Tick PROVE TypeOK'
  <2>1. \A n \in Nat : Down(n) \in Nat
    BY DEF Down
  <2>2. ASSUME NEW k \in Key
        PROVE  [job[k] EXCEPT !.wait = Down(@), !.lease = Down(@)] \in JobRow
    <3>1. job[k] \in JobRow
      BY DEF TypeOK
    <3>2. Down(job[k].wait) \in Nat /\ Down(job[k].lease) \in Nat
      BY <2>1, <3>1 DEF JobRow
    <3> QED BY <3>1, <3>2 DEF JobRow
  <2>3. job' \in [Key -> JobRow]
    BY <1>8, <2>2 DEF Tick
  <2> QED BY <1>8, <2>3 DEF Tick, TypeOK, At
<1>9. ASSUME UNCHANGED vars PROVE TypeOK'
  BY <1>9 DEF vars, TypeOK, At
<1> QED BY <1>1, <1>2, <1>3, <1>4, <1>5, <1>6, <1>7, <1>8, <1>9, <1>10 DEF Next

\* Type correctness of the outbox, the event inbox and the invocations.
THEOREM JobTyping == Spec => []TypeOK
<1>1. Init => TypeOK BY InitInv DEF Inv
<1> QED BY <1>1, StepTypes, PTL DEF Spec

-----------------------------------------------------------------------------
(* What a worker knows of the event it is at                                *)

\* A stored event stays stored, and a handled one handled.
LEMMA KnownStays ==
    ASSUME Inv, Next
    PROVE  /\ \A e \in Event : Known(e) => Known(e)'
           /\ handled \subseteq handled'
<1> DEFINE Stay == \A f \in Event : Known(f) => Known(f)'
<1>1. ASSUME NEW e \in Event, Receive(e) PROVE Stay
  BY <1>1 DEF Receive, Inv, TypeOK, Known
<1>2. ASSUME NEW e \in Event, MarkReplay(e) PROVE Stay
  BY <1>2 DEF MarkReplay, Inv, TypeOK, Known
<1>3. ASSUME NEW w \in Worker, Finish(w) PROVE Stay
  BY <1>3 DEF Finish, Handle, MarkProcessed, MarkFailed, Complete, Fail, Bury, Inv, TypeOK, Known
<1>4. ASSUME status' = status PROVE Stay
  BY <1>4 DEF Known
<1>5. handled \subseteq handled'
  BY DEF Next, Receive, MarkReplay, Operate, EnqueueReplay, LoseReplay, Retry, Purge, Claim,
         Begin, Finish, Handle, MarkProcessed, MarkFailed, Complete, Fail, Bury, Break, Crash,
         Tick
<1>10. ASSUME NEW w \in Worker, Break(w) PROVE Stay
  BY <1>10, BreakStep DEF Inv, Known
<1>6. ASSUME NEW k \in Key, Operate(k) PROVE Stay
  BY <1>4, <1>6 DEF Operate, EnqueueReplay, LoseReplay, Retry, Purge
<1>7. ASSUME NEW w \in Worker, NEW S, NEW k, Claim(w, S) \/ Begin(w, k) \/ Crash(w) PROVE Stay
  BY <1>4, <1>7 DEF Claim, Begin, Crash
<1>8. ASSUME Tick PROVE Stay
  BY <1>4, <1>8 DEF Tick
<1> HIDE DEF Stay
<1>9. Stay
  BY <1>1, <1>2, <1>3, <1>4, <1>6, <1>7, <1>8, <1>10 DEF Next
<1> QED BY <1>5, <1>9 DEF Stay

\* A job that appears belongs to an event that is stored.
LEMMA StepJobsKnown ==
    ASSUME Inv, Next
    PROVE  JobsKnown'
<1>1. SUFFICES ASSUME NEW k \in Key, job'[k].status # "none" PROVE Known(k[1])'
  BY DEF JobsKnown
<1>2. k[1] \in Event BY KeyParts
<1>3. SUFFICES ASSUME job[k].status = "none" PROVE Known(k[1])'
  BY <1>2, KnownStays DEF Inv, JobsKnown
<1>4. ASSUME NEW e \in Event, Receive(e) PROVE Known(k[1])'
  BY <1>1, <1>3, <1>4, KeyParts DEF Receive, Enqueued, Inv, TypeOK, Known
<1>5. ASSUME NEW l \in Key, Operate(l) PROVE Known(k[1])'
  BY <1>1, <1>2, <1>3, <1>5, KnownStays
  DEF Operate, EnqueueReplay, LoseReplay, Retry, Purge, Enqueued, Inv, TypeOK, ReplayKnown, NoJob
<1>6. ASSUME NEW w \in Worker, NEW S \in SUBSET Key, Claim(w, S) PROVE Known(k[1])'
  BY <1>1, <1>3, <1>6 DEF Claim, Due, Inv, TypeOK, JobRow
<1>7. ASSUME NEW w \in Worker, Finish(w) PROVE Known(k[1])'
  <2>1. ~At(w, "ready") /\ (job'[k].status # job[k].status => worker[w].key = k)
    BY <1>7 DEF Finish, Handle, MarkProcessed, MarkFailed, Complete, Fail, Bury, At, Inv, TypeOK
  <2> QED BY <1>1, <1>2, <1>3, <2>1, KnownStays DEF Inv, AtKnown, EventOf
<1>8. ASSUME Tick PROVE Known(k[1])'
  BY <1>1, <1>3, <1>8 DEF Tick, Inv, TypeOK, JobRow
<1>9. ASSUME job' = job PROVE Known(k[1])'
  BY <1>1, <1>3, <1>9
<1>10. ASSUME NEW w \in Worker, Break(w) PROVE Known(k[1])'
  <2>1. CASE job'[k] = job[k] BY <1>1, <1>3, <2>1
  <2>2. CASE job'[k] # job[k]
    <3>1. worker[w].pc = "returned" /\ worker[w].key = k BY <1>10, <2>2, BreakStep DEF Inv
    <3> QED BY <1>2, <3>1, KnownStays DEF Inv, AtKnown, At, EventOf
  <2> QED BY <2>1, <2>2
<1> QED BY <1>4, <1>5, <1>6, <1>7, <1>8, <1>9, <1>10 DEF Next, MarkReplay, Begin, Crash

\* A claimed job, and the one a worker is at, belong to an event that is stored.
LEMMA StepWorkersKnown ==
    ASSUME Inv, Next
    PROVE  HeldKnown' /\ AtKnown'
<1> DEFINE Same(v) == worker'[v] = worker[v]
           Good(v) == /\ \A k \in Key : Holds(v, k)' => Known(k[1])'
                      /\ ~At(v, "ready")' => Known(EventOf(v))'
<1>1. ASSUME NEW v \in Worker, Same(v) PROVE Good(v)
  <2>1. ~At(v, "ready") => EventOf(v) \in Event
    BY KeyParts DEF Inv, TypeOK, EventOf
  <2> QED BY <1>1, <2>1, KeyParts, KnownStays DEF Inv, HeldKnown, AtKnown, Holds, At, EventOf
<1>2. ASSUME NEW w \in Worker, NEW S \in SUBSET Key, Claim(w, S) PROVE Good(w)
  <2>1. worker[w].pc = "ready" /\ worker'[w].pc = "ready"
    <3>1. worker[w] = Fresh
      BY <1>2 DEF Claim, Busy
    <3>2. worker[w].pc = "ready"
      BY <3>1 DEF Fresh
    <3> QED BY <1>2, <3>2 DEF Claim, Inv, TypeOK, Invocation
  <2>2. ASSUME NEW k \in Key, Holds(w, k)' PROVE Known(k[1])'
    <3>1. k \in S
      <4>1. worker'[w].held = [l \in Key |-> IF l \in S THEN Counted(job[l].attempts) ELSE 0]
        BY <1>2 DEF Claim, Inv, TypeOK, Invocation
      <4>2. worker'[w].held[k] > 0
        BY <2>2 DEF Holds
      <4> QED BY <4>1, <4>2
    <3>2. job[k].status # "none"
      BY <1>2, <3>1 DEF Claim, Due
    <3> QED BY <3>2, KeyParts, KnownStays DEF Inv, JobsKnown
  <2> QED BY <2>1, <2>2 DEF At
<1>3. ASSUME NEW w \in Worker, NEW k \in Key, Begin(w, k) PROVE Good(w)
  <2>1. /\ worker'[w].key = k
        /\ worker'[w].held = worker[w].held
        /\ Holds(w, k)
    BY <1>3 DEF Begin, Inv, TypeOK, Invocation
  <2> QED BY <2>1, KeyParts, KnownStays DEF Inv, HeldKnown, Holds, At, EventOf
<1>4. ASSUME NEW w \in Worker, Finish(w) PROVE Good(w)
  <2>1. ~At(w, "ready") /\ worker[w].key \in Key
    BY <1>4 DEF Finish, Handle, MarkProcessed, MarkFailed, Complete, Fail, Bury, At, Inv, TypeOK
  <2>2. worker[w].held \in [Key -> 0..(MaxAttempts + 1)]
    BY DEF Inv, TypeOK, Invocation
  <2>3. \A k \in Key : worker'[w].held[k] = worker[w].held[k] \/ worker'[w].held[k] = 0
    <3>1. CASE worker'[w].held = worker[w].held
      BY <3>1
    <3>2. CASE \E pc : Advance(w, pc)
      <4>1. worker'[w].held = [worker[w].held EXCEPT ![worker[w].key] = 0]
        BY <3>2 DEF Advance, Inv, TypeOK, Invocation
      <4> QED BY <2>1, <2>2, <4>1
    <3>3. CASE \E pc : worker' = [worker EXCEPT ![w].pc = pc]
      BY <3>1, <3>3 DEF Inv, TypeOK, Invocation
    <3> QED BY <1>4, <3>1, <3>2, <3>3
            DEF Finish, Handle, MarkProcessed, MarkFailed, Complete, Fail, Bury
  <2>4. worker'[w].pc = "ready" \/ worker'[w].key = worker[w].key
    BY <1>4
    DEF Finish, Handle, MarkProcessed, MarkFailed, Complete, Fail, Bury, Advance, Inv, TypeOK,
        Invocation
  <2>5. \A k \in Key : Holds(w, k)' => Holds(w, k)
    BY <2>2, <2>3 DEF Holds
  <2> QED BY <2>1, <2>4, <2>5, KeyParts, KnownStays DEF Inv, HeldKnown, AtKnown, At, EventOf
<1>5. ASSUME NEW w \in Worker, Crash(w) PROVE Good(w)
  BY <1>5 DEF Crash, Fresh, Holds, At, Inv, TypeOK
<1>9. ASSUME NEW w \in Worker, Break(w) PROVE Good(w)
  <2>1. /\ worker'[w].held = worker[w].held /\ worker'[w].key \in Key
        /\ Holds(w, worker'[w].key) \/ (~At(w, "ready") /\ worker'[w].key = worker[w].key)
    BY <1>9, BreakStep DEF Inv, At
  <2> QED BY <2>1, KeyParts, KnownStays DEF Inv, HeldKnown, AtKnown, Holds, At, EventOf
<1>10. ASSUME NEW w \in Worker, NEW v \in Worker, v # w, Break(w) PROVE Same(v)
  BY <1>10, BreakStep DEF Inv
<1>6. ASSUME NEW w \in Worker, NEW v \in Worker, v # w, NEW S, NEW k,
             Claim(w, S) \/ Begin(w, k) \/ Finish(w) \/ Crash(w)
      PROVE  Same(v)
  BY <1>6
  DEF Claim, Begin, Crash, Finish, Handle, MarkProcessed, MarkFailed, Complete, Fail, Bury,
      Advance, Inv, TypeOK
<1>7. ASSUME worker' = worker PROVE \A v \in Worker : Same(v)
  BY <1>7
<1> HIDE DEF Same, Good
<1>8. \A v \in Worker : Good(v)
  <2> TAKE v \in Worker
  <2>1. ASSUME NEW w \in Worker, NEW S \in SUBSET Key, Claim(w, S) PROVE Good(v)
    BY <1>1, <1>2, <1>6, <2>1
  <2>2. ASSUME NEW w \in Worker, NEW k \in Key, Begin(w, k) PROVE Good(v)
    BY <1>1, <1>3, <1>6, <2>2
  <2>3. ASSUME NEW w \in Worker, Finish(w) PROVE Good(v)
    BY <1>1, <1>4, <1>6, <2>3
  <2>4. ASSUME NEW w \in Worker, Crash(w) PROVE Good(v)
    BY <1>1, <1>5, <1>6, <2>4
  <2>6. ASSUME NEW w \in Worker, Break(w) PROVE Good(v)
    BY <1>1, <1>9, <1>10, <2>6
  <2>5. CASE worker' = worker
    BY <1>1, <1>7, <2>5
  <2> QED BY <2>1, <2>2, <2>3, <2>4, <2>5, <2>6
          DEF Next, Receive, MarkReplay, Operate, EnqueueReplay, LoseReplay, Retry, Purge, Tick
<1> QED BY <1>8 DEF Good, HeldKnown, AtKnown

\* A replay under way belongs to an event that is stored.
LEMMA StepReplayKnown ==
    ASSUME Inv, Next
    PROVE  ReplayKnown'
<1>1. SUFFICES ASSUME NEW k \in replaying' PROVE Known(k[1])'
  BY DEF ReplayKnown
<1>2. CASE k \in replaying
  BY <1>2, KeyParts, KnownStays DEF Inv, TypeOK, ReplayKnown
<1>3. CASE k \notin replaying
  <2>1. PICK e \in Event : MarkReplay(e)
    BY <1>1, <1>3
    DEF Next, Receive, Operate, EnqueueReplay, LoseReplay, Retry, Purge, Claim, Begin, Finish,
        Handle, MarkProcessed, MarkFailed, Complete, Fail, Bury, Break, Crash, Tick
  <2>2. k[1] = e
    BY <1>1, <1>3, <2>1 DEF MarkReplay
  <2> QED BY <2>1, <2>2 DEF MarkReplay, Known, Inv, TypeOK
<1> QED BY <1>2, <1>3

-----------------------------------------------------------------------------
(* Handled events                                                           *)

\* A worker that says its event is handled is right.
LEMMA StepReturnedWasHandled ==
    ASSUME Inv, Next
    PROVE  ReturnedWasHandled'
<1>1. SUFFICES ASSUME NEW v \in Worker, worker'[v].pc \in {"handled", "returned"}
               PROVE  EventOf(v)' \in handled'
  BY DEF ReturnedWasHandled
<1>2. ASSUME worker'[v] = worker[v] PROVE EventOf(v)' \in handled'
  BY <1>1, <1>2, KnownStays DEF Inv, ReturnedWasHandled, EventOf
<1>3. ASSUME NEW w \in Worker, NEW S \in SUBSET Key, Claim(w, S) PROVE EventOf(v)' \in handled'
  <2>1. worker'[w].pc = worker[w].pc /\ worker[w] = Fresh
    BY <1>3 DEF Claim, Busy, Inv, TypeOK, Invocation
  <2>2. v # w
    BY <1>1, <2>1 DEF Fresh
  <2> QED BY <1>2, <1>3, <2>2 DEF Claim, Inv, TypeOK
<1>4. ASSUME NEW w \in Worker, NEW k \in Key, Begin(w, k) PROVE EventOf(v)' \in handled'
  <2>1. CASE v # w
    BY <1>2, <1>4, <2>1 DEF Begin, Inv, TypeOK
  <2>2. CASE v = w
    <3>1. /\ worker'[w].key = k
          /\ worker'[w].pc = IF status[k[1]] \in {"processed", "ignored"}
                             THEN "returned" ELSE "handling"
      BY <1>4 DEF Begin, Inv, TypeOK, Invocation
    <3>2. status[k[1]] # "ignored" /\ k[1] \in Event
      BY <1>4, KeyParts DEF Begin, Inv, HeldKnown, Known
    <3>3. status[k[1]] = "processed"
      BY <1>1, <2>2, <3>1, <3>2
    <3>4. k[1] \in handled
      BY <3>2, <3>3 DEF Inv, ProcessedWasHandled
    <3> QED BY <2>2, <3>1, <3>4, KnownStays DEF EventOf
  <2> QED BY <2>1, <2>2
<1>5. ASSUME NEW w \in Worker, Finish(w) PROVE EventOf(v)' \in handled'
  <2>1. CASE v # w
    BY <1>2, <1>5, <2>1
    DEF Finish, Handle, MarkProcessed, MarkFailed, Complete, Fail, Bury, Advance, Inv, TypeOK
  <2>2. CASE v = w
    <3>1. CASE Handle(w)
      <4>1. worker'[w].key = worker[w].key /\ worker'[w].pc \in {"handled", "thrown"}
        BY <3>1 DEF Handle, Inv, TypeOK, Invocation
      <4>2. worker'[w].pc = "thrown" => ~(worker'[w].pc \in {"handled", "returned"})
        OBVIOUS
      <4>3. worker'[w].pc = "handled" => handled' = handled \cup {EventOf(w)}
        BY <3>1 DEF Handle, Inv, TypeOK, Invocation
      <4>4. QED
        BY <1>1, <2>2, <4>1, <4>2, <4>3 DEF EventOf
    <3>2. CASE MarkProcessed(w)
      BY <2>2, <3>2, KnownStays
      DEF MarkProcessed, EventOf, At, Inv, ReturnedWasHandled, TypeOK, Invocation
    <3>3. CASE MarkFailed(w) \/ Complete(w) \/ Fail(w) \/ Bury(w)
      BY <1>1, <2>2, <3>3
      DEF MarkFailed, Complete, Fail, Bury, Advance, Inv, TypeOK, Invocation
    <3> QED BY <1>5, <3>1, <3>2, <3>3 DEF Finish
  <2> QED BY <2>1, <2>2
<1>8. ASSUME NEW w \in Worker, Break(w) PROVE EventOf(v)' \in handled'
  BY <1>1, <1>2, <1>8, BreakStep DEF Inv
<1>6. ASSUME NEW w \in Worker, Crash(w) PROVE EventOf(v)' \in handled'
  BY <1>1, <1>2, <1>6 DEF Crash, Fresh, Inv, TypeOK
<1>7. CASE worker' = worker
  BY <1>2, <1>7
<1> QED BY <1>3, <1>4, <1>5, <1>6, <1>7, <1>8
        DEF Next, Receive, MarkReplay, Operate, EnqueueReplay, LoseReplay, Retry, Purge, Tick

\* An event is marked processed by a worker that has handled it.
LEMMA StepProcessedWasHandled ==
    ASSUME Inv, Next
    PROVE  ProcessedWasHandled'
<1>1. SUFFICES ASSUME NEW e \in Event, status'[e] = "processed"
               PROVE  e \in handled'
  BY DEF ProcessedWasHandled
<1>2. CASE status[e] = "processed"
  BY <1>2, KnownStays DEF Inv, ProcessedWasHandled
<1>3. CASE status[e] # "processed"
  <2>1. PICK w \in Worker : MarkProcessed(w) \/ Break(w)
    BY <1>1, <1>3
    DEF Next, Receive, MarkReplay, Operate, EnqueueReplay, LoseReplay, Retry, Purge, Claim, Begin,
        Finish, Handle, MarkFailed, Complete, Fail, Bury, Crash, Tick, Inv, TypeOK
  <2>2. EventOf(w) = e /\ worker[w].pc = "handled"
    BY <1>1, <1>3, <2>1, BreakStep DEF MarkProcessed, At, Inv, TypeOK
  <2> QED BY <2>2, KnownStays DEF Inv, ReturnedWasHandled
<1> QED BY <1>2, <1>3

\* A job leaves the live statuses only when a worker completes it, and that worker
\* has handled its event.
LEMMA StepNoEventLost ==
    ASSUME Inv, Next
    PROVE  NoEventLost'
<1>1. SUFFICES ASSUME NEW e \in Event, Known(e)', e \notin handled'
               PROVE  Live(<<e, 0>>)'
  BY DEF NoEventLost, Known
<1> DEFINE f == <<e, 0>>
<1>2. f \in Key /\ f[1] = e BY KeyParts
<1>3. CASE ~Known(e)
  <2>1. Receive(e)
    BY <1>1, <1>3
    DEF Next, Receive, MarkReplay, Operate, EnqueueReplay, LoseReplay, Retry, Purge, Claim, Begin,
        Finish, Handle, MarkProcessed, MarkFailed, Complete, Fail, Bury, Break, ReadThrows,
        RecordThrows, MarkThrows, CompleteThrows, Crash, Tick, Known, Inv, TypeOK, AtKnown, At
  <2>2. job'[f].status = "pending"
    <3>1. job[f].status = "none"
      BY <1>2, <1>3 DEF Inv, JobsKnown
    <3> QED BY <1>1, <1>2, <2>1, <3>1 DEF Receive, Enqueued, NewJob, NoJob, Known, Inv, TypeOK
  <2> QED BY <2>2 DEF Live
<1>4. CASE Known(e)
  <2>1. Live(f)
    BY <1>1, <1>4, KnownStays DEF Inv, NoEventLost, Known
  <2>2. CASE job'[f].status = job[f].status
    BY <2>1, <2>2 DEF Live
  <2>3. ASSUME NEW k \in Key, job' = Enqueued(k) PROVE Live(f)'
    BY <1>2, <2>1, <2>3 DEF Enqueued, Live, NewJob, NoJob, Inv, TypeOK
  <2>4. ASSUME NEW k \in Key, Operate(k) PROVE Live(f)'
    BY <1>2, <2>1, <2>2, <2>3, <2>4
    DEF Operate, EnqueueReplay, LoseReplay, Retry, Purge, Live, Inv, TypeOK, JobRow
  <2>5. ASSUME NEW w \in Worker, NEW S \in SUBSET Key, Claim(w, S) PROVE Live(f)'
    BY <1>2, <2>1, <2>5 DEF Claim, Live, Inv, TypeOK, JobRow
  <2>6. ASSUME NEW w \in Worker, Complete(w) PROVE Live(f)'
    <3>1. worker[w].key # f
      BY <1>1, <1>2, <2>6, KnownStays DEF Complete, At, Inv, ReturnedWasHandled, EventOf
    <3> QED BY <1>2, <2>2, <2>6, <3>1 DEF Complete, Inv, TypeOK
  <2>7. ASSUME NEW w \in Worker, Fail(w) PROVE Live(f)'
    <3> DEFINE k == worker[w].key
    <3>1. CASE k = f
      BY <1>2, <2>7, <3>1 DEF Fail, Live, Inv, TypeOK, JobRow
    <3>2. CASE k # f
      BY <1>2, <2>2, <2>7, <3>2 DEF Fail, Inv, TypeOK
    <3> QED BY <3>1, <3>2
  <2>8. CASE Tick
    BY <1>2, <2>2, <2>8 DEF Tick, Inv, TypeOK, JobRow
  <2>9. ASSUME NEW d \in Event, Receive(d) PROVE Live(f)'
    BY <2>2, <2>3, <2>9, KeyParts DEF Receive
  <2>10. CASE job' = job
    BY <2>2, <2>10
  <2>11. ASSUME NEW w \in Worker, Break(w) PROVE Live(f)'
    <3>1. worker[w].pc = "returned" => worker[w].key # f
      BY <1>1, <1>2, KnownStays DEF Inv, ReturnedWasHandled, EventOf
    <3> QED BY <1>2, <2>2, <2>11, <3>1, BreakStep DEF Inv
  <2> QED BY <2>4, <2>5, <2>6, <2>7, <2>8, <2>9, <2>10, <2>11
          DEF Next, MarkReplay, Begin, Finish, Handle, MarkProcessed, MarkFailed, Bury, Crash
<1> QED BY <1>3, <1>4

\* Every step keeps the invariant.
LEMMA StepInv == Inv /\ [Next]_vars => Inv'
<1> SUFFICES ASSUME Inv, [Next]_vars PROVE Inv' OBVIOUS
<1>1. CASE Next
  BY <1>1, StepTypes, StepJobsKnown, StepWorkersKnown, StepReplayKnown, StepReturnedWasHandled,
     StepProcessedWasHandled, StepNoEventLost DEF Inv
<1>2. CASE UNCHANGED vars
  BY <1>2
  DEF Inv, TypeOK, JobsKnown, HeldKnown, AtKnown, ReplayKnown, ReturnedWasHandled,
      ProcessedWasHandled, NoEventLost, Live, Known, Holds, At, EventOf, vars
<1> QED BY <1>1, <1>2

\* At-least-once: whatever overlaps, crashes or runs out, a stored event keeps a
\* live job until a handler has returned for it.
THEOREM EventsSurvive == Spec => []NoEventLost
<1>1. Inv => NoEventLost BY DEF Inv
<1> QED BY <1>1, InitInv, StepInv, PTL DEF Spec

\* An event is marked processed only after a handler returned for it.
THEOREM ProcessedMeansHandled == Spec => []ProcessedWasHandled
<1>1. Inv => ProcessedWasHandled BY DEF Inv
<1> QED BY <1>1, InitInv, StepInv, PTL DEF Spec

-----------------------------------------------------------------------------
(* Leases                                                                   *)

\* A job that is held is running under a lease, or done if all that was lost is the
\* answer to its completion, and nobody else holds it.  The worker at a job still holds
\* it, except when all that is left is to bury it.
Leased ==
    \A w \in Worker, k \in Key :
      Holds(w, k) => job[k].status = "done" \/ (job[k].status = "running" /\ job[k].lease > 0)
Alone == \A k \in Key : \A v, w \in Worker : Holds(v, k) /\ Holds(w, k) => v = w
AtHeld ==
    \A w \in Worker :
      worker[w].pc \in {"handling", "handled", "returned", "thrown", "unrecorded", "failing"}
        => Holds(w, worker[w].key)

LeaseInv == TypeOK /\ AtHeld /\ (~late => Leased /\ Alone)

\* Nobody holds anything at first.
LEMMA InitLease == Init => LeaseInv
  BY InitInv DEF Init, Inv, LeaseInv, AtHeld, Leased, Alone, Fresh, Holds

\* Only a claim makes a worker hold a job it did not hold.
LEMMA HeldBefore ==
    ASSUME LeaseInv, Next, NEW v \in Worker, NEW k \in Key, Holds(v, k)',
           \A S \in SUBSET Key : ~(k \in S /\ Claim(v, S))
    PROVE  Holds(v, k)
<1>1. CASE worker'[v] = worker[v]
  BY <1>1 DEF Holds
<1>2. ASSUME NEW S \in SUBSET Key, Claim(v, S) PROVE FALSE
  <2>1. worker'[v].held[k] = 0
    BY <1>2 DEF Claim, LeaseInv, TypeOK, Invocation
  <2> QED BY <2>1 DEF Holds
<1>3. ASSUME NEW l \in Key, Begin(v, l) PROVE Holds(v, k)
  BY <1>3 DEF Begin, Holds, LeaseInv, TypeOK, Invocation
<1>4. ASSUME Finish(v) PROVE Holds(v, k)
  <2>1. CASE \E pc : Advance(v, pc)
    BY <2>1 DEF Advance, Holds, LeaseInv, TypeOK, Invocation
  <2>2. CASE \E pc : worker' = [worker EXCEPT ![v].pc = pc]
    BY <2>2 DEF Holds, LeaseInv, TypeOK, Invocation
  <2> QED BY <1>4, <2>1, <2>2
          DEF Finish, Handle, MarkProcessed, MarkFailed, Complete, Fail, Bury
<1>5. ASSUME Crash(v) PROVE Holds(v, k)
  BY <1>5 DEF Crash, Fresh, Holds, LeaseInv, TypeOK
<1>9. ASSUME Break(v) PROVE Holds(v, k)
  BY <1>9, BreakStep DEF Holds, LeaseInv
<1>10. ASSUME NEW w \in Worker, w # v, Break(w) PROVE worker'[v] = worker[v]
  BY <1>10, BreakStep DEF LeaseInv
<1>6. ASSUME NEW w \in Worker, w # v, NEW S, NEW l,
             Claim(w, S) \/ Begin(w, l) \/ Finish(w) \/ Crash(w)
      PROVE  worker'[v] = worker[v]
  BY <1>6
  DEF Claim, Begin, Crash, Finish, Handle, MarkProcessed, MarkFailed, Complete, Fail, Bury,
      Advance, LeaseInv, TypeOK
<1>7. CASE worker' = worker
  BY <1>1, <1>7
<1>8. CASE \E w \in Worker : \/ \E S \in SUBSET Key : Claim(w, S)
                             \/ \E l \in Key : Begin(w, l)
                             \/ Finish(w)
                             \/ Break(w)
                             \/ Crash(w)
  <2>1. PICK w \in Worker : \/ \E S \in SUBSET Key : Claim(w, S)
                            \/ \E l \in Key : Begin(w, l)
                            \/ Finish(w)
                            \/ Break(w)
                            \/ Crash(w)
    BY <1>8
  <2> QED BY <1>1, <1>2, <1>3, <1>4, <1>5, <1>6, <1>9, <1>10, <2>1
<1> QED BY <1>7, <1>8
        DEF Next, Receive, MarkReplay, Operate, EnqueueReplay, LoseReplay, Retry, Purge, Tick

\* A job that one worker claims is held by nobody.
LEMMA ClaimedWasFree ==
    ASSUME LeaseInv, ~late, NEW w \in Worker, NEW S \in SUBSET Key, Claim(w, S),
           NEW k \in S, NEW v \in Worker
    PROVE  ~Holds(v, k)
<1>1. \/ job[k].status = "pending"
      \/ job[k].status = "running" /\ job[k].lease = 0
  BY DEF Claim, Due
<1> QED BY <1>1 DEF LeaseInv, Leased

\* A worker lets go of its job only when it goes on with its batch.
LEMMA StepAtHeld ==
    ASSUME LeaseInv, Next
    PROVE  AtHeld'
<1> DEFINE Busy_ == {"handling", "handled", "returned", "thrown", "unrecorded", "failing"}
<1>1. SUFFICES ASSUME NEW v \in Worker, worker'[v].pc \in Busy_
               PROVE  Holds(v, worker[v].key)'
  BY DEF AtHeld
<1>2. ASSUME worker'[v] = worker[v] PROVE Holds(v, worker[v].key)'
  BY <1>1, <1>2 DEF LeaseInv, AtHeld, Holds
<1>3. ASSUME NEW w \in Worker, NEW S \in SUBSET Key, Claim(w, S)
      PROVE  Holds(v, worker[v].key)'
  <2>1. worker'[w].pc = worker[w].pc /\ worker[w] = Fresh
    BY <1>3 DEF Claim, Busy, LeaseInv, TypeOK, Invocation
  <2>2. v # w
    BY <1>1, <2>1 DEF Fresh
  <2> QED BY <1>2, <1>3, <2>2 DEF Claim, LeaseInv, TypeOK
<1>4. ASSUME NEW w \in Worker, NEW k \in Key, Begin(w, k) PROVE Holds(v, worker[v].key)'
  <2>1. CASE v # w
    BY <1>2, <1>4, <2>1 DEF Begin, LeaseInv, TypeOK
  <2>2. CASE v = w
    BY <1>4, <2>2 DEF Begin, Holds, LeaseInv, TypeOK, Invocation
  <2> QED BY <2>1, <2>2
<1>5. ASSUME NEW w \in Worker, Finish(w) PROVE Holds(v, worker[v].key)'
  <2>1. CASE v # w
    BY <1>2, <1>5, <2>1
    DEF Finish, Handle, MarkProcessed, MarkFailed, Complete, Fail, Bury, Advance, LeaseInv, TypeOK
  <2>2. CASE v = w
    <3>1. CASE Handle(w) \/ MarkProcessed(w) \/ MarkFailed(w)
      <4>1. worker[w].pc \in Busy_
        BY <3>1 DEF Handle, MarkProcessed, MarkFailed, At
      <4>2. worker'[w].key = worker[w].key /\ worker'[w].held = worker[w].held
        BY <3>1 DEF Handle, MarkProcessed, MarkFailed, LeaseInv, TypeOK, Invocation
      <4> QED BY <2>2, <4>1, <4>2 DEF LeaseInv, AtHeld, Holds
    <3>2. CASE Complete(w) \/ Fail(w) \/ Bury(w)
      <4>1. worker'[w].pc \in {"ready", "burying"}
        BY <3>2 DEF Complete, Fail, Bury, Advance, LeaseInv, TypeOK, Invocation
      <4> QED BY <1>1, <2>2, <4>1
    <3> QED BY <1>5, <3>1, <3>2 DEF Finish
  <2> QED BY <2>1, <2>2
<1>8. ASSUME NEW w \in Worker, Break(w) PROVE Holds(v, worker[v].key)'
  <2>1. CASE v # w
    BY <1>2, <1>8, <2>1, BreakStep DEF LeaseInv
  <2>2. CASE v = w
    BY <1>8, <2>2, BreakStep DEF LeaseInv, AtHeld, Holds
  <2> QED BY <2>1, <2>2
<1>6. ASSUME NEW w \in Worker, Crash(w) PROVE Holds(v, worker[v].key)'
  BY <1>1, <1>2, <1>6 DEF Crash, Fresh, LeaseInv, TypeOK
<1>7. CASE worker' = worker
  BY <1>2, <1>7
<1> QED BY <1>3, <1>4, <1>5, <1>6, <1>7, <1>8
        DEF Next, Receive, MarkReplay, Operate, EnqueueReplay, LoseReplay, Retry, Purge, Tick

\* A second worker comes to a job only after the first let go of it.
LEMMA StepAlone ==
    ASSUME LeaseInv, Next, ~late
    PROVE  Alone'
<1>1. SUFFICES ASSUME NEW k \in Key, NEW v \in Worker, NEW w \in Worker,
                      Holds(v, k)', Holds(w, k)'
               PROVE  v = w
  BY DEF Alone
<1>2. ASSUME NEW u \in Worker, NEW S \in SUBSET Key, k \in S, Claim(u, S)
      PROVE  v = u /\ w = u
  <2>1. ~Holds(v, k) /\ ~Holds(w, k)
    BY <1>2, ClaimedWasFree
  <2>2. ASSUME NEW x \in Worker, x # u PROVE worker'[x] = worker[x]
    BY <1>2, <2>2 DEF Claim, LeaseInv, TypeOK
  <2> QED BY <1>1, <2>1, <2>2 DEF Holds
<1>3. CASE \A u \in Worker : \A S \in SUBSET Key : ~(k \in S /\ Claim(u, S))
  BY <1>1, <1>3, HeldBefore DEF LeaseInv, Alone
<1> QED BY <1>2, <1>3

\* A held job keeps its lease: those that write it hold it or come when nobody does.
LEMMA StepLeased ==
    ASSUME LeaseInv, Next, ~late, ~late'
    PROVE  Leased'
<1>0. ~late' OBVIOUS
<1>1. SUFFICES ASSUME NEW v \in Worker, NEW k \in Key, Holds(v, k)'
               PROVE  job'[k].status = "done" \/ (job'[k].status = "running" /\ job'[k].lease > 0)
  BY DEF Leased
<1> DEFINE Goal == job'[k].status = "done" \/ (job'[k].status = "running" /\ job'[k].lease > 0)
<1>2. ASSUME NEW w \in Worker, NEW S \in SUBSET Key, Claim(w, S), k \in S PROVE Goal
  <2>1. job'[k] = [job[k] EXCEPT !.status = "running", !.attempts = Counted(@), !.lease = Lease]
    BY <1>2 DEF Claim
  <2>2. job[k] \in JobRow
    BY DEF LeaseInv, TypeOK
  <2>3. job'[k].status = "running" /\ job'[k].lease = Lease
    BY <2>1, <2>2 DEF JobRow
  <2> QED BY <2>3, JobAssumption DEF JobAssumption
<1>3. CASE \A w \in Worker : \A S \in SUBSET Key : ~(k \in S /\ Claim(w, S))
  <2>1. Holds(v, k)
    BY <1>1, <1>3, HeldBefore
  <2>2. job[k].status = "done" \/ (job[k].status = "running" /\ job[k].lease > 0)
    BY <2>1 DEF LeaseInv, Leased
  <2>3. ASSUME job'[k] = job[k] PROVE Goal
    BY <2>2, <2>3
  <2>4. ASSUME NEW l \in Key, job' = Enqueued(l) PROVE Goal
    BY <2>2, <2>4 DEF Enqueued, LeaseInv, TypeOK
  <2>5. ASSUME NEW l \in Key, Operate(l) PROVE Goal
    BY <2>1, <2>2, <2>3, <2>4, <2>5 DEF Operate, EnqueueReplay, LoseReplay, Retry, Purge, LeaseInv, TypeOK
  <2>6. ASSUME NEW w \in Worker, NEW S \in SUBSET Key, Claim(w, S) PROVE Goal
    BY <1>3, <2>3, <2>6 DEF Claim
  <2>7. ASSUME NEW w \in Worker, Complete(w) \/ Fail(w) PROVE Goal
    <3>1. Holds(w, worker[w].key) /\ worker[w].key \in Key
      BY <2>7 DEF Complete, Fail, At, LeaseInv, AtHeld, TypeOK
    <3>2. worker'[w].held[worker[w].key] = 0
      BY <2>7, <3>1 DEF Complete, Fail, Advance, LeaseInv, TypeOK, Invocation
    <3>3. worker[w].key # k
      BY <1>1, <2>1, <3>1, <3>2 DEF Holds, LeaseInv, Alone
    <3> QED BY <2>3, <2>7, <3>3 DEF Complete, Fail, LeaseInv, TypeOK
  <2>8. CASE Tick
    <3>1. job[k].lease # 1
      BY <1>0, <2>1, <2>8 DEF Tick
    <3>2. job'[k].status = job[k].status /\ job'[k].lease = Down(job[k].lease)
      BY <2>8 DEF Tick, LeaseInv, TypeOK, JobRow
    <3> QED BY <2>2, <3>1, <3>2 DEF Down, LeaseInv, TypeOK, JobRow
  <2>9. ASSUME NEW e \in Event, Receive(e) PROVE Goal
    BY <2>3, <2>4, <2>9, KeyParts DEF Receive
  <2>10. CASE job' = job
    BY <2>3, <2>10
  <2>11. ASSUME NEW w \in Worker, Break(w) PROVE Goal
    <3>1. CASE job'[k] = job[k] BY <2>3, <3>1
    <3>2. CASE job'[k] = [job[k] EXCEPT !.status = "done", !.lease = 0]
      <4>1. job[k] \in JobRow BY DEF LeaseInv, TypeOK
      <4> QED BY <3>2, <4>1 DEF JobRow
    <3> QED BY <2>11, <3>1, <3>2, BreakStep DEF LeaseInv
  <2> QED BY <2>5, <2>6, <2>7, <2>8, <2>9, <2>10, <2>11
          DEF Next, MarkReplay, Begin, Finish, Handle, MarkProcessed, MarkFailed, Bury, Crash
<1> QED BY <1>2, <1>3

\* Every step keeps it.
LEMMA StepLease == LeaseInv /\ [Next]_vars => LeaseInv'
<1> SUFFICES ASSUME LeaseInv, [Next]_vars PROVE LeaseInv' OBVIOUS
<1>1. CASE Next
  <2>1. late => late'
    BY <1>1
    DEF Next, Receive, MarkReplay, Operate, EnqueueReplay, LoseReplay, Retry, Purge, Claim,
        Begin, Finish, Handle, MarkProcessed, MarkFailed, Complete, Fail, Bury, Break, Crash, Tick
  <2> QED BY <1>1, <2>1, StepTypes, StepAtHeld, StepAlone, StepLeased DEF LeaseInv
<1>2. CASE UNCHANGED vars
  BY <1>2 DEF LeaseInv, TypeOK, AtHeld, Leased, Alone, Holds, At, vars
<1> QED BY <1>1, <1>2

\* When no worker outlives its lease, one worker at a time is at a job.
THEOREM LeasesExclude == Spec => []OneWorkerPerJob
<1>1. LeaseInv => OneWorkerPerJob BY DEF LeaseInv, Alone, OneWorkerPerJob
<1> QED BY <1>1, InitLease, StepLease, PTL DEF Spec

-----------------------------------------------------------------------------
(* Failures and successes                                                   *)

\* An event that nobody replayed has one job, whatever workers and operators hold; and
\* a worker at its handler has an event that nobody else processed while leases last.
Single(k) == k[1] \in replayed \/ k = <<k[1], 0>>

OneKey ==
    /\ \A k \in Key : job[k].status # "none" => Single(k)
    /\ \A k \in replaying : Single(k)
    /\ \A w \in Worker, k \in Key : Holds(w, k) => Single(k)

Undone(w) ==
    worker[w].pc \in {"handling", "thrown"} => status[EventOf(w)] # "processed" \/ EventOf(w) \in replayed

WorkInv == LeaseInv /\ OneKey /\ (~late => \A w \in Worker : Undone(w))

\* What is known of a replay, and of a lease that ran out, stays known.
LEMMA HistoryGrows == Next => replayed \subseteq replayed' /\ (late => late')
<1>1. Next => replayed' = replayed \/ \E e \in Event : replayed' = replayed \cup {e}
  BY DEF Next, Receive, MarkReplay, Operate, EnqueueReplay, LoseReplay, Retry, Purge, Claim,
         Begin, Finish, Handle, MarkProcessed, MarkFailed, Complete, Fail, Bury, Break, Crash,
         Tick
<1>2. Next /\ late => late'
  BY DEF Next, Receive, MarkReplay, Operate, EnqueueReplay, LoseReplay, Retry, Purge, Claim,
         Begin, Finish, Handle, MarkProcessed, MarkFailed, Complete, Fail, Bury, Break, Crash,
         Tick
<1> QED BY <1>1, <1>2

LEMMA InitWork == Init => WorkInv
<1> SUFFICES ASSUME Init PROVE WorkInv OBVIOUS
<1>1. \A w \in Worker : worker[w].pc = "ready" /\ \A k \in Key : ~Holds(w, k) BY DEF Init, Fresh, Holds
<1>2. \A k \in Key : job[k].status = "none" BY DEF Init, NoJob
<1> QED BY <1>1, <1>2, InitLease DEF Init, WorkInv, OneKey, Undone

\* Jobs are made by a first delivery or a replay, and held by who claimed them.
LEMMA StepOneKey == ASSUME WorkInv, Next PROVE OneKey'
<1>1. \A k \in Key : Single(k) => Single(k)' BY HistoryGrows DEF Single
<1>2. TypeOK BY DEF WorkInv, LeaseInv
<1>3. ASSUME NEW k \in Key, job'[k].status # "none" PROVE Single(k)'
  <2>1. CASE job[k].status # "none" BY <1>1, <2>1 DEF WorkInv, OneKey
  <2>2. ASSUME NEW e \in Event, Receive(e), job[k].status = "none" PROVE Single(k)'
    <3>1. k = <<e, 0>> BY <1>2, <1>3, <2>2, KeyParts DEF Receive, Enqueued, TypeOK
    <3> QED BY <3>1 DEF Single
  <2>3. ASSUME NEW l \in Key, Operate(l), job[k].status = "none" PROVE Single(k)'
    <3>1. l = k /\ EnqueueReplay(l)
      BY <1>2, <1>3, <2>3 DEF Operate, EnqueueReplay, LoseReplay, Retry, Purge, Enqueued, TypeOK, NoJob
    <3> QED BY <1>1, <3>1 DEF EnqueueReplay, WorkInv, OneKey
  <2>4. ASSUME NEW w \in Worker, NEW S \in SUBSET Key, Claim(w, S) PROVE job[k].status # "none"
    <3>1. CASE k \in S BY <2>4, <3>1 DEF Claim, Due
    <3>2. CASE k \notin S BY <1>3, <2>4, <3>2 DEF Claim
    <3> QED BY <3>1, <3>2
  <2>5. ASSUME NEW w \in Worker, Complete(w) \/ Fail(w) PROVE Single(k)'
    <3>1. Holds(w, worker[w].key) /\ worker[w].key \in Key
      BY <2>5 DEF Complete, Fail, At, WorkInv, LeaseInv, AtHeld, TypeOK
    <3>2. CASE k # worker[w].key
      <4>1. job'[k] = job[k] BY <1>2, <2>5, <3>1, <3>2 DEF Complete, Fail, TypeOK
      <4> QED BY <1>3, <2>1, <4>1
    <3>3. CASE k = worker[w].key BY <1>1, <3>1, <3>3 DEF WorkInv, OneKey
    <3> QED BY <3>2, <3>3
  <2>6. CASE Tick
    <3>1. job'[k].status = job[k].status BY <1>2, <2>6 DEF Tick, TypeOK, JobRow
    <3> QED BY <1>3, <2>1, <3>1
  <2>7. CASE job' = job BY <1>3, <2>1, <2>7
  <2>8. ASSUME NEW w \in Worker, Break(w) PROVE Single(k)'
    <3>1. CASE job'[k] = job[k] BY <1>3, <2>1, <3>1
    <3>2. CASE worker[w].pc = "returned" /\ k = worker[w].key
      BY <1>1, <3>2 DEF WorkInv, OneKey, LeaseInv, AtHeld
    <3> QED BY <1>2, <2>8, <3>1, <3>2, BreakStep
  <2> QED BY <2>1, <2>2, <2>3, <2>4, <2>5, <2>6, <2>7, <2>8
          DEF Next, MarkReplay, Begin, Finish, Handle, MarkProcessed, MarkFailed, Bury, Crash
<1>4. ASSUME NEW k \in replaying' PROVE Single(k)'
  <2>1. CASE k \in replaying BY <1>1, <1>2, <2>1 DEF WorkInv, OneKey, TypeOK
  <2>2. ASSUME NEW e \in Event, MarkReplay(e), k \notin replaying PROVE Single(k)'
    <3>1. k[1] = e /\ e \in replayed' BY <1>4, <2>2, KeyParts DEF MarkReplay
    <3> QED BY <3>1 DEF Single
  <2>3. CASE replaying' \subseteq replaying BY <1>4, <2>1, <2>3
  <2> QED BY <2>1, <2>2, <2>3
          DEF Next, Receive, Operate, EnqueueReplay, LoseReplay, Retry, Purge, Claim, Begin, Finish, Handle,
              MarkProcessed, MarkFailed, Complete, Fail, Bury, Break, Crash, Tick
<1>5. ASSUME NEW v \in Worker, NEW k \in Key, Holds(v, k)' PROVE Single(k)'
  <2>1. ASSUME NEW S \in SUBSET Key, k \in S, Claim(v, S) PROVE Single(k)'
    <3>1. job[k].status # "none" BY <2>1 DEF Claim, Due
    <3> QED BY <1>1, <3>1 DEF WorkInv, OneKey
  <2>2. CASE \A S \in SUBSET Key : ~(k \in S /\ Claim(v, S))
    <3>1. Holds(v, k) BY <1>5, <2>2, HeldBefore DEF WorkInv
    <3> QED BY <1>1, <3>1 DEF WorkInv, OneKey
  <2> QED BY <2>1, <2>2
<1> QED BY <1>3, <1>4, <1>5 DEF OneKey

\* Two workers at one event that nobody replayed hold one job.
LEMMA OneAtEvent ==
    ASSUME WorkInv, ~late, NEW v \in Worker, NEW w \in Worker,
           worker[v].pc \in {"handling", "handled", "thrown"}, worker[w].pc \in {"handling", "handled", "thrown"},
           EventOf(v) = EventOf(w), EventOf(v) \notin replayed
    PROVE  v = w
<1>1. worker[v].key \in Key /\ worker[w].key \in Key BY DEF WorkInv, LeaseInv, TypeOK, At
<1>2. Holds(v, worker[v].key) /\ Holds(w, worker[w].key) BY DEF WorkInv, LeaseInv, AtHeld
<1>3. worker[v].key = <<EventOf(v), 0>> /\ worker[w].key = <<EventOf(w), 0>>
  BY <1>1, <1>2 DEF WorkInv, OneKey, Single, EventOf
<1> QED BY <1>1, <1>2, <1>3 DEF WorkInv, LeaseInv, Alone

\* A worker at its handler is not overtaken.
LEMMA StepUndone == ASSUME WorkInv, Next, ~late, NEW v \in Worker PROVE Undone(v)'
<1>0. TypeOK /\ Undone(v) BY DEF WorkInv, LeaseInv
<1>1. SUFFICES ASSUME worker'[v].pc \in {"handling", "thrown"} PROVE Undone(v)'
  BY DEF Undone
<1>2. replayed \subseteq replayed' BY HistoryGrows
<1>3. ASSUME worker'[v] = worker[v],
             \A e \in Event : status'[e] = status[e] \/ status'[e] # "processed" \/ e # EventOf(v)
      PROVE  Undone(v)'
  <2>1. EventOf(v) \in Event BY <1>0, <1>1, <1>3, KeyParts DEF TypeOK, At, EventOf
  <2> QED BY <1>0, <1>2, <1>3, <2>1 DEF Undone, EventOf
<1>4. ASSUME NEW e \in Event, Receive(e) \/ MarkReplay(e) PROVE Undone(v)'
  BY <1>0, <1>3, <1>4 DEF Receive, MarkReplay, TypeOK
<1>5. ASSUME NEW w \in Worker, NEW S \in SUBSET Key, Claim(w, S) PROVE Undone(v)'
  <2>1. w # v
    <3>1. worker'[w].pc = worker[w].pc /\ worker[w] = Fresh
      BY <1>0, <1>5 DEF Claim, Busy, TypeOK, Invocation
    <3> QED BY <1>1, <3>1 DEF Fresh
  <2> QED BY <1>0, <1>3, <1>5, <2>1 DEF Claim, TypeOK
<1>6. ASSUME NEW w \in Worker, NEW k \in Key, Begin(w, k) PROVE Undone(v)'
  <2>1. CASE w # v BY <1>0, <1>3, <1>6, <2>1 DEF Begin, TypeOK
  <2>2. CASE w = v
    <3> DEFINE pc == IF status[k[1]] \in {"processed", "ignored"} THEN "returned" ELSE "handling"
    <3>1. worker' = [worker EXCEPT ![v] = [worker[v] EXCEPT !.key = k, !.pc = pc]] BY <1>6, <2>2 DEF Begin
    <3>2. worker'[v].key = k /\ worker'[v].pc = pc BY <1>0, <3>1 DEF TypeOK, Invocation
    <3>3. status[k[1]] # "processed" BY <1>1, <3>2
    <3> QED BY <1>6, <3>2, <3>3 DEF Undone, EventOf, Begin
  <2> QED BY <2>1, <2>2
<1>7. ASSUME NEW w \in Worker, Handle(w) PROVE Undone(v)'
  <2>1. CASE w # v BY <1>0, <1>3, <1>7, <2>1 DEF Handle, TypeOK
  <2>2. CASE w = v
    <3>1. worker'[v].key = worker[v].key /\ worker[v].pc = "handling" /\ status' = status
      BY <1>0, <1>7, <2>2 DEF Handle, TypeOK, Invocation, At
    <3> QED BY <1>0, <1>2, <3>1 DEF Undone, EventOf
  <2> QED BY <2>1, <2>2
<1>8. ASSUME NEW w \in Worker, MarkProcessed(w) PROVE Undone(v)'
  <2>1. w # v /\ worker'[v] = worker[v] BY <1>0, <1>1, <1>8 DEF MarkProcessed, TypeOK, Invocation
  <2>2. CASE EventOf(v) \in replayed BY <1>2, <2>1, <2>2 DEF Undone, EventOf
  <2>3. CASE EventOf(v) \notin replayed
    <3>1. EventOf(v) # EventOf(w) BY <1>1, <1>8, <2>1, <2>3, OneAtEvent DEF MarkProcessed, At
    <3>2. \A e \in Event : status'[e] = status[e] \/ e # EventOf(v) BY <1>0, <1>8, <3>1 DEF MarkProcessed, TypeOK
    <3> QED BY <1>3, <2>1, <3>2
  <2> QED BY <2>2, <2>3
<1>9. ASSUME NEW w \in Worker, MarkFailed(w) \/ Complete(w) \/ Fail(w) \/ Bury(w) \/ Crash(w) PROVE Undone(v)'
  <2>1. w # v
    BY <1>0, <1>1, <1>9 DEF MarkFailed, Complete, Fail, Bury, Crash, Advance, Fresh, TypeOK, Invocation
  <2>2. worker'[v] = worker[v]
    BY <1>0, <1>9, <2>1 DEF MarkFailed, Complete, Fail, Bury, Crash, Advance, TypeOK
  <2> QED BY <1>0, <1>3, <1>9, <2>2 DEF MarkFailed, Complete, Fail, Bury, Crash, TypeOK
<1>10. CASE worker' = worker /\ status' = status BY <1>3, <1>10
<1>11. ASSUME NEW w \in Worker, Break(w) PROVE Undone(v)'
  <2>1. w # v /\ worker'[v] = worker[v] BY <1>0, <1>1, <1>11, BreakStep
  <2>2. EventOf(v) \in Event BY <1>0, <1>1, <2>1, KeyParts DEF TypeOK, At, EventOf
  <2>3. CASE EventOf(v) \in replayed BY <1>2, <2>1, <2>3 DEF Undone, EventOf
  <2>4. CASE EventOf(v) \notin replayed
    <3>1. worker[w].pc = "handled" => EventOf(v) # EventOf(w) BY <1>1, <2>1, <2>4, OneAtEvent
    <3> QED BY <1>0, <1>3, <1>11, <2>1, <2>2, <3>1, BreakStep
  <2> QED BY <2>3, <2>4
<1> QED BY <1>4, <1>5, <1>6, <1>7, <1>8, <1>9, <1>10, <1>11
        DEF Next, Operate, EnqueueReplay, LoseReplay, Retry, Purge, Finish, Tick

\* Every step keeps it.
LEMMA StepWork == WorkInv /\ [Next]_vars => WorkInv'
<1> SUFFICES ASSUME WorkInv, [Next]_vars PROVE WorkInv' OBVIOUS
<1>1. LeaseInv' BY StepLease DEF WorkInv
<1>2. CASE Next BY <1>1, <1>2, HistoryGrows, StepOneKey, StepUndone DEF WorkInv
<1>3. CASE UNCHANGED vars
  BY <1>1, <1>3 DEF WorkInv, OneKey, Single, Holds, Undone, EventOf, vars
<1> QED BY <1>2, <1>3

\* A failure is written over a success only when the event was replayed, a lease has run
\* out under its worker, or the worker's own record of the success failed:
\* processStripeEvent() reads before it handles, and while leases last nobody else is at
\* the event in between.
THEOREM SuccessIsFinal == Spec => NoFailureOverAnothersSuccess
<1> DEFINE Final ==
      \A e \in Event :
          status[e] = "processed" /\ status'[e] = "failed"
            => \/ late \/ e \in replayed
               \/ \E w \in Worker :
                    At(w, "unrecorded") /\ EventOf(w) = e /\ worker'[w] # worker[w]
<1>1. WorkInv /\ [Next]_vars => [Final]_vars
  <2> SUFFICES ASSUME WorkInv, Next, NEW e \in Event, status[e] = "processed", status'[e] = "failed", ~late
               PROVE  \/ e \in replayed
                      \/ \E w \in Worker :
                           At(w, "unrecorded") /\ EventOf(w) = e /\ worker'[w] # worker[w]
    OBVIOUS
  <2>1. ASSUME NEW w \in Worker, Break(w) PROVE FALSE
    BY <2>1, BreakStep DEF WorkInv, LeaseInv
  <2>2. PICK w \in Worker : MarkFailed(w) /\ EventOf(w) = e
    BY <2>1 DEF WorkInv, LeaseInv, TypeOK, Next, Receive, MarkReplay, Operate, EnqueueReplay, LoseReplay,
           Retry, Purge, Claim, Begin, Finish, Handle, MarkProcessed, MarkFailed, Complete, Fail, Bury,
           Crash, Tick
  <2>3. CASE At(w, "thrown")
    BY <2>2, <2>3 DEF At, WorkInv, Undone
  <2>4. CASE At(w, "unrecorded")
    <3>1. worker'[w].pc = "failing"
      BY <2>2 DEF MarkFailed, WorkInv, LeaseInv, TypeOK, Invocation
    <3> QED BY <2>2, <2>4, <3>1 DEF At
  <2> QED BY <2>2, <2>3, <2>4 DEF MarkFailed
<1> QED BY <1>1, InitWork, StepWork, PTL DEF Spec, NoFailureOverAnothersSuccess
=============================================================================
