---------------------------- MODULE MCServicesEnd ----------------------------
(***************************************************************************)
(* What must happen in the end: requests are answered, mails and jobs end. *)
(* Instances of the licensing service, the email outbox and the job outbox *)
(* under fairness, without symmetry; in each behaviour one of them moves.  *)
(***************************************************************************)
EXTENDS Licensing, EmailOutbox, TLC

CONSTANTS Event, Handled, Worker, MaxReplay, MaxAttempts, Batch, Lease, BackoffBase,
    BackoffCap, RetryLaterDelay, MaxCrash

VARIABLES service, status, job, worker, handled, replaying, crashes, late, replayed

Jobs == INSTANCE JobOutbox

jobVars == <<status, job, worker, handled, replaying, crashes, late, replayed>>

servicesEndVars == <<service, vars, emailVars, jobVars>>

ServicesEndInit ==
    /\ service \in {"licensing", "mail", "jobs"}
    /\ Init /\ EmailInit /\ Jobs!Init

ServicesEndNext ==
    /\ service' = service
    /\ \/ service = "licensing" /\ Next /\ UNCHANGED <<emailVars, jobVars>>
       \/ service = "mail" /\ EmailNext /\ UNCHANGED <<vars, jobVars>>
       \/ service = "jobs" /\ Jobs!Next /\ UNCHANGED <<vars, emailVars>>

\* Of a service that does not move nothing is asked: none of its steps is ever enabled
\* that fairness is about.
ServicesEndSpec ==
    /\ ServicesEndInit
    /\ [][ServicesEndNext]_servicesEndVars
    /\ RequestFairness /\ MailFairness /\ Jobs!JobFairness

JobsEnd == Jobs!JobsEnd
=============================================================================
