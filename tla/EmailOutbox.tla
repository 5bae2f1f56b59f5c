---------------------------- MODULE EmailOutbox ----------------------------
(***************************************************************************)
(* The email outbox: src/services/email.ts, the MailerSend transport of    *)
(* src/integrations/mail.ts as far as it decides an outcome, the delivery  *)
(* webhooks of src/services/mail-webhooks.ts and the clearing of old rows  *)
(* in src/jobs/runner.ts.                                                  *)
(*                                                                         *)
(* A dispatcher claims a batch in one statement and takes its mails one by *)
(* one: it asks whether the recipient is suppressed, sends, and records    *)
(* the outcome by id.  Every statement and the call of the provider is a   *)
(* step, so dispatchers overlap, outlive their leases and stop anywhere.   *)
(* The provider numbers what it accepts and reports on it later, in any    *)
(* order, possibly before the dispatcher has recorded the number.          *)
(*                                                                         *)
(* Times only matter relative to now(): due is next_attempt_at <= now(),   *)
(* leased is locked_until >= now().  All mails have one recipient.         *)
(*                                                                         *)
(* A definition marked "Variant" is a faulty form of the one that follows. *)
(***************************************************************************)
EXTENDS Integers, FiniteSets

CONSTANTS
    Mail,             \* business keys
    Dispatcher,       \* invocations of dispatchEmails()
    MailMaxAttempts,  \* MAX_ATTEMPTS, 10
    MailBatch,        \* the limit given to dispatchEmails(), 3 or 5
    MaxCopy,          \* bound: copies of one mail the provider accepts
    MaxMailCrash      \* bound: dispatchers that are cut short

EmailAssumption ==
    /\ MailMaxAttempts \in Nat \ {0}
    /\ MailBatch \in Nat \ {0}
    /\ MaxCopy \in Nat \ {0}
    /\ MaxMailCrash \in Nat

ASSUME EmailAssumption

VARIABLES
    mail,        \* email_outbox by business key
    dispatcher,  \* where each invocation stands
    retrying,    \* mails an operator's retry has read and not yet written
    copies,      \* how many copies of a mail the provider has accepted
    reports,     \* mail_events: reports received, once each
    suppressed,  \* the recipient is in email_suppressions
    doubted,     \* mails of which a dispatcher may not know what became (history)
    overrun,     \* mails whose lease ran out under their dispatcher (history)
    retried,     \* mails an operator has retried (history)
    mailCrashes

emailVars == <<mail, dispatcher, retrying, copies, reports, suppressed,
               doubted, overrun, retried, mailCrashes>>

-----------------------------------------------------------------------------
(* Rows and invocations                                                     *)

Unsent == {"pending", "failed"}
Told == {"sent", "delivered", "bounced"}
MailStatus == Unsent \cup Told \cup
    {"none", "sending", "dead", "uncertain", "suppressed", "purged"}

\* ref: provider_message_id, the number of the copy, 0 for NULL.
MailRow == [status : MailStatus, attempts : 0..(MailMaxAttempts + 1),
            due : BOOLEAN, leased : BOOLEAN, payload : BOOLEAN, ref : 0..MaxCopy]

NoMail == [status |-> "none", attempts |-> 0, due |-> TRUE, leased |-> FALSE,
           payload |-> FALSE, ref |-> 0]

\* held: the attempts of each claimed mail as RETURNING gave them, 0 if not claimed;
\* sealed: those that came with a payload; copy: what the provider answered.
Sender == [pc : {"ready", "suppressing", "sending", "accepted", "again", "fatal", "uncertain"},
           at : Mail \cup {<<>>}, held : [Mail -> 0..(MailMaxAttempts + 1)],
           sealed : SUBSET Mail, copy : 0..MaxCopy]

AtRest == [pc |-> "ready", at |-> <<>>, held |-> [m \in Mail |-> 0], sealed |-> {}, copy |-> 0]

HoldsMail(w, m) == dispatcher[w].held[m] > 0
Stands(w, pc) == dispatcher[w].pc = pc
Turn(w, pc) == dispatcher' = [dispatcher EXCEPT ![w].pc = pc]

EmailTypeOK ==
    /\ mail \in [Mail -> MailRow]
    /\ dispatcher \in [Dispatcher -> Sender]
    /\ \A w \in Dispatcher : ~Stands(w, "ready") => dispatcher[w].at \in Mail
    /\ retrying \subseteq Mail
    /\ copies \in [Mail -> 0..MaxCopy]
    /\ reports \subseteq Mail \X (1..MaxCopy) \X {"delivered", "bounced"}
    /\ suppressed \in BOOLEAN
    /\ doubted \subseteq Mail
    /\ overrun \subseteq Mail
    /\ retried \subseteq Mail
    /\ mailCrashes \in 0..MaxMailCrash

EmailInit ==
    /\ mail = [m \in Mail |-> NoMail]
    /\ dispatcher = [w \in Dispatcher |-> AtRest]
    /\ retrying = {}
    /\ copies = [m \in Mail |-> 0]
    /\ reports = {}
    /\ suppressed = FALSE
    /\ doubted = {}
    /\ overrun = {}
    /\ retried = {}
    /\ mailCrashes = 0

\* What no step but those of the provider and the operators touches.
Outside == <<retrying, copies, reports, suppressed, retried, mailCrashes>>

-----------------------------------------------------------------------------
(* Queueing and dispatching                                                 *)

\* enqueueEmail(): a known business key changes nothing.  (A key whose row was cleared
\* after 180 days is not used again.)
QueueMail(m) ==
    /\ mail[m].status = "none"
    /\ mail' = [mail EXCEPT ![m] = [NoMail EXCEPT !.status = "pending", !.payload = TRUE]]
    /\ UNCHANGED <<dispatcher, doubted, overrun, Outside>>

\* Variants: leases are not looked at; expired leases are left alone.
ClaimableAnyLease(m) ==
    \/ mail[m].status \in Unsent /\ mail[m].due
    \/ mail[m].status = "sending"
ClaimableWaiting(m) == mail[m].status \in Unsent /\ mail[m].due

Claimable(m) ==
    \/ mail[m].status \in Unsent /\ mail[m].due
    \/ mail[m].status = "sending" /\ ~mail[m].leased

Tried(n) == IF n > MailMaxAttempts THEN n ELSE n + 1

\* dispatchEmails(): the claiming statement.
ClaimMails(w, S) ==
    /\ dispatcher[w] = AtRest
    /\ S # {}
    /\ \A m \in S : Claimable(m)
    /\ Cardinality(S) <= MailBatch
    /\ Cardinality(S) < MailBatch => \A m \in Mail : Claimable(m) => m \in S
    /\ mail' = [m \in Mail |->
         IF m \in S
         THEN [mail[m] EXCEPT !.status = "sending", !.attempts = Tried(@), !.leased = TRUE]
         ELSE mail[m]]
    /\ dispatcher' = [dispatcher EXCEPT
         ![w].held = [m \in Mail |-> IF m \in S THEN Tried(mail[m].attempts) ELSE 0],
         ![w].sealed = {m \in S : mail[m].payload}]
    /\ UNCHANGED <<doubted, overrun, Outside>>

\* The loop takes a mail: the suppression is read, and a missing payload is fatal.
PickMail(w, m) ==
    /\ Stands(w, "ready")
    /\ HoldsMail(w, m)
    /\ dispatcher' = [dispatcher EXCEPT
         ![w].at = m,
         ![w].pc = IF suppressed THEN "suppressing"
                   ELSE IF m \in dispatcher[w].sealed THEN "sending" ELSE "fatal"]
    /\ UNCHANGED <<mail, doubted, overrun, Outside>>

\* The mail is rendered and sent.  The template may be disabled or the provider refuse
\* it (fatal), the answer may be lost in time (uncertain) or with the connection
\* (again); a lost answer says nothing of whether the provider accepted.
Send(w) ==
    LET m == dispatcher[w].at IN
    /\ Stands(w, "sending")
    /\ \/ /\ \E pc \in {"again", "fatal", "uncertain"} : Turn(w, pc)
          /\ UNCHANGED <<copies, doubted>>
       \/ /\ copies[m] < MaxCopy
          /\ copies' = [copies EXCEPT ![m] = @ + 1]
          /\ \/ /\ dispatcher' = [dispatcher EXCEPT ![w].pc = "accepted", ![w].copy = copies[m] + 1]
                /\ UNCHANGED doubted
             \/ /\ Turn(w, "uncertain")
                /\ UNCHANGED doubted
             \/ /\ Turn(w, "again")
                /\ doubted' = doubted \cup {m}
    /\ UNCHANGED <<mail, overrun, retrying, reports, suppressed, retried, mailCrashes>>

\* The dispatcher is through with its mail, whose row it writes by id.
Settle(w, row) ==
    /\ mail' = [mail EXCEPT ![dispatcher[w].at] = [row EXCEPT !.leased = FALSE]]
    /\ dispatcher' = [dispatcher EXCEPT ![w] =
         [pc |-> "ready", at |-> <<>>, held |-> [@.held EXCEPT ![dispatcher[w].at] = 0],
          sealed |-> @.sealed \ {dispatcher[w].at}, copy |-> 0]]

RowOf(w) == mail[dispatcher[w].at]

\* Variant: a status the table does not allow.
WriteOffAsSkipped(w) ==
    /\ Stands(w, "suppressing")
    /\ Settle(w, [RowOf(w) EXCEPT !.status = "skipped", !.payload = FALSE])
    /\ UNCHANGED <<doubted, overrun, Outside>>

WriteOff(w) ==
    /\ Stands(w, "suppressing")
    /\ Settle(w, [RowOf(w) EXCEPT !.status = "suppressed", !.payload = FALSE])
    /\ UNCHANGED <<doubted, overrun, Outside>>

\* The statement that records the sending, and its failure, which is caught like the
\* provider's.
RecordSent(w) ==
    /\ Stands(w, "accepted")
    /\ \/ /\ Settle(w, [RowOf(w) EXCEPT !.status = "sent", !.ref = dispatcher[w].copy,
                                        !.payload = FALSE])
          /\ UNCHANGED doubted
       \/ /\ Turn(w, "again")
          /\ doubted' = doubted \cup {dispatcher[w].at}
          /\ UNCHANGED mail
    /\ UNCHANGED <<overrun, Outside>>

\* The catch block: an unknown outcome waits for an operator, a refusal and the last
\* attempt end the mail, any other failure delays it.
RecordFailure(w) ==
    LET last == dispatcher[w].held[dispatcher[w].at] >= MailMaxAttempts IN
    /\ \/ /\ Stands(w, "uncertain")
          /\ Settle(w, [RowOf(w) EXCEPT !.status = "uncertain"])
       \/ /\ Stands(w, "fatal") \/ (Stands(w, "again") /\ last)
          /\ Settle(w, [RowOf(w) EXCEPT !.status = "dead"])
       \/ /\ Stands(w, "again") /\ ~last
          /\ Settle(w, [RowOf(w) EXCEPT !.status = "failed", !.due = FALSE])
    /\ UNCHANGED <<doubted, overrun, Outside>>

\* The invocation is cut short; the leases it holds run out.
CrashDispatcher(w) ==
    /\ dispatcher[w] # AtRest
    /\ mailCrashes < MaxMailCrash
    /\ mailCrashes' = mailCrashes + 1
    /\ doubted' = doubted \cup (IF Stands(w, "ready") THEN {} ELSE {dispatcher[w].at})
    /\ dispatcher' = [dispatcher EXCEPT ![w] = AtRest]
    /\ UNCHANGED <<mail, overrun, retrying, copies, reports, suppressed, retried>>

-----------------------------------------------------------------------------
(* Operators, the provider's reports and time                               *)

\* retryEmail(): its two statements; the second has no condition.
ReadRetry(m) ==
    /\ mail[m].status \in {"dead", "failed", "uncertain"}
    /\ mail[m].payload
    /\ m \notin retried
    /\ retrying' = retrying \cup {m}
    /\ retried' = retried \cup {m}
    /\ UNCHANGED <<mail, dispatcher, copies, reports, suppressed, doubted, overrun, mailCrashes>>

WriteRetry(m) ==
    /\ m \in retrying
    /\ mail' = [mail EXCEPT ![m] = [@ EXCEPT !.status = "pending", !.due = TRUE, !.attempts = 0]]
    /\ retrying' = retrying \ {m}
    /\ UNCHANGED <<dispatcher, copies, reports, suppressed, doubted, overrun, retried, mailCrashes>>

\* markEmailResolved()
Resolve(m, outcome) ==
    /\ mail[m].status = "uncertain"
    /\ mail' = [mail EXCEPT ![m] = [@ EXCEPT !.status = outcome, !.payload = FALSE]]
    /\ UNCHANGED <<dispatcher, doubted, overrun, Outside>>

\* Variant: delivery is recorded whatever the status.
ReportedAnyway(m, n, kind) ==
    IF n = mail[m].ref THEN [mail EXCEPT ![m].status = kind] ELSE mail

\* What a report writes: rows are found by the provider's number.
Reported(m, n, kind) ==
    IF n = mail[m].ref /\ (kind = "bounced" \/ mail[m].status \in {"sent", "uncertain"})
    THEN [mail EXCEPT ![m].status = kind]
    ELSE mail

\* receiveMailerSendWebhook(): a delivery, or a hard bounce or complaint; a report seen
\* before changes nothing.
Report(m, n, kind) ==
    /\ n <= copies[m]
    /\ <<m, n, kind>> \notin reports
    /\ reports' = reports \cup {<<m, n, kind>>}
    /\ mail' = Reported(m, n, kind)
    /\ suppressed' = (suppressed \/ kind = "bounced")
    /\ UNCHANGED <<dispatcher, retrying, copies, doubted, overrun, retried, mailCrashes>>

\* dailyTick(): after 180 days, longer than any invocation lasts.
PurgeMail(m) ==
    /\ mail[m].status \in Told \cup {"suppressed"}
    /\ m \notin retrying
    /\ \A w \in Dispatcher : ~HoldsMail(w, m)
    /\ mail' = [mail EXCEPT ![m] = [NoMail EXCEPT !.status = "purged"]]
    /\ UNCHANGED <<dispatcher, doubted, overrun, Outside>>

\* The delay of a failed mail is over.
BecomeDue(m) ==
    /\ ~mail[m].due
    /\ mail' = [mail EXCEPT ![m].due = TRUE]
    /\ UNCHANGED <<dispatcher, doubted, overrun, Outside>>

\* A lease runs out, perhaps under a dispatcher that is still at its batch.
LeaseEnds(m) ==
    /\ mail[m].leased
    /\ mail' = [mail EXCEPT ![m].leased = FALSE]
    /\ overrun' = overrun \cup {x \in {m} : \E w \in Dispatcher : HoldsMail(w, x)}
    /\ UNCHANGED <<dispatcher, doubted, Outside>>

Dispatch(w) ==
    \/ \E m \in Mail : PickMail(w, m)
    \/ WriteOff(w)
    \/ Send(w)
    \/ RecordSent(w)
    \/ RecordFailure(w)

EmailNext ==
    \/ \E w \in Dispatcher :
         \/ \E S \in SUBSET Mail : ClaimMails(w, S)
         \/ Dispatch(w)
         \/ CrashDispatcher(w)
    \/ \E m \in Mail :
         \/ QueueMail(m)
         \/ ReadRetry(m)
         \/ WriteRetry(m)
         \/ \E outcome \in {"sent", "dead"} : Resolve(m, outcome)
         \/ \E n \in 1..MaxCopy, kind \in {"delivered", "bounced"} : Report(m, n, kind)
         \/ PurgeMail(m)
         \/ BecomeDue(m)
         \/ LeaseEnds(m)

EmailSpec == EmailInit /\ [][EmailNext]_emailVars

\* Cron ticks keep coming and pass no due mail over for ever, delays and leases end, and
\* a dispatcher that is not cut short, and an operator's retry, go on.
MailFairness ==
    /\ \A m \in Mail :
         /\ WF_emailVars(BecomeDue(m))
         /\ WF_emailVars(LeaseEnds(m))
         /\ WF_emailVars(WriteRetry(m))
         /\ SF_emailVars(\E w \in Dispatcher, S \in SUBSET Mail : m \in S /\ ClaimMails(w, S))
    /\ \A w \in Dispatcher : WF_emailVars(Dispatch(w))

-----------------------------------------------------------------------------
(* Properties                                                               *)

Excused(m) == m \in doubted \cup overrun \cup retried

\* A mail is accepted twice only if a dispatcher was cut short, outlived its lease or
\* lost the answer with the connection, or an operator asked for it: a provider that
\* answers too late never makes the outbox send again.
OneCopy == \A m \in Mail : copies[m] > 1 => Excused(m)

Progress(s, t) ==
    \/ t \in {s, "purged"}
    \/ s = "sent" /\ t \in Told
    \/ s = "delivered" /\ t = "bounced"

\* What became of a mail is not taken back, in whatever order the reports come: a
\* delivery does not undo a bounce, and no failure is written over a sending.
OutcomeStays ==
    [][ \A m \in Mail :
          mail[m].status \in Told =>
            Progress(mail[m].status, mail'[m].status) \/ m \in overrun \cup retried ]_emailVars

\* Every queued mail ends, or waits for an operator.
MailEnds ==
    \A m \in Mail : mail[m].status = "pending" ~> mail[m].status \notin Unsent \cup {"none", "sending"}
=============================================================================
