------------------------------ MODULE StoreProofs -----------------------------
(***************************************************************************)
(* Proofs about what a sale consists of besides its licences: the mails it *)
(* sends (EmailOutbox), the checkout it comes from (Checkout), the         *)
(* customer it is for (Customers) and the reversal of its payment          *)
(* (Reversals); for any mails, dispatchers, orders, callers, customers,    *)
(* licences and handlers.                                                  *)
(*                                                                         *)
(* OneCopy is not inductive: that a mail is not sent again once a copy has *)
(* been accepted depends on who holds it and on what its row says. Single  *)
(* states it, for a mail nothing has happened to that excuses a second     *)
(* copy: whoever holds it holds it alone and under its lease; and once a   *)
(* copy is accepted its row cannot be claimed, and its holder is about to  *)
(* record what became of it (EInv). OutcomeStays needs the first half of   *)
(* it also for mails that a crash or a lost answer left in doubt (Alone).  *)
(*                                                                         *)
(* MadeOnce depends on what the callers are about to do: CInv says that    *)
(* one that is about to make a product under a new key has searched for it *)
(* while Stripe still repeats the old key or finds the product, that one   *)
(* that opens the checkout has had its session, and that a customer is     *)
(* there before a session is asked for.                                    *)
(*                                                                         *)
(* OneCustomer and BuyerReaches depend on what an order has read: UInv     *)
(* says that the customer it found is still there under its address,       *)
(* unless support changed that, and that its only owner is then the person *)
(* with that address.                                                      *)
(*                                                                         *)
(* RefundTakesEffect is not inductive: that a licence is still revoked     *)
(* after a second refund, whose revocation is already there, depends on    *)
(* what has happened since the first. CauseRemains says so: a licence once *)
(* revoked for a refund is revoked, or support restored it after. What a   *)
(* handler saw is not true any more when it commits; SawBefore says what   *)
(* of it remains true, because Stripe takes nothing back (RInv).           *)
(***************************************************************************)
EXTENDS EmailOutbox, Checkout, Customers, Reversals, FiniteSetTheorems, TLAPS

-----------------------------------------------------------------------------
(* Mail: types and copies.                                                  *)


HeldAt == \A w \in Dispatcher : ~Stands(w, "ready") => dispatcher[w].at \in Mail /\ HoldsMail(w, dispatcher[w].at)

About(w, m) == dispatcher[w].at = m /\ dispatcher[w].pc \in {"accepted", "uncertain"}

Single(m) ==
    m \notin doubted \cup overrun \cup retried =>
      /\ \A w \in Dispatcher : HoldsMail(w, m) => mail[m].status = "sending" /\ mail[m].leased
      /\ \A w, v \in Dispatcher : HoldsMail(w, m) /\ HoldsMail(v, m) => w = v
      /\ copies[m] > 0 =>
           /\ copies[m] = 1
           /\ mail[m].status \notin Unsent \cup {"none"}
           /\ mail[m].status = "sending" => \E w \in Dispatcher : HoldsMail(w, m)
           /\ \A w \in Dispatcher : HoldsMail(w, m) => About(w, m)
      /\ mail[m].ref # 0 => mail[m].status \in Told

EInv == /\ EmailTypeOK /\ HeldAt /\ retrying \subseteq retried
        /\ \A m \in Mail : Single(m)

LEMMA TriedType ==
    ASSUME NEW n \in 0..(MailMaxAttempts + 1)
    PROVE  Tried(n) \in 0..(MailMaxAttempts + 1) /\ Tried(n) > 0
  BY EmailAssumption DEF Tried, EmailAssumption

LEMMA RestType == AtRest \in Sender /\ NoMail \in MailRow
<1>1. 0 \in 0..(MailMaxAttempts + 1) /\ 0 \in 0..MaxCopy
  BY EmailAssumption DEF EmailAssumption
<1> QED BY <1>1 DEF AtRest, Sender, NoMail, MailRow, MailStatus

LEMMA RestFree == AtRest.pc = "ready" /\ AtRest.at = <<>> /\ \A m \in Mail : ~(AtRest.held[m] > 0)
<1>1. AtRest.held = [m \in Mail |-> 0] /\ AtRest.pc = "ready" /\ AtRest.at = <<>> BY DEF AtRest
<1> QED BY <1>1

LEMMA MailBegins == EmailInit => EInv
<1> SUFFICES ASSUME EmailInit PROVE EInv OBVIOUS
<1>1. EmailTypeOK
  <2>1. \A w \in Dispatcher : Stands(w, "ready") BY DEF EmailInit, Stands, AtRest
  <2>2. 0 \in 0..MaxCopy /\ 0 \in 0..MaxMailCrash BY EmailAssumption DEF EmailAssumption
  <2>3. mail \in [Mail -> MailRow] /\ dispatcher \in [Dispatcher -> Sender]
    BY RestType DEF EmailInit
  <2>4. copies \in [Mail -> 0..MaxCopy] /\ reports \subseteq Mail \X (1..MaxCopy) \X {"delivered", "bounced"}
    BY <2>2 DEF EmailInit
  <2> QED BY <2>1, <2>2, <2>3, <2>4 DEF EmailInit, EmailTypeOK
<1>2. \A w \in Dispatcher : Stands(w, "ready") /\ \A m \in Mail : ~HoldsMail(w, m)
  BY DEF EmailInit, Stands, HoldsMail, AtRest
<1>3. \A m \in Mail : copies[m] = 0 /\ mail[m].ref = 0
  BY DEF EmailInit, NoMail
<1>4. HeldAt BY <1>2 DEF HeldAt
<1>5. \A m \in Mail : Single(m) BY <1>2, <1>3 DEF Single
<1> QED BY <1>1, <1>4, <1>5 DEF EInv, EmailInit

\* A step that leaves a mail, its copies and its holders alone.
LEMMA Elsewhere ==
    ASSUME NEW m \in Mail, Single(m), EmailTypeOK,
           mail'[m] = mail[m], copies'[m] = copies[m],
           doubted \subseteq doubted', overrun \subseteq overrun', retried \subseteq retried',
           \A v \in Dispatcher : HoldsMail(v, m)' <=> HoldsMail(v, m),
           \A v \in Dispatcher : About(v, m) => About(v, m)'
    PROVE  Single(m)'
  BY DEF Single

\* What Settle() writes.
LEMMA SettleEffect ==
    ASSUME EmailTypeOK, HeldAt, NEW w \in Dispatcher, ~Stands(w, "ready"),
           NEW row \in MailRow, Settle(w, row)
    PROVE  /\ mail' \in [Mail -> MailRow]
           /\ dispatcher' \in [Dispatcher -> Sender]
           /\ mail'[dispatcher[w].at] = [row EXCEPT !.leased = FALSE]
           /\ \A m \in Mail : m # dispatcher[w].at => mail'[m] = mail[m]
           /\ \A v \in Dispatcher : v # w => dispatcher'[v] = dispatcher[v]
           /\ dispatcher'[w].pc = "ready"
           /\ \A m \in Mail : m = dispatcher[w].at => ~HoldsMail(w, m)'
           /\ \A m \in Mail : m # dispatcher[w].at => (HoldsMail(w, m)' <=> HoldsMail(w, m))
<1> DEFINE m == dispatcher[w].at
           d == dispatcher[w]
<1>1. m \in Mail /\ d \in Sender BY DEF HeldAt, EmailTypeOK
<1>2. [row EXCEPT !.leased = FALSE] \in MailRow BY DEF MailRow
<1>3. 0 \in 0..(MailMaxAttempts + 1) /\ 0 \in 0..MaxCopy BY EmailAssumption DEF EmailAssumption
<1>4. d.held \in [Mail -> 0..(MailMaxAttempts + 1)] /\ d.sealed \subseteq Mail
  BY <1>1 DEF Sender
<1> DEFINE e == [pc |-> "ready", at |-> <<>>, held |-> [d.held EXCEPT ![m] = 0],
                 sealed |-> d.sealed \ {m}, copy |-> 0]
<1>6. dispatcher' = [dispatcher EXCEPT ![w] = e] /\ dispatcher'[w] = e
  BY DEF Settle, EmailTypeOK
<1>12. e \in Sender
  BY <1>3, <1>4 DEF Sender
<1>13. dispatcher'[w].pc = "ready" /\ dispatcher'[w].held = [d.held EXCEPT ![m] = 0]
  BY <1>6
<1> HIDE DEF e
<1>8. dispatcher' \in [Dispatcher -> Sender] BY <1>6, <1>12 DEF EmailTypeOK
<1>9. mail' = [mail EXCEPT ![m] = [row EXCEPT !.leased = FALSE]] BY DEF Settle
<1>10. \A x \in Mail : dispatcher'[w].held[x] = IF x = m THEN 0 ELSE d.held[x]
  BY <1>4, <1>13
<1>11. mail' \in [Mail -> MailRow] /\ mail'[m] = [row EXCEPT !.leased = FALSE]
  BY <1>1, <1>2, <1>9 DEF EmailTypeOK
<1>14. \A x \in Mail : x # m => mail'[x] = mail[x] BY <1>9 DEF EmailTypeOK
<1>15. \A v \in Dispatcher : v # w => dispatcher'[v] = dispatcher[v] BY <1>6 DEF EmailTypeOK
<1>16. \A x \in Mail : x = dispatcher[w].at => ~HoldsMail(w, x)' BY <1>10 DEF HoldsMail
<1>17. \A x \in Mail : x # m => (HoldsMail(w, x)' <=> HoldsMail(w, x)) BY <1>10 DEF HoldsMail
<1> QED BY <1>8, <1>11, <1>13, <1>14, <1>15, <1>16, <1>17

-----------------------------------------------------------------------------
(* One lemma for each action                                                *)

LEMMA QueueKeeps ==
    ASSUME EInv, NEW m \in Mail, QueueMail(m) PROVE EInv'
<1>1. [NoMail EXCEPT !.status = "pending", !.payload = TRUE] \in MailRow
  BY RestType DEF NoMail, MailRow, MailStatus, Unsent
<1>2. EmailTypeOK' BY <1>1 DEF EInv, EmailTypeOK, QueueMail, Outside, Stands
<1>3. HeldAt' BY DEF EInv, HeldAt, QueueMail, Stands, HoldsMail
<1>4. mail'[m].status = "pending" /\ mail'[m].ref = 0 /\ mail[m].status = "none"
      /\ \A x \in Mail : x # m => mail'[x] = mail[x]
  BY DEF EInv, EmailTypeOK, QueueMail, NoMail
<1>5. ASSUME NEW x \in Mail PROVE Single(x)'
  BY <1>4 DEF EInv, QueueMail, Outside, Single, HoldsMail, About
<1> QED BY <1>2, <1>3, <1>5 DEF EInv, QueueMail, Outside

\* Times change nothing but what may be claimed.
LEMMA TimeKeeps ==
    ASSUME EInv, NEW m \in Mail, BecomeDue(m) \/ LeaseEnds(m) PROVE EInv'
<1>1. /\ mail'[m] = [mail[m] EXCEPT !.due = TRUE] \/ mail'[m] = [mail[m] EXCEPT !.leased = FALSE]
      /\ \A x \in Mail : x # m => mail'[x] = mail[x]
      /\ mail' \in [Mail -> MailRow]
      /\ UNCHANGED <<dispatcher, doubted, Outside>>
      /\ overrun \subseteq overrun' /\ overrun' \subseteq Mail
  <2>1. CASE BecomeDue(m) BY <2>1 DEF BecomeDue, EInv, EmailTypeOK, MailRow
  <2>2. CASE LeaseEnds(m) BY <2>2 DEF LeaseEnds, EInv, EmailTypeOK, MailRow
  <2> QED BY <2>1, <2>2
<1>2. EmailTypeOK' BY <1>1 DEF EInv, EmailTypeOK, Outside, Stands
<1>3. HeldAt' BY <1>1 DEF EInv, HeldAt, Stands, HoldsMail
<1>4. ASSUME NEW x \in Mail PROVE Single(x)'
  <2>0. Single(x) /\ mail[x] \in MailRow /\ mail[m] \in MailRow BY DEF EInv, EmailTypeOK
  <2>1. mail'[x].status = mail[x].status /\ mail'[x].ref = mail[x].ref
    BY <1>1, <2>0 DEF MailRow
  <2>2. (\E w \in Dispatcher : HoldsMail(w, x)) /\ mail[x].leased => mail'[x].leased \/ x \in overrun'
    <3>1. CASE BecomeDue(m) BY <3>1, <2>0 DEF BecomeDue, EInv, EmailTypeOK, MailRow
    <3>2. CASE LeaseEnds(m) BY <3>2, <1>1 DEF LeaseEnds
    <3> QED BY <3>1, <3>2
  <2> QED BY <1>1, <2>0, <2>1, <2>2 DEF Single, HoldsMail, About, Outside
<1> QED BY <1>1, <1>2, <1>3, <1>4 DEF EInv, Outside

LEMMA ClaimKeeps ==
    ASSUME EInv, NEW w \in Dispatcher, NEW S \in SUBSET Mail, ClaimMails(w, S) PROVE EInv'
<1> DEFINE row(m) == [mail[m] EXCEPT !.status = "sending", !.attempts = Tried(@), !.leased = TRUE]
           h == [m \in Mail |-> IF m \in S THEN Tried(mail[m].attempts) ELSE 0]
<1>1. \A m \in Mail : mail[m] \in MailRow /\ mail[m].attempts \in 0..(MailMaxAttempts + 1)
  BY DEF EInv, EmailTypeOK, MailRow
<1>2. \A m \in Mail : Tried(mail[m].attempts) \in 0..(MailMaxAttempts + 1) /\ Tried(mail[m].attempts) > 0
  BY <1>1, TriedType
<1>3. \A m \in Mail : row(m) \in MailRow
  BY <1>1, <1>2 DEF MailRow, MailStatus
<1>4. mail' \in [Mail -> MailRow]
  BY <1>3, <1>1 DEF ClaimMails
<1>5. \A m \in Mail : IF m \in S THEN mail'[m] = row(m) ELSE mail'[m] = mail[m]
  BY DEF ClaimMails
<1> DEFINE e == [dispatcher[w] EXCEPT !.held = h, !.sealed = {m \in S : mail[m].payload}]
<1>6. dispatcher' = [dispatcher EXCEPT ![w] = e]
  BY DEF ClaimMails
<1>7. h \in [Mail -> 0..(MailMaxAttempts + 1)]
  <2>1. 0 \in 0..(MailMaxAttempts + 1) BY EmailAssumption DEF EmailAssumption
  <2> QED BY <2>1, <1>2
<1>8. h \in [Mail -> 0..(MailMaxAttempts + 1)] /\ \A m \in Mail : h[m] > 0 <=> m \in S
  BY <1>7, <1>2
<1>16. dispatcher[w] \in Sender /\ dispatcher[w].pc = "ready" 
  BY RestFree DEF EInv, EmailTypeOK, ClaimMails
<1>17. {m \in S : mail[m].payload} \subseteq Mail OBVIOUS
<1> HIDE DEF h
<1>18. e \in Sender /\ e.pc = "ready" /\ e.held = h BY <1>8, <1>16, <1>17 DEF Sender
<1> HIDE DEF e
<1>9. dispatcher' \in [Dispatcher -> Sender]
  BY <1>6, <1>18 DEF EInv, EmailTypeOK
<1>10. /\ dispatcher'[w].pc = "ready" /\ dispatcher'[w].held = h
       /\ \A v \in Dispatcher : v # w => dispatcher'[v] = dispatcher[v]
  BY <1>6, <1>18 DEF EInv, EmailTypeOK
<1>11. \A m \in Mail : HoldsMail(w, m)' <=> m \in S
  BY <1>8, <1>10 DEF HoldsMail
<1>12. \A m \in Mail : ~HoldsMail(w, m)
  BY RestFree DEF ClaimMails, HoldsMail
<1>13. EmailTypeOK'
  <2>1. \A v \in Dispatcher : ~Stands(v, "ready")' => dispatcher'[v].at \in Mail
    BY <1>10 DEF EInv, EmailTypeOK, Stands
  <2> QED BY <1>4, <1>9, <2>1 DEF EInv, EmailTypeOK, ClaimMails, Outside
<1>14. HeldAt' BY <1>10 DEF EInv, HeldAt, Stands, HoldsMail
<1>15. ASSUME NEW m \in Mail PROVE Single(m)'
  <2>0. Single(m) BY DEF EInv
  <2>1. \A v \in Dispatcher : v # w => (HoldsMail(v, m)' <=> HoldsMail(v, m)) /\ (About(v, m)' <=> About(v, m))
    BY <1>10 DEF HoldsMail, About
  <2>2. CASE m \in S
    <3>1. mail'[m].status = "sending" /\ mail'[m].leased /\ mail'[m].ref = mail[m].ref
      BY <1>1, <1>5, <2>2 DEF MailRow
    <3>2. Claimable(m) BY <2>2 DEF ClaimMails
    <3>3. UNCHANGED <<copies, doubted, overrun, retried>> BY DEF ClaimMails, Outside
    <3>4. SUFFICES ASSUME m \notin doubted \cup overrun \cup retried PROVE Single(m)'
      BY <3>3 DEF Single
    <3>5. copies[m] = 0 /\ mail[m].ref = 0 /\ \A v \in Dispatcher : ~HoldsMail(v, m)
      <4>1. mail[m].status \in Unsent \/ (mail[m].status = "sending" /\ ~mail[m].leased)
        BY <3>2 DEF Claimable
      <4>2. copies[m] \in Nat BY EmailAssumption DEF EInv, EmailTypeOK, EmailAssumption
      <4> QED BY <2>0, <3>4, <4>1, <4>2 DEF Single, Unsent, Told
    <3> QED BY <1>11, <2>1, <3>1, <3>3, <3>5 DEF Single
  <2>3. CASE m \notin S
    <3>1. mail'[m] = mail[m] BY <1>5, <2>3
    <3>2. UNCHANGED <<copies, doubted, overrun, retried>> BY DEF ClaimMails, Outside
    <3>3. \A v \in Dispatcher : (HoldsMail(v, m)' <=> HoldsMail(v, m)) /\ (About(v, m) => About(v, m)')
      <4>1. ~About(w, m) BY <1>16 DEF About
      <4> QED BY <1>11, <1>12, <2>1, <2>3, <4>1
    <3> QED BY Elsewhere, <2>0, <3>1, <3>2, <3>3 DEF EInv
  <2> QED BY <2>2, <2>3
<1> QED BY <1>13, <1>14, <1>15 DEF EInv, ClaimMails, Outside

\* What the proofs below use of a step of one dispatcher: where it stands.
LEMMA TurnEffect ==
    ASSUME EmailTypeOK, NEW w \in Dispatcher,
           NEW pc \in {"ready", "suppressing", "sending", "accepted", "again", "fatal", "uncertain"},
           NEW c \in 0..MaxCopy,
           \/ Turn(w, pc)
           \/ dispatcher' = [dispatcher EXCEPT ![w].pc = pc, ![w].copy = c]
    PROVE  /\ dispatcher' \in [Dispatcher -> Sender]
           /\ dispatcher'[w].pc = pc
           /\ dispatcher'[w].at = dispatcher[w].at /\ dispatcher'[w].held = dispatcher[w].held
           /\ \A v \in Dispatcher : v # w => dispatcher'[v] = dispatcher[v]
           /\ \A v \in Dispatcher, m \in Mail : HoldsMail(v, m)' <=> HoldsMail(v, m)
<1>1. dispatcher[w] \in Sender BY DEF EmailTypeOK
<1>2. [dispatcher[w] EXCEPT !.pc = pc] \in Sender BY <1>1 DEF Sender
<1>3. [dispatcher[w] EXCEPT !.pc = pc, !.copy = c] \in Sender BY <1>1 DEF Sender
<1>4. CASE Turn(w, pc)
  <2>1. dispatcher' = [dispatcher EXCEPT ![w] = [dispatcher[w] EXCEPT !.pc = pc]] BY <1>4 DEF Turn
  <2> QED BY <1>1, <1>2, <2>1 DEF EmailTypeOK, HoldsMail, Sender
<1>5. CASE dispatcher' = [dispatcher EXCEPT ![w].pc = pc, ![w].copy = c]
  <2>1. dispatcher' = [dispatcher EXCEPT ![w] = [dispatcher[w] EXCEPT !.pc = pc, !.copy = c]] BY <1>5
  <2> QED BY <1>1, <1>3, <2>1 DEF EmailTypeOK, HoldsMail, Sender
<1> QED BY <1>4, <1>5

LEMMA PickKeeps ==
    ASSUME EInv, NEW w \in Dispatcher, NEW m \in Mail, PickMail(w, m) PROVE EInv'
<1> DEFINE pc == IF suppressed THEN "suppressing"
                 ELSE IF m \in dispatcher[w].sealed THEN "sending" ELSE "fatal"
           e == [dispatcher[w] EXCEPT !.at = m, !.pc = pc]
<1>1. dispatcher[w] \in Sender BY DEF EInv, EmailTypeOK
<1>2. e \in Sender /\ e.at = m /\ e.pc \in {"suppressing", "sending", "fatal"} /\ e.held = dispatcher[w].held
  BY <1>1 DEF Sender
<1>3. dispatcher' = [dispatcher EXCEPT ![w] = e] BY DEF PickMail
<1> HIDE DEF e
<1>4. /\ dispatcher' \in [Dispatcher -> Sender] /\ dispatcher'[w] = e
      /\ \A v \in Dispatcher : v # w => dispatcher'[v] = dispatcher[v]
  BY <1>2, <1>3 DEF EInv, EmailTypeOK
<1>5. \A v \in Dispatcher, x \in Mail : HoldsMail(v, x)' <=> HoldsMail(v, x)
  BY <1>2, <1>4 DEF HoldsMail
<1>6. UNCHANGED <<mail, doubted, overrun, retrying, copies, reports, suppressed, retried, mailCrashes>>
  BY DEF PickMail, Outside
<1>7. EmailTypeOK'
  <2>1. \A v \in Dispatcher : ~Stands(v, "ready")' => dispatcher'[v].at \in Mail
    BY <1>2, <1>4 DEF EInv, EmailTypeOK, Stands
  <2> QED BY <1>4, <1>6, <2>1 DEF EInv, EmailTypeOK
<1>8. HeldAt'
  <2>1. ASSUME NEW v \in Dispatcher, ~Stands(v, "ready")'
        PROVE  dispatcher'[v].at \in Mail /\ dispatcher'[v].held[dispatcher'[v].at] > 0
    <3>1. CASE v = w BY <3>1, <1>2, <1>4 DEF PickMail, HoldsMail
    <3>2. CASE v # w BY <2>1, <3>2, <1>4 DEF EInv, HeldAt, Stands, HoldsMail
    <3> QED BY <3>1, <3>2
  <2> QED BY <2>1 DEF HeldAt, HoldsMail
<1>9. ASSUME NEW x \in Mail PROVE Single(x)'
  <2>1. \A v \in Dispatcher : About(v, x) => About(v, x)'
    <3>1. ~About(w, x) BY DEF About, PickMail, Stands
    <3> QED BY <1>4, <3>1 DEF About
  <2> QED BY Elsewhere, <1>5, <1>6, <2>1 DEF EInv
<1> QED BY <1>6, <1>7, <1>8, <1>9 DEF EInv

\* Copies of mails that nothing excuses, and who holds them.
LEMMA SendKeeps ==
    ASSUME EInv, NEW w \in Dispatcher, Send(w) PROVE EInv'
<1> DEFINE m == dispatcher[w].at
<1>1. m \in Mail /\ HoldsMail(w, m) /\ Stands(w, "sending") BY DEF EInv, HeldAt, Send, Stands
<1>2. UNCHANGED <<mail, overrun, retrying, reports, suppressed, retried, mailCrashes>> BY DEF Send
<1>3. copies[m] \in 0..MaxCopy /\ copies[m] \in Nat BY <1>1, EmailAssumption DEF EInv, EmailTypeOK, EmailAssumption
<1>4. \/ /\ \E pc \in {"again", "fatal", "uncertain"} : Turn(w, pc)
         /\ UNCHANGED <<copies, doubted>>
      \/ /\ copies[m] < MaxCopy
         /\ copies' = [copies EXCEPT ![m] = @ + 1]
         /\ \/ /\ dispatcher' = [dispatcher EXCEPT ![w].pc = "accepted", ![w].copy = copies[m] + 1]
               /\ UNCHANGED doubted
            \/ Turn(w, "uncertain") /\ UNCHANGED doubted
            \/ Turn(w, "again") /\ doubted' = doubted \cup {m}
  BY DEF Send
<1>5. PICK pc \in {"accepted", "again", "fatal", "uncertain"}, c \in 0..MaxCopy :
         \/ Turn(w, pc)
         \/ dispatcher' = [dispatcher EXCEPT ![w].pc = pc, ![w].copy = c]
  <2>1. copies[m] < MaxCopy => copies[m] + 1 \in 0..MaxCopy BY <1>3, EmailAssumption DEF EmailAssumption
  <2>2. 0 \in 0..MaxCopy BY EmailAssumption DEF EmailAssumption
  <2> QED BY <1>4, <2>1, <2>2
<1>6. /\ dispatcher' \in [Dispatcher -> Sender]
      /\ dispatcher'[w].pc = pc
      /\ dispatcher'[w].at = m /\ dispatcher'[w].held = dispatcher[w].held
      /\ \A v \in Dispatcher : v # w => dispatcher'[v] = dispatcher[v]
      /\ \A v \in Dispatcher, x \in Mail : HoldsMail(v, x)' <=> HoldsMail(v, x)
  BY <1>5, TurnEffect DEF EInv
<1>7. copies' \in [Mail -> 0..MaxCopy] /\ \A x \in Mail : x # m => copies'[x] = copies[x]
  <2>1. copies[m] < MaxCopy => copies[m] + 1 \in 0..MaxCopy BY <1>3, EmailAssumption DEF EmailAssumption
  <2> QED BY <1>4, <2>1 DEF EInv, EmailTypeOK
<1>8. doubted \subseteq doubted' /\ doubted' \subseteq Mail /\ \A x \in Mail : x # m => (x \in doubted' <=> x \in doubted)
  BY <1>1, <1>4 DEF EInv, EmailTypeOK
<1>9. EmailTypeOK'
  <2>1. \A v \in Dispatcher : ~Stands(v, "ready")' => dispatcher'[v].at \in Mail
    BY <1>1, <1>6 DEF EInv, EmailTypeOK, Stands
  <2> QED BY <1>2, <1>6, <1>7, <1>8, <2>1 DEF EInv, EmailTypeOK
<1>10. HeldAt'
  <2>1. ASSUME NEW v \in Dispatcher, ~Stands(v, "ready")'
        PROVE  dispatcher'[v].at \in Mail /\ dispatcher'[v].held[dispatcher'[v].at] > 0
    <3>1. CASE v = w BY <3>1, <1>1, <1>6 DEF HoldsMail
    <3>2. CASE v # w BY <2>1, <3>2, <1>6 DEF EInv, HeldAt, Stands, HoldsMail
    <3> QED BY <3>1, <3>2
  <2> QED BY <2>1 DEF HeldAt, HoldsMail
<1>11. ASSUME NEW x \in Mail, x # m PROVE Single(x)'
  <2>1. \A v \in Dispatcher : About(v, x) => About(v, x)'
    BY <1>6, <1>11 DEF About
  <2>2. copies'[x] = copies[x] BY <1>7, <1>11
  <2> QED BY Elsewhere, <1>2, <1>6, <1>8, <2>1, <2>2 DEF EInv
<1>12. Single(m)'
  <2> DEFINE x == m
  <2> SUFFICES ASSUME NEW y \in Mail, y = m PROVE Single(y)' BY <1>1, <1>6
  <2>1. SUFFICES ASSUME y \notin doubted' \cup overrun \cup retried PROVE Single(y)'
    BY <1>2 DEF Single
  <2>2. y \notin doubted \cup overrun \cup retried BY <2>1, <1>8
  <2>3. Single(y) BY DEF EInv
  <2>4. mail[y].status = "sending" /\ mail[y].leased /\ \A v \in Dispatcher : HoldsMail(v, y) => v = w
    BY <1>1, <2>2, <2>3 DEF Single
  <2>5. copies[y] = 0
    <3>1. ~About(w, y) BY <1>1 DEF About, Stands
    <3> QED BY <1>1, <1>3, <2>2, <2>3, <3>1 DEF Single
  <2>6. copies'[y] = 0 \/ (copies'[y] = 1 /\ About(w, y)')
    <3>1. CASE UNCHANGED <<copies, doubted>> BY <3>1, <2>5
    <3>2. CASE copies' = [copies EXCEPT ![m] = @ + 1] /\ pc \in {"accepted", "uncertain"}
      BY <3>2, <1>6, <2>5 DEF EInv, EmailTypeOK, About
    <3>3. CASE doubted' = doubted \cup {m} BY <3>3, <2>1
    <3> QED
      <4>1. ASSUME copies' = [copies EXCEPT ![m] = @ + 1], y \notin doubted', UNCHANGED doubted
            PROVE  pc \in {"accepted", "uncertain"}
        <5>1. dispatcher' = [dispatcher EXCEPT ![w].pc = "accepted", ![w].copy = copies[m] + 1]
              \/ Turn(w, "uncertain") \/ UNCHANGED <<copies, doubted>>
          BY <1>4, <4>1, <2>1
        <5>2. dispatcher'[w].pc \in {"accepted", "uncertain"} \/ UNCHANGED <<copies, doubted>>
          BY <5>1 DEF Turn, EInv, EmailTypeOK, Sender
        <5>3. copies'[m] # copies[m] BY <4>1, <1>1, <1>3 DEF EInv, EmailTypeOK
        <5> QED BY <5>2, <5>3, <1>6
      <4> QED BY <1>4, <2>1, <3>1, <3>2, <3>3, <4>1
  <2>7. mail[y].ref # 0 => mail[y].status \in Told BY <2>2, <2>3 DEF Single
  <2>8. HoldsMail(w, y)' /\ \A v \in Dispatcher : HoldsMail(v, y)' => v = w BY <1>1, <1>6, <2>4
  <2>9. mail'[y].status = "sending" /\ mail'[y].leased /\ (mail'[y].ref # 0 => mail'[y].status \in Told)
        /\ mail'[y].status \notin Unsent \cup {"none"}
    BY <1>2, <2>4, <2>7 DEF Unsent
  <2> QED BY <2>6, <2>8, <2>9 DEF Single
<1> QED BY <1>2, <1>6, <1>9, <1>10, <1>11, <1>12 DEF EInv

\* A mail in hand that nothing excuses: nobody else holds it, and no copy of it was
\* accepted unless its holder is about to say so.
LEMMA InHand ==
    ASSUME EInv, NEW w \in Dispatcher, ~Stands(w, "ready"), NEW m \in Mail, m = dispatcher[w].at,
           m \notin doubted \cup overrun \cup retried
    PROVE  /\ mail[m].status = "sending" /\ mail[m].ref = 0
           /\ \A v \in Dispatcher : HoldsMail(v, m) => v = w
           /\ copies[m] \in Nat
           /\ copies[m] > 0 => copies[m] = 1 /\ (Stands(w, "accepted") \/ Stands(w, "uncertain"))
<1>1. HoldsMail(w, m) /\ Single(m) BY DEF EInv, HeldAt
<1>2. copies[m] \in Nat BY EmailAssumption DEF EInv, EmailTypeOK, EmailAssumption
<1> QED BY <1>1, <1>2 DEF Single, Told, About, Stands

LEMMA SettleKeeps ==
    ASSUME EInv, NEW w \in Dispatcher, ~Stands(w, "ready"), NEW row \in MailRow, Settle(w, row),
           UNCHANGED <<doubted, overrun, Outside>>,
           \A m \in Mail : m = dispatcher[w].at /\ m \notin doubted \cup overrun \cup retried =>
             /\ copies[m] > 0 => row.status \notin Unsent \cup {"none", "sending"}
             /\ row.ref # 0 => row.status \in Told
    PROVE  EInv'
<1>0. UNCHANGED <<doubted, overrun, retrying, copies, reports, suppressed, retried, mailCrashes>>
  BY DEF Outside
<1>1. /\ mail' \in [Mail -> MailRow]
      /\ dispatcher' \in [Dispatcher -> Sender]
      /\ mail'[dispatcher[w].at] = [row EXCEPT !.leased = FALSE]
      /\ \A m \in Mail : m # dispatcher[w].at => mail'[m] = mail[m]
      /\ \A v \in Dispatcher : v # w => dispatcher'[v] = dispatcher[v]
      /\ dispatcher'[w].pc = "ready"
      /\ \A m \in Mail : m = dispatcher[w].at => ~HoldsMail(w, m)'
      /\ \A m \in Mail : m # dispatcher[w].at => (HoldsMail(w, m)' <=> HoldsMail(w, m))
  BY SettleEffect DEF EInv
<1>2. EmailTypeOK'
  <2>1. \A v \in Dispatcher : ~Stands(v, "ready")' => dispatcher'[v].at \in Mail
    BY <1>1 DEF EInv, EmailTypeOK, Stands
  <2> QED BY <1>0, <1>1, <2>1 DEF EInv, EmailTypeOK
<1>3. HeldAt'
  <2>1. ASSUME NEW v \in Dispatcher, ~Stands(v, "ready")'
        PROVE  v # w /\ dispatcher'[v] = dispatcher[v]
    BY <1>1, <2>1 DEF Stands
  <2> QED BY <2>1 DEF EInv, HeldAt, Stands, HoldsMail
<1>4. ASSUME NEW m \in Mail, m # dispatcher[w].at PROVE Single(m)'
  <2>1. \A v \in Dispatcher : (HoldsMail(v, m)' <=> HoldsMail(v, m)) /\ (About(v, m) => About(v, m)')
    BY <1>1, <1>4 DEF About, HoldsMail
  <2> QED BY Elsewhere, <1>0, <1>1, <1>4, <2>1 DEF EInv
<1>5. ASSUME NEW m \in Mail, m = dispatcher[w].at PROVE Single(m)'
  <2>1. SUFFICES ASSUME m \notin doubted \cup overrun \cup retried PROVE Single(m)'
    BY <1>0 DEF Single
  <2>2. \A v \in Dispatcher : ~HoldsMail(v, m)'
    <3>1. ASSUME NEW v \in Dispatcher, v # w PROVE HoldsMail(v, m)' <=> HoldsMail(v, m)
      BY <1>1, <3>1 DEF HoldsMail
    <3> QED BY <1>1, <1>5, <2>1, <3>1, InHand
  <2>3. mail'[m].status = row.status /\ mail'[m].ref = row.ref BY <1>1, <1>5 DEF MailRow
  <2>4. copies[m] > 0 => copies[m] = 1 BY <1>5, <2>1, InHand
  <2> QED BY <1>0, <1>5, <2>1, <2>2, <2>3, <2>4 DEF Single
<1> QED BY <1>0, <1>2, <1>3, <1>4, <1>5 DEF EInv

LEMMA WriteOffKeeps == ASSUME EInv, NEW w \in Dispatcher, WriteOff(w) PROVE EInv'
<1> DEFINE row == [RowOf(w) EXCEPT !.status = "suppressed", !.payload = FALSE]
<1>1. ~Stands(w, "ready") /\ Stands(w, "suppressing") BY DEF WriteOff, Stands
<1>2. RowOf(w) \in MailRow BY <1>1 DEF EInv, EmailTypeOK, RowOf
<1>3. row \in MailRow /\ row.ref = RowOf(w).ref BY <1>2 DEF MailRow, MailStatus
<1>4. Settle(w, row) /\ UNCHANGED <<doubted, overrun, Outside>> BY DEF WriteOff
<1> HIDE DEF row
<1>5. \A m \in Mail : m = dispatcher[w].at /\ m \notin doubted \cup overrun \cup retried =>
        copies[m] = 0 /\ row.ref = 0
  BY <1>1, <1>3, InHand DEF RowOf, Stands
<1> QED BY SettleKeeps, <1>1, <1>3, <1>4, <1>5

LEMMA SentKeeps == ASSUME EInv, NEW w \in Dispatcher, RecordSent(w) PROVE EInv'
<1>1. ~Stands(w, "ready") /\ dispatcher[w] \in Sender /\ dispatcher[w].at \in Mail
  BY DEF RecordSent, Stands, EInv, EmailTypeOK
<1>2. RowOf(w) \in MailRow BY <1>1 DEF EInv, EmailTypeOK, RowOf
<1> DEFINE row == [RowOf(w) EXCEPT !.status = "sent", !.ref = dispatcher[w].copy, !.payload = FALSE]
<1>3. row \in MailRow /\ row.status = "sent" BY <1>1, <1>2 DEF MailRow, MailStatus, Told, Sender
<1>4. CASE Settle(w, row) /\ UNCHANGED doubted
  <2>1. Settle(w, row) /\ UNCHANGED <<doubted, overrun, Outside>> BY <1>4 DEF RecordSent
  <2> HIDE DEF row
  <2>2. row.status \in Told /\ row.status \notin Unsent \cup {"none", "sending"} BY <1>3 DEF Told, Unsent
  <2> QED BY SettleKeeps, <1>1, <1>3, <2>1, <2>2
<1>5. CASE Turn(w, "again") /\ doubted' = doubted \cup {dispatcher[w].at} /\ UNCHANGED mail
  <2>0. UNCHANGED <<mail, overrun, retrying, copies, reports, suppressed, retried, mailCrashes>>
    BY <1>5 DEF RecordSent, Outside
  <2>1. 0 \in 0..MaxCopy BY EmailAssumption DEF EmailAssumption
  <2>2. /\ dispatcher' \in [Dispatcher -> Sender]
        /\ dispatcher'[w].at = dispatcher[w].at /\ dispatcher'[w].held = dispatcher[w].held
        /\ \A v \in Dispatcher : v # w => dispatcher'[v] = dispatcher[v]
        /\ \A v \in Dispatcher, m \in Mail : HoldsMail(v, m)' <=> HoldsMail(v, m)
    BY <1>5, <2>1, TurnEffect DEF EInv
  <2>3. EmailTypeOK'
    <3>1. \A v \in Dispatcher : ~Stands(v, "ready")' => dispatcher'[v].at \in Mail
      BY <1>1, <2>2 DEF EInv, EmailTypeOK, Stands
    <3> QED BY <1>1, <1>5, <2>0, <2>2, <3>1 DEF EInv, EmailTypeOK
  <2>4. HeldAt'
    <3>1. ASSUME NEW v \in Dispatcher, ~Stands(v, "ready")'
          PROVE  dispatcher'[v].at \in Mail /\ dispatcher'[v].held[dispatcher'[v].at] > 0
      <4>1. CASE v = w BY <4>1, <1>1, <2>2 DEF EInv, HeldAt, HoldsMail
      <4>2. CASE v # w BY <3>1, <4>2, <2>2 DEF EInv, HeldAt, Stands, HoldsMail
      <4> QED BY <4>1, <4>2
    <3> QED BY <3>1 DEF HeldAt, HoldsMail
  <2>5. ASSUME NEW m \in Mail PROVE Single(m)'
    <3>1. CASE m = dispatcher[w].at BY <3>1, <1>5 DEF Single
    <3>2. CASE m # dispatcher[w].at
      <4>1. \A v \in Dispatcher : About(v, m) => About(v, m)' BY <2>2, <3>2 DEF About
      <4>2. doubted \subseteq doubted' BY <1>5
      <4> QED BY Elsewhere, <2>0, <2>2, <4>1, <4>2 DEF EInv
    <3> QED BY <3>1, <3>2
  <2> QED BY <2>0, <2>3, <2>4, <2>5 DEF EInv
<1> QED BY <1>4, <1>5 DEF RecordSent

LEMMA FailureKeeps == ASSUME EInv, NEW w \in Dispatcher, RecordFailure(w) PROVE EInv'
<1>1. ~Stands(w, "ready") BY DEF RecordFailure, Stands
<1>2. RowOf(w) \in MailRow /\ RowOf(w) = mail[dispatcher[w].at] BY <1>1 DEF EInv, EmailTypeOK, RowOf
<1>3. PICK status \in {"uncertain", "dead", "failed"}, due \in BOOLEAN :
        /\ Settle(w, [RowOf(w) EXCEPT !.status = status, !.due = due])
        /\ status = "failed" => Stands(w, "again")
  <2>1. ASSUME NEW status \in {"uncertain", "dead"}
        PROVE  [RowOf(w) EXCEPT !.status = status] = [RowOf(w) EXCEPT !.status = status, !.due = RowOf(w).due]
    BY <1>2 DEF MailRow
  <2>2. RowOf(w).due \in BOOLEAN BY <1>2 DEF MailRow
  <2>3. CASE Settle(w, [RowOf(w) EXCEPT !.status = "uncertain"]) BY <2>1, <2>2, <2>3
  <2>4. CASE Settle(w, [RowOf(w) EXCEPT !.status = "dead"]) BY <2>1, <2>2, <2>4
  <2>5. CASE Stands(w, "again") /\ Settle(w, [RowOf(w) EXCEPT !.status = "failed", !.due = FALSE])
    BY <2>5
  <2> QED BY <2>3, <2>4, <2>5 DEF RecordFailure
<1> DEFINE row == [RowOf(w) EXCEPT !.status = status, !.due = due]
<1>4. row \in MailRow /\ row.status = status /\ row.ref = RowOf(w).ref
  BY <1>2 DEF MailRow, MailStatus, Unsent
<1>5. Settle(w, row) /\ UNCHANGED <<doubted, overrun, Outside>> BY <1>3 DEF RecordFailure
<1> HIDE DEF row
<1>6. ASSUME NEW m \in Mail, m = dispatcher[w].at, m \notin doubted \cup overrun \cup retried
      PROVE  row.ref = 0 /\ (copies[m] > 0 => status # "failed")
  BY <1>1, <1>2, <1>3, <1>4, <1>6, InHand DEF Stands
<1>7. status \notin {"none", "sending", "pending"} OBVIOUS
<1> QED BY SettleKeeps, <1>1, <1>4, <1>5, <1>6, <1>7 DEF Unsent

LEMMA CrashKeeps == ASSUME EInv, NEW w \in Dispatcher, CrashDispatcher(w) PROVE EInv'
<1>1. /\ dispatcher' \in [Dispatcher -> Sender] /\ dispatcher'[w] = AtRest
      /\ \A v \in Dispatcher : v # w => dispatcher'[v] = dispatcher[v]
  BY RestType DEF CrashDispatcher, EInv, EmailTypeOK
<1>2. /\ UNCHANGED <<mail, overrun, retrying, copies, reports, suppressed, retried>>
      /\ doubted' = doubted \cup (IF Stands(w, "ready") THEN {} ELSE {dispatcher[w].at})
      /\ mailCrashes' = mailCrashes + 1 /\ mailCrashes < MaxMailCrash
  BY DEF CrashDispatcher
<1>3. EmailTypeOK'
  <2>1. \A v \in Dispatcher : ~Stands(v, "ready")' => dispatcher'[v].at \in Mail
    BY <1>1, RestFree DEF EInv, EmailTypeOK, Stands
  <2>2. doubted' \subseteq Mail BY <1>2 DEF EInv, EmailTypeOK
  <2>3. mailCrashes' \in 0..MaxMailCrash
    BY <1>2, EmailAssumption DEF EInv, EmailTypeOK, EmailAssumption
  <2> QED BY <1>1, <1>2, <2>1, <2>2, <2>3 DEF EInv, EmailTypeOK
<1>4. HeldAt'
  <2>1. ASSUME NEW v \in Dispatcher, ~Stands(v, "ready")'
        PROVE  v # w /\ dispatcher'[v] = dispatcher[v]
    BY <1>1, <2>1, RestFree DEF Stands
  <2> QED BY <2>1 DEF EInv, HeldAt, Stands, HoldsMail
<1>5. ASSUME NEW m \in Mail PROVE Single(m)'
  <2>1. SUFFICES ASSUME m \notin doubted' \cup overrun \cup retried PROVE Single(m)'
    BY <1>2 DEF Single
  <2>2. Single(m) /\ m \notin doubted \cup overrun \cup retried BY <1>2, <2>1 DEF EInv
  <2>3. ~HoldsMail(w, m)' /\ \A v \in Dispatcher : v # w =>
          (HoldsMail(v, m)' <=> HoldsMail(v, m)) /\ (About(v, m)' <=> About(v, m))
    BY <1>1, RestFree DEF HoldsMail, About
  <2>4. ~About(w, m) BY <1>2, <2>1 DEF About, Stands
  <2> QED BY <1>2, <2>2, <2>3, <2>4 DEF Single
<1> QED BY <1>2, <1>3, <1>4, <1>5 DEF EInv

\* Steps of operators and of the provider, which write a row that, unless something
\* excuses its mail, no dispatcher holds.
LEMMA RowKeeps ==
    ASSUME EInv, NEW m \in Mail, mail' \in [Mail -> MailRow], NEW row, mail'[m] = row,
           \A x \in Mail : x # m => mail'[x] = mail[x],
           UNCHANGED <<dispatcher, copies, doubted, overrun, mailCrashes>>,
           retried \subseteq retried', retried' \subseteq Mail, retrying' \subseteq retried',
           suppressed' \in BOOLEAN, reports' \subseteq Mail \X (1..MaxCopy) \X {"delivered", "bounced"},
           m \in doubted \cup overrun \cup retried' \/ row = mail[m] \/
             /\ mail[m].status # "sending"
             /\ row.status \notin Unsent \cup {"none", "sending"}
             /\ row.ref # 0 => row.status \in Told
    PROVE  EInv'
<1>1. EmailTypeOK' /\ HeldAt' BY DEF EInv, EmailTypeOK, HeldAt, Stands, HoldsMail
<1>2. ASSUME NEW x \in Mail, x # m PROVE Single(x)'
  BY <1>2, Elsewhere DEF EInv, HoldsMail, About
<1>3. Single(m)'
  <2>1. SUFFICES ASSUME m \notin doubted \cup overrun \cup retried', m \notin retried PROVE Single(m)'
    BY DEF Single
  <2>2. Single(m) BY DEF EInv
  <2>3. CASE row = mail[m] BY <2>3, <2>2, Elsewhere DEF EInv, HoldsMail, About
  <2>4. CASE /\ mail[m].status # "sending"
             /\ row.status \notin Unsent \cup {"none", "sending"}
             /\ row.ref # 0 => row.status \in Told
    <3>1. \A w \in Dispatcher : ~HoldsMail(w, m) BY <2>1, <2>2, <2>4 DEF Single
    <3>2. copies[m] > 0 => copies[m] = 1 BY <2>1, <2>2 DEF Single
    <3> QED BY <2>4, <3>1, <3>2 DEF Single, HoldsMail
  <2> QED BY <2>1, <2>3, <2>4
<1> QED BY <1>1, <1>2, <1>3 DEF EInv

LEMMA OperatorKeeps ==
    ASSUME EInv, NEW m \in Mail,
           \/ ReadRetry(m) \/ WriteRetry(m) \/ PurgeMail(m)
           \/ \E outcome \in {"sent", "dead"} : Resolve(m, outcome)
    PROVE  EInv'
<1>0. mail \in [Mail -> MailRow] /\ mail[m] \in MailRow /\ retrying \subseteq retried /\ retried \subseteq Mail
      /\ suppressed \in BOOLEAN /\ reports \subseteq Mail \X (1..MaxCopy) \X {"delivered", "bounced"}
  BY DEF EInv, EmailTypeOK
<1>1. CASE ReadRetry(m)
  <2>1. UNCHANGED <<mail, dispatcher, copies, doubted, overrun, mailCrashes, suppressed, reports>>
        /\ retried' = retried \cup {m} /\ retrying' = retrying \cup {m}
    BY <1>1 DEF ReadRetry
  <2> QED BY <1>0, <2>1, RowKeeps
<1>2. CASE WriteRetry(m)
  <2> DEFINE row == [mail[m] EXCEPT !.status = "pending", !.due = TRUE, !.attempts = 0]
  <2>1. UNCHANGED <<dispatcher, copies, doubted, overrun, mailCrashes, suppressed, reports, retried>>
        /\ retrying' = retrying \ {m} /\ m \in retried /\ mail' = [mail EXCEPT ![m] = row]
    BY <1>0, <1>2 DEF WriteRetry
  <2>2. 0 \in 0..(MailMaxAttempts + 1) BY EmailAssumption DEF EmailAssumption
  <2>3. row \in MailRow BY <1>0, <2>2 DEF MailRow, MailStatus, Unsent
  <2> HIDE DEF row
  <2>4. mail' \in [Mail -> MailRow] /\ mail'[m] = row /\ \A x \in Mail : x # m => mail'[x] = mail[x]
    BY <1>0, <2>1, <2>3
  <2> QED BY <1>0, <2>1, <2>4, RowKeeps
<1>3. CASE PurgeMail(m)
  <2> DEFINE row == [NoMail EXCEPT !.status = "purged"]
  <2>1. UNCHANGED <<dispatcher, copies, doubted, overrun, mailCrashes, suppressed, reports, retried, retrying>>
        /\ mail' = [mail EXCEPT ![m] = row] /\ mail[m].status # "sending"
    BY <1>3 DEF PurgeMail, Outside, Told
  <2>2. row \in MailRow /\ row.status = "purged" /\ row.ref = 0 BY RestType DEF NoMail, MailRow, MailStatus
  <2> HIDE DEF row
  <2>3. mail' \in [Mail -> MailRow] /\ mail'[m] = row /\ \A x \in Mail : x # m => mail'[x] = mail[x]
    BY <1>0, <2>1, <2>2
  <2>4. row.status \notin Unsent \cup {"none", "sending"} BY <2>2 DEF Unsent
  <2> QED BY <1>0, <2>1, <2>2, <2>3, <2>4, RowKeeps
<1>4. ASSUME NEW outcome \in {"sent", "dead"}, Resolve(m, outcome) PROVE EInv'
  <2> DEFINE row == [mail[m] EXCEPT !.status = outcome, !.payload = FALSE]
  <2>1. UNCHANGED <<dispatcher, copies, doubted, overrun, mailCrashes, suppressed, reports, retried, retrying>>
        /\ mail' = [mail EXCEPT ![m] = row] /\ mail[m].status = "uncertain"
    BY <1>0, <1>4 DEF Resolve, Outside
  <2>2. row \in MailRow /\ row.status = outcome /\ row.ref = mail[m].ref
    BY <1>0 DEF MailRow, MailStatus, Told
  <2> HIDE DEF row
  <2>3. mail' \in [Mail -> MailRow] /\ mail'[m] = row /\ \A x \in Mail : x # m => mail'[x] = mail[x]
    BY <1>0, <2>1, <2>2
  <2>4. row.status \notin Unsent \cup {"none", "sending"} BY <2>2 DEF Unsent
  <2>5. m \in doubted \cup overrun \cup retried \/ row.ref = 0 BY <2>1, <2>2 DEF EInv, Single, Told
  <2> QED BY <1>0, <2>1, <2>2, <2>3, <2>4, <2>5, RowKeeps
<1> QED BY <1>1, <1>2, <1>3, <1>4

LEMMA ReportKeeps ==
    ASSUME EInv, NEW m \in Mail, NEW n \in 1..MaxCopy, NEW kind \in {"delivered", "bounced"},
           Report(m, n, kind)
    PROVE  EInv'
<1>0. mail \in [Mail -> MailRow] /\ mail[m] \in MailRow /\ retrying \subseteq retried /\ retried \subseteq Mail
      /\ suppressed \in BOOLEAN /\ reports \subseteq Mail \X (1..MaxCopy) \X {"delivered", "bounced"}
  BY DEF EInv, EmailTypeOK
<1>1. /\ UNCHANGED <<dispatcher, retrying, copies, doubted, overrun, retried, mailCrashes>>
      /\ reports' = reports \cup {<<m, n, kind>>} /\ suppressed' \in BOOLEAN
      /\ mail' = Reported(m, n, kind)
  BY <1>0 DEF Report
<1>2. reports' \subseteq Mail \X (1..MaxCopy) \X {"delivered", "bounced"} BY <1>0, <1>1
<1> DEFINE row == [mail[m] EXCEPT !.status = kind]
<1>3. CASE n = mail[m].ref /\ mail' = [mail EXCEPT ![m].status = kind]
  <2>1. row \in MailRow /\ row.status = kind BY <1>0 DEF MailRow, MailStatus, Told
  <2>2. mail' = [mail EXCEPT ![m] = row] BY <1>3
  <2> HIDE DEF row
  <2>3. mail' \in [Mail -> MailRow] /\ mail'[m] = row /\ \A x \in Mail : x # m => mail'[x] = mail[x]
    BY <1>0, <2>1, <2>2
  <2>4. row.status \in Told /\ row.status \notin Unsent \cup {"none", "sending"} BY <2>1 DEF Unsent, Told
  <2>5. m \in doubted \cup overrun \cup retried \/ mail[m].status # "sending"
    <3>1. n # 0 BY EmailAssumption DEF EmailAssumption
    <3> QED BY <1>3, <3>1 DEF EInv, Single, Told
  <2> QED BY <1>0, <1>1, <1>2, <2>3, <2>4, <2>5, RowKeeps
<1>4. CASE mail' = mail BY <1>0, <1>1, <1>2, <1>4, RowKeeps
<1> QED BY <1>1, <1>3, <1>4 DEF Reported

-----------------------------------------------------------------------------
(* The theorems                                                             *)

LEMMA MailKeeps == EInv /\ [EmailNext]_emailVars => EInv'
<1> SUFFICES ASSUME EInv, [EmailNext]_emailVars PROVE EInv' OBVIOUS
<1>1. ASSUME NEW w \in Dispatcher, NEW S \in SUBSET Mail, ClaimMails(w, S) PROVE EInv'
  BY <1>1, ClaimKeeps
<1>2. ASSUME NEW w \in Dispatcher, Dispatch(w) PROVE EInv'
  BY <1>2, PickKeeps, WriteOffKeeps, SendKeeps, SentKeeps, FailureKeeps DEF Dispatch
<1>3. ASSUME NEW w \in Dispatcher, CrashDispatcher(w) PROVE EInv' BY <1>3, CrashKeeps
<1>4. ASSUME NEW m \in Mail, QueueMail(m) PROVE EInv' BY <1>4, QueueKeeps
<1>5. ASSUME NEW m \in Mail, ReadRetry(m) \/ WriteRetry(m) \/ PurgeMail(m) PROVE EInv'
  BY <1>5, OperatorKeeps
<1>6. ASSUME NEW m \in Mail, NEW outcome \in {"sent", "dead"}, Resolve(m, outcome) PROVE EInv'
  BY <1>6, OperatorKeeps
<1>7. ASSUME NEW m \in Mail, NEW n \in 1..MaxCopy, NEW kind \in {"delivered", "bounced"}, Report(m, n, kind)
      PROVE  EInv'
  BY <1>7, ReportKeeps
<1>8. ASSUME NEW m \in Mail, BecomeDue(m) \/ LeaseEnds(m) PROVE EInv' BY <1>8, TimeKeeps
<1>9. CASE UNCHANGED emailVars
  <2>1. EmailTypeOK' /\ HeldAt' /\ (retrying \subseteq retried)'
    BY <1>9 DEF emailVars, EInv, EmailTypeOK, HeldAt, Stands, HoldsMail
  <2>2. ASSUME NEW m \in Mail PROVE Single(m)'
    BY <1>9 DEF emailVars, EInv, Single, About, HoldsMail
  <2> QED BY <2>1, <2>2 DEF EInv
<1> QED BY <1>1, <1>2, <1>3, <1>4, <1>5, <1>6, <1>7, <1>8, <1>9 DEF EmailNext

\* The invariant the theorems rest on: rows and dispatchers have their types, and every
\* mail is in the hands of one dispatcher at most unless something excuses it.
THEOREM MailInHand == EmailSpec => []EInv
  BY MailBegins, MailKeeps, PTL DEF EmailSpec

\* Every row, dispatcher, report and history of the outbox keeps its type: attempts do
\* not pass their bound by more than one, and a mail in hand is a mail.
THEOREM MailTyping == EmailSpec => []EmailTypeOK
<1>1. EInv => EmailTypeOK BY DEF EInv
<1> QED BY MailInHand, <1>1, PTL

\* A mail is accepted twice only if a dispatcher was cut short with it in hand, outlived
\* its lease or lost the provider's answer with the connection, or an operator asked for
\* it: dispatchEmails() claims with a lease and counts a timeout as uncertain.
THEOREM AcceptedOnce == EmailSpec => []OneCopy
<1>1. EInv => OneCopy
  <2> SUFFICES ASSUME EInv, NEW m \in Mail, copies[m] > 1, ~Excused(m) PROVE FALSE
    BY DEF OneCopy
  <2>1. copies[m] \in Nat BY EmailAssumption DEF EInv, EmailTypeOK, EmailAssumption
  <2>2. copies[m] = 1 BY <2>1 DEF EInv, Single, Excused
  <2> QED BY <2>2
<1> QED BY MailInHand, <1>1, PTL

-----------------------------------------------------------------------------
(* What became of a mail                                                    *)

\* Who holds a mail alone, even one that the provider may have accepted without a word.
Alone(m) ==
    m \notin overrun \cup retried =>
      /\ \A w \in Dispatcher : HoldsMail(w, m) => mail[m].status = "sending" /\ mail[m].leased
      /\ \A w, v \in Dispatcher : HoldsMail(w, m) /\ HoldsMail(v, m) => w = v
      /\ mail[m].ref # 0 => mail[m].status \in Told

GoesOnly(m) ==
    mail[m].status \in Told => Progress(mail[m].status, mail'[m].status) \/ m \in overrun \cup retried

OInv == EInv /\ \A m \in Mail : Alone(m)

\* What a step leaves alone.
LEMMA AloneStays ==
    ASSUME NEW m \in Mail, Alone(m), mail'[m] = mail[m],
           overrun \subseteq overrun', retried \subseteq retried',
           \A v \in Dispatcher : HoldsMail(v, m)' => HoldsMail(v, m)
    PROVE  Alone(m)' /\ GoesOnly(m)
  BY DEF Alone, GoesOnly, Progress

\* A row that is written while no other dispatcher holds its mail.
LEMMA AloneWritten ==
    ASSUME NEW m \in Mail, NEW row, mail'[m] = row, overrun \subseteq overrun', retried \subseteq retried',
           \A v \in Dispatcher : ~HoldsMail(v, m)',
           m \notin overrun \cup retried => /\ row.ref # 0 => row.status \in Told
                                            /\ mail[m].status \in Told => Progress(mail[m].status, row.status)
    PROVE  Alone(m)' /\ GoesOnly(m)
  BY DEF Alone, GoesOnly

LEMMA AloneBegins == EmailInit => \A m \in Mail : Alone(m)
<1> SUFFICES ASSUME EmailInit, NEW m \in Mail PROVE Alone(m) OBVIOUS
<1>1. \A w \in Dispatcher : ~HoldsMail(w, m) BY DEF EmailInit, HoldsMail, AtRest
<1>2. mail[m].ref = 0 BY DEF EmailInit, NoMail
<1> QED BY <1>1, <1>2 DEF Alone

LEMMA ClaimAlone ==
    ASSUME OInv, NEW w \in Dispatcher, NEW S \in SUBSET Mail, ClaimMails(w, S), NEW m \in Mail
    PROVE  Alone(m)' /\ GoesOnly(m)
<1>0. mail[m] \in MailRow /\ Alone(m) /\ UNCHANGED <<overrun, retried>>
  BY DEF OInv, EInv, EmailTypeOK, ClaimMails, Outside
<1>1. \A v \in Dispatcher : v # w => dispatcher'[v] = dispatcher[v]
  BY DEF OInv, EInv, EmailTypeOK, ClaimMails
<1>2. dispatcher'[w].held = [x \in Mail |-> IF x \in S THEN Tried(mail[x].attempts) ELSE 0]
  BY DEF OInv, EInv, EmailTypeOK, ClaimMails, Sender
<1>3. CASE m \in S
  <2>1. mail'[m] = [mail[m] EXCEPT !.status = "sending", !.attempts = Tried(@), !.leased = TRUE]
    BY <1>3 DEF ClaimMails
  <2>2. mail'[m].status = "sending" /\ mail'[m].leased /\ mail'[m].ref = mail[m].ref
    BY <1>0, <2>1 DEF MailRow
  <2>3. Claimable(m) BY <1>3 DEF ClaimMails
  <2>4. mail[m].status \notin Told BY <2>3 DEF Claimable, Unsent, Told
  <2>5. m \notin overrun \cup retried => \A v \in Dispatcher : ~HoldsMail(v, m)
    BY <1>0, <2>3 DEF Alone, Claimable, Unsent
  <2>6. \A v \in Dispatcher : v # w => (HoldsMail(v, m)' <=> HoldsMail(v, m)) BY <1>1 DEF HoldsMail
  <2> QED BY <1>0, <2>2, <2>4, <2>5, <2>6 DEF Alone, GoesOnly
<1>4. CASE m \notin S
  <2>1. mail'[m] = mail[m] BY <1>4 DEF ClaimMails
  <2>2. ~HoldsMail(w, m)' BY <1>2, <1>4 DEF HoldsMail
  <2>3. \A v \in Dispatcher : v # w => (HoldsMail(v, m)' <=> HoldsMail(v, m)) BY <1>1 DEF HoldsMail
  <2> QED BY <1>0, <2>1, <2>2, <2>3, AloneStays
<1> QED BY <1>3, <1>4

\* A dispatcher settles the row of a mail it holds.
LEMMA SettleAlone ==
    ASSUME OInv, NEW w \in Dispatcher, ~Stands(w, "ready"), NEW row \in MailRow, Settle(w, row),
           UNCHANGED <<overrun, retried>>,
           row.ref = RowOf(w).ref \/ row.status \in Told, NEW m \in Mail
    PROVE  Alone(m)' /\ GoesOnly(m)
<1>0. Alone(m) /\ EmailTypeOK /\ HeldAt BY DEF OInv, EInv
<1>1. /\ mail'[dispatcher[w].at] = [row EXCEPT !.leased = FALSE]
      /\ \A x \in Mail : x # dispatcher[w].at => mail'[x] = mail[x]
      /\ \A v \in Dispatcher : v # w => dispatcher'[v] = dispatcher[v]
      /\ \A x \in Mail : x = dispatcher[w].at => ~HoldsMail(w, x)'
      /\ \A x \in Mail : x # dispatcher[w].at => (HoldsMail(w, x)' <=> HoldsMail(w, x))
  BY <1>0, SettleEffect
<1>2. \A v \in Dispatcher : v # w => (HoldsMail(v, m)' <=> HoldsMail(v, m)) BY <1>1 DEF HoldsMail
<1>3. CASE m # dispatcher[w].at BY <1>0, <1>1, <1>2, <1>3, AloneStays
<1>4. CASE m = dispatcher[w].at
  <2>1. HoldsMail(w, m) BY <1>0, <1>4 DEF HeldAt
  <2>2. mail'[m].ref = row.ref /\ mail'[m].status = row.status BY <1>1, <1>4 DEF MailRow
  <2>3. m \notin overrun \cup retried =>
          /\ mail[m].status = "sending"
          /\ \A v \in Dispatcher : ~HoldsMail(v, m)'
    BY <1>0, <1>1, <1>2, <1>4, <2>1 DEF Alone
  <2>4. "sending" \notin Told BY DEF Told
  <2>5. RowOf(w) = mail[m] BY <1>4 DEF RowOf
  <2> QED BY <1>0, <2>2, <2>3, <2>4, <2>5 DEF Alone, GoesOnly
<1> QED BY <1>3, <1>4

LEMMA DispatchAlone ==
    ASSUME OInv, NEW w \in Dispatcher, Dispatch(w) \/ CrashDispatcher(w), NEW m \in Mail
    PROVE  Alone(m)' /\ GoesOnly(m)
<1>0. EmailTypeOK /\ HeldAt /\ Alone(m) /\ dispatcher[w] \in Sender BY DEF OInv, EInv, EmailTypeOK
<1>1. ASSUME UNCHANGED <<mail, overrun, retried>>, dispatcher' = [dispatcher EXCEPT ![w] = dispatcher'[w]],
             \A x \in Mail : dispatcher'[w].held[x] > 0 => dispatcher[w].held[x] > 0
      PROVE  Alone(m)' /\ GoesOnly(m)
  <2>1. \A v \in Dispatcher : v # w => dispatcher'[v] = dispatcher[v] BY <1>0, <1>1 DEF EmailTypeOK
  <2>2. \A v \in Dispatcher : HoldsMail(v, m)' => HoldsMail(v, m) BY <1>1, <2>1 DEF HoldsMail
  <2> QED BY <1>0, <1>1, <2>2, AloneStays
<1>2. CASE \E x \in Mail : PickMail(w, x)
  <2>1. PICK x \in Mail, pc \in {"suppressing", "sending", "fatal"} :
          dispatcher' = [dispatcher EXCEPT ![w].at = x, ![w].pc = pc]
    BY <1>2 DEF PickMail
  <2>2. dispatcher' = [dispatcher EXCEPT ![w] = [dispatcher[w] EXCEPT !.at = x, !.pc = pc]] BY <2>1
  <2>3. dispatcher'[w] = [dispatcher[w] EXCEPT !.at = x, !.pc = pc] BY <1>0, <2>2 DEF EmailTypeOK
  <2>4. dispatcher'[w].held = dispatcher[w].held BY <1>0, <2>3 DEF Sender
  <2> QED BY <1>1, <1>2, <2>2, <2>3, <2>4 DEF PickMail, Outside
<1>3. CASE Send(w)
  <2>1. dispatcher' = [dispatcher EXCEPT ![w] = dispatcher'[w]] /\ dispatcher'[w].held = dispatcher[w].held
    BY <1>0, <1>3 DEF Send, Turn, EmailTypeOK, Sender
  <2> QED BY <1>1, <1>3, <2>1 DEF Send
<1>4. CASE CrashDispatcher(w)
  <2>1. dispatcher' = [dispatcher EXCEPT ![w] = AtRest] BY <1>4 DEF CrashDispatcher
  <2>2. dispatcher'[w] = AtRest BY <1>0, <2>1 DEF EmailTypeOK
  <2>3. \A x \in Mail : ~(AtRest.held[x] > 0) BY RestFree
  <2> QED BY <1>1, <1>4, <2>1, <2>2, <2>3 DEF CrashDispatcher
<1>5. CASE WriteOff(w)
  <2> DEFINE row == [RowOf(w) EXCEPT !.status = "suppressed", !.payload = FALSE]
  <2>1. ~Stands(w, "ready") BY <1>5 DEF WriteOff, Stands
  <2>2. RowOf(w) \in MailRow BY <1>0, <2>1 DEF EmailTypeOK, RowOf
  <2>3. row \in MailRow /\ row.ref = RowOf(w).ref BY <2>2 DEF MailRow, MailStatus
  <2>4. Settle(w, row) /\ UNCHANGED <<overrun, retried>> BY <1>5 DEF WriteOff, Outside
  <2> HIDE DEF row
  <2> QED BY <2>1, <2>3, <2>4, SettleAlone
<1>6. CASE RecordSent(w)
  <2> DEFINE row == [RowOf(w) EXCEPT !.status = "sent", !.ref = dispatcher[w].copy, !.payload = FALSE]
  <2>1. ~Stands(w, "ready") /\ UNCHANGED <<overrun, retried>> BY <1>6 DEF RecordSent, Stands, Outside
  <2>2. RowOf(w) \in MailRow BY <1>0, <2>1 DEF EmailTypeOK, RowOf
  <2>3. row \in MailRow /\ row.status \in Told BY <1>0, <2>2 DEF MailRow, MailStatus, Told, Sender
  <2>4. CASE Settle(w, row)
    <3> HIDE DEF row
    <3> QED BY <2>1, <2>3, <2>4, SettleAlone
  <2>5. CASE Turn(w, "again") /\ UNCHANGED mail
    <3>1. dispatcher' = [dispatcher EXCEPT ![w] = dispatcher'[w]] /\ dispatcher'[w].held = dispatcher[w].held
      BY <1>0, <2>5 DEF Turn, EmailTypeOK, Sender
    <3> QED BY <1>1, <2>1, <2>5, <3>1
  <2> QED BY <1>6, <2>4, <2>5 DEF RecordSent
<1>7. CASE RecordFailure(w)
  <2>1. ~Stands(w, "ready") /\ UNCHANGED <<overrun, retried>> BY <1>7 DEF RecordFailure, Stands, Outside
  <2>2. RowOf(w) \in MailRow BY <1>0, <2>1 DEF EmailTypeOK, RowOf
  <2>3. PICK row : /\ Settle(w, row)
                   /\ \/ row = [RowOf(w) EXCEPT !.status = "uncertain"]
                      \/ row = [RowOf(w) EXCEPT !.status = "dead"]
                      \/ row = [RowOf(w) EXCEPT !.status = "failed", !.due = FALSE]
    BY <1>7 DEF RecordFailure
  <2>4. row \in MailRow /\ row.ref = RowOf(w).ref BY <2>2, <2>3 DEF MailRow, MailStatus, Unsent
  <2> QED BY <2>1, <2>3, <2>4, SettleAlone
<1> QED BY <1>2, <1>3, <1>4, <1>5, <1>6, <1>7 DEF Dispatch

\* Steps on one row by others than dispatchers.
LEMMA OthersAlone ==
    ASSUME OInv, NEW x \in Mail,
           \/ QueueMail(x) \/ ReadRetry(x) \/ WriteRetry(x)
           \/ \E outcome \in {"sent", "dead"} : Resolve(x, outcome)
           \/ \E n \in 1..MaxCopy, kind \in {"delivered", "bounced"} : Report(x, n, kind)
           \/ PurgeMail(x) \/ BecomeDue(x) \/ LeaseEnds(x),
           NEW m \in Mail
    PROVE  Alone(m)' /\ GoesOnly(m)
<1>0. mail \in [Mail -> MailRow] /\ mail[x] \in MailRow /\ Alone(x) /\ Alone(m) /\ retrying \subseteq retried
  BY DEF OInv, EInv, EmailTypeOK
<1>1. UNCHANGED dispatcher /\ overrun \subseteq overrun' /\ retried \subseteq retried'
  BY DEF QueueMail, ReadRetry, WriteRetry, Resolve, Report, PurgeMail, BecomeDue, LeaseEnds, Outside
<1>2. \A v \in Dispatcher : HoldsMail(v, m)' <=> HoldsMail(v, m) BY <1>1 DEF HoldsMail
<1>3. m # x => mail'[m] = mail[m]
  BY <1>0 DEF QueueMail, ReadRetry, WriteRetry, Resolve, Report, Reported, PurgeMail, BecomeDue, LeaseEnds
<1>4. CASE m # x \/ UNCHANGED mail BY <1>0, <1>1, <1>2, <1>3, <1>4, AloneStays
<1>5. CASE m = x /\ m \in retried
  <2>1. m \in retried' BY <1>1, <1>5
  <2> QED BY <1>5, <2>1 DEF Alone, GoesOnly
<1>6. ASSUME m = x, NEW row, mail'[m] = row, mail[m].status # "sending",
             row.ref # 0 => row.status \in Told,
             mail[m].status \in Told => Progress(mail[m].status, row.status)
      PROVE  Alone(m)' /\ GoesOnly(m)
  <2>1. m \notin overrun \cup retried => \A v \in Dispatcher : ~HoldsMail(v, m)' BY <1>0, <1>2, <1>6 DEF Alone
  <2> QED BY <1>0, <1>1, <1>6, <2>1 DEF Alone, GoesOnly
<1>7. CASE m = x /\ QueueMail(x)
  <2>1. mail'[m] = [NoMail EXCEPT !.status = "pending", !.payload = TRUE] BY <1>0, <1>7 DEF QueueMail
  <2>2. mail'[m].ref = 0 /\ mail[m].status = "none" BY <1>7, <2>1 DEF QueueMail, NoMail
  <2> QED BY <1>6, <1>7, <2>2 DEF Told
<1>8. CASE m = x /\ \E outcome \in {"sent", "dead"} : Resolve(x, outcome)
  <2>1. mail'[m].ref = mail[m].ref /\ mail[m].status = "uncertain" BY <1>0, <1>8 DEF Resolve, MailRow
  <2>2. m \in overrun \cup retried \/ mail[m].ref = 0 BY <1>0, <1>8, <2>1 DEF Alone, Told
  <2> QED BY <1>0, <1>1, <1>2, <1>8, <2>1, <2>2 DEF Alone, GoesOnly, Told
<1>9. CASE m = x /\ PurgeMail(x)
  <2>1. mail'[m] = [NoMail EXCEPT !.status = "purged"] BY <1>0, <1>9 DEF PurgeMail
  <2>2. mail'[m].ref = 0 /\ mail'[m].status = "purged" BY <2>1 DEF NoMail
  <2>3. mail[m].status # "sending" BY <1>9 DEF PurgeMail, Told
  <2> QED BY <1>6, <1>9, <2>2, <2>3 DEF Progress
<1>10. CASE m = x /\ (BecomeDue(x) \/ LeaseEnds(x))
  <2>1. mail'[m].status = mail[m].status /\ mail'[m].ref = mail[m].ref
        /\ ((\E v \in Dispatcher : HoldsMail(v, m)) /\ mail[m].leased => mail'[m].leased \/ m \in overrun')
    BY <1>0, <1>10 DEF BecomeDue, LeaseEnds, MailRow
  <2> QED BY <1>0, <1>1, <1>2, <2>1 DEF Alone, GoesOnly, Progress
<1>11. ASSUME m = x, NEW n \in 1..MaxCopy, NEW kind \in {"delivered", "bounced"}, Report(x, n, kind)
       PROVE  Alone(m)' /\ GoesOnly(m)
  <2>1. CASE n = mail[m].ref /\ (kind = "bounced" \/ mail[m].status \in {"sent", "uncertain"})
    <3>1. mail'[m].status = kind /\ mail'[m].ref = mail[m].ref
      BY <1>0, <1>11, <2>1 DEF Report, Reported, MailRow
    <3>2. n # 0 BY EmailAssumption DEF EmailAssumption
    <3>3. m \notin overrun \cup retried => mail[m].status \in Told BY <1>0, <1>11, <2>1, <3>2 DEF Alone
    <3>4. mail[m].status \in Told => Progress(mail[m].status, kind) BY <2>1 DEF Progress, Told
    <3>5. kind \in Told BY DEF Told
    <3> QED BY <1>0, <1>1, <1>2, <1>11, <3>1, <3>3, <3>4, <3>5 DEF Alone, GoesOnly, Told
  <2>2. CASE ~(n = mail[m].ref /\ (kind = "bounced" \/ mail[m].status \in {"sent", "uncertain"}))
    BY <1>4, <1>11, <2>2 DEF Report, Reported
  <2> QED BY <2>1, <2>2
<1>12. CASE m = x /\ ReadRetry(x) BY <1>4, <1>12 DEF ReadRetry
<1>13. CASE m = x /\ WriteRetry(x)
  <2>1. m \in retried BY <1>0, <1>13 DEF WriteRetry
  <2> QED BY <1>5, <1>13, <2>1
<1> QED BY <1>4, <1>7, <1>8, <1>9, <1>10, <1>11, <1>12, <1>13

LEMMA OutcomesStep ==
    ASSUME OInv, EmailNext PROVE \A m \in Mail : Alone(m)' /\ GoesOnly(m)
  BY ClaimAlone, DispatchAlone, OthersAlone DEF EmailNext

LEMMA OutcomesKeep == OInv /\ [EmailNext]_emailVars => OInv' /\ [\A m \in Mail : GoesOnly(m)]_emailVars
<1> SUFFICES ASSUME OInv, [EmailNext]_emailVars PROVE OInv' /\ [\A m \in Mail : GoesOnly(m)]_emailVars OBVIOUS
<1>1. EInv' BY MailKeeps DEF OInv
<1>2. CASE EmailNext BY <1>1, <1>2, OutcomesStep DEF OInv
<1>3. CASE UNCHANGED emailVars
  <2>1. \A m \in Mail : Alone(m)' BY <1>3 DEF OInv, Alone, HoldsMail, emailVars
  <2> QED BY <1>1, <1>3, <2>1 DEF OInv
<1> QED BY <1>2, <1>3

\* What became of a mail is not taken back, whatever reports, retries of others and crashes
\* come after: receiveMailerSendWebhook() records a delivery only over a sending, and
\* dispatchEmails() settles only what it holds alone, unless its lease ran out under it.
THEOREM OutcomesRemain == EmailSpec => OutcomeStays
<1>1. EmailInit => OInv BY MailBegins, AloneBegins DEF OInv
<1> QED BY <1>1, OutcomesKeep, PTL DEF EmailSpec, OutcomeStays, GoesOnly

-----------------------------------------------------------------------------
(* Checkouts.                                                               *)


\* What a visit may count on when it gets where it is.
Placed(v, s, b) ==
    /\ v \in Visit
    /\ v.pc # "idle" => v.at \in Order
    /\ v.pc = "making" /\ v.product = 0 /\ s.made = 1 => s.repeats # 0
    /\ v.pc = "claiming" => v.customer # 0
    /\ v.pc \in {"posting", "opening"} => b # 0
    /\ v.pc = "opening" => s.sessions[v.at] = 1

OneProduct ==
    /\ stripe.made <= 1
    /\ stripe.repeats \in {0, stripe.made}
    /\ stripe.made = 1 /\ stripe.repeats = 0 => 1 \in stripe.found

RowsOK ==
    /\ order \in [Order -> OrderStatus]
    /\ opened \in [Order -> 0..2]
    /\ mapping \in {0} \cup Product
    /\ buyer \in 0..(1 + MaxFault)
    /\ stripe \in Provider
    /\ faults \in 0..MaxFault
    /\ linking \in BOOLEAN

CInv ==
    /\ RowsOK
    /\ caller \in [Caller -> Visit]
    /\ \A c \in Caller : Placed(caller[c], stripe, buyer)
    /\ OneProduct
    /\ MadeOnce

LEMMA CheckoutTypes == CInv => CheckoutTypeOK
  BY DEF CInv, RowsOK, Placed, CheckoutTypeOK

LEMMA Numbers == 1 \in Product /\ MaxMade \in Nat /\ 1 <= MaxMade /\ Chosen \in Product /\ Chosen \in Nat
  BY CheckoutAssumption DEF CheckoutAssumption, Product, Chosen, MaxMade

LEMMA RestingVisit == Away \in Visit /\ Away.pc = "idle" /\ Away.product = 0 /\ Away.customer = 0
  BY CheckoutAssumption DEF CheckoutAssumption, Away, Visit

LEMMA CheckoutBegins == CheckoutInit => CInv
<1> SUFFICES ASSUME CheckoutInit PROVE CInv OBVIOUS
<1>1. stripe \in Provider
  BY Numbers, CheckoutAssumption DEF CheckoutInit, Provider, CheckoutAssumption
<1>2. RowsOK
  <2>1. buyer \in 0..(1 + MaxFault) /\ faults \in 0..MaxFault
    BY CheckoutAssumption DEF CheckoutInit, CheckoutAssumption
  <2>2. mapping \in {0} \cup Product
    BY DEF CheckoutInit
  <2>3. order \in [Order -> OrderStatus] /\ opened \in [Order -> 0..2]
    BY DEF CheckoutInit, OrderStatus
  <2> QED BY <1>1, <2>1, <2>2, <2>3 DEF CheckoutInit, RowsOK
<1>3. caller \in [Caller -> Visit] /\ \A c \in Caller : Placed(caller[c], stripe, buyer)
  BY RestingVisit DEF CheckoutInit, Placed
<1>4. OneProduct /\ MadeOnce
  BY DEF CheckoutInit, OneProduct, MadeOnce
<1> QED BY <1>2, <1>3, <1>4 DEF CInv

\* A step of a caller that leaves the rows and Stripe as they are.
LEMMA OnlyMoves ==
    ASSUME CInv, NEW c \in Caller, NEW v, Placed(v, stripe, buyer), caller' = [caller EXCEPT ![c] = v],
           UNCHANGED <<order, opened, mapping, buyer, stripe, linking>>, faults' \in 0..MaxFault
    PROVE  CInv'
<1>1. \A d \in Caller : caller'[d] = (IF d = c THEN v ELSE caller[d])
  BY DEF CInv
<1>2. \A d \in Caller : Placed(caller'[d], stripe', buyer')
  BY <1>1 DEF CInv
<1>3. caller' \in [Caller -> Visit]
  BY DEF CInv, Placed
<1> QED BY <1>2, <1>3 DEF CInv, RowsOK, OneProduct, MadeOnce

LEMMA Faults ==
    ASSUME CInv, NEW c \in Caller, Fault(c), caller[c].pc # "idle"
    PROVE  /\ faults' \in 0..MaxFault
           /\ \E v : /\ Placed(v, stripe, buyer) /\ v.pc = "failing" /\ v.at = caller[c].at
                     /\ caller' = [caller EXCEPT ![c] = v]
<1> DEFINE v == [caller[c] EXCEPT !.pc = "failing"]
<1>1. caller' = [caller EXCEPT ![c] = v]
  BY DEF Fault, Goes, CInv
<1>2. Placed(caller[c], stripe, buyer) /\ caller[c] \in Visit
  BY DEF CInv, Placed
<1>3. v \in Visit /\ v.pc = "failing" /\ v.at = caller[c].at
  BY <1>2 DEF Visit
<1>4. Placed(v, stripe, buyer)
  BY <1>2, <1>3 DEF Placed
<1>5. faults' \in 0..MaxFault
  BY CheckoutAssumption DEF CheckoutAssumption, Fault, CInv, RowsOK
<1> QED BY <1>1, <1>3, <1>4, <1>5

LEMMA GoesOn ==
    ASSUME CInv, NEW c \in Caller, caller[c].pc # "idle",
           UNCHANGED <<order, opened, mapping, buyer, stripe, linking>>,
           Fault(c) \/ (Leaves(c) /\ faults' \in 0..MaxFault)
    PROVE  CInv'
<1>1. CASE Fault(c)
  BY <1>1, Faults, OnlyMoves
<1>2. CASE Leaves(c) /\ faults' \in 0..MaxFault
  <2>1. Placed(Away, stripe, buyer) BY RestingVisit DEF Placed
  <2> QED BY <1>2, <2>1, OnlyMoves DEF Leaves
<1> QED BY <1>1, <1>2

\* To a stage that asks for nothing.
LEMMA VisitProceeds ==
    ASSUME CInv, NEW c \in Caller, caller[c].pc # "idle",
           NEW pc \in {"starting", "waiting", "searching", "linking", "inserting", "buyer", "listing", "customer", "failing"},
           Goes(c, pc), faults' = faults, UNCHANGED <<order, opened, mapping, buyer, stripe, linking>>
    PROVE  CInv'
<1> DEFINE v == [caller[c] EXCEPT !.pc = pc]
<1>1. caller' = [caller EXCEPT ![c] = v]
  BY DEF Goes, CInv
<1>2. Placed(caller[c], stripe, buyer) /\ caller[c] \in Visit
  BY DEF CInv, Placed
<1>3. v \in Visit /\ v.pc = pc /\ v.at = caller[c].at
  BY <1>2 DEF Visit
<1>4. Placed(v, stripe, buyer)
  BY <1>2, <1>3 DEF Placed
<1>5. faults' \in 0..MaxFault
  BY DEF CInv, RowsOK
<1> QED BY <1>1, <1>4, <1>5, OnlyMoves

LEMMA UsesProduct ==
    ASSUME CInv, NEW c \in Caller, caller[c].pc # "idle", NEW p \in {0} \cup Product,
           NEW pc \in {"buyer", "making", "linking"},
           pc = "making" /\ p = 0 /\ stripe.made = 1 => stripe.repeats # 0,
           caller' = [caller EXCEPT ![c].pc = pc, ![c].product = p],
           faults' = faults, UNCHANGED <<order, opened, mapping, buyer, stripe, linking>>
    PROVE  CInv'
<1> DEFINE v == [caller[c] EXCEPT !.pc = pc, !.product = p]
<1>1. caller' = [caller EXCEPT ![c] = v]
  BY DEF CInv
<1>2. Placed(caller[c], stripe, buyer) /\ caller[c] \in Visit
  BY DEF CInv, Placed
<1>3. v \in Visit /\ v.pc = pc /\ v.at = caller[c].at /\ v.product = p
  BY <1>2 DEF Visit
<1>4. Placed(v, stripe, buyer)
  BY <1>2, <1>3 DEF Placed
<1>5. faults' \in 0..MaxFault
  BY DEF CInv, RowsOK
<1> QED BY <1>1, <1>4, <1>5, OnlyMoves

LEMMA NamesCustomer ==
    ASSUME CInv, NEW c \in Caller, caller[c].pc # "idle", NEW n \in 0..(1 + MaxFault),
           NEW pc \in {"listing", "customer", "claiming", "posting"},
           pc = "claiming" => n # 0, pc = "posting" => buyer # 0,
           caller' = [caller EXCEPT ![c].pc = pc, ![c].customer = n],
           faults' = faults, UNCHANGED <<order, opened, mapping, buyer, stripe, linking>>
    PROVE  CInv'
<1> DEFINE v == [caller[c] EXCEPT !.pc = pc, !.customer = n]
<1>1. caller' = [caller EXCEPT ![c] = v]
  BY DEF CInv
<1>2. Placed(caller[c], stripe, buyer) /\ caller[c] \in Visit
  BY DEF CInv, Placed
<1>3. v \in Visit /\ v.pc = pc /\ v.at = caller[c].at /\ v.customer = n
  BY <1>2 DEF Visit
<1>4. Placed(v, stripe, buyer)
  BY <1>2, <1>3 DEF Placed
<1>5. faults' \in 0..MaxFault
  BY DEF CInv, RowsOK
<1> QED BY <1>1, <1>4, <1>5, OnlyMoves

\* The steps that write neither a row nor anything of Stripe's.
LEMMA RequestsKeep ==
    ASSUME CInv, NEW c \in Caller,
           \/ \E k \in Order : Submit(c, k)
           \/ Screen(c) \/ ReadMapping(c) \/ RereadMapping(c) \/ SearchProduct(c) \/ ReadBuyer(c)
           \/ ListCustomers(c) \/ CutShort(c)
    PROVE  CInv'
<1>0. caller[c].product \in {0} \cup Product
  BY DEF CInv, Visit
<1>1. CASE \E k \in Order : Submit(c, k)
  <2>1. PICK k \in Order : Submit(c, k)
    BY <1>1
  <2> DEFINE v == [Away EXCEPT !.at = k, !.pc = IF order[k] = "none" THEN "screening" ELSE "starting"]
  <2>2. v \in Visit /\ v.pc \in {"screening", "starting"} /\ v.at = k
    BY RestingVisit DEF Visit
  <2>3. Placed(v, stripe, buyer)
    BY <2>2 DEF Placed
  <2>4. faults' \in 0..MaxFault
    BY <2>1 DEF Submit, CInv, RowsOK
  <2> QED BY <2>1, <2>3, <2>4, OnlyMoves DEF Submit
<1>2. CASE Screen(c)
  <2>1. faults' \in 0..MaxFault
    BY <1>2 DEF Screen, CInv, RowsOK
  <2> QED BY <1>2, <2>1, GoesOn, VisitProceeds DEF Screen, Is
<1>3. CASE ReadMapping(c) \/ RereadMapping(c)
  <2>1. mapping \in Product \/ mapping = 0
    BY DEF CInv, RowsOK
  <2> QED BY <1>3, <2>1, UsesProduct, VisitProceeds DEF ReadMapping, RereadMapping, UseProduct, Is
<1>4. CASE SearchProduct(c)
  <2>1. Fault(c) \/ Goes(c, "failing") => CInv'
    BY <1>4, GoesOn, VisitProceeds DEF SearchProduct, Is, Fault, Goes
  <2>2. ASSUME NEW p \in IF stripe.found = {} THEN {0} ELSE stripe.found,
               caller' = [caller EXCEPT ![c].pc = "making", ![c].product = p], faults' = faults
        PROVE  CInv'
    <3>1. p \in {0} \cup Product
      BY DEF CInv, RowsOK, Provider
    <3>2. p = 0 /\ stripe.made = 1 => stripe.repeats # 0
      <4>1. 0 \notin Product
        BY DEF Product
      <4> QED BY <4>1 DEF CInv, OneProduct, RowsOK, Provider
    <3> QED BY <1>4, <2>2, <3>1, <3>2, UsesProduct DEF SearchProduct, Is
  <2> QED BY <1>4, <2>1, <2>2 DEF SearchProduct
<1>5. CASE ReadBuyer(c)
  <2>1. buyer \in 0..(1 + MaxFault)
    BY DEF CInv, RowsOK
  <2> QED BY <1>5, <2>1, NamesCustomer DEF ReadBuyer, Is
<1>6. CASE ListCustomers(c)
  <2>1. stripe.customers \in Nat /\ 0 \in 0..(1 + MaxFault) /\ 1 \in 0..(1 + MaxFault)
    BY CheckoutAssumption DEF CheckoutAssumption, CInv, RowsOK, Provider
  <2>2. CASE Fault(c)
    BY <1>6, <2>2, GoesOn DEF ListCustomers, Is
  <2>3. CASE ~Fault(c) /\ stripe.customers > 0
    <3>1. caller' = [caller EXCEPT ![c].pc = "claiming", ![c].customer = 1] /\ faults' = faults
      BY <1>6, <2>3 DEF ListCustomers
    <3>2. caller[c].pc # "idle" /\ UNCHANGED <<order, opened, mapping, buyer, stripe, linking>>
      BY <1>6 DEF ListCustomers, Is
    <3> DEFINE v == [caller[c] EXCEPT !.pc = "claiming", !.customer = 1]
    <3>3. caller' = [caller EXCEPT ![c] = v]
      BY <3>1 DEF CInv
    <3>4. v \in Visit /\ v.pc = "claiming" /\ v.at = caller[c].at /\ v.customer = 1 /\ v.at \in Order
      BY <2>1, <3>2 DEF Visit, CInv, Placed
    <3>5. Placed(v, stripe, buyer) /\ faults' \in 0..MaxFault
      BY <3>1, <3>4 DEF Placed, CInv, RowsOK
    <3> QED BY <3>2, <3>3, <3>5, OnlyMoves
  <2>4. CASE ~Fault(c) /\ ~(stripe.customers > 0)
    BY <1>6, <2>1, <2>4, NamesCustomer DEF ListCustomers, Is
  <2> QED BY <2>2, <2>3, <2>4
<1>7. CASE CutShort(c)
  <2>1. faults' \in 0..MaxFault
    BY <1>7, CheckoutAssumption DEF CheckoutAssumption, CutShort, CInv, RowsOK
  <2> QED BY <1>7, <2>1, GoesOn DEF CutShort, Is
<1> QED BY <1>1, <1>2, <1>3, <1>4, <1>5, <1>6, <1>7

\* What others count on stays.
Undisturbed ==
    /\ stripe'.made # stripe.made \/ stripe'.repeats # stripe.repeats => stripe'.repeats # 0 \/ ~MappingLocked
    /\ buyer # 0 => buyer' # 0
    /\ \A k \in Order : stripe.sessions[k] = 1 => stripe'.sessions[k] = 1

\* A step that changes a row or something of Stripe's, and moves a caller.
LEMMA Rearranges ==
    ASSUME CInv, RowsOK', OneProduct', MadeOnce', NEW c \in Caller, NEW v,
           caller' = [caller EXCEPT ![c] = v],
           v \in Visit, Placed(v, stripe', buyer'), Undisturbed
    PROVE  CInv'
<1>1. \A d \in Caller : caller'[d] = (IF d = c THEN v ELSE caller[d])
  BY DEF CInv
<1>2. caller' \in [Caller -> Visit]
  BY DEF CInv
<1>3. ASSUME NEW d \in Caller PROVE Placed(caller'[d], stripe', buyer')
  <2>1. CASE d = c
    BY <2>1, <1>1 DEF Placed
  <2>2. CASE d # c
    <3>1. caller'[d] = caller[d] /\ Placed(caller[d], stripe, buyer)
      BY <2>2, <1>1 DEF CInv
    <3>2. caller[d].pc = "making" => MappingLocked
      BY DEF MappingLocked
    <3> QED BY <3>1, <3>2 DEF Placed, Undisturbed
  <2> QED BY <2>1, <2>2
<1> QED BY <1>2, <1>3 DEF CInv

LEMMA InsertKeeps == ASSUME CInv, NEW c \in Caller, InsertCheckout(c) PROVE CInv'
<1> DEFINE k == caller[c].at
<1>0. k \in Order /\ caller[c].pc # "idle" /\ caller[c] \in Visit
  BY DEF CInv, Placed, InsertCheckout, Is
<1>1. CASE order[k] = "none"
  <2>1. PICK v \in Visit : v = [caller[c] EXCEPT !.pc = "starting"]
    BY <1>0 DEF Visit
  <2>2. caller' = [caller EXCEPT ![c] = v] /\ v.pc = "starting" /\ v.at = k
    BY <1>0, <1>1, <2>1 DEF InsertCheckout, Goes, CInv, Visit
  <2>3. order' = [order EXCEPT ![k] = "creating"]
    BY <1>1 DEF InsertCheckout
  <2>4. RowsOK' /\ OneProduct' /\ MadeOnce'
    BY <1>0, <2>3 DEF InsertCheckout, CInv, RowsOK, OneProduct, MadeOnce, OrderStatus
  <2>5. Placed(v, stripe', buyer')
    BY <1>0, <2>2 DEF Placed
  <2>19. Undisturbed
    BY <1>0, <2>2, <2>4, <2>5 DEF Undisturbed, InsertCheckout
  <2> QED BY <1>0, <2>2, <2>4, <2>5, <2>19, Rearranges DEF InsertCheckout
<1>2. CASE order[k] # "none"
  <2>1. faults' \in 0..MaxFault
    BY DEF InsertCheckout, CInv, RowsOK
  <2> QED BY <1>0, <1>2, <2>1, GoesOn DEF InsertCheckout
<1> QED BY <1>1, <1>2

LEMMA MakeKeeps == ASSUME CInv, NEW c \in Caller, MakeProduct(c) PROVE CInv'
<1>0. caller[c].at \in Order /\ caller[c].pc = "making" /\ caller[c] \in Visit /\ Placed(caller[c], stripe, buyer)
  BY DEF CInv, Placed, MakeProduct, Is
<1>1. CASE UNCHANGED stripe
  <2>1. Fault(c) => CInv'
    BY <1>0, <1>1, GoesOn DEF MakeProduct
  <2>2. Goes(c, "linking") /\ UNCHANGED faults => CInv'
    BY <1>0, <1>1, VisitProceeds DEF MakeProduct
  <2>3. ASSUME stripe' = Made, caller' = [caller EXCEPT ![c].pc = "linking", ![c].product = Made.repeats], UNCHANGED faults
        PROVE  CInv'
    <3>1. Made.repeats \in {0} \cup Product
      BY <1>1, <2>3, Numbers DEF CInv, RowsOK, Provider, Product, Chosen
    <3> QED BY <1>0, <1>1, <2>3, <3>1, UsesProduct DEF MakeProduct
  <2> QED BY <2>1, <2>2, <2>3 DEF MakeProduct
<1>2. CASE stripe' # stripe
  <2>1. stripe' = Made /\ stripe.repeats = 0 /\ caller[c].product = 0
    BY <1>2 DEF MakeProduct, Made
  <2>2. stripe.made = 0 /\ stripe' = [stripe EXCEPT !.made = 1, !.repeats = 1]
    <3>1. stripe \in Provider /\ stripe.made \in Nat /\ stripe.made <= 1
      BY DEF CInv, OneProduct, RowsOK, Provider
    <3>2. stripe.made # 1
      BY <1>0, <2>1 DEF Placed
    <3>3. stripe.made = 0
      BY <3>1, <3>2
    <3> QED BY <2>1, <3>1, <3>3 DEF Made
  <2>3. stripe' \in Provider /\ stripe'.made = 1 /\ stripe'.repeats = 1 /\ stripe'.sessions = stripe.sessions
        /\ stripe'.customers = stripe.customers
    <3>1. stripe \in Provider /\ 1 \in 0..MaxMade
      BY Numbers DEF CInv, RowsOK
    <3> QED BY <2>2, <3>1 DEF Provider
  <2>4. faults' \in 0..MaxFault
    BY <1>0, Faults DEF CInv, RowsOK, MakeProduct
  <2>5. RowsOK' /\ OneProduct' /\ MadeOnce'
    BY <2>3, <2>4 DEF MakeProduct, CInv, RowsOK, OneProduct, MadeOnce
  <2>6. PICK v \in Visit : caller' = [caller EXCEPT ![c] = v] /\ v.pc \in {"linking", "failing"} /\ v.at = caller[c].at
    <3>1. CASE Fault(c)
      BY <1>0, <3>1, Faults DEF Placed
    <3>2. CASE caller' = [caller EXCEPT ![c].pc = "linking", ![c].product = Made.repeats]
      <4>1. Made.repeats = 1 /\ 1 \in Product
        BY <2>1, <2>3, Numbers
      <4>2. [caller[c] EXCEPT !.pc = "linking", !.product = 1] \in Visit
        BY <1>0, <4>1 DEF Visit
      <4> QED BY <1>0, <3>2, <4>1, <4>2 DEF CInv, Visit
    <3> QED BY <2>1, <3>1, <3>2 DEF MakeProduct
  <2>7. Placed(v, stripe', buyer')
    BY <1>0, <2>6 DEF Placed
  <2>19. Undisturbed
    BY <2>3, <2>5, <2>6, <2>7 DEF Undisturbed, MakeProduct
  <2> QED BY <2>3, <2>5, <2>6, <2>7, <2>19, Rearranges DEF MakeProduct
<1> QED BY <1>1, <1>2

LEMMA LinkKeeps == ASSUME CInv, NEW c \in Caller, LinkProduct(c) PROVE CInv'
<1>0. caller[c].at \in Order /\ caller[c].pc = "linking" /\ caller[c] \in Visit /\ Placed(caller[c], stripe, buyer)
  BY DEF CInv, Placed, LinkProduct, Is
<1>1. CASE Fault(c) /\ UNCHANGED mapping
  BY <1>0, <1>1, GoesOn DEF LinkProduct
<1>2. CASE mapping' = caller[c].product /\ UseProduct(c, caller[c].product) /\ UNCHANGED faults
  <2>1. PICK v \in Visit : v = [caller[c] EXCEPT !.pc = "buyer"]
    BY <1>0 DEF Visit
  <2>2. caller' = [caller EXCEPT ![c] = v] /\ v.pc = "buyer" /\ v.at = caller[c].at
    BY <1>0, <1>2, <2>1 DEF UseProduct, CInv, Visit
  <2>3. RowsOK' /\ OneProduct' /\ MadeOnce'
    BY <1>0, <1>2 DEF LinkProduct, CInv, RowsOK, OneProduct, MadeOnce, Visit
  <2>4. Placed(v, stripe', buyer')
    BY <1>0, <2>2 DEF Placed
  <2>19. Undisturbed
    BY <2>2, <2>3, <2>4 DEF Undisturbed, LinkProduct
  <2> QED BY <2>2, <2>3, <2>4, <2>19, Rearranges DEF LinkProduct
<1> QED BY <1>1, <1>2 DEF LinkProduct

LEMMA CustomerKeeps == ASSUME CInv, NEW c \in Caller, MakeCustomer(c) PROVE CInv'
<1>0. caller[c].at \in Order /\ caller[c].pc = "customer" /\ caller[c] \in Visit /\ Placed(caller[c], stripe, buyer)
  BY DEF CInv, Placed, MakeCustomer, Is
<1>1. CASE UNCHANGED stripe /\ Fault(c)
  BY <1>0, <1>1, GoesOn DEF MakeCustomer
<1>2. CASE stripe' = [stripe EXCEPT !.customers = IF @ = 0 THEN 1 ELSE @]
  <2>1. /\ stripe' \in Provider /\ stripe'.customers <= 1 /\ stripe'.sessions = stripe.sessions
        /\ stripe'.made = stripe.made /\ stripe'.repeats = stripe.repeats /\ stripe'.found = stripe.found
    BY <1>2, CheckoutAssumption DEF CheckoutAssumption, CInv, RowsOK, Provider, MadeOnce
  <2>2. PICK v \in Visit : /\ caller' = [caller EXCEPT ![c] = v] /\ v.at = caller[c].at
                           /\ v.pc \in {"failing", "claiming"} /\ (v.pc = "claiming" => v.customer = 1)
    <3>1. CASE Fault(c)
      <4>1. PICK v : Placed(v, stripe, buyer) /\ v.pc = "failing" /\ v.at = caller[c].at /\ caller' = [caller EXCEPT ![c] = v]
        BY <1>0, <3>1, Faults
      <4>2. v \in Visit
        BY <4>1 DEF Placed
      <4> QED BY <4>1, <4>2
    <3>2. CASE caller' = [caller EXCEPT ![c].pc = "claiming", ![c].customer = 1]
      <4>1. [caller[c] EXCEPT !.pc = "claiming", !.customer = 1] \in Visit
        <5>1. 1 \in 0..(1 + MaxFault)
          BY CheckoutAssumption DEF CheckoutAssumption
        <5> QED BY <1>0, <5>1 DEF Visit
      <4> QED BY <1>0, <3>2, <4>1 DEF CInv, Visit
    <3> QED BY <3>1, <3>2 DEF MakeCustomer
  <2>3. faults' \in 0..MaxFault
    BY <1>0, Faults DEF CInv, RowsOK, MakeCustomer
  <2>4. RowsOK' /\ OneProduct' /\ MadeOnce'
    BY <2>1, <2>3 DEF MakeCustomer, CInv, RowsOK, OneProduct, MadeOnce
  <2>5. Placed(v, stripe', buyer')
    BY <1>0, <2>2 DEF Placed
  <2>19. Undisturbed
    BY <2>1, <2>2, <2>4, <2>5 DEF Undisturbed, MakeCustomer
  <2> QED BY <2>1, <2>2, <2>4, <2>5, <2>19, Rearranges DEF MakeCustomer
<1> QED BY <1>1, <1>2 DEF MakeCustomer

LEMMA LinkCustomerKeeps == ASSUME CInv, NEW c \in Caller, LinkCustomer(c) PROVE CInv'
<1>0. /\ caller[c].at \in Order /\ caller[c].pc = "claiming" /\ caller[c] \in Visit /\ Placed(caller[c], stripe, buyer)
      /\ caller[c].customer # 0
  BY DEF CInv, Placed, LinkCustomer, Is
<1>1. CASE Fault(c) /\ UNCHANGED buyer
  BY <1>0, <1>1, GoesOn DEF LinkCustomer
<1>2. CASE /\ buyer' = IF buyer = 0 THEN caller[c].customer ELSE buyer
           /\ caller' = [caller EXCEPT ![c].pc = "posting", ![c].customer = buyer']
           /\ UNCHANGED faults
  <2>1. buyer' # 0 /\ buyer' \in 0..(1 + MaxFault)
    BY <1>0, <1>2 DEF CInv, RowsOK, Visit
  <2>2. PICK v \in Visit : v = [caller[c] EXCEPT !.pc = "posting", !.customer = buyer']
    BY <1>0, <2>1 DEF Visit
  <2>3. caller' = [caller EXCEPT ![c] = v] /\ v.pc = "posting" /\ v.at = caller[c].at
    BY <1>0, <1>2, <2>2 DEF CInv, Visit
  <2>4. RowsOK' /\ OneProduct' /\ MadeOnce'
    BY <1>2, <2>1 DEF LinkCustomer, CInv, RowsOK, OneProduct, MadeOnce
  <2>5. Placed(v, stripe', buyer')
    BY <1>0, <2>1, <2>3 DEF Placed
  <2>19. Undisturbed
    BY <2>1, <2>3, <2>4, <2>5 DEF Undisturbed, LinkCustomer
  <2> QED BY <2>1, <2>3, <2>4, <2>5, <2>19, Rearranges DEF LinkCustomer
<1> QED BY <1>1, <1>2 DEF LinkCustomer

LEMMA PostKeeps == ASSUME CInv, NEW c \in Caller, PostSession(c) PROVE CInv'
<1> DEFINE k == caller[c].at
<1>0. k \in Order /\ caller[c].pc = "posting" /\ caller[c] \in Visit /\ Placed(caller[c], stripe, buyer) /\ buyer # 0
  BY DEF CInv, Placed, PostSession, Is
<1>1. stripe \in Provider /\ stripe.sessions \in [Order -> 0..2] /\ stripe.sold \in [Order -> {0} \cup Product]
      /\ \A j \in Order : stripe.sessions[j] <= 1
  BY DEF CInv, RowsOK, Provider, MadeOnce
<1>2. CASE stripe' = stripe /\ Fault(c)
  BY <1>0, <1>2, GoesOn DEF PostSession
<1>3. CASE stripe' = stripe /\ Goes(c, "failing") /\ UNCHANGED faults
  BY <1>0, <1>3, VisitProceeds, SMTT(30) DEF PostSession
<1>4. CASE stripe.sessions[k] > 0 /\ Goes(c, "opening") /\ UNCHANGED <<stripe, faults>>
  <2>1. PICK v \in Visit : v = [caller[c] EXCEPT !.pc = "opening"]
    BY <1>0 DEF Visit
  <2>2. caller' = [caller EXCEPT ![c] = v] /\ v.pc = "opening" /\ v.at = k
    BY <1>0, <1>4, <2>1 DEF Goes, CInv, Visit
  <2>3. stripe.sessions[k] = 1
    BY <1>0, <1>1, <1>4
  <2>4. Placed(v, stripe, buyer)
    BY <1>0, <2>2, <2>3 DEF Placed
  <2>5. faults' \in 0..MaxFault
    BY <1>4 DEF CInv, RowsOK
  <2> QED BY <1>4, <2>2, <2>4, <2>5, OnlyMoves DEF PostSession
<1>5. CASE /\ stripe.sessions[k] = 0 /\ caller[c].product \in stripe.sellable
           /\ stripe' = [stripe EXCEPT !.sessions[k] = 1, !.sold[k] = caller[c].product]
           /\ (Goes(c, "opening") /\ UNCHANGED faults) \/ Fault(c)
  <2>1. /\ stripe'.sessions = [stripe.sessions EXCEPT ![k] = 1]
        /\ stripe'.made = stripe.made /\ stripe'.repeats = stripe.repeats
        /\ stripe'.found = stripe.found /\ stripe'.customers = stripe.customers
    BY <1>1, <1>5 DEF Provider
  <2>2. stripe' \in Provider
    <3>1. caller[c].product \in {0} \cup Product
      BY <1>0 DEF Visit
    <3> HIDE DEF k
    <3>2. [stripe.sessions EXCEPT ![k] = 1] \in [Order -> 0..2] /\ [stripe.sold EXCEPT ![k] = caller[c].product] \in [Order -> {0} \cup Product]
      BY <1>0, <1>1, <3>1
    <3> QED BY <1>1, <1>5, <3>2 DEF Provider
  <2>3. PICK v \in Visit : caller' = [caller EXCEPT ![c] = v] /\ v.pc \in {"opening", "failing"} /\ v.at = k
    <3>1. CASE Fault(c)
      BY <1>0, <3>1, Faults, SMTT(30) DEF Placed
    <3>2. CASE Goes(c, "opening")
      <4>1. [caller[c] EXCEPT !.pc = "opening"] \in Visit
        BY <1>0 DEF Visit
      <4> QED BY <1>0, <3>2, <4>1 DEF Goes, CInv, Visit
    <3> QED BY <1>5, <3>1, <3>2
  <2>4. faults' \in 0..MaxFault
    BY <1>0, <1>5, Faults DEF CInv, RowsOK
  <2>5. RowsOK' /\ OneProduct'
    BY <2>1, <2>2, <2>4 DEF PostSession, CInv, RowsOK, OneProduct
  <2>6. MadeOnce'
    BY <1>0, <1>1, <2>1 DEF PostSession, CInv, MadeOnce
  <2>7. Placed(v, stripe', buyer') /\ (buyer # 0 => buyer' # 0)
    BY <1>0, <1>1, <2>1, <2>3 DEF Placed, PostSession
  <2>8. \A j \in Order : stripe.sessions[j] = 1 => stripe'.sessions[j] = 1
    BY <1>1, <2>1
  <2>19. Undisturbed
    BY <2>1, <2>3, <2>5, <2>6, <2>7, <2>8 DEF Undisturbed
  <2> QED BY <2>1, <2>3, <2>5, <2>6, <2>7, <2>8, <2>19, Rearranges
<1> QED BY <1>2, <1>3, <1>4, <1>5 DEF PostSession

LEMMA VisitOpenKeeps == ASSUME CInv, NEW c \in Caller, Open(c) PROVE CInv'
<1> DEFINE k == caller[c].at
<1>0. /\ k \in Order /\ caller[c].pc = "opening" /\ caller[c] \in Visit /\ buyer # 0 /\ stripe.sessions[k] = 1
  BY DEF CInv, Placed, Open, Is
<1>1. CASE Fault(c) /\ UNCHANGED <<order, opened>>
  BY <1>0, <1>1, GoesOn DEF Open
<1>2. CASE /\ order' = IF Unopened(k) THEN [order EXCEPT ![k] = "open"] ELSE order
           /\ opened' = IF Unopened(k) THEN [opened EXCEPT ![k] = stripe.sessions[k]] ELSE opened
           /\ Leaves(c)
           /\ UNCHANGED faults
  <2>1. RowsOK' /\ OneProduct'
    BY <1>0, <1>2 DEF Open, CInv, RowsOK, OneProduct, OrderStatus
  <2>2. MadeOnce'
    BY <1>0, <1>2 DEF Open, CInv, RowsOK, MadeOnce, Unopened
  <2>3. Placed(Away, stripe', buyer')
    BY RestingVisit DEF Placed
  <2>19. Undisturbed
    BY <1>2, <2>1, <2>2, <2>3, RestingVisit DEF Undisturbed, Open, Leaves
  <2> QED BY <1>2, <2>1, <2>2, <2>3, RestingVisit, <2>19, Rearranges DEF Open, Leaves
<1> QED BY <1>1, <1>2 DEF Open

LEMMA FailKeeps == ASSUME CInv, NEW c \in Caller, Fail(c) PROVE CInv'
<1> DEFINE k == caller[c].at
<1>0. k \in Order
  BY DEF CInv, Placed, Fail, Is
<1>1. RowsOK' /\ OneProduct'
  BY <1>0 DEF Fail, CInv, RowsOK, OneProduct, OrderStatus
<1>2. MadeOnce'
  BY <1>0 DEF Fail, CInv, RowsOK, MadeOnce, Unopened
<1>3. Placed(Away, stripe', buyer')
  BY RestingVisit DEF Placed
<1>9. Undisturbed
  BY <1>1, <1>2, <1>3, RestingVisit DEF Undisturbed, Fail, Leaves
<1> QED BY <1>1, <1>2, <1>3, RestingVisit, <1>9, Rearranges DEF Fail, Leaves

\* What changes a row or something of Stripe's, and no caller.
LEMMA Around ==
    ASSUME CInv, RowsOK', OneProduct', MadeOnce', caller' = caller, Undisturbed
    PROVE  CInv'
<1>1. ASSUME NEW d \in Caller PROVE Placed(caller'[d], stripe', buyer')
  <2>1. caller'[d] = caller[d] /\ Placed(caller[d], stripe, buyer)
    BY DEF CInv
  <2>2. caller[d].pc = "making" => MappingLocked
    BY DEF MappingLocked
  <2> QED BY <2>1, <2>2 DEF Placed, Undisturbed
<1> QED BY <1>1 DEF CInv

LEMMA ProviderKeeps ==
    ASSUME CInv, IndexProduct \/ ForgetKey \/ (\E p \in Product : ChangeSale(p))
    PROVE  CInv'
<1>1. stripe \in Provider /\ faults' = faults /\ caller' = caller
  BY DEF CInv, RowsOK, IndexProduct, ForgetKey, ChangeSale
<1>2. CASE IndexProduct
  <2> DEFINE seen == 1..stripe.made \cup {p \in {Chosen} : linking}
  <2>1. stripe' = [stripe EXCEPT !.found = @ \cup seen]
    BY <1>2 DEF IndexProduct
  <2>2. seen \subseteq Product
    BY <1>1, Numbers DEF Provider, Product, Chosen
  <2> HIDE DEF seen
  <2>3. stripe' \in Provider /\ stripe'.made = stripe.made /\ stripe'.repeats = stripe.repeats
        /\ stripe'.sessions = stripe.sessions /\ stripe'.customers = stripe.customers
        /\ stripe.found \subseteq stripe'.found
    BY <1>1, <2>1, <2>2 DEF Provider
  <2>4. RowsOK' /\ OneProduct' /\ MadeOnce'
    BY <1>1, <1>2, <2>3 DEF IndexProduct, CInv, RowsOK, OneProduct, MadeOnce
  <2>5. Undisturbed
    BY <1>2, <2>3 DEF Undisturbed, IndexProduct
  <2> QED BY <1>1, <2>4, <2>5, Around
<1>3. CASE ForgetKey
  <2>1. stripe' \in Provider /\ stripe'.made = stripe.made /\ stripe'.repeats = 0
        /\ stripe'.sessions = stripe.sessions /\ stripe'.customers = stripe.customers
        /\ stripe'.found = stripe.found
    BY <1>1, <1>3, Numbers DEF Provider, ForgetKey
  <2>2. stripe.made \in Nat /\ (stripe.made = 1 => 1 \in stripe.found)
    BY <1>1, <1>3 DEF ForgetKey, CInv, OneProduct, Provider
  <2>3. RowsOK' /\ OneProduct' /\ MadeOnce'
    BY <1>1, <1>3, <2>1, <2>2 DEF ForgetKey, CInv, RowsOK, OneProduct, MadeOnce
  <2>4. Undisturbed
    BY <1>3, <2>1 DEF Undisturbed, ForgetKey
  <2> QED BY <1>1, <2>3, <2>4, Around
<1>4. CASE \E p \in Product : ChangeSale(p)
  <2>1. PICK p \in Product : ChangeSale(p)
    BY <1>4
  <2>2. stripe.changes + 1 \in 0..MaxSell
    <3>1. stripe.changes \in 0..MaxSell
      BY <1>1 DEF Provider
    <3>2. stripe.changes < MaxSell
      BY <2>1 DEF ChangeSale
    <3> QED BY <3>1, <3>2, CheckoutAssumption DEF CheckoutAssumption
  <2>3. stripe' \in Provider /\ stripe'.made = stripe.made /\ stripe'.repeats = stripe.repeats
        /\ stripe'.sessions = stripe.sessions /\ stripe'.customers = stripe.customers
        /\ stripe'.found = stripe.found
    BY <1>1, <2>1, <2>2 DEF ChangeSale, Provider
  <2>4. RowsOK' /\ OneProduct' /\ MadeOnce'
    BY <1>1, <2>1, <2>3 DEF ChangeSale, CInv, RowsOK, OneProduct, MadeOnce
  <2>5. Undisturbed
    BY <2>1, <2>3 DEF Undisturbed, ChangeSale
  <2> QED BY <1>1, <2>4, <2>5, Around
<1> QED BY <1>2, <1>3, <1>4

LEMMA DeskKeeps ==
    ASSUME CInv, \/ \E k \in Order : SessionEnds(k)
                 \/ CheckLink \/ WriteLink \/ UNCHANGED checkoutVars
    PROVE  CInv'
<1>1. stripe' = stripe /\ buyer' = buyer /\ caller' = caller /\ opened' = opened /\ faults' = faults
  BY DEF SessionEnds, CheckLink, WriteLink, checkoutVars
<1>2. Undisturbed /\ OneProduct'
  BY <1>1 DEF Undisturbed, CInv, OneProduct
<1>3. CASE \E k \in Order : SessionEnds(k)
  <2>1. PICK k \in Order : SessionEnds(k)
    BY <1>3
  <2>2. PICK s \in {"completed", "awaiting_payment", "failed", "expired"} : order' = [order EXCEPT ![k] = s]
    BY <2>1 DEF SessionEnds
  <2>3. s \in {"completed", "awaiting_payment"} => order[k] \in {"open", "awaiting_payment"}
    BY <2>1, <2>2 DEF SessionEnds, CInv, RowsOK
  <2>4. RowsOK'
    BY <1>1, <2>1, <2>2 DEF SessionEnds, CInv, RowsOK, OrderStatus
  <2>5. MadeOnce'
    BY <1>1, <2>2, <2>3 DEF CInv, RowsOK, MadeOnce
  <2> QED BY <1>1, <1>2, <2>4, <2>5, Around
<1>4. CASE CheckLink \/ WriteLink \/ UNCHANGED checkoutVars
  <2>1. mapping' \in {0} \cup Product
    BY <1>4, Numbers DEF CheckLink, WriteLink, checkoutVars, CInv, RowsOK
  <2>2. linking' \in BOOLEAN
    BY <1>4 DEF CheckLink, WriteLink, checkoutVars, CInv, RowsOK
  <2>3. order' = order
    BY <1>4 DEF CheckLink, WriteLink, checkoutVars
  <2>4. RowsOK' /\ MadeOnce'
    BY <1>1, <2>1, <2>2, <2>3 DEF CInv, RowsOK, MadeOnce
  <2> QED BY <1>1, <1>2, <2>4, Around
<1> QED BY <1>3, <1>4

LEMMA CheckoutStep == CInv /\ [CheckoutNext]_checkoutVars => CInv'
  BY RequestsKeep, InsertKeeps, MakeKeeps, LinkKeeps, CustomerKeeps, LinkCustomerKeeps, PostKeeps, VisitOpenKeeps,
     FailKeeps, ProviderKeeps, DeskKeeps DEF CheckoutNext, GoOn, LockMapping

LEMMA ReachedStep ==
    ASSUME CInv, [CheckoutNext]_checkoutVars
    PROVE  /\ \A k \in Order :
                /\ order[k] = "open" => order'[k] \notin {"none", "creating", "failed"}
                /\ order[k] \in {"completed", "expired"} => order'[k] = order[k]
           /\ buyer # 0 => buyer' = buyer
<1>2. ASSUME NEW c \in Caller,
             \/ Screen(c) \/ ReadMapping(c) \/ LockMapping(c) \/ SearchProduct(c) \/ MakeProduct(c)
             \/ LinkProduct(c) \/ ReadBuyer(c) \/ ListCustomers(c) \/ MakeCustomer(c) \/ PostSession(c)
      PROVE  order' = order /\ buyer' = buyer
  BY <1>2 DEF Screen, ReadMapping, LockMapping, RereadMapping, SearchProduct, MakeProduct, LinkProduct, ReadBuyer,
     ListCustomers, MakeCustomer, PostSession
<1>3. ASSUME NEW c \in Caller, LinkCustomer(c)
      PROVE  order' = order /\ (buyer # 0 => buyer' = buyer)
  BY <1>3 DEF LinkCustomer
<1>4. ASSUME NEW c \in Caller, InsertCheckout(c) \/ Open(c) \/ Fail(c)
      PROVE  /\ buyer' = buyer
             /\ \A k \in Order : order'[k] = order[k] \/ order[k] \in {"none", "creating", "failed"}
  BY <1>4 DEF InsertCheckout, Open, Fail, Unopened, CInv, RowsOK
<1>5. ASSUME NEW j \in Order, SessionEnds(j)
      PROVE  /\ buyer' = buyer
             /\ \A k \in Order : /\ order[k] = "open" => order'[k] \notin {"none", "creating", "failed"}
                                 /\ order[k] \in {"completed", "expired"} => order'[k] = order[k]
  BY <1>5 DEF SessionEnds, CInv, RowsOK
<1>6. ASSUME NEW p \in Product, IndexProduct \/ ForgetKey \/ ChangeSale(p) \/ CheckLink \/ WriteLink \/ UNCHANGED checkoutVars
      PROVE  order' = order /\ buyer' = buyer
  BY <1>6 DEF IndexProduct, ForgetKey, ChangeSale, CheckLink, WriteLink, checkoutVars
<1>7. PICK q \in Product : q = 1
  BY Numbers
<1>8. CASE order' = order /\ buyer' = buyer
  BY <1>8
<1>9. CASE \E c \in Caller : GoOn(c)
  <2>1. PICK c \in Caller : GoOn(c)
    BY <1>9
  <2> QED BY <2>1, <1>2, <1>3, <1>4, <1>8 DEF GoOn
<1>10. CASE \E j \in Order : SessionEnds(j)
  BY <1>10, <1>5
<1>11. CASE \E p \in Product : \/ IndexProduct \/ ForgetKey \/ ChangeSale(p) \/ CheckLink \/ WriteLink
                                \/ UNCHANGED checkoutVars
  BY <1>11, <1>6, <1>8
<1>12. CASE \E c \in Caller : CutShort(c) \/ \E j \in Order : Submit(c, j)
  <2>1. order' = order /\ buyer' = buyer
    BY <1>12 DEF Submit, CutShort
  <2> QED BY <2>1, <1>8
<1> QED BY <1>7, <1>9, <1>10, <1>11, <1>12 DEF CheckoutNext

\* Every order, visit, row and provider object of a checkout keeps its type.
THEOREM CheckoutTyping == CheckoutSpec => []CheckoutTypeOK
  BY CheckoutBegins, CheckoutStep, CheckoutTypes, PTL DEF CheckoutSpec

\* However often a checkout is submitted, whatever fails or is cut short, Stripe has one session
\* for it and makes one product for the offer and one customer for the buyer: createCheckout()
\* and ensureStripeProduct() ask under idempotency keys and look before they make.
THEOREM CheckoutsMadeOnce == CheckoutSpec => []MadeOnce
<1>1. CInv => MadeOnce BY DEF CInv
<1> QED BY <1>1, CheckoutBegins, CheckoutStep, PTL DEF CheckoutSpec

\* A late request does not undo what another has reached: an open checkout fails only by its
\* payment, one that is completed or expired stays so, and the buyer's Stripe customer is never
\* exchanged.
THEOREM CheckoutsReachedStay == CheckoutSpec => ReachedStays
<1>1. CInv /\ [CheckoutNext]_checkoutVars =>
        [ /\ \A k \in Order :
             /\ order[k] = "open" => order'[k] \notin {"none", "creating", "failed"}
             /\ order[k] \in {"completed", "expired"} => order'[k] = order[k]
          /\ buyer # 0 => buyer' = buyer ]_checkoutVars
  BY ReachedStep
<1> QED BY <1>1, CheckoutBegins, CheckoutStep, PTL DEF CheckoutSpec, ReachedStays

-----------------------------------------------------------------------------
(* Customers.                                                               *)


\* An order that has found its customer: he is there, under the address of the order unless
\* support has changed that.
Found(s, accounts, changed) ==
    s.pc \in {"filling", "asking", "screening", "taking", "taken"} =>
      /\ s.at \in Account /\ s.email \in Person
      /\ accounts[s.at].status # "none"
      /\ s.at \notin changed => accounts[s.at].email = s.email

UniqueAddress ==
    \A a, b \in Account : Exists(a) /\ Exists(b) /\ account[a].email = account[b].email => a = b

\* Exactly one owner; and before there is a customer there are no members.
OneOwner ==
    \A a \in Account :
      IF Exists(a)
      THEN \E u \in Person : /\ \A w \in Person : member[a][w] = "owner" <=> w = u
                             /\ a \notin moved => account[a].email = u
      ELSE account[a] = Blank /\ \A w \in Person : member[a][w] = NoOne

LicencesOfOrders ==
    /\ \A a \in Account, q \in Purchase :
         q \in licensed[a] => shopping[q].pc = "taken" /\ shopping[q].at = a
    /\ \A p, q \in Purchase : q \in shopping[p].before => \E a \in Account : q \in licensed[a]
    /\ \A p, q \in Purchase :
         shopping[p].pc \in {"taking", "taken"} =>
           ~(q \in licensed[shopping[p].at] /\ q \in shopping[p].before)

UInv ==
    /\ CustomersTypeOK
    /\ UniqueAddress
    /\ OneOwner
    /\ \A p \in Purchase : Found(shopping[p], account, moved)
    /\ \A p \in Purchase : shopping[p].pc \notin {"new", "refused"} => shopping[p].email \in Person
    /\ LicencesOfOrders

LEMMA CustomersBegin == CustomersInit => UInv
<1> SUFFICES ASSUME CustomersInit PROVE UInv OBVIOUS
<1>1. Blank \in AccountRow /\ Blank.status = "none" /\ Empty("new") \in Shopping /\ Empty("new").pc = "new" /\ Empty("new").before = {}
  BY DEF Blank, AccountRow, Empty, Shopping, Source, NoOne
<1>2. CustomersTypeOK
  <2>1. support \in 0..MaxSupport
    BY CustomersAssumption DEF CustomersInit, CustomersAssumption
  <2> QED BY <1>1, <2>1 DEF CustomersInit, CustomersTypeOK, Role
<1>3. UniqueAddress /\ OneOwner
  BY <1>1 DEF CustomersInit, UniqueAddress, OneOwner, Exists
<1>4. \A p \in Purchase : Found(shopping[p], account, moved) /\ shopping[p].pc = "new"
  BY <1>1 DEF CustomersInit, Found
<1>5. LicencesOfOrders
  BY <1>1 DEF CustomersInit, LicencesOfOrders
<1> QED BY <1>2, <1>3, <1>4, <1>5 DEF UInv

\* What is left of the licences when an order moves that has not been taken.
LEMMA OrderMoves ==
    ASSUME UInv, NEW p \in Purchase, NEW s \in Shopping, shopping' = [shopping EXCEPT ![p] = s],
           UNCHANGED <<account, member, licensed, visitor, moved, support, changing>>,
           shopping[p].pc # "taken",
           Found(s, account, moved),
           s.pc \notin {"new", "refused"} => s.email \in Person,
           \A q \in s.before : \E a \in Account : q \in licensed[a],
           s.pc \in {"taking", "taken"} => licensed[s.at] \cap s.before = {}
    PROVE  UInv'
<1>1. \A q \in Purchase : shopping'[q] = (IF q = p THEN s ELSE shopping[q])
  BY DEF UInv, CustomersTypeOK
<1>2. CustomersTypeOK'
  BY DEF UInv, CustomersTypeOK
<1>3. UniqueAddress' /\ OneOwner'
  BY DEF UInv, UniqueAddress, OneOwner, Exists
<1>4. \A q \in Purchase : /\ Found(shopping'[q], account', moved')
                          /\ shopping'[q].pc \notin {"new", "refused"} => shopping'[q].email \in Person
  BY <1>1 DEF UInv
<1>5. LicencesOfOrders'
  <2>1. \A a \in Account, q \in Purchase : q \in licensed[a] => shopping'[q].pc = "taken" /\ shopping'[q].at = a
    BY <1>1 DEF UInv, LicencesOfOrders
  <2>2. \A r, q \in Purchase : q \in shopping'[r].before => \E a \in Account : q \in licensed[a]
    BY <1>1 DEF UInv, LicencesOfOrders
  <2>3. \A r, q \in Purchase : shopping'[r].pc \in {"taking", "taken"} =>
          ~(q \in licensed[shopping'[r].at] /\ q \in shopping'[r].before)
    BY <1>1 DEF UInv, LicencesOfOrders
  <2> QED BY <2>1, <2>2, <2>3 DEF LicencesOfOrders
<1> QED BY <1>2, <1>3, <1>4, <1>5 DEF UInv

\* What changes of the customers, and of the order that does it.
LEMMA CustomersMove ==
    ASSUME UInv, NEW p \in Purchase, NEW s \in Shopping,
           shopping' = [shopping EXCEPT ![p] = s], licensed' = licensed,
           CustomersTypeOK', UniqueAddress', OneOwner',
           shopping[p].pc # "taken" \/ s = shopping[p],
           s.pc \in {"new", "asking"} \/ s = shopping[p],
           Found(s, account', moved'),
           s.pc \notin {"new", "refused"} => s.email \in Person,
           s.before = shopping[p].before,
           \A q \in Purchase : Found(shopping[q], account, moved) => Found(shopping[q], account', moved')
    PROVE  UInv'
<1>1. \A q \in Purchase : shopping'[q] = (IF q = p THEN s ELSE shopping[q])
  BY DEF UInv, CustomersTypeOK
<1>4. \A q \in Purchase : /\ Found(shopping'[q], account', moved')
                          /\ shopping'[q].pc \notin {"new", "refused"} => shopping'[q].email \in Person
  BY <1>1 DEF UInv
<1>5. LicencesOfOrders'
  <2>1. \A a \in Account, q \in Purchase : q \in licensed[a] => shopping'[q].pc = "taken" /\ shopping'[q].at = a
    BY <1>1 DEF UInv, LicencesOfOrders
  <2>2. \A r, q \in Purchase : q \in shopping'[r].before => \E a \in Account : q \in licensed[a]
    BY <1>1 DEF UInv, LicencesOfOrders
  <2>3. \A r, q \in Purchase : shopping'[r].pc \in {"taking", "taken"} =>
          ~(q \in licensed[shopping'[r].at] /\ q \in shopping'[r].before)
    BY <1>1 DEF UInv, LicencesOfOrders
  <2> QED BY <2>1, <2>2, <2>3 DEF LicencesOfOrders
<1> QED BY <1>4, <1>5 DEF UInv

\* The same without an order.
LEMMA SupportMoves ==
    ASSUME UInv, shopping' = shopping, licensed' = licensed,
           CustomersTypeOK', UniqueAddress', OneOwner',
           \A q \in Purchase : Found(shopping[q], account, moved) => Found(shopping[q], account', moved')
    PROVE  UInv'
  BY DEF UInv, LicencesOfOrders

LEMMA OrdersKeep ==
    ASSUME UInv, NEW p \in Purchase, UNCHANGED changing,
           \/ \E email \in Person, gives \in Forms : OrderLicence(p, email, gives)
           \/ Find(p) \/ Ask(p) \/ ScreenBuyer(p) \/ Take(p) \/ GiveUp(p)
           \/ InsertBuyer(p) /\ Turns(p, "finding again") /\ UNCHANGED <<account, member>>
    PROVE  UInv'
<1> DEFINE s == shopping[p]
<1>1. s \in Shopping /\ Found(s, account, moved) /\ (s.pc \notin {"new", "refused"} => s.email \in Person)
      /\ (\A q \in s.before : \E a \in Account : q \in licensed[a])
      /\ (s.pc \in {"taking", "taken"} => licensed[s.at] \cap s.before = {})
  BY DEF UInv, CustomersTypeOK, LicencesOfOrders, Found, Shopping
<1>2. shopping' = [shopping EXCEPT ![p] = Empty("refused")] /\ s.pc # "taken"
        /\ UNCHANGED <<account, member, licensed, visitor, moved, support, changing>> => UInv'
  <2>1. Empty("refused") \in Shopping /\ Empty("refused").pc = "refused" /\ Empty("refused").before = {}
    BY DEF Empty, Shopping
  <2> QED BY <2>1, OrderMoves DEF Found
<1>3. ASSUME NEW pc \in {"inserting", "finding again", "screening", "taking", "taken"},
             shopping' = [shopping EXCEPT ![p].pc = pc], s.pc \notin {"new", "taken", "refused"},
             pc \in {"screening", "taking", "taken"} => s.pc \in {"asking", "screening", "taking"},
             pc \in {"taking", "taken"} => licensed[s.at] \cap s.before = {},
             UNCHANGED <<account, member, licensed, visitor, moved, support, changing>>
      PROVE  UInv'
  <2>1. PICK t \in Shopping : t = [s EXCEPT !.pc = pc]
    BY <1>1 DEF Shopping
  <2>2. shopping' = [shopping EXCEPT ![p] = t] /\ t.pc = pc /\ t.at = s.at /\ t.email = s.email /\ t.before = s.before
    BY <1>1, <1>3, <2>1 DEF Shopping, UInv, CustomersTypeOK
  <2>3. Found(t, account, moved)
    BY <1>1, <1>3, <2>2 DEF Found
  <2> QED BY <1>1, <1>3, <2>2, <2>3, OrderMoves
<1>4. CASE \E email \in Person, gives \in Forms : OrderLicence(p, email, gives)
  <2>1. PICK email \in Person, gives \in Forms : OrderLicence(p, email, gives)
    BY <1>4
  <2>2. UNION {licensed[a] : a \in Account} \subseteq Purchase
    BY DEF UInv, CustomersTypeOK
  <2>3. PICK t \in Shopping : t = [s EXCEPT !.pc = "finding", !.email = email, !.gives = gives,
                                            !.before = UNION {licensed[a] : a \in Account}]
    BY <1>1, <2>2 DEF Shopping, Forms, Detail
  <2>4. shopping' = [shopping EXCEPT ![p] = t] /\ t.pc = "finding" /\ t.email = email
        /\ t.before = UNION {licensed[a] : a \in Account}
    BY <1>1, <2>1, <2>3 DEF OrderLicence, Shopping, UInv, CustomersTypeOK
  <2>5. Found(t, account, moved) /\ s.pc = "new" /\ \A q \in t.before : \E a \in Account : q \in licensed[a]
    BY <2>1, <2>4 DEF Found, OrderLicence, Stage
  <2> QED BY <2>1, <2>4, <2>5, OrderMoves DEF OrderLicence
<1>5. CASE Find(p)
  <2>1. s.pc \in {"finding", "finding again"} /\ UNCHANGED <<account, member, licensed, visitor, moved, support, changing>>
    BY <1>5 DEF Find, Stage
  <2>2. ASSUME NEW a \in With(s.email), account[a].status = "active",
               shopping' = [shopping EXCEPT ![p].at = a, ![p].pc = "filling"]
        PROVE  UInv'
    <3>1. a \in Account /\ account[a].email = s.email /\ Exists(a)
      BY DEF With
    <3>2. PICK t \in Shopping : t = [s EXCEPT !.at = a, !.pc = "filling"]
      BY <1>1, <3>1 DEF Shopping
    <3>3. shopping' = [shopping EXCEPT ![p] = t] /\ t.pc = "filling" /\ t.at = a /\ t.email = s.email /\ t.before = s.before
      BY <1>1, <2>2, <3>2 DEF Shopping, UInv, CustomersTypeOK
    <3>4. Found(t, account, moved)
      BY <1>1, <2>1, <2>2, <3>1, <3>3 DEF Found
    <3> QED BY <1>1, <2>1, <3>3, <3>4, OrderMoves
  <2>3. CASE Turns(p, "refused")
    BY <1>2, <2>1, <2>3 DEF Turns
  <2>4. ASSUME NEW pc \in {"inserting", "finding again"}, Turns(p, pc)
        PROVE  UInv'
    <3>1. shopping' = [shopping EXCEPT ![p].pc = pc]
      BY <2>4 DEF Turns
    <3> QED BY <1>3, <2>1, <3>1
  <2> QED BY <1>5, <2>2, <2>3, <2>4 DEF Find
<1>6. CASE Ask(p)
  BY <1>2, <1>3, <1>6 DEF Ask, Stage, Turns
<1>7. CASE ScreenBuyer(p)
  <2>1. s.pc = "screening" /\ UNCHANGED <<account, member, licensed, visitor, moved, support, changing>>
    BY <1>7 DEF ScreenBuyer, Stage
  <2>2. CASE Turns(p, "refused")
    BY <1>2, <2>1, <2>2 DEF Turns
  <2>3. CASE Turns(p, "taking") /\ licensed[s.at] = {}
    BY <1>3, <2>1, <2>3 DEF Turns
  <2> QED BY <1>7, <2>2, <2>3 DEF ScreenBuyer
<1>8. CASE Take(p)
  BY <1>1, <1>3, <1>8 DEF Take, Stage, Turns
<1>9. CASE GiveUp(p)
  BY <1>2, <1>9 DEF GiveUp, Turns
<1>10. CASE InsertBuyer(p) /\ Turns(p, "finding again") /\ UNCHANGED <<account, member>>
  <2>1. shopping' = [shopping EXCEPT ![p].pc = "finding again"] /\ s.pc = "inserting"
        /\ UNCHANGED <<account, member, licensed, visitor, moved, support, changing>>
    BY <1>10 DEF InsertBuyer, Turns, Stage
  <2> QED BY <1>3, <2>1
<1> QED BY <1>4, <1>5, <1>6, <1>7, <1>8, <1>9, <1>10

\* What a new customer is to the others, and to the orders.
LEMMA Inserted ==
    ASSUME UInv, NEW a \in Account, NEW email \in Person, NEW details \in [Detail -> Source],
           Insert(a, email, details), With(email) = {}, moved' = moved
    PROVE  /\ account' \in [Account -> AccountRow] /\ member' \in [Account -> [Person -> Role]]
           /\ UniqueAddress' /\ OneOwner'
           /\ account'[a].status = "active" /\ account'[a].email = email
           /\ \A s : Found(s, account, moved) => Found(s, account', moved')
<1> DEFINE r == [status |-> "active", email |-> email, details |-> details]
<1>1. r \in AccountRow /\ r.status = "active" /\ r.email = email
  BY DEF AccountRow
<1>2. account' = [account EXCEPT ![a] = r] /\ member' = [member EXCEPT ![a][email] = "owner"] /\ account[a].status = "none"
  BY DEF Insert, Exists, UInv, CustomersTypeOK, AccountRow
<1> HIDE DEF r
<1>3. account' \in [Account -> AccountRow] /\ \A b \in Account : account'[b] = (IF b = a THEN r ELSE account[b])
  BY <1>1, <1>2 DEF UInv, CustomersTypeOK
<1>4. /\ member' \in [Account -> [Person -> Role]]
      /\ \A b \in Account, w \in Person : member'[b][w] = (IF b = a /\ w = email THEN "owner" ELSE member[b][w])
  BY <1>2 DEF UInv, CustomersTypeOK, Role
<1>5. \A b \in Account : Exists(b) => account[b].email # email
  BY DEF With
<1>6. UniqueAddress'
  BY <1>1, <1>3, <1>5 DEF UInv, UniqueAddress, Exists
<1>7. OneOwner'
  <2>1. SUFFICES ASSUME NEW b \in Account
                 PROVE  IF account'[b].status # "none"
                        THEN \E u \in Person : /\ \A w \in Person : member'[b][w] = "owner" <=> w = u
                                               /\ b \notin moved' => account'[b].email = u
                        ELSE account'[b] = Blank /\ \A w \in Person : member'[b][w] = NoOne
    BY DEF OneOwner, Exists
  <2>2. CASE b = a
    <3>1. \A w \in Person : member[a][w] = NoOne
      BY <1>2 DEF UInv, OneOwner, Exists
    <3> QED BY <2>2, <3>1, <1>1, <1>3, <1>4 DEF NoOne
  <2>3. CASE b # a
    <3>1. account'[b] = account[b] /\ \A w \in Person : member'[b][w] = member[b][w]
      BY <2>3, <1>3, <1>4
    <3> QED BY <3>1 DEF UInv, OneOwner, Exists
  <2> QED BY <2>2, <2>3
<1>8. \A s : Found(s, account, moved) => Found(s, account', moved')
  BY <1>2, <1>3 DEF Found
<1> QED BY <1>1, <1>3, <1>4, <1>6, <1>7, <1>8

LEMMA InsertBuyerKeeps == ASSUME UInv, NEW p \in Purchase, InsertBuyer(p), UNCHANGED changing PROVE UInv'
<1> DEFINE s == shopping[p]
           form == [d \in Detail |-> IF d \in s.gives THEN p ELSE NoOne]
<1>1. s \in Shopping /\ s.pc = "inserting" /\ s.email \in Person
  BY DEF UInv, CustomersTypeOK, InsertBuyer, Stage
<1>2. CASE Turns(p, "finding again") /\ UNCHANGED <<account, member>>
  BY <1>2, OrdersKeep
<1>3. CASE /\ With(s.email) = {}
           /\ \E a \in Account :
                Insert(a, s.email, form) /\ shopping' = [shopping EXCEPT ![p].at = a, ![p].pc = "asking"]
  <2>1. PICK a \in Account :
          Insert(a, s.email, form) /\ shopping' = [shopping EXCEPT ![p].at = a, ![p].pc = "asking"]
    BY <1>3
  <2>2. form \in [Detail -> Source]
    BY DEF Source
  <2>3. moved' = moved /\ licensed' = licensed /\ visitor' = visitor /\ support' = support /\ changing' = changing
    BY DEF InsertBuyer
  <2>4. PICK t \in Shopping : t = [s EXCEPT !.at = a, !.pc = "asking"]
    BY <1>1 DEF Shopping
  <2>5. shopping' = [shopping EXCEPT ![p] = t] /\ t.pc = "asking" /\ t.at = a /\ t.email = s.email /\ t.before = s.before
    BY <1>1, <2>1, <2>4 DEF Shopping, UInv, CustomersTypeOK
  <2> HIDE DEF form, s
  <2>6. /\ account' \in [Account -> AccountRow] /\ member' \in [Account -> [Person -> Role]]
        /\ UniqueAddress' /\ OneOwner'
        /\ account'[a].status = "active" /\ account'[a].email = s.email
        /\ \A q : Found(q, account, moved) => Found(q, account', moved')
    BY <1>1, <1>3, <2>1, <2>2, <2>3, Inserted
  <2>7. CustomersTypeOK'
    BY <2>3, <2>5, <2>6 DEF UInv, CustomersTypeOK
  <2>8. Found(t, account', moved')
    BY <1>1, <2>5, <2>6 DEF Found
  <2> QED BY <1>1, <2>3, <2>5, <2>6, <2>7, <2>8, CustomersMove DEF s
<1> QED BY <1>2, <1>3 DEF InsertBuyer

LEMMA CustomerCreateKeeps ==
    ASSUME UInv, NEW a \in Account, NEW email \in Person, NEW given \in Forms,
           CreateAccount(a, email, given), UNCHANGED changing
    PROVE  UInv'
<1>1. PICK form \in [Detail -> Source] : form = [d \in Detail |-> IF d \in given THEN "support" ELSE NoOne]
  BY DEF Source
<1>2. Insert(a, email, form) /\ With(email) = {} /\ moved' = moved /\ shopping' = shopping /\ licensed' = licensed
      /\ visitor' = visitor
  BY <1>1 DEF CreateAccount
<1>3. /\ account' \in [Account -> AccountRow] /\ member' \in [Account -> [Person -> Role]]
      /\ UniqueAddress' /\ OneOwner'
      /\ \A q : Found(q, account, moved) => Found(q, account', moved')
  BY <1>2, Inserted
<1>4. support' \in 0..MaxSupport
  BY CustomersAssumption DEF CustomersAssumption, CreateAccount, Supports, UInv, CustomersTypeOK
<1>5. CustomersTypeOK'
  BY <1>2, <1>3, <1>4 DEF UInv, CustomersTypeOK
<1> QED BY <1>2, <1>3, <1>5, SupportMoves

LEMMA FillKeeps == ASSUME UInv, NEW p \in Purchase, Fill(p), UNCHANGED changing PROVE UInv'
<1> DEFINE s == shopping[p]
<1>1. s \in Shopping /\ s.pc = "filling" /\ Found(s, account, moved) /\ s.at \in Account /\ s.email \in Person
  BY DEF UInv, CustomersTypeOK, Fill, Stage, Found
<1>2. PICK r \in AccountRow : r = [account[s.at] EXCEPT !.details =
                                     [d \in Detail |-> IF @[d] = NoOne /\ d \in s.gives THEN p ELSE @[d]]]
  <2>1. account[s.at] \in AccountRow
    BY <1>1 DEF UInv, CustomersTypeOK
  <2>2. [d \in Detail |-> IF account[s.at].details[d] = NoOne /\ d \in s.gives THEN p ELSE account[s.at].details[d]] \in [Detail -> Source]
    BY <2>1 DEF AccountRow, Source
  <2> QED BY <2>1, <2>2 DEF AccountRow
<1>3. account' = [account EXCEPT ![s.at] = r] /\ r.status = account[s.at].status /\ r.email = account[s.at].email
  BY <1>1, <1>2 DEF Fill, UInv, CustomersTypeOK, AccountRow
<1>4. /\ account' \in [Account -> AccountRow]
      /\ \A b \in Account : account'[b].status = account[b].status /\ account'[b].email = account[b].email
      /\ \A b \in Account : b # s.at => account'[b] = account[b]
  BY <1>1, <1>3 DEF UInv, CustomersTypeOK
<1>5. PICK t \in Shopping : t = [s EXCEPT !.pc = "asking"]
  BY <1>1 DEF Shopping
<1>6. shopping' = [shopping EXCEPT ![p] = t] /\ t.pc = "asking" /\ t.at = s.at /\ t.email = s.email /\ t.before = s.before
  BY <1>1, <1>5 DEF Fill, Turns, Shopping, UInv, CustomersTypeOK
<1>7. moved' = moved /\ licensed' = licensed /\ member' = member /\ visitor' = visitor /\ support' = support
  BY DEF Fill
<1>8. UniqueAddress'
  BY <1>4 DEF UInv, UniqueAddress, Exists
<1>9. OneOwner'
  BY <1>1, <1>4, <1>7 DEF UInv, OneOwner, Exists, Found
<1>10. \A q : Found(q, account, moved) => Found(q, account', moved')
  BY <1>4, <1>7 DEF Found
<1>11. Found(t, account', moved')
  BY <1>1, <1>4, <1>6, <1>7 DEF Found
<1>12. CustomersTypeOK'
  BY <1>4, <1>6, <1>7 DEF UInv, CustomersTypeOK
<1> QED BY <1>1, <1>6, <1>7, <1>8, <1>9, <1>10, <1>11, <1>12, CustomersMove

LEMMA UpdateKeeps ==
    ASSUME UInv, NEW a \in Account, NEW email \in Person, NEW status \in {"active", "disabled"}, NEW given \in Forms,
           UpdateAccount(a, email, status, given), UNCHANGED changing
    PROVE  UInv'
<1>1. PICK w \in {NoOne, "support"} :
         account' = [account EXCEPT ![a] = [email |-> email, status |-> status,
           details |-> [d \in Detail |-> IF d \in given THEN w ELSE account[a].details[d]]]]
  BY DEF UpdateAccount
<1>2. PICK r \in AccountRow : r = [email |-> email, status |-> status,
           details |-> [d \in Detail |-> IF d \in given THEN w ELSE account[a].details[d]]]
  <2>1. [d \in Detail |-> IF d \in given THEN w ELSE account[a].details[d]] \in [Detail -> Source]
    BY DEF UInv, CustomersTypeOK, AccountRow, Source
  <2> QED BY <2>1 DEF AccountRow
<1>3. account' = [account EXCEPT ![a] = r] /\ r.status = status /\ r.email = email
  BY <1>1, <1>2
<1>4. /\ account' \in [Account -> AccountRow]
      /\ \A b \in Account : account'[b] = (IF b = a THEN r ELSE account[b])
  BY <1>3 DEF UInv, CustomersTypeOK
<1>5. /\ Exists(a) /\ With(email) \subseteq {a} /\ moved' = (IF email # account[a].email THEN moved \cup {a} ELSE moved)
      /\ member' = member /\ shopping' = shopping /\ licensed' = licensed /\ visitor' = visitor
  BY DEF UpdateAccount
<1>6. UniqueAddress'
  BY <1>3, <1>4, <1>5 DEF UInv, UniqueAddress, Exists, With
<1>7. OneOwner'
  BY <1>3, <1>4, <1>5 DEF UInv, OneOwner, Exists
<1>8. \A q : Found(q, account, moved) => Found(q, account', moved')
  BY <1>3, <1>4, <1>5 DEF Found
<1>9. support' \in 0..MaxSupport
  BY CustomersAssumption DEF CustomersAssumption, UpdateAccount, Supports, UInv, CustomersTypeOK
<1>10. CustomersTypeOK'
  BY <1>4, <1>5, <1>9 DEF UInv, CustomersTypeOK
<1> QED BY <1>5, <1>6, <1>7, <1>8, <1>10, SupportMoves

\* Whoever joins or parts, the owner is who he was.
LEMMA OwnersStay ==
    ASSUME UInv, NEW a \in Account, NEW u \in Person,
           Parts(a, u) \/ \E role \in Role : Joins(a, u, role), account' = account, moved' = moved
    PROVE  member' \in [Account -> [Person -> Role]] /\ OneOwner'
<1>1. CASE member' = member
  BY <1>1 DEF UInv, CustomersTypeOK, OneOwner, Exists
<1>2. CASE member' # member
  <2>1. PICK role \in Role \ {"owner"} :
          /\ member' = [member EXCEPT ![a][u] = role]
          /\ role # NoOne => Exists(a) /\ member[a][u] = NoOne
          /\ role = NoOne => {o \in Person : member[a][o] = "owner"} # {u}
    BY <1>2 DEF Parts, Joins, Role, NoOne
  <2>2. /\ member' \in [Account -> [Person -> Role]]
        /\ \A b \in Account, w \in Person : member'[b][w] = (IF b = a /\ w = u THEN role ELSE member[b][w])
    BY <2>1 DEF UInv, CustomersTypeOK
  <2>3. SUFFICES ASSUME NEW b \in Account
                 PROVE  IF account[b].status # "none"
                        THEN \E o \in Person : /\ \A w \in Person : member'[b][w] = "owner" <=> w = o
                                               /\ b \notin moved => account[b].email = o
                        ELSE account[b] = Blank /\ \A w \in Person : member'[b][w] = NoOne
    BY <2>2 DEF OneOwner, Exists
  <2>4. CASE account[b].status = "none"
    BY <2>1, <2>2, <2>4 DEF UInv, OneOwner, Exists
  <2>5. CASE account[b].status # "none"
    <3>1. PICK o \in Person : /\ \A w \in Person : member[b][w] = "owner" <=> w = o
                              /\ b \notin moved => account[b].email = o
      BY <2>5 DEF UInv, OneOwner, Exists
    <3>2. b = a => u # o
      BY <2>1, <3>1 DEF NoOne
    <3>3. \A w \in Person : member'[b][w] = "owner" <=> w = o
      BY <2>1, <2>2, <3>1, <3>2
    <3> QED BY <2>5, <3>1, <3>3
  <2> QED BY <2>4, <2>5
<1> QED BY <1>1, <1>2

LEMMA MembersKeep ==
    ASSUME UInv, UNCHANGED changing,
           \/ \E v \in Visitor, u \in Person, a \in Account : Admit(v, u, a)
           \/ \E v \in Visitor : Act(v)
           \/ \E a \in Account : EditMembers(a)
    PROVE  UInv'
<1>1. account' = account /\ moved' = moved /\ shopping' = shopping /\ licensed' = licensed
  BY DEF Admit, Act, EditMembers
<1>2. visitor' \in [Visitor -> Account \cup {NoOne}]
  BY DEF Admit, Act, EditMembers, UInv, CustomersTypeOK
<1>3. support' \in 0..MaxSupport
  BY CustomersAssumption DEF CustomersAssumption, Admit, Act, EditMembers, Supports, UInv, CustomersTypeOK
<1>4. member' \in [Account -> [Person -> Role]] /\ OneOwner'
  <2>1. CASE member' = member
    BY <1>1, <2>1 DEF UInv, CustomersTypeOK, OneOwner, Exists
  <2>2. CASE \E v \in Visitor : Act(v)
    BY <1>1, <2>2, OwnersStay DEF Act, UInv, CustomersTypeOK
  <2>3. CASE \E a \in Account : EditMembers(a)
    BY <1>1, <2>3, OwnersStay DEF EditMembers
  <2> QED BY <2>1, <2>2, <2>3 DEF Admit
<1>5. CustomersTypeOK'
  BY <1>1, <1>2, <1>3, <1>4 DEF UInv, CustomersTypeOK
<1>6. UniqueAddress'
  BY <1>1 DEF UInv, UniqueAddress, Exists
<1> QED BY <1>1, <1>4, <1>5, <1>6, SupportMoves

LEMMA DeliverKeeps == ASSUME UInv, NEW p \in Purchase, Deliver(p) PROVE UInv'
<1>1. shopping[p].pc = "taken" /\ shopping[p].at \in Account
  BY DEF Deliver, Stage, UInv, Found
<1>2. /\ licensed' \in [Account -> SUBSET Purchase]
      /\ \A a \in Account : licensed'[a] = (IF a = shopping[p].at THEN licensed[a] \cup {p} ELSE licensed[a])
  BY <1>1 DEF Deliver, UInv, CustomersTypeOK
<1>3. /\ account' = account /\ member' = member /\ shopping' = shopping /\ visitor' = visitor /\ moved' = moved
      /\ support' = support /\ changing' = changing
  BY DEF Deliver
<1>4. CustomersTypeOK' /\ UniqueAddress' /\ OneOwner'
  BY <1>2, <1>3 DEF UInv, CustomersTypeOK, UniqueAddress, OneOwner, Exists
<1>5. LicencesOfOrders'
  <2>1. \A a \in Account, q \in Purchase : q \in licensed'[a] => shopping[q].pc = "taken" /\ shopping[q].at = a
    BY <1>1, <1>2 DEF UInv, LicencesOfOrders
  <2>2. \A r, q \in Purchase : q \in shopping[r].before => \E a \in Account : q \in licensed'[a]
    BY <1>2 DEF UInv, LicencesOfOrders
  <2>3. \A r, q \in Purchase : shopping[r].pc \in {"taking", "taken"} =>
          ~(q \in licensed'[shopping[r].at] /\ q \in shopping[r].before)
    <3> TAKE r, q \in Purchase
    <3> HAVE shopping[r].pc \in {"taking", "taken"}
    <3>1. shopping[r].at \in Account
      BY DEF UInv, Found
    <3>2. q \in shopping[r].before => q \in licensed[shopping[q].at]
      BY DEF UInv, LicencesOfOrders
    <3> QED BY <1>2, <3>1, <3>2 DEF UInv, LicencesOfOrders
  <2> QED BY <1>3, <2>1, <2>2, <2>3 DEF LicencesOfOrders
<1> QED BY <1>3, <1>4, <1>5 DEF UInv

LEMMA CustomersStep == UInv /\ [CustomersNext]_customersVars => UInv'
<1> SUFFICES ASSUME UInv, [CustomersNext]_customersVars PROVE UInv' OBVIOUS
<1>1. CASE UNCHANGED customersVars
  BY <1>1 DEF customersVars, UInv, CustomersTypeOK, UniqueAddress, OneOwner, Exists, LicencesOfOrders
<1>2. CASE CustomersNext
  BY <1>2, OrdersKeep, InsertBuyerKeeps, CustomerCreateKeeps, FillKeeps, UpdateKeeps, MembersKeep, DeliverKeeps DEF CustomersNext
<1> QED BY <1>1, <1>2

LEMMA CustomersPromise == UInv => CustomersTypeOK /\ OneCustomer /\ BuyerReaches /\ OwnerStays /\ BoughtOnce
<1> SUFFICES ASSUME UInv PROVE CustomersTypeOK /\ OneCustomer /\ BuyerReaches /\ OwnerStays /\ BoughtOnce OBVIOUS
<1>1. OneCustomer
  <2>1. SUFFICES ASSUME NEW email \in Person PROVE Cardinality(With(email)) <= 1
    BY DEF OneCustomer
  <2>2. CASE With(email) = {}
    BY <2>2, FS_EmptySet
  <2>3. CASE With(email) # {}
    <3>1. PICK a : a \in With(email)
      BY <2>3
    <3>2. With(email) = {a}
      BY <3>1 DEF With, UInv, UniqueAddress
    <3> QED BY <3>2, FS_Singleton
  <2> QED BY <2>2, <2>3
<1>2. BuyerReaches
  BY DEF BuyerReaches, Stage, UInv, Found, OneOwner, Exists
<1>3. OwnerStays
  BY DEF OwnerStays, UInv, OneOwner
<1>4. BoughtOnce
  BY DEF BoughtOnce, UInv, LicencesOfOrders, CustomersTypeOK
<1> QED BY <1>1, <1>2, <1>3, <1>4 DEF UInv

LEMMA FormStep ==
    ASSUME UInv, CustomersNext, NEW a \in Account, NEW d \in Detail
    PROVE  account[a].details[d] # NoOne /\ account'[a].details[d] # account[a].details[d] =>
             account'[a].details[d] \in {NoOne, "support"}
<1>1. account \in [Account -> AccountRow] /\ account[a].details \in [Detail -> Source]
  BY DEF UInv, CustomersTypeOK, AccountRow
<1>2. CASE account' = account
  BY <1>2
<1>3. ASSUME NEW b \in Account, NEW email \in Person, NEW details \in [Detail -> Source], Insert(b, email, details)
      PROVE  account[a].details[d] = NoOne \/ account'[a] = account[a]
  BY <1>1, <1>3 DEF Insert, UInv, OneOwner, Blank
<1>4. ASSUME NEW p \in Purchase, InsertBuyer(p)
      PROVE  account[a].details[d] = NoOne \/ account'[a] = account[a]
  <2>1. [e \in Detail |-> IF e \in shopping[p].gives THEN p ELSE NoOne] \in [Detail -> Source]
    BY DEF Source
  <2>2. shopping[p].email \in Person
    BY <1>4 DEF InsertBuyer, Stage, UInv
  <2> QED BY <1>3, <1>4, <2>1, <2>2 DEF InsertBuyer
<1>5. ASSUME NEW b \in Account, NEW email \in Person, NEW given \in Forms, CreateAccount(b, email, given)
      PROVE  account[a].details[d] = NoOne \/ account'[a] = account[a]
  <2>1. [e \in Detail |-> IF e \in given THEN "support" ELSE NoOne] \in [Detail -> Source]
    BY DEF Source
  <2> QED BY <1>3, <1>5, <2>1 DEF CreateAccount
<1>6. ASSUME NEW p \in Purchase, Fill(p)
      PROVE  account[a].details[d] = NoOne \/ account'[a].details[d] = account[a].details[d]
  <2>1. shopping[p].at \in Account
    BY <1>6 DEF Fill, Stage, UInv, Found
  <2> QED BY <1>1, <1>6, <2>1 DEF Fill, AccountRow
<1>7. ASSUME NEW b \in Account, NEW email \in Person, NEW status \in {"active", "disabled"}, NEW given \in Forms,
             UpdateAccount(b, email, status, given)
      PROVE  account'[a].details[d] \in {account[a].details[d], NoOne, "support"}
  BY <1>1, <1>7 DEF UpdateAccount
<1>8. CASE \E p \in Purchase : \/ \E email \in Person, gives \in Forms : OrderLicence(p, email, gives)
                               \/ Find(p) \/ Ask(p) \/ ScreenBuyer(p) \/ Take(p) \/ GiveUp(p) \/ Deliver(p)
  BY <1>2, <1>8 DEF OrderLicence, Find, Ask, ScreenBuyer, Take, GiveUp, Deliver
<1>9. CASE \/ \E v \in Visitor, u \in Person, b \in Account : Admit(v, u, b)
           \/ \E v \in Visitor : Act(v)
           \/ \E b \in Account : EditMembers(b)
  BY <1>2, <1>9 DEF Admit, Act, EditMembers
<1> QED BY <1>4, <1>5, <1>6, <1>7, <1>8, <1>9 DEF CustomersNext

\* Every customer, membership, order and visitor keeps its type.
THEOREM CustomersTyping == CustomersSpec => []CustomersTypeOK
  BY CustomersBegin, CustomersStep, CustomersPromise, PTL DEF CustomersSpec

\* One address is one customer, whoever makes him, and a customer never is without an owner:
\* resolveCustomer() and createCustomer() rely on the unique index, and members are edited only
\* below the owner.
THEOREM AddressIsCustomer == CustomersSpec => [](OneCustomer /\ OwnerStays)
  BY CustomersBegin, CustomersStep, CustomersPromise, PTL DEF CustomersSpec

\* What somebody bought he finds in the portal, as the owner of the customer of his order,
\* unless support has given that customer another address.
THEOREM BuyersReach == CustomersSpec => []BuyerReaches
  BY CustomersBegin, CustomersStep, CustomersPromise, PTL DEF CustomersSpec

\* Who has the licence cannot buy it again: a customer has it twice only by orders that
\* overlapped, both sent before the licence of either was there.
THEOREM LicenceBoughtOnce == CustomersSpec => []BoughtOnce
  BY CustomersBegin, CustomersStep, CustomersPromise, PTL DEF CustomersSpec

\* A form in the store only fills what is empty: what is recorded of a customer changes by
\* support alone.
THEOREM FormsFillOnly == CustomersSpec => FormsOnlyFill
<1>1. UInv /\ [CustomersNext]_customersVars =>
        [ \A a \in Account, d \in Detail :
            LET was == account[a].details[d]
                is == account'[a].details[d]
            IN  was # NoOne /\ is # was => is \in {NoOne, "support"} ]_customersVars
  BY FormStep
<1> QED BY <1>1, CustomersBegin, CustomersStep, PTL DEF CustomersSpec, FormsOnlyFill

-----------------------------------------------------------------------------
(* Reversals of payments.                                                   *)


CauseRemains ==
    \A l \in Licence : <<l, "refund">> \in revocations => licence[l].revoked \/ l \in restored

RefundReachedAll ==
    applied => \A l \in Licence : policy[l].refund = "revoke" => <<l, "refund">> \in revocations

SawBefore ==
    \A h \in Handler :
      /\ handling[h].event = "charge.refunded" => handling[h].saw \in Refunds
      /\ handling[h].saw = "full" => charge = "full"
      /\ handling[h].event \in {"charge.dispute.created", "charge.dispute.closed"} => dispute # "none"

RInv == /\ ReversalTypeOK /\ CauseRemains /\ RefundReachedAll /\ SawBefore /\ RevokedForCause

LEMMA ReversalsBegin == ReversalInit => RInv
<1> SUFFICES ASSUME ReversalInit PROVE RInv OBVIOUS
<1>1. ReversalTypeOK
  BY DEF ReversalInit, ReversalTypeOK, Resting, Refunds
<1>2. \A h \in Handler : handling[h].event = "none" /\ handling[h].saw = "none"
  BY DEF ReversalInit, Resting
<1>3. CauseRemains /\ RefundReachedAll /\ RevokedForCause
  BY DEF ReversalInit, CauseRemains, RefundReachedAll, RevokedForCause
<1> QED BY <1>1, <1>2, <1>3 DEF RInv, SawBefore

\* What a reversal writes: the causes it names are those of the licences whose policy asks
\* for it, the others keep what they had, and whoever has the cause is revoked by it or had
\* it before.
LEMMA ReverseEffect ==
    ASSUME ReversalTypeOK, NEW cause \in {"refund", "dispute"},
           NEW measure \in [Licence -> Measure], Reverse(cause, measure)
    PROVE  /\ licence' \in [Licence -> [revoked : BOOLEAN, review : BOOLEAN]]
           /\ revocations' \subseteq Licence \X {"refund", "dispute"}
           /\ revocations \subseteq revocations'
           /\ \A l \in Licence :
                /\ measure[l] = "revoke" => <<l, cause>> \in revocations'
                /\ \A c \in {"refund", "dispute"} :
                     <<l, c>> \in revocations' /\ <<l, c>> \notin revocations =>
                       c = cause /\ measure[l] = "revoke" /\ licence'[l].revoked
                /\ licence[l].revoked => licence'[l].revoked
<1>1. \A l \in Licence : licence[l].revoked \in BOOLEAN /\ licence[l].review \in BOOLEAN
  BY DEF ReversalTypeOK
<1>2. licence' \in [Licence -> [revoked : BOOLEAN, review : BOOLEAN]]
  BY <1>1 DEF Reverse
<1>3. \A l \in Licence :
        licence'[l].revoked = (licence[l].revoked \/
          (l \in {k \in Licence : measure[k] = "revoke"} /\ ~Already(l, cause)))
  BY DEF Reverse
<1>4. revocations' = revocations \cup ({l \in Licence : measure[l] = "revoke"} \X {cause})
  BY DEF Reverse
<1>5. revocations' \subseteq Licence \X {"refund", "dispute"}
  BY <1>4 DEF ReversalTypeOK
<1>6. ASSUME NEW l \in Licence
      PROVE  /\ measure[l] = "revoke" => <<l, cause>> \in revocations'
             /\ licence[l].revoked => licence'[l].revoked
  BY <1>3, <1>4
<1>7. ASSUME NEW l \in Licence, NEW c \in {"refund", "dispute"},
             <<l, c>> \in revocations', <<l, c>> \notin revocations
      PROVE  c = cause /\ measure[l] = "revoke" /\ licence'[l].revoked
  BY <1>3, <1>4, <1>7 DEF Already
<1> QED BY <1>2, <1>4, <1>5, <1>6, <1>7

\* The steps of Stripe, of the fulfilment and of a handler that writes nothing.
LEMMA NothingReversed ==
    ASSUME RInv, [ReversalNext]_reversalVars,
           UNCHANGED <<policy, licence, revocations, applied, restored>>
    PROVE  CauseRemains' /\ RefundReachedAll'
  BY DEF RInv, CauseRemains, RefundReachedAll

LEMMA ReversalsStep == RInv /\ [ReversalNext]_reversalVars => RInv'
<1> SUFFICES ASSUME RInv, [ReversalNext]_reversalVars PROVE RInv' OBVIOUS
<1> USE DEF RInv
<1> USE ReversalAssumption
<1>1. ASSUME NEW to \in Refunds, PayBack(to) PROVE RInv'
  <2>1. ReversalTypeOK' BY <1>1 DEF PayBack, ReversalTypeOK
  <2>2. SawBefore' /\ RevokedForCause' BY <1>1 DEF PayBack, SawBefore, RevokedForCause
  <2> QED BY <1>1, <2>1, <2>2, NothingReversed DEF PayBack
<1>2. CASE Contest
  <2>1. ReversalTypeOK' BY <1>2 DEF Contest, ReversalTypeOK
  <2>2. SawBefore' /\ RevokedForCause' BY <1>2 DEF Contest, SawBefore, RevokedForCause
  <2> QED BY <1>2, <2>1, <2>2, NothingReversed DEF Contest
<1>3. CASE Store
  <2>1. ReversalTypeOK' BY <1>3 DEF Store, ReversalTypeOK, Stripe
  <2>2. SawBefore' /\ RevokedForCause' BY <1>3 DEF Store, SawBefore, RevokedForCause, Stripe
  <2> QED BY <1>3, <2>1, <2>2, NothingReversed DEF Store
<1>4. ASSUME NEW h \in Handler, NEW event \in Event, Fetch(h, event) PROVE RInv'
  <2>1. ReversalTypeOK' BY <1>4 DEF Fetch, ReversalTypeOK, Stripe
  <2>2. SawBefore' BY <1>4 DEF Fetch, SawBefore, Stripe, Sent, ReversalTypeOK, Event
  <2>3. RevokedForCause' BY <1>4 DEF Fetch, RevokedForCause, Stripe
  <2> QED BY <1>4, <2>1, <2>2, <2>3, NothingReversed DEF Fetch
<1>5. ASSUME NEW h \in Handler, Unmapped(h) \/ BreakOff(h) PROVE RInv'
  <2>1. ReversalTypeOK'
    BY <1>5 DEF Unmapped, BreakOff, Return, Resting, ReversalTypeOK, Stripe
  <2>2. handling' = [handling EXCEPT ![h] = Resting] /\ UNCHANGED <<charge, dispute>>
    BY <1>5 DEF Unmapped, BreakOff, Return, Stripe
  <2>3. SawBefore' BY <2>2 DEF SawBefore, Resting, ReversalTypeOK
  <2>4. RevokedForCause' BY <1>5 DEF Unmapped, BreakOff, RevokedForCause, Stripe
  <2> QED BY <1>5, <2>1, <2>3, <2>4, NothingReversed DEF Unmapped, BreakOff
<1>6. ASSUME NEW h \in Handler, CommitRefund(h) PROVE RInv'
  <2> DEFINE full == handling[h].saw = "full"
             measure == [l \in Licence |-> IF full THEN policy[l].refund ELSE "review"]
  <2>1. measure \in [Licence -> Measure] /\ Reverse("refund", measure)
    BY <1>6 DEF CommitRefund, ReversalTypeOK, ReversalAssumption, Measure
  <2> HIDE DEF measure
  <2>2. /\ licence' \in [Licence -> [revoked : BOOLEAN, review : BOOLEAN]]
        /\ revocations' \subseteq Licence \X {"refund", "dispute"}
        /\ revocations \subseteq revocations'
        /\ \A l \in Licence :
             /\ measure[l] = "revoke" => <<l, "refund">> \in revocations'
             /\ \A c \in {"refund", "dispute"} :
                  <<l, c>> \in revocations' /\ <<l, c>> \notin revocations =>
                    c = "refund" /\ measure[l] = "revoke" /\ licence'[l].revoked
             /\ licence[l].revoked => licence'[l].revoked
    BY <2>1, ReverseEffect
  <2>3. \A l \in Licence : measure[l] = "revoke" => full /\ policy[l].refund = "revoke"
    BY DEF measure
  <2>4. \A l \in Licence : full => measure[l] = policy[l].refund
    BY DEF measure
  <2>5. /\ handling' = [handling EXCEPT ![h] = Resting]
        /\ UNCHANGED <<policy, renewal, known, charge, dispute, restored>>
        /\ applied' = (applied \/ full)
    BY <1>6 DEF CommitRefund, Return, Stripe
  <2>6. ReversalTypeOK'
    <3>1. purchase' \in [status : {"completed", "partially_refunded", "refunded", "disputed"},
                         refunded : Refunds]
      BY <1>6 DEF CommitRefund, ReversalTypeOK, SawBefore
    <3> QED BY <2>2, <2>5, <3>1 DEF ReversalTypeOK, Resting
  <2>7. CauseRemains' BY <2>2, <2>5 DEF CauseRemains, ReversalTypeOK
  <2>8. RefundReachedAll' BY <2>2, <2>4, <2>5 DEF RefundReachedAll, ReversalTypeOK
  <2>9. SawBefore' BY <2>5 DEF SawBefore, Resting, ReversalTypeOK
  <2>10. RevokedForCause' BY <2>2, <2>3, <2>5 DEF RevokedForCause, SawBefore, ReversalTypeOK
  <2> QED BY <2>6, <2>7, <2>8, <2>9, <2>10
<1>7. ASSUME NEW h \in Handler, CommitDispute(h) PROVE RInv'
  <2> DEFINE measure == [l \in Licence |-> policy[l].dispute]
  <2>1. measure \in [Licence -> Measure] /\ Reverse("dispute", measure)
    BY <1>7 DEF CommitDispute, ReversalTypeOK, ReversalAssumption, Measure
  <2>2. \A l \in Licence : measure[l] = policy[l].dispute
    OBVIOUS
  <2> HIDE DEF measure
  <2>3. /\ licence' \in [Licence -> [revoked : BOOLEAN, review : BOOLEAN]]
        /\ revocations' \subseteq Licence \X {"refund", "dispute"}
        /\ revocations \subseteq revocations'
        /\ \A l \in Licence :
             /\ \A c \in {"refund", "dispute"} :
                  <<l, c>> \in revocations' /\ <<l, c>> \notin revocations =>
                    c = "dispute" /\ measure[l] = "revoke" /\ licence'[l].revoked
             /\ licence[l].revoked => licence'[l].revoked
    BY <2>1, ReverseEffect
  <2>4. /\ handling' = [handling EXCEPT ![h] = Resting]
        /\ UNCHANGED <<policy, renewal, known, charge, dispute, applied, restored>>
        /\ handling[h].event = "charge.dispute.created"
    BY <1>7 DEF CommitDispute, Return, Stripe
  <2>5. ReversalTypeOK'
    <3>1. purchase' \in [status : {"completed", "partially_refunded", "refunded", "disputed"},
                         refunded : Refunds]
      BY <1>7 DEF CommitDispute, ReversalTypeOK
    <3> QED BY <2>3, <2>4, <3>1 DEF ReversalTypeOK, Resting
  <2>6. CauseRemains' BY <2>3, <2>4 DEF CauseRemains, ReversalTypeOK
  <2>7. RefundReachedAll' BY <2>3, <2>4 DEF RefundReachedAll, ReversalTypeOK
  <2>8. SawBefore' BY <2>4 DEF SawBefore, Resting, ReversalTypeOK
  <2>9. RevokedForCause' BY <2>2, <2>3, <2>4 DEF RevokedForCause, SawBefore, ReversalTypeOK
  <2> QED BY <2>5, <2>6, <2>7, <2>8, <2>9
<1>8. ASSUME NEW h \in Handler, CommitClosed(h) PROVE RInv'
  <2>1. /\ licence' = [l \in Licence |-> [licence[l] EXCEPT !.review = TRUE]]
        /\ handling' = [handling EXCEPT ![h] = Resting]
        /\ UNCHANGED <<policy, renewal, known, purchase, revocations, charge, dispute, applied,
                       restored>>
    BY <1>8 DEF CommitClosed, Return, Stripe
  <2>2. ReversalTypeOK' BY <2>1 DEF ReversalTypeOK, Resting
  <2>3. CauseRemains' BY <2>1 DEF CauseRemains, ReversalTypeOK
  <2>4. RefundReachedAll' /\ RevokedForCause' BY <2>1 DEF RefundReachedAll, RevokedForCause
  <2>5. SawBefore' BY <2>1 DEF SawBefore, Resting, ReversalTypeOK
  <2> QED BY <2>2, <2>3, <2>4, <2>5
<1>9. ASSUME NEW l \in Licence, RevokeBySupport(l) \/ MarkReviewed(l) PROVE RInv'
  <2>1. UNCHANGED <<policy, renewal, known, purchase, revocations, charge, dispute, handling, applied,
                   restored>>
    BY <1>9 DEF RevokeBySupport, MarkReviewed, Stripe
  <2>2. /\ licence' \in [Licence -> [revoked : BOOLEAN, review : BOOLEAN]]
        /\ \A k \in Licence : licence[k].revoked => licence'[k].revoked
    <3>1. \/ licence' = [licence EXCEPT ![l].revoked = TRUE]
          \/ licence' = [licence EXCEPT ![l].review = FALSE]
      BY <1>9 DEF RevokeBySupport, MarkReviewed
    <3>2. CASE licence' = [licence EXCEPT ![l].revoked = TRUE]
      BY <3>2 DEF ReversalTypeOK
    <3>3. CASE licence' = [licence EXCEPT ![l].review = FALSE]
      <4>1. licence[l] \in [revoked : BOOLEAN, review : BOOLEAN] BY DEF ReversalTypeOK
      <4>2. [licence[l] EXCEPT !.review = FALSE] \in [revoked : BOOLEAN, review : BOOLEAN]
        BY <4>1
      <4>3. [licence[l] EXCEPT !.review = FALSE].revoked = licence[l].revoked BY <4>1
      <4> QED BY <3>3, <4>2, <4>3 DEF ReversalTypeOK
    <3> QED BY <3>1, <3>2, <3>3
  <2> QED BY <2>1, <2>2 DEF ReversalTypeOK, CauseRemains, RefundReachedAll, SawBefore, RevokedForCause
<1>10. ASSUME NEW l \in Licence, Unrevoke(l) PROVE RInv'
  <2>1. /\ UNCHANGED <<policy, renewal, known, purchase, revocations, charge, dispute, handling,
                       applied>>
        /\ licence' = [licence EXCEPT ![l].revoked = FALSE]
        /\ restored' = IF <<l, "refund">> \in revocations THEN restored \cup {l} ELSE restored
    BY <1>10 DEF Unrevoke, Stripe
  <2>2. ReversalTypeOK' BY <2>1 DEF ReversalTypeOK
  <2>3. CauseRemains' BY <2>1 DEF CauseRemains, ReversalTypeOK
  <2> QED BY <2>1, <2>2, <2>3 DEF RefundReachedAll, SawBefore, RevokedForCause
<1>11. CASE UNCHANGED reversalVars
  BY <1>11 DEF reversalVars, ReversalTypeOK, CauseRemains, RefundReachedAll, SawBefore,
     RevokedForCause, Stripe
<1> QED
  BY <1>1, <1>2, <1>3, <1>4, <1>5, <1>6, <1>7, <1>8, <1>9, <1>10, <1>11 DEF ReversalNext, Handle

LEMMA ReversalsInvariant == ReversalSpec => []RInv
<1>1. RInv /\ [ReversalNext]_reversalVars => RInv' BY ReversalsStep
<1> QED BY <1>1, ReversalsBegin, PTL DEF ReversalSpec

\* The rows, the causes and the handlers of one payment keep their types.
THEOREM ReversalTyping == ReversalSpec => []ReversalTypeOK
<1>1. RInv => ReversalTypeOK BY DEF RInv
<1> QED BY <1>1, ReversalsInvariant, PTL

\* A refund in full that a handler applied leaves no licence in force whose policy is to
\* revoke, unless support restored it after, whatever else was handled in between.
THEOREM RefundsTakeEffect == ReversalSpec => []RefundTakesEffect
<1>1. RInv => RefundTakesEffect
  BY DEF RInv, RefundTakesEffect, CauseRemains, RefundReachedAll
<1> QED BY <1>1, ReversalsInvariant, PTL

\* No handler revokes for a refund that was not in full, for a dispute that was not opened,
\* or against the policy of the licence.
THEOREM RevocationsHaveCause == ReversalSpec => []RevokedForCause
<1>1. RInv => RevokedForCause BY DEF RInv
<1> QED BY <1>1, ReversalsInvariant, PTL
===============================================================================
