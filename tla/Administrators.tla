--------------------------- MODULE Administrators ---------------------------
(***************************************************************************)
(* Administrators, their sign-in and their API tokens:                     *)
(* src/services/admins.ts and the administrator realm of                   *)
(* src/services/human-auth.ts, with the session check that                 *)
(* src/http/admin-ui.tsx makes before each request.                        *)
(*                                                                         *)
(* A request reads its session and the administrator first and acts on     *)
(* what it read; transactions are split where another one may come in      *)
(* between, and hold the rows (or the advisory lock) they have locked.     *)
(* Signing in is a link (first factor), a session that is pending, and a   *)
(* code of the authenticator (second factor) for a step of time.           *)
(*                                                                         *)
(* A definition marked "Variant" is a faulty form of the one that follows. *)
(***************************************************************************)
EXTENDS Integers, FiniteSets

CONSTANTS
    Admin,          \* admin_users
    Founder,        \* the super administrator that the bootstrap has enrolled
    Link,           \* auth_challenges
    Session,        \* auth_sessions
    Token,          \* admin_api_tokens
    Request,        \* requests of administrators
    MaxStep,        \* bound: steps of 30 seconds
    MaxSecret,      \* bound: authenticator secrets generated
    AdminScenario,  \* sets of operations; a behaviour offers those of one of them
    None            \* no administrator, session, token or link

\* Who is signed in has enrolled: where a behaviour lets others than the founder enrol, nobody
\* is signed in at first.
ASSUME AdminAssumption ==
    /\ Founder \in Admin
    /\ MaxStep \in Nat \ {0}
    /\ MaxSecret \in Nat \ {0}
    /\ None \notin Admin \cup Link \cup Session \cup Token
    /\ \A operations \in AdminScenario : "enrol" \in operations => "login" \in operations

VARIABLES
    admin,     \* admin_users with their roles
    link,      \* auth_challenges
    session,   \* auth_sessions
    token,     \* admin_api_tokens
    request,   \* where each request stands
    step,      \* currentStep()
    generated, \* how many secrets there are
    accepted,  \* codes that were accepted: administrator, secret, step (history)
    again,     \* one was accepted twice (history)
    resets,    \* administrators whose second factor was removed (history)
    lateToken, \* tokens issued while their owner was being disabled (history)
    offered    \* the operations of this behaviour

adminVars == <<admin, link, session, token, request, step, generated,
               accepted, again, resets, lateToken, offered>>

-----------------------------------------------------------------------------
(* Rows and requests                                                        *)

AdminRow == [active : BOOLEAN, super : BOOLEAN, secret : 0..MaxSecret,
             enrolled : BOOLEAN, last : 0..MaxStep]

LinkRow == [owner : Admin \cup {None}, state : {"none", "sent", "consumed"}]

\* revoked: revoked_at; link: the link it came from.  Time limits (of a link, of a session,
\* and the 15 minutes after a code) are left out: they only refuse.
SessionRow == [owner : Admin \cup {None}, state : {"none", "pending_mfa", "active"},
               revoked : BOOLEAN, link : Link \cup {None}]

\* line: the first token of its line of rotations.
TokenRow == [owner : Admin \cup {None}, state : {"none", "live", "revoked"},
             line : Token \cup {None}]

\* What a request holds: by, the administrator it acts for; at, the administrator it
\* changes; what, the change; on, its session, link or token; seen, the session's state
\* or the secret or step it goes on with; sessions and tokens, the rows its UPDATEs found.
Flight == [pc : {"idle", "acting", "counted", "swept", "checking", "proving",
                 "enrolling", "consuming", "minting", "rotating"},
           by : Admin \cup {None}, at : Admin \cup {None},
           what : {"none", "demote", "promote", "disable", "enable"},
           on : Session \cup Link \cup Token \cup {None},
           pending : BOOLEAN, number : 0..(MaxStep + MaxSecret),
           sessions : SUBSET Session, tokens : SUBSET Token]

Idle == [pc |-> "idle", by |-> None, at |-> None, what |-> "none", on |-> None,
         pending |-> FALSE, number |-> 0, sessions |-> {}, tokens |-> {}]

AdminTypeOK ==
    /\ admin \in [Admin -> AdminRow]
    /\ link \in [Link -> LinkRow]
    /\ session \in [Session -> SessionRow]
    /\ token \in [Token -> TokenRow]
    /\ request \in [Request -> Flight]
    /\ step \in 1..MaxStep
    /\ generated \in 0..MaxSecret
    /\ accepted \subseteq Admin \X (1..MaxSecret) \X (1..MaxStep)
    /\ again \in BOOLEAN
    /\ resets \subseteq Admin
    /\ lateToken \subseteq Token
    /\ offered \in AdminScenario

NoSession == [owner |-> None, state |-> "none", revoked |-> FALSE, link |-> None]
NoToken == [owner |-> None, state |-> "none", line |-> None]

\* All are super administrators.  Where enrolment is offered only the founder has enrolled,
\* else all have; where signing in is not offered they are signed in.
AdminInit ==
    /\ offered \in AdminScenario
    /\ admin = [a \in Admin |->
         LET enrolled == a = Founder \/ "enrol" \notin offered IN
         [active |-> TRUE, super |-> TRUE, enrolled |-> enrolled,
          secret |-> IF enrolled THEN 1 ELSE 0, last |-> 0]]
    /\ link = [l \in Link |-> [owner |-> None, state |-> "none"]]
    /\ session \in IF "login" \in offered THEN {[s \in Session |-> NoSession]}
                  ELSE {f \in [Session -> {[NoSession EXCEPT !.owner = a, !.state = "active"] : a \in Admin}] :
                          \A a \in Admin : \E s \in Session : f[s].owner = a}
    /\ token = [t \in Token |-> NoToken]
    /\ request = [r \in Request |-> Idle]
    /\ step = 1
    /\ generated = 1
    /\ accepted = {}
    /\ again = FALSE
    /\ resets = {}
    /\ lateToken = {}

Aside == <<step, generated, accepted, again, resets, lateToken, offered>>

At(r, pc) == request[r].pc = pc
Become(r, flight) == request' = [request EXCEPT ![r] = flight]
End(r) == Become(r, Idle)

\* The row of an administrator is locked by a code check and by a disablement.
RowLocked(a) == \E r \in Request : request[r].pc \in {"proving", "swept"} /\ request[r].at = a

\* getSession()
Valid(s) == session[s].state # "none" /\ ~session[s].revoked

\* The check before each request: a full session of an active administrator.
SignedIn(s) == Valid(s) /\ session[s].state = "active" /\ admin[session[s].owner].active

-----------------------------------------------------------------------------
(* Signing in                                                               *)

\* requestLogin(): only for active administrators.
RequestLogin(l, a) ==
    /\ "login" \in offered
    /\ link[l].state = "none"
    /\ admin[a].active
    /\ link' = [link EXCEPT ![l] = [owner |-> a, state |-> "sent"]]
    /\ UNCHANGED <<admin, session, token, request, Aside>>

TakeLink(r, l) ==
    /\ At(r, "idle")
    /\ link[l].state = "sent"
    /\ admin[link[l].owner].active
    /\ Become(r, [Idle EXCEPT !.pc = "consuming", !.by = link[l].owner, !.on = l])
    /\ UNCHANGED <<admin, link, session, token, Aside>>

\* consumeLoginLink(): the challenge is taken (and its row locked), the administrator's
\* status is read.  Of a disabled one the transaction is undone.
Consume(r, l) ==
    /\ \A q \in Request : ~(At(q, "consuming") /\ request[q].on = l)
    /\ TakeLink(r, l)

\* consumeLoginLink(): a pending session is inserted.
OpenSession(r, s) ==
    /\ At(r, "consuming")
    /\ session[s].state = "none"
    /\ link' = [link EXCEPT ![request[r].on].state = "consumed"]
    /\ session' = [session EXCEPT
         ![s] = [NoSession EXCEPT !.owner = request[r].by, !.state = "pending_mfa",
                                  !.link = request[r].on]]
    /\ End(r)
    /\ UNCHANGED <<admin, token, Aside>>

\* beginTotpEnrolment(): a secret that is stored already is shown again, else a new one
\* is generated.
BeginEnrolment(r, s) ==
    /\ "enrol" \in offered
    /\ At(r, "idle")
    /\ Valid(s)
    /\ ~admin[session[s].owner].enrolled
    /\ admin[session[s].owner].secret = 0
    /\ generated < MaxSecret
    /\ generated' = generated + 1
    /\ Become(r, [Idle EXCEPT !.pc = "enrolling", !.by = session[s].owner, !.number = generated + 1])
    /\ UNCHANGED <<admin, link, session, token, step, accepted, again, resets, lateToken, offered>>

\* beginTotpEnrolment(): stored unless an authenticator is enrolled by now.
StoreSecret(r) ==
    LET a == request[r].by IN
    /\ At(r, "enrolling")
    /\ ~RowLocked(a)
    /\ admin' = IF admin[a].enrolled THEN admin
                ELSE [admin EXCEPT ![a].secret = request[r].number]
    /\ End(r)
    /\ UNCHANGED <<link, session, token, Aside>>

\* verifyAdminTotp(): the session as the caller has read it.
LoadSession(r, s) ==
    /\ "verify" \in offered
    /\ At(r, "idle")
    /\ Valid(s)
    /\ Become(r, [Idle EXCEPT !.pc = "checking", !.by = session[s].owner, !.on = s,
                              !.pending = session[s].state = "pending_mfa"])
    /\ UNCHANGED <<admin, link, session, token, Aside>>

Near == {n \in {step - 1, step, step + 1} : n \in 1..MaxStep}

\* The code belongs to a step near the current one and later than the last accepted.
MatchCode(r) ==
    LET a == request[r].by IN
    /\ At(r, "checking")
    /\ admin[a].active
    /\ admin[a].secret # 0
    /\ \E n \in Near :
         /\ n > admin[a].last
         /\ Become(r, [request[r] EXCEPT !.pc = "proving", !.at = a, !.number = n])
    /\ UNCHANGED <<admin, link, session, token, Aside>>

\* verifyAdminTotp(): the row of the active administrator is locked first.
Prove(r) ==
    /\ ~RowLocked(request[r].by)
    /\ MatchCode(r)

\* verifyAdminTotp(): enrolment, the end of the sign-in, or a step-up.
CommitProof(r) ==
    LET a == request[r].by
        use == <<a, admin[a].secret, request[r].number>>
    IN
    /\ At(r, "proving")
    /\ admin' = [admin EXCEPT ![a].last = request[r].number, ![a].enrolled = TRUE]
    /\ session' = IF request[r].pending
                  THEN [session EXCEPT ![request[r].on].state = "active"]
                  ELSE session
    /\ accepted' = accepted \cup {use}
    /\ again' = (again \/ use \in accepted)
    /\ End(r)
    /\ UNCHANGED <<link, token, step, generated, resets, lateToken, offered>>

\* A request is refused, or its transaction undone.
Refuse(r) ==
    /\ ~At(r, "idle")
    /\ End(r)
    /\ UNCHANGED <<admin, link, session, token, Aside>>

Logout(s) ==
    /\ "logout" \in offered
    /\ session[s].state # "none"
    /\ session' = [session EXCEPT ![s].revoked = TRUE]
    /\ UNCHANGED <<admin, link, token, request, Aside>>

\* Time only matters to codes.
NextStep ==
    /\ "verify" \in offered
    /\ step < MaxStep
    /\ step' = step + 1
    /\ UNCHANGED <<admin, link, session, token, request, generated, accepted, again, resets, lateToken, offered>>

-----------------------------------------------------------------------------
(* Managing administrators                                                  *)

\* requireHighRisk() on what the request read of itself.
BeginManaging(r, s) ==
    /\ offered \cap {"roles", "status", "reset"} # {}
    /\ At(r, "idle")
    /\ SignedIn(s)
    /\ admin[session[s].owner].super
    /\ Become(r, [Idle EXCEPT !.pc = "acting", !.by = session[s].owner])
    /\ UNCHANGED <<admin, link, session, token, Aside>>

\* superadminCount() > 0
OthersRemain(a) ==
    \E b \in Admin \ {a} : admin[b].active /\ admin[b].super /\ admin[b].enrolled

Changes == (IF "roles" \in offered THEN {"demote", "promote"} ELSE {})
             \cup (IF "status" \in offered THEN {"disable", "enable"} ELSE {})

\* Another enrolled super administrator must remain, and nobody disables himself.
DecideChange(r, a, what) ==
    /\ At(r, "acting")
    /\ what \in Changes
    /\ what = "disable" => request[r].by # a
    /\ what \in {"demote", "disable"} => OthersRemain(a)
    /\ Become(r, [request[r] EXCEPT !.pc = "counted", !.at = a, !.what = what])
    /\ UNCHANGED <<admin, link, session, token, Aside>>

\* setAdminRoles(), setAdminStatus(): under the advisory lock.
Count(r, a, what) ==
    /\ \A q \in Request : request[q].pc \notin {"counted", "swept"}
    /\ DecideChange(r, a, what)

\* setAdminRoles(), and setAdminStatus() to active.
WriteChange(r) ==
    LET a == request[r].at IN
    /\ At(r, "counted")
    /\ \/ /\ request[r].what \in {"demote", "promote"}
          /\ admin' = [admin EXCEPT ![a].super = request[r].what = "promote"]
       \/ /\ request[r].what = "enable"
          /\ ~RowLocked(a)
          /\ admin' = [admin EXCEPT ![a].active = TRUE]
    /\ End(r)
    /\ UNCHANGED <<link, session, token, Aside>>

\* setAdminStatus() to disabled: the row is written (and locked), the sessions and tokens
\* of the administrator are found.
Sweep(r) ==
    LET a == request[r].at IN
    /\ At(r, "counted")
    /\ request[r].what = "disable"
    /\ ~RowLocked(a)
    /\ Become(r, [request[r] EXCEPT !.pc = "swept",
         !.sessions = {s \in Session : session[s].owner = a /\ ~session[s].revoked},
         !.tokens = {t \in Token : token[t].owner = a /\ token[t].state = "live"}])
    /\ UNCHANGED <<admin, link, session, token, Aside>>

TokenLocked(t) == \E q \in Request : At(q, "rotating") /\ request[q].on = t

\* Variant: the tokens are left.
DisableKeepingTokens(r) ==
    LET a == request[r].at IN
    /\ At(r, "swept")
    /\ admin' = [admin EXCEPT ![a].active = FALSE]
    /\ session' = [s \in Session |->
         IF s \in request[r].sessions THEN [session[s] EXCEPT !.revoked = TRUE] ELSE session[s]]
    /\ End(r)
    /\ UNCHANGED <<link, token, Aside>>

\* setAdminStatus(): waits for a rotation that holds one of the tokens, and commits.
Disable(r) ==
    LET a == request[r].at IN
    /\ At(r, "swept")
    /\ \A t \in request[r].tokens : ~TokenLocked(t)
    /\ admin' = [admin EXCEPT ![a].active = FALSE]
    /\ session' = [s \in Session |->
         IF s \in request[r].sessions THEN [session[s] EXCEPT !.revoked = TRUE] ELSE session[s]]
    /\ token' = [t \in Token |->
         IF t \in request[r].tokens THEN [token[t] EXCEPT !.state = "revoked"] ELSE token[t]]
    /\ End(r)
    /\ UNCHANGED <<link, Aside>>

\* Variant: the sessions are left to lapse.
ResetKeepingSessions(r, a) ==
    /\ "reset" \in offered
    /\ At(r, "acting")
    /\ ~RowLocked(a)
    /\ admin' = [admin EXCEPT ![a] = [@ EXCEPT !.secret = 0, !.enrolled = FALSE, !.last = 0]]
    /\ resets' = resets \cup {a}
    /\ End(r)
    /\ UNCHANGED <<link, session, token, step, generated, accepted, again, lateToken, offered>>

\* resetAdminTotp(): the second factor and all sessions; nothing is asked of the others.
ResetTotp(r, a) ==
    /\ "reset" \in offered
    /\ At(r, "acting")
    /\ ~RowLocked(a)
    /\ admin' = [admin EXCEPT ![a] = [@ EXCEPT !.secret = 0, !.enrolled = FALSE, !.last = 0]]
    /\ session' = [s \in Session |->
         IF session[s].owner = a THEN [session[s] EXCEPT !.revoked = TRUE] ELSE session[s]]
    /\ resets' = resets \cup {a}
    /\ End(r)
    /\ UNCHANGED <<link, token, step, generated, accepted, again, lateToken, offered>>

-----------------------------------------------------------------------------
(* API tokens                                                               *)

Leaving(a) == ~admin[a].active \/ \E q \in Request : At(q, "swept") /\ request[q].at = a

\* createApiToken(): by a signed-in administrator.
BeginToken(r, s) ==
    /\ "token" \in offered
    /\ At(r, "idle")
    /\ SignedIn(s)
    /\ Become(r, [Idle EXCEPT !.pc = "minting", !.by = session[s].owner])
    /\ UNCHANGED <<admin, link, session, token, Aside>>

\* insertApiToken(): the owner's status is not read again.
InsertToken(r, t) ==
    LET a == request[r].by IN
    /\ At(r, "minting")
    /\ token[t].state = "none"
    /\ token' = [token EXCEPT ![t] = [owner |-> a, state |-> "live", line |-> t]]
    /\ lateToken' = IF Leaving(a) THEN lateToken \cup {t} ELSE lateToken
    /\ End(r)
    /\ UNCHANGED <<admin, link, session, step, generated, accepted, again, resets, offered>>

TakeToken(r, s, t) ==
    /\ "rotate" \in offered
    /\ At(r, "idle")
    /\ SignedIn(s)
    /\ token[t].state = "live"
    /\ Become(r, [Idle EXCEPT !.pc = "rotating", !.by = token[t].owner, !.on = t])
    /\ UNCHANGED <<admin, link, session, token, Aside>>

\* rotateApiToken(): the token's row is locked and must not be revoked.
BeginRotation(r, s, t) == ~TokenLocked(t) /\ TakeToken(r, s, t)

\* rotateApiToken(): a new token of the same owner, and the old one revoked.
Rotate(r, u) ==
    LET t == request[r].on IN
    /\ At(r, "rotating")
    /\ token[u].state = "none"
    /\ token' = [token EXCEPT ![u] = [@ EXCEPT !.owner = request[r].by, !.state = "live",
                                              !.line = token[t].line],
                              ![t].state = "revoked"]
    /\ lateToken' = IF Leaving(request[r].by) THEN lateToken \cup {u} ELSE lateToken
    /\ End(r)
    /\ UNCHANGED <<admin, link, session, step, generated, accepted, again, resets, offered>>

\* revokeApiToken(): reads without a lock, but a revoked token stays revoked.
RevokeToken(t) ==
    /\ "revoke" \in offered
    /\ token[t].state = "live"
    /\ ~TokenLocked(t)
    /\ token' = [token EXCEPT ![t].state = "revoked"]
    /\ UNCHANGED <<admin, link, session, request, Aside>>

-----------------------------------------------------------------------------
(* The specification                                                        *)

SignIn(r) ==
    \/ \E l \in Link : Consume(r, l)
    \/ \E s \in Session : OpenSession(r, s) \/ BeginEnrolment(r, s) \/ LoadSession(r, s)
    \/ StoreSecret(r) \/ Prove(r) \/ CommitProof(r)

Manage(r) ==
    \/ \E s \in Session : BeginManaging(r, s)
    \/ \E a \in Admin, what \in {"demote", "promote", "disable", "enable"} : Count(r, a, what)
    \/ WriteChange(r) \/ Sweep(r) \/ Disable(r)
    \/ \E a \in Admin : ResetTotp(r, a)

Issue(r) ==
    \/ \E s \in Session : BeginToken(r, s)
    \/ \E t \in Token : InsertToken(r, t) \/ Rotate(r, t)
    \/ \E s \in Session, t \in Token : BeginRotation(r, s, t)

AdminNext ==
    \/ \E l \in Link, a \in Admin : RequestLogin(l, a)
    \/ \E r \in Request : SignIn(r) \/ Manage(r) \/ Issue(r) \/ Refuse(r)
    \/ \E s \in Session : Logout(s)
    \/ \E t \in Token : RevokeToken(t)
    \/ NextStep

AdminSpec == AdminInit /\ [][AdminNext]_adminVars

-----------------------------------------------------------------------------
(* Properties                                                               *)

\* A code is accepted once, however many requests present it together.
CodeUsedOnce == ~again

\* A link opens one session.
LinkUsedOnce ==
    \A s, q \in Session :
      session[s].link = session[q].link /\ session[s].link # None => s = q

\* Both factors of a sign-in are good once.
SecretsUsedOnce == CodeUsedOnce /\ LinkUsedOnce

\* However role changes and disablements overlap, an enrolled super administrator
\* remains, until the second factor of one is removed.
SuperadminRemains ==
    resets = {} => \E a \in Admin : admin[a].active /\ admin[a].super /\ admin[a].enrolled

\* A full session that is not revoked is that of an active administrator with a second
\* factor: a disablement and a removed second factor end what was signed in before, and
\* what was half signed in does not become a full session after.
SessionsEnd ==
    \A s \in Session :
      session[s].state = "active" /\ ~session[s].revoked =>
        admin[session[s].owner].active /\ admin[session[s].owner].enrolled

\* Of a line of rotated tokens one lives at most, and a disabled administrator has no
\* live token but one that was issued while he was being disabled.
TokensEnd ==
    \A t \in Token : token[t].state = "live" =>
      /\ \A u \in Token : token[u].state = "live" /\ token[u].line = token[t].line => u = t
      /\ admin[token[t].owner].active \/ t \in lateToken

\* Whoever is put out is out, at once.
AccessEnds == SessionsEnd /\ TokensEnd
=============================================================================
