----------------------------- MODULE AccessProofs -----------------------------
(***************************************************************************)
(* Proofs about Administrators and RequestGuards, for any administrators,  *)
(* links, sessions, tokens, requests, bodies and limits.                   *)
(*                                                                         *)
(* The properties of administrators are not inductive. That an enrolled    *)
(* super administrator remains depends on what a request has counted and   *)
(* not yet written: it stays true since the advisory lock lets no other    *)
(* change in between. That a code is used once depends on what a request   *)
(* has compared and not yet stored: it stays true since the row is locked; *)
(* and on secrets that are generated and not yet stored. That a link opens *)
(* one session depends on the links that are being consumed. Local and     *)
(* Apart state this of each request and of each two (AInv). That whoever   *)
(* is put out is out depends on what a request has read and not yet        *)
(* written, a session it is about to open or a token it is about to        *)
(* rotate: AccessInv adds, in Ready and Parted, what a request in flight   *)
(* may count on because of the row locks.                                  *)
(*                                                                         *)
(* OncePerKey and WithinRate are not inductive either. GInv counts: the    *)
(* counter of a minute is no less than the requests that went on and no    *)
(* more than those that were counted, and the responses stored are those   *)
(* of mutations that were performed; one request at most holds the key,    *)
(* and once a mutation was performed under the key no other request is     *)
(* about to perform one.                                                   *)
(***************************************************************************)
EXTENDS Administrators, RequestGuards, FiniteSetTheorems, TLAPS

\* Who has a link, a session or a token is an administrator.
Owned ==
    /\ \A l \in Link : link[l].state # "none" => link[l].owner \in Admin
    /\ \A s \in Session : session[s].state # "none" => session[s].owner \in Admin
    /\ \A t \in Token : token[t].state # "none" => token[t].owner \in Admin

Decided(f) == f.pc = "swept" \/ (f.pc = "counted" /\ f.what \in {"demote", "disable"})

\* A secret nobody has and no code was accepted for.
Unused(k) ==
    /\ \A a \in Admin : admin[a].secret # k
    /\ \A a \in Admin, n \in 1..MaxStep : <<a, k, n>> \notin accepted

\* What holds of a request while it goes on.
Local(f) ==
    /\ f.pc # "idle" => f.by \in Admin
    /\ f.pc \in {"counted", "swept", "proving"} => f.at \in Admin
    /\ f.pc = "consuming" => f.on \in Link /\ link[f.on].state = "sent"
    /\ f.pc \in {"checking", "proving"} => f.on \in Session /\ session[f.on].state # "none"
    /\ f.pc = "rotating" => f.on \in Token /\ token[f.on].state # "none"
    /\ f.pc = "enrolling" => f.number \in 2..generated /\ Unused(f.number)
    /\ f.pc = "proving" => /\ f.at = f.by /\ f.number \in 1..MaxStep
                           /\ admin[f.by].secret # 0 /\ f.number > admin[f.by].last
    /\ f.pc = "swept" => \A t \in f.tokens : token[t].state # "none"
    /\ Decided(f) /\ resets = {} => OthersRemain(f.at)

\* What two requests do not do together.
Apart(f, g) ==
    /\ ~(f.pc \in {"counted", "swept"} /\ g.pc \in {"counted", "swept"})
    /\ ~(f.pc = "consuming" /\ g.pc = "consuming" /\ f.on = g.on)
    /\ ~(f.pc = "enrolling" /\ g.pc = "enrolling" /\ f.number = g.number)
    /\ ~(f.pc = "proving" /\ g.pc = "proving" /\ f.at = g.at)

Flights ==
    /\ \A r \in Request : Local(request[r])
    /\ \A r, q \in Request : r # q => Apart(request[r], request[q])

LinksUsed ==
    /\ \A s \in Session :
         session[s].link # None => session[s].link \in Link /\ link[session[s].link].state = "consumed"
    /\ LinkUsedOnce

Codes ==
    /\ ~again
    /\ generated >= 1
    /\ \A a \in Admin : admin[a].secret <= generated
    /\ \A a \in Admin, k \in 1..MaxSecret, n \in 1..MaxStep :
         <<a, k, n>> \in accepted => k <= generated /\ (k = admin[a].secret => n <= admin[a].last)

AInv == AdminTypeOK /\ Owned /\ Flights /\ LinksUsed /\ Codes /\ SuperadminRemains

LEMMA IdleType == Idle \in Flight /\ Idle.pc = "idle" /\ NoSession \in SessionRow /\ NoToken \in TokenRow
<1>1. 0 \in 0..(MaxStep + MaxSecret) BY AdminAssumption DEF AdminAssumption
<1> QED BY <1>1 DEF Idle, Flight, NoSession, SessionRow, NoToken, TokenRow

LEMMA AdminBegins == AdminInit => AInv
<1> SUFFICES ASSUME AdminInit PROVE AInv OBVIOUS
<1>0. Founder \in Admin /\ MaxStep \in Nat \ {0} /\ MaxSecret \in Nat \ {0} /\ None \notin Admin
  BY AdminAssumption DEF AdminAssumption
<1>1. /\ \A a \in Admin : admin[a] \in AdminRow /\ admin[a].secret <= 1 /\ admin[a].active /\ admin[a].super
      /\ admin[Founder].enrolled
      /\ admin \in [Admin -> AdminRow]
  <2> DEFINE row(a) == [active |-> TRUE, super |-> TRUE, enrolled |-> a = Founder \/ "enrol" \notin offered,
                        secret |-> IF a = Founder \/ "enrol" \notin offered THEN 1 ELSE 0, last |-> 0]
  <2>1. 0 \in 0..MaxSecret /\ 1 \in 0..MaxSecret /\ 0 \in 0..MaxStep BY <1>0
  <2>2. \A a \in Admin : row(a) \in AdminRow /\ row(a).secret <= 1 BY <2>1 DEF AdminRow
  <2>3. admin = [a \in Admin |-> row(a)] BY DEF AdminInit
  <2> QED BY <1>0, <2>2, <2>3
<1>2. /\ link \in [Link -> LinkRow]
      /\ \A l \in Link : link[l].state = "none"
  BY DEF AdminInit, LinkRow
<1>3. /\ session \in [Session -> SessionRow]
      /\ \A s \in Session : session[s].link = None /\ (session[s].state # "none" => session[s].owner \in Admin)
  <2>1. CASE "login" \in offered
    <3>1. session = [s \in Session |-> NoSession] BY <2>1 DEF AdminInit
    <3>2. NoSession.link = None /\ NoSession.state = "none" BY DEF NoSession
    <3> QED BY <3>1, <3>2, IdleType
  <2>2. CASE "login" \notin offered
    <3> DEFINE full(a) == [NoSession EXCEPT !.owner = a, !.state = "active"]
    <3>1. session \in [Session -> {full(a) : a \in Admin}]
      BY <2>2 DEF AdminInit
    <3>2. \A a \in Admin : full(a) \in SessionRow /\ full(a).owner = a /\ full(a).link = None
      BY DEF NoSession, SessionRow
    <3> HIDE DEF full
    <3>3. \A s \in Session : \E a \in Admin : session[s] = full(a)
      BY <3>1
    <3>4. \A s \in Session : session[s] \in SessionRow /\ session[s].owner \in Admin /\ session[s].link = None
      BY <3>2, <3>3
    <3>5. session = [s \in Session |-> session[s]] BY <3>1
    <3> QED BY <3>4, <3>5
  <2> QED BY <2>1, <2>2
<1>4. token \in [Token -> TokenRow] /\ \A t \in Token : token[t].state = "none"
  <2>1. token = [t \in Token |-> NoToken] /\ NoToken.state = "none" BY DEF AdminInit, NoToken
  <2> QED BY <2>1, IdleType
<1>5. request \in [Request -> Flight] /\ \A r \in Request : request[r].pc = "idle"
  BY IdleType DEF AdminInit
<1>6. AdminTypeOK
  <2>1. 1 \in 1..MaxStep /\ 1 \in 0..MaxSecret BY <1>0
  <2> QED BY <2>1, <1>1, <1>2, <1>3, <1>4, <1>5 DEF AdminInit, AdminTypeOK
<1>7. Owned BY <1>2, <1>3, <1>4 DEF Owned
<1>8. Flights BY <1>5 DEF Flights, Local, Apart, Decided
<1>9. LinksUsed BY <1>3 DEF LinksUsed, LinkUsedOnce
<1>10. Codes
  <2>1. ~again /\ generated = 1 /\ accepted = {} BY DEF AdminInit
  <2> QED BY <1>1, <2>1 DEF Codes
<1>11. SuperadminRemains BY <1>0, <1>1 DEF SuperadminRemains
<1> QED BY <1>6, <1>7, <1>8, <1>9, <1>10, <1>11 DEF AInv

LEMMA Bounds ==
    ASSUME AInv
    PROVE  /\ MaxStep \in Nat /\ MaxSecret \in Nat /\ generated \in Nat /\ generated <= MaxSecret
           /\ \A a \in Admin : admin[a].secret \in Nat /\ admin[a].last \in Nat
           /\ \A r \in Request : request[r].number \in Nat
<1>1. MaxStep \in Nat /\ MaxSecret \in Nat BY AdminAssumption DEF AdminAssumption
<1>2. \A a \in Admin : admin[a] \in AdminRow BY DEF AInv, AdminTypeOK
<1>3. \A r \in Request : request[r] \in Flight BY DEF AInv, AdminTypeOK
<1> QED BY <1>1, <1>2, <1>3 DEF AInv, AdminTypeOK, AdminRow, Flight

\* A request goes on to f, or ends.
LEMMA BecomeEffect ==
    ASSUME AdminTypeOK, NEW r \in Request, NEW f \in Flight, Become(r, f)
    PROVE  /\ request' \in [Request -> Flight] /\ request'[r] = f
           /\ \A q \in Request : q # r => request'[q] = request[q]
  BY DEF Become, AdminTypeOK

LEMMA IdleIsFree == Local(Idle) /\ \A g \in Flight : Apart(Idle, g) /\ Apart(g, Idle)
  BY IdleType DEF Local, Apart, Decided

\* Nothing changes but where a request stands.
LEMMA Moves ==
    ASSUME AInv, NEW r \in Request, NEW f \in Flight, Become(r, f),
           UNCHANGED <<admin, link, session, token, Aside>>, Local(f),
           \A q \in Request : q # r => Apart(f, request[q])
    PROVE  AInv'
<1>1. /\ request' \in [Request -> Flight] /\ request'[r] = f
      /\ \A q \in Request : q # r => request'[q] = request[q]
  BY BecomeEffect DEF AInv
<1>2. UNCHANGED <<admin, link, session, token, step, generated, accepted, again, resets, lateToken, offered>>
  BY DEF Aside
<1>3. AdminTypeOK' BY <1>1, <1>2 DEF AInv, AdminTypeOK
<1>4. \A q \in Request : Local(request[q])'
  <2>1. ASSUME NEW g, Local(g), g = f \/ \E q \in Request : g = request[q]
        PROVE  Local(g)'
    BY <1>2, <2>1 DEF Local, Unused, Decided, OthersRemain
  <2>2. ASSUME NEW q \in Request, q = r PROVE Local(request[q])'
    <3>1. Local(f)' BY <2>1
    <3> QED BY <1>1, <2>2, <3>1 DEF Local, Decided
  <2>3. ASSUME NEW q \in Request, q # r PROVE Local(request[q])'
    <3>1. Local(request[q]) BY DEF AInv, Flights
    <3> QED BY <1>1, <1>2, <2>3, <3>1 DEF Local, Unused, Decided, OthersRemain
  <2> QED BY <2>2, <2>3
<1>5. \A p, q \in Request : p # q => Apart(request'[p], request'[q])
  <2> SUFFICES ASSUME NEW p \in Request, NEW q \in Request, p # q PROVE Apart(request'[p], request'[q])
    OBVIOUS
  <2>1. CASE p = r BY <1>1, <2>1
  <2>2. CASE q = r BY <1>1, <2>2 DEF Apart
  <2>3. CASE p # r /\ q # r BY <1>1, <2>3 DEF AInv, Flights
  <2> QED BY <2>1, <2>2, <2>3
<1>6. Flights' BY <1>4, <1>5 DEF Flights, Apart
<1>7. Owned' /\ LinksUsed' BY <1>2 DEF AInv, Owned, LinksUsed, LinkUsedOnce
<1>8. Codes' /\ SuperadminRemains' BY <1>2 DEF AInv, Codes, SuperadminRemains
<1> QED BY <1>3, <1>6, <1>7, <1>8 DEF AInv

LEMMA ConsumeKeeps ==
    ASSUME AInv, NEW r \in Request, NEW l \in Link, Consume(r, l) PROVE AInv'
<1> DEFINE f == [Idle EXCEPT !.pc = "consuming", !.by = link[l].owner, !.on = l]
<1>1. link[l].state = "sent" /\ link[l].owner \in Admin
  BY DEF Consume, TakeLink, AInv, Owned
<1>2. f \in Flight /\ f.pc = "consuming" /\ f.by = link[l].owner /\ f.on = l
  BY <1>1, IdleType DEF Idle, Flight
<1>3. Become(r, f) /\ UNCHANGED <<admin, link, session, token, Aside>>
      /\ \A q \in Request : ~(request[q].pc = "consuming" /\ request[q].on = l)
  BY DEF Consume, TakeLink, At
<1> HIDE DEF f
<1>4. Local(f) BY <1>1, <1>2 DEF Local, Decided
<1>5. \A q \in Request : q # r => Apart(f, request[q]) BY <1>2, <1>3 DEF Apart
<1> QED BY <1>2, <1>3, <1>4, <1>5, Moves

LEMMA LoadKeeps ==
    ASSUME AInv, NEW r \in Request, NEW s \in Session, LoadSession(r, s) PROVE AInv'
<1> DEFINE f == [Idle EXCEPT !.pc = "checking", !.by = session[s].owner, !.on = s,
                             !.pending = session[s].state = "pending_mfa"]
<1>1. session[s].state # "none" /\ session[s].owner \in Admin
  BY DEF LoadSession, Valid, AInv, Owned
<1>2. f \in Flight /\ f.pc = "checking" /\ f.by = session[s].owner /\ f.on = s
  BY <1>1, IdleType DEF Idle, Flight
<1>3. Become(r, f) /\ UNCHANGED <<admin, link, session, token, Aside>> BY DEF LoadSession
<1> HIDE DEF f
<1>4. Local(f) BY <1>1, <1>2 DEF Local, Decided
<1>5. \A q \in Request : q # r => Apart(f, request[q]) BY <1>2 DEF Apart
<1> QED BY <1>2, <1>3, <1>4, <1>5, Moves

LEMMA ProveKeeps ==
    ASSUME AInv, NEW r \in Request, Prove(r) PROVE AInv'
<1> DEFINE a == request[r].by
<1>1. PICK n \in Near : n > admin[a].last /\ Become(r, [request[r] EXCEPT !.pc = "proving", !.at = a, !.number = n])
  BY DEF Prove, MatchCode
<1> DEFINE f == [request[r] EXCEPT !.pc = "proving", !.at = a, !.number = n]
<1>2. /\ request[r].pc = "checking" /\ admin[a].secret # 0 /\ ~RowLocked(a)
      /\ UNCHANGED <<admin, link, session, token, Aside>>
  BY DEF Prove, MatchCode, At
<1>3. a \in Admin /\ request[r].on \in Session /\ session[request[r].on].state # "none" /\ request[r] \in Flight
  BY <1>2 DEF AInv, Flights, Local, AdminTypeOK
<1>4. n \in 1..MaxStep /\ n \in 0..(MaxStep + MaxSecret) BY Bounds DEF Near
<1>5. f \in Flight /\ f.pc = "proving" /\ f.by = a /\ f.at = a /\ f.number = n /\ f.on = request[r].on
  BY <1>3, <1>4 DEF Flight
<1> HIDE DEF f
<1>6. Local(f) BY <1>1, <1>2, <1>3, <1>4, <1>5 DEF Local, Decided
<1>7. \A q \in Request : q # r => Apart(f, request[q]) BY <1>2, <1>5 DEF Apart, RowLocked
<1>8. Become(r, f) BY <1>1 DEF f
<1> QED BY <1>2, <1>5, <1>6, <1>7, <1>8, Moves

LEMMA RefuseKeeps ==
    ASSUME AInv, NEW r \in Request, Refuse(r) PROVE AInv'
<1>1. \A q \in Request : q # r => Apart(Idle, request[q])
  BY IdleIsFree DEF AInv, AdminTypeOK
<1> QED BY <1>1, IdleIsFree, IdleType, Moves DEF Refuse, End

LEMMA BeginKeeps ==
    ASSUME AInv, NEW r \in Request, NEW s \in Session, BeginManaging(r, s) \/ BeginToken(r, s) PROVE AInv'
<1>1. PICK pc \in {"acting", "minting"} : Become(r, [Idle EXCEPT !.pc = pc, !.by = session[s].owner])
  BY DEF BeginManaging, BeginToken
<1> DEFINE f == [Idle EXCEPT !.pc = pc, !.by = session[s].owner]
<1>2. session[s].owner \in Admin /\ UNCHANGED <<admin, link, session, token, Aside>>
  BY DEF BeginManaging, BeginToken, SignedIn, Valid, AInv, Owned
<1>3. f \in Flight /\ f.pc = pc /\ f.by = session[s].owner BY <1>2, IdleType DEF Idle, Flight
<1>4. Become(r, f) BY <1>1
<1> HIDE DEF f
<1>5. Local(f) BY <1>2, <1>3 DEF Local, Decided
<1>6. \A q \in Request : q # r => Apart(f, request[q]) BY <1>3 DEF Apart
<1> QED BY <1>2, <1>3, <1>4, <1>5, <1>6, Moves

LEMMA RotationKeeps ==
    ASSUME AInv, NEW r \in Request, NEW s \in Session, NEW t \in Token, BeginRotation(r, s, t) PROVE AInv'
<1> DEFINE f == [Idle EXCEPT !.pc = "rotating", !.by = token[t].owner, !.on = t]
<1>1. token[t].owner \in Admin /\ token[t].state # "none" /\ Become(r, f) /\ UNCHANGED <<admin, link, session, token, Aside>>
  BY DEF BeginRotation, TakeToken, AInv, Owned
<1>2. f \in Flight /\ f.pc = "rotating" /\ f.by = token[t].owner /\ f.on = t BY <1>1, IdleType DEF Idle, Flight
<1> HIDE DEF f
<1>3. Local(f) BY <1>1, <1>2 DEF Local, Decided
<1>4. \A q \in Request : q # r => Apart(f, request[q]) BY <1>2 DEF Apart
<1> QED BY <1>1, <1>2, <1>3, <1>4, Moves

LEMMA CountKeeps ==
    ASSUME AInv, NEW r \in Request, NEW a \in Admin, NEW what \in {"demote", "promote", "disable", "enable"},
           Count(r, a, what)
    PROVE  AInv'
<1> DEFINE f == [request[r] EXCEPT !.pc = "counted", !.at = a, !.what = what]
<1>1. /\ request[r].pc = "acting" /\ Become(r, f) /\ UNCHANGED <<admin, link, session, token, Aside>>
      /\ what \in {"demote", "disable"} => OthersRemain(a)
      /\ \A q \in Request : request[q].pc \notin {"counted", "swept"}
  BY DEF Count, DecideChange, At
<1>2. request[r].by \in Admin /\ request[r] \in Flight BY <1>1 DEF AInv, Flights, Local, AdminTypeOK
<1>3. f \in Flight /\ f.pc = "counted" /\ f.by = request[r].by /\ f.at = a /\ f.what = what
  BY <1>2 DEF Flight
<1> HIDE DEF f
<1>4. Local(f) BY <1>1, <1>2, <1>3 DEF Local, Decided
<1>5. \A q \in Request : q # r => Apart(f, request[q]) BY <1>1, <1>3 DEF Apart
<1> QED BY <1>1, <1>3, <1>4, <1>5, Moves

LEMMA SweepKeeps ==
    ASSUME AInv, NEW r \in Request, Sweep(r) PROVE AInv'
<1> DEFINE S == {s \in Session : session[s].owner = request[r].at /\ ~session[s].revoked}
           T == {t \in Token : token[t].owner = request[r].at /\ token[t].state = "live"}
           f == [request[r] EXCEPT !.pc = "swept", !.sessions = S, !.tokens = T]
<1>1. /\ request[r].pc = "counted" /\ request[r].what = "disable" /\ Become(r, f)
      /\ UNCHANGED <<admin, link, session, token, Aside>>
  BY DEF Sweep, At
<1>2. /\ request[r].by \in Admin /\ request[r].at \in Admin /\ request[r] \in Flight
      /\ resets = {} => OthersRemain(request[r].at)
      /\ \A q \in Request : q # r => request[q].pc \notin {"counted", "swept"}
  BY <1>1 DEF AInv, Flights, Local, Apart, Decided, AdminTypeOK
<1>3. S \subseteq Session /\ T \subseteq Token /\ \A t \in T : token[t].state # "none" OBVIOUS
<1> HIDE DEF S, T
<1>4. f \in Flight /\ f.pc = "swept" /\ f.by = request[r].by /\ f.at = request[r].at /\ f.tokens = T
  BY <1>2, <1>3 DEF Flight
<1> HIDE DEF f
<1>5. Local(f) BY <1>2, <1>3, <1>4 DEF Local, Decided
<1>6. \A q \in Request : q # r => Apart(f, request[q]) BY <1>2, <1>4 DEF Apart
<1> QED BY <1>1, <1>4, <1>5, <1>6, Moves

\* A request ends, or none moves: what is left to show is that the others' facts survive
\* what the step has written.
LEMMA EndsKeep ==
    ASSUME AInv, (\E r \in Request : End(r)) \/ UNCHANGED request,
           \A q \in Request : request'[q] = request[q] => Local(request[q])'
    PROVE  request' \in [Request -> Flight] /\ Flights'
<1>1. CASE UNCHANGED request
  <2>1. \A q \in Request : Local(request[q])' BY <1>1
  <2>2. \A p, q \in Request : p # q => Apart(request'[p], request'[q]) BY <1>1 DEF AInv, Flights
  <2> QED BY <1>1, <2>1, <2>2 DEF AInv, AdminTypeOK, Flights, Apart
<1>2. ASSUME NEW r \in Request, End(r) PROVE request' \in [Request -> Flight] /\ Flights'
  <2>1. /\ request' \in [Request -> Flight] /\ request'[r] = Idle
        /\ \A q \in Request : q # r => request'[q] = request[q]
    BY <1>2, BecomeEffect, IdleType DEF AInv, End
  <2>2. \A q \in Request : Local(request[q])'
    <3>1. Local(request[r])' BY <2>1, IdleType DEF Local, Decided
    <3> QED BY <2>1, <3>1
  <2>3. \A p, q \in Request : p # q => Apart(request'[p], request'[q])
    <3>1. \A q \in Request : request[q] \in Flight BY DEF AInv, AdminTypeOK
    <3>2. \A q \in Request : q # r => Apart(request'[r], request'[q]) /\ Apart(request'[q], request'[r])
      BY <2>1, <3>1, IdleIsFree
    <3>3. \A p, q \in Request : p # q /\ p # r /\ q # r => Apart(request'[p], request'[q])
      BY <2>1 DEF AInv, Flights
    <3> QED BY <3>2, <3>3
  <2> QED BY <2>1, <2>2, <2>3 DEF Flights, Apart
<1> QED BY <1>1, <1>2

LEMMA RequestLoginKeeps ==
    ASSUME AInv, NEW l \in Link, NEW a \in Admin, RequestLogin(l, a) PROVE AInv'
<1>1. /\ link[l].state = "none" /\ link' = [link EXCEPT ![l] = [owner |-> a, state |-> "sent"]]
      /\ UNCHANGED <<admin, session, token, request, step, generated, accepted, again, resets, lateToken, offered>>
  BY DEF RequestLogin, Aside
<1>2. link' \in [Link -> LinkRow] /\ link'[l].owner = a /\ \A k \in Link : k # l => link'[k] = link[k]
  BY <1>1 DEF AInv, AdminTypeOK, LinkRow
<1>3. AdminTypeOK' BY <1>1, <1>2 DEF AInv, AdminTypeOK
<1>4. ASSUME NEW q \in Request PROVE Local(request[q])'
  <2>1. Local(request[q]) BY DEF AInv, Flights
  <2>2. request[q].pc = "consuming" => link'[request[q].on].state = "sent" BY <1>1, <1>2, <2>1 DEF Local
  <2> QED BY <1>1, <2>1, <2>2 DEF Local, Unused, Decided, OthersRemain
<1>5. Flights' BY <1>1, <1>4, EndsKeep
<1>6. Owned' BY <1>1, <1>2 DEF AInv, Owned
<1>7. LinksUsed' BY <1>1, <1>2 DEF AInv, LinksUsed, LinkUsedOnce
<1>8. Codes' /\ SuperadminRemains' BY <1>1 DEF AInv, Codes, SuperadminRemains
<1> QED BY <1>3, <1>5, <1>6, <1>7, <1>8 DEF AInv

LEMMA OpenKeeps ==
    ASSUME AInv, NEW r \in Request, NEW s \in Session, OpenSession(r, s) PROVE AInv'
<1> DEFINE l == request[r].on
           x == [NoSession EXCEPT !.owner = request[r].by, !.state = "pending_mfa", !.link = l]
<1>1. /\ request[r].pc = "consuming" /\ session[s].state = "none" /\ End(r)
      /\ link' = [link EXCEPT ![l].state = "consumed"] /\ session' = [session EXCEPT ![s] = x]
      /\ UNCHANGED <<admin, token, step, generated, accepted, again, resets, lateToken, offered>>
  BY DEF OpenSession, At, Aside
<1>2. /\ l \in Link /\ link[l].state = "sent" /\ request[r].by \in Admin
      /\ \A q \in Request : q # r /\ request[q].pc = "consuming" => request[q].on # l
  BY <1>1 DEF AInv, Flights, Local, Apart
<1>3. x \in SessionRow /\ x.owner \in Admin /\ x.state = "pending_mfa" /\ x.link = l
  BY <1>2, IdleType DEF NoSession, SessionRow
<1> HIDE DEF x
<1>4. /\ session' \in [Session -> SessionRow] /\ session'[s] = x
      /\ \A q \in Session : q # s => session'[q] = session[q]
  BY <1>1, <1>3 DEF AInv, AdminTypeOK
<1>5. [link[l] EXCEPT !.state = "consumed"] \in LinkRow BY <1>2 DEF AInv, AdminTypeOK, LinkRow
<1>6. /\ link' \in [Link -> LinkRow] /\ link'[l] = [link[l] EXCEPT !.state = "consumed"]
      /\ \A k \in Link : k # l => link'[k] = link[k]
  BY <1>1, <1>2, <1>5 DEF AInv, AdminTypeOK
<1>7. link'[l].state = "consumed" /\ link'[l].owner = link[l].owner
  BY <1>2, <1>6 DEF AInv, AdminTypeOK, LinkRow
<1>8. ASSUME NEW q \in Request, request'[q] = request[q] PROVE Local(request[q])'
  <2>0. q # r
    <3>1. request'[r] = Idle BY <1>1, BecomeEffect, IdleType DEF End, AInv
    <3> QED BY <1>1, <1>8, <3>1, IdleType
  <2>1. Local(request[q]) BY DEF AInv, Flights
  <2>2. request[q].pc = "consuming" => link'[request[q].on].state = "sent"
    BY <1>2, <1>6, <2>0, <2>1 DEF Local
  <2>3. request[q].pc \in {"checking", "proving"} => session'[request[q].on].state # "none"
    BY <1>3, <1>4, <2>1 DEF Local
  <2> QED BY <1>1, <1>8, <2>1, <2>2, <2>3 DEF Local, Unused, Decided, OthersRemain
<1>9. request' \in [Request -> Flight] /\ Flights' BY <1>1, <1>8, EndsKeep
<1>10. AdminTypeOK' BY <1>1, <1>4, <1>6, <1>9 DEF AInv, AdminTypeOK
<1>11. Owned' BY <1>1, <1>2, <1>3, <1>4, <1>6, <1>7 DEF AInv, Owned
<1>12. LinksUsed'
  <2>1. \A q \in Session : q # s => session[q].link # l
    <3>1. l # None BY <1>2, AdminAssumption DEF AdminAssumption
    <3> QED BY <1>2, <3>1 DEF AInv, LinksUsed
  <2>2. \A q \in Session : session[q].link # None =>
          session[q].link \in Link /\ link[session[q].link].state = "consumed"
    BY DEF AInv, LinksUsed
  <2>3. \A q \in Session : session'[q].link # None =>
          session'[q].link \in Link /\ link'[session'[q].link].state = "consumed"
    <3>1. ASSUME NEW q \in Session, q # s, session'[q].link # None
          PROVE  session'[q].link \in Link /\ link'[session'[q].link].state = "consumed"
      BY <1>4, <1>6, <2>1, <2>2, <3>1
    <3> QED BY <1>2, <1>3, <1>4, <1>7, <3>1
  <2>4. LinkUsedOnce'
    <3>1. \A p, q \in Session : session[p].link = session[q].link /\ session[p].link # None => p = q
      BY DEF AInv, LinksUsed, LinkUsedOnce
    <3> QED BY <1>3, <1>4, <2>1, <3>1 DEF LinkUsedOnce
  <2> QED BY <2>3, <2>4 DEF LinksUsed
<1>13. Codes' /\ SuperadminRemains' BY <1>1 DEF AInv, Codes, SuperadminRemains
<1> QED BY <1>9, <1>10, <1>11, <1>12, <1>13 DEF AInv

SessionsStay == \A s \in Session : /\ session'[s].owner = session[s].owner
                                   /\ session'[s].link = session[s].link
                                   /\ session'[s].state # "none" <=> session[s].state # "none"

TokensStay == \A t \in Token : /\ token'[t].state # "none" => token'[t].owner \in Admin
                               /\ token[t].state # "none" => token'[t].state # "none"

\* Steps that write neither administrators nor links, and undo no session.
LEMMA AsideKeeps ==
    ASSUME AInv, (\E r \in Request : End(r)) \/ UNCHANGED request,
           UNCHANGED <<admin, link, generated, accepted, again, resets, offered>>,
           session' \in [Session -> SessionRow], token' \in [Token -> TokenRow],
           SessionsStay, TokensStay,
           step' \in 1..MaxStep, lateToken' \subseteq Token
    PROVE  AInv'
<1>1. ASSUME NEW q \in Request, request'[q] = request[q] PROVE Local(request[q])'
  <2>1. Local(request[q]) BY DEF AInv, Flights
  <2>2. request[q].pc = "swept" => \A t \in request[q].tokens : t \in Token /\ token'[t].state # "none"
    <3>1. request[q].tokens \subseteq Token BY DEF AInv, AdminTypeOK, Flight
    <3> QED BY <2>1, <3>1 DEF Local, TokensStay
  <2> QED BY <1>1, <2>1, <2>2 DEF SessionsStay, TokensStay, Local, Unused, Decided, OthersRemain
<1>2. request' \in [Request -> Flight] /\ Flights' BY <1>1, EndsKeep
<1>3. AdminTypeOK' BY <1>2 DEF AInv, AdminTypeOK
<1>4. Owned' /\ LinksUsed' BY DEF SessionsStay, TokensStay, AInv, Owned, LinksUsed, LinkUsedOnce
<1>5. Codes' /\ SuperadminRemains' BY DEF AInv, Codes, SuperadminRemains
<1> QED BY <1>2, <1>3, <1>4, <1>5 DEF AInv

LEMMA LogoutKeeps == ASSUME AInv, NEW s \in Session, Logout(s) PROVE AInv'
<1> DEFINE x == [session[s] EXCEPT !.revoked = TRUE]
<1>1. session' = [session EXCEPT ![s] = x]
      /\ UNCHANGED <<admin, link, token, request, step, generated, accepted, again, resets, lateToken, offered>>
  BY DEF Logout, Aside
<1>2. x \in SessionRow /\ x.owner = session[s].owner /\ x.link = session[s].link /\ x.state = session[s].state
  BY DEF AInv, AdminTypeOK, SessionRow
<1> HIDE DEF x
<1>3. session' \in [Session -> SessionRow] /\ session'[s] = x /\ \A q \in Session : q # s => session'[q] = session[q]
  BY <1>1, <1>2 DEF AInv, AdminTypeOK
<1>4. token' \in [Token -> TokenRow] /\ step' \in 1..MaxStep /\ lateToken' \subseteq Token /\ TokensStay
  BY <1>1 DEF AInv, AdminTypeOK, Owned, TokensStay
<1>5. SessionsStay BY <1>2, <1>3 DEF SessionsStay
<1> QED BY <1>1, <1>3, <1>4, <1>5, AsideKeeps

LEMMA NextStepKeeps == ASSUME AInv, NextStep PROVE AInv'
<1>1. step' = step + 1 /\ step < MaxStep
      /\ UNCHANGED <<admin, link, session, token, request, generated, accepted, again, resets, lateToken, offered>>
  BY DEF NextStep
<1>2. step' \in 1..MaxStep BY <1>1, Bounds DEF AInv, AdminTypeOK
<1>3. session' \in [Session -> SessionRow] /\ token' \in [Token -> TokenRow] /\ lateToken' \subseteq Token
      /\ TokensStay /\ SessionsStay
  BY <1>1 DEF AInv, AdminTypeOK, Owned, TokensStay, SessionsStay
<1> QED BY <1>1, <1>2, <1>3, AsideKeeps

LEMMA TokenKeeps ==
    ASSUME AInv, NEW t \in Token,
           RevokeToken(t) \/ \E r \in Request : InsertToken(r, t) \/ Rotate(r, t)
    PROVE  AInv'
<1>0. \A u \in Token : token[u] \in TokenRow /\ (token[u].state # "none" => token[u].owner \in Admin)
  BY DEF AInv, AdminTypeOK, Owned
<1>1. CASE RevokeToken(t)
  <2> DEFINE x == [token[t] EXCEPT !.state = "revoked"]
  <2>1. token' = [token EXCEPT ![t] = x] /\ token[t].state = "live"
        /\ UNCHANGED <<admin, link, session, request, step, generated, accepted, again, resets, lateToken, offered>>
    BY <1>1 DEF RevokeToken, Aside
  <2>2. x \in TokenRow /\ x.owner \in Admin /\ x.state = "revoked" BY <1>0, <2>1 DEF TokenRow
  <2> HIDE DEF x
  <2>3. token' \in [Token -> TokenRow] /\ TokensStay
    BY <1>0, <2>1, <2>2 DEF AInv, AdminTypeOK, TokensStay
  <2>4. session' \in [Session -> SessionRow] /\ step' \in 1..MaxStep /\ lateToken' \subseteq Token /\ SessionsStay
    BY <2>1 DEF AInv, AdminTypeOK, SessionsStay
  <2> QED BY <2>1, <2>3, <2>4, AsideKeeps
<1>2. ASSUME NEW r \in Request, InsertToken(r, t) PROVE AInv'
  <2> DEFINE x == [owner |-> request[r].by, state |-> "live", line |-> t]
  <2>1. /\ token' = [token EXCEPT ![t] = x] /\ End(r) /\ request[r].pc = "minting"
        /\ UNCHANGED <<admin, link, session, step, generated, accepted, again, resets, offered>>
        /\ lateToken' = lateToken \cup {t} \/ lateToken' = lateToken
    BY <1>2 DEF InsertToken, At
  <2>2. x \in TokenRow /\ x.owner \in Admin /\ x.state = "live" BY <2>1 DEF TokenRow, AInv, Flights, Local
  <2> HIDE DEF x
  <2>3. token' \in [Token -> TokenRow] /\ TokensStay
    BY <1>0, <2>1, <2>2 DEF AInv, AdminTypeOK, TokensStay
  <2>4. session' \in [Session -> SessionRow] /\ step' \in 1..MaxStep /\ lateToken' \subseteq Token /\ SessionsStay
    BY <2>1 DEF AInv, AdminTypeOK, SessionsStay
  <2> QED BY <2>1, <2>3, <2>4, AsideKeeps
<1>3. ASSUME NEW r \in Request, Rotate(r, t) PROVE AInv'
  <2> DEFINE o == request[r].on
             x == [token[t] EXCEPT !.owner = request[r].by, !.state = "live", !.line = token[o].line]
             first == [token EXCEPT ![t] = x]
             y == [first[o] EXCEPT !.state = "revoked"]
  <2>1. /\ token' = [first EXCEPT ![o] = y] /\ End(r) /\ request[r].pc = "rotating"
        /\ UNCHANGED <<admin, link, session, step, generated, accepted, again, resets, offered>>
        /\ lateToken' = lateToken \cup {t} \/ lateToken' = lateToken
    BY <1>3 DEF Rotate, At
  <2>2. o \in Token /\ token[o].state # "none" /\ request[r].by \in Admin BY <2>1 DEF AInv, Flights, Local
  <2>3. x \in TokenRow /\ x.owner \in Admin /\ x.state = "live" BY <1>0, <2>2 DEF TokenRow
  <2> HIDE DEF x
  <2>4. first \in [Token -> TokenRow] /\ first[t] = x /\ \A u \in Token : u # t => first[u] = token[u]
    BY <2>3 DEF AInv, AdminTypeOK
  <2> HIDE DEF first
  <2>5. y \in TokenRow /\ y.owner = first[o].owner /\ y.state = "revoked" BY <2>2, <2>4 DEF TokenRow
  <2>6. y.owner \in Admin BY <1>0, <2>2, <2>3, <2>4, <2>5
  <2>10. token' = [first EXCEPT ![o] = y] BY <2>1 DEF first
  <2> HIDE DEF y
  <2>7. /\ token' \in [Token -> TokenRow] /\ token'[o] = y
        /\ \A u \in Token : u # o => token'[u] = first[u]
    BY <2>2, <2>4, <2>5, <2>10
  <2>8. TokensStay
    <3>1. ASSUME NEW u \in Token, u # o, u # t PROVE token'[u] = token[u] BY <2>4, <2>7, <3>1
    <3>2. t # o => token'[t] = x BY <2>4, <2>7
    <3> QED BY <1>0, <2>2, <2>3, <2>5, <2>6, <2>7, <3>1, <3>2 DEF TokensStay
  <2>9. session' \in [Session -> SessionRow] /\ step' \in 1..MaxStep /\ lateToken' \subseteq Token /\ SessionsStay
    BY <2>1 DEF AInv, AdminTypeOK, SessionsStay
  <2> QED BY <2>1, <2>7, <2>8, <2>9, AsideKeeps
<1> QED BY <1>1, <1>2, <1>3

LEMMA EnrolmentKeeps ==
    ASSUME AInv, NEW r \in Request, NEW s \in Session, BeginEnrolment(r, s) PROVE AInv'
<1> DEFINE n == generated + 1
           f == [Idle EXCEPT !.pc = "enrolling", !.by = session[s].owner, !.number = n]
<1>1. /\ generated < MaxSecret /\ generated' = n /\ Become(r, f) /\ session[s].state # "none"
      /\ UNCHANGED <<admin, link, session, token, step, accepted, again, resets, lateToken, offered>>
  BY DEF BeginEnrolment, Valid
<1>2. /\ n \in 0..MaxSecret /\ n \in 0..(MaxStep + MaxSecret) /\ n \in 2..n
      /\ session[s].owner \in Admin /\ generated \in Nat
  BY <1>1, Bounds DEF AInv, Owned, Codes
<1>3. f \in Flight /\ f.pc = "enrolling" /\ f.by = session[s].owner /\ f.number = n
  BY <1>2, IdleType DEF Idle, Flight
<1> HIDE DEF f
<1>4. /\ request' \in [Request -> Flight] /\ request'[r] = f
      /\ \A q \in Request : q # r => request'[q] = request[q]
  BY <1>1, <1>3, BecomeEffect DEF AInv
<1>5. Unused(n)
  <2>1. \A a \in Admin : admin[a].secret # n BY <1>2, Bounds DEF AInv, Codes
  <2>2. ASSUME NEW a \in Admin, NEW c \in 1..MaxStep, <<a, n, c>> \in accepted PROVE FALSE
    <3>1. n \in 1..MaxSecret BY <1>2
    <3> QED BY <1>2, <2>2, <3>1 DEF AInv, Codes
  <2> QED BY <2>1, <2>2 DEF Unused
<1>6. Local(request[r])'
  <2>3. Unused(request[r].number)' BY <1>1, <1>3, <1>4, <1>5 DEF Unused
  <2> QED BY <1>1, <1>2, <1>3, <1>4, <2>3 DEF Local, Decided
<1>7. ASSUME NEW q \in Request, q # r PROVE Local(request[q])'
  <2>1. Local(request[q]) BY DEF AInv, Flights
  <2>2. request[q].pc = "enrolling" => request[q].number \in 2..n BY <1>2, <2>1 DEF Local
  <2> QED BY <1>1, <1>4, <1>7, <2>1, <2>2 DEF Local, Unused, Decided, OthersRemain
<1>8. \A p, q \in Request : p # q => Apart(request'[p], request'[q])
  <2>1. \A q \in Request : q # r => Apart(f, request[q]) /\ Apart(request[q], f)
    <3>1. ASSUME NEW q \in Request, request[q].pc = "enrolling" PROVE request[q].number # n
      BY <1>2, <3>1 DEF AInv, Flights, Local
    <3> QED BY <1>3, <3>1 DEF Apart
  <2> QED BY <1>4, <2>1 DEF AInv, Flights
<1>9. Flights' BY <1>6, <1>7, <1>8 DEF Flights, Apart
<1>10. AdminTypeOK' BY <1>1, <1>2, <1>4 DEF AInv, AdminTypeOK
<1>11. Owned' /\ LinksUsed' /\ SuperadminRemains'
  BY <1>1 DEF AInv, Owned, LinksUsed, LinkUsedOnce, SuperadminRemains
<1>12. Codes'
  <2>1. \A a \in Admin : admin[a].secret <= n BY <1>2, Bounds DEF AInv, Codes
  <2>2. \A k \in 1..MaxSecret : k <= generated => k <= n BY <1>2, Bounds
  <2> QED BY <1>1, <1>2, <2>1, <2>2 DEF AInv, Codes
<1> QED BY <1>9, <1>10, <1>11, <1>12 DEF AInv

\* A request that ends writes the row of one administrator.
LEMMA RowWritten ==
    ASSUME AInv, NEW r \in Request, End(r), NEW a \in Admin, NEW x \in AdminRow,
           admin' = [admin EXCEPT ![a] = x],
           UNCHANGED <<link, step, generated, lateToken, offered>>,
           session' \in [Session -> SessionRow], token' \in [Token -> TokenRow], SessionsStay, TokensStay,
           accepted' \subseteq Admin \X (1..MaxSecret) \X (1..MaxStep), again' \in BOOLEAN, resets' \subseteq Admin,
           Flights', Codes', SuperadminRemains'
    PROVE  AInv'
<1>1. request' \in [Request -> Flight] BY BecomeEffect, IdleType DEF End, AInv
<1>2. AdminTypeOK' BY <1>1 DEF AInv, AdminTypeOK
<1>3. Owned' /\ LinksUsed' BY DEF SessionsStay, TokensStay, AInv, Owned, LinksUsed, LinkUsedOnce
<1> QED BY <1>2, <1>3 DEF AInv

LEMMA Unswept ==
    ASSUME AInv, UNCHANGED <<session, token>>
    PROVE  session' \in [Session -> SessionRow] /\ token' \in [Token -> TokenRow] /\ SessionsStay /\ TokensStay
  BY DEF SessionsStay, TokensStay, AInv, AdminTypeOK, Owned

LEMMA StoreKeeps == ASSUME AInv, NEW r \in Request, StoreSecret(r) PROVE AInv'
<1> DEFINE a == request[r].by
           n == request[r].number
           x == [admin[a] EXCEPT !.secret = n]
<1>1. /\ request[r].pc = "enrolling" /\ ~RowLocked(a) /\ End(r)
      /\ admin' = IF admin[a].enrolled THEN admin ELSE [admin EXCEPT ![a].secret = n]
      /\ UNCHANGED <<link, session, token, step, generated, accepted, again, resets, lateToken, offered>>
  BY DEF StoreSecret, At, Aside
<1>2. a \in Admin /\ n \in 2..generated /\ Unused(n) /\ admin[a] \in AdminRow
  BY <1>1 DEF AInv, Flights, Local, AdminTypeOK
<1>3. session' \in [Session -> SessionRow] /\ token' \in [Token -> TokenRow] /\ SessionsStay /\ TokensStay
  BY <1>1, Unswept
<1>4. /\ step' \in 1..MaxStep /\ lateToken' \subseteq Token /\ again' \in BOOLEAN /\ resets' \subseteq Admin
      /\ accepted' \subseteq Admin \X (1..MaxSecret) \X (1..MaxStep)
  BY <1>1 DEF AInv, AdminTypeOK
<1>5. CASE admin' = admin BY <1>1, <1>3, <1>4, <1>5, AsideKeeps
<1>6. CASE admin' = [admin EXCEPT ![a] = x]
  <2>1. x \in AdminRow /\ x.secret = n /\ x.last = admin[a].last /\ x.active = admin[a].active
        /\ x.super = admin[a].super /\ x.enrolled = admin[a].enrolled
    BY <1>2, Bounds DEF AdminRow
  <2> HIDE DEF x
  <2>2. admin'[a] = x /\ \A b \in Admin : b # a => admin'[b] = admin[b]
    BY <1>2, <1>6 DEF AInv, AdminTypeOK
  <2>3. \A b \in Admin : /\ admin'[b].active = admin[b].active /\ admin'[b].super = admin[b].super
                         /\ admin'[b].enrolled = admin[b].enrolled /\ admin'[b].last = admin[b].last
    BY <2>1, <2>2
  <2>4. ASSUME NEW q \in Request, request'[q] = request[q] PROVE Local(request[q])'
    <3>0. q # r
      <4>1. request'[r] = Idle BY <1>1, BecomeEffect, IdleType DEF End, AInv
      <4> QED BY <1>1, <2>4, <4>1, IdleType
    <3>1. Local(request[q]) BY DEF AInv, Flights
    <3>2. request[q].pc = "enrolling" => \A b \in Admin : admin'[b].secret # request[q].number
      <4>1. request[q].pc = "enrolling" => request[q].number # n BY <1>1, <3>0 DEF AInv, Flights, Apart
      <4> QED BY <2>1, <2>2, <3>1, <4>1 DEF Local, Unused
    <3>3. request[q].pc = "proving" => request[q].by # a
      BY <1>1, <3>1 DEF RowLocked, Local
    <3>4. request[q].pc = "proving" => admin'[request[q].by] = admin[request[q].by]
      BY <2>2, <3>1, <3>3 DEF Local
    <3>5. OthersRemain(request[q].at) => \E b \in Admin \ {request[q].at} : admin'[b].active /\ admin'[b].super /\ admin'[b].enrolled
      BY <2>3 DEF OthersRemain
    <3> QED BY <1>1, <2>4, <3>1, <3>2, <3>4, <3>5 DEF Local, Unused, Decided, OthersRemain
  <2>5. Flights' BY <1>1, <2>4, EndsKeep
  <2>6. Codes'
    <3>1. \A b \in Admin : admin'[b].secret <= generated BY <1>2, <2>1, <2>2, Bounds DEF AInv, Codes
    <3>2. ASSUME NEW b \in Admin, NEW k \in 1..MaxSecret, NEW c \in 1..MaxStep, <<b, k, c>> \in accepted
          PROVE  k <= generated /\ (k = admin'[b].secret => c <= admin'[b].last)
      <4>1. k # n BY <1>2, <3>2 DEF Unused
      <4> QED BY <2>1, <2>2, <2>3, <3>2, <4>1 DEF AInv, Codes
    <3> QED BY <1>1, <3>1, <3>2 DEF AInv, Codes
  <2>7. SuperadminRemains' BY <1>1, <2>3 DEF AInv, SuperadminRemains
  <2> QED BY <1>1, <1>2, <1>3, <1>4, <1>6, <2>1, <2>5, <2>6, <2>7, RowWritten
<1> QED BY <1>1, <1>5, <1>6

LEMMA CommitKeeps == ASSUME AInv, NEW r \in Request, CommitProof(r) PROVE AInv'
<1> DEFINE a == request[r].by
           k == admin[a].secret
           n == request[r].number
           s == request[r].on
           x == [admin[a] EXCEPT !.last = n, !.enrolled = TRUE]
           y == [session[s] EXCEPT !.state = "active"]
<1>1. /\ request[r].pc = "proving" /\ End(r)
      /\ admin' = [admin EXCEPT ![a] = x]
      /\ session' = [session EXCEPT ![s] = y] \/ session' = session
      /\ accepted' = accepted \cup {<<a, k, n>>}
      /\ again' = (again \/ <<a, k, n>> \in accepted)
      /\ UNCHANGED <<link, token, step, generated, resets, lateToken, offered>>
  BY DEF CommitProof, At
<1>2. /\ a \in Admin /\ request[r].at = a /\ n \in 1..MaxStep /\ k # 0 /\ n > admin[a].last
      /\ s \in Session /\ session[s].state # "none" /\ admin[a] \in AdminRow /\ session[s] \in SessionRow
  BY <1>1 DEF AInv, Flights, Local, AdminTypeOK
<1>3. k \in 1..MaxSecret /\ k <= generated /\ n \in 0..MaxStep
  BY <1>2, Bounds DEF AdminRow, AInv, Codes
<1>4. x \in AdminRow /\ x.secret = k /\ x.last = n /\ x.active = admin[a].active
      /\ x.super = admin[a].super /\ x.enrolled
  BY <1>2, <1>3 DEF AdminRow
<1>5. y \in SessionRow /\ y.owner = session[s].owner /\ y.link = session[s].link /\ y.state = "active"
  BY <1>2 DEF SessionRow
<1> HIDE DEF x, y
<1>6. admin'[a] = x /\ \A b \in Admin : b # a => admin'[b] = admin[b]
  BY <1>1, <1>2 DEF AInv, AdminTypeOK
<1>7. \A b \in Admin : /\ admin'[b].active = admin[b].active /\ admin'[b].super = admin[b].super
                       /\ admin[b].enrolled => admin'[b].enrolled
                       /\ admin'[b].secret = admin[b].secret
  BY <1>4, <1>6
<1>8. session' \in [Session -> SessionRow] /\ SessionsStay
  BY <1>1, <1>2, <1>5 DEF SessionsStay, AInv, AdminTypeOK
<1>9. token' \in [Token -> TokenRow] /\ TokensStay BY <1>1 DEF TokensStay, AInv, AdminTypeOK, Owned
<1>10. ASSUME NEW q \in Request, request'[q] = request[q] PROVE Local(request[q])'
  <2>0. q # r
    <3>1. request'[r] = Idle BY <1>1, BecomeEffect, IdleType DEF End, AInv
    <3> QED BY <1>1, <1>10, <3>1, IdleType
  <2>1. Local(request[q]) BY DEF AInv, Flights
  <2>2. request[q].pc = "enrolling" => Unused(request[q].number) /\ request[q].number # k
    BY <1>2, <2>1 DEF Local, Unused
  <2>3. request[q].pc = "enrolling" =>
          /\ \A b \in Admin : admin'[b].secret # request[q].number
          /\ \A b \in Admin, c \in 1..MaxStep : <<b, request[q].number, c>> \notin accepted'
    BY <1>1, <1>7, <2>2 DEF Unused
  <2>4. request[q].pc = "proving" => request[q].by # a
    BY <1>1, <1>2, <2>0, <2>1 DEF AInv, Flights, Apart, Local
  <2>5. request[q].pc = "proving" => admin'[request[q].by] = admin[request[q].by]
    BY <1>6, <2>1, <2>4 DEF Local
  <2>6. OthersRemain(request[q].at) => \E b \in Admin \ {request[q].at} : admin'[b].active /\ admin'[b].super /\ admin'[b].enrolled
    BY <1>7 DEF OthersRemain
  <2>7. request[q].pc \in {"checking", "proving"} => request[q].on \in Session /\ session'[request[q].on].state # "none"
    BY <1>8, <2>1 DEF SessionsStay, Local
  <2> QED BY <1>1, <1>10, <2>1, <2>3, <2>5, <2>6, <2>7 DEF Local, Unused, Decided, OthersRemain
<1>11. Flights' BY <1>1, <1>10, EndsKeep
<1>12. <<a, k, n>> \notin accepted BY <1>2, <1>3, Bounds DEF AInv, Codes
<1>13. Codes'
  <2>1. ~again' BY <1>1, <1>12 DEF AInv, Codes
  <2>2. \A b \in Admin : admin'[b].secret <= generated BY <1>7 DEF AInv, Codes
  <2>3. ASSUME NEW b \in Admin, NEW j \in 1..MaxSecret, NEW c \in 1..MaxStep, <<b, j, c>> \in accepted'
        PROVE  j <= generated /\ (j = admin'[b].secret => c <= admin'[b].last)
    <3>1. CASE <<b, j, c>> = <<a, k, n>> BY <1>3, <1>4, <1>6, <3>1
    <3>2. CASE <<b, j, c>> \in accepted
      <4>1. j <= generated /\ (j = admin[b].secret => c <= admin[b].last) BY <3>2 DEF AInv, Codes
      <4>2. CASE b # a BY <1>6, <4>1, <4>2
      <4>3. CASE b = a BY <1>2, <1>4, <1>6, <4>1, <4>3, Bounds
      <4> QED BY <4>2, <4>3
    <3> QED BY <1>1, <2>3, <3>1, <3>2
  <2> QED BY <1>1, <2>1, <2>2, <2>3 DEF AInv, Codes
<1>14. SuperadminRemains' BY <1>1, <1>7 DEF AInv, SuperadminRemains
<1>15. /\ accepted' \subseteq Admin \X (1..MaxSecret) \X (1..MaxStep) /\ again' \in BOOLEAN /\ resets' \subseteq Admin
  BY <1>1, <1>2, <1>3 DEF AInv, AdminTypeOK
<1> QED BY <1>1, <1>2, <1>4, <1>8, <1>9, <1>11, <1>13, <1>14, <1>15, RowWritten

\* A change of an administrator is written by the one request that has counted.
LEMMA ChangeWritten ==
    ASSUME AInv, NEW r \in Request, request[r].pc \in {"counted", "swept"}, End(r),
           NEW a \in Admin, NEW x \in AdminRow, admin' = [admin EXCEPT ![a] = x],
           x.secret = admin[a].secret, x.last = admin[a].last, x.enrolled = admin[a].enrolled,
           UNCHANGED <<link, step, generated, accepted, again, resets, lateToken, offered>>,
           session' \in [Session -> SessionRow], token' \in [Token -> TokenRow], SessionsStay, TokensStay,
           \/ x.active = admin[a].active /\ x.super
           \/ x.active /\ x.super = admin[a].super
           \/ resets = {} => OthersRemain(a)
    PROVE  AInv'
<1>1. admin'[a] = x /\ \A b \in Admin : b # a => admin'[b] = admin[b] BY DEF AInv, AdminTypeOK
<1>2. \A b \in Admin : admin'[b].secret = admin[b].secret /\ admin'[b].last = admin[b].last BY <1>1
<1>3. ASSUME NEW q \in Request, request'[q] = request[q] PROVE Local(request[q])'
  <2>0. q # r
    <3>1. request'[r] = Idle BY BecomeEffect, IdleType DEF End, AInv
    <3> QED BY <1>3, <3>1, IdleType
  <2>1. Local(request[q]) /\ ~Decided(request[q])
    BY <2>0 DEF AInv, Flights, Apart, Decided
  <2>2. Unused(request[q].number) => Unused(request[q].number)'
    BY <1>2, <1>3 DEF Unused
  <2>3. request[q].pc = "proving" =>
          /\ admin'[request[q].by].secret # 0 /\ request[q].number > admin'[request[q].by].last
    BY <1>2, <2>1 DEF Local
  <2> QED BY <1>3, <2>1, <2>2, <2>3 DEF Local, Decided, SessionsStay, TokensStay
<1>4. Flights' BY <1>3, EndsKeep
<1>5. Codes' BY <1>2 DEF AInv, Codes
<1>6. SuperadminRemains'
  <2>1. SUFFICES ASSUME resets = {} PROVE \E b \in Admin : admin'[b].active /\ admin'[b].super /\ admin'[b].enrolled
    BY DEF SuperadminRemains
  <2>2. CASE OthersRemain(a) BY <1>1, <2>2 DEF OthersRemain
  <2>3. CASE \/ x.active = admin[a].active /\ x.super
             \/ x.active /\ x.super = admin[a].super
    <3>1. PICK b \in Admin : admin[b].active /\ admin[b].super /\ admin[b].enrolled
      BY <2>1 DEF AInv, SuperadminRemains
    <3> QED BY <1>1, <2>3, <3>1
  <2> QED BY <2>1, <2>2, <2>3
<1>7. /\ accepted' \subseteq Admin \X (1..MaxSecret) \X (1..MaxStep) /\ again' \in BOOLEAN /\ resets' \subseteq Admin
  BY DEF AInv, AdminTypeOK
<1> QED BY <1>4, <1>5, <1>6, <1>7, RowWritten

LEMMA WriteKeeps == ASSUME AInv, NEW r \in Request, WriteChange(r) PROVE AInv'
<1> DEFINE a == request[r].at
<1>1. /\ request[r].pc = "counted" /\ End(r)
      /\ UNCHANGED <<link, session, token, step, generated, accepted, again, resets, lateToken, offered>>
  BY DEF WriteChange, At, Aside
<1>2. a \in Admin /\ admin[a] \in AdminRow /\ (request[r].what = "demote" /\ resets = {} => OthersRemain(a))
  BY <1>1 DEF AInv, Flights, Local, Decided, AdminTypeOK
<1>3. session' \in [Session -> SessionRow] /\ token' \in [Token -> TokenRow] /\ SessionsStay /\ TokensStay
  BY <1>1, Unswept
<1>4. CASE request[r].what \in {"demote", "promote"} /\ admin' = [admin EXCEPT ![a].super = request[r].what = "promote"]
  <2> DEFINE x == [admin[a] EXCEPT !.super = request[r].what = "promote"]
  <2>1. /\ x \in AdminRow /\ x.secret = admin[a].secret /\ x.last = admin[a].last
        /\ x.enrolled = admin[a].enrolled /\ x.active = admin[a].active
        /\ x.super = (request[r].what = "promote")
    BY <1>2 DEF AdminRow
  <2>2. admin' = [admin EXCEPT ![a] = x] BY <1>4
  <2> HIDE DEF x
  <2>3. x.super \/ (resets = {} => OthersRemain(a)) BY <1>2, <1>4, <2>1
  <2> QED BY <1>1, <1>2, <1>3, <2>1, <2>2, <2>3, ChangeWritten
<1>5. CASE admin' = [admin EXCEPT ![a].active = TRUE]
  <2> DEFINE x == [admin[a] EXCEPT !.active = TRUE]
  <2>1. /\ x \in AdminRow /\ x.secret = admin[a].secret /\ x.last = admin[a].last
        /\ x.enrolled = admin[a].enrolled /\ x.active /\ x.super = admin[a].super
    BY <1>2 DEF AdminRow
  <2>2. admin' = [admin EXCEPT ![a] = x] BY <1>5
  <2> HIDE DEF x
  <2> QED BY <1>1, <1>2, <1>3, <2>1, <2>2, ChangeWritten
<1> QED BY <1>4, <1>5 DEF WriteChange

\* What a disablement or a removed second factor revokes is a session or a token still.
LEMMA Revoked ==
    ASSUME AInv, NEW S, NEW T,
           session' = [s \in Session |-> IF s \in S THEN [session[s] EXCEPT !.revoked = TRUE] ELSE session[s]],
           token' = [t \in Token |-> IF t \in T THEN [token[t] EXCEPT !.state = "revoked"] ELSE token[t]],
           \A t \in T : token[t].state # "none"
    PROVE  session' \in [Session -> SessionRow] /\ token' \in [Token -> TokenRow] /\ SessionsStay /\ TokensStay
<1>1. \A s \in Session : LET x == [session[s] EXCEPT !.revoked = TRUE] IN
        session[s] \in SessionRow /\ x \in SessionRow /\ x.owner = session[s].owner
        /\ x.link = session[s].link /\ x.state = session[s].state
  BY DEF AInv, AdminTypeOK, SessionRow
<1>2. \A t \in Token : LET x == [token[t] EXCEPT !.state = "revoked"] IN
        token[t] \in TokenRow /\ x \in TokenRow /\ x.owner = token[t].owner /\ x.state = "revoked"
  BY DEF AInv, AdminTypeOK, TokenRow
<1>3. \A t \in Token : token[t].state # "none" => token[t].owner \in Admin BY DEF AInv, Owned
<1>4. session' \in [Session -> SessionRow] /\ SessionsStay BY <1>1 DEF SessionsStay
<1>5. token' \in [Token -> TokenRow] /\ TokensStay BY <1>2, <1>3 DEF TokensStay
<1> QED BY <1>4, <1>5

LEMMA DisableKeeps == ASSUME AInv, NEW r \in Request, Disable(r) PROVE AInv'
<1> DEFINE a == request[r].at
           x == [admin[a] EXCEPT !.active = FALSE]
<1>1. /\ request[r].pc = "swept" /\ End(r) /\ admin' = [admin EXCEPT ![a] = x]
      /\ session' = [s \in Session |-> IF s \in request[r].sessions THEN [session[s] EXCEPT !.revoked = TRUE] ELSE session[s]]
      /\ token' = [t \in Token |-> IF t \in request[r].tokens THEN [token[t] EXCEPT !.state = "revoked"] ELSE token[t]]
      /\ UNCHANGED <<link, step, generated, accepted, again, resets, lateToken, offered>>
  BY DEF Disable, At, Aside
<1>2. a \in Admin /\ admin[a] \in AdminRow /\ (resets = {} => OthersRemain(a))
      /\ \A t \in request[r].tokens : token[t].state # "none"
  BY <1>1 DEF AInv, Flights, Local, Decided, AdminTypeOK
<1>3. session' \in [Session -> SessionRow] /\ token' \in [Token -> TokenRow] /\ SessionsStay /\ TokensStay
  BY <1>1, <1>2, Revoked
<1>4. /\ x \in AdminRow /\ x.secret = admin[a].secret /\ x.last = admin[a].last /\ x.enrolled = admin[a].enrolled
  BY <1>2 DEF AdminRow
<1> HIDE DEF x
<1> QED BY <1>1, <1>2, <1>3, <1>4, ChangeWritten

LEMMA ResetKeeps == ASSUME AInv, NEW r \in Request, NEW a \in Admin, ResetTotp(r, a) PROVE AInv'
<1> DEFINE x == [admin[a] EXCEPT !.secret = 0, !.enrolled = FALSE, !.last = 0]
           S == {s \in Session : session[s].owner = a}
           T == {t \in Token : FALSE}
<1>1. /\ ~RowLocked(a) /\ End(r) /\ request[r].pc = "acting"
      /\ admin' = [admin EXCEPT ![a] = x] /\ resets' = resets \cup {a}
      /\ session' = [s \in Session |-> IF s \in S THEN [session[s] EXCEPT !.revoked = TRUE] ELSE session[s]]
      /\ UNCHANGED <<link, token, step, generated, accepted, again, lateToken, offered>>
  BY DEF ResetTotp, At
<1>2. admin[a] \in AdminRow /\ 0 \in 0..MaxSecret /\ 0 \in 0..MaxStep BY Bounds DEF AInv, AdminTypeOK
<1>3. x \in AdminRow /\ x.secret = 0 /\ x.last = 0 BY <1>2 DEF AdminRow
<1> HIDE DEF x
<1>4. admin'[a] = x /\ \A b \in Admin : b # a => admin'[b] = admin[b] BY <1>1 DEF AInv, AdminTypeOK
<1>5. /\ token' = [t \in Token |-> IF t \in T THEN [token[t] EXCEPT !.state = "revoked"] ELSE token[t]]
      /\ \A t \in T : token[t].state # "none"
  BY <1>1 DEF AInv, AdminTypeOK
<1> HIDE DEF S, T
<1>6. session' \in [Session -> SessionRow] /\ token' \in [Token -> TokenRow] /\ SessionsStay /\ TokensStay
  BY <1>1, <1>5, Revoked
<1>7. ASSUME NEW q \in Request, request'[q] = request[q] PROVE Local(request[q])'
  <2>1. Local(request[q]) BY DEF AInv, Flights
  <2>2. request[q].pc = "enrolling" =>
          /\ \A b \in Admin : admin'[b].secret # request[q].number
          /\ \A b \in Admin, n \in 1..MaxStep : <<b, request[q].number, n>> \notin accepted
    BY <1>3, <1>4, <2>1, Bounds DEF Local, Unused
  <2>3. request[q].pc = "proving" => admin'[request[q].by] = admin[request[q].by]
    BY <1>1, <1>4, <2>1 DEF Local, RowLocked
  <2>4. resets' # {} BY <1>1
  <2> QED BY <1>1, <1>6, <1>7, <2>1, <2>2, <2>3, <2>4 DEF Local, Unused, SessionsStay, TokensStay
<1>8. Flights' BY <1>1, <1>7, EndsKeep
<1>9. Codes'
  <2>1. \A b \in Admin : admin'[b].secret <= generated BY <1>3, <1>4, Bounds DEF AInv, Codes
  <2>2. ASSUME NEW b \in Admin, NEW k \in 1..MaxSecret, NEW n \in 1..MaxStep, <<b, k, n>> \in accepted
        PROVE  k <= generated /\ (k = admin'[b].secret => n <= admin'[b].last)
    BY <1>3, <1>4, <2>2, Bounds DEF AInv, Codes
  <2> QED BY <1>1, <2>1, <2>2 DEF AInv, Codes
<1>10. SuperadminRemains' BY <1>1 DEF SuperadminRemains
<1>11. /\ accepted' \subseteq Admin \X (1..MaxSecret) \X (1..MaxStep) /\ again' \in BOOLEAN /\ resets' \subseteq Admin
  BY <1>1 DEF AInv, AdminTypeOK
<1> QED BY <1>1, <1>3, <1>6, <1>8, <1>9, <1>10, <1>11, RowWritten

-----------------------------------------------------------------------------
(* The theorems                                                             *)

LEMMA AdminKeeps == AInv /\ [AdminNext]_adminVars => AInv'
<1> SUFFICES ASSUME AInv, [AdminNext]_adminVars PROVE AInv' OBVIOUS
<1>1. ASSUME NEW l \in Link, NEW a \in Admin, RequestLogin(l, a) PROVE AInv' BY <1>1, RequestLoginKeeps
<1>2. ASSUME NEW r \in Request, SignIn(r) PROVE AInv'
  BY <1>2, ConsumeKeeps, OpenKeeps, EnrolmentKeeps, LoadKeeps, StoreKeeps, ProveKeeps, CommitKeeps DEF SignIn
<1>3. ASSUME NEW r \in Request, Manage(r) PROVE AInv'
  BY <1>3, BeginKeeps, CountKeeps, WriteKeeps, SweepKeeps, DisableKeeps, ResetKeeps DEF Manage
<1>4. ASSUME NEW r \in Request, Issue(r) PROVE AInv'
  BY <1>4, BeginKeeps, TokenKeeps, RotationKeeps DEF Issue
<1>5. ASSUME NEW r \in Request, Refuse(r) PROVE AInv' BY <1>5, RefuseKeeps
<1>6. ASSUME NEW s \in Session, Logout(s) PROVE AInv' BY <1>6, LogoutKeeps
<1>7. ASSUME NEW t \in Token, RevokeToken(t) PROVE AInv' BY <1>7, TokenKeeps
<1>8. ASSUME NextStep PROVE AInv' BY <1>8, NextStepKeeps
<1>9. CASE UNCHANGED adminVars
  <2>1. /\ UNCHANGED <<admin, link, session, token, request, step, generated,
                       accepted, again, resets, lateToken, offered>>
        /\ session' \in [Session -> SessionRow] /\ token' \in [Token -> TokenRow] /\ SessionsStay /\ TokensStay
    BY <1>9, Unswept DEF adminVars
  <2>2. step' \in 1..MaxStep /\ lateToken' \subseteq Token BY <2>1 DEF AInv, AdminTypeOK
  <2> QED BY <2>1, <2>2, AsideKeeps
<1> QED BY <1>1, <1>2, <1>3, <1>4, <1>5, <1>6, <1>7, <1>8, <1>9 DEF AdminNext

\* The invariant the theorems rest on.
THEOREM AdminsInOrder == AdminSpec => []AInv
  BY AdminBegins, AdminKeeps, PTL DEF AdminSpec

\* Rows and requests keep their types: a secret is one that was generated, a session, link
\* or token has an owner.
THEOREM AdminTyping == AdminSpec => []AdminTypeOK
<1>1. AInv => AdminTypeOK BY DEF AInv
<1> QED BY AdminsInOrder, <1>1, PTL

\* However the requests that change roles and disable administrators overlap, an enrolled
\* super administrator remains while no second factor was removed: setAdminRoles() and
\* setAdminStatus() count under the advisory lock.
THEOREM SuperadminStays == AdminSpec => []SuperadminRemains
<1>1. AInv => SuperadminRemains BY DEF AInv
<1> QED BY AdminsInOrder, <1>1, PTL

\* A code of an authenticator is accepted once and a link opens one session, however many
\* requests present them together: verifyAdminTotp() compares under the row lock, and
\* consumeLoginLink() takes the link before it opens a session.
THEOREM FactorsUsedOnce == AdminSpec => []SecretsUsedOnce
<1>1. AInv => SecretsUsedOnce BY DEF AInv, Codes, LinksUsed, SecretsUsedOnce, CodeUsedOnce
<1> QED BY AdminsInOrder, <1>1, PTL

-----------------------------------------------------------------------------
(* Whoever is put out is out.                                               *)


\* What a request may count on, of what the others write.
Ready(f, admins, sessions, tokens, late) ==
    /\ f.pc \in {"checking", "proving"} => sessions[f.on].owner = f.by
    /\ f.pc = "proving" => admins[f.by].active
    /\ f.pc = "rotating" => tokens[f.on].state = "live" /\ tokens[f.on].owner = f.by
    /\ f.pc = "swept" =>
         /\ \A s \in Session : sessions[s].state = "active" /\ ~sessions[s].revoked /\ sessions[s].owner = f.at =>
              s \in f.sessions
         /\ \A t \in Token : tokens[t].state = "live" /\ tokens[t].owner = f.at => t \in f.tokens \cup late

\* Row locks keep these two from being at it together.
Parted(f, g) ==
    /\ ~(f.pc = "swept" /\ g.pc = "proving" /\ f.at = g.at)
    /\ ~(f.pc = "proving" /\ g.pc = "swept" /\ f.at = g.at)
    /\ ~(f.pc = "rotating" /\ g.pc = "rotating" /\ f.on = g.on)

Lines == \A t \in Token : token[t].state # "none" => token[t].line \in Token /\ token[token[t].line].state # "none"

AllReady == \A r \in Request : Ready(request[r], admin, session, token, lateToken)
AllParted == \A r, q \in Request : r # q => Parted(request[r], request[q])

AccessInv == AInv /\ AccessEnds /\ Lines /\ AllReady /\ AllParted

LEMMA AccessBegins == AdminInit => AccessInv
<1> SUFFICES ASSUME AdminInit PROVE AccessInv OBVIOUS
<1>1. AInv BY AdminBegins
<1>2. request = [r \in Request |-> Idle] BY DEF AdminInit
<1>3. \A r \in Request : request[r].pc = "idle" BY <1>2, IdleType
<1>4. AllReady /\ AllParted BY <1>3 DEF AllReady, AllParted, Ready, Parted
<1>5. token = [t \in Token |-> NoToken] /\ NoToken.state = "none" BY DEF AdminInit, NoToken
<1>6. Lines /\ TokensEnd BY <1>5 DEF Lines, TokensEnd
<1>7. SessionsEnd
  <2>1. CASE "login" \in offered
    <3>1. session = [s \in Session |-> NoSession] /\ NoSession.state = "none" BY <2>1 DEF AdminInit, NoSession
    <3> QED BY <3>1 DEF SessionsEnd
  <2>2. CASE "login" \notin offered
    <3>1. "enrol" \notin offered BY <2>2, AdminAssumption DEF AdminInit, AdminAssumption
    <3>2. \A a \in Admin : admin[a].active /\ admin[a].enrolled
      BY <3>1 DEF AdminInit
    <3>3. \A s \in Session : session[s].state # "none" => session[s].owner \in Admin BY <1>1 DEF AInv, Owned
    <3> QED BY <3>2, <3>3 DEF SessionsEnd
  <2> QED BY <2>1, <2>2
<1> QED BY <1>1, <1>4, <1>6, <1>7 DEF AccessInv, AccessEnds

\* Nothing changes but where a request stands.
LEMMA AccessMoves ==
    ASSUME AccessInv, AInv', NEW r \in Request, NEW f \in Flight, Become(r, f),
           UNCHANGED <<admin, session, token, lateToken>>, Ready(f, admin, session, token, lateToken),
           \A q \in Request : q # r => Parted(f, request[q])
    PROVE  AccessInv'
<1>1. /\ request' \in [Request -> Flight] /\ request'[r] = f
      /\ \A q \in Request : q # r => request'[q] = request[q]
  BY BecomeEffect DEF AInv, AccessInv
<1>2. AccessEnds' /\ Lines' BY DEF AccessInv, AccessEnds, SessionsEnd, TokensEnd, Lines
<1>3. AllReady' BY <1>1 DEF AccessInv, AllReady
<1>4. \A p, q \in Request : p # q => Parted(request'[p], request'[q])
  <2>1. \A q \in Request : q # r => Parted(request[q], f) BY DEF Parted
  <2> QED BY <1>1, <2>1 DEF AccessInv, AllParted
<1> QED BY <1>2, <1>3, <1>4 DEF AccessInv, AllParted, Parted

Awaits(q) == Ready(request[q], admin', session', token', lateToken')

\* A request ends, or none moves.
LEMMA AccessWrites ==
    ASSUME AccessInv, AInv', (\E r \in Request : End(r)) \/ UNCHANGED request, AccessEnds', Lines',
           \A q \in Request : request'[q] = request[q] => Awaits(q)
    PROVE  AccessInv'
<1>1. CASE UNCHANGED request
  <2>1. AllReady' BY <1>1 DEF AllReady, Awaits
  <2>2. AllParted' BY <1>1 DEF AccessInv, AllParted, Parted
  <2> QED BY <2>1, <2>2 DEF AccessInv
<1>2. ASSUME NEW r \in Request, End(r) PROVE AccessInv'
  <2>1. /\ request' \in [Request -> Flight] /\ request'[r] = Idle
        /\ \A q \in Request : q # r => request'[q] = request[q]
    BY <1>2, BecomeEffect, IdleType DEF AInv, AccessInv, End
  <2>2. \A q \in Request : Ready(request'[q], admin', session', token', lateToken')
    <3>1. Ready(Idle, admin', session', token', lateToken') BY IdleType DEF Ready
    <3> QED BY <2>1, <3>1 DEF Awaits
  <2>3. \A p, q \in Request : p # q => Parted(request'[p], request'[q])
    <3>1. \A g : Parted(Idle, g) /\ Parted(g, Idle) BY IdleType DEF Parted
    <3> QED BY <2>1, <3>1 DEF AccessInv, AllParted
  <2> QED BY <2>2, <2>3 DEF AccessInv, AllReady, AllParted, Parted
<1> QED BY <1>1, <1>2

Facts ==
    /\ \A s \in Session : session[s] \in SessionRow /\ (session[s].state # "none" => session[s].owner \in Admin)
    /\ \A t \in Token : token[t] \in TokenRow /\ (token[t].state # "none" => token[t].owner \in Admin)
    /\ \A r \in Request : request[r] \in Flight /\ Local(request[r])
    /\ \A a \in Admin : admin[a] \in AdminRow
    /\ session \in [Session -> SessionRow] /\ token \in [Token -> TokenRow] /\ admin \in [Admin -> AdminRow]

LEMMA FactsHold == AccessInv => Facts
  BY DEF AccessInv, AInv, AdminTypeOK, Owned, Flights, Facts

\* The requests that read and go on.
LEMMA ReadersKeep ==
    ASSUME AccessInv, AInv', NEW r \in Request,
           \/ \E l \in Link : Consume(r, l)
           \/ \E s \in Session : LoadSession(r, s) \/ BeginEnrolment(r, s) \/ BeginManaging(r, s) \/ BeginToken(r, s)
           \/ \E s \in Session, t \in Token : BeginRotation(r, s, t)
           \/ Refuse(r) \/ Prove(r) \/ Sweep(r)
           \/ \E a \in Admin, what \in {"demote", "promote", "disable", "enable"} : Count(r, a, what)
    PROVE  AccessInv'
<1>0. Facts BY FactsHold
<1>1. ASSUME NEW f \in Flight, Become(r, f), f.pc \in {"idle", "acting", "minting", "enrolling", "consuming", "counted"},
             UNCHANGED <<admin, session, token, lateToken>>
      PROVE  AccessInv'
  <2>1. Ready(f, admin, session, token, lateToken) BY <1>1 DEF Ready
  <2>2. \A q \in Request : q # r => Parted(f, request[q]) BY <1>1 DEF Parted
  <2> QED BY <1>1, <2>1, <2>2, AccessMoves
<1>2. ASSUME NEW l \in Link, Consume(r, l) PROVE AccessInv'
  <2> DEFINE f == [Idle EXCEPT !.pc = "consuming", !.by = link[l].owner, !.on = l]
  <2>1. link[l].state = "sent" /\ link[l].owner \in Admin BY <1>2 DEF Consume, TakeLink, AInv, AccessInv, Owned
  <2>2. f \in Flight /\ f.pc = "consuming" BY <2>1, IdleType DEF Idle, Flight
  <2>3. Become(r, f) /\ UNCHANGED <<admin, session, token, lateToken>> BY <1>2 DEF Consume, TakeLink, Aside
  <2> HIDE DEF f
  <2> QED BY <1>1, <2>2, <2>3
<1>3. ASSUME NEW s \in Session, BeginManaging(r, s) \/ BeginToken(r, s) PROVE AccessInv'
  <2>1. PICK pc \in {"acting", "minting"} : Become(r, [Idle EXCEPT !.pc = pc, !.by = session[s].owner])
    BY <1>3 DEF BeginManaging, BeginToken
  <2> DEFINE f == [Idle EXCEPT !.pc = pc, !.by = session[s].owner]
  <2>2. session[s].owner \in Admin /\ UNCHANGED <<admin, session, token, lateToken>>
    BY <1>0, <1>3 DEF BeginManaging, BeginToken, SignedIn, Valid, Facts, Aside
  <2>3. f \in Flight /\ f.pc = pc BY <2>2, IdleType DEF Idle, Flight
  <2>4. Become(r, f) BY <2>1
  <2> HIDE DEF f
  <2> QED BY <1>1, <2>2, <2>3, <2>4
<1>4. ASSUME NEW s \in Session, BeginEnrolment(r, s) PROVE AccessInv'
  <2> DEFINE f == [Idle EXCEPT !.pc = "enrolling", !.by = session[s].owner, !.number = generated + 1]
  <2>1. /\ session[s].owner \in Admin /\ generated + 1 \in 0..(MaxStep + MaxSecret)
        /\ UNCHANGED <<admin, session, token, lateToken>>
    <3>1. /\ generated < MaxSecret /\ session[s].state # "none"
          /\ UNCHANGED <<admin, session, token, lateToken>>
      BY <1>4 DEF BeginEnrolment, Valid
    <3>2. MaxStep \in Nat /\ MaxSecret \in Nat /\ generated \in Nat BY Bounds DEF AccessInv
    <3> QED BY <1>0, <3>1, <3>2 DEF Facts
  <2>2. f \in Flight /\ f.pc = "enrolling" BY <2>1, IdleType DEF Idle, Flight
  <2>3. Become(r, f) BY <1>4 DEF BeginEnrolment
  <2> HIDE DEF f
  <2> QED BY <1>1, <2>1, <2>2, <2>3
<1>5. ASSUME NEW s \in Session, LoadSession(r, s) PROVE AccessInv'
  <2> DEFINE f == [Idle EXCEPT !.pc = "checking", !.by = session[s].owner, !.on = s,
                               !.pending = session[s].state = "pending_mfa"]
  <2>1. session[s].owner \in Admin /\ Become(r, f) /\ UNCHANGED <<admin, session, token, lateToken>>
    BY <1>0, <1>5 DEF LoadSession, Valid, Facts, Aside
  <2>2. f \in Flight /\ f.pc = "checking" /\ f.by = session[s].owner /\ f.on = s BY <2>1, IdleType DEF Idle, Flight
  <2> HIDE DEF f
  <2>3. Ready(f, admin, session, token, lateToken) BY <2>2 DEF Ready
  <2>4. \A q \in Request : q # r => Parted(f, request[q]) BY <2>2 DEF Parted
  <2> QED BY <2>1, <2>2, <2>3, <2>4, AccessMoves
<1>6. ASSUME NEW s \in Session, NEW t \in Token, BeginRotation(r, s, t) PROVE AccessInv'
  <2> DEFINE f == [Idle EXCEPT !.pc = "rotating", !.by = token[t].owner, !.on = t]
  <2>1. /\ token[t].state = "live" /\ token[t].owner \in Admin /\ Become(r, f) /\ ~TokenLocked(t)
        /\ UNCHANGED <<admin, session, token, lateToken>>
    BY <1>0, <1>6 DEF BeginRotation, TakeToken, Facts, Aside
  <2>2. f \in Flight /\ f.pc = "rotating" /\ f.by = token[t].owner /\ f.on = t BY <2>1, IdleType DEF Idle, Flight
  <2> HIDE DEF f
  <2>3. Ready(f, admin, session, token, lateToken) BY <2>1, <2>2 DEF Ready
  <2>4. \A q \in Request : q # r => Parted(f, request[q]) BY <2>1, <2>2 DEF Parted, TokenLocked, At
  <2> QED BY <2>1, <2>2, <2>3, <2>4, AccessMoves
<1>7. ASSUME Refuse(r) PROVE AccessInv'
  BY <1>1, <1>7, IdleType DEF Refuse, End, Aside
<1>8. ASSUME NEW a \in Admin, NEW what \in {"demote", "promote", "disable", "enable"}, Count(r, a, what) PROVE AccessInv'
  <2> DEFINE f == [request[r] EXCEPT !.pc = "counted", !.at = a, !.what = what]
  <2>1. Become(r, f) /\ UNCHANGED <<admin, session, token, lateToken>> BY <1>8 DEF Count, DecideChange, Aside
  <2>2. f \in Flight /\ f.pc = "counted" BY <1>0 DEF Facts, Flight
  <2> HIDE DEF f
  <2> QED BY <1>1, <2>1, <2>2
<1>9. ASSUME Prove(r) PROVE AccessInv'
  <2> DEFINE a == request[r].by
  <2>1. PICK n \in Near : Become(r, [request[r] EXCEPT !.pc = "proving", !.at = a, !.number = n])
    BY <1>9 DEF Prove, MatchCode
  <2> DEFINE f == [request[r] EXCEPT !.pc = "proving", !.at = a, !.number = n]
  <2>2. /\ request[r].pc = "checking" /\ admin[a].active /\ ~RowLocked(a)
        /\ UNCHANGED <<admin, session, token, lateToken>>
    BY <1>9 DEF Prove, MatchCode, At, Aside
  <2>3. a \in Admin /\ session[request[r].on].owner = a
    BY <1>0, <2>2 DEF Facts, Local, AccessInv, AllReady, Ready
  <2>4. n \in 0..(MaxStep + MaxSecret) BY Bounds DEF Near, AccessInv
  <2>5. f \in Flight /\ f.pc = "proving" /\ f.by = a /\ f.at = a /\ f.on = request[r].on
    BY <1>0, <2>3, <2>4 DEF Facts, Flight
  <2>6. Become(r, f) BY <2>1
  <2> HIDE DEF f
  <2>7. Ready(f, admin, session, token, lateToken) BY <2>2, <2>3, <2>5 DEF Ready
  <2>8. \A q \in Request : q # r => Parted(f, request[q]) BY <2>2, <2>5 DEF Parted, RowLocked
  <2> QED BY <2>2, <2>5, <2>6, <2>7, <2>8, AccessMoves
<1>10. ASSUME Sweep(r) PROVE AccessInv'
  <2> DEFINE S == {s \in Session : session[s].owner = request[r].at /\ ~session[s].revoked}
             T == {t \in Token : token[t].owner = request[r].at /\ token[t].state = "live"}
             f == [request[r] EXCEPT !.pc = "swept", !.sessions = S, !.tokens = T]
  <2>1. Become(r, f) /\ ~RowLocked(request[r].at) /\ UNCHANGED <<admin, session, token, lateToken>>
    BY <1>10 DEF Sweep, Aside
  <2>2. S \subseteq Session /\ T \subseteq Token OBVIOUS
  <2>3. /\ f \in Flight /\ f.pc = "swept" /\ f.at = request[r].at /\ f.sessions = S /\ f.tokens = T
    BY <1>0, <2>2 DEF Facts, Flight
  <2> HIDE DEF f
  <2>4. Ready(f, admin, session, token, lateToken) BY <2>3 DEF Ready
  <2>5. \A q \in Request : q # r => Parted(f, request[q]) BY <2>1, <2>3 DEF Parted, RowLocked
  <2> QED BY <2>1, <2>3, <2>4, <2>5, AccessMoves
<1> QED BY <1>2, <1>3, <1>4, <1>5, <1>6, <1>7, <1>8, <1>9, <1>10

\* Sessions: the steps that leave the tokens alone.
LEMMA TokensKept ==
    ASSUME AccessInv, UNCHANGED <<token, lateToken>>, \A a \in Admin : admin[a].active => admin'[a].active
    PROVE  Lines' /\ TokensEnd'
<1>1. Facts BY FactsHold
<1>2. Lines' BY DEF AccessInv, Lines
<1>3. \A t \in Token : token[t].state = "live" => token[t].owner \in Admin BY <1>1 DEF Facts
<1>4. TokensEnd' BY <1>3 DEF AccessInv, AccessEnds, TokensEnd
<1> QED BY <1>2, <1>4

LEMMA OpenEnds == ASSUME AccessInv, AInv', NEW r \in Request, NEW s \in Session, OpenSession(r, s) PROVE AccessInv'
<1> DEFINE x == [NoSession EXCEPT !.owner = request[r].by, !.state = "pending_mfa", !.link = request[r].on]
<1>0. Facts BY FactsHold
<1>1. /\ session[s].state = "none" /\ End(r) /\ session' = [session EXCEPT ![s] = x]
      /\ UNCHANGED <<admin, token, lateToken>>
  BY DEF OpenSession, Aside
<1>2. x.state = "pending_mfa" BY DEF NoSession
<1> HIDE DEF x
<1>3. session'[s] = x /\ \A q \in Session : q # s => session'[q] = session[q] BY <1>0, <1>1 DEF Facts
<1>4. Lines' /\ TokensEnd' BY <1>1, TokensKept
<1>5. SessionsEnd' BY <1>1, <1>2, <1>3 DEF SessionsEnd, AccessInv, AccessEnds
<1>6. ASSUME NEW q \in Request, request'[q] = request[q] PROVE Awaits(q)
  <2>1. Ready(request[q], admin, session, token, lateToken) /\ Local(request[q]) BY <1>0 DEF AccessInv, AllReady, Facts
  <2>2. request[q].pc \in {"checking", "proving"} => request[q].on \in Session /\ request[q].on # s
    BY <1>1, <2>1 DEF Local
  <2> QED BY <1>1, <1>2, <1>3, <2>1, <2>2 DEF Awaits, Ready
<1> QED BY <1>1, <1>4, <1>5, <1>6, AccessWrites DEF AccessEnds

\* An administrator's row changes and none is put out.
LEMMA RowsEnd ==
    ASSUME AccessInv, AInv', NEW r \in Request, End(r), UNCHANGED <<session, token, lateToken>>,
           \A a \in Admin : (admin[a].active => admin'[a].active) /\ (admin[a].enrolled => admin'[a].enrolled)
    PROVE  AccessInv'
<1>0. Facts BY FactsHold
<1>1. Lines' /\ TokensEnd' BY TokensKept
<1>2. SessionsEnd' BY <1>0 DEF SessionsEnd, AccessInv, AccessEnds, Facts
<1>3. ASSUME NEW q \in Request, request'[q] = request[q] PROVE Awaits(q)
  <2>1. Ready(request[q], admin, session, token, lateToken) /\ Local(request[q]) BY <1>0 DEF AccessInv, AllReady, Facts
  <2>2. request[q].pc = "proving" => admin'[request[q].by].active BY <2>1 DEF Local, Ready
  <2> QED BY <2>1, <2>2 DEF Awaits, Ready
<1> QED BY <1>1, <1>2, <1>3, AccessWrites DEF AccessEnds

LEMMA StoreEnds == ASSUME AccessInv, AInv', NEW r \in Request, StoreSecret(r) \/ WriteChange(r) PROVE AccessInv'
<1>0. Facts BY FactsHold
<1>1. End(r) /\ UNCHANGED <<session, token, lateToken>> BY DEF StoreSecret, WriteChange, Aside
<1>2. \/ admin' = admin
      \/ \E a, n : admin' = [admin EXCEPT ![a].secret = n]
      \/ \E a, b : admin' = [admin EXCEPT ![a].super = b]
      \/ \E a : admin' = [admin EXCEPT ![a].active = TRUE]
  BY DEF StoreSecret, WriteChange
<1>3. \A a \in Admin : (admin[a].active => admin'[a].active) /\ (admin[a].enrolled => admin'[a].enrolled)
  BY <1>0, <1>2 DEF Facts, AdminRow
<1> QED BY <1>1, <1>3, RowsEnd

LEMMA CommitEnds == ASSUME AccessInv, AInv', NEW r \in Request, CommitProof(r) PROVE AccessInv'
<1> DEFINE a == request[r].by
           s == request[r].on
           x == [admin[a] EXCEPT !.last = request[r].number, !.enrolled = TRUE]
           y == [session[s] EXCEPT !.state = "active"]
<1>0. Facts BY FactsHold
<1>1. /\ request[r].pc = "proving" /\ End(r) /\ admin' = [admin EXCEPT ![a] = x]
      /\ session' = [session EXCEPT ![s] = y] \/ session' = session
      /\ UNCHANGED <<token, lateToken>>
  BY DEF CommitProof, At
<1>2. /\ a \in Admin /\ request[r].at = a /\ s \in Session /\ session[s].owner = a /\ admin[a].active
      /\ admin[a] \in AdminRow /\ session[s] \in SessionRow
  BY <1>0, <1>1 DEF Facts, Local, AccessInv, AllReady, Ready
<1>3. x.active = admin[a].active /\ x.enrolled BY <1>2 DEF AdminRow
<1>4. y.owner = session[s].owner /\ y.state = "active" /\ y.revoked = session[s].revoked BY <1>2 DEF SessionRow
<1> HIDE DEF x, y
<1>5. admin'[a] = x /\ \A b \in Admin : b # a => admin'[b] = admin[b] BY <1>0, <1>1, <1>2 DEF Facts
<1>6. \A b \in Admin : (admin[b].active => admin'[b].active) /\ (admin[b].enrolled => admin'[b].enrolled)
  BY <1>3, <1>5
<1>7. \A q \in Session : /\ session'[q].owner = session[q].owner /\ session'[q].revoked = session[q].revoked
                         /\ q # s => session'[q] = session[q]
  BY <1>0, <1>1, <1>2, <1>4 DEF Facts
<1>8. Lines' /\ TokensEnd' BY <1>1, <1>6, TokensKept
<1>9. SessionsEnd'
  <2>1. SUFFICES ASSUME NEW q \in Session, session'[q].state = "active", ~session'[q].revoked
                 PROVE  admin'[session'[q].owner].active /\ admin'[session'[q].owner].enrolled
    BY DEF SessionsEnd
  <2>2. CASE q = s BY <1>2, <1>3, <1>5, <1>7, <2>2
  <2>3. CASE q # s
    <3>1. session[q].owner \in Admin BY <1>0, <1>7, <2>1, <2>3 DEF Facts
    <3> QED BY <1>6, <1>7, <2>1, <2>3, <3>1 DEF AccessInv, AccessEnds, SessionsEnd
  <2> QED BY <2>2, <2>3
<1>10. ASSUME NEW q \in Request, request'[q] = request[q] PROVE Awaits(q)
  <2>0. q # r
    <3>1. request'[r] = Idle BY <1>1, BecomeEffect, IdleType DEF End, AInv, AccessInv
    <3> QED BY <1>1, <1>10, <3>1, IdleType
  <2>1. Ready(request[q], admin, session, token, lateToken) /\ Local(request[q]) BY <1>0 DEF AccessInv, AllReady, Facts
  <2>2. request[q].pc = "swept" => request[q].at # a BY <1>1, <1>2, <2>0 DEF AccessInv, AllParted, Parted
  <2>3. request[q].pc \in {"checking", "proving"} => session'[request[q].on].owner = request[q].by
    BY <1>7, <2>1 DEF Ready, Local
  <2>4. request[q].pc = "proving" => admin'[request[q].by].active BY <1>6, <2>1 DEF Ready, Local
  <2>5. request[q].pc = "swept" =>
          \A p \in Session : session'[p].state = "active" /\ ~session'[p].revoked /\ session'[p].owner = request[q].at =>
            p \in request[q].sessions
    BY <1>2, <1>7, <2>1, <2>2 DEF Ready
  <2> QED BY <1>1, <2>1, <2>3, <2>4, <2>5 DEF Awaits, Ready
<1> QED BY <1>1, <1>8, <1>9, <1>10, AccessWrites DEF AccessEnds

\* Putting out: sessions are revoked.
Revokes(S) == session' = [s \in Session |-> IF s \in S THEN [session[s] EXCEPT !.revoked = TRUE] ELSE session[s]]

LEMMA SessionsRevoked ==
    ASSUME Facts, NEW S, Revokes(S)
    PROVE  \A s \in Session : /\ session'[s].owner = session[s].owner /\ session'[s].state = session[s].state
                              /\ session'[s].revoked <=> (session[s].revoked \/ s \in S)
  BY DEF Facts, Revokes, SessionRow

LEMMA ResetEnds == ASSUME AccessInv, AInv', NEW r \in Request, NEW a \in Admin, ResetTotp(r, a) PROVE AccessInv'
<1> DEFINE x == [admin[a] EXCEPT !.secret = 0, !.enrolled = FALSE, !.last = 0]
           S == {s \in Session : session[s].owner = a}
<1>0. Facts BY FactsHold
<1>1. /\ End(r) /\ admin' = [admin EXCEPT ![a] = x] /\ UNCHANGED <<token, lateToken>> /\ Revokes(S)
  BY DEF ResetTotp, Revokes
<1>2. x.active = admin[a].active BY <1>0 DEF Facts, AdminRow
<1> HIDE DEF x
<1>3. admin'[a] = x /\ \A b \in Admin : b # a => admin'[b] = admin[b] BY <1>0, <1>1 DEF Facts
<1>4. \A b \in Admin : admin'[b].active = admin[b].active BY <1>2, <1>3
<1>5. \A s \in Session : /\ session'[s].owner = session[s].owner /\ session'[s].state = session[s].state
                         /\ session'[s].revoked <=> (session[s].revoked \/ s \in S)
  BY <1>0, <1>1, SessionsRevoked
<1>6. Lines' /\ TokensEnd' BY <1>1, <1>4, TokensKept
<1>7. SessionsEnd'
  <2>1. SUFFICES ASSUME NEW q \in Session, session'[q].state = "active", ~session'[q].revoked
                 PROVE  admin'[session'[q].owner].active /\ admin'[session'[q].owner].enrolled
    BY DEF SessionsEnd
  <2>2. session[q].owner \in Admin /\ session[q].owner # a BY <1>0, <1>5, <2>1 DEF Facts
  <2> QED BY <1>3, <1>5, <2>1, <2>2 DEF AccessInv, AccessEnds, SessionsEnd
<1>8. ASSUME NEW q \in Request, request'[q] = request[q] PROVE Awaits(q)
  <2>1. Ready(request[q], admin, session, token, lateToken) /\ Local(request[q]) BY <1>0 DEF AccessInv, AllReady, Facts
  <2> QED BY <1>1, <1>4, <1>5, <2>1 DEF Awaits, Ready, Local
<1> QED BY <1>1, <1>6, <1>7, <1>8, AccessWrites DEF AccessEnds

LEMMA DisableEnds == ASSUME AccessInv, AInv', NEW r \in Request, Disable(r) PROVE AccessInv'
<1> DEFINE a == request[r].at
           x == [admin[a] EXCEPT !.active = FALSE]
           S == request[r].sessions
           T == request[r].tokens
<1>0. Facts BY FactsHold
<1>1. /\ request[r].pc = "swept" /\ End(r) /\ admin' = [admin EXCEPT ![a] = x] /\ Revokes(S)
      /\ token' = [t \in Token |-> IF t \in T THEN [token[t] EXCEPT !.state = "revoked"] ELSE token[t]]
      /\ \A t \in T : ~TokenLocked(t) /\ UNCHANGED lateToken
  BY DEF Disable, At, Revokes, Aside
<1>11. UNCHANGED lateToken BY DEF Disable, Aside
<1>2. /\ a \in Admin /\ Ready(request[r], admin, session, token, lateToken) /\ T \subseteq Token
      /\ x.enrolled = admin[a].enrolled
  BY <1>0, <1>1 DEF Facts, Local, AccessInv, AllReady, Flight, AdminRow
<1> HIDE DEF x
<1>3. admin'[a] = x /\ \A b \in Admin : b # a => admin'[b] = admin[b] BY <1>0, <1>1, <1>2 DEF Facts
<1>4. \A b \in Admin : admin'[b].enrolled = admin[b].enrolled BY <1>2, <1>3
<1>5. \A s \in Session : /\ session'[s].owner = session[s].owner /\ session'[s].state = session[s].state
                         /\ session'[s].revoked <=> (session[s].revoked \/ s \in S)
  BY <1>0, <1>1, SessionsRevoked
<1>6. \A t \in Token : /\ token'[t].owner = token[t].owner /\ token'[t].line = token[t].line
                       /\ t \in T => token'[t].state = "revoked"
                       /\ t \notin T => token'[t] = token[t]
  BY <1>0, <1>1 DEF Facts, TokenRow
<1>7. SessionsEnd'
  <2>1. SUFFICES ASSUME NEW q \in Session, session'[q].state = "active", ~session'[q].revoked
                 PROVE  admin'[session'[q].owner].active /\ admin'[session'[q].owner].enrolled
    BY DEF SessionsEnd
  <2>2. session[q].owner \in Admin /\ session[q].owner # a BY <1>0, <1>1, <1>2, <1>5, <2>1 DEF Facts, Ready
  <2> QED BY <1>3, <1>5, <2>1, <2>2 DEF AccessInv, AccessEnds, SessionsEnd
<1>8. TokensEnd'
  <2>1. SUFFICES ASSUME NEW t \in Token, token'[t].state = "live"
                 PROVE  /\ \A u \in Token : token'[u].state = "live" /\ token'[u].line = token'[t].line => u = t
                        /\ admin'[token'[t].owner].active \/ t \in lateToken
    BY <1>11 DEF TokensEnd
  <2>2. t \notin T /\ token[t].state = "live" /\ token[t].owner \in Admin BY <1>0, <1>6, <2>1 DEF Facts
  <2>3. \A u \in Token : token'[u].state = "live" /\ token'[u].line = token'[t].line => u = t
    BY <1>6, <2>2 DEF AccessInv, AccessEnds, TokensEnd
  <2>4. CASE token[t].owner = a BY <1>1, <1>2, <2>2, <2>3, <2>4 DEF Ready
  <2>5. CASE token[t].owner # a BY <1>3, <1>6, <2>2, <2>3, <2>5 DEF AccessInv, AccessEnds, TokensEnd
  <2> QED BY <2>4, <2>5
<1>9. Lines'
  <2>1. \A t \in T : token[t].state # "none" BY <1>0, <1>1 DEF Facts, Local
  <2>2. \A t \in Token : token'[t].state # "none" <=> token[t].state # "none" BY <1>2, <1>6, <2>1
  <2> QED BY <1>6, <2>2 DEF AccessInv, Lines
<1>10. ASSUME NEW q \in Request, request'[q] = request[q] PROVE Awaits(q)
  <2>0. q # r
    <3>1. request'[r] = Idle BY <1>1, BecomeEffect, IdleType DEF End, AInv, AccessInv
    <3> QED BY <1>1, <1>10, <3>1, IdleType
  <2>1. Ready(request[q], admin, session, token, lateToken) /\ Local(request[q]) BY <1>0 DEF AccessInv, AllReady, Facts
  <2>2. request[q].pc = "proving" => request[q].by # a
    BY <1>1, <2>0, <2>1 DEF AccessInv, AllParted, Parted, Local
  <2>3. request[q].pc = "proving" => admin'[request[q].by].active BY <1>3, <2>1, <2>2 DEF Ready, Local
  <2>4. request[q].pc = "rotating" => request[q].on \in Token /\ request[q].on \notin T
    BY <1>1, <2>1 DEF Local, TokenLocked, At
  <2>5. request[q].pc = "rotating" => token'[request[q].on] = token[request[q].on] BY <1>6, <2>4
  <2>6. request[q].pc # "swept" BY <1>1, <2>0 DEF AccessInv, AInv, Flights, Apart
  <2>7. request[q].pc \in {"checking", "proving"} => session'[request[q].on].owner = request[q].by
    BY <1>5, <2>1 DEF Ready, Local
  <2> QED BY <2>1, <2>3, <2>5, <2>6, <2>7 DEF Awaits, Ready
<1> QED BY <1>1, <1>7, <1>8, <1>9, <1>10, AccessWrites DEF AccessEnds

\* A new token u of administrator a, in the line l; the tokens O are revoked for it.
Issued(u, a, l, O) ==
    /\ token[u].state = "none" /\ token'[u].owner = a /\ token'[u].line = l /\ token'[u].state = "live"
    /\ \A t \in Token \ {u} : /\ token'[t].owner = token[t].owner /\ token'[t].line = token[t].line
                              /\ t \in O => token[t].state # "none" /\ token'[t].state = "revoked"
                              /\ t \notin O => token'[t] = token[t]
    /\ \A t \in Token : token[t].state = "live" /\ token[t].line = l => t \in O
    /\ l = u \/ token[l].state # "none"
    /\ lateToken' = IF Leaving(a) THEN lateToken \cup {u} ELSE lateToken
    /\ UNCHANGED <<admin, session>>

LEMMA IssueEnds ==
    ASSUME AccessInv, AInv', NEW r \in Request, End(r), NEW u \in Token, NEW a \in Admin, NEW l \in Token,
           NEW O \in SUBSET Token, Issued(u, a, l, O),
           \A q \in Request : q # r /\ request[q].pc = "rotating" => request[q].on \notin O,
           request[r].pc # "idle"
    PROVE  AccessInv'
<1>0. Facts BY FactsHold
<1>1. SessionsEnd' BY DEF SessionsEnd, AccessInv, AccessEnds, Issued
<1>2. TokensEnd'
  <2>1. ASSUME NEW t \in Token, token'[t].state = "live"
        PROVE  /\ \A v \in Token : token'[v].state = "live" /\ token'[v].line = token'[t].line => v = t
               /\ admin[token'[t].owner].active \/ t \in lateToken'
    <3>1. CASE t = u BY <2>1, <3>1 DEF Issued, Leaving
    <3>2. CASE t # u
      <4>1. token'[t] = token[t] /\ token[t].line # l BY <2>1, <3>2 DEF Issued
      <4>2. \A v \in Token : token'[v].state = "live" /\ token'[v].line = token'[t].line =>
              token[v].state = "live" /\ token[v].line = token[t].line
        BY <4>1 DEF Issued
      <4>3. t \in lateToken => t \in lateToken' BY DEF Issued
      <4> QED BY <2>1, <4>1, <4>2, <4>3 DEF AccessInv, AccessEnds, TokensEnd
    <3> QED BY <3>1, <3>2
  <2>2. admin' = admin BY DEF Issued
  <2> QED BY <2>1, <2>2 DEF TokensEnd
<1>3. Lines'
  <2>1. \A t \in Token : token[t].state # "none" => token'[t].state # "none" BY DEF Issued
  <2>2. ASSUME NEW t \in Token, token'[t].state # "none"
        PROVE  token'[t].line \in Token /\ token'[token'[t].line].state # "none"
    <3>1. CASE t = u BY <2>1, <3>1 DEF Issued
    <3>2. CASE t # u
      <4>1. token'[t].line = token[t].line /\ token[t].state # "none" BY <2>2, <3>2 DEF Issued
      <4> QED BY <2>1, <4>1 DEF AccessInv, Lines
    <3> QED BY <3>1, <3>2
  <2> QED BY <2>2 DEF Lines
<1>4. ASSUME NEW q \in Request, request'[q] = request[q] PROVE Awaits(q)
  <2>0. q # r
    <3>1. request'[r] = Idle BY BecomeEffect, IdleType DEF End, AInv, AccessInv
    <3> QED BY <1>4, <3>1, IdleType
  <2>1. Ready(request[q], admin, session, token, lateToken) /\ Local(request[q]) BY <1>0 DEF AccessInv, AllReady, Facts
  <2>2. request[q].pc = "rotating" => token'[request[q].on] = token[request[q].on]
    BY <2>0, <2>1 DEF Local, Issued
  <2>3. ASSUME request[q].pc = "swept", NEW t \in Token, token'[t].state = "live", token'[t].owner = request[q].at
        PROVE  t \in request[q].tokens \cup lateToken'
    <3>1. CASE t = u BY <2>3, <3>1 DEF Issued, Leaving, At
    <3>2. CASE t # u
      <4>1. token'[t] = token[t] BY <2>3, <3>2 DEF Issued
      <4>2. t \in request[q].tokens \cup lateToken BY <2>1, <2>3, <4>1 DEF Ready
      <4> QED BY <4>2 DEF Issued
    <3> QED BY <3>1, <3>2
  <2>4. admin' = admin /\ session' = session BY DEF Issued
  <2> QED BY <2>1, <2>2, <2>3, <2>4 DEF Awaits, Ready
<1> QED BY <1>1, <1>2, <1>3, <1>4, AccessWrites DEF AccessEnds

LEMMA InsertEnds == ASSUME AccessInv, AInv', NEW r \in Request, NEW t \in Token, InsertToken(r, t) PROVE AccessInv'
<1> DEFINE x == [owner |-> request[r].by, state |-> "live", line |-> t]
<1>0. Facts BY FactsHold
<1>1. /\ token' = [token EXCEPT ![t] = x] /\ End(r) /\ request[r].pc = "minting" /\ token[t].state = "none"
      /\ UNCHANGED <<admin, session>>
      /\ lateToken' = IF Leaving(request[r].by) THEN lateToken \cup {t} ELSE lateToken
  BY DEF InsertToken, At
<1>2. request[r].by \in Admin BY <1>0, <1>1 DEF Facts, Local
<1>3. token'[t] = x /\ \A u \in Token : u # t => token'[u] = token[u] BY <1>0, <1>1 DEF Facts
<1>4. \A u \in Token : token[u].state = "live" => token[u].line # t BY <1>1 DEF AccessInv, Lines
<1>5. Issued(t, request[r].by, t, {}) BY <1>1, <1>3, <1>4 DEF Issued
<1> QED BY <1>1, <1>2, <1>5, IssueEnds

LEMMA RotateEnds == ASSUME AccessInv, AInv', NEW r \in Request, NEW u \in Token, Rotate(r, u) PROVE AccessInv'
<1> DEFINE o == request[r].on
           x == [token[u] EXCEPT !.owner = request[r].by, !.state = "live", !.line = token[o].line]
           first == [token EXCEPT ![u] = x]
           y == [first[o] EXCEPT !.state = "revoked"]
<1>0. Facts BY FactsHold
<1>1. /\ token' = [first EXCEPT ![o] = y] /\ End(r) /\ request[r].pc = "rotating" /\ token[u].state = "none"
      /\ UNCHANGED <<admin, session>>
      /\ lateToken' = IF Leaving(request[r].by) THEN lateToken \cup {u} ELSE lateToken
  BY DEF Rotate, At
<1>2. /\ o \in Token /\ token[o].state = "live" /\ request[r].by \in Admin
      /\ token[o].line \in Token /\ token[token[o].line].state # "none" /\ o # u
  BY <1>0, <1>1 DEF Facts, Local, AccessInv, AllReady, Ready, Lines
<1>3. x.owner = request[r].by /\ x.state = "live" /\ x.line = token[o].line BY <1>0 DEF Facts, TokenRow
<1> HIDE DEF x
<1>4. first = [token EXCEPT ![u] = x] /\ first[o] = token[o] /\ first[u] = x
      /\ (\A t \in Token : t # u => first[t] = token[t]) /\ DOMAIN first = Token
  BY <1>0, <1>2 DEF Facts
<1>5. token' = [first EXCEPT ![o] = y] BY <1>1
<1> HIDE DEF first
<1>6. y.owner = token[o].owner /\ y.line = token[o].line /\ y.state = "revoked" BY <1>0, <1>2, <1>4 DEF Facts, TokenRow
<1> HIDE DEF y
<1>7. token'[o] = y /\ token'[u] = x /\ \A t \in Token : t # u /\ t # o => token'[t] = token[t]
  BY <1>2, <1>4, <1>5
<1>8. \A t \in Token : token[t].state = "live" /\ token[t].line = token[o].line => t \in {o}
  BY <1>2 DEF AccessInv, AccessEnds, TokensEnd
<1>9. Issued(u, request[r].by, token[o].line, {o}) BY <1>1, <1>2, <1>3, <1>6, <1>7, <1>8 DEF Issued
<1>10. \A q \in Request : q # r /\ request[q].pc = "rotating" => request[q].on \notin {o}
  BY <1>1 DEF AccessInv, AllParted, Parted
<1> QED BY <1>1, <1>2, <1>9, <1>10, IssueEnds

LEMMA RestEnds ==
    ASSUME AccessInv, AInv',
           \/ \E t \in Token : RevokeToken(t)
           \/ \E s \in Session : Logout(s)
           \/ \E l \in Link, a \in Admin : RequestLogin(l, a)
           \/ NextStep \/ UNCHANGED adminVars
    PROVE  AccessInv'
<1>0. Facts BY FactsHold
<1>1. ASSUME NEW t \in Token, RevokeToken(t) PROVE AccessInv'
  <2> DEFINE x == [token[t] EXCEPT !.state = "revoked"]
  <2>1. /\ token[t].state = "live" /\ ~TokenLocked(t) /\ token' = [token EXCEPT ![t] = x]
        /\ UNCHANGED <<admin, session, request, lateToken>>
    BY <1>1 DEF RevokeToken, Aside
  <2>2. x.owner = token[t].owner /\ x.line = token[t].line /\ x.state = "revoked" BY <1>0 DEF Facts, TokenRow
  <2> HIDE DEF x
  <2>3. token'[t] = x /\ \A u \in Token : u # t => token'[u] = token[u] BY <1>0, <2>1 DEF Facts
  <2>4. \A u \in Token : /\ token'[u].owner = token[u].owner /\ token'[u].line = token[u].line
                         /\ token'[u].state # "none" <=> token[u].state # "none"
                         /\ token'[u].state = "live" => token[u].state = "live"
    BY <2>1, <2>2, <2>3
  <2>5. Lines' BY <2>4 DEF AccessInv, Lines
  <2>6. AccessEnds' BY <2>1, <2>4 DEF AccessInv, AccessEnds, SessionsEnd, TokensEnd
  <2>7. ASSUME NEW q \in Request, request'[q] = request[q] PROVE Awaits(q)
    <3>1. Ready(request[q], admin, session, token, lateToken) /\ Local(request[q]) BY <1>0 DEF AccessInv, AllReady, Facts
    <3>2. request[q].pc = "rotating" => token'[request[q].on] = token[request[q].on]
      BY <2>1, <2>3, <3>1 DEF Local, TokenLocked, At
    <3> QED BY <2>1, <2>4, <3>1, <3>2 DEF Awaits, Ready
  <2> QED BY <2>1, <2>5, <2>6, <2>7, AccessWrites
<1>2. ASSUME NEW s \in Session, Logout(s) PROVE AccessInv'
  <2> DEFINE x == [session[s] EXCEPT !.revoked = TRUE]
  <2>1. session' = [session EXCEPT ![s] = x] /\ UNCHANGED <<admin, token, request, lateToken>>
    BY <1>2 DEF Logout, Aside
  <2>2. x.owner = session[s].owner /\ x.state = session[s].state /\ x.revoked BY <1>0 DEF Facts, SessionRow
  <2> HIDE DEF x
  <2>3. \A q \in Session : /\ session'[q].owner = session[q].owner /\ session'[q].state = session[q].state
                           /\ session[q].revoked => session'[q].revoked
    BY <1>0, <2>1, <2>2 DEF Facts
  <2>4. AccessEnds' /\ Lines' BY <2>1, <2>3 DEF AccessInv, AccessEnds, SessionsEnd, TokensEnd, Lines
  <2>5. ASSUME NEW q \in Request, request'[q] = request[q] PROVE Awaits(q)
    <3>1. Ready(request[q], admin, session, token, lateToken) /\ Local(request[q]) BY <1>0 DEF AccessInv, AllReady, Facts
    <3> QED BY <2>1, <2>3, <3>1 DEF Awaits, Ready, Local
  <2> QED BY <2>1, <2>4, <2>5, AccessWrites
<1>3. CASE UNCHANGED <<admin, session, token, request, lateToken>>
  BY <1>3 DEF AccessInv, AccessEnds, SessionsEnd, TokensEnd, Lines, AllReady, AllParted, Ready, Parted
<1> QED BY <1>1, <1>2, <1>3 DEF RequestLogin, NextStep, adminVars, Aside

LEMMA AccessKeeps == AccessInv /\ [AdminNext]_adminVars => AccessInv'
<1> SUFFICES ASSUME AccessInv, [AdminNext]_adminVars PROVE AccessInv' OBVIOUS
<1>0. AInv' BY AdminKeeps DEF AccessInv
<1>1. ASSUME NEW r \in Request, SignIn(r) PROVE AccessInv'
  BY <1>0, <1>1, ReadersKeep, OpenEnds, StoreEnds, CommitEnds DEF SignIn
<1>2. ASSUME NEW r \in Request, Manage(r) PROVE AccessInv'
  BY <1>0, <1>2, ReadersKeep, StoreEnds, DisableEnds, ResetEnds DEF Manage
<1>3. ASSUME NEW r \in Request, Issue(r) PROVE AccessInv'
  BY <1>0, <1>3, ReadersKeep, InsertEnds, RotateEnds DEF Issue
<1>4. ASSUME NEW r \in Request, Refuse(r) PROVE AccessInv' BY <1>0, <1>4, ReadersKeep
<1> QED BY <1>0, <1>1, <1>2, <1>3, <1>4, RestEnds DEF AdminNext

\* Whoever is put out is out at once, however the requests overlap: a full session that is not
\* revoked is that of an active, enrolled administrator; of a line of rotated tokens one lives
\* at most; and a disabled administrator's live tokens are ones issued while setAdminStatus()
\* was at it.
THEOREM AccessEnding == AdminSpec => []AccessEnds
<1>1. AccessInv => AccessEnds BY DEF AccessInv
<1> QED BY AccessBegins, AccessKeeps, <1>1, PTL DEF AdminSpec

-----------------------------------------------------------------------------
(* The guards of requests.                                                  *)


Holding(c) == call[c].pc \in {"running", "committed", "failing"}

\* The requests of a minute that have been counted (or were cut short), those of them that
\* went further, and the requests that have had their turn at the mutation.
Went(w) == {c \in Call : call[c].at = w /\ call[c].pc # "counting"}
Within(w) == {c \in Call : call[c].at = w /\ call[c].pc # "counting"
                             /\ call[c].answer \notin {"limited", "failed"}}
Spent == {c \in Call : call[c].pc \in {"committed", "failing", "answered"}}

Counted ==
    \A w \in 1..MaxWindow :
      /\ hits[w] <= Cardinality(Went(w))
      /\ Cardinality(Within(w)) <= hits[w]
      /\ Cardinality(Within(w)) <= RateLimit

Committed(n, b) == n \in DOMAIN performed /\ performed[n] = b

Recorded ==
    /\ \E n \in Nat : performed \in [1..n -> Body] /\ n <= Cardinality(Spent)
    /\ key.response # 0 => Committed(key.response, key.body)
    /\ \A c \in Call :
         /\ call[c].pc # "idle" => call[c].body \in Body /\ call[c].at \in 1..MaxWindow
         /\ call[c].answer = "response" => Committed(call[c].number, call[c].body)
         /\ call[c].pc = "committed" => Committed(call[c].number, call[c].body)
         /\ call[c].pc \in {"idle", "counting", "claiming", "looking", "running"} =>
              call[c].number = 0
         /\ call[c].pc # "answered" => call[c].answer = "none"
         /\ call[c].pc = "idle" => call[c] = NoCall

KeyHeld ==
    /\ \A c, d \in Call : Holding(c) /\ Holding(d) => c = d
    /\ \A c \in Call : Holding(c) => key.body = call[c].body /\ key.response = 0

KeySpent ==
    ~renounced =>
      \/ performed = <<>>
      \/ /\ DOMAIN performed = {1}
         /\ key # FreeKey
         /\ \A c \in Call : Holding(c) => call[c].pc # "running" /\ call[c].number # 0

GInv == GuardTypeOK /\ Counted /\ Recorded /\ KeyHeld /\ KeySpent

LEMMA Finite ==
    ASSUME NEW S, S \subseteq Call
    PROVE  IsFiniteSet(S) /\ Cardinality(S) \in Nat /\ Cardinality(S) <= Cardinality(Call)
  BY GuardAssumption, FS_Subset, FS_CardinalityType DEF GuardAssumption

LEMMA Monotone ==
    ASSUME NEW S, NEW T, S \subseteq T, T \subseteq Call
    PROVE  Cardinality(S) <= Cardinality(T)
  BY Finite, FS_Subset

LEMMA OneMore ==
    ASSUME NEW S, NEW c \in Call, S \subseteq Call, c \notin S
    PROVE  Cardinality(S \cup {c}) = Cardinality(S) + 1
  BY Finite, FS_AddElement

LEMMA RestingCall ==
    /\ NoCall \in CallState
    /\ NoCall.pc = "idle" /\ NoCall.at = 0 /\ NoCall.number = 0 /\ NoCall.answer = "none"
    /\ FreeKey \in KeyRow /\ FreeKey.response = 0 /\ FreeKey.body = <<>>
<1>1. 0 \in 0..MaxPerformed /\ 0 \in 0..MaxWindow
  BY Finite, GuardAssumption DEF MaxPerformed, GuardAssumption
<1> QED BY <1>1 DEF NoCall, CallState, Progressing, FreeKey, KeyRow

LEMMA GuardsBegin == GuardInit => GInv
<1> SUFFICES ASSUME GuardInit PROVE GInv OBVIOUS
<1> USE DEF GuardInit
<1>1. \A c \in Call : call[c] = NoCall OBVIOUS
<1>0. performed = <<>> /\ key = FreeKey OBVIOUS
<1>2. GuardTypeOK
  <2>1. hits \in [1..MaxWindow -> 0..Cardinality(Call)]
    BY Finite
  <2>2. window \in 1..MaxWindow /\ breaks \in 0..MaxBreak
    BY GuardAssumption DEF GuardAssumption
  <2>3. DOMAIN performed \subseteq 1..MaxPerformed
    OBVIOUS
  <2> QED BY <2>1, <2>2, <2>3, RestingCall DEF GuardTypeOK
<1>3. Counted
  <2>1. \A w \in 1..MaxWindow : Within(w) = {} /\ Went(w) = {} /\ hits[w] = 0
    BY <1>1, RestingCall DEF Within, Went
  <2> HIDE DEF GuardInit
  <2>2. \A w \in 1..MaxWindow : Cardinality(Within(w)) = 0 /\ Cardinality(Went(w)) = 0
    BY <2>1, FS_EmptySet
  <2> QED BY <2>1, <2>2, GuardAssumption DEF Counted, GuardAssumption
<1>4. Recorded
  <2>1. performed \in [1..0 -> Body] OBVIOUS
  <2>2. \E n \in Nat : performed \in [1..n -> Body] /\ n <= Cardinality(Spent)
    <3>1. Cardinality(Spent) \in Nat BY Finite DEF Spent
    <3> QED BY <2>1, <3>1
  <2> QED BY <1>1, <2>2, RestingCall DEF Recorded
<1>5. KeyHeld /\ KeySpent
  BY <1>1, <1>0, RestingCall DEF KeyHeld, KeySpent, Holding
<1> QED BY <1>2, <1>3, <1>4, <1>5 DEF GInv

LEMMA CountedStays ==
    ASSUME GuardTypeOK, Counted, hits' = hits,
           \A w \in 1..MaxWindow : Went(w) \subseteq Went(w)' /\ Within(w)' \subseteq Within(w)
    PROVE  Counted'
<1>1. SUFFICES ASSUME NEW w \in 1..MaxWindow
               PROVE  /\ hits[w] <= Cardinality(Went(w)')
                      /\ Cardinality(Within(w)') <= hits[w]
                      /\ Cardinality(Within(w)') <= RateLimit
  BY DEF Counted
<1>2. Went(w) \subseteq Went(w)' /\ Went(w)' \subseteq Call /\ Within(w)' \subseteq Within(w) /\ Within(w) \subseteq Call
  BY DEF Went, Within
<1>3. Cardinality(Went(w)) <= Cardinality(Went(w)') /\ Cardinality(Within(w)') <= Cardinality(Within(w))
  BY <1>2, Monotone
<1>4. Cardinality(Went(w)) \in Nat /\ Cardinality(Went(w)') \in Nat /\ Cardinality(Within(w)) \in Nat /\ Cardinality(Within(w)') \in Nat
  BY <1>2, Finite
<1>5. hits[w] \in Nat BY Finite DEF GuardTypeOK
<1> QED BY <1>3, <1>4, <1>5, GuardAssumption DEF Counted, GuardAssumption

LEMMA Performed ==
    ASSUME Recorded
    PROVE  \E n \in Nat : /\ performed \in [1..n -> Body] /\ n <= Cardinality(Spent)
                          /\ Cardinality(DOMAIN performed) = n /\ n <= MaxPerformed
                          /\ (performed = <<>> <=> n = 0)
<1>1. PICK n \in Nat : performed \in [1..n -> Body] /\ n <= Cardinality(Spent)
  BY DEF Recorded
<1>2. DOMAIN performed = 1..n BY <1>1
<1>3. Cardinality(1..n) = n BY FS_Interval
<1>4. n <= MaxPerformed BY <1>1, Finite DEF MaxPerformed, Spent
<1>5. performed = <<>> <=> n = 0
  BY <1>1
<1> QED BY <1>1, <1>2, <1>3, <1>4, <1>5

LEMMA SpentStays ==
    ASSUME Recorded, performed' = performed, Spent \subseteq Spent'
    PROVE  \E n \in Nat : performed' \in [1..n -> Body] /\ n <= Cardinality(Spent')
<1>1. PICK n \in Nat : performed \in [1..n -> Body] /\ n <= Cardinality(Spent)
  BY DEF Recorded
<1>2. Cardinality(Spent) <= Cardinality(Spent') /\ Cardinality(Spent) \in Nat /\ Cardinality(Spent') \in Nat
  BY Monotone, Finite DEF Spent
<1> QED BY <1>1, <1>2

\* A statement of c that is not its authentication or its count: its hit stays counted, and
\* who was turned away stays so.
LEMMA OneAdvances ==
    ASSUME GInv, NEW c \in Call, NEW r \in CallState, call' = [call EXCEPT ![c] = r],
           hits' = hits, r.at = call[c].at, r.pc # "counting",
           call[c].pc # "counting" \/ r.answer \in {"limited", "failed"},
           call[c].pc # "answered"
    PROVE  Counted'
<1>1. \A d \in Call : IF d = c THEN call'[d] = r ELSE call'[d] = call[d]
  BY DEF GInv, GuardTypeOK
<1>2. call[c].answer = "none"
  BY DEF GInv, Recorded
<1>3. \A w \in 1..MaxWindow : Went(w) \subseteq Went(w)' /\ Within(w)' \subseteq Within(w)
  BY <1>1, <1>2 DEF Went, Within
<1> QED BY <1>3, CountedStays DEF GInv

LEMMA RecordedStays ==
    ASSUME GInv, NEW c \in Call, NEW r \in CallState, performed' = performed,
           \A d \in Call : IF d = c THEN call'[d] = r ELSE call'[d] = call[d],
           Spent \subseteq Spent', r.at = call[c].at, r.body = call[c].body,
           call[c].pc # "idle", r.pc # "idle",
           r.answer = "response" \/ r.pc = "committed" => Committed(r.number, r.body),
           r.pc \in {"counting", "claiming", "looking", "running"} => r.number = 0,
           r.pc # "answered" => r.answer = "none",
           key'.response # 0 => Committed(key'.response, key'.body)
    PROVE  Recorded'
<1>1. \E n \in Nat : performed' \in [1..n -> Body] /\ n <= Cardinality(Spent')
  BY SpentStays DEF GInv
<1>3. ASSUME NEW d \in Call
      PROVE  /\ call'[d].pc # "idle" => call'[d].body \in Body /\ call'[d].at \in 1..MaxWindow
             /\ call'[d].answer = "response" => Committed(call'[d].number, call'[d].body)
             /\ call'[d].pc = "committed" => Committed(call'[d].number, call'[d].body)
             /\ call'[d].pc \in {"idle", "counting", "claiming", "looking", "running"} => call'[d].number = 0
             /\ call'[d].pc # "answered" => call'[d].answer = "none"
             /\ call'[d].pc = "idle" => call'[d] = NoCall
  <2>1. CASE d = c
    BY <2>1 DEF GInv, Recorded
  <2>2. CASE d # c
    BY <2>2 DEF GInv, Recorded
  <2> QED BY <2>1, <2>2
<1>4. \A n, b : Committed(n, b) => n \in DOMAIN performed' /\ performed'[n] = b
  BY DEF Committed
<1> QED BY <1>1, <1>3, <1>4 DEF Recorded, Committed

LEMMA AuthenticateKeeps ==
    ASSUME GInv, NEW c \in Call, NEW b \in Body, Authenticate(c, b)
    PROVE  GInv'
<1> DEFINE r == [pc |-> "counting", body |-> b, at |-> window, number |-> 0, answer |-> "none"]
<1>1. r \in CallState /\ r.pc = "counting" /\ r.body = b /\ r.at = window /\ r.number = 0 /\ r.answer = "none"
  <2>1. 0 \in 0..MaxPerformed
    BY Finite DEF MaxPerformed
  <2>2. window \in 0..MaxWindow
    BY GuardAssumption DEF GInv, GuardTypeOK, GuardAssumption
  <2> QED BY <2>1, <2>2 DEF CallState, Progressing
<1>2. call' = [call EXCEPT ![c] = r] /\ call[c].pc = "idle"
  BY DEF Authenticate
<1> HIDE DEF r
<1>3. /\ \A d \in Call : IF d = c THEN call'[d] = r ELSE call'[d] = call[d]
      /\ call' \in [Call -> CallState]
  BY <1>1, <1>2 DEF GInv, GuardTypeOK
<1>4. GuardTypeOK'
  BY <1>3 DEF GInv, GuardTypeOK, Authenticate, KeyRow
<1>5. call[c].at = 0
  BY <1>2, RestingCall DEF GInv, Recorded
<1>6. \A w \in 1..MaxWindow : Went(w) \subseteq Went(w)' /\ Within(w)' \subseteq Within(w)
  BY <1>1, <1>3, <1>5 DEF Went, Within
<1>7. Counted'
  BY <1>6, CountedStays DEF GInv, Authenticate
<1>8. Spent \subseteq Spent'
  BY <1>2, <1>3 DEF Spent
<1>9. Recorded'
  BY <1>1, <1>3, <1>8, SpentStays DEF GInv, GuardTypeOK, Recorded, Committed, Authenticate
<1>10. KeyHeld' /\ KeySpent'
  BY <1>1, <1>3 DEF GInv, KeyHeld, KeySpent, Holding, Authenticate
<1> QED BY <1>4, <1>7, <1>9, <1>10 DEF GInv

LEMMA CountHitKeeps ==
    ASSUME GInv, NEW c \in Call, CountHit(c)
    PROVE  GInv'
<1>0. PICK w \in 1..MaxWindow : w = call[c].at
  BY DEF GInv, Recorded, CountHit
<1> DEFINE r == IF hits'[w] > RateLimit THEN [call[c] EXCEPT !.pc = "answered", !.answer = "limited"]
                                        ELSE [call[c] EXCEPT !.pc = "claiming"]
<1>1. call' = [call EXCEPT ![c] = r]
  BY <1>0 DEF CountHit, Answers, Proceeds, GInv, GuardTypeOK
<1>2. /\ call[c] \in CallState /\ call[c].pc = "counting" /\ call[c].answer = "none"
      /\ call[c].at = w /\ call[c].number = 0
  BY <1>0 DEF CountHit, GInv, GuardTypeOK, Recorded
<1>3. /\ r \in CallState /\ r.at = w /\ r.body = call[c].body /\ r.number = 0
      /\ \/ r.pc = "answered" /\ r.answer = "limited" /\ hits'[w] > RateLimit
         \/ r.pc = "claiming" /\ r.answer = "none" /\ ~(hits'[w] > RateLimit)
  BY <1>2 DEF CallState, Progressing
<1> HIDE DEF r
<1>4. /\ \A d \in Call : IF d = c THEN call'[d] = r ELSE call'[d] = call[d]
      /\ call' \in [Call -> CallState]
  BY <1>1, <1>3 DEF GInv, GuardTypeOK
<1>5. /\ hits'[w] = hits[w] + 1 /\ hits' \in [1..MaxWindow -> Int]
      /\ \A v \in 1..MaxWindow : hits[v] \in Nat /\ (v # w => hits'[v] = hits[v])
  <2>1. hits \in [1..MaxWindow -> Nat]
    BY Finite DEF GInv, GuardTypeOK
  <2> QED BY <2>1, <1>2 DEF CountHit
<1>6. \A v \in 1..MaxWindow : v # w => Went(v)' = Went(v) /\ Within(v)' = Within(v)
  BY <1>2, <1>3, <1>4 DEF Went, Within
<1>7. Went(w)' = Went(w) \cup {c} /\ c \notin Went(w) /\ Went(w) \subseteq Call
  BY <1>2, <1>3, <1>4 DEF Went
<1>8. Cardinality(Went(w)') = Cardinality(Went(w)) + 1
  BY <1>7, OneMore
<1>9. Cardinality(Within(w)') <= hits'[w] /\ Cardinality(Within(w)') <= RateLimit
  <2>1. Within(w) \subseteq Call /\ c \notin Within(w)
    BY <1>2 DEF Within
  <2>2. /\ Cardinality(Within(w)) \in Nat /\ Cardinality(Within(w)) <= hits[w] /\ Cardinality(Within(w)) <= RateLimit
    BY <2>1, <1>2, Finite DEF GInv, Counted
  <2>3. CASE r.pc = "answered"
    <3>1. Within(w)' = Within(w)
      BY <2>3, <1>2, <1>3, <1>4 DEF Within
    <3> QED BY <2>2, <3>1, <1>2, <1>5
  <2>4. CASE r.pc = "claiming"
    <3>1. Within(w)' = Within(w) \cup {c}
      BY <2>4, <1>2, <1>3, <1>4 DEF Within
    <3>2. Cardinality(Within(w)') = Cardinality(Within(w)) + 1
      BY <2>1, <3>1, OneMore
    <3> QED BY <2>2, <2>4, <3>2, <1>2, <1>3, <1>5, GuardAssumption DEF GuardAssumption
  <2> QED BY <2>3, <2>4, <1>3
<1>10. Counted'
  <2>1. \A v \in 1..MaxWindow : v # w =>
          /\ hits'[v] <= Cardinality(Went(v)') /\ Cardinality(Within(v)') <= hits'[v] /\ Cardinality(Within(v)') <= RateLimit
    BY <1>5, <1>6 DEF GInv, Counted
  <2>2. hits'[w] <= Cardinality(Went(w)')
    <3>1. hits[w] <= Cardinality(Went(w)) /\ Cardinality(Went(w)) \in Nat
      BY <1>2, <1>7, Finite DEF GInv, Counted
    <3> QED BY <3>1, <1>2, <1>5, <1>8
  <2>3. \A v \in 1..MaxWindow :
          hits'[v] <= Cardinality(Went(v)') /\ Cardinality(Within(v)') <= hits'[v] /\ Cardinality(Within(v)') <= RateLimit
    BY <2>1, <2>2, <1>9
  <2> QED BY <2>3 DEF Counted
<1>11. GuardTypeOK'
  <2>1. \A v \in 1..MaxWindow : hits'[v] \in 0..Cardinality(Call)
    <3> TAKE v \in 1..MaxWindow
    <3>1. hits'[v] <= Cardinality(Went(v)') BY <1>10 DEF Counted
    <3>2. Cardinality(Went(v)') <= Cardinality(Call) /\ Cardinality(Went(v)') \in Nat /\ Cardinality(Call) \in Nat
      BY Finite DEF Went
    <3>3. hits'[v] \in Nat BY <1>5
    <3> QED BY <3>1, <3>2, <3>3
  <2>2. hits' \in [1..MaxWindow -> 0..Cardinality(Call)]
    BY <2>1, <1>5
  <2> QED BY <2>2, <1>4 DEF GInv, GuardTypeOK, CountHit, KeyRow
<1>12. Spent \subseteq Spent'
  BY <1>2, <1>4 DEF Spent
<1>13. Recorded'
  BY <1>2, <1>3, <1>4, <1>12, SpentStays DEF GInv, GuardTypeOK, Recorded, Committed, CountHit
<1>14. KeyHeld' /\ KeySpent'
  BY <1>3, <1>4 DEF GInv, KeyHeld, KeySpent, Holding, CountHit
<1> QED BY <1>10, <1>11, <1>13, <1>14 DEF GInv
LEMMA ClaimKeyKeeps ==
    ASSUME GInv, NEW c \in Call, ClaimKey(c)
    PROVE  GInv'
<1> DEFINE r == [call[c] EXCEPT !.pc = IF key = FreeKey THEN "running" ELSE "looking"]
<1>1. call' = [call EXCEPT ![c] = r]
  BY DEF ClaimKey, Answers, Proceeds, GInv, GuardTypeOK
<1>2. call[c] \in CallState /\ call[c].pc = "claiming" /\ call[c].number = 0 /\ call[c].answer = "none" /\ call[c].body \in Body
  BY DEF ClaimKey, GInv, GuardTypeOK, Recorded, Progressing
<1>3. r \in CallState /\ r.at = call[c].at /\ r.body = call[c].body /\ r.number = 0 /\ r.answer = "none" /\ r.pc = (IF key = FreeKey THEN "running" ELSE "looking")
  BY <1>2 DEF CallState, Progressing, GInv, GuardTypeOK, KeyRow
<1> HIDE DEF r
<1>4. /\ \A d \in Call : IF d = c THEN call'[d] = r ELSE call'[d] = call[d]
      /\ call' \in [Call -> CallState]
  BY <1>1, <1>3 DEF GInv, GuardTypeOK
<1>5. Counted'
  BY <1>1, <1>2, <1>3, OneAdvances DEF ClaimKey
<1>6. Spent \subseteq Spent'
  BY <1>2, <1>3, <1>4 DEF Spent
<1>7. GuardTypeOK'
  BY <1>4, RestingCall, <1>2 DEF GInv, GuardTypeOK, ClaimKey, KeyRow, FreeKey
<1>8. Recorded'
  <2>1. key'.response # 0 => Committed(key'.response, key'.body)
    BY <1>2, RestingCall DEF GInv, Recorded, KeyHeld, Holding, Committed, ClaimKey, FreeKey, GuardTypeOK, KeyRow
  <2>2. r.answer = "response" \/ r.pc = "committed" => Committed(r.number, r.body)
    BY <1>2, <1>3 DEF GInv, Recorded
  <2> QED BY <1>2, <1>3, <1>4, <1>6, <2>1, <2>2, RecordedStays DEF ClaimKey, Progressing
<1>9. KeyHeld' /\ KeySpent'
  <2>1. CASE key = FreeKey
    <3>1. \A d \in Call : ~Holding(d)
      BY <2>1, GuardAssumption DEF GInv, KeyHeld, Holding, Recorded, FreeKey, GuardAssumption
    <3>2. \A d \in Call : Holding(d)' <=> d = c
      BY <2>1, <3>1, <1>3, <1>4 DEF Holding
    <3>3. key' = [FreeKey EXCEPT !.body = call[c].body] /\ renounced' = renounced /\ performed' = performed
      BY <2>1 DEF ClaimKey
    <3>4. KeyHeld'
      BY <3>2, <3>3, <1>3, <1>4, RestingCall DEF KeyHeld, FreeKey
    <3>5. KeySpent'
      BY <2>1, <3>3 DEF GInv, KeySpent
    <3> QED BY <3>4, <3>5
  <2>2. CASE key # FreeKey
    BY <2>2, <1>2, <1>3, <1>4 DEF GInv, KeyHeld, KeySpent, Holding, ClaimKey
  <2> QED BY <2>1, <2>2
<1> QED BY <1>5, <1>7, <1>8, <1>9 DEF GInv

LEMMA LookUpKeeps ==
    ASSUME GInv, NEW c \in Call, LookUp(c)
    PROVE  GInv'
<1> DEFINE r == IF key.body # call[c].body THEN [call[c] EXCEPT !.pc = "answered", !.answer = "conflict"]
                ELSE IF key.response = 0 THEN [call[c] EXCEPT !.pc = "answered", !.answer = "in progress"]
                ELSE [call[c] EXCEPT !.pc = "answered", !.answer = "response", !.number = key.response]
<1>1. call' = [call EXCEPT ![c] = r]
  BY DEF LookUp, Answers, Proceeds, GInv, GuardTypeOK
<1>2. call[c] \in CallState /\ call[c].pc = "looking" /\ call[c].number = 0 /\ call[c].answer = "none" /\ call[c].body \in Body
  BY DEF LookUp, GInv, GuardTypeOK, Recorded, Progressing
<1>3. r \in CallState /\ r.at = call[c].at /\ r.body = call[c].body /\ r.pc = "answered"
      /\ (r.answer = "response" => key.response # 0 /\ key.body = call[c].body /\ r.number = key.response)
  BY <1>2 DEF CallState, Progressing, GInv, GuardTypeOK, KeyRow
<1> HIDE DEF r
<1>4. /\ \A d \in Call : IF d = c THEN call'[d] = r ELSE call'[d] = call[d]
      /\ call' \in [Call -> CallState]
  BY <1>1, <1>3 DEF GInv, GuardTypeOK
<1>5. Counted'
  BY <1>1, <1>2, <1>3, OneAdvances DEF LookUp
<1>6. Spent \subseteq Spent'
  BY <1>2, <1>3, <1>4 DEF Spent
<1>7. GuardTypeOK'
  BY <1>4 DEF GInv, GuardTypeOK, LookUp, KeyRow, FreeKey
<1>8. Recorded'
  <2>1. key'.response # 0 => Committed(key'.response, key'.body)
    BY <1>2, RestingCall DEF GInv, Recorded, KeyHeld, Holding, Committed, LookUp, FreeKey, GuardTypeOK, KeyRow
  <2>2. r.answer = "response" \/ r.pc = "committed" => Committed(r.number, r.body)
    BY <1>2, <1>3 DEF GInv, Recorded
  <2> QED BY <1>2, <1>3, <1>4, <1>6, <2>1, <2>2, RecordedStays DEF LookUp, Progressing
<1>9. KeyHeld' /\ KeySpent'
  BY <1>2, <1>3, <1>4 DEF GInv, KeyHeld, KeySpent, Holding, LookUp, FreeKey
<1> QED BY <1>5, <1>7, <1>8, <1>9 DEF GInv

LEMMA FailRunKeeps ==
    ASSUME GInv, NEW c \in Call, FailRun(c)
    PROVE  GInv'
<1> DEFINE r == [call[c] EXCEPT !.pc = "failing"]
<1>1. call' = [call EXCEPT ![c] = r]
  BY DEF FailRun, Answers, Proceeds, GInv, GuardTypeOK
<1>2. call[c] \in CallState /\ call[c].pc \in {"running", "committed"} /\ call[c].answer = "none" /\ call[c].body \in Body
  BY DEF FailRun, GInv, GuardTypeOK, Recorded, Progressing
<1>3. r \in CallState /\ r.at = call[c].at /\ r.body = call[c].body /\ r.pc = "failing" /\ r.answer = "none" /\ r.number = call[c].number
  BY <1>2 DEF CallState, Progressing, GInv, GuardTypeOK, KeyRow
<1> HIDE DEF r
<1>4. /\ \A d \in Call : IF d = c THEN call'[d] = r ELSE call'[d] = call[d]
      /\ call' \in [Call -> CallState]
  BY <1>1, <1>3 DEF GInv, GuardTypeOK
<1>5. Counted'
  BY <1>1, <1>2, <1>3, OneAdvances DEF FailRun
<1>6. Spent \subseteq Spent'
  BY <1>2, <1>3, <1>4 DEF Spent
<1>7. GuardTypeOK'
  BY <1>4, GuardAssumption DEF GuardAssumption, GInv, GuardTypeOK, FailRun, KeyRow, FreeKey
<1>8. Recorded'
  <2>1. key'.response # 0 => Committed(key'.response, key'.body)
    BY <1>2, RestingCall DEF GInv, Recorded, KeyHeld, Holding, Committed, FailRun, FreeKey, GuardTypeOK, KeyRow
  <2>2. r.answer = "response" \/ r.pc = "committed" => Committed(r.number, r.body)
    BY <1>2, <1>3 DEF GInv, Recorded
  <2> QED BY <1>2, <1>3, <1>4, <1>6, <2>1, <2>2, RecordedStays DEF FailRun, Progressing
<1>9. KeyHeld' /\ KeySpent'
  BY <1>2, <1>3, <1>4 DEF GInv, KeyHeld, KeySpent, Holding, FailRun, FreeKey
<1> QED BY <1>5, <1>7, <1>8, <1>9 DEF GInv

LEMMA ReleaseKeyKeeps ==
    ASSUME GInv, NEW c \in Call, ReleaseKey(c)
    PROVE  GInv'
<1> DEFINE r == [call[c] EXCEPT !.pc = "answered", !.answer = "failed"]
<1>1. call' = [call EXCEPT ![c] = r]
  BY DEF ReleaseKey, Answers, Proceeds, GInv, GuardTypeOK
<1>2. call[c] \in CallState /\ call[c].pc = "failing" /\ call[c].answer = "none" /\ call[c].body \in Body
  BY DEF ReleaseKey, GInv, GuardTypeOK, Recorded, Progressing
<1>3. r \in CallState /\ r.at = call[c].at /\ r.body = call[c].body /\ r.pc = "answered" /\ r.answer = "failed" /\ r.number = call[c].number
  BY <1>2 DEF CallState, Progressing, GInv, GuardTypeOK, KeyRow
<1> HIDE DEF r
<1>4. /\ \A d \in Call : IF d = c THEN call'[d] = r ELSE call'[d] = call[d]
      /\ call' \in [Call -> CallState]
  BY <1>1, <1>3 DEF GInv, GuardTypeOK
<1>5. Counted'
  BY <1>1, <1>2, <1>3, OneAdvances DEF ReleaseKey
<1>6. Spent \subseteq Spent'
  BY <1>2, <1>3, <1>4 DEF Spent
<1>7. GuardTypeOK'
  BY <1>4 DEF GInv, GuardTypeOK, ReleaseKey, KeyRow, FreeKey
<1>8. Recorded'
  <2>1. key'.response # 0 => Committed(key'.response, key'.body)
    BY <1>2, RestingCall DEF GInv, Recorded, KeyHeld, Holding, Committed, ReleaseKey, FreeKey, GuardTypeOK, KeyRow
  <2>2. r.answer = "response" \/ r.pc = "committed" => Committed(r.number, r.body)
    BY <1>2, <1>3 DEF GInv, Recorded
  <2> QED BY <1>2, <1>3, <1>4, <1>6, <2>1, <2>2, RecordedStays DEF ReleaseKey, Progressing
<1>9. KeyHeld' /\ KeySpent'
  BY <1>2, <1>3, <1>4 DEF GInv, KeyHeld, KeySpent, Holding, ReleaseKey, FreeKey
<1> QED BY <1>5, <1>7, <1>8, <1>9 DEF GInv

LEMMA StoreResponseKeeps ==
    ASSUME GInv, NEW c \in Call, StoreResponse(c)
    PROVE  GInv'
<1> DEFINE r == [call[c] EXCEPT !.pc = "answered", !.answer = "response"]
<1>1. call' = [call EXCEPT ![c] = r]
  BY DEF StoreResponse, Answers, Proceeds, GInv, GuardTypeOK
<1>2. call[c] \in CallState /\ call[c].pc = "committed" /\ call[c].answer = "none" /\ call[c].body \in Body
  BY DEF StoreResponse, GInv, GuardTypeOK, Recorded, Progressing
<1>3. r \in CallState /\ r.at = call[c].at /\ r.body = call[c].body /\ r.pc = "answered" /\ r.answer = "response" /\ r.number = call[c].number
  BY <1>2 DEF CallState, Progressing, GInv, GuardTypeOK, KeyRow
<1> HIDE DEF r
<1>4. /\ \A d \in Call : IF d = c THEN call'[d] = r ELSE call'[d] = call[d]
      /\ call' \in [Call -> CallState]
  BY <1>1, <1>3 DEF GInv, GuardTypeOK
<1>5. Counted'
  BY <1>1, <1>2, <1>3, OneAdvances DEF StoreResponse
<1>6. Spent \subseteq Spent'
  BY <1>2, <1>3, <1>4 DEF Spent
<1>7. GuardTypeOK'
  BY <1>2, <1>4 DEF GInv, GuardTypeOK, StoreResponse, KeyRow, FreeKey, CallState
<1>8. Recorded'
  <2>1. key'.response # 0 => Committed(key'.response, key'.body)
    BY <1>2, RestingCall DEF GInv, Recorded, KeyHeld, Holding, Committed, StoreResponse, FreeKey, GuardTypeOK, KeyRow
  <2>2. r.answer = "response" \/ r.pc = "committed" => Committed(r.number, r.body)
    BY <1>2, <1>3 DEF GInv, Recorded
  <2> QED BY <1>2, <1>3, <1>4, <1>6, <2>1, <2>2, RecordedStays DEF StoreResponse, Progressing
<1>9. KeyHeld' /\ KeySpent'
  BY <1>2, <1>3, <1>4 DEF GInv, KeyHeld, KeySpent, Holding, StoreResponse, FreeKey
<1> QED BY <1>5, <1>7, <1>8, <1>9 DEF GInv

LEMMA BreakKeeps ==
    ASSUME GInv, NEW c \in Call, Break(c)
    PROVE  GInv'
<1> DEFINE r == [call[c] EXCEPT !.pc = "answered", !.answer = "failed"]
<1>1. call' = [call EXCEPT ![c] = r]
  BY DEF Break, Answers, Proceeds, GInv, GuardTypeOK
<1>2. call[c] \in CallState /\ call[c].pc \in Progressing /\ call[c].answer = "none" /\ call[c].body \in Body
  BY DEF Break, GInv, GuardTypeOK, Recorded, Progressing
<1>3. r \in CallState /\ r.at = call[c].at /\ r.body = call[c].body /\ r.pc = "answered" /\ r.answer = "failed" /\ r.number = call[c].number
  BY <1>2 DEF CallState, Progressing, GInv, GuardTypeOK, KeyRow
<1> HIDE DEF r
<1>4. /\ \A d \in Call : IF d = c THEN call'[d] = r ELSE call'[d] = call[d]
      /\ call' \in [Call -> CallState]
  BY <1>1, <1>3 DEF GInv, GuardTypeOK
<1>5. Counted'
  BY <1>1, <1>2, <1>3, OneAdvances DEF Break, Progressing
<1>6. Spent \subseteq Spent'
  BY <1>2, <1>3, <1>4 DEF Spent
<1>7. GuardTypeOK'
  BY <1>4, GuardAssumption DEF GuardAssumption, GInv, GuardTypeOK, Break, KeyRow, FreeKey
<1>8. Recorded'
  <2>1. key'.response # 0 => Committed(key'.response, key'.body)
    BY <1>2, RestingCall DEF GInv, Recorded, KeyHeld, Holding, Committed, Break, FreeKey, GuardTypeOK, KeyRow
  <2>2. r.answer = "response" \/ r.pc = "committed" => Committed(r.number, r.body)
    BY <1>2, <1>3 DEF GInv, Recorded
  <2> QED BY <1>2, <1>3, <1>4, <1>6, <2>1, <2>2, RecordedStays DEF Break, Progressing
<1>9. KeyHeld' /\ KeySpent'
  BY <1>2, <1>3, <1>4 DEF GInv, KeyHeld, KeySpent, Holding, Break, FreeKey
<1> QED BY <1>5, <1>7, <1>8, <1>9 DEF GInv

LEMMA PerformKeeps ==
    ASSUME GInv, NEW c \in Call, Perform(c)
    PROVE  GInv'
<1>0. PICK n \in Nat : /\ performed \in [1..n -> Body] /\ n <= Cardinality(Spent)
                       /\ Cardinality(DOMAIN performed) = n /\ n <= MaxPerformed
                       /\ (performed = <<>> <=> n = 0)
  BY Performed DEF GInv
<1> DEFINE r == [call[c] EXCEPT !.pc = "committed", !.number = n + 1]
<1>1. call' = [call EXCEPT ![c] = r]
  BY <1>0 DEF Perform, GInv, GuardTypeOK
<1>2. /\ call[c] \in CallState /\ call[c].pc = "running" /\ call[c].answer = "none"
      /\ call[c].body \in Body /\ call[c].number = 0
  BY DEF Perform, GInv, GuardTypeOK, Recorded
<1>3. Spent \cup {c} \subseteq Call /\ c \notin Spent
  BY <1>2 DEF Spent
<1>4. n + 1 <= Cardinality(Spent \cup {c}) /\ n + 1 <= MaxPerformed
  <2>1. Cardinality(Spent \cup {c}) = Cardinality(Spent) + 1 /\ Cardinality(Spent) \in Nat
    BY <1>3, OneMore, Finite
  <2>2. Cardinality(Spent \cup {c}) <= Cardinality(Call) /\ Cardinality(Call) \in Nat
    BY <1>3, Finite
  <2> QED BY <1>0, <2>1, <2>2 DEF MaxPerformed
<1>5. /\ r \in CallState /\ r.at = call[c].at /\ r.body = call[c].body /\ r.pc = "committed"
      /\ r.answer = "none" /\ r.number = n + 1
  <2>1. n + 1 \in 0..MaxPerformed
    BY <1>4, Finite DEF MaxPerformed
  <2> QED BY <1>2, <2>1 DEF CallState, Progressing
<1> HIDE DEF r
<1>6. /\ \A d \in Call : IF d = c THEN call'[d] = r ELSE call'[d] = call[d]
      /\ call' \in [Call -> CallState]
  BY <1>1, <1>5 DEF GInv, GuardTypeOK
<1>7. Counted'
  BY <1>1, <1>2, <1>5, OneAdvances DEF Perform
<1>8. performed' \in [1..n + 1 -> Body] /\ performed'[n + 1] = call[c].body /\ \A i \in 1..n : performed'[i] = performed[i]
  <2>1. performed' = [i \in 1..n + 1 |-> IF i = n + 1 THEN call[c].body ELSE performed[i]]
    BY <1>0 DEF Perform
  <2> QED BY <1>0, <1>2, <2>1
<1>9. GuardTypeOK'
  <2>1. DOMAIN performed' \subseteq 1..MaxPerformed
    BY <1>4, <1>8, Finite DEF MaxPerformed
  <2> QED BY <1>6, <2>1 DEF GInv, GuardTypeOK, Perform, KeyRow
<1>10. \E m \in Nat : performed' \in [1..m -> Body] /\ m <= Cardinality(Spent')
  <2>1. Spent' = Spent \cup {c}
    BY <1>2, <1>5, <1>6 DEF Spent
  <2> QED BY <1>4, <1>8, <2>1
<1>11. \A m, b : Committed(m, b) => m \in DOMAIN performed' /\ performed'[m] = b
  BY <1>0, <1>8 DEF Committed
<1>12. Recorded'
  <2>1. n + 1 \in DOMAIN performed' /\ performed'[n + 1] = r.body
    BY <1>5, <1>8
  <2>2. ASSUME NEW d \in Call
        PROVE  /\ call'[d].pc # "idle" => call'[d].body \in Body /\ call'[d].at \in 1..MaxWindow
               /\ call'[d].answer = "response" \/ call'[d].pc = "committed" =>
                    call'[d].number \in DOMAIN performed' /\ performed'[call'[d].number] = call'[d].body
               /\ call'[d].pc \in {"idle", "counting", "claiming", "looking", "running"} => call'[d].number = 0
               /\ call'[d].pc # "answered" => call'[d].answer = "none"
               /\ call'[d].pc = "idle" => call'[d] = NoCall
    <3>1. CASE d = c
      BY <3>1, <2>1, <1>2, <1>5, <1>6 DEF GInv, Recorded
    <3>2. CASE d # c
      BY <3>2, <1>6, <1>11 DEF GInv, Recorded
    <3> QED BY <3>1, <3>2
  <2>3. key'.response # 0 => key'.response \in DOMAIN performed' /\ performed'[key'.response] = key'.body
    BY <1>11 DEF GInv, Recorded, Perform
  <2> QED BY <1>10, <2>2, <2>3 DEF Recorded, Committed
<1>13. KeyHeld'
  BY <1>2, <1>5, <1>6 DEF GInv, KeyHeld, Holding, Perform
<1>14. KeySpent'
  <2>1. CASE renounced
    BY <2>1 DEF KeySpent, Perform
  <2>2. CASE ~renounced
    <3>1. n = 0
      BY <2>2, <1>0, <1>2 DEF GInv, KeySpent, Holding
    <3>2. DOMAIN performed' = {1}
      BY <3>1, <1>8
    <3>3. key # FreeKey
      BY <1>2, GuardAssumption DEF GInv, KeyHeld, Holding, FreeKey, GuardAssumption
    <3> QED BY <3>2, <3>3, <1>0, <1>2, <1>5, <1>6 DEF GInv, KeyHeld, KeySpent, Holding, Perform
  <2> QED BY <2>1, <2>2
<1> QED BY <1>7, <1>9, <1>12, <1>13, <1>14 DEF GInv

LEMMA SurroundingsKeep ==
    ASSUME GInv, PurgeKey \/ NextWindow \/ RevokeCredential \/ UNCHANGED guardVars
    PROVE  GInv'
<1>1. call' = call /\ hits' = hits /\ performed' = performed /\ breaks' = breaks
  BY DEF PurgeKey, NextWindow, RevokeCredential, guardVars
<1>2. key' \in {key, FreeKey} /\ (key' # key => renounced' = (renounced \/ performed # <<>>) /\ ~Held)
      /\ (key' = key => renounced' \in {renounced, renounced \/ performed # <<>>})
  BY DEF PurgeKey, NextWindow, RevokeCredential, guardVars
<1>3. GuardTypeOK'
  <2>1. key' \in KeyRow
    BY <1>2, RestingCall DEF GInv, GuardTypeOK
  <2>2. window' \in 1..MaxWindow
    BY GuardAssumption DEF GInv, GuardTypeOK, PurgeKey, NextWindow, RevokeCredential, guardVars, GuardAssumption
  <2>3. credential' \in BOOLEAN
    BY DEF GInv, GuardTypeOK, PurgeKey, NextWindow, RevokeCredential, guardVars
  <2>4. renounced' \in BOOLEAN
    BY DEF GInv, GuardTypeOK, PurgeKey, NextWindow, RevokeCredential, guardVars
  <2> QED BY <1>1, <2>1, <2>2, <2>3, <2>4 DEF GInv, GuardTypeOK
<1>4. Counted'
  BY <1>1, CountedStays DEF GInv, Went, Within
<1>5. Recorded'
  BY <1>1, <1>2, RestingCall DEF GInv, Recorded, Committed, Spent
<1>6. KeyHeld' /\ KeySpent'
  BY <1>1, <1>2 DEF GInv, KeyHeld, KeySpent, Holding, Held
<1> QED BY <1>3, <1>4, <1>5, <1>6 DEF GInv

LEMMA GuardsStep == GInv /\ [GuardNext]_guardVars => GInv'
  BY AuthenticateKeeps, CountHitKeeps, ClaimKeyKeeps, LookUpKeeps, PerformKeeps, FailRunKeeps,
     ReleaseKeyKeeps, StoreResponseKeeps, BreakKeeps, SurroundingsKeep DEF GuardNext

LEMMA GuardsPromise == GInv => RequestsGuarded
<1> SUFFICES ASSUME GInv PROVE RequestsGuarded OBVIOUS
<1>1. ~renounced => Cardinality(DOMAIN performed) <= 1
  <2>1. Cardinality({1}) = 1
    BY FS_Singleton
  <2>2. performed = <<>> => Cardinality(DOMAIN performed) = 0
    BY Performed DEF GInv
  <2> QED BY <2>1, <2>2 DEF GInv, KeySpent
<1>2. OncePerKey
  BY <1>1 DEF OncePerKey, GInv, Recorded, Committed
<1>3. WithinRate
  BY DEF WithinRate, GInv, Counted, Within
<1> QED BY <1>2, <1>3 DEF RequestsGuarded

\* Every request under the rate limit and the idempotency key, the key's row and the counters
\* of the minutes keep their types.
THEOREM GuardTyping == GuardSpec => []GuardTypeOK
<1>1. GInv => GuardTypeOK BY DEF GInv
<1> QED BY <1>1, GuardsBegin, GuardsStep, PTL DEF GuardSpec

\* Under one key a mutation is committed once, until a failure after the commit or a day has
\* freed the key, a response is only given for what was asked, and of the requests of one
\* minute no more than the limit go further: guardMutation() claims the key by one insertion
\* and consumeRateLimit() counts by one statement, wherever requests are cut short.
THEOREM MutationsGuarded == GuardSpec => []RequestsGuarded
  BY GuardsBegin, GuardsStep, GuardsPromise, PTL DEF GuardSpec
===============================================================================
