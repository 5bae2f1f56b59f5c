---------------------------- MODULE RequestGuards ----------------------------
(***************************************************************************)
(* What stands before a mutation of the admin API: the authentication of   *)
(* its token (src/services/admins.ts), the fixed-window rate limit         *)
(* (src/services/rate-limit.ts) and the Idempotency-Key                    *)
(* (src/services/idempotency.ts).                                          *)
(*                                                                         *)
(* Requests of one token with one key; each has a body, and stands for its *)
(* method and path too.  Every statement is a step: requests overlap, fail *)
(* and are cut short between any two.  What the mutation does is left out; *)
(* only that it commits, that it may fail before or after that, and that   *)
(* its responses can be told apart.                                        *)
(*                                                                         *)
(* A definition marked "Variant" is a faulty form of the one that follows. *)
(***************************************************************************)
EXTENDS Integers, FiniteSets

CONSTANTS
    Call,       \* requests
    Body,       \* what they ask for
    RateLimit,  \* rate_limit_per_minute
    MaxWindow,  \* bound: minutes
    MaxBreak    \* bound: requests cut short and statements that fail

\* A behaviour has finitely many requests; <<>> stands for NULL and is no body.
ASSUME GuardAssumption ==
    /\ IsFiniteSet(Call)
    /\ <<>> \notin Body
    /\ RateLimit \in Nat \ {0}
    /\ MaxWindow \in Nat \ {0}
    /\ MaxBreak \in Nat

VARIABLES
    credential, \* the token is live
    hits,       \* rate_limit_buckets of the token, by window_start
    window,     \* the current one
    key,        \* idempotency_records: the record of the key
    call,       \* where each request stands
    performed,  \* the bodies of the mutations committed, by number (history)
    renounced,  \* a failure or the expiry made a committed key free (history)
    breaks

guardVars == <<credential, hits, window, key, call, performed, renounced, breaks>>

-----------------------------------------------------------------------------
(* Rows and requests                                                        *)

MaxPerformed == Cardinality(Call)

\* response: the number of the mutation whose response is stored, 0 for NULL.
KeyRow == [body : Body \cup {<<>>}, response : 0..MaxPerformed]

FreeKey == [body |-> <<>>, response |-> 0]

\* at: the window of the time the request was received; number: that of its mutation.
Progressing == {"counting", "claiming", "looking", "running", "committed", "failing"}
CallState == [pc : Progressing \cup {"idle", "answered"}, body : Body \cup {<<>>},
              at : 0..MaxWindow, number : 0..MaxPerformed,
              answer : {"none", "limited", "conflict", "in progress", "failed", "response"}]

NoCall == [pc |-> "idle", body |-> <<>>, at |-> 0, number |-> 0, answer |-> "none"]

GuardInit ==
    /\ credential = TRUE
    /\ hits = [w \in 1..MaxWindow |-> 0]
    /\ window = 1
    /\ key = FreeKey
    /\ call = [c \in Call |-> NoCall]
    /\ performed = <<>>
    /\ renounced = FALSE
    /\ breaks = 0

GuardTypeOK ==
    /\ credential \in BOOLEAN
    /\ hits \in [1..MaxWindow -> 0..Cardinality(Call)]
    /\ window \in 1..MaxWindow
    /\ key \in KeyRow
    /\ call \in [Call -> CallState]
    /\ DOMAIN performed \subseteq 1..MaxPerformed
    /\ renounced \in BOOLEAN
    /\ breaks \in 0..MaxBreak

Proceeds(c, pc) == call' = [call EXCEPT ![c].pc = pc]
Answers(c, answer) == call' = [call EXCEPT ![c].pc = "answered", ![c].answer = answer]

\* The key belongs to a request that is still at it.
Held == \E c \in Call : call[c].pc \in {"running", "committed", "failing"}

-----------------------------------------------------------------------------
(* A request                                                                *)

\* authenticateApiToken(): the token is read once.
Authenticate(c, b) ==
    /\ call[c].pc = "idle"
    /\ credential
    /\ call' = [call EXCEPT ![c] =
                  [pc |-> "counting", body |-> b, at |-> window, number |-> 0, answer |-> "none"]]
    /\ UNCHANGED <<credential, hits, window, key, performed, renounced, breaks>>

\* checkRateLimits(): the hit is counted whether or not it is allowed.
CountHit(c) ==
    LET w == call[c].at IN
    /\ call[c].pc = "counting"
    /\ hits' = [hits EXCEPT ![w] = @ + 1]
    /\ IF hits'[w] > RateLimit THEN Answers(c, "limited") ELSE Proceeds(c, "claiming")
    /\ UNCHANGED <<credential, window, key, performed, renounced, breaks>>

\* withIdempotency(): INSERT ... ON CONFLICT DO NOTHING.
ClaimKey(c) ==
    /\ call[c].pc = "claiming"
    /\ IF key = FreeKey
       THEN key' = [FreeKey EXCEPT !.body = call[c].body] /\ Proceeds(c, "running")
       ELSE key' = key /\ Proceeds(c, "looking")
    /\ UNCHANGED <<credential, hits, window, performed, renounced, breaks>>

\* The record of the key is read; a key that has been released since is answered like one
\* that was used for something else.
LookUp(c) ==
    /\ call[c].pc = "looking"
    /\ IF key.body # call[c].body THEN Answers(c, "conflict")
       ELSE IF key.response = 0 THEN Answers(c, "in progress")
       ELSE call' = [call EXCEPT ![c].pc = "answered", ![c].answer = "response", ![c].number = key.response]
    /\ UNCHANGED <<credential, hits, window, key, performed, renounced, breaks>>

\* run(): the mutation commits ...
Perform(c) ==
    LET n == Cardinality(DOMAIN performed) + 1 IN
    /\ call[c].pc = "running"
    /\ performed' = [i \in 1..n |-> IF i = n THEN call[c].body ELSE performed[i]]
    /\ call' = [call EXCEPT ![c].pc = "committed", ![c].number = n]
    /\ UNCHANGED <<credential, hits, window, key, renounced, breaks>>

\* ... or fails, maybe in what follows its commit.
FailRun(c) ==
    /\ call[c].pc \in {"running", "committed"}
    /\ breaks < MaxBreak
    /\ breaks' = breaks + 1
    /\ Proceeds(c, "failing")
    /\ UNCHANGED <<credential, hits, window, key, performed, renounced>>

\* The catch block: the record is deleted if it has no response yet.
ReleaseKey(c) ==
    /\ call[c].pc = "failing"
    /\ key' = IF key.response = 0 THEN FreeKey ELSE key
    /\ renounced' = (renounced \/ call[c].number # 0)
    /\ Answers(c, "failed")
    /\ UNCHANGED <<credential, hits, window, performed, breaks>>

\* The response is stored, and given.
StoreResponse(c) ==
    /\ call[c].pc = "committed"
    /\ key' = IF key = FreeKey THEN key ELSE [key EXCEPT !.response = call[c].number]
    /\ Answers(c, "response")
    /\ UNCHANGED <<credential, hits, window, performed, renounced, breaks>>

\* Variant: a request that is cut short frees its key.
BreakAndRelease(c) ==
    /\ call[c].pc \in Progressing
    /\ breaks < MaxBreak
    /\ breaks' = breaks + 1
    /\ key' = IF call[c].pc \in {"running", "committed", "failing"} THEN FreeKey ELSE key
    /\ Answers(c, "failed")
    /\ UNCHANGED <<credential, hits, window, performed, renounced>>

\* A statement fails outside of run(), or the request is cut short: nothing is released.
Break(c) ==
    /\ call[c].pc \in Progressing
    /\ breaks < MaxBreak
    /\ breaks' = breaks + 1
    /\ Answers(c, "failed")
    /\ UNCHANGED <<credential, hits, window, key, performed, renounced>>

-----------------------------------------------------------------------------
(* Time and the administrators                                              *)

\* dailyTick(): a day after the claim, longer than any request lasts.
PurgeKey ==
    /\ key # FreeKey
    /\ ~Held
    /\ key' = FreeKey
    /\ renounced' = (renounced \/ performed # <<>>)
    /\ UNCHANGED <<credential, hits, window, call, performed, breaks>>

NextWindow ==
    /\ window < MaxWindow
    /\ window' = window + 1
    /\ UNCHANGED <<credential, hits, key, call, performed, renounced, breaks>>

\* The token is revoked, or its owner disabled.
RevokeCredential ==
    /\ credential
    /\ credential' = FALSE
    /\ UNCHANGED <<hits, window, key, call, performed, renounced, breaks>>

GuardNext ==
    \/ \E c \in Call :
         \/ \E b \in Body : Authenticate(c, b)
         \/ CountHit(c) \/ ClaimKey(c) \/ LookUp(c)
         \/ Perform(c) \/ FailRun(c) \/ ReleaseKey(c) \/ StoreResponse(c) \/ Break(c)
    \/ PurgeKey
    \/ NextWindow
    \/ RevokeCredential

GuardSpec == GuardInit /\ [][GuardNext]_guardVars

-----------------------------------------------------------------------------
(* Properties                                                               *)

\* Under one key a mutation is committed once, however its requests overlap and wherever
\* they are cut short, until a failure after the commit or a day has freed the key; and a
\* response is only ever given for what was asked.
OncePerKey ==
    /\ ~renounced => Cardinality(DOMAIN performed) <= 1
    /\ \A c \in Call : call[c].answer = "response" => performed[call[c].number] = call[c].body

\* Of the requests received in one minute no more than the limit go further.
WithinRate ==
    \A w \in 1..MaxWindow :
      Cardinality({c \in Call : call[c].at = w /\ call[c].pc # "counting"
                                  /\ call[c].answer \notin {"limited", "failed"}}) <= RateLimit

\* What the guards promise whoever writes a mutation.
RequestsGuarded == OncePerKey /\ WithinRate
=============================================================================
