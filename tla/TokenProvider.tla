---------------------------- MODULE TokenProvider ----------------------------
(***************************************************************************)
(* The machine credential of the brain and the one request made with it    *)
(* (application/api_integrations/oidc/token_provider.py and                *)
(* application/api_integrations/memory_service/memory_service_client.py):  *)
(* awaken asks the provider for a bearer, which is cached until shortly    *)
(* before it lapses and exchanged under a lock, and sends it to the memory *)
(* service.                                                                *)
(*                                                                         *)
(* What separates the two clocks is time on the wire: a token lives from   *)
(* when its issuer made it, the cache counts from when the answer came, and *)
(* the memory service looks at it when the request arrives.  A leg that    *)
(* takes too long ends in a timeout.                                       *)
(***************************************************************************)
EXTENDS Naturals, Sequences

CONSTANTS
    Calls,      \* calls of awaken, each made at most once
    Lifetimes,  \* how long tokens live at their issuer
    Leeway,     \* leeway
    MintDelay,  \* the longest an exchange takes from issue to arrival
    Flight,     \* the longest a request is under way to the memory service
    MaxTime,    \* bound on the clock
    None

Time == 0..MaxTime

Bearer == [life : Lifetimes, issuedAt : Time]

ASSUME TokenAssumption ==
    /\ Lifetimes \subseteq Nat
    /\ Leeway \in Nat /\ MintDelay \in Nat /\ Flight \in Nat /\ MaxTime \in Nat
    /\ MintDelay + Flight <= Leeway
    /\ None \notin Bearer

VARIABLES
    now,       \* time.monotonic
    token,     \* _token
    expiresAt, \* _expires_at
    queue,     \* _lock: holder, then waiters
    pc,        \* how far each call is
    bearer,    \* what it was given, None once it is over
    told,      \* the expires_in of an answer on its way; 0 if missing or unreadable
    left,      \* when its request left, 0 unless it is under way
    result     \* how it ended

vars == <<now, token, expiresAt, queue, pc, bearer, told, left, result>>

-----------------------------------------------------------------------------
\* Slip: a token is good until it lapses.
FreshToTheEnd == token # None /\ now < expiresAt

_fresh == token # None /\ now + Leeway < expiresAt

\* Slip: nobody takes the lock.
NeverLocked == FALSE

Locked == queue # <<>>

HoldsLock(c) == Locked /\ Head(queue) = c

Goto(c, phase) == pc' = [pc EXCEPT ![c] = phase]

\* The request leaves, carrying a bearer.
Send(c, b) ==
    /\ bearer' = [bearer EXCEPT ![c] = b]
    /\ left' = [left EXCEPT ![c] = now]
    /\ Goto(c, "sending")

-----------------------------------------------------------------------------
(* __call__.                                                               *)

CallServed(c) ==
    /\ pc[c] = "idle"
    /\ _fresh
    /\ Send(c, token)
    /\ UNCHANGED <<now, token, expiresAt, queue, told, result>>

\* Slip: a call that finds the lock taken exchanges all the same.
CallBarges(c) ==
    /\ pc[c] = "idle"
    /\ ~_fresh
    /\ queue' = Append(queue, c)
    /\ Goto(c, "minting")
    /\ UNCHANGED <<now, token, expiresAt, bearer, told, left, result>>

\* The lock is free: taken, and the token rechecked, without an await.
CallMints(c) ==
    /\ pc[c] = "idle"
    /\ ~_fresh
    /\ ~Locked
    /\ queue' = Append(queue, c)
    /\ Goto(c, "minting")
    /\ UNCHANGED <<now, token, expiresAt, bearer, told, left, result>>

CallWaits(c) ==
    /\ pc[c] = "idle"
    /\ ~_fresh
    /\ Locked
    /\ queue' = Append(queue, c)
    /\ Goto(c, "waiting")
    /\ UNCHANGED <<now, token, expiresAt, bearer, told, left, result>>

\* The wait paid off: the call before it has stored a token.
WakeServed(c) ==
    /\ pc[c] = "waiting"
    /\ HoldsLock(c)
    /\ _fresh
    /\ queue' = Tail(queue)
    /\ Send(c, token)
    /\ UNCHANGED <<now, token, expiresAt, told, result>>

\* Slip: no second look under the lock.
WakeMintsAnyway(c) ==
    /\ pc[c] = "waiting"
    /\ HoldsLock(c)
    /\ Goto(c, "minting")
    /\ UNCHANGED <<now, token, expiresAt, queue, bearer, told, left, result>>

WakeMints(c) ==
    /\ pc[c] = "waiting"
    /\ HoldsLock(c)
    /\ ~_fresh
    /\ Goto(c, "minting")
    /\ UNCHANGED <<now, token, expiresAt, queue, bearer, told, left, result>>

-----------------------------------------------------------------------------
(* _mint.                                                                  *)

\* The issuer makes a token and sends it off, saying how long it lives or not.
Issues(c) ==
    /\ pc[c] = "minting"
    /\ \E life \in Lifetimes :
         /\ bearer' = [bearer EXCEPT ![c] = [life |-> life, issuedAt |-> now]]
         /\ \E seconds \in {life, 0} : told' = [told EXCEPT ![c] = seconds]
    /\ Goto(c, "issued")
    /\ UNCHANGED <<now, token, expiresAt, queue, left, result>>

\* Slip: the token is kept without its date.
StoreBare(c) ==
    /\ token' = [life |-> told[c]]
    /\ expiresAt' = now + told[c]

Store(c) ==
    /\ token' = bearer[c]
    /\ expiresAt' = now + told[c]

MintReturns(c) ==
    /\ pc[c] = "issued"
    /\ Store(c)
    /\ queue' = Tail(queue)
    /\ Send(c, bearer[c])
    /\ told' = [told EXCEPT ![c] = 0]
    /\ UNCHANGED <<now, result>>

\* Slip: a refused exchange is repeated under the lock.
MintRepeats(c) ==
    /\ pc[c] \in {"minting", "issued"}
    /\ Goto(c, "minting")
    /\ UNCHANGED <<now, token, expiresAt, queue, bearer, told, left, result>>

\* The call is over, its local variables with it.
Return(c, value) ==
    /\ Goto(c, "done")
    /\ result' = [result EXCEPT ![c] = value]
    /\ bearer' = [bearer EXCEPT ![c] = None]
    /\ told' = [told EXCEPT ![c] = 0]
    /\ left' = [left EXCEPT ![c] = 0]

\* A TokenError, a timeout, or an answer that is no JSON: nothing is cached,
\* and the next in line tries for itself.
MintFails(c) ==
    /\ pc[c] \in {"minting", "issued"}
    /\ queue' = Tail(queue)
    /\ Return(c, "failed")
    /\ UNCHANGED <<now, token, expiresAt>>

-----------------------------------------------------------------------------
(* awaken, once it has a bearer.                                           *)

Honoured(b) == now < b.issuedAt + b.life

\* The memory service looks at the bearer: 401 if it has lapsed, or for a
\* reason of its own; any other failure, a timeout included, may come of it too.
Verdicts(b) == IF Honoured(b) THEN {"awake", "refused", "failed"} ELSE {"lapsed", "failed"}

Judged(c) ==
    /\ pc[c] = "sending"
    /\ \E v \in Verdicts(bearer[c]) : Return(c, v)
    /\ UNCHANGED <<now, token, expiresAt, queue>>

-----------------------------------------------------------------------------
\* Nothing is on the wire longer than it may be.
Tick ==
    /\ now < MaxTime
    /\ \A c \in Calls : pc[c] = "issued" => now < bearer[c].issuedAt + MintDelay
    /\ \A c \in Calls : pc[c] = "sending" => now < left[c] + Flight
    /\ now' = now + 1
    /\ UNCHANGED <<token, expiresAt, queue, pc, bearer, told, left, result>>

AtRest ==
    /\ \A c \in Calls : pc[c] = "done"
    /\ UNCHANGED vars

Init ==
    /\ now = 0
    /\ token = None
    /\ expiresAt = 0
    /\ queue = <<>>
    /\ pc = [c \in Calls |-> "idle"]
    /\ bearer = [c \in Calls |-> None]
    /\ told = [c \in Calls |-> 0]
    /\ left = [c \in Calls |-> 0]
    /\ result = [c \in Calls |-> "none"]

Make(c) == CallServed(c) \/ CallMints(c) \/ CallWaits(c)

Proceed(c) ==
    \/ WakeServed(c) \/ WakeMints(c)
    \/ Issues(c) \/ MintReturns(c) \/ MintFails(c)
    \/ Judged(c)

Next ==
    \/ \E c \in Calls : Make(c) \/ Proceed(c)
    \/ Tick
    \/ AtRest

\* The loop resumes what is ready, and every leg ends in an answer or a timeout.
Fairness == \A c \in Calls : WF_vars(Proceed(c))

Spec == Init /\ [][Next]_vars /\ Fairness

-----------------------------------------------------------------------------
Phases == {"idle", "waiting", "minting", "issued", "sending", "done"}

Results == {"none", "awake", "refused", "lapsed", "failed"}

Exchanging(c) == pc[c] \in {"minting", "issued"}

\* Type invariant.
TypeOK ==
    /\ now \in Time
    /\ token \in Bearer \cup {None}
    /\ expiresAt \in Nat
    /\ queue \in Seq(Calls)
    /\ pc \in [Calls -> Phases]
    /\ bearer \in [Calls -> Bearer \cup {None}]
    /\ told \in [Calls -> Lifetimes \cup {0}]
    /\ left \in [Calls -> Time]
    /\ result \in [Calls -> Results]

\* "Concurrent first calls share one exchange (the lock), rather than each
\* minting" (token_provider.py:46): one is out at a time, whoever fails.
OneExchange == \A c, d \in Calls : Exchanging(c) /\ Exchanging(d) => c = d

\* ... and none starts while the cached token is good, also not for a call that
\* queued up when it was not (token_provider.py:70-75).
NoNeedlessExchange ==
    [][\A c \in Calls : pc[c] # "minting" /\ pc'[c] = "minting" => ~_fresh]_vars

\* "A request never leaves carrying a bearer about to lapse in flight"
\* (token_provider.py:44-45): what the memory service finds lapsed was issued
\* for no longer than the leeway, whatever was cached and however long the
\* wires took.
NoLapseInFlight ==
    [][\A c \in Calls :
          result[c] = "none" /\ result'[c] = "lapsed" => bearer[c].life <= Leeway]_vars

\* A token is never replaced by one that was issued before it.
NeverOlder ==
    [][token # None /\ token' # None => token'.issuedAt >= token.issuedAt]_vars

\* Every call ends, however many exchanges before it fail.
EveryCallEnds == \A c \in Calls : pc[c] # "idle" ~> pc[c] = "done"
=============================================================================
