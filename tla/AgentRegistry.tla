---------------------------- MODULE AgentRegistry ----------------------------
(***************************************************************************)
(* The agents this brain keeps warm                                        *)
(* (application/business_services/agent_registry.py): get serves a cached  *)
(* agent while its TTL lasts, refreshes it under a lock per agent, and     *)
(* keeps serving the old one when a refresh fails for a transient reason;  *)
(* reload rebuilds one now.                                                *)
(*                                                                         *)
(* asyncio.Lock is first come, first served: its holder and the calls      *)
(* waiting for it are one queue, the holder at its head.  The memory       *)
(* service is outside the program: an agent there is a version that        *)
(* publishing raises and that may be retired.                              *)
(***************************************************************************)
EXTENDS Naturals, Sequences

CONSTANTS
    Agents,
    Calls,       \* calls of get and of reload, each made at most once
    TTL,         \* ttl_seconds
    Retry,       \* error_retry_seconds
    MaxTime,     \* bound on the clock
    MaxVersion,  \* bound on what the memory service publishes
    Absent,      \* the answer AgentNotFound stands for
    Unavailable, \* any other failure of a load
    None

Version == 0..MaxVersion

Time == 0..MaxTime

\* What the memory service holds of an agent, and answers.
Answer == [version : Version, present : BOOLEAN]

Entry == [agent : Version, loadedAt : Time, retryAt : Nat]

ASSUME RegistryAssumption ==
    /\ TTL \in Nat
    /\ Retry \in Nat
    /\ MaxTime \in Nat
    /\ MaxVersion \in Nat
    /\ {Absent, Unavailable, None} \cap Nat = {}
    /\ Absent # Unavailable /\ Absent # None /\ Unavailable # None
    /\ {Unavailable, None} \cap Answer = {}
    /\ None \notin Entry

VARIABLES
    now,       \* time.monotonic
    service,   \* the memory service: the version of each agent, and whether it is there
    entries,   \* _entries
    queue,     \* _locks: holder, then waiters
    pc,        \* how far each call is
    kind,      \* "get" or "reload"
    arg,       \* its agent_id
    floor,     \* the oldest version it may answer with, as of when it was made
    started,   \* clock read before its load
    had,       \* entry read before its load
    got,       \* what the service answered
    result,    \* the version it returned, or the error it raised
    failedAt,  \* start of each cached agent's last failed refresh, since it was loaded
    gone       \* the oldest version not yet known to be gone

vars == <<now, service, entries, queue, pc, kind, arg, floor, started, had, got,
          result, failedAt, gone>>

-----------------------------------------------------------------------------
\* What a finished call holds instead of an agent.
Errors == {Absent, Unavailable}

_fresh(entry) == entry # None /\ now < entry.loadedAt + TTL

BackedOff(entry) == entry # None /\ now < entry.retryAt

\* What get returns without a load, before the lock and again under it.
Servable(entry) == _fresh(entry) \/ BackedOff(entry)

\* Slip: nobody takes the lock.
NeverLocked(a) == FALSE

Locked(a) == queue[a] # <<>>

Enqueue(c, a) == queue' = [queue EXCEPT ![a] = Append(@, c)]

Release(a) == queue' = [queue EXCEPT ![a] = Tail(@)]

HoldsLock(c) == Locked(arg[c]) /\ Head(queue[arg[c]]) = c

Goto(c, phase) == pc' = [pc EXCEPT ![c] = phase]

Return(c, value) ==
    /\ Goto(c, "done")
    /\ result' = [result EXCEPT ![c] = value]

\* The clock and the entry a refresh starts from.
BeginLoad(c, a) ==
    /\ Goto(c, "loading")
    /\ started' = [started EXCEPT ![c] = now]
    /\ had' = [had EXCEPT ![c] = entries[a]]

Call(c, k, a) ==
    /\ pc[c] = "idle"
    /\ kind' = [kind EXCEPT ![c] = k]
    /\ arg' = [arg EXCEPT ![c] = a]
    /\ floor' = [floor EXCEPT ![c] = IF k = "reload" THEN service[a].version ELSE gone[a]]

-----------------------------------------------------------------------------
(* get and reload, up to their first await.                                *)

GetServed(c, a) ==
    /\ Call(c, "get", a)
    /\ Servable(entries[a])
    /\ Return(c, entries[a].agent)
    /\ UNCHANGED <<now, service, entries, queue, started, had, got, failedAt, gone>>

\* Slip: a get that finds the lock taken loads all the same.
GetBarges(c, a) ==
    /\ Call(c, "get", a)
    /\ ~Servable(entries[a])
    /\ Enqueue(c, a)
    /\ BeginLoad(c, a)
    /\ UNCHANGED <<now, service, entries, got, result, failedAt, gone>>

\* The lock is free: taken, and the entry rechecked, without an await.
GetLoads(c, a) ==
    /\ Call(c, "get", a)
    /\ ~Servable(entries[a])
    /\ ~Locked(a)
    /\ Enqueue(c, a)
    /\ BeginLoad(c, a)
    /\ UNCHANGED <<now, service, entries, got, result, failedAt, gone>>

GetWaits(c, a) ==
    /\ Call(c, "get", a)
    /\ ~Servable(entries[a])
    /\ Locked(a)
    /\ Enqueue(c, a)
    /\ Goto(c, "waiting")
    /\ UNCHANGED <<now, service, entries, started, had, got, result, failedAt, gone>>

\* Slip: so does a reload.
ReloadBarges(c, a) ==
    /\ Call(c, "reload", a)
    /\ Enqueue(c, a)
    /\ BeginLoad(c, a)
    /\ UNCHANGED <<now, service, entries, got, result, failedAt, gone>>

ReloadLoads(c, a) ==
    /\ Call(c, "reload", a)
    /\ ~Locked(a)
    /\ Enqueue(c, a)
    /\ BeginLoad(c, a)
    /\ UNCHANGED <<now, service, entries, got, result, failedAt, gone>>

ReloadWaits(c, a) ==
    /\ Call(c, "reload", a)
    /\ Locked(a)
    /\ Enqueue(c, a)
    /\ Goto(c, "waiting")
    /\ UNCHANGED <<now, service, entries, started, had, got, result, failedAt, gone>>

-----------------------------------------------------------------------------
(* Under the lock.                                                         *)

\* Slips: a reload is content with a fresh entry; a failed refresh is not
\* looked at again once the lock is had.
MayServeAny(c) == Servable(entries[arg[c]])

MayServeFresh(c) == kind[c] = "get" /\ _fresh(entries[arg[c]])

\* May a call that got the lock return the cached agent after all?
MayServe(c) == kind[c] = "get" /\ Servable(entries[arg[c]])

\* The wait paid off: someone else has refreshed it, or has just failed to.
WakeServed(c) ==
    /\ pc[c] = "waiting"
    /\ HoldsLock(c)
    /\ MayServe(c)
    /\ Release(arg[c])
    /\ Return(c, entries[arg[c]].agent)
    /\ UNCHANGED <<now, service, entries, kind, arg, floor, started, had, got, failedAt, gone>>

WakeLoads(c) ==
    /\ pc[c] = "waiting"
    /\ HoldsLock(c)
    /\ ~MayServe(c)
    /\ BeginLoad(c, arg[c])
    /\ UNCHANGED <<now, service, entries, queue, kind, arg, floor, got, result, failedAt, gone>>

\* The memory service answers as it is at that moment, or there is no answer.
Responds(c) ==
    /\ pc[c] = "loading"
    /\ \E r \in {Unavailable, service[arg[c]]} : got' = [got EXCEPT ![c] = r]
    /\ Goto(c, "answered")
    /\ UNCHANGED <<now, service, entries, queue, kind, arg, floor, started, had,
                   result, failedAt, gone>>

\* Slip: an entry made without its default.
StoreBare(a, version) ==
    entries' = [entries EXCEPT ![a] = [agent |-> version, loadedAt |-> now, retryAt |-> None]]

Store(a, version) ==
    entries' = [entries EXCEPT ![a] = [agent |-> version, loadedAt |-> now, retryAt |-> 0]]

LoadReturns(c) ==
    /\ pc[c] = "answered"
    /\ got[c] # Unavailable
    /\ got[c].present
    /\ Store(arg[c], got[c].version)
    /\ failedAt' = [failedAt EXCEPT ![arg[c]] = None]
    /\ Release(arg[c])
    /\ Return(c, got[c].version)
    /\ UNCHANGED <<now, service, kind, arg, floor, started, had, got, gone>>

\* Slip: the error is passed on and the cached agent stays.
LoadAbsentKept(c) ==
    /\ pc[c] = "answered"
    /\ got[c] # Unavailable
    /\ ~got[c].present
    /\ gone' = [gone EXCEPT ![arg[c]] = got[c].version + 1]
    /\ Release(arg[c])
    /\ Return(c, Absent)
    /\ UNCHANGED <<now, service, entries, kind, arg, floor, started, had, got, failedAt>>

\* AgentNotFound: whatever was cached goes.
LoadAbsent(c) ==
    /\ pc[c] = "answered"
    /\ got[c] # Unavailable
    /\ ~got[c].present
    /\ entries' = [entries EXCEPT ![arg[c]] = None]
    /\ failedAt' = [failedAt EXCEPT ![arg[c]] = None]
    /\ gone' = [gone EXCEPT ![arg[c]] = got[c].version + 1]
    /\ Release(arg[c])
    /\ Return(c, Absent)
    /\ UNCHANGED <<now, service, kind, arg, floor, started, had, got>>

\* Slips: a get raises although something is cached; a load is repeated until
\* it succeeds.
LoadRaisesAlways(c) ==
    /\ pc[c] = "answered"
    /\ got[c] = Unavailable
    /\ Release(arg[c])
    /\ Return(c, Unavailable)
    /\ UNCHANGED <<now, service, entries, kind, arg, floor, started, had, got, failedAt, gone>>

LoadRepeats(c) ==
    /\ pc[c] = "answered"
    /\ got[c] = Unavailable
    /\ Goto(c, "loading")
    /\ UNCHANGED <<now, service, entries, queue, kind, arg, floor, started, had, got,
                   result, failedAt, gone>>

\* Any other failure with nothing cached, or of a reload, is raised.
LoadRaises(c) ==
    /\ pc[c] = "answered"
    /\ got[c] = Unavailable
    /\ kind[c] = "reload" \/ had[c] = None
    /\ Release(arg[c])
    /\ Return(c, Unavailable)
    /\ UNCHANGED <<now, service, entries, kind, arg, floor, started, had, got, failedAt, gone>>

RetryAt(c) == started[c] + Retry

\* Stale beats dark: the entry read before the load serves, and is not
\* refreshed again for a while.  It is an object: marking it matters only if
\* it is still the one cached.
LoadFails(c) ==
    /\ pc[c] = "answered"
    /\ got[c] = Unavailable
    /\ kind[c] = "get"
    /\ had[c] # None
    /\ entries' = [entries EXCEPT ![arg[c]] =
                     IF @ = had[c] THEN [had[c] EXCEPT !.retryAt = RetryAt(c)] ELSE @]
    /\ failedAt' = [failedAt EXCEPT ![arg[c]] = started[c]]
    /\ Release(arg[c])
    /\ Return(c, had[c].agent)
    /\ UNCHANGED <<now, service, kind, arg, floor, started, had, got, gone>>

-----------------------------------------------------------------------------
(* The world around.                                                       *)

Tick ==
    /\ now < MaxTime
    /\ now' = now + 1
    /\ UNCHANGED <<service, entries, queue, pc, kind, arg, floor, started, had, got,
                   result, failedAt, gone>>

Publish(a) ==
    /\ service[a].version < MaxVersion
    /\ service' = [service EXCEPT ![a] = [version |-> @.version + 1, present |-> TRUE]]
    /\ UNCHANGED <<now, entries, queue, pc, kind, arg, floor, started, had, got, result,
                   failedAt, gone>>

Retire(a) ==
    /\ service[a].present
    /\ service' = [service EXCEPT ![a].present = FALSE]
    /\ UNCHANGED <<now, entries, queue, pc, kind, arg, floor, started, had, got, result,
                   failedAt, gone>>

AtRest ==
    /\ \A c \in Calls : pc[c] = "done"
    /\ UNCHANGED vars

Init ==
    /\ now = 0
    /\ service \in [Agents -> [version : {0}, present : BOOLEAN]]
    /\ entries = [a \in Agents |-> None]
    /\ queue = [a \in Agents |-> <<>>]
    /\ pc = [c \in Calls |-> "idle"]
    /\ kind = [c \in Calls |-> "get"]
    /\ arg = [c \in Calls |-> None]
    /\ floor = [c \in Calls |-> 0]
    /\ started = [c \in Calls |-> 0]
    /\ had = [c \in Calls |-> None]
    /\ got = [c \in Calls |-> None]
    /\ result = [c \in Calls |-> None]
    /\ failedAt = [a \in Agents |-> None]
    /\ gone = [a \in Agents |-> 0]

Make(c, a) ==
    \/ GetServed(c, a) \/ GetLoads(c, a) \/ GetWaits(c, a)
    \/ ReloadLoads(c, a) \/ ReloadWaits(c, a)

Proceed(c) ==
    \/ WakeServed(c) \/ WakeLoads(c)
    \/ Responds(c)
    \/ LoadReturns(c) \/ LoadAbsent(c) \/ LoadRaises(c) \/ LoadFails(c)

Next ==
    \/ \E c \in Calls, a \in Agents : Make(c, a)
    \/ \E c \in Calls : Proceed(c)
    \/ Tick
    \/ \E a \in Agents : Publish(a) \/ Retire(a)
    \/ AtRest

\* The loop resumes what is ready and a load answers or times out.
Fairness == \A c \in Calls : WF_vars(Proceed(c))

Spec == Init /\ [][Next]_vars /\ Fairness

-----------------------------------------------------------------------------
Phases == {"idle", "waiting", "loading", "answered", "done"}

InFlight(c) == pc[c] \in {"loading", "answered"}

\* Type invariant.
TypeOK ==
    /\ now \in Time
    /\ service \in [Agents -> Answer]
    /\ entries \in [Agents -> Entry \cup {None}]
    /\ queue \in [Agents -> Seq(Calls)]
    /\ pc \in [Calls -> Phases]
    /\ kind \in [Calls -> {"get", "reload"}]
    /\ arg \in [Calls -> Agents \cup {None}]
    /\ floor \in [Calls -> Nat]
    /\ started \in [Calls -> Time]
    /\ had \in [Calls -> Entry \cup {None}]
    /\ got \in [Calls -> Answer \cup {Unavailable, None}]
    /\ result \in [Calls -> Version \cup Errors \cup {None}]
    /\ failedAt \in [Agents -> Time \cup {None}]
    /\ gone \in [Agents -> Nat]

\* However many turns ask for an agent at once, one of them loads it
\* (agent_registry.py:87-93).
SingleFlight ==
    \A c, d \in Calls : InFlight(c) /\ InFlight(d) /\ arg[c] = arg[d] => c = d

\* A refresh is applied to the entry it started from: nobody replaces or drops
\* the entry while a load is out (agent_registry.py:89, 97-106).
NobodyElseWrites == \A c \in Calls : InFlight(c) => had[c] = entries[arg[c]]

\* A reload answers with an agent at least as new as the one published when it
\* was asked for, even if it had to wait for a load already out
\* (agent_registry.py:108-115 "rebuild one agent now").
ReloadSeesLatest ==
    \A c \in Calls : kind[c] = "reload" /\ result[c] \in Version => result[c] >= floor[c]

\* The cached agent never goes back to an older version: answers of the memory
\* service are applied in the order they were given.
NeverOlder ==
    [][\A a \in Agents : entries[a] # None /\ entries'[a] # None =>
          entries'[a].agent >= entries[a].agent]_vars

\* "Stale beats dark" (agent_registry.py:10-13): get lets a transient failure
\* out only when there is nothing cached at that moment.
StaleBeatsDark ==
    [][\A c \in Calls :
          kind[c] = "get" /\ pc[c] # "done" /\ result'[c] = Unavailable =>
              entries[arg[c]] = None]_vars

\* An agent somebody was told is gone is never served again, by the fast path,
\* to a call that waited, or as a stale copy: a call made after that answers
\* with a later publication or not at all (agent_registry.py:14-16 "Absent is
\* not transient").
GoneStaysGone ==
    \A c \in Calls : kind[c] = "get" /\ result[c] \in Version => result[c] >= floor[c]

Refreshes(c) == pc[c] \in {"idle", "waiting"} /\ pc'[c] = "loading" /\ kind'[c] = "get"

\* Refreshes of a cached agent that keep failing start at least
\* error_retry_seconds apart, also when calls queued up behind the first
\* (agent_registry.py:85-91 "do not hammer").  Not that long after the failure:
\* the retry time counts from before the load, see RetryAt.
AttemptsSpaced ==
    [][\A c \in Calls : Refreshes(c) /\ failedAt[arg'[c]] # None =>
          now >= failedAt[arg'[c]] + Retry]_vars

\* Every call ends, however many wait for the same lock.
EveryCallEnds == \A c \in Calls : pc[c] # "idle" ~> pc[c] = "done"
=============================================================================
