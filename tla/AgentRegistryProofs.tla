------------------------- MODULE AgentRegistryProofs -------------------------
(***************************************************************************)
(* What holds of AgentRegistry for every number of agents and calls, every *)
(* TTL and retry time.                                                     *)
(***************************************************************************)
EXTENDS AgentRegistry, SequenceTheorems, TLAPS

-----------------------------------------------------------------------------
(* Types and the lock.                                                     *)

\* What the type invariant needs to be inductive: a call that was made has an
\* agent, and one that was answered has an answer.
TypeInv ==
    /\ TypeOK
    /\ \A c \in Calls : pc[c] # "idle" => arg[c] \in Agents
    /\ \A c \in Calls : pc[c] = "answered" => got[c] # None

\* A load goes on under the lock of its agent.
LockInv == \A c \in Calls : InFlight(c) => HoldsLock(c)

USE DEF Goto, Phases, InFlight

\* Queueing up keeps the holder of the lock, leaving it to the next in line.
LEMMA QueueSteps ==
    ASSUME NEW q \in Seq(Calls), NEW c \in Calls
    PROVE  /\ Append(q, c) \in Seq(Calls)
           /\ Append(q, c) # <<>>
           /\ q # <<>> => Tail(q) \in Seq(Calls)
           /\ q # <<>> => Head(Append(q, c)) = Head(q)
           /\ q = <<>> => Head(Append(q, c)) = c
OBVIOUS

LEMMA LockInit == Init => TypeInv /\ LockInv
<1> SUFFICES ASSUME Init PROVE TypeInv /\ LockInv
  OBVIOUS
<1>1. 0 \in Version /\ 0 \in Time
  BY RegistryAssumption DEF Version, Time
<1>2. queue \in [Agents -> Seq(Calls)]
  BY DEF Init
<1>3. service \in [Agents -> Answer]
  BY <1>1 DEF Init, Answer
<1>4. TypeInv
  BY <1>1, <1>2, <1>3 DEF Init, TypeInv, TypeOK
<1>5. LockInv
  BY DEF Init, LockInv
<1> QED
  BY <1>4, <1>5

LEMMA TypeNext == TypeInv /\ LockInv /\ [Next]_vars => TypeInv'
<1> SUFFICES ASSUME TypeInv, LockInv, [Next]_vars PROVE TypeInv'
  OBVIOUS
<1> USE QueueSteps DEF TypeInv, TypeOK
<1>1. ASSUME NEW c \in Calls, NEW a \in Agents, GetServed(c, a) PROVE TypeInv'
  <2>1. entries[a] \in Entry
    BY <1>1 DEF GetServed, Servable, _fresh, BackedOff
  <2> QED
    BY <1>1, <2>1 DEF GetServed, Call, Return, Entry, Answer
<1>2. ASSUME NEW c \in Calls, NEW a \in Agents, GetLoads(c, a) PROVE TypeInv'
  BY <1>2 DEF GetLoads, Call, Enqueue, BeginLoad, Answer
<1>3. ASSUME NEW c \in Calls, NEW a \in Agents, GetWaits(c, a) PROVE TypeInv'
  BY <1>3 DEF GetWaits, Call, Enqueue, Answer
<1>4. ASSUME NEW c \in Calls, NEW a \in Agents, ReloadLoads(c, a) PROVE TypeInv'
  <2>1. service[a].version \in Nat
    BY RegistryAssumption DEF Answer, Version
  <2> QED
    BY <1>4, <2>1 DEF ReloadLoads, Call, Enqueue, BeginLoad
<1>5. ASSUME NEW c \in Calls, NEW a \in Agents, ReloadWaits(c, a) PROVE TypeInv'
  <2>1. service[a].version \in Nat
    BY RegistryAssumption DEF Answer, Version
  <2> QED
    BY <1>5, <2>1 DEF ReloadWaits, Call, Enqueue
<1>6. ASSUME NEW c \in Calls, WakeServed(c) PROVE TypeInv'
  <2>1. arg[c] \in Agents /\ entries[arg[c]] \in Entry
    BY <1>6 DEF WakeServed, MayServe, Servable, _fresh, BackedOff
  <2> QED
    BY <1>6, <2>1 DEF WakeServed, HoldsLock, Locked, Release, Return, Entry
<1>7. ASSUME NEW c \in Calls, WakeLoads(c) PROVE TypeInv'
  BY <1>7 DEF WakeLoads, BeginLoad
<1>8. ASSUME NEW c \in Calls, Responds(c) PROVE TypeInv'
  <2>1. arg[c] \in Agents /\ service[arg[c]] \in Answer
    BY <1>8 DEF Responds
  <2>2. PICK r \in {Unavailable, service[arg[c]]} : got' = [got EXCEPT ![c] = r]
    BY <1>8 DEF Responds
  <2>3. r # None /\ r \in Answer \cup {Unavailable, None}
    BY <2>1, RegistryAssumption
  <2>4. got' \in [Calls -> Answer \cup {Unavailable, None}]
    BY <2>2, <2>3
  <2>5. pc' \in [Calls -> Phases] /\ \A d \in Calls : pc'[d] # "idle" => arg[d] \in Agents
    BY <1>8, <2>1 DEF Responds
  <2>6. \A d \in Calls : pc'[d] = "answered" => got'[d] # None
    BY <1>8, <2>2, <2>3 DEF Responds
  <2> QED
    BY <1>8, <2>4, <2>5, <2>6 DEF Responds
<1>9. ASSUME NEW c \in Calls, pc[c] = "answered"
      PROVE  /\ arg[c] \in Agents
             /\ got[c] # Unavailable => got[c] \in Answer
             /\ queue[arg[c]] # <<>>
             /\ Tail(queue[arg[c]]) \in Seq(Calls)
  BY <1>9 DEF LockInv, HoldsLock, Locked
<1>10. ASSUME NEW c \in Calls, LoadReturns(c) PROVE TypeInv'
  <2>1. got[c].version \in Version
    BY <1>9, <1>10 DEF LoadReturns, Answer
  <2>2. [agent |-> got[c].version, loadedAt |-> now, retryAt |-> 0] \in Entry
    BY <2>1 DEF Entry
  <2> QED
    BY <1>9, <1>10, <2>1, <2>2 DEF LoadReturns, Store, Release, Return
<1>11. ASSUME NEW c \in Calls, LoadAbsent(c) PROVE TypeInv'
  <2>1. got[c].version + 1 \in Nat
    BY <1>9, <1>11, RegistryAssumption DEF LoadAbsent, Answer, Version
  <2> QED
    BY <1>9, <1>11, <2>1 DEF LoadAbsent, Release, Return, Errors
<1>12. ASSUME NEW c \in Calls, LoadRaises(c) PROVE TypeInv'
  BY <1>9, <1>12 DEF LoadRaises, Release, Return, Errors
<1>13. ASSUME NEW c \in Calls, LoadFails(c) PROVE TypeInv'
  <2>1. had[c] \in Entry /\ had[c].agent \in Version
    BY <1>13 DEF LoadFails, Entry
  <2>2. RetryAt(c) \in Nat
    BY RegistryAssumption DEF RetryAt, Time
  <2>3. [had[c] EXCEPT !.retryAt = RetryAt(c)] \in Entry
    BY <2>1, <2>2 DEF Entry
  <2> QED
    BY <1>9, <1>13, <2>1, <2>3 DEF LoadFails, Release, Return
<1>14. ASSUME Tick PROVE TypeInv'
  BY <1>14, RegistryAssumption DEF Tick, Time
<1>15. ASSUME NEW a \in Agents, Publish(a) PROVE TypeInv'
  BY <1>15, RegistryAssumption DEF Publish, Answer, Version
<1>16. ASSUME NEW a \in Agents, Retire(a) PROVE TypeInv'
  BY <1>16 DEF Retire, Answer
<1>17. ASSUME UNCHANGED vars PROVE TypeInv'
  BY <1>17 DEF vars
<1> QED
  BY <1>1, <1>2, <1>3, <1>4, <1>5, <1>6, <1>7, <1>8, <1>10, <1>11, <1>12, <1>13,
     <1>14, <1>15, <1>16, <1>17 DEF Next, Make, Proceed, AtRest

\* A call that joins the queue leaves the lock where it is, or takes it.
LEMMA EnterLock ==
    ASSUME TypeInv, LockInv, NEW c \in Calls, NEW a \in Agents,
           arg' = [arg EXCEPT ![c] = a], Enqueue(c, a), pc[c] = "idle",
           NEW phase, pc' = [pc EXCEPT ![c] = phase],
           phase \in {"loading", "answered"} => queue[a] = <<>>
    PROVE  LockInv'
<1> SUFFICES ASSUME NEW d \in Calls, InFlight(d)' PROVE HoldsLock(d)'
  BY DEF LockInv
<1> USE QueueSteps DEF TypeInv, TypeOK
<1>1. CASE d = c
  BY <1>1 DEF HoldsLock, Locked, Enqueue
<1>2. CASE d # c
  <2>1. InFlight(d) /\ HoldsLock(d) /\ arg[d] \in Agents
    BY <1>2 DEF LockInv
  <2>2. queue'[arg[d]] = queue[arg[d]] \/ queue'[arg[d]] = Append(queue[arg[d]], c)
    BY <2>1 DEF Enqueue
  <2> QED
    BY <1>2, <2>1, <2>2 DEF HoldsLock, Locked
<1> QED
  BY <1>1, <1>2

\* A call that leaves held the lock; nobody else worked under it.
LEMMA LeaveLock ==
    ASSUME TypeInv, LockInv, NEW c \in Calls, HoldsLock(c), arg[c] \in Agents,
           UNCHANGED arg, Release(arg[c]), pc' = [pc EXCEPT ![c] = "done"]
    PROVE  LockInv'
<1> SUFFICES ASSUME NEW d \in Calls, InFlight(d)' PROVE HoldsLock(d)'
  BY DEF LockInv
<1> USE DEF TypeInv, TypeOK
<1>1. d # c /\ InFlight(d) /\ HoldsLock(d) /\ arg[d] \in Agents
  BY DEF LockInv
<1>2. arg[d] # arg[c]
  BY <1>1 DEF HoldsLock
<1> QED
  BY <1>1, <1>2 DEF HoldsLock, Locked, Release

LEMMA LockNext == TypeInv /\ LockInv /\ [Next]_vars => LockInv'
<1> SUFFICES ASSUME TypeInv, LockInv, [Next]_vars PROVE LockInv'
  OBVIOUS
<1>1. ASSUME NEW c \in Calls, NEW a \in Agents, Make(c, a) PROVE LockInv'
  <2>1. CASE GetServed(c, a)
    BY <2>1 DEF GetServed, Call, Return, LockInv, HoldsLock, Locked, TypeInv, TypeOK
  <2>2. CASE GetLoads(c, a)
    BY <2>2, EnterLock DEF GetLoads, Call, BeginLoad, Locked
  <2>3. CASE GetWaits(c, a)
    BY <2>3, EnterLock DEF GetWaits, Call
  <2>4. CASE ReloadLoads(c, a)
    BY <2>4, EnterLock DEF ReloadLoads, Call, BeginLoad, Locked
  <2>5. CASE ReloadWaits(c, a)
    BY <2>5, EnterLock DEF ReloadWaits, Call
  <2> QED
    BY <1>1, <2>1, <2>2, <2>3, <2>4, <2>5 DEF Make
<1>2. ASSUME NEW c \in Calls, Proceed(c) PROVE LockInv'
  <2>1. CASE WakeServed(c)
    <3>1. arg[c] \in Agents
      BY <2>1 DEF WakeServed, TypeInv
    <3> QED
      BY <2>1, <3>1, LeaveLock DEF WakeServed, Return
  <2>2. CASE WakeLoads(c)
    BY <2>2 DEF WakeLoads, BeginLoad, LockInv, HoldsLock, Locked, TypeInv, TypeOK
  <2>3. CASE Responds(c)
    BY <2>3 DEF Responds, LockInv, HoldsLock, Locked, TypeInv, TypeOK
  <2>4. ASSUME pc[c] = "answered" PROVE HoldsLock(c) /\ arg[c] \in Agents
    BY <2>4 DEF LockInv, TypeInv
  <2>5. CASE LoadReturns(c)
    BY <2>4, <2>5, LeaveLock DEF LoadReturns, Return
  <2>6. CASE LoadAbsent(c)
    BY <2>4, <2>6, LeaveLock DEF LoadAbsent, Return
  <2>7. CASE LoadRaises(c)
    BY <2>4, <2>7, LeaveLock DEF LoadRaises, Return
  <2>8. CASE LoadFails(c)
    BY <2>4, <2>8, LeaveLock DEF LoadFails, Return
  <2> QED
    BY <1>2, <2>1, <2>2, <2>3, <2>5, <2>6, <2>7, <2>8 DEF Proceed
<1>3. ASSUME UNCHANGED <<pc, arg, queue>> PROVE LockInv'
  BY <1>3 DEF LockInv, HoldsLock, Locked
<1> QED
  BY <1>1, <1>2, <1>3 DEF Next, Tick, Publish, Retire, AtRest, vars

\* Two loads of one agent would both be at the head of its queue.
LEMMA OneInFlight == LockInv => SingleFlight
BY DEF LockInv, HoldsLock, SingleFlight

LEMMA TypeAndLock == Spec => [](TypeInv /\ LockInv)
<1>1. TypeInv /\ LockInv /\ [Next]_vars => (TypeInv /\ LockInv)'
  BY TypeNext, LockNext
<1> QED
  BY <1>1, LockInit, PTL DEF Spec

\* Every variable keeps its type, for any number of agents and calls.
THEOREM TypeCorrect == Spec => []TypeOK
<1>1. TypeInv => TypeOK
  BY DEF TypeInv
<1> QED
  BY <1>1, TypeAndLock, PTL

\* However many calls ask for an agent at once, one of them loads it: the lock
\* of agent_registry.py:87 is enough.
THEOREM SingleFlightHolds == Spec => []SingleFlight
BY OneInFlight, TypeAndLock, PTL

-----------------------------------------------------------------------------
(* The entry a load started from.                                          *)

\* A call at work on an agent keeps everybody else from its entry: other loads
\* of the agent are excluded, and only loads write.
LEMMA HadNext ==
    TypeInv /\ SingleFlight /\ NobodyElseWrites /\ [Next]_vars => NobodyElseWrites'
<1> SUFFICES ASSUME TypeInv, SingleFlight, NobodyElseWrites, [Next]_vars,
                    NEW d \in Calls, InFlight(d)'
             PROVE  had'[d] = entries'[arg'[d]]
  BY DEF NobodyElseWrites
<1> USE DEF TypeInv, TypeOK
<1>1. ASSUME NEW c \in Calls, NEW a \in Agents, Make(c, a)
      PROVE  had'[d] = entries'[arg'[d]]
  <2>1. CASE GetServed(c, a) \/ GetWaits(c, a) \/ ReloadWaits(c, a)
    BY <2>1 DEF GetServed, GetWaits, ReloadWaits, Call, Return, NobodyElseWrites
  <2>2. CASE GetLoads(c, a)
    BY <2>2 DEF GetLoads, Call, BeginLoad, NobodyElseWrites
  <2>3. CASE ReloadLoads(c, a)
    BY <2>3 DEF ReloadLoads, Call, BeginLoad, NobodyElseWrites
  <2> QED
    BY <1>1, <2>1, <2>2, <2>3 DEF Make
<1>2. ASSUME NEW c \in Calls, Proceed(c)
      PROVE  had'[d] = entries'[arg'[d]]
  <2>1. CASE WakeServed(c) \/ LoadRaises(c) \/ Responds(c) \/ WakeLoads(c)
    BY <2>1 DEF WakeServed, LoadRaises, Responds, WakeLoads, Return, BeginLoad,
                NobodyElseWrites
  <2>2. CASE LoadReturns(c) \/ LoadAbsent(c) \/ LoadFails(c)
    <3>1. pc[c] = "answered" /\ pc' = [pc EXCEPT ![c] = "done"] /\ UNCHANGED <<had, arg>>
      BY <2>2 DEF LoadReturns, LoadAbsent, LoadFails, Return
    <3>2. d # c /\ InFlight(d) /\ arg[d] # arg[c] /\ arg[d] \in Agents
      BY <3>1 DEF SingleFlight
    <3>3. entries'[arg[d]] = entries[arg[d]]
      BY <2>2, <3>2 DEF LoadReturns, LoadAbsent, LoadFails, Store
    <3> QED
      BY <3>1, <3>2, <3>3 DEF NobodyElseWrites
  <2> QED
    BY <1>2, <2>1, <2>2 DEF Proceed
<1>3. CASE UNCHANGED <<pc, arg, had, entries>>
  BY <1>3 DEF NobodyElseWrites
<1> QED
  BY <1>1, <1>2, <1>3 DEF Next, Tick, Publish, Retire, AtRest, vars

\* A failed or answered refresh is applied to the entry it started from.
THEOREM RefreshesDoNotCross == Spec => []NobodyElseWrites
<1>1. Init => NobodyElseWrites
  BY DEF Init, NobodyElseWrites
<1>2. TypeInv /\ SingleFlight /\ NobodyElseWrites /\ [Next]_vars => NobodyElseWrites'
  BY HadNext
<1> QED
  BY <1>1, <1>2, TypeAndLock, OneInFlight, PTL DEF Spec

\* A call not yet done has no result.
NoResultYet == \A c \in Calls : pc[c] # "done" => result[c] = None

LEMMA NoResultNext == TypeInv /\ NoResultYet /\ [Next]_vars => NoResultYet'
<1> SUFFICES ASSUME TypeInv, NoResultYet, [Next]_vars,
                    NEW d \in Calls, pc'[d] # "done"
             PROVE  result'[d] = None
  BY DEF NoResultYet
<1> USE DEF TypeInv, TypeOK, NoResultYet
<1>1. ASSUME NEW c \in Calls, NEW a \in Agents, Make(c, a) PROVE result'[d] = None
  BY <1>1 DEF Make, GetServed, GetLoads, GetWaits, ReloadLoads, ReloadWaits, Call,
              Return, BeginLoad
<1>2. ASSUME NEW c \in Calls, Proceed(c) PROVE result'[d] = None
  BY <1>2 DEF Proceed, WakeServed, WakeLoads, Responds, LoadReturns, LoadAbsent,
              LoadRaises, LoadFails, Return, BeginLoad
<1>3. CASE UNCHANGED <<pc, result>>
  BY <1>3
<1> QED
  BY <1>1, <1>2, <1>3 DEF Next, Tick, Publish, Retire, AtRest, vars

LEMMA StaleStep ==
    TypeInv /\ NobodyElseWrites /\ NoResultYet /\ [Next]_vars =>
        [\A c \in Calls :
            kind[c] = "get" /\ pc[c] # "done" /\ result'[c] = Unavailable =>
                entries[arg[c]] = None]_vars
<1> SUFFICES ASSUME TypeInv, NobodyElseWrites, NoResultYet, [Next]_vars,
                    NEW d \in Calls, kind[d] = "get", pc[d] # "done",
                    result'[d] = Unavailable
             PROVE  entries[arg[d]] = None
  OBVIOUS
<1> USE DEF TypeInv, TypeOK, NoResultYet
<1>1. Unavailable \notin Version /\ Unavailable # Absent /\ Unavailable # None
  BY RegistryAssumption DEF Version
<1>2. result'[d] # result[d]
  BY <1>1
<1>3. \A entry \in Entry : entry.agent # Unavailable
  BY <1>1 DEF Entry
<1>4. ASSUME NEW c \in Calls, NEW a \in Agents, Make(c, a) PROVE FALSE
  <2>1. GetServed(c, a) /\ result' = [result EXCEPT ![c] = entries[a].agent]
    BY <1>2, <1>4 DEF Make, GetServed, GetLoads, GetWaits, ReloadLoads, ReloadWaits, Return
  <2>2. entries[a] \in Entry
    BY <2>1 DEF GetServed, Servable, _fresh, BackedOff
  <2> QED
    BY <1>2, <1>3, <2>1, <2>2
<1>5. ASSUME NEW c \in Calls, Proceed(c) PROVE entries[arg[d]] = None
  <2>1. CASE WakeServed(c)
    <3>1. arg[c] \in Agents /\ entries[arg[c]] \in Entry
      BY <2>1 DEF WakeServed, MayServe, Servable, _fresh, BackedOff
    <3> QED
      BY <1>2, <1>3, <2>1, <3>1 DEF WakeServed, Return
  <2>2. CASE WakeLoads(c) \/ Responds(c)
    BY <1>2, <2>2 DEF WakeLoads, Responds
  <2>3. CASE LoadReturns(c)
    <3>1. got[c].version \in Version
      BY <2>3 DEF LoadReturns, Answer
    <3> QED
      BY <1>1, <1>2, <2>3, <3>1 DEF LoadReturns, Return
  <2>4. CASE LoadAbsent(c)
    BY <1>1, <1>2, <2>4 DEF LoadAbsent, Return
  <2>5. CASE LoadRaises(c)
    BY <1>2, <2>5 DEF LoadRaises, Return, NobodyElseWrites
  <2>6. CASE LoadFails(c)
    BY <1>2, <1>3, <2>6 DEF LoadFails, Return
  <2> QED
    BY <1>5, <2>1, <2>2, <2>3, <2>4, <2>5, <2>6 DEF Proceed
<1> QED
  BY <1>2, <1>4, <1>5 DEF Next, Tick, Publish, Retire, AtRest, vars

\* "Stale beats dark" (agent_registry.py:10-13): a get raises a transient
\* failure only when nothing is cached.
THEOREM StaleBeatsDarkHolds == Spec => StaleBeatsDark
<1>1. Init => NoResultYet
  BY DEF Init, NoResultYet
<1>2. Spec => []NoResultYet
  BY <1>1, NoResultNext, TypeAndLock, PTL DEF Spec
<1> QED
  BY <1>2, StaleStep, TypeAndLock, RefreshesDoNotCross, PTL DEF Spec, StaleBeatsDark

-----------------------------------------------------------------------------
(* Spacing of refreshes that fail.                                         *)

\* The entry of a failed refresh carries the time before which get leaves it
\* alone.
BackOffInv ==
    \A a \in Agents : failedAt[a] # None =>
        entries[a] # None /\ entries[a].retryAt >= failedAt[a] + Retry

LEMMA BackOffNext ==
    TypeInv /\ NobodyElseWrites /\ BackOffInv /\ [Next]_vars => BackOffInv'
<1> SUFFICES ASSUME TypeInv, NobodyElseWrites, BackOffInv, [Next]_vars,
                    NEW b \in Agents, failedAt'[b] # None
             PROVE  entries'[b] # None /\ entries'[b].retryAt >= failedAt'[b] + Retry
  BY DEF BackOffInv
<1> USE DEF TypeInv, TypeOK
<1>1. CASE UNCHANGED <<entries, failedAt>>
  BY <1>1 DEF BackOffInv
<1>2. ASSUME NEW c \in Calls, LoadReturns(c) \/ LoadAbsent(c)
      PROVE  entries'[b] # None /\ entries'[b].retryAt >= failedAt'[b] + Retry
  <2>1. arg[c] \in Agents
    BY <1>2 DEF LoadReturns, LoadAbsent
  <2>2. failedAt' = [failedAt EXCEPT ![arg[c]] = None]
    BY <1>2 DEF LoadReturns, LoadAbsent
  <2>3. b # arg[c] /\ failedAt'[b] = failedAt[b]
    BY <2>1, <2>2
  <2>4. entries'[b] = entries[b]
    BY <1>2, <2>1, <2>3 DEF LoadReturns, LoadAbsent, Store
  <2> QED
    BY <2>3, <2>4 DEF BackOffInv
<1>3. ASSUME NEW c \in Calls, LoadFails(c)
      PROVE  entries'[b] # None /\ entries'[b].retryAt >= failedAt'[b] + Retry
  <2>1. arg[c] \in Agents /\ had[c] = entries[arg[c]] /\ had[c] \in Entry
    BY <1>3 DEF LoadFails, NobodyElseWrites
  <2>2. CASE b # arg[c]
    <3>1. entries'[b] = entries[b] /\ failedAt'[b] = failedAt[b]
      BY <1>3, <2>2 DEF LoadFails
    <3> QED
      BY <3>1 DEF BackOffInv
  <2>3. CASE b = arg[c]
    <3>1. failedAt'[b] = started[c]
      BY <1>3, <2>1, <2>3 DEF LoadFails
    <3>2. RetryAt(c) = started[c] + Retry /\ RetryAt(c) \in Nat
      BY RegistryAssumption DEF RetryAt, Time
    <3>3. entries'[b] = [had[c] EXCEPT !.retryAt = RetryAt(c)]
      BY <1>3, <2>1, <2>3 DEF LoadFails
    <3>4. entries'[b] \in Entry /\ entries'[b].retryAt = RetryAt(c)
      BY <2>1, <3>2, <3>3 DEF Entry
    <3> QED
      BY <3>1, <3>2, <3>4, RegistryAssumption
  <2> QED
    BY <2>2, <2>3
<1>4. ASSUME NEW c \in Calls, NEW a \in Agents, Make(c, a)
      PROVE  UNCHANGED <<entries, failedAt>>
  BY <1>4 DEF Make, GetServed, GetLoads, GetWaits, ReloadLoads, ReloadWaits
<1>5. ASSUME NEW c \in Calls, Proceed(c)
      PROVE  UNCHANGED <<entries, failedAt>> \/ LoadReturns(c) \/ LoadAbsent(c) \/ LoadFails(c)
  BY <1>5 DEF Proceed, WakeServed, WakeLoads, Responds, LoadRaises
<1> QED
  BY <1>1, <1>2, <1>3, <1>4, <1>5 DEF Next, Tick, Publish, Retire, AtRest, vars

LEMMA SpacedStep ==
    TypeInv /\ BackOffInv /\ [Next]_vars =>
        [\A c \in Calls : Refreshes(c) /\ failedAt[arg'[c]] # None =>
            now >= failedAt[arg'[c]] + Retry]_vars
<1> SUFFICES ASSUME TypeInv, BackOffInv, [Next]_vars,
                    NEW d \in Calls, Refreshes(d), failedAt[arg'[d]] # None
             PROVE  now >= failedAt[arg'[d]] + Retry
  OBVIOUS
<1> USE DEF TypeInv, TypeOK, Refreshes
<1>1. ASSUME NEW b \in Agents, ~Servable(entries[b]), failedAt[b] # None
      PROVE  now >= failedAt[b] + Retry
  <2>1. entries[b] \in Entry /\ entries[b].retryAt \in Nat /\ failedAt[b] \in Nat
    BY <1>1, RegistryAssumption DEF BackOffInv, Entry, Time
  <2>2. now >= entries[b].retryAt
    BY <1>1, <2>1 DEF Servable, BackedOff, Time, BackOffInv
  <2> QED
    BY <1>1, <2>1, <2>2, RegistryAssumption DEF BackOffInv, Time
<1>2. ASSUME NEW c \in Calls, NEW a \in Agents, Make(c, a)
      PROVE  now >= failedAt[arg'[d]] + Retry
  <2>1. c = d
    BY <1>2 DEF Make, GetServed, GetLoads, GetWaits, ReloadLoads, ReloadWaits,
                BeginLoad, Return
  <2>2. ~GetServed(c, a) /\ ~GetWaits(c, a) /\ ~ReloadWaits(c, a)
    BY <2>1 DEF GetServed, GetWaits, ReloadWaits, Return
  <2>3. ~ReloadLoads(c, a)
    BY <2>1 DEF ReloadLoads, Call
  <2>4. GetLoads(c, a)
    BY <1>2, <2>2, <2>3 DEF Make
  <2>5. arg'[d] = a /\ ~Servable(entries[a])
    BY <2>1, <2>4 DEF GetLoads, Call
  <2> QED
    BY <1>1, <2>5
<1>3. ASSUME NEW c \in Calls, Proceed(c)
      PROVE  now >= failedAt[arg'[d]] + Retry
  <2>1. WakeLoads(c) /\ c = d
    BY <1>3 DEF Proceed, WakeServed, WakeLoads, Responds, LoadReturns, LoadAbsent,
                LoadRaises, LoadFails, Return, BeginLoad
  <2>2. arg'[d] = arg[d] /\ arg[d] \in Agents /\ ~Servable(entries[arg[d]])
    BY <2>1 DEF WakeLoads, MayServe
  <2> QED
    BY <1>1, <2>2
<1> QED
  BY <1>2, <1>3 DEF Next, Tick, Publish, Retire, AtRest, vars

\* "Do not hammer" (agent_registry.py:85-91): refreshes of a cached agent that
\* keep failing start at least the retry time apart.
THEOREM AttemptsSpacedHolds == Spec => AttemptsSpaced
<1>1. Init => BackOffInv
  BY DEF Init, BackOffInv
<1>2. Spec => []BackOffInv
  BY <1>1, BackOffNext, TypeAndLock, RefreshesDoNotCross, PTL DEF Spec
<1> QED
  BY <1>2, SpacedStep, TypeAndLock, PTL DEF Spec, AttemptsSpaced

-----------------------------------------------------------------------------
(* Versions.                                                               *)

\* The cached agent was published, and nobody was told it is gone; what is
\* there now is later than what was found gone.
EntryInv(a) ==
    /\ service[a].present => gone[a] <= service[a].version
    /\ gone[a] <= service[a].version + 1
    /\ entries[a] # None =>
         gone[a] <= entries[a].agent /\ entries[a].agent <= service[a].version

\* An answer under way fits the entry, what was found gone, and the service.
AnswerInv(c) ==
    pc[c] = "answered" /\ got[c] # Unavailable =>
        LET a == arg[c]
        IN  /\ got[c].version <= service[a].version
            /\ ~got[c].present /\ service[a].present =>
                 got[c].version < service[a].version
            /\ got[c].present => gone[a] <= got[c].version
            /\ gone[a] <= got[c].version + 1
            /\ entries[a] # None => entries[a].agent <= got[c].version
            /\ kind[c] = "reload" => floor[c] <= got[c].version

\* What a call promised when it was made is still to be had.
FloorInv(c) ==
    pc[c] \notin {"idle", "done"} =>
        /\ kind[c] = "reload" => floor[c] <= service[arg[c]].version
        /\ kind[c] = "get" => floor[c] <= gone[arg[c]]

ResultInv(c) == result[c] \in Version => result[c] >= floor[c]

VersionInv ==
    /\ \A a \in Agents : EntryInv(a)
    /\ \A c \in Calls : AnswerInv(c) /\ FloorInv(c) /\ ResultInv(c)

\* What the steps below work under.
Base == TypeInv /\ SingleFlight /\ NobodyElseWrites /\ NoResultYet

LEMMA Numbers ==
    ASSUME TypeInv
    PROVE  /\ \A a \in Agents :
                /\ service[a].version \in Nat /\ service[a].present \in BOOLEAN
                /\ gone[a] \in Nat
                /\ entries[a] # None => entries[a] \in Entry /\ entries[a].agent \in Nat
           /\ \A c \in Calls :
                /\ floor[c] \in Nat
                /\ pc[c] = "answered" /\ got[c] # Unavailable =>
                     got[c] \in Answer /\ got[c].version \in Nat
           /\ None \notin Version /\ Unavailable \notin Version /\ Absent \notin Version
<1>1. Version \subseteq Nat
  BY DEF Version
<1>2. \A e \in Entry : e.agent \in Nat
  BY <1>1 DEF Entry
<1>3. \A r \in Answer : r.version \in Nat /\ r.present \in BOOLEAN
  BY <1>1 DEF Answer
<1>4. None \notin Version /\ Unavailable \notin Version /\ Absent \notin Version
  BY <1>1, RegistryAssumption
<1> QED
  BY <1>2, <1>3, <1>4 DEF TypeInv, TypeOK

\* A call is made on what is published and cached at that moment.
LEMMA VersionMake ==
    ASSUME Base, VersionInv, NEW c \in Calls, NEW a \in Agents, Make(c, a)
    PROVE  VersionInv'
<1> USE DEF Base, TypeInv, TypeOK
<1>1. UNCHANGED <<service, entries, gone, got>>
  BY DEF Make, GetServed, GetLoads, GetWaits, ReloadLoads, ReloadWaits
<1>2. \E k \in {"get", "reload"} : Call(c, k, a)
  BY DEF Make, GetServed, GetLoads, GetWaits, ReloadLoads, ReloadWaits
<1>3. \A b \in Agents : EntryInv(b)'
  BY <1>1 DEF VersionInv, EntryInv
<1>4. /\ pc'[c] \in {"waiting", "loading", "done"}
      /\ \A d \in Calls \ {c} : pc'[d] = pc[d] /\ result'[d] = result[d]
  BY DEF Make, GetServed, GetLoads, GetWaits, ReloadLoads, ReloadWaits, BeginLoad, Return
<1>5. \A d \in Calls \ {c} : kind'[d] = kind[d] /\ arg'[d] = arg[d] /\ floor'[d] = floor[d]
  BY <1>2 DEF Call
<1>6. \A d \in Calls \ {c} : AnswerInv(d)' /\ FloorInv(d)' /\ ResultInv(d)'
  BY <1>1, <1>4, <1>5 DEF VersionInv, AnswerInv, FloorInv, ResultInv
<1>7. AnswerInv(c)'
  BY <1>4 DEF AnswerInv
<1>8. arg'[c] = a /\ kind'[c] \in {"get", "reload"}
      /\ floor'[c] = IF kind'[c] = "reload" THEN service[a].version ELSE gone[a]
  BY <1>2 DEF Call
<1>9. FloorInv(c)'
  BY <1>1, <1>8, Numbers DEF FloorInv
<1>10. ResultInv(c)'
  <2>1. CASE GetServed(c, a)
    <3>1. entries[a] # None /\ kind'[c] = "get" /\ result'[c] = entries[a].agent
      BY <2>1 DEF GetServed, Servable, _fresh, BackedOff, Return, Call
    <3> QED
      BY <1>8, <3>1, Numbers DEF ResultInv, VersionInv, EntryInv
  <2>2. CASE UNCHANGED result
    <3>1. result'[c] = None
      BY <1>2, <2>2 DEF Call, NoResultYet
    <3> QED
      BY <3>1, Numbers DEF ResultInv
  <2> QED
    BY <2>1, <2>2 DEF Make, GetLoads, GetWaits, ReloadLoads, ReloadWaits, BeginLoad
<1> QED
  BY <1>3, <1>6, <1>7, <1>9, <1>10 DEF VersionInv

\* What stays for the calls that do not act, when the entry of an agent changes
\* under the call that holds its lock.
LEMMA VersionOthers ==
    ASSUME Base, VersionInv, NEW c \in Calls, arg[c] \in Agents, pc[c] = "answered",
           UNCHANGED <<service, kind, arg, floor, got>>,
           pc' = [pc EXCEPT ![c] = "done"],
           \A d \in Calls \ {c} : result'[d] = result[d],
           \A b \in Agents : b # arg[c] => entries'[b] = entries[b] /\ gone'[b] = gone[b],
           \A b \in Agents : gone'[b] \in Nat /\ gone'[b] >= gone[b]
    PROVE  \A d \in Calls \ {c} : AnswerInv(d)' /\ FloorInv(d)' /\ ResultInv(d)'
<1> USE DEF Base, TypeInv, TypeOK
<1> SUFFICES ASSUME NEW d \in Calls \ {c}
             PROVE  AnswerInv(d)' /\ FloorInv(d)' /\ ResultInv(d)'
  OBVIOUS
<1>1. pc'[d] = pc[d] /\ result'[d] = result[d]
  OBVIOUS
<1>2. ResultInv(d)'
  BY <1>1 DEF VersionInv, ResultInv
<1>3. AnswerInv(d)'
  <2>1. CASE pc[d] = "answered"
    <3>1. arg[d] # arg[c] /\ arg[d] \in Agents
      BY <2>1 DEF SingleFlight
    <3> QED
      BY <1>1, <2>1, <3>1 DEF VersionInv, AnswerInv
  <2> QED
    BY <1>1, <2>1 DEF AnswerInv
<1>4. FloorInv(d)'
  <2>1. CASE pc[d] \in {"waiting", "loading", "answered"}
    BY <1>1, <2>1, Numbers DEF VersionInv, FloorInv
  <2> QED
    BY <1>1, <2>1 DEF FloorInv
<1> QED
  BY <1>2, <1>3, <1>4

\* An answer, or a failure, is applied: no entry gets older, and what was found
\* gone is no longer cached.
LEMMA VersionAnswered ==
    ASSUME Base, VersionInv, NEW c \in Calls,
           LoadReturns(c) \/ LoadAbsent(c) \/ LoadRaises(c) \/ LoadFails(c)
    PROVE  VersionInv'
<1> USE DEF Base, TypeInv, TypeOK
<1> DEFINE a == arg[c]
<1>1. /\ pc[c] = "answered" /\ a \in Agents /\ had[c] = entries[a]
      /\ pc' = [pc EXCEPT ![c] = "done"]
      /\ UNCHANGED <<service, kind, arg, floor, got>>
      /\ \A d \in Calls \ {c} : result'[d] = result[d]
  BY DEF LoadReturns, LoadAbsent, LoadRaises, LoadFails, Return, NobodyElseWrites
<1>2. EntryInv(a) /\ AnswerInv(c) /\ FloorInv(c)
  BY <1>1 DEF VersionInv
<1>3. AnswerInv(c)' /\ FloorInv(c)'
  BY <1>1 DEF AnswerInv, FloorInv
<1>4. ASSUME \A b \in Agents : b # a => entries'[b] = entries[b] /\ gone'[b] = gone[b],
             gone'[a] \in Nat, gone'[a] >= gone[a], EntryInv(a)', ResultInv(c)'
      PROVE  VersionInv'
  <2>1. ASSUME NEW b \in Agents PROVE gone'[b] \in Nat /\ gone'[b] >= gone[b]
    <3>1. gone[b] \in Nat
      BY Numbers
    <3>2. CASE b = a
      BY <1>4, <3>2
    <3>3. CASE b # a
      <4>1. gone'[b] = gone[b]
        BY <1>4, <3>3
      <4> QED
        BY <3>1, <4>1
    <3> QED
      BY <3>2, <3>3
  <2>2. \A d \in Calls \ {c} : AnswerInv(d)' /\ FloorInv(d)' /\ ResultInv(d)'
    BY <1>1, <1>4, <2>1, VersionOthers
  <2>3. \A b \in Agents : EntryInv(b)'
    BY <1>1, <1>4 DEF VersionInv, EntryInv
  <2> QED
    BY <1>3, <1>4, <2>2, <2>3 DEF VersionInv
<1>5. CASE LoadReturns(c)
  <2>1. /\ entries' = [entries EXCEPT ![a] = [agent |-> got[c].version, loadedAt |-> now,
                                             retryAt |-> 0]]
        /\ gone' = gone /\ got[c] # Unavailable /\ got[c].present
        /\ result'[c] = got[c].version
    BY <1>5 DEF LoadReturns, Store, Return
  <2>2. entries'[a].agent = got[c].version
    BY <1>1, <2>1
  <2>3. EntryInv(a)'
    BY <1>1, <1>2, <2>1, <2>2 DEF EntryInv, AnswerInv
  <2>4. floor[c] <= got[c].version
    BY <1>1, <1>2, <2>1, Numbers DEF AnswerInv, FloorInv
  <2>5. ResultInv(c)'
    BY <1>1, <2>1, <2>4, Numbers DEF ResultInv
  <2> QED
    BY <1>1, <1>4, <2>1, <2>3, <2>5, Numbers
<1>6. CASE LoadAbsent(c)
  <2>1. /\ entries' = [entries EXCEPT ![a] = None]
        /\ gone' = [gone EXCEPT ![a] = got[c].version + 1]
        /\ got[c] # Unavailable /\ ~got[c].present
        /\ result'[c] = Absent
    BY <1>6 DEF LoadAbsent, Return
  <2>2. entries'[a] = None /\ gone'[a] = got[c].version + 1
    BY <1>1, <2>1
  <2>3. EntryInv(a)'
    BY <1>1, <1>2, <2>1, <2>2, Numbers DEF EntryInv, AnswerInv
  <2>4. gone'[a] \in Nat /\ gone'[a] >= gone[a]
    BY <1>1, <1>2, <2>1, <2>2, Numbers DEF AnswerInv
  <2>5. ResultInv(c)'
    BY <2>1, Numbers DEF ResultInv
  <2> QED
    BY <1>4, <2>1, <2>3, <2>4, <2>5
<1>7. CASE LoadRaises(c)
  <2>1. UNCHANGED <<entries, gone>> /\ result'[c] = Unavailable
    BY <1>7 DEF LoadRaises, Return
  <2>2. EntryInv(a)' /\ ResultInv(c)'
    BY <1>1, <1>2, <2>1, Numbers DEF EntryInv, ResultInv
  <2> QED
    BY <1>1, <1>4, <2>1, <2>2, Numbers
<1>8. CASE LoadFails(c)
  <2>1. /\ entries' = [entries EXCEPT ![a] = [had[c] EXCEPT !.retryAt = RetryAt(c)]]
        /\ gone' = gone /\ kind[c] = "get" /\ had[c] # None
        /\ result'[c] = had[c].agent
    BY <1>1, <1>8 DEF LoadFails, Return
  <2>2. entries[a] # None /\ entries[a] \in Entry
    BY <1>1, <2>1
  <2>3. entries'[a] = [entries[a] EXCEPT !.retryAt = RetryAt(c)]
    BY <1>1, <2>1
  <2>4. entries'[a].agent = entries[a].agent
    BY <2>2, <2>3 DEF Entry
  <2>5. EntryInv(a)'
    BY <1>1, <1>2, <2>1, <2>2, <2>4 DEF EntryInv
  <2>6. floor[c] <= entries[a].agent
    BY <1>1, <1>2, <2>1, <2>2, Numbers DEF EntryInv, FloorInv
  <2>7. ResultInv(c)'
    BY <1>1, <2>1, <2>6 DEF ResultInv
  <2> QED
    BY <1>1, <1>4, <2>1, <2>5, <2>7, Numbers
<1> QED
  BY <1>5, <1>6, <1>7, <1>8

\* A call that waited is served what is cached, or begins a load.
LEMMA VersionWakes ==
    ASSUME Base, VersionInv, NEW c \in Calls, WakeServed(c) \/ WakeLoads(c)
    PROVE  VersionInv'
<1> USE DEF Base, TypeInv, TypeOK
<1>1. /\ UNCHANGED <<service, entries, gone, got, kind, arg, floor>>
      /\ pc[c] = "waiting" /\ pc'[c] \in {"loading", "done"} /\ arg[c] \in Agents
      /\ \A d \in Calls \ {c} : pc'[d] = pc[d] /\ result'[d] = result[d]
  BY DEF WakeServed, WakeLoads, BeginLoad, Return
<1>2. \A b \in Agents : EntryInv(b)'
  BY <1>1 DEF VersionInv, EntryInv
<1>3. \A d \in Calls \ {c} : AnswerInv(d)' /\ FloorInv(d)' /\ ResultInv(d)'
  BY <1>1 DEF VersionInv, AnswerInv, FloorInv, ResultInv
<1>4. AnswerInv(c)' /\ FloorInv(c)'
  BY <1>1 DEF VersionInv, AnswerInv, FloorInv
<1>5. ResultInv(c)'
  <2>1. CASE WakeServed(c)
    <3>1. entries[arg[c]] # None /\ kind[c] = "get" /\ result'[c] = entries[arg[c]].agent
      BY <2>1 DEF WakeServed, MayServe, Servable, _fresh, BackedOff, Return
    <3>2. EntryInv(arg[c]) /\ FloorInv(c)
      BY <1>1 DEF VersionInv
    <3>3. floor[c] <= gone[arg[c]] /\ gone[arg[c]] <= entries[arg[c]].agent
      BY <1>1, <3>1, <3>2 DEF EntryInv, FloorInv
    <3>4. floor[c] <= entries[arg[c]].agent
      BY <1>1, <3>1, <3>3, Numbers
    <3> QED
      BY <1>1, <3>1, <3>4, Numbers DEF ResultInv
  <2>2. CASE WakeLoads(c)
    BY <1>1, <2>2 DEF WakeLoads, VersionInv, ResultInv
  <2> QED
    BY <2>1, <2>2
<1> QED
  BY <1>2, <1>3, <1>4, <1>5 DEF VersionInv

\* The answer is what the service holds at that moment.
LEMMA VersionResponds ==
    ASSUME Base, VersionInv, NEW c \in Calls, Responds(c)
    PROVE  VersionInv'
<1> USE DEF Base, TypeInv, TypeOK
<1>1. PICK r \in {Unavailable, service[arg[c]]} : got' = [got EXCEPT ![c] = r]
  BY DEF Responds
<1>2. /\ UNCHANGED <<service, entries, gone, kind, arg, floor, result>>
      /\ pc[c] = "loading" /\ pc' = [pc EXCEPT ![c] = "answered"] /\ arg[c] \in Agents
  BY DEF Responds
<1>3. \A b \in Agents : EntryInv(b)'
  BY <1>2 DEF VersionInv, EntryInv
<1>4. \A d \in Calls : FloorInv(d)' /\ ResultInv(d)'
  BY <1>2 DEF VersionInv, FloorInv, ResultInv
<1>5. \A d \in Calls \ {c} : AnswerInv(d)'
  BY <1>1, <1>2 DEF VersionInv, AnswerInv
<1>6. AnswerInv(c)'
  <2>1. got'[c] = r
    BY <1>1
  <2>2. CASE r = service[arg[c]]
    <3>1. EntryInv(arg[c]) /\ FloorInv(c)
      BY <1>2 DEF VersionInv
    <3> QED
      BY <1>2, <2>1, <2>2, <3>1, Numbers DEF AnswerInv, EntryInv, FloorInv
  <2> QED
    BY <1>1, <2>1, <2>2 DEF AnswerInv
<1> QED
  BY <1>3, <1>4, <1>5, <1>6 DEF VersionInv

\* Publishing and retiring an agent.
LEMMA VersionService ==
    ASSUME Base, VersionInv, NEW a \in Agents, Publish(a) \/ Retire(a)
    PROVE  VersionInv'
<1> USE DEF Base, TypeInv, TypeOK
<1>1. UNCHANGED <<pc, entries, gone, kind, arg, floor, result, got>>
  BY DEF Publish, Retire
<1>2. \A b \in Agents :
        \/ service'[b] = service[b]
        \/ /\ service'[b].version = service[b].version + 1
           /\ service'[b].present
        \/ /\ service'[b].version = service[b].version
           /\ ~service'[b].present
  BY Numbers DEF Publish, Retire, Answer
<1>3. ASSUME NEW b \in Agents PROVE EntryInv(b)'
  <2>1. EntryInv(b)
    BY DEF VersionInv
  <2>2. /\ service[b].version \in Nat /\ gone[b] \in Nat
        /\ entries[b] # None => entries[b].agent \in Nat
    BY Numbers
  <2> HIDE DEF Base, TypeInv, TypeOK
  <2> QED
    BY <1>1, <1>2, <2>1, <2>2 DEF EntryInv
<1>4. ASSUME NEW d \in Calls PROVE AnswerInv(d)' /\ FloorInv(d)' /\ ResultInv(d)'
  <2>1. AnswerInv(d)'
    <3>1. CASE pc[d] = "answered" /\ got[d] # Unavailable
      <4>1. arg[d] \in Agents /\ AnswerInv(d)
        BY <3>1 DEF VersionInv
      <4>2. /\ service[arg[d]].version \in Nat /\ got[d].version \in Nat
            /\ floor[d] \in Nat
        BY <3>1, <4>1, Numbers
      <4> HIDE DEF Base, TypeInv, TypeOK
      <4> QED
        BY <1>1, <1>2, <3>1, <4>1, <4>2 DEF AnswerInv
    <3> QED
      BY <1>1, <3>1 DEF AnswerInv
  <2>2. FloorInv(d)'
    <3>1. CASE pc[d] \in {"waiting", "loading", "answered"}
      <4>1. arg[d] \in Agents /\ FloorInv(d)
        BY <3>1 DEF VersionInv
      <4>2. service[arg[d]].version \in Nat /\ floor[d] \in Nat
        BY <4>1, Numbers
      <4> HIDE DEF Base, TypeInv, TypeOK
      <4> QED
        BY <1>1, <1>2, <3>1, <4>1, <4>2 DEF FloorInv
    <3> QED
      BY <1>1, <3>1 DEF FloorInv
  <2> QED
    BY <1>1, <2>1, <2>2 DEF VersionInv, ResultInv
<1> QED
  BY <1>3, <1>4 DEF VersionInv

LEMMA VersionNext == Base /\ VersionInv /\ [Next]_vars => VersionInv'
<1> SUFFICES ASSUME Base, VersionInv, [Next]_vars PROVE VersionInv'
  OBVIOUS
<1>1. ASSUME UNCHANGED <<service, entries, gone, pc, kind, arg, floor, got, result>>
      PROVE  VersionInv'
  BY <1>1 DEF VersionInv, EntryInv, AnswerInv, FloorInv, ResultInv
<1> QED
  BY <1>1, VersionMake, VersionWakes, VersionResponds, VersionAnswered, VersionService
     DEF Next, Proceed, Tick, AtRest, vars

LEMMA VersionInit == Init => VersionInv
<1> SUFFICES ASSUME Init PROVE VersionInv
  OBVIOUS
<1>1. ASSUME NEW a \in Agents PROVE EntryInv(a)
  <2>1. service[a].version = 0 /\ entries[a] = None /\ gone[a] = 0
    BY DEF Init
  <2> QED
    BY <2>1 DEF EntryInv
<1>2. \A c \in Calls : AnswerInv(c) /\ FloorInv(c)
  BY DEF Init, AnswerInv, FloorInv
<1>3. \A c \in Calls : ResultInv(c)
  BY RegistryAssumption DEF Init, ResultInv, Version
<1> QED
  BY <1>1, <1>2, <1>3 DEF VersionInv

LEMMA VersionAlways == Spec => [](Base /\ VersionInv)
<1>1. Init => NoResultYet
  BY DEF Init, NoResultYet
<1>2. Spec => []NoResultYet
  BY <1>1, NoResultNext, TypeAndLock, PTL DEF Spec
<1>3. Spec => []Base
  BY <1>2, TypeAndLock, SingleFlightHolds, RefreshesDoNotCross, PTL DEF Base
<1> QED
  BY <1>3, VersionInit, VersionNext, PTL DEF Spec

\* "Rebuild one agent now" (agent_registry.py:108-115): a reload answers with
\* what was published when it was asked for, or something newer.
THEOREM ReloadSeesLatestHolds == Spec => []ReloadSeesLatest
<1>1. VersionInv => ReloadSeesLatest
  BY DEF VersionInv, ResultInv, ReloadSeesLatest
<1> QED
  BY <1>1, VersionAlways, PTL

\* "Absent is not transient" (agent_registry.py:14-16): what somebody was told
\* is gone is served to nobody who asks later.
THEOREM GoneStaysGoneHolds == Spec => []GoneStaysGone
<1>1. VersionInv => GoneStaysGone
  BY DEF VersionInv, ResultInv, GoneStaysGone
<1> QED
  BY <1>1, VersionAlways, PTL

LEMMA NeverOlderStep ==
    Base /\ VersionInv /\ [Next]_vars =>
        [\A a \in Agents : entries[a] # None /\ entries'[a] # None =>
            entries'[a].agent >= entries[a].agent]_vars
<1> SUFFICES ASSUME Base, VersionInv, [Next]_vars,
                    NEW b \in Agents, entries[b] # None, entries'[b] # None
             PROVE  entries'[b].agent >= entries[b].agent
  OBVIOUS
<1> USE DEF Base, TypeInv, TypeOK
<1>1. CASE entries'[b] = entries[b]
  BY <1>1, Numbers
<1>2. ASSUME NEW c \in Calls, LoadReturns(c), entries'[b] # entries[b]
      PROVE  entries'[b].agent >= entries[b].agent
  <2>1. b = arg[c] /\ entries'[b].agent = got[c].version
    BY <1>2 DEF LoadReturns, Store
  <2>2. entries[b].agent <= got[c].version
    BY <1>2, <2>1 DEF LoadReturns, VersionInv, AnswerInv
  <2>3. entries[b].agent \in Nat /\ got[c].version \in Nat
    BY <1>2, Numbers DEF LoadReturns
  <2> QED
    BY <2>1, <2>2, <2>3
<1>3. ASSUME NEW c \in Calls, LoadAbsent(c), entries'[b] # entries[b] PROVE FALSE
  BY <1>3 DEF LoadAbsent
<1>4. ASSUME NEW c \in Calls, LoadFails(c), entries'[b] # entries[b]
      PROVE  entries'[b].agent >= entries[b].agent
  <2>1. b = arg[c] /\ had[c] = entries[b]
    BY <1>4 DEF LoadFails, NobodyElseWrites
  <2>2. entries[b] \in Entry /\ entries[b].agent \in Nat
    BY Numbers
  <2>3. entries'[b] = [entries[b] EXCEPT !.retryAt = RetryAt(c)]
    BY <1>4, <2>1 DEF LoadFails
  <2>4. entries'[b].agent = entries[b].agent
    BY <2>2, <2>3 DEF Entry
  <2> QED
    BY <2>2, <2>4
<1>5. ASSUME NEW c \in Calls, NEW a \in Agents, Make(c, a) PROVE UNCHANGED entries
  BY <1>5 DEF Make, GetServed, GetLoads, GetWaits, ReloadLoads, ReloadWaits
<1>6. ASSUME NEW c \in Calls, Proceed(c)
      PROVE  UNCHANGED entries \/ LoadReturns(c) \/ LoadAbsent(c) \/ LoadFails(c)
  BY <1>6 DEF Proceed, WakeServed, WakeLoads, Responds, LoadRaises
<1> QED
  BY <1>1, <1>2, <1>3, <1>4, <1>5, <1>6 DEF Next, Tick, Publish, Retire, AtRest, vars

\* Answers of the memory service are applied in the order they were given.
THEOREM NeverOlderHolds == Spec => NeverOlder
BY VersionAlways, NeverOlderStep, PTL DEF Spec, NeverOlder
=============================================================================
