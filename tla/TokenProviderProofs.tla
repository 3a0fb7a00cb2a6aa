------------------------- MODULE TokenProviderProofs -------------------------
(***************************************************************************)
(* What holds of TokenProvider for any number of calls, any lives, leeway  *)
(* and delays.                                                             *)
(***************************************************************************)
EXTENDS TokenProvider, TLAPS

USE DEF Goto, Phases, Results, Exchanging, Time

\* An exchange goes on under the lock.
LockInv == \A c \in Calls : Exchanging(c) => HoldsLock(c)

\* A token on its way was made in the past, took no longer than it may, and is
\* announced with its life or with 0.
IssuedInv ==
    \A c \in Calls : pc[c] = "issued" =>
        /\ bearer[c] \in Bearer
        /\ bearer[c].issuedAt <= now
        /\ now <= bearer[c].issuedAt + MintDelay
        /\ told[c] \in {bearer[c].life, 0}

\* The cache counts no more than MintDelay beyond the life of its token.
CacheInv ==
    token # None =>
        /\ token.issuedAt <= now
        /\ expiresAt <= token.issuedAt + token.life + MintDelay

\* A request arrives before its bearer lapses, unless that was made for no longer
\* than the leeway.
SendInv ==
    \A c \in Calls : pc[c] = "sending" =>
        /\ bearer[c] \in Bearer
        /\ now <= left[c] + Flight
        /\ bearer[c].life > Leeway =>
              left[c] + Flight < bearer[c].issuedAt + bearer[c].life

Base == TypeOK /\ LockInv
Times == IssuedInv /\ CacheInv /\ SendInv

-----------------------------------------------------------------------------
(* Types and the lock.                                                     *)

LEMMA Constants ==
    /\ Leeway \in Nat /\ MintDelay \in Nat /\ Flight \in Nat /\ MaxTime \in Nat
    /\ MintDelay + Flight <= Leeway
    /\ Lifetimes \subseteq Nat
BY TokenAssumption

LEMMA ToldInNat == ASSUME NEW n \in Lifetimes \cup {0} PROVE n \in Nat
BY Constants

\* The numbers of a bearer, and what it is not.
LEMMA Numbers ==
    ASSUME NEW b \in Bearer
    PROVE  b.life \in Nat /\ b.life \in Lifetimes /\ b.issuedAt \in Nat /\ b # None
<1>1. b # None
  BY TokenAssumption
<1>2. b.life \in Lifetimes /\ b.issuedAt \in 0..MaxTime
  BY DEF Bearer
<1>3. b.life \in Nat
  BY <1>2, Constants
<1>4. b.issuedAt \in Nat
  BY <1>2, Constants
<1> QED
  BY <1>1, <1>2, <1>3, <1>4

LEMMA QueueSteps ==
    ASSUME NEW q \in Seq(Calls), NEW c \in Calls
    PROVE  /\ Append(q, c) \in Seq(Calls)
           /\ Append(q, c) # <<>>
           /\ q # <<>> => Tail(q) \in Seq(Calls)
           /\ q # <<>> => Head(Append(q, c)) = Head(q)
           /\ q = <<>> => Head(Append(q, c)) = c
OBVIOUS

LEMMA BaseInit == Init => Base
<1> SUFFICES ASSUME Init PROVE Base
  OBVIOUS
<1>1. TypeOK
  BY Constants DEF Init, TypeOK
<1>2. LockInv
  BY DEF Init, LockInv
<1> QED
  BY <1>1, <1>2 DEF Base

LEMMA TypeNext == Base /\ [Next]_vars => TypeOK'
<1> SUFFICES ASSUME Base, [Next]_vars PROVE TypeOK'
  OBVIOUS
<1> USE QueueSteps DEF Base, TypeOK
<1>1. ASSUME NEW c \in Calls, Make(c) PROVE TypeOK'
  <2>1. CASE CallServed(c)
    BY <2>1 DEF CallServed, Send
  <2>2. CASE CallMints(c)
    BY <2>2 DEF CallMints
  <2>3. CASE CallWaits(c)
    BY <2>3 DEF CallWaits
  <2> QED
    BY <1>1, <2>1, <2>2, <2>3 DEF Make
<1>2. ASSUME NEW c \in Calls, Proceed(c) PROVE TypeOK'
  <2>1. CASE WakeServed(c)
    BY <2>1 DEF WakeServed, Send, HoldsLock, Locked
  <2>2. CASE WakeMints(c)
    BY <2>2 DEF WakeMints
  <2>3. CASE Issues(c)
    <3>1. PICK life \in Lifetimes :
             /\ bearer' = [bearer EXCEPT ![c] = [life |-> life, issuedAt |-> now]]
             /\ \E seconds \in {life, 0} : told' = [told EXCEPT ![c] = seconds]
      BY <2>3 DEF Issues
    <3>2. [life |-> life, issuedAt |-> now] \in Bearer
      BY DEF Bearer
    <3>3. bearer' \in [Calls -> Bearer \cup {None}] /\ told' \in [Calls -> Lifetimes \cup {0}]
      BY <3>1, <3>2
    <3> QED
      BY <2>3, <3>3 DEF Issues
  <2>4. ASSUME Exchanging(c) PROVE Tail(queue) \in Seq(Calls)
    BY <2>4 DEF LockInv, HoldsLock, Locked
  <2>5. CASE MintReturns(c)
    <3>1. now \in Nat
      BY Constants
    <3>2. told[c] \in Lifetimes \cup {0}
      OBVIOUS
    <3>3. told[c] \in Nat
      BY <3>2, ToldInNat
    <3>4. now + told[c] \in Nat
      BY <3>1, <3>3
    <3>5. queue' \in Seq(Calls) /\ expiresAt' \in Nat /\ token' \in Bearer \cup {None}
      BY <2>4, <2>5, <3>4 DEF MintReturns, Store
    <3>6. /\ pc' \in [Calls -> Phases]
          /\ bearer' \in [Calls -> Bearer \cup {None}]
          /\ told' \in [Calls -> Lifetimes \cup {0}]
          /\ left' \in [Calls -> Time]
      BY <2>5 DEF MintReturns, Send
    <3> QED
      BY <2>5, <3>5, <3>6 DEF MintReturns
  <2>6. CASE MintFails(c)
    BY <2>4, <2>6, Constants DEF MintFails, Return
  <2>7. CASE Judged(c)
    <3>1. PICK v \in Verdicts(bearer[c]) : Return(c, v)
      BY <2>7 DEF Judged
    <3>2. v \in Results
      BY DEF Verdicts
    <3> QED
      BY <2>7, <3>1, <3>2, Constants DEF Judged, Return
  <2> QED
    BY <1>2, <2>1, <2>2, <2>3, <2>5, <2>6, <2>7 DEF Proceed
<1>3. CASE Tick
  BY <1>3, Constants DEF Tick
<1>4. CASE UNCHANGED vars
  BY <1>4 DEF vars
<1> QED
  BY <1>1, <1>2, <1>3, <1>4 DEF Next, AtRest

\* A call that joins the queue leaves the lock where it is, or takes it.
LEMMA EnterLock ==
    ASSUME Base, NEW c \in Calls, pc[c] = "idle", queue' = Append(queue, c),
           NEW phase, pc' = [pc EXCEPT ![c] = phase],
           phase \in {"minting", "issued"} => queue = <<>>
    PROVE  LockInv'
BY QueueSteps DEF Base, TypeOK, LockInv, HoldsLock, Locked

\* A call that leaves held the lock; nobody else was exchanging.
LEMMA LeaveLock ==
    ASSUME Base, NEW c \in Calls, HoldsLock(c), queue' = Tail(queue),
           NEW phase \in {"sending", "done"}, pc' = [pc EXCEPT ![c] = phase]
    PROVE  LockInv'
BY DEF Base, TypeOK, LockInv, HoldsLock

LEMMA LockNext == Base /\ [Next]_vars => LockInv'
<1> SUFFICES ASSUME Base, [Next]_vars PROVE LockInv'
  OBVIOUS
<1>1. ASSUME NEW c \in Calls, Make(c) PROVE LockInv'
  <2>1. CASE CallServed(c)
    BY <2>1 DEF CallServed, Send, Base, TypeOK, LockInv, HoldsLock, Locked
  <2>2. CASE CallMints(c)
    BY <2>2, EnterLock DEF CallMints, Locked
  <2>3. CASE CallWaits(c)
    BY <2>3, EnterLock DEF CallWaits
  <2> QED
    BY <1>1, <2>1, <2>2, <2>3 DEF Make
<1>2. ASSUME NEW c \in Calls, Proceed(c) PROVE LockInv'
  <2>1. CASE WakeServed(c)
    BY <2>1, LeaveLock DEF WakeServed, Send
  <2>2. CASE WakeMints(c)
    BY <2>2 DEF WakeMints, Base, TypeOK, LockInv, HoldsLock, Locked
  <2>3. CASE Issues(c)
    BY <2>3 DEF Issues, Base, TypeOK, LockInv, HoldsLock, Locked
  <2>4. ASSUME Exchanging(c) PROVE HoldsLock(c)
    BY <2>4 DEF Base, LockInv
  <2>5. CASE MintReturns(c)
    BY <2>4, <2>5, LeaveLock DEF MintReturns, Send
  <2>6. CASE MintFails(c)
    BY <2>4, <2>6, LeaveLock DEF MintFails, Return
  <2>7. CASE Judged(c)
    <3>1. PICK v \in Verdicts(bearer[c]) : Return(c, v)
      BY <2>7 DEF Judged
    <3> QED
      BY <2>7, <3>1 DEF Judged, Return, Base, TypeOK, LockInv, HoldsLock, Locked
  <2> QED
    BY <1>2, <2>1, <2>2, <2>3, <2>5, <2>6, <2>7 DEF Proceed
<1>3. ASSUME UNCHANGED <<pc, queue>> PROVE LockInv'
  BY <1>3 DEF Base, LockInv, HoldsLock, Locked
<1> QED
  BY <1>1, <1>2, <1>3 DEF Next, Tick, AtRest, vars

LEMMA BaseAlways == Spec => []Base
<1>1. Base /\ [Next]_vars => Base'
  BY TypeNext, LockNext DEF Base
<1> QED
  BY <1>1, BaseInit, PTL DEF Spec

\* Every variable keeps its type, for any number of calls.
THEOREM TypeCorrect == Spec => []TypeOK
<1>1. Base => TypeOK
  BY DEF Base
<1> QED
  BY <1>1, BaseAlways, PTL

\* Two exchanges would both be at the head of the queue.
LEMMA OneAtTheHead == Base => OneExchange
BY DEF Base, LockInv, HoldsLock, OneExchange

\* "Concurrent first calls share one exchange" (token_provider.py:46).
THEOREM OneExchangeHolds == Spec => []OneExchange
BY OneAtTheHead, BaseAlways, PTL

\* An exchange starts only while no good token is cached (token_provider.py:67-72).
THEOREM NoNeedlessExchangeHolds == Spec => NoNeedlessExchange
<1>1. Base /\ [Next]_vars =>
        [\A c \in Calls : pc[c] # "minting" /\ pc'[c] = "minting" => ~_fresh]_vars
  <2> SUFFICES ASSUME Base, Next, NEW c \in Calls, pc[c] # "minting", pc'[c] = "minting"
               PROVE  ~_fresh
    OBVIOUS
  <2> USE DEF Base, TypeOK
  <2>1. ASSUME NEW d \in Calls, Make(d) PROVE ~_fresh
    BY <2>1 DEF Make, CallServed, CallMints, CallWaits, Send
  <2>2. ASSUME NEW d \in Calls, Proceed(d) PROVE ~_fresh
    <3>1. CASE Judged(d)
      <4>1. PICK v : Return(d, v)
        BY <3>1 DEF Judged
      <4> QED
        BY <4>1 DEF Return
    <3>2. CASE ~Judged(d)
      BY <2>2, <3>2
         DEF Proceed, WakeServed, WakeMints, Issues, MintReturns, MintFails, Send, Return
    <3> QED
      BY <3>1, <3>2
  <2>3. ASSUME UNCHANGED pc PROVE FALSE
    BY <2>3
  <2> QED
    BY <2>1, <2>2, <2>3 DEF Next, Tick, AtRest, vars
<1> QED
  BY <1>1, BaseAlways, PTL DEF Spec, NoNeedlessExchange
-----------------------------------------------------------------------------
(* The clocks.                                                             *)

LEMMA TimesInit == Init => Times
BY DEF Init, Times, IssuedInv, CacheInv, SendInv

\* A step that leaves a call, its bearer and the clock alone leaves what is said of
\* them.
LEMMA OthersTimes ==
    ASSUME Times, NEW d \in Calls, pc'[d] = pc[d], bearer'[d] = bearer[d],
           told'[d] = told[d], left'[d] = left[d], now' = now
    PROVE  /\ pc'[d] = "issued" =>
                 /\ bearer'[d] \in Bearer
                 /\ bearer'[d].issuedAt <= now'
                 /\ now' <= bearer'[d].issuedAt + MintDelay
                 /\ told'[d] \in {bearer'[d].life, 0}
           /\ pc'[d] = "sending" =>
                 /\ bearer'[d] \in Bearer
                 /\ now' <= left'[d] + Flight
                 /\ bearer'[d].life > Leeway =>
                       left'[d] + Flight < bearer'[d].issuedAt + bearer'[d].life
BY DEF Times, IssuedInv, SendInv

\* A call that sends a bearer of which that is true.
LEMMA SendTimes ==
    ASSUME Base, Times, NEW c \in Calls, NEW b \in Bearer, Send(c, b), now' = now,
           \A d \in Calls \ {c} : told'[d] = told[d],
           b.life > Leeway => now + Flight < b.issuedAt + b.life
    PROVE  IssuedInv' /\ SendInv'
<1> USE DEF Base, TypeOK, Send
<1>1. /\ pc'[c] = "sending" /\ bearer'[c] = b /\ left'[c] = now
  OBVIOUS
<1>2. now' <= left'[c] + Flight
  BY <1>1, Constants
<1>3. \A d \in Calls \ {c} : /\ pc'[d] = pc[d] /\ bearer'[d] = bearer[d]
                             /\ told'[d] = told[d] /\ left'[d] = left[d]
  OBVIOUS
<1>4. IssuedInv'
  BY <1>1, <1>3, OthersTimes DEF IssuedInv
<1>5. SendInv'
  BY <1>1, <1>2, <1>3, OthersTimes DEF SendInv
<1> QED
  BY <1>4, <1>5

\* A bearer served from the cache.
LEMMA CachedInTime ==
    ASSUME Base, Times, _fresh
    PROVE  /\ token \in Bearer
           /\ now + Flight < token.issuedAt + token.life
<1> USE DEF Base, TypeOK
<1>1. token \in Bearer /\ now + Leeway < expiresAt
  BY DEF _fresh
<1>2. /\ token.issuedAt \in Nat /\ token.life \in Nat /\ now \in Nat /\ expiresAt \in Nat
      /\ expiresAt <= token.issuedAt + token.life + MintDelay
  BY <1>1, Numbers DEF Times, CacheInv
<1>3. now + Flight < token.issuedAt + token.life
  BY <1>1, <1>2, Constants
<1> QED
  BY <1>1, <1>3

\* A step that sends nothing: calls that change get to a phase of which nothing is
\* said.
LEMMA QuietTimes ==
    ASSUME Base, Times, NEW c \in Calls, NEW phase \in {"waiting", "minting", "done"},
           pc' = [pc EXCEPT ![c] = phase], now' = now,
           \A d \in Calls \ {c} : /\ bearer'[d] = bearer[d] /\ told'[d] = told[d]
                                 /\ left'[d] = left[d],
           UNCHANGED <<token, expiresAt>>
    PROVE  Times'
<1> USE DEF Base, TypeOK
<1>1. pc'[c] = phase /\ \A d \in Calls \ {c} : pc'[d] = pc[d]
  OBVIOUS
<1>2. IssuedInv'
  BY <1>1, OthersTimes DEF IssuedInv
<1>3. SendInv'
  BY <1>1, OthersTimes DEF SendInv
<1>4. CacheInv'
  BY DEF Times, CacheInv
<1> QED
  BY <1>2, <1>3, <1>4 DEF Times

LEMMA TimesNext == Base /\ Times /\ [Next]_vars => Times'
<1> SUFFICES ASSUME Base, Times, [Next]_vars PROVE Times'
  OBVIOUS
<1>1. ASSUME NEW c \in Calls, _fresh, Send(c, token), UNCHANGED <<now, token, expiresAt, told>>
      PROVE  Times'
  <2>1. IssuedInv' /\ SendInv'
    BY <1>1, CachedInTime, SendTimes
  <2>2. CacheInv'
    BY <1>1 DEF Times, CacheInv
  <2> QED
    BY <2>1, <2>2 DEF Times
<1>2. ASSUME NEW c \in Calls, Make(c) PROVE Times'
  BY <1>1, <1>2, QuietTimes DEF Make, CallServed, CallMints, CallWaits
<1>3. ASSUME NEW c \in Calls, Issues(c) PROVE Times'
  <2> USE DEF Base, TypeOK
  <2>1. PICK life \in Lifetimes :
           /\ bearer' = [bearer EXCEPT ![c] = [life |-> life, issuedAt |-> now]]
           /\ \E seconds \in {life, 0} : told' = [told EXCEPT ![c] = seconds]
    BY <1>3 DEF Issues
  <2>2. [life |-> life, issuedAt |-> now] \in Bearer
    BY DEF Bearer
  <2>3. /\ pc'[c] = "issued" /\ now' = now /\ now \in Nat
        /\ bearer'[c] = [life |-> life, issuedAt |-> now]
        /\ told'[c] \in {life, 0}
    BY <1>3, <2>1, Constants DEF Issues
  <2>4. /\ bearer'[c] \in Bearer
        /\ bearer'[c].issuedAt <= now'
        /\ now' <= bearer'[c].issuedAt + MintDelay
        /\ told'[c] \in {bearer'[c].life, 0}
    BY <2>2, <2>3, Constants
  <2>5. \A d \in Calls \ {c} : /\ pc'[d] = pc[d] /\ bearer'[d] = bearer[d]
                               /\ told'[d] = told[d] /\ left'[d] = left[d]
    BY <1>3, <2>1 DEF Issues
  <2>6. IssuedInv'
    BY <2>3, <2>4, <2>5, OthersTimes DEF IssuedInv
  <2>7. SendInv'
    BY <2>3, <2>5, OthersTimes DEF SendInv
  <2>8. CacheInv'
    BY <1>3 DEF Issues, Times, CacheInv
  <2> QED
    BY <2>6, <2>7, <2>8 DEF Times
<1>4. ASSUME NEW c \in Calls, MintReturns(c) PROVE Times'
  <2> USE DEF Base, TypeOK
  <2>1. /\ bearer[c] \in Bearer /\ bearer[c].issuedAt <= now
        /\ now <= bearer[c].issuedAt + MintDelay /\ told[c] \in {bearer[c].life, 0}
    BY <1>4 DEF MintReturns, Times, IssuedInv
  <2>2. bearer[c].life \in Nat /\ bearer[c].issuedAt \in Nat /\ now \in Nat
    BY <2>1, Numbers, Constants
  <2>3. bearer[c].life > Leeway => now + Flight < bearer[c].issuedAt + bearer[c].life
    BY <2>1, <2>2, Constants
  <2>4. IssuedInv' /\ SendInv'
    BY <1>4, <2>1, <2>3, SendTimes DEF MintReturns
  <2>5. now + told[c] <= bearer[c].issuedAt + bearer[c].life + MintDelay
    BY <2>1, <2>2, Constants
  <2>6. CacheInv'
    BY <1>4, <2>1, <2>5 DEF MintReturns, Store, CacheInv
  <2> QED
    BY <2>4, <2>6 DEF Times
<1>5. ASSUME NEW c \in Calls, Proceed(c) PROVE Times'
  <2>1. CASE WakeServed(c)
    BY <1>1, <2>1 DEF WakeServed
  <2>2. CASE WakeMints(c)
    BY <2>2, QuietTimes DEF WakeMints
  <2>3. CASE Issues(c) \/ MintReturns(c)
    BY <1>3, <1>4, <2>3
  <2>4. ASSUME NEW v, Return(c, v), UNCHANGED <<now, token, expiresAt>> PROVE Times'
    BY <2>4, QuietTimes DEF Return, Base, TypeOK
  <2>5. CASE MintFails(c) \/ Judged(c)
    BY <2>4, <2>5 DEF MintFails, Judged
  <2> QED
    BY <1>5, <2>1, <2>2, <2>3, <2>5 DEF Proceed
<1>6. CASE Tick
  <2> USE DEF Base, TypeOK
  <2>1. now \in Nat /\ now' = now + 1
    BY <1>6, Constants DEF Tick
  <2>2. IssuedInv'
    <3> SUFFICES ASSUME NEW c \in Calls, pc[c] = "issued"
                 PROVE  /\ bearer[c] \in Bearer
                        /\ bearer[c].issuedAt <= now + 1
                        /\ now + 1 <= bearer[c].issuedAt + MintDelay
                        /\ told[c] \in {bearer[c].life, 0}
      BY <1>6, <2>1 DEF Tick, IssuedInv
    <3>1. /\ bearer[c] \in Bearer /\ bearer[c].issuedAt <= now
          /\ told[c] \in {bearer[c].life, 0} /\ now < bearer[c].issuedAt + MintDelay
      BY <1>6 DEF Tick, Times, IssuedInv
    <3>2. bearer[c].issuedAt \in Nat
      BY <3>1, Numbers
    <3> QED
      BY <2>1, <3>1, <3>2, Constants
  <2>3. SendInv'
    <3> SUFFICES ASSUME NEW c \in Calls, pc[c] = "sending"
                 PROVE  /\ bearer[c] \in Bearer
                        /\ now + 1 <= left[c] + Flight
                        /\ bearer[c].life > Leeway =>
                              left[c] + Flight < bearer[c].issuedAt + bearer[c].life
      BY <1>6, <2>1 DEF Tick, SendInv
    <3>1. now < left[c] + Flight
      BY <1>6 DEF Tick
    <3>2. left[c] \in Nat
      BY Constants
    <3>3. now + 1 <= left[c] + Flight
      BY <2>1, <3>1, <3>2, Constants
    <3> QED
      BY <3>3 DEF Times, SendInv
  <2>4. CacheInv'
    <3> SUFFICES ASSUME token # None
                 PROVE  /\ token.issuedAt <= now + 1
                        /\ expiresAt <= token.issuedAt + token.life + MintDelay
      BY <1>6, <2>1 DEF Tick, CacheInv
    <3>1. token.issuedAt \in Nat
      BY Numbers
    <3> QED
      BY <2>1, <3>1 DEF Times, CacheInv
  <2> QED
    BY <2>2, <2>3, <2>4 DEF Times
<1>7. CASE UNCHANGED vars
  BY <1>7 DEF vars, Times, IssuedInv, CacheInv, SendInv
<1> QED
  BY <1>2, <1>5, <1>6, <1>7 DEF Next, AtRest

LEMMA TimesAlways == Spec => []Times
BY TimesInit, TimesNext, BaseAlways, PTL DEF Spec

\* What the memory service finds lapsed is a bearer that was made for no longer than
\* the leeway.
LEMMA LapseStep ==
    ASSUME Base, Times, Next, NEW c \in Calls, result[c] = "none", result'[c] = "lapsed"
    PROVE  bearer[c].life <= Leeway
<1> USE DEF Base, TypeOK
<1>1. Judged(c)
  <2>1. ASSUME NEW d \in Calls, Make(d) PROVE FALSE
    BY <2>1 DEF Make, CallServed, CallMints, CallWaits, Send
  <2>2. ASSUME NEW d \in Calls, Proceed(d), ~Judged(d) PROVE FALSE
    BY <2>2 DEF Proceed, WakeServed, WakeMints, Issues, MintReturns, MintFails, Send, Return
  <2>3. ASSUME NEW d \in Calls, Judged(d), d # c PROVE FALSE
    <3>1. PICK v : Return(d, v)
      BY <2>3 DEF Judged
    <3> QED
      BY <2>3, <3>1 DEF Return
  <2>4. ASSUME UNCHANGED result PROVE FALSE
    BY <2>4
  <2> QED
    BY <2>1, <2>2, <2>3, <2>4 DEF Next, Tick, AtRest, vars, Proceed
<1>2. PICK v \in Verdicts(bearer[c]) : Return(c, v)
  BY <1>1 DEF Judged
<1>3. v = "lapsed"
  BY <1>2 DEF Return
<1>4. ~(now < bearer[c].issuedAt + bearer[c].life)
  BY <1>3 DEF Verdicts, Honoured
<1>5. /\ bearer[c] \in Bearer /\ now <= left[c] + Flight
      /\ bearer[c].life > Leeway => left[c] + Flight < bearer[c].issuedAt + bearer[c].life
  BY <1>1 DEF Judged, Times, SendInv
<1>6. bearer[c].life \in Nat /\ bearer[c].issuedAt \in Nat /\ now \in Nat /\ left[c] \in Nat
  BY <1>5, Numbers, Constants
<1> QED
  BY <1>4, <1>5, <1>6, Constants

\* "A request never leaves carrying a bearer about to lapse in flight"
\* (token_provider.py:44-45), while the wires take no longer than the leeway.
THEOREM NoLapseInFlightHolds == Spec => NoLapseInFlight
<1>1. Base /\ Times /\ [Next]_vars =>
        [\A c \in Calls :
           result[c] = "none" /\ result'[c] = "lapsed" => bearer[c].life <= Leeway]_vars
  BY LapseStep
<1> QED
  BY <1>1, BaseAlways, TimesAlways, PTL DEF Spec, NoLapseInFlight
-----------------------------------------------------------------------------
(* Tokens do not go back.                                                  *)

\* A token on its way was made after the one in the cache.
NewerInv ==
    \A c \in Calls : pc[c] = "issued" /\ token # None => token.issuedAt <= bearer[c].issuedAt

LEMMA NewerNext == Base /\ Times /\ NewerInv /\ [Next]_vars => NewerInv'
<1> SUFFICES ASSUME Base, Times, NewerInv, [Next]_vars,
                    NEW c \in Calls, pc'[c] = "issued", token' # None
             PROVE  token'.issuedAt <= bearer'[c].issuedAt
  BY DEF NewerInv
<1> USE DEF Base, TypeOK
<1>1. CASE pc[c] = "issued" /\ UNCHANGED <<token, bearer[c]>>
  BY <1>1 DEF NewerInv
<1>2. ASSUME NEW d \in Calls, Issues(d) PROVE token'.issuedAt <= bearer'[c].issuedAt
  <2>1. PICK life \in Lifetimes :
           bearer' = [bearer EXCEPT ![d] = [life |-> life, issuedAt |-> now]]
    BY <1>2 DEF Issues
  <2>2. CASE d = c
    <3>1. bearer'[c].issuedAt = now /\ token' = token
      BY <1>2, <2>1, <2>2 DEF Issues
    <3> QED
      BY <3>1 DEF Times, CacheInv
  <2>3. CASE d # c
    BY <1>1, <1>2, <2>1, <2>3 DEF Issues
  <2> QED
    BY <2>2, <2>3
<1>3. ASSUME NEW d \in Calls, MintReturns(d) PROVE FALSE
  <2>1. Exchanging(d) /\ d # c /\ pc[c] = "issued"
    BY <1>3 DEF MintReturns, Send
  <2> QED
    BY <2>1, OneAtTheHead DEF OneExchange
<1>4. ASSUME NEW d \in Calls, NEW v, Return(d, v), UNCHANGED token
      PROVE  token'.issuedAt <= bearer'[c].issuedAt
  BY <1>1, <1>4 DEF Return
<1>5. ASSUME NEW d \in Calls, Make(d) PROVE token'.issuedAt <= bearer'[c].issuedAt
  BY <1>1, <1>5 DEF Make, CallServed, CallMints, CallWaits, Send
<1>6. ASSUME NEW d \in Calls, Proceed(d) PROVE token'.issuedAt <= bearer'[c].issuedAt
  <2>1. CASE WakeServed(d) \/ WakeMints(d)
    BY <1>1, <2>1 DEF WakeServed, WakeMints, Send
  <2>2. CASE MintFails(d) \/ Judged(d)
    BY <1>4, <2>2 DEF MintFails, Judged
  <2> QED
    BY <1>2, <1>3, <1>6, <2>1, <2>2 DEF Proceed
<1>7. CASE Tick \/ UNCHANGED vars
  BY <1>1, <1>7 DEF Tick, vars
<1> QED
  BY <1>5, <1>6, <1>7 DEF Next, AtRest

LEMMA NewerAlways == Spec => []NewerInv
<1>1. Init => NewerInv
  BY DEF Init, NewerInv
<1> QED
  BY <1>1, NewerNext, BaseAlways, TimesAlways, PTL DEF Spec

LEMMA NeverOlderStep ==
    ASSUME Base, NewerInv, Next, token # None, token' # None
    PROVE  token'.issuedAt >= token.issuedAt
<1> USE DEF Base, TypeOK
<1>1. ASSUME token' = token PROVE token'.issuedAt >= token.issuedAt
  BY <1>1, Numbers
<1>2. ASSUME NEW c \in Calls, MintReturns(c) PROVE token'.issuedAt >= token.issuedAt
  <2>1. token' = bearer[c] /\ pc[c] = "issued"
    BY <1>2 DEF MintReturns, Store
  <2>2. token.issuedAt <= bearer[c].issuedAt /\ token.issuedAt \in Nat
    BY <2>1, Numbers DEF NewerInv
  <2>3. bearer[c] \in Bearer
    BY <2>1
  <2> QED
    BY <2>1, <2>2, <2>3, Numbers
<1>3. ASSUME NEW c \in Calls, Make(c) \/ (Proceed(c) /\ ~MintReturns(c)) PROVE token' = token
  BY <1>3 DEF Make, CallServed, CallMints, CallWaits,
              Proceed, WakeServed, WakeMints, Issues, MintFails, Judged
<1>4. ASSUME Tick \/ UNCHANGED vars PROVE token' = token
  BY <1>4 DEF Tick, vars
<1> QED
  BY <1>1, <1>2, <1>3, <1>4 DEF Next, AtRest, Proceed

\* A cached token is never replaced by one that was issued before it.
THEOREM NeverOlderHolds == Spec => NeverOlder
<1>1. Base /\ NewerInv /\ [Next]_vars =>
        [token # None /\ token' # None => token'.issuedAt >= token.issuedAt]_vars
  BY NeverOlderStep
<1> QED
  BY <1>1, BaseAlways, NewerAlways, PTL DEF Spec, NeverOlder
=============================================================================
