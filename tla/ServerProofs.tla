----------------------------- MODULE ServerProofs -----------------------------
(***************************************************************************)
(* What holds of Server for any number of requests and restarts, whatever  *)
(* they ask for and whatever environments the process is started with.     *)
(***************************************************************************)
EXTENDS Server, SequenceLemmas

-----------------------------------------------------------------------------
(* Handlers.                                                               *)

\* A handler is found at the first base that has one.
LEMMA FirstHandler ==
    ASSUME NEW class \in DOMAIN Mro, NEW i \in 1..Len(Mro[class]),
           Mro[class][i] \in DOMAIN Handlers,
           \A j \in 1..Len(Mro[class]) : j < i => Mro[class][j] \notin DOMAIN Handlers
    PROVE  Status(class) = Handlers[Mro[class][i]]
<1> DEFINE I == {j \in 1..Len(Mro[class]) : Mro[class][j] \in DOMAIN Handlers}
<1>1. i \in I /\ \A j \in I : i <= j
  OBVIOUS
<1>2. Min(I) = i
  BY <1>1 DEF Min
<1> QED
  BY <1>1, <1>2 DEF Status, SelectInSeq

LEMMA OwnHandler ==
    ASSUME NEW class \in {"AgentNotFound", "MemoryServiceError", "TokenError",
                            "BadRequest", "RequestValidationError"}
    PROVE  Status(class) = Handlers[Mro[class][1]]
BY FirstHandler DEF Mro, Handlers

LEMMA HandlerOfBase ==
    ASSUME NEW class \in {"MemoryServiceAuthError", "JSONDecodeError",
                            "ConnectError", "RegistryUnavailable", "RunError"}
    PROVE  Status(class) = Handlers[Mro[class][2]]
<1>0. class \in DOMAIN Mro
  BY DEF Mro
<1>1. Len(Mro[class]) \in {2, 3, 4}
  BY DEF Mro
<1>2. Mro[class][2] \in DOMAIN Handlers /\ Mro[class][1] \notin DOMAIN Handlers
  BY DEF Mro, Handlers
<1>3. \A j \in 1..Len(Mro[class]) : j < 2 => j = 1
  BY <1>1
<1> QED
  BY <1>0, <1>1, <1>2, <1>3, FirstHandler

\* What every exception is answered with.
LEMMA Statuses ==
    /\ Status("AgentNotFound") = 404
    /\ \A class \in LoadErrors : Status(class) \in {400, 500, 503}
    /\ Status("RegistryUnavailable") = 400
    /\ Status("BadRequest") = 400
    /\ Status("RunError") = 500
    /\ Status("RequestValidationError") = 422
BY OwnHandler, HandlerOfBase DEF LoadErrors, Mro, Handlers

-----------------------------------------------------------------------------
(* Where requests are.                                                     *)

Types ==
    /\ phase \in {"down", "up"}
    /\ pc \in [Requests -> Places]
    /\ body \in [Requests -> Bodies \cup {None}]
    /\ status = [r \in Requests |-> status[r]]
    /\ basis = [r \in Requests |-> basis[r]]

\* A request under way is one of a process that is up and of a brain that may have it.
PlaceInv ==
    /\ warm \subseteq Known
    /\ phase = "down" => \A r \in Requests : ~Underway(r)
    /\ \A r \in Requests :
          /\ pc[r] # "idle" => body[r] \in Bodies
          /\ pc[r] \in {"resolving", "reloading"} => app.memory
          /\ pc[r] = "reloading" => ~Chat(body[r])
          /\ pc[r] \in {"resolving", "running", "linking"} =>
                Chat(body[r]) /\ Conversing(body[r]) # <<>>
          /\ pc[r] = "running" =>
                body[r].agent = <<>> \/ (app.memory /\ body[r].agent \in Known)
          /\ pc[r] = "linking" => IsCommand(body[r])

Inv == Types /\ PlaceInv

LEMMA InvInit == ServerInit => Inv
BY DEF ServerInit, Inv, Types, PlaceInv, Places, Underway

USE DEF Goto, Answer, Raise, Underway, Places

\* What Run does to the place of a request.
LEMMA RunPlaces ==
    ASSUME NEW r \in Requests, NEW b \in Bodies, Types, Run(r, b)
    PROVE  /\ pc' = [pc EXCEPT ![r] = "running"] \/ pc' = [pc EXCEPT ![r] = "answered"]
           /\ status' = [q \in Requests |-> status'[q]]
           /\ basis' = [q \in Requests |-> basis'[q]]
BY DEF Run, Types

LEMMA PlaceMake ==
    ASSUME Inv, NEW r \in Requests, NEW b \in Bodies, Make(r, b)
    PROVE  Inv'
<1> USE DEF Inv, Types
<1>1. CASE Health(r, b)
  BY <1>1 DEF Health, Receive, PlaceInv, IsCommand
<1>2. CASE Refuse(r, b)
  BY <1>2 DEF Refuse, Receive, PlaceInv, IsCommand
<1>3. CASE Reload(r, b)
  BY <1>3 DEF Reload, Receive, PlaceInv, IsCommand, Chat
<1>4. CASE ReceiveLink(r, b)
  BY <1>4 DEF ReceiveLink, ReceiveChat, Receive, PlaceInv, IsCommand
<1>5. CASE ReceiveServed(r, b)
  BY <1>5, RunPlaces DEF ReceiveServed, ReceiveChat, Receive, PlaceInv, IsCommand, Unavailable
<1>6. CASE ReceiveResolves(r, b)
  BY <1>6 DEF ReceiveResolves, ReceiveChat, Receive, PlaceInv, IsCommand, Unavailable
<1> QED
  BY <1>1, <1>2, <1>3, <1>4, <1>5, <1>6 DEF Make

LEMMA PlaceProceed ==
    ASSUME Inv, NEW r \in Requests, Proceed(r)
    PROVE  Inv'
<1> USE DEF Inv, Types
<1>1. CASE Resolved(r)
  BY <1>1, RunPlaces DEF Resolved, PlaceInv, IsCommand
<1>2. CASE Reloaded(r)
  BY <1>2 DEF Reloaded, PlaceInv, IsCommand
<1>3. CASE NotFound(r)
  BY <1>3 DEF NotFound, PlaceInv, IsCommand
<1>4. ASSUME NEW class \in LoadErrors, LoadFails(r, class) PROVE Inv'
  BY <1>4 DEF LoadFails, PlaceInv, IsCommand
<1>5. CASE Replies(r)
  BY <1>5 DEF Replies, PlaceInv, IsCommand
<1>6. CASE RunPauses(r)
  BY <1>6 DEF RunPauses, MayPause, PlaceInv, IsCommand
<1>7. CASE Fails(r)
  BY <1>7 DEF Fails, PlaceInv, IsCommand
<1> QED
  BY <1>1, <1>2, <1>3, <1>4, <1>5, <1>6, <1>7 DEF Proceed

LEMMA PlaceDie == Inv /\ Die => Inv'
BY DEF Inv, Types, Die, PlaceInv

LEMMA InvNext == Inv /\ [ServerNext]_vars => Inv'
<1> SUFFICES ASSUME Inv, [ServerNext]_vars PROVE Inv'
  OBVIOUS
<1>1. CASE Start
  BY <1>1 DEF Inv, Types, Start, PlaceInv
<1>2. CASE Crash
  BY <1>2, PlaceDie DEF Crash
<1>3. ASSUME NEW r \in Requests, CrashMidTurn(r) PROVE Inv'
  BY <1>3, PlaceDie DEF CrashMidTurn
<1>4. ASSUME NEW r \in Requests, Proceed(r) PROVE Inv'
  BY <1>4, PlaceProceed
<1>5. ASSUME NEW r \in Requests, NEW b \in Bodies, Make(r, b) PROVE Inv'
  BY <1>5, PlaceMake
<1>6. CASE UNCHANGED vars
  BY <1>6 DEF vars, Inv, Types, PlaceInv, IsCommand
<1> QED
  BY <1>1, <1>2, <1>3, <1>4, <1>5, <1>6 DEF ServerNext, AtRest

LEMMA InvAlways == ServerSpec => []Inv
BY InvInit, InvNext, PTL DEF ServerSpec

-----------------------------------------------------------------------------
(* What statuses tell.                                                     *)

LEMMA TellsStep ==
    Inv /\ [ServerNext]_vars =>
        [\A r \in Requests : pc[r] # "answered" /\ pc'[r] = "answered" =>
            LET b == body'[r]
            IN  /\ status'[r] = 404 => app.memory /\ b.agent \notin Known
                /\ status'[r] = 503 => app.memory
                /\ status'[r] = 200 /\ b.agent # <<>> =>
                      (app.memory /\ b.agent \in Known) \/ IsCommand(b)]_vars
<1> DEFINE Told(q) == /\ status'[q] = 404 => app.memory /\ body'[q].agent \notin Known
                      /\ status'[q] = 503 => app.memory
                      /\ status'[q] = 200 /\ body'[q].agent # <<>> =>
                            (app.memory /\ body'[q].agent \in Known) \/ IsCommand(body'[q])
<1> SUFFICES ASSUME Inv, [ServerNext]_vars,
                    NEW q \in Requests, pc[q] # "answered", pc'[q] = "answered"
             PROVE  Told(q)
  OBVIOUS
<1> USE Statuses DEF Inv, Types
<1>1. ASSUME NEW r \in Requests, NEW b \in Bodies, Make(r, b) PROVE Told(q)
  <2>1. pc' = [pc EXCEPT ![r] = pc'[r]] /\ body' = [body EXCEPT ![r] = b]
    BY <1>1 DEF Make, Health, Refuse, Reload, ReceiveLink, ReceiveServed, ReceiveResolves,
                ReceiveChat, Receive, Run
  <2>2. q = r /\ body'[q] = b
    BY <2>1
  <2>3. CASE Health(r, b)
    BY <2>2, <2>3, BodiesAssumption DEF Health, Receive
  <2>4. CASE Refuse(r, b)
    BY <2>2, <2>4 DEF Refuse
  <2>5. CASE ReceiveServed(r, b)
    BY <2>2, <2>5 DEF ReceiveServed, Run
  <2>6. CASE Reload(r, b) \/ ReceiveLink(r, b) \/ ReceiveResolves(r, b)
    BY <2>2, <2>6 DEF Reload, ReceiveLink, ReceiveResolves
  <2> QED
    BY <1>1, <2>3, <2>4, <2>5, <2>6 DEF Make
<1>2. ASSUME NEW r \in Requests, Proceed(r) PROVE Told(q)
  <2>1. q = r /\ body' = body
    BY <1>2 DEF Proceed, Resolved, Run, Reloaded, NotFound, LoadFails, Replies, RunPauses, Fails
  <2>2. CASE Resolved(r)
    BY <2>1, <2>2 DEF Resolved, Run
  <2>3. CASE Reloaded(r)
    BY <2>1, <2>3 DEF Reloaded, PlaceInv
  <2>4. CASE NotFound(r)
    BY <2>1, <2>4 DEF NotFound, PlaceInv
  <2>5. ASSUME NEW class \in LoadErrors, LoadFails(r, class) PROVE Told(q)
    BY <2>1, <2>5 DEF LoadFails, PlaceInv
  <2>6. CASE Replies(r)
    BY <2>1, <2>6 DEF Replies, PlaceInv
  <2>7. CASE RunPauses(r)
    BY <2>1, <2>7 DEF RunPauses, MayPause, PlaceInv
  <2>8. CASE Fails(r)
    BY <2>1, <2>8 DEF Fails
  <2> QED
    BY <1>2, <2>2, <2>3, <2>4, <2>5, <2>6, <2>7, <2>8 DEF Proceed
<1>3. ASSUME Die PROVE FALSE
  BY <1>3 DEF Die
<1>4. CASE Start
  BY <1>4 DEF Start
<1> QED
  BY <1>1, <1>2, <1>3, <1>4 DEF ServerNext, Crash, CrashMidTurn, AtRest, vars

\* "404 if it does not exist, 400 if no memory service is configured" (README.md:147):
\* of any environment and any order of restarts, loads and failures.
THEOREM StatusTellsHolds == ServerSpec => StatusTells
BY InvAlways, TellsStep, PTL DEF ServerSpec, StatusTells

-----------------------------------------------------------------------------
(* Whose question waits under a key.                                       *)

\* Of two prefixes of the same sequence the shorter begins the longer.
LEMMA PrefixSplits ==
    ASSUME NEW S, NEW p \in Seq(S), NEW q \in Seq(S), NEW x \in Seq(S), NEW y \in Seq(S),
           Len(q) <= Len(p), p \o x = q \o y
    PROVE  LET more == SubSeq(p, Len(q) + 1, Len(p))
           IN  p = q \o more /\ y = more \o x
<1> DEFINE m == Len(p)
           n == Len(q)
           start == SubSeq(p, 1, n)
           more == SubSeq(p, n + 1, m)
           px == p \o x
           qy == q \o y
<1>1. m \in Nat /\ n \in Nat /\ Len(x) \in Nat /\ Len(y) \in Nat /\ \A i \in 1..m : p[i] \in S
  BY LenProperties, ElementOfSeq
<1>2. /\ \A i \in 1..m + Len(x) : px[i] = IF i <= m THEN p[i] ELSE x[i - m]
      /\ \A i \in 1..n + Len(y) : qy[i] = IF i <= n THEN q[i] ELSE y[i - n]
  BY ConcatProperties
<1>3. px = qy /\ n <= m
  OBVIOUS
<1>4. start \in Seq(S) /\ more \in Seq(S) /\ start \o more = p
  <2>1. /\ 1 \in Int /\ n \in Int /\ n + 1 \in Int /\ m \in Int
        /\ (\A i \in 1..n : p[i] \in S) /\ (\A i \in n + 1..m : p[i] \in S)
    BY <1>1, <1>3
  <2>2. start \in Seq(S) /\ more \in Seq(S)
    BY <2>1, SubSeqProperties
  <2>3. SubSeq(p, 1, n) \o SubSeq(p, n + 1, m) = SubSeq(p, 1, m)
    <3>1. 1 \in 1..m + 1 /\ n \in 1 - 1..m /\ m \in n..m
      BY <1>1, <1>3
    <3> QED
      BY <3>1, ConcatAdjacentSubSeq
  <2>4. SubSeq(p, 1, m) = p
    BY SubSeqFull
  <2> QED
    BY <2>2, <2>3, <2>4
<1>5. /\ Len(start) = n /\ \A i \in 1..n : start[i] = p[i]
  <2>1. /\ 1 \in Int /\ n \in Int /\ \A i \in 1..n : p[i] \in S
    BY <1>1, <1>3
  <2>2. /\ Len(start) = IF 1 <= n THEN n - 1 + 1 ELSE 0
        /\ \A i \in 1..n - 1 + 1 : start[i] = p[1 + i - 1]
    BY <2>1, SubSeqProperties
  <2> HIDE DEF start, n
  <2>3. Len(start) = n
    BY <1>1, <2>2
  <2>4. ASSUME NEW i \in 1..n PROVE start[i] = p[i]
    <3>1. i \in 1..n - 1 + 1 /\ 1 + i - 1 = i
      BY <1>1
    <3> QED
      BY <2>2, <3>1
  <2> QED
    BY <2>3, <2>4
<1> HIDE DEF px, qy, m
<1>6. ASSUME NEW i \in 1..n PROVE start[i] = q[i]
  <2>1. i \in 1..m + Len(x) /\ i \in 1..n + Len(y) /\ i <= m /\ i <= n
    BY <1>1, <1>3
  <2> QED
    BY <1>2, <1>3, <1>5, <2>1
<1> HIDE DEF start
<1>7. start = q
  <2>1. Len(start) = Len(q) /\ \A i \in 1..Len(start) : start[i] = q[i]
    BY <1>5, <1>6
  <2> QED
    BY <1>4, <2>1, SeqEqual
<1> HIDE DEF more, n
<1>8. q \o (more \o x) = q \o y
  <2>1. (q \o more) \o x = q \o (more \o x)
    BY <1>4, ConcatAssociative
  <2> QED
    BY <1>3, <1>4, <1>7, <2>1 DEF px, qy
<1>9. more \o x = y
  <2> DEFINE z == more \o x
  <2>1. z \in Seq(S) /\ q \o z = q \o y
    BY <1>4, <1>8, ConcatProperties
  <2> HIDE DEF z
  <2>2. z = y
    BY ONLY <2>1, y \in Seq(S), q \in Seq(S), ConcatSimplifications
  <2> QED
    BY <2>2 DEF z
<1> QED
  BY <1>4, <1>7, <1>9 DEF more, m, n

\* Two requests have the same key if and only if they share a history.
LEMMA KeysShare ==
    ASSUME NEW b \in Bodies, NEW c \in Bodies, Chat(b), Chat(c)
    PROVE  Key(b) = Key(c) <=> Shares(b, c)
<1> DEFINE p == b.agent
           q == c.agent
           x == Conversing(b)
           y == Conversing(c)
<1>1. p \in Seq(STRING) /\ q \in Seq(STRING) /\ x \in Seq(STRING) /\ y \in Seq(STRING)
  BY BodiesAssumption DEF Chat, Conversing, normalize_conversation_id
<1>2. Key(b) = p \o x /\ Key(c) = q \o y
  BY DEF Key, memory_key
<1> DEFINE u == SubSeq(p, Len(q) + 1, Len(p))
           v == SubSeq(q, Len(p) + 1, Len(q))
<1>3. Shares(b, c) <=> (p = q \o u /\ y = u \o x) \/ (q = p \o v /\ x = v \o y)
  BY DEF Shares, Blurs
<1>4. u \in Seq(STRING) /\ v \in Seq(STRING)
  <2>1. /\ Len(p) \in Nat /\ Len(q) \in Nat
        /\ \A i \in 1..Len(p) : p[i] \in STRING
        /\ \A i \in 1..Len(q) : q[i] \in STRING
    BY <1>1, LenProperties, ElementOfSeq
  <2> DEFINE m == Len(p)
             n == Len(q)
  <2>2. /\ m \in Int /\ n \in Int /\ m + 1 \in Int /\ n + 1 \in Int
        /\ (\A i \in n + 1..m : p[i] \in STRING) /\ (\A i \in m + 1..n : q[i] \in STRING)
    BY <2>1
  <2> HIDE DEF p, q, m, n
  <2>3. SubSeq(p, n + 1, m) \in Seq(STRING) /\ SubSeq(q, m + 1, n) \in Seq(STRING)
    BY <2>2, SubSeqProperties
  <2> QED
    BY <2>3 DEF m, n
<1> HIDE DEF p, q, x, y
<1>5. ASSUME p \o x = q \o y PROVE (p = q \o u /\ y = u \o x) \/ (q = p \o v /\ x = v \o y)
  <2>1. Len(q) <= Len(p) \/ Len(p) <= Len(q)
    BY <1>1, LenProperties
  <2>2. CASE Len(q) <= Len(p)
    BY <1>1, <1>5, <2>2, PrefixSplits
  <2>3. CASE Len(p) <= Len(q)
    <3>1. q \o y = p \o x
      BY <1>5
    <3> QED
      BY <1>1, <2>3, <3>1, PrefixSplits
  <2> QED
    BY <2>1, <2>2, <2>3
<1> HIDE DEF u, v
<1>6. ASSUME p = q \o u, y = u \o x PROVE p \o x = q \o y
  <2>1. (q \o u) \o x = q \o (u \o x)
    BY <1>1, <1>4, ConcatAssociative
  <2> QED
    BY <1>6, <2>1
<1>7. ASSUME q = p \o v, x = v \o y PROVE p \o x = q \o y
  <2>1. p \in Seq(STRING) /\ v \in Seq(STRING) /\ y \in Seq(STRING)
    BY <1>1, <1>4
  <2>2. (p \o v) \o y = p \o (v \o y)
    BY ONLY <2>1, ConcatAssociative
  <2> QED
    BY <1>7, <2>2
<1> QED
  BY <1>2, <1>3, <1>5, <1>6, <1>7

\* The question a key holds, if any, was asked under it by a request that is over and
\* did not fail.
Asked(q, key) ==
    /\ pc[q] \in {"answered", "lost"}
    /\ pc[q] = "answered" => status[q] = 200
    /\ body[q] \in Bodies /\ Chat(body[q]) /\ Conversing(body[q]) # <<>>
    /\ Key(body[q]) = key

QuestionInv ==
    /\ parked \in [Keys -> Requests \cup {None}]
    /\ \A key \in Keys : parked[key] # None => Asked(parked[key], key)

\* What a step may do to a question: leave it, drop it or, as r ends, ask it.
Question(key) ==
    \/ parked'[key] \in {parked[key], None}
    \/ \E r \in Requests : parked'[key] = r /\ Asked(r, key)'

\* What is over does not change.
LEMMA OverStays ==
    ASSUME Inv, [ServerNext]_vars, NEW q \in Requests, pc[q] \in {"answered", "lost"}
    PROVE  pc'[q] = pc[q] /\ body'[q] = body[q] /\ status'[q] = status[q]
<1> USE DEF Inv, Types
<1>1. ASSUME NEW r \in Requests, NEW b \in Bodies, Make(r, b)
      PROVE  pc'[q] = pc[q] /\ body'[q] = body[q] /\ status'[q] = status[q]
  BY <1>1 DEF Make, Health, Refuse, Reload, ReceiveLink, ReceiveServed, ReceiveResolves,
              ReceiveChat, Receive, Run
<1>2. ASSUME NEW r \in Requests, Proceed(r)
      PROVE  pc'[q] = pc[q] /\ body'[q] = body[q] /\ status'[q] = status[q]
  BY <1>2 DEF Proceed, Resolved, Run, Reloaded, NotFound, LoadFails, Replies, RunPauses,
              MayPause, Fails
<1>3. ASSUME Die
      PROVE  pc'[q] = pc[q] /\ body'[q] = body[q] /\ status'[q] = status[q]
  BY <1>3 DEF Die
<1>4. CASE Start
  BY <1>4 DEF Start
<1>5. CASE UNCHANGED vars
  BY <1>5 DEF vars
<1> QED
  BY <1>1, <1>2, <1>3, <1>4, <1>5 DEF ServerNext, Crash, CrashMidTurn, AtRest

LEMMA ParkAsks ==
    ASSUME Inv, QuestionInv, NEW r \in Requests, Park(r), pc[r] = "running",
           body' = body, pc'[r] \in {"answered", "lost"},
           pc'[r] = "answered" => status'[r] = 200
    PROVE  /\ parked' \in [Keys -> Requests \cup {None}]
           /\ \A key \in Keys : Question(key)
<1>1. body[r] \in Bodies /\ Chat(body[r]) /\ Conversing(body[r]) # <<>>
  BY DEF Inv, PlaceInv
<1>2. Key(body[r]) \in Keys
  BY <1>1 DEF Keys
<1>3. Asked(r, Key(body[r]))'
  BY <1>1 DEF Asked
<1>4. parked' = [parked EXCEPT ![Key(body[r])] = r]
  BY DEF Park
<1> QED
  BY <1>2, <1>3, <1>4 DEF QuestionInv, Question

LEMMA DropAsks ==
    ASSUME QuestionInv, NEW k, parked' \in {parked, [parked EXCEPT ![k] = None]}
    PROVE  /\ parked' \in [Keys -> Requests \cup {None}]
           /\ \A key \in Keys : Question(key)
BY DEF QuestionInv, Question

LEMMA QuestionStep ==
    ASSUME Inv, QuestionInv, [ServerNext]_vars
    PROVE  /\ parked' \in [Keys -> Requests \cup {None}]
           /\ \A key \in Keys : Question(key)
<1> DEFINE Goal == /\ parked' \in [Keys -> Requests \cup {None}]
                   /\ \A key \in Keys : Question(key)
<1> HIDE DEF Goal
<1>1. ASSUME NEW r \in Requests, NEW b \in Bodies, Make(r, b) PROVE Goal
  <2>1. parked' \in {parked, [parked EXCEPT ![Key(b)] = None]}
    BY <1>1 DEF Make, Health, Refuse, Reload, ReceiveLink, ReceiveServed, ReceiveResolves, Run
  <2> QED
    BY <2>1, DropAsks DEF Goal
<1>2. ASSUME NEW r \in Requests, RunPauses(r), app.pending PROVE Goal
  BY <1>2, ParkAsks DEF RunPauses, MayPause, Goal, Inv, Types
<1>3. ASSUME NEW r \in Requests, Proceed(r), ~(RunPauses(r) /\ app.pending) PROVE Goal
  <2>1. parked' \in {parked, [parked EXCEPT ![Key(body[r])] = None]}
    BY <1>3 DEF Proceed, Resolved, Run, Reloaded, NotFound, LoadFails, Replies, RunPauses, Fails
  <2> QED
    BY <2>1, DropAsks DEF Goal
<1>4. ASSUME NEW r \in Requests, CrashMidTurn(r), Park(r), MayPause(r) PROVE Goal
  <2>1. pc[r] = "running" /\ body' = body /\ pc'[r] = "lost"
    BY <1>4 DEF CrashMidTurn, Die, MayPause
  <2> QED
    BY <1>4, <2>1, ParkAsks DEF Goal
<1>5. CASE UNCHANGED parked
  BY <1>5, DropAsks DEF Goal
<1> QED
  BY <1>1, <1>2, <1>3, <1>4, <1>5
  DEF ServerNext, Start, Crash, CrashMidTurn, AtRest, vars, Goal

LEMMA QuestionNext == Inv /\ QuestionInv /\ [ServerNext]_vars => QuestionInv'
<1> SUFFICES ASSUME Inv, QuestionInv, [ServerNext]_vars,
                    NEW key \in Keys, parked'[key] # None
             PROVE  Asked(parked[key], key)'
  BY QuestionStep DEF QuestionInv
<1>1. CASE parked'[key] = parked[key]
  <2>1. parked[key] \in Requests /\ Asked(parked[key], key)
    BY <1>1 DEF QuestionInv
  <2> QED
    BY <1>1, <2>1, OverStays DEF Asked
<1>2. CASE \E r \in Requests : parked'[key] = r /\ Asked(r, key)'
  BY <1>2
<1> QED
  BY <1>1, <1>2, QuestionStep DEF Question

LEMMA QuestionAlways == ServerSpec => [](Inv /\ QuestionInv)
<1>1. ServerInit => QuestionInv
  BY NoneAssumption DEF ServerInit, QuestionInv
<1> QED
  BY <1>1, InvInit, InvNext, QuestionNext, PTL DEF ServerSpec

\* A request that failed leaves no question, so a later "yes" carries out nothing it was
\* told it did not get ("so a failure never stores half a turn", chat_service.py:178).
FailedLeavesNoQuestion ==
    \A r \in Requests, key \in Keys :
        pc[r] = "answered" /\ status[r] # 200 => parked[key] # r

THEOREM FailedLeavesNoQuestionHolds == ServerSpec => []FailedLeavesNoQuestion
<1>1. QuestionInv => FailedLeavesNoQuestion
  BY NoneAssumption DEF QuestionInv, Asked, FailedLeavesNoQuestion
<1> QED
  BY <1>1, QuestionAlways, PTL

\* A run that resumes a question resumes one of its own agent and conversation, or of ids
\* that run together with its own (chat_service.py:11-14, 44-46).
OwnQuestion ==
    [][\A r \in Requests : basis[r] = None /\ basis'[r] # None /\ basis'[r].question # None =>
          Shares(body[basis'[r].question], body'[r])]_vars

\* What a run resumes waited under its key.
LEMMA RunResumes ==
    ASSUME NEW r \in Requests, NEW b, Types, Run(r, b), basis'[r] # None,
           basis'[r].question # None
    PROVE  parked[Key(b)] # None /\ basis'[r].question = parked[Key(b)]
BY DEF Run, Types

\* A basis is taken by a run that starts.
LEMMA RunStarts ==
    ASSUME Inv, [ServerNext]_vars, NEW q \in Requests, basis[q] = None, basis'[q] # None
    PROVE  \E b \in Bodies : /\ Run(q, b) /\ body'[q] = b /\ phase = "up"
                             /\ Chat(b) /\ Conversing(b) # <<>>
<1> USE DEF Inv, Types
<1>1. ASSUME NEW r \in Requests, NEW b \in Bodies, Make(r, b)
      PROVE  /\ q = r /\ Run(q, b) /\ body'[q] = b /\ phase = "up"
             /\ Chat(b) /\ Conversing(b) # <<>>
  BY <1>1 DEF Make, Health, Refuse, Reload, ReceiveLink, ReceiveServed, ReceiveResolves,
              ReceiveChat, Receive, Run
<1>2. ASSUME NEW r \in Requests, Proceed(r)
      PROVE  /\ q = r /\ Run(q, body[q]) /\ body'[q] = body[q] /\ phase = "up"
             /\ body[q] \in Bodies /\ Chat(body[q]) /\ Conversing(body[q]) # <<>>
  BY <1>2 DEF Proceed, Resolved, Run, Reloaded, NotFound, LoadFails, Replies, RunPauses,
              Fails, PlaceInv
<1>3. ASSUME Die PROVE FALSE
  BY <1>3 DEF Die
<1> QED
  BY <1>1, <1>2, <1>3 DEF ServerNext, Start, Crash, CrashMidTurn, AtRest, vars

LEMMA ResumesOwn ==
    ASSUME Types, QuestionInv, NEW q \in Requests, NEW b \in Bodies, Run(q, b), Chat(b),
           Conversing(b) # <<>>, basis'[q] # None, basis'[q].question # None
    PROVE  Shares(body[basis'[q].question], b)
<1>1. Key(b) \in Keys
  BY DEF Keys
<1>2. Asked(basis'[q].question, Key(b))
  BY <1>1, RunResumes DEF QuestionInv
<1> QED
  BY <1>2, KeysShare DEF Asked

LEMMA OwnStep ==
    Inv /\ QuestionInv /\ [ServerNext]_vars =>
        [\A r \in Requests : basis[r] = None /\ basis'[r] # None /\ basis'[r].question # None =>
          Shares(body[basis'[r].question], body'[r])]_vars
BY RunStarts, ResumesOwn DEF Inv

\* The same person talking to two bots gets two questions, not one, unless their ids run
\* together: a "yes" to one never carries out what the other asked for.
THEOREM OwnQuestionHolds == ServerSpec => OwnQuestion
BY QuestionAlways, OwnStep, PTL DEF ServerSpec, OwnQuestion

-----------------------------------------------------------------------------
(* What create_app leaves: types, and the wiring.                          *)

\* An agent that is bound to toolsets gets all that each of them makes.
LEMMA BoundGetsAll ==
    ASSUME NEW env \in Environments, Binds(env), NEW k \in 1..Len(env.toolsets)
    PROVE  LET part == env.toolsets[k]
               makes == build_bindings(env)[part.agent]
           IN  /\ part.agent \in DOMAIN build_bindings(env)
               /\ \E source \in ToSet(env.sources) :
                     /\ source.alias = part.toolset
                     /\ source.path = "works"
                     /\ ToSet(source.makes) \subseteq ToSet(makes)
<1> DEFINE part == env.toolsets[k]
           Made(i) == IF env.toolsets[i].agent = part.agent
                      THEN Builder(env, env.toolsets[i].toolset).makes ELSE <<>>
           parts == [i \in DOMAIN env.toolsets |-> Made(i)]
<1>1. /\ env.toolsets \in Seq([agent : Seq(STRING), toolset : STRING])
      /\ env.sources \in Seq([alias : STRING, path : {"bare", "broken", "raises", "works"},
                              makes : Seq(STRING)])
  BY EnvironmentsAssumption
<1>2. /\ Len(env.toolsets) \in Nat /\ DOMAIN env.toolsets = 1..Len(env.toolsets)
      /\ Len(env.sources) \in Nat /\ DOMAIN env.sources = 1..Len(env.sources)
      /\ env.toolsets # <<>>
  BY <1>1, LenProperties, EmptySeq
<1>3. part \in ToSet(env.toolsets)
  BY <1>2 DEF ToSet
<1>4. ASSUME NEW alias
      PROVE  /\ Builder(env, alias).makes \in Seq(STRING)
             /\ Builder(env, alias).path = "works" =>
                   /\ Builder(env, alias) \in ToSet(env.sources)
                   /\ Builder(env, alias).alias = alias
  <2> DEFINE I == {i \in 1..Len(env.sources) : env.sources[i].alias = alias}
  <2>1. CASE I = {}
    <3>1. Builder(env, alias) = [path |-> "none", makes |-> <<>>]
      BY <2>1 DEF Builder, SelectLastInSeq
    <3> QED
      BY <3>1
  <2>2. CASE I # {}
    <3>1. PICK i \in I : TRUE
      BY <2>2
    <3>2. Max(I) \in I
      BY <1>2, <3>1, LastIsOne
    <3>3. Builder(env, alias) = env.sources[Max(I)]
      <4>1. Max(I) # 0
        BY <3>2
      <4> QED
        BY <2>2, <4>1 DEF Builder, SelectLastInSeq
    <3>4. env.sources[Max(I)] \in [alias : STRING, path : {"bare", "broken", "raises", "works"},
                                   makes : Seq(STRING)]
      BY <1>1, <3>2, ElementOfSeq
    <3> QED
      BY <1>2, <3>2, <3>3, <3>4 DEF ToSet
  <2> QED
    BY <2>1, <2>2
<1>5. ASSUME NEW i \in 1..Len(env.toolsets) PROVE Made(i) \in Seq(STRING)
  <2>1. Builder(env, env.toolsets[i].toolset).makes \in Seq(STRING)
    BY <1>4
  <2>2. <<>> \in Seq(STRING)
    OBVIOUS
  <2> QED
    BY <2>1, <2>2
<1>6. parts \in Seq(Seq(STRING)) /\ Len(parts) = Len(env.toolsets) /\ parts[k] = Made(k)
  BY <1>2, <1>5
<1>7. part.agent \in DOMAIN build_bindings(env) /\ build_bindings(env)[part.agent] = FlattenSeq(parts)
  BY <1>3 DEF build_bindings
<1>8. Builder(env, part.toolset).path = "works"
  BY <1>2, <1>3 DEF Binds
<1>9. ToSet(Builder(env, part.toolset).makes) \subseteq ToSet(FlattenSeq(parts))
  <2>1. ToSet(parts[k]) \subseteq ToSet(FlattenSeq(parts))
    BY <1>6, FlattenKeeps
  <2> QED
    BY <1>6, <2>1
<1> QED
  BY <1>4, <1>7, <1>8, <1>9

\* Types, and what a brain that is up was wired from.
DataInv ==
    /\ starts \in 0..MaxStarts
    /\ phase = "up" => \E env \in Environments : Starts(env) /\ app = create_app(env)
    /\ basis \in [Requests -> Bases \cup {None}]
    /\ \A r \in Requests : pc[r] = "running" <=> basis[r] # None
    /\ status \in [Requests -> {200, 400, 404, 422, 500, 503, None}]

LEMMA WiredIsWhole ==
    ASSUME DataInv, phase = "up"
    PROVE  /\ app.window \in Int /\ app.window >= 1
           /\ WiredAsConfigured
<1>1. PICK env \in Environments : Starts(env) /\ app = create_app(env)
  BY DEF DataInv
<1>2. /\ app.config = env /\ app.bindings = build_bindings(env)
      /\ app.pending = (DOMAIN build_bindings(env) # {})
      /\ app.window = _int(env.window, 15, 1)
  BY <1>1 DEF create_app
<1>3. app.window \in Int /\ app.window >= 1
  BY <1>2, EnvironmentsAssumption DEF _int
<1>4. ASSUME NEW part \in ToSet(env.toolsets)
      PROVE  /\ ToolsOf(app, part.agent) # <<>> => app.pending
             /\ \E source \in ToSet(env.sources) :
                   /\ source.alias = part.toolset
                   /\ source.path = "works"
                   /\ ToSet(source.makes) \subseteq ToSet(ToolsOf(app, part.agent))
  <2>1. PICK k \in DOMAIN env.toolsets : part = env.toolsets[k]
    BY DEF ToSet
  <2>2. k \in 1..Len(env.toolsets)
    BY <2>1, EnvironmentsAssumption, LenProperties
  <2>3. Binds(env)
    BY <1>1 DEF Starts
  <2>4. /\ part.agent \in DOMAIN build_bindings(env)
        /\ \E source \in ToSet(env.sources) :
              /\ source.alias = part.toolset
              /\ source.path = "works"
              /\ ToSet(source.makes) \subseteq ToSet(build_bindings(env)[part.agent])
    BY <2>1, <2>2, <2>3, BoundGetsAll
  <2>5. ToolsOf(app, part.agent) = build_bindings(env)[part.agent]
    BY <1>2, <2>4 DEF ToolsOf
  <2>6. app.pending
    BY <1>2, <2>4
  <2> QED
    BY <2>4, <2>5, <2>6
<1>5. WiredAsConfigured
  BY <1>2, <1>4 DEF WiredAsConfigured
<1> QED
  BY <1>3, <1>5

-----------------------------------------------------------------------------
(* The last rows of a history.                                             *)

LEMMA LatestIs ==
    ASSUME NEW T, NEW s \in Seq(T), NEW w \in Int, w >= 1
    PROVE  LET t == Latest(s, w)
           IN  /\ t \in Seq(T)
               /\ Len(t) = IF Len(s) > w THEN w ELSE Len(s)
               /\ \A i \in 1..Len(t) : t[i] = s[Len(s) - Len(t) + i]
<1> DEFINE from == IF Len(s) > w THEN Len(s) - w + 1 ELSE 1
           t == Latest(s, w)
<1>1. Len(s) \in Nat /\ from \in Int /\ from >= 1 /\ \A i \in 1..Len(s) : s[i] \in T
  BY LenProperties, ElementOfSeq
<1>2. t = SubSeq(s, from, Len(s))
  BY DEF Latest
<1>3. \A i \in from..Len(s) : s[i] \in T
  BY <1>1
<1> HIDE DEF t
<1>4. /\ t \in Seq(T)
      /\ Len(t) = IF from <= Len(s) THEN Len(s) - from + 1 ELSE 0
      /\ \A i \in 1..Len(s) - from + 1 : t[i] = s[from + i - 1]
  <2> HIDE DEF from
  <2> QED
    BY <1>1, <1>2, <1>3, SubSeqProperties
<1>5. /\ Len(t) = IF Len(s) > w THEN w ELSE Len(s)
      /\ Len(t) \in Nat /\ Len(t) = Len(s) - from + 1
  <2>1. Len(s) \in Nat /\ Len(t) = IF from <= Len(s) THEN Len(s) - from + 1 ELSE 0
    BY <1>1, <1>4
  <2>2. CASE Len(s) > w
    <3>1. from = Len(s) - w + 1
      BY <2>2
    <3> HIDE DEF from
    <3> QED
      BY <2>1, <2>2, <3>1
  <2>3. CASE ~(Len(s) > w)
    <3>1. from = 1
      BY <2>3
    <3> HIDE DEF from
    <3> QED
      BY <2>1, <2>3, <3>1
  <2> QED
    BY <2>2, <2>3
<1>6. ASSUME NEW i \in 1..Len(t) PROVE t[i] = s[Len(s) - Len(t) + i]
  <2> HIDE DEF from
  <2>1. /\ Len(s) \in Int /\ Len(t) \in Int /\ from \in Int /\ i \in Int
        /\ 1 <= i /\ i <= Len(t) /\ Len(t) = Len(s) - from + 1
    BY <1>1, <1>5
  <2>2. i \in 1..Len(s) - from + 1 /\ from + i - 1 = Len(s) - Len(t) + i
    BY ONLY <2>1
  <2> QED
    BY <1>4, <2>2
<1> QED
  BY <1>4, <1>5, <1>6 DEF t

\* What select_window leaves of what recent found.
LEMMA WindowIs ==
    ASSUME NEW T, NEW s \in Seq(T), NEW w \in Int, w >= 1
    PROVE  LET t == select_window(Latest(s, w), w)
           IN  /\ t \in Seq(T)
               /\ IsSuffix(t, s)
               /\ Len(t) = w \/ (t = s /\ Len(s) < w)
<1> DEFINE u == Latest(s, w)
           t == Latest(u, w)
<1>1. /\ u \in Seq(T)
      /\ Len(u) = IF Len(s) > w THEN w ELSE Len(s)
      /\ \A i \in 1..Len(u) : u[i] = s[Len(s) - Len(u) + i]
  BY LatestIs
<1> HIDE DEF u
<1>2. /\ t \in Seq(T)
      /\ Len(t) = IF Len(u) > w THEN w ELSE Len(u)
      /\ \A i \in 1..Len(t) : t[i] = u[Len(u) - Len(t) + i]
  BY <1>1, LatestIs
<1> HIDE DEF t
<1>3. Len(s) \in Nat /\ Len(t) \in Nat /\ Len(t) = Len(u) /\ Len(t) <= Len(s)
  BY <1>1, <1>2, LenProperties
<1>4. ASSUME NEW i \in 1..Len(t) PROVE t[i] = s[Len(s) - Len(t) + i]
  <2>1. Len(u) - Len(t) + i = i /\ i \in 1..Len(u)
    BY <1>3
  <2> QED
    BY <1>1, <1>2, <1>3, <2>1
<1>5. Len(t) = w \/ (t = s /\ Len(s) < w)
  <2>0. Len(t) = IF Len(s) > w THEN w ELSE Len(s)
    BY <1>1, <1>3
  <2>1. CASE Len(s) >= w
    BY ONLY <1>3, <2>0, <2>1, w \in Int
  <2>2. CASE Len(s) < w
    <3>1. Len(t) = Len(s)
      BY ONLY <1>3, <2>0, <2>2, w \in Int
    <3>2. ASSUME NEW i \in 1..Len(t) PROVE t[i] = s[i]
      <4>1. Len(s) - Len(t) + i = i
        BY <1>3, <3>1
      <4> QED
        BY <1>4, <4>1
    <3>3. t = s
      BY <1>2, <3>1, <3>2, SeqEqual
    <3> QED
      BY <2>2, <3>3
  <2> QED
    BY <1>3, <2>1, <2>2
<1>6. IsSuffix(t, s)
  <2> DEFINE rt == Reverse(t)
             rs == Reverse(s)
  <2>1. /\ rt = [i \in 1..Len(t) |-> t[Len(t) - i + 1]]
        /\ rs = [i \in 1..Len(s) |-> s[Len(s) - i + 1]]
    BY DEF Reverse
  <2>2. /\ \A i \in 1..Len(t) : t[i] \in T
        /\ \A i \in 1..Len(s) : s[i] \in T
    BY <1>2, ElementOfSeq
  <2>3. ASSUME NEW i \in 1..Len(t) PROVE Len(t) - i + 1 \in 1..Len(t)
    BY <1>3
  <2>4. ASSUME NEW i \in 1..Len(s) PROVE Len(s) - i + 1 \in 1..Len(s)
    BY <1>3
  <2> HIDE DEF rt, rs
  <2>5. rt \in Seq(T) /\ Len(rt) = Len(t) /\ \A i \in 1..Len(t) : rt[i] \in T
    BY <1>3, <2>1, <2>2, <2>3
  <2>6. rs \in Seq(T) /\ Len(rs) = Len(s) /\ \A i \in 1..Len(s) : rs[i] \in T
    BY <1>3, <2>1, <2>2, <2>4
  <2>7. ASSUME NEW i \in 1..Len(t) PROVE rt[i] = rs[i]
    <3>1. i \in 1..Len(s) /\ Len(s) - Len(t) + (Len(t) - i + 1) = Len(s) - i + 1
      BY <1>3
    <3> QED
      BY <1>4, <2>1, <2>3, <3>1
  <2>8. /\ SubSeq(rt, 1, Len(rt)) \in Seq(T)
        /\ Len(SubSeq(rt, 1, Len(rt))) = Len(t)
        /\ \A i \in 1..Len(t) : SubSeq(rt, 1, Len(rt))[i] = rt[i]
    <3>1. \A i \in 1..Len(t) : rt[i] \in T
      BY <2>5
    <3>2. /\ SubSeq(rt, 1, Len(t)) \in Seq(T)
          /\ Len(SubSeq(rt, 1, Len(t))) = IF 1 <= Len(t) THEN Len(t) - 1 + 1 ELSE 0
          /\ \A i \in 1..Len(t) - 1 + 1 : SubSeq(rt, 1, Len(t))[i] = rt[1 + i - 1]
      BY <1>3, <3>1, SubSeqProperties
    <3> QED
      BY <1>3, <2>5, <3>2
  <2>9. /\ SubSeq(rs, 1, Len(rt)) \in Seq(T)
        /\ Len(SubSeq(rs, 1, Len(rt))) = Len(t)
        /\ \A i \in 1..Len(t) : SubSeq(rs, 1, Len(rt))[i] = rs[i]
    <3>1. \A i \in 1..Len(t) : rs[i] \in T
      BY <1>3, <2>6
    <3>2. /\ SubSeq(rs, 1, Len(t)) \in Seq(T)
          /\ Len(SubSeq(rs, 1, Len(t))) = IF 1 <= Len(t) THEN Len(t) - 1 + 1 ELSE 0
          /\ \A i \in 1..Len(t) - 1 + 1 : SubSeq(rs, 1, Len(t))[i] = rs[1 + i - 1]
      BY <1>3, <3>1, SubSeqProperties
    <3> QED
      BY <1>3, <2>5, <3>2
  <2>10. SubSeq(rt, 1, Len(rt)) = SubSeq(rs, 1, Len(rt))
    <3> DEFINE x == SubSeq(rt, 1, Len(rt))
               y == SubSeq(rs, 1, Len(rt))
    <3>1. \A i \in 1..Len(t) : x[i] = y[i]
      BY <2>7, <2>8, <2>9
    <3>2. x \in Seq(T) /\ y \in Seq(T) /\ Len(x) = Len(t) /\ Len(y) = Len(t)
      BY <2>8, <2>9
    <3> HIDE DEF x, y
    <3>3. x = y
      BY <3>1, <3>2, SeqEqual
    <3> QED
      BY <3>3 DEF x, y
  <2> QED
    BY <1>3, <2>5, <2>6, <2>10 DEF IsSuffix, IsPrefix, rt, rs
<1>7. t = select_window(Latest(s, w), w)
  BY DEF select_window, t, u
<1> QED
  BY <1>2, <1>5, <1>6, <1>7

-----------------------------------------------------------------------------
(* Types.                                                                  *)

\* What is remembered of a run or a command that ends, or is cut short.
Silent ==
    /\ messages' = messages
    /\ \A q \in Requests :
          pc'[q] = "answered" /\ Chat(body'[q]) /\ status'[q] = 200 => pc[q] = "answered"

Half(r) ==
    /\ pc[r] \in {"running", "linking"}
    /\ messages' = Append(messages, Row(r, "user"))
    /\ body' = body
    /\ pc'[r] = "lost"
    /\ \A q \in Requests : pc'[q] = "answered" => pc[q] = "answered"

Whole(r) ==
    /\ pc[r] \in {"running", "linking"}
    /\ Remember(r)
    /\ body' = body
    /\ (pc'[r] = "answered" /\ status'[r] = 200) \/ pc'[r] = "lost"
    /\ \A q \in Requests : q # r /\ pc'[q] = "answered" => pc[q] = "answered"

LEMMA RemembersStep ==
    ASSUME Inv, [ServerNext]_vars
    PROVE  Silent \/ \E r \in Requests : Half(r) \/ Whole(r)
<1> USE DEF Inv, Types
<1>1. ASSUME NEW r \in Requests, NEW b \in Bodies, Make(r, b) PROVE Silent
  <2>1. /\ pc' = [pc EXCEPT ![r] = pc'[r]] /\ body' = [body EXCEPT ![r] = b]
        /\ messages' = messages
    BY <1>1 DEF Make, Health, Refuse, Reload, ReceiveLink, ReceiveServed, ReceiveResolves,
                ReceiveChat, Receive, Run
  <2>2. pc'[r] = "answered" /\ Chat(b) => status'[r] # 200
    <3>1. CASE Health(r, b)
      BY <3>1 DEF Health, Chat
    <3>2. CASE Refuse(r, b)
      BY <3>2, Statuses DEF Refuse
    <3>3. CASE ReceiveServed(r, b)
      BY <3>3, Statuses DEF ReceiveServed, Run
    <3>4. CASE Reload(r, b) \/ ReceiveLink(r, b) \/ ReceiveResolves(r, b)
      BY <3>4 DEF Reload, ReceiveLink, ReceiveResolves
    <3> QED
      BY <1>1, <3>1, <3>2, <3>3, <3>4 DEF Make
  <2> QED
    BY <2>1, <2>2 DEF Silent
<1>2. ASSUME NEW r \in Requests, Proceed(r) PROVE Silent \/ Whole(r)
  <2>1. pc' = [pc EXCEPT ![r] = pc'[r]] /\ body' = body
    BY <1>2 DEF Proceed, Resolved, Run, Reloaded, NotFound, LoadFails, Replies, RunPauses, Fails
  <2>2. CASE Replies(r)
    BY <2>1, <2>2 DEF Replies, Whole
  <2>3. CASE RunPauses(r)
    <3>1. CASE Remember(r) /\ Answer(r, 200)
      BY <2>1, <2>3, <3>1 DEF RunPauses, MayPause, Whole
    <3>2. CASE Raise(r, "RunError") /\ UNCHANGED messages
      BY <2>1, <3>2, Statuses DEF Silent
    <3> QED
      BY <2>3, <3>1, <3>2 DEF RunPauses
  <2>4. CASE Fails(r)
    <3>1. messages' = messages /\ status'[r] # 200
      BY <2>4, Statuses DEF Fails
    <3> QED
      BY <2>1, <3>1 DEF Silent
  <2>5. CASE Resolved(r)
    <3>1. messages' = messages /\ (pc'[r] = "answered" => status'[r] # 200)
      BY <2>5, Statuses DEF Resolved, Run
    <3> QED
      BY <2>1, <3>1 DEF Silent
  <2>6. CASE Reloaded(r)
    <3>1. messages' = messages /\ ~Chat(body'[r])
      BY <2>6 DEF Reloaded, PlaceInv
    <3> QED
      BY <2>1, <3>1 DEF Silent
  <2>7. CASE NotFound(r) \/ \E class \in LoadErrors : LoadFails(r, class)
    <3>1. messages' = messages /\ status'[r] # 200
      <4>1. CASE NotFound(r)
        BY <4>1, Statuses DEF NotFound
      <4>2. ASSUME NEW class \in LoadErrors, LoadFails(r, class)
            PROVE  messages' = messages /\ status'[r] # 200
        BY <4>2, Statuses DEF LoadFails
      <4> QED
        BY <2>7, <4>1, <4>2
    <3> QED
      BY <2>1, <3>1 DEF Silent
  <2> QED
    BY <1>2, <2>2, <2>3, <2>4, <2>5, <2>6, <2>7 DEF Proceed
<1>3. ASSUME Die PROVE /\ \A q \in Requests : pc'[q] = "answered" => pc[q] = "answered"
                       /\ \A q \in Requests : Underway(q) => pc'[q] = "lost"
                       /\ body' = body
  BY <1>3 DEF Die
<1>4. CASE Crash
  BY <1>3, <1>4 DEF Crash, Silent
<1>5. ASSUME NEW r \in Requests, CrashMidTurn(r) PROVE Silent \/ Half(r) \/ Whole(r)
  <2>1. /\ pc[r] \in {"running", "linking"}
        /\ messages' \in {messages, Append(messages, Row(r, "user"))} \/ Remember(r)
        /\ Die
    BY <1>5 DEF CrashMidTurn, MayPause
  <2>2. CASE messages' = messages
    BY <1>3, <2>1, <2>2 DEF Silent
  <2>3. CASE messages' = Append(messages, Row(r, "user"))
    BY <1>3, <2>1, <2>3 DEF Half
  <2>4. CASE Remember(r)
    BY <1>3, <2>1, <2>4 DEF Whole
  <2> QED
    BY <2>1, <2>2, <2>3, <2>4
<1>6. CASE Start
  BY <1>6 DEF Start, Silent
<1>7. CASE UNCHANGED vars
  BY <1>7 DEF vars, Silent
<1> QED
  BY <1>1, <1>2, <1>4, <1>5, <1>6, <1>7 DEF ServerNext, AtRest

\* Where the new rows are.
LEMMA RowsAdded ==
    ASSUME Inv, messages \in Seq(Rows), NEW r \in Requests, pc[r] \in {"running", "linking"}
    PROVE  /\ Row(r, "user") \in Rows /\ Row(r, "assistant") \in Rows
           /\ Half(r) =>
                 /\ messages' \in Seq(Rows)
                 /\ Len(messages') = Len(messages) + 1
                 /\ \A i \in 1..Len(messages) : messages'[i] = messages[i]
                 /\ messages'[Len(messages) + 1] = Row(r, "user")
           /\ Whole(r) =>
                 /\ messages' \in Seq(Rows)
                 /\ Len(messages') = Len(messages) + 2
                 /\ \A i \in 1..Len(messages) : messages'[i] = messages[i]
                 /\ messages'[Len(messages) + 1] = Row(r, "user")
                 /\ messages'[Len(messages) + 2] = Row(r, "assistant")
<1>1. body[r] \in Bodies /\ Chat(body[r])
  BY DEF Inv, PlaceInv
<1>2. Key(body[r]) \in Keys
  BY <1>1 DEF Keys
<1> DEFINE u == Row(r, "user")
           a == Row(r, "assistant")
<1>3. u \in Rows /\ a \in Rows
  BY <1>2 DEF Row, Rows
<1> HIDE DEF u, a
<1>4. Len(messages) \in Nat
  OBVIOUS
<1>5. ASSUME messages' = Append(messages, u)
      PROVE  /\ messages' \in Seq(Rows)
             /\ Len(messages') = Len(messages) + 1
             /\ \A i \in 1..Len(messages) : messages'[i] = messages[i]
             /\ messages'[Len(messages) + 1] = u
  BY <1>3, <1>5
<1>6. ASSUME messages' = messages \o <<u, a>>
      PROVE  /\ messages' \in Seq(Rows)
             /\ Len(messages') = Len(messages) + 2
             /\ \A i \in 1..Len(messages) : messages'[i] = messages[i]
             /\ messages'[Len(messages) + 1] = u
             /\ messages'[Len(messages) + 2] = a
  <2> DEFINE two == <<u, a>>
  <2>1. two \in Seq(Rows) /\ Len(two) = 2 /\ two[1] = u /\ two[2] = a
    BY <1>3
  <2> HIDE DEF two
  <2>2. /\ messages \o two \in Seq(Rows)
        /\ Len(messages \o two) = Len(messages) + Len(two)
        /\ \A i \in 1..Len(messages) + Len(two) :
              (messages \o two)[i] = IF i <= Len(messages) THEN messages[i]
                                     ELSE two[i - Len(messages)]
    BY <2>1, ConcatProperties
  <2>3. messages' = messages \o two
    BY <1>6 DEF two
  <2> QED
    BY <1>4, <2>1, <2>2, <2>3
<1> QED
  BY <1>3, <1>5, <1>6 DEF Half, Whole, Remember, BothRows, u, a

-----------------------------------------------------------------------------
(* What is remembered.                                                     *)

\* A row was written by a chat that is over and did not fail, under its own key.
RowsInv ==
    /\ messages \in Seq(Rows)
    /\ \A i \in 1..Len(messages) : Asked(messages[i].by, messages[i].key)

\* The rows of a request: none, its message's, or both side by side.
NoRow(r) == \A i \in 1..Len(messages) : messages[i].by # r

OneRow(r) ==
    \E k \in 1..Len(messages) :
        /\ messages[k].role = "user"
        /\ \A i \in 1..Len(messages) : messages[i].by = r <=> i = k

TwoRows(r) ==
    \E k \in 1..Len(messages) :
        /\ k + 1 \in 1..Len(messages)
        /\ messages[k].role = "user"
        /\ messages[k + 1].role = "assistant"
        /\ \A i \in 1..Len(messages) : messages[i].by = r <=> i \in {k, k + 1}

BothInv ==
    \A r \in Requests :
        /\ pc[r] = "answered" /\ Chat(body[r]) /\ status[r] = 200 => TwoRows(r)
        /\ pc[r] = "lost" => NoRow(r) \/ OneRow(r) \/ TwoRows(r)

LEMMA RowsNext == Inv /\ RowsInv /\ [ServerNext]_vars => RowsInv'
<1> SUFFICES ASSUME Inv, RowsInv, [ServerNext]_vars PROVE RowsInv'
  OBVIOUS
<1> USE DEF RowsInv
<1>0. Len(messages) \in Nat
  OBVIOUS
<1>1. ASSUME NEW i \in 1..Len(messages) PROVE Asked(messages[i].by, messages[i].key)'
                                                 \/ messages'[i] # messages[i]
  <2>1. messages[i] \in Rows /\ Asked(messages[i].by, messages[i].key)
    BY ElementOfSeq
  <2>2. messages[i].by \in Requests
    BY <2>1 DEF Rows
  <2> DEFINE q == messages[i].by
             key == messages[i].key
  <2>3. pc'[q] = pc[q] /\ body'[q] = body[q] /\ status'[q] = status[q]
    BY <2>1, <2>2, OverStays DEF Asked
  <2> QED
    BY <2>1, <2>3 DEF Asked
<1>2. ASSUME NEW r \in Requests, Half(r) \/ Whole(r) PROVE Asked(r, Key(body[r]))'
  <2>1. body[r] \in Bodies /\ Chat(body[r]) /\ Conversing(body[r]) # <<>>
    BY <1>2 DEF Inv, PlaceInv, Half, Whole
  <2> QED
    BY <1>2, <2>1 DEF Half, Whole, Asked
<1>3. CASE Silent
  BY <1>1, <1>3 DEF Silent
<1>4. ASSUME NEW r \in Requests, Half(r) PROVE RowsInv'
  <2>1. /\ messages' \in Seq(Rows)
        /\ Len(messages') = Len(messages) + 1
        /\ \A i \in 1..Len(messages) : messages'[i] = messages[i]
        /\ messages'[Len(messages) + 1] = Row(r, "user")
    BY <1>4, RowsAdded DEF Half
  <2>2. Row(r, "user").by = r /\ Row(r, "user").key = Key(body[r])
    BY DEF Row
  <2>3. Asked(r, Key(body[r]))' /\ body' = body
    BY <1>2, <1>4 DEF Half
  <2>4. ASSUME NEW i \in 1..Len(messages') PROVE Asked(messages[i].by, messages[i].key)'
    <3>1. CASE i \in 1..Len(messages)
      BY <1>1, <2>1, <3>1
    <3>2. CASE i \notin 1..Len(messages)
      <4>1. i = Len(messages) + 1
        BY <1>0, <2>1, <3>2
      <4> QED
        BY <2>1, <2>2, <2>3, <4>1 DEF Asked
    <3> QED
      BY <3>1, <3>2
  <2> QED
    BY <2>1, <2>4
<1>5. ASSUME NEW r \in Requests, Whole(r) PROVE RowsInv'
  <2>1. /\ messages' \in Seq(Rows)
        /\ Len(messages') = Len(messages) + 2
        /\ \A i \in 1..Len(messages) : messages'[i] = messages[i]
        /\ messages'[Len(messages) + 1] = Row(r, "user")
        /\ messages'[Len(messages) + 2] = Row(r, "assistant")
    BY <1>5, RowsAdded DEF Whole
  <2>2. /\ Row(r, "user").by = r /\ Row(r, "user").key = Key(body[r])
        /\ Row(r, "assistant").by = r /\ Row(r, "assistant").key = Key(body[r])
    BY DEF Row
  <2>3. Asked(r, Key(body[r]))' /\ body' = body
    BY <1>2, <1>5 DEF Whole
  <2>4. ASSUME NEW i \in 1..Len(messages') PROVE Asked(messages[i].by, messages[i].key)'
    <3>1. CASE i \in 1..Len(messages)
      BY <1>1, <2>1, <3>1
    <3>2. CASE i \notin 1..Len(messages)
      <4>1. i \in {Len(messages) + 1, Len(messages) + 2}
        BY <1>0, <2>1, <3>2
      <4> QED
        BY <2>1, <2>2, <2>3, <4>1 DEF Asked
    <3> QED
      BY <3>1, <3>2
  <2> QED
    BY <2>1, <2>4
<1> QED
  BY <1>3, <1>4, <1>5, RemembersStep

\* Who is not over has written nothing.
LEMMA NotYet ==
    ASSUME RowsInv, NEW r \in Requests, pc[r] \notin {"answered", "lost"}
    PROVE  NoRow(r)
BY DEF RowsInv, NoRow, Asked

\* Rows that one request adds leave those of another as they were.
LEMMA OthersKeep ==
    ASSUME NEW r, NEW q, q # r, messages \in Seq(Rows), messages' \in Seq(Rows), NEW n \in Nat,
           Len(messages') = Len(messages) + n,
           \A i \in 1..Len(messages) : messages'[i] = messages[i],
           \A i \in 1..Len(messages') : i \notin 1..Len(messages) => messages'[i].by = r
    PROVE  /\ NoRow(q) => NoRow(q)'
           /\ OneRow(q) => OneRow(q)'
           /\ TwoRows(q) => TwoRows(q)'
<1>0. /\ Len(messages) \in Nat
      /\ \A i \in 1..Len(messages) : i \in 1..Len(messages')
  BY LenProperties
<1>1. ASSUME NoRow(q) PROVE NoRow(q)'
  BY <1>1 DEF NoRow
<1>2. ASSUME OneRow(q) PROVE OneRow(q)'
  <2>1. PICK k \in 1..Len(messages) :
           /\ messages[k].role = "user"
           /\ \A i \in 1..Len(messages) : messages[i].by = q <=> i = k
    BY <1>2 DEF OneRow
  <2>2. k \in 1..Len(messages') /\ messages'[k].role = "user"
    BY <1>0, <2>1
  <2>3. ASSUME NEW i \in 1..Len(messages') PROVE messages'[i].by = q <=> i = k
    <3>1. CASE i \in 1..Len(messages)
      BY <2>1, <3>1
    <3>2. CASE i \notin 1..Len(messages)
      BY <2>1, <3>2
    <3> QED
      BY <3>1, <3>2
  <2> QED
    BY <2>2, <2>3 DEF OneRow
<1>3. ASSUME TwoRows(q) PROVE TwoRows(q)'
  <2>1. PICK k \in 1..Len(messages) :
           /\ k + 1 \in 1..Len(messages)
           /\ messages[k].role = "user"
           /\ messages[k + 1].role = "assistant"
           /\ \A i \in 1..Len(messages) : messages[i].by = q <=> i \in {k, k + 1}
    BY <1>3 DEF TwoRows
  <2>2. /\ k \in 1..Len(messages') /\ k + 1 \in 1..Len(messages')
        /\ messages'[k].role = "user" /\ messages'[k + 1].role = "assistant"
    BY <1>0, <2>1
  <2>3. ASSUME NEW i \in 1..Len(messages') PROVE messages'[i].by = q <=> i \in {k, k + 1}
    <3>1. CASE i \in 1..Len(messages)
      BY <2>1, <3>1
    <3>2. CASE i \notin 1..Len(messages)
      <4>1. i \notin {k, k + 1}
        BY <2>1, <3>2
      <4> QED
        BY <3>2, <4>1
    <3> QED
      BY <3>1, <3>2
  <2> QED
    BY <2>2, <2>3 DEF TwoRows
<1> QED
  BY <1>1, <1>2, <1>3

\* Who writes a row has written none before.
LEMMA HalfIsOne ==
    ASSUME Inv, RowsInv, NEW r \in Requests, Half(r)
    PROVE  /\ OneRow(r)'
           /\ \A q \in Requests : q # r =>
                 /\ NoRow(q) => NoRow(q)'
                 /\ OneRow(q) => OneRow(q)'
                 /\ TwoRows(q) => TwoRows(q)'
<1>0. Len(messages) \in Nat /\ messages \in Seq(Rows) /\ pc[r] \in {"running", "linking"}
  BY DEF RowsInv, Half
<1>1. /\ messages' \in Seq(Rows)
      /\ Len(messages') = Len(messages) + 1
      /\ \A i \in 1..Len(messages) : messages'[i] = messages[i]
      /\ messages'[Len(messages) + 1] = Row(r, "user")
  BY <1>0, RowsAdded
<1>2. Row(r, "user").by = r /\ Row(r, "user").role = "user"
  BY DEF Row
<1>3. ASSUME NEW i \in 1..Len(messages'), i \notin 1..Len(messages)
      PROVE  i = Len(messages) + 1
  BY <1>0, <1>1, <1>3
<1>4. \A i \in 1..Len(messages') : i \notin 1..Len(messages) => messages'[i].by = r
  BY <1>1, <1>2, <1>3
<1>5. OneRow(r)'
  <2> DEFINE k == Len(messages) + 1
  <2>1. k \in 1..Len(messages') /\ messages'[k].role = "user"
    BY <1>0, <1>1, <1>2
  <2>2. \A i \in 1..Len(messages) : messages[i].by # r
    BY <1>0, NotYet DEF NoRow
  <2>3. ASSUME NEW i \in 1..Len(messages') PROVE messages'[i].by = r <=> i = k
    <3>1. CASE i \in 1..Len(messages)
      <4>1. i # k
        BY <1>0, <3>1
      <4> QED
        BY <1>1, <2>2, <3>1, <4>1
    <3>2. CASE i \notin 1..Len(messages)
      BY <1>3, <1>4, <3>2
    <3> QED
      BY <3>1, <3>2
  <2> HIDE DEF k
  <2> QED
    BY <2>1, <2>3 DEF OneRow
<1>6. ASSUME NEW q \in Requests, q # r
      PROVE  /\ NoRow(q) => NoRow(q)'
             /\ OneRow(q) => OneRow(q)'
             /\ TwoRows(q) => TwoRows(q)'
  BY <1>0, <1>1, <1>4, <1>6, OthersKeep
<1> QED
  BY <1>5, <1>6

LEMMA WholeIsTwo ==
    ASSUME Inv, RowsInv, NEW r \in Requests, Whole(r)
    PROVE  /\ TwoRows(r)'
           /\ \A q \in Requests : q # r =>
                 /\ NoRow(q) => NoRow(q)'
                 /\ OneRow(q) => OneRow(q)'
                 /\ TwoRows(q) => TwoRows(q)'
<1>0. Len(messages) \in Nat /\ messages \in Seq(Rows) /\ pc[r] \in {"running", "linking"}
  BY DEF RowsInv, Whole
<1>1. /\ messages' \in Seq(Rows)
      /\ Len(messages') = Len(messages) + 2
      /\ \A i \in 1..Len(messages) : messages'[i] = messages[i]
      /\ messages'[Len(messages) + 1] = Row(r, "user")
      /\ messages'[Len(messages) + 2] = Row(r, "assistant")
  BY <1>0, RowsAdded
<1>2. /\ Row(r, "user").by = r /\ Row(r, "user").role = "user"
      /\ Row(r, "assistant").by = r /\ Row(r, "assistant").role = "assistant"
  BY DEF Row
<1> DEFINE k == Len(messages) + 1
<1>3. ASSUME NEW i \in 1..Len(messages'), i \notin 1..Len(messages)
      PROVE  i \in {k, k + 1}
  BY <1>0, <1>1, <1>3
<1>4. k \in 1..Len(messages') /\ k + 1 \in 1..Len(messages') /\ k + 1 = Len(messages) + 2
  BY <1>0, <1>1
<1>5. /\ messages'[k].by = r /\ messages'[k].role = "user"
      /\ messages'[k + 1].by = r /\ messages'[k + 1].role = "assistant"
  BY <1>1, <1>2, <1>4
<1>6. \A i \in 1..Len(messages) : i \notin {k, k + 1}
  BY <1>0
<1> HIDE DEF k
<1>7. \A i \in 1..Len(messages') : i \notin 1..Len(messages) => messages'[i].by = r
  BY <1>3, <1>5
<1>8. TwoRows(r)'
  <2>1. \A i \in 1..Len(messages) : messages[i].by # r
    BY <1>0, NotYet DEF NoRow
  <2>2. ASSUME NEW i \in 1..Len(messages') PROVE messages'[i].by = r <=> i \in {k, k + 1}
    <3>1. CASE i \in 1..Len(messages)
      BY <1>1, <1>6, <2>1, <3>1
    <3>2. CASE i \notin 1..Len(messages)
      BY <1>3, <1>7, <3>2
    <3> QED
      BY <3>1, <3>2
  <2> QED
    BY <1>4, <1>5, <2>2 DEF TwoRows
<1>9. ASSUME NEW q \in Requests, q # r
      PROVE  /\ NoRow(q) => NoRow(q)'
             /\ OneRow(q) => OneRow(q)'
             /\ TwoRows(q) => TwoRows(q)'
  BY <1>0, <1>1, <1>7, <1>9, OthersKeep
<1> QED
  BY <1>8, <1>9

LEMMA BothNext == Inv /\ RowsInv /\ BothInv /\ [ServerNext]_vars => BothInv'
<1> SUFFICES ASSUME Inv, RowsInv, BothInv, [ServerNext]_vars, NEW q \in Requests
             PROVE  /\ pc'[q] = "answered" /\ Chat(body'[q]) /\ status'[q] = 200 => TwoRows(q)'
                    /\ pc'[q] = "lost" => (NoRow(q) \/ OneRow(q) \/ TwoRows(q))'
  BY DEF BothInv
\* What has been is still so of the rows there are.
<1>1. ASSUME pc'[q] = "answered", Chat(body'[q]), status'[q] = 200, pc[q] = "answered"
      PROVE  TwoRows(q)
  BY <1>1, OverStays DEF BothInv
<1>2. ASSUME pc'[q] = "lost" PROVE NoRow(q) \/ OneRow(q) \/ TwoRows(q)
  <2>1. CASE pc[q] = "lost"
    BY <2>1 DEF BothInv
  <2>2. CASE pc[q] = "answered"
    BY <1>2, <2>2, OverStays
  <2>3. CASE pc[q] \notin {"answered", "lost"}
    BY <2>3, NotYet
  <2> QED
    BY <2>1, <2>2, <2>3
<1>3. CASE Silent
  <2>1. messages' = messages
    BY <1>3 DEF Silent
  <2>2. ASSUME pc'[q] = "answered", Chat(body'[q]), status'[q] = 200 PROVE TwoRows(q)'
    <3>1. TwoRows(q)
      BY <1>1, <1>3, <2>2 DEF Silent
    <3> QED
      BY <2>1, <3>1 DEF TwoRows
  <2>3. ASSUME pc'[q] = "lost" PROVE (NoRow(q) \/ OneRow(q) \/ TwoRows(q))'
    <3>1. NoRow(q) \/ OneRow(q) \/ TwoRows(q)
      BY <1>2, <2>3
    <3> QED
      BY <2>1, <3>1 DEF NoRow, OneRow, TwoRows
  <2> QED
    BY <2>2, <2>3
<1>4. ASSUME NEW r \in Requests, Half(r)
      PROVE  /\ pc'[q] = "answered" /\ Chat(body'[q]) /\ status'[q] = 200 => TwoRows(q)'
             /\ pc'[q] = "lost" => (NoRow(q) \/ OneRow(q) \/ TwoRows(q))'
  <2>1. pc'[r] = "lost" /\ (pc'[q] = "answered" => pc[q] = "answered")
    BY <1>4 DEF Half
  <2>2. CASE q = r
    BY <1>4, <2>1, <2>2, HalfIsOne
  <2>3. CASE q # r
    BY <1>1, <1>2, <1>4, <2>1, <2>3, HalfIsOne
  <2> QED
    BY <2>2, <2>3
<1>5. ASSUME NEW r \in Requests, Whole(r)
      PROVE  /\ pc'[q] = "answered" /\ Chat(body'[q]) /\ status'[q] = 200 => TwoRows(q)'
             /\ pc'[q] = "lost" => (NoRow(q) \/ OneRow(q) \/ TwoRows(q))'
  <2>1. q # r /\ pc'[q] = "answered" => pc[q] = "answered"
    BY <1>5 DEF Whole
  <2>2. CASE q = r
    BY <1>5, <2>2, WholeIsTwo
  <2>3. CASE q # r
    BY <1>1, <1>2, <1>5, <2>1, <2>3, WholeIsTwo
  <2> QED
    BY <2>2, <2>3
<1> QED
  BY <1>3, <1>4, <1>5, RemembersStep

LEMMA RowsAlways == ServerSpec => [](Inv /\ QuestionInv /\ RowsInv /\ BothInv)
<1>1. ServerInit => RowsInv /\ BothInv
  BY DEF ServerInit, RowsInv, BothInv
<1> QED
  BY <1>1, InvInit, InvNext, QuestionAlways, RowsNext, BothNext, PTL DEF ServerSpec

\* "Persist only after a successful reply, so a failure never stores half a turn"
\* (chat_service.py:178), for any number of requests at once and however often the process
\* dies: whoever was answered 200 finds both rows in the table, whoever was lost with the
\* process has none, the first or both there, anybody else neither a row nor a question.
THEOREM AnsweredIsRememberedHolds == ServerSpec => []AnsweredIsRemembered
<1>1. Inv /\ QuestionInv /\ RowsInv /\ BothInv => AnsweredIsRemembered
  <2> SUFFICES ASSUME Inv, QuestionInv, RowsInv, BothInv, NEW r \in Requests
               PROVE  LET remembered == pc[r] = "answered" /\ Chat(body[r]) /\ status[r] = 200
                      IN  /\ remembered => Roles(r) = <<"user", "assistant">>
                          /\ pc[r] = "lost" => Roles(r) \in {<<>>, <<"user">>, <<"user", "assistant">>}
                          /\ ~remembered /\ pc[r] # "lost" =>
                                Roles(r) = <<>> /\ \A key \in Keys : parked[key] # r
    BY DEF AnsweredIsRemembered
  <2> DEFINE mine == {i \in DOMAIN messages : messages[i].by = r}
             rows == Picked(messages, mine)
             remembered == pc[r] = "answered" /\ Chat(body[r]) /\ status[r] = 200
  <2>0. messages \in Seq(Rows) /\ DOMAIN messages = 1..Len(messages) /\ Len(messages) \in Nat
    BY DEF RowsInv
  <2>1. Roles(r) = [i \in DOMAIN rows |-> rows[i].role]
    BY DEF Roles
  <2>2. ASSUME TwoRows(r) PROVE Roles(r) = <<"user", "assistant">>
    <3>1. PICK k \in 1..Len(messages) :
             /\ k + 1 \in 1..Len(messages)
             /\ messages[k].role = "user"
             /\ messages[k + 1].role = "assistant"
             /\ \A i \in 1..Len(messages) : messages[i].by = r <=> i \in {k, k + 1}
      BY <2>2 DEF TwoRows
    <3>2. mine = {k, k + 1}
      BY <2>0, <3>1
    <3> HIDE DEF mine
    <3>3. rows = <<messages[k], messages[k + 1]>>
      BY <2>0, <3>1, <3>2, PickedPair
    <3> HIDE DEF rows
    <3>4. Roles(r) = <<messages[k].role, messages[k + 1].role>>
      BY <2>1, <3>3
    <3> QED
      BY <3>1, <3>4
  <2>3. ASSUME OneRow(r) PROVE Roles(r) = <<"user">>
    <3>1. PICK k \in 1..Len(messages) :
             /\ messages[k].role = "user"
             /\ \A i \in 1..Len(messages) : messages[i].by = r <=> i = k
      BY <2>3 DEF OneRow
    <3>2. mine = {k}
      BY <2>0, <3>1
    <3> HIDE DEF mine
    <3>3. rows = <<messages[k]>>
      BY <2>0, <3>1, <3>2, PickedOne
    <3> HIDE DEF rows
    <3>4. Roles(r) = <<messages[k].role>>
      BY <2>1, <3>3
    <3> QED
      BY <3>1, <3>4
  <2>4. ASSUME NoRow(r) PROVE Roles(r) = <<>>
    <3>1. mine = {}
      BY <2>0, <2>4 DEF NoRow
    <3> HIDE DEF mine
    <3>2. rows = <<>>
      BY <2>0, <3>1, PickedNone
    <3> HIDE DEF rows
    <3> QED
      BY <2>1, <3>2
  <2> HIDE DEF mine, rows
  <2>5. ASSUME remembered PROVE Roles(r) = <<"user", "assistant">>
    BY <2>2, <2>5 DEF BothInv
  <2>6. ASSUME pc[r] = "lost" PROVE Roles(r) \in {<<>>, <<"user">>, <<"user", "assistant">>}
    BY <2>2, <2>3, <2>4, <2>6 DEF BothInv
  <2>7. ASSUME ~remembered, pc[r] # "lost"
        PROVE  Roles(r) = <<>> /\ \A key \in Keys : parked[key] # r
    <3>1. ASSUME NEW key, Asked(r, key) PROVE FALSE
      BY <2>7, <3>1 DEF Asked
    <3>2. NoRow(r)
      <4>1. ASSUME NEW i \in 1..Len(messages), messages[i].by = r PROVE FALSE
        BY <3>1, <4>1 DEF RowsInv
      <4> QED
        BY <4>1 DEF NoRow
    <3>3. ASSUME NEW key \in Keys, parked[key] = r PROVE FALSE
      BY <3>1, <3>3, NoneAssumption DEF QuestionInv
    <3> QED
      BY <2>4, <3>2, <3>3
  <2> QED
    BY <2>5, <2>6, <2>7
<1> QED
  BY <1>1, RowsAlways, PTL

-----------------------------------------------------------------------------
(* The type invariant, and the wiring.                                     *)

HIDE DEF Answer, Raise

\* What one request does to its own place, basis and status.
Moved(r) ==
    /\ pc' = [pc EXCEPT ![r] = pc'[r]]
    /\ basis' = [basis EXCEPT ![r] = basis'[r]]
    /\ status' = [status EXCEPT ![r] = status'[r]]
    /\ basis'[r] \in Bases \cup {None}
    /\ pc'[r] = "running" <=> basis'[r] # None
    /\ status'[r] \in {200, 400, 404, 422, 500, 503, None}
    /\ UNCHANGED <<phase, app, starts>>

LEMMA AnswerMoves ==
    ASSUME Types, DataInv, NEW r \in Requests, NEW n \in {200, 400, 404, 422, 500, 503},
           Answer(r, n), UNCHANGED <<phase, app, starts>>
    PROVE  Moved(r)
BY DEF Moved, Types, DataInv, Answer

LEMMA RunMoves ==
    ASSUME Types, DataInv, QuestionInv, RowsInv, phase = "up",
           NEW r \in Requests, NEW b \in Bodies, Chat(b), Run(r, b), basis[r] = None,
           UNCHANGED <<phase, app, starts>>
    PROVE  Moved(r)
<1> USE DEF Types, DataInv
<1>1. Key(b) \in Keys
  BY DEF Keys
<1> DEFINE question == IF app.pending THEN parked[Key(b)] ELSE None
           turns == select_window(recent(messages, Key(b), app.window), app.window)
<1>2. question \in Requests \cup {None}
  BY <1>1 DEF QuestionInv
<1>3. turns \in Seq(Rows)
  BY PickedSeq, WindowIs, WiredIsWhole DEF recent, RowsInv
<1>4. <<>> \in Seq(Rows)
  OBVIOUS
<1>5. [question |-> question, turns |-> <<>>] \in Bases
  BY <1>2, <1>4 DEF Bases
<1>6. [question |-> None, turns |-> turns] \in Bases
  BY <1>3 DEF Bases
<1> HIDE DEF question, turns
<1>7. CASE /\ basis' = [basis EXCEPT ![r] = [question |-> question, turns |-> <<>>]]
           /\ Goto(r, "running")
           /\ UNCHANGED status
  BY <1>5, <1>7, NoneAssumption DEF Moved
<1>8. CASE /\ basis' = [basis EXCEPT ![r] = [question |-> None, turns |-> turns]]
           /\ Goto(r, "running")
           /\ UNCHANGED status
  BY <1>6, <1>8, NoneAssumption DEF Moved
<1>9. CASE Raise(r, "BadRequest")
  BY <1>9, Statuses, AnswerMoves DEF Raise
<1> QED
  BY <1>7, <1>8, <1>9 DEF Run, question, turns

LEMMA MakeMoves ==
    ASSUME Inv, DataInv, QuestionInv, RowsInv, NEW r \in Requests, NEW b \in Bodies, Make(r, b)
    PROVE  Moved(r)
<1>0. /\ phase = "up" /\ pc[r] = "idle" /\ basis[r] = None /\ Types
      /\ UNCHANGED <<phase, app, starts>>
  BY DEF Inv, DataInv, Make, Health, Refuse, Reload, ReceiveLink, ReceiveServed, ReceiveResolves,
         ReceiveChat, Receive
<1>1. CASE Health(r, b)
  BY <1>0, <1>1, AnswerMoves DEF Health
<1>2. CASE Refuse(r, b)
  BY <1>0, <1>2, Statuses, AnswerMoves DEF Refuse, Raise
<1>3. CASE ReceiveServed(r, b)
  BY <1>0, <1>3, RunMoves DEF ReceiveServed, ReceiveChat
<1>4. CASE Reload(r, b) \/ ReceiveLink(r, b) \/ ReceiveResolves(r, b)
  BY <1>0, <1>4 DEF Reload, ReceiveLink, ReceiveResolves, Moved, Types, DataInv
<1> QED
  BY <1>1, <1>2, <1>3, <1>4 DEF Make

LEMMA ProceedMoves ==
    ASSUME Inv, DataInv, QuestionInv, RowsInv, NEW r \in Requests, Proceed(r)
    PROVE  Moved(r)
<1>0. /\ phase = "up" /\ Types
      /\ UNCHANGED <<phase, app, starts>>
  BY DEF Inv, Types, PlaceInv, Proceed, Resolved, Reloaded, NotFound, LoadFails, Replies,
         RunPauses, MayPause, Fails
<1>1. CASE Resolved(r)
  <2>1. basis[r] = None /\ body[r] \in Bodies /\ Chat(body[r])
    BY <1>1 DEF Resolved, DataInv, Inv, PlaceInv
  <2> QED
    BY <1>0, <1>1, <2>1, RunMoves DEF Resolved
<1>2. CASE Reloaded(r)
  BY <1>0, <1>2, AnswerMoves DEF Reloaded
<1>3. CASE NotFound(r)
  BY <1>0, <1>3, Statuses, AnswerMoves DEF NotFound, Raise
<1>4. ASSUME NEW class \in LoadErrors, LoadFails(r, class) PROVE Moved(r)
  BY <1>0, <1>4, Statuses, AnswerMoves DEF LoadFails, Raise
<1>5. CASE Replies(r)
  BY <1>0, <1>5, AnswerMoves DEF Replies
<1>6. CASE RunPauses(r)
  BY <1>0, <1>6, Statuses, AnswerMoves DEF RunPauses, Raise
<1>7. CASE Fails(r)
  BY <1>0, <1>7, Statuses, AnswerMoves DEF Fails, Raise
<1> QED
  BY <1>1, <1>2, <1>3, <1>4, <1>5, <1>6, <1>7 DEF Proceed

LEMMA DataNext == Inv /\ QuestionInv /\ RowsInv /\ DataInv /\ [ServerNext]_vars => DataInv'
<1> SUFFICES ASSUME Inv, QuestionInv, RowsInv, DataInv, [ServerNext]_vars PROVE DataInv'
  OBVIOUS
<1>1. ASSUME NEW r \in Requests, Moved(r) PROVE DataInv'
  <2> DEFINE x == basis'[r]
             n == status'[r]
             p == pc'[r]
  <2>0. /\ pc' = [pc EXCEPT ![r] = p] /\ pc \in [Requests -> Places]
        /\ basis' = [basis EXCEPT ![r] = x] /\ basis \in [Requests -> Bases \cup {None}]
        /\ status' = [status EXCEPT ![r] = n]
        /\ status \in [Requests -> {200, 400, 404, 422, 500, 503, None}]
        /\ x \in Bases \cup {None} /\ n \in {200, 400, 404, 422, 500, 503, None}
        /\ p = "running" <=> x # None
        /\ UNCHANGED <<phase, app, starts>>
    BY <1>1 DEF Moved, DataInv, Inv, Types
  <2> HIDE DEF x, n, p
  <2>1. basis' \in [Requests -> Bases \cup {None}]
    BY <2>0
  <2>2. status' \in [Requests -> {200, 400, 404, 422, 500, 503, None}]
    BY <2>0
  <2>3. \A q \in Requests : pc'[q] = "running" <=> basis'[q] # None
    BY <2>0 DEF DataInv
  <2>4. /\ starts' \in 0..MaxStarts
        /\ phase' = "up" => \E env \in Environments : Starts(env) /\ app' = create_app(env)
    BY <2>0 DEF DataInv
  <2> QED
    BY <2>1, <2>2, <2>3, <2>4 DEF DataInv
<1>2. CASE Start
  BY <1>2, MaxStartsAssumption DEF Start, DataInv
<1>3. ASSUME Die PROVE DataInv'
  BY <1>3 DEF Die, DataInv, Inv, Types
<1>4. CASE UNCHANGED vars
  BY <1>4 DEF vars, DataInv
<1> QED
  BY <1>1, <1>2, <1>3, <1>4, MakeMoves, ProceedMoves
  DEF ServerNext, Crash, CrashMidTurn, AtRest

LEMMA DataAlways == ServerSpec => [](Inv /\ QuestionInv /\ RowsInv /\ DataInv)
<1>1. ServerInit => DataInv
  BY MaxStartsAssumption DEF ServerInit, DataInv
<1> QED
  BY <1>1, RowsAlways, DataNext, PTL DEF ServerSpec

\* Type correctness; with it, that a window shows at least one row and that every row and
\* every question is one of a request that came.
THEOREM ServerTypeOKHolds == ServerSpec => []ServerTypeOK
<1>1. Inv /\ QuestionInv /\ RowsInv /\ DataInv => ServerTypeOK
  BY WiredIsWhole DEF Inv, Types, PlaceInv, QuestionInv, RowsInv, DataInv, ServerTypeOK
<1> QED
  BY <1>1, DataAlways, PTL

\* "Fails at startup — never at chat time" (main.py:64-65): for any lists of bindings and
\* sources, with repeated names, a brain that is up holds all it was asked to bind and a
\* place to park a run of any agent that has tools.
THEOREM WiredAsConfiguredHolds == ServerSpec => []WiredAsConfigured
<1>1. DataInv => WiredAsConfigured
  BY WiredIsWhole DEF WiredAsConfigured
<1> QED
  BY <1>1, DataAlways, PTL

-----------------------------------------------------------------------------
(* Whose history a run is shown.                                           *)

\* The rows under a key are those of the turns that share its history.
LEMMA SameRows ==
    ASSUME RowsInv, NEW b \in Bodies, Chat(b)
    PROVE  {i \in DOMAIN messages : messages[i].key = Key(b)} =
           {i \in DOMAIN messages : Shares(body[messages[i].by], b)}
<1> SUFFICES ASSUME NEW i \in DOMAIN messages
             PROVE  messages[i].key = Key(b) <=> Shares(body[messages[i].by], b)
  OBVIOUS
<1> DEFINE c == body[messages[i].by]
<1>1. c \in Bodies /\ Chat(c) /\ Key(c) = messages[i].key
  <2>1. i \in 1..Len(messages)
    BY DEF RowsInv
  <2> QED
    BY <2>1 DEF RowsInv, Asked
<1> HIDE DEF c
<1>2. Key(c) = Key(b) <=> Shares(c, b)
  BY <1>1, KeysShare
<1> QED
  BY <1>1, <1>2 DEF c

LEMMA RunHistory ==
    ASSUME Types, DataInv, RowsInv, phase = "up", NEW r \in Requests, NEW b \in Bodies,
           Chat(b), Conversing(b) # <<>>, Run(r, b), basis'[r] # None,
           basis'[r].question = None
    PROVE  LET ours == Picked(messages, {i \in DOMAIN messages : Shares(body[messages[i].by], b)})
               turns == basis'[r].turns
           IN  /\ IsSuffix(turns, ours)
               /\ Len(turns) = app.window \/ (turns = ours /\ Len(ours) < app.window)
<1> DEFINE places == {i \in DOMAIN messages : Shares(body[messages[i].by], b)}
           ours == Picked(messages, places)
           turns == select_window(Latest(ours, app.window), app.window)
<1>1. basis'[r].turns = select_window(recent(messages, Key(b), app.window), app.window)
  <2> DEFINE shown == select_window(recent(messages, Key(b), app.window), app.window)
             question == IF app.pending THEN parked[Key(b)] ELSE None
  <2> HIDE DEF shown, question
  <2>1. CASE question # None /\ basis' = [basis EXCEPT ![r] = [question |-> question, turns |-> <<>>]]
    BY <2>1 DEF Types
  <2>2. CASE Raise(r, "BadRequest")
    BY <2>2 DEF Raise, Answer, Types
  <2>3. CASE basis' = [basis EXCEPT ![r] = [question |-> None, turns |-> shown]]
    <3>1. basis'[r].turns = shown
      BY <2>3 DEF Types
    <3> QED
      BY <3>1 DEF shown
  <2> QED
    BY <2>1, <2>2, <2>3 DEF Run, shown, question
<1>2. recent(messages, Key(b), app.window) = Latest(ours, app.window)
  BY SameRows DEF recent
<1>3. ours \in Seq(Rows)
  BY PickedSeq DEF RowsInv
<1>4. app.window \in Int /\ app.window >= 1
  BY WiredIsWhole
<1> HIDE DEF ours
<1>5. IsSuffix(turns, ours) /\ (Len(turns) = app.window \/ (turns = ours /\ Len(ours) < app.window))
  BY <1>3, <1>4, WindowIs
<1>6. basis'[r].turns = turns
  BY <1>1, <1>2
<1> HIDE DEF turns
<1> QED
  BY <1>5, <1>6 DEF ours

LEMMA HistoryStep ==
    Inv /\ QuestionInv /\ RowsInv /\ DataInv /\ [ServerNext]_vars =>
        [\A r \in Requests : basis[r] = None /\ basis'[r] # None =>
          LET ours == Picked(messages,
                         {i \in DOMAIN messages : Shares(body[messages[i].by], body'[r])})
              q == basis'[r].question
              turns == basis'[r].turns
          IN  IF q # None THEN Shares(body[q], body'[r])
              ELSE /\ IsSuffix(turns, ours)
                   /\ Len(turns) = app.window \/ (turns = ours /\ Len(ours) < app.window)]_vars
<1> SUFFICES ASSUME Inv, QuestionInv, RowsInv, DataInv, [ServerNext]_vars, NEW q \in Requests,
                    basis[q] = None, basis'[q] # None
             PROVE  LET ours == Picked(messages,
                            {i \in DOMAIN messages : Shares(body[messages[i].by], body'[q])})
                        turns == basis'[q].turns
                    IN  IF basis'[q].question # None
                        THEN Shares(body[basis'[q].question], body'[q])
                        ELSE /\ IsSuffix(turns, ours)
                             /\ Len(turns) = app.window \/ (turns = ours /\ Len(ours) < app.window)
  OBVIOUS
<1>1. ASSUME basis'[q].question # None PROVE Shares(body[basis'[q].question], body'[q])
  BY <1>1, RunStarts, ResumesOwn DEF Inv
<1>2. PICK b \in Bodies : Run(q, b) /\ Chat(b) /\ Conversing(b) # <<>> /\ body'[q] = b /\ phase = "up"
  BY RunStarts
<1>3. CASE basis'[q].question = None
  BY <1>2, <1>3, RunHistory DEF Inv
<1> QED
  BY <1>1, <1>3

\* "The same person talking to two bots that share this brain gets two histories, not
\* one" (chat_service.py:11-14), for any ids and any window: a run is shown exactly the
\* last rows of its own agent and conversation, and of no other but one whose ids run
\* together with these, and then of that one too.
THEOREM OwnHistoryHolds == ServerSpec => OwnHistory
BY DataAlways, HistoryStep, PTL DEF ServerSpec, OwnHistory

-----------------------------------------------------------------------------
(* Link commands.                                                          *)

LEMMA WordsAre ==
    ASSUME NEW T, NEW seq \in Seq(T)
    PROVE  words(seq) = Only(seq, {x \in T : IsWord(x)})
<1>1. {i \in DOMAIN seq : seq[i] \in {x \in T : IsWord(x)}} = {i \in DOMAIN seq : IsWord(seq[i])}
  BY LenProperties, ElementOfSeq
<1> QED
  BY <1>1 DEF words, Only

\* The words of two parts of a text, of one token, and of white space.
LEMMA WordsOfParts ==
    ASSUME NEW T
    PROVE  /\ \A s \in Seq(T) : words(s) \in Seq(T)
           /\ \A s, t \in Seq(T) : words(s \o t) = words(s) \o words(t)
           /\ \A x \in T : words(<<x>>) = IF IsWord(x) THEN <<x>> ELSE <<>>
           /\ \A s \in Seq(T) : (\A i \in 1..Len(s) : ~IsWord(s[i])) => words(s) = <<>>
           /\ \A s \in Seq(T) : \A i \in 1..Len(words(s)) : IsWord(words(s)[i])
<1> DEFINE W == {x \in T : IsWord(x)}
<1>0. \A s \in Seq(T) : words(s) = Only(s, W)
  BY WordsAre
<1>1. \A x \in T : x \in W <=> IsWord(x)
  OBVIOUS
<1> HIDE DEF W
<1>2. ASSUME NEW s \in Seq(T) PROVE words(s) \in Seq(T)
  BY PickedSeq DEF words
<1>3. ASSUME NEW p \in Seq(T), NEW q \in Seq(T) PROVE words(p \o q) = words(p) \o words(q)
  <2>1. p \o q \in Seq(T)
    BY ConcatProperties
  <2>2. Only(p \o q, W) = Only(p, W) \o Only(q, W)
    BY OnlyConcat
  <2>3. words(p \o q) = Only(p \o q, W) /\ words(p) = Only(p, W) /\ words(q) = Only(q, W)
    BY <1>0, <2>1
  <2> QED
    BY ONLY <2>2, <2>3
<1>4. ASSUME NEW x \in T PROVE words(<<x>>) = IF IsWord(x) THEN <<x>> ELSE <<>>
  <2>1. <<x>> \in Seq(T)
    OBVIOUS
  <2>2. Only(<<x>>, W) = IF x \in W THEN <<x>> ELSE <<>>
    BY OnlyOne
  <2> QED
    BY <1>0, <1>1, <2>1, <2>2
<1>5. ASSUME NEW s \in Seq(T), \A i \in 1..Len(s) : ~IsWord(s[i]) PROVE words(s) = <<>>
  <2>1. \A i \in 1..Len(s) : s[i] \notin W
    BY <1>1, <1>5, ElementOfSeq
  <2> QED
    BY <1>0, <2>1, OnlyNone
<1>6. ASSUME NEW s \in Seq(T), NEW i \in 1..Len(words(s)) PROVE IsWord(words(s)[i])
  <2> DEFINE ws == words(s)
  <2>1. ws = Only(s, W)
    BY <1>0
  <2>2. ws \in Seq(T) /\ ToSet(ws) = {x \in ToSet(s) : x \in W}
    BY <2>1, OnlyIs
  <2>3. i \in 1..Len(ws)
    OBVIOUS
  <2> HIDE DEF ws
  <2>4. ws[i] \in ToSet(ws)
    BY <2>2, <2>3, LenProperties DEF ToSet
  <2>5. IsWord(ws[i])
    BY <1>1, <2>2, <2>4 DEF W
  <2> QED
    BY <2>5 DEF ws
<1> QED
  BY <1>2, <1>3, <1>4, <1>5, <1>6

\* A text from its first word to its last.
LEMMA StripIs ==
    ASSUME NEW T, NEW text \in Seq(T), NEW k \in 1..Len(text), IsWord(text[k])
    PROVE  \E a, b \in 1..Len(text) :
              /\ a <= b
              /\ IsWord(text[a]) /\ IsWord(text[b])
              /\ \A i \in 1..Len(text) : i < a \/ b < i => ~IsWord(text[i])
              /\ strip(text) = SubSeq(text, a, b)
<1> DEFINE I == {i \in 1..Len(text) : IsWord(text[i])}
<1>1. I \in SUBSET (1..Len(text)) /\ k \in I /\ Len(text) \in Nat
  BY LenProperties
<1>2. /\ SelectInSeq(text, IsWord) = Min(I) /\ SelectLastInSeq(text, IsWord) = Max(I)
      /\ \A i \in 1..Len(text) : i \in I <=> IsWord(text[i])
  BY <1>1 DEF SelectInSeq, SelectLastInSeq
<1> HIDE DEF I
<1> DEFINE a == Min(I)
           b == Max(I)
<1>3. /\ a \in I /\ \A i \in I : a <= i
      /\ b \in I /\ \A i \in I : i <= b
  BY <1>1, FirstIsOne, LastIsOne
<1>4. strip(text) = IF a = 0 THEN <<>> ELSE SubSeq(text, a, b)
  BY <1>2 DEF strip
<1> HIDE DEF a, b
<1>5. a \in 1..Len(text) /\ b \in 1..Len(text) /\ a <= b
  BY <1>1, <1>3
<1>6. a # 0
  BY <1>1, <1>5
<1>7. ASSUME NEW i \in 1..Len(text), i < a \/ b < i PROVE ~IsWord(text[i])
  <2>1. i \notin I
    BY <1>1, <1>3, <1>5, <1>7
  <2> QED
    BY <1>2, <2>1
<1> QED
  BY <1>2, <1>3, <1>4, <1>5, <1>6, <1>7

LEMMA NothingToStrip ==
    ASSUME NEW text, \A i \in 1..Len(text) : ~IsWord(text[i])
    PROVE  strip(text) = <<>>
<1>1. {i \in 1..Len(text) : IsWord(text[i])} = {}
  OBVIOUS
<1> QED
  BY <1>1 DEF strip, SelectInSeq

\* What kind of command its first word and the rest of its words are.
Meaning(says, args) ==
    IF says \notin SlashWords THEN "none"
    ELSE IF says = "/start" THEN
        IF args = <<>> THEN "prompt"
        ELSE IF Len(args) = 1 /\ _CODE(args[1]) THEN "redeem"
        ELSE "bad_code"
    ELSE IF says = "/logout" /\ args = <<>> THEN "logout"
    ELSE "none"

LEMMA FirstBlankIs ==
    ASSUME NEW T, NEW s \in Seq(T)
    PROVE  /\ FirstBlank(s) \in 1..Len(s) + 1
           /\ FirstBlank(s) <= Len(s) => s[FirstBlank(s)] = Blank
           /\ \A i \in 1..Len(s) : s[i] = Blank => FirstBlank(s) <= i
<1> DEFINE ext == Append(s, Blank)
           n == Len(s)
<1>1. n \in Nat /\ s \in Seq(T \cup {Blank})
  BY LenProperties, SeqMonotonic
<1>2. Len(ext) = n + 1 /\ ext[n + 1] = Blank /\ \A i \in 1..n : ext[i] = s[i]
  BY <1>1, AppendProperties
<1> HIDE DEF ext, n
<1> DEFINE I == {i \in 1..Len(ext) : ext[i] = Blank}
<1>3. n + 1 \in I /\ I \in SUBSET (1..n + 1)
  BY <1>1, <1>2
<1>4. FirstBlank(s) = Min(I)
  BY <1>3 DEF FirstBlank, SelectInSeq, ext
<1>5. \A i \in 1..n : s[i] = Blank => i \in I
  BY <1>1, <1>2
<1>6. \A i \in I : i <= n => s[i] = Blank
  BY <1>1, <1>2
<1> HIDE DEF I
<1>7. Min(I) \in I /\ \A i \in I : Min(I) <= i
  <2>1. n + 1 \in Nat
    BY <1>1
  <2> QED
    BY ONLY <1>3, <2>1, FirstIsOne
<1>8. Min(I) \in 1..n + 1
  BY <1>3, <1>7
<1> QED
  BY <1>4, <1>5, <1>6, <1>7, <1>8 DEF n

\* parse of a stripped text that begins with a word: its head is all before the first
\* blank, its arguments are the words after that.
LEMMA HeadIs ==
    ASSUME NEW T, NEW text, NEW s \in Seq(T), strip(text) = s, s # <<>>,
           IsWord(s[1])
    PROVE  /\ FirstBlank(s) >= 2
           /\ parse(text) =
                 IF FirstBlank(s) = 2 \/ s[1].at
                 THEN Meaning(s[1].says, words(SubSeq(s, FirstBlank(s) + 1, Len(s))))
                 ELSE "none"
<1> DEFINE e == FirstBlank(s)
           n == Len(s)
           head == SubSeq(s, 1, e - 1)
           args == words(SubSeq(s, e + 1, n))
<1>1. n \in Nat /\ n # 0 /\ s[1] \in T /\ \A i \in 1..n : s[i] \in T
  BY LenProperties, EmptySeq, ElementOfSeq
<1>2. s[1] # Blank
  BY DEF IsWord, Blank
<1>3. e \in 1..n + 1 /\ (e <= n => s[e] = Blank)
  BY FirstBlankIs
<1>4. parse(text) = IF ~StartsWithSlash(s[1]) THEN "none"
        ELSE CASE Command(head) = "/start" ->
                    IF args = <<>> THEN "prompt"
                    ELSE IF Len(args) = 1 /\ _CODE(args[1]) THEN "redeem"
                    ELSE "bad_code"
               [] Command(head) = "/logout" /\ args = <<>> -> "logout"
               [] OTHER -> "none"
  BY DEF parse
<1> HIDE DEF e, n, args
<1>5. e >= 2
  BY <1>1, <1>2, <1>3
<1>6. Len(head) = e - 1 /\ head[1] = s[1]
  <2>1. \A i \in 1..e - 1 : i \in 1..n /\ s[i] \in T
    BY <1>1, <1>3
  <2>2. 1 \in Int /\ e - 1 \in Int /\ 1 <= e - 1 /\ (e - 1) - 1 + 1 = e - 1 /\ 1 \in 1..e - 1
    BY <1>3, <1>5
  <2>3. /\ Len(head) = (e - 1) - 1 + 1
        /\ \A i \in 1..(e - 1) - 1 + 1 : head[i] = s[1 + i - 1]
    BY <2>1, <2>2, SubSeqProperties
  <2> HIDE DEF head
  <2> QED
    BY <2>2, <2>3
<1> HIDE DEF head
<1>7. CASE e = 2 \/ s[1].at
  <2>1. Command(head) = s[1].says
    BY <1>3, <1>6, <1>7 DEF Command
  <2>2. parse(text) = Meaning(s[1].says, args)
    BY <1>4, <2>1 DEF Meaning, StartsWithSlash
  <2> QED
    BY <1>5, <1>7, <2>2 DEF e, n, args
<1>8. CASE ~(e = 2 \/ s[1].at)
  <2>1. Command(head) = "other"
    BY <1>3, <1>6, <1>8 DEF Command
  <2>2. parse(text) = "none"
    BY <1>4, <2>1
  <2> QED
    BY <1>5, <1>8, <2>2 DEF e
<1> QED
  BY <1>7, <1>8

\* The words from the first blank on are those after it.
LEMMA BlankIsNoWord ==
    ASSUME NEW T, NEW s \in Seq(T), NEW e \in 1..Len(s) + 1, e <= Len(s) => s[e] = Blank
    PROVE  /\ SubSeq(s, e, Len(s)) \in Seq(T)
           /\ words(SubSeq(s, e + 1, Len(s))) \in Seq(T)
           /\ words(SubSeq(s, e, Len(s))) = words(SubSeq(s, e + 1, Len(s)))
<1> DEFINE n == Len(s)
           from == SubSeq(s, e, n)
           beyond == SubSeq(s, e + 1, n)
<1>1. n \in Nat /\ \A i \in 1..n : s[i] \in T
  BY LenProperties, ElementOfSeq
<1>2. from \in Seq(T) /\ beyond \in Seq(T)
  <2>1. n \in Int /\ e \in Int /\ e + 1 \in Int
        /\ (\A i \in e..n : s[i] \in T) /\ (\A i \in e + 1..n : s[i] \in T)
    BY <1>1
  <2> HIDE DEF n
  <2> QED
    BY <2>1, SubSeqProperties
<1>3. words(beyond) \in Seq(T)
  BY <1>2, WordsOfParts
<1>4. CASE e <= n
  <2>1. e \in 1..n /\ n \in e..n
    BY <1>1, <1>4
  <2>2. from = << s[e] >> \o beyond
    BY <1>1, <2>1, SubSeqRecursiveFirst
  <2>3. s[e] \in T /\ << s[e] >> \in Seq(T) /\ ~IsWord(s[e])
    BY <1>1, <1>4, <2>1 DEF IsWord, Blank
  <2> DEFINE one == << s[e] >>
  <2>4. words(one) = <<>>
    BY <2>3, WordsOfParts
  <2>5. one \in Seq(T) /\ from = one \o beyond
    BY <2>2, <2>3
  <2> HIDE DEF one, from, beyond
  <2>6. words(one \o beyond) = words(one) \o words(beyond)
    BY <1>2, <2>5, WordsOfParts
  <2>7. <<>> \o words(beyond) = words(beyond)
    BY <1>3, ConcatEmptySeq
  <2>8. words(from) = words(beyond)
    BY <2>4, <2>5, <2>6, <2>7
  <2> QED
    BY <1>2, <1>3, <2>8 DEF n, from, beyond
<1>5. CASE e > n
  <2>1. from = <<>> /\ beyond = <<>>
    BY <1>1, <1>5, SubSeqEmpty
  <2> QED
    BY <1>2, <1>3, <2>1
<1> QED
  BY <1>1, <1>4, <1>5

\* A sequence is its first element and the rest.
LEMMA FirstAndRest ==
    ASSUME NEW T, NEW s \in Seq(T), s # <<>>
    PROVE  s[1] \in T /\ SubSeq(s, 2, Len(s)) \in Seq(T) /\ s = << s[1] >> \o SubSeq(s, 2, Len(s))
<1>1. Len(s) \in Nat /\ Len(s) # 0 /\ \A i \in 1..Len(s) : s[i] \in T
  BY LenProperties, EmptySeq, ElementOfSeq
<1>2. SubSeq(s, 1, Len(s)) = << s[1] >> \o SubSeq(s, 1 + 1, Len(s))
  BY <1>1, SubSeqRecursiveFirst
<1>3. SubSeq(s, 1, Len(s)) = s
  BY SubSeqFull
<1>4. SubSeq(s, 2, Len(s)) \in Seq(T)
  BY <1>1, SubSeqProperties
<1> QED
  BY <1>1, <1>2, <1>3, <1>4

LEMMA SameFirstAndRest ==
    ASSUME NEW T, NEW x \in T, NEW y \in T, NEW p \in Seq(T), NEW q \in Seq(T),
           << x >> \o p = << y >> \o q
    PROVE  x = y /\ p = q
<1>1. /\ << x >> \in Seq(T) /\ Len(<< x >>) = 1 /\ << x >>[1] = x
      /\ << y >> \in Seq(T) /\ Len(<< y >>) = 1 /\ << y >>[1] = y
      /\ Len(p) \in Nat /\ Len(q) \in Nat
  BY LenProperties
<1> DEFINE u == << x >> \o p
           v == << y >> \o q
<1>2. /\ Len(u) = 1 + Len(p) /\ \A i \in 1..1 + Len(p) : u[i] = IF i <= 1 THEN << x >>[i] ELSE p[i - 1]
      /\ Len(v) = 1 + Len(q) /\ \A i \in 1..1 + Len(q) : v[i] = IF i <= 1 THEN << y >>[i] ELSE q[i - 1]
  BY <1>1, ConcatProperties
<1>3. u = v
  OBVIOUS
<1> HIDE DEF u, v
<1>4. Len(p) = Len(q) /\ u[1] = x /\ v[1] = y
  BY <1>1, <1>2, <1>3
<1>5. ASSUME NEW i \in 1..Len(p) PROVE p[i] = q[i]
  <2>1. i + 1 \in 1..1 + Len(p) /\ ~(i + 1 <= 1) /\ (i + 1) - 1 = i
    BY <1>1
  <2>2. u[i + 1] = p[i] /\ v[i + 1] = q[i]
    BY <1>2, <1>4, <2>1
  <2> QED
    BY <1>3, <2>2
<1>6. p = q
  BY <1>4, <1>5, SeqEqual
<1> QED
  BY <1>3, <1>4, <1>6

\* A text that has words means what its first word and those after the first blank do,
\* but for one that runs on; these are all of its words if it does not run on.
LEMMA ParseIs ==
    ASSUME NEW T, NEW text \in Seq(T), IsText(text), NEW k \in 1..Len(text), IsWord(text[k])
    PROVE  LET w == strip(text)[1]
           IN  /\ w \in T /\ IsWord(w) /\ AfterBlank(text) \in Seq(T)
               /\ parse(text) = IF RunsOn(text) /\ ~w.at THEN "none"
                                ELSE Meaning(w.says, AfterBlank(text))
               /\ ~RunsOn(text) => words(text) = << w >> \o AfterBlank(text)
               /\ \A i \in 1..Len(AfterBlank(text)) : IsWord(AfterBlank(text)[i])
<1>0. Len(text) \in Nat /\ \A i \in 1..Len(text) : text[i] \in T
  BY LenProperties, ElementOfSeq
<1>1. PICK a \in 1..Len(text), b \in 1..Len(text) :
         /\ a <= b
         /\ IsWord(text[a]) /\ IsWord(text[b])
         /\ \A i \in 1..Len(text) : i < a \/ b < i => ~IsWord(text[i])
         /\ strip(text) = SubSeq(text, a, b)
  BY StripIs
<1> DEFINE s == SubSeq(text, a, b)
<1>2. s \in Seq(T) /\ Len(s) = b - a + 1 /\ \A i \in 1..b - a + 1 : s[i] = text[a + i - 1]
  <2>1. a \in Int /\ b \in Int /\ a <= b /\ \A i \in a..b : text[i] \in T
    BY <1>0, <1>1
  <2> QED
    BY <2>1, SubSeqProperties
<1>3. strip(text) = s
  BY <1>1
<1> DEFINE lead == SubSeq(text, 1, a - 1)
           trail == SubSeq(text, b + 1, Len(text))
           onward == SubSeq(text, a, Len(text))
<1>4. /\ lead \in Seq(T) /\ \A i \in 1..Len(lead) : ~IsWord(lead[i])
  <2>1. /\ a - 1 \in Int /\ 1 \in Int
        /\ \A i \in 1..a - 1 : i \in 1..Len(text) /\ i < a
    BY <1>0
  <2>2. /\ lead \in Seq(T) /\ Len(lead) = IF 1 <= a - 1 THEN (a - 1) - 1 + 1 ELSE 0
        /\ \A i \in 1..(a - 1) - 1 + 1 : lead[i] = text[1 + i - 1]
    BY ONLY <1>0, <2>1, SubSeqProperties
  <2>3. ASSUME NEW i \in 1..Len(lead) PROVE i \in 1..(a - 1) - 1 + 1 /\ 1 + i - 1 = i /\ i \in 1..a - 1
    BY <2>2
  <2> QED
    BY <1>1, <2>1, <2>2, <2>3
<1>5. /\ trail \in Seq(T) /\ \A i \in 1..Len(trail) : ~IsWord(trail[i])
  <2>1. /\ b + 1 \in Int /\ Len(text) \in Int
        /\ \A i \in b + 1..Len(text) : i \in 1..Len(text) /\ b < i
    BY <1>0
  <2>2. /\ trail \in Seq(T) /\ Len(trail) = IF b + 1 <= Len(text) THEN Len(text) - (b + 1) + 1 ELSE 0
        /\ \A i \in 1..Len(text) - (b + 1) + 1 : trail[i] = text[(b + 1) + i - 1]
    BY ONLY <1>0, <2>1, SubSeqProperties
  <2>3. ASSUME NEW i \in 1..Len(trail)
        PROVE  i \in 1..Len(text) - (b + 1) + 1 /\ (b + 1) + i - 1 \in b + 1..Len(text)
    BY <1>0, <2>2
  <2> QED
    BY <1>1, <2>1, <2>2, <2>3
<1>6. onward \in Seq(T)
  <2>1. a \in Int /\ Len(text) \in Int /\ \A i \in a..Len(text) : text[i] \in T
    BY <1>0
  <2> QED
    BY <2>1, SubSeqProperties
<1>7. text = lead \o onward /\ onward = s \o trail
  <2>1. SubSeq(text, 1, a - 1) \o SubSeq(text, (a - 1) + 1, Len(text)) = SubSeq(text, 1, Len(text))
    <3>1. 1 \in 1..Len(text) + 1 /\ a - 1 \in 1 - 1..Len(text) /\ Len(text) \in a - 1..Len(text)
      BY <1>0
    <3> QED
      BY <3>1, ConcatAdjacentSubSeq
  <2>2. SubSeq(text, a, b) \o SubSeq(text, b + 1, Len(text)) = SubSeq(text, a, Len(text))
    <3>1. a \in 1..Len(text) + 1 /\ b \in a - 1..Len(text) /\ Len(text) \in b..Len(text)
      BY <1>0, <1>1
    <3> QED
      BY <3>1, ConcatAdjacentSubSeq
  <2>3. SubSeq(text, 1, Len(text)) = text /\ (a - 1) + 1 = a
    BY SubSeqFull
  <2> QED
    BY <2>1, <2>2, <2>3
<1>8. s # <<>> /\ Len(s) \in Nat /\ Len(s) >= 1 /\ s[1] = text[a]
  <2>1. a \in Int /\ b \in Int /\ a <= b
    BY <1>0, <1>1
  <2>2. Len(s) \in Nat /\ Len(s) >= 1 /\ 1 \in 1..b - a + 1 /\ a + 1 - 1 = a
    BY <1>2, <2>1
  <2>3. s # <<>>
    BY <2>2, EmptySeq
  <2> QED
    BY <1>2, <2>2, <2>3
<1>9. ASSUME Len(s) > 1 PROVE s[2] \in {Blank, Break}
  <2>1. 2 \in 1..b - a + 1 /\ a + 2 - 1 = a + 1 /\ a \in 1..Len(text) - 1 /\ a + 1 \in 1..Len(text)
    BY <1>0, <1>1, <1>2, <1>9
  <2>2. s[2] = text[a + 1]
    BY <1>2, <2>1
  <2>3. ~IsWord(text[a + 1]) /\ text[a + 1] \in {Blank, Break}
    BY <1>1, <2>1 DEF IsText
  <2> QED
    BY <2>2, <2>3
<1> HIDE DEF s, lead, trail, onward
<1> DEFINE e == FirstBlank(s)
           n == Len(s)
           rest == SubSeq(s, 2, n)
           args == words(SubSeq(s, e, n))
<1>10. /\ e >= 2 /\ e \in 1..n + 1 /\ (e <= n => s[e] = Blank)
       /\ \A i \in 1..n : s[i] = Blank => e <= i
       /\ parse(text) = IF e = 2 \/ s[1].at THEN Meaning(s[1].says, args) ELSE "none"
  <2>1. IsWord(s[1])
    BY <1>1, <1>8
  <2>2. /\ e >= 2
        /\ parse(text) = IF e = 2 \/ s[1].at
                         THEN Meaning(s[1].says, words(SubSeq(s, e + 1, n))) ELSE "none"
    BY <1>2, <1>3, <1>8, <2>1, HeadIs
  <2>3. /\ e \in 1..n + 1 /\ (e <= n => s[e] = Blank)
        /\ \A i \in 1..n : s[i] = Blank => e <= i
    BY <1>2, FirstBlankIs
  <2>4. args = words(SubSeq(s, e + 1, n))
    BY <1>2, <2>3, BlankIsNoWord
  <2> QED
    BY <2>2, <2>3, <2>4
<1>11. s[1] \in T /\ rest \in Seq(T) /\ s = << s[1] >> \o rest
  BY <1>2, <1>8, FirstAndRest
<1>12. args \in Seq(T) /\ AfterBlank(text) = args /\ \A i \in 1..Len(args) : IsWord(args[i])
  <2>1. SubSeq(s, e, n) \in Seq(T)
    BY <1>2, <1>10, BlankIsNoWord
  <2> QED
    BY <1>3, <2>1, WordsOfParts DEF AfterBlank
<1>13. RunsOn(text) <=> e # 2
  <2>1. n \in Nat /\ n >= 1
    BY <1>8
  <2>2. RunsOn(text) <=> n > 1 /\ s[2] = Break
    BY <1>3 DEF RunsOn
  <2>3. Break # Blank
    BY DEF Break, Blank
  <2>4. n > 1 => s[2] \in {Blank, Break}
    BY <1>9
  <2> HIDE DEF n, e
  <2>5. CASE n > 1
    <3>1. 2 \in 1..n
      BY <2>1, <2>5
    <3>2. s[2] = Blank => e = 2
      BY <1>10, <3>1
    <3>3. e = 2 => s[2] = Blank
      BY <1>10, <3>1
    <3> QED
      BY <2>2, <2>3, <2>4, <2>5, <3>2, <3>3
  <2>6. CASE n = 1
    BY <1>10, <2>2, <2>6
  <2> QED
    BY <2>1, <2>5, <2>6
<1> HIDE DEF args, rest, e, n
<1>14. ASSUME e = 2 PROVE words(s) = << s[1] >> \o args
  <2>1. << s[1] >> \in Seq(T) /\ IsWord(s[1])
    BY <1>1, <1>8, <1>11
  <2>2. words(<< s[1] >>) = << s[1] >>
    BY <1>11, <2>1, WordsOfParts
  <2>3. words(<< s[1] >> \o rest) = words(<< s[1] >>) \o words(rest)
    BY <1>11, <2>1, WordsOfParts
  <2>4. words(rest) = args
    BY <1>14 DEF rest, args
  <2> QED
    BY <1>11, <2>2, <2>3, <2>4
<1>15. words(text) = words(s)
  <2>1. words(lead) = <<>> /\ words(trail) = <<>>
    BY <1>4, <1>5, WordsOfParts
  <2>2. words(text) = words(lead) \o words(onward) /\ words(onward) = words(s) \o words(trail)
    <3>1. \A p, q \in Seq(T) : words(p \o q) = words(p) \o words(q)
      BY ONLY WordsOfParts
    <3> QED
      BY ONLY <1>2, <1>4, <1>5, <1>6, <1>7, <3>1
  <2>3. words(s) \in Seq(T) /\ words(onward) \in Seq(T)
    BY <1>2, <1>6, WordsOfParts
  <2>4. words(s) \o <<>> = words(s) /\ <<>> \o words(onward) = words(onward)
    BY <2>3, ConcatEmptySeq
  <2> QED
    BY <2>1, <2>2, <2>4
<1>16. IsWord(s[1])
  BY <1>1, <1>8
<1> QED
  BY <1>3, <1>10, <1>11, <1>12, <1>13, <1>14, <1>15, <1>16

\* What Suggested makes of the words, up to the last of them: its words are the same but
\* that the first carries no name, no two of them touch, and there is no line break.
LEMMA SuggestedIs ==
    ASSUME NEW T, NEW ws \in Seq(T), ws # <<>>, \A i \in 1..Len(ws) : IsWord(ws[i])
    PROVE  LET U == T \cup {Blank, Word(ws[1].says)}
               sug == FlattenSeq([i \in DOMAIN ws |->
                          IF i = 1 THEN << Word(ws[1].says) >> ELSE << Blank, ws[i] >>])
           IN  /\ sug \in Seq(U)
               /\ Len(sug) >= 1 /\ sug[1] = Word(ws[1].says)
               /\ \A i \in 1..Len(sug) : IsWord(sug[i]) \/ sug[i] = Blank
               /\ \A i \in 1..Len(sug) - 1 : ~(IsWord(sug[i]) /\ IsWord(sug[i + 1]))
               /\ words(sug) = << Word(ws[1].says) >> \o SubSeq(ws, 2, Len(ws))
<1> DEFINE first == Word(ws[1].says)
           U == T \cup {Blank, first}
           parts == [i \in DOMAIN ws |-> IF i = 1 THEN << first >> ELSE << Blank, ws[i] >>]
           sug == FlattenSeq(parts)
<1>0. /\ Len(ws) \in Nat /\ Len(ws) # 0 /\ DOMAIN ws = 1..Len(ws)
      /\ \A i \in 1..Len(ws) : ws[i] \in U
  BY LenProperties, EmptySeq, ElementOfSeq
<1>1. IsWord(first) /\ ~IsWord(Blank) /\ first \in U /\ Blank \in U
  BY DEF IsWord, Word, Blank
<1> HIDE DEF first, U
<1>2. \A i \in 1..Len(ws) : (IF i = 1 THEN << first >> ELSE << Blank, ws[i] >>) \in Seq(U)
  BY <1>0, <1>1
<1>3. /\ parts \in Seq(Seq(U)) /\ Len(parts) = Len(ws) /\ parts # <<>>
      /\ \A i \in 1..Len(ws) : parts[i] = IF i = 1 THEN << first >> ELSE << Blank, ws[i] >>
  <2>1. parts \in [1..Len(ws) -> Seq(U)] /\ DOMAIN parts = 1..Len(ws)
    BY <1>0, <1>2
  <2>2. parts \in Seq(Seq(U)) /\ Len(parts) = Len(ws)
    BY <1>0, <2>1, IsASeq, LenProperties
  <2>3. \A i \in 1..Len(ws) : parts[i] = IF i = 1 THEN << first >> ELSE << Blank, ws[i] >>
    BY <1>0
  <2> HIDE DEF parts
  <2> QED
    BY <1>0, <2>2, <2>3, EmptySeq
<1> HIDE DEF parts
<1>4. PICK f \in [1..Len(parts) -> Seq(U)] : Flat(f, parts) /\ FlattenSeq(parts) = f[Len(parts)]
  BY <1>3, FlattenUnfolded
<1> DEFINE Good(s, m) ==
             /\ s \in Seq(U)
             /\ Len(s) >= 1 /\ s[1] = first
             /\ \A i \in 1..Len(s) : IsWord(s[i]) \/ s[i] = Blank
             /\ \A i \in 1..Len(s) - 1 : ~(IsWord(s[i]) /\ IsWord(s[i + 1]))
             /\ words(s) = << first >> \o SubSeq(ws, 2, m)
           S == {m \in Nat : m + 1 <= Len(ws) => Good(f[m + 1], m + 1)}
<1>5. 0 \in S
  <2>1. f[1] = << first >>
    <3>1. 1 \in 1..Len(parts) /\ 1 \in 1..Len(ws)
      BY <1>0, <1>3
    <3>2. f[1] = parts[1] /\ parts[1] = << first >>
      BY <1>3, <1>4, <3>1 DEF Flat
    <3> QED
      BY <3>2
  <2>2. SubSeq(ws, 2, 1) = <<>>
    BY SubSeqEmpty
  <2>3. << first >> \in Seq(U) /\ words(<< first >>) = << first >>
    <3>1. words(<< first >>) = IF IsWord(first) THEN << first >> ELSE <<>>
      BY ONLY <1>1, WordsOfParts
    <3> QED
      BY <1>1, <3>1
  <2>4. << first >> \o <<>> = << first >>
    BY <2>3, ConcatEmptySeq
  <2>5. words(<< first >>) = << first >> \o SubSeq(ws, 2, 1)
    BY <2>2, <2>3, <2>4
  <2>6. Good(<< first >>, 1)
    BY <1>1, <2>3, <2>5
  <2> HIDE DEF Good
  <2> QED
    BY <2>1, <2>6
<1>6. ASSUME NEW m \in Nat, m \in S PROVE m + 1 \in S
  <2> SUFFICES ASSUME (m + 1) + 1 <= Len(ws) PROVE Good(f[(m + 1) + 1], (m + 1) + 1)
    OBVIOUS
  <2> DEFINE s == f[m + 1]
             k == (m + 1) + 1
             w == ws[k]
             more == << Blank, w >>
  <2>1. k \in 1..Len(ws) /\ k # 1 /\ k - 1 = m + 1 /\ m + 1 <= Len(ws)
    BY <1>0
  <2>2. Good(s, m + 1)
    BY <1>6, <2>1
  <2>3. f[k] = s \o more
    BY <1>3, <1>4, <2>1 DEF Flat
  <2>4. IsWord(w) /\ w \in U
    BY <1>0, <2>1
  <2>5. words(more) = << w >> /\ more \in Seq(U)
    <3>1. << Blank >> \in Seq(U) /\ << w >> \in Seq(U) /\ more = << Blank >> \o << w >>
      BY <1>1, <2>4
    <3>2. words(<< Blank >>) = <<>> /\ words(<< w >>) = << w >>
      BY <1>1, <2>4, WordsOfParts
    <3>3. words(<< Blank >> \o << w >>) = words(<< Blank >>) \o words(<< w >>)
      BY <3>1, WordsOfParts
    <3>4. <<>> \o << w >> = << w >>
      BY <3>1, ConcatEmptySeq
    <3>5. more \in Seq(U)
      BY <1>1, <2>4
    <3> HIDE DEF w, more
    <3> QED
      BY <3>1, <3>2, <3>3, <3>4, <3>5
  <2>6. Len(more) = 2 /\ more[1] = Blank /\ more[2] = w
    OBVIOUS
  <2>7. SubSeq(ws, 2, k) = SubSeq(ws, 2, m + 1) \o << w >> /\ SubSeq(ws, 2, m + 1) \in Seq(T)
    <3>1. 2 \in 1..Len(ws) /\ k \in 2..Len(ws) /\ 2 \in Int /\ m + 1 \in Int
          /\ \A i \in 2..m + 1 : ws[i] \in T
      <4>1. 2 \in 1..Len(ws) /\ k \in 2..Len(ws) /\ 2 \in Int /\ m + 1 \in Int
        BY <1>0, <2>1
      <4>2. \A i \in 2..m + 1 : i \in 1..Len(ws)
        BY <1>0, <2>1
      <4> QED
        BY <4>1, <4>2, ElementOfSeq
    <3>2. SubSeq(ws, 2, k) = SubSeq(ws, 2, k - 1) \o << ws[k] >>
      BY <3>1, SubSeqRecursiveSecond
    <3>3. SubSeq(ws, 2, m + 1) \in Seq(T)
      BY <3>1, SubSeqProperties
    <3> QED
      BY <2>1, <3>2, <3>3
  <2> HIDE DEF more, w, s
  <2>8. s \in Seq(U) /\ Len(s) \in Nat /\ Len(s) >= 1
    BY <2>2, LenProperties
  <2> DEFINE st == s \o more
  <2>9. /\ st \in Seq(U) /\ Len(st) = Len(s) + 2
        /\ \A i \in 1..Len(s) + 2 : st[i] = IF i <= Len(s) THEN s[i] ELSE more[i - Len(s)]
    <3>1. more \in Seq(U) /\ Len(more) = 2
      BY <2>5, <2>6
    <3>2. /\ s \o more \in Seq(U) /\ Len(s \o more) = Len(s) + Len(more)
          /\ \A i \in 1..Len(s) + Len(more) :
                (s \o more)[i] = IF i <= Len(s) THEN s[i] ELSE more[i - Len(s)]
      BY ONLY <2>8, <3>1, ConcatProperties
    <3> QED
      BY <3>1, <3>2
  <2> HIDE DEF st
  <2>10. /\ \A i \in 1..Len(s) : st[i] = s[i]
         /\ st[Len(s) + 1] = Blank
         /\ st[Len(s) + 2] = w
    <3>1. \A i \in 1..Len(s) : i \in 1..Len(s) + 2 /\ i <= Len(s)
      BY <2>8
    <3>2. /\ Len(s) + 1 \in 1..Len(s) + 2 /\ ~(Len(s) + 1 <= Len(s)) /\ (Len(s) + 1) - Len(s) = 1
          /\ Len(s) + 2 \in 1..Len(s) + 2 /\ ~(Len(s) + 2 <= Len(s)) /\ (Len(s) + 2) - Len(s) = 2
      BY <2>8
    <3>3. \A i \in 1..Len(s) : st[i] = s[i]
      BY <2>9, <3>1
    <3>4. st[Len(s) + 1] = more[1] /\ st[Len(s) + 2] = more[2]
      BY <2>9, <3>2
    <3> QED
      BY <2>6, <3>3, <3>4
  <2>11. ASSUME NEW i \in 1..Len(st) PROVE IsWord(st[i]) \/ st[i] = Blank
    <3>1. i \in 1..Len(s) \/ i = Len(s) + 1 \/ i = Len(s) + 2
      BY <2>8, <2>9
    <3> QED
      BY <2>2, <2>4, <2>10, <3>1
  <2>12. ASSUME NEW i \in 1..Len(st) - 1 PROVE ~(IsWord(st[i]) /\ IsWord(st[i + 1]))
    <3>1. CASE i \in 1..Len(s) - 1
      <4>1. i \in 1..Len(s) /\ i + 1 \in 1..Len(s)
        BY <2>8, <3>1
      <4> QED
        BY <2>2, <2>10, <3>1, <4>1
    <3>2. CASE i = Len(s)
      BY <1>1, <2>10, <3>2
    <3>3. CASE i = Len(s) + 1
      BY <1>1, <2>10, <3>3
    <3>4. i \in 1..Len(s) - 1 \/ i = Len(s) \/ i = Len(s) + 1
      BY <2>8, <2>9
    <3> QED
      BY <3>1, <3>2, <3>3, <3>4
  <2>13. words(st) = << first >> \o SubSeq(ws, 2, k)
    <3> DEFINE before == SubSeq(ws, 2, m + 1)
    <3>1. words(s \o more) = words(s) \o words(more)
      BY <2>5, <2>8, WordsOfParts
    <3>2. words(s) = << first >> \o before
      BY <2>2
    <3>3. << first >> \in Seq(U) /\ before \in Seq(U) /\ << w >> \in Seq(U)
      BY <1>1, <2>4, <2>7, SeqMonotonic DEF U
    <3>4. SubSeq(ws, 2, k) = before \o << w >>
      BY <2>7
    <3> HIDE DEF before, k
    <3>5. (<< first >> \o before) \o << w >> = << first >> \o (before \o << w >>)
      BY <3>3, ConcatAssociative
    <3> QED
      BY <2>5, <3>1, <3>2, <3>4, <3>5 DEF st
  <2>14. Len(st) >= 1 /\ st[1] = first
    BY <2>2, <2>8, <2>9, <2>10
  <2>15. Good(st, k)
    BY <2>9, <2>11, <2>12, <2>13, <2>14
  <2> HIDE DEF Good
  <2> QED
    BY <2>3, <2>15 DEF st
<1> HIDE DEF S
<1>7. Len(ws) - 1 \in S /\ (Len(ws) - 1) + 1 = Len(ws)
  <2>1. Len(ws) - 1 \in Nat
    BY <1>0
  <2>2. \A m \in Nat : m \in S
    BY <1>5, <1>6, NatInd
  <2> QED
    BY <1>0, <2>1, <2>2
<1> HIDE DEF Good
<1>8. Good(f[Len(ws)], Len(ws))
  BY <1>0, <1>7 DEF S
<1>9. Good(sug, Len(ws))
  BY <1>3, <1>4, <1>8
<1> HIDE DEF sug
<1> QED
  BY <1>9 DEF Good, sug, parts, U, first

\* A suggestion means what its words say.
LEMMA SuggestedMeans ==
    ASSUME NEW T, NEW w \in T, IsWord(w), NEW rest \in Seq(T),
           \A i \in 1..Len(rest) : IsWord(rest[i])
    PROVE  parse(Suggested(<< w >> \o rest)) = Meaning(w.says, rest)
<1> DEFINE ws == << w >> \o rest
           first == Word(ws[1].says)
           U == T \cup {Blank, first}
           sug == Suggested(ws)
<1>1. << w >> \in Seq(T) /\ Len(<< w >>) = 1 /\ << w >>[1] = w /\ Len(rest) \in Nat
  BY LenProperties
<1>2. /\ ws \in Seq(T) /\ Len(ws) = 1 + Len(rest)
      /\ \A i \in 1..1 + Len(rest) : ws[i] = IF i <= 1 THEN << w >>[i] ELSE rest[i - 1]
  BY <1>1, ConcatProperties
<1> HIDE DEF ws
<1>3. ws # <<>> /\ ws[1] = w
  BY <1>1, <1>2, EmptySeq
<1>4. ASSUME NEW i \in 1..Len(ws) PROVE IsWord(ws[i])
  <2>1. CASE i = 1
    BY <1>3, <2>1
  <2>2. CASE i # 1
    <3>1. i \in 1..1 + Len(rest) /\ ~(i <= 1) /\ i - 1 \in 1..Len(rest)
      BY <1>1, <1>2, <2>2
    <3> QED
      BY <1>2, <3>1
  <2> QED
    BY <2>1, <2>2
<1>5. SubSeq(ws, 2, Len(ws)) = rest
  <2> DEFINE tail == SubSeq(ws, 2, Len(ws))
             one == ws[1]
  <2>1. one \in T /\ tail \in Seq(T) /\ ws = << one >> \o tail
    BY <1>2, <1>3, FirstAndRest
  <2> HIDE DEF tail, one
  <2>2. << w >> \o rest = << one >> \o tail
    BY <2>1 DEF ws
  <2>3. rest = tail
    BY <2>1, <2>2, SameFirstAndRest
  <2> QED
    BY <2>3 DEF tail
<1>6. /\ sug \in Seq(U)
      /\ Len(sug) >= 1 /\ sug[1] = first
      /\ \A i \in 1..Len(sug) : IsWord(sug[i]) \/ sug[i] = Blank
      /\ \A i \in 1..Len(sug) - 1 : ~(IsWord(sug[i]) /\ IsWord(sug[i + 1]))
      /\ words(sug) = << first >> \o rest
  <2>1. sug = FlattenSeq([i \in DOMAIN ws |->
                 IF i = 1 THEN << Word(ws[1].says) >> ELSE << Blank, ws[i] >>])
    BY DEF Suggested
  <2> HIDE DEF sug
  <2> QED
    BY ONLY <1>2, <1>3, <1>4, <1>5, <2>1, SuggestedIs DEF first, U
<1> HIDE DEF sug, first, U
<1>7. IsWord(first) /\ first.says = w.says /\ ~first.at /\ first \in U /\ rest \in Seq(U)
  BY <1>3, SeqMonotonic DEF first, Word, IsWord, U
<1>8. IsText(sug)
  <2>1. sug \in Seq(ToSet(sug))
    BY <1>6, LenProperties, IsASeq DEF ToSet
  <2> QED
    BY <1>6, <2>1 DEF IsText
<1>9. 1 \in 1..Len(sug) /\ IsWord(sug[1])
  BY <1>6, <1>7, LenProperties
<1>10. ~RunsOn(sug)
  <2>1. PICK a, b \in 1..Len(sug) : a <= b /\ strip(sug) = SubSeq(sug, a, b)
    BY <1>6, <1>9, StripIs
  <2>2. \A i \in a..b : i \in 1..Len(sug)
    BY <1>6, LenProperties
  <2>3. \A i \in a..b : sug[i] \in U
    BY <1>6, <2>2, ElementOfSeq
  <2>4. /\ Len(strip(sug)) = b - a + 1
        /\ \A i \in 1..b - a + 1 : strip(sug)[i] = sug[a + i - 1]
    <3>1. a \in Int /\ b \in Int
      OBVIOUS
    <3> QED
      BY <2>1, <2>3, <3>1, SubSeqProperties
  <2>5. ASSUME Len(strip(sug)) > 1 PROVE strip(sug)[2] # Break
    <3>1. 2 \in 1..b - a + 1 /\ a + 2 - 1 \in a..b
      BY <2>1, <2>4, <2>5
    <3>2. IsWord(strip(sug)[2]) \/ strip(sug)[2] = Blank
      BY <1>6, <2>2, <2>4, <3>1
    <3> QED
      BY <3>2 DEF IsWord, Blank, Break
  <2> QED
    BY <2>5 DEF RunsOn
<1> DEFINE v == strip(sug)[1]
           others == AfterBlank(sug)
<1>11. /\ v \in U /\ others \in Seq(U)
       /\ parse(sug) = Meaning(v.says, others)
       /\ words(sug) = << v >> \o others
  BY <1>6, <1>8, <1>9, <1>10, ParseIs
<1> HIDE DEF v, others
<1>12. v = first /\ others = rest
  <2>1. << v >> \o others = << first >> \o rest
    BY <1>6, <1>11
  <2> QED
    BY <1>7, <1>11, <2>1, SameFirstAndRest
<1> QED
  BY <1>7, <1>11, <1>12 DEF sug, ws

LEMMA CommandIs ==
    ASSUME NEW text, IsText(text)
    PROVE  LET first == strip(text)[1]
           IN  /\ ~RunsOn(text) => parse(text) = parse(Suggested(words(text)))
               /\ RunsOn(text) /\ first.at =>
                     parse(text) = parse(Suggested(<< first >> \o AfterBlank(text)))
               /\ RunsOn(text) /\ ~first.at => parse(text) = "none"
<1> DEFINE T == ToSet(text)
           ws == words(text)
<1>1. text \in Seq(T)
  BY DEF IsText
<1> HIDE DEF T
<1>2. CASE \A i \in 1..Len(text) : ~IsWord(text[i])
  <2>1. ws = <<>>
    BY <1>1, <1>2, WordsOfParts
  <2>2. Suggested(<<>>) = <<>>
    <3>1. [i \in DOMAIN <<>> |-> IF i = 1 THEN << Word(<<>>[1].says) >> ELSE << Blank, <<>>[i] >>]
             = <<>>
      OBVIOUS
    <3>2. FlattenSeq(<<>>) = <<>>
      BY DEF FlattenSeq
    <3> QED
      BY <3>1, <3>2 DEF Suggested
  <2>3. strip(text) = <<>> /\ strip(<<>>) = <<>>
    BY <1>2, NothingToStrip
  <2>4. ~RunsOn(text)
    BY <2>3 DEF RunsOn
  <2>5. parse(text) = "none" /\ parse(<<>>) = "none"
    BY <2>3 DEF parse
  <2> QED
    BY <2>1, <2>2, <2>4, <2>5
<1>3. ASSUME NEW k \in 1..Len(text), IsWord(text[k])
      PROVE  LET first == strip(text)[1]
             IN  /\ ~RunsOn(text) => parse(text) = parse(Suggested(ws))
                 /\ RunsOn(text) /\ first.at =>
                       parse(text) = parse(Suggested(<< first >> \o AfterBlank(text)))
                 /\ RunsOn(text) /\ ~first.at => parse(text) = "none"
  <2> DEFINE w == strip(text)[1]
             rest == AfterBlank(text)
  <2>1. /\ w \in T /\ IsWord(w) /\ rest \in Seq(T)
        /\ parse(text) = IF RunsOn(text) /\ ~w.at THEN "none" ELSE Meaning(w.says, rest)
        /\ ~RunsOn(text) => ws = << w >> \o rest
        /\ \A i \in 1..Len(rest) : IsWord(rest[i])
    BY <1>1, <1>3, ParseIs
  <2> HIDE DEF w, rest
  <2>2. parse(Suggested(<< w >> \o rest)) = Meaning(w.says, rest)
    BY <2>1, SuggestedMeans
  <2> QED
    BY <2>1, <2>2 DEF w, rest
<1> QED
  BY <1>2, <1>3

\* "A service that can only suggest a message is relying on this parser to accept exactly
\* what it suggested" (link_commands.py:11-14): which command a text of any length and
\* with any white space is, its spelling with a break after the first word included.
THEOREM CommandsOfTextsHolds == ServerSpec => []CommandsOfTexts
<1>1. CommandsAre(Texts)
  BY CommandIs, TextsAssumption DEF CommandsAre
<1>2. CommandsOfTexts
  BY <1>1 DEF CommandsOfTexts
<1> QED
  BY <1>2, PTL
=============================================================================
