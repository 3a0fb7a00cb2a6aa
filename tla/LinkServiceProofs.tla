-------------------------- MODULE LinkServiceProofs --------------------------
(***************************************************************************)
(* What holds of LinkService for every number of people, services and      *)
(* requests, with or without overlap, and what holds only while a person   *)
(* has one request in progress at a time.                                  *)
(***************************************************************************)
EXTENDS LinkService, WellFoundedInduction, TLAPS

-----------------------------------------------------------------------------
(* Types.                                                                  *)

Row == [Services -> Token \cup {None}]

\* The phases of LinkService and those ChatService adds.
AnyPhase == {"idle", "running", "redeeming", "issued", "revoking", "revoked", "reply", "failed",
             "dead", "resolving", "approved", "stored", "done"}

\* The types of the data, wherever requests are.
DataOK ==
    /\ pc \in [Turns -> AnyPhase]
    /\ caller \in [Turns -> Users \cup {None}]
    /\ links \in [Users -> Row]
    /\ creds \in [Turns -> Row]
    /\ todo \in [Turns -> SUBSET Services]
    /\ kept \in [Turns -> SUBSET Services]
    /\ answer \in [Turns -> Answers]
    /\ live \subseteq Token
    /\ asked \subseteq Token \cup {None}
    /\ crashes \in Nat

\* What they need to be inductive: a provider is awaited for somebody, and a
\* logout that awaits one has a service left.
TypeInv ==
    /\ DataOK
    /\ \A t \in Turns : pc[t] \in LinkWaits => caller[t] \in Users
    /\ \A t \in Turns : pc[t] \in {"revoking", "revoked"} => todo[t] # {}

USE DEF Goto, Row, AnyPhase

\* A request comes in, as a link command or as a chat turn.
Comes(t, u) == (\E command : Tell(t, u, command)) \/ Redeem(t, u) \/ Logout(t, u) \/ Chat(t, u)

\* Services that are left have a first one.
LEMMA CurrentIsLeft ==
    ASSUME NEW S \in SUBSET Services, S # {}
    PROVE  Current(S) \in S
<1> DEFINE Less == OpToRel(<, Nat)
<1>1. S \subseteq Nat
  BY LinkAssumption
<1>2. IsWellFoundedOn(Less, Nat)
  BY NatLessThanWellFounded
<1>3. \A x, y \in Nat : x < y => <<x, y>> \in Less
  BY DEF OpToRel
<1> HIDE DEF Less
<1>4. PICK s \in S : \A o \in S : <<o, s>> \notin Less
  BY <1>1, <1>2, WFMin
<1>5. ASSUME NEW o \in S PROVE s <= o
  <2>1. o \in Nat /\ s \in Nat
    BY <1>1
  <2>2. ~(o < s)
    BY <1>3, <1>4, <2>1
  <2> QED
    BY <2>1, <2>2
<1> QED
  BY <1>5 DEF Current

\* A person's rows are tokens or nothing.
LEMMA RowsType ==
    ASSUME DataOK, NEW u \in Users \cup {None}
    PROVE  Rows(u) \in Row
BY DEF DataOK, Rows, NoLinks, Row

LEMMA LinkTypeInit == LinkInit => TypeInv
<1> SUFFICES ASSUME LinkInit PROVE TypeInv
  OBVIOUS
<1>1. links \in [Users -> Row] /\ NoLinks \in Row
  BY DEF LinkInit, Row, NoLinks
<1>2. ASSUME NEW u \in Users, NEW s \in Services PROVE links[u][s] \in Token \cup {None}
  BY <1>1 DEF Row
<1>3. live \subseteq Token
  BY <1>2 DEF LinkInit
<1> QED
  BY <1>1, <1>3 DEF LinkInit, TypeInv, DataOK, LinkPhases, Answers, Row, LinkWaits

\* One turn of the logout loop.
LEMMA RevokeNextType ==
    ASSUME TypeInv, NEW t \in Turns, NEW u \in Users, NEW rows \in Row,
           NEW left \in SUBSET Services, NEW failed \in SUBSET Services,
           RevokeNext(t, u, rows, left, failed)
    PROVE  /\ pc' \in [Turns -> AnyPhase]
           /\ links' \in [Users -> Row]
           /\ todo' \in [Turns -> SUBSET Services]
           /\ kept' \in [Turns -> SUBSET Services]
           /\ answer' \in [Turns -> Answers]
           /\ asked' \subseteq Token \cup {None}
           /\ \A o \in Turns \ {t} : pc'[o] = pc[o] /\ todo'[o] = todo[o]
           /\ pc'[t] \in {"revoking", "reply"}
           /\ pc'[t] = "revoking" => todo'[t] # {}
<1> USE DEF TypeInv, DataOK
<1>1. /\ todo' = [todo EXCEPT ![t] = left]
      /\ kept' = [kept EXCEPT ![t] = failed]
  BY DEF RevokeNext
<1>2. CASE left # {}
  <2>1. /\ asked' = asked \cup {rows[Current(left)]}
        /\ pc' = [pc EXCEPT ![t] = "revoking"]
        /\ UNCHANGED <<links, answer>>
    BY <1>2 DEF RevokeNext
  <2>2. rows[Current(left)] \in Token \cup {None}
    BY <1>2, CurrentIsLeft DEF Row
  <2> QED
    BY <1>1, <1>2, <2>1, <2>2 DEF LinkPhases, LinkWaits, Row
<1>3. CASE left = {}
  <2>1. /\ links' = [links EXCEPT ![u] = NoLinks]
        /\ pc' = [pc EXCEPT ![t] = "reply"]
        /\ answer' = [answer EXCEPT ![t] = IF failed = {} THEN "disconnected" ELSE "kept"]
        /\ UNCHANGED asked
    BY <1>3 DEF RevokeNext, Reply, delete_all
  <2>2. NoLinks \in Row
    BY DEF NoLinks, Row
  <2> QED
    BY <1>1, <2>1, <2>2 DEF LinkPhases, Ended, Answers, Row
<1> QED
  BY <1>2, <1>3

\* A request comes in.
LEMMA ReceiveType ==
    ASSUME TypeInv, NEW t \in Turns, NEW u \in Users \cup {None}, pc[t] = "idle", Comes(t, u)
    PROVE  TypeInv'
<1> USE DEF TypeInv, DataOK
<1>2. ASSUME NEW command, Tell(t, u, command) PROVE TypeInv'
  BY <1>2 DEF Tell, Reply, LinkPhases, LinkWaits, Ended, Answers
<1>3. ASSUME Redeem(t, u) PROVE TypeInv'
  BY <1>3 DEF Redeem, LinkPhases, LinkWaits
<1>4. ASSUME Logout(t, u) PROVE TypeInv'
  <2>1. Rows(u) \in Row /\ u \in Users
    BY <1>4, RowsType DEF Logout
  <2>2. ToRevoke(Linked(Rows(u))) \in SUBSET Services /\ Linked(Rows(u)) \ Providers \in SUBSET Services
    BY DEF ToRevoke, Linked
  <2>3. RevokeNext(t, u, Rows(u), ToRevoke(Linked(Rows(u))), Linked(Rows(u)) \ Providers)
    BY <1>4 DEF Logout
  <2>4. /\ caller' = [caller EXCEPT ![t] = u]
        /\ creds' = [creds EXCEPT ![t] = Rows(u)]
        /\ UNCHANGED <<live, crashes>>
    BY <1>4 DEF Logout
  <2>5. caller' \in [Turns -> Users \cup {None}] /\ creds' \in [Turns -> Row]
    BY <2>1, <2>4 DEF Row
  <2> HIDE DEF TypeInv, DataOK
  <2>6. /\ pc' \in [Turns -> AnyPhase]
        /\ links' \in [Users -> Row]
        /\ todo' \in [Turns -> SUBSET Services]
        /\ kept' \in [Turns -> SUBSET Services]
        /\ answer' \in [Turns -> Answers]
        /\ asked' \subseteq Token \cup {None}
        /\ \A o \in Turns \ {t} : pc'[o] = pc[o] /\ todo'[o] = todo[o]
        /\ pc'[t] \in {"revoking", "reply"}
        /\ pc'[t] = "revoking" => todo'[t] # {}
    BY <2>1, <2>2, <2>3, RevokeNextType
  <2>7. DataOK'
    BY <2>4, <2>5, <2>6 DEF TypeInv, DataOK, Row
  <2> QED
    BY <2>1, <2>4, <2>6, <2>7 DEF TypeInv, DataOK
<1>5. ASSUME Chat(t, u) PROVE TypeInv'
  <2>1. Rows(u) \in Row
    BY RowsType
  <2> QED
    BY <1>5, <2>1 DEF Chat, ReadCredentials, LinkPhases, LinkWaits, Row
<1> QED
  BY <1>2, <1>3, <1>4, <1>5 DEF Comes

\* A logout goes on with what it has left, after this service or without it.
LEMMA LogoutGoesOnType ==
    ASSUME TypeInv, NEW t \in Turns, RevokeReturns(t) \/ RevokeRefused(t)
    PROVE  TypeInv'
<1> USE DEF TypeInv, DataOK
<1>1. caller[t] \in Users /\ creds[t] \in Row /\ todo[t] # {}
  BY DEF RevokeReturns, RevokeRefused, LinkWaits, Row
<1>2. Current(todo[t]) \in Services
  BY <1>1, CurrentIsLeft
<1>3. Later(todo[t]) \in SUBSET Services /\ Keep(kept[t], Current(todo[t])) \in SUBSET Services
  BY <1>2 DEF Later, Keep
<1>4. \E failed \in SUBSET Services :
        RevokeNext(t, caller[t], creds[t], Later(todo[t]), failed)
  BY <1>3 DEF RevokeReturns, RevokeRefused
<1>5. UNCHANGED <<caller, creds, live, crashes>>
  BY DEF RevokeReturns, RevokeRefused
<1> HIDE DEF TypeInv, DataOK
<1>6. /\ pc' \in [Turns -> AnyPhase]
      /\ links' \in [Users -> Row]
      /\ todo' \in [Turns -> SUBSET Services]
      /\ kept' \in [Turns -> SUBSET Services]
      /\ answer' \in [Turns -> Answers]
      /\ asked' \subseteq Token \cup {None}
      /\ \A o \in Turns \ {t} : pc'[o] = pc[o] /\ todo'[o] = todo[o]
      /\ pc'[t] \in {"revoking", "reply"}
      /\ pc'[t] = "revoking" => todo'[t] # {}
  BY <1>1, <1>3, <1>4, RevokeNextType
<1>7. DataOK'
  BY <1>5, <1>6 DEF TypeInv, DataOK, Row
<1> QED
  BY <1>1, <1>5, <1>6, <1>7 DEF TypeInv, DataOK

\* Providers, turns and the loop.
LEMMA ProceedType ==
    ASSUME TypeInv, NEW t \in Turns, Proceed(t)
    PROVE  TypeInv'
<1> USE DEF TypeInv, DataOK
<1>1. CASE RedeemIssues(t)
  <2>1. caller[t] \in Users /\ pc' = [pc EXCEPT ![t] = "issued"]
        /\ UNCHANGED <<caller, links, creds, todo, kept, answer, asked, crashes>>
    BY <1>1 DEF RedeemIssues, LinkWaits
  <2>2. PICK s \in Sole : \E dropped : live' = (live \ dropped) \cup {TokenOf(caller[t], s, t)}
    BY <1>1 DEF RedeemIssues
  <2>3. TokenOf(caller[t], s, t) \in Token
    BY <2>1, LinkAssumption DEF TokenOf, Token, Sole
  <2>4. live' \subseteq Token
    BY <2>2, <2>3
  <2> QED
    BY <2>1, <2>4 DEF LinkPhases, LinkWaits
<1>2. CASE RedeemReturns(t)
  <2>1. caller[t] \in Users /\ pc' = [pc EXCEPT ![t] = "reply"]
        /\ answer' = [answer EXCEPT ![t] = "linked"]
        /\ UNCHANGED <<caller, creds, todo, kept, live, asked, crashes>>
    BY <1>2 DEF RedeemReturns, LinkWaits, Reply
  <2>2. PICK s \in Sole : links' = put(caller[t], s, TokenOf(caller[t], s, t))
    BY <1>2 DEF RedeemReturns
  <2>3. TokenOf(caller[t], s, t) \in Token
    BY <2>1, LinkAssumption DEF TokenOf, Token, Sole
  <2>4. links' \in [Users -> [Services -> Token \cup {None}]]
    BY <2>2, <2>3 DEF put
  <2> QED
    BY <2>1, <2>4 DEF LinkPhases, LinkWaits, Ended, Answers
<1>3. CASE RedeemRefused(t)
  BY <1>3 DEF RedeemRefused, Reply, LinkPhases, LinkWaits, Ended, Answers
<1>4. CASE RevokeTakesEffect(t)
  BY <1>4 DEF RevokeTakesEffect, LinkPhases, LinkWaits
<1>5. CASE RevokeReturns(t) \/ RevokeRefused(t)
  BY <1>5, LogoutGoesOnType
<1>6. CASE ProviderBreaks(t)
  BY <1>6 DEF ProviderBreaks, LinkPhases, LinkWaits, Ended
<1>7. CASE ChatEnds(t)
  BY <1>7 DEF ChatEnds, Reply, LinkPhases, LinkWaits, Ended, Answers
<1> QED
  BY <1>1, <1>2, <1>3, <1>4, <1>5, <1>6, <1>7 DEF Proceed

LEMMA ReceiveComes ==
    ASSUME NEW t \in Turns, NEW u \in Callers, Receive(t, u)
    PROVE  u \in Users \cup {None} /\ pc[t] = "idle" /\ Comes(t, u)
BY LinkAssumption DEF Receive, MayArrive, Comes

LEMMA LinkTypeNext == TypeInv /\ [LinkNext]_linkVars => TypeInv'
<1> SUFFICES ASSUME TypeInv, [LinkNext]_linkVars PROVE TypeInv'
  OBVIOUS
<1> USE DEF TypeInv, DataOK
<1>1. ASSUME NEW t \in Turns, NEW s \in Services, Forget(t, s) PROVE TypeInv'
  BY <1>1 DEF Forget, delete
<1>2. ASSUME NEW k \in live, RevokedElsewhere(k) PROVE TypeInv'
  BY <1>2 DEF RevokedElsewhere
<1>3. ASSUME Crash PROVE TypeInv'
  BY <1>3, LinkAssumption DEF Crash, LinkPhases, LinkWaits, Ended
<1>4. ASSUME UNCHANGED linkVars PROVE TypeInv'
  BY <1>4 DEF linkVars
<1> QED
  BY <1>1, <1>2, <1>3, <1>4, ReceiveComes, ReceiveType, ProceedType DEF LinkNext, AtRest

PhasesOK == pc \in [Turns -> LinkPhases]

LEMMA PhasesNext == PhasesOK /\ [LinkNext]_linkVars => PhasesOK'
<1> SUFFICES ASSUME PhasesOK, [LinkNext]_linkVars
             PROVE  pc' \in [Turns -> LinkPhases]
  BY DEF PhasesOK
<1> USE DEF PhasesOK, LinkPhases, LinkWaits, Ended
<1>1. ASSUME NEW t \in Turns, NEW u, NEW rows, NEW left, NEW failed,
             RevokeNext(t, u, rows, left, failed)
      PROVE  pc' \in [Turns -> LinkPhases]
  BY <1>1 DEF RevokeNext, Reply
<1>2. ASSUME NEW t \in Turns, NEW u \in Callers, Receive(t, u)
      PROVE  pc' \in [Turns -> LinkPhases]
  BY <1>1, <1>2 DEF Receive, Tell, Redeem, Logout, Chat, Reply
<1>3. ASSUME NEW t \in Turns, Proceed(t) PROVE pc' \in [Turns -> LinkPhases]
  <2>1. CASE RevokeReturns(t) \/ RevokeRefused(t)
    BY <1>1, <2>1 DEF RevokeReturns, RevokeRefused
  <2> QED
    BY <1>3, <2>1 DEF Proceed, RedeemIssues, RedeemReturns, RedeemRefused, RevokeTakesEffect,
                      ProviderBreaks, ChatEnds, Reply
<1>4. ASSUME Crash PROVE pc' \in [Turns -> LinkPhases]
  BY <1>4 DEF Crash
<1> QED
  BY <1>2, <1>3, <1>4 DEF LinkNext, Forget, RevokedElsewhere, AtRest, linkVars

\* Every variable keeps its type, for any number of people and services.
THEOREM LinkTypeCorrect == LinkSpec => []LinkTypeOK
<1>1. LinkSpec => []TypeInv
  BY LinkTypeInit, LinkTypeNext, PTL DEF LinkSpec
<1>2. LinkInit => PhasesOK
  BY DEF LinkInit, PhasesOK, LinkPhases
<1>3. TypeInv /\ PhasesOK => LinkTypeOK
  BY DEF TypeInv, DataOK, PhasesOK, LinkTypeOK
<1> QED
  BY <1>1, <1>2, <1>3, PhasesNext, PTL DEF LinkSpec

-----------------------------------------------------------------------------
(* Whose credentials a request holds.                                      *)

\* What every step does to pc, rows, credentials and live tokens: requests
\* only move on; a new row holds a token its request has just been given;
\* credentials are read for the caller; only a redeem under way makes a token.
Forward == \A o \in Turns :
    pc[o] \notin {"idle", "redeeming"} => pc'[o] \notin {"idle", "redeeming"}

RowsFrom == \A u \in Users, s \in Services :
    \/ links'[u][s] \in {None, links[u][s]}
    \/ \E t \in Turns : links'[u][s] = TokenOf(u, s, t) /\ pc'[t] = "reply"

ReadsOwn == \A t \in Turns :
    \/ creds'[t] = creds[t] /\ (caller'[t] = caller[t] \/ pc[t] = "idle")
    \/ creds'[t] = Rows(caller'[t]) /\ caller'[t] \in Users \cup {None}

IdleKept == \A t \in Turns : pc'[t] = "idle" => pc[t] = "idle" /\ creds'[t] = creds[t]

MintsOnly == \A k \in live' : k \in live \/ \E t \in Turns : k.by = t /\ pc[t] = "redeeming"

StepFacts == Forward /\ RowsFrom /\ ReadsOwn /\ IdleKept /\ MintsOnly

LEMMA RevokeNextFacts ==
    ASSUME TypeInv, NEW t \in Turns, NEW u \in Users, NEW rows, NEW left, NEW failed,
           pc[t] # "redeeming", RevokeNext(t, u, rows, left, failed)
    PROVE  Forward /\ RowsFrom /\ pc'[t] # "idle" /\ \A o \in Turns \ {t} : pc'[o] = pc[o]
<1> USE DEF TypeInv, DataOK
<1>1. CASE left # {}
  BY <1>1 DEF RevokeNext, Forward, RowsFrom
<1>2. CASE left = {}
  <2>1. /\ links' = [links EXCEPT ![u] = NoLinks]
        /\ pc' = [pc EXCEPT ![t] = "reply"]
    BY <1>2 DEF RevokeNext, Reply, delete_all
  <2>2. RowsFrom
    BY <2>1 DEF RowsFrom, NoLinks
  <2> QED
    BY <2>1, <2>2 DEF Forward
<1> QED
  BY <1>1, <1>2

LEMMA ReceiveFacts ==
    ASSUME TypeInv, NEW t \in Turns, NEW u \in Users \cup {None}, pc[t] = "idle", Comes(t, u)
    PROVE  StepFacts
<1> USE DEF TypeInv, DataOK, StepFacts
<1>2. ASSUME NEW command, Tell(t, u, command) PROVE StepFacts
  BY <1>2 DEF Tell, Reply, Forward, RowsFrom, ReadsOwn, IdleKept, MintsOnly
<1>3. ASSUME Redeem(t, u) PROVE StepFacts
  BY <1>3 DEF Redeem, Forward, RowsFrom, ReadsOwn, IdleKept, MintsOnly
<1>4. ASSUME Logout(t, u) PROVE StepFacts
  <2>1. /\ u \in Users
        /\ caller' = [caller EXCEPT ![t] = u]
        /\ creds' = [creds EXCEPT ![t] = Rows(u)]
        /\ live' = live
    BY <1>4 DEF Logout
  <2>2. Forward /\ RowsFrom /\ pc'[t] # "idle" /\ \A o \in Turns \ {t} : pc'[o] = pc[o]
    BY <1>4, <2>1, RevokeNextFacts DEF Logout
  <2> QED
    BY <2>1, <2>2 DEF ReadsOwn, IdleKept, MintsOnly
<1>5. ASSUME Chat(t, u) PROVE StepFacts
  BY <1>5 DEF Chat, ReadCredentials, Forward, RowsFrom, ReadsOwn, IdleKept, MintsOnly
<1> QED
  BY <1>2, <1>3, <1>4, <1>5 DEF Comes

LEMMA ProceedFacts ==
    ASSUME TypeInv, NEW t \in Turns, Proceed(t)
    PROVE  StepFacts
<1> USE DEF TypeInv, DataOK, StepFacts
<1>1. CASE RedeemIssues(t)
  <2>1. PICK s \in Sole : \E dropped : live' = (live \ dropped) \cup {TokenOf(caller[t], s, t)}
    BY <1>1 DEF RedeemIssues
  <2>2. TokenOf(caller[t], s, t).by = t
    BY DEF TokenOf
  <2>3. MintsOnly
    BY <1>1, <2>1, <2>2 DEF MintsOnly, RedeemIssues
  <2> QED
    BY <1>1, <2>3 DEF RedeemIssues, Forward, RowsFrom, ReadsOwn, IdleKept
<1>2. CASE RedeemReturns(t)
  <2>1. /\ caller[t] \in Users /\ pc' = [pc EXCEPT ![t] = "reply"]
        /\ UNCHANGED <<caller, creds, live>>
    BY <1>2 DEF RedeemReturns, LinkWaits, Reply
  <2>2. PICK s \in Sole : links' = put(caller[t], s, TokenOf(caller[t], s, t))
    BY <1>2 DEF RedeemReturns
  <2>3. RowsFrom
    BY <2>1, <2>2 DEF RowsFrom, put
  <2> QED
    BY <1>2, <2>1, <2>3 DEF RedeemReturns, Forward, ReadsOwn, IdleKept, MintsOnly
<1>3. CASE RedeemRefused(t) \/ ProviderBreaks(t) \/ ChatEnds(t)
  BY <1>3 DEF RedeemRefused, ProviderBreaks, ChatEnds, Reply, LinkWaits, Forward, RowsFrom,
              ReadsOwn, IdleKept, MintsOnly
<1>4. CASE RevokeTakesEffect(t)
  BY <1>4 DEF RevokeTakesEffect, Forward, RowsFrom, ReadsOwn, IdleKept, MintsOnly
<1>5. CASE RevokeReturns(t) \/ RevokeRefused(t)
  <2>1. caller[t] \in Users /\ UNCHANGED <<caller, creds, live>> /\ pc[t] # "redeeming"
    BY <1>5 DEF RevokeReturns, RevokeRefused, LinkWaits
  <2>2. Forward /\ RowsFrom /\ pc'[t] # "idle" /\ \A o \in Turns \ {t} : pc'[o] = pc[o]
    BY <1>5, <2>1, RevokeNextFacts DEF RevokeReturns, RevokeRefused
  <2> QED
    BY <2>1, <2>2 DEF ReadsOwn, IdleKept, MintsOnly
<1> QED
  BY <1>1, <1>2, <1>3, <1>4, <1>5 DEF Proceed

LEMMA LinkNextFacts == TypeInv /\ [LinkNext]_linkVars => StepFacts
<1> SUFFICES ASSUME TypeInv, [LinkNext]_linkVars PROVE StepFacts
  OBVIOUS
<1> USE DEF TypeInv, DataOK, StepFacts
<1>1. ASSUME NEW t \in Turns, NEW s \in Services, Forget(t, s) PROVE StepFacts
  BY <1>1 DEF Forget, delete, Forward, RowsFrom, ReadsOwn, IdleKept, MintsOnly
<1>2. ASSUME NEW k \in live, RevokedElsewhere(k) PROVE StepFacts
  BY <1>2 DEF RevokedElsewhere, Forward, RowsFrom, ReadsOwn, IdleKept, MintsOnly
<1>3. ASSUME Crash PROVE StepFacts
  BY <1>3 DEF Crash, Alive, Ended, Forward, RowsFrom, ReadsOwn, IdleKept, MintsOnly
<1>4. ASSUME UNCHANGED linkVars PROVE StepFacts
  BY <1>4 DEF linkVars, Forward, RowsFrom, ReadsOwn, IdleKept, MintsOnly
<1> QED
  BY <1>1, <1>2, <1>3, <1>4, ReceiveComes, ReceiveFacts, ProceedFacts DEF LinkNext, AtRest

\* A token no redeem will be given again, requests being where p says.
Past(k, p) ==
    \/ k.by = None
    \/ k.by \in Turns /\ p[k.by] \notin {"idle", "redeeming"}

Sound(k, u, s, p) == k.owner = u /\ k.service = s /\ Past(k, p)

\* Rows and credentials hold tokens of their person and service, long issued.
HeldInv ==
    /\ \A t \in Turns : pc[t] = "idle" => creds[t] = NoLinks
    /\ \A u \in Users, s \in Services : links[u][s] # None => Sound(links[u][s], u, s, pc)
    /\ \A t \in Turns, s \in Services :
         creds[t][s] # None => Sound(creds[t][s], caller[t], s, pc)

LEMMA HeldInit == LinkInit => HeldInv
<1> SUFFICES ASSUME LinkInit PROVE HeldInv
  OBVIOUS
<1>1. ASSUME NEW u \in Users, NEW s \in Services, links[u][s] # None
      PROVE  Sound(links[u][s], u, s, pc)
  <2>1. links[u][s] = TokenOf(u, s, None)
    BY <1>1 DEF LinkInit
  <2> QED
    BY <2>1 DEF TokenOf, Sound, Past
<1> QED
  BY <1>1 DEF LinkInit, HeldInv, NoLinks

LEMMA HeldStep ==
    ASSUME HeldInv, StepFacts
    PROVE  HeldInv'
<1>1. ASSUME NEW k, NEW u, NEW s, Sound(k, u, s, pc) PROVE Sound(k, u, s, pc')
  BY <1>1 DEF Sound, Past, StepFacts, Forward
<1>2. ASSUME NEW t \in Turns, pc'[t] = "idle" PROVE creds'[t] = NoLinks
  BY <1>2 DEF HeldInv, StepFacts, IdleKept
<1>3. ASSUME NEW u \in Users, NEW s \in Services, links'[u][s] # None
      PROVE  Sound(links'[u][s], u, s, pc')
  <2>1. CASE links'[u][s] = links[u][s]
    BY <1>1, <1>3, <2>1 DEF HeldInv
  <2>2. ASSUME NEW t \in Turns, links'[u][s] = TokenOf(u, s, t), pc'[t] = "reply"
        PROVE  Sound(links'[u][s], u, s, pc')
    BY <2>2 DEF Sound, Past, TokenOf
  <2> QED
    BY <1>3, <2>1, <2>2 DEF StepFacts, RowsFrom
<1>4. ASSUME NEW t \in Turns, NEW s \in Services, creds'[t][s] # None
      PROVE  Sound(creds'[t][s], caller'[t], s, pc')
  <2>1. CASE creds'[t] = creds[t] /\ caller'[t] = caller[t]
    BY <1>1, <1>4, <2>1 DEF HeldInv
  <2>2. CASE creds'[t] = creds[t] /\ pc[t] = "idle"
    BY <1>4, <2>2 DEF HeldInv, NoLinks
  <2>3. CASE creds'[t] = Rows(caller'[t]) /\ caller'[t] \in Users \cup {None}
    <3>1. caller'[t] \in Users /\ creds'[t][s] = links[caller'[t]][s]
      BY <1>4, <2>3 DEF Rows, NoLinks
    <3> QED
      BY <1>1, <1>4, <3>1 DEF HeldInv
  <2> QED
    BY <2>1, <2>2, <2>3 DEF StepFacts, ReadsOwn
<1> QED
  BY <1>2, <1>3, <1>4 DEF HeldInv

LEMMA HeldNext == TypeInv /\ HeldInv /\ [LinkNext]_linkVars => HeldInv'
BY LinkNextFacts, HeldStep

LEMMA HeldAlways == LinkSpec => [](TypeInv /\ HeldInv)
<1>1. LinkSpec => []TypeInv
  BY LinkTypeInit, LinkTypeNext, PTL DEF LinkSpec
<1> QED
  BY <1>1, HeldInit, HeldNext, PTL DEF LinkSpec

\* "That person's own tokens and nobody else's" (chat_service.py:16-18), for
\* any number of people whose requests overlap in any way.
THEOREM CredentialsAreCallersHolds == LinkSpec => []CredentialsAreCallers
<1>1. HeldInv => CredentialsAreCallers
  BY DEF HeldInv, Sound, CredentialsAreCallers
<1> QED
  BY <1>1, HeldAlways, PTL

-----------------------------------------------------------------------------
(* What a logout claims.                                                   *)

\* Services a logout is through with, without having kept them, honour nothing
\* it found; nor does the one that has just acted; so the claim is true.
Through(t) == \A s \in Services \ (todo[t] \cup kept[t]) : creds[t][s] \notin live

HonestInv == \A t \in Turns :
    /\ pc[t] \in {"revoking", "revoked"} => Through(t)
    /\ pc[t] = "revoked" => creds[t][Current(todo[t])] \notin live
    /\ answer[t] = "disconnected" =>
         pc[t] \in Ended /\ \A s \in Services : creds[t][s] \notin live

\* A token that is dead stays dead: the requests that could make it are past.
LEMMA DeadStaysDead ==
    ASSUME TypeInv, TypeInv', HeldInv, StepFacts, NEW t \in Turns, NEW s \in Services,
           creds[t][s] \notin live
    PROVE  creds[t][s] \notin live'
<1>1. CASE creds[t][s] = None
  BY <1>1, LinkAssumption DEF TypeInv, DataOK
<1>2. CASE creds[t][s] # None
  <2>1. Past(creds[t][s], pc)
    BY <1>2 DEF HeldInv, Sound
  <2> QED
    BY <2>1, LinkAssumption DEF StepFacts, MintsOnly, Past
<1> QED
  BY <1>1, <1>2

HonestFor(t) ==
    /\ pc[t] \in {"revoking", "revoked"} => Through(t)
    /\ pc[t] = "revoked" => creds[t][Current(todo[t])] \notin live
    /\ answer[t] = "disconnected" =>
         pc[t] \in Ended /\ \A s \in Services : creds[t][s] \notin live

\* Requests that stay as they are.
LEMMA HonestStays ==
    ASSUME TypeInv, TypeInv', HeldInv, StepFacts, NEW t \in Turns, HonestFor(t),
           creds'[t] = creds[t], answer'[t] = answer[t],
           \/ pc'[t] = pc[t] /\ todo'[t] = todo[t] /\ kept'[t] = kept[t]
           \/ pc'[t] \in Ended
           \/ pc'[t] \notin {"revoking", "revoked"} /\ pc[t] \notin Ended
    PROVE  HonestFor(t)'
<1>1. \A s \in Services : creds[t][s] \notin live => creds'[t][s] \notin live'
  BY DeadStaysDead
<1>2. pc[t] = "revoked" => Current(todo[t]) \in Services
  BY CurrentIsLeft DEF TypeInv, DataOK
<1> QED
  BY <1>1, <1>2 DEF HonestFor, Through, Ended

LEMMA HonestRevokeNext ==
    ASSUME TypeInv, NEW t \in Turns, NEW u, NEW rows, NEW left, NEW failed,
           RevokeNext(t, u, rows, left, failed),
           creds'[t] = rows, live' = live,
           answer[t] # "disconnected",
           \A s \in Services \ (left \cup failed) : rows[s] \notin live
    PROVE  HonestFor(t)'
<1> USE DEF TypeInv, DataOK
<1>1. todo'[t] = left /\ kept'[t] = failed
  BY DEF RevokeNext
<1>2. CASE left # {}
  <2>1. pc'[t] = "revoking" /\ answer'[t] # "disconnected"
    BY <1>2 DEF RevokeNext
  <2> QED
    BY <1>1, <2>1 DEF HonestFor, Through
<1>3. CASE left = {}
  <2>1. pc'[t] = "reply" /\ (answer'[t] = "disconnected" => failed = {})
    BY <1>3 DEF RevokeNext, Reply
  <2> QED
    BY <1>1, <1>3, <2>1 DEF HonestFor, Ended
<1> QED
  BY <1>2, <1>3

\* A step leaves the requests that do not act as they are.
OthersStay(t) == \A o \in Turns \ {t} :
    pc'[o] = pc[o] /\ creds'[o] = creds[o] /\ answer'[o] = answer[o]
    /\ todo'[o] = todo[o] /\ kept'[o] = kept[o]

LEMMA RevokeNextOthers ==
    ASSUME TypeInv, NEW t \in Turns, NEW u, NEW rows, NEW left, NEW failed,
           RevokeNext(t, u, rows, left, failed)
    PROVE  \A o \in Turns \ {t} :
               pc'[o] = pc[o] /\ answer'[o] = answer[o] /\ todo'[o] = todo[o] /\ kept'[o] = kept[o]
BY DEF RevokeNext, Reply, TypeInv, DataOK

LEMMA HonestReceive ==
    ASSUME TypeInv, TypeInv', HeldInv, StepFacts, HonestInv,
           NEW t \in Turns, NEW u \in Callers, Receive(t, u)
    PROVE  HonestFor(t)' /\ OthersStay(t)
<1> USE DEF TypeInv, DataOK
<1>1. pc[t] = "idle" /\ HonestFor(t) /\ answer[t] # "disconnected" /\ u \in Users \cup {None}
  BY LinkAssumption DEF Receive, MayArrive, HonestInv, HonestFor, Ended
<1>2. ASSUME NEW command, Tell(t, u, command) PROVE HonestFor(t)' /\ OthersStay(t)
  BY <1>2 DEF Tell, Reply, HonestFor, OthersStay
<1>3. CASE Redeem(t, u) \/ Chat(t, u)
  BY <1>1, <1>3 DEF Redeem, Chat, ReadCredentials, HonestFor, OthersStay
<1>4. CASE Logout(t, u)
  <2>1. /\ creds' = [creds EXCEPT ![t] = Rows(u)] /\ live' = live
        /\ RevokeNext(t, u, Rows(u), ToRevoke(Linked(Rows(u))), Linked(Rows(u)) \ Providers)
    BY <1>4 DEF Logout
  <2>2. \A s \in Services \ (ToRevoke(Linked(Rows(u))) \cup (Linked(Rows(u)) \ Providers)) :
           Rows(u)[s] \notin live
    BY LinkAssumption DEF ToRevoke, Linked
  <2>3. creds'[t] = Rows(u) /\ \A o \in Turns \ {t} : creds'[o] = creds[o]
    BY <2>1
  <2> HIDE DEF TypeInv, DataOK
  <2>4. HonestFor(t)'
    BY <1>1, <2>1, <2>2, <2>3, HonestRevokeNext
  <2> QED
    BY <2>1, <2>3, <2>4, RevokeNextOthers DEF OthersStay
<1> QED
  BY <1>2, <1>3, <1>4 DEF Receive

LEMMA HonestProceed ==
    ASSUME TypeInv, TypeInv', HeldInv, StepFacts, HonestInv, NEW t \in Turns, Proceed(t)
    PROVE  HonestFor(t)' /\ OthersStay(t)
<1> USE DEF TypeInv, DataOK
<1>1. HonestFor(t) /\ answer[t] # "disconnected"
  BY DEF HonestInv, HonestFor, Ended, Proceed, RedeemIssues, RedeemReturns, RedeemRefused,
         RevokeTakesEffect, RevokeReturns, RevokeRefused, ProviderBreaks, ChatEnds, LinkWaits
<1>2. CASE RedeemIssues(t) \/ ProviderBreaks(t)
  BY <1>1, <1>2 DEF RedeemIssues, ProviderBreaks, HonestFor, OthersStay
<1>3. CASE RedeemReturns(t) \/ RedeemRefused(t) \/ ChatEnds(t)
  BY <1>3 DEF RedeemReturns, RedeemRefused, ChatEnds, Reply, HonestFor, OthersStay
<1>4. CASE RevokeTakesEffect(t)
  <2>1. /\ pc[t] = "revoking" /\ pc' = [pc EXCEPT ![t] = "revoked"]
        /\ live' = live \ {creds[t][Current(todo[t])]}
        /\ UNCHANGED <<creds, todo, kept, answer>>
    BY <1>4 DEF RevokeTakesEffect
  <2>2. \A s \in Services \ (todo'[t] \cup kept'[t]) : creds'[t][s] \notin live'
    BY <1>1, <2>1 DEF HonestFor, Through
  <2>3. todo'[t] = todo[t] /\ creds'[t] = creds[t] /\ answer'[t] # "disconnected"
    BY <1>1, <2>1
  <2>4. creds'[t][Current(todo'[t])] \notin live'
    BY <2>1, <2>3
  <2>5. HonestFor(t)'
    BY <2>2, <2>3, <2>4 DEF HonestFor, Through
  <2> QED
    BY <2>1, <2>5 DEF OthersStay
<1>5. CASE RevokeReturns(t)
  <2>1. /\ UNCHANGED <<creds, live>> /\ pc[t] = "revoked"
        /\ RevokeNext(t, caller[t], creds[t], Later(todo[t]), kept[t])
    BY <1>5 DEF RevokeReturns
  <2>2. \A s \in Services \ (Later(todo[t]) \cup kept[t]) : creds[t][s] \notin live
    BY <1>1, <2>1 DEF HonestFor, Through, Later
  <2>3. HonestFor(t)'
    BY <1>1, <2>1, <2>2, HonestRevokeNext
  <2> QED
    BY <2>1, <2>3, RevokeNextOthers DEF OthersStay
<1>6. CASE RevokeRefused(t)
  <2>1. /\ UNCHANGED <<creds, live>> /\ pc[t] \in {"revoking", "revoked"}
        /\ RevokeNext(t, caller[t], creds[t], Later(todo[t]), Keep(kept[t], Current(todo[t])))
    BY <1>6 DEF RevokeRefused
  <2>2. \A s \in Services \ (Later(todo[t]) \cup Keep(kept[t], Current(todo[t]))) :
           creds[t][s] \notin live
    BY <1>1, <2>1 DEF HonestFor, Through, Later, Keep
  <2>3. HonestFor(t)'
    BY <1>1, <2>1, <2>2, HonestRevokeNext
  <2> QED
    BY <2>1, <2>3, RevokeNextOthers DEF OthersStay
<1> QED
  BY <1>2, <1>3, <1>4, <1>5, <1>6 DEF Proceed

LEMMA HonestNext ==
    TypeInv /\ TypeInv' /\ HeldInv /\ HonestInv /\ [LinkNext]_linkVars => HonestInv'
<1> SUFFICES ASSUME TypeInv, TypeInv', HeldInv, HonestInv, [LinkNext]_linkVars,
                    NEW o \in Turns
             PROVE  HonestFor(o)'
  BY DEF HonestInv, HonestFor
<1>1. StepFacts /\ HonestFor(o)
  BY LinkNextFacts DEF HonestInv, HonestFor
<1>2. ASSUME NEW t \in Turns, HonestFor(t)', OthersStay(t) PROVE HonestFor(o)'
  BY <1>1, <1>2, HonestStays DEF OthersStay
<1>3. ASSUME UNCHANGED <<pc, creds, answer, todo, kept>> PROVE HonestFor(o)'
  BY <1>1, <1>3, HonestStays
<1>4. CASE Crash
  <2>1. creds' = creds /\ answer' = answer
        /\ (pc'[o] = "dead" \/ (pc'[o] = pc[o] /\ todo' = todo /\ kept' = kept))
    BY <1>4 DEF Crash
  <2> QED
    BY <1>1, <2>1, HonestStays DEF Ended
<1>5. ASSUME NEW t \in Turns, NEW s \in Services, Forget(t, s)
      PROVE  UNCHANGED <<pc, creds, answer, todo, kept>>
  BY <1>5 DEF Forget
<1>6. ASSUME NEW k \in live, RevokedElsewhere(k)
      PROVE  UNCHANGED <<pc, creds, answer, todo, kept>>
  BY <1>6 DEF RevokedElsewhere
<1> QED
  BY <1>1, <1>2, <1>3, <1>4, <1>5, <1>6, HonestReceive, HonestProceed
     DEF LinkNext, AtRest, linkVars

\* "Your token has been revoked" (link_service.py:183-184) is true whenever it
\* is said, whatever overlaps: a logout claims it of all it found or not at all.
THEOREM HonestLogoutHolds == LinkSpec => []HonestLogout
<1>1. LinkInit => HonestInv
  BY DEF LinkInit, HonestInv
<1>2. HonestInv => HonestLogout
  BY DEF HonestInv, HonestLogout
<1> QED
  BY <1>1, <1>2, HonestNext, HeldAlways, PTL DEF LinkSpec

-----------------------------------------------------------------------------
(* One request of a person at a time.                                      *)

\* Requests in progress are of different people.
SoloInv == \A t, o \in Turns :
    Alive(t) /\ Alive(o) /\ caller[t] = caller[o] /\ caller[t] \in Users => t = o

Reading == {"running", "revoking", "revoked"}

\* What a request in progress has read is still there, unless it was forgotten.
SnapInv == \A t \in Turns, s \in Services :
    pc[t] \in Reading /\ caller[t] \in Users =>
        links[caller[t]][s] \in {None, creds[t][s]}

\* The services a logout has come to, its present one included, were asked.
AskedInv == \A t \in Turns, s \in Providers :
    pc[t] \in {"revoking", "revoked"} /\ creds[t][s] # None
    /\ (s \notin todo[t] \/ s = Current(todo[t])) => creds[t][s] \in asked

OneAtATime == SoloInv /\ SnapInv /\ AskedInv

\* Who may do what to whose rows, and who comes alive.
Owner(t) ==
    /\ \A o \in Turns \ {t} : pc'[o] = pc[o] /\ caller'[o] = caller[o]
                               /\ creds'[o] = creds[o] /\ todo'[o] = todo[o]
    /\ \A v \in Users : v # caller'[t] => links'[v] = links[v]
    /\ asked \subseteq asked'

LEMMA ReceiveOwner ==
    ASSUME TypeInv, NEW t \in Turns, NEW u, Comes(t, u)
    PROVE  Owner(t) /\ caller'[t] = u
<1> USE DEF TypeInv, DataOK
<1>1. ASSUME NEW command, Tell(t, u, command) PROVE Owner(t) /\ caller'[t] = u
  BY <1>1 DEF Tell, Reply, Owner
<1>2. CASE Redeem(t, u) \/ Chat(t, u)
  BY <1>2 DEF Redeem, Chat, ReadCredentials, Owner
<1>3. CASE Logout(t, u)
  BY <1>3 DEF Logout, RevokeNext, Reply, delete_all, Owner
<1> QED
  BY <1>1, <1>2, <1>3 DEF Comes

LEMMA ProceedOwner ==
    ASSUME TypeInv, NEW t \in Turns, Proceed(t)
    PROVE  Owner(t) /\ Alive(t) /\ caller' = caller /\ creds' = creds
<1> USE DEF TypeInv, DataOK
<1>1. CASE RedeemIssues(t) \/ ProviderBreaks(t) \/ RevokeTakesEffect(t)
  BY <1>1 DEF RedeemIssues, ProviderBreaks, RevokeTakesEffect, LinkWaits, Owner, Alive, Ended
<1>2. CASE RedeemReturns(t) \/ RedeemRefused(t) \/ ChatEnds(t)
  BY <1>2 DEF RedeemReturns, RedeemRefused, ChatEnds, Reply, LinkWaits, put, Owner, Alive, Ended
<1>3. CASE RevokeReturns(t) \/ RevokeRefused(t)
  <2>1. /\ UNCHANGED <<caller, creds>> /\ pc[t] \in {"revoking", "revoked"}
        /\ \E left, failed : RevokeNext(t, caller[t], creds[t], left, failed)
    BY <1>3 DEF RevokeReturns, RevokeRefused
  <2> QED
    BY <2>1 DEF RevokeNext, Reply, delete_all, Owner, Alive, Ended
<1> QED
  BY <1>1, <1>2, <1>3 DEF Proceed

\* What OneAtATime says of one request; the others keep it while one acts.
SnapFor(t) == \A s \in Services :
    pc[t] \in Reading /\ caller[t] \in Users =>
        links[caller[t]][s] \in {None, creds[t][s]}

AskedFor(t) == \A s \in Providers :
    pc[t] \in {"revoking", "revoked"} /\ creds[t][s] # None
    /\ (s \notin todo[t] \/ s = Current(todo[t])) => creds[t][s] \in asked

LEMMA OthersAtATime ==
    ASSUME TypeInv, OneAtATime, NEW t \in Turns, Owner(t),
           \A o \in Turns \ {t} :
               Alive(t)' /\ Alive(o) /\ caller[o] \in Users => caller[o] # caller'[t],
           \A o \in Turns \ {t} :
               Alive(o) /\ caller[o] \in Users /\ caller[o] = caller'[t] =>
                   links'[caller[o]] = links[caller[o]],
           SnapFor(t)', AskedFor(t)'
    PROVE  OneAtATime'
<1>1. SoloInv'
  BY DEF OneAtATime, SoloInv, Owner, Alive
<1>2. ASSUME NEW o \in Turns \ {t} PROVE SnapFor(o)'
  <2>1. pc'[o] = pc[o] /\ caller'[o] = caller[o] /\ creds'[o] = creds[o] /\ SnapFor(o)
    BY DEF Owner, OneAtATime, SnapInv, SnapFor
  <2>2. pc[o] \in Reading /\ caller[o] \in Users => links'[caller[o]] = links[caller[o]]
    BY DEF Owner, Reading, Alive, Ended
  <2> QED
    BY <2>1, <2>2 DEF SnapFor
<1>3. ASSUME NEW o \in Turns \ {t} PROVE AskedFor(o)'
  <2>1. pc'[o] = pc[o] /\ todo'[o] = todo[o] /\ creds'[o] = creds[o] /\ AskedFor(o)
    BY DEF Owner, OneAtATime, AskedInv, AskedFor
  <2>2. asked \subseteq asked'
    BY DEF Owner
  <2> QED
    BY <2>1, <2>2 DEF AskedFor
<1>4. SnapInv' /\ AskedInv'
  BY <1>2, <1>3 DEF SnapInv, AskedInv, SnapFor, AskedFor
<1> QED
  BY <1>1, <1>4 DEF OneAtATime

\* The loop of a logout asks as it goes.
LEMMA RevokeNextAsks ==
    ASSUME TypeInv, NEW t \in Turns, NEW u \in Users, NEW left, NEW failed,
           NEW rows, RevokeNext(t, u, rows, left, failed),
           creds'[t] = rows, caller'[t] = u,
           \A s \in Services : links[u][s] \in {None, rows[s]},
           \A s \in Providers : rows[s] # None /\ s \notin left => rows[s] \in asked
    PROVE  SnapFor(t)' /\ AskedFor(t)'
<1> USE DEF TypeInv, DataOK
<1>1. todo'[t] = left
  BY DEF RevokeNext
<1>2. CASE left # {}
  <2>1. /\ asked' = asked \cup {rows[Current(left)]}
        /\ links' = links
    BY <1>2 DEF RevokeNext
  <2> QED
    BY <1>1, <2>1 DEF SnapFor, AskedFor
<1>3. CASE left = {}
  <2>1. pc'[t] = "reply"
    BY <1>3 DEF RevokeNext, Reply
  <2> QED
    BY <2>1 DEF SnapFor, AskedFor, Reading
<1> QED
  BY <1>2, <1>3

LEMMA SoloReceive ==
    ASSUME TypeInv, OneAtATime, ~Overlap, NEW t \in Turns, NEW u \in Callers, Receive(t, u)
    PROVE  OneAtATime'
<1> USE DEF TypeInv, DataOK
<1>1. Owner(t) /\ caller'[t] = u /\ u \in Users \cup {None} /\ pc[t] = "idle"
  BY ReceiveOwner, ReceiveComes
<1>2. \A o \in Turns : Alive(o) => caller[o] # u
  BY DEF Receive, MayArrive
<1>3. SnapFor(t)' /\ AskedFor(t)'
  <2>1. ASSUME NEW command, Tell(t, u, command) PROVE pc'[t] \notin Reading
    BY <2>1 DEF Tell, Reply, Reading
  <2>2. CASE Redeem(t, u)
    BY <2>2 DEF Redeem, SnapFor, AskedFor, Reading
  <2>3. CASE Chat(t, u)
    <3>1. pc'[t] = "running" /\ links' = links /\ creds'[t] = Rows(u)
      BY <2>3 DEF Chat, ReadCredentials
    <3> QED
      BY <1>1, <3>1, LinkAssumption DEF SnapFor, AskedFor, Rows
  <2>4. CASE Logout(t, u)
    <3>1. /\ u \in Users /\ creds'[t] = Rows(u)
          /\ RevokeNext(t, u, Rows(u), ToRevoke(Linked(Rows(u))), Linked(Rows(u)) \ Providers)
      BY <1>1, <2>4 DEF Logout
    <3>2. \A s \in Services : links[u][s] \in {None, Rows(u)[s]}
      BY <3>1, LinkAssumption DEF Rows
    <3>3. \A s \in Providers : Rows(u)[s] # None => s \in ToRevoke(Linked(Rows(u)))
      BY LinkAssumption DEF ToRevoke, Linked
    <3> HIDE DEF TypeInv, DataOK
    <3> QED
      BY <1>1, <3>1, <3>2, <3>3, RevokeNextAsks
  <2> QED
    BY <2>1, <2>2, <2>3, <2>4 DEF Receive, SnapFor, AskedFor, Reading
<1> HIDE DEF TypeInv, DataOK
<1> QED
  BY <1>1, <1>2, <1>3, OthersAtATime

LEMMA SoloProceed ==
    ASSUME TypeInv, OneAtATime, NEW t \in Turns, Proceed(t)
    PROVE  OneAtATime'
<1> USE DEF TypeInv, DataOK
<1>1. Owner(t) /\ Alive(t) /\ caller' = caller /\ creds' = creds
  BY ProceedOwner
<1>2. \A o \in Turns \ {t} : Alive(o) /\ caller[o] \in Users => caller[o] # caller[t]
  BY <1>1 DEF OneAtATime, SoloInv
<1>3. SnapFor(t) /\ AskedFor(t)
  BY DEF OneAtATime, SnapInv, AskedInv, SnapFor, AskedFor
<1>4. SnapFor(t)' /\ AskedFor(t)'
  <2>1. CASE RedeemIssues(t) \/ ProviderBreaks(t)
    BY <2>1 DEF RedeemIssues, ProviderBreaks, SnapFor, AskedFor, Reading
  <2>2. CASE RedeemReturns(t) \/ RedeemRefused(t) \/ ChatEnds(t)
    BY <2>2 DEF RedeemReturns, RedeemRefused, ChatEnds, Reply, SnapFor, AskedFor, Reading
  <2>3. CASE RevokeTakesEffect(t)
    BY <1>3, <2>3 DEF RevokeTakesEffect, SnapFor, AskedFor, Reading
  <2>4. CASE RevokeReturns(t) \/ RevokeRefused(t)
    <3>1. /\ pc[t] \in {"revoking", "revoked"} /\ caller[t] \in Users
          /\ \E failed : RevokeNext(t, caller[t], creds[t], Later(todo[t]), failed)
      BY <2>4 DEF RevokeReturns, RevokeRefused, LinkWaits
    <3>2. \A s \in Services : links[caller[t]][s] \in {None, creds[t][s]}
      BY <1>3, <3>1 DEF SnapFor, Reading
    <3>3. \A s \in Providers :
            creds[t][s] # None /\ s \notin Later(todo[t]) => creds[t][s] \in asked
      BY <1>3, <3>1 DEF AskedFor, Later
    <3> HIDE DEF TypeInv, DataOK
    <3> QED
      BY <1>1, <3>1, <3>2, <3>3, RevokeNextAsks
  <2> QED
    BY <2>1, <2>2, <2>3, <2>4 DEF Proceed
<1> HIDE DEF TypeInv, DataOK
<1> QED
  BY <1>1, <1>2, <1>4, OthersAtATime

LEMMA SoloNext ==
    ASSUME ~Overlap
    PROVE  TypeInv /\ OneAtATime /\ [LinkNext]_linkVars => OneAtATime'
<1> SUFFICES ASSUME TypeInv, OneAtATime, [LinkNext]_linkVars PROVE OneAtATime'
  OBVIOUS
<1>1. ASSUME NEW t \in Turns, NEW s \in Services, Forget(t, s) PROVE OneAtATime'
  <2> USE DEF TypeInv, DataOK
  <2>1. /\ pc[t] = "running" /\ links' = delete(caller[t], s)
        /\ UNCHANGED <<pc, caller, creds, todo, asked>>
    BY <1>1 DEF Forget
  <2>2. Owner(t)
    BY <2>1 DEF Owner, delete
  <2>3. \A o \in Turns \ {t} : Alive(o) /\ caller[o] \in Users => caller[o] # caller'[t]
    BY <2>1 DEF OneAtATime, SoloInv, Alive, Ended
  <2>4. SnapFor(t)' /\ AskedFor(t)'
    BY <2>1 DEF OneAtATime, SnapInv, AskedInv, SnapFor, AskedFor, delete
  <2> HIDE DEF TypeInv, DataOK
  <2> QED
    BY <2>2, <2>3, <2>4, OthersAtATime
<1>2. ASSUME Crash PROVE OneAtATime'
  <2>1. \A t \in Turns : ~Alive(t)' /\ pc'[t] \notin Reading
    BY <1>2 DEF Crash, Alive, Ended, Reading
  <2> QED
    BY <2>1 DEF OneAtATime, SoloInv, SnapInv, AskedInv, Reading
<1>3. ASSUME UNCHANGED <<pc, caller, links, creds, todo, asked>> PROVE OneAtATime'
  BY <1>3 DEF OneAtATime, SoloInv, SnapInv, AskedInv, Alive
<1> QED
  BY <1>1, <1>2, <1>3, SoloReceive, SoloProceed
     DEF LinkNext, RevokedElsewhere, AtRest, linkVars

\* Who drops a row: the logout of its person, at its end, or a turn of theirs
\* whose service refused it.
LEMMA Drops ==
    ASSUME TypeInv, OneAtATime, ~Overlap, [LinkNext]_linkVars,
           NEW u \in Users, NEW s \in Services, links[u][s] \in live, links'[u][s] = None
    PROVE  \E t \in Turns :
               /\ caller'[t] = u /\ pc[t] # "reply" /\ answer'[t] \in {"disconnected", "kept"}
               /\ s \in Providers => links[u][s] \in asked
<1> USE DEF TypeInv, DataOK
<1>1. links[u][s] # None
  BY LinkAssumption
<1>2. links'[u] # links[u]
  BY <1>1
<1>3. ASSUME NEW t \in Turns, NEW rows, NEW left, NEW failed, NEW v,
             RevokeNext(t, v, rows, left, failed)
      PROVE  left = {} /\ u = v /\ answer'[t] \in {"disconnected", "kept"}
  BY <1>2, <1>3 DEF RevokeNext, Reply, delete_all
<1>4. ASSUME NEW t \in Turns, NEW v \in Callers, Receive(t, v)
      PROVE  /\ caller'[t] = u /\ pc[t] # "reply" /\ answer'[t] \in {"disconnected", "kept"}
             /\ s \in Providers => links[u][s] \in asked
  <2>1. Logout(t, v) /\ pc[t] = "idle"
    BY <1>2, <1>4 DEF Receive, MayArrive, Tell, Redeem, Chat
  <2>2. /\ caller'[t] = v
        /\ RevokeNext(t, v, Rows(v), ToRevoke(Linked(Rows(v))), Linked(Rows(v)) \ Providers)
    BY <2>1 DEF Logout
  <2>3. ToRevoke(Linked(Rows(u))) = {} /\ u = v /\ answer'[t] \in {"disconnected", "kept"}
    BY <1>3, <2>2
  <2>4. s \notin Providers
    BY <1>1, <2>3, LinkAssumption DEF ToRevoke, Linked, Rows
  <2> QED
    BY <2>1, <2>2, <2>3, <2>4
<1>5. ASSUME NEW t \in Turns, Proceed(t)
      PROVE  /\ caller'[t] = u /\ pc[t] # "reply" /\ answer'[t] \in {"disconnected", "kept"}
             /\ s \in Providers => links[u][s] \in asked
  <2>1. ~RedeemReturns(t)
    <3> SUFFICES ASSUME RedeemReturns(t) PROVE FALSE
      OBVIOUS
    <3>1. PICK r \in Sole : links' = [links EXCEPT ![caller[t]][r] = TokenOf(caller[t], r, t)]
      BY DEF RedeemReturns, put
    <3>2. TokenOf(caller[t], r, t) \in Token
      BY LinkAssumption DEF RedeemReturns, LinkWaits, TokenOf, Token, Sole
    <3> QED
      BY <1>1, <3>1, <3>2, LinkAssumption
  <2>2. RevokeReturns(t) \/ RevokeRefused(t)
    BY <1>2, <1>5, <2>1 DEF Proceed, RedeemIssues, RedeemRefused, RevokeTakesEffect,
                            ProviderBreaks, ChatEnds
  <2>3. /\ pc[t] \in {"revoking", "revoked"} /\ caller' = caller
        /\ \E failed : RevokeNext(t, caller[t], creds[t], Later(todo[t]), failed)
    BY <2>2 DEF RevokeReturns, RevokeRefused
  <2>4. Later(todo[t]) = {} /\ u = caller[t] /\ answer'[t] \in {"disconnected", "kept"}
    BY <1>3, <2>3
  <2>5. links[u][s] = creds[t][s]
    BY <1>1, <2>3, <2>4 DEF OneAtATime, SnapInv, Reading
  <2>6. s \notin todo[t] \/ s = Current(todo[t])
    BY <2>4 DEF Later
  <2>7. s \in Providers => links[u][s] \in asked
    BY <1>1, <2>3, <2>5, <2>6 DEF OneAtATime, AskedInv
  <2> QED
    BY <2>3, <2>4, <2>7
<1>6. ASSUME NEW t \in Turns, NEW r \in Services, Forget(t, r) PROVE FALSE
  <2>1. /\ pc[t] = "running" /\ creds[t][r] \notin live
        /\ links' = [links EXCEPT ![caller[t]][r] = None]
    BY <1>6 DEF Forget, delete
  <2>2. caller[t] = u /\ r = s
    BY <1>1, <2>1
  <2>3. links[u][s] = creds[t][s]
    BY <1>1, <2>1, <2>2 DEF OneAtATime, SnapInv, Reading
  <2> QED
    BY <2>1, <2>2, <2>3
<1> QED
  BY <1>2, <1>4, <1>5, <1>6 DEF LinkNext, RevokedElsewhere, Crash, AtRest, linkVars

LEMMA SoloAlways == ASSUME ~Overlap PROVE LinkSpec => [](TypeInv /\ OneAtATime)
<1>1. LinkInit => OneAtATime
  BY DEF LinkInit, OneAtATime, SoloInv, SnapInv, AskedInv, Alive, Reading
<1>2. TypeInv /\ OneAtATime /\ [LinkNext]_linkVars => OneAtATime'
  BY SoloNext
<1>3. LinkSpec => []TypeInv
  BY LinkTypeInit, LinkTypeNext, PTL DEF LinkSpec
<1> QED
  BY <1>1, <1>2, <1>3, PTL DEF LinkSpec

\* "Revoke before forget" (link_service.py:9-12) holds while every person waits
\* for the answer to one request before sending another; the run logout_race
\* shows that it needs that.
THEOREM RevokeBeforeForgetHolds == ASSUME ~Overlap PROVE LinkSpec => RevokeBeforeForget
<1>1. TypeInv /\ OneAtATime /\ [LinkNext]_linkVars =>
        [\A u \in Users, s \in Providers :
            links[u][s] \in live /\ links'[u][s] = None => links[u][s] \in asked]_linkVars
  <2> SUFFICES ASSUME TypeInv, OneAtATime, [LinkNext]_linkVars,
                      NEW u \in Users, NEW s \in Providers,
                      links[u][s] \in live, links'[u][s] = None
               PROVE  links[u][s] \in asked
    OBVIOUS
  <2> QED
    BY Drops, LinkAssumption
<1> QED
  BY <1>1, SoloAlways, PTL DEF LinkSpec, RevokeBeforeForget

\* forget() drops only what its service has rejected (link_service.py:69-80),
\* under the same condition.
THEOREM ForgetOnlyRefusedHolds == ASSUME ~Overlap PROVE LinkSpec => ForgetOnlyRefused
<1>1. TypeInv /\ OneAtATime /\ [LinkNext]_linkVars =>
        [\A u \in Users, s \in Services :
            links[u][s] \in live /\ links'[u][s] = None =>
               \E t \in Turns : caller'[t] = u /\ pc[t] # "reply"
                                /\ answer'[t] \in {"disconnected", "kept"}]_linkVars
  <2> SUFFICES ASSUME TypeInv, OneAtATime, [LinkNext]_linkVars,
                      NEW u \in Users, NEW s \in Services,
                      links[u][s] \in live, links'[u][s] = None
               PROVE  \E t \in Turns : caller'[t] = u /\ pc[t] # "reply"
                                       /\ answer'[t] \in {"disconnected", "kept"}
    OBVIOUS
  <2> QED
    BY Drops
<1> QED
  BY <1>1, SoloAlways, PTL DEF LinkSpec, ForgetOnlyRefused
=============================================================================
