-------------------------- MODULE ChatServiceProofs --------------------------
(***************************************************************************)
(* What holds of ChatService for every number of turns, people, services   *)
(* and conversations, whatever overlaps and however often it crashes; and  *)
(* that it implements WriteApproval.                                       *)
(***************************************************************************)
EXTENDS ChatService, LinkServiceProofs, SequenceTheorems

-----------------------------------------------------------------------------
(* Types.                                                                  *)

\* The types of the state ChatService adds, and what they need to be inductive.
ChatData ==
    /\ key \in [Turns -> Keys \cup {None}]
    /\ msg \in [Turns -> Messages \cup Commands \cup {"none"}]
    /\ photo \in [Turns -> Photos \cup {"none"}]
    /\ image \in [Turns -> Photo]
    /\ taken \in [Turns -> Turns \cup {None}]
    /\ pending \in [Keys -> Parked \cup {None}]
    /\ messages \in [Keys -> Seq(Message)]
    /\ staged \subseteq Turns
    /\ executed \subseteq Execution
    /\ last \in [Keys -> Turns \cup {None}]
    /\ facing \in [Turns -> SUBSET Turns]
    /\ \A t \in Turns : pc[t] # "idle" => key[t] \in Keys
    /\ \A t \in Turns : pc[t] = "approved" => taken[t] # None

ChatInv == TypeInv /\ ChatData

USE DEF Goto, Row, AnyPhase, requestVars, turnVars, historyVars

\* A row is not None, and neither is a conversation.
LEMMA Distinct ==
    /\ None \notin Turns /\ None \notin Keys /\ None \notin Users /\ None \notin Token
    /\ None \notin Parked
BY LinkAssumption, ChatAssumption

LEMMA ChatInitInv == ChatInit => ChatInv
<1> SUFFICES ASSUME ChatInit PROVE ChatInv
  OBVIOUS
<1>1. TypeInv
  BY LinkTypeInit DEF ChatInit
<1>2. ChatData
  BY DEF ChatInit, LinkInit, ChatData, Photo
<1> QED
  BY <1>1, <1>2 DEF ChatInv

\* What a step does to the data of LinkService besides moving requests on.
LEMMA LinkStays ==
    ASSUME TypeInv, NEW t \in Turns, NEW phase \in AnyPhase \ (LinkWaits \cup {"idle", "redeeming"}),
           Goto(t, phase), pc[t] # "idle",
           UNCHANGED <<caller, links, todo, kept, live, asked, crashes>>,
           creds' = creds \/ ReadCredentials(t, caller[t]),
           answer' \in [Turns -> Answers]
    PROVE  TypeInv' /\ StepFacts
<1> USE DEF TypeInv, DataOK
<1>1. Rows(caller[t]) \in Row
  BY RowsType
<1>2. creds' \in [Turns -> Row]
  BY <1>1 DEF ReadCredentials
<1>3. TypeInv'
  BY <1>2 DEF LinkWaits
<1>4. StepFacts
  BY DEF StepFacts, Forward, RowsFrom, ReadsOwn, IdleKept, MintsOnly, ReadCredentials
<1> QED
  BY <1>3, <1>4

\* Only t moves, to one of the phases of P.
Moves(t, P) == pc'[t] \in P /\ \A o \in Turns \ {t} : pc'[o] = pc[o]

LEMMA CommandSteps ==
    ASSUME ChatInv, NEW t \in Turns, NEW u \in Callers, NEW k \in Keys, NEW command \in Commands,
           ReceiveLink(t, u, k, command)
    PROVE  /\ TypeInv' /\ StepFacts
           /\ pc[t] = "idle" /\ Moves(t, {"reply", "redeeming", "revoking"})
<1>1. pc[t] = "idle" /\ u \in Users \cup {None} /\ Comes(t, u)
  BY LinkAssumption DEF ReceiveLink, MayBeSent, Comes
<1>2. TypeInv' /\ StepFacts
  BY <1>1, ReceiveType, ReceiveFacts DEF ChatInv
<1>3. Tell(t, u, command) \/ Redeem(t, u) \/ Logout(t, u)
  BY DEF ReceiveLink
<1>4. Moves(t, {"reply", "redeeming", "revoking"})
  <2>1. pc \in [Turns -> AnyPhase]
    BY DEF ChatInv, TypeInv, DataOK
  <2> QED
    BY <1>3, <2>1 DEF Tell, Redeem, Logout, RevokeNext, Reply, Moves
<1> QED
  BY <1>1, <1>2, <1>4

LEMMA LinkProceedSteps ==
    ASSUME ChatInv, NEW t \in Turns, LinkProceeds(t)
    PROVE  /\ TypeInv' /\ StepFacts
           /\ pc[t] \in LinkWaits /\ Moves(t, LinkWaits \cup {"reply", "failed"})
<1>1. Proceed(t) /\ pc[t] \in LinkWaits
  BY DEF LinkProceeds, Proceed, RedeemIssues, RedeemReturns, RedeemRefused, RevokeTakesEffect,
         RevokeReturns, RevokeRefused, ProviderBreaks, LinkWaits
<1>2. TypeInv' /\ StepFacts
  BY <1>1, ProceedType, ProceedFacts DEF ChatInv
<1>3. Moves(t, LinkWaits \cup {"reply", "failed"})
  <2>1. pc \in [Turns -> AnyPhase]
    BY DEF ChatInv, TypeInv, DataOK
  <2>2. CASE RedeemIssues(t) \/ RevokeTakesEffect(t) \/ ProviderBreaks(t)
    BY <2>1, <2>2 DEF RedeemIssues, RevokeTakesEffect, ProviderBreaks, Moves, LinkWaits
  <2>3. CASE RedeemReturns(t) \/ RedeemRefused(t)
    BY <2>1, <2>3 DEF RedeemReturns, RedeemRefused, Reply, Moves
  <2>4. CASE RevokeReturns(t) \/ RevokeRefused(t)
    BY <2>1, <2>4 DEF RevokeReturns, RevokeRefused, RevokeNext, Reply, Moves, LinkWaits
  <2> QED
    BY <2>2, <2>3, <2>4 DEF LinkProceeds
<1> QED
  BY <1>1, <1>2, <1>3

\* The steps of a turn between its arrival and its end.
LEMMA TurnSteps ==
    ASSUME ChatInv, NEW t \in Turns
    PROVE  /\ TakePending(t) => TypeInv' /\ StepFacts /\ Moves(t, {"approved", "running"})
           /\ StartRun(t) => TypeInv' /\ StepFacts /\ Moves(t, {"running"})
           /\ PerformWrite(t) \/ WriteComesToNothing(t) =>
                TypeInv' /\ StepFacts /\ Moves(t, {"running"})
           /\ RunReplies(t) \/ RunPauses(t) => TypeInv' /\ StepFacts /\ Moves(t, {"reply"})
           /\ ResolveFails(t) \/ BadPhoto(t) \/ RunFails(t) =>
                TypeInv' /\ StepFacts /\ Moves(t, {"failed"})
           /\ AppendUser(t) => TypeInv' /\ StepFacts /\ Moves(t, {"stored"})
           /\ AppendReply(t) => TypeInv' /\ StepFacts /\ Moves(t, {"done"})
<1>0. TypeInv /\ pc \in [Turns -> AnyPhase] /\ answer \in [Turns -> Answers]
  BY DEF ChatInv, TypeInv, DataOK
<1>1. ASSUME TakePending(t) PROVE TypeInv' /\ StepFacts /\ Moves(t, {"approved", "running"})
  <2>1. PICK phase \in {"approved", "running"} : Goto(t, phase)
    BY <1>1 DEF TakePending
  <2>2. TypeInv' /\ StepFacts
    BY <1>0, <1>1, <2>1, LinkStays DEF TakePending, Resolved, LinkWaits
  <2> QED
    BY <1>0, <2>1, <2>2 DEF Moves
<1>2. ASSUME StartRun(t) PROVE TypeInv' /\ StepFacts /\ Moves(t, {"running"})
  <2>1. TypeInv' /\ StepFacts
    BY <1>0, <1>2, LinkStays DEF StartRun, Resolved, LinkWaits
  <2> QED
    BY <1>0, <1>2, <2>1 DEF StartRun, Moves
<1>3. ASSUME PerformWrite(t) \/ WriteComesToNothing(t)
      PROVE  TypeInv' /\ StepFacts /\ Moves(t, {"running"})
  <2>1. TypeInv' /\ StepFacts
    BY <1>0, <1>3, LinkStays DEF PerformWrite, WriteComesToNothing, RunStays, LinkWaits
  <2> QED
    BY <1>0, <1>3, <2>1 DEF PerformWrite, WriteComesToNothing, Moves
<1>4. ASSUME RunReplies(t) \/ RunPauses(t)
      PROVE  TypeInv' /\ StepFacts /\ Moves(t, {"reply"})
  <2>1. Goto(t, "reply") /\ answer' \in [Turns -> Answers] /\ pc[t] = "running" /\ RunStays
    BY <1>0, <1>4 DEF RunReplies, RunPauses, Reply, Answers
  <2>2. TypeInv' /\ StepFacts
    BY <1>0, <2>1, LinkStays DEF RunStays, LinkWaits
  <2> QED
    BY <1>0, <2>1, <2>2 DEF Moves
<1>5. ASSUME ResolveFails(t) \/ BadPhoto(t) \/ RunFails(t)
      PROVE  TypeInv' /\ StepFacts /\ Moves(t, {"failed"})
  <2>1. TypeInv' /\ StepFacts
    BY <1>0, <1>5, LinkStays DEF ResolveFails, BadPhoto, RunFails, RunStays, Resolved, LinkWaits
  <2> QED
    BY <1>0, <1>5, <2>1 DEF ResolveFails, BadPhoto, RunFails, Moves
<1>6. ASSUME AppendUser(t) PROVE TypeInv' /\ StepFacts /\ Moves(t, {"stored"})
  <2>1. TypeInv' /\ StepFacts
    BY <1>0, <1>6, LinkStays DEF AppendUser, LinkWaits
  <2> QED
    BY <1>0, <1>6, <2>1 DEF AppendUser, Moves
<1>7. ASSUME AppendReply(t) PROVE TypeInv' /\ StepFacts /\ Moves(t, {"done"})
  <2>1. TypeInv' /\ StepFacts
    BY <1>0, <1>7, LinkStays DEF AppendReply, LinkWaits
  <2> QED
    BY <1>0, <1>7, <2>1 DEF AppendReply, Moves
<1> QED
  BY <1>1, <1>2, <1>3, <1>4, <1>5, <1>6, <1>7

\* Arrivals, refused credentials, and the world around.
LEMMA OtherSteps ==
    ASSUME ChatInv
    PROVE  /\ \A t \in Turns, u \in Callers, k \in Keys, m \in Messages, p \in Photos :
                ReceiveChat(t, u, k, m, p) =>
                    TypeInv' /\ StepFacts /\ pc[t] = "idle" /\ Moves(t, {"resolving"})
           /\ \A t \in Turns, s \in Services :
                ForgetRefused(t, s) => TypeInv' /\ StepFacts /\ pc' = pc
           /\ \A k \in live : Disconnect(k) => TypeInv' /\ StepFacts /\ pc' = pc
           /\ ChatCrash => TypeInv' /\ StepFacts
                           /\ \A o \in Turns : pc'[o] = pc[o] \/ (pc[o] # "idle" /\ pc'[o] = "dead")
<1> USE DEF TypeInv, DataOK, ChatInv
<1>1. ASSUME NEW t \in Turns, NEW u \in Callers, NEW k \in Keys, NEW m \in Messages,
             NEW p \in Photos, ReceiveChat(t, u, k, m, p)
      PROVE  TypeInv' /\ StepFacts /\ pc[t] = "idle" /\ Moves(t, {"resolving"})
  <2>1. /\ pc[t] = "idle" /\ u \in Users \cup {None} /\ pc' = [pc EXCEPT ![t] = "resolving"]
        /\ caller' = [caller EXCEPT ![t] = u]
        /\ UNCHANGED <<links, creds, todo, kept, answer, live, asked, crashes>>
    BY <1>1, LinkAssumption DEF ReceiveChat, MayBeSent
  <2>2. TypeInv'
    BY <2>1 DEF LinkWaits
  <2>3. StepFacts
    BY <2>1 DEF StepFacts, Forward, RowsFrom, ReadsOwn, IdleKept, MintsOnly
  <2> QED
    BY <2>1, <2>2, <2>3 DEF Moves
<1>2. ASSUME NEW t \in Turns, NEW s \in Services, ForgetRefused(t, s)
      PROVE  TypeInv' /\ StepFacts /\ pc' = pc
  BY <1>2 DEF ForgetRefused, Forget, delete, StepFacts, Forward, RowsFrom, ReadsOwn, IdleKept,
              MintsOnly
<1>3. ASSUME NEW k \in live, Disconnect(k) PROVE TypeInv' /\ StepFacts /\ pc' = pc
  BY <1>3 DEF Disconnect, RevokedElsewhere, StepFacts, Forward, RowsFrom, ReadsOwn, IdleKept,
              MintsOnly
<1>4. ASSUME ChatCrash
      PROVE  TypeInv' /\ StepFacts
             /\ \A o \in Turns : pc'[o] = pc[o] \/ (pc[o] # "idle" /\ pc'[o] = "dead")
  <2>1. /\ \A o \in Turns : pc'[o] = pc[o] \/ (pc[o] # "idle" /\ pc'[o] = "dead")
        /\ pc' \in [Turns -> AnyPhase] /\ crashes' \in Nat
        /\ UNCHANGED <<caller, links, creds, todo, kept, answer, live, asked>>
    BY <1>4 DEF ChatCrash, InProgress, Over
  <2>2. TypeInv'
    BY <2>1 DEF LinkWaits
  <2>3. StepFacts
    BY <2>1 DEF StepFacts, Forward, RowsFrom, ReadsOwn, IdleKept, MintsOnly
  <2> QED
    BY <2>1, <2>2, <2>3
<1> QED
  BY <1>1, <1>2, <1>3, <1>4

\* A request that is sent has a conversation.
LEMMA SentData ==
    ASSUME ChatInv, NEW t \in Turns, NEW k \in Keys, NEW p \in Photos \cup {"none"},
           NEW m \in Messages \cup Commands, Sent(t, k, m, p)
    PROVE  /\ key' \in [Turns -> Keys \cup {None}] /\ key'[t] = k
           /\ \A o \in Turns \ {t} : key'[o] = key[o] /\ msg'[o] = msg[o]
           /\ msg' \in [Turns -> Messages \cup Commands \cup {"none"}] /\ msg'[t] = m
           /\ photo' \in [Turns -> Photos \cup {"none"}]
           /\ last' \in [Keys -> Turns \cup {None}]
           /\ facing' \in [Turns -> SUBSET Turns]
BY DEF Sent, Shown, ChatInv, ChatData

LEMMA ArriveData ==
    ASSUME ChatInv, NEW t \in Turns, Arrive(t)
    PROVE  ChatInv'
<1>0. ASSUME NEW k \in Keys, NEW p \in Photos \cup {"none"}, NEW m \in Messages \cup Commands,
             Sent(t, k, m, p), TypeInv', Moves(t, AnyPhase \ {"approved"}),
             pending' \in [Keys -> Parked \cup {None}],
             UNCHANGED <<image, taken, messages, staged, executed>>
      PROVE  ChatInv'
  <2>1. /\ key' \in [Turns -> Keys \cup {None}] /\ key'[t] = k
        /\ \A o \in Turns \ {t} : key'[o] = key[o]
        /\ msg' \in [Turns -> Messages \cup Commands \cup {"none"}]
        /\ photo' \in [Turns -> Photos \cup {"none"}]
        /\ last' \in [Keys -> Turns \cup {None}]
        /\ facing' \in [Turns -> SUBSET Turns]
    BY <1>0, SentData
  <2> QED
    BY <1>0, <2>1 DEF ChatInv, ChatData, Moves
<1>1. ASSUME NEW u \in Callers, NEW k \in Keys, NEW command \in Commands,
             ReceiveLink(t, u, k, command)
      PROVE  ChatInv'
  <2>1. TypeInv' /\ Moves(t, {"reply", "redeeming", "revoking"})
    BY <1>1, CommandSteps
  <2>2. /\ Sent(t, k, command, "none") /\ pending' = [pending EXCEPT ![k] = None]
        /\ UNCHANGED <<image, taken, messages, staged, executed>>
    BY <1>1 DEF ReceiveLink, Unpark
  <2>3. pending' \in [Keys -> Parked \cup {None}] /\ Moves(t, AnyPhase \ {"approved"})
    BY <2>1, <2>2 DEF ChatInv, ChatData, Moves
  <2> QED
    BY <1>0, <2>1, <2>2, <2>3
<1>2. ASSUME NEW u \in Callers, NEW k \in Keys, NEW m \in Messages, NEW p \in Photos,
             ReceiveChat(t, u, k, m, p)
      PROVE  ChatInv'
  <2>1. TypeInv' /\ Moves(t, {"resolving"})
    BY <1>2, OtherSteps
  <2>2. Sent(t, k, m, p) /\ UNCHANGED <<image, taken, pending, messages, staged, executed>>
    BY <1>2 DEF ReceiveChat
  <2>3. pending' \in [Keys -> Parked \cup {None}] /\ Moves(t, AnyPhase \ {"approved"})
    BY <2>1, <2>2 DEF ChatInv, ChatData, Moves
  <2> QED
    BY <1>0, <2>1, <2>2, <2>3
<1> QED
  BY <1>1, <1>2 DEF Arrive

LEMMA AppendData ==
    ASSUME ChatData, NEW t \in Turns, NEW role \in {"user", "assistant"}, append(t, role)
    PROVE  messages' \in [Keys -> Seq(Message)]
<1>1. [turn |-> t, role |-> role] \in Message
  BY DEF Message
<1>2. \A q \in Seq(Message) : Append(q, [turn |-> t, role |-> role]) \in Seq(Message)
  BY <1>1
<1> QED
  BY <1>2 DEF ChatData, append

LEMMA AdvanceData ==
    ASSUME ChatInv, NEW t \in Turns, Advance(t)
    PROVE  ChatInv'
<1> USE DEF ChatInv
<1>0. pc[t] # "idle" => key[t] \in Keys
  BY DEF ChatData
<1>1. CASE LinkProceeds(t)
  <2>1. TypeInv' /\ pc[t] \in LinkWaits /\ Moves(t, LinkWaits \cup {"reply", "failed"})
    BY <1>1, LinkProceedSteps
  <2> QED
    BY <1>1, <2>1 DEF LinkProceeds, ChatData, Moves, LinkWaits
<1>2. CASE ResolveFails(t) \/ BadPhoto(t) \/ RunFails(t) \/ WriteComesToNothing(t) \/ RunReplies(t)
  <2>1. TypeInv' /\ Moves(t, {"failed", "running", "reply"}) /\ pc[t] # "idle"
    BY <1>2, TurnSteps DEF Moves, ResolveFails, BadPhoto, Resolved, RunFails, WriteComesToNothing,
                           RunReplies
  <2>2. UNCHANGED <<key, msg, photo, last, facing, image, taken, pending, messages, staged, executed>>
    BY <1>2 DEF ResolveFails, BadPhoto, RunFails, WriteComesToNothing, RunReplies, RunStays
  <2> QED
    BY <2>1, <2>2 DEF ChatData, Moves
<1>3. CASE TakePending(t)
  <2>1. TypeInv' /\ Moves(t, {"approved", "running"}) /\ pc[t] # "idle"
    BY <1>3, TurnSteps DEF TakePending, Resolved
  <2>2. pending[key[t]] \in Parked
    BY <1>0, <1>3, <2>1 DEF TakePending, ChatData
  <2>3. pending[key[t]].write \in Turns /\ pending[key[t]].image \in Photo
    BY <2>2 DEF Parked
  <2>4. /\ image' = [image EXCEPT ![t] = pending[key[t]].image]
        /\ taken' = [taken EXCEPT ![t] = pending[key[t]].write]
        /\ pending' = [pending EXCEPT ![key[t]] = None]
        /\ UNCHANGED <<key, msg, photo, last, facing, messages, staged, executed>>
    BY <1>3 DEF TakePending, Unpark
  <2> QED
    BY <2>1, <2>3, <2>4, Distinct DEF ChatData, Moves
<1>4. CASE StartRun(t)
  <2>1. TypeInv' /\ Moves(t, {"running"}) /\ pc[t] # "idle"
    BY <1>4, TurnSteps DEF StartRun, Resolved
  <2> QED
    BY <1>4, <2>1 DEF StartRun, ChatData, Moves, OwnPhoto, Photo
<1>5. CASE PerformWrite(t)
  <2>1. TypeInv' /\ Moves(t, {"running"}) /\ pc[t] = "approved"
    BY <1>5, TurnSteps DEF PerformWrite
  <2>2. taken[t] \in Turns /\ creds[t][Target] \in Token /\ image[t] \in Photo
    BY <1>5, <2>1 DEF PerformWrite, ChatData, TypeInv, DataOK
  <2>3. executed' \subseteq Execution
    BY <1>5, <2>2 DEF PerformWrite, ChatData, Execution
  <2> QED
    BY <1>5, <2>1, <2>3 DEF PerformWrite, RunStays, ChatData, Moves
<1>6. CASE RunPauses(t)
  <2>1. TypeInv' /\ Moves(t, {"reply"}) /\ pc[t] # "idle"
    BY <1>6, TurnSteps DEF RunPauses
  <2>2. [write |-> t, image |-> image[t]] \in Parked
    BY DEF ChatData, Parked
  <2> QED
    BY <1>6, <2>1, <2>2 DEF RunPauses, RunStays, Park, ChatData, Moves
<1>7. CASE AppendUser(t) \/ AppendReply(t)
  <2>1. TypeInv' /\ Moves(t, {"stored", "done"}) /\ pc[t] # "idle"
    BY <1>7, TurnSteps DEF AppendUser, AppendReply, Moves
  <2>2. messages' \in [Keys -> Seq(Message)]
    BY <1>7, AppendData DEF AppendUser, AppendReply
  <2> QED
    BY <1>7, <2>1, <2>2 DEF AppendUser, AppendReply, ChatData, Moves
<1> QED
  BY <1>1, <1>2, <1>3, <1>4, <1>5, <1>6, <1>7 DEF Advance

LEMMA ChatNextInv == ChatInv /\ [ChatNext]_chatVars => ChatInv'
<1> SUFFICES ASSUME ChatInv, [ChatNext]_chatVars PROVE ChatInv'
  OBVIOUS
<1>1. ASSUME NEW t \in Turns, NEW s \in Services, ForgetRefused(t, s) PROVE ChatInv'
  <2>1. TypeInv' /\ pc' = pc
    BY <1>1, OtherSteps
  <2> QED
    BY <1>1, <2>1 DEF ForgetRefused, ChatInv, ChatData
<1>2. ASSUME NEW k \in live, Disconnect(k) PROVE ChatInv'
  <2>1. TypeInv' /\ pc' = pc
    BY <1>2, OtherSteps
  <2> QED
    BY <1>2, <2>1 DEF Disconnect, ChatInv, ChatData
<1>3. ASSUME ChatCrash PROVE ChatInv'
  <2>1. TypeInv' /\ \A o \in Turns : pc'[o] = pc[o] \/ (pc[o] # "idle" /\ pc'[o] = "dead")
    BY <1>3, OtherSteps
  <2> QED
    BY <1>3, <2>1 DEF ChatCrash, ChatInv, ChatData
<1>4. ASSUME UNCHANGED chatVars PROVE ChatInv'
  BY <1>4 DEF chatVars, linkVars, ChatInv, ChatData, TypeInv, DataOK
<1> QED
  BY <1>1, <1>2, <1>3, <1>4, ArriveData, AdvanceData DEF ChatNext, AllOver

LEMMA ChatAlways == ChatSpec => []ChatInv
BY ChatInitInv, ChatNextInv, PTL DEF ChatSpec

\* Every variable keeps its type, for any number of turns and conversations.
THEOREM ChatTypeCorrect == ChatSpec => []ChatTypeOK
<1>1. ChatInv => ChatTypeOK
  BY DEF ChatInv, ChatData, TypeInv, DataOK, ChatTypeOK, ChatPhases, LinkPhases, LinkWaits,
         Ended, Over
<1> QED
  BY <1>1, ChatAlways, PTL

-----------------------------------------------------------------------------
(* One write, one approval, one run.                                       *)

\* The question of a turn in one of these has been parked, or never will be.
Asked == {"reply", "stored", "done", "dead"}

\* A parked write was asked about in its conversation and nobody has taken it.
ParkedInv == \A k \in Keys : pending[k] # None =>
    /\ pending[k].write \in staged
    /\ key[pending[k].write] = k
    /\ \A t \in Turns : taken[t] # pending[k].write

\* A turn takes a write of its conversation, which nobody else has.
TakenInv == \A t \in Turns :
    /\ taken[t] # None =>
         /\ taken[t] \in staged
         /\ taken[t] # t
         /\ key[taken[t]] = key[t]
         /\ pc[t] \notin {"idle", "resolving"}
         /\ \A o \in Turns : taken[o] = taken[t] => o = t
    /\ pc[t] = "approved" => msg[t] = "yes"
    /\ t \in staged => pc[t] \in Asked

\* A turn runs the write it took, once.
RunInv == \A x \in executed :
    /\ taken[x.turn] = x.write
    /\ msg[x.turn] = "yes"
    /\ pc[x.turn] # "approved"
    /\ x.token.owner = caller[x.turn]
    /\ \A y \in executed : y.turn = x.turn => y = x

ApprovalInv == ParkedInv /\ TakenInv /\ RunInv

\* Executions are of turns that took something.
LEMMA RunTypes ==
    ASSUME ChatInv, ApprovalInv, NEW x \in executed
    PROVE  x.turn \in Turns /\ x.write \in Turns /\ taken[x.turn] # None
           /\ pc[x.turn] \notin {"idle", "resolving"}
<1>1. x.turn \in Turns /\ x.write \in Turns
  BY DEF ChatInv, ChatData, Execution
<1> QED
  BY <1>1, Distinct DEF ApprovalInv, RunInv, TakenInv

\* Steps that only move turns on, none of them back.
MovesOn == \A o \in Turns :
    \/ pc'[o] = pc[o]
    \/ /\ pc'[o] \notin {"idle", "resolving", "approved"}
       /\ pc[o] \in Asked => pc'[o] \in Asked

\* Nobody changes the person behind a request in progress.
LEMMA OwnersStay ==
    ASSUME ChatInv, ChatNext
    PROVE  \A t \in Turns : pc[t] # "idle" => caller'[t] = caller[t]
<1>0. caller \in [Turns -> Users \cup {None}]
  BY DEF ChatInv, TypeInv, DataOK
<1>1. ASSUME NEW o \in Turns, Arrive(o)
      PROVE  \A t \in Turns : pc[t] # "idle" => caller'[t] = caller[t]
  <2>1. pc[o] = "idle" /\ \E u \in Callers : caller' = [caller EXCEPT ![o] = u]
    BY <1>1 DEF Arrive, ReceiveLink, ReceiveChat, MayBeSent, Tell, Redeem, Logout
  <2> QED
    BY <1>0, <2>1
<1>2. ASSUME NEW o \in Turns, LinkProceeds(o) PROVE caller' = caller
  BY <1>2 DEF LinkProceeds, RedeemIssues, RevokeTakesEffect, RedeemReturns, RedeemRefused,
              RevokeReturns, RevokeRefused, ProviderBreaks
<1>3. ASSUME NEW o \in Turns, Advance(o), ~LinkProceeds(o) PROVE caller' = caller
  BY <1>3 DEF Advance, ResolveFails, TakePending, StartRun, BadPhoto, PerformWrite, WriteComesToNothing,
              RunReplies, RunPauses, RunFails, RunStays, AppendUser, AppendReply
<1>4. ASSUME \/ \E t \in Turns, s \in Services : ForgetRefused(t, s)
             \/ \E k \in live : Disconnect(k)
             \/ ChatCrash
             \/ AllOver
      PROVE  caller' = caller
  BY <1>4 DEF ForgetRefused, Forget, Disconnect, RevokedElsewhere, ChatCrash, AllOver, chatVars,
              linkVars
<1> QED
  BY <1>1, <1>2, <1>3, <1>4 DEF ChatNext

LEMMA QuietStep ==
    ASSUME ChatInv, ApprovalInv, MovesOn,
           UNCHANGED <<key, msg, taken, pending, staged, executed>>,
           \A t \in Turns : pc[t] # "idle" => caller'[t] = caller[t]
    PROVE  ApprovalInv'
<1>1. ParkedInv'
  BY DEF ApprovalInv, ParkedInv
<1>2. TakenInv'
  BY DEF ApprovalInv, TakenInv, MovesOn
<1>3. RunInv'
  <2> SUFFICES ASSUME NEW x \in executed
               PROVE  /\ taken'[x.turn] = x.write
                      /\ msg'[x.turn] = "yes"
                      /\ pc'[x.turn] # "approved"
                      /\ x.token.owner = caller'[x.turn]
                      /\ \A y \in executed : y.turn = x.turn => y = x
    BY DEF RunInv
  <2>1. x.turn \in Turns /\ pc[x.turn] # "idle"
    BY RunTypes
  <2> QED
    BY <2>1 DEF ApprovalInv, RunInv, MovesOn
<1> QED
  BY <1>1, <1>2, <1>3 DEF ApprovalInv

\* A request that arrives was never part of anything.
LEMMA ArriveStep ==
    ASSUME ChatInv, ApprovalInv, NEW t \in Turns, pc[t] = "idle",
           Moves(t, AnyPhase \ {"idle", "approved"}),
           \A o \in Turns \ {t} : key'[o] = key[o] /\ msg'[o] = msg[o] /\ caller'[o] = caller[o],
           UNCHANGED <<taken, staged, executed>>,
           \A k \in Keys : pending'[k] \in {None, pending[k]}
    PROVE  ApprovalInv'
<1>1. t \notin staged /\ taken[t] = None
  BY DEF ApprovalInv, TakenInv, Asked
<1>2. \A w \in staged : w # t /\ w \in Turns
  BY <1>1 DEF ChatInv, ChatData
<1>3. ParkedInv'
  BY <1>2 DEF ApprovalInv, ParkedInv
<1>4. TakenInv'
  BY <1>1, <1>2 DEF ApprovalInv, TakenInv, Moves
<1>5. RunInv'
  <2> SUFFICES ASSUME NEW x \in executed
               PROVE  /\ taken'[x.turn] = x.write
                      /\ msg'[x.turn] = "yes"
                      /\ pc'[x.turn] # "approved"
                      /\ x.token.owner = caller'[x.turn]
                      /\ \A y \in executed : y.turn = x.turn => y = x
    BY DEF RunInv
  <2>1. x.turn \in Turns \ {t}
    BY <1>1, RunTypes
  <2> QED
    BY <2>1 DEF ApprovalInv, RunInv, Moves
<1> QED
  BY <1>3, <1>4, <1>5 DEF ApprovalInv

LEMMA TakeStep ==
    ASSUME ChatInv, ApprovalInv, NEW t \in Turns, TakePending(t),
           \A o \in Turns : pc[o] # "idle" => caller'[o] = caller[o]
    PROVE  ApprovalInv'
<1> DEFINE w == pending[key[t]].write
<1>1. Moves(t, {"approved", "running"}) /\ pc[t] = "resolving" /\ key[t] \in Keys
  BY TurnSteps DEF TakePending, Resolved, ChatInv, ChatData
<1>2. /\ pending[key[t]] # None
      /\ pending' = [pending EXCEPT ![key[t]] = None]
      /\ taken' = [taken EXCEPT ![t] = w]
      /\ pc'[t] = "approved" => msg[t] = "yes"
      /\ UNCHANGED <<key, msg, staged, executed>>
  BY DEF TakePending, Unpark, is_clear_yes, ChatInv, TypeInv, DataOK
<1>3. w \in staged /\ w \in Turns /\ key[w] = key[t] /\ \A o \in Turns : taken[o] # w
  BY <1>1, <1>2 DEF ApprovalInv, ParkedInv, ChatInv, ChatData
<1>4. w # t /\ t \notin staged /\ taken[t] = None
  BY <1>1, <1>3 DEF ApprovalInv, TakenInv, Asked
<1>5. taken'[t] = w /\ \A o \in Turns \ {t} : taken'[o] = taken[o]
  BY <1>2 DEF ChatInv, ChatData
<1> HIDE DEF w
<1>6. ParkedInv'
  <2> SUFFICES ASSUME NEW k \in Keys, pending'[k] # None
               PROVE  /\ pending'[k].write \in staged
                      /\ key[pending'[k].write] = k
                      /\ \A o \in Turns : taken'[o] # pending'[k].write
    BY <1>2 DEF ParkedInv
  <2>1. k # key[t] /\ pending'[k] = pending[k]
    BY <1>1, <1>2 DEF ChatInv, ChatData
  <2> QED
    BY <1>3, <1>5, <2>1 DEF ApprovalInv, ParkedInv
<1>7. TakenInv'
  <2>1. ASSUME NEW o \in Turns \ {t}
        PROVE  /\ taken'[o] # None =>
                    /\ taken'[o] \in staged
                    /\ taken'[o] # o
                    /\ key[taken'[o]] = key[o]
                    /\ pc'[o] \notin {"idle", "resolving"}
                    /\ \A p \in Turns : taken'[p] = taken'[o] => p = o
               /\ pc'[o] = "approved" => msg[o] = "yes"
               /\ o \in staged => pc'[o] \in Asked
    BY <1>1, <1>3, <1>5 DEF ApprovalInv, TakenInv, Moves
  <2>2. /\ taken'[t] \in staged /\ taken'[t] # t /\ key[taken'[t]] = key[t]
        /\ pc'[t] \notin {"idle", "resolving"}
        /\ \A p \in Turns : taken'[p] = taken'[t] => p = t
    BY <1>1, <1>3, <1>4, <1>5 DEF Moves
  <2> QED
    BY <1>2, <1>4, <2>1, <2>2 DEF TakenInv
<1>8. RunInv'
  <2> SUFFICES ASSUME NEW x \in executed
               PROVE  /\ taken'[x.turn] = x.write
                      /\ msg[x.turn] = "yes"
                      /\ pc'[x.turn] # "approved"
                      /\ x.token.owner = caller'[x.turn]
                      /\ \A y \in executed : y.turn = x.turn => y = x
    BY <1>2 DEF RunInv
  <2>1. x.turn \in Turns \ {t} /\ pc[x.turn] # "idle"
    BY <1>4, RunTypes
  <2> QED
    BY <1>1, <1>5, <2>1 DEF ApprovalInv, RunInv, Moves
<1> QED
  BY <1>6, <1>7, <1>8 DEF ApprovalInv

LEMMA PerformStep ==
    ASSUME ChatInv, HeldInv, ApprovalInv, NEW t \in Turns, PerformWrite(t)
    PROVE  ApprovalInv'
<1> DEFINE new == [write |-> taken[t], turn |-> t, token |-> creds[t][Target], image |-> image[t]]
<1>1. /\ Moves(t, {"running"}) /\ pc[t] = "approved"
      /\ executed' = executed \cup {new}
      /\ UNCHANGED <<caller, key, msg, taken, pending, staged>>
  BY TurnSteps DEF PerformWrite, RunStays
<1>2. new.token.owner = caller[t]
  <2>1. creds[t][Target] # None
    BY Distinct DEF PerformWrite, ChatInv, TypeInv, DataOK
  <2> QED
    BY <2>1, ChatAssumption DEF HeldInv, Sound
<1>3. new.turn = t /\ new.write = taken[t]
  OBVIOUS
<1> HIDE DEF new
<1>4. msg[t] = "yes" /\ \A y \in executed : y.turn # t
  BY <1>1 DEF ApprovalInv, TakenInv, RunInv
<1>5. ParkedInv'
  BY <1>1 DEF ApprovalInv, ParkedInv
<1>6. TakenInv'
  BY <1>1 DEF ApprovalInv, TakenInv, Moves, Asked
<1>7. RunInv'
  <2>1. ASSUME NEW x \in executed
        PROVE  /\ taken[x.turn] = x.write
               /\ msg[x.turn] = "yes"
               /\ pc'[x.turn] # "approved"
               /\ x.token.owner = caller[x.turn]
               /\ \A y \in executed' : y.turn = x.turn => y = x
    <3>1. x.turn \in Turns \ {t}
      BY <1>4, RunTypes
    <3> QED
      BY <1>1, <1>3, <3>1 DEF ApprovalInv, RunInv, Moves
  <2>2. /\ taken[new.turn] = new.write
        /\ msg[new.turn] = "yes"
        /\ pc'[new.turn] # "approved"
        /\ new.token.owner = caller[new.turn]
        /\ \A y \in executed' : y.turn = new.turn => y = new
    BY <1>1, <1>2, <1>3, <1>4 DEF Moves
  <2> QED
    BY <1>1, <2>1, <2>2 DEF RunInv
<1> QED
  BY <1>5, <1>6, <1>7 DEF ApprovalInv

LEMMA PauseStep ==
    ASSUME ChatInv, ApprovalInv, NEW t \in Turns, RunPauses(t)
    PROVE  ApprovalInv'
<1>1. /\ Moves(t, {"reply"}) /\ pc[t] = "running" /\ key[t] \in Keys
      /\ staged' = staged \cup {t}
      /\ pending' = [pending EXCEPT ![key[t]] = [write |-> t, image |-> image[t]]]
      /\ UNCHANGED <<caller, key, msg, taken, executed>>
  BY TurnSteps DEF RunPauses, RunStays, Park, ChatInv, ChatData
<1>2. \A o \in Turns : taken[o] # t
  BY <1>1, Distinct DEF ApprovalInv, TakenInv, Asked
<1>3. ParkedInv'
  <2> SUFFICES ASSUME NEW k \in Keys, pending'[k] # None
               PROVE  /\ pending'[k].write \in staged'
                      /\ key[pending'[k].write] = k
                      /\ \A o \in Turns : taken[o] # pending'[k].write
    BY <1>1 DEF ParkedInv
  <2>1. CASE k = key[t]
    BY <1>1, <1>2, <2>1 DEF ChatInv, ChatData
  <2>2. CASE k # key[t]
    BY <1>1, <2>2 DEF ApprovalInv, ParkedInv, ChatInv, ChatData
  <2> QED
    BY <2>1, <2>2
<1>4. TakenInv'
  BY <1>1 DEF ApprovalInv, TakenInv, Moves, Asked
<1>5. RunInv'
  <2> SUFFICES ASSUME NEW x \in executed
               PROVE  /\ taken[x.turn] = x.write
                      /\ msg[x.turn] = "yes"
                      /\ pc'[x.turn] # "approved"
                      /\ x.token.owner = caller[x.turn]
                      /\ \A y \in executed : y.turn = x.turn => y = x
    BY <1>1 DEF RunInv
  <2>1. x.turn \in Turns
    BY RunTypes
  <2> QED
    BY <1>1, <2>1 DEF ApprovalInv, RunInv, Moves
<1> QED
  BY <1>3, <1>4, <1>5 DEF ApprovalInv

LEMMA ArriveApproval ==
    ASSUME ChatInv, ApprovalInv, NEW t \in Turns, Arrive(t)
    PROVE  ApprovalInv'
<1>0. caller \in [Turns -> Users \cup {None}]
  BY DEF ChatInv, TypeInv, DataOK
<1>1. ASSUME NEW u \in Callers, NEW k \in Keys, NEW command \in Commands,
             ReceiveLink(t, u, k, command)
      PROVE  ApprovalInv'
  <2>1. pc[t] = "idle" /\ Moves(t, AnyPhase \ {"idle", "approved"})
    BY <1>1, CommandSteps DEF Moves
  <2>2. \A o \in Turns \ {t} : key'[o] = key[o] /\ msg'[o] = msg[o]
    BY <1>1, SentData DEF ReceiveLink
  <2>3. caller' = [caller EXCEPT ![t] = u]
    BY <1>1 DEF ReceiveLink, Tell, Redeem, Logout
  <2>4. /\ \A c \in Keys : pending'[c] \in {None, pending[c]}
        /\ UNCHANGED <<taken, staged, executed>>
    BY <1>1 DEF ReceiveLink, Unpark, ChatInv, ChatData
  <2> QED
    BY <1>0, <2>1, <2>2, <2>3, <2>4, ArriveStep
<1>2. ASSUME NEW u \in Callers, NEW k \in Keys, NEW m \in Messages, NEW p \in Photos,
             ReceiveChat(t, u, k, m, p)
      PROVE  ApprovalInv'
  <2>1. pc[t] = "idle" /\ Moves(t, AnyPhase \ {"idle", "approved"})
    BY <1>2, OtherSteps DEF Moves
  <2>2. \A o \in Turns \ {t} : key'[o] = key[o] /\ msg'[o] = msg[o]
    BY <1>2, SentData DEF ReceiveChat
  <2>3. /\ caller' = [caller EXCEPT ![t] = u]
        /\ UNCHANGED <<taken, pending, staged, executed>>
    BY <1>2 DEF ReceiveChat
  <2> QED
    BY <1>0, <2>1, <2>2, <2>3, ArriveStep
<1> QED
  BY <1>1, <1>2 DEF Arrive

LEMMA AdvanceApproval ==
    ASSUME ChatInv, HeldInv, ApprovalInv, NEW t \in Turns, Advance(t),
           \A o \in Turns : pc[o] # "idle" => caller'[o] = caller[o]
    PROVE  ApprovalInv'
<1>1. CASE LinkProceeds(t)
  <2>1. pc[t] \in LinkWaits /\ Moves(t, LinkWaits \cup {"reply", "failed"})
    BY <1>1, LinkProceedSteps
  <2>2. MovesOn
    BY <2>1 DEF MovesOn, Moves, LinkWaits, Asked
  <2> QED
    BY <1>1, <2>2, QuietStep DEF LinkProceeds
<1>2. CASE StartRun(t) \/ ResolveFails(t) \/ BadPhoto(t) \/ WriteComesToNothing(t) \/ RunReplies(t)
           \/ RunFails(t)
  <2>1. Moves(t, {"running", "failed", "reply"}) /\ pc[t] \notin Asked
    BY <1>2, TurnSteps DEF Moves, StartRun, ResolveFails, BadPhoto, Resolved, WriteComesToNothing,
                           RunReplies, RunFails, Asked
  <2>2. MovesOn
    BY <2>1 DEF MovesOn, Moves
  <2>3. UNCHANGED <<key, msg, taken, pending, staged, executed>>
    BY <1>2 DEF StartRun, ResolveFails, BadPhoto, WriteComesToNothing, RunReplies, RunFails, RunStays
  <2> QED
    BY <2>2, <2>3, QuietStep
<1>3. CASE AppendUser(t) \/ AppendReply(t)
  <2>1. Moves(t, {"stored", "done"})
    BY <1>3, TurnSteps DEF Moves
  <2>2. MovesOn
    BY <2>1 DEF MovesOn, Moves, Asked
  <2> QED
    BY <1>3, <2>2, QuietStep DEF AppendUser, AppendReply
<1> QED
  BY <1>1, <1>2, <1>3, TakeStep, PerformStep, PauseStep DEF Advance

\* Whoever acts, the step is one LinkService accounts for.
LEMMA ChatStepFacts == ChatInv /\ [ChatNext]_chatVars => StepFacts
<1> SUFFICES ASSUME ChatInv, [ChatNext]_chatVars PROVE StepFacts
  OBVIOUS
<1>1. ASSUME NEW t \in Turns, Arrive(t) PROVE StepFacts
  BY <1>1, CommandSteps, OtherSteps DEF Arrive
<1>2. ASSUME NEW t \in Turns, Advance(t) PROVE StepFacts
  BY <1>2, TurnSteps, LinkProceedSteps DEF Advance
<1>3. ASSUME UNCHANGED chatVars PROVE StepFacts
  BY <1>3 DEF chatVars, linkVars, StepFacts, Forward, RowsFrom, ReadsOwn, IdleKept, MintsOnly
<1> QED
  BY <1>1, <1>2, <1>3, OtherSteps DEF ChatNext, AllOver

LEMMA ApprovalNext == ChatInv /\ HeldInv /\ ApprovalInv /\ [ChatNext]_chatVars => ApprovalInv'
<1> SUFFICES ASSUME ChatInv, HeldInv, ApprovalInv, [ChatNext]_chatVars PROVE ApprovalInv'
  OBVIOUS
<1>1. CASE UNCHANGED chatVars
  BY <1>1 DEF chatVars, linkVars, ApprovalInv, ParkedInv, TakenInv, RunInv
<1>2. CASE ChatNext
  <2>1. \A t \in Turns : pc[t] # "idle" => caller'[t] = caller[t]
    BY <1>2, OwnersStay
  <2>2. ASSUME NEW t \in Turns, NEW s \in Services, ForgetRefused(t, s) PROVE ApprovalInv'
    <3>1. MovesOn
      BY <2>2, OtherSteps DEF MovesOn
    <3> QED
      BY <2>1, <2>2, <3>1, QuietStep DEF ForgetRefused
  <2>3. ASSUME NEW k \in live, Disconnect(k) PROVE ApprovalInv'
    <3>1. MovesOn
      BY <2>3, OtherSteps DEF MovesOn
    <3> QED
      BY <2>1, <2>3, <3>1, QuietStep DEF Disconnect
  <2>4. ASSUME ChatCrash PROVE ApprovalInv'
    <3>1. MovesOn
      BY <2>4, OtherSteps DEF MovesOn, Asked
    <3> QED
      BY <2>1, <2>4, <3>1, QuietStep DEF ChatCrash
  <2> QED
    BY <1>1, <1>2, <2>1, <2>2, <2>3, <2>4, ArriveApproval, AdvanceApproval DEF ChatNext, AllOver
<1> QED
  BY <1>1, <1>2

LEMMA ApprovalInit == ChatInit => HeldInv /\ ApprovalInv
<1>1. ChatInit => HeldInv
  BY HeldInit DEF ChatInit
<1>2. ChatInit => ApprovalInv
  BY DEF ChatInit, LinkInit, ApprovalInv, ParkedInv, TakenInv, RunInv
<1> QED
  BY <1>1, <1>2

LEMMA ApprovalAlways == ChatSpec => [](ChatInv /\ HeldInv /\ ApprovalInv)
<1>1. ChatInv /\ HeldInv /\ [ChatNext]_chatVars => HeldInv'
  BY ChatStepFacts, HeldStep
<1> QED
  BY <1>1, ChatInitInv, ChatNextInv, ApprovalInit, ApprovalNext, PTL DEF ChatSpec

\* "Lost beats doubled" (chat_service.py:142-144): a write runs at most once,
\* for any number of turns, in any overlap, wherever the process dies.
THEOREM AtMostOnceHolds == ChatSpec => []AtMostOnce
<1>1. ASSUME ChatInv, ApprovalInv, NEW x \in executed, NEW y \in executed, x.write = y.write
      PROVE  x = y
  <2>1. /\ x.turn \in Turns /\ y.turn \in Turns
        /\ taken[x.turn] = taken[y.turn] /\ taken[x.turn] # None
    BY <1>1, RunTypes DEF ApprovalInv, RunInv
  <2>2. x.turn = y.turn
    BY <1>1, <2>1 DEF ApprovalInv, TakenInv
  <2> QED
    BY <1>1, <2>2 DEF ApprovalInv, RunInv
<1>2. ChatInv /\ HeldInv /\ ApprovalInv => AtMostOnce
  BY <1>1 DEF AtMostOnce
<1> QED
  BY <1>2, ApprovalAlways, PTL

\* A clear yes in the write's own conversation, by another turn, is behind
\* every write (chat_service.py:146-154).
THEOREM ConsentedByYesHolds == ChatSpec => []ConsentedByYes
<1>1. ASSUME ChatInv, ApprovalInv, NEW x \in executed
      PROVE  msg[x.turn] = "yes" /\ key[x.turn] = key[x.write] /\ x.turn # x.write
  <2>1. x.turn \in Turns /\ taken[x.turn] = x.write /\ taken[x.turn] # None
    BY <1>1, RunTypes DEF ApprovalInv, RunInv
  <2> QED
    BY <1>1, <2>1 DEF ApprovalInv, RunInv, TakenInv
<1>2. ChatInv /\ HeldInv /\ ApprovalInv => ConsentedByYes
  BY <1>1 DEF ConsentedByYes
<1> QED
  BY <1>2, ApprovalAlways, PTL

\* "On that person's own tokens and nobody else's" (chat_service.py:16-18),
\* for writes.
THEOREM OwnCredentialHolds == ChatSpec => []OwnCredential
<1>1. ChatInv /\ HeldInv /\ ApprovalInv => OwnCredential
  BY DEF ApprovalInv, RunInv, OwnCredential
<1> QED
  BY <1>1, ApprovalAlways, PTL

-----------------------------------------------------------------------------
(* Turns, tables and crashes implement WriteApproval: what each stage      *)
(* means.                                                                  *)

USE DEF requestVars, turnVars, historyVars

Performed(w) == \E x \in executed : x.write = w

InHand(w) == \E t \in Turns : taken[t] = w /\ pc[t] = "approved"

\* A write is in one place at a time, so the order of StageOf does not matter.
StagesAre == \A w \in Turns :
    /\ StageOf(w) \in {"unasked", "waiting", "approved", "performed", "gone"}
    /\ StageOf(w) = "unasked" <=> w \notin staged
    /\ StageOf(w) = "performed" <=> Performed(w)
    /\ StageOf(w) = "waiting" <=> Waits(w)
    /\ StageOf(w) = "approved" <=> InHand(w)

LEMMA StagesNow == ChatInv /\ ApprovalInv => StagesAre
<1> SUFFICES ASSUME ChatInv, ApprovalInv, NEW w \in Turns
             PROVE  /\ StageOf(w) \in {"unasked", "waiting", "approved", "performed", "gone"}
                    /\ StageOf(w) = "unasked" <=> w \notin staged
                    /\ StageOf(w) = "performed" <=> Performed(w)
                    /\ StageOf(w) = "waiting" <=> Waits(w)
                    /\ StageOf(w) = "approved" <=> InHand(w)
  BY DEF StagesAre
<1>1. Performed(w) => w \in staged /\ ~Waits(w) /\ ~InHand(w)
  <2> SUFFICES ASSUME NEW x \in executed, x.write = w
               PROVE  w \in staged /\ ~Waits(w) /\ ~InHand(w)
    BY DEF Performed
  <2>1. x.turn \in Turns /\ taken[x.turn] = w /\ pc[x.turn] # "approved"
    BY RunTypes DEF ApprovalInv, RunInv
  <2>2. w # None
    BY Distinct
  <2> QED
    BY <2>1, <2>2 DEF ApprovalInv, TakenInv, ParkedInv, Waits, InHand
<1>2. Waits(w) => w \in staged /\ ~InHand(w)
  BY DEF ApprovalInv, ParkedInv, Waits, InHand
<1>3. InHand(w) => w \in staged
  BY Distinct DEF ApprovalInv, TakenInv, InHand
<1> QED
  BY <1>1, <1>2, <1>3 DEF StageOf, Performed, InHand

LEMMA StagesNext == (ChatInv /\ ApprovalInv)' => StagesAre'
BY StagesNow, PTL

\* Where a write was asked about.
HomeOf(w) == IF w \in staged THEN key[w] ELSE None

-----------------------------------------------------------------------------
(* The steps of WriteApproval, write by write.                             *)

Only(W) == \A v \in Turns \ W : StageOf(v)' = StageOf(v)

HomesStay == \A v \in Turns : HomeOf(v)' = HomeOf(v)

LEMMA Stutters ==
    ASSUME Only({}), HomesStay
    PROVE  UNCHANGED Approval!vars
BY DEF Only, HomesStay, HomeOf, Approval!vars

LEMMA IsAbandon ==
    ASSUME NEW w \in Turns, StageOf(w) \in {"waiting", "approved"}, StageOf(w)' = "gone",
           Only({w}), HomesStay
    PROVE  Approval!Next
<1>1. Approval!Abandon(w)
  BY DEF Only, HomesStay, HomeOf, Approval!Abandon, Approval!Move
<1> QED
  BY <1>1 DEF Approval!Next

LEMMA IsApprove ==
    ASSUME NEW w \in Turns, StageOf(w) = "waiting", StageOf(w)' = "approved",
           Only({w}), HomesStay
    PROVE  Approval!Next
<1>1. Approval!Approve(w)
  BY DEF Only, HomesStay, HomeOf, Approval!Approve, Approval!Move
<1> QED
  BY <1>1 DEF Approval!Next

LEMMA IsPerform ==
    ASSUME NEW w \in Turns, StageOf(w) = "approved", StageOf(w)' = "performed",
           Only({w}), HomesStay
    PROVE  Approval!Next
<1>1. Approval!Perform(w)
  BY DEF Only, HomesStay, HomeOf, Approval!Perform, Approval!Move
<1> QED
  BY <1>1 DEF Approval!Next

LEMMA IsAsk ==
    ASSUME StagesAre, NEW w \in Turns, StageOf(w) = "unasked", StageOf(w)' = "waiting",
           NEW c \in Keys, HomeOf(w)' = c,
           \A v \in Turns \ {w} : HomeOf(v)' = HomeOf(v),
           \A v \in Turns \ {w} :
               StageOf(v)' = IF StageOf(v) = "waiting" /\ HomeOf(v) = c THEN "gone" ELSE StageOf(v)
    PROVE  Approval!Next
<1>1. Approval!Ask(w, c)
  <2>1. \A v \in Turns : v \in Approval!Waiting(c) <=> StageOf(v) = "waiting" /\ HomeOf(v) = c
    BY DEF Approval!Waiting, HomeOf
  <2> QED
    BY <2>1 DEF HomeOf, Approval!Ask
<1> QED
  BY <1>1 DEF Approval!Next

LEMMA IsLose ==
    ASSUME \A v \in Turns : StageOf(v)' = IF StageOf(v) = "approved" THEN "gone" ELSE StageOf(v),
           HomesStay
    PROVE  Approval!Next
<1>1. Approval!Lose
  BY DEF HomesStay, HomeOf, Approval!Lose, Approval!Move
<1> QED
  BY <1>1 DEF Approval!Next

-----------------------------------------------------------------------------
(* The steps of ChatService.                                               *)

Mapped == Approval!Next \/ UNCHANGED Approval!vars

\* Turns that leave the tables alone and are not in hand before or after.
LEMMA QuietMaps ==
    ASSUME ChatInv, StagesAre, StagesAre',
           \A t \in Turns : pc'[t] = "approved" <=> pc[t] = "approved",
           \A t \in staged : key'[t] = key[t],
           UNCHANGED <<taken, pending, staged, executed>>
    PROVE  Mapped
<1>1. HomesStay
  BY DEF HomesStay, HomeOf
<1>2. Only({})
  <2> SUFFICES ASSUME NEW v \in Turns PROVE StageOf(v)' = StageOf(v)
    BY DEF Only
  <2>1. (Performed(v)' <=> Performed(v)) /\ (Waits(v)' <=> Waits(v)) /\ (InHand(v)' <=> InHand(v))
    BY DEF Performed, Waits, InHand
  <2> QED
    BY <2>1 DEF StagesAre
<1> QED
  BY <1>1, <1>2, Stutters DEF Mapped

\* A turn gives up the write it has in hand.
LEMMA DropMaps ==
    ASSUME ChatInv, ApprovalInv, StagesAre, StagesAre', NEW t \in Turns,
           pc[t] = "approved", pc'[t] # "approved",
           \A o \in Turns \ {t} : pc'[o] = pc[o],
           UNCHANGED <<key, taken, pending, staged, executed>>
    PROVE  Mapped
<1>0. PICK w \in Turns : w = taken[t] /\ w # None
  BY DEF ChatInv, ChatData
<1>1. InHand(w) /\ \A o \in Turns : taken[o] = w => o = t
  BY <1>0 DEF InHand, ApprovalInv, TakenInv
<1>2. \A v \in Turns : /\ Performed(v)' <=> Performed(v)
                       /\ Waits(v)' <=> Waits(v)
                       /\ InHand(v)' <=> InHand(v) /\ v # w
  BY <1>0, <1>1 DEF Performed, Waits, InHand
<1>3. StageOf(w) = "approved" /\ StageOf(w)' = "gone" /\ Only({w})
  BY <1>1, <1>2 DEF StagesAre, Only
<1>4. HomesStay
  BY DEF HomesStay, HomeOf
<1> QED
  BY <1>1, <1>3, <1>4, IsAbandon DEF Mapped

\* A conversation stops waiting, for whatever reason.
LEMMA UnparkMaps ==
    ASSUME ChatInv, ApprovalInv, StagesAre, StagesAre', NEW k \in Keys,
           pending[k] # None, pending' = [pending EXCEPT ![k] = None],
           NEW w, w = pending[k].write,
           \A v \in Turns \ {w} : InHand(v)' <=> InHand(v),
           \A v \in staged : key'[v] = key[v],
           UNCHANGED <<staged, executed>>
    PROVE  Mapped
<1>1. w \in Turns /\ w \in staged /\ key[w] = k /\ Waits(w)
  BY DEF Waits, ApprovalInv, ParkedInv, ChatInv, ChatData, Parked
<1>2. \A v \in Turns : Waits(v)' <=> Waits(v) /\ v # w
  <2>1. ASSUME NEW v \in Turns, NEW c \in Keys, pending[c] # None, pending[c].write = v
        PROVE  key[v] = c
    BY <2>1 DEF ApprovalInv, ParkedInv
  <2>2. \A c \in Keys : pending'[c] = IF c = k THEN None ELSE pending[c]
    BY DEF ChatInv, ChatData
  <2> QED
    BY <1>1, <2>1, <2>2 DEF Waits
<1>3. \A v \in Turns : Performed(v)' <=> Performed(v)
  BY DEF Performed
<1>4. StageOf(w) = "waiting" /\ StageOf(w)' \in {"approved", "gone"} /\ Only({w})
  BY <1>1, <1>2, <1>3 DEF StagesAre, Only
<1>5. HomesStay
  BY DEF HomesStay, HomeOf
<1> QED
  BY <1>1, <1>4, <1>5, IsAbandon, IsApprove DEF Mapped

LEMMA TakeMaps ==
    ASSUME ChatInv, ApprovalInv, StagesAre, StagesAre', NEW t \in Turns, TakePending(t)
    PROVE  Mapped
<1>1. /\ Moves(t, {"approved", "running"}) /\ pc[t] = "resolving" /\ key[t] \in Keys
      /\ pending[key[t]] # None
      /\ pending' = [pending EXCEPT ![key[t]] = None]
      /\ taken' = [taken EXCEPT ![t] = pending[key[t]].write]
      /\ UNCHANGED <<key, staged, executed>>
  BY TurnSteps DEF TakePending, Resolved, Unpark, ChatInv, ChatData
<1>2. PICK w : w = pending[key[t]].write
  OBVIOUS
<1>3. /\ taken'[t] = w
      /\ \A o \in Turns \ {t} : taken'[o] = taken[o] /\ pc'[o] = pc[o]
  BY <1>1, <1>2 DEF ChatInv, ChatData, Moves
<1>4. \A v \in Turns \ {w} : InHand(v)' <=> InHand(v)
  BY <1>1, <1>3 DEF InHand
<1> QED
  BY <1>1, <1>2, <1>4, UnparkMaps

LEMMA PerformMaps ==
    ASSUME ChatInv, ApprovalInv, StagesAre, StagesAre', NEW t \in Turns, PerformWrite(t)
    PROVE  Mapped
<1>1. /\ Moves(t, {"running"}) /\ pc[t] = "approved"
      /\ executed' = executed \cup {[write |-> taken[t], turn |-> t,
                                     token |-> creds[t][Target], image |-> image[t]]}
      /\ UNCHANGED <<key, taken, pending, staged>>
  BY TurnSteps DEF PerformWrite, RunStays
<1>2. PICK w \in Turns : w = taken[t] /\ w # None
  BY <1>1 DEF ChatInv, ChatData
<1>3. InHand(w) /\ \A o \in Turns : taken[o] = w => o = t
  BY <1>1, <1>2 DEF InHand, ApprovalInv, TakenInv
<1>4. \A v \in Turns : Performed(v)' <=> Performed(v) \/ v = w
  <2>1. PICK x : x.write = w /\ executed' = executed \cup {x}
    BY <1>1, <1>2
  <2> QED
    BY <2>1 DEF Performed
<1>5. \A v \in Turns : (Waits(v)' <=> Waits(v)) /\ (InHand(v)' <=> InHand(v) /\ v # w)
  BY <1>1, <1>2, <1>3 DEF Waits, InHand, Moves
<1>6. StageOf(w) = "approved" /\ StageOf(w)' = "performed" /\ Only({w})
  BY <1>1, <1>3, <1>4, <1>5 DEF StagesAre, Only
<1>7. HomesStay
  BY <1>1 DEF HomesStay, HomeOf
<1> QED
  BY <1>6, <1>7, IsPerform DEF Mapped

LEMMA PauseMaps ==
    ASSUME ChatInv, ApprovalInv, StagesAre, StagesAre', NEW t \in Turns, RunPauses(t)
    PROVE  Mapped
<1>1. /\ Moves(t, {"reply"}) /\ pc[t] = "running"
      /\ staged' = staged \cup {t}
      /\ pending' = [pending EXCEPT ![key[t]] = [write |-> t, image |-> image[t]]]
      /\ UNCHANGED <<key, taken, executed>>
  BY TurnSteps DEF RunPauses, RunStays, Park
<1>2. PICK k \in Keys : k = key[t]
  BY <1>1 DEF ChatInv, ChatData
<1>3. t \notin staged
  BY <1>1 DEF ApprovalInv, TakenInv, Asked
<1>4. \A c \in Keys : pending'[c] = IF c = k THEN [write |-> t, image |-> image[t]] ELSE pending[c]
  BY <1>1, <1>2 DEF ChatInv, ChatData
<1>5. pending'[k].write = t /\ pending'[k] # None
  <2>1. [write |-> t, image |-> image[t]] \in Parked
    BY DEF ChatInv, ChatData, Parked
  <2>2. pending'[k] = [write |-> t, image |-> image[t]]
    BY <1>4
  <2> QED
    BY <2>1, <2>2, Distinct
<1>6. Waits(t)' /\ \A v \in Turns \ {t} :
                       Waits(v)' <=> Waits(v) /\ ~(v \in staged /\ key[v] = k)
  <2>1. ASSUME NEW v \in Turns, NEW c \in Keys, pending[c] # None, pending[c].write = v
        PROVE  key[v] = c /\ v \in staged
    BY <2>1 DEF ApprovalInv, ParkedInv
  <2> QED
    BY <1>4, <1>5, <2>1 DEF Waits
<1>7. \A v \in Turns : (Performed(v)' <=> Performed(v)) /\ (InHand(v)' <=> InHand(v))
  BY <1>1 DEF Performed, InHand, Moves
<1>8. StageOf(t) = "unasked" /\ StageOf(t)' = "waiting"
  BY <1>3, <1>6 DEF StagesAre
<1>9. \A v \in Turns \ {t} :
          StageOf(v)' = IF StageOf(v) = "waiting" /\ HomeOf(v) = k THEN "gone" ELSE StageOf(v)
  BY <1>1, <1>6, <1>7, Distinct DEF StagesAre, HomeOf
<1>10. HomeOf(t)' = k /\ \A v \in Turns \ {t} : HomeOf(v)' = HomeOf(v)
  BY <1>1, <1>2 DEF HomeOf
<1> QED
  BY <1>8, <1>9, <1>10, IsAsk DEF Mapped

LEMMA CrashMaps ==
    ASSUME ChatInv, StagesAre, StagesAre', ChatCrash
    PROVE  Mapped
<1>1. \A t \in Turns : pc'[t] # "approved" /\ UNCHANGED <<key, taken, pending, staged, executed>>
  BY DEF ChatCrash, InProgress, Over
<1>2. \A v \in Turns : ~InHand(v)' /\ (Performed(v)' <=> Performed(v)) /\ (Waits(v)' <=> Waits(v))
  BY <1>1 DEF InHand, Performed, Waits
<1>3. UNCHANGED <<key, staged>>
  BY DEF ChatCrash
<1>4. \A v \in Turns : StageOf(v)' = IF StageOf(v) = "approved" THEN "gone" ELSE StageOf(v)
  BY <1>2, <1>3 DEF StagesAre
<1>5. HomesStay
  BY <1>3 DEF HomesStay, HomeOf
<1> QED
  BY <1>4, <1>5, IsLose DEF Mapped

LEMMA ArriveMaps ==
    ASSUME ChatInv, ApprovalInv, StagesAre, StagesAre', NEW t \in Turns, Arrive(t)
    PROVE  Mapped
<1>1. ASSUME NEW u \in Callers, NEW k \in Keys, NEW command \in Commands,
             ReceiveLink(t, u, k, command)
      PROVE  Mapped
  <2>1. pc[t] = "idle" /\ Moves(t, {"reply", "redeeming", "revoking"})
    BY <1>1, CommandSteps
  <2>2. \A o \in Turns \ {t} : key'[o] = key[o]
    BY <1>1, SentData DEF ReceiveLink
  <2>3. \A o \in staged : key'[o] = key[o]
    BY <2>1, <2>2 DEF ApprovalInv, TakenInv, Asked, ChatInv, ChatData
  <2>4. pending' = [pending EXCEPT ![k] = None] /\ UNCHANGED <<taken, staged, executed>>
    BY <1>1 DEF ReceiveLink, Unpark
  <2>5. \A o \in Turns : pc'[o] = "approved" <=> pc[o] = "approved"
    BY <2>1 DEF Moves
  <2>6. CASE pending[k] = None
    <3>1. pending' = pending
      BY <2>4, <2>6 DEF ChatInv, ChatData
    <3> QED
      BY <2>3, <2>4, <2>5, <3>1, QuietMaps
  <2>7. CASE pending[k] # None
    <3>1. \A v \in Turns : InHand(v)' <=> InHand(v)
      BY <2>4, <2>5 DEF InHand
    <3>2. PICK w : w = pending[k].write
      OBVIOUS
    <3> QED
      BY <2>3, <2>4, <2>7, <3>1, <3>2, UnparkMaps
  <2> QED
    BY <2>6, <2>7
<1>2. ASSUME NEW u \in Callers, NEW k \in Keys, NEW m \in Messages, NEW p \in Photos,
             ReceiveChat(t, u, k, m, p)
      PROVE  Mapped
  <2>1. pc[t] = "idle" /\ Moves(t, {"resolving"})
    BY <1>2, OtherSteps
  <2>2. \A o \in Turns \ {t} : key'[o] = key[o]
    BY <1>2, SentData DEF ReceiveChat
  <2>3. \A o \in staged : key'[o] = key[o]
    BY <2>1, <2>2 DEF ApprovalInv, TakenInv, Asked, ChatInv, ChatData
  <2>4. UNCHANGED <<taken, pending, staged, executed>>
    BY <1>2 DEF ReceiveChat
  <2>5. \A o \in Turns : pc'[o] = "approved" <=> pc[o] = "approved"
    BY <2>1 DEF Moves
  <2> QED
    BY <2>3, <2>4, <2>5, QuietMaps
<1> QED
  BY <1>1, <1>2 DEF Arrive

LEMMA AdvanceMaps ==
    ASSUME ChatInv, ApprovalInv, StagesAre, StagesAre', NEW t \in Turns, Advance(t)
    PROVE  Mapped
<1>1. CASE LinkProceeds(t)
  <2>1. \A o \in Turns : pc'[o] = "approved" <=> pc[o] = "approved"
    BY <1>1, LinkProceedSteps DEF Moves, LinkWaits
  <2> QED
    BY <1>1, <2>1, QuietMaps DEF LinkProceeds
<1>2. ASSUME \/ ResolveFails(t) \/ BadPhoto(t) \/ StartRun(t) \/ RunReplies(t)
             \/ AppendUser(t) \/ AppendReply(t) \/ RunFails(t) \/ WriteComesToNothing(t)
      PROVE  Mapped
  <2>1. pc'[t] # "approved" /\ \A o \in Turns \ {t} : pc'[o] = pc[o]
    BY <1>2, TurnSteps DEF Moves
  <2>2. UNCHANGED <<key, taken, pending, staged, executed>>
    BY <1>2 DEF ResolveFails, BadPhoto, StartRun, RunReplies, AppendUser, AppendReply, RunFails,
                WriteComesToNothing, RunStays
  <2>3. CASE pc[t] = "approved"
    BY <2>1, <2>2, <2>3, DropMaps
  <2>4. CASE pc[t] # "approved"
    <3>1. \A o \in Turns : pc'[o] = "approved" <=> pc[o] = "approved"
      BY <2>1, <2>4
    <3> QED
      BY <2>2, <3>1, QuietMaps
  <2> QED
    BY <2>3, <2>4
<1> QED
  BY <1>1, <1>2, TakeMaps, PerformMaps, PauseMaps DEF Advance

LEMMA StepMaps ==
    ChatInv /\ ApprovalInv /\ (ChatInv /\ ApprovalInv)' /\ [ChatNext]_chatVars
        => [Approval!Next]_(Approval!vars)
<1> SUFFICES ASSUME ChatInv, ApprovalInv, (ChatInv /\ ApprovalInv)', [ChatNext]_chatVars
             PROVE  Mapped
  BY DEF Mapped
<1>1. StagesAre /\ StagesAre'
  BY StagesNow, StagesNext
<1>2. ASSUME NEW t \in Turns, NEW s \in Services, ForgetRefused(t, s) PROVE Mapped
  <2>1. pc' = pc
    BY <1>2, OtherSteps
  <2> QED
    BY <1>1, <1>2, <2>1, QuietMaps DEF ForgetRefused
<1>3. ASSUME NEW k \in live, Disconnect(k) PROVE Mapped
  <2>1. pc' = pc
    BY <1>3, OtherSteps
  <2> QED
    BY <1>1, <1>3, <2>1, QuietMaps DEF Disconnect
<1>4. ASSUME UNCHANGED chatVars PROVE Mapped
  BY <1>1, <1>4, QuietMaps DEF chatVars, linkVars
<1> QED
  BY <1>1, <1>2, <1>3, <1>4, CrashMaps, ArriveMaps, AdvanceMaps DEF ChatNext, AllOver

LEMMA InitMaps == ChatInit => Approval!Init
BY DEF ChatInit, Approval!Init, StageOf

\* "Writes cannot run on the model's say-so" (README.md:217-225): asked about
\* in one conversation, answered once, performed at most once and only when
\* approved, lost rather than doubled, for any number of turns, people and
\* conversations, in any overlap, wherever the process dies.
THEOREM ChatImplementsWriteApproval == ChatSpec => ImplementsWriteApproval
<1>1. ChatSpec => [](ChatInv /\ ApprovalInv)
  BY ApprovalAlways, PTL
<1>2. ChatSpec => Approval!Init /\ [][Approval!Next]_(Approval!vars)
  BY <1>1, InitMaps, StepMaps, PTL DEF ChatSpec
<1> QED
  BY <1>2 DEF ImplementsWriteApproval, Approval!Spec
=============================================================================
