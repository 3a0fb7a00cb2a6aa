-------------------------- MODULE ChatConsentProofs --------------------------
(***************************************************************************)
(* What a yes means: the photo, the identity and the question it is about, *)
(* and the history around it.  Some of it holds whatever overlaps and      *)
(* however often the process dies, some only while the bridge waits for    *)
(* answers, some only until something has gone wrong; each theorem says    *)
(* which.                                                                  *)
(***************************************************************************)
EXTENDS ChatServiceProofs

USE DEF Goto, Row, AnyPhase, requestVars, turnVars, historyVars

-----------------------------------------------------------------------------
(* What steps leave alone.                                                 *)

\* Only an arrival says who asks what, where and looking at which answer.
LEMMA RequestsStay ==
    ASSUME ChatInv, [ChatNext]_chatVars, \A t \in Turns : ~Arrive(t)
    PROVE  UNCHANGED <<caller, key, msg, photo, last, facing>>
<1>1. ASSUME NEW t \in Turns, LinkProceeds(t)
      PROVE  UNCHANGED <<caller, key, msg, photo, last, facing>>
  BY <1>1 DEF LinkProceeds, RedeemIssues, RevokeTakesEffect, RedeemReturns, RedeemRefused,
              RevokeReturns, RevokeRefused, ProviderBreaks
<1>2. ASSUME NEW t \in Turns, Advance(t), ~LinkProceeds(t)
      PROVE  UNCHANGED <<caller, key, msg, photo, last, facing>>
  BY <1>2 DEF Advance, ResolveFails, TakePending, StartRun, BadPhoto, PerformWrite,
              WriteComesToNothing, RunReplies, RunPauses, RunFails, RunStays, AppendUser,
              AppendReply
<1> QED
  BY <1>1, <1>2 DEF ChatNext, ForgetRefused, Forget, Disconnect, RevokedElsewhere, ChatCrash,
                    AllOver, chatVars, linkVars

\* One turn moves and the others stay, or everybody in progress dies, or nobody moves.
LEMMA OneMoves ==
    ASSUME ChatInv, [ChatNext]_chatVars, \A t \in Turns : ~Arrive(t)
    PROVE  \A t \in Turns :
              /\ pc'[t] = "idle" <=> pc[t] = "idle"
              /\ InProgress(t)' => InProgress(t)
              /\ pc'[t] # pc[t] => InProgress(t)
<1> SUFFICES ASSUME NEW t \in Turns
             PROVE  /\ pc'[t] = "idle" <=> pc[t] = "idle"
                    /\ InProgress(t)' => InProgress(t)
                    /\ pc'[t] # pc[t] => InProgress(t)
  OBVIOUS
<1> USE DEF InProgress, Over, Moves
<1>1. ASSUME NEW o \in Turns, LinkProceeds(o)
      PROVE  /\ pc'[t] = "idle" <=> pc[t] = "idle"
             /\ InProgress(t)' => InProgress(t)
             /\ pc'[t] # pc[t] => InProgress(t)
  BY <1>1, LinkProceedSteps DEF LinkWaits
<1>2. ASSUME NEW o \in Turns, Advance(o), ~LinkProceeds(o)
      PROVE  /\ pc'[t] = "idle" <=> pc[t] = "idle"
             /\ InProgress(t)' => InProgress(t)
             /\ pc'[t] # pc[t] => InProgress(t)
  <2>1. pc[o] \in {"resolving", "approved", "running", "reply", "stored"}
    BY <1>2 DEF Advance, ResolveFails, TakePending, StartRun, BadPhoto, Resolved, PerformWrite,
                WriteComesToNothing, RunReplies, RunPauses, RunFails, AppendUser, AppendReply
  <2>2. Moves(o, {"approved", "running", "reply", "failed", "stored", "done"})
    BY <1>2, TurnSteps DEF Advance
  <2> QED
    BY <2>1, <2>2
<1>3. CASE ChatCrash
  BY <1>3 DEF ChatCrash, ChatInv, TypeInv, DataOK
<1>4. CASE UNCHANGED pc
  BY <1>4
<1> QED
  BY <1>1, <1>2, <1>3, <1>4, OtherSteps DEF ChatNext, AllOver, chatVars, linkVars

\* A request that arrives: who asks, and what it finds.
Enters(t, u, k) ==
    /\ MayBeSent(t, u, k)
    /\ pc' = [pc EXCEPT ![t] = pc'[t]]
    /\ caller' = [caller EXCEPT ![t] = u]
    /\ key' = [key EXCEPT ![t] = k]
    /\ last' = [last EXCEPT ![k] = t]
    /\ facing' = [facing EXCEPT ![t] = Shown(k)]
    /\ pc'[t] \in {"reply", "redeeming", "revoking", "resolving"}
    /\ pending' = IF pc'[t] = "resolving" THEN pending ELSE Unpark(k)
    /\ UNCHANGED <<image, taken, messages, staged, executed>>

LEMMA ArriveEnters ==
    ASSUME ChatInv, NEW t \in Turns, Arrive(t)
    PROVE  \E u \in Callers, k \in Keys :
              /\ Enters(t, u, k)
              /\ \A o \in Turns \ {t} : msg'[o] = msg[o] /\ photo'[o] = photo[o]
<1> USE DEF ChatInv, TypeInv, DataOK, ChatData
<1>1. ASSUME NEW u \in Callers, NEW k \in Keys, NEW command \in Commands,
             ReceiveLink(t, u, k, command)
      PROVE  /\ Enters(t, u, k)
             /\ \A o \in Turns \ {t} : msg'[o] = msg[o] /\ photo'[o] = photo[o]
  <2>1. /\ MayBeSent(t, u, k) /\ Sent(t, k, command, "none") /\ pending' = Unpark(k)
        /\ Tell(t, u, command) \/ Redeem(t, u) \/ Logout(t, u)
        /\ UNCHANGED <<image, taken, messages, staged, executed>>
    BY <1>1 DEF ReceiveLink
  <2>2. Moves(t, {"reply", "redeeming", "revoking"})
    BY <1>1, CommandSteps
  <2>3. caller' = [caller EXCEPT ![t] = u]
    BY <2>1 DEF Tell, Redeem, Logout
  <2>4. pc' = [pc EXCEPT ![t] = pc'[t]]
    BY <2>1, <2>2 DEF Tell, Redeem, Logout, RevokeNext, Reply
  <2> QED
    BY <2>1, <2>2, <2>3, <2>4 DEF Enters, Sent, Moves
<1>2. ASSUME NEW u \in Callers, NEW k \in Keys, NEW m \in Messages, NEW p \in Photos,
             ReceiveChat(t, u, k, m, p)
      PROVE  /\ Enters(t, u, k)
             /\ \A o \in Turns \ {t} : msg'[o] = msg[o] /\ photo'[o] = photo[o]
  <2>1. pc' = [pc EXCEPT ![t] = "resolving"] /\ pc'[t] = "resolving"
    BY <1>2 DEF ReceiveChat
  <2> QED
    BY <1>2, <2>1 DEF ReceiveChat, Enters, Sent
<1> QED
  BY <1>1, <1>2 DEF Arrive

-----------------------------------------------------------------------------
(* The photo of a request.                                                 *)

\* A run works on the photo of the turn whose question it answers, or on its own.
PhotoInv ==
    /\ \A t \in Turns :
          /\ pc[t] \in {"idle", "resolving"} => image[t] = None
          /\ (pc[t] = "running" \/ t \in staged) /\ taken[t] = None => image[t] = OwnPhoto(t)
          /\ taken[t] # None => image[t] = image[taken[t]]
          /\ image[t] # None => pc[image[t]] # "idle" /\ key[image[t]] = key[t]
    /\ \A k \in Keys : pending[k] # None => pending[k].image = image[pending[k].write]
    /\ \A x \in executed : x.image = image[x.turn]

\* What the steps to come need to know of writes.
LEMMA WriteFacts ==
    ASSUME ChatInv, ApprovalInv
    PROVE  /\ \A t \in Turns : pc[t] \in {"idle", "resolving", "running", "approved"} =>
                 t \notin staged /\ \A o \in Turns : taken[o] # t
           /\ \A t \in Turns : pc[t] \in {"idle", "resolving"} => taken[t] = None
           /\ \A k \in Keys : pending[k] # None =>
                 pending[k].write \in Turns /\ pending[k].write \in staged
           /\ \A x \in executed : x.turn \in Turns /\ x.write \in staged /\ taken[x.turn] = x.write
                                  /\ pc[x.turn] \notin {"idle", "resolving"}
<1>1. staged \subseteq Turns
  BY DEF ChatInv, ChatData
<1>2. \A t \in Turns : pc[t] \in {"idle", "resolving", "running", "approved"} => t \notin staged
  BY DEF ApprovalInv, TakenInv, Asked
<1>3. \A o \in Turns : taken[o] # None => taken[o] \in staged
  BY DEF ApprovalInv, TakenInv
<1>4. \A x \in executed : x.turn \in Turns /\ taken[x.turn] # None /\ taken[x.turn] = x.write
                          /\ pc[x.turn] \notin {"idle", "resolving"}
  BY RunTypes DEF ApprovalInv, RunInv
<1>5. \A t \in Turns : pc[t] \in {"idle", "resolving"} => taken[t] = None
  BY DEF ApprovalInv, TakenInv
<1>6. \A k \in Keys : pending[k] # None => pending[k].write \in staged
  BY DEF ApprovalInv, ParkedInv
<1> QED
  BY <1>1, <1>2, <1>3, <1>4, <1>5, <1>6, Distinct

\* A step that leaves photos, writes and conversations alone.
LEMMA PhotoQuiet ==
    ASSUME PhotoInv, UNCHANGED <<image, taken, pending, staged, executed, key, photo>>,
           \A o \in Turns : /\ pc'[o] \in {"idle", "resolving"} => pc[o] = pc'[o]
                            /\ pc'[o] = "running" => pc[o] = "running" \/ taken[o] # None,
           \A o \in Turns : pc[o] # "idle" => pc'[o] # "idle",
           image \in [Turns -> Photo]
    PROVE  PhotoInv'
BY DEF PhotoInv, OwnPhoto, Photo

LEMMA PhotoArrive ==
    ASSUME ChatInv, ApprovalInv, PhotoInv, NEW t \in Turns, Arrive(t)
    PROVE  PhotoInv'
<1> USE DEF ChatInv, TypeInv, DataOK, ChatData
<1>1. PICK u \in Callers, k \in Keys :
          /\ Enters(t, u, k)
          /\ \A o \in Turns \ {t} : msg'[o] = msg[o] /\ photo'[o] = photo[o]
  BY ArriveEnters
<1>2. /\ pc[t] = "idle" /\ pc'[t] \notin {"idle", "running"}
      /\ \A o \in Turns \ {t} : pc'[o] = pc[o] /\ key'[o] = key[o] /\ OwnPhoto(o)' = OwnPhoto(o)
      /\ UNCHANGED <<image, taken, staged, executed>>
      /\ \A c \in Keys : pending'[c] \in {None, pending[c]}
  BY <1>1 DEF Enters, MayBeSent, OwnPhoto, Unpark
<1>3. t \notin staged /\ image[t] = None /\ taken[t] = None
  BY <1>2, WriteFacts DEF PhotoInv
<1>4. \A o \in Turns \ {t} : /\ image[o] # None => image[o] \in Turns \ {t}
                             /\ taken[o] # None => taken[o] \in Turns \ {t}
  BY <1>2, WriteFacts DEF PhotoInv, Photo
<1>5. \A o \in Turns :
          /\ pc'[o] \in {"idle", "resolving"} => image'[o] = None
          /\ (pc'[o] = "running" \/ o \in staged') /\ taken'[o] = None => image'[o] = OwnPhoto(o)'
          /\ taken'[o] # None => image'[o] = image'[taken'[o]]
          /\ image'[o] # None => pc'[image'[o]] # "idle" /\ key'[image'[o]] = key'[o]
  BY <1>2, <1>3, <1>4 DEF PhotoInv
<1> QED
  BY <1>2, <1>5 DEF PhotoInv

LEMMA PhotoTake ==
    ASSUME ChatInv, ApprovalInv, PhotoInv, NEW t \in Turns, TakePending(t) \/ StartRun(t)
    PROVE  PhotoInv'
<1> USE DEF ChatInv, TypeInv, DataOK, ChatData
<1>1. /\ pc[t] = "resolving" /\ key[t] \in Keys
      /\ UNCHANGED <<key, photo, staged, executed>>
      /\ Moves(t, {"approved", "running"})
  BY TurnSteps DEF TakePending, StartRun, Resolved, Moves
<1>2. /\ t \notin staged /\ taken[t] = None
      /\ \A o \in Turns : taken[o] # t
  BY <1>1, WriteFacts
<1>3. \A o \in Turns \ {t} : image'[o] = image[o] /\ taken'[o] = taken[o]
  BY DEF TakePending, StartRun
<1>4. \A k \in Keys : pending'[k] # None =>
          pending'[k] = pending[k] /\ pending[k].write \in Turns \ {t}
  BY <1>2, WriteFacts DEF TakePending, StartRun, Unpark
<1>5. /\ taken'[t] = None => image'[t] = OwnPhoto(t)
      /\ taken'[t] # None => taken'[t] \in Turns \ {t} /\ image'[t] = image[taken'[t]]
      /\ image'[t] # None => pc[image'[t]] # "idle" /\ key[image'[t]] = key[t]
  <2>1. CASE TakePending(t)
    <3>1. pending[key[t]] # None /\ pending[key[t]].write \in Turns
      BY <1>1, <2>1, WriteFacts DEF TakePending
    <3>2. /\ taken'[t] = pending[key[t]].write
          /\ image'[t] = pending[key[t]].image
      BY <2>1 DEF TakePending
    <3>3. key[pending[key[t]].write] = key[t] /\ pending[key[t]].write \in staged
      BY <1>1, <3>1 DEF ApprovalInv, ParkedInv
    <3> QED
      BY <1>1, <1>2, <3>1, <3>2, <3>3, Distinct DEF PhotoInv
  <2>2. CASE StartRun(t)
    BY <1>1, <1>2, <2>2 DEF StartRun, OwnPhoto
  <2> QED
    BY <2>1, <2>2
<1>6. \A o \in Turns : image'[o] # None => pc'[image'[o]] # "idle"
  <2> SUFFICES ASSUME NEW o \in Turns, image'[o] # None PROVE pc'[image'[o]] # "idle"
    OBVIOUS
  <2>1. pc[image'[o]] # "idle"
    BY <1>3, <1>5 DEF PhotoInv
  <2>2. image' \in [Turns -> Photo]
    BY AdvanceData DEF Advance
  <2> QED
    BY <1>1, <2>1, <2>2 DEF Moves, Photo
<1>7. \A o \in Turns :
          /\ pc'[o] \in {"idle", "resolving"} => image'[o] = None
          /\ (pc'[o] = "running" \/ o \in staged') /\ taken'[o] = None => image'[o] = OwnPhoto(o)'
          /\ taken'[o] # None => image'[o] = image'[taken'[o]]
          /\ image'[o] # None => pc'[image'[o]] # "idle" /\ key'[image'[o]] = key'[o]
  BY <1>1, <1>2, <1>3, <1>5, <1>6 DEF PhotoInv, Moves, OwnPhoto
<1>8. \A k \in Keys : pending'[k] # None => pending'[k].image = image'[pending'[k].write]
  BY <1>3, <1>4 DEF PhotoInv
<1>9. \A x \in executed : x.image = image'[x.turn]
  BY <1>1, <1>3, WriteFacts DEF PhotoInv
<1> QED
  BY <1>1, <1>7, <1>8, <1>9 DEF PhotoInv

LEMMA PhotoPerform ==
    ASSUME ChatInv, ApprovalInv, PhotoInv, NEW t \in Turns, PerformWrite(t)
    PROVE  PhotoInv'
<1> USE DEF ChatInv, TypeInv, DataOK, ChatData
<1> DEFINE new == [write |-> taken[t], turn |-> t, token |-> creds[t][Target], image |-> image[t]]
<1>1. /\ Moves(t, {"running"}) /\ pc[t] = "approved" /\ taken[t] # None
      /\ UNCHANGED <<key, photo, image, taken, pending, staged>>
      /\ executed' = executed \cup {new}
  BY TurnSteps DEF PerformWrite, RunStays
<1>2. new.turn = t /\ new.image = image[t]
  OBVIOUS
<1> HIDE DEF new
<1>3. \A x \in executed' : x.image = image'[x.turn]
  BY <1>1, <1>2 DEF PhotoInv
<1>4. \A o \in Turns : /\ pc'[o] \in {"idle", "resolving"} => pc[o] = pc'[o]
                       /\ pc'[o] = "running" => pc[o] = "running" \/ taken[o] # None
                       /\ pc[o] # "idle" => pc'[o] # "idle"
  BY <1>1 DEF Moves
<1> QED
  BY <1>1, <1>3, <1>4 DEF PhotoInv, OwnPhoto, Photo

LEMMA PhotoPause ==
    ASSUME ChatInv, ApprovalInv, PhotoInv, NEW t \in Turns, RunPauses(t)
    PROVE  PhotoInv'
<1> USE DEF ChatInv, TypeInv, DataOK, ChatData
<1>1. /\ Moves(t, {"reply"}) /\ pc[t] = "running" /\ key[t] \in Keys
      /\ UNCHANGED <<key, photo, image, taken, executed>>
      /\ staged' = staged \cup {t}
      /\ pending' = [pending EXCEPT ![key[t]] = [write |-> t, image |-> image[t]]]
  BY TurnSteps DEF RunPauses, RunStays, Park
<1>2. \A k \in Keys : pending'[k] # None => pending'[k].image = image[pending'[k].write]
  BY <1>1 DEF PhotoInv
<1>3. \A o \in Turns : /\ pc'[o] \in {"idle", "resolving", "running"} => pc[o] = pc'[o]
                       /\ pc[o] # "idle" => pc'[o] # "idle"
                       /\ o \in staged' => o \in staged \/ pc[o] = "running"
  BY <1>1 DEF Moves
<1>4. \A o \in Turns :
          /\ pc'[o] \in {"idle", "resolving"} => image[o] = None
          /\ (pc'[o] = "running" \/ o \in staged') /\ taken[o] = None => image[o] = OwnPhoto(o)
          /\ taken[o] # None => image[o] = image[taken[o]]
          /\ image[o] # None => pc'[image[o]] # "idle" /\ key[image[o]] = key[o]
  BY <1>3 DEF PhotoInv, Photo
<1> QED
  BY <1>1, <1>2, <1>4 DEF PhotoInv, OwnPhoto

LEMMA PhotoNext == ChatInv /\ ApprovalInv /\ PhotoInv /\ [ChatNext]_chatVars => PhotoInv'
<1> SUFFICES ASSUME ChatInv, ApprovalInv, PhotoInv, [ChatNext]_chatVars,
                    \A t \in Turns : ~Arrive(t)
             PROVE  PhotoInv'
  BY PhotoArrive
<1>0. /\ image \in [Turns -> Photo]
      /\ UNCHANGED <<key, photo>>
      /\ \A o \in Turns : pc[o] # "idle" => pc'[o] # "idle"
  BY RequestsStay, OneMoves DEF ChatInv, ChatData
<1>1. ASSUME NEW t \in Turns, LinkProceeds(t) PROVE PhotoInv'
  <2>1. Moves(t, LinkWaits \cup {"reply", "failed"})
    BY <1>1, LinkProceedSteps
  <2> QED
    BY <1>0, <1>1, <2>1, PhotoQuiet DEF LinkProceeds, Moves, LinkWaits
<1>2. ASSUME NEW t \in Turns, ResolveFails(t) \/ BadPhoto(t) \/ RunFails(t) \/ RunReplies(t)
                              \/ AppendUser(t) \/ AppendReply(t)
      PROVE  PhotoInv'
  <2>1. Moves(t, {"failed", "reply", "stored", "done"})
    BY <1>2, TurnSteps DEF Moves
  <2>2. UNCHANGED <<image, taken, pending, staged, executed>>
    BY <1>2 DEF ResolveFails, BadPhoto, RunFails, RunReplies, RunStays, AppendUser, AppendReply
  <2> QED
    BY <1>0, <2>1, <2>2, PhotoQuiet DEF Moves
<1>3. ASSUME NEW t \in Turns, WriteComesToNothing(t) PROVE PhotoInv'
  <2>1. Moves(t, {"running"}) /\ taken[t] # None
    BY <1>3, TurnSteps DEF WriteComesToNothing, ChatInv, ChatData
  <2>2. UNCHANGED <<image, taken, pending, staged, executed>>
    BY <1>3 DEF WriteComesToNothing, RunStays
  <2> QED
    BY <1>0, <2>1, <2>2, PhotoQuiet DEF Moves
<1>4. ASSUME NEW t \in Turns, Advance(t) PROVE PhotoInv'
  BY <1>1, <1>2, <1>3, <1>4, PhotoTake, PhotoPerform, PhotoPause DEF Advance
<1>5. ASSUME \/ \E t \in Turns, s \in Services : ForgetRefused(t, s)
             \/ \E k \in live : Disconnect(k)
             \/ ChatCrash
             \/ UNCHANGED chatVars
      PROVE  PhotoInv'
  <2>1. \A o \in Turns : pc'[o] = pc[o] \/ pc'[o] = "dead"
    BY <1>5, OtherSteps DEF chatVars, linkVars
  <2>2. UNCHANGED <<image, taken, pending, staged, executed>>
    BY <1>5 DEF ForgetRefused, Disconnect, ChatCrash, chatVars
  <2> QED
    BY <1>0, <2>1, <2>2, PhotoQuiet
<1> QED
  BY <1>4, <1>5 DEF ChatNext, AllOver

\* A write runs on the photo its proposer worked on, its own or one parked before
\* (chat_service.py:139-141): for any number of turns, overlapping or not, whatever dies.
THEOREM PhotoTravelsHolds == ChatSpec => []PhotoTravels
<1>1. ChatInit => PhotoInv
  BY DEF ChatInit, LinkInit, PhotoInv
<1>2. ASSUME ChatInv, ApprovalInv, PhotoInv, NEW x \in executed
      PROVE  x.image = IF taken[x.write] = None THEN OwnPhoto(x.write) ELSE image[taken[x.write]]
  <2>1. /\ x.turn \in Turns /\ x.write \in Turns /\ x.write \in staged
        /\ taken[x.turn] = x.write /\ taken[x.turn] # None
    BY <1>2, RunTypes, WriteFacts
  <2>2. x.image = image[x.write]
    BY <1>2, <2>1 DEF PhotoInv
  <2> QED
    BY <1>2, <2>1, <2>2 DEF PhotoInv
<1>3. ChatInv /\ ApprovalInv /\ PhotoInv => PhotoTravels
  BY <1>2 DEF PhotoTravels
<1> QED
  BY <1>1, <1>3, PhotoNext, ApprovalAlways, PTL DEF ChatSpec

-----------------------------------------------------------------------------
(* Whole turns.                                                            *)

\* One turn at a time runs between two awaits.
HolderInv == \A t, o \in Turns : HoldsLoop(t) /\ HoldsLoop(o) => t = o

\* Nobody holds the loop after a step who did not before, but one who found it free.
LEMMA HolderMoves ==
    ASSUME ChatInv, HolderInv, NEW t \in Turns, NEW P, Moves(t, P),
           \A o \in Turns \ {t} : key'[o] = key[o],
           LoopFree \/ (HoldsLoop(t)' => HoldsLoop(t))
    PROVE  HolderInv'
BY DEF HolderInv, HoldsLoop, LoopFree, Moves

LEMMA HolderStays ==
    ASSUME ChatInv, HolderInv, \A o \in Turns : pc'[o] = pc[o] \/ pc'[o] = "dead", UNCHANGED key
    PROVE  HolderInv'
BY DEF HolderInv, HoldsLoop

LEMMA HolderNext == ChatInv /\ HolderInv /\ [ChatNext]_chatVars => HolderInv'
<1> SUFFICES ASSUME ChatInv, HolderInv, [ChatNext]_chatVars PROVE HolderInv'
  OBVIOUS
<1>1. ASSUME NEW t \in Turns, Arrive(t) PROVE HolderInv'
  <2>1. PICK u \in Callers, k \in Keys : Enters(t, u, k)
    BY <1>1, ArriveEnters
  <2>2. Moves(t, AnyPhase) /\ LoopFree /\ \A o \in Turns \ {t} : key'[o] = key[o]
    BY <2>1 DEF Enters, Moves, MayBeSent, ChatInv, ChatData, TypeInv, DataOK
  <2> QED
    BY <2>2, HolderMoves
<1>2. ASSUME NEW t \in Turns, Advance(t), UNCHANGED key PROVE HolderInv'
  <2>1. CASE LinkProceeds(t)
    <3>1. PICK P : Moves(t, P)
      BY <2>1, LinkProceedSteps
    <3>2. LoopFree \/ pc'[t] \in LinkWaits
      BY <2>1 DEF LinkProceeds, RedeemIssues, RevokeTakesEffect, LinkWaits, ChatInv, TypeInv, DataOK
    <3> QED
      BY <1>2, <3>1, <3>2, HolderMoves DEF HoldsLoop, LinkWaits
  <2>2. CASE RunReplies(t) \/ RunPauses(t)
    <3>1. Moves(t, {"reply"}) /\ LoopFree
      BY <2>2, TurnSteps DEF RunReplies, RunPauses
    <3> QED
      BY <1>2, <3>1, HolderMoves
  <2>3. CASE AppendUser(t)
    <3>1. Moves(t, {"stored"}) /\ HoldsLoop(t)
      BY <2>3, TurnSteps DEF AppendUser, HoldsLoop
    <3> QED
      BY <1>2, <3>1, HolderMoves
  <2>4. CASE TakePending(t) \/ StartRun(t) \/ PerformWrite(t) \/ WriteComesToNothing(t)
             \/ ResolveFails(t) \/ BadPhoto(t) \/ RunFails(t) \/ AppendReply(t)
    <3>1. Moves(t, {"approved", "running", "failed", "done"})
      BY <2>4, TurnSteps DEF Moves
    <3> QED
      BY <1>2, <3>1, HolderMoves DEF HoldsLoop, Moves
  <2> QED
    BY <1>2, <2>1, <2>2, <2>3, <2>4 DEF Advance
<1>3. ASSUME \/ \E t \in Turns, s \in Services : ForgetRefused(t, s)
             \/ \E k \in live : Disconnect(k)
             \/ ChatCrash
             \/ UNCHANGED chatVars
      PROVE  HolderInv'
  <2>1. \A o \in Turns : pc'[o] = pc[o] \/ pc'[o] = "dead"
    BY <1>3, OtherSteps DEF chatVars, linkVars
  <2>2. UNCHANGED key
    BY <1>3 DEF ForgetRefused, Disconnect, ChatCrash, chatVars
  <2> QED
    BY <2>1, <2>2, HolderStays
<1> QED
  BY <1>1, <1>2, <1>3, RequestsStay DEF ChatNext, AllOver

\* What a message of the history stands for: it belongs to the conversation of its
\* turn, and one of the user waits for its answer, has it, or will never get it.
RowInv(k, i) ==
    LET m == messages[k][i]
    IN  /\ key[m.turn] = k
        /\ pc[m.turn] \in {"stored", "done", "dead"}
        /\ m.role = "user" =>
              \/ pc[m.turn] = "dead"
              \/ i = Len(messages[k]) /\ pc[m.turn] = "stored"
              \/ i < Len(messages[k])
                 /\ messages[k][i + 1] = [turn |-> m.turn, role |-> "assistant"]

HistoryInv ==
    /\ \A k \in Keys : \A i \in 1..Len(messages[k]) : RowInv(k, i)
    /\ \A t \in Turns : pc[t] = "stored" =>
          /\ Len(messages[key[t]]) > 0
          /\ messages[key[t]][Len(messages[key[t]])] = [turn |-> t, role |-> "user"]

\* The rows of a conversation name turns.
LEMMA RowTypes ==
    ASSUME ChatInv, NEW k \in Keys, NEW i \in 1..Len(messages[k])
    PROVE  messages[k][i] \in Message /\ messages[k][i].turn \in Turns
<1>1. messages[k] \in Seq(Message)
  BY DEF ChatInv, ChatData
<1>2. messages[k][i] \in Message
  BY <1>1
<1> QED
  BY <1>2 DEF Message

\* Nothing is appended: turns in the history move on only by dying.
LEMMA HistoryStays ==
    ASSUME ChatInv, HistoryInv, UNCHANGED messages,
           \A o \in Turns : /\ pc[o] # "idle" => key'[o] = key[o]
                            /\ pc[o] \in {"done", "dead"} => pc'[o] = pc[o]
                            /\ pc[o] = "stored" => pc'[o] \in {"stored", "dead"}
                            /\ pc'[o] = "stored" => pc[o] = "stored"
    PROVE  HistoryInv'
<1>1. ASSUME NEW k \in Keys, NEW i \in 1..Len(messages[k]) PROVE RowInv(k, i)'
  BY <1>1, RowTypes DEF HistoryInv, RowInv
<1>2. \A t \in Turns : pc'[t] = "stored" =>
          /\ Len(messages[key'[t]]) > 0
          /\ messages[key'[t]][Len(messages[key'[t]])] = [turn |-> t, role |-> "user"]
  BY DEF HistoryInv
<1> QED
  BY <1>1, <1>2 DEF HistoryInv

\* What append does to the conversation of t, and to the others.
LEMMA Appended ==
    ASSUME ChatInv, NEW t \in Turns, pc[t] # "idle",
           NEW role \in {"user", "assistant"}, append(t, role)
    PROVE  /\ key[t] \in Keys
           /\ \A k \in Keys \ {key[t]} : messages'[k] = messages[k]
           /\ Len(messages[key[t]]) \in Nat
           /\ Len(messages'[key[t]]) = Len(messages[key[t]]) + 1
           /\ \A i \in 1..Len(messages[key[t]]) : messages'[key[t]][i] = messages[key[t]][i]
           /\ messages'[key[t]][Len(messages[key[t]]) + 1] = [turn |-> t, role |-> role]
<1> DEFINE row == [turn |-> t, role |-> role]
           rows == messages[key[t]]
<1>1. row \in Message /\ key[t] \in Keys /\ rows \in Seq(Message)
  BY DEF Message, ChatInv, ChatData
<1>2. messages' = [messages EXCEPT ![key[t]] = Append(rows, row)]
  BY DEF append
<1>3. messages'[key[t]] = Append(rows, row) /\ \A k \in Keys \ {key[t]} : messages'[k] = messages[k]
  BY <1>1, <1>2 DEF ChatInv, ChatData
<1> HIDE DEF row, rows
<1>4. /\ Len(rows) \in Nat
      /\ Len(Append(rows, row)) = Len(rows) + 1
      /\ \A i \in 1..Len(rows) : Append(rows, row)[i] = rows[i]
      /\ Append(rows, row)[Len(rows) + 1] = row
  BY <1>1
<1> QED
  BY <1>1, <1>3, <1>4 DEF row, rows

LEMMA HistoryUser ==
    ASSUME ChatInv, HolderInv, HistoryInv, NEW t \in Turns, AppendUser(t)
    PROVE  HistoryInv'
<1>0. PICK n : n = Len(messages[key[t]])
  OBVIOUS
<1>1. /\ pc[t] = "reply" /\ HoldsLoop(t) /\ UNCHANGED key
      /\ pc'[t] = "stored" /\ \A o \in Turns \ {t} : pc'[o] = pc[o] /\ pc[o] # "stored"
  BY TurnSteps DEF AppendUser, HoldsLoop, HolderInv, Moves
<1>2. /\ key[t] \in Keys
      /\ \A k \in Keys \ {key[t]} : messages'[k] = messages[k]
      /\ n \in Nat /\ Len(messages'[key[t]]) = n + 1
      /\ \A i \in 1..n : messages'[key[t]][i] = messages[key[t]][i]
      /\ messages'[key[t]][n + 1] = [turn |-> t, role |-> "user"]
  BY <1>0, <1>1, Appended DEF AppendUser
<1>3. ASSUME NEW k \in Keys, NEW i \in 1..Len(messages[k])
      PROVE  RowInv(k, i)'
  <2>1. messages[k][i].turn \in Turns \ {t}
    BY <1>1, RowTypes DEF HistoryInv, RowInv
  <2>2. CASE k # key[t]
    BY <1>1, <1>2, <2>1, <2>2 DEF HistoryInv, RowInv
  <2>3. CASE k = key[t]
    <3>1. i \in 1..n /\ messages'[k][i] = messages[k][i] /\ RowInv(k, i)
      BY <1>0, <1>2, <2>3 DEF HistoryInv
    <3>2. pc'[messages[k][i].turn] = pc[messages[k][i].turn] /\ pc[messages[k][i].turn] # "stored"
      BY <1>1, <2>1
    <3>3. i < n => i + 1 \in 1..n /\ messages'[k][i + 1] = messages[k][i + 1]
      BY <1>2, <2>3, <3>1
    <3> QED
      BY <1>0, <1>1, <1>2, <2>3, <3>1, <3>2, <3>3 DEF RowInv
  <2> QED
    BY <2>2, <2>3
<1>4. RowInv(key[t], n + 1)'
  BY <1>1, <1>2 DEF RowInv
<1>5. \A k \in Keys : \A i \in 1..Len(messages'[k]) : RowInv(k, i)'
  BY <1>0, <1>1, <1>2, <1>3, <1>4
<1>6. \A o \in Turns : pc'[o] = "stored" =>
          /\ Len(messages'[key[o]]) > 0
          /\ messages'[key[o]][Len(messages'[key[o]])] = [turn |-> o, role |-> "user"]
  BY <1>1, <1>2
<1> QED
  BY <1>1, <1>5, <1>6 DEF HistoryInv

LEMMA HistoryReply ==
    ASSUME ChatInv, HolderInv, HistoryInv, NEW t \in Turns, AppendReply(t)
    PROVE  HistoryInv'
<1>0. PICK n : n = Len(messages[key[t]])
  OBVIOUS
<1>1. /\ pc[t] = "stored" /\ UNCHANGED key
      /\ pc'[t] = "done" /\ \A o \in Turns \ {t} : pc'[o] = pc[o] /\ pc[o] # "stored"
  BY TurnSteps DEF AppendReply, HoldsLoop, HolderInv, Moves
<1>2. /\ key[t] \in Keys
      /\ \A k \in Keys \ {key[t]} : messages'[k] = messages[k]
      /\ n \in Nat /\ Len(messages'[key[t]]) = n + 1
      /\ \A i \in 1..n : messages'[key[t]][i] = messages[key[t]][i]
      /\ messages'[key[t]][n + 1] = [turn |-> t, role |-> "assistant"]
  BY <1>0, <1>1, Appended DEF AppendReply
<1>3. ASSUME NEW k \in Keys, NEW i \in 1..Len(messages[k])
      PROVE  RowInv(k, i)'
  <2>1. messages[k][i].turn \in Turns /\ RowInv(k, i)
    BY RowTypes DEF HistoryInv
  <2>2. CASE k # key[t]
    BY <1>1, <1>2, <2>1, <2>2 DEF RowInv
  <2>3. CASE k = key[t]
    <3>1. i \in 1..n /\ messages'[k][i] = messages[k][i]
      BY <1>0, <1>2, <2>3
    <3>2. i < n => i + 1 \in 1..n /\ messages'[k][i + 1] = messages[k][i + 1]
      BY <1>2, <2>3, <3>1
    <3>3. i = n => messages[k][i] = [turn |-> t, role |-> "user"]
      BY <1>0, <1>1, <2>3 DEF HistoryInv
    <3>4. pc[messages[k][i].turn] = "stored" => messages[k][i].turn = t
      BY <1>1, <2>1
    <3>5. pc'[messages[k][i].turn] \in {"stored", "done", "dead"}
      BY <1>1, <2>1 DEF RowInv
    <3>6. messages[k][i].role = "user" =>
              \/ pc'[messages[k][i].turn] = "dead"
              \/ messages'[k][i + 1] = [turn |-> messages[k][i].turn, role |-> "assistant"]
      BY <1>0, <1>1, <1>2, <2>1, <2>3, <3>1, <3>2, <3>3, <3>4 DEF RowInv
    <3> QED
      BY <1>1, <1>2, <2>1, <2>3, <3>1, <3>5, <3>6 DEF RowInv
  <2> QED
    BY <2>2, <2>3
<1>4. RowInv(key[t], n + 1)'
  BY <1>1, <1>2 DEF RowInv
<1>5. \A k \in Keys : \A i \in 1..Len(messages'[k]) : RowInv(k, i)'
  BY <1>0, <1>1, <1>2, <1>3, <1>4
<1> QED
  BY <1>1, <1>5 DEF HistoryInv

LEMMA HistoryNext == ChatInv /\ HolderInv /\ HistoryInv /\ [ChatNext]_chatVars => HistoryInv'
<1> SUFFICES ASSUME ChatInv, HolderInv, HistoryInv, [ChatNext]_chatVars PROVE HistoryInv'
  OBVIOUS
<1>1. ASSUME NEW t \in Turns, Arrive(t) PROVE HistoryInv'
  <2>1. PICK u \in Callers, k \in Keys : Enters(t, u, k)
    BY <1>1, ArriveEnters
  <2>2. /\ pc[t] = "idle" /\ pc'[t] \notin {"idle", "stored"}
        /\ \A o \in Turns \ {t} : pc'[o] = pc[o] /\ key'[o] = key[o]
        /\ UNCHANGED messages
    BY <2>1 DEF Enters, MayBeSent, ChatInv, ChatData, TypeInv, DataOK
  <2> QED
    BY <2>2, HistoryStays
<1>2. ASSUME NEW t \in Turns, LinkProceeds(t), UNCHANGED key PROVE HistoryInv'
  <2>1. pc[t] \in LinkWaits /\ Moves(t, LinkWaits \cup {"reply", "failed"})
    BY <1>2, LinkProceedSteps
  <2> QED
    BY <1>2, <2>1, HistoryStays DEF LinkProceeds, Moves, LinkWaits
<1>3. ASSUME NEW t \in Turns, UNCHANGED key,
             TakePending(t) \/ StartRun(t) \/ PerformWrite(t) \/ WriteComesToNothing(t)
             \/ ResolveFails(t) \/ BadPhoto(t) \/ RunFails(t) \/ RunReplies(t) \/ RunPauses(t)
      PROVE  HistoryInv'
  <2>1. /\ pc[t] \in {"resolving", "approved", "running"}
        /\ Moves(t, {"approved", "running", "failed", "reply"})
        /\ UNCHANGED messages
    BY <1>3, TurnSteps DEF Moves, TakePending, StartRun, Resolved, PerformWrite, WriteComesToNothing,
                           ResolveFails, BadPhoto, RunFails, RunReplies, RunPauses, RunStays
  <2> QED
    BY <1>3, <2>1, HistoryStays DEF Moves
<1>4. ASSUME \/ \E t \in Turns, s \in Services : ForgetRefused(t, s)
             \/ \E k \in live : Disconnect(k)
             \/ ChatCrash
             \/ UNCHANGED chatVars
      PROVE  HistoryInv'
  <2>1. /\ \A o \in Turns : pc'[o] = pc[o] \/ (InProgress(o) /\ pc'[o] = "dead")
        /\ UNCHANGED <<key, messages>>
    BY <1>4, OtherSteps DEF chatVars, linkVars, ForgetRefused, Disconnect, ChatCrash, ChatInv,
                            TypeInv, DataOK
  <2> QED
    BY <2>1, HistoryStays DEF InProgress, Over
<1> QED
  BY <1>1, <1>2, <1>3, <1>4, HistoryUser, HistoryReply, RequestsStay DEF ChatNext, Advance, AllOver

\* Nobody dies but by a crash.
DeadInv == crashes = 0 => \A t \in Turns : pc[t] # "dead"

LEMMA DeadNext == ChatInv /\ DeadInv /\ [ChatNext]_chatVars => DeadInv'
<1> SUFFICES ASSUME ChatInv, DeadInv, [ChatNext]_chatVars PROVE DeadInv'
  OBVIOUS
<1>1. ASSUME NEW t \in Turns, Arrive(t) PROVE DeadInv'
  BY <1>1, CommandSteps, OtherSteps
     DEF Arrive, ReceiveLink, ReceiveChat, Tell, Redeem, Logout, DeadInv, Moves
<1>2. ASSUME NEW t \in Turns, Advance(t) PROVE DeadInv'
  <2>1. Moves(t, AnyPhase \ {"dead"})
    BY <1>2, TurnSteps, LinkProceedSteps DEF Advance, Moves, LinkWaits
  <2>2. CASE LinkProceeds(t)
    BY <2>1, <2>2 DEF LinkProceeds, RedeemIssues, RevokeTakesEffect, RedeemReturns, RedeemRefused,
                      RevokeReturns, RevokeRefused, ProviderBreaks, DeadInv, Moves
  <2>3. CASE ~LinkProceeds(t)
    <3>1. UNCHANGED crashes
      BY <1>2, <2>3 DEF Advance, ResolveFails, TakePending, StartRun, BadPhoto, PerformWrite,
              WriteComesToNothing, RunReplies, RunPauses, RunFails, RunStays, AppendUser, AppendReply
    <3> QED
      BY <2>1, <3>1 DEF DeadInv, Moves
  <2> QED
    BY <2>2, <2>3
<1>3. CASE ChatCrash
  BY <1>3 DEF ChatCrash, DeadInv, ChatInv, TypeInv, DataOK
<1>4. ASSUME \/ \E t \in Turns, s \in Services : ForgetRefused(t, s)
             \/ \E k \in live : Disconnect(k)
             \/ UNCHANGED chatVars
      PROVE  DeadInv'
  BY <1>4 DEF ForgetRefused, Forget, Disconnect, RevokedElsewhere, chatVars, linkVars, DeadInv
<1> QED
  BY <1>1, <1>2, <1>3, <1>4 DEF ChatNext, AllOver

LEMMA HistoryAlways == ChatSpec => [](ChatInv /\ HolderInv /\ HistoryInv /\ DeadInv)
<1>1. ChatInit => HolderInv /\ HistoryInv /\ DeadInv
  BY DEF ChatInit, LinkInit, HolderInv, HoldsLoop, HistoryInv, DeadInv
<1> QED
  BY <1>1, HolderNext, HistoryNext, DeadNext, ChatAlways, PTL DEF ChatSpec

\* History holds whole turns, for any overlap and any number of crashes: two turns of
\* a conversation never interleave, and only a death leaves half of one
\* (chat_service.py:178-180).
THEOREM WholeTurnsHolds == ChatSpec => []WholeTurns
<1>1. ChatInv /\ HistoryInv => WholeTurns
  BY DEF HistoryInv, RowInv, WholeTurns
<1> QED
  BY <1>1, HistoryAlways, PTL

\* While the process has not died, every message of a user has its answer behind it
\* or is about to.
NoHalfTurn ==
    \A k \in Keys : \A i \in 1..Len(messages[k]) :
        LET m == messages[k][i]
        IN  m.role = "user" =>
              IF i = Len(messages[k])
              THEN pc[m.turn] = "stored"
              ELSE messages[k][i + 1] = [turn |-> m.turn, role |-> "assistant"]

\* A failure, of whatever kind and whatever overlaps, never stores half a turn.
THEOREM NoHalfTurnWithoutCrash == ChatSpec => [](crashes = 0 => NoHalfTurn)
<1>1. ASSUME ChatInv, HistoryInv, DeadInv, crashes = 0 PROVE NoHalfTurn
  <2>1. ASSUME NEW k \in Keys, NEW i \in 1..Len(messages[k]), messages[k][i].role = "user"
        PROVE  IF i = Len(messages[k])
               THEN pc[messages[k][i].turn] = "stored"
               ELSE messages[k][i + 1] = [turn |-> messages[k][i].turn, role |-> "assistant"]
    <3>1. messages[k][i].turn \in Turns /\ RowInv(k, i)
      BY <1>1, RowTypes DEF HistoryInv
    <3> QED
      BY <1>1, <2>1, <3>1 DEF RowInv, DeadInv
  <2> QED
    BY <2>1 DEF NoHalfTurn
<1> QED
  BY <1>1, HistoryAlways, PTL

-----------------------------------------------------------------------------
(* While the bridge waits for answers.                                     *)

\* A person and a conversation have one request in progress at a time, the last
\* one sent.
SoloChat ==
    /\ \A t, o \in Turns : InProgress(t) /\ InProgress(o) /\ t # o =>
          caller[t] # caller[o] /\ key[t] # key[o]
    /\ \A t \in Turns : InProgress(t) => last[key[t]] = t
    /\ \A k \in Keys : last[k] # None => pc[last[k]] # "idle" /\ key[last[k]] = k

LEMMA SoloChatNext ==
    ASSUME ~Overlap, ChatInv, SoloChat, [ChatNext]_chatVars
    PROVE  SoloChat'
<1> USE DEF ChatInv, ChatData, TypeInv, DataOK
<1>1. ASSUME NEW t \in Turns, Arrive(t) PROVE SoloChat'
  <2>1. PICK u \in Callers, k \in Keys : Enters(t, u, k)
    BY <1>1, ArriveEnters
  <2>2. /\ \A o \in Turns \ {t} : pc'[o] = pc[o] /\ caller'[o] = caller[o] /\ key'[o] = key[o]
        /\ pc[t] = "idle" /\ pc'[t] # "idle" /\ caller'[t] = u /\ key'[t] = k
        /\ last' = [last EXCEPT ![k] = t]
        /\ \A o \in Turns : InProgress(o) => caller[o] # u /\ key[o] # k
    BY <2>1 DEF Enters, MayBeSent
  <2>3. \A o \in Turns \ {t} : InProgress(o)' =>
            /\ InProgress(o) /\ key[o] \in Keys \ {k}
            /\ caller'[o] = caller[o] /\ caller[o] # u /\ key'[o] = key[o]
    BY <2>2 DEF InProgress
  <2>4. ASSUME NEW o \in Turns, NEW p \in Turns, InProgress(o)', InProgress(p)', o # p
        PROVE  caller'[o] # caller'[p] /\ key'[o] # key'[p]
    <3>1. CASE o # t /\ p # t
      BY <2>3, <2>4, <3>1 DEF SoloChat
    <3>2. CASE o = t \/ p = t
      BY <2>2, <2>3, <2>4, <3>2
    <3> QED
      BY <3>1, <3>2
  <2>5. ASSUME NEW o \in Turns, InProgress(o)' PROVE last'[key'[o]] = o
    <3>1. CASE o = t
      BY <2>2, <3>1
    <3>2. CASE o # t
      BY <2>2, <2>3, <2>5, <3>2 DEF SoloChat
    <3> QED
      BY <3>1, <3>2
  <2>6. \A c \in Keys : last'[c] # None => pc'[last'[c]] # "idle" /\ key'[last'[c]] = c
    BY <2>2, Distinct DEF SoloChat
  <2> QED
    BY <2>4, <2>5, <2>6 DEF SoloChat
<1>2. CASE \A t \in Turns : ~Arrive(t)
  BY <1>2, RequestsStay, OneMoves DEF SoloChat
<1> QED
  BY <1>1, <1>2

LEMMA SoloChatAlways == ASSUME ~Overlap PROVE ChatSpec => [](ChatInv /\ HeldInv /\ ApprovalInv /\ SoloChat)
<1>1. ChatInit => SoloChat
  BY DEF ChatInit, LinkInit, SoloChat, InProgress
<1>2. ChatInv /\ SoloChat /\ [ChatNext]_chatVars => SoloChat'
  BY SoloChatNext
<1> QED
  BY <1>1, <1>2, ApprovalAlways, PTL DEF ChatSpec

-----------------------------------------------------------------------------
(* The question a yes is about.                                            *)

\* Nothing came between a question and its answer: the process did not die, and
\* no agent failed to load.  This is a hypothesis, see the run failed_no.
NothingLost ==
    /\ crashes = 0
    /\ \A t \in Turns : key[t] \in Cold => pc[t] # "failed"

\* A parked question is the last thing said in its conversation, or it is in
\* front of the person whose message comes next; a turn took the one it faces.
QuestionInv ==
    /\ \A k \in Keys : pending[k] # None =>
          \/ last[k] = pending[k].write /\ pc[last[k]] \in {"reply", "stored", "done"}
          \/ /\ last[k] \in Turns
             /\ pc[last[k]] = "resolving"
             /\ pending[k].write \in facing[last[k]]
    /\ \A t \in Turns : taken[t] # None => taken[t] \in facing[t]

LEMMA NothingLostBefore ==
    ASSUME ChatInv, [ChatNext]_chatVars, NothingLost'
    PROVE  NothingLost
<1> USE DEF ChatInv, ChatData, TypeInv, DataOK
<1>1. ASSUME NEW t \in Turns, Arrive(t) PROVE NothingLost
  <2>1. PICK u \in Callers, k \in Keys : Enters(t, u, k)
    BY <1>1, ArriveEnters
  <2>2. UNCHANGED crashes
    BY <1>1 DEF Arrive, ReceiveLink, ReceiveChat, Tell, Redeem, Logout
  <2> QED
    BY <2>1, <2>2 DEF NothingLost, Enters, MayBeSent
<1>2. ASSUME \A t \in Turns : ~Arrive(t) PROVE NothingLost
  <2>1. UNCHANGED key /\ \A t \in Turns : pc[t] = "failed" => pc'[t] = "failed"
    BY <1>2, RequestsStay, OneMoves DEF InProgress, Over
  <2>2. crashes' = crashes \/ crashes' = crashes + 1
    <3>1. ASSUME NEW t \in Turns, LinkProceeds(t) PROVE UNCHANGED crashes
      BY <3>1 DEF LinkProceeds, RedeemIssues, RevokeTakesEffect, RedeemReturns, RedeemRefused,
                  RevokeReturns, RevokeRefused, ProviderBreaks
    <3>2. ASSUME NEW t \in Turns, Advance(t), ~LinkProceeds(t) PROVE UNCHANGED crashes
      BY <3>2 DEF Advance, ResolveFails, TakePending, StartRun, BadPhoto, PerformWrite,
                  WriteComesToNothing, RunReplies, RunPauses, RunFails, RunStays, AppendUser, AppendReply
    <3> QED
      BY <1>2, <3>1, <3>2 DEF ChatNext, ForgetRefused, Forget, Disconnect, RevokedElsewhere, ChatCrash,
                              AllOver, chatVars, linkVars
  <2> QED
    BY <2>1, <2>2 DEF NothingLost
<1> QED
  BY <1>1, <1>2

LEMMA QuestionArrive ==
    ASSUME ~Overlap, ChatInv, ApprovalInv, SoloChat, QuestionInv, NEW t \in Turns, Arrive(t)
    PROVE  QuestionInv'
<1> USE DEF ChatInv, ChatData, TypeInv, DataOK
<1>1. PICK u \in Callers, k \in Keys : Enters(t, u, k)
  BY ArriveEnters
<1>2. /\ \A o \in Turns \ {t} : pc'[o] = pc[o] /\ facing'[o] = facing[o]
      /\ pc[t] = "idle" /\ facing'[t] = Shown(k) /\ UNCHANGED taken
      /\ \A c \in Keys \ {k} : last'[c] = last[c] /\ pending'[c] = pending[c]
      /\ last'[k] = t
      /\ pending'[k] = None \/ (pending'[k] = pending[k] /\ pc'[t] = "resolving")
      /\ \A o \in Turns : InProgress(o) => key[o] # k
  BY <1>1 DEF Enters, MayBeSent, Unpark
<1>3. taken[t] = None
  BY <1>2, WriteFacts
<1>4. pending'[k] # None => pending[k].write \in Shown(k)
  <2> SUFFICES ASSUME pending'[k] # None PROVE pending[k].write \in Shown(k)
    OBVIOUS
  <2>1. pending[k] # None /\ pending[k].write \in Turns
    BY <1>2, WriteFacts
  <2>2. last[k] \in Turns /\ key[last[k]] = k
    BY <2>1, Distinct DEF QuestionInv, SoloChat
  <2>3. last[k] = pending[k].write /\ pc[last[k]] = "done"
    BY <1>2, <2>1, <2>2 DEF QuestionInv, InProgress, Over
  <2> QED
    BY <2>2, <2>3, Distinct DEF Shown
<1>5. \A c \in Keys \ {k} : last[c] # t
  BY <1>2, Distinct DEF SoloChat
<1>6. ASSUME NEW c \in Keys, pending'[c] # None
      PROVE  \/ last'[c] = pending'[c].write /\ pc'[last'[c]] \in {"reply", "stored", "done"}
             \/ /\ last'[c] \in Turns
                /\ pc'[last'[c]] = "resolving"
                /\ pending'[c].write \in facing'[last'[c]]
  <2>1. CASE c = k
    BY <1>2, <1>4, <1>6, <2>1
  <2>2. CASE c # k
    BY <1>2, <1>5, <1>6, <2>2, WriteFacts DEF QuestionInv
  <2> QED
    BY <2>1, <2>2
<1> QED
  BY <1>2, <1>3, <1>6 DEF QuestionInv

\* Turns that hold no question up move on, and nothing is parked.
LEMMA QuestionStays ==
    ASSUME ChatInv, ApprovalInv, QuestionInv, UNCHANGED <<last, facing, taken>>,
           \A k \in Keys : pending'[k] \in {None, pending[k]},
           \A o \in Turns : /\ pc[o] \in {"reply", "stored", "done"} =>
                                  pc'[o] \in {"reply", "stored", "done"}
                            /\ pc[o] = "resolving" /\ pending'[key[o]] # None => pc'[o] = "resolving",
           \A k \in Keys : last[k] \in Turns => key[last[k]] = k
    PROVE  QuestionInv'
BY WriteFacts DEF QuestionInv

LEMMA QuestionAdvance ==
    ASSUME ChatInv, ApprovalInv, SoloChat, QuestionInv, NothingLost', NEW t \in Turns, Advance(t),
           UNCHANGED <<key, last, facing>>
    PROVE  QuestionInv'
<1> USE DEF ChatInv, ChatData, TypeInv, DataOK
<1>0. \A k \in Keys : last[k] \in Turns => key[last[k]] = k
  BY Distinct DEF SoloChat
<1>1. CASE LinkProceeds(t)
  <2>1. pc[t] \in LinkWaits /\ Moves(t, LinkWaits \cup {"reply", "failed"})
    BY <1>1, LinkProceedSteps
  <2> QED
    BY <1>0, <1>1, <2>1, QuestionStays DEF LinkProceeds, Moves, LinkWaits
<1>2. CASE PerformWrite(t) \/ WriteComesToNothing(t) \/ RunFails(t) \/ RunReplies(t)
           \/ AppendUser(t) \/ AppendReply(t)
  <2>1. /\ \/ pc[t] \in {"approved", "running"} /\ Moves(t, {"running", "failed", "reply"})
           \/ pc[t] \in {"reply", "stored"} /\ Moves(t, {"stored", "done"})
        /\ UNCHANGED <<taken, pending>>
    BY <1>2, TurnSteps DEF Moves, PerformWrite, WriteComesToNothing, RunFails, RunReplies, RunStays,
                           AppendUser, AppendReply
  <2> QED
    BY <1>0, <2>1, QuestionStays DEF Moves
<1>3. CASE StartRun(t) \/ BadPhoto(t)
  <2>1. /\ pc[t] = "resolving" /\ Moves(t, {"running", "failed"})
        /\ pending[key[t]] = None /\ UNCHANGED <<taken, pending>>
    BY <1>3, TurnSteps DEF Moves, StartRun, BadPhoto, Resolved
  <2> QED
    BY <1>0, <2>1, QuestionStays DEF Moves
<1>4. ~ResolveFails(t)
  <2> SUFFICES ASSUME ResolveFails(t) PROVE FALSE
    OBVIOUS
  <2>1. pc'[t] = "failed" /\ key[t] \in Cold
    BY TurnSteps DEF ResolveFails, Moves
  <2> QED
    BY <2>1 DEF NothingLost
<1>5. CASE TakePending(t)
  <2>1. /\ pc[t] = "resolving" /\ Moves(t, {"approved", "running"})
        /\ key[t] \in Keys /\ pending[key[t]] # None
        /\ taken' = [taken EXCEPT ![t] = pending[key[t]].write]
        /\ pending' = [pending EXCEPT ![key[t]] = None]
    BY <1>5, TurnSteps DEF TakePending, Resolved, Unpark
  <2>2. last[key[t]] = t
    BY <2>1 DEF SoloChat, InProgress, Over
  <2>3. pending[key[t]].write \in facing[t]
    BY <2>1, <2>2 DEF QuestionInv
  <2>4. \A o \in Turns : taken'[o] # None => taken'[o] \in facing[o]
    BY <2>1, <2>3 DEF QuestionInv
  <2>5. \A k \in Keys \ {key[t]} : last[k] # t
    BY <1>0
  <2>6. \A k \in Keys : pending'[k] # None =>
            k # key[t] /\ pending'[k] = pending[k] /\ pending[k].write \in Turns
    BY <2>1, WriteFacts
  <2>7. \A o \in Turns \ {t} : pc'[o] = pc[o]
    BY <2>1 DEF Moves
  <2> QED
    BY <2>4, <2>5, <2>6, <2>7 DEF QuestionInv
<1>6. CASE RunPauses(t)
  <2>1. /\ pc[t] = "running" /\ Moves(t, {"reply"})
        /\ key[t] \in Keys /\ UNCHANGED taken
        /\ pending' = [pending EXCEPT ![key[t]] = [write |-> t, image |-> image[t]]]
    BY <1>6, TurnSteps DEF RunPauses, RunStays, Park
  <2>2. last[key[t]] = t
    BY <2>1 DEF SoloChat, InProgress, Over
  <2>3. \A k \in Keys \ {key[t]} : last[k] # t
    BY <1>0
  <2>4. pending'[key[t]].write = t /\ \A k \in Keys \ {key[t]} : pending'[k] = pending[k]
    BY <2>1
  <2>5. \A o \in Turns \ {t} : pc'[o] = pc[o]
    BY <2>1 DEF Moves
  <2>6. ASSUME NEW k \in Keys, pending'[k] # None
        PROVE  \/ last[k] = pending'[k].write /\ pc'[last[k]] \in {"reply", "stored", "done"}
               \/ /\ last[k] \in Turns
                  /\ pc'[last[k]] = "resolving"
                  /\ pending'[k].write \in facing[last[k]]
    <3>1. CASE k = key[t]
      BY <2>1, <2>2, <2>4, <3>1 DEF Moves
    <3>2. CASE k # key[t]
      BY <2>3, <2>4, <2>5, <2>6, <3>2, WriteFacts DEF QuestionInv
    <3> QED
      BY <3>1, <3>2
  <2> QED
    BY <2>1, <2>6 DEF QuestionInv
<1> QED
  BY <1>1, <1>2, <1>3, <1>4, <1>5, <1>6 DEF Advance

LEMMA QuestionNext ==
    ASSUME ~Overlap, ChatInv, ApprovalInv, SoloChat, QuestionInv, NothingLost', [ChatNext]_chatVars
    PROVE  QuestionInv'
<1>1. CASE \E t \in Turns : Arrive(t)
  BY <1>1, QuestionArrive
<1>2. CASE \A t \in Turns : ~Arrive(t)
  <2>1. UNCHANGED <<key, last, facing>>
    BY <1>2, RequestsStay
  <2>2. ~ChatCrash
    BY DEF ChatCrash, NothingLost, ChatInv, TypeInv, DataOK
  <2>3. ASSUME \/ \E t \in Turns, s \in Services : ForgetRefused(t, s)
               \/ \E k \in live : Disconnect(k)
               \/ UNCHANGED chatVars
        PROVE  QuestionInv'
    BY <2>3 DEF ForgetRefused, Forget, Disconnect, RevokedElsewhere, chatVars, linkVars, QuestionInv
  <2> QED
    BY <1>2, <2>1, <2>2, <2>3, QuestionAdvance DEF ChatNext, AllOver
<1> QED
  BY <1>1, <1>2

LEMMA QuestionAlways ==
    ASSUME ~Overlap
    PROVE  ChatSpec => []( /\ ChatInv /\ HeldInv /\ ApprovalInv /\ SoloChat
                           /\ (NothingLost => QuestionInv))
<1>1. ChatInit => QuestionInv
  BY DEF ChatInit, LinkInit, QuestionInv
<1>2. /\ ChatInv /\ ApprovalInv /\ SoloChat /\ (NothingLost => QuestionInv)
      /\ [ChatNext]_chatVars
      => (NothingLost => QuestionInv)'
  BY NothingLostBefore, QuestionNext
<1> QED
  BY <1>1, <1>2, SoloChatAlways, PTL DEF ChatSpec

\* "Only a clear yes as the next message resumes and executes it": while the
\* bridge waits for answers, a yes runs the write that was asked about in the
\* answer before it, for any number of people, conversations and turns, as long
\* as the process has not died and no agent failed to load.
THEOREM InformedConsentHolds ==
    ASSUME ~Overlap
    PROVE  ChatSpec => [](NothingLost => InformedConsent)
<1>1. ASSUME ChatInv, ApprovalInv, QuestionInv, NEW x \in executed
      PROVE  x.write \in facing[x.turn]
  <2>1. x.turn \in Turns /\ taken[x.turn] = x.write /\ taken[x.turn] # None
    BY <1>1, WriteFacts, RunTypes
  <2> QED
    BY <1>1, <2>1 DEF QuestionInv
<1>2. ChatInv /\ ApprovalInv /\ (NothingLost => QuestionInv) => (NothingLost => InformedConsent)
  BY <1>1 DEF InformedConsent
<1> QED
  BY <1>2, QuestionAlways, PTL

\* An answer is in front of one message at most: the next of its conversation.
FacingInv ==
    \A t, w \in Turns : w \in facing[t] =>
        /\ pc[t] # "idle" /\ pc[w] # "idle"
        /\ key[w] \in Keys /\ last[key[w]] # w
        /\ \A o \in Turns : w \in facing[o] => o = t

LEMMA FacingNext == ChatInv /\ SoloChat /\ FacingInv /\ [ChatNext]_chatVars => FacingInv'
<1> SUFFICES ASSUME ChatInv, SoloChat, FacingInv, [ChatNext]_chatVars PROVE FacingInv'
  OBVIOUS
<1> USE DEF ChatInv, ChatData, TypeInv, DataOK
<1>1. ASSUME NEW t \in Turns, Arrive(t) PROVE FacingInv'
  <2>1. PICK u \in Callers, k \in Keys : Enters(t, u, k)
    BY <1>1, ArriveEnters
  <2>2. /\ \A o \in Turns \ {t} : pc'[o] = pc[o] /\ key'[o] = key[o] /\ facing'[o] = facing[o]
        /\ pc[t] = "idle" /\ pc'[t] # "idle" /\ key'[t] = k /\ facing'[t] = Shown(k)
        /\ last'[k] = t /\ \A c \in Keys \ {k} : last'[c] = last[c]
    BY <2>1 DEF Enters, MayBeSent
  <2>3. ASSUME NEW w \in facing'[t], w \in Turns
        PROVE  /\ w # t /\ key'[w] = k /\ pc'[w] # "idle" /\ last[k] = w
               /\ \A o \in Turns \ {t} : w \notin facing'[o]
    <3>1. w = last[k] /\ pc[w] = "done"
      BY <2>2, <2>3 DEF Shown
    <3>2. w # t /\ key[w] = k /\ last[key[w]] = w
      BY <2>2, <2>3, <3>1, Distinct DEF SoloChat
    <3>3. \A o \in Turns : w \notin facing[o]
      BY <2>3, <3>2 DEF FacingInv
    <3> QED
      BY <2>2, <2>3, <3>1, <3>2, <3>3
  <2>4. ASSUME NEW o \in Turns \ {t}, NEW w \in Turns, w \in facing'[o]
        PROVE  /\ pc'[o] # "idle" /\ pc'[w] # "idle"
               /\ key'[w] \in Keys /\ last'[key'[w]] # w
               /\ \A p \in Turns : w \in facing'[p] => p = o
    <3>1. w # t /\ w \in facing[o]
      BY <2>2, <2>4 DEF FacingInv
    <3>2. /\ pc[o] # "idle" /\ pc[w] # "idle"
          /\ key[w] \in Keys /\ last[key[w]] # w
          /\ \A p \in Turns : w \in facing[p] => p = o
      BY <3>1 DEF FacingInv
    <3>3. key'[w] = key[w] /\ pc'[w] = pc[w] /\ last'[key[w]] # w
      BY <2>2, <3>1, <3>2
    <3>4. w \notin facing'[t]
      BY <2>3, <2>4
    <3> QED
      BY <2>2, <3>2, <3>3, <3>4
  <2>5. ASSUME NEW o \in Turns, NEW w \in Turns, w \in facing'[o]
        PROVE  /\ pc'[o] # "idle" /\ pc'[w] # "idle"
               /\ key'[w] \in Keys /\ last'[key'[w]] # w
               /\ \A p \in Turns : w \in facing'[p] => p = o
    <3>1. CASE o = t
      BY <2>2, <2>3, <2>5, <3>1
    <3>2. CASE o # t
      BY <2>4, <2>5, <3>2
    <3> QED
      BY <3>1, <3>2
  <2> QED
    BY <2>5 DEF FacingInv
<1>2. CASE \A t \in Turns : ~Arrive(t)
  BY <1>2, RequestsStay, OneMoves DEF FacingInv
<1> QED
  BY <1>1, <1>2

\* "Anything else cancels" (chat_service.py:75): on the same terms, nobody who was
\* asked about a write that ran said anything but yes.  The run failed_no shows
\* the term about agents that fail to load is needed.
THEOREM AnythingElseCancelsHolds ==
    ASSUME ~Overlap
    PROVE  ChatSpec => [](NothingLost => AnythingElseCancels)
<1>1. ChatInit => FacingInv
  BY DEF ChatInit, FacingInv
<1>2. ASSUME ChatInv, ApprovalInv, QuestionInv, FacingInv,
             NEW x \in executed, NEW t \in Turns, x.write \in facing[t]
      PROVE  msg[t] = "yes"
  <2>1. /\ x.turn \in Turns /\ x.write \in Turns
        /\ taken[x.turn] = x.write /\ taken[x.turn] # None
    BY <1>2, WriteFacts, RunTypes
  <2>2. x.turn = t
    BY <1>2, <2>1 DEF QuestionInv, FacingInv
  <2> QED
    BY <1>2, <2>2 DEF ApprovalInv, RunInv
<1>3. ChatInv /\ ApprovalInv /\ FacingInv /\ (NothingLost => QuestionInv)
      => (NothingLost => AnythingElseCancels)
  BY <1>2 DEF AnythingElseCancels
<1> QED
  BY <1>1, <1>3, FacingNext, QuestionAlways, PTL DEF ChatSpec

-----------------------------------------------------------------------------
(* The identity behind a write.                                            *)

\* People and conversations are one: nobody shares a conversation, nobody who is
\* named has two.  This is a hypothesis, see the run two_conversations.
OwnConversations ==
    \A t, o \in Turns : pc[t] # "idle" /\ pc[o] # "idle" =>
        /\ key[t] = key[o] => caller[t] = caller[o]
        /\ caller[t] = caller[o] /\ caller[t] # None => key[t] = key[o]

LEMMA OwnConversationsBefore ==
    ASSUME ChatInv, [ChatNext]_chatVars, OwnConversations'
    PROVE  OwnConversations
<1> USE DEF ChatInv, ChatData, TypeInv, DataOK
<1>1. ASSUME NEW t \in Turns, Arrive(t) PROVE OwnConversations
  <2>1. PICK u \in Callers, k \in Keys : Enters(t, u, k)
    BY <1>1, ArriveEnters
  <2>2. ASSUME NEW o \in Turns, pc[o] # "idle"
        PROVE  pc'[o] # "idle" /\ caller'[o] = caller[o] /\ key'[o] = key[o]
    BY <2>1, <2>2 DEF Enters, MayBeSent
  <2>3. ASSUME NEW o \in Turns, NEW p \in Turns, pc[o] # "idle", pc[p] # "idle"
        PROVE  /\ key[o] = key[p] => caller[o] = caller[p]
               /\ caller[o] = caller[p] /\ caller[o] # None => key[o] = key[p]
    <3>1. /\ key'[o] = key'[p] => caller'[o] = caller'[p]
          /\ caller'[o] = caller'[p] /\ caller'[o] # None => key'[o] = key'[p]
      BY <2>2, <2>3 DEF OwnConversations
    <3> QED
      BY <2>2, <2>3, <3>1
  <2> QED
    BY <2>3 DEF OwnConversations
<1>2. CASE \A t \in Turns : ~Arrive(t)
  <2>1. UNCHANGED <<caller, key>> /\ \A o \in Turns : pc[o] # "idle" => pc'[o] # "idle"
    BY <1>2, RequestsStay, OneMoves
  <2> QED
    BY <2>1 DEF OwnConversations
<1> QED
  BY <1>1, <1>2

\* Where the rows of its caller hold a credential at all, t holds the same one.
Fresh(t) ==
    IF caller[t] = None
    THEN creds[t][Target] = None
    ELSE links[caller[t]][Target] \in {None, creds[t][Target]}

\* Whoever has yet to use what it read would read the same again, or nothing; a
\* parked write has no link command of its conversation under way.
IdentityInv ==
    /\ \A t \in Turns : pc[t] \in {"running", "approved"} => Fresh(t)
    /\ \A k \in Keys : pending[k] # None => Fresh(pending[k].write)
    /\ \A t \in Turns : pc[t] \in LinkWaits => pending[key[t]] = None
    /\ \A t \in Turns : pc[t] = "approved" =>
          creds[t][Target] \in {None, creds[taken[t]][Target]}
    /\ \A x \in executed : x.token = creds[x.write][Target]

\* Credentials are read as a turn begins; a row is written for a person whose
\* code was redeemed.
LEMMA Readings ==
    ASSUME ChatInv, [ChatNext]_chatVars
    PROVE  /\ \A o \in Turns : creds'[o] = creds[o] \/ pc[o] \in {"idle", "resolving"}
           /\ \A u \in Users : \/ links'[u][Target] \in {None, links[u][Target]}
                               \/ \E t \in Turns : pc[t] = "issued" /\ caller[t] = u
<1> DEFINE Reads == \A o \in Turns : creds'[o] = creds[o] \/ pc[o] \in {"idle", "resolving"}
           Writes == \A u \in Users : \/ links'[u][Target] \in {None, links[u][Target]}
                                      \/ \E t \in Turns : pc[t] = "issued" /\ caller[t] = u
<1> USE DEF ChatInv, ChatData, TypeInv, DataOK, Row
<1>0. Target \in Services
  BY ChatAssumption
<1>1. ASSUME NEW t \in Turns, NEW u \in Users, NEW rows, NEW left, NEW failed,
             RevokeNext(t, u, rows, left, failed)
      PROVE  Writes
  <2>1. links' = links \/ links' = [links EXCEPT ![u] = NoLinks]
    BY <1>1 DEF RevokeNext, delete_all
  <2>2. \A v \in Users : links'[v] = links[v] \/ links'[v] = NoLinks
    BY <2>1
  <2>3. NoLinks[Target] = None
    BY <1>0 DEF NoLinks
  <2> QED
    BY <2>2, <2>3
<1>2. ASSUME NEW t \in Turns, Arrive(t) PROVE Reads /\ Writes
  <2>1. PICK u \in Callers : Tell(t, u, msg'[t]) \/ Redeem(t, u) \/ Logout(t, u)
                             \/ UNCHANGED <<links, creds>>
    BY <1>2 DEF Arrive, ReceiveLink, ReceiveChat, Tell
  <2>2. pc[t] = "idle"
    BY <1>2, ArriveEnters DEF Enters, MayBeSent
  <2>3. CASE Logout(t, u)
    <3>1. u \in Users /\ creds' = [creds EXCEPT ![t] = Rows(u)]
      BY <2>3, LinkAssumption DEF Logout
    <3>2. Writes
      BY <1>1, <2>3, <3>1 DEF Logout
    <3> QED
      BY <2>2, <3>1, <3>2
  <2> QED
    BY <2>1, <2>3 DEF Tell, Redeem
<1>3. ASSUME NEW t \in Turns, LinkProceeds(t) PROVE Reads /\ Writes
  <2>1. UNCHANGED creds /\ pc[t] \in LinkWaits /\ caller[t] \in Users
    BY <1>3, LinkProceedSteps
       DEF LinkProceeds, RedeemIssues, RevokeTakesEffect, RedeemReturns, RedeemRefused,
           RevokeReturns, RevokeRefused, ProviderBreaks
  <2>2. CASE RevokeReturns(t) \/ RevokeRefused(t)
    BY <1>1, <2>1, <2>2 DEF RevokeReturns, RevokeRefused
  <2>3. CASE RedeemReturns(t)
    <3>1. PICK s \in Sole : links' = [links EXCEPT ![caller[t]][s] = TokenOf(caller[t], s, t)]
      BY <2>3 DEF RedeemReturns, put
    <3>2. pc[t] = "issued" /\ \A u \in Users \ {caller[t]} : links'[u] = links[u]
      BY <2>1, <2>3, <3>1 DEF RedeemReturns
    <3> QED
      BY <2>1, <3>2
  <2>4. CASE RedeemIssues(t) \/ RevokeTakesEffect(t) \/ RedeemRefused(t) \/ ProviderBreaks(t)
    BY <2>1, <2>4 DEF RedeemIssues, RevokeTakesEffect, RedeemRefused, ProviderBreaks
  <2> QED
    BY <1>3, <2>2, <2>3, <2>4 DEF LinkProceeds
<1>4. ASSUME NEW t \in Turns, Advance(t), ~LinkProceeds(t) PROVE Reads /\ Writes
  BY <1>4 DEF Advance, ResolveFails, TakePending, StartRun, BadPhoto, Resolved, ReadCredentials,
              PerformWrite, WriteComesToNothing, RunReplies, RunPauses, RunFails, RunStays,
              AppendUser, AppendReply
<1>5. ASSUME NEW t \in Turns, NEW s \in Services, ForgetRefused(t, s) PROVE Reads /\ Writes
  <2>1. UNCHANGED creds /\ links' = [links EXCEPT ![caller[t]][s] = None]
    BY <1>5 DEF ForgetRefused, Forget, delete
  <2> QED
    BY <1>0, <2>1
<1>6. ASSUME (\E k \in live : Disconnect(k)) \/ ChatCrash \/ UNCHANGED chatVars PROVE Reads /\ Writes
  BY <1>6 DEF Disconnect, RevokedElsewhere, ChatCrash, chatVars, linkVars
<1> HIDE DEF Reads, Writes
<1>7. Reads /\ Writes
  BY <1>2, <1>3, <1>4, <1>5, <1>6 DEF ChatNext, AllOver
<1> QED
  BY <1>7 DEF Reads, Writes

\* A reading stays good while no code is redeemed for its caller.
LEMMA FreshStays ==
    ASSUME ChatInv, [ChatNext]_chatVars, NEW w \in Turns, Fresh(w),
           pc[w] \notin {"idle", "resolving"}, caller'[w] = caller[w],
           \A t \in Turns : pc[t] = "issued" => caller[t] # caller[w]
    PROVE  Fresh(w)'
<1>1. creds'[w] = creds[w] /\ caller[w] \in Users \cup {None}
  BY Readings DEF ChatInv, TypeInv, DataOK
<1>2. caller[w] # None => links'[caller[w]][Target] \in {None, links[caller[w]][Target]}
  BY <1>1, Readings
<1> QED
  BY <1>1, <1>2 DEF Fresh

\* Nobody awaits a provider for the person behind a run or a parked write.
LEMMA NobodyRedeems ==
    ASSUME ChatInv, ApprovalInv, SoloChat, OwnConversations, IdentityInv, NEW w \in Turns,
           pc[w] \in {"running", "approved"} \/ \E k \in Keys : pending[k] # None /\ pending[k].write = w
    PROVE  \A t \in Turns : pc[t] = "issued" => caller[t] # caller[w]
<1> SUFFICES ASSUME NEW t \in Turns, pc[t] = "issued", caller[t] = caller[w] PROVE FALSE
  OBVIOUS
<1>1. caller[t] \in Users /\ caller[t] # None
  BY Distinct DEF ChatInv, TypeInv, LinkWaits
<1>2. CASE pc[w] \in {"running", "approved"}
  BY <1>2 DEF SoloChat, InProgress, Over
<1>3. ASSUME NEW k \in Keys, pending[k] # None, pending[k].write = w PROVE FALSE
  <2>1. key[w] = k /\ pc[w] # "idle"
    BY <1>3, WriteFacts DEF ApprovalInv, ParkedInv
  <2>2. key[t] = k
    BY <1>1, <2>1 DEF OwnConversations
  <2> QED
    BY <1>3, <2>2 DEF IdentityInv, LinkWaits
<1> QED
  BY <1>2, <1>3

\* What was read for a run or a parked write outlives a step that is not an arrival.
LEMMA FreshKept ==
    ASSUME ChatInv, ApprovalInv, SoloChat, OwnConversations, IdentityInv, [ChatNext]_chatVars,
           UNCHANGED caller
    PROVE  /\ \A w \in Turns : pc[w] \in {"running", "approved"} => Fresh(w)'
           /\ \A k \in Keys, w \in Turns :
                 pending[k] # None /\ pending[k].write = w => Fresh(w)'
<1>1. ASSUME NEW w \in Turns, pc[w] \in {"running", "approved"} PROVE Fresh(w)'
  BY <1>1, FreshStays, NobodyRedeems DEF IdentityInv
<1>2. ASSUME NEW k \in Keys, NEW w \in Turns, pending[k] # None, pending[k].write = w
      PROVE  Fresh(w)'
  <2>1. pc[w] \notin {"idle", "resolving"}
    BY <1>2, WriteFacts
  <2>2. Fresh(w) /\ \A t \in Turns : pc[t] = "issued" => caller[t] # caller[w]
    BY <1>2, NobodyRedeems DEF IdentityInv
  <2> QED
    BY <2>1, <2>2, FreshStays
<1> QED
  BY <1>1, <1>2

LEMMA IdentityArrive ==
    ASSUME ~Overlap, ChatInv, ApprovalInv, SoloChat, OwnConversations, IdentityInv,
           NEW t \in Turns, Arrive(t)
    PROVE  IdentityInv'
<1> USE DEF ChatInv, ChatData, TypeInv, DataOK
<1>1. PICK u \in Callers, k \in Keys : Enters(t, u, k)
  BY ArriveEnters
<1>2. /\ \A o \in Turns \ {t} : pc'[o] = pc[o] /\ caller'[o] = caller[o] /\ key'[o] = key[o]
      /\ pc[t] = "idle" /\ pc'[t] \notin {"idle", "running", "approved"} /\ key'[t] = k
      /\ pc'[t] \in LinkWaits => pending'[k] = None
      /\ \A c \in Keys : pending'[c] \in {None, pending[c]}
      /\ UNCHANGED <<taken, executed>>
  BY <1>1 DEF Enters, MayBeSent, Unpark, LinkWaits
<1>3. ASSUME NEW w \in Turns, Fresh(w), pc[w] \notin {"idle", "resolving"},
             \A o \in Turns : pc[o] = "issued" => caller[o] # caller[w]
      PROVE  Fresh(w)'
  <2>1. [ChatNext]_chatVars /\ caller'[w] = caller[w]
    BY <1>2, <1>3 DEF ChatNext
  <2> QED
    BY <1>3, <2>1, FreshStays
<1>4. ASSUME NEW w \in Turns, pc'[w] \in {"running", "approved"} PROVE Fresh(w)'
  <2>1. pc[w] \in {"running", "approved"} /\ Fresh(w)
    BY <1>2, <1>4 DEF IdentityInv
  <2> QED
    BY <1>3, <2>1, NobodyRedeems
<1>5. ASSUME NEW c \in Keys, NEW w \in Turns, pending'[c] # None, pending'[c].write = w
      PROVE  Fresh(w)'
  <2>1. pending[c] # None /\ pending[c].write = w
    BY <1>2, <1>5
  <2>2. Fresh(w) /\ pc[w] \notin {"idle", "resolving"}
    BY <2>1, WriteFacts DEF IdentityInv
  <2> QED
    BY <1>3, <2>1, <2>2, NobodyRedeems
<1>6. \A o \in Turns : pc'[o] \in LinkWaits => pending'[key'[o]] = None
  BY <1>2 DEF IdentityInv, LinkWaits
<1>7. \A o \in Turns : pc[o] \notin {"idle", "resolving"} => creds'[o] = creds[o]
  BY Readings DEF ChatNext
<1>8. \A o \in Turns : pc'[o] = "approved" => creds'[o][Target] \in {None, creds'[taken[o]][Target]}
  <2> SUFFICES ASSUME NEW o \in Turns, pc'[o] = "approved"
               PROVE  creds'[o][Target] \in {None, creds'[taken[o]][Target]}
    OBVIOUS
  <2>1. pc[o] = "approved" /\ taken[o] \in Turns /\ pc[taken[o]] \notin {"idle", "resolving"}
    BY <1>2, WriteFacts
  <2> QED
    BY <1>7, <2>1 DEF IdentityInv
<1>9. \A x \in executed : x.token = creds'[x.write][Target]
  BY <1>7, WriteFacts, RunTypes DEF IdentityInv
<1>10. \A c \in Keys : pending'[c] # None => pending'[c].write \in Turns
  BY <1>2, WriteFacts
<1> QED
  BY <1>2, <1>4, <1>5, <1>6, <1>8, <1>9, <1>10 DEF IdentityInv

\* A step that neither reads credentials nor parks or runs a write.
LEMMA IdentityStays ==
    ASSUME ChatInv, ApprovalInv, SoloChat, OwnConversations, IdentityInv, [ChatNext]_chatVars,
           UNCHANGED <<caller, key, taken, pending, executed>>,
           \A o \in Turns : /\ pc'[o] \in {"running", "approved"} => pc[o] \in {"running", "approved"}
                            /\ pc'[o] = "approved" => pc[o] = "approved"
                            /\ pc'[o] \in LinkWaits => pc[o] \in LinkWaits
    PROVE  IdentityInv'
<1>1. \A o \in Turns : pc[o] \notin {"idle", "resolving"} => creds'[o] = creds[o]
  BY Readings
<1>2. \A o \in Turns : pc'[o] = "approved" => creds'[o][Target] \in {None, creds'[taken[o]][Target]}
  <2> SUFFICES ASSUME NEW o \in Turns, pc'[o] = "approved"
               PROVE  creds'[o][Target] \in {None, creds'[taken[o]][Target]}
    OBVIOUS
  <2>1. pc[o] = "approved" /\ taken[o] \in Turns /\ pc[taken[o]] \notin {"idle", "resolving"}
    BY WriteFacts DEF ChatInv, ChatData
  <2> QED
    BY <1>1, <2>1 DEF IdentityInv
<1>3. \A x \in executed : x.token = creds'[x.write][Target]
  BY <1>1, WriteFacts, RunTypes DEF IdentityInv
<1>4. \A o \in Turns : pc'[o] \in {"running", "approved"} => Fresh(o)'
  BY FreshKept
<1>5. \A k \in Keys : pending[k] # None => pending[k].write \in Turns
  BY WriteFacts
<1>6. \A k \in Keys, w \in Turns : pending[k] # None /\ pending[k].write = w => Fresh(w)'
  BY FreshKept
<1>7. \A o \in Turns : pc'[o] \in LinkWaits => pending[key[o]] = None
  BY DEF IdentityInv
<1> QED
  BY <1>2, <1>3, <1>4, <1>5, <1>6, <1>7 DEF IdentityInv

LEMMA IdentityTake ==
    ASSUME ChatInv, ApprovalInv, SoloChat, OwnConversations, IdentityInv, [ChatNext]_chatVars,
           NEW t \in Turns, TakePending(t) \/ StartRun(t)
    PROVE  IdentityInv'
<1> USE DEF ChatInv, ChatData, TypeInv, DataOK
<1>0. Target \in Services
  BY ChatAssumption
<1>1. /\ pc[t] = "resolving" /\ Moves(t, {"approved", "running"}) /\ key[t] \in Keys
      /\ UNCHANGED <<caller, key, links, executed>>
      /\ creds' = [creds EXCEPT ![t] = Rows(caller[t])]
      /\ \A o \in Turns \ {t} : taken'[o] = taken[o]
      /\ \A k \in Keys : pending'[k] \in {None, pending[k]}
  BY TurnSteps DEF TakePending, StartRun, Resolved, ReadCredentials, Moves, Unpark
<1>2. creds'[t] = Rows(caller[t]) /\ caller[t] \in Users \cup {None}
  BY <1>1
<1>3. creds'[t][Target] = IF caller[t] = None THEN None ELSE links[caller[t]][Target]
  BY <1>0, <1>2 DEF Rows, NoLinks
<1>4. Fresh(t)'
  BY <1>1, <1>3 DEF Fresh
<1>5. \A o \in Turns \ {t} : pc'[o] = pc[o] /\ creds'[o] = creds[o]
  BY <1>1 DEF Moves
<1>6. \A o \in Turns : pc'[o] \in {"running", "approved"} => Fresh(o)'
  BY <1>1, <1>4, <1>5, FreshKept
<1>7. \A k \in Keys, w \in Turns : pending'[k] # None /\ pending'[k].write = w => Fresh(w)'
  BY <1>1, FreshKept
<1>8. \A k \in Keys : pending'[k] # None => pending'[k].write \in Turns
  BY <1>1, WriteFacts
<1>9. \A o \in Turns : pc'[o] \in LinkWaits => pending'[key[o]] = None
  BY <1>1, <1>5, Distinct DEF IdentityInv, LinkWaits, Moves
<1>10. pc'[t] = "approved" =>
          taken'[t] \in Turns \ {t} /\ creds'[t][Target] \in {None, creds[taken'[t]][Target]}
  <2> SUFFICES ASSUME pc'[t] = "approved"
               PROVE  taken'[t] \in Turns \ {t}
                      /\ creds'[t][Target] \in {None, creds[taken'[t]][Target]}
    OBVIOUS
  <2>1. TakePending(t)
    BY TurnSteps DEF StartRun, Moves
  <2>2. PICK w \in Turns : w = pending[key[t]].write /\ pending[key[t]] # None /\ taken'[t] = w
    BY <1>1, <2>1, WriteFacts DEF TakePending
  <2>3. w \in staged /\ key[w] = key[t] /\ Fresh(w) /\ w # t /\ pc[w] # "idle"
    BY <1>1, <2>2, WriteFacts DEF ApprovalInv, ParkedInv, IdentityInv
  <2>4. caller[w] = caller[t]
    BY <1>1, <2>3 DEF OwnConversations
  <2> QED
    BY <1>3, <2>2, <2>3, <2>4 DEF Fresh
<1>11. ASSUME NEW o \in Turns, pc'[o] = "approved"
       PROVE  creds'[o][Target] \in {None, creds'[taken'[o]][Target]}
  <2>1. CASE o = t
    BY <1>5, <1>10, <1>11, <2>1
  <2>2. CASE o # t
    <3>1. pc[o] = "approved" /\ taken[o] \in Turns /\ taken[o] # t
      BY <1>1, <1>5, <1>11, <2>2, WriteFacts
    <3> QED
      BY <1>1, <1>5, <2>2, <3>1 DEF IdentityInv
  <2> QED
    BY <2>1, <2>2
<1>12. \A x \in executed : x.token = creds'[x.write][Target]
  BY <1>1, <1>5, WriteFacts, RunTypes DEF IdentityInv
<1> QED
  BY <1>1, <1>6, <1>7, <1>8, <1>9, <1>11, <1>12 DEF IdentityInv

LEMMA IdentityPerform ==
    ASSUME ChatInv, ApprovalInv, SoloChat, OwnConversations, IdentityInv, [ChatNext]_chatVars,
           NEW t \in Turns, PerformWrite(t)
    PROVE  IdentityInv'
<1> DEFINE new == [write |-> taken[t], turn |-> t, token |-> creds[t][Target], image |-> image[t]]
<1>1. /\ pc[t] = "approved" /\ Moves(t, {"running"}) /\ creds[t][Target] # None
      /\ UNCHANGED <<caller, key, creds, taken, pending>>
      /\ executed' = executed \cup {new}
  BY TurnSteps, Distinct DEF PerformWrite, RunStays, ChatInv, TypeInv, DataOK
<1>2. new.token = creds[t][Target] /\ new.write = taken[t]
  OBVIOUS
<1> HIDE DEF new
<1>3. creds[t][Target] = creds[taken[t]][Target]
  BY <1>1 DEF IdentityInv
<1>4. \A x \in executed' : x.token = creds'[x.write][Target]
  BY <1>1, <1>2, <1>3 DEF IdentityInv
<1>5. \A o \in Turns : pc'[o] \in {"running", "approved"} => Fresh(o)'
  BY <1>1, FreshKept DEF Moves
<1>6. \A k \in Keys, w \in Turns : pending[k] # None /\ pending[k].write = w => Fresh(w)'
  BY <1>1, FreshKept
<1>7. \A k \in Keys : pending[k] # None => pending[k].write \in Turns
  BY WriteFacts
<1>8. \A o \in Turns : /\ pc'[o] \in LinkWaits => pending[key[o]] = None
                       /\ pc'[o] = "approved" => creds[o][Target] \in {None, creds[taken[o]][Target]}
  BY <1>1 DEF IdentityInv, Moves, LinkWaits
<1> QED
  BY <1>1, <1>4, <1>5, <1>6, <1>7, <1>8 DEF IdentityInv

LEMMA IdentityPause ==
    ASSUME ChatInv, ApprovalInv, SoloChat, OwnConversations, IdentityInv, [ChatNext]_chatVars,
           NEW t \in Turns, RunPauses(t)
    PROVE  IdentityInv'
<1> USE DEF ChatInv, ChatData, TypeInv, DataOK
<1>1. /\ pc[t] = "running" /\ Moves(t, {"reply"}) /\ key[t] \in Keys
      /\ UNCHANGED <<caller, key, creds, taken, executed>>
      /\ pending' = [pending EXCEPT ![key[t]] = [write |-> t, image |-> image[t]]]
  BY TurnSteps DEF RunPauses, RunStays, Park
<1>2. Fresh(t)'
  BY <1>1, FreshKept
<1>3. \A o \in Turns : pc'[o] \in {"running", "approved"} => Fresh(o)'
  BY <1>1, FreshKept DEF Moves
<1>4. pending'[key[t]].write = t /\ \A k \in Keys \ {key[t]} : pending'[k] = pending[k]
  BY <1>1
<1>5. ASSUME NEW k \in Keys, pending'[k] # None
      PROVE  pending'[k].write \in Turns /\ \A w \in Turns : pending'[k].write = w => Fresh(w)'
  BY <1>1, <1>2, <1>4, <1>5, FreshKept, WriteFacts
<1>6. ASSUME NEW o \in Turns, pc'[o] \in LinkWaits PROVE pending'[key[o]] = None
  <2>1. o # t /\ pc[o] \in LinkWaits
    BY <1>1, <1>6 DEF Moves, LinkWaits
  <2>2. InProgress(o) /\ InProgress(t)
    BY <1>1, <2>1 DEF InProgress, Over, LinkWaits
  <2>3. key[o] \in Keys /\ key[o] # key[t] /\ pending[key[o]] = None
    BY <2>1, <2>2 DEF SoloChat, IdentityInv, InProgress
  <2> QED
    BY <1>4, <2>3
<1>7. \A o \in Turns : pc'[o] = "approved" => creds[o][Target] \in {None, creds[taken[o]][Target]}
  BY <1>1 DEF IdentityInv, Moves
<1> QED
  BY <1>1, <1>3, <1>5, <1>6, <1>7 DEF IdentityInv

LEMMA IdentityNext ==
    ASSUME ~Overlap, ChatInv, ApprovalInv, SoloChat, OwnConversations, IdentityInv,
           [ChatNext]_chatVars
    PROVE  IdentityInv'
<1> SUFFICES ASSUME \A t \in Turns : ~Arrive(t) PROVE IdentityInv'
  BY IdentityArrive
<1>0. UNCHANGED <<caller, key>>
  BY RequestsStay
<1>1. ASSUME NEW t \in Turns, LinkProceeds(t) PROVE IdentityInv'
  <2>1. pc[t] \in LinkWaits /\ Moves(t, LinkWaits \cup {"reply", "failed"})
    BY <1>1, LinkProceedSteps
  <2> QED
    BY <1>0, <1>1, <2>1, IdentityStays DEF LinkProceeds, Moves, LinkWaits
<1>2. ASSUME NEW t \in Turns, ResolveFails(t) \/ BadPhoto(t) \/ RunFails(t) \/ RunReplies(t)
                              \/ WriteComesToNothing(t) \/ AppendUser(t) \/ AppendReply(t)
      PROVE  IdentityInv'
  <2>1. UNCHANGED <<taken, pending, executed>>
    BY <1>2 DEF ResolveFails, BadPhoto, RunFails, RunReplies, WriteComesToNothing, RunStays,
                AppendUser, AppendReply
  <2>2. CASE Moves(t, {"failed", "reply", "stored", "done"})
    BY <1>0, <2>1, <2>2, IdentityStays DEF Moves, LinkWaits
  <2>3. CASE WriteComesToNothing(t)
    <3>1. Moves(t, {"running"}) /\ pc[t] = "approved"
      BY <2>3, TurnSteps DEF WriteComesToNothing
    <3> QED
      BY <1>0, <2>1, <3>1, IdentityStays DEF Moves, LinkWaits
  <2> QED
    BY <1>2, <2>2, <2>3, TurnSteps DEF Moves
<1>3. ASSUME \/ \E t \in Turns, s \in Services : ForgetRefused(t, s)
             \/ \E k \in live : Disconnect(k)
             \/ ChatCrash
             \/ UNCHANGED chatVars
      PROVE  IdentityInv'
  <2>1. \A o \in Turns : pc'[o] = pc[o] \/ pc'[o] = "dead"
    BY <1>3, OtherSteps DEF chatVars, linkVars
  <2>2. UNCHANGED <<taken, pending, executed>>
    BY <1>3 DEF ForgetRefused, Disconnect, ChatCrash, chatVars
  <2> QED
    BY <1>0, <2>1, <2>2, IdentityStays DEF LinkWaits
<1> QED
  BY <1>1, <1>2, <1>3, IdentityTake, IdentityPerform, IdentityPause DEF ChatNext, Advance, AllOver

\* "On that person's own tokens" (chat_service.py:16-18), and through every
\* approval the same token: whatever changes the identity between a question and
\* its answer drops the question (chat_service.py:192-195), for any number of
\* people, services and turns, whatever dies or is revoked elsewhere, while the
\* bridge waits for answers and nobody shares a conversation or has two.
THEOREM SameIdentityHolds ==
    ASSUME ~Overlap
    PROVE  ChatSpec => [](OwnConversations => SameIdentity)
<1>1. ChatInit => IdentityInv
  BY DEF ChatInit, LinkInit, IdentityInv, LinkWaits
<1>2. /\ ChatInv /\ ApprovalInv /\ SoloChat /\ (OwnConversations => IdentityInv)
      /\ [ChatNext]_chatVars
      => (OwnConversations => IdentityInv)'
  BY OwnConversationsBefore, IdentityNext
<1>3. (OwnConversations => IdentityInv) => (OwnConversations => SameIdentity)
  BY DEF IdentityInv, SameIdentity
<1> QED
  BY <1>1, <1>2, <1>3, SoloChatAlways, PTL DEF ChatSpec
=============================================================================
