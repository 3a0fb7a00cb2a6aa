----------------------------- MODULE ChatService -----------------------------
(***************************************************************************)
(* One chat turn after another, over one brain                             *)
(* (application/business_services/chat_service.py, with                    *)
(* api_integrations/llm/llm_client.py and the repositories it writes).     *)
(*                                                                         *)
(* A write the agent wants to make pauses its run; the paused run is       *)
(* parked under the conversation's memory key, and the next turn of that   *)
(* conversation takes it: a clear yes lets the write run, anything else    *)
(* denies it.  Link commands go to LinkService, whose state and actions    *)
(* this module extends.                                                    *)
(*                                                                         *)
(* Between two awaits a handler runs alone, so an action may only start    *)
(* when no request holds the loop; each repository call commits by itself, *)
(* so a crash may fall between two of them.  The agent and its tools are   *)
(* outside the program: a run may use any credential of its deps, pause,   *)
(* reply or raise.  A write is named by the turn whose run proposed it.    *)
(***************************************************************************)
EXTENDS LinkService, Sequences

CONSTANTS
    Keys,      \* memory keys, see memory_key
    Cold,      \* those whose agent the registry has to load: the turn waits for it
    Messages,  \* what ordinary messages say: "say", "yes"
    Photos,    \* what they carry: "none", "photo", "malformed"
    Target     \* the service the write tools act on

\* A photo in some deps, named by the turn that attached it; and a row of
\* pending_approvals.
Photo == Turns \cup {None}

Parked == [write : Turns, image : Photo]

ASSUME ChatAssumption ==
    /\ Cold \subseteq Keys
    /\ None \notin Keys
    /\ None \notin Parked
    /\ Messages \subseteq {"say", "yes"}
    /\ Photos \subseteq {"none", "photo", "malformed"}
    /\ Target \in Services

VARIABLES
    key,       \* the conversation of each request
    msg,       \* what each request says
    photo,     \* what it carries
    image,     \* the photo in its deps
    taken,     \* the parked write its turn took over
    pending,   \* table pending_approvals
    messages,  \* table messages
    staged,    \* turns whose run paused on a write
    executed,  \* writes run by a tool: by which turn, on what
    last,      \* the message sent last in each conversation
    facing     \* the answer a person was looking at when sending a request

requestVars == <<key, msg, photo, last, facing>>
turnVars == <<image, taken>>
historyVars == <<staged, executed>>
chatVars == <<linkVars, requestVars, turnVars, pending, messages, historyVars>>

-----------------------------------------------------------------------------
(* The tables.                                                             *)

\* Slips: a table without the image column; a photo left behind.
ParkOldRow(k, write, img) == [pending EXCEPT ![k] = [write |-> write]]

ParkNoPhoto(k, write, img) ==
    [pending EXCEPT ![k] = [write |-> write, image |-> None]]

\* INSERT OR REPLACE, and DELETE, of the one row a key may have.
Park(k, write, img) == [pending EXCEPT ![k] = [write |-> write, image |-> img]]

\* Slip: the row survives being taken.
UnparkNot(k) == pending

Unpark(k) == [pending EXCEPT ![k] = None]

append(t, role) ==
    messages' = [messages EXCEPT ![key[t]] = Append(@, [turn |-> t, role |-> role])]

-----------------------------------------------------------------------------
(* The loop.                                                               *)

Over == {"done", "failed", "dead"}

ChatPhases == (LinkPhases \cup Over) \cup {"resolving", "approved", "stored"}

\* Slip: the store is awaited between the two rows of a turn.
HoldsLoopUntilStored(t) ==
    \/ pc[t] = "reply"
    \/ pc[t] = "resolving" /\ key[t] \notin Cold

\* The default agent, and one that is warm in the registry, are there without
\* an await; a turn with its outcome persists it and answers without one.
HoldsLoop(t) ==
    \/ pc[t] \in {"reply", "stored"}
    \/ pc[t] = "resolving" /\ key[t] \notin Cold

LoopFree == \A t \in Turns : ~HoldsLoop(t)

InProgress(t) == pc[t] \notin {"idle"} \cup Over

\* Without Overlap the bridge sends the next message of a person, or to a
\* conversation, once the last one was answered.
MayBeSent(t, u, k) ==
    /\ LoopFree
    /\ pc[t] = "idle"
    /\ Overlap \/ \A o \in Turns : InProgress(o) => caller[o] # u /\ key[o] # k

\* The answer to the last message of the conversation, if one was delivered.
Shown(k) == {w \in {last[k]} \ {None} : pc[w] = "done"}

Sent(t, k, m, p) ==
    /\ key' = [key EXCEPT ![t] = k]
    /\ msg' = [msg EXCEPT ![t] = m]
    /\ photo' = [photo EXCEPT ![t] = p]
    /\ last' = [last EXCEPT ![k] = t]
    /\ facing' = [facing EXCEPT ![t] = Shown(k)]

-----------------------------------------------------------------------------
(* _handle_link: drop what is staged, carry the command out.  The answer is *)
(* stored by AppendUser and AppendReply like any other.                     *)

\* Slip: a link command leaves what is staged.
ReceiveLinkOnly(t, u, k, command) ==
    /\ MayBeSent(t, u, k)
    /\ Sent(t, k, command, "none")
    /\ \/ Tell(t, u, command)
       \/ command = "redeem" /\ Redeem(t, u)
       \/ command = "logout" /\ Logout(t, u)
    /\ UNCHANGED <<turnVars, pending, messages, historyVars>>

ReceiveLink(t, u, k, command) ==
    /\ MayBeSent(t, u, k)
    /\ Sent(t, k, command, "none")
    /\ pending' = Unpark(k)
    /\ \/ Tell(t, u, command)
       \/ command = "redeem" /\ Redeem(t, u)
       \/ command = "logout" /\ Logout(t, u)
    /\ UNCHANGED <<turnVars, messages, historyVars>>

LinkProceeds(t) ==
    /\ \/ RedeemIssues(t)
       \/ RevokeTakesEffect(t)
       \/ /\ LoopFree
          /\ \/ RedeemReturns(t)
             \/ RedeemRefused(t)
             \/ RevokeReturns(t)
             \/ RevokeRefused(t)
             \/ ProviderBreaks(t)
    /\ UNCHANGED <<requestVars, turnVars, pending, messages, historyVars>>

-----------------------------------------------------------------------------
(* handle, for an ordinary message.                                        *)

ReceiveChat(t, u, k, m, p) ==
    /\ MayBeSent(t, u, k)
    /\ Sent(t, k, m, p)
    /\ caller' = [caller EXCEPT ![t] = u]
    /\ Goto(t, "resolving")
    /\ UNCHANGED <<links, creds, todo, kept, answer, live, asked, crashes,
                   turnVars, pending, messages, historyVars>>

\* The registry finds no such agent, or cannot load it.
ResolveFails(t) ==
    /\ pc[t] = "resolving"
    /\ key[t] \in Cold
    /\ LoopFree
    /\ Goto(t, "failed")
    /\ UNCHANGED <<caller, links, creds, todo, kept, answer, live, asked, crashes,
                   requestVars, turnVars, pending, messages, historyVars>>

\* Slip: any answer is a yes.
is_any_answer(m) == m # "none"

is_clear_yes(m) == m = "yes"

OwnPhoto(t) == IF photo[t] = "photo" THEN t ELSE None

\* The turns that may run on: its own loop slot, or a wait that is over.
Resolved(t) ==
    /\ pc[t] = "resolving"
    /\ \A o \in Turns \ {t} : ~HoldsLoop(o)

\* Slip: the row goes only with a yes.
TakeIfYes(t) ==
    /\ Resolved(t)
    /\ pending[key[t]] # None
    /\ image' = [image EXCEPT ![t] = pending[key[t]].image]
    /\ taken' = [taken EXCEPT ![t] = pending[key[t]].write]
    /\ pending' = IF is_clear_yes(msg[t]) THEN Unpark(key[t]) ELSE pending
    /\ ReadCredentials(t, caller[t])
    /\ Goto(t, IF is_clear_yes(msg[t]) THEN "approved" ELSE "running")
    /\ UNCHANGED <<caller, links, todo, kept, answer, live, asked, crashes,
                   requestVars, messages, historyVars>>

\* Slip: a write resumes on the credentials it was proposed under.
TakeOldDeps(t) ==
    /\ Resolved(t)
    /\ pending[key[t]] # None
    /\ image' = [image EXCEPT ![t] = pending[key[t]].image]
    /\ taken' = [taken EXCEPT ![t] = pending[key[t]].write]
    /\ pending' = Unpark(key[t])
    /\ creds' = [creds EXCEPT ![t] = creds[pending[key[t]].write]]
    /\ Goto(t, IF is_clear_yes(msg[t]) THEN "approved" ELSE "running")
    /\ UNCHANGED <<caller, links, todo, kept, answer, live, asked, crashes,
                   requestVars, messages, historyVars>>

\* The row is there: take it, delete it, and resume the run it holds.
TakePending(t) ==
    /\ Resolved(t)
    /\ pending[key[t]] # None
    /\ image' = [image EXCEPT ![t] = pending[key[t]].image]
    /\ taken' = [taken EXCEPT ![t] = pending[key[t]].write]
    /\ pending' = Unpark(key[t])
    /\ ReadCredentials(t, caller[t])
    /\ Goto(t, IF is_clear_yes(msg[t]) THEN "approved" ELSE "running")
    /\ UNCHANGED <<caller, links, todo, kept, answer, live, asked, crashes,
                   requestVars, messages, historyVars>>

\* No row: a first run, on the turn's own photo.
StartRun(t) ==
    /\ Resolved(t)
    /\ pending[key[t]] = None
    /\ photo[t] # "malformed"
    /\ image' = [image EXCEPT ![t] = OwnPhoto(t)]
    /\ ReadCredentials(t, caller[t])
    /\ Goto(t, "running")
    /\ UNCHANGED <<caller, links, todo, kept, answer, live, asked, crashes,
                   requestVars, taken, pending, messages, historyVars>>

\* _decode_image raises ValueError.
BadPhoto(t) ==
    /\ Resolved(t)
    /\ pending[key[t]] = None
    /\ photo[t] = "malformed"
    /\ Goto(t, "failed")
    /\ UNCHANGED <<caller, links, creds, todo, kept, answer, live, asked, crashes,
                   requestVars, turnVars, pending, messages, historyVars>>

-----------------------------------------------------------------------------
(* The agent's run.                                                        *)

RunStays ==
    UNCHANGED <<caller, links, creds, todo, kept, live, asked, crashes,
                requestVars, turnVars, messages>>

\* An approved write runs on this turn's token and the parked photo.
PerformWrite(t) ==
    /\ pc[t] = "approved"
    /\ LoopFree
    /\ creds[t][Target] \in live
    /\ executed' = executed \cup {[write |-> taken[t], turn |-> t,
                                   token |-> creds[t][Target], image |-> image[t]]}
    /\ Goto(t, "running")
    /\ RunStays
    /\ UNCHANGED <<answer, pending, staged>>

\* The tool answers with data (not linked, refused, unreachable) and the run
\* goes on; a credential the service refused is then forgotten, see Forget.
WriteComesToNothing(t) ==
    /\ pc[t] = "approved"
    /\ LoopFree
    /\ Goto(t, "running")
    /\ RunStays
    /\ UNCHANGED <<answer, pending, historyVars>>

ForgetRefused(t, s) ==
    /\ LoopFree
    /\ Forget(t, s)
    /\ UNCHANGED <<requestVars, turnVars, pending, messages, historyVars>>

RunReplies(t) ==
    /\ pc[t] = "running"
    /\ LoopFree
    /\ Reply(t, "told")
    /\ RunStays
    /\ UNCHANGED <<pending, historyVars>>

\* A PendingRun: park it beside the photo of this run.
RunPauses(t) ==
    /\ pc[t] = "running"
    /\ LoopFree
    /\ staged' = staged \cup {t}
    /\ pending' = Park(key[t], t, image[t])
    /\ Reply(t, "told")
    /\ RunStays
    /\ UNCHANGED executed

\* Slips: a failed run puts its write back; it stores what it was asked; it is
\* tried again.
FailAndRepark(t) ==
    /\ pc[t] \in {"approved", "running"}
    /\ LoopFree
    /\ Goto(t, "failed")
    /\ pending' = IF taken[t] = None THEN pending
                  ELSE Park(key[t], taken[t], image[t])
    /\ RunStays
    /\ UNCHANGED <<answer, historyVars>>

FailAndRetry(t) ==
    /\ pc[t] \in {"approved", "running"}
    /\ LoopFree
    /\ Goto(t, "resolving")
    /\ RunStays
    /\ UNCHANGED <<answer, pending, historyVars>>

\* The run raises: the model's API, a usage limit, a tool.
RunFails(t) ==
    /\ pc[t] \in {"approved", "running"}
    /\ LoopFree
    /\ Goto(t, "failed")
    /\ RunStays
    /\ UNCHANGED <<answer, pending, historyVars>>

-----------------------------------------------------------------------------
(* Persisting the exchange: two commits, then the reply leaves.            *)

AppendUser(t) ==
    /\ pc[t] = "reply"
    /\ append(t, "user")
    /\ Goto(t, "stored")
    /\ UNCHANGED <<caller, links, creds, todo, kept, answer, live, asked, crashes,
                   requestVars, turnVars, pending, historyVars>>

AppendReply(t) ==
    /\ pc[t] = "stored"
    /\ append(t, "assistant")
    /\ Goto(t, "done")
    /\ UNCHANGED <<caller, links, creds, todo, kept, answer, live, asked, crashes,
                   requestVars, turnVars, pending, historyVars>>

-----------------------------------------------------------------------------
ChatCrash ==
    /\ crashes < MaxCrashes
    /\ crashes' = crashes + 1
    /\ pc' = [t \in Turns |-> IF InProgress(t) THEN "dead" ELSE pc[t]]
    /\ UNCHANGED <<caller, links, creds, todo, kept, answer, live, asked,
                   requestVars, turnVars, pending, messages, historyVars>>

Disconnect(k) ==
    /\ RevokedElsewhere(k)
    /\ UNCHANGED <<requestVars, turnVars, pending, messages, historyVars>>

AllOver ==
    /\ \A t \in Turns : pc[t] \in Over
    /\ UNCHANGED chatVars

ChatInit ==
    /\ LinkInit
    /\ key = [t \in Turns |-> None]
    /\ msg = [t \in Turns |-> "none"]
    /\ photo = [t \in Turns |-> "none"]
    /\ image = [t \in Turns |-> None]
    /\ taken = [t \in Turns |-> None]
    /\ pending = [k \in Keys |-> None]
    /\ messages = [k \in Keys |-> <<>>]
    /\ staged = {}
    /\ executed = {}
    /\ last = [k \in Keys |-> None]
    /\ facing = [t \in Turns |-> {}]

\* A request comes in.
Arrive(t) ==
    \E u \in Callers, k \in Keys :
        \/ \E command \in Commands : ReceiveLink(t, u, k, command)
        \/ \E m \in Messages, p \in Photos : ReceiveChat(t, u, k, m, p)

\* A request in progress is taken on.
Advance(t) ==
    \/ LinkProceeds(t)
    \/ ResolveFails(t)
    \/ TakePending(t)
    \/ StartRun(t)
    \/ BadPhoto(t)
    \/ PerformWrite(t)
    \/ WriteComesToNothing(t)
    \/ RunReplies(t)
    \/ RunPauses(t)
    \/ RunFails(t)
    \/ AppendUser(t)
    \/ AppendReply(t)

ChatNext ==
    \/ \E t \in Turns : Arrive(t) \/ Advance(t)
    \/ \E t \in Turns, s \in Services : ForgetRefused(t, s)
    \/ \E k \in live : Disconnect(k)
    \/ ChatCrash
    \/ AllOver

ChatFairness == \A t \in Turns : WF_chatVars(Advance(t))

ChatSpec == ChatInit /\ [][ChatNext]_chatVars /\ ChatFairness

-----------------------------------------------------------------------------
Execution == [write : Turns, turn : Turns, token : Token, image : Photo]

Message == [turn : Turns, role : {"user", "assistant"}]

\* Type invariant.
ChatTypeOK ==
    /\ pc \in [Turns -> ChatPhases]
    /\ caller \in [Turns -> Users \cup {None}]
    /\ links \in [Users -> [Services -> Token \cup {None}]]
    /\ creds \in [Turns -> [Services -> Token \cup {None}]]
    /\ todo \in [Turns -> SUBSET Services]
    /\ kept \in [Turns -> SUBSET Services]
    /\ answer \in [Turns -> Answers]
    /\ live \subseteq Token
    /\ asked \subseteq Token \cup {None}
    /\ crashes \in Nat
    /\ key \in [Turns -> Keys \cup {None}]
    /\ msg \in [Turns -> Messages \cup Commands \cup {"none"}]
    /\ photo \in [Turns -> Photos \cup {"none"}]
    /\ image \in [Turns -> Photo]
    /\ taken \in [Turns -> Turns \cup {None}]
    /\ pending \in [Keys -> Parked \cup {None}]
    /\ messages \in [Keys -> Seq(Message)]
    /\ staged \subseteq Turns
    /\ executed \subseteq Execution
    /\ last \in [Keys -> Turns \cup {None}]
    /\ facing \in [Turns -> SUBSET Turns]

\* A parked write runs at most once, whatever overlaps and wherever the
\* process dies: "lost beats doubled" (chat_service.py:142-144,
\* pending_approval_repository.py:4-7).
AtMostOnce == \A x, y \in executed : x.write = y.write => x = y

\* Only a turn that says yes, in the conversation of the write, runs it; the
\* turn that proposed a write never does (chat_service.py:146-154).
ConsentedByYes ==
    \A x \in executed :
        /\ msg[x.turn] = "yes"
        /\ key[x.turn] = key[x.write]
        /\ x.turn # x.write

\* A write runs on the credential of the person whose turn runs it ("on that
\* person's own tokens and nobody else's", chat_service.py:16-18).
OwnCredential == \A x \in executed : x.token.owner = caller[x.turn]

\* A write runs on the very credential it was proposed under: whatever
\* changes the identity in between drops it (chat_service.py:192-195).
SameIdentity == \A x \in executed : x.token = creds[x.write][Target]

\* A yes approves the question its sender was looking at: the write was asked
\* about in the answer to the message before (README: "only a clear "yes" as
\* the next message resumes and executes it"; chat_service.py:75 "anything
\* else cancels").
InformedConsent == \A x \in executed : x.write \in facing[x.turn]

\* "Reply "yes" to proceed -- anything else cancels" (chat_service.py:75): a
\* question answered with anything but yes is never acted on afterwards.
AnythingElseCancels ==
    \A x \in executed, t \in Turns :
        x.write \in facing[t] => msg[t] = "yes"

\* A write runs on the photo its proposer worked on, although another turn runs it and
\* may have sent a photo too (chat_service.py:139-141): the proposer's own or, if it
\* answered a question and its run asked again, the one parked with that question.
PhotoTravels ==
    \A x \in executed :
        x.image = IF taken[x.write] = None THEN OwnPhoto(x.write) ELSE image[taken[x.write]]

\* "A failure never stores half a turn" (chat_service.py:178), whatever overlaps: the
\* message of a user is followed by the answer to it, never by a row of another turn,
\* unless that answer is being stored or the process died between the two commits.
WholeTurns ==
    \A k \in Keys : \A i \in 1..Len(messages[k]) :
        LET m == messages[k][i]
        IN  m.role = "user" =>
              \/ pc[m.turn] = "dead"
              \/ IF i = Len(messages[k])
                 THEN pc[m.turn] = "stored"
                 ELSE messages[k][i + 1] = [turn |-> m.turn, role |-> "assistant"]

\* The promise of WriteApproval, read off the tables and the requests.
Waits(w) == \E k \in Keys : pending[k] # None /\ pending[k].write = w

StageOf(w) ==
    IF w \notin staged THEN "unasked"
    ELSE IF \E x \in executed : x.write = w THEN "performed"
    ELSE IF Waits(w) THEN "waiting"
    ELSE IF \E t \in Turns : taken[t] = w /\ pc[t] = "approved" THEN "approved"
    ELSE "gone"

Approval == INSTANCE WriteApproval WITH
    Writes <- Turns,
    Conversations <- Keys,
    stage <- [w \in Turns |-> StageOf(w)],
    home <- [w \in Turns |-> IF w \in staged THEN key[w] ELSE None]

\* Turns, tables and crashes together implement that promise: every step of
\* the brain asks, approves, performs or abandons a write, or none of these.
ImplementsWriteApproval == Approval!Spec

\* Every request that came in is answered or fails, or dies with the process.
EveryTurnEnds == \A t \in Turns : InProgress(t) ~> pc[t] \in Over
=============================================================================
