-------------------------------- MODULE Server --------------------------------
(***************************************************************************)
(* One brain from its environment to its answers: create_app of main.py    *)
(* decides at startup what there is (Deployment), the controllers pass     *)
(* requests to ChatService.handle and AgentRegistry.reload, and whatever   *)
(* these raise is answered by middleware/error_handler.py.  The process    *)
(* may die at any moment and be started again, also on another             *)
(* environment; the two tables of the database stay.                       *)
(*                                                                         *)
(* What AgentRegistry, LinkService and ChatService have in detail is one   *)
(* step here: the registry's answer, a link command, a run of the model.   *)
(* Between two awaits nothing else runs, so a turn that ends is one step,  *)
(* and CrashMidTurn has what is left when the process dies inside it.      *)
(***************************************************************************)
EXTENDS Integers, Conversation, LinkCommands, Deployment

CONSTANTS
    Requests,     \* the requests that come, each once
    Bodies,       \* what they may ask for
    Texts,        \* what people may write
    Environments, \* what the process may be started with
    Known,        \* agents the memory service holds
    MaxStarts,    \* bound on the starts of the process
    None

VARIABLES
    phase,    \* "down" or "up"
    app,      \* what create_app wired
    starts,   \* how often it was started
    warm,     \* agents in the registry
    messages, \* the table messages, by id
    parked,   \* the table pending_approvals: for each key the request that parked a run
    pc,       \* how far each request is
    body,     \* what it asks for
    basis,    \* what its run has started from: the history shown, or the question resumed
    status    \* what it was answered with

vars == <<phase, app, starts, warm, messages, parked, pc, body, basis, status>>

-----------------------------------------------------------------------------
\* A reload names an agent, the rest of its path; health asks for none.  Any id may have
\* colons in it, an agent's too.
ASSUME BodiesAssumption ==
    \A b \in Bodies :
        /\ b.route \in {"chat", "health", "reload"}
        /\ b.route = "health" => b.agent = <<>>
        /\ b.agent \in Seq(STRING)
        /\ b.route = "chat" => b.conversation.id \in Seq(STRING)

ASSUME TextsAssumption ==
    /\ \A text \in Texts : IsText(text)
    /\ \A b \in Bodies : b.route = "chat" => b.text \in Texts

\* MEMORY_WINDOW is a number or is none; the other two are lists of parts.
ASSUME EnvironmentsAssumption ==
    \A env \in Environments :
        /\ env.window \in Int \cup {Unset}
        /\ env.toolsets \in Seq([agent : Seq(STRING), toolset : STRING])
        /\ env.sources \in
              Seq([alias : STRING, path : {"bare", "broken", "raises", "works"},
                   makes : Seq(STRING)])

ASSUME MaxStartsAssumption == MaxStarts \in Nat

Chat(b) == b.route = "chat"

Invalid(b) == Chat(b) /\ ~b.valid

Conversing(b) == normalize_conversation_id(b.conversation)

Key(b) == memory_key(Conversing(b), b.agent)

Keys == {Key(b) : b \in {c \in Bodies : Chat(c)}}

Rows == [key : Keys, role : {"user", "assistant"}, by : Requests]

\* What a run may start from.
Bases == [question : Requests \cup {None}, turns : Seq(Rows)]

ASSUME NoneAssumption == None \notin Requests /\ None \notin Bases

IsCommand(b) == app.links /\ parse(b.text) # "none"

\* An agent is named and there is no registry to have it from.
Unavailable(b) == b.agent # <<>> /\ ~app.memory

\* A class and its bases, in the order in which a handler is looked for.
Mro ==
    [AgentNotFound          |-> <<"AgentNotFound", "LookupError", "Exception">>,
     MemoryServiceAuthError |-> <<"MemoryServiceAuthError", "MemoryServiceError",
                                  "RuntimeError", "Exception">>,
     MemoryServiceError     |-> <<"MemoryServiceError", "RuntimeError", "Exception">>,
     TokenError             |-> <<"TokenError", "RuntimeError", "Exception">>,
     JSONDecodeError        |-> <<"JSONDecodeError", "ValueError", "Exception">>,
     ConnectError           |-> <<"ConnectError", "Exception">>,
     RegistryUnavailable    |-> <<"RegistryUnavailable", "ValueError", "Exception">>,
     BadRequest             |-> <<"ValueError", "Exception">>,
     RunError               |-> <<"RuntimeError", "Exception">>,
     RequestValidationError |-> <<"RequestValidationError", "Exception">>]

\* The last is the framework's.
Handlers ==
    [AgentNotFound |-> 404, MemoryServiceError |-> 503, TokenError |-> 503,
     ValueError |-> 400, Exception |-> 500, RequestValidationError |-> 422]

\* What an exception of a class is answered with.
Status(class) ==
    Handlers[Mro[class][SelectInSeq(Mro[class], LAMBDA base : base \in DOMAIN Handlers)]]

\* What a load raises that is not AgentNotFound.
LoadErrors ==
    {"MemoryServiceAuthError", "MemoryServiceError", "TokenError", "JSONDecodeError",
     "ConnectError"}

-----------------------------------------------------------------------------
Goto(r, place) == pc' = [pc EXCEPT ![r] = place]

Answer(r, number) ==
    /\ Goto(r, "answered")
    /\ basis' = [basis EXCEPT ![r] = None]
    /\ status' = [status EXCEPT ![r] = number]

Raise(r, class) == Answer(r, Status(class))

Row(r, role) == [key |-> Key(body[r]), role |-> role, by |-> r]

\* Both rows of a turn, each committed by itself.
BothRows(r) == <<Row(r, "user"), Row(r, "assistant")>>

Remember(r) == messages' = messages \o BothRows(r)

Park(r) == parked' = [parked EXCEPT ![Key(body[r])] = r]

\* The agent is at hand: the question of this key that waits is taken, or the history
\* is read.  A photo is looked at only if nothing waits.
Run(r, b) ==
    LET question == IF app.pending THEN parked[Key(b)] ELSE None
    IN  \/ /\ question # None
           /\ parked' = [parked EXCEPT ![Key(b)] = None]
           /\ basis' = [basis EXCEPT ![r] = [question |-> question, turns |-> <<>>]]
           /\ Goto(r, "running")
           /\ UNCHANGED status
        \/ /\ question = None
           /\ b.image = "garbled"
           /\ Raise(r, "BadRequest")
           /\ UNCHANGED parked
        \/ /\ question = None
           /\ b.image # "garbled"
           /\ basis' = [basis EXCEPT ![r] =
                          [question |-> None,
                           turns    |-> select_window(recent(messages, Key(b), app.window),
                                                      app.window)]]
           /\ Goto(r, "running")
           /\ UNCHANGED <<parked, status>>

-----------------------------------------------------------------------------
(* create_app, and the end of the process.                                 *)

\* On an environment it does not start on the process exits at once.
Start ==
    /\ phase = "down"
    /\ starts < MaxStarts
    /\ \E env \in Environments :
          /\ Starts(env)
          /\ app' = create_app(env)
    /\ phase' = "up"
    /\ starts' = starts + 1
    /\ UNCHANGED <<warm, messages, parked, pc, body, basis, status>>

Underway(r) == pc[r] \in {"resolving", "reloading", "linking", "running"}

\* What the process held is gone.
Die ==
    /\ phase' = "down"
    /\ app' = None
    /\ warm' = {}
    /\ pc' = [r \in Requests |-> IF Underway(r) THEN "lost" ELSE pc[r]]
    /\ basis' = [r \in Requests |-> None]
    /\ UNCHANGED <<starts, body, status>>

Crash ==
    /\ phase = "up"
    /\ Die
    /\ UNCHANGED <<messages, parked>>

MayPause(r) == pc[r] = "running" /\ ToolsOf(app, body[r].agent) # <<>>

\* After the row of a pause, after the user's message, or after the reply but before it
\* is sent.
CrashMidTurn(r) ==
    /\ phase = "up"
    /\ \/ /\ pc[r] \in {"running", "linking"}
          /\ UNCHANGED parked
          /\ messages' = Append(messages, Row(r, "user")) \/ Remember(r)
       \/ /\ MayPause(r)
          /\ app.pending
          /\ Park(r)
          /\ \/ messages' \in {messages, Append(messages, Row(r, "user"))}
             \/ Remember(r)
    /\ Die

-----------------------------------------------------------------------------
(* A request comes, up to its first await.                                 *)

Receive(r, b) ==
    /\ phase = "up"
    /\ pc[r] = "idle"
    /\ body' = [body EXCEPT ![r] = b]
    /\ UNCHANGED <<phase, app, starts, warm, messages>>

Health(r, b) ==
    /\ Receive(r, b)
    /\ b.route = "health"
    /\ Answer(r, 200)
    /\ UNCHANGED parked

\* The DTO refuses an empty field, handle a blank conversation id, _resolve_agent and
\* reload_agent a named agent.
Refuse(r, b) ==
    /\ Receive(r, b)
    /\ \/ Invalid(b) /\ Raise(r, "RequestValidationError")
       \/ Chat(b) /\ b.valid /\ Conversing(b) = <<>> /\ Raise(r, "BadRequest")
       \/ /\ Chat(b) /\ b.valid /\ Conversing(b) # <<>> /\ ~IsCommand(b)
          /\ Unavailable(b)
          /\ Raise(r, "RegistryUnavailable")
       \/ b.route = "reload" /\ Unavailable(b) /\ Raise(r, "RegistryUnavailable")
    /\ UNCHANGED parked

Reload(r, b) ==
    /\ Receive(r, b)
    /\ b.route = "reload"
    /\ app.memory
    /\ Goto(r, "reloading")
    /\ UNCHANGED <<parked, basis, status>>

ReceiveChat(r, b) == Receive(r, b) /\ Chat(b) /\ b.valid /\ Conversing(b) # <<>>

\* A link command: the question that waits is dropped, if there is a store to wait in.
ReceiveLink(r, b) ==
    /\ ReceiveChat(r, b)
    /\ IsCommand(b)
    /\ parked' = IF app.pending THEN [parked EXCEPT ![Key(b)] = None] ELSE parked
    /\ Goto(r, "linking")
    /\ UNCHANGED <<basis, status>>

\* Slip: without a memory service everybody is the default agent.
ReceiveServedAsDefault(r, b) ==
    /\ ReceiveChat(r, b)
    /\ ~IsCommand(b)
    /\ b.agent = <<>> \/ ~app.memory \/ b.agent \in warm
    /\ Run(r, b)

\* The default agent, or one that is warm.
ReceiveServed(r, b) ==
    /\ ReceiveChat(r, b)
    /\ ~IsCommand(b)
    /\ b.agent = <<>> \/ (~Unavailable(b) /\ b.agent \in warm)
    /\ Run(r, b)

\* Not warm, or for too long.
ReceiveResolves(r, b) ==
    /\ ReceiveChat(r, b)
    /\ ~IsCommand(b)
    /\ b.agent # <<>> /\ ~Unavailable(b)
    /\ Goto(r, "resolving")
    /\ UNCHANGED <<parked, basis, status>>

-----------------------------------------------------------------------------
(* After an await.                                                         *)

\* The registry has the agent: loaded, or a stale copy.
Resolved(r) ==
    /\ pc[r] = "resolving"
    /\ body[r].agent \in Known
    /\ warm' = warm \cup {body[r].agent}
    /\ Run(r, body[r])
    /\ UNCHANGED <<phase, app, starts, messages, body>>

Reloaded(r) ==
    /\ pc[r] = "reloading"
    /\ body[r].agent \in Known
    /\ warm' = warm \cup {body[r].agent}
    /\ Answer(r, 200)
    /\ UNCHANGED <<phase, app, starts, messages, parked, body>>

NotFound(r) ==
    /\ pc[r] \in {"resolving", "reloading"}
    /\ body[r].agent \notin Known
    /\ warm' = warm \ {body[r].agent}
    /\ Raise(r, "AgentNotFound")
    /\ UNCHANGED <<phase, app, starts, messages, parked, body>>

\* Anything else that goes wrong with a load; for a chat a stale copy would have served.
LoadFails(r, class) ==
    /\ \/ pc[r] = "resolving" /\ body[r].agent \notin warm
       \/ pc[r] = "reloading"
    /\ class \in LoadErrors
    /\ Raise(r, class)
    /\ UNCHANGED <<phase, app, starts, warm, messages, parked, body>>

\* A run, or a link command, ends in a reply.
Replies(r) ==
    /\ pc[r] \in {"running", "linking"}
    /\ Remember(r)
    /\ Answer(r, 200)
    /\ UNCHANGED <<phase, app, starts, warm, parked, body>>

\* A run stops before a write, and its reply asks for a yes.
RunPauses(r) ==
    /\ MayPause(r)
    /\ \/ /\ app.pending
          /\ Park(r)
          /\ Remember(r)
          /\ Answer(r, 200)
       \/ /\ ~app.pending
          /\ Raise(r, "RunError")
          /\ UNCHANGED <<messages, parked>>
    /\ UNCHANGED <<phase, app, starts, warm, body>>

\* Slip: a question is kept although its run failed.
FailAndRemember(r) ==
    /\ pc[r] \in {"running", "linking"}
    /\ messages' = Append(messages, Row(r, "user"))
    /\ \E class \in {"RunError", "BadRequest"} : Raise(r, class)
    /\ UNCHANGED <<phase, app, starts, warm, parked, body>>

\* The model, a tool or a link provider raises something nobody catches.
Fails(r) ==
    /\ pc[r] \in {"running", "linking"}
    /\ \E class \in {"RunError", "BadRequest"} : Raise(r, class)
    /\ UNCHANGED <<phase, app, starts, warm, messages, parked, body>>

AtRest ==
    /\ \/ \A r \in Requests : pc[r] \in {"answered", "lost"}
       \/ phase = "down" /\ starts = MaxStarts
    /\ UNCHANGED vars

ServerInit ==
    /\ phase = "down"
    /\ app = None
    /\ starts = 0
    /\ warm = {}
    /\ messages = <<>>
    /\ parked = [key \in Keys |-> None]
    /\ pc = [r \in Requests |-> "idle"]
    /\ body = [r \in Requests |-> None]
    /\ basis = [r \in Requests |-> None]
    /\ status = [r \in Requests |-> None]

Make(r, b) ==
    \/ Health(r, b) \/ Refuse(r, b) \/ Reload(r, b)
    \/ ReceiveLink(r, b) \/ ReceiveServed(r, b) \/ ReceiveResolves(r, b)

Proceed(r) ==
    \/ Resolved(r) \/ Reloaded(r) \/ NotFound(r) \/ \E class \in LoadErrors : LoadFails(r, class)
    \/ Replies(r) \/ RunPauses(r) \/ Fails(r)

ServerNext ==
    \/ Start \/ Crash
    \/ \E r \in Requests : CrashMidTurn(r) \/ Proceed(r) \/ \E b \in Bodies : Make(r, b)
    \/ AtRest

ServerSpec == ServerInit /\ [][ServerNext]_vars

-----------------------------------------------------------------------------
Places ==
    {"idle", "resolving", "reloading", "linking", "running", "answered", "lost"}

\* Type invariant.
ServerTypeOK ==
    /\ phase \in {"down", "up"}
    /\ starts \in 0..MaxStarts
    /\ phase = "up" =>
          /\ \E env \in Environments : Starts(env) /\ app = create_app(env)
          /\ app.window >= 1
    /\ warm \subseteq Known
    /\ messages \in Seq(Rows)
    /\ parked \in [Keys -> Requests \cup {None}]
    /\ pc \in [Requests -> Places]
    /\ body \in [Requests -> Bodies \cup {None}]
    /\ basis \in [Requests -> Bases \cup {None}]
    /\ \A r \in Requests : pc[r] = "running" <=> basis[r] # None
    /\ status \in [Requests -> {200, 400, 404, 422, 500, 503, None}]

\* The agent of b is that of c and something more, with which the conversation of c
\* begins; where it is nothing, agent and conversation are the same.
Blurs(b, c) ==
    LET more == SubSeq(b.agent, Len(c.agent) + 1, Len(b.agent))
    IN  b.agent = c.agent \o more /\ Conversing(c) = more \o Conversing(b)

\* The same agent and conversation, or ids that run together: "bot" in "tg:1" and no
\* agent in "bot:tg:1".  Nothing in the code keeps these apart (chat_service.py:46).
Shares(b, c) == Blurs(b, c) \/ Blurs(c, b)

\* "The same person talking to two bots that share this brain gets two histories, not
\* one" (chat_service.py:11-14), unless their ids run together: a run starts from the
\* last MEMORY_WINDOW rows written by turns it shares a history with, all of them and no
\* other, or from a question one of these asked, whatever was written in between and
\* whatever the process was restarted as.
OwnHistory ==
    [][\A r \in Requests : basis[r] = None /\ basis'[r] # None =>
          LET ours == Picked(messages,
                             {i \in DOMAIN messages : Shares(body[messages[i].by], body'[r])})
              q == basis'[r].question
              turns == basis'[r].turns
          IN  IF q # None THEN Shares(body[q], body'[r])
              ELSE /\ IsSuffix(turns, ours)
                   /\ Len(turns) = app.window \/ (turns = ours /\ Len(ours) < app.window)]_vars

Roles(r) ==
    LET rows == Picked(messages, {i \in DOMAIN messages : messages[i].by = r})
    IN  [i \in DOMAIN rows |-> rows[i].role]

\* "Persist only after a successful reply, so a failure never stores half a turn"
\* (chat_service.py:178): a chat that was answered 200 has both its rows in the table,
\* one that was lost with the process has none, the first or both (the two are committed
\* apart, chat_service.py:179-180, and the reply is sent after them), and no other
\* request has left a row or a question.
AnsweredIsRemembered ==
    \A r \in Requests :
        LET remembered == pc[r] = "answered" /\ Chat(body[r]) /\ status[r] = 200
        IN  /\ remembered => Roles(r) = <<"user", "assistant">>
            /\ pc[r] = "lost" => Roles(r) \in {<<>>, <<"user">>, <<"user", "assistant">>}
            /\ ~remembered /\ pc[r] # "lost" =>
                  Roles(r) = <<>> /\ \A key \in Keys : parked[key] # r

\* "404 if it does not exist, 400 if no memory service is configured" (README.md:147,
\* 165): nobody is told that an agent the memory service holds is unknown, nor that a
\* service is down where none is configured; and an answer in the name of an agent
\* comes from a brain that can have it.
StatusTells ==
    [][\A r \in Requests : pc[r] # "answered" /\ pc'[r] = "answered" =>
          LET b == body'[r]
          IN  /\ status'[r] = 404 => app.memory /\ b.agent \notin Known
              /\ status'[r] = 503 => app.memory
              /\ status'[r] = 200 /\ b.agent # <<>> =>
                    (app.memory /\ b.agent \in Known) \/ IsCommand(b)]_vars

\* "Fails at startup — never at chat time — when a binding names a toolset whose source
\* was not named" (main.py:64-65), "tool-bound agent without a store is a wiring bug"
\* (chat_service.py:165): whatever the environment, a brain that is up holds every
\* toolset it was asked to bind, for every agent, with repeats, and an agent that has
\* any never pauses for want of a place to park its run.
WiredAsConfigured ==
    phase = "up" =>
        \A part \in ToSet(app.config.toolsets) :
            /\ ToolsOf(app, part.agent) # <<>> => app.pending
            /\ \E source \in ToSet(app.config.sources) :
                  /\ source.alias = part.toolset
                  /\ source.path = "works"
                  /\ ToSet(source.makes) \subseteq ToSet(ToolsOf(app, part.agent))

\* Which texts are which commands (CommandsAre, link_commands.py:11-14, 58-60), of every
\* text people may write; looked at where a behaviour starts, for no state has a part in it.
CommandsOfTexts == ServerInit => CommandsAre(Texts)

\* README.md:147 of a memory service: "503 if it cannot be reached".
UnreachableIs503 ==
    [][\A r \in Requests : LoadFails(r, "ConnectError") => status'[r] = 503]_vars
=============================================================================
