# universal-chat-agent: a TLA+ development

universal-chat-agent is a "brain" behind chat bridges: a FastAPI process with one
asyncio loop and one SQLite file. A bridge posts `/chat` requests that name a
conversation, sometimes an agent, sometimes a person and a photo; the brain answers as
the agent, on that person's own credentials, and asks before the agent writes anything.
This directory models `src/application` from its environment to its answers, above all
where several requests, a database, a memory service and other people's services can get
in each other's way, checks small instances of the models with TLC and proves their main properties for all
instances with TLAPS. Line numbers refer to the files under `src/`.

## 1. Inventory

| Component | Source (`src/application/`) | State it keeps | Operations | Talks to |
|---|---|---|---|---|
| Chat service | `business_services/chat_service.py`, `chat_deps.py` | none between requests; per turn its deps (credentials, photo) | `handle`, `_handle_link`, `_deps` | registry, LLM client, link service, the two tables below |
| LLM client | `api_integrations/llm/llm_client.py` | none | `generate`, `resume`, `build_agent` | the model's API; tools, through `ChatDeps` |
| Pending approvals | `data_repositories/pending_approval_repository.py` | table `pending_approvals`, a row per memory key | `put`, `get`, `delete` | SQLite |
| Messages | `data_repositories/message_repository.py`, `data_entities/message_entity.py` | table `messages` | `append`, `recent` | SQLite |
| Link service | `business_services/link_service.py` | none | `execute` (redeem, prompt, logout), `credentials`, `forget` | link providers (awaits), table below |
| Service links | `data_repositories/service_link_repository.py` | table `service_links`, a row per person and service | `put`, `get`, `credentials`, `delete`, `delete_all` | SQLite |
| Link provider protocol | `business_domain/link_provider.py` | the issuer's tokens, outside the process | `redeem`, `revoke` | services |
| Link commands | `business_domain/link_commands.py` | none | `parse` | |
| Agent registry | `business_services/agent_registry.py` | `_entries`, `_locks` | `get`, `reload`, `cached` | the memory service, through `load_prompt` |
| Token provider | `api_integrations/oidc/token_provider.py` | token, expiry, lock | `__call__`, `_mint` | the issuer |
| Memory service client | `api_integrations/memory_service/memory_service_client.py` | none | `awaken` | token provider, memory service |
| Awakening domain | `business_domain/awakening_domain.py` | none | `assemble_system_prompt`, `layer_order`, `flatten_layers`, `is_absent` | |
| Conversation domain | `business_domain/conversation_domain.py` | none | `normalize_conversation_id`, `select_window` | |
| HTTP surface | `api_controllers`, `api_dto`, `middleware/error_handler.py` | none | `/chat`, `/agents/{id}/reload`, `/health`, status per error | chat service, registry |
| Toolsets, loading | `business_services/toolsets`, `common/loading.py` | none after startup | `load_builders`, `build_toolsets`, `import_callable` | |
| Composition root | `main.py` | none after startup | `create_app`, `build_registry` with `load_prompt` | all |
| Configuration | `configuration/env.py` | none | `load_config` | |
| Logging | `logger` | none | one call at startup | |

### How they interact, and what is hard about it

One asyncio loop runs every request. SQLite is called synchronously, so whatever a
handler does between two awaits happens at once; at an await (the model, a tool, a
provider, the memory service, the registry's lock) anything else may happen, and what
was read before it may be stale after it. Every repository call commits by itself and
the process is restarted when it dies, so a crash may fall between two commits. Nothing
serialises the requests of one conversation or of one person except the bridge, if it
waits for answers.

What has to be right, per component:

* **Chat service.** A write the agent proposes pauses its run; the pause is parked in
  `pending_approvals` and the *next turn* of the conversation takes it. It must run at
  most once, only on a yes, on the credential of whoever says yes, on the identity and
  photo it was proposed with, and as the answer to the question that was asked; whatever
  else is answered cancels it; history holds whole turns; every request ends.
* **Link service.** A turn may hold only its caller's tokens. A logout revokes before it
  forgets, service by service, and must not claim what did not happen. Only a credential
  its service refused is forgotten without a logout.
* **Agent registry.** One load per agent at a time; a failed refresh leaves the old agent
  serving and is not repeated at once; an agent that is gone is not served again; a
  reload sees what was published before it; nothing goes back to an older version.
* **Token provider and memory service client.** One exchange at a time, and only while
  no good token is cached; no bearer lapses on its way; a token is not replaced by an
  earlier one.
* **Awakening domain.** Every layer the service sends is rendered, whole and once, in an
  order that is not the service's.
* **Conversation domain, link commands.** A turn is shown the end of its own history, of
  the length configured; a command is the same command whatever transport carried it.
* **HTTP surface.** The status tells the caller what happened, and what was answered is
  what is stored.
* **Composition root, configuration, toolsets.** Whatever the environment says, either
  nothing starts or everything it asked for is there.

PROJECT.json lists the hazards line by line, with the properties that would catch each.

## 2. The modules

```
WriteApproval            what is promised about a write, without turns or tables
     ^  implemented by (ChatServiceProofs)
ChatService  --EXTENDS-->  LinkService
     ^                          ^
ChatServiceProofs -EXTENDS-> LinkServiceProofs
     ^
ChatConsentProofs           what a yes means, and under which conditions
MCChatService               MCLinkService

AgentRegistry            a load is one answer        AgentRegistryProofs
     ^  EXTENDS                                          ^  EXTENDS
Loading      --INSTANCE--> TokenProvider             LoadingProofs
     |  EXTENDS               TokenProviderProofs
Awakening                an answer becomes a prompt; pure
MCLoading    --EXTENDS---> MCAwakening            MCAgentRegistry

Deployment   (an environment becomes a brain, or nothing)
Conversation (keys and windows)                   pure
LinkCommands (which texts are commands)
     ^  EXTENDS
Server       every route, every status, restarts on other environments
MCServer     ServerProofs

Picking      what is left of a sequence; used by Awakening, Conversation, LinkCommands, Server
SequenceLemmas           about Picking, FlattenSeq, Min and Max; used by LoadingProofs, ServerProofs
```

Three layers, then. LinkService and ChatService are one complete deployment in every
detail of its awaits. AgentRegistry, TokenProvider and Loading are what `_resolve_agent`
waits for. Server is all of it with each of these waits taken as one, so that what goes
on around them can be checked: configuration, refusals, errors, histories, restarts.

### LinkService

A request (`Turns`) is at some `pc`; an action is what a handler does from one await to
the next. `links` is the table, `creds` the rows a request read (a turn's deps, or the
`linked` of a logout), `todo`/`kept` the rest of a logout's loop and its `failed` list.
A token is named by its person, service and the request that obtained it (`None` for
those that were there before).

* `Tell`, `Redeem`, `Logout`: `execute` up to the first await, `Tell` being every path
  without one.
* `RedeemReturns`, `RedeemRefused`, `RevokeReturns`, `RevokeRefused`, `ProviderBreaks`:
  what follows when a provider returns, raises `LinkError`, or raises something
  `_redeem` and `_logout` do not catch. `RevokeNext` is the rest of the logout loop.
* `RedeemIssues`, `RevokeTakesEffect`: the issuer acts, which may happen although the
  answer is then lost. `live` is what issuers honour; redeeming may or may not
  invalidate tokens the same person got before. `RevokedElsewhere` is a disconnection on
  the service's own pages.
* `Chat`, `Forget`, `ChatEnds`: a chat turn as far as credentials go. `Forget` needs a
  token that is no longer honoured, which is what makes a service refuse it.
* `Crash`: every request in progress dies.

`Overlap = FALSE` is a bridge that waits for the answer to a person's last request,
`TRUE` one that does not. `Services` are numbers since the loop visits them in the order
of `credentials` (`ORDER BY service`).

### ChatService

Extends LinkService: its link commands *are* LinkService's actions, and both share `pc`,
`links`, `creds` and `live`. It adds the conversation (`key`), text and photo of each
request, the two tables, and what the agent's run has to do with writes.

* `ReceiveLink` is `_handle_link` up to its first await, the deletion of the staged row
  included; `LinkProceeds` the rest of it; `ForgetRefused` is `on_auth_failed`.
* `ReceiveChat` is `handle` up to `_resolve_agent`. That awaits only for conversations
  whose agent is not warm (`Cold`); otherwise the turn keeps the loop (`HoldsLoop`) until
  `TakePending`, `StartRun` or `BadPhoto`, which are the three ways on from there.
  `ResolveFails` is a 404 or 503 from the registry.
* The run: `PerformWrite` (an approved write takes effect, on this turn's token),
  `WriteComesToNothing` (the tool answers with data instead), `RunPauses` (a
  `PendingRun`, parked in the same step), `RunReplies`, `RunFails`.
* `AppendUser` and `AppendReply` are two commits. No await is between them, so only a
  crash comes between.

A write is named by the turn whose run proposed it; a pause on several calls gets one
verdict for all of them, so it counts as one write. `staged`, `executed`, `last` and
`facing` are history variables: they record what properties speak of (`facing` is the
answer that was delivered last in the conversation when a request was sent) and no guard
reads them, except that `last` feeds `facing`.

The deployment modelled is the complete one, with `LINK_PROVIDERS` and `AGENT_TOOLSETS`.
Without bindings there is no pending store and no write can pause; without providers no
turn has credentials and `/start` is ordinary text. Both are instances in which the
corresponding actions never happen.

### AgentRegistry

`queue[a]` is the asyncio lock of an agent: first come first served, so holder and
waiters are one queue. `GetServed`, `GetLoads`, `GetWaits`, `ReloadLoads`, `ReloadWaits`
are `get` and `reload` up to their first await; `WakeServed` and `WakeLoads` what happens
when the lock comes; `LoadReturns`, `LoadAbsent`, `LoadRaises`, `LoadFails` the four ends
of a load. `Responds` is the moment the memory service reads its data; the answer
arrives later, and `Tick`, `Publish` and `Retire` may come in between. `LoadFails` marks
the entry object it read before the load, which is what the code does even if that entry
were no longer the cached one.

### TokenProvider

The token cache and the one request made with it, `awaken`. A call looks at the cache
(`CallServed`), takes the lock (`CallMints`) or queues (`CallWaits`); `WakeServed` and
`WakeMints` are what happens when the lock comes, `MintReturns` and `MintFails` the ends
of an exchange. The token is a record of when its issuer made it (`Issues`) and for how
long; `expires_in` is that, or 0 where it is missing or unreadable (`told`). `Judged` is
the answer of the memory service, which looks at the bearer between `Send` and the end of
the flight and may find it lapsed, refuse it for a reason of its own, or break. Nothing
the memory service says goes back to the cache, as in the code.

`MintDelay` and `Flight` bound how long an answer of the issuer and a request to the
memory service are on the wire; `TokenAssumption` has `MintDelay + Flight <= Leeway`. In
the code the leeway is 60 s and the HTTP client gives up after 30 s without progress in a
phase (`main.py:117`), so the assumption is the intended reading of these two numbers;
the client does not enforce it for a peer that trickles.

### Awakening

`assemble_system_prompt` on shapes: a layer's value is nothing, zero, a plain value, a
record, a blank, a list of items or a group, an item a whole record, one whose text is
blank, an index entry, a plain value or nothing. A blank value is a string of white space,
or a record with neither title nor content: it renders its heading with nothing under it
(`Text`), which is not empty text, so the heading stays in the prompt. `Take` is one turn
of the loop over the items, `Blocks` the loop; there a blank record leaves nothing, and a
list of nothing has no heading either. `flatten_layers` keeps the assignments in order, and
`At` the last one to a name, as a dict does: a layer called `a.b` and the layer `b` of a
group `a` are one name, and one of them is lost without a word (`Clash`). `NothingLost`
speaks of such answers too: one layer of each name is in the prompt in full, and no section
is put together from two. `SentOrderIrrelevant` leaves them out, since which of two is lost
does depend on what was sent first. Strings have no order in TLA+, so `NameOrder` lists the
names as Python sorts them.

`WholeRecordsApart` makes an exception for layers with a record whose text is blank: the
code lets such a record end a list of bullets without becoming a block itself, so two
lists of bullets may then be neighbours. That goes for every layer of the section's name,
for of two that clash the last is rendered.

The module has no variables: what it says of every answer and every setting (`Payloads`,
`Selections`, `Exclusions`) is a constant formula. Loading states it of the states a
behaviour starts in (`PromptLosesNothing` and the two after it), for these prompts are what
a load returns. `AwakeningAssumption` says what an answer is: a dict of layers, whose
groups are dicts of layers, and a setting is a list of names.

### Loading

AgentRegistry and TokenProvider together, as `load_prompt` (`main.py:129-134`) and
`awaken` (`memory_service_client.py:35-49`) join them: a load that begins in the registry
(`BeginsLoad`) asks the token provider in the same step, up to its first wait; waits for
the token are steps in which the registry does nothing (`AwaitsToken`); and the memory
service's verdict, or a failed exchange, is the registry's `Responds` (`AwakenFails`,
`AwakenReturns`). The clock is shared. TokenProvider is instantiated with its own `queue`,
`pc` and `result` (`tokenQueue`, `stage`, `verdict`), so a call holds the lock of its agent
while it queues for the token's, as in the code. The two are joined by construction: every
step is one of the registry's or leaves it alone, so that Loading does what AgentRegistry
describes says nothing of the code. What does is `OneLoadAtService` and `EveryCallEnds`,
which hold only if the two pipelines keep step and neither lock is kept for ever.

### Deployment, Conversation, LinkCommands

Pure operators. `load_config`, `Binds` and `_link_providers` say whether `create_app`
returns, `create_app` what it wires. A path of a source or provider is bare, broken,
raising or working, which are the ways the code can fail on it; later sources of one alias
win, as in a dict. `memory_key`, `recent` and `select_window` work on ids split at their
colons. `parse` works on texts made of words, single blanks and other white space, since
`text.partition(" ")` and `args.split()` tell the two apart; a word carries what it says
and whether something follows it after an `@`. White space is between any two words
(`IsText`). A code is any word of the signs `_CODE` allows, so `/start yes` redeems "yes",
as in the code; "odd" stands for the words that are too long or have other signs.

`CommandsAre` says which texts are which commands. A text is the command that its words are
when a service suggests them, whatever white space is around and between them and whether
or not a bot's name is appended. The exception is a text whose first word is followed by
other white space than a blank (`RunsOn`), for `parse` cuts the head at the first *blank*:
`/start` with a line break before the code is no command and goes to the agent;
`/start@bot` with a line break before the code is the prompt, the code being part of what
follows the `@`; and `/logout@bot`, line break, `now` is a logout, though `/logout now` is
none. The property says this of each of these texts, it does not leave them out.

### Server

One brain. `Start` is `create_app` on one of `Environments`; `Crash` and `CrashMidTurn`
are its end, after any commit: the row of a pause, the user's message, or the reply before
it is sent; the tables `messages` and `parked` stay. A request is
received (`Health`, `Refuse`, `Reload`, `ReceiveLink`, `ReceiveServed`,
`ReceiveResolves`: each up to the first await), waits for the registry (`Resolved`,
`Reloaded`, `NotFound`, `LoadFails`) and, if it is a chat, for the model or a link provider
(`Replies`, `RunPauses`, `Fails`). `Run` is what `handle` does once it has the agent: it
takes the parked run of its key or reads the history. `Status` looks an exception's
handler up along its base classes (`Mro`), as Starlette does, over the handlers that
`main.py:199-203` registers.

What the run starts from is `basis`; a row names the request that wrote it (`by`). Both
are there for the properties, except that `basis` is what the run works on.

Ids are sequences of the parts between their colons, and any of them may have several:
`BodiesAssumption` excludes none. `Shares` says which turns have one history: those of the
same agent and conversation, and those whose ids run together when `memory_key` joins them,
such as the agent `bot` in `tg:1` and no agent in `bot:tg:1` (`Blurs`). It is said of the
ids and not of the keys, and `OwnHistory` is that a run starts from the rows of these turns
and no others.

### WriteApproval

The promise of the README's "Writes cannot run on the model's say-so": a write is
unasked, waiting, approved, performed or gone; a conversation waits on one at a time; an
approved one may be lost, never repeated. `ChatService!ImplementsWriteApproval` reads
these stages off the tables and requests (`StageOf`).

## 3. The runs

The bounds: requests and calls are made at most once each, so every behaviour is finite
except for the clock, which `MaxTime` stops, publications (`MaxVersion`), crashes
(`MaxCrashes`) and starts of the process (`MaxStarts`).

| Run | Configuration | What it shows |
|---|---|---|
| `link_serial` | 3 requests, 2 people or nobody, 2 services of which one has a provider, 1 crash, one request per person at a time | `CredentialsAreCallers`, `HonestLogout`, `RevokeBeforeForget`, `ForgetOnlyRefused` |
| `chat_serial` | 4 messages of 1 person in 1 conversation with a warm agent, photos and linking again | `SameIdentity`, `InformedConsent`, `PhotoTravels` |
| `chat_overlap` | 3 overlapping messages of 2 people in 1 conversation, cold agent, 1 crash | `AtMostOnce`, `ConsentedByYes`, `OwnCredential`, `WholeTurns`, the refinement of WriteApproval |
| `chat_live` | 2 overlapping requests of every kind, 1 crash | `EveryTurnEnds` |
| `registry` | 3 calls on one agent, TTL 2 and retry 2 on a clock to 5, 2 versions | the registry's safety and action properties |
| `token` | 3 calls, lives 1 and 4, leeway 2, delays of 1 on a clock to 5 | `OneExchange`, `NoNeedlessExchange`, `NoLapseInFlight`, `NeverOlder`, `EveryCallEnds` |
| `loading` | 2 calls on 2 agents that share one token of life 2, TTL 1, clock to 2; and every list of up to 4 items, every answer of up to 4 of 15 sample layers in every order, 3 selections, 2 exclusions | `OneLoadAtService`, `EveryCallEnds`; `PromptLosesNothing`, `PromptKeepsRecordsApart`, `PromptIgnoresSentOrder` |
| `requests` | 3 requests out of 11, 2 starts on 11 environments of which 4 start, 1 agent that exists and 1 that does not; and every text of up to 5 tokens | `AnsweredIsRemembered`, `OwnHistory`, `StatusTells`, `WiredAsConfigured`, `CommandsOfTexts` |

Each module's type invariant is checked by one of its runs.

Why these suffice for what they ask: a write needs a proposer and a taker, a third turn
to interfere and in `chat_serial` a fourth, so that there is room for propose, relink,
propose again, confirm. Two services make a logout visit a service with a provider and
keep one without. Three calls put one behind the lock while another refreshes and a third
arrives after; a clock to 5 lets a TTL and a retry period pass one after the other, or a
token of life 4 age until it is no longer handed out and another be exchanged. A life of
1 is below the leeway: such a token is used once and never served from the cache, and it
is the only one `NoLapseInFlight` allows to lapse. Four items are enough for one-liners
before, between and after whole records.

In `loading`, two agents are what it takes for two loads to meet at the token's lock while
each holds its own, and two calls on one agent for the second to wait behind both. In
`requests`, one request leaves rows or a question, a second starts from them and a third
comes in between, in another conversation, as another agent, as a link command or under
ids that run together with those of the first; the
second start may be on another window, with or without toolsets, providers or a memory
service. The environments that do not start fail one each: a missing required name,
toolsets without a memory service, a binding without a toolset, one without a source, a
source that does not import, a provider without a colon, one that raises. One of those
that start carries a broken source nobody is bound to, as the code allows, a window of 0,
and no memory service; another binds two toolsets of which one has two sources. Five
tokens are enough for white space, a command with a bot's name, a blank, a break and a
code, also with the break before the blank.

What a run cannot show, and where it is shown: with `Overlap = FALSE` two turns never
interleave, so `WholeTurns` is checked in `chat_overlap`, where they do and where a crash
may fall between the two commits. `link_serial` revokes one token per logout, because a
code is redeemed only where there is exactly one provider (`_sole`, `link_service.py:47`);
logouts with several revocations are in `HonestLogoutHolds`. Links do not change in
`chat_overlap`, for with them it would not end in time; `OwnCredentialHolds` has both.

Symmetry is used only where no property is a liveness property; turns, people and calls
are interchangeable, and so are conversations, all of them or none being `Cold` in every
configuration. Services are numbers and are not symmetric.

**Fairness** is weak fairness of each request's own next step (`Advance`, `Proceed`),
in `loading`, of each call's next step under both locks (`LoadFairness`), and of nothing
else: the loop resumes what is ready, `httpx` has a timeout (30 s for the
memory service and the issuer, `main.py`), the model's client has its own, and a provider
is expected to return or raise. Nothing makes people write, publish, disconnect, or the
clock tick or the process crash. Server states no fairness and no liveness: that every
request ends is checked where the waits are, in `chat_live`, `token` and `loading`.

### Where the code and its documentation disagree

Four runs are meant to end in a counterexample, each of what a sentence of the repository
says:

| Run | Sentence | What happens |
|---|---|---|
| `logout_race` (`RevokeBeforeForget`) | "Logout asks each service to revoke the credential *before* the local row is deleted" (`link_service.py:9-12`) | A logout awaits a revocation; a redeem of the same person completes meanwhile and stores a new token; `delete_all` (line 182) then drops that row too. The new token stays live and unrevoked. |
| `two_conversations` (`SameIdentity`) | "the staged write goes when the link does" (`tests/business_services/test_per_caller_credentials.py:178`) | The link command drops what is staged in its own conversation; a write staged in another conversation, or with another agent, stays and a yes there runs it on the new account. |
| `failed_no` (`AnythingElseCancels`) | "Reply "yes" to proceed — anything else cancels" (`chat_service.py:75`) | The agent is resolved before the row is looked at: a "no" that ends in 404 or 503 cancels nothing, and a later yes runs the write. |
| `unreachable` (`UnreachableIs503`) | "503 if it cannot be reached" (`README.md:147`) | The client looks at answers only (`memory_service_client.py:43-49`); a refused connection or a time-out of `httpx` is no `MemoryServiceError` and no `TokenError`, so the handler of `Exception` answers 500, "internal error". |

Others of the same kind, which one can see by changing a configuration:

* `ForgetOnlyRefused` in `LinkSerial.cfg` with `Overlap = TRUE`: `forget` deletes by
  person and service (`link_service.py:80`), so a turn whose old token is refused drops
  the row a redeem has just written.
* `InformedConsent` in `ChatSerial.cfg` with `MaxCrashes = 1`: the row is committed
  (`chat_service.py:167`) before the question is stored or sent, so after a crash a yes
  meant for something else can approve a write nobody was asked about. With
  `Overlap = TRUE` and `Cold = {k1}` an early yes does the same.
* "Persist only after a successful reply, so a failure never stores half a turn"
  (`chat_service.py:178`): a crash between the two appends does. `WholeTurns` and
  `AnsweredIsRemembered` say so: half a turn is of a request that died.
* `test_a_declined_photo_is_discarded` (`tests/business_services/test_chat_approval.py:189`):
  a denied turn still works on the parked photo; if it proposes another write, that one
  is parked with the declined photo (`chat_service.py:172`) and runs on it.
* `SameIdentity` with two people in one conversation: the approved write runs on the
  credential of whoever says yes.

And of the HTTP surface and the startup:

* A memory service that answers with something that is no JSON makes a load raise a
  `ValueError` (`JSONDecodeError`), which is answered with 400, the status of what the
  caller can put right (`Mro`).
* "Errors are always `{"error": "…"}`" (`README.md:165`): a request the DTO refuses is
  answered with 422 by the framework, whose body is `{"detail": …}`; `main.py` registers
  no handler for it (`Refuse`).
* The text of a link command is stored like any other turn (`_handle_link`), so a code
  pasted into the chat is part of the next message's history although the command itself
  never reached the model.
* A redeploy without toolsets has no store of parked runs: rows of the time before stay,
  link commands do not drop them (`ReceiveLink`), and a later redeploy with toolsets finds
  them again.
* "The same person talking to two bots that share this brain gets two histories, not one"
  (`chat_service.py:11-14`): `memory_key` joins agent and conversation with a colon, so the
  agent `a` in conversation `b` and the default agent in `a:b` share a history and a parked
  write. `OwnHistory` says exactly who shares one (`Shares`).
* A service relies on `parse` "to accept exactly what it suggested"
  (`link_commands.py:11-14`), and so it does, with a blank between the words. With a line
  break instead, which a person may well type, `/start` and its code are no command, and
  `/start@bot` and its code are the prompt (lines 58-60; `RunsOn`).
* "Empty input renders empty" (`awakening_domain.py:126`): a string of white space, or a
  record with neither title nor content, renders a bare heading (lines 129-130 and 150), and
  `assemble_system_prompt` keeps it. Where that is the identity, the agent counts as present
  (`is_absent` looks at the value only), and its prompt may be no more than the heading, of
  which lines 176-178 say that it "must never become a prompt".

`RetryAt` counts from the clock read *before* the load (`agent_registry.py:88,100`): after
a load that takes longer than the retry period the next call tries again at once.
`AttemptsSpaced` states what does hold, that attempts *start* that far apart.

## 4. The proofs

Every safety and action property of the passing runs is a theorem, and so is the
refinement of WriteApproval. tlapm checks all proofs to the last leaf. They
use no assumptions but the named ones of the modules (`LinkAssumption`, `ChatAssumption`,
`RegistryAssumption`, `TokenAssumption`, `AwakeningAssumption`, and of Server
`BodiesAssumption`, `TextsAssumption`, `EnvironmentsAssumption`, `MaxStartsAssumption` and
`NoneAssumption`), which TLC evaluates in every run of their modules. They hold for any
number of requests, people, services, conversations, agents and crashes, and for histories,
answers, texts and settings of any length. Where one has a condition besides, it is
in the statement and named below.

**AgentRegistryProofs** proves every safety and action property of the `registry` run.
`LockInv` says that the calls at an agent's lock are its queue without repetition and that
whoever is in flight is at its head; from it follow `SingleFlight` and that nobody else
touches an entry during a load (`NobodyElseWrites`, itself inductive given the lock).
`BackOffInv` ties `retryAt` to `failedAt`, and `VersionInv` bounds every version that is
anywhere (in an entry, an answer on its way, a floor or a result) by what the service has
published and what is known to be gone. `NeverOlder`, `ReloadSeesLatest`, `GoneStaysGone`,
`StaleBeatsDark` and `AttemptsSpaced` are read off these.

**LinkServiceProofs.** `TypeInv` adds to the types that a provider is awaited for a
person and that a logout that awaits has a service left. `StepFacts` sums up what any
step does to credentials; `HeldInv` (rows and credentials hold tokens of their own
person and service, issued by requests that are past issuing) is inductive because of it
and gives `CredentialsAreCallers`. `HonestInv` says that a service the loop is through
with and did not keep honours nothing the logout found; it needs `HeldInv`, since a dead
token must never be issued again. Both hold with any overlap. `RevokeBeforeForget` and
`ForgetOnlyRefused` are proved under `~Overlap`, from `OneAtATime`: a person has one
request in progress, so the snapshot a logout or a turn works on is still the row, and
what the loop has passed was asked for. The run `logout_race` shows why the hypothesis is
needed.

**ChatServiceProofs** builds on these: every step of ChatService satisfies `StepFacts`,
so `HeldInv` carries over. `ApprovalInv` has three parts: a parked write was proposed in
its conversation by a turn that is done with its run, and nobody has taken it
(`ParkedInv`); a write is taken by at most one turn, another one of the same
conversation, which says yes if the write is approved (`TakenInv`); and who runs a write
has taken it and is past running it (`RunInv`). `AtMostOnce`, `ConsentedByYes` and
`OwnCredential` follow, with any overlap and any number of crashes.

It also proves that ChatService implements WriteApproval. Under `ApprovalInv` a write is in
one place at a time, so each stage of `StageOf` says one thing (`StagesAre`); then an arrival
with a link command, a denial or a failure of a turn with an approved write is `Abandon` (or
a stutter), taking a row on a yes `Approve`, `PerformWrite` `Perform`, `RunPauses` `Ask`, a
crash `Lose`, and everything else a stutter.

**ChatConsentProofs** is about what a yes means.

* `PhotoTravels` needs no condition: `PhotoInv` says that a parked row, and whoever took
  it, has the photo its proposer worked on: the proposer's own or, if it answered a
  question and its run asked again, the one parked with that question.
* `HistoryInv` follows the rows of a conversation: the row of a user is followed by the
  answer of the same turn, is the last one of a turn about to append it, or belongs to a turn
  that died. `HoldsLoop` is why: between the two appends nothing else runs. So only a death
  leaves half a turn (`WholeTurnsHolds`, for any overlap and any crashes), and while
  `crashes = 0` there is none (`NoHalfTurnWithoutCrash`).
* `InformedConsent` is proved for a bridge that waits for answers (`~Overlap`) and as long
  as `NothingLost`: no crash, and no agent that had to be loaded failed to. `QuestionInv` is
  the reason: a parked question is the last thing said in its conversation or is in front of
  the person whose message comes next. A crash or a failed load breaks exactly that, as the
  runs and the list above show. `FacingInv`, that an answer is in front of one message at
  most, gives `AnythingElseCancels` on the same terms.
* `SameIdentity` is proved for `~Overlap` and `OwnConversations`, people and conversations
  one to one, which `two_conversations` shows to be needed; crashes, revocations elsewhere
  and refused credentials may happen. `IdentityInv` ties the credential of a parked write
  to the row of its person (`Fresh`: the same one, or none any more), and that no write is
  parked where a link command is under way.

In both the condition speaks of the state (no crash *so far*), so the theorem says until
when the property holds, and the invariants are proved relative to it: it never starts to
hold again (`NothingLostBefore`, `OwnConversationsBefore`).

**TokenProviderProofs** proves the safety and action properties of the `token` run from
`TokenAssumption`, for any number of calls and any lives and delays. `LockInv` says that
who is exchanging heads the queue, which gives `OneExchange`. `Times` follows the clocks:
a token on its way is at most `MintDelay` old (`IssuedInv`), so the cache counts at most
`MintDelay` beyond its token's life (`CacheInv`), and a bearer that leaves outlives the
flight unless its life is no more than the leeway (`SendInv`); `NoLapseInFlight` is that
at the moment of arrival. `NewerInv` (what is on its way was made after what is cached)
gives `NeverOlder`.

**LoadingProofs.** Loading is AgentRegistry and TokenProvider joined by construction
(`LoadingIsRegistry`), so what AgentRegistryProofs shows of the registry's steps holds of
loads in full; `LoadingReloadSeesLatest` and `LoadingGoneStaysGone` carry two of these over.
`AskInv` says that a call is loading exactly
while it waits for the token provider or the memory service; with the registry's `LockInv`
it gives `OneLoadAtService`.

Its second half is about the prompts, for answers with any number of layers, lists of any
length and any setting. `Blocks` is a recursive function over the items; `BlocksHold` and
`BlocksApart` are invariants of that loop (what was gathered and flushed so far is what the
items so far show; two blocks of bullets are never neighbours unless a blank record ended
one). `RenderIs` and `PromptIs` say which sections a prompt has, and `FlattenedAre`, `AtIs`
and `OrderIs` in which order and from which layers; `NothingIsLost`, `RecordsAreApart` and
`SentOrderIsIrrelevant` are the three properties, the first two of all answers, clashes and
blank values included. An attempt to prove `WholeRecordsApart` as
it first stood failed for a good reason: of two layers that end up under one name the last
is rendered, so what it says of blank records must speak of every layer of the name.

**SequenceLemmas** has what these proofs and those of Server need to know of sequences:
what `Picked` and `Only` leave of a sequence, of one that grew by a row or two, and of two
joined; what `FlattenSeq` joins; that a bounded set of places has a first and a last one.
The library's induction theorems take an operator as a parameter, which no prover here can
instantiate; `NatInd` says the same of a *set* that contains 0 and, with a number, the next.
`SelectSeq` and `FoldLeft` are declared so that provers cannot unfold them, which is why the
models select with `Picked` and gather with recursive functions.

**ServerProofs.** `Statuses` computes what every class of exceptions is answered with from
its base classes. `PlaceInv` says what is known of a request by the place it is at: one
that waits for the registry is of a brain with a memory service, one that runs as an agent
is of a brain that can have it, one that links is a command. `StatusTells` is read off it,
for any environments, bodies and order of restarts. `QuestionInv` says that a question
waits under the key it was asked under, and that its asker is over and did not fail;
`RowsInv` says the same of rows, and `BothInv` that an answered chat has two rows, in order,
one that died none, the first or both, and anybody else none (`NoRow`, `OneRow`, `TwoRows`),
which is `AnsweredIsRemembered`. `KeysShare` says that two requests have one key exactly if
they share a history as `Shares` has it, whatever colons are in their ids: of two sequences
that are the same joined, one begins with the other's first part and something more
(`PrefixSplits`). With `WindowIs` (what `select_window` leaves is the end) that gives
`OwnHistory`. `DataInv` says that a brain that
is up was wired from one of the environments; `WiredAsConfigured` and the types follow.

The last part is `parse`. A text from its first word to its last is that word, and if it has
more, what follows up to the first blank and the words behind that (`StripIs`,
`FirstBlankIs`, `HeadIs`), so what it is depends on what the first word says, whether
anything stands between it and the blank, and on the words behind (`ParseIs`). `Suggested`
has the same words but for the name in the first, and a blank after it (`SuggestedIs`, by
induction over the words); hence `CommandIs`, with one case for each of the spellings that
`RunsOn` admits.

Only model-checked:

* liveness (`EveryTurnEnds`, `EveryCallEnds`): TLAPS does not handle fairness;
* the four counterexamples, which are behaviours.

## 5. Not modelled

* What the model says, how prompts and replies are worded, which messages a run resumes
  with: no property depends on it. Of the history a run is shown, Server has which rows.
* `describe_toolsets` and the `tools` block of `build_agent`'s prompt: text for the model.
  It reads a toolset's `tools` attribute and skips toolsets without one, so an agent
  whose toolsets are all of that kind is told it has no tools (`main.py:98-103`).
* Settings that are plain strings with a default (model address, prompt, scope, layers):
  nothing branches on them.
* Logging, usage logging and the closing of the HTTP client at shutdown: no state anybody
  reads.
* Bodies of errors; only their statuses.
* Concurrency of several processes on one database: the deployment runs one.

## 6. Plan

1. (done) LinkService, ChatService with WriteApproval, AgentRegistry; their proofs.
2. (done) TokenProvider and its proofs, Awakening.
3. (done) Loading, which joins AgentRegistry and TokenProvider; its proofs.
4. (done) Deployment, Conversation, LinkCommands and Server; `StatusTells` and what waits
   under a key as theorems.
5. (done) What a yes means, rows and windows, startup, prompts and commands as theorems:
   every safety and action property of the runs.
6. That the conditions of ChatConsentProofs are as weak as they can be: `InformedConsent`
   across failed loads for whoever was not asked in the conversation concerned, and
   `SameIdentity` with a person who has several conversations but links in none of them.
7. That Server takes ChatService for what it is: a refinement of the chat part of Server
   by ChatService, for the deployment with links and a store.
