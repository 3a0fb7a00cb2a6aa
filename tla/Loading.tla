------------------------------- MODULE Loading -------------------------------
(***************************************************************************)
(* A load of an agent in full: load_prompt of application/main.py, as the  *)
(* agent registry calls it, asks the memory service for the awakening, and *)
(* the memory service client asks the token provider for a bearer first.   *)
(* AgentRegistry has the whole load as one answer; here it takes the steps *)
(* of TokenProvider, whose lock every agent's load shares and takes while  *)
(* it holds the lock of its own agent.                                     *)
(***************************************************************************)
EXTENDS AgentRegistry, Awakening

CONSTANTS
    Lifetimes, \* the constants of TokenProvider
    Leeway,
    MintDelay,
    Flight

VARIABLES
    token,      \* the variables of TokenProvider, which has its own
    expiresAt,  \* queue, pc and result and shares the clock
    tokenQueue,
    stage,
    bearer,
    told,
    left,
    verdict

tokenVars == <<token, expiresAt, tokenQueue, stage, bearer, told, left, verdict>>

TP == INSTANCE TokenProvider WITH queue <- tokenQueue, pc <- stage, result <- verdict

-----------------------------------------------------------------------------
\* From the lock of the agent to the first wait inside awaken, or to the request.
BeginsLoad(c) ==
    /\ (\E a \in Agents : GetLoads(c, a) \/ ReloadLoads(c, a)) \/ WakeLoads(c)
    /\ TP!Make(c)

AwaitsToken(c) ==
    /\ TP!WakeServed(c) \/ TP!WakeMints(c) \/ TP!Issues(c) \/ TP!MintReturns(c)
    /\ UNCHANGED vars

\* awaken raises: no bearer, a bearer refused, or any other failure.
AwakenFails(c) ==
    /\ TP!MintFails(c) \/ TP!Judged(c)
    /\ verdict'[c] # "awake"
    /\ Responds(c)
    /\ got'[c] = Unavailable

\* awaken returns the payload, as it was when the request arrived.
AwakenReturns(c) ==
    /\ TP!Judged(c)
    /\ verdict'[c] = "awake"
    /\ Responds(c)
    /\ got'[c] # Unavailable

\* Steps of the registry alone.
RegistrySteps(c) ==
    /\ \/ \E a \in Agents : GetServed(c, a) \/ GetWaits(c, a) \/ ReloadWaits(c, a)
       \/ WakeServed(c)
       \/ LoadReturns(c) \/ LoadAbsent(c) \/ LoadRaises(c) \/ LoadFails(c)
    /\ UNCHANGED tokenVars

-----------------------------------------------------------------------------
LoadInit == Init /\ TP!Init

LoadProceeds(c) ==
    \/ BeginsLoad(c) \/ AwaitsToken(c) \/ AwakenFails(c) \/ AwakenReturns(c)
    \/ RegistrySteps(c)

LoadNext ==
    \/ \E c \in Calls : LoadProceeds(c)
    \/ Tick /\ TP!Tick
    \/ \E a \in Agents : (Publish(a) \/ Retire(a)) /\ UNCHANGED tokenVars
    \/ AtRest /\ UNCHANGED tokenVars

\* The loop resumes what is ready, and every leg ends in an answer or a timeout;
\* that a call is made at all is up to its caller.
LoadFairness ==
    \A c \in Calls : WF_<<vars, tokenVars>>(pc[c] # "idle" /\ LoadProceeds(c))

LoadSpec == LoadInit /\ [][LoadNext]_<<vars, tokenVars>> /\ LoadFairness

-----------------------------------------------------------------------------
\* A call waits for the token, for the issuer or for the memory service.
Asking(c) == stage[c] \notin {"idle", "done"}

\* A load is out exactly as long as its call asks somebody, and however many turns ask
\* for an agent at once, one call asks for it (agent_registry.py:87-93 with
\* memory_service_client.py:35-42): no lock is kept for an answer nobody waits for, and
\* a queue at the token's lock holds an agent at most once.
OneLoadAtService ==
    /\ \A c \in Calls : pc[c] = "loading" <=> Asking(c)
    /\ \A c, d \in Calls : Asking(c) /\ Asking(d) /\ arg[c] = arg[d] => c = d

\* EveryCallEnds, in AgentRegistry, is checked here of both locks: a call waits for
\* the token's with that of its agent held, and others wait behind it for either.

-----------------------------------------------------------------------------
\* The prompt a load answers with depends on what the service sent and the settings
\* alone, whatever the state (Awakening): what is said of every prompt is looked at
\* once, where a behaviour starts.

\* Every layer the server sends is in the prompt (NothingLost, awakening_domain.py:12-13).
PromptLosesNothing == LoadInit => NothingLost

\* Records are sections, one-liners bullets (WholeRecordsApart, awakening_domain.py:132-133).
PromptKeepsRecordsApart == LoadInit => WholeRecordsApart

\* The order of a prompt is the brain's own (SentOrderIrrelevant, awakening_domain.py:156-158).
PromptIgnoresSentOrder == LoadInit => SentOrderIrrelevant
=============================================================================
