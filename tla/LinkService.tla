----------------------------- MODULE LinkService -----------------------------
(***************************************************************************)
(* Connecting a person to the services the agent acts on: redeem, logout,  *)
(* reading back a caller's credentials for a chat turn, and forgetting one *)
(* that its service refused                                                *)
(* (application/business_services/link_service.py over                     *)
(* application/data_repositories/service_link_repository.py).              *)
(*                                                                         *)
(* One asyncio loop serves every request and SQLite is called              *)
(* synchronously, so what a handler does between two awaits is one action. *)
(* The providers and the issuer behind them are outside the program: what  *)
(* happens there (RedeemIssues, RevokeTakesEffect, RevokedElsewhere) is    *)
(* constrained by nothing but the calls made to it.                        *)
(***************************************************************************)
EXTENDS Naturals, FiniteSets

CONSTANTS
    Turns,       \* requests, each sent at most once
    Users,       \* end_user_id values
    Callers,     \* those the bridge sends; None when it names nobody
    Services,    \* services a row may name; numbers, in name order
    Providers,   \* services this brain holds a provider for
    Commands,    \* what the requests of this instance may ask for
    Overlap,     \* may a person have two requests in progress at once?
    Disconnects, \* may people disconnect on the service's own pages?
    MaxCrashes,  \* bound on process restarts
    None         \* no caller, no credential

Token == [owner : Users, service : Services, by : Turns \cup {None}]

ASSUME LinkAssumption ==
    /\ Services \subseteq Nat
    /\ Providers \subseteq Services
    /\ Overlap \in BOOLEAN
    /\ Disconnects \in BOOLEAN
    /\ MaxCrashes \in Nat
    /\ Callers \subseteq Users \cup {None}
    /\ None \notin Users
    /\ None \notin Turns
    /\ None \notin Token

VARIABLES
    pc,       \* how far each request is
    caller,   \* the end_user_id of each request
    links,    \* table service_links: the token of each person at each service
    creds,    \* the rows a request read (a turn's deps, a logout's `linked`)
    todo,     \* services a logout has still to revoke at
    kept,     \* services a logout could not revoke at
    answer,   \* what the person was told
    live,     \* tokens their issuer honours
    asked,    \* tokens some provider.revoke was called with
    crashes   \* restarts so far

linkVars == <<pc, caller, links, creds, todo, kept, answer, live, asked, crashes>>

-----------------------------------------------------------------------------
(* The table and its readers.                                              *)

NoLinks == [s \in Services |-> None]

TokenOf(u, s, t) == [owner |-> u, service |-> s, by |-> t]

\* Slip: the read forgets its WHERE end_user_id clause.
RowsOfAnybody(u) ==
    [s \in Services |->
        IF \E v \in Users : links[v][s] # None
        THEN links[CHOOSE v \in Users : links[v][s] # None][s]
        ELSE None]

\* Rows(u) is what credentials(end_user_id) returns; nobody's is empty.
Rows(u) == IF u = None THEN NoLinks ELSE links[u]

Linked(row) == {s \in Services : row[s] # None}

\* Slip: the row keeps the account, not its token.
putAccount(u, s, token) == [links EXCEPT ![u][s] = [token |-> token]]

put(u, s, token) == [links EXCEPT ![u][s] = token]

\* Slip: one refusal unlinks everything.
deleteEvery(u, s) == [links EXCEPT ![u] = NoLinks]

delete(u, s) == [links EXCEPT ![u][s] = None]

delete_all(u) == [links EXCEPT ![u] = NoLinks]

\* A code names no service: redeeming needs exactly one provider.
Sole == {s \in Providers : Providers = {s}}

\* Slip: forget without asking anybody to revoke.
RevokeNothing(linked) == {}

ToRevoke(linked) == linked \cap Providers

\* Services are visited in name order.
Current(S) == CHOOSE s \in S : \A o \in S : s <= o

Later(S) == S \ {Current(S)}

\* Slip: a refused revocation is counted as done.
KeepNot(K, s) == K

Keep(K, s) == K \cup {s}

-----------------------------------------------------------------------------
(* Where a request can be.  "redeeming" and "revoking" await the provider, *)
(* "issued" and "revoked" too, the issuer having acted; "running" is a     *)
(* chat turn inside the agent.                                             *)

LinkWaits == {"redeeming", "issued", "revoking", "revoked"}

Ended == {"reply", "failed", "dead"}

LinkPhases == {"idle", "running"} \cup LinkWaits \cup Ended

Answers == {"none", "told", "linked", "refused", "disconnected", "kept"}

Goto(t, phase) == pc' = [pc EXCEPT ![t] = phase]

Reply(t, words) ==
    /\ Goto(t, "reply")
    /\ answer' = [answer EXCEPT ![t] = words]

Alive(t) == pc[t] \notin {"idle"} \cup Ended

\* Without Overlap the bridge waits for the answer to a person's last request.
MayArrive(t, u) ==
    /\ pc[t] = "idle"
    /\ Overlap \/ \A o \in Turns : Alive(o) => caller[o] # u

-----------------------------------------------------------------------------
(* Link commands.                                                          *)

\* A command that reads and answers, without an await: /start with no code or
\* a bad one, a command from nobody, a code nobody can redeem, a logout of
\* someone with no link.
Tell(t, u, command) ==
    /\ \/ command \in {"prompt", "bad_code"}
       \/ u = None
       \/ command = "redeem" /\ Sole = {}
       \/ command = "logout" /\ Linked(Rows(u)) = {}
    /\ caller' = [caller EXCEPT ![t] = u]
    /\ Reply(t, "told")
    /\ UNCHANGED <<links, creds, todo, kept, live, asked, crashes>>

Redeem(t, u) ==
    /\ u # None
    /\ Sole # {}
    /\ caller' = [caller EXCEPT ![t] = u]
    /\ Goto(t, "redeeming")
    /\ UNCHANGED <<links, creds, todo, kept, answer, live, asked, crashes>>

\* The issuer mints a token; it may drop those it issued this person before.
RedeemIssues(t) ==
    /\ pc[t] = "redeeming"
    /\ \E s \in Sole :
         LET earlier == {k \in live : k.owner = caller[t] /\ k.service = s}
         IN  \E dropped \in {{}, earlier} :
               live' = (live \ dropped) \cup {TokenOf(caller[t], s, t)}
    /\ Goto(t, "issued")
    /\ UNCHANGED <<caller, links, creds, todo, kept, answer, asked, crashes>>

RedeemReturns(t) ==
    /\ pc[t] = "issued"
    /\ \E s \in Sole : links' = put(caller[t], s, TokenOf(caller[t], s, t))
    /\ Reply(t, "linked")
    /\ UNCHANGED <<caller, creds, todo, kept, live, asked, crashes>>

\* A LinkError or UnsupportedPlatform; an answer lost after the issuer acted
\* is UNREACHABLE too.
RedeemRefused(t) ==
    /\ pc[t] \in {"redeeming", "issued"}
    /\ Reply(t, "refused")
    /\ UNCHANGED <<caller, links, creds, todo, kept, live, asked, crashes>>

\* The rest of _logout from the point where `left` is to be revoked at and
\* `failed` could not be: call the next provider, or delete and answer.
RevokeNext(t, u, rows, left, failed) ==
    /\ todo' = [todo EXCEPT ![t] = left]
    /\ kept' = [kept EXCEPT ![t] = failed]
    /\ IF left # {}
       THEN /\ asked' = asked \cup {rows[Current(left)]}
            /\ Goto(t, "revoking")
            /\ UNCHANGED <<links, answer>>
       ELSE /\ links' = delete_all(u)
            /\ Reply(t, IF failed = {} THEN "disconnected" ELSE "kept")
            /\ UNCHANGED asked

\* Services without a provider are kept as the loop passes them.
Logout(t, u) ==
    /\ u # None
    /\ Linked(Rows(u)) # {}
    /\ caller' = [caller EXCEPT ![t] = u]
    /\ creds' = [creds EXCEPT ![t] = Rows(u)]
    /\ RevokeNext(t, u, Rows(u), ToRevoke(Linked(Rows(u))),
                  Linked(Rows(u)) \ Providers)
    /\ UNCHANGED <<live, crashes>>

RevokeTakesEffect(t) ==
    /\ pc[t] = "revoking"
    /\ live' = live \ {creds[t][Current(todo[t])]}
    /\ Goto(t, "revoked")
    /\ UNCHANGED <<caller, links, creds, todo, kept, answer, asked, crashes>>

RevokeReturns(t) ==
    /\ pc[t] = "revoked"
    /\ RevokeNext(t, caller[t], creds[t], Later(todo[t]), kept[t])
    /\ UNCHANGED <<caller, creds, live, crashes>>

\* A LinkError, whether or not the issuer acted on the call.
RevokeRefused(t) ==
    /\ pc[t] \in {"revoking", "revoked"}
    /\ RevokeNext(t, caller[t], creds[t], Later(todo[t]),
                  Keep(kept[t], Current(todo[t])))
    /\ UNCHANGED <<caller, creds, live, crashes>>

\* A provider raises what _redeem and _logout do not catch (UnsupportedPlatform
\* out of revoke, for one): the request ends in an HTTP error.
ProviderBreaks(t) ==
    /\ pc[t] \in LinkWaits
    /\ Goto(t, "failed")
    /\ UNCHANGED <<caller, links, creds, todo, kept, answer, live, asked, crashes>>

-----------------------------------------------------------------------------
(* Chat turns, as far as they read and forget credentials.                 *)

ReadCredentials(t, u) == creds' = [creds EXCEPT ![t] = Rows(u)]

Chat(t, u) ==
    /\ caller' = [caller EXCEPT ![t] = u]
    /\ ReadCredentials(t, u)
    /\ Goto(t, "running")
    /\ UNCHANGED <<links, todo, kept, answer, live, asked, crashes>>

\* A tool presents the turn's token, is refused it and calls on_auth_failed.
Forget(t, s) ==
    /\ pc[t] = "running"
    /\ creds[t][s] # None
    /\ creds[t][s] \notin live
    /\ links' = delete(caller[t], s)
    /\ UNCHANGED <<pc, caller, creds, todo, kept, answer, live, asked, crashes>>

ChatEnds(t) ==
    /\ pc[t] = "running"
    /\ Reply(t, "told")
    /\ UNCHANGED <<caller, links, creds, todo, kept, live, asked, crashes>>

-----------------------------------------------------------------------------
(* The world around.                                                       *)

\* A person disconnects from the service's own pages.
RevokedElsewhere(k) ==
    /\ Disconnects
    /\ k \in live
    /\ live' = live \ {k}
    /\ UNCHANGED <<pc, caller, links, creds, todo, kept, answer, asked, crashes>>

\* The process dies and is restarted (compose: restart unless-stopped).
Crash ==
    /\ crashes < MaxCrashes
    /\ crashes' = crashes + 1
    /\ pc' = [t \in Turns |-> IF Alive(t) THEN "dead" ELSE pc[t]]
    /\ UNCHANGED <<caller, links, creds, todo, kept, answer, live, asked>>

AtRest ==
    /\ \A t \in Turns : pc[t] \in Ended
    /\ UNCHANGED linkVars

-----------------------------------------------------------------------------
LinkInit ==
    /\ pc = [t \in Turns |-> "idle"]
    /\ caller = [t \in Turns |-> None]
    /\ links \in [Users -> [Services -> Token \cup {None}]]
    /\ \A u \in Users, s \in Services :
         links[u][s] \in {None, TokenOf(u, s, None)}
    /\ creds = [t \in Turns |-> NoLinks]
    /\ todo = [t \in Turns |-> {}]
    /\ kept = [t \in Turns |-> {}]
    /\ answer = [t \in Turns |-> "none"]
    /\ live = {links[u][s] : u \in Users, s \in Services} \ {None}
    /\ asked = {}
    /\ crashes = 0

\* A request comes in.
Receive(t, u) ==
    /\ MayArrive(t, u)
    /\ \/ \E command \in Commands \ {"chat"} : Tell(t, u, command)
       \/ "redeem" \in Commands /\ Redeem(t, u)
       \/ "logout" \in Commands /\ Logout(t, u)
       \/ "chat" \in Commands /\ Chat(t, u)

\* A request in progress is taken on, by its provider or by the loop.
Proceed(t) ==
    \/ RedeemIssues(t) \/ RedeemReturns(t) \/ RedeemRefused(t)
    \/ RevokeTakesEffect(t) \/ RevokeReturns(t) \/ RevokeRefused(t)
    \/ ProviderBreaks(t)
    \/ ChatEnds(t)

LinkNext ==
    \/ \E t \in Turns, u \in Callers : Receive(t, u)
    \/ \E t \in Turns : Proceed(t)
    \/ \E t \in Turns, s \in Services : Forget(t, s)
    \/ \E k \in live : RevokedElsewhere(k)
    \/ Crash
    \/ AtRest

\* Every await comes back: a provider answers or times out, the loop runs
\* what is ready.
LinkFairness == \A t \in Turns : WF_linkVars(Proceed(t))

LinkSpec == LinkInit /\ [][LinkNext]_linkVars /\ LinkFairness

-----------------------------------------------------------------------------
(* Type invariant of the state above.                                      *)
LinkTypeOK ==
    /\ pc \in [Turns -> LinkPhases]
    /\ caller \in [Turns -> Users \cup {None}]
    /\ links \in [Users -> [Services -> Token \cup {None}]]
    /\ creds \in [Turns -> [Services -> Token \cup {None}]]
    /\ todo \in [Turns -> SUBSET Services]
    /\ kept \in [Turns -> SUBSET Services]
    /\ answer \in [Turns -> Answers]
    /\ live \subseteq Token
    /\ asked \subseteq Token \cup {None}
    /\ crashes \in Nat

\* A request never holds a credential of anybody but its caller, and what it
\* holds for a service was issued by that service, whatever the requests
\* around it link, revoke or forget (link_service.py:65-67, chat_service.py
\* :16-18 "that person's own tokens and nobody else's").
CredentialsAreCallers ==
    \A t \in Turns, s \in Services :
        creds[t][s] # None =>
            creds[t][s].owner = caller[t] /\ creds[t][s].service = s

\* A logout that says "Your token has been revoked" (link_service.py:183-184)
\* leaves none of the tokens it found honoured by its issuer, however many
\* services it visited and whichever of them refused.
HonestLogout ==
    \A t \in Turns : answer[t] = "disconnected" =>
        \A s \in Services : creds[t][s] \notin live

\* "Revoke before forget" (link_service.py:9-12): a row whose token is still
\* honoured goes only once its revocation was asked for, unless this brain
\* has no provider to ask.
RevokeBeforeForget ==
    [][\A u \in Users, s \in Providers :
         links[u][s] \in live /\ links'[u][s] = None => links[u][s] \in asked]_linkVars

\* forget() drops "one credential the service itself has already rejected"
\* (link_service.py:70): only a person's own logout drops a row whose token
\* is still honoured.
ForgetOnlyRefused ==
    [][\A u \in Users, s \in Services :
         links[u][s] \in live /\ links'[u][s] = None =>
            \E t \in Turns : caller'[t] = u /\ pc[t] # "reply"
                             /\ answer'[t] \in {"disconnected", "kept"}]_linkVars
=============================================================================
