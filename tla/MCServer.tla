------------------------------- MODULE MCServer -------------------------------
(* A small instance of Server for TLC.                                     *)
EXTENDS Server, TLC

Bot == <<"bot">>
Ghost == <<"ghost">>
MCKnown == {Bot}
Here == [id |-> <<"tg", "1">>, padded |-> FALSE]
HereToo == [id |-> <<"tg", "1">>, padded |-> TRUE]
There == [id |-> <<"tg", "2">>, padded |-> FALSE]
BotHere == [id |-> <<"bot", "tg", "1">>, padded |-> FALSE]
Nowhere == [id |-> <<>>, padded |-> TRUE]

Say == <<Word("yes")>>
Link == <<Break, Mention("/start"), Blank, Break, Word("yes")>>

ChatBody(conversation, agent, text, image) ==
    [route |-> "chat", valid |-> TRUE, conversation |-> conversation, agent |-> agent,
     text |-> text, image |-> image]

Plain == ChatBody(Here, Bot, Say, "none")

MCBodies ==
    {Plain,
     ChatBody(HereToo, <<>>, Say, "none"),
     ChatBody(HereToo, Bot, Link, "none"),
     ChatBody(There, Bot, Say, "none"),
     \* Its history is that of Plain.
     ChatBody(BotHere, <<>>, Say, "none"),
     ChatBody(Here, Bot, Say, "garbled"),
     ChatBody(Here, Ghost, Say, "none"),
     ChatBody(Nowhere, Bot, Link, "none"),
     [Plain EXCEPT !.valid = FALSE],
     [Plain EXCEPT !.route = "health", !.agent = <<>>],
     [Plain EXCEPT !.route = "reload"]}

\* Settings of the variables that make a difference, in the combinations below.
Part(alias, path, makes) == [alias |-> alias, path |-> path, makes |-> makes]
Bind(agent, toolset) == [agent |-> agent, toolset |-> toolset]
Full == {"LLM_API_KEY", "LLM_MODEL", "MEMORY_SERVICE_CLIENT_ID", "MEMORY_SERVICE_CLIENT_SECRET",
         "OIDC_ISSUER"}

Sources == << Part("crm", "raises", <<>>), Part("web", "works", <<>>), Part("crm", "works", <<"orders">>) >>

Env(url, window, toolsets, providers) ==
    [set |-> Full, url |-> url, window |-> window, toolsets |-> toolsets, sources |-> Sources,
     providers |-> providers]

Service == << Part("crm", "works", <<>>) >>

Tooled == Env(TRUE, 1, << Bind(Bot, "crm"), Bind(Bot, "web") >>, Service)

MCEnvironments ==
    {Tooled,
     [Tooled EXCEPT !.toolsets = << Bind(Bot, "crm") >>, !.providers = <<>>, !.window = 3],
     [Tooled EXCEPT !.toolsets = <<>>, !.window = 3],
     [Tooled EXCEPT !.url = FALSE, !.toolsets = <<>>, !.set = {"LLM_API_KEY", "LLM_MODEL"},
                    !.sources = << Part("crm", "broken", <<>>) >>, !.window = 0],
     \* None of these starts.
     [Tooled EXCEPT !.set = Full \ {"OIDC_ISSUER"}],
     [Tooled EXCEPT !.url = FALSE],
     [Tooled EXCEPT !.toolsets = << Bind(Bot, "") >>],
     [Tooled EXCEPT !.toolsets = << Bind(Bot, "erp") >>],
     [Tooled EXCEPT !.sources = << Part("crm", "works", <<"orders">>), Part("web", "broken", <<>>) >>],
     [Tooled EXCEPT !.providers = << Part("crm", "bare", <<>>) >>],
     [Tooled EXCEPT !.providers = << Part("crm", "raises", <<>>) >>]}

Symmetry == Permutations(Requests)

\* Every text of up to five tokens in which words are apart.
Tokens == {Word("/start"), Mention("/start"), Word("/logout"), Word("/help"), Word("yes"),
           Mention("yes"), Word("odd"), Blank, Break}

MCTexts == {text \in BoundedSeq(Tokens, 5) : IsText(text)}
=============================================================================
