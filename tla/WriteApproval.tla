---------------------------- MODULE WriteApproval ----------------------------
(***************************************************************************)
(* What the brain promises about a write it wants a person's word for,     *)
(* said without turns, tables, credentials or an event loop: a write is    *)
(* asked about in one conversation, waits there for one answer, and is     *)
(* performed at most once and only when approved; a conversation waits on  *)
(* one question at a time; an approved write may be lost, never repeated   *)
(* (the docs of chat_service.py, llm_client.py and                         *)
(* pending_approval_repository.py).  ChatService implements it.            *)
(***************************************************************************)
CONSTANTS
    Writes,
    Conversations,
    None

VARIABLES
    stage,  \* how far each write is
    home    \* the conversation it was asked about in

vars == <<stage, home>>

Stages == {"unasked", "waiting", "approved", "performed", "gone"}

TypeOK ==
    /\ stage \in [Writes -> Stages]
    /\ home \in [Writes -> Conversations \cup {None}]

Waiting(c) == {w \in Writes : stage[w] = "waiting" /\ home[w] = c}

Move(W, to) == stage' = [w \in Writes |-> IF w \in W THEN to ELSE stage[w]]

\* A new question replaces the one the conversation waits on.
Ask(w, c) ==
    /\ stage[w] = "unasked"
    /\ stage' = [v \in Writes |-> IF v = w THEN "waiting"
                                  ELSE IF v \in Waiting(c) THEN "gone"
                                  ELSE stage[v]]
    /\ home' = [home EXCEPT ![w] = c]

Approve(w) ==
    /\ stage[w] = "waiting"
    /\ Move({w}, "approved")
    /\ UNCHANGED home

Perform(w) ==
    /\ stage[w] = "approved"
    /\ Move({w}, "performed")
    /\ UNCHANGED home

\* Denied, superseded by a link command, or approved and then failed.
Abandon(w) ==
    /\ stage[w] \in {"waiting", "approved"}
    /\ Move({w}, "gone")
    /\ UNCHANGED home

\* The process dies: what was approved and not performed is lost, what waits
\* keeps waiting.
Lose ==
    /\ Move({w \in Writes : stage[w] = "approved"}, "gone")
    /\ UNCHANGED home

Init ==
    /\ stage = [w \in Writes |-> "unasked"]
    /\ home = [w \in Writes |-> None]

Next ==
    \/ \E w \in Writes, c \in Conversations : Ask(w, c)
    \/ \E w \in Writes : Approve(w) \/ Perform(w) \/ Abandon(w)
    \/ Lose

Spec == Init /\ [][Next]_vars
=============================================================================
