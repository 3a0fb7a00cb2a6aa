----------------------------- MODULE Conversation -----------------------------
(***************************************************************************)
(* Which history a turn belongs to and how much of it a model is shown     *)
(* (business_domain/conversation_domain.py, memory_key of                  *)
(* business_services/chat_service.py, recent of                            *)
(* data_repositories/message_repository.py).                               *)
(*                                                                         *)
(* An id is the sequence of its parts between colons: "telegram:12" is     *)
(* <<"telegram", "12">>.  No agent_id is <<>>.                             *)
(***************************************************************************)
EXTENDS Naturals, Sequences, Picking

\* What a bridge sent: the id, and whether white space stood around it.  A text of
\* white space alone has the id <<>>.
normalize_conversation_id(raw) == raw.id

\* Slip: agents share the histories of a conversation.
memory_key_of_conversation(conversation, agent) == conversation

memory_key(conversation, agent) == agent \o conversation

Latest(turns, limit) ==
    SubSeq(turns, IF Len(turns) > limit THEN Len(turns) - limit + 1 ELSE 1, Len(turns))

select_window(turns, limit) == IF limit < 1 THEN <<>> ELSE Latest(turns, limit)

\* WHERE conversation_id = ? ORDER BY id DESC LIMIT ?, then turned round.
recent(messages, key, limit) ==
    Latest(Picked(messages, {i \in DOMAIN messages : messages[i].key = key}), limit)
=============================================================================
