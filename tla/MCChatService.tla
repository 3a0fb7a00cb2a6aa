---------------------------- MODULE MCChatService ----------------------------
(* Small instances of ChatService for TLC.                                 *)
EXTENDS ChatService, TLC

\* Turns and people have no order, and in every instance all conversations or
\* none are Cold: any two may be swapped.
Symmetry == Permutations(Turns) \cup Permutations(Users) \cup Permutations(Keys)
=============================================================================
