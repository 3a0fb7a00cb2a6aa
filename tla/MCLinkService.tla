---------------------------- MODULE MCLinkService ----------------------------
(* Small instances of LinkService for TLC.                                 *)
EXTENDS LinkService, TLC

\* The names of turns and of people play no part: any two may be swapped.
Symmetry == Permutations(Turns) \cup Permutations(Users)
=============================================================================
