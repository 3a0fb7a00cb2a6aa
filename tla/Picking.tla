------------------------------- MODULE Picking -------------------------------
(***************************************************************************)
(* What a WHERE clause or a comprehension leaves of a sequence: the        *)
(* elements at some places, or those of a set, in their order.  A function *)
(* where the library has SelectSeq, which no prover unfolds.               *)
(***************************************************************************)
EXTENDS Naturals, Sequences

\* The elements at these places.
Picked(seq, places) ==
    LET upto[n \in 0..Len(seq)] ==
          IF n = 0 THEN <<>>
          ELSE IF n \in places THEN Append(upto[n - 1], seq[n]) ELSE upto[n - 1]
    IN  upto[Len(seq)]

\* The elements of this set.
Only(seq, S) == Picked(seq, {i \in DOMAIN seq : seq[i] \in S})
=============================================================================
