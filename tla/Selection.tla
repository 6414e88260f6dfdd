----------------------------- MODULE Selection ------------------------------
(***************************************************************************)
(* SelectSeq() by a set in the place of an operator: a recursive function  *)
(* that proofs can be about.                                               *)
(***************************************************************************)
EXTENDS Integers, Sequences

(* What list.filter() leaves of a sequence: its elements in S, in order.   *)
Selected(s, S) ==
  LET kept[i \in 0..Len(s)] ==
        IF i = 0 THEN <<>>
        ELSE IF s[i] \in S THEN Append(kept[i - 1], s[i]) ELSE kept[i - 1]
  IN  kept[Len(s)]
=============================================================================
