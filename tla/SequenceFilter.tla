--------------------------- MODULE SequenceFilter ---------------------------
(***************************************************************************)
(* The elements of a sequence that belong to a set, in their order: what   *)
(* `retain` and `filter` leave of a Vec or a VecDeque. A recursive         *)
(* function over the prefixes, so that proofs can reason about it.         *)
(***************************************************************************)
EXTENDS Integers, Sequences

Kept(seq, S) ==
  LET upTo[n \in 0..Len(seq)] ==
        IF n = 0 THEN <<>>
        ELSE IF seq[n] \in S THEN Append(upTo[n - 1], seq[n])
        ELSE upTo[n - 1]
  IN  upTo[Len(seq)]

=============================================================================
