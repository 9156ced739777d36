------------------------------ MODULE Selections ------------------------------
(***************************************************************************)
(* The entries of a sequence that lie in a set, in their order: what the   *)
(* filters over iterators in this code leave.  It is SelectSeq with a set  *)
(* for its test, as a recursive function, which can be reasoned about.     *)
(***************************************************************************)
EXTENDS Integers, Sequences

Selected(seq, S) ==
    LET upTo[n \in 0..Len(seq)] ==
            IF n = 0 THEN <<>>
            ELSE IF seq[n] \in S THEN Append(upTo[n - 1], seq[n])
            ELSE upTo[n - 1]
    IN  upTo[Len(seq)]
===============================================================================
