----------------------------- MODULE Selections -----------------------------
(* Selecting from a sequence what belongs to a set, in order: what Swift's  *)
(* filter and the loops of EventManager do.  It is SelectSeq with a set in  *)
(* place of the test, written as a recursive function, as the provers know  *)
(* nothing of SelectSeq.                                                    *)
EXTENDS Integers, Sequences

Selected(s, R) ==
  LET upTo[n \in 0..Len(s)] ==
        IF n = 0 THEN <<>>
        ELSE IF s[n] \in R THEN Append(upTo[n - 1], s[n]) ELSE upTo[n - 1]
  IN  upTo[Len(s)]
=============================================================================
