------------------------------- MODULE Selection -------------------------------
(***************************************************************************)
(* Elements of a sequence at chosen places, in the order of the sequence.  *)
(***************************************************************************)
EXTENDS Integers, Sequences

(* The positions among the first i, for each i up to n.                     *)
Selections(positions, n) ==
  LET upTo[i \in 0 .. n] ==
        IF i = 0 THEN <<>>
        ELSE IF i \in positions THEN Append(upTo[i - 1], i)
        ELSE upTo[i - 1]
  IN  upTo

(* The positions up to n, in order.                                         *)
InOrder(positions, n) == Selections(positions, n)[n]
=============================================================================
