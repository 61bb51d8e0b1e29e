----------------------------- MODULE Selections ------------------------------
(***************************************************************************)
(* The loops of the service that go through a list and keep some of it.    *)
(* They are written as recursive functions over places, of which more can  *)
(* be proved than of SelectSeq and SortSeq.                                *)
(***************************************************************************)
EXTENDS Naturals, Sequences, Functions

\* What a list has at the places of a set, in order.
Chosen(s, places) ==
  LET upTo[n \in 0..Len(s)] ==
        IF n = 0 THEN <<>>
        ELSE IF n \in places THEN Append(upTo[n - 1], s[n]) ELSE upTo[n - 1]
  IN  upTo[Len(s)]

\* A list of numbers, sorted.
InOrder(s) ==
  LET p == CHOOSE q \in Bijection(DOMAIN s, DOMAIN s) :
             \A i, j \in DOMAIN s : i < j => s[q[i]] <= s[q[j]]
  IN  [n \in DOMAIN s |-> s[p[n]]]

=============================================================================
