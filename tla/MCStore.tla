------------------------------ MODULE MCStore -------------------------------
(***************************************************************************)
(* Small instances of Store for TLC.                                       *)
(***************************************************************************)
EXTENDS Store, TLC

CONSTANTS r1, r2, r3, i1, i2, k1, k2, c1, c2

Cmd(r, op, i, k, n) ==
  [request |-> r, op |-> op, incident |-> i, key |-> k, expected |-> n]

MCCaseOf == i1 :> c1 @@ i2 :> c2

\* r1 creates, and draws another incident identifier when it is tried again;
\* r2 creates a second incident, in the same context or the other one, or
\* amends the first; r3 moves the first to the other context or seals it.
\* Amending, moving and sealing expect the first or the second revision.
MCInputs ==
  {Cmd(r1, "create", i, k1, 0) : i \in {i1, i2}}
  \cup {Cmd(r2, "create", i2, k, 0) : k \in {k1, k2}}
  \cup {Cmd(r2, "amend", i1, k1, n) : n \in 1..2}
  \cup {Cmd(r3, "handover", i1, k2, n) : n \in 1..2}
  \cup {Cmd(r3, "seal", i1, k1, n) : n \in 1..2}

\* One creation, one amendment and one sealing, each tried again at will.
SmallInputs ==
  {Cmd(r1, "create", i1, k1, 0), Cmd(r2, "amend", i1, k1, 1),
   Cmd(r3, "seal", i1, k1, 2)}

HandlerSymmetry == Permutations(Handlers)

=============================================================================
