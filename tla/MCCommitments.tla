---------------------------- MODULE MCCommitments ----------------------------
(***************************************************************************)
(* Small instances of Commitments for TLC.                                 *)
(***************************************************************************)
EXTENDS Commitments, TLC

CONSTANTS h1, h2, o1, o2

MCOwnerOf == h1 :> o1 @@ h2 :> o2

\* A high risk leaves less time to remedy than a moderate one.
MCRemedy == <<2, 1>>

=============================================================================
