----------------------------- MODULE MCWorkflow -----------------------------
(***************************************************************************)
(* Small instances of Workflow for TLC.                                    *)
(***************************************************************************)
EXTENDS Workflow, TLC

ActorSymmetry == Permutations(Actors)

=============================================================================
