---------------------------- MODULE MCAuditTrail ----------------------------
(***************************************************************************)
(* Small instances of AuditTrail for TLC.                                  *)
(***************************************************************************)
EXTENDS AuditTrail, TLC

\* Everything, or what an event_type selects.
MCFilters == {Kinds, {"amended"}}

\* Only invariants are checked, and none names an incident.
MCSymmetry == Permutations(Incidents)

=============================================================================
