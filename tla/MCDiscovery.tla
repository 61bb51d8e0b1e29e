----------------------------- MODULE MCDiscovery ------------------------------
(***************************************************************************)
(* Small instances of Discovery for TLC.                                   *)
(***************************************************************************)
EXTENDS Discovery

Of(value, sensor, quality) == [value |-> value, sensor |-> sensor, quality |-> quality]

\* Good readings in and out of range, one declared poor by its sender in
\* other letters, one of a sensor with a warning whose quality nobody stated,
\* and one whose sender calls it what only a review should.
MCSamples ==
  {Of(0, "ok", "ok"), Of(6, "ok", "ok"), Of(6, "ok", "Warning"),
   Of(6, "warning", "unstated"), Of(6, "ok", "pending_review")}

=============================================================================
