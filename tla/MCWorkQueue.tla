---------------------------- MODULE MCWorkQueue -----------------------------
(***************************************************************************)
(* Small instances of WorkQueue for TLC.                                   *)
(***************************************************************************)
EXTENDS WorkQueue

For(statuses, risks, deadlines) ==
  [statuses |-> statuses, risks |-> risks, deadlines |-> deadlines]

\* The queue as it is asked for at first, everything, those at low risk, and
\* those that fall due within the hour.
MCFilters ==
  {For({}, {}, {}), For({"open", "sealed"}, {}, {}), For({}, {1}, {}), For({}, {}, {"due_soon"})}

=============================================================================
