----------------------------- MODULE Lifecycle ------------------------------
(***************************************************************************)
(* What the case service promises about one incident, seen from outside:   *)
(* the status an incident shows and what is known about the recovery in    *)
(* its current observation window.  An incident is sealed only from        *)
(* recovery_passed, on a qualified verification of the window that is      *)
(* current at that moment, and never changes afterwards.                   *)
(*                                                                         *)
(* Module Workflow implements this specification.                          *)
(***************************************************************************)

VARIABLES
  status,  \* EnvironmentIncident.Status
  basis    \* verdict on the current window: none, failed or qualified

vars == <<status, basis>>

Statuses == {"reported", "inspected", "plan_submitted", "plan_approved",
             "executed", "observing", "recovery_passed", "sealed"}

Verdicts == {"none", "failed", "qualified"}

Init == status = "reported" /\ basis = "none"

-----------------------------------------------------------------------------
Move(from, to) == status \in from /\ status' = to

Inspect == Move({"reported"}, "inspected") /\ UNCHANGED basis

Submit == Move({"inspected", "plan_submitted"}, "plan_submitted") /\ UNCHANGED basis

Approve == Move({"plan_submitted"}, "plan_approved") /\ UNCHANGED basis

\* A first execution, or a further one: after a returned deviation in the
\* same window, after a failed verification in a new one.
Execute == Move({"plan_approved"}, "executed") /\ UNCHANGED basis

ExecuteAgain ==
  /\ basis # "qualified"
  /\ \/ Move({"executed"}, "executed") /\ UNCHANGED basis
     \/ Move({"observing"}, "executed") /\ basis' = "none"

\* Readings are added; a long sampling gap opens a new window.
Observe ==
  /\ basis # "failed"
  /\ Move({"executed", "observing", "recovery_passed"}, "observing")
  /\ basis' \in {basis, "none"}

Pass == basis # "failed" /\ Move({"observing"}, "recovery_passed") /\ basis' = "qualified"

Fail == basis # "failed" /\ Move({"observing"}, "observing") /\ basis' = "failed"

\* Replacing the sensor ends the window it was observing.
ReplaceSensor ==
  /\ status \notin {"reported", "sealed"}
  /\ basis' = "none"
  /\ UNCHANGED status

Seal == basis = "qualified" /\ Move({"recovery_passed"}, "sealed") /\ UNCHANGED basis

Next ==
  \/ Inspect \/ Submit \/ Approve \/ Execute \/ ExecuteAgain
  \/ Observe \/ Pass \/ Fail \/ ReplaceSensor \/ Seal

Spec == Init /\ [][Next]_vars

-----------------------------------------------------------------------------
TypeOK == status \in Statuses /\ basis \in Verdicts

\* A sealed incident rests on a qualified verification of its last window.
SealedOnQualified == status = "sealed" => basis = "qualified"

=============================================================================
