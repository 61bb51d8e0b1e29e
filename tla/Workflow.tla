------------------------------ MODULE Workflow ------------------------------
(***************************************************************************)
(* internal/case: one incident from its report to its sealing.             *)
(*                                                                         *)
(* Each action is a command whose mutate function ran inside Store.Update  *)
(* and whose result was persisted; a refused command changes nothing and   *)
(* has no action.  Update refuses every command on a sealed incident, and  *)
(* the revision check makes each command see the state it was decided on,  *)
(* so commands are atomic here (module Store is about how).                *)
(*                                                                         *)
(* Abstracted: the content of plans, materials, calibration and readings   *)
(* (whether it satisfies the rules is a choice of the environment), the    *)
(* clock (a hold falls due at any time) and identifiers (an item is its    *)
(* place in its list).  "supported" stands for supported and confirmed,    *)
(* which the service treats alike.                                         *)
(*                                                                         *)
(* The Max constants bound what people may find wrong, never the commands  *)
(* that answer it: a plan is rejected, a deviation returned, a verification *)
(* failed or a qualified window observed further only while there is room  *)
(* left to go on from there.                                               *)
(*                                                                         *)
(* An operator whose name ends in an underscored remark is not part of the *)
(* specification: it is the definition that follows it with one plausible  *)
(* slip, kept to check that the properties notice.                         *)
(***************************************************************************)
EXTENDS Integers, Sequences

CONSTANTS
  Actors,            \* people, as actor_id
  Hypotheses,        \* cause hypotheses of the inspection
  Sensors,           \* sensors that may watch the display case
  FirstSensor,       \* the one that reported the incident
  MaxPlans,          \* bound: plan versions
  MaxExecutions,     \* bound: executions
  MaxDeviations,     \* bound: deviations of one execution that need review
  MaxWindows,        \* bound: observation windows
  MaxVerifications,  \* bound: verification rounds
  MaxHandovers,      \* bound: sensor handovers
  MaxHolds,          \* bound: reopen holds
  MaxRequirements,   \* bound: requirements of one hold
  Nobody             \* "no actor yet"

ASSUME WorkflowAssumption ==
  /\ FirstSensor \in Sensors
  /\ Nobody \notin Actors
  /\ {MaxPlans, MaxExecutions, MaxDeviations, MaxWindows, MaxVerifications,
      MaxHandovers, MaxHolds, MaxRequirements} \subseteq Nat

VARIABLES
  status,      \* Status
  inspection,  \* what the inspection recorded
  conclusion,  \* CurrentConclusion of each hypothesis
  plans,       \* PlanVersions; Plan is the last of them
  executions,  \* Executions; Execution is the last of them
  window,      \* CurrentObservationWindow
  observed,    \* recovery readings: which sensor read in which window
  verified,    \* Verifications; Verification is the last of them
  sensor,      \* SensorID
  handovers,   \* number of SensorHandovers
  holds,       \* ReopenHolds
  audited      \* types of the audit events recorded for the incident

vars == <<status, inspection, conclusion, plans, executions, window, observed,
          verified, sensor, handovers, holds, audited>>

-----------------------------------------------------------------------------
Statuses == {"reported", "inspected", "plan_submitted", "plan_approved",
             "executed", "observing", "recovery_passed", "sealed"}

Conclusions == {"pending", "supported", "excluded"}

Decisions == {"pending", "approved", "returned"}

Gates == {"clear", "pending_review", "returned", "resolved_by_supplemental"}

\* Alternative monitoring: not arranged, arranged, arranged with a review date.
Alternatives == {"none", "arranged", "scheduled"}

Inspection == [done : BOOLEAN, trusted : BOOLEAN, isolation : BOOLEAN,
               alternative : Alternatives]

Plan == [by : Actors, review : {"pending", "approved", "rejected"},
         reviewer : Actors \cup {Nobody}, corrections : {"none", "open", "completed"}]

\* answers: what a supplemental execution answers; for: the round it answers.
Execution == [operator : Actors, gate : Gates, deviations : Seq(Decisions),
              answers : {"plan", "verification", "deviation"}]

\* after and sensors are history: the executions and handovers before the
\* verification.
Verification == [window : Nat, qualified : BOOLEAN, after : Nat, sensors : Nat]

Hold == [open : Nat, overdue : BOOLEAN]

Last(s) == s[Len(s)]

\* The verdict on the current window fails it: only a supplemental execution,
\* or anything else that opens a window, gets past it.
WindowFailed == verified # <<>> /\ ~Last(verified).qualified /\ Last(verified).window = window

WindowQualified == verified # <<>> /\ Last(verified).qualified /\ Last(verified).window = window

Events ==
  {"incident.reported", "inspection.recorded", "inspection.hypothesis_validated",
   "sensor.handed_over", "plan.submitted", "plan.approved", "plan.rejected",
   "intervention.executed", "intervention.supplemented", "execution.deviation_reviewed",
   "recovery.observed", "recovery.verified", "reopen.held",
   "reopen.hold_requirement_resolved", "reopen.hold_renewed", "incident.sealed"}

Record(event) == audited' = audited \cup {event}

Init ==
  /\ status = "reported"
  /\ inspection = [done |-> FALSE, trusted |-> FALSE, isolation |-> FALSE,
                   alternative |-> "none"]
  /\ conclusion = [h \in Hypotheses |-> "pending"]
  /\ plans = <<>>
  /\ executions = <<>>
  /\ window = 1
  /\ observed = {}
  /\ verified = <<>>
  /\ sensor = FirstSensor
  /\ handovers = 0
  /\ holds = <<>>
  /\ audited = {"incident.reported"}

-----------------------------------------------------------------------------
(* Inspection.                                                             *)

AtMostOneSupported(c) ==
  \A h, g \in Hypotheses : c[h] = "supported" /\ c[g] = "supported" => h = g

\* first: does the first independent reading agree with the sensor; trusted
\* is decided by the median of all of them.  high: the reassessed risk is
\* high or critical.
RecordInspection(first, trusted, isolation, alternative, high, c) ==
  /\ status = "reported"
  /\ AtMostOneSupported(c)
  /\ first \/ isolation \/ alternative # "none"
  /\ high => isolation
  /\ inspection' = [done |-> TRUE, trusted |-> trusted, isolation |-> isolation,
                    alternative |-> alternative]
  /\ conclusion' = c
  /\ status' = "inspected"
  /\ Record("inspection.recorded")
  /\ UNCHANGED <<plans, executions, window, observed, verified, sensor, handovers, holds>>

\* A new conclusion on one hypothesis; two causes cannot both be supported.
ValidateHypothesis(h, c) ==
  /\ inspection.done /\ status # "sealed"
  /\ c = "supported" => \A g \in Hypotheses \ {h} : conclusion[g] # "supported"
  /\ conclusion' = [conclusion EXCEPT ![h] = c]
  /\ Record("inspection.hypothesis_validated")
  /\ UNCHANGED <<status, inspection, plans, executions, window, observed, verified,
                 sensor, handovers, holds>>

HandoverSensor_SameWindow(new) ==
  /\ inspection.done /\ ~inspection.trusted /\ status # "sealed"
  /\ new # sensor
  /\ handovers < MaxHandovers
  /\ sensor' = new
  /\ handovers' = handovers + 1
  /\ Record("sensor.handed_over")
  /\ UNCHANGED <<status, inspection, conclusion, plans, executions, window, observed,
                 verified, holds>>

\* The sensor found untrustworthy is replaced.  A window that already has
\* readings ends, so that no window mixes two sensors.
HandoverSensor(new) ==
  /\ inspection.done /\ ~inspection.trusted /\ status # "sealed"
  /\ new # sensor
  /\ handovers < MaxHandovers
  /\ sensor' = new
  /\ handovers' = handovers + 1
  /\ window' = IF \E o \in observed : o.window = window THEN window + 1 ELSE window
  /\ Record("sensor.handed_over")
  /\ UNCHANGED <<status, inspection, conclusion, plans, executions, observed, verified, holds>>

-----------------------------------------------------------------------------
(* Plan.                                                                   *)

CauseEvidence ==
  \/ \E h \in Hypotheses : conclusion[h] = "supported"
  \/ /\ \A h \in Hypotheses : conclusion[h] = "pending"
     /\ inspection.alternative = "scheduled"

PlanEvidence ==
  /\ CauseEvidence
  /\ inspection.trusted \/ handovers > 0
  /\ inspection.isolation

NewPlan(a) == [by |-> a, review |-> "pending", reviewer |-> Nobody, corrections |-> "none"]

SubmitPlan_WhilePending(a) ==
  /\ status \in {"inspected", "plan_submitted"}
  /\ PlanEvidence
  /\ Len(plans) < MaxPlans
  /\ plans' = IF plans = <<>> THEN <<NewPlan(a)>>
              ELSE Append([plans EXCEPT ![Len(plans)].corrections = "completed"], NewPlan(a))
  /\ status' = "plan_submitted"
  /\ Record("plan.submitted")
  /\ UNCHANGED <<inspection, conclusion, executions, window, observed, verified, sensor,
                 handovers, holds>>

\* The first version, or one that resolves every correction asked of the last.
SubmitPlan(a) ==
  /\ \/ status = "inspected"
     \/ status = "plan_submitted" /\ Last(plans).review = "rejected"
  /\ PlanEvidence
  /\ Len(plans) < MaxPlans
  /\ plans' = IF plans = <<>> THEN <<NewPlan(a)>>
              ELSE Append([plans EXCEPT ![Len(plans)].corrections = "completed"], NewPlan(a))
  /\ status' = "plan_submitted"
  /\ Record("plan.submitted")
  /\ UNCHANGED <<inspection, conclusion, executions, window, observed, verified, sensor,
                 handovers, holds>>

\* The review does not look at the version's own ReviewStatus.
ReviewPlan(a, approve) ==
  /\ status = "plan_submitted"
  /\ plans # <<>> /\ Last(plans).by # a
  /\ IF approve
     THEN /\ plans' = [plans EXCEPT ![Len(plans)].review = "approved",
                                    ![Len(plans)].reviewer = a]
          /\ status' = "plan_approved"
          /\ Record("plan.approved")
     ELSE /\ plans' = [plans EXCEPT ![Len(plans)].review = "rejected",
                                    ![Len(plans)].reviewer = a,
                                    ![Len(plans)].corrections = "open"]
          /\ Len(plans) < MaxPlans
          /\ UNCHANGED status
          /\ Record("plan.rejected")
  /\ UNCHANGED <<inspection, conclusion, executions, window, observed, verified, sensor,
                 handovers, holds>>

-----------------------------------------------------------------------------
(* Execution and its deviations.                                           *)

deviationGate_FirstOnly(ds) ==
  IF ds = <<>> \/ ds[1] = "approved" THEN "clear"
  ELSE IF ds[1] = "returned" THEN "returned" ELSE "pending_review"

\* deviationGate: the first deviation neither approved nor accepted decides.
deviationGate(ds) ==
  LET unsettled == {d \in DOMAIN ds : ds[d] # "approved"}
  IN  IF unsettled = {} THEN "clear"
      ELSE IF \E d \in unsettled : ds[d] = "returned" /\ \A e \in unsettled : d <= e
      THEN "returned" ELSE "pending_review"

NewExecution(a, n, why) ==
  [operator |-> a, answers |-> why,
   deviations |-> [d \in 1..n |-> "pending"],
   gate |-> IF n = 0 THEN "clear" ELSE "pending_review"]

ExecutePlan_AsSupplement(a, n) ==
  /\ status = "plan_approved"
  /\ plans # <<>> /\ Last(plans).review = "approved"
  /\ Len(executions) < MaxExecutions
  /\ executions' = Append(executions, NewExecution(a, n, "plan"))
  /\ status' = "executed"
  /\ Record("intervention.supplemented")
  /\ UNCHANGED <<inspection, conclusion, plans, window, observed, verified, sensor,
                 handovers, holds>>

\* n deviations need review, drift of the calibration among them.
ExecutePlan(a, n) ==
  /\ status = "plan_approved"
  /\ plans # <<>> /\ Last(plans).review = "approved"
  /\ Len(executions) < MaxExecutions
  /\ executions' = Append(executions, NewExecution(a, n, "plan"))
  /\ status' = "executed"
  /\ Record("intervention.executed")
  /\ UNCHANGED <<inspection, conclusion, plans, window, observed, verified, sensor,
                 handovers, holds>>

\* Carried out again because the last verification failed: a new window.
SupplementVerification(a, n) ==
  /\ status = "observing"
  /\ verified # <<>> /\ ~Last(verified).qualified
  /\ plans # <<>> /\ Last(plans).review = "approved"
  /\ Len(executions) < MaxExecutions
  /\ executions' = Append(executions, NewExecution(a, n, "verification"))
  /\ window' = window + 1
  /\ status' = "executed"
  /\ Record("intervention.supplemented")
  /\ UNCHANGED <<inspection, conclusion, plans, observed, verified, sensor, handovers, holds>>

SupplementDeviation_GateKept(a, n) ==
  /\ status = "executed"
  /\ executions # <<>> /\ Last(executions).gate = "returned"
  /\ \E d \in DOMAIN Last(executions).deviations : Last(executions).deviations[d] = "returned"
  /\ plans # <<>> /\ Last(plans).review = "approved"
  /\ Len(executions) < MaxExecutions
  /\ executions' = Append(executions, NewExecution(a, n, "deviation"))
  /\ Record("intervention.supplemented")
  /\ UNCHANGED <<status, inspection, conclusion, plans, window, observed, verified, sensor,
                 handovers, holds>>

\* Carried out again because a deviation of the last execution was returned:
\* that execution's gate is resolved.
SupplementDeviation(a, n) ==
  /\ status = "executed"
  /\ executions # <<>> /\ Last(executions).gate = "returned"
  /\ \E d \in DOMAIN Last(executions).deviations : Last(executions).deviations[d] = "returned"
  /\ plans # <<>> /\ Last(plans).review = "approved"
  /\ Len(executions) < MaxExecutions
  /\ executions' = Append([executions EXCEPT ![Len(executions)].gate = "resolved_by_supplemental"],
                          NewExecution(a, n, "deviation"))
  /\ Record("intervention.supplemented")
  /\ UNCHANGED <<status, inspection, conclusion, plans, window, observed, verified, sensor,
                 handovers, holds>>

\* A pending deviation of any execution, in any status short of sealed.
ReviewDeviation(a, x, d, decision) ==
  /\ status # "sealed"
  /\ executions[x].operator # a
  /\ executions[x].deviations[d] = "pending"
  /\ decision = "returned" => Len(executions) < MaxExecutions
  /\ LET ds == [executions[x].deviations EXCEPT ![d] = decision]
     IN  executions' = [executions EXCEPT ![x].deviations = ds, ![x].gate = deviationGate(ds)]
  /\ Record("execution.deviation_reviewed")
  /\ UNCHANGED <<status, inspection, conclusion, plans, window, observed, verified, sensor,
                 handovers, holds>>

-----------------------------------------------------------------------------
(* Observation and verification.                                           *)

ObservationAllowed_AnyGate ==
  /\ status \in {"executed", "observing", "recovery_passed"}
  /\ executions # <<>> /\ plans # <<>>
  /\ ~WindowFailed

ObservationAllowed_AfterFailure ==
  /\ status \in {"executed", "observing", "recovery_passed"}
  /\ executions # <<>> /\ plans # <<>>
  /\ Last(executions).gate = "clear"

ObservationAllowed ==
  /\ status \in {"executed", "observing", "recovery_passed"}
  /\ executions # <<>> /\ plans # <<>>
  /\ Last(executions).gate = "clear"
  /\ ~WindowFailed

\* A batch of readings of the current sensor.  A sampling gap within it, or
\* before it when the window has readings, starts the next window.  (A batch
\* with several gaps leaves what several batches with one each leave.)
AddObservations(gap) ==
  /\ ObservationAllowed
  /\ gap = "before" => \E o \in observed : o.window = window
  /\ gap # "none" => window < MaxWindows
  /\ status = "recovery_passed" /\ WindowQualified => Len(verified) < MaxVerifications
  /\ window' = IF gap = "none" THEN window ELSE window + 1
  /\ observed' = observed
       \cup (IF gap = "before" THEN {} ELSE {[window |-> window, sensor |-> sensor]})
       \cup (IF gap = "none" THEN {} ELSE {[window |-> window + 1, sensor |-> sensor]})
  /\ status' = "observing"
  /\ Record("recovery.observed")
  /\ UNCHANGED <<inspection, conclusion, plans, executions, verified, sensor, handovers, holds>>

VerifyRecovery_Again(qualified) ==
  /\ status = "observing"
  /\ plans # <<>>
  /\ qualified => [window |-> window, sensor |-> sensor] \in observed
  /\ ~qualified => Len(verified) < MaxVerifications /\ Len(executions) < MaxExecutions
  /\ verified' = Append(verified, [window |-> window, qualified |-> qualified,
                                   after |-> Len(executions), sensors |-> handovers])
  /\ status' = IF qualified THEN "recovery_passed" ELSE status
  /\ Record("recovery.verified")
  /\ UNCHANGED <<inspection, conclusion, plans, executions, window, observed, sensor,
                 handovers, holds>>

\* Only eligible readings of the current window and sensor can qualify it.
VerifyRecovery(qualified) ==
  /\ status = "observing"
  /\ plans # <<>>
  /\ ~WindowFailed
  /\ qualified => [window |-> window, sensor |-> sensor] \in observed
  /\ ~qualified => Len(verified) < MaxVerifications /\ Len(executions) < MaxExecutions
  /\ verified' = Append(verified, [window |-> window, qualified |-> qualified,
                                   after |-> Len(executions), sensors |-> handovers])
  /\ status' = IF qualified THEN "recovery_passed" ELSE status
  /\ Record("recovery.verified")
  /\ UNCHANGED <<inspection, conclusion, plans, executions, window, observed, sensor,
                 handovers, holds>>

-----------------------------------------------------------------------------
(* Holds and sealing.                                                      *)

PlaceReopenHold(n) ==
  /\ status = "recovery_passed"
  /\ verified # <<>> /\ Last(verified).qualified
  /\ Len(holds) < MaxHolds
  /\ holds' = Append(holds, [open |-> n, overdue |-> FALSE])
  /\ Record("reopen.held")
  /\ UNCHANGED <<status, inspection, conclusion, plans, executions, window, observed,
                 verified, sensor, handovers>>

ResolveHoldRequirement_Again(h) ==
  /\ status # "sealed"
  /\ holds[h].open >= 0
  /\ holds' = [holds EXCEPT ![h].open = @ - 1]
  /\ Record("reopen.hold_requirement_resolved")
  /\ UNCHANGED <<status, inspection, conclusion, plans, executions, window, observed,
                 verified, sensor, handovers>>

ResolveHoldRequirement(h) ==
  /\ status # "sealed"
  /\ holds[h].open > 0
  /\ holds' = [holds EXCEPT ![h].open = @ - 1]
  /\ Record("reopen.hold_requirement_resolved")
  /\ UNCHANGED <<status, inspection, conclusion, plans, executions, window, observed,
                 verified, sensor, handovers>>

RenewReopenHold(h) ==
  /\ status # "sealed"
  /\ holds' = [holds EXCEPT ![h].overdue = FALSE]
  /\ Record("reopen.hold_renewed")
  /\ UNCHANGED <<status, inspection, conclusion, plans, executions, window, observed,
                 verified, sensor, handovers>>

\* The clock passes a hold's review date.
HoldFallsDue(h) ==
  /\ status # "sealed"
  /\ ~holds[h].overdue
  /\ holds' = [holds EXCEPT ![h].overdue = TRUE]
  /\ UNCHANGED <<status, inspection, conclusion, plans, executions, window, observed,
                 verified, sensor, handovers, audited>>

DeviationsClear ==
  \A x \in DOMAIN executions : executions[x].gate \in {"clear", "resolved_by_supplemental"}

HoldsClear == \A h \in DOMAIN holds : holds[h].open = 0 /\ ~holds[h].overdue

Ready_AnyWindow ==
  /\ status = "recovery_passed"
  /\ inspection.done
  /\ plans # <<>> /\ Last(plans).review = "approved"
  /\ executions # <<>> /\ DeviationsClear
  /\ window > 0
  /\ verified # <<>> /\ Last(verified).qualified
  /\ HoldsClear

\* readinessFor, in the order of its gates.
Ready ==
  /\ status = "recovery_passed"
  /\ inspection.done
  /\ plans # <<>> /\ Last(plans).review = "approved"
  /\ executions # <<>> /\ DeviationsClear
  /\ window > 0
  /\ WindowQualified
  /\ HoldsClear

SignReopen ==
  /\ Ready
  /\ observed # {}
  /\ status' = "sealed"
  /\ Record("incident.sealed")
  /\ UNCHANGED <<inspection, conclusion, plans, executions, window, observed, verified,
                 sensor, handovers, holds>>

-----------------------------------------------------------------------------
Next ==
  \/ \E first, trusted, isolation, high \in BOOLEAN, alternative \in Alternatives,
        c \in [Hypotheses -> Conclusions] :
       RecordInspection(first, trusted, isolation, alternative, high, c)
  \/ \E h \in Hypotheses, c \in Conclusions : ValidateHypothesis(h, c)
  \/ \E new \in Sensors : HandoverSensor(new)
  \/ \E a \in Actors : SubmitPlan(a)
  \/ \E a \in Actors, approve \in BOOLEAN : ReviewPlan(a, approve)
  \/ \E a \in Actors, n \in 0..MaxDeviations : ExecutePlan(a, n)
  \/ \E a \in Actors, n \in 0..MaxDeviations : SupplementVerification(a, n)
  \/ \E a \in Actors, n \in 0..MaxDeviations : SupplementDeviation(a, n)
  \/ \E a \in Actors, x \in DOMAIN executions, decision \in {"approved", "returned"} :
       \E d \in DOMAIN executions[x].deviations : ReviewDeviation(a, x, d, decision)
  \/ \E gap \in {"none", "before", "within"} : AddObservations(gap)
  \/ \E qualified \in BOOLEAN : VerifyRecovery(qualified)
  \/ \E n \in 1..MaxRequirements : PlaceReopenHold(n)
  \/ \E h \in DOMAIN holds : ResolveHoldRequirement(h)
  \/ \E h \in DOMAIN holds : RenewReopenHold(h)
  \/ \E h \in DOMAIN holds : HoldFallsDue(h)
  \/ SignReopen

Spec == Init /\ [][Next]_vars

(* No code schedules people.  Diligence is the assumption under which the  *)
(* workflow must not be the obstacle: a step towards the seal that is      *)
(* allowed for good is at some time taken, and so are submission and the   *)
(* signature when they are allowed again and again (a revised conclusion   *)
(* or a hold falling due suspends them).  Nothing is assumed of rejections, *)
(* returns, failed rounds, holds or further observation.                   *)
Diligence ==
  /\ WF_vars(\E h \in Hypotheses : ValidateHypothesis(h, "supported"))
  /\ WF_vars(\E new \in Sensors : HandoverSensor(new))
  /\ SF_vars(\E a \in Actors : SubmitPlan(a))
  /\ WF_vars(\E a \in Actors : ReviewPlan(a, TRUE))
  /\ WF_vars(\E a \in Actors, n \in 0..MaxDeviations : ExecutePlan(a, n))
  /\ WF_vars(\E a \in Actors, n \in 0..MaxDeviations : SupplementVerification(a, n))
  /\ WF_vars(\E a \in Actors, n \in 0..MaxDeviations : SupplementDeviation(a, n))
  /\ WF_vars(\E a \in Actors, x \in DOMAIN executions :
              \E d \in DOMAIN executions[x].deviations : ReviewDeviation(a, x, d, "approved"))
  /\ WF_vars(AddObservations("none"))
  /\ WF_vars(VerifyRecovery(TRUE))
  /\ WF_vars(\E h \in DOMAIN holds : ResolveHoldRequirement(h))
  /\ WF_vars(\E h \in DOMAIN holds : holds[h].overdue /\ RenewReopenHold(h))
  /\ SF_vars(SignReopen)

FairSpec == Spec /\ Diligence

-----------------------------------------------------------------------------
TypeOK ==
  /\ status \in Statuses
  /\ inspection \in Inspection
  /\ conclusion \in [Hypotheses -> Conclusions]
  /\ plans \in Seq(Plan)
  /\ executions \in Seq(Execution)
  /\ window \in Nat \ {0}
  /\ observed \subseteq [window : Nat, sensor : Sensors]
  /\ verified \in Seq(Verification)
  /\ sensor \in Sensors
  /\ handovers \in Nat
  /\ holds \in Seq(Hold)
  /\ audited \subseteq Events

-----------------------------------------------------------------------------
(* What must hold.                                                         *)

\* A qualified verdict that counts (one on the current window, the only one
\* SignReopen accepts) is newer than every execution and every change of
\* sensor: nothing was done to the case since the evidence was collected.
EvidenceFresh ==
  WindowQualified => /\ Last(verified).after = Len(executions)
                     /\ Last(verified).sensors = handovers

\* Observation never runs beside an undecided execution: from the first
\* recovery reading to the seal, every deviation of the execution in force
\* is approved and its gate is clear.
LatestExecutionCleared ==
  status \in {"observing", "recovery_passed", "sealed"} =>
    /\ executions # <<>> /\ Last(executions).gate = "clear"
    /\ \A d \in DOMAIN Last(executions).deviations :
         Last(executions).deviations[d] = "approved"

\* A sealed incident has no deviation that nobody answered: each was approved,
\* or the execution right after it was made because one of its deviations was
\* returned.  Deviations are reviewed in any order and status, also after the
\* supplement.
SealedDeviationsAnswered ==
  status = "sealed" =>
    \A x \in DOMAIN executions :
      LET ds == executions[x].deviations
      IN  \/ \A d \in DOMAIN ds : ds[d] = "approved"
          \/ /\ \E d \in DOMAIN ds : ds[d] = "returned"
             /\ x < Len(executions) /\ executions[x + 1].answers = "deviation"

\* A failed verdict is final for its window: a later round is always about a
\* later window, whatever happened between them.
FailedWindowFinal ==
  \A i, j \in DOMAIN verified :
    i < j /\ ~verified[i].qualified => verified[i].window < verified[j].window

\* Between a failed round and any later one the case was worked on: there is
\* a supplemental execution or another sensor.  (The messages of the service
\* promise the execution; a handover opens a new window as well.)
FailedRoundAnswered ==
  \A i, j \in DOMAIN verified : i < j /\ ~verified[i].qualified =>
    \/ verified[i].after < verified[j].after
    \/ verified[i].sensors < verified[j].sensors

\* The readings of a window come from one sensor, those of the current window
\* from the sensor in use.
WindowOneSensor ==
  /\ \A o, p \in observed : o.window = p.window => o.sensor = p.sensor
  /\ \A o \in observed : o.window <= window /\ (o.window = window => o.sensor = sensor)

\* Windows separate what must not be mixed, though executions, supplements
\* and handovers each open one on conditions of their own.
WindowsSound == FailedRoundAnswered /\ WindowOneSensor

\* The audit trail shows every stage the incident went through: the report
\* of auditEvidenceGaps, part of the sealed evidence, is always empty.
expectedAudits ==
  {"incident.reported"}
  \cup (IF inspection.done THEN {"inspection.recorded"} ELSE {})
  \cup (IF plans # <<>> /\ Last(plans).review = "approved" THEN {"plan.approved"} ELSE {})
  \cup (IF executions # <<>> THEN {"intervention.executed"} ELSE {})
  \cup (IF observed # {} THEN {"recovery.observed"} ELSE {})
  \cup (IF verified # <<>> THEN {"recovery.verified"} ELSE {})
  \cup (IF status = "sealed" THEN {"incident.sealed"} ELSE {})

AuditComplete == expectedAudits \subseteq audited

\* Once a plan is approved it stays the plan in force, and whatever the
\* incident went through it was approved by somebody else than its author;
\* every version before it was rejected and its corrections completed.
PlanHistorySound ==
  /\ \A v \in DOMAIN plans : v < Len(plans) =>
       plans[v].review = "rejected" /\ plans[v].corrections = "completed"
  /\ status \notin {"reported", "inspected", "plan_submitted"} =>
       /\ plans # <<>> /\ Last(plans).review = "approved"
       /\ Last(plans).reviewer \notin {Last(plans).by, Nobody}

\* The abstract lifecycle is implemented: the basis is the verdict on the
\* current window.
Basis == IF WindowQualified THEN "qualified" ELSE IF WindowFailed THEN "failed" ELSE "none"

Promised == INSTANCE Lifecycle WITH basis <- Basis

ImplementsLifecycle == Promised!Spec

\* A supplement answered the execution while another of its deviations was
\* pending, and the later review of that one, whatever it decided, has shut the
\* gate again: no command resolves it a second time.
ShutAgain ==
  \E x \in DOMAIN executions :
    /\ x < Len(executions) /\ executions[x + 1].answers = "deviation"
    /\ Len(executions[x].deviations) > 1 /\ executions[x].gate = "returned"

\* Staff who keep doing what is theirs to do (Diligence) bring every incident
\* with a recorded isolation measure to its seal, but for one dead end: a
\* deviation reviewed after the supplement that answered its execution.  From
\* there no command leads to the seal any more, though all deviations may be
\* closed; any other order of accepted commands leaves one that leads further.
IncidentsClose ==
  /\ inspection.isolation ~> (status = "sealed" \/ ShutAgain)
  /\ [](ShutAgain => [](status # "sealed"))

=============================================================================
