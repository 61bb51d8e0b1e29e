------------------------------ MODULE Execution -------------------------------
(***************************************************************************)
(* internal/case and internal/rules: what is recorded of an intervention:  *)
(* the steps carried out, the material batches used, the deviations from   *)
(* the plan and their review, and what the reports show of them.           *)
(*                                                                         *)
(* A batch means one thing everywhere, and RecordExecution looks for       *)
(* another meaning among all incidents (List) before the store's lock is   *)
(* taken; everything else it checks under the lock.  So a handler takes    *)
(* two steps here, and those of several requests interleave.  A request    *)
(* states the revision it expects; it is one the incident comes to have.   *)
(*                                                                         *)
(* All incidents have the same approved plan, of which is kept which steps *)
(* are critical to safety.  Of the numbers of a calibration, and of what   *)
(* the safety envelope makes of them, is kept whether they drift; a batch  *)
(* means its name and expiry date.  Who does what, the rounds of           *)
(* observation and the rest of the case are left to Workflow.              *)
(*                                                                         *)
(* An operator whose name ends in an underscored remark is not part of the *)
(* specification: it is the definition that follows it with one plausible  *)
(* slip, kept to check that the properties notice.                         *)
(***************************************************************************)
EXTENDS Integers, Sequences, FiniteSets, SequencesExt, Selections

CONSTANTS
  Handlers,       \* request handlers
  Incidents,      \* incident identifiers
  Batches,        \* batch numbers
  Meanings,       \* names and expiry dates of a batch
  Critical,       \* of each step of the plan, whether it is critical to safety
  Requests,       \* bound: what is sent
  MaxExecutions,  \* bound: executions in all
  None            \* "no request"

Types == {"material_substitution", "step_reorder", "parameter_deviation"}

Material == [batch : Batches, meaning : Meanings]

Request == [incident : Incidents, order : Seq(Nat), skipped : SUBSET Nat,
            materials : Seq(Material), deviations : Seq([type : Types, step : Nat]),
            drift : BOOLEAN]

ASSUME ExecutionAssumption ==
  /\ Critical \in Seq(BOOLEAN)
  /\ Requests \subseteq Request
  /\ \A r \in Requests : r.materials # <<>>
  /\ None \notin Requests
  /\ MaxExecutions \in Nat

VARIABLES
  executions,  \* Executions of each incident
  status,      \* how far each incident is
  handler      \* what each handler works on, and how much of each incident it saw

vars == <<executions, status, handler>>

Steps == DOMAIN Critical

Decisions == {"accepted", "pending", "approved", "returned"}

Deviation == [type : Types \cup {"calibration_drift"}, step : Nat, decision : Decisions]

Gates == {"clear", "pending_review", "returned", "resolved_by_supplemental"}

ExecutionRecord == [order : Seq(Nat), skipped : SUBSET Steps, materials : Seq(Material),
                    deviations : Seq(Deviation), drift : BOOLEAN, gate : Gates,
                    seen : [Incidents -> Nat]]

Idle == [request |-> None, seen |-> [i \in Incidents |-> 0]]

Init ==
  /\ executions = [i \in Incidents |-> <<>>]
  /\ status = [i \in Incidents |-> "plan_approved"]
  /\ handler = [h \in Handlers |-> Idle]

-----------------------------------------------------------------------------
(* The rules.                                                              *)

Conflict(m, n) == m.batch = n.batch /\ m.meaning # n.meaning

Compared_LatestOnly(i, ms) ==
  \A j \in Incidents \ {i} : executions[j] # <<>> =>
    \A m \in ToSet(Last(executions[j]).materials), n \in ToSet(ms) : ~Conflict(m, n)

\* Other incidents only: within one no batch is used twice.
Compared(i, ms) ==
  \A j \in Incidents \ {i} : \A e \in ToSet(executions[j]) :
    \A m \in ToSet(e.materials), n \in ToSet(ms) : ~Conflict(m, n)

Reordered(r) == \E d \in ToSet(r.deviations) : d.type = "step_reorder"

StepsJudged_AlwaysSorted(r) == InOrder(r.order)

\* A declared change of order, of whatever steps, puts them in order first.
StepsJudged(r) == IF Reordered(r) THEN InOrder(r.order) ELSE r.order

CheckExecution(r) ==
  LET order == StepsJudged(r)
  IN  /\ IsInjective(order)
      /\ Range(order) = Steps
      /\ \A n \in 2..Len(order) : order[n - 1] < order[n]
      /\ \A s \in r.skipped : ~Critical[s]
      /\ IsInjective([n \in DOMAIN r.materials |-> r.materials[n].batch])

ClassifyDeviation(d) ==
  IF d.step \notin Steps THEN "unknown_step"
  ELSE IF Critical[d.step] /\ d.type # "material_substitution" THEN "rejected"
  ELSE IF d.type = "step_reorder" THEN "record_only" ELSE "review_required"

CheckDeviations(r) ==
  /\ \A d \in ToSet(r.deviations) : ClassifyDeviation(d) \in {"record_only", "review_required"}
  /\ \A s \in r.skipped : \E d \in ToSet(r.deviations) : d.step = s

usedBatches(i) == UNION {{m.batch : m \in ToSet(e.materials)} : e \in ToSet(executions[i])}

deviationGate_AcceptedWaits(ds) ==
  IF \A n \in DOMAIN ds : ds[n].decision = "approved" THEN "clear" ELSE "pending_review"

\* The first deviation that is not settled decides.
deviationGate(ds) ==
  LET open == {n \in DOMAIN ds : ds[n].decision \in {"pending", "returned"}}
  IN  IF open = {} THEN "clear"
      ELSE IF ds[CHOOSE n \in open : \A m \in open : n <= m].decision = "returned"
           THEN "returned" ELSE "pending_review"

Recorded_DriftForgotten(r) ==
  [n \in DOMAIN r.deviations |->
     [type |-> r.deviations[n].type, step |-> r.deviations[n].step,
      decision |-> IF ClassifyDeviation(r.deviations[n]) = "review_required"
                   THEN "pending" ELSE "accepted"]]

\* The deviations of a request as they are stored, with one more for a drift.
Recorded(r) ==
  [n \in DOMAIN r.deviations |->
     [type |-> r.deviations[n].type, step |-> r.deviations[n].step,
      decision |-> IF ClassifyDeviation(r.deviations[n]) = "review_required"
                   THEN "pending" ELSE "accepted"]]
  \o IF r.drift THEN <<[type |-> "calibration_drift", step |-> 0, decision |-> "pending"]>>
                ELSE <<>>

-----------------------------------------------------------------------------
(* RecordExecution.                                                        *)

TotalExecutions == FoldSet(LAMBDA i, n : n + Len(executions[i]), 0, Incidents)

\* The batches are compared; a request that is refused leaves nothing behind.
CompareBatches(h, r) ==
  /\ handler[h] = Idle
  /\ Compared(r.incident, r.materials)
  /\ handler' = [handler EXCEPT ![h] =
       [request |-> r, seen |-> [i \in Incidents |-> Len(executions[i])]]]
  /\ UNCHANGED <<executions, status>>

\* The plan is approved, or a failed verification or a returned deviation of
\* the current execution asks for a supplement.
ExecutionDue(i) ==
  \/ status[i] \in {"plan_approved", "verification_failed"}
  \/ status[i] = "executed" /\ Last(executions[i]).gate = "returned"

Admitted(r) ==
  /\ ExecutionDue(r.incident)
  /\ CheckExecution(r)
  /\ CheckDeviations(r)
  /\ \A m \in ToSet(r.materials) : m.batch \notin usedBatches(r.incident)

\* A supplement that answers a returned deviation settles that execution.
Answered(es, i) ==
  IF status[i] = "executed"
  THEN [es EXCEPT ![Len(es)].gate = "resolved_by_supplemental"] ELSE es

RecordExecution(h) ==
  LET r  == handler[h].request
      ds == Recorded(r)
      e  == [order |-> r.order, skipped |-> r.skipped, materials |-> r.materials,
             deviations |-> ds, drift |-> r.drift, gate |-> deviationGate(ds),
             seen |-> handler[h].seen]
  IN  /\ r # None
      /\ TotalExecutions < MaxExecutions
      /\ Admitted(r)
      /\ executions' = [executions EXCEPT ![r.incident] = Append(Answered(@, r.incident), e)]
      /\ status' = [status EXCEPT ![r.incident] = "executed"]
      /\ handler' = [handler EXCEPT ![h] = Idle]

\* Refused under the lock, or for the revision it expects.
Refuse(h) ==
  /\ handler[h] # Idle
  /\ handler' = [handler EXCEPT ![h] = Idle]
  /\ UNCHANGED <<executions, status>>

-----------------------------------------------------------------------------
(* What happens to an execution afterwards.                                *)

\* In any status and for any execution, one answered by a supplement included.
ReviewDeviation(i, e, n, decision) ==
  LET ds == [executions[i][e].deviations EXCEPT ![n].decision = decision]
  IN  /\ executions[i][e].deviations[n].decision = "pending"
      /\ executions' = [executions EXCEPT ![i][e].deviations = ds, ![i][e].gate = deviationGate(ds)]
      /\ UNCHANGED <<status, handler>>

\* AddObservations refuses as long as the gate of the last execution is not clear.
ObservationAllowed(i) == status[i] = "executed" /\ Last(executions[i]).gate = "clear"

\* A round of observation whose verification fails.
FailVerification(i) ==
  /\ ObservationAllowed(i)
  /\ status' = [status EXCEPT ![i] = "verification_failed"]
  /\ UNCHANGED <<executions, handler>>

Next ==
  \/ \E h \in Handlers :
       \/ \E r \in Requests : CompareBatches(h, r)
       \/ RecordExecution(h)
       \/ Refuse(h)
  \/ \E i \in Incidents :
       \/ \E e \in DOMAIN executions[i] : \E n \in DOMAIN executions[i][e].deviations :
            \E decision \in {"approved", "returned"} : ReviewDeviation(i, e, n, decision)
       \/ FailVerification(i)

Spec == Init /\ [][Next]_vars

-----------------------------------------------------------------------------
(* The reports.                                                            *)

\* MaterialTracking: how often a batch was used, under whatever name.
UseCount(i, b) ==
  Cardinality({u \in UNION {{e} \X DOMAIN executions[i][e].materials : e \in DOMAIN executions[i]} :
                 executions[i][u[1]].materials[u[2]].batch = b})

\* ExecutionSummary over all executions: a deviation pending or returned, or
\* any step with a reason for a deviation, which each skipped step must have.
ObservationBlocked(i) ==
  \E e \in ToSet(executions[i]) :
    \/ e.skipped # {}
    \/ \E d \in ToSet(e.deviations) : d.decision \in {"pending", "returned"}

-----------------------------------------------------------------------------
\* Every variable keeps its type.
TypeOK ==
  /\ executions \in [Incidents -> Seq(ExecutionRecord)]
  /\ status \in [Incidents -> {"plan_approved", "executed", "verification_failed"}]
  /\ handler \in [Handlers -> [request : Requests \cup {None}, seen : [Incidents -> Nat]]]

-----------------------------------------------------------------------------
(* What must hold.                                                         *)

\* Over all executions and supplements of an incident a batch is used once,
\* so under one name: the duplicate use MaterialTracking looks for never occurs.
BatchUsedOnce == \A i \in Incidents, b \in Batches : UseCount(i, b) <= 1

\* Two incidents that give one batch two meanings were recorded by handlers
\* that overlapped, each having looked before the other recorded; requests
\* one after the other cannot do it, however many executions lie between.
ConflictNeedsRace ==
  \A i, j \in Incidents : i # j =>
    \A e \in DOMAIN executions[i], f \in DOMAIN executions[j] :
      (\E m \in ToSet(executions[i][e].materials), n \in ToSet(executions[j][f].materials) :
         Conflict(m, n))
      => executions[i][e].seen[j] < f /\ executions[j][f].seen[i] < e

\* Every batch can be traced to one use with one meaning, but for that race.
BatchesTraceable == TypeOK /\ BatchUsedOnce /\ ConflictNeedsRace

\* Where an execution departs from the plan, a deviation says so: steps out
\* of order have a reorder of a step that is not critical on record, skipped
\* ones are not critical and have one of their own.
DepartureOnRecord ==
  \A i \in Incidents : \A e \in ToSet(executions[i]) :
    /\ Range(e.order) = Steps /\ IsInjective(e.order)
    /\ (\E n \in 2..Len(e.order) : e.order[n] < e.order[n - 1]) =>
         \E d \in ToSet(e.deviations) : d.type = "step_reorder" /\ ~Critical[d.step]
    /\ \A s \in e.skipped : ~Critical[s] /\ \E d \in ToSet(e.deviations) : d.step = s

\* No one observes after an execution whose calibration drifted, or that
\* departed from the plan in more than the order of steps, unless all of it
\* was reviewed and approved, also after supplements and late reviews.
ReviewedBeforeObservation ==
  \A i \in Incidents : ObservationAllowed(i) =>
    LET e == Last(executions[i])
    IN  /\ e.drift => \E d \in ToSet(e.deviations) : d.type = "calibration_drift"
        /\ \A d \in ToSet(e.deviations) : d.type # "step_reorder" => d.decision = "approved"

\* Whenever observations are refused for the gate of the last execution, the
\* summary of executions says that observation is blocked.
BlockShown ==
  \A i \in Incidents :
    status[i] = "executed" /\ ~ObservationAllowed(i) => ObservationBlocked(i)

=============================================================================
