--------------------------- MODULE WorkflowProofs ---------------------------
(***************************************************************************)
(* Theorems about Workflow, for every number of people, hypotheses,        *)
(* sensors, and every value of the bounds.                                 *)
(*                                                                         *)
(* First type correctness, the safety invariants on evidence and           *)
(* deviations, and the refinement of Lifecycle.  Then what the record of   *)
(* an incident says of how it came about: the plan carried out was         *)
(* approved by another than its author, a failed round was answered before *)
(* the next, no window mixes two sensors, the audit trail has every stage, *)
(* and a sealed incident has no deviation that nobody answered.            *)
(***************************************************************************)
EXTENDS Workflow, TLAPS

-----------------------------------------------------------------------------
(* Sequences that grow at their end.                                       *)

LEMMA AppendFacts ==
  ASSUME NEW S, NEW s \in Seq(S), NEW e \in S
  PROVE  /\ Append(s, e) \in Seq(S)
         /\ Append(s, e) # <<>>
         /\ Len(Append(s, e)) = Len(s) + 1
         /\ DOMAIN Append(s, e) = 1..Len(s) + 1
         /\ Last(Append(s, e)) = e
         /\ \A i \in DOMAIN s : Append(s, e)[i] = s[i]
  BY DEF Last

LEMMA LastFacts ==
  ASSUME NEW S, NEW s \in Seq(S), s # <<>>
  PROVE  Len(s) \in DOMAIN s /\ Last(s) \in S /\ Len(s) \in Nat \ {0}
  BY DEF Last

\* Replacing one element.
LEMMA ReplaceFacts ==
  ASSUME NEW S, NEW s \in Seq(S), NEW i \in DOMAIN s, NEW e \in S
  PROVE  /\ [s EXCEPT ![i] = e] \in Seq(S)
         /\ Len([s EXCEPT ![i] = e]) = Len(s)
         /\ DOMAIN [s EXCEPT ![i] = e] = DOMAIN s
         /\ [s EXCEPT ![i] = e][i] = e
         /\ \A j \in DOMAIN s : j # i => [s EXCEPT ![i] = e][j] = s[j]
  OBVIOUS

-----------------------------------------------------------------------------
(* Type correctness.                                                       *)

LEMMA NewExecutionType ==
  ASSUME NEW a \in Actors, NEW n \in 0..MaxDeviations,
         NEW why \in {"plan", "verification", "deviation"}
  PROVE  NewExecution(a, n, why) \in Execution
<1>1. MaxDeviations \in Nat
  BY WorkflowAssumption
<1>2. [d \in 1..n |-> "pending"] \in Seq(Decisions)
  BY <1>1 DEF Decisions
<1> QED
  BY <1>2 DEF NewExecution, Execution, Gates

LEMMA TypeInit == Init => TypeOK
  BY WorkflowAssumption
  DEF Init, TypeOK, Statuses, Inspection, Alternatives, Conclusions, Events

LEMMA TypeNext == TypeOK /\ [Next]_vars => TypeOK'
<1> SUFFICES ASSUME TypeOK, [Next]_vars PROVE TypeOK'
  OBVIOUS
<1> USE DEF Record
<1>1. ASSUME NEW first \in BOOLEAN, NEW trusted \in BOOLEAN, NEW isolation \in BOOLEAN,
             NEW high \in BOOLEAN, NEW alternative \in Alternatives,
             NEW c \in [Hypotheses -> Conclusions],
             RecordInspection(first, trusted, isolation, alternative, high, c)
      PROVE  TypeOK'
  BY <1>1 DEF TypeOK, RecordInspection, Inspection, Statuses, Events
<1>2. ASSUME NEW h \in Hypotheses, NEW c \in Conclusions, ValidateHypothesis(h, c)
      PROVE  TypeOK'
  BY <1>2 DEF TypeOK, ValidateHypothesis, Events
<1>3. ASSUME NEW new \in Sensors, HandoverSensor(new)
      PROVE  TypeOK'
  BY <1>3 DEF TypeOK, HandoverSensor, Events
<1>4. ASSUME NEW a \in Actors, SubmitPlan(a)
      PROVE  TypeOK'
  <2>1. NewPlan(a) \in Plan
    BY DEF NewPlan, Plan
  <2>2. CASE plans = <<>>
    BY <1>4, <2>1, <2>2 DEF TypeOK, SubmitPlan, Statuses, Events
  <2>3. CASE plans # <<>>
    <3>1. [plans EXCEPT ![Len(plans)].corrections = "completed"] \in Seq(Plan)
      <4> DEFINE p == [Last(plans) EXCEPT !.corrections = "completed"]
      <4>1. Len(plans) \in DOMAIN plans /\ Last(plans) \in Plan
        BY <2>3, LastFacts DEF TypeOK
      <4>2. p \in Plan
        BY <4>1 DEF Plan
      <4>3. [plans EXCEPT ![Len(plans)] = p] \in Seq(Plan)
        BY <4>1, <4>2, ReplaceFacts DEF TypeOK
      <4> QED
        BY <4>3 DEF Last
    <3>2. plans' \in Seq(Plan)
      BY <1>4, <2>1, <2>3, <3>1 DEF SubmitPlan
    <3> QED
      BY <1>4, <3>2 DEF TypeOK, SubmitPlan, Statuses, Events
  <2> QED
    BY <2>2, <2>3
<1>5. ASSUME NEW a \in Actors, NEW approve \in BOOLEAN, ReviewPlan(a, approve)
      PROVE  TypeOK'
  <2>1. Len(plans) \in DOMAIN plans /\ Last(plans) \in Plan
    BY <1>5, LastFacts DEF TypeOK, ReviewPlan
  <2>2. ASSUME approve PROVE plans' \in Seq(Plan)
    <3> DEFINE p == [Last(plans) EXCEPT !.review = "approved", !.reviewer = a]
    <3>1. p \in Plan
      BY <2>1 DEF Plan
    <3>2. plans' = [plans EXCEPT ![Len(plans)] = p]
      BY <1>5, <2>2 DEF ReviewPlan, Last
    <3> HIDE DEF p
    <3> QED
      BY <2>1, <3>1, <3>2, ReplaceFacts DEF TypeOK
  <2>3. ASSUME ~approve PROVE plans' \in Seq(Plan)
    <3> DEFINE p == [Last(plans) EXCEPT !.review = "rejected", !.reviewer = a,
                                        !.corrections = "open"]
    <3>1. p \in Plan
      BY <2>1 DEF Plan
    <3>2. plans' = [plans EXCEPT ![Len(plans)] = p]
      BY <1>5, <2>3 DEF ReviewPlan, Last
    <3> HIDE DEF p
    <3> QED
      BY <2>1, <3>1, <3>2, ReplaceFacts DEF TypeOK
  <2>4. plans' \in Seq(Plan)
    BY <2>2, <2>3
  <2> QED
    BY <1>5, <2>4 DEF TypeOK, ReviewPlan, Statuses, Events
<1>6. ASSUME NEW a \in Actors, NEW n \in 0..MaxDeviations, ExecutePlan(a, n)
      PROVE  TypeOK'
  <2>1. executions' \in Seq(Execution)
    BY <1>6, NewExecutionType DEF TypeOK, ExecutePlan
  <2> QED
    BY <1>6, <2>1 DEF TypeOK, ExecutePlan, Statuses, Events
<1>7. ASSUME NEW a \in Actors, NEW n \in 0..MaxDeviations, SupplementVerification(a, n)
      PROVE  TypeOK'
  <2>1. executions' \in Seq(Execution)
    BY <1>7, NewExecutionType DEF TypeOK, SupplementVerification
  <2> QED
    BY <1>7, <2>1 DEF TypeOK, SupplementVerification, Statuses, Events
<1>8. ASSUME NEW a \in Actors, NEW n \in 0..MaxDeviations, SupplementDeviation(a, n)
      PROVE  TypeOK'
  <2>1. [executions EXCEPT ![Len(executions)].gate = "resolved_by_supplemental"]
          \in Seq(Execution)
    <3> DEFINE e == [Last(executions) EXCEPT !.gate = "resolved_by_supplemental"]
    <3>1. Len(executions) \in DOMAIN executions /\ Last(executions) \in Execution
      BY <1>8, LastFacts DEF TypeOK, SupplementDeviation
    <3>2. e \in Execution
      BY <3>1 DEF Execution, Gates
    <3>3. [executions EXCEPT ![Len(executions)] = e] \in Seq(Execution)
      BY <3>1, <3>2, ReplaceFacts DEF TypeOK
    <3> QED
      BY <3>3 DEF Last
  <2>2. executions' \in Seq(Execution)
    BY <1>8, <2>1, NewExecutionType DEF SupplementDeviation
  <2> QED
    BY <1>8, <2>2 DEF TypeOK, SupplementDeviation, Events
<1>9. ASSUME NEW a \in Actors, NEW x \in DOMAIN executions,
             NEW decision \in {"approved", "returned"},
             NEW d \in DOMAIN executions[x].deviations,
             ReviewDeviation(a, x, d, decision)
      PROVE  TypeOK'
  <2>1. executions[x] \in Execution
    BY DEF TypeOK
  <2>2. [executions[x].deviations EXCEPT ![d] = decision] \in Seq(Decisions)
    BY <2>1 DEF Execution, Decisions
  <2>3. deviationGate([executions[x].deviations EXCEPT ![d] = decision]) \in Gates
    BY DEF deviationGate, Gates
  <2> DEFINE ds == [executions[x].deviations EXCEPT ![d] = decision]
             e  == [executions[x] EXCEPT !.deviations = ds, !.gate = deviationGate(ds)]
  <2>4. e \in Execution
    BY <2>1, <2>2, <2>3 DEF Execution
  <2>5. executions' = [executions EXCEPT ![x] = e]
    BY <1>9 DEF ReviewDeviation
  <2>6. executions' \in Seq(Execution)
    <3> HIDE DEF e
    <3> QED BY <2>4, <2>5, ReplaceFacts DEF TypeOK
  <2> QED
    BY <1>9, <2>6 DEF TypeOK, ReviewDeviation, Events
<1>10. ASSUME NEW gap \in {"none", "before", "within"}, AddObservations(gap)
       PROVE  TypeOK'
  BY <1>10 DEF TypeOK, AddObservations, Statuses, Events
<1>11. ASSUME NEW qualified \in BOOLEAN, VerifyRecovery(qualified)
       PROVE  TypeOK'
  <2>1. [window |-> window, qualified |-> qualified, after |-> Len(executions),
         sensors |-> handovers] \in Verification
    BY DEF TypeOK, Verification
  <2> QED
    BY <1>11, <2>1 DEF TypeOK, VerifyRecovery, Statuses, Events
<1>12. ASSUME NEW n \in 1..MaxRequirements, PlaceReopenHold(n)
       PROVE  TypeOK'
  <2>1. [open |-> n, overdue |-> FALSE] \in Hold
    BY WorkflowAssumption DEF Hold
  <2> QED
    BY <1>12, <2>1 DEF TypeOK, PlaceReopenHold, Events
<1>13. ASSUME NEW h \in DOMAIN holds, ResolveHoldRequirement(h)
       PROVE  TypeOK'
  <2>0. holds[h] \in Hold
    BY DEF TypeOK
  <2>1. [holds[h] EXCEPT !.open = holds[h].open - 1] \in Hold
    BY <1>13, <2>0 DEF ResolveHoldRequirement, Hold
  <2>2. holds' = [holds EXCEPT ![h] = [holds[h] EXCEPT !.open = holds[h].open - 1]]
    BY <1>13 DEF ResolveHoldRequirement
  <2>3. holds' \in Seq(Hold)
    BY <2>1, <2>2, ReplaceFacts DEF TypeOK
  <2> QED
    BY <1>13, <2>3 DEF TypeOK, ResolveHoldRequirement, Events
<1>14. ASSUME NEW h \in DOMAIN holds, RenewReopenHold(h)
       PROVE  TypeOK'
  <2>0. holds[h] \in Hold
    BY DEF TypeOK
  <2>1. [holds[h] EXCEPT !.overdue = FALSE] \in Hold
    BY <1>14, <2>0 DEF RenewReopenHold, Hold
  <2>2. holds' = [holds EXCEPT ![h] = [holds[h] EXCEPT !.overdue = FALSE]]
    BY <1>14 DEF RenewReopenHold
  <2>3. holds' \in Seq(Hold)
    BY <2>1, <2>2, ReplaceFacts DEF TypeOK
  <2> QED
    BY <1>14, <2>3 DEF TypeOK, RenewReopenHold, Events
<1>15. ASSUME NEW h \in DOMAIN holds, HoldFallsDue(h)
       PROVE  TypeOK'
  <2>0. holds[h] \in Hold
    BY DEF TypeOK
  <2>1. [holds[h] EXCEPT !.overdue = TRUE] \in Hold
    BY <1>15, <2>0 DEF HoldFallsDue, Hold
  <2>2. holds' = [holds EXCEPT ![h] = [holds[h] EXCEPT !.overdue = TRUE]]
    BY <1>15 DEF HoldFallsDue
  <2>3. holds' \in Seq(Hold)
    BY <2>1, <2>2, ReplaceFacts DEF TypeOK
  <2> QED
    BY <1>15, <2>3 DEF TypeOK, HoldFallsDue
<1>16. CASE SignReopen
  BY <1>16 DEF TypeOK, SignReopen, Statuses, Events
<1>17. CASE UNCHANGED vars
  BY <1>17 DEF TypeOK, vars
<1> QED
  BY <1>1, <1>2, <1>3, <1>4, <1>5, <1>6, <1>7, <1>8, <1>9, <1>10, <1>11, <1>12, <1>13,
     <1>14, <1>15, <1>16, <1>17 DEF Next

\* Every variable keeps its type whatever commands are given: the fields of
\* EnvironmentIncident the workflow reads and writes.
THEOREM TypeCorrect == Spec => []TypeOK
  BY TypeInit, TypeNext, PTL DEF Spec

-----------------------------------------------------------------------------
(* The inductive invariant.                                                *)
(*                                                                         *)
(* EvidenceFresh is not inductive: a handover in a window without readings *)
(* leaves the window as it is, so one must know that a qualified window    *)
(* has readings; an execution is only recorded where no qualified verdict  *)
(* is in force, which depends on the status; and a new window is only new  *)
(* if no verdict is ahead of it.                                           *)

\* No verdict, and no reading, is about a window yet to come.
VerdictsInPast ==
  /\ \A i \in DOMAIN verified : verified[i].window <= window
  /\ \A o \in observed : o.window <= window

QualifiedHasReadings == WindowQualified => \E o \in observed : o.window = window

\* Executions are recorded in these statuses only.
NoVerdictInForce ==
  /\ status = "plan_approved" => verified = <<>>
  /\ status \in {"reported", "inspected", "plan_submitted"} => verified = <<>>
  /\ status = "executed" => ~WindowQualified

EvidenceInv ==
  /\ TypeOK
  /\ VerdictsInPast
  /\ QualifiedHasReadings
  /\ NoVerdictInForce
  /\ EvidenceFresh
  /\ FailedWindowFinal

LEMMA EvidenceInit == Init => EvidenceInv
<1> SUFFICES ASSUME Init PROVE EvidenceInv
  OBVIOUS
<1>1. TypeOK
  BY TypeInit
<1> QED
  BY <1>1 DEF Init, EvidenceInv, VerdictsInPast, QualifiedHasReadings, NoVerdictInForce,
              EvidenceFresh, FailedWindowFinal, WindowQualified

LEMMA EvidenceNext == EvidenceInv /\ [Next]_vars => EvidenceInv'
<1> SUFFICES ASSUME EvidenceInv, [Next]_vars PROVE EvidenceInv'
  OBVIOUS
<1> USE DEF EvidenceInv
<1>0. TypeOK'
  BY TypeNext
<1>t. /\ window \in Nat /\ handovers \in Nat /\ verified \in Seq(Verification)
      /\ executions \in Seq(Execution) /\ observed \subseteq [window : Nat, sensor : Sensors]
  BY DEF TypeOK
<1>o. /\ \A i \in DOMAIN verified : verified[i].window \in Nat
      /\ \A o \in observed : o.window \in Nat
  <2>1. \A i \in DOMAIN verified : verified[i] \in Verification
    BY <1>t
  <2>2. \A o \in observed : o \in [window : Nat, sensor : Sensors]
    BY <1>t
  <2> QED
    BY <2>1, <2>2 DEF Verification
<1>v. verified # <<>> => /\ Last(verified) \in Verification
                         /\ Last(verified).window <= window
  BY <1>t, LastFacts DEF VerdictsInPast, Last
<1> DEFINE rest == VerdictsInPast' /\ QualifiedHasReadings' /\ NoVerdictInForce'
                   /\ EvidenceFresh' /\ FailedWindowFinal'
\* Commands that touch neither readings, verdicts, windows nor executions.
<1>a. ASSUME UNCHANGED <<executions, window, observed, verified, handovers>>,
             status' \in {status, "inspected", "plan_submitted", "plan_approved", "sealed"},
             status' \in {"inspected", "plan_submitted", "plan_approved"} =>
               status' = status \/ verified = <<>>
      PROVE  rest
  BY <1>a DEF VerdictsInPast, QualifiedHasReadings, NoVerdictInForce, EvidenceFresh,
              FailedWindowFinal, WindowQualified, Last
\* Commands that start a new window.
<1>n. ASSUME window' = window + 1, verified' = verified, observed' = observed,
             status' = status \/ status' = "executed"
      PROVE  rest
  <2>1. ~WindowQualified'
    BY <1>n, <1>t, <1>v DEF WindowQualified, Last, Verification
  <2>2. VerdictsInPast'
    BY <1>n, <1>t, <1>o DEF VerdictsInPast
  <2> QED
    BY <1>n, <2>1, <2>2 DEF QualifiedHasReadings, NoVerdictInForce, EvidenceFresh,
                            FailedWindowFinal
<1>1. ASSUME NEW first \in BOOLEAN, NEW trusted \in BOOLEAN, NEW isolation \in BOOLEAN,
             NEW high \in BOOLEAN, NEW alternative \in Alternatives,
             NEW c \in [Hypotheses -> Conclusions],
             RecordInspection(first, trusted, isolation, alternative, high, c)
      PROVE  rest
  BY <1>1, <1>a DEF RecordInspection, NoVerdictInForce
<1>2. ASSUME NEW h \in Hypotheses, NEW c \in Conclusions, ValidateHypothesis(h, c)
      PROVE  rest
  BY <1>2, <1>a DEF ValidateHypothesis
<1>3. ASSUME NEW new \in Sensors, HandoverSensor(new)
      PROVE  rest
  <2>1. CASE \E o \in observed : o.window = window
    BY <1>3, <1>n, <2>1 DEF HandoverSensor
  <2>2. CASE ~\E o \in observed : o.window = window
    <3>1. ~WindowQualified
      BY <2>2 DEF QualifiedHasReadings
    <3>2. UNCHANGED <<status, executions, window, observed, verified>>
      BY <1>3, <2>2 DEF HandoverSensor
    <3> QED
      BY <3>1, <3>2 DEF VerdictsInPast, QualifiedHasReadings, NoVerdictInForce, EvidenceFresh,
                        FailedWindowFinal, WindowQualified, Last
  <2> QED
    BY <2>1, <2>2
<1>4. ASSUME NEW a \in Actors, SubmitPlan(a)
      PROVE  rest
  BY <1>4, <1>a DEF SubmitPlan, NoVerdictInForce
<1>5. ASSUME NEW a \in Actors, NEW approve \in BOOLEAN, ReviewPlan(a, approve)
      PROVE  rest
  BY <1>5, <1>a DEF ReviewPlan, NoVerdictInForce
<1>6. ASSUME NEW a \in Actors, NEW n \in 0..MaxDeviations, ExecutePlan(a, n)
      PROVE  rest
  <2>1. verified' = <<>> /\ UNCHANGED <<window, observed, handovers>>
    BY <1>6 DEF ExecutePlan, NoVerdictInForce
  <2> QED
    BY <2>1, <1>t DEF VerdictsInPast, QualifiedHasReadings, NoVerdictInForce, EvidenceFresh,
                FailedWindowFinal, WindowQualified
<1>7. ASSUME NEW a \in Actors, NEW n \in 0..MaxDeviations, SupplementVerification(a, n)
      PROVE  rest
  BY <1>7, <1>n DEF SupplementVerification
<1>8. ASSUME NEW a \in Actors, NEW n \in 0..MaxDeviations, SupplementDeviation(a, n)
      PROVE  rest
  <2>1. ~WindowQualified /\ UNCHANGED <<status, window, observed, verified, handovers>>
    BY <1>8 DEF SupplementDeviation, NoVerdictInForce
  <2> QED
    BY <2>1 DEF VerdictsInPast, QualifiedHasReadings, NoVerdictInForce, EvidenceFresh,
                FailedWindowFinal, WindowQualified, Last
<1>9. ASSUME NEW a \in Actors, NEW x \in DOMAIN executions,
             NEW decision \in {"approved", "returned"},
             NEW d \in DOMAIN executions[x].deviations,
             ReviewDeviation(a, x, d, decision)
      PROVE  rest
  <2>1. UNCHANGED <<status, window, observed, verified, handovers>>
    BY <1>9 DEF ReviewDeviation
  <2>2. Len(executions') = Len(executions)
    BY <1>9, <1>t DEF ReviewDeviation
  <2> QED
    BY <2>1, <2>2 DEF VerdictsInPast, QualifiedHasReadings, NoVerdictInForce, EvidenceFresh,
                      FailedWindowFinal, WindowQualified, Last
<1>10. ASSUME NEW gap \in {"none", "before", "within"}, AddObservations(gap)
       PROVE  rest
  <2>1. /\ status' = "observing" /\ UNCHANGED <<executions, verified, handovers>>
        /\ window' \in {window, window + 1}
        /\ observed \subseteq observed' \/ window' = window + 1
        /\ observed' \subseteq observed \cup {[window |-> window, sensor |-> sensor],
                                            [window |-> window', sensor |-> sensor]}
    BY <1>10 DEF AddObservations
  <2>2. VerdictsInPast'
    <3>1. \A i \in DOMAIN verified' : verified'[i].window <= window'
      BY <2>1, <1>t, <1>o DEF VerdictsInPast
    <3>2. ASSUME NEW o \in observed' PROVE o.window <= window'
      <4>1. o \in observed \/ o.window \in {window, window'}
        BY <2>1
      <4> QED
        BY <4>1, <2>1, <1>t, <1>o DEF VerdictsInPast
    <3> QED
      BY <3>1, <3>2 DEF VerdictsInPast
  <2>3. CASE window' = window
    <3>1. observed \subseteq observed' /\ UNCHANGED <<window, verified>>
      BY <2>1, <2>3, <1>t
    <3> QED
      BY <2>1, <2>2, <3>1 DEF QualifiedHasReadings, NoVerdictInForce, EvidenceFresh,
                              FailedWindowFinal, WindowQualified, Last
  <2>4. CASE window' = window + 1
    <3>1. ~WindowQualified'
      BY <2>1, <2>4, <1>t, <1>v DEF WindowQualified, Last, Verification
    <3> QED
      BY <2>1, <2>2, <3>1 DEF QualifiedHasReadings, NoVerdictInForce, EvidenceFresh,
                              FailedWindowFinal
  <2> QED
    BY <2>1, <2>3, <2>4
<1>11. ASSUME NEW qualified \in BOOLEAN, VerifyRecovery(qualified)
       PROVE  rest
  <2> DEFINE v == [window |-> window, qualified |-> qualified, after |-> Len(executions),
                   sensors |-> handovers]
  <2>1. v \in Verification
    BY <1>t DEF Verification
  <2>2. /\ verified' = Append(verified, v)
        /\ UNCHANGED <<executions, window, observed, handovers>>
        /\ status' \in {"observing", "recovery_passed"}
        /\ qualified => \E o \in observed : o.window = window
        /\ ~WindowFailed
    BY <1>11 DEF VerifyRecovery
  <2>3. /\ verified' # <<>> /\ Last(verified') = v
        /\ DOMAIN verified' = 1..Len(verified) + 1
        /\ \A i \in DOMAIN verified : verified'[i] = verified[i]
        /\ verified'[Len(verified) + 1] = v
    BY <2>1, <2>2, <1>t, AppendFacts DEF Last
  <2>4. v.window = window /\ v.qualified = qualified /\ v.after = Len(executions)
        /\ v.sensors = handovers
    OBVIOUS
  <2> HIDE DEF v
  <2>5. VerdictsInPast'
    BY <2>2, <2>3, <2>4, <1>t DEF VerdictsInPast, Verification
  <2>6. QualifiedHasReadings' /\ NoVerdictInForce' /\ EvidenceFresh'
    BY <2>2, <2>3, <2>4 DEF QualifiedHasReadings, NoVerdictInForce, EvidenceFresh,
                            WindowQualified
  \* A failed window is behind the current one: the last verdict because it
  \* did not fail this window, an earlier one because the last came later.
  <2>7. \A i \in DOMAIN verified : ~verified[i].qualified => verified[i].window < window
    <3> SUFFICES ASSUME NEW i \in DOMAIN verified, ~verified[i].qualified
                 PROVE  verified[i].window < window
      OBVIOUS
    <3>1. verified # <<>> /\ Len(verified) \in DOMAIN verified /\ i \in 1..Len(verified)
      BY <1>t, LastFacts
    <3>0. verified[i].window \in Nat /\ Last(verified).window \in Nat
      BY <3>1, <1>o DEF Last
    <3>2. CASE i = Len(verified)
      BY <2>2, <3>1, <3>2, <3>0, <1>v, <1>t DEF WindowFailed, Last
    <3>3. CASE i < Len(verified)
      <4>1. verified[i].window < Last(verified).window
        BY <3>1, <3>3 DEF FailedWindowFinal, Last
      <4> QED
        BY <4>1, <3>1, <3>0, <1>v, <1>t
    <3> QED
      BY <3>1, <3>2, <3>3, <1>t
  <2>8. FailedWindowFinal'
    BY <2>3, <2>4, <2>7, <1>t DEF FailedWindowFinal
  <2> QED
    BY <2>5, <2>6, <2>8
<1>12. ASSUME NEW n \in 1..MaxRequirements, PlaceReopenHold(n)
       PROVE  rest
  BY <1>12, <1>a DEF PlaceReopenHold
<1>13. ASSUME NEW h \in DOMAIN holds, ResolveHoldRequirement(h)
       PROVE  rest
  BY <1>13, <1>a DEF ResolveHoldRequirement
<1>14. ASSUME NEW h \in DOMAIN holds, RenewReopenHold(h)
       PROVE  rest
  BY <1>14, <1>a DEF RenewReopenHold
<1>15. ASSUME NEW h \in DOMAIN holds, HoldFallsDue(h)
       PROVE  rest
  BY <1>15, <1>a DEF HoldFallsDue
<1>16. ASSUME SignReopen PROVE rest
  BY <1>16, <1>a DEF SignReopen
<1>17. ASSUME UNCHANGED vars PROVE rest
  BY <1>17, <1>a DEF vars
<1> QED
  BY <1>0, <1>1, <1>2, <1>3, <1>4, <1>5, <1>6, <1>7, <1>8, <1>9, <1>10, <1>11, <1>12,
     <1>13, <1>14, <1>15, <1>16, <1>17 DEF Next

LEMMA EvidenceInductive == Spec => []EvidenceInv
  BY EvidenceInit, EvidenceNext, PTL DEF Spec

\* The evidence an incident is sealed on is newer than every execution and
\* every change of sensor (the window check of readinessFor is enough).
THEOREM EvidenceIsFresh == Spec => []EvidenceFresh
  BY EvidenceInductive, PTL DEF EvidenceInv

\* A window that failed its verification is never judged again: every later
\* round is about a later window (VerifyRecovery, AddObservations).
THEOREM FailureIsFinal == Spec => []FailedWindowFinal
  BY EvidenceInductive, PTL DEF EvidenceInv

-----------------------------------------------------------------------------
(* Deviations.                                                             *)

\* A clear gate is earned: the gate is recomputed from the deviations by
\* every review, and only a supplement sets it to something else.
GateSound ==
  \A x \in DOMAIN executions :
    executions[x].gate = "clear" =>
      \A d \in DOMAIN executions[x].deviations : executions[x].deviations[d] = "approved"

DeviationInv == TypeOK /\ GateSound /\ LatestExecutionCleared

LEMMA NewExecutionGate ==
  ASSUME NEW a \in Actors, NEW n \in 0..MaxDeviations, NEW why,
         NewExecution(a, n, why).gate = "clear"
  PROVE  \A d \in DOMAIN NewExecution(a, n, why).deviations :
           NewExecution(a, n, why).deviations[d] = "approved"
<1>1. n = 0
  BY DEF NewExecution
<1> QED
  BY <1>1 DEF NewExecution

LEMMA DeviationInit == Init => DeviationInv
<1> SUFFICES ASSUME Init PROVE DeviationInv
  OBVIOUS
<1>1. TypeOK
  BY TypeInit
<1> QED
  BY <1>1 DEF Init, DeviationInv, GateSound, LatestExecutionCleared

LEMMA DeviationNext == DeviationInv /\ [Next]_vars => DeviationInv'
<1> SUFFICES ASSUME DeviationInv, [Next]_vars PROVE DeviationInv'
  OBVIOUS
<1> USE DEF DeviationInv
<1>0. TypeOK'
  BY TypeNext
<1>t. executions \in Seq(Execution)
  BY DEF TypeOK
<1> DEFINE rest == GateSound' /\ LatestExecutionCleared'
\* A command that leaves the executions alone and enters observation only
\* from observation.
<1>a. ASSUME UNCHANGED executions,
             status' \in {"observing", "recovery_passed", "sealed"} =>
               \/ status \in {"observing", "recovery_passed", "sealed"}
               \/ executions # <<>> /\ Last(executions).gate = "clear"
      PROVE  rest
  <2>1. executions # <<>> => Len(executions) \in DOMAIN executions
    BY <1>t, LastFacts
  <2> QED
    BY <1>a, <2>1 DEF GateSound, LatestExecutionCleared, Last
\* A command that appends an execution and is followed by status executed.
<1>e. ASSUME NEW a \in Actors, NEW n \in 0..MaxDeviations,
             NEW why \in {"plan", "verification", "deviation"},
             NEW old \in Seq(Execution),
             \A x \in DOMAIN old : old[x].gate = "clear" =>
               \A d \in DOMAIN old[x].deviations : old[x].deviations[d] = "approved",
             executions' = Append(old, NewExecution(a, n, why)),
             status' = "executed"
      PROVE  rest
  <2> DEFINE e == NewExecution(a, n, why)
  <2>1. e.gate = "clear" => \A d \in DOMAIN e.deviations : e.deviations[d] = "approved"
    BY NewExecutionGate
  <2>2. e \in Execution
    BY NewExecutionType
  <2> HIDE DEF e
  <2>3. /\ DOMAIN executions' = 1..Len(old) + 1
        /\ \A x \in DOMAIN old : executions'[x] = old[x]
        /\ executions'[Len(old) + 1] = e
    BY <1>e, <2>2, AppendFacts DEF e
  <2>4. GateSound'
    BY <1>e, <2>1, <2>3 DEF GateSound
  <2> QED
    BY <1>e, <2>4 DEF LatestExecutionCleared
<1>1. ASSUME NEW first \in BOOLEAN, NEW trusted \in BOOLEAN, NEW isolation \in BOOLEAN,
             NEW high \in BOOLEAN, NEW alternative \in Alternatives,
             NEW c \in [Hypotheses -> Conclusions],
             RecordInspection(first, trusted, isolation, alternative, high, c)
      PROVE  rest
  BY <1>1, <1>a DEF RecordInspection
<1>2. ASSUME NEW h \in Hypotheses, NEW c \in Conclusions, ValidateHypothesis(h, c)
      PROVE  rest
  BY <1>2, <1>a DEF ValidateHypothesis
<1>3. ASSUME NEW new \in Sensors, HandoverSensor(new)
      PROVE  rest
  BY <1>3, <1>a DEF HandoverSensor
<1>4. ASSUME NEW a \in Actors, SubmitPlan(a)
      PROVE  rest
  BY <1>4, <1>a DEF SubmitPlan
<1>5. ASSUME NEW a \in Actors, NEW approve \in BOOLEAN, ReviewPlan(a, approve)
      PROVE  rest
  BY <1>5, <1>a DEF ReviewPlan
<1>6. ASSUME NEW a \in Actors, NEW n \in 0..MaxDeviations, ExecutePlan(a, n)
      PROVE  rest
  BY <1>6, <1>e, <1>t DEF ExecutePlan, GateSound
<1>7. ASSUME NEW a \in Actors, NEW n \in 0..MaxDeviations, SupplementVerification(a, n)
      PROVE  rest
  BY <1>7, <1>e, <1>t DEF SupplementVerification, GateSound
<1>8. ASSUME NEW a \in Actors, NEW n \in 0..MaxDeviations, SupplementDeviation(a, n)
      PROVE  rest
  <2> DEFINE e   == [Last(executions) EXCEPT !.gate = "resolved_by_supplemental"]
             old == [executions EXCEPT ![Len(executions)] = e]
  <2>1. Len(executions) \in DOMAIN executions /\ Last(executions) \in Execution
    BY <1>8, <1>t, LastFacts DEF SupplementDeviation
  <2>2. e \in Execution /\ e.gate = "resolved_by_supplemental"
    BY <2>1 DEF Execution, Gates
  <2>3. /\ executions' = Append(old, NewExecution(a, n, "deviation"))
        /\ status' = "executed"
    BY <1>8 DEF SupplementDeviation, Last
  <2> HIDE DEF e
  <2>4. old \in Seq(Execution) /\ DOMAIN old = DOMAIN executions
        /\ old[Len(executions)] = e
        /\ \A x \in DOMAIN executions : x # Len(executions) => old[x] = executions[x]
    BY <2>1, <2>2, <1>t, ReplaceFacts
  <2> HIDE DEF old
  <2>5. \A x \in DOMAIN old : old[x].gate = "clear" =>
          \A d \in DOMAIN old[x].deviations : old[x].deviations[d] = "approved"
    BY <2>2, <2>4 DEF GateSound
  <2> QED
    BY <2>3, <2>4, <2>5, <1>e
<1>9. ASSUME NEW a \in Actors, NEW x \in DOMAIN executions,
             NEW decision \in {"approved", "returned"},
             NEW d \in DOMAIN executions[x].deviations,
             ReviewDeviation(a, x, d, decision)
      PROVE  rest
  <2> DEFINE ds == [executions[x].deviations EXCEPT ![d] = decision]
             e  == [executions[x] EXCEPT !.deviations = ds, !.gate = deviationGate(ds)]
  <2>1. executions[x] \in Execution
    BY <1>t
  <2>2. e.deviations = ds /\ e.gate = deviationGate(ds)
    BY <2>1 DEF Execution
  <2>3. e.gate = "clear" => \A c \in DOMAIN e.deviations : e.deviations[c] = "approved"
    BY <2>2 DEF deviationGate
  <2>4. executions' = [executions EXCEPT ![x] = e] /\ UNCHANGED status
        /\ executions[x].deviations[d] = "pending"
    BY <1>9 DEF ReviewDeviation
  <2> HIDE DEF e, ds
  <2>5. /\ DOMAIN executions' = DOMAIN executions /\ Len(executions') = Len(executions)
        /\ executions'[x] = e
        /\ \A y \in DOMAIN executions : y # x => executions'[y] = executions[y]
    BY <2>4, <1>t
  <2>6. GateSound'
    BY <2>3, <2>5 DEF GateSound
  \* In observation the last execution has no pending deviation to review.
  <2>7. LatestExecutionCleared'
    <3> SUFFICES ASSUME status \in {"observing", "recovery_passed", "sealed"}
                 PROVE  LatestExecutionCleared'
      BY <2>4 DEF LatestExecutionCleared
    <3>1. x # Len(executions)
      BY <2>4 DEF LatestExecutionCleared, Last
    <3>2. Last(executions') = Last(executions) /\ executions' # <<>>
      BY <3>1, <2>5, <1>t, LastFacts DEF LatestExecutionCleared, Last
    <3> QED
      BY <3>2, <2>4 DEF LatestExecutionCleared
  <2> QED
    BY <2>6, <2>7
<1>10. ASSUME NEW gap \in {"none", "before", "within"}, AddObservations(gap)
       PROVE  rest
  BY <1>10, <1>a DEF AddObservations, ObservationAllowed
<1>11. ASSUME NEW qualified \in BOOLEAN, VerifyRecovery(qualified)
       PROVE  rest
  BY <1>11, <1>a DEF VerifyRecovery
<1>12. ASSUME NEW n \in 1..MaxRequirements, PlaceReopenHold(n)
       PROVE  rest
  BY <1>12, <1>a DEF PlaceReopenHold
<1>13. ASSUME NEW h \in DOMAIN holds, ResolveHoldRequirement(h)
       PROVE  rest
  BY <1>13, <1>a DEF ResolveHoldRequirement
<1>14. ASSUME NEW h \in DOMAIN holds, RenewReopenHold(h)
       PROVE  rest
  BY <1>14, <1>a DEF RenewReopenHold
<1>15. ASSUME NEW h \in DOMAIN holds, HoldFallsDue(h)
       PROVE  rest
  BY <1>15, <1>a DEF HoldFallsDue
<1>16. ASSUME SignReopen PROVE rest
  BY <1>16, <1>a DEF SignReopen, Ready
<1>17. ASSUME UNCHANGED vars PROVE rest
  BY <1>17, <1>a DEF vars
<1> QED
  BY <1>0, <1>1, <1>2, <1>3, <1>4, <1>5, <1>6, <1>7, <1>8, <1>9, <1>10, <1>11, <1>12,
     <1>13, <1>14, <1>15, <1>16, <1>17 DEF Next

\* From the first recovery reading to the seal every deviation of the
\* execution in force is approved (RecordExecution, ReviewDeviation and the
\* gate check of AddObservations together).
THEOREM ExecutionInForceCleared == Spec => []LatestExecutionCleared
<1>1. DeviationInv => LatestExecutionCleared
  BY DEF DeviationInv
<1> QED
  BY <1>1, DeviationInit, DeviationNext, PTL DEF Spec

-----------------------------------------------------------------------------
(* Refinement.                                                             *)

LEMMA RefinesInit == Init => Promised!Init
  BY DEF Init, Promised!Init, Basis, WindowQualified, WindowFailed

LEMMA RefinesNext == EvidenceInv /\ [Next]_vars => [Promised!Next]_Promised!vars
<1> SUFFICES ASSUME EvidenceInv, [Next]_vars PROVE [Promised!Next]_Promised!vars
  OBVIOUS
<1> USE DEF Promised!Next, Promised!vars, Promised!Move
<1>t. /\ window \in Nat /\ verified \in Seq(Verification)
      /\ verified # <<>> => /\ Last(verified).window \in Nat
                            /\ Last(verified).window <= window
  <2>1. window \in Nat /\ verified \in Seq(Verification)
    BY DEF EvidenceInv, TypeOK
  <2>2. ASSUME verified # <<>>
        PROVE  Last(verified).window \in Nat /\ Last(verified).window <= window
    <3>1. Len(verified) \in DOMAIN verified /\ Last(verified) \in Verification
      BY <2>1, <2>2, LastFacts
    <3> QED
      BY <3>1 DEF Verification, EvidenceInv, VerdictsInPast, Last
  <2> QED
    BY <2>1, <2>2
<1>b. ASSUME UNCHANGED <<window, verified>> PROVE UNCHANGED Basis
  BY <1>b DEF Basis, WindowQualified, WindowFailed, Last
<1>n. ASSUME window' = window + 1, UNCHANGED verified PROVE Basis' = "none"
  BY <1>n, <1>t DEF Basis, WindowQualified, WindowFailed, Last
<1>1. ASSUME NEW first \in BOOLEAN, NEW trusted \in BOOLEAN, NEW isolation \in BOOLEAN,
             NEW high \in BOOLEAN, NEW alternative \in Alternatives,
             NEW c \in [Hypotheses -> Conclusions],
             RecordInspection(first, trusted, isolation, alternative, high, c)
      PROVE  Promised!Inspect
  BY <1>1, <1>b DEF RecordInspection, Promised!Inspect
<1>2. ASSUME NEW h \in Hypotheses, NEW c \in Conclusions, ValidateHypothesis(h, c)
      PROVE  UNCHANGED Promised!vars
  BY <1>2, <1>b DEF ValidateHypothesis
<1>3. ASSUME NEW new \in Sensors, HandoverSensor(new)
      PROVE  Promised!ReplaceSensor \/ UNCHANGED Promised!vars
  <2>1. CASE window' = window + 1
    <3>1. Basis' = "none" /\ UNCHANGED status /\ status # "sealed"
      BY <1>3, <2>1, <1>n DEF HandoverSensor
    <3>2. CASE status = "reported"
      BY <3>1, <3>2 DEF EvidenceInv, NoVerdictInForce, Basis, WindowQualified, WindowFailed
    <3>3. CASE status # "reported"
      BY <3>1, <3>3 DEF Promised!ReplaceSensor
    <3> QED
      BY <3>2, <3>3
  <2>2. CASE window' = window
    BY <1>3, <2>2, <1>b DEF HandoverSensor
  <2> QED
    BY <1>3, <2>1, <2>2 DEF HandoverSensor
<1>4. ASSUME NEW a \in Actors, SubmitPlan(a)
      PROVE  Promised!Submit
  BY <1>4, <1>b DEF SubmitPlan, Promised!Submit
<1>5. ASSUME NEW a \in Actors, NEW approve \in BOOLEAN, ReviewPlan(a, approve)
      PROVE  Promised!Approve \/ UNCHANGED Promised!vars
  BY <1>5, <1>b DEF ReviewPlan, Promised!Approve
<1>6. ASSUME NEW a \in Actors, NEW n \in 0..MaxDeviations, ExecutePlan(a, n)
      PROVE  Promised!Execute
  BY <1>6, <1>b DEF ExecutePlan, Promised!Execute
<1>7. ASSUME NEW a \in Actors, NEW n \in 0..MaxDeviations, SupplementVerification(a, n)
      PROVE  Promised!ExecuteAgain
  <2>1. Basis # "qualified"
    BY <1>7 DEF SupplementVerification, Basis, WindowQualified
  <2> QED
    BY <1>7, <2>1, <1>n DEF SupplementVerification, Promised!ExecuteAgain
<1>8. ASSUME NEW a \in Actors, NEW n \in 0..MaxDeviations, SupplementDeviation(a, n)
      PROVE  Promised!ExecuteAgain
  <2>1. Basis # "qualified"
    BY <1>8 DEF SupplementDeviation, EvidenceInv, NoVerdictInForce, Basis
  <2> QED
    BY <1>8, <2>1, <1>b DEF SupplementDeviation, Promised!ExecuteAgain
<1>9. ASSUME NEW a \in Actors, NEW x \in DOMAIN executions,
             NEW decision \in {"approved", "returned"},
             NEW d \in DOMAIN executions[x].deviations,
             ReviewDeviation(a, x, d, decision)
      PROVE  UNCHANGED Promised!vars
  BY <1>9, <1>b DEF ReviewDeviation
<1>10. ASSUME NEW gap \in {"none", "before", "within"}, AddObservations(gap)
       PROVE  Promised!Observe
  <2>1. Basis # "failed"
    BY <1>10 DEF AddObservations, ObservationAllowed, Basis
  <2>2. Basis' \in {Basis, "none"}
    BY <1>10, <1>b, <1>n DEF AddObservations
  <2> QED
    BY <1>10, <2>1, <2>2 DEF AddObservations, ObservationAllowed, Promised!Observe
<1>11. ASSUME NEW qualified \in BOOLEAN, VerifyRecovery(qualified)
       PROVE  Promised!Pass \/ Promised!Fail
  <2> DEFINE v == [window |-> window, qualified |-> qualified, after |-> Len(executions),
                   sensors |-> handovers]
  <2>1. v \in Verification
    BY DEF EvidenceInv, TypeOK, Verification
  <2>2. verified' # <<>> /\ Last(verified') = v
    BY <1>11, <1>t, <2>1, AppendFacts DEF VerifyRecovery
  <2>3. Basis' = IF qualified THEN "qualified" ELSE "failed"
    BY <1>11, <2>2 DEF VerifyRecovery, Basis, WindowQualified, WindowFailed
  <2>4. Basis # "failed"
    BY <1>11 DEF VerifyRecovery, Basis
  <2> QED
    BY <1>11, <2>3, <2>4 DEF VerifyRecovery, Promised!Pass, Promised!Fail
<1>12. ASSUME NEW n \in 1..MaxRequirements, PlaceReopenHold(n)
       PROVE  UNCHANGED Promised!vars
  BY <1>12, <1>b DEF PlaceReopenHold
<1>13. ASSUME NEW h \in DOMAIN holds, ResolveHoldRequirement(h)
       PROVE  UNCHANGED Promised!vars
  BY <1>13, <1>b DEF ResolveHoldRequirement
<1>14. ASSUME NEW h \in DOMAIN holds, RenewReopenHold(h)
       PROVE  UNCHANGED Promised!vars
  BY <1>14, <1>b DEF RenewReopenHold
<1>15. ASSUME NEW h \in DOMAIN holds, HoldFallsDue(h)
       PROVE  UNCHANGED Promised!vars
  BY <1>15, <1>b DEF HoldFallsDue
<1>16. ASSUME SignReopen PROVE Promised!Seal
  <2>1. Basis = "qualified"
    BY <1>16 DEF SignReopen, Ready, Basis
  <2> QED
    BY <1>16, <2>1, <1>b DEF SignReopen, Ready, Promised!Seal
<1>17. ASSUME UNCHANGED vars PROVE UNCHANGED Promised!vars
  BY <1>17, <1>b DEF vars
<1> HIDE DEF Promised!vars, Promised!Move
<1> QED
  BY <1>1, <1>2, <1>3, <1>4, <1>5, <1>6, <1>7, <1>8, <1>9, <1>10, <1>11, <1>12,
     <1>13, <1>14, <1>15, <1>16, <1>17 DEF Next

\* The workflow implements the abstract lifecycle: in particular it seals an
\* incident only on a qualified verdict on its current window, and leaves
\* the seal for nothing.
THEOREM WorkflowImplementsLifecycle == Spec => ImplementsLifecycle
<1>1. Spec => [][Promised!Next]_Promised!vars
  BY EvidenceInductive, RefinesNext, PTL DEF Spec
<1> QED
  BY <1>1, RefinesInit, PTL DEF Spec, ImplementsLifecycle, Promised!Spec

\* What the abstract lifecycle promises therefore holds of the workflow: a
\* sealed incident rests for ever on a qualified verification of the window
\* that was current when it was signed (readinessFor inside the signing
\* transaction, Update's refusal of everything after it).
THEOREM SealRestsOnVerdict == Spec => [](Promised!TypeOK /\ Promised!SealedOnQualified)
<1> DEFINE P == Promised!TypeOK /\ Promised!SealedOnQualified
<1>1. Promised!Init => P
  BY DEF Promised!Init, Promised!TypeOK, Promised!SealedOnQualified, Promised!Statuses,
         Promised!Verdicts
<1>2. P /\ [Promised!Next]_Promised!vars => P'
  BY DEF Promised!Next, Promised!vars, Promised!TypeOK, Promised!SealedOnQualified,
         Promised!Statuses, Promised!Verdicts, Promised!Move, Promised!Inspect,
         Promised!Submit, Promised!Approve, Promised!Execute, Promised!ExecuteAgain,
         Promised!Observe, Promised!Pass, Promised!Fail, Promised!ReplaceSensor,
         Promised!Seal
<1>3. Spec => Promised!Spec
  BY WorkflowImplementsLifecycle DEF ImplementsLifecycle
<1> QED
  BY <1>1, <1>2, <1>3, PTL DEF Promised!Spec

-----------------------------------------------------------------------------
(* The inductive invariant, beside EvidenceInv and DeviationInv.           *)

UnderPlan == status \notin {"reported", "inspected", "plan_submitted"}

\* Rejected versions stay behind; there is none before the first submission.
PlansSound ==
  /\ PlanHistorySound
  /\ status \in {"reported", "inspected"} => plans = <<>>

\* The case was worked on since a failed round, or the round is the last one
\* and its window still the current one, where VerifyRecovery refuses.
FailedRoundsStand ==
  \A i \in DOMAIN verified :
    /\ verified[i].after <= Len(executions) /\ verified[i].sensors <= handovers
    /\ \/ verified[i].qualified
       \/ verified[i].after < Len(executions)
       \/ verified[i].sensors < handovers
       \/ i = Len(verified) /\ verified[i].window = window

\* AuditComplete, stage by stage.
AuditShown ==
  /\ "incident.reported" \in audited
  /\ inspection.done => "inspection.recorded" \in audited
  /\ plans # <<>> /\ Last(plans).review = "approved" => "plan.approved" \in audited
  /\ executions # <<>> => "intervention.executed" \in audited
  /\ observed # {} => "recovery.observed" \in audited
  /\ verified # <<>> => "recovery.verified" \in audited
  /\ status = "sealed" => "incident.sealed" \in audited

\* Only a supplement for a returned deviation resolves a gate, and the
\* deviation stays returned.
ResolvedAnswered ==
  \A x \in DOMAIN executions : executions[x].gate = "resolved_by_supplemental" =>
    /\ \E d \in DOMAIN executions[x].deviations : executions[x].deviations[d] = "returned"
    /\ x < Len(executions) /\ executions[x + 1].answers = "deviation"

SealedClear == status = "sealed" => DeviationsClear

HistoryInv ==
  /\ PlansSound
  /\ WindowOneSensor
  /\ FailedRoundsStand /\ FailedRoundAnswered
  /\ AuditShown
  /\ ResolvedAnswered /\ SealedClear

LEMMA HistoryInit == Init => HistoryInv
  BY DEF Init, HistoryInv, PlansSound, PlanHistorySound, WindowOneSensor, FailedRoundsStand,
         FailedRoundAnswered, AuditShown, ResolvedAnswered, SealedClear

-----------------------------------------------------------------------------
(* What a command keeps by what it leaves alone.                           *)

LEMMA PlansKept ==
  ASSUME PlansSound, UNCHANGED plans,
         UnderPlan' => UnderPlan,
         status' \in {"reported", "inspected"} => status \in {"reported", "inspected"}
  PROVE  PlansSound'
  BY DEF PlansSound, PlanHistorySound, UnderPlan, Last

\* Executions may be added: what was done since a failed round only grows.
LEMMA RoundsKept ==
  ASSUME TypeOK, FailedRoundsStand, FailedRoundAnswered,
         UNCHANGED <<window, verified, handovers>>,
         Len(executions') \in Nat, Len(executions) <= Len(executions')
  PROVE  FailedRoundsStand' /\ FailedRoundAnswered'
<1>1. \A i \in DOMAIN verified : verified[i].after \in Nat
  <2>1. \A i \in DOMAIN verified : verified[i] \in Verification
    BY DEF TypeOK
  <2> QED
    BY <2>1 DEF Verification
<1>2. Len(executions) \in Nat
  BY DEF TypeOK
<1> QED
  BY <1>1, <1>2 DEF FailedRoundsStand, FailedRoundAnswered

LEMMA WindowKept ==
  ASSUME WindowOneSensor, UNCHANGED <<window, observed, sensor>>
  PROVE  WindowOneSensor'
  BY DEF WindowOneSensor

LEMMA AuditKept ==
  ASSUME AuditShown, audited \subseteq audited',
         inspection'.done = inspection.done \/ "inspection.recorded" \in audited',
         plans' = plans \/ Last(plans').review # "approved" \/ "plan.approved" \in audited',
         executions' = <<>> \/ executions # <<>> \/ "intervention.executed" \in audited',
         observed' = observed \/ "recovery.observed" \in audited',
         verified' = verified \/ "recovery.verified" \in audited',
         status' # "sealed" \/ "incident.sealed" \in audited'
  PROVE  AuditShown'
  BY DEF AuditShown, Last

LEMMA AnswersKept ==
  ASSUME ResolvedAnswered, SealedClear, UNCHANGED executions,
         status' = "sealed" => DeviationsClear
  PROVE  ResolvedAnswered' /\ SealedClear'
  BY DEF ResolvedAnswered, SealedClear, DeviationsClear

\* An execution that resolves nothing is added before the seal.
LEMMA AnswersGrow ==
  ASSUME TypeOK, ResolvedAnswered, status' # "sealed",
         NEW a \in Actors, NEW n \in 0..MaxDeviations,
         NEW why \in {"plan", "verification", "deviation"},
         executions' = Append(executions, NewExecution(a, n, why))
  PROVE  ResolvedAnswered' /\ SealedClear'
<1> DEFINE e == NewExecution(a, n, why)
<1>1. e \in Execution /\ e.gate # "resolved_by_supplemental"
  BY NewExecutionType DEF NewExecution
<1> HIDE DEF e
<1>2. /\ DOMAIN executions' = 1..Len(executions) + 1
      /\ Len(executions') = Len(executions) + 1
      /\ \A x \in DOMAIN executions : executions'[x] = executions[x]
      /\ executions'[Len(executions) + 1] = e
      /\ Len(executions) \in Nat /\ DOMAIN executions = 1..Len(executions)
  BY <1>1, AppendFacts DEF e, TypeOK
<1>3. ResolvedAnswered'
  <2> SUFFICES ASSUME NEW x \in DOMAIN executions',
                      executions'[x].gate = "resolved_by_supplemental"
               PROVE  /\ \E d \in DOMAIN executions'[x].deviations :
                           executions'[x].deviations[d] = "returned"
                      /\ x < Len(executions') /\ executions'[x + 1].answers = "deviation"
    BY DEF ResolvedAnswered
  <2>1. x \in DOMAIN executions /\ executions'[x] = executions[x]
    BY <1>1, <1>2
  <2>2. x < Len(executions) /\ x + 1 \in DOMAIN executions
    BY <2>1, <1>2 DEF ResolvedAnswered
  <2> QED
    BY <2>1, <2>2, <1>2 DEF ResolvedAnswered
<1> QED
  BY <1>3 DEF SealedClear

\* The same of a new window, beside which the work goes on: executions or
\* handovers were added, and no reading is about the new window yet.
LEMMA RoundsGrow ==
  ASSUME TypeOK, FailedRoundsStand, FailedRoundAnswered, UNCHANGED verified,
         Len(executions') \in Nat, handovers' \in Nat,
         Len(executions) <= Len(executions'), handovers <= handovers',
         Len(executions) < Len(executions') \/ handovers < handovers'
  PROVE  FailedRoundsStand' /\ FailedRoundAnswered'
<1>1. \A i \in DOMAIN verified : verified[i].after \in Nat /\ verified[i].sensors \in Nat
  <2>1. \A i \in DOMAIN verified : verified[i] \in Verification
    BY DEF TypeOK
  <2> QED
    BY <2>1 DEF Verification
<1>2. Len(executions) \in Nat /\ handovers \in Nat
  BY DEF TypeOK
<1> QED
  BY <1>1, <1>2 DEF FailedRoundsStand, FailedRoundAnswered

LEMMA WindowOpened ==
  ASSUME TypeOK, WindowOneSensor, UNCHANGED observed,
         window' \in Nat, \A o \in observed : o.window < window'
  PROVE  WindowOneSensor'
<1>1. \A o \in observed : o.window \in Nat
  BY DEF TypeOK
<1> QED
  BY <1>1 DEF WindowOneSensor

-----------------------------------------------------------------------------
(* The steps.                                                              *)

LEMMA HistoryNext ==
  ASSUME EvidenceInv, DeviationInv, HistoryInv, [Next]_vars
  PROVE  HistoryInv'
<1> USE DEF HistoryInv
<1>t. /\ TypeOK /\ TypeOK'
      /\ window \in Nat /\ handovers \in Nat
      /\ plans \in Seq(Plan) /\ executions \in Seq(Execution)
      /\ verified \in Seq(Verification) /\ observed \subseteq [window : Nat, sensor : Sensors]
      /\ Len(executions) \in Nat /\ Len(executions') \in Nat
  BY TypeNext DEF DeviationInv, TypeOK
<1>o. \A o \in observed : o.window \in Nat /\ o.window <= window
  BY <1>t DEF WindowOneSensor
<1> DEFINE rounds  == FailedRoundsStand' /\ FailedRoundAnswered'
           answers == ResolvedAnswered' /\ SealedClear'
           rest == PlansSound' /\ WindowOneSensor' /\ rounds /\ AuditShown' /\ answers
\* Commands beside the work: they leave plans, executions, windows, readings
\* and rounds alone.
<1>q. ASSUME UNCHANGED <<status, plans, executions, window, observed, verified, sensor,
                         handovers>>
      PROVE  PlansSound' /\ WindowOneSensor' /\ rounds /\ answers
  <2>1. PlansSound'
    BY <1>q, PlansKept DEF UnderPlan
  <2>2. rounds
    BY <1>q, <1>t, RoundsKept
  <2>3. WindowOneSensor'
    BY <1>q, WindowKept
  <2>4. answers
    BY <1>q, AnswersKept DEF SealedClear
  <2> QED
    BY <2>1, <2>2, <2>3, <2>4
<1>1. ASSUME NEW first \in BOOLEAN, NEW trusted \in BOOLEAN, NEW isolation \in BOOLEAN,
             NEW high \in BOOLEAN, NEW alternative \in Alternatives,
             NEW c \in [Hypotheses -> Conclusions],
             RecordInspection(first, trusted, isolation, alternative, high, c)
      PROVE  rest
  <2>0. /\ UNCHANGED <<plans, executions, window, observed, verified, sensor, handovers>>
        /\ status = "reported" /\ status' = "inspected"
        /\ audited' = audited \cup {"inspection.recorded"}
    BY <1>1 DEF RecordInspection, Record
  <2>1. PlansSound'
    BY <2>0, PlansKept DEF UnderPlan
  <2>2. rounds
    BY <2>0, <1>t, RoundsKept
  <2>3. WindowOneSensor'
    BY <2>0, WindowKept
  <2>4. answers
    BY <2>0, AnswersKept
  <2>5. AuditShown'
    BY <2>0, AuditKept
  <2> QED
    BY <2>1, <2>2, <2>3, <2>4, <2>5
<1>2. ASSUME NEW h \in Hypotheses, NEW c \in Conclusions, ValidateHypothesis(h, c)
      PROVE  rest
  <2>1. AuditShown'
    BY <1>2, AuditKept DEF ValidateHypothesis, Record
  <2> QED
    BY <1>2, <1>q, <2>1 DEF ValidateHypothesis
<1>3. ASSUME NEW new \in Sensors, HandoverSensor(new)
      PROVE  rest
  <2>0. /\ UNCHANGED <<status, inspection, plans, executions, observed, verified>>
        /\ handovers' = handovers + 1
        /\ audited \subseteq audited' /\ status # "sealed"
        /\ window' = IF \E o \in observed : o.window = window THEN window + 1 ELSE window
    BY <1>3 DEF HandoverSensor, Record
  <2>1. PlansSound'
    BY <2>0, PlansKept DEF UnderPlan
  <2>2. rounds
    BY <2>0, <1>t, RoundsGrow
  \* Either way no reading is about the window the new sensor starts with.
  <2>3. WindowOneSensor'
    <3>1. window' \in Nat /\ \A o \in observed : o.window < window'
      BY <2>0, <1>o, <1>t
    <3> QED
      BY <3>1, <2>0, <1>t, WindowOpened
  <2>4. answers
    BY <2>0, AnswersKept
  <2>5. AuditShown'
    BY <2>0, AuditKept
  <2> QED
    BY <2>1, <2>2, <2>3, <2>4, <2>5
<1>4. ASSUME NEW a \in Actors, SubmitPlan(a)
      PROVE  rest
  <2>0. /\ UNCHANGED <<inspection, executions, window, observed, verified, sensor, handovers>>
        /\ status' = "plan_submitted"
        /\ audited \subseteq audited'
        /\ \/ status = "inspected"
           \/ status = "plan_submitted" /\ Last(plans).review = "rejected"
    BY <1>4 DEF SubmitPlan, Record
  <2> DEFINE p == NewPlan(a)
  <2>p. p \in Plan /\ p.review = "pending"
    BY DEF NewPlan, Plan
  <2> HIDE DEF p
  <2>1. PlansSound' /\ Last(plans').review # "approved"
    <3>1. CASE plans = <<>>
      <4>1. plans' = <<p>>
        BY <1>4, <3>1 DEF SubmitPlan, p
      <4> QED
        BY <4>1, <2>0, <2>p DEF PlansSound, PlanHistorySound, Last
    <3>2. CASE plans # <<>>
      <4> DEFINE old == [plans EXCEPT ![Len(plans)] =
                          [plans[Len(plans)] EXCEPT !.corrections = "completed"]]
      <4>1. plans' = Append(old, p)
        BY <1>4, <3>2 DEF SubmitPlan, p
      <4>2. Len(plans) \in DOMAIN plans /\ plans[Len(plans)] \in Plan
        BY <3>2, <1>t, LastFacts
      <4>3. plans[Len(plans)].review = "rejected"
        BY <2>0, <3>2 DEF PlansSound, Last
      <4>4. [plans[Len(plans)] EXCEPT !.corrections = "completed"] \in Plan
        BY <4>2 DEF Plan
      <4>5. /\ old \in Seq(Plan) /\ Len(old) = Len(plans) /\ DOMAIN old = DOMAIN plans
            /\ old[Len(plans)].review = "rejected"
            /\ old[Len(plans)].corrections = "completed"
            /\ \A v \in DOMAIN plans : v # Len(plans) => old[v] = plans[v]
        BY <4>2, <4>3, <4>4, <1>t, ReplaceFacts DEF Plan
      <4> HIDE DEF old
      <4>6. /\ plans' # <<>> /\ Last(plans') = p
            /\ Len(plans') = Len(plans) + 1 /\ DOMAIN plans' = 1..Len(plans) + 1
            /\ \A v \in DOMAIN plans : plans'[v] = old[v]
            /\ Len(plans) \in Nat /\ DOMAIN plans = 1..Len(plans)
        BY <4>1, <4>5, <2>p, <1>t, AppendFacts
      <4>7. \A v \in DOMAIN plans' : v < Len(plans') =>
              plans'[v].review = "rejected" /\ plans'[v].corrections = "completed"
        BY <4>5, <4>6 DEF PlansSound, PlanHistorySound
      <4> QED
        BY <4>6, <4>7, <2>0, <2>p DEF PlansSound, PlanHistorySound
    <3> QED
      BY <3>1, <3>2
  <2>2. rounds
    BY <2>0, <1>t, RoundsKept
  <2>3. WindowOneSensor'
    BY <2>0, WindowKept
  <2>4. answers
    BY <2>0, AnswersKept
  <2>5. AuditShown'
    BY <2>0, <2>1, AuditKept
  <2> QED
    BY <2>1, <2>2, <2>3, <2>4, <2>5
<1>5. ASSUME NEW a \in Actors, NEW approve \in BOOLEAN, ReviewPlan(a, approve)
      PROVE  rest
  <2>0. /\ UNCHANGED <<inspection, executions, window, observed, verified, sensor, handovers>>
        /\ status = "plan_submitted" /\ status' \in {"plan_submitted", "plan_approved"}
        /\ audited \subseteq audited'
        /\ plans # <<>> /\ Last(plans).by # a
    BY <1>5 DEF ReviewPlan, Record
  <2> DEFINE p == IF approve
                  THEN [plans[Len(plans)] EXCEPT !.review = "approved", !.reviewer = a]
                  ELSE [plans[Len(plans)] EXCEPT !.review = "rejected", !.reviewer = a,
                                                 !.corrections = "open"]
  <2>1. Len(plans) \in DOMAIN plans /\ plans[Len(plans)] \in Plan
    BY <2>0, <1>t, LastFacts
  <2>2. /\ p \in Plan /\ p.by = plans[Len(plans)].by /\ p.reviewer = a
        /\ p.review = IF approve THEN "approved" ELSE "rejected"
    BY <2>1 DEF Plan
  <2>3. plans' = [plans EXCEPT ![Len(plans)] = p]
    BY <1>5 DEF ReviewPlan
  <2>4. /\ status' = IF approve THEN "plan_approved" ELSE "plan_submitted"
        /\ approve => "plan.approved" \in audited'
    BY <1>5 DEF ReviewPlan, Record
  <2> HIDE DEF p
  <2>5. /\ Len(plans') = Len(plans) /\ DOMAIN plans' = DOMAIN plans
        /\ Last(plans') = p /\ plans' # <<>>
        /\ \A v \in DOMAIN plans : v # Len(plans) => plans'[v] = plans[v]
    BY <2>1, <2>2, <2>3, <1>t, ReplaceFacts DEF Last
  <2>6. PlansSound'
    <3>1. \A v \in DOMAIN plans' : v < Len(plans') =>
            plans'[v].review = "rejected" /\ plans'[v].corrections = "completed"
      BY <2>5, <1>t DEF PlansSound, PlanHistorySound
    <3>2. p.reviewer \notin {p.by, Nobody}
      BY <2>0, <2>2, WorkflowAssumption DEF Last
    <3> QED
      BY <3>1, <3>2, <2>2, <2>4, <2>5 DEF PlansSound, PlanHistorySound
  <2>7. rounds
    BY <2>0, <1>t, RoundsKept
  <2>8. WindowOneSensor'
    BY <2>0, WindowKept
  <2>9. answers
    BY <2>0, AnswersKept
  <2>10. AuditShown'
    BY <2>0, <2>2, <2>4, <2>5, AuditKept
  <2> QED
    BY <2>6, <2>7, <2>8, <2>9, <2>10
<1>6. ASSUME NEW a \in Actors, NEW n \in 0..MaxDeviations, ExecutePlan(a, n)
      PROVE  rest
  <2>0. /\ UNCHANGED <<inspection, plans, window, observed, verified, sensor, handovers>>
        /\ executions' = Append(executions, NewExecution(a, n, "plan"))
        /\ status = "plan_approved" /\ status' = "executed"
        /\ audited' = audited \cup {"intervention.executed"}
    BY <1>6 DEF ExecutePlan, Record
  <2>1. PlansSound'
    BY <2>0, PlansKept DEF UnderPlan
  <2>2. Len(executions') = Len(executions) + 1
    BY <2>0, <1>t, NewExecutionType, AppendFacts
  <2>3. rounds
    BY <2>0, <2>2, <1>t, RoundsKept
  <2>4. WindowOneSensor'
    BY <2>0, WindowKept
  <2>5. answers
    BY <2>0, <1>t, AnswersGrow
  <2>6. AuditShown'
    BY <2>0, AuditKept
  <2> QED
    BY <2>1, <2>3, <2>4, <2>5, <2>6
<1>7. ASSUME NEW a \in Actors, NEW n \in 0..MaxDeviations, SupplementVerification(a, n)
      PROVE  rest
  <2>0. /\ UNCHANGED <<inspection, plans, observed, verified, sensor, handovers>>
        /\ executions' = Append(executions, NewExecution(a, n, "verification"))
        /\ window' = window + 1
        /\ status = "observing" /\ status' = "executed"
        /\ audited \subseteq audited'
    BY <1>7 DEF SupplementVerification, Record
  <2>1. PlansSound'
    BY <2>0, PlansKept DEF UnderPlan
  <2>2. Len(executions') = Len(executions) + 1
    BY <2>0, <1>t, NewExecutionType, AppendFacts
  <2>3. rounds
    BY <2>0, <2>2, <1>t, RoundsGrow
  <2>4. WindowOneSensor'
    <3>1. window' \in Nat /\ \A o \in observed : o.window < window'
      BY <2>0, <1>o, <1>t
    <3> QED
      BY <3>1, <2>0, <1>t, WindowOpened
  <2>5. answers
    BY <2>0, <1>t, AnswersGrow
  \* Under observation there is an execution to supplement, and it is shown.
  <2>6. AuditShown'
    <3>1. executions # <<>>
      BY <2>0 DEF DeviationInv, LatestExecutionCleared
    <3> QED
      BY <3>1, <2>0, AuditKept
  <2> QED
    BY <2>1, <2>3, <2>4, <2>5, <2>6
<1>8. ASSUME NEW a \in Actors, NEW n \in 0..MaxDeviations, SupplementDeviation(a, n)
      PROVE  rest
  <2> DEFINE e   == [executions[Len(executions)] EXCEPT !.gate = "resolved_by_supplemental"]
             old == [executions EXCEPT ![Len(executions)] = e]
             new == NewExecution(a, n, "deviation")
  <2>0. /\ UNCHANGED <<status, inspection, plans, window, observed, verified, sensor, handovers>>
        /\ executions # <<>> /\ status = "executed"
        /\ executions' = Append(old, new)
        /\ audited \subseteq audited'
        /\ \E d \in DOMAIN Last(executions).deviations :
             Last(executions).deviations[d] = "returned"
    BY <1>8 DEF SupplementDeviation, Record
  <2>1. Len(executions) \in DOMAIN executions /\ executions[Len(executions)] \in Execution
    BY <2>0, <1>t, LastFacts
  <2>2. /\ e \in Execution /\ e.gate = "resolved_by_supplemental"
        /\ e.deviations = executions[Len(executions)].deviations
        /\ e.answers = executions[Len(executions)].answers
    BY <2>1 DEF Execution, Gates
  <2>3. /\ new \in Execution /\ new.answers = "deviation"
        /\ new.gate # "resolved_by_supplemental"
    BY NewExecutionType DEF NewExecution
  <2> HIDE DEF e, new
  <2>4. /\ old \in Seq(Execution) /\ Len(old) = Len(executions)
        /\ DOMAIN old = DOMAIN executions /\ old[Len(executions)] = e
        /\ \A x \in DOMAIN executions : x # Len(executions) => old[x] = executions[x]
    BY <2>1, <2>2, <1>t, ReplaceFacts
  <2> HIDE DEF old
  <2>5. /\ Len(executions') = Len(executions) + 1
        /\ DOMAIN executions' = 1..Len(executions) + 1
        /\ DOMAIN executions = 1..Len(executions)
        /\ executions'[Len(executions) + 1] = new
        /\ executions'[Len(executions)] = e
        /\ \A x \in DOMAIN executions : x # Len(executions) => executions'[x] = executions[x]
    BY <2>0, <2>1, <2>3, <2>4, <1>t, AppendFacts
  <2>6. PlansSound'
    BY <2>0, PlansKept DEF UnderPlan
  <2>7. rounds
    <3>1. Len(executions') \in Nat /\ Len(executions) <= Len(executions')
      BY <2>5, <1>t
    <3> QED
      BY <3>1, <2>0, <1>t, RoundsKept
  <2>8. WindowOneSensor'
    BY <2>0, WindowKept
  <2>9. ResolvedAnswered'
    <3> SUFFICES ASSUME NEW x \in DOMAIN executions',
                        executions'[x].gate = "resolved_by_supplemental"
                 PROVE  /\ \E d \in DOMAIN executions'[x].deviations :
                             executions'[x].deviations[d] = "returned"
                        /\ x < Len(executions') /\ executions'[x + 1].answers = "deviation"
      BY DEF ResolvedAnswered
    <3>1. CASE x = Len(executions)
      <4>1. executions'[x] = e /\ executions'[x + 1] = new /\ x < Len(executions')
        BY <2>5, <3>1, <1>t
      <4>2. \E d \in DOMAIN e.deviations : e.deviations[d] = "returned"
        BY <2>0, <2>2 DEF Last
      <4> QED
        BY <4>1, <4>2, <2>3
    <3>2. CASE x # Len(executions)
      <4>1. x \in DOMAIN executions /\ executions'[x] = executions[x]
        BY <2>3, <2>5, <3>2, <1>t
      <4>2. /\ \E d \in DOMAIN executions[x].deviations : executions[x].deviations[d] = "returned"
            /\ x < Len(executions) /\ executions[x + 1].answers = "deviation"
        BY <4>1 DEF ResolvedAnswered
      <4>3. executions'[x + 1].answers = executions[x + 1].answers
        BY <4>1, <4>2, <2>2, <2>5, <1>t
      <4> QED
        BY <4>1, <4>2, <4>3, <2>5, <1>t
    <3> QED
      BY <3>1, <3>2
  <2>10. SealedClear'
    BY <2>0 DEF SealedClear
  <2>11. AuditShown'
    BY <2>0, AuditKept
  <2> QED
    BY <2>6, <2>7, <2>8, <2>9, <2>10, <2>11
<1>9. ASSUME NEW a \in Actors, NEW x \in DOMAIN executions,
             NEW decision \in {"approved", "returned"},
             NEW d \in DOMAIN executions[x].deviations,
             ReviewDeviation(a, x, d, decision)
      PROVE  rest
  <2> DEFINE ds == [executions[x].deviations EXCEPT ![d] = decision]
             e  == [executions[x] EXCEPT !.deviations = ds, !.gate = deviationGate(ds)]
  <2>0. /\ UNCHANGED <<status, inspection, plans, window, observed, verified, sensor, handovers>>
        /\ status # "sealed" /\ audited \subseteq audited'
        /\ executions[x].deviations[d] = "pending"
        /\ executions' = [executions EXCEPT ![x] = e]
    BY <1>9 DEF ReviewDeviation, Record
  <2>1. executions[x] \in Execution
    BY <1>t
  <2>2. /\ e.deviations = ds /\ e.gate = deviationGate(ds)
        /\ e.answers = executions[x].answers
    BY <2>1 DEF Execution
  <2>3. e.gate # "resolved_by_supplemental"
    BY <2>2 DEF deviationGate
  <2> HIDE DEF e, ds
  <2>4. /\ DOMAIN executions' = DOMAIN executions /\ Len(executions') = Len(executions)
        /\ executions'[x] = e
        /\ \A y \in DOMAIN executions : y # x => executions'[y] = executions[y]
        /\ DOMAIN executions = 1..Len(executions)
    BY <2>0, <1>t
  <2>5. \A y \in DOMAIN executions : executions'[y].answers = executions[y].answers
    BY <2>2, <2>4
  <2>6. ResolvedAnswered'
    <3> SUFFICES ASSUME NEW y \in DOMAIN executions,
                        executions'[y].gate = "resolved_by_supplemental"
                 PROVE  /\ \E c \in DOMAIN executions'[y].deviations :
                             executions'[y].deviations[c] = "returned"
                        /\ y < Len(executions) /\ executions'[y + 1].answers = "deviation"
      BY <2>4 DEF ResolvedAnswered
    <3>1. executions'[y] = executions[y]
      BY <2>3, <2>4
    <3>2. y < Len(executions) /\ executions[y + 1].answers = "deviation"
      BY <3>1 DEF ResolvedAnswered
    <3>3. y + 1 \in DOMAIN executions
      BY <3>2, <2>4, <1>t
    <3> QED
      BY <3>1, <3>2, <3>3, <2>5 DEF ResolvedAnswered
  <2>7. PlansSound'
    BY <2>0, PlansKept DEF UnderPlan
  <2>8. rounds
    BY <2>0, <2>4, <1>t, RoundsKept
  <2>9. WindowOneSensor'
    BY <2>0, WindowKept
  <2>10. SealedClear'
    BY <2>0 DEF SealedClear
  <2>11. AuditShown'
    <3>1. executions # <<>>
      BY <2>4, <1>t
    <3> QED
      BY <3>1, <2>0, AuditKept
  <2> QED
    BY <2>6, <2>7, <2>8, <2>9, <2>10, <2>11
<1>10. ASSUME NEW gap \in {"none", "before", "within"}, AddObservations(gap)
       PROVE  rest
  <2>0. /\ UNCHANGED <<inspection, plans, executions, verified, sensor, handovers>>
        /\ ObservationAllowed /\ status' = "observing"
        /\ window' \in {window, window + 1}
        /\ \A o \in observed' : \/ o \in observed
                                \/ o = [window |-> window, sensor |-> sensor]
                                \/ o = [window |-> window', sensor |-> sensor]
        /\ audited' = audited \cup {"recovery.observed"}
    BY <1>10 DEF AddObservations, Record
  <2>1. UnderPlan
    BY <2>0 DEF ObservationAllowed, UnderPlan
  <2>2. PlansSound'
    BY <2>0, <2>1, PlansKept
  \* A failed round on the current window keeps observation from going on.
  <2>3. rounds
    <3>1. ASSUME NEW i \in DOMAIN verified, ~verified[i].qualified
          PROVE  verified[i].after < Len(executions) \/ verified[i].sensors < handovers
      <4>1. ~(i = Len(verified) /\ verified[i].window = window)
        BY <2>0, <3>1, <1>t DEF ObservationAllowed, WindowFailed, Last
      <4> QED
        BY <3>1, <4>1 DEF FailedRoundsStand
    <3> QED
      BY <3>1, <2>0 DEF FailedRoundsStand, FailedRoundAnswered
  <2>4. WindowOneSensor'
    <3>1. ASSUME NEW o \in observed'
          PROVE  /\ o.window <= window' /\ o.window \in Nat
                 /\ o.window = window' => o.sensor = sensor
                 /\ o.window = window => o.sensor = sensor
                 /\ o \in observed \/ (o.sensor = sensor /\ o.window \in {window, window'})
      BY <2>0, <1>o, <1>t DEF WindowOneSensor
    <3>2. ASSUME NEW o \in observed', NEW p \in observed', o.window = p.window
          PROVE  o.sensor = p.sensor
      BY <2>0, <3>1, <3>2 DEF WindowOneSensor
    <3> QED
      BY <2>0, <3>1, <3>2 DEF WindowOneSensor
  <2>5. answers
    BY <2>0, AnswersKept
  <2>6. AuditShown'
    BY <2>0, AuditKept
  <2> QED
    BY <2>2, <2>3, <2>4, <2>5, <2>6
<1>11. ASSUME NEW qualified \in BOOLEAN, VerifyRecovery(qualified)
       PROVE  rest
  <2> DEFINE v == [window |-> window, qualified |-> qualified, after |-> Len(executions),
                   sensors |-> handovers]
  <2>0. /\ UNCHANGED <<inspection, plans, executions, window, observed, sensor, handovers>>
        /\ status = "observing" /\ status' \in {"observing", "recovery_passed"}
        /\ ~WindowFailed
        /\ verified' = Append(verified, v)
        /\ audited' = audited \cup {"recovery.verified"}
    BY <1>11 DEF VerifyRecovery, Record
  <2>1. v \in Verification
    BY <1>t DEF Verification
  <2>2. v.window = window /\ v.after = Len(executions) /\ v.sensors = handovers
    OBVIOUS
  <2> HIDE DEF v
  <2>3. /\ DOMAIN verified' = 1..Len(verified) + 1 /\ Len(verified') = Len(verified) + 1
        /\ \A i \in DOMAIN verified : verified'[i] = verified[i]
        /\ verified'[Len(verified) + 1] = v
        /\ Len(verified) \in Nat /\ DOMAIN verified = 1..Len(verified)
    BY <2>0, <2>1, <1>t, AppendFacts
  \* What was not done since a failed round lies on its window, and the
  \* command is refused there.
  <2>4. ASSUME NEW i \in DOMAIN verified, ~verified[i].qualified
        PROVE  verified[i].after < Len(executions) \/ verified[i].sensors < handovers
    <3>1. ~(i = Len(verified) /\ verified[i].window = window)
      BY <2>0, <2>4, <1>t DEF WindowFailed, Last
    <3> QED
      BY <2>4, <3>1 DEF FailedRoundsStand
  <2>5. FailedRoundsStand'
    <3> SUFFICES ASSUME NEW i \in DOMAIN verified'
                 PROVE  /\ verified'[i].after <= Len(executions)
                        /\ verified'[i].sensors <= handovers
                        /\ \/ verified'[i].qualified
                           \/ verified'[i].after < Len(executions)
                           \/ verified'[i].sensors < handovers
                           \/ i = Len(verified') /\ verified'[i].window = window
      BY <2>0 DEF FailedRoundsStand
    <3>1. CASE i \in DOMAIN verified
      BY <3>1, <2>3, <2>4 DEF FailedRoundsStand
    <3>2. CASE i = Len(verified) + 1
      BY <3>2, <2>2, <2>3, <1>t
    <3> QED
      BY <3>1, <3>2, <2>3
  <2>6. FailedRoundAnswered'
    <3> SUFFICES ASSUME NEW i \in DOMAIN verified', NEW j \in DOMAIN verified',
                        i < j, ~verified'[i].qualified
                 PROVE  \/ verified'[i].after < verified'[j].after
                        \/ verified'[i].sensors < verified'[j].sensors
      BY DEF FailedRoundAnswered
    <3>1. i \in DOMAIN verified /\ verified'[i] = verified[i]
      BY <2>3
    <3>2. CASE j \in DOMAIN verified
      BY <3>1, <3>2, <2>3 DEF FailedRoundAnswered
    <3>3. CASE j = Len(verified) + 1
      BY <3>1, <3>3, <2>2, <2>3, <2>4
    <3> QED
      BY <3>2, <3>3, <2>3
  <2>7. PlansSound'
    BY <2>0, PlansKept DEF UnderPlan
  <2>8. WindowOneSensor'
    BY <2>0, WindowKept
  <2>9. answers
    BY <2>0, AnswersKept
  <2>10. AuditShown'
    BY <2>0, AuditKept
  <2> QED
    BY <2>5, <2>6, <2>7, <2>8, <2>9, <2>10
<1>12. ASSUME NEW n \in 1..MaxRequirements, PlaceReopenHold(n)
       PROVE  rest
  <2>1. AuditShown'
    BY <1>12, AuditKept DEF PlaceReopenHold, Record
  <2> QED
    BY <1>12, <1>q, <2>1 DEF PlaceReopenHold
<1>13. ASSUME NEW h \in DOMAIN holds, ResolveHoldRequirement(h)
       PROVE  rest
  <2>1. AuditShown'
    BY <1>13, AuditKept DEF ResolveHoldRequirement, Record
  <2> QED
    BY <1>13, <1>q, <2>1 DEF ResolveHoldRequirement
<1>14. ASSUME NEW h \in DOMAIN holds, RenewReopenHold(h)
       PROVE  rest
  <2>1. AuditShown'
    BY <1>14, AuditKept DEF RenewReopenHold, Record
  <2> QED
    BY <1>14, <1>q, <2>1 DEF RenewReopenHold
<1>15. ASSUME NEW h \in DOMAIN holds, HoldFallsDue(h)
       PROVE  rest
  <2>1. AuditShown'
    BY <1>15, AuditKept DEF HoldFallsDue
  <2> QED
    BY <1>15, <1>q, <2>1 DEF HoldFallsDue
<1>16. ASSUME SignReopen PROVE rest
  <2>0. /\ UNCHANGED <<inspection, plans, executions, window, observed, verified, sensor,
                       handovers>>
        /\ status = "recovery_passed" /\ status' = "sealed" /\ DeviationsClear
        /\ audited' = audited \cup {"incident.sealed"}
    BY <1>16 DEF SignReopen, Ready, Record
  <2>1. PlansSound'
    BY <2>0, PlansKept DEF UnderPlan
  <2>2. rounds
    BY <2>0, <1>t, RoundsKept
  <2>3. WindowOneSensor'
    BY <2>0, WindowKept
  <2>4. answers
    BY <2>0, AnswersKept
  <2>5. AuditShown'
    BY <2>0, AuditKept
  <2> QED
    BY <2>1, <2>2, <2>3, <2>4, <2>5
<1>17. ASSUME UNCHANGED vars PROVE rest
  <2>1. AuditShown'
    BY <1>17 DEF vars, AuditShown
  <2> QED
    BY <1>17, <1>q, <2>1 DEF vars
<1> QED
  BY <1>1, <1>2, <1>3, <1>4, <1>5, <1>6, <1>7, <1>8, <1>9, <1>10, <1>11, <1>12,
     <1>13, <1>14, <1>15, <1>16, <1>17 DEF Next

LEMMA DeviationInductive == Spec => []DeviationInv
  BY DeviationInit, DeviationNext, PTL DEF Spec

LEMMA HistoryInductive == Spec => []HistoryInv
<1>1. EvidenceInv /\ DeviationInv /\ HistoryInv /\ [Next]_vars => HistoryInv'
  BY HistoryNext
<1> QED
  BY <1>1, HistoryInit, EvidenceInductive, DeviationInductive, PTL DEF Spec

-----------------------------------------------------------------------------
\* Whatever is carried out was approved by somebody else than its author, and
\* the versions before it were rejected and corrected (SubmitPlan and
\* ReviewPlan; no other command comes near the plan).
THEOREM PlansWereReviewed == Spec => []PlanHistorySound
<1>1. HistoryInv => PlanHistorySound
  BY DEF HistoryInv, PlansSound
<1> QED
  BY <1>1, HistoryInductive, PTL

\* Three commands open windows, each on conditions of its own: still no
\* window mixes two sensors, and no failed round is repeated before the case
\* was worked on.
THEOREM WindowsSeparate == Spec => []WindowsSound
<1>1. HistoryInv => WindowsSound
  BY DEF HistoryInv, WindowsSound
<1> QED
  BY <1>1, HistoryInductive, PTL

\* The gaps auditEvidenceGaps reports are none, in any order of commands.
THEOREM AuditHasNoGaps == Spec => []AuditComplete
<1>1. HistoryInv => AuditComplete
  BY DEF HistoryInv, AuditShown, AuditComplete, expectedAudits
<1> QED
  BY <1>1, HistoryInductive, PTL

\* A sealed incident has no deviation that nobody answered: a gate is clear
\* because its deviations are approved, or resolved because a supplement for
\* a returned one follows.
THEOREM SealAnswersDeviations == Spec => []SealedDeviationsAnswered
<1>1. HistoryInv /\ DeviationInv => SealedDeviationsAnswered
  <2> SUFFICES ASSUME HistoryInv, DeviationInv, status = "sealed",
                      NEW x \in DOMAIN executions
               PROVE  \/ \A d \in DOMAIN executions[x].deviations :
                           executions[x].deviations[d] = "approved"
                      \/ /\ \E d \in DOMAIN executions[x].deviations :
                              executions[x].deviations[d] = "returned"
                         /\ x < Len(executions) /\ executions[x + 1].answers = "deviation"
    BY DEF SealedDeviationsAnswered
  <2>1. executions[x].gate \in {"clear", "resolved_by_supplemental"}
    BY DEF HistoryInv, SealedClear, DeviationsClear
  <2> QED
    BY <2>1 DEF HistoryInv, DeviationInv, GateSound, ResolvedAnswered
<1> QED
  BY <1>1, HistoryInductive, DeviationInductive, PTL

=============================================================================
