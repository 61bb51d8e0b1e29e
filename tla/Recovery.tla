------------------------------ MODULE Recovery ------------------------------
(***************************************************************************)
(* internal/case and internal/rules: the evidence of one recovery.         *)
(*                                                                         *)
(* Module Workflow says when a command may run; this module says what the  *)
(* readings of the recovery are made into: how a batch is cut into windows *)
(* and segments, what a formal verification rests on, and what the         *)
(* progress report shows meanwhile.  It begins when the intervention has   *)
(* been carried out.  Deviations, holds and the seal are left to Workflow. *)
(*                                                                         *)
(* Time is counted in sampling steps.  Readings may be reported late or    *)
(* ahead of the clock and an execution may be dated back, as the service   *)
(* allows, so instants are chosen freely.  A reading is good, a warning of *)
(* the sensor, or outside the target ranges.  It carries no sensor: those  *)
(* of the current window are of the current sensor (Workflow,              *)
(* WindowOneSensor).                                                       *)
(*                                                                         *)
(* An operator whose name ends in an underscored remark is not part of the *)
(* specification: it is the definition that follows it with one plausible  *)
(* slip, kept to check that the properties notice.                         *)
(***************************************************************************)
EXTENDS Integers, Sequences, FiniteSets, SequencesExt, Selections

CONSTANTS
  Horizon,         \* bound: the last sampling instant
  MinReadings,     \* PolicyFor: fewest readings of a stable period
  MinStable,       \* PolicyFor: its shortest duration
  MaxGap,          \* PolicyFor: the longest pause between two readings
  MaxBatch,        \* bound: readings of one request
  MaxExecutions,   \* bound: executions, the first included
  MaxHandovers     \* bound: sensor handovers

ASSUME RecoveryAssumption ==
  /\ {Horizon, MaxBatch, MaxExecutions, MaxHandovers} \subseteq Nat
  /\ {MinStable, MaxGap} \subseteq Nat \ {0}
  /\ MinReadings \in Nat /\ MinReadings >= 2

VARIABLES
  status,       \* executed, observing or recovery_passed
  executions,   \* number of executions
  executedAt,   \* ExecutedAt of the last of them
  handovers,    \* number of sensor handovers
  installedAt,  \* InstalledAt of the last of them, 0 before the first
  window,       \* CurrentObservationWindow
  readings,     \* the recovery readings, in the order they were stored
  verdict       \* Verification: the last verdict, of window 0 before the first

vars == <<status, executions, executedAt, handovers, installedAt, window, readings, verdict>>

-----------------------------------------------------------------------------
Times == 1..Horizon

Kinds == {"good", "warning", "outside"}

Sample == [at : Times, kind : Kinds]

Increasing(b) == \A i, j \in DOMAIN b : i < j => b[i].at < b[j].at

\* What one request may carry: instants in strictly increasing order.
Batches == {b \in UNION {[1..n -> Sample] : n \in 1..MaxBatch} : Increasing(b)}

Greatest(S) == CHOOSE x \in S : \A y \in S : y <= x

\* The readings of a window, and of the current one.
OfWindow(w) == Chosen(readings, {n \in DOMAIN readings : readings[n].window = w})

Current == OfWindow(window)

\* The last verdict fails the current window.
WindowFailed == verdict.window = window /\ ~verdict.qualified

WindowQualified == verdict.window = window /\ verdict.qualified

Init ==
  /\ status = "executed"
  /\ executions = 1
  /\ executedAt = 0
  /\ handovers = 0
  /\ installedAt = 0
  /\ window = 1
  /\ readings = <<>>
  /\ verdict = [window |-> 0, qualified |-> FALSE]

-----------------------------------------------------------------------------
(* Observation: how a batch is cut.                                        *)

Interrupted_WithinBatchOnly(b, i) ==
  i > 1 /\ b[i].at - b[i - 1].at > MaxGap

\* Sample i comes too long after the one before it, which is the last reading
\* of the current window for the first sample.
Interrupted(b, i) ==
  IF i > 1 THEN b[i].at - b[i - 1].at > MaxGap
  ELSE Current # <<>> /\ b[1].at - Last(Current).at > MaxGap

BaseSegment_Continued == Greatest({1} \cup {Current[n].segment : n \in DOMAIN Current})

\* The segment a batch continues.  A last reading outside the range ends it,
\* a warning does not.
BaseSegment ==
  LET segments == {1} \cup {Current[n].segment : n \in DOMAIN Current}
  IN  IF Current # <<>> /\ Last(Current).kind = "outside"
      THEN Greatest(segments) + 1 ELSE Greatest(segments)

\* Each interruption opens a window; each reading that is not good is the
\* last of its segment.  That a reading closes its batch is kept for the
\* properties only.
Placed(b) ==
  LET cuts(i) == {k \in 1..i : Interrupted(b, k)}
      bad(i, j) == Cardinality({k \in i..j : b[k].kind # "good"})
  IN  [i \in DOMAIN b |->
         [at |-> b[i].at, kind |-> b[i].kind, closes |-> i = Len(b),
          window |-> window + Cardinality(cuts(i)),
          segment |-> IF cuts(i) = {} THEN BaseSegment + bad(1, i - 1)
                      ELSE 1 + bad(Greatest(cuts(i)), i - 1)]]

\* Later than the last execution and the last installation, no instant read
\* before in any window, and in order.
BatchAllowed(b) ==
  /\ ~WindowFailed
  /\ \A i \in DOMAIN b : b[i].at > executedAt /\ b[i].at > installedAt
  /\ \A i \in DOMAIN b, n \in DOMAIN readings : b[i].at # readings[n].at
  /\ Current # <<>> => b[1].at > Last(Current).at

AddObservations(b) ==
  /\ status \in {"executed", "observing", "recovery_passed"}
  /\ BatchAllowed(b)
  /\ readings' = readings \o Placed(b)
  /\ window' = Last(Placed(b)).window
  /\ status' = "observing"
  /\ UNCHANGED <<executions, executedAt, handovers, installedAt, verdict>>

-----------------------------------------------------------------------------
(* Verification and progress.                                              *)

\* What a verification looks at: the good readings of the last segment.
Evidence ==
  LET segments == {0} \cup {Current[n].segment : n \in DOMAIN Current}
  IN  Chosen(Current, {n \in DOMAIN Current : /\ Current[n].kind = "good"
                                             /\ Current[n].segment = Greatest(segments)})

Span(s) == IF s = <<>> THEN 0 ELSE Last(s).at - s[1].at

EvaluateRecovery(e, minutes, count) ==
  /\ Len(e) >= count
  /\ \A n \in 2..Len(e) : e[n].at - e[n - 1].at \in 1..MaxGap
  /\ Span(e) >= minutes

\* minutes and count are what the engineer demands, no less than the policy.
VerifyRecovery(minutes, count) ==
  /\ status = "observing"
  /\ minutes >= MinStable /\ count >= MinReadings
  /\ ~WindowFailed
  /\ LET qualified == EvaluateRecovery(Evidence, minutes, count)
     IN  /\ verdict' = [window |-> window, qualified |-> qualified]
         /\ status' = IF qualified THEN "recovery_passed" ELSE status
  /\ UNCHANGED <<executions, executedAt, handovers, installedAt, window, readings>>

Extended_PastWarnings(segment, r) ==
  IF r.kind = "outside" THEN <<>>
  ELSE IF segment # <<>> /\ r.at - Last(segment).at > MaxGap THEN <<r>>
  ELSE Append(segment, r)

\* One reading later, the continuous period the progress report shows.
Extended(segment, r) ==
  IF r.kind # "good" THEN <<>>
  ELSE IF segment # <<>> /\ r.at - Last(segment).at > MaxGap THEN <<r>>
  ELSE Append(segment, r)

CalculateRecoveryProgress(rs) ==
  LET period[n \in 0..Len(rs)] == IF n = 0 THEN <<>> ELSE Extended(period[n - 1], rs[n])
  IN  period[Len(rs)]

\* Nothing remains: no minutes and no readings.
ProgressQualified(rs) ==
  LET segment == CalculateRecoveryProgress(rs)
  IN  Span(segment) >= MinStable /\ Len(segment) >= MinReadings

-----------------------------------------------------------------------------
(* What else ends a window.                                                *)

SupplementVerification_SameWindow(t) ==
  /\ status = "observing"
  /\ verdict.window > 0 /\ ~verdict.qualified
  /\ executions < MaxExecutions
  /\ executions' = executions + 1
  /\ executedAt' = t
  /\ status' = "executed"
  /\ UNCHANGED <<handovers, installedAt, window, readings, verdict>>

\* The execution that answers a failed verification, dated as reported.
SupplementVerification(t) ==
  /\ status = "observing"
  /\ verdict.window > 0 /\ ~verdict.qualified
  /\ executions < MaxExecutions
  /\ executions' = executions + 1
  /\ executedAt' = t
  /\ window' = window + 1
  /\ status' = "executed"
  /\ UNCHANGED <<handovers, installedAt, readings, verdict>>

\* The execution that answers a returned deviation: the window stays.
SupplementDeviation(t) ==
  /\ status = "executed"
  /\ executions < MaxExecutions
  /\ executions' = executions + 1
  /\ executedAt' = t
  /\ UNCHANGED <<status, handovers, installedAt, window, readings, verdict>>

HandoverSensor(t) ==
  /\ handovers < MaxHandovers
  /\ handovers' = handovers + 1
  /\ installedAt' = t
  /\ window' = IF Current # <<>> THEN window + 1 ELSE window
  /\ UNCHANGED <<status, executions, executedAt, readings, verdict>>

Next ==
  \/ \E b \in Batches : AddObservations(b)
  \/ \E minutes \in 1..(MinStable + 1), count \in 2..(MinReadings + 1) :
       VerifyRecovery(minutes, count)
  \/ \E t \in {0} \cup Times : SupplementVerification(t)
  \/ \E t \in {0} \cup Times : SupplementDeviation(t)
  \/ \E t \in Times : HandoverSensor(t)

Spec == Init /\ [][Next]_vars

-----------------------------------------------------------------------------
TypeOK ==
  /\ status \in {"executed", "observing", "recovery_passed"}
  /\ executions \in Nat /\ handovers \in Nat
  /\ executedAt \in Nat /\ installedAt \in Nat
  /\ window \in Nat \ {0}
  /\ readings \in Seq([at : Times, kind : Kinds, closes : BOOLEAN,
                      window : Nat \ {0}, segment : Nat \ {0}])
  /\ verdict \in [window : Nat, qualified : BOOLEAN]

-----------------------------------------------------------------------------
(* What must hold.                                                         *)

\* A window is a run of samples in time order with no pause above the
\* policy's, however it was reported; windows are numbered in the order they
\* were begun and none is reopened.
WindowUnbroken ==
  /\ \A m, n \in DOMAIN readings : m < n => readings[m].window <= readings[n].window
  /\ \A n \in DOMAIN readings : n > 1 /\ readings[n].window = readings[n - 1].window =>
       readings[n].at - readings[n - 1].at \in 1..MaxGap

\* No instant is read twice, not even by windows whose readings interleave
\* because the execution between them was dated back.
InstantsDistinct ==
  \A m, n \in DOMAIN readings : readings[m].at = readings[n].at => m = n

\* The readings of an incident, taken together: typed, in unbroken windows,
\* each instant once.
ReadingsSound == TypeOK /\ WindowUnbroken /\ InstantsDistinct

\* Every reading of the window being judged was taken after the last
\* execution and after the present sensor was installed: whatever changes
\* either ends the window or finds it empty.
EvidenceAfterIntervention ==
  \A n \in DOMAIN Current : Current[n].at > executedAt /\ Current[n].at > installedAt

\* A qualified verdict that counts rests on readings that meet the policy,
\* whatever the engineer demanded, and they are still there.
QualifiedMeetsPolicy ==
  WindowQualified /\ status = "recovery_passed" =>
    EvaluateRecovery(Evidence, MinStable, MinReadings)

\* In a window with good readings only, progress and formal verification
\* judge alike.
CleanWindowAgrees ==
  (\A n \in DOMAIN Current : Current[n].kind = "good") =>
    (ProgressQualified(Current) <=> EvaluateRecovery(Evidence, MinStable, MinReadings))

\* The period progress reports is exactly what follows the last interruption
\* of the window: good throughout and bordered by a bad reading or the start.
ProgressIsCleanSuffix ==
  LET segment == CalculateRecoveryProgress(Current)
      first == Len(Current) - Len(segment) + 1
  IN  /\ segment = SubSeq(Current, first, Len(Current))
      /\ \A n \in DOMAIN segment : segment[n].kind = "good"
      /\ first > 1 => Current[first - 1].kind # "good"

\* Progress tells the engineer what a verification would find.
ProgressSound == CleanWindowAgrees /\ ProgressIsCleanSuffix

\* However readings are spread over batches, none outside the range lies
\* within the evidence of a passed recovery, and a warning only where it was
\* the last reading of its batch: the next batch continues its segment.
InterruptionsCounted ==
  WindowQualified /\ status = "recovery_passed" =>
    \A n \in DOMAIN Current :
      Current[n].at \in Evidence[1].at..Last(Evidence).at =>
        Current[n].kind = "good" \/ (Current[n].kind = "warning" /\ Current[n].closes)

\* A passed recovery rests on enough readings and none of them interrupted it.
VerdictSound == QualifiedMeetsPolicy /\ InterruptionsCounted

=============================================================================
