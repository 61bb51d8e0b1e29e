------------------------------ MODULE Discovery -------------------------------
(***************************************************************************)
(* internal/case and internal/rules: one incident from its report to the   *)
(* inspection.  Its readings, the review of isolated spikes among them,    *)
(* and the risk and deadline that the evaluations leave behind.            *)
(*                                                                         *)
(* A reading is how far it lies outside the target range of one measure,   *)
(* in degrees, with the state of its sensor and the quality its sender     *)
(* stated: the other measure adds points in the same way.  The quality is  *)
(* free text in most places.  "warning" stands for warning and low, which  *)
(* the code treats alike, "Warning" and " warning" for the same in other   *)
(* letters and with blanks around it, "other" for any word the code does   *)
(* not know.                                                               *)
(*                                                                         *)
(* The sampling instants increase along the list (the commands see to it); *)
(* only the last of them is kept.  The trend of an evaluation, its texts   *)
(* and the reassessment task, which is created once and never completed,   *)
(* are left out.                                                           *)
(*                                                                         *)
(* The clock moves over a few instants, in half hours since the anomaly    *)
(* began.  A command decides with an instant its handler read earlier      *)
(* (now), before it waited for the store's lock.                           *)
(*                                                                         *)
(* An operator whose name ends in an underscored remark is not part of the *)
(* specification: it is the definition that follows it with one plausible  *)
(* slip, kept to check that the properties notice.                         *)
(***************************************************************************)
EXTENDS Integers, Sequences, FiniteSets, SequencesExt

CONSTANTS
  Samples,      \* bound: the readings people report
  Instants,     \* bound: the instants the clock shows
  Sensitivity,  \* sensitivity of the exhibit
  MaxBatch,     \* bound: readings of one request
  MaxReadings   \* bound: readings of the incident

Qualities == {"unstated", "ok", "warning", "Warning", " warning", "pending_review",
              "reviewed_included", "excluded", "other"}

Sample == [value : Int, sensor : {"ok", "warning"}, quality : Qualities]

ASSUME DiscoveryAssumption ==
  /\ Samples \subseteq Sample
  /\ Instants \subseteq Nat /\ 0 \in Instants
  /\ Sensitivity \in {"low", "medium", "high"}
  /\ {MaxBatch, MaxReadings} \subseteq Nat

VARIABLES
  clock,        \* half hours since abnormal_since
  status,       \* Status: unreported, reported or inspected
  readings,     \* the readings of phase detection, in time order
  latest,       \* when the last of them was taken
  level,        \* RiskLevel, by rank
  score,        \* RiskScore
  peak,         \* PeakReadingID, as the place of the reading
  deadline,     \* ResponseDeadline
  evaluations   \* RiskEvaluations

vars == <<clock, status, readings, latest, level, score, peak, deadline, evaluations>>

-----------------------------------------------------------------------------
Flags == {"ok", "warning", "pending_review", "reviewed_included", "excluded", "other"}

\* flag is QualityFlag; review is ReviewStatus, with the conclusion once there
\* is one.
Reading == [value : Int, sensor : {"ok", "warning"}, flag : Flags,
            review : {"none", "pending", "included", "excluded"}]

Evaluation == [at : Nat, level : 1..4, score : Nat, peak : Nat \ {0}, deadline : Nat]

Batches == UNION {[1..n -> Samples] : n \in 1..MaxBatch}

\* What may be stated for a whole report.
Defaults == {s.quality : s \in Samples} \cup {"unstated"}

Init ==
  /\ clock = 0
  /\ status = "unreported"
  /\ readings = <<>>
  /\ latest = 0
  /\ level = 1
  /\ score = 0
  /\ peak = 0
  /\ deadline = 0
  /\ evaluations = <<>>

-----------------------------------------------------------------------------
(* The risk rules.                                                         *)

Size(x) == IF x < 0 THEN -x ELSE x

severityPoints(deviation) ==
  IF deviation = 0 THEN 0 ELSE IF deviation >= 5 THEN 4 ELSE IF deviation >= 2 THEN 2 ELSE 1

DurationPoints(now) ==
  IF now >= 48 THEN 3 ELSE IF now >= 8 THEN 2 ELSE IF now >= 2 THEN 1 ELSE 0

SensitivityPoints ==
  CASE Sensitivity = "high" -> 3 [] Sensitivity = "medium" -> 1 [] Sensitivity = "low" -> 0

Score(value, now) == severityPoints(Size(value)) + DurationPoints(now) + SensitivityPoints

LevelOf(points) ==
  IF points >= 9 THEN 4 ELSE IF points >= 6 THEN 3 ELSE IF points >= 3 THEN 2 ELSE 1

\* 24 hours, 8 hours, 2 hours, half an hour.
ResponseWithin(l) == <<48, 16, 4, 1>>[l]

\* A reading as the rules see it: the quality is the text as stated when the
\* incident is reported, and the stored flag when readings are appended.
Seen(r, quality) == [value |-> r.value, sensor |-> r.sensor, quality |-> quality]

\* Further than 5 degrees from the mean of both neighbours.  The quality is
\* compared letter by letter.
DetectIsolatedSpikes(rs) ==
  {n \in DOMAIN rs :
    /\ n > 1 /\ n < Len(rs)
    /\ rs[n].quality # "warning" /\ rs[n].sensor # "warning"
    /\ Size(2 * rs[n].value - rs[n - 1].value - rs[n + 1].value) > 10}

\* The first of the readings with the highest score; those of warning quality,
\* in whatever letters, count only if there is no other, and then only the first.
PeakOf(rs) ==
  LET counted    == {n \in DOMAIN rs : rs[n].quality \notin {"warning", "Warning"}}
      candidates == IF counted = {} THEN {1} ELSE counted
      points(n)  == severityPoints(Size(rs[n].value))
  IN  CHOOSE n \in candidates : \A m \in candidates :
        points(m) < points(n) \/ (points(m) = points(n) /\ n <= m)

AssessDiscoveryBatch(rs, now) ==
  LET n      == PeakOf(rs)
      points == Score(rs[n].value, now)
  IN  [peak |-> n, score |-> points, level |-> LevelOf(points)]

-----------------------------------------------------------------------------
(* Commands.                                                               *)

\* A reading as it is stored, its quality in small letters without blanks.
makeReading(s) ==
  [value |-> s.value, sensor |-> s.sensor, review |-> "none",
   flag |-> CASE s.quality \in {"warning", "Warning", " warning"} -> "warning"
              [] s.quality = "unstated" -> IF s.sensor = "ok" THEN "ok" ELSE "warning"
              [] OTHER -> s.quality]

\* Spikes are put to review, whatever became of an earlier one.
Flagged(rs, spikes) ==
  [n \in DOMAIN rs |-> IF n \in spikes
                       THEN [rs[n] EXCEPT !.flag = "pending_review", !.review = "pending"]
                       ELSE rs[n]]

Evaluated(a, now, d) ==
  [at |-> now, level |-> a.level, score |-> a.score, peak |-> a.peak, deadline |-> d]

\* A reading without quality gets the one stated for the whole report.
Completed(batch, default) ==
  [n \in DOMAIN batch |-> IF batch[n].quality = "unstated"
                          THEN [batch[n] EXCEPT !.quality = default] ELSE batch[n]]

\* The report: spikes do not count as long as they are not reviewed.  Only the
\* quality stated with a reading is checked, not the one stated for all.
CreateIncident(batch, default, last) ==
  /\ status = "unreported"
  /\ last <= clock
  /\ \A n \in DOMAIN batch :
       batch[n].quality \in {"unstated", "ok", "warning", "Warning", " warning"}
  /\ LET given  == Completed(batch, default)
         seen   == [n \in DOMAIN given |-> Seen(given[n], given[n].quality)]
         spikes == DetectIsolatedSpikes(seen)
         judged == [n \in DOMAIN seen |-> IF n \in spikes
                                          THEN [seen[n] EXCEPT !.quality = "warning"] ELSE seen[n]]
         a == AssessDiscoveryBatch(judged, clock)
         d == clock + ResponseWithin(a.level)
     IN  /\ readings' = Flagged([n \in DOMAIN given |-> makeReading(given[n])], spikes)
         /\ level' = a.level /\ score' = a.score /\ peak' = a.peak
         /\ deadline' = d
         /\ evaluations' = <<Evaluated(a, clock, d)>>
  /\ latest' = last
  /\ status' = "reported"
  /\ UNCHANGED clock

Raised_AnyScore(a) == a.level >= level

\* The incident takes over an evaluation that is no lower than its risk.
Raised(a) == a.level > level \/ (a.level = level /\ a.score >= score)

Spikes_OfBatch(all, batch) ==
  LET old == Len(all) - Len(batch)
  IN  {old + n : n \in DetectIsolatedSpikes(SubSeq(all, old + 1, Len(all)))}

\* Spikes are looked for among all readings, the reviewed ones included.
Spikes(all, batch) == DetectIsolatedSpikes(all)

Tightened_ToLatest(now, l) == now + ResponseWithin(l)

\* The deadline never moves back.
Tightened(now, l) ==
  LET d == now + ResponseWithin(l) IN IF d > deadline THEN deadline ELSE d

\* Further readings, of whatever quality: everything is judged again, spikes
\* of the batch and readings pending, included or excluded along with the rest.
AppendDiscoveryReadings(batch, now, last) ==
  /\ status = "reported"
  /\ Len(readings) + Len(batch) <= MaxReadings
  /\ now <= clock /\ latest < last /\ last <= now
  /\ LET stored == readings \o [n \in DOMAIN batch |-> makeReading(batch[n])]
         seen   == [n \in DOMAIN stored |-> Seen(stored[n], stored[n].flag)]
         a == AssessDiscoveryBatch(seen, now)
         d == Tightened(now, a.level)
     IN  /\ readings' = Flagged(stored, Spikes(seen, batch))
         /\ IF Raised(a) THEN level' = a.level /\ score' = a.score /\ peak' = a.peak
                         ELSE UNCHANGED <<level, score, peak>>
         /\ deadline' = d
         /\ evaluations' = Append(evaluations, Evaluated(a, now, d))
  /\ latest' = last
  /\ UNCHANGED <<clock, status>>

\* A reading under review is counted in or excluded.
ReviewReading(n, conclusion) ==
  /\ status # "unreported"
  /\ readings[n].review = "pending"
  /\ readings' = [readings EXCEPT ![n].review = conclusion,
                                  ![n].flag = IF conclusion = "included"
                                              THEN "reviewed_included" ELSE "excluded"]
  /\ UNCHANGED <<clock, status, latest, level, score, peak, deadline, evaluations>>

\* The independent reading is judged like the others; a high risk needs an
\* isolation measure, which is taken to be recorded.
RecordInspection(value, now) ==
  LET points == Score(value, now)
  IN  /\ status = "reported"
      /\ now <= clock
      /\ IF LevelOf(points) >= level THEN level' = LevelOf(points) /\ score' = points
                                     ELSE UNCHANGED <<level, score>>
      /\ deadline' = Tightened(now, LevelOf(points))
      /\ status' = "inspected"
      /\ UNCHANGED <<clock, readings, latest, peak, evaluations>>

Tick ==
  /\ \E t \in Instants : t > clock /\ clock' = t
  /\ UNCHANGED <<status, readings, latest, level, score, peak, deadline, evaluations>>

Next ==
  \/ \E batch \in Batches, default \in Defaults, last \in Instants :
       CreateIncident(batch, default, last)
  \/ \E batch \in Batches, now, last \in Instants : AppendDiscoveryReadings(batch, now, last)
  \/ \E n \in DOMAIN readings, conclusion \in {"included", "excluded"} :
       ReviewReading(n, conclusion)
  \/ \E s \in Samples, now \in Instants : RecordInspection(s.value, now)
  \/ Tick

Spec == Init /\ [][Next]_vars

-----------------------------------------------------------------------------
\* Every variable keeps its type.
TypeOK ==
  /\ clock \in Nat /\ latest \in Nat /\ deadline \in Nat /\ score \in Nat
  /\ status \in {"unreported", "reported", "inspected"}
  /\ readings \in Seq(Reading)
  /\ level \in 1..4
  /\ peak \in 0..Len(readings)
  /\ evaluations \in Seq(Evaluation)

-----------------------------------------------------------------------------
(* What must hold.                                                         *)

\* Whatever is read, reviewed or inspected and in whatever order: the level
\* never falls, the deadline never moves back, and until the inspection the
\* score does not fall within a level either.
RiskHoldsOrRises ==
  [][status # "unreported" =>
       /\ level' >= level
       /\ deadline' <= deadline
       /\ status' = "reported" /\ level' = level => score' >= score]_vars

\* An incident never has more time left than the risk it shows allows, though
\* level and deadline are raised and tightened by different commands.
DeadlineFitsRisk == status # "unreported" => deadline <= clock + ResponseWithin(level)

\* The risk shown is one that was evaluated and the highest of them, its peak
\* is a reading that has that score, and the history ends with the deadline
\* in force.  (The inspection enters no evaluation of its own.)
HistoryExplainsRisk ==
  /\ \A e \in ToSet(evaluations) :
       /\ e.score = Score(readings[e.peak].value, e.at)
       /\ e.level < level \/ (e.level = level /\ (status = "inspected" \/ e.score <= score))
  /\ status = "reported" =>
       /\ \E e \in ToSet(evaluations) :
            e.level = level /\ e.score = score /\ e.peak = peak
       /\ Last(evaluations).deadline = deadline

\* Risk, deadline and history fit together, though report, further readings
\* and inspection each change only some of them.
RiskExplained == TypeOK /\ DeadlineFitsRisk /\ HistoryExplainsRisk

Apart(n) ==
  /\ n > 1 /\ n < Len(readings)
  /\ Size(2 * readings[n].value - readings[n - 1].value - readings[n + 1].value) > 10

\* Every isolated spike is put to review, also one at the border of two
\* requests, unless its sensor or its sender warned of it; and what is put to
\* review is such a spike and shows how far its review has come.
SpikesReviewed ==
  \A n \in DOMAIN readings :
    LET r == readings[n]
    IN  IF r.review = "none"
        THEN Apart(n) => r.sensor = "warning" \/ r.flag = "warning"
        ELSE /\ Apart(n) /\ r.sensor = "ok"
             /\ r.flag = CASE r.review = "pending"  -> "pending_review"
                           [] r.review = "included" -> "reviewed_included"
                           [] r.review = "excluded" -> "excluded"

=============================================================================
