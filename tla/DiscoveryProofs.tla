-------------------------- MODULE DiscoveryProofs ---------------------------
(***************************************************************************)
(* Theorems about Discovery, for every set of readings and instants, every *)
(* sensitivity and every bound: risk and deadline of an incident only      *)
(* tighten, the deadline never lies behind what the risk shown allows, and *)
(* every isolated spike nobody warned of is put to review, whatever words  *)
(* are sent as the quality of the readings.                                *)
(***************************************************************************)
EXTENDS Discovery, SelectionFacts

-----------------------------------------------------------------------------
(* What an evaluation yields.                                              *)

\* Points are natural numbers and levels are ranks, whatever was measured.
LEMMA ScoreFacts ==
  ASSUME NEW value, NEW now
  PROVE  Score(value, now) \in Nat /\ LevelOf(Score(value, now)) \in 1..4
<1>1. severityPoints(Size(value)) \in Nat
  BY DEF severityPoints
<1>2. DurationPoints(now) \in Nat
  BY DEF DurationPoints
<1>3. SensitivityPoints \in Nat
  BY DiscoveryAssumption DEF SensitivityPoints
<1>4. Score(value, now) \in Nat
  BY <1>1, <1>2, <1>3 DEF Score
<1> QED
  BY <1>4 DEF LevelOf

\* The same of a whole batch: of its peak nothing need be known.
LEMMA AssessmentFacts ==
  ASSUME NEW rs, NEW now
  PROVE  LET a == AssessDiscoveryBatch(rs, now) IN a.score \in Nat /\ a.level \in 1..4
  BY ScoreFacts DEF AssessDiscoveryBatch

\* The time allowed at each level.
LEMMA ResponseFacts ==
  ASSUME NEW l \in 1..4
  PROVE  ResponseWithin(l) \in Nat
  BY DEF ResponseWithin

\* The deadline kept is neither later than the one before nor than the one
\* the evaluation gives.
LEMMA TightenedFacts ==
  ASSUME NEW now \in Nat, NEW l \in 1..4, deadline \in Nat
  PROVE  /\ Tightened(now, l) \in Nat
         /\ Tightened(now, l) <= deadline
         /\ Tightened(now, l) <= now + ResponseWithin(l)
  BY ResponseFacts DEF Tightened

-----------------------------------------------------------------------------
(* The inductive invariant: the numbers, and the deadline they allow.      *)

NumbersTyped ==
  /\ clock \in Nat /\ deadline \in Nat /\ score \in Nat
  /\ level \in 1..4

RiskInv == NumbersTyped /\ DeadlineFitsRisk

LEMMA RiskInvInit == Init => RiskInv
  BY DEF Init, RiskInv, NumbersTyped, DeadlineFitsRisk

\* The report: everything is set by one evaluation.
LEMMA CreateStep ==
  ASSUME RiskInv, NEW batch, NEW default, NEW last, CreateIncident(batch, default, last)
  PROVE  RiskInv'
<1> DEFINE given  == Completed(batch, default)
           seen   == [n \in DOMAIN given |-> Seen(given[n], given[n].quality)]
           spikes == DetectIsolatedSpikes(seen)
           judged == [n \in DOMAIN seen |-> IF n \in spikes
                                            THEN [seen[n] EXCEPT !.quality = "warning"] ELSE seen[n]]
           a == AssessDiscoveryBatch(judged, clock)
<1>1. /\ level' = a.level /\ score' = a.score
      /\ deadline' = clock + ResponseWithin(a.level)
      /\ clock' = clock
  BY DEF CreateIncident
<1>2. a.score \in Nat /\ a.level \in 1..4
  BY AssessmentFacts
<1>3. ResponseWithin(a.level) \in Nat
  BY <1>2, ResponseFacts
<1> HIDE DEF a
<1> QED
  BY <1>1, <1>2, <1>3 DEF RiskInv, NumbersTyped, DeadlineFitsRisk

\* Further readings: level and score are taken over or kept, the deadline is
\* tightened in both cases.
LEMMA AppendStep ==
  ASSUME RiskInv, NEW batch, NEW now \in Instants, NEW last \in Instants,
         AppendDiscoveryReadings(batch, now, last)
  PROVE  /\ RiskInv'
         /\ level' >= level /\ deadline' <= deadline
         /\ level' = level => score' >= score
<1> DEFINE stored == readings \o [n \in DOMAIN batch |-> makeReading(batch[n])]
           seen   == [n \in DOMAIN stored |-> Seen(stored[n], stored[n].flag)]
           a == AssessDiscoveryBatch(seen, now)
<1>1. /\ IF Raised(a) THEN level' = a.level /\ score' = a.score
                      ELSE level' = level /\ score' = score
      /\ deadline' = Tightened(now, a.level)
      /\ clock' = clock /\ now <= clock /\ status = "reported"
  BY DEF AppendDiscoveryReadings
<1>2. a.score \in Nat /\ a.level \in 1..4
  BY AssessmentFacts
<1>3. now \in Nat
  BY DiscoveryAssumption
<1>4. ResponseWithin(a.level) \in Nat /\ ResponseWithin(level) \in Nat
  BY <1>2, ResponseFacts DEF RiskInv, NumbersTyped
<1>5. /\ deadline' \in Nat /\ deadline' <= deadline
      /\ deadline' <= now + ResponseWithin(a.level)
  BY <1>1, <1>2, <1>3, TightenedFacts DEF RiskInv, NumbersTyped
<1> HIDE DEF a
<1>6. CASE Raised(a)
  BY <1>1, <1>2, <1>3, <1>4, <1>5, <1>6 DEF Raised, RiskInv, NumbersTyped, DeadlineFitsRisk
<1>7. CASE ~Raised(a)
  BY <1>1, <1>3, <1>4, <1>5, <1>7 DEF RiskInv, NumbersTyped, DeadlineFitsRisk
<1> QED
  BY <1>6, <1>7

\* The inspection: as the further readings, but for the score.
LEMMA InspectionStep ==
  ASSUME RiskInv, NEW value, NEW now \in Instants, RecordInspection(value, now)
  PROVE  RiskInv' /\ level' >= level /\ deadline' <= deadline
<1> DEFINE points == Score(value, now)
<1>1. /\ IF LevelOf(points) >= level THEN level' = LevelOf(points) /\ score' = points
                                     ELSE level' = level /\ score' = score
      /\ deadline' = Tightened(now, LevelOf(points))
      /\ clock' = clock /\ now <= clock /\ status = "reported"
  BY DEF RecordInspection
<1>2. points \in Nat /\ LevelOf(points) \in 1..4
  BY ScoreFacts
<1>3. now \in Nat
  BY DiscoveryAssumption
<1>4. ResponseWithin(LevelOf(points)) \in Nat /\ ResponseWithin(level) \in Nat
  BY <1>2, ResponseFacts DEF RiskInv, NumbersTyped
<1>5. /\ deadline' \in Nat /\ deadline' <= deadline
      /\ deadline' <= now + ResponseWithin(LevelOf(points))
  BY <1>1, <1>2, <1>3, TightenedFacts DEF RiskInv, NumbersTyped
<1> HIDE DEF points
<1>6. CASE LevelOf(points) >= level
  BY <1>1, <1>2, <1>3, <1>4, <1>5, <1>6 DEF RiskInv, NumbersTyped, DeadlineFitsRisk
<1>7. CASE ~(LevelOf(points) >= level)
  BY <1>1, <1>2, <1>3, <1>4, <1>5, <1>7 DEF RiskInv, NumbersTyped, DeadlineFitsRisk
<1> QED
  BY <1>6, <1>7

\* One step, and what it does to the risk.
LEMMA RiskStep ==
  ASSUME RiskInv, [Next]_vars
  PROVE  /\ RiskInv'
         /\ status # "unreported" =>
              /\ level' >= level /\ deadline' <= deadline
              /\ status' = "reported" /\ level' = level => score' >= score
<1>1. CASE \E batch \in Batches, default \in Defaults, last \in Instants :
             CreateIncident(batch, default, last)
  <2>1. PICK batch \in Batches, default \in Defaults, last \in Instants :
          CreateIncident(batch, default, last)
    BY <1>1
  <2>2. status = "unreported"
    BY <2>1 DEF CreateIncident
  <2> QED
    BY <2>1, <2>2, CreateStep
<1>2. CASE \E batch \in Batches, now, last \in Instants :
             AppendDiscoveryReadings(batch, now, last)
  BY <1>2, AppendStep
<1>3. CASE \E n \in DOMAIN readings, conclusion \in {"included", "excluded"} :
             ReviewReading(n, conclusion)
  BY <1>3 DEF ReviewReading, RiskInv, NumbersTyped, DeadlineFitsRisk
<1>4. CASE \E s \in Samples, now \in Instants : RecordInspection(s.value, now)
  <2>1. status' = "inspected"
    BY <1>4 DEF RecordInspection
  <2> QED
    BY <1>4, <2>1, InspectionStep
<1>5. CASE Tick
  <2>1. PICK t \in Instants : t > clock /\ clock' = t
    BY <1>5 DEF Tick
  <2>2. t \in Nat
    BY DiscoveryAssumption
  <2>3. ResponseWithin(level) \in Nat
    BY ResponseFacts DEF RiskInv, NumbersTyped
  <2> QED
    BY <1>5, <2>1, <2>2, <2>3 DEF Tick, RiskInv, NumbersTyped, DeadlineFitsRisk
<1>6. CASE UNCHANGED vars
  BY <1>6 DEF vars, RiskInv, NumbersTyped, DeadlineFitsRisk
<1> QED
  BY <1>1, <1>2, <1>3, <1>4, <1>5, <1>6 DEF Next

LEMMA RiskInvariant == Spec => []RiskInv
  BY RiskInvInit, RiskStep, PTL DEF Spec

-----------------------------------------------------------------------------
\* An incident never has more time left than the risk it shows allows,
\* though CreateIncident, AppendDiscoveryReadings and RecordInspection each
\* compute risk and deadline on their own.
THEOREM DeadlineAlwaysFits == Spec => []DeadlineFitsRisk
  BY RiskInvariant, PTL DEF RiskInv

\* Whatever is read, reviewed or inspected: the level never falls, the
\* deadline never moves back, and until the inspection the score of a level
\* does not fall.
THEOREM RiskOnlyRises == Spec => RiskHoldsOrRises
<1>1. RiskInv /\ [Next]_vars =>
        [status # "unreported" =>
           /\ level' >= level
           /\ deadline' <= deadline
           /\ status' = "reported" /\ level' = level => score' >= score]_vars
  BY RiskStep
<1> QED
  BY <1>1, RiskInvariant, PTL DEF Spec, RiskHoldsOrRises

-----------------------------------------------------------------------------
(* Lists of readings, and what the rules make of them.                     *)

\* The peak is one of the readings: among finitely many candidates there is a
\* highest score, and a first reading that has it.
LEMMA PeakFacts ==
  ASSUME NEW T, NEW rs \in Seq(T), rs # <<>>
  PROVE  PeakOf(rs) \in 1..Len(rs)
<1> DEFINE counted    == {n \in DOMAIN rs : rs[n].quality \notin {"warning", "Warning"}}
           candidates == IF counted = {} THEN {1} ELSE counted
           points(n)  == severityPoints(Size(rs[n].value))
           highest    == {points(n) : n \in candidates}
<1>1. Len(rs) \in Nat /\ Len(rs) >= 1 /\ DOMAIN rs = 1..Len(rs)
  BY LenProperties, EmptySeq
<1>2. candidates # {} /\ candidates \subseteq 1..Len(rs)
  BY <1>1
<1>3. \A n : points(n) \in 0..4
  BY DEF severityPoints
<1> HIDE DEF candidates, points
<1>4. highest \in SUBSET (0..4) /\ highest # {}
  BY <1>2, <1>3
<1>5. PICK p \in highest : \A q \in highest : q <= p
  <2> HIDE DEF highest
  <2> QED  BY <1>4, GreatestExists
<1> DEFINE first == {n \in candidates : points(n) = p}
<1>6. first # {} /\ first \in SUBSET (0..Len(rs))
  BY <1>1, <1>2, <1>5
<1>7. PICK n \in first : \A m \in first : n <= m
  <2> HIDE DEF first
  <2> QED  BY <1>1, <1>6, LeastExists
<1>8. ASSUME NEW m \in candidates
      PROVE  points(m) < points(n) \/ (points(m) = points(n) /\ n <= m)
  <2>1. points(m) <= p /\ points(m) \in 0..4 /\ p \in 0..4 /\ points(n) = p
    BY <1>3, <1>4, <1>5, <1>7
  <2> QED  BY <1>7, <2>1
<1>9. n \in candidates
  BY <1>7
<1>10. PeakOf(rs) \in candidates
  BY <1>8, <1>9 DEF PeakOf, candidates, points
<1> QED
  BY <1>2, <1>10

\* An evaluation is of one of the readings.
LEMMA AssessmentOfPeak ==
  ASSUME NEW T, NEW rs \in Seq(T), rs # <<>>, NEW now
  PROVE  LET a == AssessDiscoveryBatch(rs, now)
         IN  /\ a.peak \in 1..Len(rs) /\ a.score = Score(rs[a.peak].value, now)
             /\ a.score \in Nat /\ a.level \in 1..4
  BY PeakFacts, AssessmentFacts DEF AssessDiscoveryBatch

\* Flag and state of the review are set and nothing else is touched.
LEMMA FlaggedFacts ==
  ASSUME NEW rs \in Seq(Reading), NEW spikes
  PROVE  LET fs == Flagged(rs, spikes)
         IN  /\ fs \in Seq(Reading) /\ Len(fs) = Len(rs)
             /\ \A n \in 1..Len(rs) :
                  /\ fs[n].value = rs[n].value /\ fs[n].sensor = rs[n].sensor
                  /\ fs[n].flag = IF n \in spikes THEN "pending_review" ELSE rs[n].flag
                  /\ fs[n].review = IF n \in spikes THEN "pending" ELSE rs[n].review
<1> DEFINE f(n) == IF n \in spikes
                   THEN [rs[n] EXCEPT !.flag = "pending_review", !.review = "pending"]
                   ELSE rs[n]
<1>1. Len(rs) \in Nat /\ DOMAIN rs = 1..Len(rs) /\ \A n \in 1..Len(rs) : rs[n] \in Reading
  BY LenProperties, ElementOfSeq
<1>2. ASSUME NEW n \in 1..Len(rs)
      PROVE  /\ f(n) \in Reading
             /\ f(n).value = rs[n].value /\ f(n).sensor = rs[n].sensor
             /\ f(n).flag = IF n \in spikes THEN "pending_review" ELSE rs[n].flag
             /\ f(n).review = IF n \in spikes THEN "pending" ELSE rs[n].review
  BY <1>1 DEF Reading, Flags
<1>3. Flagged(rs, spikes) = [n \in 1..Len(rs) |-> f(n)]
  BY <1>1 DEF Flagged
<1> HIDE DEF f
<1>4. Flagged(rs, spikes) \in [1..Len(rs) -> Reading]
  BY <1>2, <1>3
<1>5. Flagged(rs, spikes) \in Seq(Reading) /\ Len(Flagged(rs, spikes)) = Len(rs)
  BY <1>1, <1>4, ListFacts
<1> QED
  BY <1>2, <1>3, <1>5

\* A reading as it is stored is one, whatever its sender called it.
LEMMA MakeFacts ==
  ASSUME NEW r \in Sample
  PROVE  makeReading(r) \in Reading
<1>1. /\ r.value \in Int /\ r.sensor \in {"ok", "warning"} /\ r.quality \in Qualities
  BY DEF Sample
<1>2. makeReading(r).flag \in Flags
  BY <1>1 DEF makeReading, Flags, Qualities
<1>3. /\ makeReading(r).value = r.value /\ makeReading(r).sensor = r.sensor
      /\ makeReading(r).review = "none"
      /\ makeReading(r) = [value |-> makeReading(r).value, sensor |-> makeReading(r).sensor,
                           review |-> makeReading(r).review, flag |-> makeReading(r).flag]
  BY DEF makeReading
<1> QED
  BY <1>1, <1>2, <1>3 DEF Reading

\* A list of them.
LEMMA MadeFacts ==
  ASSUME NEW given \in Seq(Sample)
  PROVE  LET stored == [n \in DOMAIN given |-> makeReading(given[n])]
         IN  /\ stored \in Seq(Reading) /\ Len(stored) = Len(given)
             /\ Len(given) \in Nat /\ DOMAIN given = 1..Len(given)
             /\ \A n \in 1..Len(given) :
                  /\ given[n] \in Sample /\ stored[n] = makeReading(given[n])
<1> DEFINE k == Len(given)
           stored == [n \in 1..k |-> makeReading(given[n])]
<1>1. k \in Nat /\ DOMAIN given = 1..k /\ \A n \in 1..k : given[n] \in Sample
  BY LenProperties, ElementOfSeq
<1>2. stored \in [1..k -> Reading]
  BY <1>1, MakeFacts
<1>3. \A n \in 1..k : stored[n] = makeReading(given[n])
  OBVIOUS
<1>4. stored \in Seq(Reading) /\ Len(stored) = k
  <2> HIDE DEF stored
  <2> QED  BY <1>1, <1>2, ListFacts
<1> QED
  BY <1>1, <1>3, <1>4

\* A batch is a list of readings that is not empty.
LEMMA BatchFacts ==
  ASSUME NEW batch \in Batches
  PROVE  /\ batch \in Seq(Sample) /\ Len(batch) \in Nat /\ Len(batch) >= 1
         /\ DOMAIN batch = 1..Len(batch)
<1>1. PICK k \in 1..MaxBatch : batch \in [1..k -> Samples]
  BY DEF Batches
<1>2. k \in Nat /\ k >= 1 /\ batch \in [1..k -> Sample]
  BY <1>1, DiscoveryAssumption
<1>3. batch \in Seq(Sample) /\ Len(batch) = k /\ DOMAIN batch = 1..k
  BY <1>2, ListFacts
<1> QED
  BY <1>2, <1>3

\* Only qualities are completed, with what may be stated for a report.
LEMMA CompletedFacts ==
  ASSUME NEW batch \in Batches, NEW default \in Defaults
  PROVE  LET given == Completed(batch, default)
         IN  /\ given \in Seq(Sample) /\ Len(given) = Len(batch)
             /\ Len(given) \in Nat /\ Len(given) >= 1
<1> DEFINE k == Len(batch)
           c(n) == IF batch[n].quality = "unstated"
                   THEN [batch[n] EXCEPT !.quality = default] ELSE batch[n]
<1>1. k \in Nat /\ k >= 1 /\ DOMAIN batch = 1..k /\ \A n \in 1..k : batch[n] \in Sample
  BY BatchFacts, ElementOfSeq
<1>2. default \in Qualities
  BY DiscoveryAssumption DEF Defaults, Sample, Qualities
<1>3. \A n \in 1..k : c(n) \in Sample
  BY <1>1, <1>2 DEF Sample
<1>4. Completed(batch, default) = [n \in 1..k |-> c(n)]
  BY <1>1 DEF Completed
<1> HIDE DEF c
<1>5. Completed(batch, default) \in [1..k -> Sample]
  BY <1>3, <1>4
<1> QED
  BY <1>1, <1>5, ListFacts

\* The readings after a further batch, before any is flagged.
LEMMA StoredFacts ==
  ASSUME NEW rs \in Seq(Reading), NEW batch \in Batches
  PROVE  LET stored == rs \o [n \in DOMAIN batch |-> makeReading(batch[n])]
         IN  /\ stored \in Seq(Reading) /\ Len(stored) = Len(rs) + Len(batch)
             /\ Len(rs) \in Nat /\ Len(batch) \in Nat /\ Len(batch) >= 1
             /\ \A n \in 1..Len(rs) : stored[n] = rs[n]
             /\ \A n \in 1..Len(stored) : n > Len(rs) =>
                  /\ n - Len(rs) \in 1..Len(batch) /\ batch[n - Len(rs)] \in Sample
                  /\ stored[n] = makeReading(batch[n - Len(rs)])
<1> DEFINE added == [n \in DOMAIN batch |-> makeReading(batch[n])]
<1>1. /\ Len(batch) \in Nat /\ Len(batch) >= 1 /\ added \in Seq(Reading) /\ Len(added) = Len(batch)
      /\ \A n \in 1..Len(batch) : batch[n] \in Sample /\ added[n] = makeReading(batch[n])
  BY BatchFacts, MadeFacts
<1>2. Len(rs) \in Nat
  BY LenProperties
<1> HIDE DEF added
<1>3. /\ rs \o added \in Seq(Reading) /\ Len(rs \o added) = Len(rs) + Len(added)
      /\ \A n \in 1..(Len(rs) + Len(added)) :
           (rs \o added)[n] = IF n <= Len(rs) THEN rs[n] ELSE added[n - Len(rs)]
  BY <1>1, ConcatProperties
<1> DEFINE c == rs \o added
<1> HIDE DEF c
<1>4. /\ c \in Seq(Reading) /\ Len(c) = Len(rs) + Len(batch)
      /\ \A n \in 1..(Len(rs) + Len(batch)) :
           c[n] = IF n <= Len(rs) THEN rs[n] ELSE added[n - Len(rs)]
  BY <1>1, <1>3 DEF c
<1>5. \A n \in 1..Len(rs) : c[n] = rs[n]
  BY <1>1, <1>2, <1>4
<1>6. \A n \in 1..Len(c) : n > Len(rs) =>
         n - Len(rs) \in 1..Len(batch) /\ c[n] = added[n - Len(rs)]
  BY <1>1, <1>2, <1>4
<1> QED
  BY <1>1, <1>2, <1>4, <1>5, <1>6 DEF c, added

\* What becomes of the fields of one reading.
LEMMA FieldFacts ==
  ASSUME NEW r, NEW quality
  PROVE  /\ Seen(r, quality).value = r.value /\ Seen(r, quality).sensor = r.sensor
         /\ Seen(r, quality).quality = quality
         /\ makeReading(r).value = r.value /\ makeReading(r).sensor = r.sensor
         /\ makeReading(r).review = "none"
         /\ r.quality = "warning" => makeReading(r).flag = "warning"
  BY DEF Seen, makeReading

\* As the rules see it, a list of readings is still such a list: with the
\* qualities the senders stated, and those of spikes lowered ...
Observed == [value : Int, sensor : {"ok", "warning"},
             quality : Flags \cup Qualities]

Judged(given) ==
  LET seen   == [n \in DOMAIN given |-> Seen(given[n], given[n].quality)]
      spikes == DetectIsolatedSpikes(seen)
  IN  [n \in DOMAIN seen |-> IF n \in spikes
                             THEN [seen[n] EXCEPT !.quality = "warning"] ELSE seen[n]]

LEMMA JudgedFacts ==
  ASSUME NEW given \in Seq(Sample), Len(given) >= 1
  PROVE  /\ Judged(given) \in Seq(Observed) /\ Len(Judged(given)) = Len(given)
         /\ Judged(given) # <<>>
         /\ \A n \in 1..Len(given) : Judged(given)[n].value = given[n].value
<1> DEFINE k == Len(given)
           seen == [n \in 1..k |-> Seen(given[n], given[n].quality)]
           spikes == DetectIsolatedSpikes(seen)
           judged == [n \in 1..k |-> IF n \in spikes
                                     THEN [seen[n] EXCEPT !.quality = "warning"] ELSE seen[n]]
<1>1. DOMAIN given = 1..k /\ k \in Nat /\ k >= 1 /\ \A n \in 1..k : given[n] \in Sample
  BY LenProperties, ElementOfSeq
<1>2. Judged(given) = judged
  BY <1>1 DEF Judged
<1> HIDE DEF spikes
<1>3. ASSUME NEW n \in 1..k
      PROVE  seen[n] \in Observed /\ seen[n].value = given[n].value
  <2>1. given[n].value \in Int /\ given[n].sensor \in {"ok", "warning"}
        /\ given[n].quality \in Qualities
    BY <1>1 DEF Sample
  <2>2. seen[n] = Seen(given[n], given[n].quality)
    OBVIOUS
  <2> HIDE DEF seen
  <2>3. seen[n] \in Observed
    BY <2>1, <2>2 DEF Seen, Observed
  <2> QED  BY <2>2, <2>3, FieldFacts
<1> HIDE DEF seen
<1>4. ASSUME NEW n \in 1..k
      PROVE  judged[n] \in Observed /\ judged[n].value = given[n].value
  <2>1. [seen[n] EXCEPT !.quality = "warning"] \in Observed
    BY <1>3 DEF Observed, Flags
  <2>2. [seen[n] EXCEPT !.quality = "warning"].value = seen[n].value
    BY <1>3 DEF Observed
  <2> QED  BY <1>3, <2>1, <2>2
<1>5. judged \in [1..k -> Observed]
  <2>1. judged = [n \in 1..k |-> judged[n]]
    OBVIOUS
  <2> HIDE DEF judged
  <2> QED  BY <1>4, <2>1
<1> HIDE DEF judged
<1>6. judged \in Seq(Observed) /\ Len(judged) = k
  BY <1>1, <1>5, ListFacts
<1>7. judged # <<>>
  BY <1>1, <1>6
<1> QED
  BY <1>2, <1>4, <1>6, <1>7

\* ... and with the flags stored.
SeenAgain(stored) == [n \in DOMAIN stored |-> Seen(stored[n], stored[n].flag)]

LEMMA SeenFacts ==
  ASSUME NEW stored \in Seq(Reading)
  PROVE  /\ SeenAgain(stored) \in Seq(Observed) /\ Len(SeenAgain(stored)) = Len(stored)
         /\ \A n \in 1..Len(stored) : SeenAgain(stored)[n] = Seen(stored[n], stored[n].flag)
<1> DEFINE k == Len(stored)
           seen == [n \in 1..k |-> Seen(stored[n], stored[n].flag)]
<1>1. DOMAIN stored = 1..k /\ k \in Nat /\ \A n \in 1..k : stored[n] \in Reading
  BY LenProperties, ElementOfSeq
<1>2. SeenAgain(stored) = seen
  BY <1>1 DEF SeenAgain
<1>3. \A n \in 1..k : Seen(stored[n], stored[n].flag) \in Observed
  BY <1>1 DEF Seen, Reading, Observed
<1>4. seen \in [1..k -> Observed]
  BY <1>3
<1>5. \A n \in 1..k : seen[n] = Seen(stored[n], stored[n].flag)
  OBVIOUS
<1> HIDE DEF seen
<1>6. seen \in Seq(Observed) /\ Len(seen) = k
  BY <1>1, <1>4, ListFacts
<1> QED
  BY <1>2, <1>5, <1>6

-----------------------------------------------------------------------------
(* The history explains the risk.                                          *)

\* The members and the last element of a list that has grown.
LEMMA GrownFacts ==
  ASSUME NEW T, NEW s \in Seq(T), NEW e \in T
  PROVE  /\ Append(s, e) \in Seq(T)
         /\ ToSet(Append(s, e)) = ToSet(s) \cup {e}
         /\ Last(Append(s, e)) = e
<1>1. /\ Append(s, e) \in Seq(T) /\ Len(Append(s, e)) = Len(s) + 1 /\ Len(s) \in Nat
      /\ Append(s, e)[Len(s) + 1] = e /\ \A n \in 1..Len(s) : Append(s, e)[n] = s[n]
      /\ DOMAIN s = 1..Len(s) /\ DOMAIN Append(s, e) = 1..(Len(s) + 1)
  BY AppendProperties, LenProperties
<1>2. ToSet(Append(s, e)) \subseteq ToSet(s) \cup {e}
  BY <1>1 DEF ToSet
<1>3. ToSet(s) \subseteq ToSet(Append(s, e)) /\ e \in ToSet(Append(s, e))
  BY <1>1 DEF ToSet
<1> QED
  BY <1>1, <1>2, <1>3 DEF Last

\* The inductive invariant: what an evaluation names as its peak is there.
PeaksThere == \A e \in ToSet(evaluations) : e.peak \in 1..Len(readings)

ExplainedInv == RiskInv /\ TypeOK /\ PeaksThere /\ HistoryExplainsRisk

LEMMA ExplainedInit == Init => ExplainedInv
<1> SUFFICES ASSUME Init PROVE ExplainedInv
  OBVIOUS
<1>1. evaluations = <<>> /\ readings = <<>> /\ ToSet(evaluations) = {}
  BY DEF Init, ToSet
<1>2. TypeOK
  BY <1>1 DEF Init, TypeOK
<1> QED
  BY <1>1, <1>2, RiskInvInit DEF Init, ExplainedInv, PeaksThere, HistoryExplainsRisk

\* The report: the only evaluation is that of the risk shown.
LEMMA ExplainedCreate ==
  ASSUME ExplainedInv, RiskInv', NEW batch \in Batches, NEW default \in Defaults,
         NEW last \in Instants, CreateIncident(batch, default, last)
  PROVE  ExplainedInv'
<1> DEFINE given  == Completed(batch, default)
           seen   == [n \in DOMAIN given |-> Seen(given[n], given[n].quality)]
           spikes == DetectIsolatedSpikes(seen)
           stored == [n \in DOMAIN given |-> makeReading(given[n])]
           a == AssessDiscoveryBatch(Judged(given), clock)
           d == clock + ResponseWithin(a.level)
           e == Evaluated(a, clock, d)
<1>0. given \in Seq(Sample) /\ Len(given) >= 1
  BY CompletedFacts
<1>1. /\ readings' = Flagged(stored, spikes)
      /\ level' = a.level /\ score' = a.score /\ peak' = a.peak /\ deadline' = d
      /\ evaluations' = <<e>>
      /\ latest' = last /\ status' = "reported" /\ clock' = clock
  BY DEF CreateIncident, Judged
<1> HIDE DEF given
<1>2. stored \in Seq(Reading) /\ Len(stored) = Len(given) /\ Len(given) \in Nat
      /\ \A n \in 1..Len(given) : stored[n] = makeReading(given[n])
  BY <1>0, MadeFacts
<1>3. /\ a.peak \in 1..Len(given) /\ a.score \in Nat /\ a.level \in 1..4
      /\ a.score = Score(Judged(given)[a.peak].value, clock)
  BY <1>0, JudgedFacts, AssessmentOfPeak
<1>4. a.score = Score(given[a.peak].value, clock)
  BY <1>0, <1>3, JudgedFacts
<1> HIDE DEF a, stored, spikes
<1>5. /\ readings' \in Seq(Reading) /\ Len(readings') = Len(given)
      /\ \A n \in 1..Len(given) : readings'[n].value = given[n].value
  <2>1. /\ readings' \in Seq(Reading) /\ Len(readings') = Len(given)
        /\ \A n \in 1..Len(given) : readings'[n].value = stored[n].value
    BY <1>1, <1>2, FlaggedFacts
  <2>2. ASSUME NEW n \in 1..Len(given) PROVE stored[n].value = given[n].value
    <3>1. stored[n] = makeReading(given[n])
      BY <1>2
    <3> QED  BY <3>1, FieldFacts
  <2> QED  BY <2>1, <2>2
<1>6. clock \in Nat /\ d \in Nat /\ last \in Nat
  <2>1. clock \in Nat /\ last \in Nat
    BY DiscoveryAssumption DEF ExplainedInv, TypeOK
  <2>2. ResponseWithin(a.level) \in Nat
    BY <1>3, ResponseFacts
  <2> QED  BY <2>1, <2>2
<1>7. e \in Evaluation /\ e.at = clock /\ e.level = a.level /\ e.score = a.score
      /\ e.peak = a.peak /\ e.deadline = d
  BY <1>2, <1>3, <1>6 DEF Evaluated, Evaluation
<1> HIDE DEF e, d
<1>8. evaluations' \in Seq(Evaluation) /\ ToSet(evaluations') = {e} /\ Last(evaluations') = e
  BY <1>1, <1>7 DEF ToSet, Last
<1>9. TypeOK'
  BY <1>1, <1>3, <1>5, <1>6, <1>8 DEF TypeOK
<1>10. PeaksThere'
  BY <1>3, <1>5, <1>7, <1>8 DEF PeaksThere
<1>11. HistoryExplainsRisk'
  BY <1>1, <1>3, <1>4, <1>5, <1>7, <1>8 DEF HistoryExplainsRisk
<1> QED
  BY <1>9, <1>10, <1>11 DEF ExplainedInv

\* Further readings: the readings kept have their values, and the risk is
\* that of the new evaluation or still the highest.
LEMMA ExplainedAppend ==
  ASSUME ExplainedInv, RiskInv', NEW batch \in Batches, NEW now \in Instants,
         NEW last \in Instants, AppendDiscoveryReadings(batch, now, last)
  PROVE  ExplainedInv'
<1> DEFINE stored == readings \o [n \in DOMAIN batch |-> makeReading(batch[n])]
           seen   == SeenAgain(stored)
           a == AssessDiscoveryBatch(seen, now)
           d == Tightened(now, a.level)
           e == Evaluated(a, now, d)
           spikes == Spikes(seen, batch)
<1>0. readings \in Seq(Reading) /\ clock \in Nat /\ evaluations \in Seq(Evaluation)
      /\ deadline \in Nat /\ level \in 1..4 /\ score \in Nat /\ peak \in 0..Len(readings)
  BY DEF ExplainedInv, TypeOK
<1>1. /\ readings' = Flagged(stored, spikes)
      /\ IF Raised(a) THEN level' = a.level /\ score' = a.score /\ peak' = a.peak
                      ELSE level' = level /\ score' = score /\ peak' = peak
      /\ deadline' = d /\ evaluations' = Append(evaluations, e)
      /\ latest' = last /\ status' = status /\ clock' = clock /\ status = "reported"
  BY DEF AppendDiscoveryReadings, SeenAgain
<1>2. /\ stored \in Seq(Reading) /\ Len(stored) = Len(readings) + Len(batch)
      /\ Len(readings) \in Nat /\ Len(batch) \in Nat /\ Len(batch) >= 1
      /\ \A n \in 1..Len(readings) : stored[n] = readings[n]
  BY <1>0, StoredFacts
<1> HIDE DEF stored
<1>3. /\ seen \in Seq(Observed) /\ Len(seen) = Len(stored) /\ seen # <<>>
      /\ \A n \in 1..Len(stored) : seen[n].value = stored[n].value
  <2>1. /\ seen \in Seq(Observed) /\ Len(seen) = Len(stored)
        /\ \A n \in 1..Len(stored) : seen[n] = Seen(stored[n], stored[n].flag)
    BY <1>2, SeenFacts
  <2> HIDE DEF seen
  <2>2. seen # <<>>
    BY <1>2, <2>1
  <2> QED  BY <2>1, <2>2, FieldFacts
<1> HIDE DEF seen
<1>4. /\ a.peak \in 1..Len(stored) /\ a.score \in Nat /\ a.level \in 1..4
      /\ a.score = Score(seen[a.peak].value, now)
  BY <1>3, AssessmentOfPeak
<1> HIDE DEF a, spikes
<1>5. /\ readings' \in Seq(Reading) /\ Len(readings') = Len(stored)
      /\ \A n \in 1..Len(stored) : readings'[n].value = stored[n].value
  BY <1>1, <1>2, FlaggedFacts
<1>6. a.score = Score(readings'[a.peak].value, now)
  BY <1>3, <1>4, <1>5
<1>7. now \in Nat /\ last \in Nat /\ d \in Nat
  BY <1>0, <1>4, TightenedFacts, DiscoveryAssumption
<1>8. e \in Evaluation /\ e.at = now /\ e.level = a.level /\ e.score = a.score
      /\ e.peak = a.peak /\ e.deadline = d
  BY <1>2, <1>4, <1>7 DEF Evaluated, Evaluation
<1> HIDE DEF e, d
<1>9. /\ evaluations' \in Seq(Evaluation) /\ Last(evaluations') = e
      /\ ToSet(evaluations') = ToSet(evaluations) \cup {e}
  BY <1>0, <1>1, <1>8, GrownFacts
<1>10. /\ level' \in 1..4 /\ score' \in Nat /\ peak' \in 0..Len(readings')
  <2>1. Len(readings') \in Nat /\ Len(readings) <= Len(readings')
    BY <1>2, <1>5
  <2> QED  BY <1>0, <1>1, <1>2, <1>4, <1>5, <2>1
<1>11. TypeOK'
  BY <1>0, <1>1, <1>5, <1>7, <1>9, <1>10 DEF ExplainedInv, TypeOK
<1>12. ASSUME NEW f \in ToSet(evaluations)
       PROVE  /\ f.peak \in 1..Len(readings') /\ f.score = Score(readings'[f.peak].value, f.at)
              /\ f.level < level \/ (f.level = level /\ f.score <= score)
  <2>1. f.peak \in 1..Len(readings)
    BY DEF ExplainedInv, PeaksThere
  <2>2. f.peak \in 1..Len(stored) /\ readings'[f.peak].value = readings[f.peak].value
    BY <1>2, <1>5, <2>1
  <2>3. f.score = Score(readings[f.peak].value, f.at)
    BY DEF ExplainedInv, HistoryExplainsRisk
  <2>4. f.level < level \/ (f.level = level /\ f.score <= score)
    BY <1>1 DEF ExplainedInv, HistoryExplainsRisk
  <2> QED  BY <1>5, <2>2, <2>3, <2>4
<1>13. PeaksThere'
  BY <1>4, <1>5, <1>8, <1>9, <1>12 DEF PeaksThere
<1>14. ASSUME NEW f \in ToSet(evaluations)
       PROVE  f.level < level' \/ (f.level = level' /\ f.score <= score')
  <2>1. f \in Evaluation
    BY <1>0, LenProperties, ElementOfSeq DEF ToSet
  <2>2. f.level \in 1..4 /\ f.score \in Nat
    BY <2>1 DEF Evaluation
  <2> QED  BY <1>0, <1>1, <1>4, <1>12, <2>2 DEF Raised
<1>15. e.level < level' \/ (e.level = level' /\ e.score <= score')
  BY <1>0, <1>1, <1>4, <1>8 DEF Raised
<1>16. \E f \in ToSet(evaluations') : f.level = level' /\ f.score = score' /\ f.peak = peak'
  <2>1. CASE Raised(a)
    BY <1>1, <1>8, <1>9, <2>1
  <2>2. CASE ~Raised(a)
    <3>1. PICK f \in ToSet(evaluations) : f.level = level /\ f.score = score /\ f.peak = peak
      BY <1>1 DEF ExplainedInv, HistoryExplainsRisk
    <3> QED  BY <1>1, <1>9, <2>2, <3>1
  <2> QED  BY <2>1, <2>2
<1>17. e.score = Score(readings'[e.peak].value, e.at)
  BY <1>6, <1>8
<1>18. HistoryExplainsRisk'
  <2>1. \A f \in ToSet(evaluations') :
           /\ f.score = Score(readings'[f.peak].value, f.at)
           /\ f.level < level' \/ (f.level = level' /\ f.score <= score')
    BY <1>9, <1>12, <1>14, <1>15, <1>17
  <2> QED  BY <1>1, <1>8, <1>9, <1>16, <2>1 DEF HistoryExplainsRisk
<1> QED
  BY <1>11, <1>13, <1>18 DEF ExplainedInv

\* A review changes flag and review of a reading and no value.
LEMMA ExplainedReview ==
  ASSUME ExplainedInv, RiskInv', NEW n \in DOMAIN readings,
         NEW conclusion \in {"included", "excluded"}, ReviewReading(n, conclusion)
  PROVE  ExplainedInv'
<1> DEFINE flag == IF conclusion = "included" THEN "reviewed_included" ELSE "excluded"
           settled == [readings[n] EXCEPT !.review = conclusion, !.flag = flag]
<1>1. /\ readings' = [readings EXCEPT ![n] = settled]
      /\ UNCHANGED <<clock, status, latest, level, score, peak, deadline, evaluations>>
  BY DEF ReviewReading
<1>2. readings \in Seq(Reading) /\ flag \in Flags
  BY DEF ExplainedInv, TypeOK, Flags
<1> HIDE DEF flag
<1>3. Len(readings) \in Nat /\ DOMAIN readings = 1..Len(readings)
      /\ \A m \in 1..Len(readings) : readings[m] \in Reading
  BY <1>2, LenProperties, ElementOfSeq
<1>4. settled \in Reading /\ settled.value = readings[n].value
  BY <1>2, <1>3 DEF Reading
<1> HIDE DEF settled
<1>5. /\ readings' \in Seq(Reading) /\ Len(readings') = Len(readings)
      /\ \A m \in 1..Len(readings) : readings'[m].value = readings[m].value
  <2>1. /\ readings' \in [1..Len(readings) -> Reading]
        /\ \A m \in 1..Len(readings) :
             readings'[m] = IF m = n THEN settled ELSE readings[m]
    BY <1>1, <1>2, <1>3, <1>4
  <2>2. readings' \in Seq(Reading) /\ Len(readings') = Len(readings)
    BY <1>3, <2>1, ListFacts
  <2> QED  BY <1>4, <2>1, <2>2
<1>6. TypeOK'
  BY <1>1, <1>5 DEF ExplainedInv, TypeOK
<1>7. PeaksThere' /\ HistoryExplainsRisk'
  BY <1>1, <1>5 DEF ExplainedInv, PeaksThere, HistoryExplainsRisk
<1> QED
  BY <1>6, <1>7 DEF ExplainedInv

\* The inspection raises the level or takes the score of its own reading; the
\* evaluations made before are no longer compared with its score.
LEMMA ExplainedInspection ==
  ASSUME ExplainedInv, RiskInv', NEW value, NEW now \in Instants, RecordInspection(value, now)
  PROVE  ExplainedInv'
<1>1. /\ level' >= level /\ status = "reported" /\ status' = "inspected"
      /\ UNCHANGED <<clock, readings, latest, peak, evaluations>>
  BY InspectionStep DEF RecordInspection, ExplainedInv
<1>2. level \in 1..4 /\ level' \in 1..4 /\ evaluations \in Seq(Evaluation)
  BY DEF ExplainedInv, TypeOK, RiskInv, NumbersTyped
<1>3. TypeOK'
  BY <1>1 DEF ExplainedInv, TypeOK, RiskInv, NumbersTyped
<1>4. ASSUME NEW e \in ToSet(evaluations)
      PROVE  /\ e.score = Score(readings[e.peak].value, e.at)
             /\ e.level < level' \/ e.level = level'
  <2>1. e \in Evaluation
    BY <1>2, LenProperties, ElementOfSeq DEF ToSet
  <2>2. e.level \in 1..4
    BY <2>1 DEF Evaluation
  <2>3. e.score = Score(readings[e.peak].value, e.at) /\ e.level <= level
    BY <1>2, <2>2 DEF ExplainedInv, HistoryExplainsRisk
  <2> QED  BY <1>1, <1>2, <2>2, <2>3
<1>5. HistoryExplainsRisk'
  BY <1>1, <1>4 DEF HistoryExplainsRisk
<1>6. PeaksThere'
  BY <1>1 DEF ExplainedInv, PeaksThere
<1> QED
  BY <1>3, <1>5, <1>6 DEF ExplainedInv

LEMMA ExplainedStep ==
  ASSUME ExplainedInv, [Next]_vars
  PROVE  ExplainedInv'
<1>0. RiskInv'
  BY RiskStep DEF ExplainedInv
<1>1. CASE \E batch \in Batches, default \in Defaults, last \in Instants :
             CreateIncident(batch, default, last)
  BY <1>0, <1>1, ExplainedCreate
<1>2. CASE \E batch \in Batches, now, last \in Instants :
             AppendDiscoveryReadings(batch, now, last)
  BY <1>0, <1>2, ExplainedAppend
<1>3. CASE \E n \in DOMAIN readings, conclusion \in {"included", "excluded"} :
             ReviewReading(n, conclusion)
  BY <1>0, <1>3, ExplainedReview
<1>4. CASE \E s \in Samples, now \in Instants : RecordInspection(s.value, now)
  BY <1>0, <1>4, ExplainedInspection
<1>5. CASE Tick \/ UNCHANGED vars
  <2>1. UNCHANGED <<status, readings, latest, level, score, peak, deadline, evaluations>>
    BY <1>5 DEF Tick, vars
  <2>2. clock' \in Nat
    BY <1>0 DEF RiskInv, NumbersTyped
  <2> QED
    BY <1>0, <2>1, <2>2 DEF ExplainedInv, TypeOK, PeaksThere, HistoryExplainsRisk
<1> QED
  BY <1>1, <1>2, <1>3, <1>4, <1>5 DEF Next

LEMMA ExplainedInvariant == Spec => []ExplainedInv
  BY ExplainedInit, ExplainedStep, PTL DEF Spec

\* Every variable of Discovery keeps its type: the flags and evaluations that
\* the commands store are ones the service knows.
THEOREM DiscoveryTyped == Spec => []TypeOK
  BY ExplainedInvariant, PTL DEF ExplainedInv

\* Risk, peak, deadline and the history of evaluations always fit together,
\* though CreateIncident, AppendDiscoveryReadings and RecordInspection each
\* change only some of them.
THEOREM RiskAlwaysExplained == Spec => []RiskExplained
<1>1. ExplainedInv => RiskExplained
  BY DEF ExplainedInv, RiskInv, RiskExplained
<1> QED
  BY <1>1, ExplainedInvariant, PTL

-----------------------------------------------------------------------------
(* The review of spikes.                                                   *)

\* What the detection reports, of a list the rules look at.
LEMMA SpikeFacts ==
  ASSUME NEW rs \in Seq(Observed), NEW n \in 1..Len(rs)
  PROVE  n \in DetectIsolatedSpikes(rs) <=>
           /\ n > 1 /\ n < Len(rs)
           /\ rs[n].quality # "warning" /\ rs[n].sensor # "warning"
           /\ Size(2 * rs[n].value - rs[n - 1].value - rs[n + 1].value) > 10
<1>1. n \in DOMAIN rs
  BY LenProperties
<1> QED
  BY <1>1 DEF DetectIsolatedSpikes

\* Far from the mean of both neighbours.
Distant(rs, n) ==
  /\ n > 1 /\ n < Len(rs)
  /\ Size(2 * rs[n].value - rs[n - 1].value - rs[n + 1].value) > 10

\* The flag that shows how far a review has come.
Shown(review) ==
  CASE review = "pending"  -> "pending_review"
    [] review = "included" -> "reviewed_included"
    [] review = "excluded" -> "excluded"

\* The rule for one reading of a list.
Reviewed(rs, n) ==
  IF rs[n].review = "none"
  THEN Distant(rs, n) => rs[n].sensor = "warning" \/ rs[n].flag = "warning"
  ELSE Distant(rs, n) /\ rs[n].sensor = "ok" /\ rs[n].flag = Shown(rs[n].review)

LEMMA SpikesReviewedIs ==
  TypeOK => (SpikesReviewed <=> \A n \in 1..Len(readings) : Reviewed(readings, n))
<1> SUFFICES ASSUME TypeOK
             PROVE  SpikesReviewed <=> \A n \in 1..Len(readings) : Reviewed(readings, n)
  OBVIOUS
<1>1. DOMAIN readings = 1..Len(readings)
  BY LenProperties DEF TypeOK
<1> QED
  BY <1>1 DEF SpikesReviewed, Reviewed, Apart, Distant, Shown

\* In a list, what surrounds a place.
LEMMA Neighbours ==
  ASSUME NEW k \in Nat, NEW n \in 1..k, n > 1, n < k
  PROVE  n - 1 \in 1..k /\ n + 1 \in 1..k
  OBVIOUS

\* Flagging by what was detected keeps the rule, if what is passed over as of
\* low quality shows so or is under review already, and what is under review
\* lies far out.
LEMMA FlaggedReviewed ==
  ASSUME NEW rs \in Seq(Reading), NEW seen \in Seq(Observed), Len(seen) = Len(rs),
         \A n \in 1..Len(rs) :
           /\ seen[n].value = rs[n].value /\ seen[n].sensor = rs[n].sensor
           /\ seen[n].quality = "warning" => rs[n].flag = "warning",
         \A n \in 1..Len(rs) :
           \/ rs[n].review = "none"
           \/ Distant(rs, n) /\ rs[n].sensor = "ok" /\ rs[n].flag = Shown(rs[n].review)
  PROVE  LET fs == Flagged(rs, DetectIsolatedSpikes(seen))
         IN  \A n \in 1..Len(fs) : Reviewed(fs, n)
<1> DEFINE spikes == DetectIsolatedSpikes(seen)
           fs == Flagged(rs, spikes)
<1>1. /\ fs \in Seq(Reading) /\ Len(fs) = Len(rs)
      /\ \A n \in 1..Len(rs) :
           /\ fs[n].value = rs[n].value /\ fs[n].sensor = rs[n].sensor
           /\ fs[n].flag = IF n \in spikes THEN "pending_review" ELSE rs[n].flag
           /\ fs[n].review = IF n \in spikes THEN "pending" ELSE rs[n].review
  BY FlaggedFacts
<1>2. Len(rs) \in Nat /\ \A n \in 1..Len(rs) : rs[n] \in Reading
  BY LenProperties, ElementOfSeq
<1> HIDE DEF fs
<1>3. ASSUME NEW n \in 1..Len(rs) PROVE Reviewed(fs, n)
  <2>1. rs[n].sensor \in {"ok", "warning"}
    BY <1>2 DEF Reading
  <2>2. n \in spikes <=> /\ Distant(rs, n)
                         /\ seen[n].quality # "warning" /\ rs[n].sensor # "warning"
    <3>1. n \in spikes <=>
            /\ n > 1 /\ n < Len(rs)
            /\ seen[n].quality # "warning" /\ seen[n].sensor # "warning"
            /\ Size(2 * seen[n].value - seen[n - 1].value - seen[n + 1].value) > 10
      BY SpikeFacts
    <3>2. CASE n > 1 /\ n < Len(rs)
      <4>1. n - 1 \in 1..Len(rs) /\ n + 1 \in 1..Len(rs)
        BY <1>2, <3>2, Neighbours
      <4>2. seen[n].value = rs[n].value /\ seen[n - 1].value = rs[n - 1].value
            /\ seen[n + 1].value = rs[n + 1].value /\ seen[n].sensor = rs[n].sensor
        BY <4>1
      <4> HIDE DEF spikes
      <4> QED  BY <3>1, <3>2, <4>2 DEF Distant
    <3>3. CASE ~(n > 1 /\ n < Len(rs))
      <4> HIDE DEF spikes
      <4> QED  BY <3>1, <3>3 DEF Distant
    <3> QED  BY <3>2, <3>3
  <2> HIDE DEF spikes
  <2>3. Distant(fs, n) <=> Distant(rs, n)
    <3>1. CASE n > 1 /\ n < Len(rs)
      <4>1. n - 1 \in 1..Len(rs) /\ n + 1 \in 1..Len(rs)
        BY <1>2, <3>1, Neighbours
      <4>2. fs[n].value = rs[n].value /\ fs[n - 1].value = rs[n - 1].value
            /\ fs[n + 1].value = rs[n + 1].value
        BY <1>1, <4>1
      <4> QED  BY <1>1, <3>1, <4>2 DEF Distant
    <3>2. CASE ~(n > 1 /\ n < Len(rs))
      BY <1>1, <3>2 DEF Distant
    <3> QED  BY <3>1, <3>2
  <2>4. CASE n \in spikes
    <3>1. Distant(rs, n) /\ rs[n].sensor = "ok"
      BY <2>1, <2>2, <2>4
    <3>2. fs[n].review = "pending" /\ fs[n].flag = "pending_review" /\ fs[n].sensor = rs[n].sensor
      BY <1>1, <2>4
    <3> QED  BY <2>3, <3>1, <3>2 DEF Reviewed, Shown
  <2>5. CASE n \notin spikes
    <3>1. fs[n].review = rs[n].review /\ fs[n].flag = rs[n].flag /\ fs[n].sensor = rs[n].sensor
      BY <1>1, <2>5
    <3>2. Distant(rs, n) => rs[n].flag = "warning" \/ rs[n].sensor = "warning"
      BY <2>2, <2>5
    <3> QED  BY <2>3, <3>1, <3>2 DEF Reviewed
  <2> QED  BY <2>4, <2>5
<1> QED
  BY <1>1, <1>3 DEF fs

\* The report.
LEMMA ReviewedCreate ==
  ASSUME NEW batch \in Batches, NEW default \in Defaults, NEW last,
         CreateIncident(batch, default, last)
  PROVE  \A n \in 1..Len(readings') : Reviewed(readings', n)
<1> DEFINE given  == Completed(batch, default)
           k == Len(given)
           seen   == [n \in DOMAIN given |-> Seen(given[n], given[n].quality)]
           stored == [n \in DOMAIN given |-> makeReading(given[n])]
<1>1. readings' = Flagged(stored, DetectIsolatedSpikes(seen))
  BY DEF CreateIncident
<1>2. given \in Seq(Sample)
  BY CompletedFacts
<1> HIDE DEF given
<1>3. /\ stored \in Seq(Reading) /\ Len(stored) = k /\ k \in Nat /\ DOMAIN given = 1..k
      /\ \A n \in 1..k : given[n] \in Sample /\ stored[n] = makeReading(given[n])
  BY <1>2, MadeFacts
<1>4. \A n \in 1..k : seen[n] = Seen(given[n], given[n].quality)
  BY <1>3
<1>5. seen \in Seq(Observed) /\ Len(seen) = k
  <2>1. ASSUME NEW n \in 1..k PROVE Seen(given[n], given[n].quality) \in Observed
    BY <1>3 DEF Seen, Sample, Observed
  <2>2. seen \in [1..k -> Observed]
    BY <1>3, <2>1
  <2> HIDE DEF seen
  <2> QED  BY <1>3, <2>2, ListFacts
<1> HIDE DEF seen, stored
<1>6. ASSUME NEW n \in 1..k
      PROVE  /\ seen[n].value = stored[n].value /\ seen[n].sensor = stored[n].sensor
             /\ seen[n].quality = "warning" => stored[n].flag = "warning"
             /\ stored[n].review = "none"
  <2>1. /\ seen[n].value = given[n].value /\ seen[n].sensor = given[n].sensor
        /\ seen[n].quality = given[n].quality
        /\ stored[n].value = given[n].value /\ stored[n].sensor = given[n].sensor
        /\ given[n].quality = "warning" => stored[n].flag = "warning"
        /\ stored[n].review = "none"
    BY <1>3, <1>4, FieldFacts
  <2> QED  BY <2>1
<1> QED
  BY <1>1, <1>3, <1>5, <1>6, FlaggedReviewed

\* Further readings: those kept have kept their neighbours, and the last of
\* them has got its second one.
LEMMA ReviewedAppend ==
  ASSUME TypeOK, SpikesReviewed, NEW batch \in Batches, NEW now, NEW last,
         AppendDiscoveryReadings(batch, now, last)
  PROVE  \A n \in 1..Len(readings') : Reviewed(readings', n)
<1> DEFINE stored == readings \o [n \in DOMAIN batch |-> makeReading(batch[n])]
           seen   == SeenAgain(stored)
<1>1. readings' = Flagged(stored, DetectIsolatedSpikes(seen))
  BY DEF AppendDiscoveryReadings, Spikes, SeenAgain
<1>2. readings \in Seq(Reading)
  BY DEF TypeOK
<1>3. /\ stored \in Seq(Reading) /\ Len(stored) = Len(readings) + Len(batch)
      /\ Len(readings) \in Nat /\ Len(batch) \in Nat /\ Len(batch) >= 1
      /\ \A n \in 1..Len(readings) : stored[n] = readings[n]
      /\ \A n \in 1..Len(stored) : n > Len(readings) =>
           /\ n - Len(readings) \in 1..Len(batch) /\ batch[n - Len(readings)] \in Sample
           /\ stored[n] = makeReading(batch[n - Len(readings)])
  BY <1>2, StoredFacts
<1> HIDE DEF stored
<1>4. /\ seen \in Seq(Observed) /\ Len(seen) = Len(stored)
      /\ \A n \in 1..Len(stored) : seen[n] = Seen(stored[n], stored[n].flag)
  BY <1>3, SeenFacts
<1> HIDE DEF seen
<1>5. ASSUME NEW n \in 1..Len(stored)
      PROVE  /\ seen[n].value = stored[n].value /\ seen[n].sensor = stored[n].sensor
             /\ seen[n].quality = "warning" => stored[n].flag = "warning"
  <2>1. seen[n].quality = stored[n].flag /\ seen[n].value = stored[n].value
        /\ seen[n].sensor = stored[n].sensor
    BY <1>4, FieldFacts
  <2> QED  BY <2>1
<1>6. ASSUME NEW n \in 1..Len(stored)
      PROVE  \/ stored[n].review = "none"
             \/ Distant(stored, n) /\ stored[n].sensor = "ok"
                /\ stored[n].flag = Shown(stored[n].review)
  <2>1. CASE n > Len(readings)
    <3>1. stored[n] = makeReading(batch[n - Len(readings)])
      BY <1>3, <2>1
    <3> QED  BY <3>1, FieldFacts
  <2>2. CASE n <= Len(readings) /\ readings[n].review # "none"
    <3>1. n \in 1..Len(readings) /\ stored[n] = readings[n]
      BY <1>3, <2>2
    <3>2. /\ Distant(readings, n) /\ readings[n].sensor = "ok"
          /\ readings[n].flag = Shown(readings[n].review)
      <4>1. Reviewed(readings, n)
        BY <3>1, SpikesReviewedIs
      <4> QED  BY <2>2, <4>1 DEF Reviewed
    <3>3. n > 1 /\ n < Len(readings) /\ n < Len(stored)
      BY <1>3, <3>1, <3>2 DEF Distant
    <3>4. n - 1 \in 1..Len(readings) /\ n + 1 \in 1..Len(readings)
      BY <1>3, <3>1, <3>3, Neighbours
    <3>5. stored[n - 1] = readings[n - 1] /\ stored[n + 1] = readings[n + 1]
      BY <1>3, <3>4
    <3>6. Distant(stored, n)
      BY <3>1, <3>2, <3>3, <3>5 DEF Distant
    <3> QED  BY <3>1, <3>2, <3>6
  <2>3. CASE n <= Len(readings) /\ readings[n].review = "none"
    BY <1>3, <2>3
  <2>4. n \in Nat /\ Len(readings) \in Nat
    BY <1>3
  <2> QED  BY <2>1, <2>2, <2>3, <2>4
<1> QED
  BY <1>1, <1>3, <1>4, <1>5, <1>6, FlaggedReviewed

\* A review settles a reading that was put to it.
LEMMA ReviewedReview ==
  ASSUME TypeOK, SpikesReviewed, NEW n \in DOMAIN readings,
         NEW conclusion \in {"included", "excluded"}, ReviewReading(n, conclusion)
  PROVE  \A m \in 1..Len(readings') : Reviewed(readings', m)
<1> DEFINE settled == [readings[n] EXCEPT !.review = conclusion,
                         !.flag = IF conclusion = "included" THEN "reviewed_included"
                                  ELSE "excluded"]
           k == Len(readings)
<1>1. readings' = [readings EXCEPT ![n] = settled] /\ readings[n].review = "pending"
  BY DEF ReviewReading
<1>2. /\ k \in Nat /\ DOMAIN readings = 1..k /\ n \in 1..k
      /\ \A m \in 1..k : readings[m] \in Reading
  BY LenProperties, ElementOfSeq DEF TypeOK
<1>3. readings = [m \in 1..k |-> readings[m]]
  BY <1>2 DEF TypeOK
<1>4. /\ settled.value = readings[n].value /\ settled.sensor = readings[n].sensor
      /\ settled.review # "none" /\ settled.flag = Shown(settled.review)
      /\ settled \in Reading
  BY <1>2 DEF Reading, Flags, Shown
<1> HIDE DEF settled
<1>5. readings' = [m \in 1..k |-> IF m = n THEN settled ELSE readings[m]]
  BY <1>1, <1>2, <1>3
<1>6. Len(readings') = k
  <2>1. readings' \in [1..k -> Reading]
    BY <1>2, <1>4, <1>5
  <2> QED  BY <1>2, <2>1, ListFacts
<1>7. \A m \in 1..k :
        readings'[m].value = readings[m].value /\ readings'[m].sensor = readings[m].sensor
  BY <1>4, <1>5
<1>8. ASSUME NEW m \in 1..k PROVE Reviewed(readings', m)
  <2>1. Reviewed(readings, m)
    BY SpikesReviewedIs
  <2>2. m > 1 /\ m < k => m - 1 \in 1..k /\ m + 1 \in 1..k
    BY <1>2, Neighbours
  <2>3. m > 1 /\ m < k =>
          readings'[m - 1].value = readings[m - 1].value
          /\ readings'[m + 1].value = readings[m + 1].value
    BY <1>7, <2>2
  <2>4. Distant(readings', m) <=> Distant(readings, m)
    BY <1>6, <1>7, <2>3 DEF Distant
  <2>5. CASE m = n
    <3>1. Distant(readings, n) /\ readings[n].sensor = "ok"
      BY <1>1, <2>1, <2>5 DEF Reviewed
    <3>2. readings'[m] = settled
      BY <1>5, <2>5
    <3> QED  BY <1>4, <2>4, <2>5, <3>1, <3>2 DEF Reviewed
  <2>6. CASE m # n
    <3>1. readings'[m] = readings[m]
      BY <1>5, <2>6
    <3> QED  BY <2>1, <2>4, <3>1 DEF Reviewed
  <2> QED  BY <2>5, <2>6
<1> QED
  BY <1>6, <1>8

LEMMA ReviewedStep ==
  ASSUME ExplainedInv, SpikesReviewed, [Next]_vars
  PROVE  SpikesReviewed'
<1>1. TypeOK /\ TypeOK'
  BY ExplainedStep DEF ExplainedInv
<1> SUFFICES \A n \in 1..Len(readings') : Reviewed(readings', n)
  <2>1. SpikesReviewed' <=> \A n \in 1..Len(readings') : Reviewed(readings', n)
    <3>1. DOMAIN readings' = 1..Len(readings')
      BY <1>1, LenProperties DEF TypeOK
    <3> QED  BY <3>1 DEF SpikesReviewed, Reviewed, Apart, Distant, Shown
  <2> QED  BY <2>1
<1>2. CASE \E batch \in Batches, default \in Defaults, last \in Instants :
             CreateIncident(batch, default, last)
  BY <1>2, ReviewedCreate
<1>3. CASE \E batch \in Batches, now, last \in Instants :
             AppendDiscoveryReadings(batch, now, last)
  BY <1>1, <1>3, ReviewedAppend
<1>4. CASE \E n \in DOMAIN readings, conclusion \in {"included", "excluded"} :
             ReviewReading(n, conclusion)
  BY <1>1, <1>4, ReviewedReview
<1>5. CASE \/ \E s \in Samples, now \in Instants : RecordInspection(s.value, now)
           \/ Tick
           \/ UNCHANGED vars
  <2>1. readings' = readings
    BY <1>5 DEF RecordInspection, Tick, vars
  <2> QED
    BY <1>1, <2>1, SpikesReviewedIs
<1> QED
  BY <1>2, <1>3, <1>4, <1>5 DEF Next

\* Every isolated spike is put to review, also one at the border of two
\* requests that neither of them could see, unless its sensor or its sender
\* warned of it; and whatever words are sent as quality, what is put to review
\* is such a spike and shows how far its review has come.
THEOREM SpikesAlwaysReviewed == Spec => []SpikesReviewed
<1>1. Init => SpikesReviewed
  BY DEF Init, SpikesReviewed
<1>2. ExplainedInv /\ SpikesReviewed /\ [Next]_vars => SpikesReviewed'
  BY ReviewedStep
<1> QED
  BY <1>1, <1>2, ExplainedInvariant, PTL DEF Spec

=============================================================================
