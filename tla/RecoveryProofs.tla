--------------------------- MODULE RecoveryProofs ---------------------------
(***************************************************************************)
(* Theorems about Recovery, for every horizon, policy and batch size: the  *)
(* readings of an incident stay typed, in unbroken windows and counted     *)
(* once; the window being judged was read after the last intervention;     *)
(* progress is the clean end of it and agrees with a formal verification   *)
(* where nothing interrupts; and a passed verdict rests on enough readings *)
(* of one segment, interrupted by none.                                    *)
(***************************************************************************)
EXTENDS Recovery, SelectionFacts

-----------------------------------------------------------------------------
(* The inductive invariant, by its parts.                                  *)

Reading == [at : Times, kind : Kinds, closes : BOOLEAN,
            window : Nat \ {0}, segment : Nat \ {0}]

SameWindow(rs, m, n) == m < n /\ rs[m].window = rs[n].window

\* Windows in the order they were begun, each in time order and unbroken.
WindowsOrdered(rs) ==
  /\ \A m, n \in 1..Len(rs) : m < n => rs[m].window <= rs[n].window
  /\ \A m, n \in 1..Len(rs) : SameWindow(rs, m, n) => rs[m].at < rs[n].at
  /\ \A n \in 2..Len(rs) : rs[n - 1].window = rs[n].window => rs[n].at - rs[n - 1].at <= MaxGap

\* A reading outside the range, and a warning inside its batch, end their
\* segment; a segment ends for no other reason.
SegmentsOrdered(rs) ==
  /\ \A m, n \in 1..Len(rs) : SameWindow(rs, m, n) =>
       /\ rs[m].segment <= rs[n].segment
       /\ rs[m].kind = "outside" \/ (rs[m].kind = "warning" /\ ~rs[m].closes) =>
            rs[m].segment < rs[n].segment
       /\ (\A j \in m..(n - 1) : rs[j].kind = "good") => rs[m].segment = rs[n].segment
  /\ rs # <<>> => rs[Len(rs)].closes

\* The current window is the last, and empty once an execution is recorded.
WindowIsLast ==
  /\ \A n \in 1..Len(readings) : readings[n].window <= window
  /\ status = "executed" => \A n \in 1..Len(readings) : readings[n].window # window
  /\ verdict.window <= window

ReadAfterIntervention ==
  \A n \in 1..Len(readings) : readings[n].window = window =>
    readings[n].at > executedAt /\ readings[n].at > installedAt

RecoveryInv ==
  /\ TypeOK
  /\ WindowsOrdered(readings)
  /\ InstantsDistinct
  /\ SegmentsOrdered(readings)
  /\ WindowIsLast
  /\ ReadAfterIntervention
  /\ QualifiedMeetsPolicy

-----------------------------------------------------------------------------
(* The current window within the readings.                                 *)

LEMMA PolicyTyped ==
  /\ Horizon \in Nat /\ MaxBatch \in Nat /\ MaxGap \in Nat /\ MaxGap >= 1
  /\ MinStable \in Nat /\ MinStable >= 1 /\ MinReadings \in Nat /\ MinReadings >= 2
  /\ \A t \in Times : t \in Nat /\ t >= 1
BY RecoveryAssumption DEF Times

LEMMA GreatestOf ==
  ASSUME NEW S, NEW x \in S, \A y \in S : y \in Nat /\ y <= x
  PROVE  Greatest(S) = x
<1>1. \A z \in S : (\A y \in S : y <= z) => z = x
  OBVIOUS
<1> QED
  BY <1>1 DEF Greatest

LEMMA ReadingsTyped ==
  ASSUME TypeOK
  PROVE  /\ readings \in Seq(Reading) /\ Len(readings) \in Nat
         /\ DOMAIN readings = 1..Len(readings)
         /\ \A n \in 1..Len(readings) :
              /\ readings[n] \in Reading /\ readings[n].at \in Nat
              /\ readings[n].window \in Nat /\ readings[n].window >= 1
              /\ readings[n].segment \in Nat /\ readings[n].segment >= 1
              /\ readings[n].kind \in Kinds /\ readings[n].closes \in BOOLEAN
<1>1. readings \in Seq(Reading)
  BY DEF TypeOK, Reading
<1>2. Len(readings) \in Nat /\ DOMAIN readings = 1..Len(readings)
  BY <1>1, LenProperties
<1>3. ASSUME NEW r \in Reading
      PROVE  /\ r.at \in Nat /\ r.window \in Nat /\ r.window >= 1
             /\ r.segment \in Nat /\ r.segment >= 1
             /\ r.kind \in Kinds /\ r.closes \in BOOLEAN
  BY PolicyTyped DEF Reading
<1>4. \A n \in 1..Len(readings) : readings[n] \in Reading
  BY <1>1, ElementOfSeq
<1> QED
  BY <1>1, <1>2, <1>3, <1>4

\* The current window is the end of the readings, from f + 1 on.
CurrentFrom(f) ==
  /\ f \in 0..Len(readings)
  /\ Current \in Seq(Reading) /\ Len(Current) = Len(readings) - f
  /\ \A i \in 1..Len(Current) : Current[i] = readings[f + i] /\ readings[f + i].window = window
  /\ \A n \in 1..f : readings[n].window # window

LEMMA CurrentFacts ==
  ASSUME TypeOK, WindowsOrdered(readings), \A n \in 1..Len(readings) : readings[n].window <= window
  PROVE  \E f : CurrentFrom(f)
<1> DEFINE k == Len(readings)
           places == {n \in DOMAIN readings : readings[n].window = window}
           c == Chosen(readings, places)
           l == Len(c)
<1>1. /\ readings \in Seq(Reading) /\ k \in Nat /\ DOMAIN readings = 1..k
      /\ window \in Nat
      /\ \A n \in 1..k : readings[n].window \in Nat /\ readings[n].window <= window
      /\ \A m, n \in 1..k : m < n => readings[m].window <= readings[n].window
  BY ReadingsTyped DEF WindowsOrdered, TypeOK
<1>2. Current = c
  BY DEF Current, OfWindow
<1>3. c \in Seq(Reading) /\ l \in Nat
  BY <1>1, ChosenFacts, LenProperties
<1>4. PICK p : Leads(readings, places, c, p)
  BY <1>1, ChosenFacts
<1>5. /\ \A n : n \in places <=> n \in 1..k /\ readings[n].window = window
      /\ \A n \in 1..k : (\E m \in places : m <= n) => n \in places
  <2>1. \A n : n \in places <=> n \in 1..k /\ readings[n].window = window
    BY <1>1
  <2> HIDE DEF places
  <2>2. ASSUME NEW n \in 1..k, NEW m \in places, m <= n
        PROVE  n \in places
    <3>1. m \in 1..k /\ readings[m].window = window
      BY <2>1
    <3>2. CASE m = n
      BY <3>2
    <3>3. CASE m # n
      <4>1. readings[m].window <= readings[n].window /\ readings[n].window <= window
            /\ readings[n].window \in Nat
        BY <1>1, <2>2, <3>1, <3>3
      <4> QED  BY <1>1, <2>1, <3>1, <4>1
    <3> QED  BY <3>2, <3>3
  <2> QED  BY <2>1, <2>2
<1> HIDE DEF c, places
<1>6. /\ \A i \in 1..l : p[i] \in places /\ p[i] \in 1..k /\ c[i] = readings[p[i]]
      /\ \A i, j \in 1..l : i < j => p[i] < p[j]
      /\ \A n \in places : \E i \in 1..l : p[i] = n
  BY <1>4, <1>5 DEF Leads
<1>7. CASE l = 0
  <2>1. \A n \in 1..k : n \notin places
    BY <1>6, <1>7
  <2>2. CurrentFrom(k)
    BY <1>1, <1>2, <1>3, <1>5, <1>7, <2>1 DEF CurrentFrom
  <2> QED  BY <2>2
<1>8. CASE l # 0
  <2> DEFINE f == p[1] - 1
  <2>1. 1 \in 1..l /\ p[1] \in 1..k /\ p[1] \in places /\ f \in 0..k
    BY <1>3, <1>6, <1>8
  <2>2. \A n \in 1..f : n \notin places
    <3> SUFFICES ASSUME NEW n \in 1..f, n \in places PROVE FALSE
      OBVIOUS
    <3>1. PICK i \in 1..l : p[i] = n
      BY <1>6
    <3>2. n < p[1]
      BY <2>1
    <3>3. i = 1 \/ 1 < i
      BY <1>3
    <3>4. p[1] <= p[i]
      BY <1>6, <2>1, <3>3
    <3> QED  BY <2>1, <3>1, <3>2, <3>4
  \* The places are next to each other.
  <2>3. ASSUME NEW i \in 1..(l - 1) PROVE p[i + 1] = p[i] + 1
    <3>1. i \in 1..l /\ i + 1 \in 1..l /\ p[i] < p[i + 1]
      BY <1>3, <1>6
    <3>2. p[i] \in places /\ p[i] \in 1..k /\ p[i + 1] \in 1..k
      BY <1>6, <3>1
    <3>3. p[i] + 1 \in places
      <4>1. p[i] + 1 \in 1..k /\ p[i] <= p[i] + 1
        BY <1>1, <3>1, <3>2
      <4> QED  BY <1>5, <3>2, <4>1
    <3>4. PICK j \in 1..l : p[j] = p[i] + 1
      BY <1>6, <3>3
    <3>5. i < j
      <4>1. j = i \/ j < i \/ i < j
        BY <1>3
      <4>2. j < i => p[j] < p[i]
        BY <1>6, <3>1
      <4> QED  BY <3>2, <3>4, <4>1, <4>2
    <3>6. j = i + 1 \/ i + 1 < j
      BY <1>3, <3>5
    <3>7. i + 1 < j => p[i + 1] < p[j]
      BY <1>6, <3>1
    <3> QED  BY <3>1, <3>2, <3>4, <3>6, <3>7
  <2>4. \A i \in 1..l : p[i] = f + i
    <3> DEFINE S == {i \in 0..l : i >= 1 => p[i] = f + i}
    <3>1. 0 \in S
      BY <1>3
    <3>2. ASSUME NEW i \in 0..(l - 1), i \in S PROVE i + 1 \in S
      <4>1. CASE i = 0
        BY <1>3, <1>8, <2>1, <4>1
      <4>2. CASE i # 0
        <5>1. i \in 1..(l - 1) /\ p[i] = f + i /\ p[i + 1] = p[i] + 1 /\ i + 1 \in 0..l
          BY <1>3, <2>3, <3>2, <4>2
        <5> QED  BY <2>1, <5>1
      <4> QED  BY <4>1, <4>2
    <3> HIDE DEF S
    <3>3. 0..l \subseteq S
      BY <1>3, <3>1, <3>2, InductionUpTo
    <3> QED  BY <1>3, <3>3 DEF S
  <2> HIDE DEF f
  <2>5. l = k - f
    <3>1. k \in places
      BY <1>1, <1>5, <2>1
    <3>2. PICK i \in 1..l : p[i] = k
      BY <1>6, <3>1
    <3>3. l \in 1..l /\ p[l] \in 1..k
      BY <1>3, <1>6, <1>8
    <3>4. f + i = k
      BY <2>4, <3>2
    <3>5. p[l] = f + l
      BY <2>4, <3>3
    <3> HIDE DEF k, l
    <3> QED  BY <1>1, <1>3, <2>1, <3>3, <3>4, <3>5
  <2>6. \A i \in 1..l : c[i] = readings[f + i] /\ readings[f + i].window = window
    BY <1>5, <1>6, <2>4
  <2>7. \A n \in 1..f : readings[n].window # window
    <3>1. \A n \in 1..f : n \in 1..k
      BY <1>1, <2>1
    <3> QED  BY <1>5, <2>2, <3>1
  <2>8. CurrentFrom(f)
    BY <1>2, <1>3, <2>1, <2>5, <2>6, <2>7 DEF CurrentFrom
  <2> QED  BY <2>8
<1> QED
  BY <1>7, <1>8

\* Its end is the last reading, which has its greatest segment.
LEMMA CurrentEnd ==
  ASSUME TypeOK, WindowsOrdered(readings), SegmentsOrdered(readings), WindowIsLast
  PROVE  LET k == Len(readings)
             last == readings[k]
         IN  IF Current = <<>>
             THEN /\ \A n \in 1..k : readings[n].window # window
                  /\ BaseSegment = 1
             ELSE /\ k \in 1..k /\ last.window = window /\ Last(Current) = last
                  /\ Greatest({0} \cup {Current[n].segment : n \in DOMAIN Current}) = last.segment
                  /\ BaseSegment = IF last.kind = "outside" THEN last.segment + 1
                                   ELSE last.segment
<1> DEFINE k == Len(readings)
           last == readings[k]
           segments == {Current[n].segment : n \in DOMAIN Current}
           l == Len(Current)
<1>1. PICK f : CurrentFrom(f)
  BY CurrentFacts DEF WindowIsLast
<1>2. /\ k \in Nat /\ \A n \in 1..k : readings[n].segment \in Nat /\ readings[n].segment >= 1
      /\ f \in 0..k /\ Current \in Seq(Reading) /\ l = k - f /\ l \in Nat
      /\ DOMAIN Current = 1..l
      /\ \A i \in 1..l : Current[i] = readings[f + i] /\ readings[f + i].window = window
      /\ \A n \in 1..f : readings[n].window # window
  BY <1>1, ReadingsTyped, LenProperties DEF CurrentFrom
<1>3. CASE Current = <<>>
  <2>1. l = 0 /\ f = k
    BY <1>2, <1>3, EmptySeq
  <2>2. segments = {}
    BY <1>2, <2>1
  <2> HIDE DEF segments
  <2>3. Greatest({1} \cup segments) = 1
    <3>1. {1} \cup segments = {1} /\ \A y \in {1} : y \in Nat /\ y <= 1
      BY <2>2
    <3>2. Greatest({1}) = 1
      BY <3>1, GreatestOf
    <3> QED  BY <3>1, <3>2
  <2>4. BaseSegment = 1
    BY <1>3, <2>3 DEF BaseSegment, segments
  <2> QED  BY <1>2, <1>3, <2>1, <2>4
<1>4. CASE Current # <<>>
  <2>1. l >= 1 /\ k >= 1 /\ f + l = k /\ l \in 1..l /\ k \in 1..k
    BY <1>2, <1>4, EmptySeq
  <2>2. Last(Current) = last /\ last.window = window /\ Current[l] = last
    BY <1>2, <2>1 DEF Last
  <2>3. \A i \in 1..l : /\ Current[i].segment \in Nat /\ Current[i].segment >= 1
                        /\ Current[i].segment <= last.segment
    <3> SUFFICES ASSUME NEW i \in 1..l
                 PROVE  /\ Current[i].segment \in Nat /\ Current[i].segment >= 1
                        /\ Current[i].segment <= last.segment
      OBVIOUS
    <3>1. f + i \in 1..k /\ (f + i < k \/ f + i = k)
      BY <1>2, <2>1
    <3>2. Current[i] = readings[f + i] /\ readings[f + i].window = last.window
      BY <1>2, <2>2
    <3>3. f + i < k => readings[f + i].segment <= readings[k].segment
      BY <2>1, <3>1, <3>2 DEF SegmentsOrdered, SameWindow
    <3> QED  BY <1>2, <3>1, <3>2, <3>3
  <2>4. last.segment \in segments /\ last.segment \in Nat /\ last.segment >= 1
    BY <1>2, <2>1, <2>2
  <2>5. \A y \in segments : y \in Nat /\ y <= last.segment
    BY <1>2, <2>3
  <2> HIDE DEF segments, last, l
  <2>6. Greatest({1} \cup segments) = last.segment
    BY <2>4, <2>5, GreatestOf
  <2>7. Greatest({0} \cup segments) = last.segment
    BY <2>4, <2>5, GreatestOf
  <2>8. BaseSegment = IF last.kind = "outside" THEN last.segment + 1 ELSE last.segment
    BY <1>4, <2>2, <2>6 DEF BaseSegment, segments
  <2> QED  BY <1>4, <2>1, <2>2, <2>7, <2>8 DEF segments, last
<1> QED
  BY <1>3, <1>4

-----------------------------------------------------------------------------
(* A batch.                                                                *)

Cuts(b, i) == {m \in 1..i : Interrupted(b, m)}

Bad(b, i, j) == {m \in i..j : b[m].kind # "good"}

\* Where the window of sample i begins in the batch.
Begin(b, i) == IF Cuts(b, i) = {} THEN 1 ELSE Greatest(Cuts(b, i))

LEMMA BatchTyped ==
  ASSUME NEW b \in Batches
  PROVE  /\ Len(b) \in Nat /\ Len(b) >= 1 /\ DOMAIN b = 1..Len(b)
         /\ \A i \in 1..Len(b) : b[i].at \in Times /\ b[i].at \in Nat /\ b[i].kind \in Kinds
         /\ \A i, j \in 1..Len(b) : i < j => b[i].at < b[j].at
<1>1. PICK n \in 1..MaxBatch : b \in [1..n -> Sample]
  BY DEF Batches
<1>2. Increasing(b)
  BY DEF Batches
<1>3. n \in Nat /\ n >= 1
  BY PolicyTyped
<1>4. b \in Seq(Sample) /\ Len(b) = n
  BY <1>1, <1>3, ListFacts
<1>5. \A i \in 1..n : b[i] \in Sample
  BY <1>1
<1> QED
  BY <1>1, <1>2, <1>3, <1>4, <1>5, PolicyTyped DEF Increasing, Sample

LEMMA BadFacts ==
  ASSUME NEW b, NEW i \in Int, NEW j \in Int
  PROVE  IsFiniteSet(Bad(b, i, j)) /\ Cardinality(Bad(b, i, j)) \in Nat
<1>1. IsFiniteSet(i..j) /\ Bad(b, i, j) \in SUBSET (i..j)
  BY FS_Interval DEF Bad
<1> QED
  BY <1>1, FS_Subset, FS_CardinalityType

\* Of two places, the later has the interruptions of the earlier before it,
\* and more if its window is another.
LEMMA CutFacts ==
  ASSUME NEW b, NEW i \in Nat, NEW j \in Nat, i <= j
  PROVE  /\ Cardinality(Cuts(b, i)) \in Nat
         /\ Cardinality(Cuts(b, i)) <= Cardinality(Cuts(b, j))
         /\ Cardinality(Cuts(b, i)) = Cardinality(Cuts(b, j)) =>
              /\ Cuts(b, i) = Cuts(b, j)
              /\ \A m \in 1..j : m > i => ~Interrupted(b, m)
         /\ Cardinality(Cuts(b, i)) = 0 => \A m \in 1..i : ~Interrupted(b, m)
         /\ 1 <= i => Begin(b, i) \in 1..i
<1> HIDE DEF Interrupted
<1>1. IsFiniteSet(1..j) /\ Cuts(b, j) \in SUBSET (1..j) /\ Cuts(b, i) \subseteq Cuts(b, j)
  BY FS_Interval DEF Cuts
<1>2. IsFiniteSet(Cuts(b, j)) /\ IsFiniteSet(Cuts(b, i))
  BY <1>1, FS_Subset
<1>3. /\ Cardinality(Cuts(b, i)) \in Nat /\ Cardinality(Cuts(b, j)) \in Nat
      /\ Cardinality(Cuts(b, i)) <= Cardinality(Cuts(b, j))
      /\ Cardinality(Cuts(b, i)) = Cardinality(Cuts(b, j)) => Cuts(b, i) = Cuts(b, j)
  BY <1>1, <1>2, FS_Subset, FS_CardinalityType
<1>4. Cuts(b, i) = Cuts(b, j) => \A m \in 1..j : m > i => ~Interrupted(b, m)
  BY DEF Cuts
<1>5. Cardinality(Cuts(b, i)) = 0 => Cuts(b, i) = {}
  BY <1>2, FS_EmptySet
<1>6. Cuts(b, i) = {} => \A m \in 1..i : ~Interrupted(b, m)
  BY DEF Cuts
<1>7. ASSUME 1 <= i PROVE Begin(b, i) \in 1..i
  <2>1. CASE Cuts(b, i) = {}
    BY <1>7, <2>1 DEF Begin
  <2>2. CASE Cuts(b, i) # {}
    <3>1. Cuts(b, i) \in SUBSET (0..i) /\ Cuts(b, i) \subseteq 1..i
      BY DEF Cuts
    <3>2. PICK x \in Cuts(b, i) : \A y \in Cuts(b, i) : y <= x
      BY <2>2, <3>1, GreatestExists
    <3>3. Greatest(Cuts(b, i)) = x
      BY <3>1, <3>2, GreatestOf
    <3> QED  BY <2>2, <3>1, <3>2, <3>3 DEF Begin
  <2> QED  BY <2>1, <2>2
<1> QED
  BY <1>3, <1>4, <1>5, <1>6, <1>7

LEMMA PlacedFacts ==
  ASSUME NEW b \in Batches, window \in Nat \ {0}, BaseSegment \in Nat \ {0}
  PROVE  /\ Placed(b) \in Seq(Reading) /\ Len(Placed(b)) = Len(b)
         /\ \A i \in 1..Len(b) :
              /\ Placed(b)[i].at = b[i].at /\ Placed(b)[i].kind = b[i].kind
              /\ Placed(b)[i].closes <=> i = Len(b)
              /\ Placed(b)[i].window = window + Cardinality(Cuts(b, i))
              /\ Placed(b)[i].segment = (IF Cuts(b, i) = {} THEN BaseSegment ELSE 1)
                                          + Cardinality(Bad(b, Begin(b, i), i - 1))
<1> DEFINE m == Len(b)
           Of(i) == [at |-> b[i].at, kind |-> b[i].kind, closes |-> i = m,
                     window |-> window + Cardinality(Cuts(b, i)),
                     segment |-> (IF Cuts(b, i) = {} THEN BaseSegment ELSE 1)
                                   + Cardinality(Bad(b, Begin(b, i), i - 1))]
<1>1. /\ m \in Nat /\ DOMAIN b = 1..m
      /\ \A i \in 1..m : b[i].at \in Times /\ b[i].kind \in Kinds
  BY BatchTyped
<1>2. Placed(b) = [i \in 1..m |-> Of(i)]
  <2>1. \A i \in 1..m :
          (IF Cuts(b, i) = {} THEN BaseSegment ELSE 1) + Cardinality(Bad(b, Begin(b, i), i - 1))
          = IF Cuts(b, i) = {} THEN BaseSegment + Cardinality(Bad(b, 1, i - 1))
            ELSE 1 + Cardinality(Bad(b, Greatest(Cuts(b, i)), i - 1))
    BY DEF Begin
  <2>2. Placed(b) =
          [i \in 1..m |->
             [at |-> b[i].at, kind |-> b[i].kind, closes |-> i = m,
              window |-> window + Cardinality(Cuts(b, i)),
              segment |-> IF Cuts(b, i) = {} THEN BaseSegment + Cardinality(Bad(b, 1, i - 1))
                          ELSE 1 + Cardinality(Bad(b, Greatest(Cuts(b, i)), i - 1))]]
    BY <1>1 DEF Placed, Cuts, Bad
  <2> QED  BY <2>1, <2>2
<1>3. \A i \in 1..m : Of(i) \in Reading
  <2> SUFFICES ASSUME NEW i \in 1..m PROVE Of(i) \in Reading
    OBVIOUS
  <2>1. i \in Nat /\ 1 <= i /\ Cardinality(Cuts(b, i)) \in Nat /\ Begin(b, i) \in 1..i
    BY <1>1, CutFacts
  <2>2. Begin(b, i) \in Int /\ i - 1 \in Int
    BY <2>1
  <2>3. Cardinality(Bad(b, Begin(b, i), i - 1)) \in Nat
    BY <2>2, BadFacts
  <2>4. window + Cardinality(Cuts(b, i)) \in Nat \ {0}
    BY <2>1
  <2>5. (IF Cuts(b, i) = {} THEN BaseSegment ELSE 1) + Cardinality(Bad(b, Begin(b, i), i - 1))
          \in Nat \ {0}
    BY <2>3
  <2>6. (i = m) \in BOOLEAN
    OBVIOUS
  <2> QED  BY <1>1, <2>4, <2>5, <2>6 DEF Reading
<1>4. \A i \in 1..m : Placed(b)[i] = Of(i)
  BY <1>2
<1>5. Placed(b) \in [1..m -> Reading]
  BY <1>2, <1>3
<1>6. Placed(b) \in Seq(Reading) /\ Len(Placed(b)) = m
  BY <1>1, <1>5, ListFacts
<1>7. ASSUME NEW i \in 1..m
      PROVE  /\ Of(i).at = b[i].at /\ Of(i).kind = b[i].kind /\ Of(i).closes = (i = m)
             /\ Of(i).window = window + Cardinality(Cuts(b, i))
             /\ Of(i).segment = (IF Cuts(b, i) = {} THEN BaseSegment ELSE 1)
                                 + Cardinality(Bad(b, Begin(b, i), i - 1))
  BY Zenon
<1> HIDE DEF Of
<1>8. ASSUME NEW i \in 1..m
      PROVE  /\ Placed(b)[i].at = b[i].at /\ Placed(b)[i].kind = b[i].kind
             /\ Placed(b)[i].closes <=> i = m
             /\ Placed(b)[i].window = window + Cardinality(Cuts(b, i))
             /\ Placed(b)[i].segment = (IF Cuts(b, i) = {} THEN BaseSegment ELSE 1)
                                         + Cardinality(Bad(b, Begin(b, i), i - 1))
  <2>1. Placed(b)[i] = Of(i)
    BY <1>4
  <2>2. Placed(b)[i].closes <=> i = m
    BY <1>7, <2>1, Zenon
  <2> QED  BY <1>7, <2>1, <2>2, Zenon
<1> QED
  BY <1>6, <1>8

\* Within a batch windows and segments are as they should be.
LEMMA BatchOrdered ==
  ASSUME NEW b \in Batches, window \in Nat \ {0}, BaseSegment \in Nat \ {0}
  PROVE  WindowsOrdered(Placed(b)) /\ SegmentsOrdered(Placed(b))
<1> DEFINE P == Placed(b)
           m == Len(b)
<1>1. /\ m \in Nat /\ m >= 1
      /\ \A i \in 1..m : b[i].at \in Nat /\ b[i].kind \in Kinds
      /\ \A i, j \in 1..m : i < j => b[i].at < b[j].at
  BY BatchTyped
<1>2. /\ P \in Seq(Reading) /\ Len(P) = m
      /\ \A i \in 1..m :
           /\ P[i].at = b[i].at /\ P[i].kind = b[i].kind
           /\ P[i].closes <=> i = m
           /\ P[i].window = window + Cardinality(Cuts(b, i))
           /\ P[i].segment = (IF Cuts(b, i) = {} THEN BaseSegment ELSE 1)
                                + Cardinality(Bad(b, Begin(b, i), i - 1))
  BY PlacedFacts
<1> HIDE DEF P, m
<1>3. ASSUME NEW i \in 1..m, NEW j \in 1..m, i < j
      PROVE  /\ P[i].window <= P[j].window
             /\ P[i].window = P[j].window =>
                  /\ Cuts(b, i) = Cuts(b, j) /\ \A n \in 1..j : n > i => ~Interrupted(b, n)
                  /\ P[i].segment <= P[j].segment
                  /\ P[i].kind # "good" => P[i].segment < P[j].segment
                  /\ (\A n \in i..(j - 1) : P[n].kind = "good") => P[i].segment = P[j].segment
  <2> DEFINE B == Begin(b, i)
             few == Bad(b, B, i - 1)
             many == Bad(b, B, j - 1)
             base == IF Cuts(b, i) = {} THEN BaseSegment ELSE 1
  <2>1. /\ i \in Nat /\ j \in Nat /\ i <= j /\ 1 <= i /\ i \in Int /\ j \in Int
    BY <1>1, <1>3
  <2>2. /\ Cardinality(Cuts(b, i)) \in Nat /\ Cardinality(Cuts(b, j)) \in Nat
        /\ Cardinality(Cuts(b, i)) <= Cardinality(Cuts(b, j))
        /\ Cardinality(Cuts(b, i)) = Cardinality(Cuts(b, j)) =>
             Cuts(b, i) = Cuts(b, j) /\ \A n \in 1..j : n > i => ~Interrupted(b, n)
        /\ B \in 1..i
    <3> HIDE DEF Interrupted
    <3>1. j <= j
      BY <2>1
    <3> QED  BY <2>1, <3>1, CutFacts
  <2>3. P[i].window <= P[j].window
    BY <1>2, <2>2
  <2>4. SUFFICES ASSUME P[i].window = P[j].window
                 PROVE  /\ Cuts(b, i) = Cuts(b, j) /\ \A n \in 1..j : n > i => ~Interrupted(b, n)
                        /\ P[i].segment <= P[j].segment
                        /\ P[i].kind # "good" => P[i].segment < P[j].segment
                        /\ (\A n \in i..(j - 1) : P[n].kind = "good") =>
                             P[i].segment = P[j].segment
    BY <2>3
  <2>5. Cuts(b, i) = Cuts(b, j) /\ \A n \in 1..j : n > i => ~Interrupted(b, n)
    <3> HIDE DEF Interrupted
    <3>1. Cardinality(Cuts(b, i)) = Cardinality(Cuts(b, j))
      BY <1>2, <2>2, <2>4
    <3> QED  BY <2>2, <3>1
  <2>6. Begin(b, j) = B
    BY <2>5 DEF Begin
  <2>7. B \in Int /\ i - 1 \in Int /\ j - 1 \in Int
    BY <2>1, <2>2
  <2>8. /\ IsFiniteSet(few) /\ Cardinality(few) \in Nat
        /\ IsFiniteSet(many) /\ Cardinality(many) \in Nat
    BY <2>7, BadFacts
  <2>9. few \subseteq many
    BY <2>1, <2>2 DEF Bad
  <2>10. /\ Cardinality(few) <= Cardinality(many)
         /\ Cardinality(few) = Cardinality(many) => few = many
    BY <2>8, <2>9, FS_Subset
  <2>11. base \in Nat
    OBVIOUS
  <2>12. P[i].segment = base + Cardinality(few) /\ P[j].segment = base + Cardinality(many)
    BY <1>2, <2>5, <2>6
  <2>13. P[i].kind # "good" => i \in many /\ i \notin few
    <3>1. i \in B..(j - 1) /\ i \notin B..(i - 1)
      BY <1>3, <2>1, <2>2
    <3>2. P[i].kind = b[i].kind
      BY <1>2
    <3> QED  BY <3>1, <3>2 DEF Bad
  <2>14. (\A n \in i..(j - 1) : P[n].kind = "good") => few = many
    <3> SUFFICES ASSUME \A n \in i..(j - 1) : P[n].kind = "good" PROVE many \subseteq few
      BY <2>9
    <3>1. \A n \in B..(j - 1) : n \in i..(j - 1) \/ n \in B..(i - 1)
      BY <2>1, <2>2
    <3>2. \A n \in i..(j - 1) : b[n].kind = "good"
      <4>1. \A n \in i..(j - 1) : n \in 1..m
        BY <1>1, <2>1
      <4> QED  BY <1>2, <4>1
    <3> QED  BY <3>1, <3>2 DEF Bad
  <2> HIDE DEF base, few, many, Interrupted
  <2> QED  BY <2>5, <2>8, <2>10, <2>11, <2>12, <2>13, <2>14
<1>4. WindowsOrdered(P)
  <2>1. ASSUME NEW n \in 2..m, P[n - 1].window = P[n].window
        PROVE  P[n].at - P[n - 1].at <= MaxGap
    <3>1. n - 1 \in 1..m /\ n \in 1..m /\ n - 1 < n /\ n > 1 /\ n \in 1..n
      BY <1>1
    <3>2. ~Interrupted(b, n)
      <4> HIDE DEF Interrupted
      <4> QED  BY <1>3, <2>1, <3>1
    <3>3. ~(b[n].at - b[n - 1].at > MaxGap)
      BY <3>1, <3>2 DEF Interrupted
    <3> QED  BY <1>1, <1>2, <3>1, <3>3, PolicyTyped
  <2>2. \A i, j \in 1..m : i < j => P[i].at < P[j].at
    BY <1>1, <1>2
  <2> QED  BY <1>2, <1>3, <2>1, <2>2 DEF WindowsOrdered, SameWindow
<1>5. SegmentsOrdered(P)
  <2>1. P[m].closes
    BY <1>1, <1>2
  <2>2. ASSUME NEW i \in 1..m, NEW j \in 1..m, SameWindow(P, i, j)
        PROVE  /\ P[i].segment <= P[j].segment
               /\ P[i].kind = "outside" \/ (P[i].kind = "warning" /\ ~P[i].closes) =>
                    P[i].segment < P[j].segment
               /\ (\A n \in i..(j - 1) : P[n].kind = "good") => P[i].segment = P[j].segment
    BY <1>3, <2>2 DEF SameWindow
  <2> QED  BY <1>2, <2>1, <2>2 DEF SegmentsOrdered
<1> QED
  BY <1>4, <1>5 DEF P

-----------------------------------------------------------------------------
(* A batch after what was read before.                                     *)

\* How the first window of a batch goes on from the readings before it.
Continues(rs, P, w) ==
  LET k == Len(rs)
  IN  /\ \A n \in 1..k : rs[n].window <= w
      /\ \A i \in 1..Len(P) : w <= P[i].window
      /\ k >= 1 /\ rs[k].window = w =>
           /\ \A i \in 1..Len(P) : P[i].window = w =>
                /\ rs[k].at < P[i].at
                /\ rs[k].segment <= P[i].segment
                /\ rs[k].kind = "outside" => rs[k].segment < P[i].segment
                /\ rs[k].kind = "good" /\ (\A j \in 1..(i - 1) : P[j].kind = "good") =>
                     rs[k].segment = P[i].segment
           /\ P[1].window = w => P[1].at - rs[k].at <= MaxGap

LEMMA ReadingTyped ==
  ASSUME NEW rs \in Seq(Reading)
  PROVE  /\ Len(rs) \in Nat /\ DOMAIN rs = 1..Len(rs)
         /\ \A n \in 1..Len(rs) :
              /\ rs[n].at \in Nat /\ rs[n].window \in Nat /\ rs[n].segment \in Nat
              /\ rs[n].closes \in BOOLEAN /\ rs[n].kind \in Kinds
<1>1. Len(rs) \in Nat /\ DOMAIN rs = 1..Len(rs)
  BY LenProperties
<1>2. \A n \in 1..Len(rs) : rs[n] \in Reading
  BY ElementOfSeq
<1> QED
  BY <1>1, <1>2, PolicyTyped DEF Reading

LEMMA Joined ==
  ASSUME NEW rs \in Seq(Reading), NEW P \in Seq(Reading), P # <<>>, NEW w \in Nat,
         WindowsOrdered(rs), SegmentsOrdered(rs), WindowsOrdered(P), SegmentsOrdered(P),
         Continues(rs, P, w)
  PROVE  WindowsOrdered(rs \o P) /\ SegmentsOrdered(rs \o P)
<1> DEFINE k == Len(rs)
           m == Len(P)
           all == rs \o P
<1>1. /\ k \in Nat /\ m \in Nat /\ m >= 1 /\ all \in Seq(Reading) /\ Len(all) = k + m
      /\ \A n \in 1..(k + m) : all[n] = IF n <= k THEN rs[n] ELSE P[n - k]
  BY ReadingTyped, ConcatProperties, EmptySeq
<1>2. /\ \A n \in 1..k : /\ rs[n].at \in Nat /\ rs[n].window \in Nat /\ rs[n].segment \in Nat
                         /\ rs[n].closes \in BOOLEAN
      /\ \A n \in 1..m : /\ P[n].at \in Nat /\ P[n].window \in Nat /\ P[n].segment \in Nat
                         /\ P[n].closes \in BOOLEAN
  BY ReadingTyped
<1> HIDE DEF all
<1>3. \A n \in 1..k : all[n] = rs[n] /\ n \in 1..(k + m)
  BY <1>1
<1>4. \A i \in 1..m : all[k + i] = P[i]
  <2> SUFFICES ASSUME NEW i \in 1..m PROVE all[k + i] = P[i]
    OBVIOUS
  <2>1. k + i \in 1..(k + m) /\ ~(k + i <= k) /\ (k + i) - k = i
    BY <1>1
  <2> QED  BY <1>1, <2>1
<1> HIDE DEF k, m
\* Of two readings, either both were there, or both are new, or the batch is
\* between them.
<1>5. ASSUME NEW a \in 1..(k + m), NEW c \in 1..(k + m), a < c
      PROVE  \/ a \in 1..k /\ c \in 1..k /\ all[a] = rs[a] /\ all[c] = rs[c]
             \/ /\ a - k \in 1..m /\ c - k \in 1..m /\ a - k < c - k
                /\ all[a] = P[a - k] /\ all[c] = P[c - k]
             \/ a \in 1..k /\ c - k \in 1..m /\ all[a] = rs[a] /\ all[c] = P[c - k]
  <2>1. CASE c <= k
    BY <1>1, <1>3, <1>5, <2>1
  <2>2. CASE a > k
    <3>1. a - k \in 1..m /\ c - k \in 1..m /\ a - k < c - k /\ k + (a - k) = a /\ k + (c - k) = c
      BY <1>1, <1>5, <2>2
    <3> QED  BY <1>4, <3>1
  <2>3. CASE a <= k /\ c > k
    <3>1. a \in 1..k /\ c - k \in 1..m /\ k + (c - k) = c
      BY <1>1, <1>5, <2>3
    <3> QED  BY <1>3, <1>4, <3>1
  <2> QED  BY <1>1, <1>5, <2>1, <2>2, <2>3
\* The last case.
<1>6. ASSUME NEW a \in 1..k, NEW i \in 1..m, rs[a].window = P[i].window
      PROVE  /\ k \in 1..k /\ rs[a].window = w /\ rs[k].window = w /\ P[i].window = w
             /\ rs[a].at <= rs[k].at /\ rs[k].at < P[i].at
             /\ (a = k \/ SameWindow(rs, a, k))
  <2>1. k \in 1..k /\ (a = k \/ a < k)
    BY <1>1
  <2>2. rs[a].window <= w /\ w <= P[i].window /\ rs[k].window <= w
    BY <2>1 DEF Continues, k, m
  <2>3. rs[a].window = w /\ P[i].window = w
    BY <1>2, <1>6, <2>2
  <2>4. a < k => rs[a].window <= rs[k].window
    BY <2>1 DEF WindowsOrdered, k
  <2>5. rs[k].window = w
    BY <1>2, <2>1, <2>2, <2>3, <2>4
  <2>6. a = k \/ SameWindow(rs, a, k)
    BY <2>1, <2>3, <2>5 DEF SameWindow
  <2>7. rs[a].at <= rs[k].at
    <3>1. SameWindow(rs, a, k) => rs[a].at < rs[k].at
      BY <2>1 DEF WindowsOrdered, k
    <3>2. rs[a].at \in Nat /\ rs[k].at \in Nat
      BY <1>2, <2>1
    <3> QED  BY <2>6, <3>1, <3>2
  <2>8. rs[k].at < P[i].at
    BY <2>1, <2>3, <2>5 DEF Continues, k, m
  <2> QED  BY <2>1, <2>3, <2>5, <2>6, <2>7, <2>8
<1>7. WindowsOrdered(all)
  <2>1. ASSUME NEW a \in 1..(k + m), NEW c \in 1..(k + m), a < c
        PROVE  /\ all[a].window <= all[c].window
               /\ all[a].window = all[c].window => all[a].at < all[c].at
    <3>1. CASE a \in 1..k /\ c \in 1..k /\ all[a] = rs[a] /\ all[c] = rs[c]
      BY <2>1, <3>1 DEF WindowsOrdered, SameWindow, k
    <3>2. CASE /\ a - k \in 1..m /\ c - k \in 1..m /\ a - k < c - k
               /\ all[a] = P[a - k] /\ all[c] = P[c - k]
      BY <3>2 DEF WindowsOrdered, SameWindow, m
    <3>3. CASE a \in 1..k /\ c - k \in 1..m /\ all[a] = rs[a] /\ all[c] = P[c - k]
      <4>1. rs[a].window <= w /\ w <= P[c - k].window
        BY <3>3 DEF Continues, k, m
      <4>2. rs[a].window <= P[c - k].window
        BY <1>2, <3>3, <4>1
      <4>3. rs[a].window = P[c - k].window => rs[a].at < P[c - k].at
        <5> SUFFICES ASSUME rs[a].window = P[c - k].window PROVE rs[a].at < P[c - k].at
          OBVIOUS
        <5>1. k \in 1..k /\ rs[a].at <= rs[k].at /\ rs[k].at < P[c - k].at
          BY <1>6, <3>3
        <5> QED  BY <1>2, <3>3, <5>1
      <4> QED  BY <3>3, <4>2, <4>3
    <3> QED  BY <1>5, <2>1, <3>1, <3>2, <3>3
  <2>2. ASSUME NEW n \in 2..(k + m), all[n - 1].window = all[n].window
        PROVE  all[n].at - all[n - 1].at <= MaxGap
    <3>1. CASE n <= k
      <4>1. n \in 2..k /\ all[n] = rs[n] /\ all[n - 1] = rs[n - 1]
        BY <1>1, <1>3, <3>1
      <4> QED  BY <2>2, <4>1 DEF WindowsOrdered, k
    <3>2. CASE n = k + 1
      <4>1. k \in 1..k /\ 1 \in 1..m /\ all[n - 1] = rs[k] /\ all[n] = P[1]
        BY <1>1, <1>3, <1>4, <3>2
      <4>2. rs[k].window = w /\ P[1].window = w
        BY <1>6, <2>2, <4>1
      <4> QED  BY <4>1, <4>2 DEF Continues, k, m
    <3>3. CASE n > k + 1
      <4>1. n - k \in 2..m /\ (n - 1) - k \in 1..m /\ (n - k) - 1 = (n - 1) - k /\ n - k \in 1..m
        BY <1>1, <3>3
      <4>2. k + (n - k) = n /\ k + ((n - 1) - k) = n - 1
        BY <1>1
      <4>3. all[n] = P[n - k] /\ all[n - 1] = P[(n - k) - 1]
        BY <1>4, <4>1, <4>2
      <4> QED  BY <2>2, <4>1, <4>3 DEF WindowsOrdered, m
    <3> QED  BY <1>1, <3>1, <3>2, <3>3
  <2> QED  BY <1>1, <2>1, <2>2 DEF WindowsOrdered, SameWindow
<1>8. SegmentsOrdered(all)
  <2>1. all[k + m].closes
    <3>1. m \in 1..m /\ P[m].closes
      BY <1>1 DEF SegmentsOrdered, m
    <3> QED  BY <1>4, <3>1
  <2>2. ASSUME NEW a \in 1..(k + m), NEW c \in 1..(k + m), a < c,
               all[a].window = all[c].window
        PROVE  /\ all[a].segment <= all[c].segment
               /\ all[a].kind = "outside" \/ (all[a].kind = "warning" /\ ~all[a].closes) =>
                    all[a].segment < all[c].segment
               /\ (\A j \in a..(c - 1) : all[j].kind = "good") =>
                    all[a].segment = all[c].segment
    <3>1. CASE a \in 1..k /\ c \in 1..k /\ all[a] = rs[a] /\ all[c] = rs[c]
      <4>1. \A j \in a..(c - 1) : all[j] = rs[j]
        <5>1. \A j \in a..(c - 1) : j \in 1..k
          BY <1>1, <3>1
        <5> QED  BY <1>3, <5>1
      <4>2. SameWindow(rs, a, c)
        BY <2>2, <3>1 DEF SameWindow
      <4> QED  BY <3>1, <4>1, <4>2 DEF SegmentsOrdered, k
    <3>2. CASE /\ a - k \in 1..m /\ c - k \in 1..m /\ a - k < c - k
               /\ all[a] = P[a - k] /\ all[c] = P[c - k]
      <4>1. (\A j \in a..(c - 1) : all[j].kind = "good") =>
              \A j \in (a - k)..((c - k) - 1) : P[j].kind = "good"
        <5>1. \A j \in (a - k)..((c - k) - 1) : k + j \in a..(c - 1) /\ j \in 1..m
          BY <1>1, <3>2
        <5> QED  BY <1>4, <5>1
      <4>2. SameWindow(P, a - k, c - k)
        BY <2>2, <3>2 DEF SameWindow
      <4> QED  BY <3>2, <4>1, <4>2 DEF SegmentsOrdered, m
    <3>3. CASE a \in 1..k /\ c - k \in 1..m /\ all[a] = rs[a] /\ all[c] = P[c - k]
      <4> DEFINE i == c - k
      <4>1. i \in 1..m /\ rs[a].window = P[i].window
        BY <2>2, <3>3
      <4>2. /\ k \in 1..k /\ rs[k].window = w /\ P[i].window = w
            /\ (a = k \/ SameWindow(rs, a, k))
        BY <1>6, <3>3, <4>1
      <4>3. /\ rs[k].segment <= P[i].segment
            /\ rs[k].kind = "outside" => rs[k].segment < P[i].segment
            /\ rs[k].kind = "good" /\ (\A j \in 1..(i - 1) : P[j].kind = "good") =>
                 rs[k].segment = P[i].segment
        BY <4>1, <4>2 DEF Continues, k, m
      <4>4. rs[k].closes
        BY <1>1, <4>2, EmptySeq DEF SegmentsOrdered, k
      <4>5. (\A j \in a..(c - 1) : all[j].kind = "good") =>
              /\ \A j \in a..(k - 1) : rs[j].kind = "good"
              /\ rs[k].kind = "good" /\ \A j \in 1..(i - 1) : P[j].kind = "good"
        <5>1. /\ \A j \in a..(k - 1) : j \in 1..k /\ j \in a..(c - 1)
              /\ k \in a..(c - 1)
              /\ \A j \in 1..(i - 1) : j \in 1..m /\ k + j \in a..(c - 1)
          BY <1>1, <3>3, <4>1
        <5> QED  BY <1>3, <1>4, <4>2, <5>1
      <4>6. SameWindow(rs, a, k) =>
              /\ rs[a].segment <= rs[k].segment
              /\ rs[a].kind = "outside" \/ (rs[a].kind = "warning" /\ ~rs[a].closes) =>
                   rs[a].segment < rs[k].segment
              /\ (\A j \in a..(k - 1) : rs[j].kind = "good") => rs[a].segment = rs[k].segment
        BY <3>3, <4>2 DEF SegmentsOrdered, k
      <4> HIDE DEF i
      <4>7. /\ rs[a].segment \in Nat /\ rs[k].segment \in Nat /\ P[i].segment \in Nat
        BY <1>2, <3>3, <4>1, <4>2
      <4>8. /\ rs[a].segment <= P[i].segment
            /\ rs[a].kind = "outside" \/ (rs[a].kind = "warning" /\ ~rs[a].closes) =>
                 rs[a].segment < P[i].segment
        <5>1. CASE a = k
          <6>1. ~(rs[a].kind = "warning" /\ ~rs[a].closes)
            BY <4>4, <5>1, Zenon
          <6> QED  BY <4>3, <5>1, <6>1
        <5>2. CASE SameWindow(rs, a, k)
          <6>1. rs[a].segment <= P[i].segment
            BY <4>3, <4>6, <4>7, <5>2
          <6>2. rs[a].segment < rs[k].segment => rs[a].segment < P[i].segment
            BY <4>3, <4>7
          <6>3. rs[a].kind = "outside" \/ (rs[a].kind = "warning" /\ ~rs[a].closes) =>
                  rs[a].segment < rs[k].segment
            BY <4>6, <5>2, Zenon
          <6> QED  BY <6>1, <6>2, <6>3, Zenon
        <5> QED  BY <4>2, <5>1, <5>2
      <4>9. (\A j \in a..(c - 1) : all[j].kind = "good") => rs[a].segment = P[i].segment
        BY <4>2, <4>3, <4>5, <4>6
      <4> QED  BY <3>3, <4>8, <4>9 DEF i
    <3> QED  BY <1>5, <2>2, <3>1, <3>2, <3>3
  <2> QED  BY <1>1, <2>1, <2>2 DEF SegmentsOrdered, SameWindow
<1> QED
  BY <1>7, <1>8 DEF all

-----------------------------------------------------------------------------
(* The invariant is inductive.                                             *)

LEMMA BatchContinues ==
  ASSUME RecoveryInv, NEW b \in Batches, BatchAllowed(b)
  PROVE  BaseSegment \in Nat \ {0} /\ Continues(readings, Placed(b), window)
<1> DEFINE k == Len(readings)
           m == Len(b)
           P == Placed(b)
<1>1. /\ TypeOK /\ WindowsOrdered(readings) /\ SegmentsOrdered(readings) /\ WindowIsLast
      /\ window \in Nat \ {0}
      /\ k \in Nat /\ \A n \in 1..k : /\ readings[n].at \in Nat /\ readings[n].segment \in Nat
                                      /\ readings[n].segment >= 1 /\ readings[n].window <= window
  BY ReadingsTyped DEF RecoveryInv, TypeOK, WindowIsLast
<1>2. IF Current = <<>>
      THEN /\ \A n \in 1..k : readings[n].window # window
           /\ BaseSegment = 1
      ELSE /\ k \in 1..k /\ readings[k].window = window /\ Last(Current) = readings[k]
           /\ BaseSegment = IF readings[k].kind = "outside" THEN readings[k].segment + 1
                            ELSE readings[k].segment
  BY <1>1, CurrentEnd
<1>3. BaseSegment \in Nat \ {0}
  BY <1>1, <1>2
<1>4. /\ m \in Nat /\ m >= 1
      /\ \A i \in 1..m : b[i].at \in Nat
      /\ \A i, j \in 1..m : i < j => b[i].at < b[j].at
  BY BatchTyped
<1>5. /\ P \in Seq(Reading) /\ Len(P) = m
      /\ \A i \in 1..m :
           /\ P[i].at = b[i].at /\ P[i].kind = b[i].kind
           /\ P[i].window = window + Cardinality(Cuts(b, i))
           /\ P[i].segment = (IF Cuts(b, i) = {} THEN BaseSegment ELSE 1)
                                + Cardinality(Bad(b, Begin(b, i), i - 1))
  BY <1>1, <1>3, PlacedFacts
<1> HIDE DEF P, k, m
<1>6. \A i \in 1..m : window <= P[i].window
  <2> SUFFICES ASSUME NEW i \in 1..m PROVE window <= P[i].window
    OBVIOUS
  <2>1. i \in Nat /\ i <= i
    BY <1>4
  <2>2. Cardinality(Cuts(b, i)) \in Nat
    BY <2>1, CutFacts
  <2> QED  BY <1>1, <1>5, <2>2
<1>7. ASSUME k >= 1, readings[k].window = window, NEW i \in 1..m, P[i].window = window
      PROVE  /\ readings[k].at < P[i].at
             /\ readings[k].segment <= P[i].segment
             /\ readings[k].kind = "outside" => readings[k].segment < P[i].segment
             /\ readings[k].kind = "good" /\ (\A j \in 1..(i - 1) : P[j].kind = "good") =>
                  readings[k].segment = P[i].segment
             /\ P[1].at - readings[k].at <= MaxGap
  <2>1. i \in Nat /\ 1 <= i /\ i <= i /\ 1 \in 1..i /\ 1 \in 1..m /\ k \in 1..k
        /\ 1 \in Int /\ i - 1 \in Int
    BY <1>1, <1>4, <1>7
  <2>2. Current # <<>>
    BY <1>2, <1>7, <2>1
  <2>3. Last(Current) = readings[k]
    BY <1>2, <2>2
  <2>4. Cardinality(Cuts(b, i)) = 0
    <3>1. Cardinality(Cuts(b, i)) \in Nat
      BY <2>1, CutFacts
    <3> QED  BY <1>1, <1>5, <1>7, <3>1
  <2>5. \A n \in 1..i : ~Interrupted(b, n)
    <3> HIDE DEF Interrupted
    <3> QED  BY <2>1, <2>4, CutFacts
  <2>6. Cuts(b, i) = {} /\ Begin(b, i) = 1
    <3> HIDE DEF Interrupted
    <3>1. Cuts(b, i) = {}
      BY <2>5 DEF Cuts
    <3> QED  BY <3>1 DEF Begin
  <2>7. ~Interrupted(b, 1)
    BY <2>1, <2>5
  <2>8. ~(b[1].at - readings[k].at > MaxGap)
    BY <2>2, <2>3, <2>7 DEF Interrupted
  <2>9. b[1].at > readings[k].at
    BY <2>2, <2>3 DEF BatchAllowed
  <2>10. i = 1 \/ b[1].at < b[i].at
    BY <1>4, <2>1
  <2>11. readings[k].at < P[i].at /\ P[1].at - readings[k].at <= MaxGap
    BY <1>1, <1>4, <1>5, <2>1, <2>8, <2>9, <2>10, PolicyTyped
  <2>12. P[i].segment = BaseSegment + Cardinality(Bad(b, 1, i - 1))
         /\ Cardinality(Bad(b, 1, i - 1)) \in Nat
    BY <1>5, <2>1, <2>6, BadFacts
  <2>13. BaseSegment = IF readings[k].kind = "outside" THEN readings[k].segment + 1
                       ELSE readings[k].segment
    BY <1>2, <2>2
  <2>14. (\A j \in 1..(i - 1) : P[j].kind = "good") => Cardinality(Bad(b, 1, i - 1)) = 0
    <3> SUFFICES ASSUME \A j \in 1..(i - 1) : P[j].kind = "good"
                 PROVE  Cardinality(Bad(b, 1, i - 1)) = 0
      OBVIOUS
    <3>1. \A j \in 1..(i - 1) : j \in 1..m
      BY <1>4, <2>1
    <3>2. Bad(b, 1, i - 1) = {}
      BY <1>5, <3>1 DEF Bad
    <3> QED  BY <3>2, FS_EmptySet
  <2>15. readings[k].segment \in Nat
    BY <1>1, <2>1
  <2>16. /\ readings[k].segment <= P[i].segment
         /\ readings[k].kind = "outside" => readings[k].segment < P[i].segment
         /\ readings[k].kind = "good" /\ (\A j \in 1..(i - 1) : P[j].kind = "good") =>
                  readings[k].segment = P[i].segment
    BY <2>12, <2>13, <2>14, <2>15
  <2> QED  BY <2>11, <2>16
<1>8. Continues(readings, P, window)
  <2>1. 1 \in 1..m
    BY <1>4
  <2> QED  BY <1>1, <1>5, <1>6, <1>7, <2>1 DEF Continues, k
<1> QED
  BY <1>3, <1>8 DEF P

LEMMA RecoveryInit == Init => RecoveryInv
<1> SUFFICES ASSUME Init PROVE RecoveryInv
  OBVIOUS
<1>1. readings = <<>> /\ Len(readings) = 0
  BY DEF Init
<1>2. TypeOK
  BY <1>1 DEF Init, TypeOK
<1>3. WindowsOrdered(readings) /\ SegmentsOrdered(readings) /\ InstantsDistinct
  BY <1>1 DEF WindowsOrdered, SegmentsOrdered, InstantsDistinct
<1>4. WindowIsLast /\ ReadAfterIntervention
  BY <1>1 DEF Init, WindowIsLast, ReadAfterIntervention
<1>5. QualifiedMeetsPolicy
  BY DEF Init, QualifiedMeetsPolicy
<1> QED
  BY <1>2, <1>3, <1>4, <1>5 DEF RecoveryInv

LEMMA AddStep ==
  ASSUME RecoveryInv, NEW b \in Batches, AddObservations(b)
  PROVE  RecoveryInv'
<1> DEFINE k == Len(readings)
           m == Len(b)
           P == Placed(b)
<1>1. /\ BatchAllowed(b) /\ readings' = readings \o P /\ window' = Last(P).window
      /\ status' = "observing"
      /\ UNCHANGED <<executions, executedAt, handovers, installedAt, verdict>>
  BY DEF AddObservations
<1>2. /\ TypeOK /\ WindowsOrdered(readings) /\ SegmentsOrdered(readings) /\ WindowIsLast
      /\ InstantsDistinct /\ ReadAfterIntervention /\ window \in Nat \ {0}
      /\ readings \in Seq(Reading) /\ k \in Nat /\ DOMAIN readings = 1..k
      /\ \A n \in 1..k : readings[n].window \in Nat /\ readings[n].at \in Nat
  BY ReadingsTyped DEF RecoveryInv, TypeOK
<1>3. BaseSegment \in Nat \ {0} /\ Continues(readings, P, window)
  BY <1>1, BatchContinues
<1>4. /\ m \in Nat /\ m >= 1 /\ DOMAIN b = 1..m
      /\ \A i \in 1..m : b[i].at \in Nat
      /\ \A i, j \in 1..m : i < j => b[i].at < b[j].at
  BY BatchTyped
<1>5. /\ P \in Seq(Reading) /\ Len(P) = m /\ \A i \in 1..m : P[i].at = b[i].at
      /\ WindowsOrdered(P) /\ SegmentsOrdered(P)
  BY <1>2, <1>3, PlacedFacts, BatchOrdered
<1> HIDE DEF P, k, m
<1>6. P # <<>>
  BY <1>4, <1>5, EmptySeq
<1>7. WindowsOrdered(readings') /\ SegmentsOrdered(readings')
  BY <1>1, <1>2, <1>3, <1>5, <1>6, Joined
<1>8. /\ readings' \in Seq(Reading) /\ Len(readings') = k + m
      /\ \A n \in 1..(k + m) : readings'[n] = IF n <= k THEN readings[n] ELSE P[n - k]
  BY <1>1, <1>2, <1>5, ConcatProperties DEF k
<1>9. DOMAIN readings' = 1..(k + m)
  BY <1>8, LenProperties
<1>10. \A n \in 1..(k + m) : \/ n \in 1..k /\ readings'[n] = readings[n]
                             \/ n - k \in 1..m /\ readings'[n] = P[n - k]
  <2> SUFFICES ASSUME NEW n \in 1..(k + m)
               PROVE  \/ n \in 1..k /\ readings'[n] = readings[n]
                      \/ n - k \in 1..m /\ readings'[n] = P[n - k]
    OBVIOUS
  <2>1. CASE n <= k
    BY <1>2, <1>4, <1>8, <2>1
  <2>2. CASE ~(n <= k)
    BY <1>2, <1>4, <1>8, <2>2
  <2> QED  BY <2>1, <2>2
<1>11. /\ m \in 1..m /\ window' = P[m].window /\ window' \in Nat \ {0}
       /\ window <= window' /\ \A i \in 1..m : P[i].window <= window'
  <2>1. m \in 1..m /\ window' = P[m].window
    BY <1>1, <1>4, <1>5 DEF Last
  <2>2. \A i \in 1..m : P[i] \in Reading
    BY <1>5, ElementOfSeq
  <2>3. \A i \in 1..m : P[i].window \in Nat \ {0}
    BY <2>2 DEF Reading
  <2>4. window <= P[m].window
    BY <1>3, <1>5, <2>1 DEF Continues
  <2>5. \A i \in 1..m : i < m => P[i].window <= P[m].window
    BY <1>5, <2>1 DEF WindowsOrdered
  <2> QED  BY <1>4, <2>1, <2>3, <2>4, <2>5
<1>12. TypeOK'
  BY <1>1, <1>2, <1>8, <1>11 DEF TypeOK, Reading
<1>13. InstantsDistinct'
  <2> SUFFICES ASSUME NEW a \in 1..(k + m), NEW c \in 1..(k + m),
                      readings'[a].at = readings'[c].at
               PROVE  a = c
    BY <1>9 DEF InstantsDistinct
  <2>1. \A n \in 1..k, i \in 1..m : P[i].at # readings[n].at
    <3> SUFFICES ASSUME NEW n \in 1..k, NEW i \in 1..m PROVE P[i].at # readings[n].at
      OBVIOUS
    <3>1. n \in DOMAIN readings /\ i \in DOMAIN b
      BY <1>2, <1>4
    <3>2. b[i].at # readings[n].at
      BY <1>1, <3>1 DEF BatchAllowed
    <3> QED  BY <1>5, <3>2
  <2>2. \A i, j \in 1..m : P[i].at = P[j].at => i = j
    <3> SUFFICES ASSUME NEW i \in 1..m, NEW j \in 1..m, P[i].at = P[j].at PROVE i = j
      OBVIOUS
    <3>1. ~(i < j) /\ ~(j < i)
      BY <1>4, <1>5
    <3> QED  BY <3>1
  <2>3. CASE a \in 1..k /\ readings'[a] = readings[a]
    <3>1. ~(c - k \in 1..m /\ readings'[c] = P[c - k])
      BY <2>1, <2>3
    <3>2. c \in 1..k /\ readings'[c] = readings[c]
      BY <1>10, <3>1
    <3> QED  BY <1>2, <2>3, <3>2 DEF InstantsDistinct
  <2>4. CASE a - k \in 1..m /\ readings'[a] = P[a - k]
    <3>1. ~(c \in 1..k /\ readings'[c] = readings[c])
      BY <2>1, <2>4
    <3>2. c - k \in 1..m /\ readings'[c] = P[c - k]
      BY <1>10, <3>1
    <3>3. a - k = c - k
      BY <2>2, <2>4, <3>2
    <3> QED  BY <1>2, <1>4, <3>3
  <2> QED  BY <1>10, <2>3, <2>4
<1>14. WindowIsLast'
  <2>1. \A n \in 1..(k + m) : readings'[n].window <= window'
    <3> SUFFICES ASSUME NEW n \in 1..(k + m) PROVE readings'[n].window <= window'
      OBVIOUS
    <3>1. CASE n \in 1..k /\ readings'[n] = readings[n]
      <4>1. readings[n].window <= window
        BY <1>2, <3>1 DEF WindowIsLast, k
      <4> QED  BY <1>2, <1>11, <3>1, <4>1
    <3>2. CASE n - k \in 1..m /\ readings'[n] = P[n - k]
      BY <1>11, <3>2
    <3> QED  BY <1>10, <3>1, <3>2
  <2>2. verdict'.window <= window'
    <3>1. verdict.window \in Nat /\ verdict.window <= window
      BY <1>2 DEF TypeOK, WindowIsLast
    <3> QED  BY <1>1, <1>2, <1>11, <3>1
  <2> QED  BY <1>1, <1>8, <2>1, <2>2 DEF WindowIsLast
<1>15. ReadAfterIntervention'
  <2> SUFFICES ASSUME NEW n \in 1..(k + m), readings'[n].window = window'
               PROVE  readings'[n].at > executedAt /\ readings'[n].at > installedAt
    BY <1>1, <1>8 DEF ReadAfterIntervention
  <2>1. CASE n \in 1..k /\ readings'[n] = readings[n]
    <3>1. readings[n].window <= window
      BY <1>2, <2>1 DEF WindowIsLast, k
    <3>2. readings[n].window = window
      BY <1>2, <1>11, <2>1, <3>1
    <3> QED  BY <1>2, <2>1, <3>2 DEF ReadAfterIntervention, k
  <2>2. CASE n - k \in 1..m /\ readings'[n] = P[n - k]
    BY <1>1, <1>4, <1>5, <2>2 DEF BatchAllowed
  <2> QED  BY <1>10, <2>1, <2>2
<1>16. QualifiedMeetsPolicy'
  BY <1>1 DEF QualifiedMeetsPolicy
<1> QED
  BY <1>7, <1>12, <1>13, <1>14, <1>15, <1>16 DEF RecoveryInv

\* Steps that leave the readings alone and may begin a new window.
LEMMA OtherSteps ==
  ASSUME RecoveryInv, UNCHANGED readings, TypeOK', QualifiedMeetsPolicy', window' >= window,
         verdict'.window <= window',
         \A n \in 1..Len(readings) : readings[n].window = window' =>
           /\ readings[n].window = window /\ status' # "executed"
           /\ readings[n].at > executedAt' /\ readings[n].at > installedAt'
  PROVE  RecoveryInv'
<1>1. /\ window \in Nat /\ window' \in Nat
      /\ \A n \in 1..Len(readings) : readings[n].window \in Nat /\ readings[n].window <= window
  BY ReadingsTyped DEF RecoveryInv, TypeOK, WindowIsLast
<1>2. WindowIsLast'
  BY <1>1 DEF WindowIsLast
<1>3. ReadAfterIntervention'
  BY DEF ReadAfterIntervention
<1>4. WindowsOrdered(readings') /\ SegmentsOrdered(readings') /\ InstantsDistinct'
  BY DEF RecoveryInv, InstantsDistinct
<1> QED
  BY <1>2, <1>3, <1>4 DEF RecoveryInv

LEMMA VerifyStep ==
  ASSUME RecoveryInv, NEW minutes \in 1..(MinStable + 1), NEW count \in 2..(MinReadings + 1),
         VerifyRecovery(minutes, count)
  PROVE  RecoveryInv'
<1> DEFINE qualified == EvaluateRecovery(Evidence, minutes, count)
<1>1. /\ status = "observing" /\ minutes >= MinStable /\ count >= MinReadings
      /\ verdict' = [window |-> window, qualified |-> qualified]
      /\ status' = (IF qualified THEN "recovery_passed" ELSE status)
      /\ UNCHANGED <<executions, executedAt, handovers, installedAt, window, readings>>
  BY DEF VerifyRecovery
<1>2. /\ TypeOK /\ WindowIsLast /\ ReadAfterIntervention /\ window \in Nat
  BY DEF RecoveryInv, TypeOK
<1>3. qualified \in BOOLEAN
  BY DEF EvaluateRecovery
<1>4. qualified => EvaluateRecovery(Evidence, MinStable, MinReadings)
  <2> SUFFICES ASSUME qualified PROVE EvaluateRecovery(Evidence, MinStable, MinReadings)
    OBVIOUS
  <2>1. /\ Len(Evidence) >= count /\ Span(Evidence) >= minutes
        /\ \A n \in 2..Len(Evidence) : Evidence[n].at - Evidence[n - 1].at \in 1..MaxGap
    BY DEF EvaluateRecovery
  <2>2. Len(Evidence) \in Nat /\ Span(Evidence) \in Int
    <3>1. PICK f : CurrentFrom(f)
      BY CurrentFacts DEF RecoveryInv, WindowIsLast
    <3>2. Evidence \in Seq(Reading)
      BY <3>1, ChosenFacts DEF Evidence, CurrentFrom
    <3> HIDE DEF qualified
    <3>3. CASE Evidence = <<>>
      BY <3>3, EmptySeq DEF Span
    <3>4. CASE Evidence # <<>>
      <4>1. Len(Evidence) \in Nat /\ 1 \in 1..Len(Evidence) /\ Len(Evidence) \in 1..Len(Evidence)
        BY <3>2, <3>4, EmptySeq
      <4>2. Evidence[1] \in Reading /\ Evidence[Len(Evidence)] \in Reading
        BY <3>2, <4>1, ElementOfSeq
      <4>3. Evidence[1].at \in Nat /\ Evidence[Len(Evidence)].at \in Nat
        BY <4>2, PolicyTyped DEF Reading
      <4> QED  BY <3>4, <4>1, <4>3 DEF Span, Last
    <3> QED  BY <3>3, <3>4
  <2> HIDE DEF qualified
  <2>3. Len(Evidence) >= MinReadings /\ Span(Evidence) >= MinStable
    BY <1>1, <2>1, <2>2, PolicyTyped
  <2> QED  BY <2>1, <2>3 DEF EvaluateRecovery
<1>5. Evidence' = Evidence
  BY <1>1 DEF Evidence, Current, OfWindow
<1> HIDE DEF qualified
<1>6. TypeOK'
  BY <1>1, <1>2, <1>3 DEF TypeOK
<1>7. QualifiedMeetsPolicy'
  <2> SUFFICES ASSUME WindowQualified', status' = "recovery_passed"
               PROVE  EvaluateRecovery(Evidence, MinStable, MinReadings)
    BY <1>5 DEF QualifiedMeetsPolicy, EvaluateRecovery
  <2>1. qualified
    BY <1>1
  <2> QED  BY <1>4, <2>1
<1>8. verdict'.window = window
  BY <1>1
<1>9. status' # "executed"
  BY <1>1
<1> QED
  BY <1>1, <1>2, <1>6, <1>7, <1>8, <1>9, OtherSteps DEF ReadAfterIntervention

LEMMA SupplementSteps ==
  ASSUME RecoveryInv, NEW t \in {0} \cup Times
  PROVE  /\ SupplementVerification(t) => RecoveryInv'
         /\ SupplementDeviation(t) => RecoveryInv'
<1>1. /\ TypeOK /\ WindowIsLast /\ QualifiedMeetsPolicy /\ window \in Nat /\ t \in Nat
      /\ verdict.window \in Nat /\ verdict.window <= window
      /\ \A n \in 1..Len(readings) : readings[n].window \in Nat /\ readings[n].window <= window
  BY ReadingsTyped, PolicyTyped DEF RecoveryInv, TypeOK, WindowIsLast
<1>2. ASSUME SupplementVerification(t) PROVE RecoveryInv'
  <2>1. /\ window' = window + 1 /\ status' = "executed" /\ executions' = executions + 1
        /\ executedAt' = t /\ UNCHANGED <<handovers, installedAt, readings, verdict>>
    BY <1>2 DEF SupplementVerification
  <2>2. TypeOK'
    BY <1>1, <2>1 DEF TypeOK
  <2>3. QualifiedMeetsPolicy'
    BY <2>1 DEF QualifiedMeetsPolicy
  <2>4. \A n \in 1..Len(readings) : readings[n].window # window'
    BY <1>1, <2>1
  <2> QED  BY <1>1, <2>1, <2>2, <2>3, <2>4, OtherSteps
<1>3. ASSUME SupplementDeviation(t) PROVE RecoveryInv'
  <2>1. /\ status = "executed" /\ executions' = executions + 1 /\ executedAt' = t
        /\ UNCHANGED <<status, handovers, installedAt, window, readings, verdict>>
    BY <1>3 DEF SupplementDeviation
  <2>2. TypeOK'
    BY <1>1, <2>1 DEF TypeOK
  <2>3. QualifiedMeetsPolicy'
    BY <2>1 DEF QualifiedMeetsPolicy
  <2>4. \A n \in 1..Len(readings) : readings[n].window # window'
    BY <1>1, <2>1 DEF WindowIsLast
  <2> QED  BY <1>1, <2>1, <2>2, <2>3, <2>4, OtherSteps
<1> QED
  BY <1>2, <1>3

LEMMA HandoverStep ==
  ASSUME RecoveryInv, NEW t \in Times, HandoverSensor(t)
  PROVE  RecoveryInv'
<1>1. /\ TypeOK /\ WindowIsLast /\ QualifiedMeetsPolicy /\ ReadAfterIntervention
      /\ window \in Nat /\ t \in Nat
      /\ verdict.window \in Nat /\ verdict.window <= window
      /\ \A n \in 1..Len(readings) : readings[n].window \in Nat /\ readings[n].window <= window
  BY ReadingsTyped, PolicyTyped DEF RecoveryInv, TypeOK, WindowIsLast
<1>2. /\ handovers' = handovers + 1 /\ installedAt' = t
      /\ window' = (IF Current # <<>> THEN window + 1 ELSE window)
      /\ UNCHANGED <<status, executions, executedAt, readings, verdict>>
  BY DEF HandoverSensor
<1>3. TypeOK'
  BY <1>1, <1>2 DEF TypeOK
<1>4. \A n \in 1..Len(readings) : readings[n].window # window'
  <2>1. CASE Current # <<>>
    BY <1>1, <1>2, <2>1
  <2>2. CASE Current = <<>>
    <3>1. \A n \in 1..Len(readings) : readings[n].window # window
      BY <1>1, <2>2, CurrentEnd DEF RecoveryInv
    <3> QED  BY <1>2, <2>2, <3>1
  <2> QED  BY <2>1, <2>2
<1>5. QualifiedMeetsPolicy'
  <2>1. CASE Current # <<>>
    BY <1>1, <1>2, <2>1 DEF QualifiedMeetsPolicy, WindowQualified
  <2>2. CASE Current = <<>>
    <3>1. window' = window /\ readings' = readings
      BY <1>2, <2>2
    <3>2. Evidence' = Evidence
      BY <3>1 DEF Evidence, Current, OfWindow
    <3>3. WindowQualified' <=> WindowQualified
      BY <1>2, <3>1 DEF WindowQualified
    <3> QED  BY <1>1, <1>2, <3>2, <3>3 DEF QualifiedMeetsPolicy, EvaluateRecovery
  <2> QED  BY <2>1, <2>2
<1>6. window' >= window /\ verdict'.window <= window'
  BY <1>1, <1>2
<1> QED
  BY <1>2, <1>3, <1>4, <1>5, <1>6, OtherSteps

LEMMA RecoveryStep == RecoveryInv /\ [Next]_vars => RecoveryInv'
<1> SUFFICES ASSUME RecoveryInv, [Next]_vars PROVE RecoveryInv'
  OBVIOUS
<1>1. CASE \E b \in Batches : AddObservations(b)
  BY <1>1, AddStep
<1>2. CASE \E minutes \in 1..(MinStable + 1), count \in 2..(MinReadings + 1) :
             VerifyRecovery(minutes, count)
  BY <1>2, VerifyStep
<1>3. CASE \E t \in {0} \cup Times : SupplementVerification(t) \/ SupplementDeviation(t)
  BY <1>3, SupplementSteps
<1>4. CASE \E t \in Times : HandoverSensor(t)
  BY <1>4, HandoverStep
<1>5. CASE UNCHANGED vars
  <2>1. UNCHANGED <<status, executions, executedAt, handovers, installedAt, window, readings, verdict>>
    BY <1>5 DEF vars
  <2>2. Evidence' = Evidence /\ (WindowQualified' <=> WindowQualified)
    BY <2>1 DEF Evidence, Current, OfWindow, WindowQualified
  <2>3. QualifiedMeetsPolicy'
    BY <2>1, <2>2 DEF RecoveryInv, QualifiedMeetsPolicy, EvaluateRecovery
  <2>4. TypeOK' /\ WindowIsLast' /\ ReadAfterIntervention' /\ InstantsDistinct'
        /\ WindowsOrdered(readings') /\ SegmentsOrdered(readings')
    BY <2>1 DEF RecoveryInv, TypeOK, WindowIsLast, ReadAfterIntervention, InstantsDistinct
  <2> QED  BY <2>3, <2>4 DEF RecoveryInv
<1> QED
  BY <1>1, <1>2, <1>3, <1>4, <1>5 DEF Next

LEMMA RecoveryInvariant == Spec => []RecoveryInv
BY RecoveryInit, RecoveryStep, PTL DEF Spec

-----------------------------------------------------------------------------
(* The readings.                                                           *)

\* A window is unbroken and none is reopened, however the readings of
\* Service.AddObservations were spread over requests, and no instant is read
\* twice; every variable keeps its type.
THEOREM ReadingsAreSound == Spec => []ReadingsSound
<1>1. ASSUME RecoveryInv PROVE WindowUnbroken
  <2>1. /\ Len(readings) \in Nat /\ DOMAIN readings = 1..Len(readings)
        /\ \A n \in 1..Len(readings) : readings[n].at \in Nat
        /\ WindowsOrdered(readings)
    BY <1>1, ReadingsTyped DEF RecoveryInv
  <2>2. \A m, n \in DOMAIN readings : m < n => readings[m].window <= readings[n].window
    BY <2>1 DEF WindowsOrdered
  <2>3. ASSUME NEW n \in DOMAIN readings, n > 1, readings[n].window = readings[n - 1].window
        PROVE  readings[n].at - readings[n - 1].at \in 1..MaxGap
    <3>1. n \in 1..Len(readings) /\ n - 1 \in 1..Len(readings) /\ n - 1 < n /\ n \in 2..Len(readings)
      BY <2>1, <2>3
    <3>2. readings[n - 1].at < readings[n].at
      BY <2>1, <2>3, <3>1 DEF WindowsOrdered, SameWindow
    <3>3. readings[n].at - readings[n - 1].at <= MaxGap
      BY <2>1, <2>3, <3>1 DEF WindowsOrdered
    <3> QED  BY <2>1, <3>1, <3>2, <3>3, PolicyTyped
  <2> QED  BY <2>2, <2>3 DEF WindowUnbroken
<1>2. RecoveryInv => ReadingsSound
  BY <1>1 DEF RecoveryInv, ReadingsSound
<1> QED
  BY <1>2, RecoveryInvariant, PTL

\* Whatever is judged was read after the last execution and after the present
\* sensor was installed: Service.RecordExecution and Service.HandoverSensor end
\* the window or find it empty.
THEOREM EvidenceIsAfterIntervention == Spec => []EvidenceAfterIntervention
<1>1. ASSUME RecoveryInv PROVE EvidenceAfterIntervention
  <2>1. PICK f : CurrentFrom(f)
    BY <1>1, CurrentFacts DEF RecoveryInv, WindowIsLast
  <2>2. Len(readings) \in Nat /\ Len(Current) \in Nat /\ DOMAIN Current = 1..Len(Current)
    BY <1>1, <2>1, ReadingsTyped, LenProperties DEF CurrentFrom, RecoveryInv
  <2>3. \A n \in 1..Len(Current) : f + n \in 1..Len(readings)
    BY <2>1, <2>2 DEF CurrentFrom
  <2>4. \A n \in 1..Len(Current) : Current[n] = readings[f + n] /\ readings[f + n].window = window
    BY <2>1 DEF CurrentFrom
  <2> QED
    BY <1>1, <2>2, <2>3, <2>4
       DEF RecoveryInv, ReadAfterIntervention, EvidenceAfterIntervention
<1> QED
  BY <1>1, RecoveryInvariant, PTL

-----------------------------------------------------------------------------
(* The window being judged.                                                *)

\* A reading that its segment does not survive.
EndsSegment(r) == r.kind = "outside" \/ (r.kind = "warning" /\ ~r.closes)

\* The readings of the current window, in the order of their instants.
LEMMA CurrentOrdered ==
  ASSUME RecoveryInv
  PROVE  LET l == Len(Current)
         IN  /\ Current \in Seq(Reading) /\ l \in Nat /\ DOMAIN Current = 1..l
             /\ \A i \in 1..l : /\ Current[i].at \in Nat /\ Current[i].segment \in Nat
                                /\ Current[i].kind \in Kinds
             /\ \A i \in 2..l : Current[i].at - Current[i - 1].at <= MaxGap
             /\ \A i, j \in 1..l : i < j =>
                  /\ Current[i].at < Current[j].at
                  /\ Current[i].segment <= Current[j].segment
                  /\ EndsSegment(Current[i]) => Current[i].segment < Current[j].segment
                  /\ (\A h \in i..(j - 1) : Current[h].kind = "good") =>
                       Current[i].segment = Current[j].segment
<1> DEFINE k == Len(readings)
           l == Len(Current)
<1>1. PICK f : CurrentFrom(f)
  BY CurrentFacts DEF RecoveryInv, WindowIsLast
<1>2. /\ k \in Nat
      /\ \A n \in 1..k : /\ readings[n].at \in Nat /\ readings[n].segment \in Nat
                         /\ readings[n].kind \in Kinds
      /\ f \in 0..k /\ Current \in Seq(Reading) /\ l = k - f /\ l \in Nat
      /\ DOMAIN Current = 1..l
      /\ \A i \in 1..l : Current[i] = readings[f + i] /\ readings[f + i].window = window
  BY <1>1, ReadingsTyped, LenProperties DEF CurrentFrom, RecoveryInv
<1>3. WindowsOrdered(readings) /\ SegmentsOrdered(readings)
  BY DEF RecoveryInv
<1> HIDE DEF k, l
<1>4. \A i \in 1..l : f + i \in 1..k
  BY <1>2
<1>5. \A i \in 1..l : /\ Current[i].at \in Nat /\ Current[i].segment \in Nat
                      /\ Current[i].kind \in Kinds
  BY <1>2, <1>4
<1>6. ASSUME NEW i \in 2..l PROVE Current[i].at - Current[i - 1].at <= MaxGap
  <2>1. i \in 1..l /\ i - 1 \in 1..l /\ f + (i - 1) = (f + i) - 1 /\ f + i \in 2..k
    BY <1>2, <1>4
  <2>2. readings[(f + i) - 1].window = readings[f + i].window
    BY <1>2, <2>1
  <2>3. readings[f + i].at - readings[(f + i) - 1].at <= MaxGap
    BY <1>3, <2>1, <2>2 DEF WindowsOrdered, k
  <2> QED  BY <1>2, <2>1, <2>3
<1>7. ASSUME NEW i \in 1..l, NEW j \in 1..l, i < j
      PROVE  /\ Current[i].at < Current[j].at
             /\ Current[i].segment <= Current[j].segment
             /\ EndsSegment(Current[i]) => Current[i].segment < Current[j].segment
             /\ (\A h \in i..(j - 1) : Current[h].kind = "good") =>
                  Current[i].segment = Current[j].segment
  <2> DEFINE m == f + i
             n == f + j
  <2>1. /\ m \in 1..k /\ n \in 1..k /\ m < n
        /\ Current[i] = readings[m] /\ Current[j] = readings[n]
        /\ readings[m].window = readings[n].window
    <3>1. m \in 1..k /\ n \in 1..k
      BY <1>4
    <3>2. m < n
      BY <1>2, <1>7
    <3>3. Current[i] = readings[m] /\ Current[j] = readings[n]
          /\ readings[m].window = window /\ readings[n].window = window
      BY <1>2
    <3> QED  BY <3>1, <3>2, <3>3
  <2>2. SameWindow(readings, m, n)
    BY <2>1 DEF SameWindow
  <2>3. readings[m].at < readings[n].at
    BY <1>3, <2>1, <2>2 DEF WindowsOrdered, k
  <2>4. /\ readings[m].segment <= readings[n].segment
        /\ readings[m].kind = "outside" \/ (readings[m].kind = "warning" /\ ~readings[m].closes) =>
             readings[m].segment < readings[n].segment
        /\ (\A h \in m..(n - 1) : readings[h].kind = "good") =>
             readings[m].segment = readings[n].segment
    BY <1>3, <2>1, <2>2, Zenon DEF SegmentsOrdered, k
  <2>5. ASSUME \A h \in i..(j - 1) : Current[h].kind = "good"
        PROVE  \A h \in m..(n - 1) : readings[h].kind = "good"
    <3> SUFFICES ASSUME NEW h \in m..(n - 1) PROVE readings[h].kind = "good"
      OBVIOUS
    <3>1. h - f \in i..(j - 1) /\ h - f \in 1..l /\ f + (h - f) = h
      BY <1>2, <2>1
    <3>2. Current[h - f] = readings[f + (h - f)]
      BY <1>2, <3>1
    <3> QED  BY <2>5, <3>1, <3>2
  <2> HIDE DEF m, n
  <2>6. EndsSegment(Current[i]) => Current[i].segment < Current[j].segment
    BY <2>1, <2>4, Zenon DEF EndsSegment
  <2> QED  BY <2>1, <2>3, <2>4, <2>5, <2>6
<1> QED
  BY <1>2, <1>5, <1>6, <1>7 DEF l

-----------------------------------------------------------------------------
(* Progress.                                                               *)

\* The loop of the report, unfolded.
PeriodLoop(s, F) ==
  F = [n \in 0..Len(s) |-> IF n = 0 THEN <<>> ELSE Extended(F[n - 1], s[n])]

LEMMA PeriodExists ==
  ASSUME NEW s, Len(s) \in Nat
  PROVE  \E F : PeriodLoop(s, F)
<1> DEFINE Part(k, F) ==
      F = [n \in 0..k |-> IF n = 0 THEN <<>> ELSE Extended(F[n - 1], s[n])]
           S == {k \in Nat : \E F : Part(k, F)}
<1>1. 0 \in S
  <2> DEFINE F == [n \in 0..0 |-> <<>>]
  <2>1. Part(0, F)
    OBVIOUS
  <2> QED  BY <2>1
<1>2. ASSUME NEW k \in Nat, k \in S PROVE k + 1 \in S
  <2>1. PICK F : Part(k, F)
    BY <1>2
  <2> DEFINE e == Extended(F[k], s[k + 1])
             G == [n \in 0..(k + 1) |-> IF n = k + 1 THEN e ELSE F[n]]
  <2>2. ASSUME NEW n \in 0..(k + 1)
        PROVE  G[n] = IF n = 0 THEN <<>> ELSE Extended(G[n - 1], s[n])
    <3>1. CASE n = k + 1
      <4>1. G[n] = e /\ G[n - 1] = F[k] /\ n # 0
        BY <3>1
      <4> QED  BY <3>1, <4>1
    <3>2. CASE n = 0
      <4>1. G[n] = F[0] /\ F[0] = <<>>
        BY <2>1, <3>2
      <4> QED  BY <3>2, <4>1
    <3>3. CASE n \in 1..k
      <4>1. G[n] = F[n] /\ G[n - 1] = F[n - 1] /\ n \in 0..k /\ n # 0
        BY <3>3
      <4>2. F[n] = Extended(F[n - 1], s[n])
        BY <2>1, <4>1
      <4> HIDE DEF G
      <4> QED  BY <4>1, <4>2
    <3> QED  BY <3>1, <3>2, <3>3
  <2>3. Part(k + 1, G)
    <3>1. G = [n \in 0..(k + 1) |-> G[n]]
      OBVIOUS
    <3> HIDE DEF G
    <3> QED  BY <2>2, <3>1
  <2>4. \E H : Part(k + 1, H)
    <3> HIDE DEF G, Part
    <3> QED  BY <2>3
  <2>5. k + 1 \in Nat
    OBVIOUS
  <2> HIDE DEF G, Part
  <2> QED  BY <2>4, <2>5
<1>3. Nat \subseteq S
  <2> HIDE DEF S
  <2> QED  BY <1>1, <1>2, Induction
<1> QED
  BY <1>3 DEF PeriodLoop

LEMMA ProgressIsPeriod ==
  ASSUME NEW s, Len(s) \in Nat
  PROVE  \E F : PeriodLoop(s, F) /\ CalculateRecoveryProgress(s) = F[Len(s)]
<1> DEFINE Body(F) == [n \in 0..Len(s) |-> IF n = 0 THEN <<>> ELSE Extended(F[n - 1], s[n])]
           C == CHOOSE F : F = Body(F)
<1>1. CalculateRecoveryProgress(s) = C[Len(s)]
  BY DEF CalculateRecoveryProgress
<1>2. \E F : F = Body(F)
  BY PeriodExists DEF PeriodLoop
<1>3. C = Body(C)
  <2> HIDE DEF Body
  <2> QED  BY <1>2
<1>4. PeriodLoop(s, C)
  BY <1>3 DEF PeriodLoop
<1> HIDE DEF C
<1> QED
  BY <1>1, <1>4

\* The last good readings of the first n, back to one that is not good.
CleanEnd(s, n, x) ==
  /\ x \in Seq(Reading) /\ Len(x) <= n
  /\ \A i \in 1..Len(x) : x[i] = s[n - Len(x) + i] /\ x[i].kind = "good"
  /\ Len(x) < n => s[n - Len(x)].kind # "good"

LEMMA CleanEndExtended ==
  ASSUME NEW s \in Seq(Reading), NEW n \in 0..(Len(s) - 1), NEW x, CleanEnd(s, n, x),
         n >= 1 => s[n + 1].at - s[n].at <= MaxGap
  PROVE  CleanEnd(s, n + 1, Extended(x, s[n + 1]))
<1> DEFINE r == s[n + 1]
           l == Len(x)
<1>1. /\ Len(s) \in Nat /\ n \in Nat /\ n + 1 \in 1..Len(s)
      /\ r \in Reading /\ x \in Seq(Reading) /\ l \in Nat /\ l <= n
  BY LenProperties, ElementOfSeq DEF CleanEnd
<1>2. CASE r.kind # "good"
  <2>1. Extended(x, r) = <<>>
    BY <1>2 DEF Extended
  <2>2. CleanEnd(s, n + 1, <<>>)
    BY <1>1, <1>2, EmptySeq DEF CleanEnd
  <2> QED  BY <2>1, <2>2
<1>3. CASE r.kind = "good"
  <2> HIDE DEF r, l
  <2>1. ~(x # <<>> /\ r.at - Last(x).at > MaxGap)
    <3> SUFFICES ASSUME x # <<>> PROVE ~(r.at - Last(x).at > MaxGap)
      OBVIOUS
    <3>1. l >= 1 /\ l \in 1..l /\ n >= 1 /\ n - l + l = n
      BY <1>1, EmptySeq DEF l
    <3>2. Last(x) = s[n]
      BY <3>1 DEF CleanEnd, Last, l
    <3>3. r.at - s[n].at <= MaxGap
      BY <3>1 DEF r
    <3>4. r.at \in Nat /\ s[n].at \in Nat
      <4>1. n \in 1..Len(s)
        BY <1>1, <3>1
      <4>2. s[n] \in Reading
        BY <4>1, ElementOfSeq
      <4> QED  BY <1>1, <4>2, PolicyTyped DEF Reading
    <3> QED  BY <3>2, <3>3, <3>4, PolicyTyped
  <2>2. Extended(x, r) = Append(x, r)
    BY <1>3, <2>1 DEF Extended
  <2> DEFINE y == Append(x, r)
  <2>3. /\ y \in Seq(Reading) /\ Len(y) = l + 1 /\ y[l + 1] = r
        /\ \A i \in 1..l : y[i] = x[i]
    BY <1>1, AppendProperties DEF l
  <2> HIDE DEF y
  <2>4. (n + 1) - Len(y) = n - l
    BY <1>1, <2>3
  <2>5. \A i \in 1..Len(y) : y[i] = s[(n + 1) - Len(y) + i] /\ y[i].kind = "good"
    <3> SUFFICES ASSUME NEW i \in 1..(l + 1) PROVE y[i] = s[n - l + i] /\ y[i].kind = "good"
      BY <2>3, <2>4
    <3>1. CASE i = l + 1
      <4>1. n - l + i = n + 1
        BY <1>1, <3>1
      <4> QED  BY <1>3, <2>3, <3>1, <4>1 DEF r
    <3>2. CASE i # l + 1
      <4>1. i \in 1..l
        BY <1>1, <3>2
      <4> QED  BY <2>3, <4>1 DEF CleanEnd, l
    <3> QED  BY <3>1, <3>2
  <2>6. Len(y) <= n + 1
    BY <1>1, <2>3
  <2>7. Len(y) < n + 1 => s[(n + 1) - Len(y)].kind # "good"
    <3>1. Len(y) < n + 1 => l < n
      BY <1>1, <2>3
    <3>2. l < n => s[n - l].kind # "good"
      BY DEF CleanEnd, l
    <3> QED  BY <2>4, <3>1, <3>2
  <2>8. CleanEnd(s, n + 1, y)
    BY <2>3, <2>5, <2>6, <2>7 DEF CleanEnd
  <2> QED  BY <2>2, <2>8 DEF y, r
<1> QED
  BY <1>2, <1>3

\* Where no pause is too long, progress is the clean end of the readings.
LEMMA ProgressIsCleanEnd ==
  ASSUME NEW s \in Seq(Reading), \A i \in 2..Len(s) : s[i].at - s[i - 1].at <= MaxGap
  PROVE  CleanEnd(s, Len(s), CalculateRecoveryProgress(s))
<1> DEFINE l == Len(s)
<1>1. l \in Nat
  BY LenProperties
<1>2. PICK F : PeriodLoop(s, F) /\ CalculateRecoveryProgress(s) = F[l]
  BY <1>1, ProgressIsPeriod
<1> DEFINE S == {n \in 0..l : CleanEnd(s, n, F[n])}
           Turn(n) == IF n = 0 THEN <<>> ELSE Extended(F[n - 1], s[n])
<1>3. \A n \in 0..l : F[n] = Turn(n)
  <2>1. F = [n \in 0..l |-> Turn(n)]
    BY <1>2 DEF PeriodLoop
  <2> HIDE DEF Turn
  <2> QED  BY <2>1
<1> HIDE DEF l
<1>4. 0 \in S
  <2>1. 0 \in 0..l /\ F[0] = <<>>
    BY <1>1, <1>3
  <2>2. CleanEnd(s, 0, <<>>)
    BY EmptySeq DEF CleanEnd
  <2> QED  BY <2>1, <2>2
<1>5. ASSUME NEW n \in 0..(l - 1), n \in S PROVE n + 1 \in S
  <2>1. n + 1 \in 0..l /\ n \in 0..(Len(s) - 1) /\ n + 1 # 0 /\ (n + 1) - 1 = n
    BY <1>1 DEF l
  <2>2. F[n + 1] = Extended(F[n], s[n + 1])
    BY <1>3, <2>1
  <2>3. CleanEnd(s, n, F[n])
    BY <1>5
  <2>4. n >= 1 => s[n + 1].at - s[n].at <= MaxGap
    <3>1. n >= 1 => n + 1 \in 2..Len(s)
      BY <1>1 DEF l
    <3> QED  BY <2>1, <3>1
  <2>5. CleanEnd(s, n + 1, F[n + 1])
    BY <2>1, <2>2, <2>3, <2>4, CleanEndExtended
  <2> QED  BY <2>1, <2>5
<1>6. 0..l \subseteq S
  <2> HIDE DEF S
  <2> QED  BY <1>1, <1>4, <1>5, InductionUpTo
<1>7. CleanEnd(s, l, F[l])
  BY <1>1, <1>6
<1> QED
  BY <1>2, <1>7 DEF l

\* What CalculateRecoveryProgress reports is what follows the last
\* interruption of the window, and where there was none, it asks for more
\* readings or minutes exactly as long as a verification would fail.
THEOREM ProgressIsSound == Spec => []ProgressSound
<1> DEFINE c == Current
           l == Len(c)
           x == CalculateRecoveryProgress(c)
           g == Greatest({0} \cup {Current[n].segment : n \in DOMAIN Current})
           places == {n \in DOMAIN Current : Current[n].kind = "good" /\ Current[n].segment = g}
<1>1. ASSUME RecoveryInv
      PROVE  /\ c \in Seq(Reading) /\ l \in Nat /\ DOMAIN c = 1..l
             /\ \A i \in 1..l : c[i].at \in Nat
             /\ \A i \in 2..l : c[i].at - c[i - 1].at <= MaxGap
             /\ \A i, j \in 1..l : i < j =>
                  /\ c[i].at < c[j].at
                  /\ (\A h \in i..(j - 1) : c[h].kind = "good") => c[i].segment = c[j].segment
  BY <1>1, CurrentOrdered
<1>2. ASSUME RecoveryInv
      PROVE  /\ x \in Seq(Reading) /\ Len(x) \in Nat /\ Len(x) <= l
             /\ \A i \in 1..Len(x) : x[i] = c[l - Len(x) + i] /\ x[i].kind = "good"
             /\ Len(x) < l => c[l - Len(x)].kind # "good"
  <2>1. CleanEnd(c, l, x)
    BY <1>1, <1>2, ProgressIsCleanEnd
  <2> HIDE DEF c, l, x
  <2> QED  BY <2>1, LenProperties DEF CleanEnd
<1>3. ASSUME RecoveryInv PROVE ProgressIsCleanSuffix
  <2> DEFINE first == l - Len(x) + 1
             z == SubSeq(c, first, l)
  <2> HIDE DEF c, l, x
  <2>1. first \in Int /\ l \in Int /\ first >= 1 /\ \A i \in first..l : i \in 1..l
    BY <1>1, <1>2, <1>3
  <2>2. \A i \in first..l : c[i] \in Reading
    BY <1>1, <1>3, <2>1, ElementOfSeq DEF l
  <2>3. /\ z \in Seq(Reading) /\ Len(z) = (IF first <= l THEN l - first + 1 ELSE 0)
        /\ \A i \in 1..(l - first + 1) : z[i] = c[first + i - 1]
    <3> HIDE DEF first
    <3> QED  BY <2>1, <2>2, SubSeqProperties
  <2> HIDE DEF z
  <2>4. Len(z) = Len(x) /\ l - first + 1 = Len(x)
    BY <1>1, <1>2, <1>3, <2>3
  <2>5. \A i \in 1..Len(x) : x[i] = z[i]
    <3>1. \A i \in 1..Len(x) : first + i - 1 = l - Len(x) + i
      BY <1>1, <1>2, <1>3
    <3> QED  BY <1>2, <1>3, <2>3, <2>4, <3>1
  <2>6. x = z
    BY <1>2, <1>3, <2>3, <2>4, <2>5, SeqEqual
  <2>7. DOMAIN x = 1..Len(x)
    BY <1>2, <1>3, LenProperties
  <2>8. first > 1 => c[first - 1].kind # "good"
    <3>1. first > 1 => Len(x) < l
      BY <1>1, <1>2, <1>3
    <3>2. first - 1 = l - Len(x)
      BY <1>1, <1>2, <1>3
    <3> QED  BY <1>2, <1>3, <3>1, <3>2
  <2>9. \A n \in DOMAIN x : x[n].kind = "good"
    BY <1>2, <1>3, <2>7
  <2> QED
    BY <2>6, <2>8, <2>9 DEF ProgressIsCleanSuffix, z, c, l, x
<1>4. ASSUME RecoveryInv, \A n \in DOMAIN Current : Current[n].kind = "good"
      PROVE  x = c /\ Evidence = c
  <2>1. \A i \in 1..l : c[i].kind = "good"
    BY <1>1, <1>4
  <2>2. x = c
    <3> HIDE DEF c, l, x
    <3>1. ~(Len(x) < l)
      <4>1. Len(x) < l => l - Len(x) \in 1..l
        BY <1>1, <1>2, <1>4
      <4> QED  BY <1>2, <1>4, <2>1, <4>1
    <3>2. Len(x) = l /\ \A i \in 1..l : l - Len(x) + i = i
      BY <1>1, <1>2, <1>4, <3>1
    <3>3. \A i \in 1..Len(x) : x[i] = c[i]
      BY <1>2, <1>4, <3>2
    <3> QED  BY <1>1, <1>2, <1>4, <3>2, <3>3, SeqEqual DEF l
  <2>3. \A n \in 1..l : n \in places
    <3> SUFFICES ASSUME NEW n \in 1..l PROVE c[n].segment = g
      BY <1>1, <1>4, <2>1
    <3>1. l \in 1..l /\ c # <<>>
      BY <1>1, <1>4
    <3>2. Last(c) = readings[Len(readings)] /\ g = readings[Len(readings)].segment
      BY <1>4, <3>1, CurrentEnd DEF RecoveryInv
    <3>3. g = c[l].segment
      BY <3>2 DEF Last
    <3> HIDE DEF c, l, g
    <3>4. n # l => c[n].segment = c[l].segment
      <4>1. n # l => n < l /\ \A h \in n..(l - 1) : h \in 1..l
        BY <1>1, <1>4
      <4> QED  BY <1>1, <1>4, <2>1, <3>1, <4>1
    <3> QED  BY <3>3, <3>4
  <2>4. Evidence = Chosen(c, places)
    BY DEF Evidence
  <2> HIDE DEF places, x
  <2> QED  BY <1>1, <1>4, <2>2, <2>3, <2>4, ChosenAll
<1>5. ASSUME RecoveryInv PROVE CleanWindowAgrees
  <2> SUFFICES ASSUME \A n \in DOMAIN Current : Current[n].kind = "good"
               PROVE  ProgressQualified(Current) <=> EvaluateRecovery(Evidence, MinStable, MinReadings)
    BY DEF CleanWindowAgrees
  <2>1. x = c /\ Evidence = c
    BY <1>4, <1>5
  <2>2. \A n \in 2..l : c[n].at - c[n - 1].at \in 1..MaxGap
    <3> SUFFICES ASSUME NEW n \in 2..l PROVE c[n].at - c[n - 1].at \in 1..MaxGap
      OBVIOUS
    <3> HIDE DEF c, l
    <3>1. n - 1 \in 1..l /\ n \in 1..l /\ n - 1 < n
      BY <1>1, <1>5
    <3>2. /\ c[n].at \in Nat /\ c[n - 1].at \in Nat
          /\ c[n - 1].at < c[n].at /\ c[n].at - c[n - 1].at <= MaxGap
      BY <1>1, <1>5, <3>1
    <3> QED  BY <3>2, PolicyTyped
  <2>3. ProgressQualified(c) <=> Span(c) >= MinStable /\ Len(c) >= MinReadings
    BY <2>1 DEF ProgressQualified
  <2>4. EvaluateRecovery(c, MinStable, MinReadings) <=> Span(c) >= MinStable /\ Len(c) >= MinReadings
    BY <2>2 DEF EvaluateRecovery
  <2> QED  BY <2>1, <2>3, <2>4
<1>6. RecoveryInv => ProgressSound
  BY <1>3, <1>5 DEF ProgressSound
<1> QED
  BY <1>6, RecoveryInvariant, PTL

-----------------------------------------------------------------------------
(* The verdict.                                                            *)

\* The verdict rests on the good readings of one segment, and nothing that ends
\* a segment lies between two readings of one.
THEOREM VerdictIsSound == Spec => []VerdictSound
<1> DEFINE c == Current
           l == Len(c)
           g == Greatest({0} \cup {Current[n].segment : n \in DOMAIN Current})
           places == {n \in DOMAIN Current : Current[n].kind = "good" /\ Current[n].segment = g}
           s == Chosen(c, places)
           e == Len(s)
<1>1. ASSUME RecoveryInv PROVE InterruptionsCounted
  <2> SUFFICES ASSUME WindowQualified, status = "recovery_passed", NEW n \in DOMAIN Current,
                      Current[n].at \in Evidence[1].at..Last(Evidence).at
               PROVE  Current[n].kind = "good" \/ (Current[n].kind = "warning" /\ Current[n].closes)
    BY DEF InterruptionsCounted
  <2>1. /\ c \in Seq(Reading) /\ l \in Nat /\ DOMAIN c = 1..l
        /\ \A i \in 1..l : c[i].at \in Nat /\ c[i].segment \in Nat /\ c[i].kind \in Kinds
        /\ \A i, j \in 1..l : i < j =>
             /\ c[i].at < c[j].at
             /\ c[i].segment <= c[j].segment
             /\ EndsSegment(c[i]) => c[i].segment < c[j].segment
    BY <1>1, CurrentOrdered
  <2>2. Evidence = s
    BY DEF Evidence
  <2>3. EvaluateRecovery(Evidence, MinStable, MinReadings)
    BY <1>1 DEF RecoveryInv, QualifiedMeetsPolicy
  <2>4. s \in Seq(Reading) /\ e \in Nat /\ e >= 2
    BY <2>1, <2>2, <2>3, ChosenFacts, LenProperties, PolicyTyped DEF EvaluateRecovery
  <2>5. PICK p : Leads(c, places, s, p)
    BY <2>1, ChosenFacts
  <2> HIDE DEF c, l, g, s, e
  <2>6. \A i \in 1..e : /\ p[i] \in 1..l /\ s[i] = c[p[i]]
                        /\ c[p[i]].kind = "good" /\ c[p[i]].segment = g
    BY <2>5 DEF Leads, c, l, e
  <2> HIDE DEF places
  <2>7. 1 \in 1..e /\ e \in 1..e /\ Last(s) = s[e]
    BY <2>4 DEF Last, e
  <2>8. n \in 1..l /\ p[1] \in 1..l /\ p[e] \in 1..l
    BY <2>1, <2>6, <2>7 DEF c
  <2>9. c[n].at >= c[p[1]].at /\ c[n].at <= c[p[e]].at
    <3>1. c[n].at \in s[1].at..s[e].at
      BY <2>2, <2>7 DEF c
    <3> QED  BY <2>1, <2>6, <2>7, <2>8, <3>1
  <2>10. p[1] <= n /\ n <= p[e]
    <3>1. ~(n < p[1])
      BY <2>1, <2>8, <2>9
    <3>2. ~(p[e] < n)
      BY <2>1, <2>8, <2>9
    <3> QED  BY <2>8, <3>1, <3>2
  <2>11. c[n].segment = g
    <3>1. c[n].segment \in Nat /\ c[p[1]].segment = g /\ c[p[e]].segment = g /\ g \in Nat
      BY <2>1, <2>6, <2>7, <2>8
    <3>2. p[1] = n \/ c[p[1]].segment <= c[n].segment
      BY <2>1, <2>8, <2>10
    <3>3. n = p[e] \/ c[n].segment <= c[p[e]].segment
      BY <2>1, <2>8, <2>10
    <3> QED  BY <3>1, <3>2, <3>3
  <2>12. ASSUME EndsSegment(c[n]) PROVE FALSE
    <3>1. n # p[e]
      BY <2>6, <2>7, <2>12 DEF EndsSegment
    <3>2. c[n].segment < c[p[e]].segment
      BY <2>1, <2>8, <2>10, <2>12, <3>1
    <3> QED  BY <2>1, <2>6, <2>7, <2>8, <2>11, <3>2
  <2>13. c[n].kind \in Kinds
    BY <2>1, <2>8
  <2>14. c[n].kind = "good" \/ c[n].kind = "warning" \/ c[n].kind = "outside"
    BY <2>13 DEF Kinds
  <2> QED  BY <2>12, <2>14, Zenon DEF EndsSegment, c
<1>2. RecoveryInv => VerdictSound
  BY <1>1 DEF RecoveryInv, VerdictSound
<1> QED
  BY <1>2, RecoveryInvariant, PTL

=============================================================================
