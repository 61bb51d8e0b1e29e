-------------------------- MODULE AuditTrailProofs --------------------------
(***************************************************************************)
(* Theorems about AuditTrail, for every set of incidents, clients and      *)
(* filters and every bound: sealed evidence checks out for ever, a listing *)
(* put together from pages is exact however the trail grows meanwhile, and *)
(* the statuses on its last page are not behind its events.                *)
(***************************************************************************)
EXTENDS AuditTrail, SelectionFacts

-----------------------------------------------------------------------------
(* The events of one incident.                                             *)

LEMMA EventsTyped ==
  ASSUME NEW trail \in Seq(AuditEvent), NEW i
  PROVE  EventsOf(trail, i) \in Seq(AuditEvent)
  BY ChosenFacts DEF EventsOf

\* An event of the incident goes to the end, one of another changes nothing.
LEMMA EventsOfAppend ==
  ASSUME NEW trail \in Seq(AuditEvent), NEW e \in AuditEvent, NEW i
  PROVE  EventsOf(Append(trail, e), i) =
           IF e.incident = i THEN Append(EventsOf(trail, i), e) ELSE EventsOf(trail, i)
<1> DEFINE t == Append(trail, e)
           places == {n \in DOMAIN trail : trail[n].incident = i}
           others == {n \in DOMAIN t : t[n].incident = i}
           k == Len(trail)
<1>1. /\ k \in Nat /\ Len(t) = k + 1 /\ t[k + 1] = e /\ \A n \in 1..k : t[n] = trail[n]
      /\ DOMAIN trail = 1..k /\ DOMAIN t = 1..(k + 1)
  BY AppendProperties, LenProperties
<1> HIDE DEF t
<1>2. \A n \in 1..k : n \in places <=> n \in others
  BY <1>1
<1>3. k + 1 \in others <=> e.incident = i
  BY <1>1
<1> HIDE DEF places, others
<1>4. Chosen(Append(trail, e), others) =
        IF k + 1 \in others THEN Append(Chosen(trail, places), e) ELSE Chosen(trail, places)
  BY <1>2, ChosenAppend
<1> QED
  BY <1>3, <1>4 DEF EventsOf, places, others, t

\* The completed commitments, as the events and as the incident has them.
CompletedEvents(trail, n, i) ==
  {m \in 1..n : trail[m].incident = i /\ trail[m].kind = "completed"}

Completed(statuses) == {n \in DOMAIN statuses : statuses[n] = "completed"}

LEMMA CompletedFinite ==
  ASSUME NEW s \in Seq(CommitmentStates)
  PROVE  IsFiniteSet(Completed(s)) /\ Cardinality(Completed(s)) \in Nat
<1>1. Len(s) \in Nat /\ DOMAIN s = 1..Len(s)
  BY LenProperties
<1>2. IsFiniteSet(1..Len(s)) /\ Completed(s) \in SUBSET (1..Len(s))
  BY <1>1, FS_Interval DEF Completed
<1> QED
  BY <1>2, FS_Subset, FS_CardinalityType

LEMMA CompletedEventsFinite ==
  ASSUME NEW trail, NEW n \in Nat, NEW i
  PROVE  /\ IsFiniteSet(CompletedEvents(trail, n, i))
         /\ Cardinality(CompletedEvents(trail, n, i)) \in Nat
<1>1. IsFiniteSet(1..n) /\ CompletedEvents(trail, n, i) \in SUBSET (1..n)
  BY FS_Interval DEF CompletedEvents
<1> QED
  BY <1>1, FS_Subset, FS_CardinalityType

-----------------------------------------------------------------------------
(* The inductive invariant of the commands.                                *)

StateTyped ==
  /\ audits \in Seq(AuditEvent)
  /\ incidents \in [Incidents -> Incident]
  /\ manifest \in [Incidents -> Manifest \cup {None}]
  /\ signing \in [Incidents -> Signature \cup {None}]

ChainSound == verifyAuditChain(audits) /\ Len(audits) <= MaxEvents

\* What a handler has read for a signature is the end of the trail as long as
\* the incident has not changed.
SigningSound ==
  \A i \in Incidents : signing[i] # None =>
    /\ signing[i].expected <= incidents[i].revision
    /\ signing[i].expected = incidents[i].revision =>
         signing[i].tail = Last(EventsOf(audits, i)).sequence

SealSound ==
  \A i \in Incidents : incidents[i].sealed =>
    LET events == EventsOf(audits, i)
    IN  /\ Exists(i) /\ manifest[i] # None
        /\ manifest[i].digest = incidents[i]
        /\ manifest[i].final = Last(events).sequence
        /\ incidents[i].tail = events[Len(events) - 1].sequence

EventsThere == \A i \in Incidents : Exists(i) => EventsOf(audits, i) # <<>>

CompletionsKept ==
  \A i \in Incidents :
    Cardinality(CompletedEvents(audits, Len(audits), i))
      <= Cardinality(Completed(incidents[i].commitments))

EvidenceInv ==
  StateTyped /\ ChainSound /\ SigningSound /\ SealSound /\ EventsThere /\ CompletionsKept

LEMMA EvidenceInit == Init => EvidenceInv
<1> SUFFICES ASSUME Init PROVE EvidenceInv
  OBVIOUS
<1>1. audits = <<>> /\ Len(audits) = 0
  BY DEF Init
<1>2. StateTyped
  BY DEF Init, StateTyped, Incident
<1>3. ChainSound
  BY <1>1, AuditTrailAssumption DEF ChainSound, verifyAuditChain
<1>4. \A i \in Incidents : /\ incidents[i].revision = 0 /\ incidents[i].commitments = <<>>
                           /\ ~incidents[i].sealed /\ signing[i] = None
  BY DEF Init
<1>5. SigningSound /\ SealSound
  BY <1>4 DEF SigningSound, SealSound
<1>6. EventsThere
  BY <1>4 DEF EventsThere, Exists
<1>7. CompletionsKept
  <2> SUFFICES ASSUME NEW i \in Incidents
               PROVE  Cardinality(CompletedEvents(audits, 0, i))
                        <= Cardinality(Completed(incidents[i].commitments))
    BY <1>1 DEF CompletionsKept
  <2>1. CompletedEvents(audits, 0, i) = {} /\ Completed(incidents[i].commitments) = {}
    BY <1>4 DEF CompletedEvents, Completed
  <2> QED  BY <2>1, FS_EmptySet
<1> QED
  BY <1>2, <1>3, <1>5, <1>6, <1>7 DEF EvidenceInv

-----------------------------------------------------------------------------
(* Recording: one more event at the end of the trail.                      *)

NewEvent(i, kind) ==
  [sequence |-> Len(audits) + 1, incident |-> i, kind |-> kind,
   previous |-> IF audits = <<>> THEN 0 ELSE Last(audits).sequence]

LEMMA AppendedFacts ==
  ASSUME StateTyped, ChainSound, NEW i \in Incidents, NEW kind \in Kinds,
         Len(audits) < MaxEvents, audits' = appendAudit(i, kind)
  PROVE  LET e == NewEvent(i, kind)
             k == Len(audits)
         IN  /\ k \in Nat /\ e \in AuditEvent /\ e.incident = i /\ e.kind = kind
             /\ e.sequence = k + 1
             /\ audits' = Append(audits, e) /\ audits' \in Seq(AuditEvent) /\ Len(audits') = k + 1
             /\ audits'[k + 1] = e /\ \A n \in 1..k : audits'[n] = audits[n]
             /\ ChainSound'
<1> DEFINE e == NewEvent(i, kind)
           k == Len(audits)
<1>1. audits \in Seq(AuditEvent) /\ k \in Nat /\ DOMAIN audits = 1..k
      /\ MaxEvents \in Nat
  BY LenProperties, AuditTrailAssumption DEF StateTyped
<1>2. \A n \in 1..k : audits[n].sequence = n /\ audits[n].previous = n - 1
  BY <1>1 DEF ChainSound, verifyAuditChain
<1>3. e.previous = k
  <2>1. CASE audits = <<>>
    BY <2>1 DEF NewEvent
  <2>2. CASE audits # <<>>
    <3>1. k \in 1..k /\ Last(audits) = audits[k]
      BY <1>1, <2>2, EmptySeq DEF Last
    <3> QED  BY <1>2, <2>2, <3>1 DEF NewEvent
  <2> QED  BY <2>1, <2>2
<1>4. e.sequence = k + 1 /\ e.incident = i /\ e.kind = kind
  BY DEF NewEvent
<1>5. e \in AuditEvent
  <2>1. k + 1 \in 1..MaxEvents /\ k \in 0..MaxEvents
    BY <1>1
  <2>2. e = [sequence |-> k + 1, incident |-> i, kind |-> kind, previous |-> e.previous]
    BY DEF NewEvent
  <2> HIDE DEF e
  <2> QED  BY <1>3, <2>1, <2>2 DEF AuditEvent
<1>6. audits' = Append(audits, e)
  BY DEF appendAudit, NewEvent
<1> HIDE DEF e
<1>7. /\ audits' \in Seq(AuditEvent) /\ Len(audits') = k + 1
      /\ audits'[k + 1] = e /\ \A n \in 1..k : audits'[n] = audits[n]
  BY <1>1, <1>5, <1>6, AppendProperties
<1>8. DOMAIN audits' = 1..(k + 1)
  BY <1>7, LenProperties
<1>9. ASSUME NEW n \in 1..(k + 1)
      PROVE  audits'[n].sequence = n /\ audits'[n].previous = n - 1
  <2>1. CASE n = k + 1
    BY <1>1, <1>3, <1>4, <1>7, <2>1
  <2>2. CASE n # k + 1
    <3>1. n \in 1..k
      BY <1>1, <2>2
    <3> QED  BY <1>2, <1>7, <3>1
  <2> QED  BY <2>1, <2>2
<1>10. ChainSound'
  <2>1. verifyAuditChain(audits')
    BY <1>8, <1>9 DEF verifyAuditChain
  <2>2. Len(audits') <= MaxEvents
    BY <1>1, <1>7
  <2> QED  BY <2>1, <2>2 DEF ChainSound, verifyAuditChain
<1> QED
  BY <1>1, <1>4, <1>5, <1>6, <1>7, <1>10 DEF e

\* The manifest of a seal is built from events of which there is one at least.
LEMMA ManifestTyped ==
  ASSUME NEW trail \in Seq(AuditEvent), NEW i, EventsOf(trail, i) # <<>>, NEW x \in Incident
  PROVE  buildManifest(trail, i, x) \in Manifest
<1> DEFINE events == EventsOf(trail, i)
           k == Len(events)
<1>1. events \in Seq(AuditEvent) /\ k \in Nat /\ k >= 1
  BY EventsTyped, EmptySeq
<1>2. 1 \in 1..k /\ k \in 1..k
  BY <1>1
<1>3. events[1] \in AuditEvent /\ events[k] \in AuditEvent
  BY <1>1, <1>2, ElementOfSeq
<1>4. buildManifest(trail, i, x) =
        [first |-> events[1].sequence, last |-> events[k].sequence,
         anchor |-> events[1].previous, final |-> events[k].sequence, digest |-> x]
  BY DEF buildManifest, Last
<1> HIDE DEF events
<1>5. /\ events[1].sequence \in Nat /\ events[k].sequence \in Nat /\ events[1].previous \in Nat
  BY <1>3 DEF AuditEvent
<1> QED
  BY <1>4, <1>5 DEF Manifest

\* The counts, one event later.
LEMMA CompletedEventsGrow ==
  ASSUME NEW trail, NEW later, NEW k \in Nat, \A n \in 1..k : later[n] = trail[n], NEW i
  PROVE  /\ \A n \in 0..k : CompletedEvents(later, n, i) = CompletedEvents(trail, n, i)
         /\ Cardinality(CompletedEvents(later, k + 1, i)) =
              IF later[k + 1].incident = i /\ later[k + 1].kind = "completed"
              THEN Cardinality(CompletedEvents(trail, k, i)) + 1
              ELSE Cardinality(CompletedEvents(trail, k, i))
<1>1. \A n \in 0..k : CompletedEvents(later, n, i) = CompletedEvents(trail, n, i)
  BY DEF CompletedEvents
<1>2. IsFiniteSet(CompletedEvents(trail, k, i)) /\ Cardinality(CompletedEvents(trail, k, i)) \in Nat
  BY CompletedEventsFinite
<1>3. k + 1 \notin CompletedEvents(trail, k, i)
  BY DEF CompletedEvents
<1>4. 1..(k + 1) = (1..k) \cup {k + 1}
  OBVIOUS
<1>5. CASE later[k + 1].incident = i /\ later[k + 1].kind = "completed"
  <2>1. CompletedEvents(later, k + 1, i) = CompletedEvents(trail, k, i) \cup {k + 1}
    BY <1>4, <1>5 DEF CompletedEvents
  <2> QED  BY <1>1, <1>2, <1>3, <1>5, <2>1, FS_AddElement
<1>6. CASE ~(later[k + 1].incident = i /\ later[k + 1].kind = "completed")
  <2>1. CompletedEvents(later, k + 1, i) = CompletedEvents(trail, k, i)
    BY <1>4, <1>6 DEF CompletedEvents
  <2> QED  BY <1>1, <1>6, <2>1
<1> QED
  BY <1>1, <1>5, <1>6

\* Every command that records something: x is what it makes of the incident.
LEMMA RecordStep ==
  ASSUME EvidenceInv, NEW i \in Incidents, NEW kind \in Kinds, NEW x \in Incident,
         Record(i, kind, x), ~incidents[i].sealed, x.revision = incidents[i].revision,
         x.sealed => /\ kind = "sealed" /\ Exists(i)
                     /\ x.tail = Last(EventsOf(audits, i)).sequence,
         Cardinality(Completed(x.commitments)) \in Nat,
         Cardinality(Completed(x.commitments)) >=
           Cardinality(Completed(incidents[i].commitments))
             + (IF kind = "completed" THEN 1 ELSE 0),
         \A j \in Incidents : signing'[j] = signing[j] \/ signing'[j] = None,
         DOMAIN signing' = Incidents, signing' = [j \in Incidents |-> signing'[j]]
  PROVE  EvidenceInv'
<1> DEFINE next == [x EXCEPT !.revision = @ + 1]
           e == NewEvent(i, kind)
           k == Len(audits)
<1>1. /\ k < MaxEvents
      /\ incidents' = [incidents EXCEPT ![i] = next]
      /\ audits' = appendAudit(i, kind)
      /\ manifest' = IF kind = "sealed"
                     THEN [manifest EXCEPT ![i] = buildManifest(audits', i, next)] ELSE manifest
  BY DEF Record
<1>2. /\ StateTyped /\ ChainSound /\ audits \in Seq(AuditEvent)
      /\ incidents \in [Incidents -> Incident]
      /\ manifest \in [Incidents -> Manifest \cup {None}]
      /\ signing \in [Incidents -> Signature \cup {None}]
  BY DEF EvidenceInv, StateTyped
<1>3. /\ k \in Nat /\ e \in AuditEvent /\ e.incident = i /\ e.kind = kind
      /\ e.sequence = k + 1
      /\ audits' = Append(audits, e) /\ audits' \in Seq(AuditEvent) /\ Len(audits') = k + 1
      /\ audits'[k + 1] = e /\ \A n \in 1..k : audits'[n] = audits[n]
      /\ ChainSound'
  BY <1>1, <1>2, AppendedFacts
<1> HIDE DEF e, k
<1>4. /\ next \in Incident /\ next.revision = incidents[i].revision + 1
      /\ next.commitments = x.commitments /\ next.sealed = x.sealed /\ next.tail = x.tail
      /\ incidents[i].revision \in Nat
  <2>1. incidents[i] \in Incident
    BY <1>2
  <2> QED  BY <2>1 DEF Incident
<1> HIDE DEF next
<1>5. /\ EventsOf(audits', i) = Append(EventsOf(audits, i), e)
      /\ \A j \in Incidents : j # i => EventsOf(audits', j) = EventsOf(audits, j)
      /\ \A j \in Incidents : EventsOf(audits, j) \in Seq(AuditEvent)
      /\ EventsOf(audits, i) \in Seq(AuditEvent)
  BY <1>2, <1>3, EventsOfAppend, EventsTyped
<1> DEFINE l == Len(EventsOf(audits, i))
           later == EventsOf(audits', i)
<1>6. /\ later \in Seq(AuditEvent) /\ Len(later) = l + 1 /\ l \in Nat /\ later # <<>>
      /\ later[l + 1] = e /\ \A n \in 1..l : later[n] = EventsOf(audits, i)[n]
      /\ Last(later) = e
  <2>1. /\ later \in Seq(AuditEvent) /\ Len(later) = l + 1 /\ l \in Nat
        /\ later[l + 1] = e /\ \A n \in 1..l : later[n] = EventsOf(audits, i)[n]
    BY <1>3, <1>5, AppendProperties, LenProperties
  <2>2. later # <<>>
    BY <2>1, EmptySeq
  <2> QED  BY <2>1, <2>2 DEF Last
<1>7. /\ incidents'[i] = next /\ \A j \in Incidents : j # i => incidents'[j] = incidents[j]
      /\ incidents' \in [Incidents -> Incident]
  BY <1>1, <1>2, <1>4
<1>8. StateTyped'
  <2>1. buildManifest(audits', i, next) \in Manifest
    BY <1>3, <1>4, <1>6, ManifestTyped
  <2>2. manifest' \in [Incidents -> Manifest \cup {None}]
    BY <1>1, <1>2, <2>1
  <2>3. \A j \in Incidents : signing'[j] \in Signature \cup {None}
    BY <1>2
  <2>4. signing' \in [Incidents -> Signature \cup {None}]
    BY <2>3
  <2> QED  BY <1>3, <1>7, <2>2, <2>4 DEF StateTyped
<1>9. SigningSound'
  <2> SUFFICES ASSUME NEW j \in Incidents, signing'[j] # None
               PROVE  /\ signing'[j].expected <= incidents'[j].revision
                      /\ signing'[j].expected = incidents'[j].revision =>
                           signing'[j].tail = Last(EventsOf(audits', j)).sequence
    BY DEF SigningSound
  <2>1. signing'[j] = signing[j] /\ signing[j] # None
    OBVIOUS
  <2>2. /\ signing[j].expected <= incidents[j].revision
        /\ signing[j].expected = incidents[j].revision =>
             signing[j].tail = Last(EventsOf(audits, j)).sequence
    BY <2>1 DEF EvidenceInv, SigningSound
  <2>3. CASE j # i
    BY <1>5, <1>7, <2>1, <2>2, <2>3
  <2>4. CASE j = i
    <3>1. signing[j] \in Signature
      BY <1>2, <2>1
    <3>2. signing[j].expected \in Nat
      BY <3>1 DEF Signature
    <3>3. incidents'[j].revision = incidents[j].revision + 1
      BY <1>4, <1>7, <2>4
    <3> QED  BY <1>4, <2>1, <2>2, <2>4, <3>2, <3>3
  <2> QED  BY <2>3, <2>4
<1>10. SealSound'
  <2> SUFFICES ASSUME NEW j \in Incidents, incidents'[j].sealed
               PROVE  LET events == EventsOf(audits', j)
                      IN  /\ incidents'[j].revision > 0 /\ manifest'[j] # None
                          /\ manifest'[j].digest = incidents'[j]
                          /\ manifest'[j].final = Last(events).sequence
                          /\ incidents'[j].tail = events[Len(events) - 1].sequence
    BY DEF SealSound, Exists
  <2>1. CASE j # i
    <3>1. manifest'[j] = manifest[j] /\ incidents'[j] = incidents[j]
          /\ EventsOf(audits', j) = EventsOf(audits, j)
      BY <1>1, <1>2, <1>5, <1>7, <2>1
    <3> QED  BY <3>1 DEF EvidenceInv, SealSound, Exists
  <2>2. CASE j = i
    <3>1. kind = "sealed" /\ Exists(i) /\ next.tail = Last(EventsOf(audits, i)).sequence
      BY <1>4, <1>7, <2>2
    <3>2. manifest'[i] = buildManifest(audits', i, next)
      BY <1>1, <1>2, <3>1
    <3>3. buildManifest(audits', i, next) \in Manifest
      BY <1>3, <1>4, <1>6, ManifestTyped
    <3>4. manifest'[i] # None
      BY <3>2, <3>3, NoneAssumption
    <3>5. manifest'[i].digest = next /\ manifest'[i].final = Last(later).sequence
      BY <3>2 DEF buildManifest
    <3>6. EventsOf(audits, i) # <<>> /\ l >= 1
      BY <1>5, <3>1, EmptySeq DEF EvidenceInv, EventsThere
    <3>7. later[Len(later) - 1] = Last(EventsOf(audits, i))
      <4>1. Len(later) - 1 = l /\ l \in 1..l
        BY <1>6, <3>6
      <4> QED  BY <1>6, <4>1 DEF Last
    <3>8. incidents'[i].revision > 0
      BY <1>4, <1>7
    <3> QED  BY <1>7, <2>2, <3>1, <3>4, <3>5, <3>7, <3>8
  <2> QED  BY <2>1, <2>2
<1>11. EventsThere'
  <2> SUFFICES ASSUME NEW j \in Incidents, incidents'[j].revision > 0
               PROVE  EventsOf(audits', j) # <<>>
    BY DEF EventsThere, Exists
  <2> QED  BY <1>5, <1>6, <1>7 DEF EvidenceInv, EventsThere, Exists
<1>12. CompletionsKept'
  <2> SUFFICES ASSUME NEW j \in Incidents
               PROVE  Cardinality(CompletedEvents(audits', Len(audits'), j))
                        <= Cardinality(Completed(incidents'[j].commitments))
    BY DEF CompletionsKept
  <2>1. Cardinality(CompletedEvents(audits', k + 1, j)) =
          IF j = i /\ kind = "completed" THEN Cardinality(CompletedEvents(audits, k, j)) + 1
          ELSE Cardinality(CompletedEvents(audits, k, j))
    <3>1. Cardinality(CompletedEvents(audits', k + 1, j)) =
            IF audits'[k + 1].incident = j /\ audits'[k + 1].kind = "completed"
            THEN Cardinality(CompletedEvents(audits, k, j)) + 1
            ELSE Cardinality(CompletedEvents(audits, k, j))
      <4>1. k \in Nat /\ \A n \in 1..k : audits'[n] = audits[n]
        BY <1>3
      <4> QED  BY <4>1, CompletedEventsGrow, SMTT(30)
    <3>2. audits'[k + 1].incident = i /\ audits'[k + 1].kind = kind
      BY <1>3
    <3> QED  BY <3>1, <3>2
  <2>2. Cardinality(CompletedEvents(audits, k, j))
          <= Cardinality(Completed(incidents[j].commitments))
        /\ Cardinality(CompletedEvents(audits, k, j)) \in Nat
        /\ Cardinality(Completed(incidents[j].commitments)) \in Nat
    <3>1. incidents[j].commitments \in Seq(CommitmentStates)
      BY <1>2 DEF Incident
    <3> QED  BY <1>3, <3>1, CompletedFinite, CompletedEventsFinite DEF EvidenceInv, CompletionsKept, k
  <2>3. CASE j = i
    BY <1>3, <1>4, <1>7, <2>1, <2>2, <2>3
  <2>4. CASE j # i
    BY <1>3, <1>7, <2>1, <2>2, <2>4
  <2> QED  BY <2>3, <2>4
<1> QED
  BY <1>3, <1>8, <1>9, <1>10, <1>11, <1>12 DEF EvidenceInv

-----------------------------------------------------------------------------
(* The commands keep it.                                                   *)

\* What a command makes of the commitments.
LEMMA CommitmentChanged ==
  ASSUME NEW s \in Seq(CommitmentStates), NEW n \in DOMAIN s, s[n] # "completed",
         NEW v \in CommitmentStates
  PROVE  LET t == [s EXCEPT ![n] = v]
         IN  /\ t \in Seq(CommitmentStates)
             /\ Cardinality(Completed(t)) \in Nat
             /\ Cardinality(Completed(t)) =
                  Cardinality(Completed(s)) + (IF v = "completed" THEN 1 ELSE 0)
<1> DEFINE t == [s EXCEPT ![n] = v]
<1>1. t \in Seq(CommitmentStates) /\ DOMAIN t = DOMAIN s
  BY LenProperties, ExceptSeq
<1>2. /\ IsFiniteSet(Completed(s)) /\ Cardinality(Completed(s)) \in Nat
      /\ Cardinality(Completed(t)) \in Nat
  BY <1>1, CompletedFinite
<1>3. n \notin Completed(s)
  BY DEF Completed
<1>4. ASSUME v = "completed"
      PROVE  Cardinality(Completed(t)) = Cardinality(Completed(s)) + 1
  <2>1. Completed(t) = Completed(s) \cup {n}
    BY <1>1, <1>4 DEF Completed
  <2> QED  BY <1>2, <1>3, <2>1, FS_AddElement
<1>5. ASSUME v # "completed"
      PROVE  Cardinality(Completed(t)) = Cardinality(Completed(s)) + 0
  <2>1. Completed(t) = Completed(s)
    BY <1>1, <1>3, <1>5 DEF Completed
  <2> HIDE DEF t
  <2> QED  BY <1>2, <2>1
<1> HIDE DEF t
<1>6. Cardinality(Completed(t)) =
        Cardinality(Completed(s)) + (IF v = "completed" THEN 1 ELSE 0)
  BY <1>4, <1>5
<1> QED
  BY <1>1, <1>2, <1>6 DEF t

LEMMA CommitmentAdded ==
  ASSUME NEW s \in Seq(CommitmentStates)
  PROVE  LET t == Append(s, "effective")
         IN  /\ t \in Seq(CommitmentStates)
             /\ Cardinality(Completed(t)) \in Nat
             /\ Cardinality(Completed(t)) = Cardinality(Completed(s))
<1> DEFINE t == Append(s, "effective")
           k == Len(s)
<1>1. /\ "effective" \in CommitmentStates /\ k \in Nat /\ DOMAIN s = 1..k
  BY LenProperties DEF CommitmentStates
<1>2. /\ t \in Seq(CommitmentStates) /\ Len(t) = k + 1 /\ t[k + 1] = "effective"
      /\ \A n \in 1..k : t[n] = s[n]
  BY <1>1, AppendProperties
<1>3. DOMAIN t = 1..(k + 1)
  BY <1>2, LenProperties
<1> HIDE DEF t, k
<1>4. 1..(k + 1) = (1..k) \cup {k + 1}
  BY <1>1
<1>5. Completed(t) = Completed(s)
  BY <1>1, <1>2, <1>3, <1>4 DEF Completed
<1>6. Cardinality(Completed(s)) \in Nat
  BY CompletedFinite
<1> QED
  BY <1>2, <1>5, <1>6 DEF t

\* A step that only touches the signatures under way.
LEMMA SignatureStep ==
  ASSUME EvidenceInv, UNCHANGED <<audits, incidents, manifest>>,
         signing' \in [Incidents -> Signature \cup {None}], SigningSound'
  PROVE  EvidenceInv'
BY DEF EvidenceInv, StateTyped, ChainSound, SealSound, EventsThere, CompletionsKept, Exists

LEMMA UnchangedCommands ==
  ASSUME EvidenceInv, UNCHANGED <<audits, incidents, manifest, signing>>
  PROVE  EvidenceInv'
BY DEF EvidenceInv, StateTyped, ChainSound, SigningSound, SealSound, EventsThere,
       CompletionsKept, Exists

LEMMA CommandSteps ==
  ASSUME EvidenceInv, NEW i \in Incidents
  PROVE  /\ Report(i) => EvidenceInv'
         /\ Amend(i) => EvidenceInv'
         /\ AcknowledgeDeadline(i) => EvidenceInv'
         /\ \A n \in DOMAIN incidents[i].commitments :
              /\ CompleteCommitment(i, n) => EvidenceInv'
              /\ ExpireCommitment(i, n) => EvidenceInv'
              /\ RenewCommitment(i, n) => EvidenceInv'
<1> DEFINE x == incidents[i]
           s == x.commitments
<1>1. /\ x \in Incident /\ s \in Seq(CommitmentStates)
      /\ signing \in [Incidents -> Signature \cup {None}]
  BY DEF EvidenceInv, StateTyped, Incident
<1>2. Cardinality(Completed(s)) \in Nat
  BY <1>1, CompletedFinite
<1>3. {"reported", "amended", "acknowledged", "completed", "expired", "renewed"} \subseteq Kinds
      /\ {"effective", "completed", "expired"} \subseteq CommitmentStates
  BY DEF Kinds, CommitmentStates
<1>4. UNCHANGED signing =>
        /\ \A j \in Incidents : signing'[j] = signing[j] \/ signing'[j] = None
        /\ DOMAIN signing' = Incidents /\ signing' = [j \in Incidents |-> signing'[j]]
  BY <1>1
<1>5. ~Exists(i) => ~x.sealed
  BY DEF EvidenceInv, SealSound
<1> HIDE DEF x
<1>6. ASSUME NEW kind \in Kinds, NEW y \in Incident, Record(i, kind, y), UNCHANGED signing,
             ~x.sealed, y.revision = x.revision, ~y.sealed,
             Cardinality(Completed(y.commitments)) \in Nat,
             Cardinality(Completed(y.commitments)) >=
               Cardinality(Completed(s)) + (IF kind = "completed" THEN 1 ELSE 0)
      PROVE  EvidenceInv'
  BY <1>4, <1>6, RecordStep DEF x
<1>7. Report(i) => EvidenceInv'
  BY <1>1, <1>2, <1>3, <1>5, <1>6 DEF Report, x
<1>8. Amend(i) => EvidenceInv'
  BY <1>1, <1>2, <1>3, <1>6 DEF Amend, Running, x
<1>9. ASSUME NEW t \in Seq(CommitmentStates), NEW kind \in Kinds,
             Cardinality(Completed(t)) \in Nat,
             Cardinality(Completed(t)) >=
               Cardinality(Completed(s)) + (IF kind = "completed" THEN 1 ELSE 0),
             Running(i), Record(i, kind, [x EXCEPT !.commitments = t]), UNCHANGED signing
      PROVE  EvidenceInv'
  <2> DEFINE y == [x EXCEPT !.commitments = t]
  <2>1. /\ y \in Incident /\ y.revision = x.revision /\ y.commitments = t
        /\ y.sealed = x.sealed
    BY <1>1 DEF Incident
  <2>2. ~x.sealed
    BY <1>9 DEF Running, x
  <2> HIDE DEF y
  <2> QED  BY <1>6, <1>9, <2>1, <2>2 DEF y
<1>10. AcknowledgeDeadline(i) => EvidenceInv'
  <2> SUFFICES ASSUME AcknowledgeDeadline(i) PROVE EvidenceInv'
    OBVIOUS
  <2> DEFINE t == Append(s, "effective")
  <2>1. /\ t \in Seq(CommitmentStates) /\ Cardinality(Completed(t)) \in Nat
        /\ Cardinality(Completed(t)) = Cardinality(Completed(s))
    BY <1>1, CommitmentAdded
  <2>2. [incidents[i] EXCEPT !.commitments = Append(@, "effective")] =
        [x EXCEPT !.commitments = t]
    BY DEF x
  <2>3. Running(i) /\ UNCHANGED signing /\ Record(i, "acknowledged", [x EXCEPT !.commitments = t])
    BY <2>2 DEF AcknowledgeDeadline
  <2> HIDE DEF t
  <2> QED  BY <1>2, <1>3, <1>9, <2>1, <2>3
<1>11. ASSUME NEW n \in DOMAIN incidents[i].commitments
       PROVE  /\ CompleteCommitment(i, n) => EvidenceInv'
              /\ ExpireCommitment(i, n) => EvidenceInv'
              /\ RenewCommitment(i, n) => EvidenceInv'
  <2>1. n \in DOMAIN s /\ s = incidents[i].commitments
    BY DEF x
  <2>2. ASSUME NEW v \in CommitmentStates, NEW kind \in Kinds,
               (v = "completed") <=> (kind = "completed"), s[n] # "completed",
               Running(i), Record(i, kind, [x EXCEPT !.commitments[n] = v]), UNCHANGED signing
        PROVE  EvidenceInv'
    <3> DEFINE t == [s EXCEPT ![n] = v]
    <3>1. /\ t \in Seq(CommitmentStates) /\ Cardinality(Completed(t)) \in Nat
          /\ Cardinality(Completed(t)) =
               Cardinality(Completed(s)) + (IF v = "completed" THEN 1 ELSE 0)
      BY <1>1, <2>1, <2>2, CommitmentChanged
    <3>2. [x EXCEPT !.commitments[n] = v] = [x EXCEPT !.commitments = t]
      OBVIOUS
    <3> HIDE DEF t
    <3> QED  BY <1>2, <1>9, <2>2, <3>1, <3>2
  <2>3. CompleteCommitment(i, n) => EvidenceInv'
    BY <1>3, <2>1, <2>2 DEF CompleteCommitment, x
  <2>4. ExpireCommitment(i, n) => EvidenceInv'
    BY <1>3, <2>1, <2>2 DEF ExpireCommitment, x
  <2>5. RenewCommitment(i, n) => EvidenceInv'
    BY <1>3, <2>1, <2>2 DEF RenewCommitment, x
  <2> QED  BY <2>3, <2>4, <2>5
<1> QED
  BY <1>7, <1>8, <1>10, <1>11

LEMMA SignatureSteps ==
  ASSUME EvidenceInv, NEW i \in Incidents
  PROVE  /\ ReadTail(i) => EvidenceInv'
         /\ SignReopen(i) => EvidenceInv'
         /\ RefuseSignature(i) => EvidenceInv'
<1>1. /\ incidents[i] \in Incident /\ incidents[i].commitments \in Seq(CommitmentStates)
      /\ incidents[i].revision \in Nat
      /\ signing \in [Incidents -> Signature \cup {None}] /\ audits \in Seq(AuditEvent)
  BY DEF EvidenceInv, StateTyped, Incident
<1>2. ReadTail(i) => EvidenceInv'
  <2> SUFFICES ASSUME ReadTail(i) PROVE EvidenceInv'
    OBVIOUS
  <2> DEFINE events == EventsOf(audits, i)
             given == [expected |-> incidents[i].revision, tail |-> Last(events).sequence]
  <2>1. events \in Seq(AuditEvent) /\ events # <<>>
    BY <1>1, EventsTyped DEF ReadTail, Running, EvidenceInv, EventsThere
  <2>2. Len(events) \in 1..Len(events) /\ Last(events) = events[Len(events)]
    BY <2>1, EmptySeq, LenProperties DEF Last
  <2>3. Last(events) \in AuditEvent
    BY <2>1, <2>2, ElementOfSeq
  <2>4. Last(events).sequence \in Nat
    BY <2>3, AuditTrailAssumption DEF AuditEvent
  <2>5. given \in Signature
    BY <1>1, <2>4 DEF Signature
  <2>6. signing' = [signing EXCEPT ![i] = given] /\ UNCHANGED <<audits, incidents, manifest>>
    BY DEF ReadTail
  <2>7. given.expected = incidents[i].revision /\ given.tail = Last(EventsOf(audits, i)).sequence
    OBVIOUS
  <2> HIDE DEF given, events
  <2>8. signing' \in [Incidents -> Signature \cup {None}]
    BY <1>1, <2>5, <2>6
  <2>9. signing'[i] = given /\ \A j \in Incidents : j # i => signing'[j] = signing[j]
    BY <1>1, <2>6
  <2>10. SigningSound'
    <3> SUFFICES ASSUME NEW j \in Incidents, signing'[j] # None
                 PROVE  /\ signing'[j].expected <= incidents[j].revision
                        /\ signing'[j].expected = incidents[j].revision =>
                             signing'[j].tail = Last(EventsOf(audits, j)).sequence
      BY <2>6 DEF SigningSound
    <3>1. CASE j = i
      BY <1>1, <2>7, <2>9, <3>1
    <3>2. CASE j # i
      BY <2>9, <3>2 DEF EvidenceInv, SigningSound
    <3> QED  BY <3>1, <3>2
  <2> QED  BY <2>6, <2>8, <2>10, SignatureStep
<1>3. SignReopen(i) => EvidenceInv'
  <2> SUFFICES ASSUME SignReopen(i) PROVE EvidenceInv'
    OBVIOUS
  <2> DEFINE x == incidents[i]
             y == [incidents[i] EXCEPT !.sealed = TRUE, !.tail = signing[i].tail]
  <2>1. /\ Running(i) /\ signing[i] # None /\ signing[i].expected = incidents[i].revision
        /\ Record(i, "sealed", y) /\ signing' = [signing EXCEPT ![i] = None]
    BY DEF SignReopen
  <2>2. signing[i] \in Signature /\ signing[i].tail = Last(EventsOf(audits, i)).sequence
    BY <1>1, <2>1 DEF EvidenceInv, SigningSound
  <2>3. signing[i].tail \in Nat
    BY <2>2 DEF Signature
  <2>4. /\ y \in Incident /\ y.revision = incidents[i].revision
        /\ y.commitments = incidents[i].commitments /\ y.tail = signing[i].tail
    BY <1>1, <2>3 DEF Incident
  <2>5. /\ \A j \in Incidents : signing'[j] = signing[j] \/ signing'[j] = None
        /\ DOMAIN signing' = Incidents /\ signing' = [j \in Incidents |-> signing'[j]]
    BY <1>1, <2>1
  <2>6. ~incidents[i].sealed /\ Exists(i) /\ "sealed" \in Kinds
    BY <2>1 DEF Running, Kinds
  <2>7. Cardinality(Completed(y.commitments)) \in Nat
        /\ Cardinality(Completed(y.commitments)) >=
             Cardinality(Completed(incidents[i].commitments)) + 0
    BY <1>1, <2>4, CompletedFinite
  <2> HIDE DEF y
  <2> QED  BY <2>1, <2>2, <2>4, <2>5, <2>6, <2>7, RecordStep
<1>4. RefuseSignature(i) => EvidenceInv'
  <2> SUFFICES ASSUME RefuseSignature(i) PROVE EvidenceInv'
    OBVIOUS
  <2>1. signing' = [signing EXCEPT ![i] = None] /\ UNCHANGED <<audits, incidents, manifest>>
    BY DEF RefuseSignature
  <2>2. \A j \in Incidents : signing'[j] # None => signing'[j] = signing[j]
    BY <1>1, <2>1
  <2>3. SigningSound'
    BY <2>1, <2>2 DEF EvidenceInv, SigningSound
  <2>4. signing' \in [Incidents -> Signature \cup {None}]
    BY <1>1, <2>1
  <2> QED  BY <2>1, <2>3, <2>4, SignatureStep
<1> QED
  BY <1>2, <1>3, <1>4

\* A client that pages leaves everything but its listing alone.
LEMMA PagingSteps ==
  ASSUME NEW c \in Clients,
         \/ \E i \in Incidents, f \in Filters : Ask(c, i, f)
         \/ ReadEvents(c)
         \/ RefuseChain(c)
         \/ \E limit \in 1..MaxLimit : ServePage(c, limit)
  PROVE  UNCHANGED <<audits, incidents, manifest, signing>>
BY DEF Ask, ReadEvents, RefuseChain, ServePage

LEMMA EvidenceStep == EvidenceInv /\ [Next]_vars => EvidenceInv'
<1> SUFFICES ASSUME EvidenceInv, [Next]_vars PROVE EvidenceInv'
  OBVIOUS
<1>1. ASSUME NEW i \in Incidents,
             \/ Report(i) \/ Amend(i) \/ AcknowledgeDeadline(i)
             \/ \E n \in DOMAIN incidents[i].commitments :
                  CompleteCommitment(i, n) \/ ExpireCommitment(i, n) \/ RenewCommitment(i, n)
      PROVE  EvidenceInv'
  BY <1>1, CommandSteps
<1>2. ASSUME NEW i \in Incidents, ReadTail(i) \/ SignReopen(i) \/ RefuseSignature(i)
      PROVE  EvidenceInv'
  BY <1>2, SignatureSteps
<1>3. ASSUME NEW c \in Clients,
             \/ \E i \in Incidents, f \in Filters : Ask(c, i, f)
             \/ ReadEvents(c)
             \/ RefuseChain(c)
             \/ \E limit \in 1..MaxLimit : ServePage(c, limit)
      PROVE  EvidenceInv'
  BY <1>3, PagingSteps, UnchangedCommands
<1>4. CASE UNCHANGED vars
  BY <1>4, UnchangedCommands DEF vars
<1> QED
  BY <1>1, <1>2, <1>3, <1>4 DEF Next

\* Once an incident is sealed, Store.Evidence reports its evidence complete
\* for ever, and the end of the trail in the sealed snapshot is its last event
\* before the seal: the revision check makes the read before the lock safe.
THEOREM SealedEvidenceHolds == Spec => []SealedEvidenceComplete
<1>1. EvidenceInv => SealedEvidenceComplete
  BY DEF EvidenceInv, ChainSound, SealSound, SealedEvidenceComplete, Evidence
<1> QED
  BY <1>1, EvidenceInit, EvidenceStep, PTL DEF Spec

-----------------------------------------------------------------------------
(* What a page is cut from.                                                *)

Rising(events) ==
  \A m, n \in 1..Len(events) : m < n => events[m].sequence < events[n].sequence

LEMMA ChosenRising ==
  ASSUME NEW s \in Seq(AuditEvent), Rising(s), NEW places
  PROVE  Chosen(s, places) \in Seq(AuditEvent) /\ Rising(Chosen(s, places))
<1> DEFINE c == Chosen(s, places)
<1>1. PICK p : Leads(s, places, c, p)
  BY ChosenFacts
<1>2. /\ \A m \in 1..Len(c) : p[m] \in 1..Len(s) /\ c[m] = s[p[m]]
      /\ \A m, n \in 1..Len(c) : m < n => p[m] < p[n]
  BY <1>1 DEF Leads
<1>3. c \in Seq(AuditEvent)
  BY ChosenFacts
<1> HIDE DEF c
<1> QED
  BY <1>2, <1>3 DEF Rising, c

\* What matches when the trail had n events, as events and as numbers.
Shown(trail, l, n) == Matching(EventsOf(SubSeq(trail, 1, n), l.incident), l.filter)

LEMMA ShownFacts ==
  ASSUME NEW trail \in Seq(AuditEvent), verifyAuditChain(trail), NEW l, NEW n \in 0..Len(trail)
  PROVE  LET events == Shown(trail, l, n)
         IN  /\ events \in Seq(AuditEvent) /\ Rising(events)
             /\ Numbers(events) \in Seq(1..MaxEvents)
             /\ Len(Numbers(events)) = Len(events) /\ Len(events) \in Nat
             /\ DOMAIN events = 1..Len(events)
             /\ \A k \in 1..Len(events) : Numbers(events)[k] = events[k].sequence
             /\ \A k \in 1..Len(events) : events[k].sequence \in 1..MaxEvents
<1> DEFINE part == SubSeq(trail, 1, n)
           mine == EventsOf(part, l.incident)
           events == Shown(trail, l, n)
<1>1. Len(trail) \in Nat /\ \A k \in 1..Len(trail) : trail[k] \in AuditEvent /\ trail[k].sequence = k
  BY LenProperties, ElementOfSeq DEF verifyAuditChain
<1>2. 1 \in Int /\ n \in Int /\ \A k \in 1..n : trail[k] \in AuditEvent
  BY <1>1
<1>3. /\ part \in Seq(AuditEvent) /\ Len(part) = n
      /\ \A k \in 1..n : part[k] = trail[k]
  <2>1. /\ part \in Seq(AuditEvent) /\ Len(part) = (IF 1 <= n THEN n - 1 + 1 ELSE 0)
        /\ \A k \in 1..(n - 1 + 1) : part[k] = trail[1 + k - 1]
    BY <1>2, SubSeqProperties
  <2> HIDE DEF part
  <2> QED  BY <1>2, <2>1
<1> HIDE DEF part
<1>4. Rising(part)
  BY <1>1, <1>3 DEF Rising
<1>5. mine \in Seq(AuditEvent) /\ Rising(mine)
  BY <1>3, <1>4, ChosenRising DEF EventsOf
<1>6. events = Matching(mine, l.filter)
  BY DEF Shown, part
<1> HIDE DEF mine, events
<1>7. events \in Seq(AuditEvent) /\ Rising(events)
  BY <1>5, <1>6, ChosenRising DEF Matching
<1>8. Len(events) \in Nat /\ DOMAIN events = 1..Len(events)
  BY <1>7, LenProperties
<1>9. \A k \in 1..Len(events) : events[k].sequence \in 1..MaxEvents
  <2> SUFFICES ASSUME NEW k \in 1..Len(events) PROVE events[k].sequence \in 1..MaxEvents
    OBVIOUS
  <2>1. events[k] \in AuditEvent
    BY <1>7, ElementOfSeq, Zenon
  <2> QED  BY <2>1 DEF AuditEvent
<1>10. Numbers(events) \in [1..Len(events) -> 1..MaxEvents]
  BY <1>8, <1>9 DEF Numbers
<1>11. Numbers(events) \in Seq(1..MaxEvents) /\ Len(Numbers(events)) = Len(events)
  BY <1>8, <1>10, ListFacts
<1>12. \A k \in 1..Len(events) : Numbers(events)[k] = events[k].sequence
  BY <1>8 DEF Numbers
<1> QED
  BY <1>7, <1>8, <1>9, <1>11, <1>12 DEF events

\* What matched once is the beginning of what matches later, whether the trail
\* is read further or has grown.
LEMMA ShownGrows ==
  ASSUME NEW trail \in Seq(AuditEvent), verifyAuditChain(trail),
         NEW later \in Seq(AuditEvent), verifyAuditChain(later), Begins(trail, later),
         NEW l, NEW n \in 0..Len(trail), NEW m \in n..Len(later)
  PROVE  Begins(Numbers(Shown(trail, l, n)), Numbers(Shown(later, l, m)))
<1> DEFINE part == SubSeq(trail, 1, n)
           whole == SubSeq(later, 1, m)
           few == Shown(trail, l, n)
           many == Shown(later, l, m)
<1>1. /\ Len(trail) \in Nat /\ Len(later) \in Nat /\ Len(trail) <= Len(later)
      /\ \A k \in 1..Len(trail) : trail[k] = later[k]
      /\ m \in 0..Len(later)
  BY LenProperties DEF Begins
<1>2. /\ \A k \in 1..n : trail[k] \in AuditEvent
      /\ \A k \in 1..m : later[k] \in AuditEvent
      /\ m \in Int /\ n \in Int /\ n <= m /\ 0 <= n /\ \A k \in 1..n : trail[k] = later[k]
  BY <1>1, ElementOfSeq
<1>3. /\ part \in Seq(AuditEvent) /\ Len(part) = (IF 1 <= n THEN n - 1 + 1 ELSE 0)
      /\ \A k \in 1..(n - 1 + 1) : part[k] = trail[1 + k - 1]
  BY <1>2, SubSeqProperties
<1>4. /\ whole \in Seq(AuditEvent) /\ Len(whole) = (IF 1 <= m THEN m - 1 + 1 ELSE 0)
      /\ \A k \in 1..(m - 1 + 1) : whole[k] = later[1 + k - 1]
  BY <1>2, SubSeqProperties
<1> HIDE DEF part, whole
<1>5. Begins(part, whole) /\ DOMAIN part = 1..Len(part) /\ DOMAIN whole = 1..Len(whole)
      /\ Len(part) = n /\ Len(whole) = m
  BY <1>2, <1>3, <1>4, LenProperties DEF Begins
<1>6. \A k \in 1..Len(part) :
        k \in {j \in DOMAIN part : part[j].incident = l.incident} <=>
        k \in {j \in DOMAIN whole : whole[j].incident = l.incident}
  BY <1>2, <1>5 DEF Begins
<1> DEFINE mine == EventsOf(part, l.incident)
           ours == EventsOf(whole, l.incident)
<1>7. Begins(mine, ours)
  BY <1>3, <1>4, <1>5, <1>6, ChosenBegins DEF EventsOf
<1>8. mine \in Seq(AuditEvent) /\ ours \in Seq(AuditEvent)
  BY <1>3, <1>4, EventsTyped
<1>9. few = Matching(mine, l.filter) /\ many = Matching(ours, l.filter)
  BY DEF Shown, part, whole
<1> HIDE DEF mine, ours, few, many
<1>10. Len(mine) <= Len(ours) /\ DOMAIN mine = 1..Len(mine) /\ DOMAIN ours = 1..Len(ours)
       /\ Len(mine) \in Nat /\ Len(ours) \in Nat
  BY <1>7, <1>8, LenProperties DEF Begins
<1>11. \A k \in 1..Len(mine) :
         k \in {j \in DOMAIN mine : mine[j].kind \in l.filter} <=>
         k \in {j \in DOMAIN ours : ours[j].kind \in l.filter}
  BY <1>7, <1>10 DEF Begins
<1>12. Begins(few, many)
  BY <1>7, <1>8, <1>9, <1>11, ChosenBegins DEF Matching
<1>13. /\ Len(Numbers(few)) = Len(few) /\ Len(few) \in Nat
       /\ \A k \in 1..Len(few) : Numbers(few)[k] = few[k].sequence
  BY ShownFacts DEF few
<1>14. /\ Len(Numbers(many)) = Len(many) /\ Len(many) \in Nat
       /\ \A k \in 1..Len(many) : Numbers(many)[k] = many[k].sequence
  BY <1>1, ShownFacts DEF many
<1> QED
  <2>1. Begins(Numbers(few), Numbers(many))
    BY <1>12, <1>13, <1>14 DEF Begins
  <2> QED  BY <2>1 DEF few, many

-----------------------------------------------------------------------------
(* The inductive invariant of the listings.                                *)

\* What a client has got is the beginning of what matches; a cursor is the
\* last event it got; and a listing at its end has it all, and statuses that
\* count each commitment completed by then.
ListingOK(trail, l) ==
  /\ l \in Listing /\ l.upTo <= Len(trail)
  /\ l.stage # "idle" => l.incident \in Incidents
  /\ Begins(l.got, Numbers(Shown(trail, l, l.upTo)))
  /\ l.stage \in {"asking", "reading"} =>
       IF l.cursor = 0 THEN l.got = <<>> ELSE l.got # <<>> /\ Last(l.got) = l.cursor
  /\ l.stage = "done" =>
       /\ l.got = Numbers(Shown(trail, l, l.upTo))
       /\ Cardinality(CompletedEvents(trail, l.upTo, l.incident))
            <= Cardinality(Completed(l.statuses))

ListInv ==
  /\ EvidenceInv
  /\ listing \in [Clients -> Listing]
  /\ \A c \in Clients : ListingOK(audits, listing[c])

LEMMA EmptyListing ==
  ASSUME EvidenceInv, NEW l \in Listing, l.upTo = 0, l.got = <<>>, l.cursor = 0,
         l.stage \in {"idle", "asking"}, l.stage # "idle" => l.incident \in Incidents
  PROVE  ListingOK(audits, l)
<1>1. audits \in Seq(AuditEvent) /\ verifyAuditChain(audits)
  BY DEF EvidenceInv, StateTyped, ChainSound
<1>2. Len(audits) \in Nat /\ 0 \in 0..Len(audits)
  BY <1>1, LenProperties
<1>3. Len(Numbers(Shown(audits, l, 0))) \in Nat
  BY <1>1, <1>2, ShownFacts
<1>4. Begins(<<>>, Numbers(Shown(audits, l, 0)))
  BY <1>3 DEF Begins
<1> QED
  BY <1>2, <1>4 DEF ListingOK

LEMMA NoListingTyped == NoListing \in Listing
<1>1. /\ "idle" \in Stages /\ 0 \in 0..MaxEvents /\ <<>> \in Seq(1..MaxEvents)
      /\ <<>> \in Seq(CommitmentStates)
  BY AuditTrailAssumption DEF Stages
<1> QED
  BY <1>1 DEF NoListing, Listing

LEMMA ListInit == Init => ListInv
<1> SUFFICES ASSUME Init PROVE ListInv
  OBVIOUS
<1>1. EvidenceInv
  BY EvidenceInit
<1>2. ListingOK(audits, NoListing)
  <2>1. NoListing.upTo = 0 /\ NoListing.got = <<>> /\ NoListing.cursor = 0
        /\ NoListing.stage = "idle"
    BY DEF NoListing
  <2> QED  BY <1>1, <2>1, NoListingTyped, EmptyListing
<1>3. listing = [c \in Clients |-> NoListing]
  BY DEF Init
<1> QED
  BY <1>1, <1>2, <1>3, NoListingTyped DEF ListInv

\* Whatever the step, the trail only grows.
LEMMA TrailGrows ==
  ASSUME EvidenceInv, [Next]_vars
  PROVE  Begins(audits, audits')
<1>1. audits \in Seq(AuditEvent) /\ Len(audits) \in Nat /\ StateTyped /\ ChainSound
  BY LenProperties DEF EvidenceInv, StateTyped
<1>2. audits' = audits => Begins(audits, audits')
  BY <1>1 DEF Begins
<1>3. ASSUME NEW i \in Incidents, NEW kind \in Kinds, NEW x, Record(i, kind, x)
      PROVE  Begins(audits, audits')
  <2>1. Len(audits) < MaxEvents /\ audits' = appendAudit(i, kind)
    BY <1>3 DEF Record
  <2>2. Len(audits') = Len(audits) + 1 /\ \A n \in 1..Len(audits) : audits'[n] = audits[n]
    BY <1>1, <2>1, AppendedFacts
  <2> QED  BY <1>1, <2>2 DEF Begins
<1>4. ASSUME NEW i \in Incidents,
             \/ Report(i) \/ Amend(i) \/ AcknowledgeDeadline(i)
             \/ \E n \in DOMAIN incidents[i].commitments :
                  CompleteCommitment(i, n) \/ ExpireCommitment(i, n) \/ RenewCommitment(i, n)
             \/ SignReopen(i)
      PROVE  Begins(audits, audits')
  BY <1>3, <1>4 DEF Kinds, Report, Amend, AcknowledgeDeadline, CompleteCommitment,
                    ExpireCommitment, RenewCommitment, SignReopen
<1>5. ASSUME NEW i \in Incidents, ReadTail(i) \/ RefuseSignature(i)
      PROVE  audits' = audits
  BY <1>5 DEF ReadTail, RefuseSignature
<1>6. ASSUME NEW c \in Clients,
             \/ \E i \in Incidents, f \in Filters : Ask(c, i, f)
             \/ ReadEvents(c)
             \/ RefuseChain(c)
             \/ \E limit \in 1..MaxLimit : ServePage(c, limit)
      PROVE  audits' = audits
  BY <1>6, PagingSteps
<1>7. CASE UNCHANGED vars
  BY <1>2, <1>7 DEF vars
<1> QED
  BY <1>2, <1>4, <1>5, <1>6, <1>7 DEF Next

\* A listing stays good while others extend the trail.
LEMMA ListingKept ==
  ASSUME NEW trail \in Seq(AuditEvent), NEW later \in Seq(AuditEvent), Begins(trail, later),
         NEW l, ListingOK(trail, l)
  PROVE  ListingOK(later, l)
<1> DEFINE u == l.upTo
<1>1. /\ Len(trail) \in Nat /\ Len(later) \in Nat /\ Len(trail) <= Len(later)
      /\ \A n \in 1..Len(trail) : trail[n] = later[n] /\ trail[n] \in AuditEvent
  BY LenProperties, ElementOfSeq DEF Begins
<1>2. l \in Listing /\ u \in Nat /\ u <= Len(trail)
  BY <1>1 DEF ListingOK, Listing
<1>3. SubSeq(trail, 1, u) = SubSeq(later, 1, u)
  <2>1. /\ 1 \in Int /\ u \in Int
        /\ \A n \in 1..u : trail[n] = later[n] /\ trail[n] \in AuditEvent /\ later[n] \in AuditEvent
    BY <1>1, <1>2
  <2> DEFINE few == SubSeq(trail, 1, u)
             same == SubSeq(later, 1, u)
  <2>2. /\ few \in Seq(AuditEvent) /\ Len(few) = (IF 1 <= u THEN u - 1 + 1 ELSE 0)
        /\ \A k \in 1..(u - 1 + 1) : few[k] = trail[1 + k - 1]
    BY <2>1, SubSeqProperties
  <2>3. /\ same \in Seq(AuditEvent) /\ Len(same) = (IF 1 <= u THEN u - 1 + 1 ELSE 0)
        /\ \A k \in 1..(u - 1 + 1) : same[k] = later[1 + k - 1]
    BY <2>1, SubSeqProperties
  <2> HIDE DEF few, same
  <2>4. Len(few) = u /\ Len(same) = u
    BY <1>2, <2>2, <2>3
  <2>5. \A k \in 1..u : few[k] = same[k]
    BY <1>2, <2>1, <2>2, <2>3
  <2>6. few = same
    BY <2>2, <2>3, <2>4, <2>5, SeqEqual
  <2> QED  BY <2>6 DEF few, same
<1>4. Shown(trail, l, u) = Shown(later, l, u)
  BY <1>3 DEF Shown
<1>5. CompletedEvents(trail, u, l.incident) = CompletedEvents(later, u, l.incident)
  BY <1>1, <1>2 DEF CompletedEvents
<1>6. u <= Len(later)
  BY <1>1, <1>2
<1> QED
  BY <1>4, <1>5, <1>6 DEF ListingOK

\* The trail is read again.
LEMMA EventsReadOK ==
  ASSUME NEW trail \in Seq(AuditEvent), verifyAuditChain(trail), Len(trail) <= MaxEvents,
         NEW l, ListingOK(trail, l), l.stage = "asking"
  PROVE  ListingOK(trail, [l EXCEPT !.stage = "reading", !.upTo = Len(trail)])
<1> DEFINE m == [l EXCEPT !.stage = "reading", !.upTo = Len(trail)]
           few == Numbers(Shown(trail, l, l.upTo))
           many == Numbers(Shown(trail, m, m.upTo))
<1>1. Len(trail) \in Nat /\ Len(trail) \in 0..MaxEvents
  BY LenProperties, AuditTrailAssumption
<1>2. /\ l \in Listing /\ l.upTo \in 0..Len(trail) /\ l.upTo \in Nat
  BY <1>1 DEF ListingOK, Listing
<1>3. /\ m \in Listing /\ m.stage = "reading" /\ m.upTo = Len(trail)
      /\ m.incident = l.incident /\ m.filter = l.filter /\ m.got = l.got
      /\ m.cursor = l.cursor
  BY <1>1, <1>2 DEF Listing, Stages
<1> HIDE DEF m
<1>4. Shown(trail, m, m.upTo) = Shown(trail, l, Len(trail))
  BY <1>3 DEF Shown
<1>5. Begins(few, many)
  <2>1. Begins(trail, trail) /\ Len(trail) \in l.upTo..Len(trail)
    BY <1>1, <1>2 DEF Begins
  <2> QED  BY <1>2, <1>4, <2>1, ShownGrows
<1>6. Begins(l.got, few)
  BY DEF ListingOK
<1>7. Len(few) \in Nat /\ Len(many) \in Nat /\ Len(l.got) \in Nat
  <2>1. l.got \in Seq(1..MaxEvents)
    BY <1>2 DEF Listing
  <2>2. Len(trail) \in 0..Len(trail)
    BY <1>1
  <2> QED  BY <1>2, <1>4, <2>1, <2>2, ShownFacts, LenProperties
<1>8. Begins(m.got, many)
  <2> HIDE DEF few, many
  <2> QED  BY <1>3, <1>5, <1>6, <1>7 DEF Begins
<1>9. m.incident \in Incidents
  BY <1>3 DEF ListingOK
<1>10. IF m.cursor = 0 THEN m.got = <<>> ELSE m.got # <<>> /\ Last(m.got) = m.cursor
  BY <1>3 DEF ListingOK
<1>11. m.upTo <= Len(trail)
  BY <1>1, <1>3
<1> QED
  <2>1. ListingOK(trail, m)
    BY <1>3, <1>8, <1>9, <1>10, <1>11 DEF ListingOK
  <2> QED  BY <2>1 DEF m

\* The page begins where the last one ended.
LEMMA PageStarts ==
  ASSUME NEW events \in Seq(AuditEvent), Rising(events), NEW g \in 0..Len(events), NEW cursor,
         \A j \in 1..Len(events) : events[j].sequence \in 1..MaxEvents,
         IF cursor = 0 THEN g = 0 ELSE g >= 1 /\ cursor = events[g].sequence
  PROVE  PageStart(events, cursor) = g + 1
<1>1. Len(events) \in Nat /\ DOMAIN events = 1..Len(events)
  BY LenProperties
<1>2. CASE cursor = 0
  BY <1>2 DEF PageStart
<1>3. CASE cursor # 0
  <2>1. g \in 1..Len(events) /\ events[g].sequence = cursor
    BY <1>1, <1>3
  <2>2. ASSUME NEW j \in 1..Len(events), events[j].sequence = cursor, j # g
        PROVE  FALSE
    <3>1. j < g \/ g < j
      BY <1>1, <2>1, <2>2
    <3>2. events[j].sequence < events[g].sequence \/ events[g].sequence < events[j].sequence
      BY <2>1, <3>1 DEF Rising
    <3>3. events[g].sequence \in Nat
      BY <2>1, AuditTrailAssumption
    <3> QED  BY <2>1, <2>2, <3>2, <3>3
  <2>3. (CHOOSE j \in DOMAIN events : events[j].sequence = cursor) = g
    BY <1>1, <2>1, <2>2
  <2>4. PageStart(events, cursor) = 1 + g
    BY <1>3, <2>3 DEF PageStart
  <2> QED  BY <2>4
<1> QED
  BY <1>2, <1>3

\* What a client has got, and the next of it.
Continued(old, numbers, end) == old \o SubSeq(numbers, Len(old) + 1, end)

LEMMA PageAdds ==
  ASSUME NEW S, NEW numbers \in Seq(S), NEW old \in Seq(S), Begins(old, numbers),
         NEW end \in Nat, Len(old) <= end, end <= Len(numbers)
  PROVE  /\ Continued(old, numbers, end) \in Seq(S)
         /\ Len(Continued(old, numbers, end)) = end
         /\ \A j \in 1..end : Continued(old, numbers, end)[j] = numbers[j]
<1> PICK g \in Nat : g = Len(old)
  BY LenProperties
<1> PICK k \in Nat : k = Len(numbers)
  BY LenProperties
<1> \A j \in 1..g : old[j] = numbers[j]
  BY DEF Begins
<1> DEFINE page == SubSeq(numbers, g + 1, end)
           got == Continued(old, numbers, end)
<1>0. got = old \o page
  BY DEF Continued
<1> HIDE DEF got
<1>1. /\ g + 1 \in Int /\ end \in Int
      /\ \A j \in (g + 1)..end : numbers[j] \in S
  BY ElementOfSeq
<1>2. /\ page \in Seq(S)
      /\ Len(page) = (IF g + 1 <= end THEN end - (g + 1) + 1 ELSE 0)
      /\ \A j \in 1..(end - (g + 1) + 1) : page[j] = numbers[(g + 1) + j - 1]
  BY <1>1, SubSeqProperties
<1> HIDE DEF page
<1>3. Len(page) = end - g /\ \A j \in 1..(end - g) : page[j] = numbers[g + j]
  <2>1. Len(page) = end - g
    BY <1>2
  <2>2. ASSUME NEW j \in 1..(end - g) PROVE page[j] = numbers[g + j]
    <3>1. j \in 1..(end - (g + 1) + 1) /\ (g + 1) + j - 1 = g + j
      OBVIOUS
    <3> QED  BY <1>2, <3>1
  <2> QED  BY <2>1, <2>2
<1>4. /\ got \in Seq(S) /\ Len(got) = Len(old) + Len(page)
      /\ \A j \in 1..(Len(old) + Len(page)) :
           got[j] = IF j <= Len(old) THEN old[j] ELSE page[j - Len(old)]
  BY <1>0, <1>2, ConcatProperties
<1>5. Len(got) = end /\ \A j \in 1..end : got[j] = IF j <= g THEN old[j] ELSE page[j - g]
  BY <1>3, <1>4
<1>6. ASSUME NEW j \in 1..end PROVE got[j] = numbers[j]
  <2>1. CASE j <= g
    BY <1>5, <2>1
  <2>2. CASE ~(j <= g)
    <3>1. j - g \in 1..(end - g) /\ g + (j - g) = j
      BY <2>2
    <3>2. page[j - g] = numbers[j]
      BY <1>3, <3>1
    <3> QED  BY <1>5, <2>2, <3>2
  <2> QED  BY <2>1, <2>2
<1> QED
  BY <1>4, <1>5, <1>6 DEF got

\* A page is served: it begins where the last one ended.
LEMMA PageOK ==
  ASSUME NEW trail \in Seq(AuditEvent), verifyAuditChain(trail), Len(trail) <= MaxEvents,
         NEW l, ListingOK(trail, l), l.stage = "reading", NEW limit \in Nat, limit >= 1,
         NEW s \in Seq(CommitmentStates),
         Cardinality(CompletedEvents(trail, Len(trail), l.incident))
           <= Cardinality(Completed(s))
  PROVE  LET events == Shown(trail, l, l.upTo)
             start  == PageStart(events, l.cursor)
             end    == IF start + limit - 1 > Len(events) THEN Len(events)
                       ELSE start + limit - 1
             after  == NextCursor(events, end)
         IN  ListingOK(trail, [l EXCEPT !.stage = IF after = 0 THEN "done" ELSE "asking",
                                        !.cursor = after,
                                        !.got = @ \o SubSeq(Numbers(events), start, end),
                                        !.statuses = s])
<1> DEFINE u == l.upTo
           events == Shown(trail, l, u)
           numbers == Numbers(events)
           start == PageStart(events, l.cursor)
           end == IF start + limit - 1 > Len(events) THEN Len(events) ELSE start + limit - 1
           after == NextCursor(events, end)
           got == l.got \o SubSeq(numbers, start, end)
           m == [l EXCEPT !.stage = IF after = 0 THEN "done" ELSE "asking",
                          !.cursor = after, !.got = got, !.statuses = s]
           g == Len(l.got)
           k == Len(events)
<1>1. /\ Len(trail) \in Nat /\ l \in Listing /\ u \in Nat /\ u <= Len(trail)
      /\ u \in 0..Len(trail) /\ l.got \in Seq(1..MaxEvents) /\ MaxEvents \in Nat
      /\ l.cursor \in 0..MaxEvents
  BY LenProperties, AuditTrailAssumption DEF ListingOK, Listing
<1>2. /\ events \in Seq(AuditEvent) /\ Rising(events) /\ numbers \in Seq(1..MaxEvents)
      /\ Len(numbers) = k /\ k \in Nat /\ DOMAIN events = 1..k
      /\ \A j \in 1..k : numbers[j] = events[j].sequence
      /\ \A j \in 1..k : events[j].sequence \in 1..MaxEvents
  BY <1>1, ShownFacts
<1>3. g \in Nat /\ g <= k /\ \A j \in 1..g : l.got[j] = numbers[j]
  BY <1>1, <1>2, LenProperties DEF ListingOK, Begins
<1>4. IF l.cursor = 0 THEN l.got = <<>> ELSE l.got # <<>> /\ Last(l.got) = l.cursor
  BY DEF ListingOK
<1> HIDE DEF numbers, events
<1>5. start = g + 1
  <2>1. g \in 0..Len(events) /\ events \in Seq(AuditEvent)
    BY <1>2, <1>3
  <2>2. IF l.cursor = 0 THEN g = 0 ELSE g >= 1 /\ l.cursor = events[g].sequence
    <3>1. CASE l.cursor = 0
      BY <1>4, <3>1, EmptySeq
    <3>2. CASE l.cursor # 0
      <4>1. g \in 1..g /\ l.got[g] = l.cursor
        BY <1>1, <1>3, <1>4, <3>2, EmptySeq DEF Last
      <4>2. g \in 1..k
        BY <1>2, <1>3, <4>1
      <4> QED  BY <1>2, <1>3, <3>2, <4>1, <4>2
    <3> QED  BY <3>1, <3>2
  <2> QED  BY <1>2, <2>1, <2>2, PageStarts
<1> HIDE DEF start, k, g
<1>6. /\ end \in Nat /\ g <= end /\ end <= k /\ (end < k => end >= 1)
  BY <1>2, <1>3, <1>5 DEF k
<1> HIDE DEF end
<1>7. /\ got \in Seq(1..MaxEvents) /\ Len(got) = end
      /\ \A j \in 1..end : got[j] = numbers[j]
  <2>1. /\ numbers \in Seq(1..MaxEvents) /\ l.got \in Seq(1..MaxEvents)
        /\ end \in Nat /\ Len(l.got) <= end /\ end <= Len(numbers) /\ Begins(l.got, numbers)
    BY <1>1, <1>2, <1>3, <1>6 DEF g, Begins
  <2>2. got = Continued(l.got, numbers, end)
    BY <1>5 DEF g, Continued
  <2> HIDE DEF got
  <2> QED  BY <2>1, <2>2, PageAdds
<1> HIDE DEF got
<1>8. after \in 0..MaxEvents /\ (after = 0 <=> end = k)
      /\ (after # 0 => end >= 1 /\ after = numbers[end])
  <2>1. CASE end < k
    <3>1. end \in 1..k
      BY <1>2, <1>6, <2>1
    <3>2. after = events[end].sequence
      BY <2>1 DEF NextCursor, k
    <3> HIDE DEF after, events, k, numbers
    <3>3. after \in 1..MaxEvents /\ after = numbers[end]
      BY <1>2, <3>1, <3>2
    <3> QED  BY <1>1, <1>2, <1>6, <2>1, <3>1, <3>3
  <2>2. CASE ~(end < k)
    <3>1. after = 0 /\ end = k
      BY <1>2, <1>6, <2>2 DEF NextCursor, k
    <3> QED  BY <1>1, <3>1
  <2> QED  BY <2>1, <2>2
<1> HIDE DEF after
<1>9. /\ m \in Listing /\ m.stage = (IF after = 0 THEN "done" ELSE "asking")
      /\ m.cursor = after /\ m.got = got /\ m.statuses = s
      /\ m.incident = l.incident /\ m.filter = l.filter /\ m.upTo = u
  BY <1>1, <1>7, <1>8 DEF Listing, Stages
<1> HIDE DEF m
<1>10. Numbers(Shown(trail, m, m.upTo)) = numbers
  BY <1>9 DEF Shown, numbers, events
<1>11. Begins(m.got, numbers)
  BY <1>2, <1>6, <1>7, <1>9 DEF Begins
<1>12. IF m.cursor = 0 THEN m.stage = "done" ELSE m.got # <<>> /\ Last(m.got) = m.cursor
  <2>1. CASE after = 0
    BY <1>9, <2>1
  <2>2. CASE after # 0
    <3>1. end >= 1 /\ after = numbers[end] /\ end \in 1..end
      BY <1>6, <1>8, <2>2
    <3>2. got[end] = after /\ Last(got) = after
      BY <1>7, <3>1 DEF Last
    <3>3. got # <<>>
      BY <1>7, <3>1, EmptySeq
    <3> QED  BY <1>9, <2>2, <3>2, <3>3
  <2> QED  BY <2>1, <2>2
<1>13. m.stage = "done" =>
         /\ m.got = numbers
         /\ Cardinality(CompletedEvents(trail, m.upTo, m.incident))
              <= Cardinality(Completed(m.statuses))
  <2> SUFFICES ASSUME m.stage = "done"
               PROVE  /\ m.got = numbers
                      /\ Cardinality(CompletedEvents(trail, m.upTo, m.incident))
                           <= Cardinality(Completed(m.statuses))
    OBVIOUS
  <2>1. end = k
    BY <1>8, <1>9
  <2>2. got = numbers
    BY <1>2, <1>7, <2>1, SeqEqual
  <2>3. CompletedEvents(trail, u, l.incident) \subseteq CompletedEvents(trail, Len(trail), l.incident)
    BY <1>1 DEF CompletedEvents
  <2>4. /\ Cardinality(CompletedEvents(trail, u, l.incident))
             <= Cardinality(CompletedEvents(trail, Len(trail), l.incident))
        /\ Cardinality(CompletedEvents(trail, u, l.incident)) \in Nat
        /\ Cardinality(CompletedEvents(trail, Len(trail), l.incident)) \in Nat
    BY <1>1, <2>3, CompletedEventsFinite, FS_Subset
  <2>5. Cardinality(Completed(s)) \in Nat
    BY CompletedFinite
  <2> QED  BY <1>9, <2>2, <2>4, <2>5
<1>14. m.incident \in Incidents
  BY <1>9 DEF ListingOK
<1>15. m.stage \in {"done", "asking"} /\ m.upTo <= Len(trail)
  BY <1>1, <1>9
<1> QED
  <2>1. ListingOK(trail, m)
    BY <1>9, <1>10, <1>11, <1>12, <1>13, <1>14, <1>15 DEF ListingOK
  <2> QED  BY <2>1 DEF m, got, after, end, start, numbers, events, k

-----------------------------------------------------------------------------
(* Every step keeps it.                                                    *)

\* Changing one client's listing for a good one.
LEMMA ListingChanged ==
  ASSUME ListInv, EvidenceInv', UNCHANGED audits, NEW c \in Clients, NEW l,
         ListingOK(audits, l), listing' = [listing EXCEPT ![c] = l]
  PROVE  ListInv'
<1>1. l \in Listing /\ listing \in [Clients -> Listing]
  BY DEF ListInv, ListingOK
<1>2. \A d \in Clients : listing'[d] = IF d = c THEN l ELSE listing[d]
  BY <1>1
<1>3. listing' \in [Clients -> Listing]
  BY <1>1
<1>4. \A d \in Clients : ListingOK(audits, listing'[d])
  BY <1>2 DEF ListInv
<1> QED
  BY <1>3, <1>4 DEF ListInv

LEMMA ListingSteps ==
  ASSUME ListInv, EvidenceInv', NEW c \in Clients
  PROVE  /\ \A i \in Incidents, f \in Filters : Ask(c, i, f) => ListInv'
         /\ ReadEvents(c) => ListInv'
         /\ RefuseChain(c) => ListInv'
         /\ \A limit \in 1..MaxLimit : ServePage(c, limit) => ListInv'
<1> DEFINE l == listing[c]
<1>1. /\ EvidenceInv /\ l \in Listing /\ ListingOK(audits, l)
      /\ listing \in [Clients -> Listing] /\ incidents \in [Incidents -> Incident]
      /\ audits \in Seq(AuditEvent) /\ verifyAuditChain(audits) /\ Len(audits) <= MaxEvents
  BY DEF ListInv, EvidenceInv, StateTyped, ChainSound
<1>2. ASSUME NEW i \in Incidents, NEW f \in Filters, Ask(c, i, f)
      PROVE  ListInv'
  <2> DEFINE m == [NoListing EXCEPT !.stage = "asking", !.incident = i, !.filter = f]
  <2>1. f \in SUBSET Kinds
    BY AuditTrailAssumption
  <2>2. /\ m \in Listing /\ m.upTo = 0 /\ m.got = <<>> /\ m.cursor = 0 /\ m.stage = "asking"
        /\ m.incident = i
    BY <2>1, NoListingTyped DEF NoListing, Listing, Stages
  <2>3. listing' = [listing EXCEPT ![c] = m] /\ UNCHANGED audits
    BY <1>2 DEF Ask
  <2> HIDE DEF m
  <2>4. ListingOK(audits, m)
    BY <1>1, <2>2, EmptyListing
  <2> QED  BY <2>3, <2>4, ListingChanged
<1>3. ASSUME ReadEvents(c) PROVE ListInv'
  <2> DEFINE m == [l EXCEPT !.stage = "reading", !.upTo = Len(audits)]
  <2>1. listing' = [listing EXCEPT ![c] = m] /\ UNCHANGED audits /\ l.stage = "asking"
    BY <1>1, <1>3 DEF ReadEvents
  <2>2. ListingOK(audits, m)
    BY <1>1, <2>1, EventsReadOK
  <2> HIDE DEF m
  <2> QED  BY <2>1, <2>2, ListingChanged
<1>4. ASSUME RefuseChain(c) PROVE ListInv'
  <2> DEFINE m == [l EXCEPT !.stage = "broken_chain"]
  <2>1. listing' = [listing EXCEPT ![c] = m] /\ UNCHANGED audits /\ l.stage = "reading"
    BY <1>1, <1>4 DEF RefuseChain
  <2>2. /\ m \in Listing /\ m.stage = "broken_chain" /\ m.upTo = l.upTo
        /\ m.incident = l.incident /\ m.filter = l.filter /\ m.got = l.got
    BY <1>1 DEF Listing, Stages
  <2> HIDE DEF m, l
  <2>3. Shown(audits, m, m.upTo) = Shown(audits, l, l.upTo)
    BY <2>2 DEF Shown
  <2>4. ListingOK(audits, m)
    BY <1>1, <2>1, <2>2, <2>3 DEF ListingOK
  <2> QED  BY <2>1, <2>4, ListingChanged
<1>5. ASSUME NEW limit \in 1..MaxLimit, ServePage(c, limit)
      PROVE  ListInv'
  <2> DEFINE events == Shown(audits, l, l.upTo)
             start  == PageStart(events, l.cursor)
             end    == IF start + limit - 1 > Len(events) THEN Len(events) ELSE start + limit - 1
             after  == NextCursor(events, end)
             s == incidents[l.incident].commitments
             m == [l EXCEPT !.stage = IF after = 0 THEN "done" ELSE "asking",
                            !.cursor = after,
                            !.got = @ \o SubSeq(Numbers(events), start, end),
                            !.statuses = s]
  <2>1. events = Matching(Timeline(l.incident, l.upTo), l.filter)
    BY DEF Shown, Timeline
  <2>2. listing' = [listing EXCEPT ![c] = m] /\ UNCHANGED audits /\ l.stage = "reading"
    BY <1>5, <2>1 DEF ServePage, CurrentStatuses
  <2>3. l.incident \in Incidents
    BY <1>1, <2>2 DEF ListingOK
  <2>4. s \in Seq(CommitmentStates)
    <3>1. incidents[l.incident] \in Incident
      BY <1>1, <2>3
    <3> QED  BY <3>1 DEF Incident
  <2>5. Cardinality(CompletedEvents(audits, Len(audits), l.incident)) <= Cardinality(Completed(s))
    BY <1>1, <2>3 DEF EvidenceInv, CompletionsKept
  <2>6. limit \in Nat /\ limit >= 1
    BY AuditTrailAssumption
  <2>7. ListingOK(audits, m)
    <3> HIDE DEF l, s
    <3> QED  BY <1>1, <2>2, <2>4, <2>5, <2>6, PageOK
  <2> HIDE DEF m
  <2> QED  BY <2>2, <2>7, ListingChanged
<1> QED
  BY <1>2, <1>3, <1>4, <1>5

LEMMA ListStep == ListInv /\ [Next]_vars => ListInv'
<1> SUFFICES ASSUME ListInv, [Next]_vars PROVE ListInv'
  OBVIOUS
<1>1. EvidenceInv /\ EvidenceInv'
  BY EvidenceStep DEF ListInv
<1>2. ASSUME UNCHANGED listing PROVE ListInv'
  <2>1. /\ audits \in Seq(AuditEvent) /\ audits' \in Seq(AuditEvent) /\ Begins(audits, audits')
    BY <1>1, TrailGrows DEF EvidenceInv, StateTyped
  <2>2. \A c \in Clients : ListingOK(audits, listing[c])
    BY DEF ListInv
  <2>3. \A c \in Clients : ListingOK(audits', listing[c])
    BY <2>1, <2>2, ListingKept
  <2> QED  BY <1>1, <1>2, <2>3 DEF ListInv
<1>3. ASSUME NEW i \in Incidents,
             \/ Report(i) \/ Amend(i) \/ AcknowledgeDeadline(i)
             \/ \E n \in DOMAIN incidents[i].commitments :
                  CompleteCommitment(i, n) \/ ExpireCommitment(i, n) \/ RenewCommitment(i, n)
             \/ ReadTail(i) \/ SignReopen(i) \/ RefuseSignature(i)
      PROVE  UNCHANGED listing
  BY <1>3 DEF Report, Amend, AcknowledgeDeadline, CompleteCommitment, ExpireCommitment,
              RenewCommitment, ReadTail, SignReopen, RefuseSignature, Record
<1>4. ASSUME NEW c \in Clients,
             \/ \E i \in Incidents, f \in Filters : Ask(c, i, f)
             \/ ReadEvents(c)
             \/ RefuseChain(c)
             \/ \E limit \in 1..MaxLimit : ServePage(c, limit)
      PROVE  ListInv'
  BY <1>1, <1>4, ListingSteps
<1>5. CASE UNCHANGED vars
  BY <1>2, <1>5 DEF vars
<1> QED
  BY <1>2, <1>3, <1>4, <1>5 DEF Next

\* What a client that pages through a timeline has put together.
LEMMA GotExact ==
  ASSUME ListInv, NEW c \in Clients
  PROVE  LET l == listing[c]
             shown == Shown(audits, l, l.upTo)
         IN  /\ IsPrefix(l.got, Numbers(Shown(audits, l, Len(audits))))
             /\ l.stage = "reading" => CursorKnown(shown, l.cursor)
<1> DEFINE l == listing[c]
           few == Numbers(Shown(audits, l, l.upTo))
           many == Numbers(Shown(audits, l, Len(audits)))
           shown == Shown(audits, l, l.upTo)
           g == Len(l.got)
<1>1. /\ audits \in Seq(AuditEvent) /\ verifyAuditChain(audits) /\ ListingOK(audits, l)
  BY DEF ListInv, EvidenceInv, StateTyped, ChainSound
<1>2. /\ Len(audits) \in Nat /\ l \in Listing /\ l.got \in Seq(1..MaxEvents) /\ g \in Nat
      /\ l.upTo \in 0..Len(audits) /\ Len(audits) \in l.upTo..Len(audits)
      /\ Len(audits) \in 0..Len(audits) /\ Begins(audits, audits)
  BY <1>1, LenProperties DEF ListingOK, Listing, Begins
<1>3. /\ few \in Seq(1..MaxEvents) /\ Len(few) \in Nat
      /\ many \in Seq(1..MaxEvents) /\ Len(many) \in Nat
      /\ Len(few) = Len(shown) /\ DOMAIN shown = 1..Len(shown)
      /\ \A k \in 1..Len(shown) : few[k] = shown[k].sequence
  BY <1>1, <1>2, ShownFacts
<1>4. Begins(few, many)
  BY <1>1, <1>2, ShownGrows
<1>5. Begins(l.got, few)
  BY <1>1 DEF ListingOK
<1>6. IF l.stage = "reading"
      THEN IF l.cursor = 0 THEN l.got = <<>> ELSE l.got # <<>> /\ Last(l.got) = l.cursor
      ELSE TRUE
  BY <1>1 DEF ListingOK
<1> HIDE DEF few, many, shown, l
<1>7. g <= Len(many) /\ g <= Len(few) /\ \A k \in 1..g : l.got[k] = many[k] /\ l.got[k] = few[k]
  BY <1>2, <1>3, <1>4, <1>5 DEF Begins
<1>8. IsPrefix(l.got, many)
  <2> HIDE DEF g
  <2>1. 1 \in Int /\ g \in Int /\ \A k \in 1..g : many[k] \in 1..MaxEvents
    <3>1. \A k \in 1..Len(many) : many[k] \in 1..MaxEvents
      BY <1>3, ElementOfSeq, Zenon
    <3>2. \A k \in 1..g : k \in 1..Len(many)
      BY <1>2, <1>3, <1>7
    <3> QED  BY <1>2, <3>1, <3>2
  <2>2. /\ SubSeq(many, 1, g) \in Seq(1..MaxEvents)
        /\ Len(SubSeq(many, 1, g)) = (IF 1 <= g THEN g - 1 + 1 ELSE 0)
        /\ \A k \in 1..(g - 1 + 1) : SubSeq(many, 1, g)[k] = many[1 + k - 1]
    BY <2>1, SubSeqProperties
  <2>3. Len(SubSeq(many, 1, g)) = g /\ \A k \in 1..g : SubSeq(many, 1, g)[k] = many[k]
    BY <1>2, <2>2
  <2>4. SubSeq(many, 1, g) = l.got
    BY <1>2, <1>7, <2>2, <2>3, SeqEqual DEF g
  <2>5. SubSeq(l.got, 1, g) = l.got
    BY <1>2, SubSeqFull DEF g
  <2> QED  BY <1>7, <2>4, <2>5 DEF IsPrefix, g
<1>9. ASSUME l.stage = "reading" PROVE CursorKnown(shown, l.cursor)
  <2>1. CASE l.cursor = 0
    BY <2>1 DEF CursorKnown
  <2>2. CASE l.cursor # 0
    <3>1. g \in 1..g /\ l.got[g] = l.cursor
      BY <1>2, <1>6, <1>9, <2>2, EmptySeq DEF Last
    <3>2. g \in DOMAIN shown /\ shown[g].sequence = l.cursor
      BY <1>2, <1>3, <1>7, <3>1
    <3> QED  BY <3>2 DEF CursorKnown
  <2> QED  BY <2>1, <2>2
<1> QED
  BY <1>8, <1>9 DEF l, many, shown

\* However the trail grows between two pages, the pages of Service.TimelinePage
\* hold every matching event once, in order and without a gap, no cursor it
\* gave is refused, and a listing without a next cursor is complete.
THEOREM ListingIsExact == Spec => []ListingSound
<1>1. ListInv => TypeOK
  BY DEF ListInv, EvidenceInv, StateTyped, TypeOK
<1>2. ListInv => PagesExact
  BY GotExact DEF PagesExact, AllMatching, Shown, Timeline
<1>3. ListInv => PagesComplete
  BY DEF ListInv, ListingOK, PagesComplete, AllMatching, Shown, Timeline
<1> QED
  BY <1>1, <1>2, <1>3, ListInit, ListStep, PTL DEF Spec, ListingSound

\* The events are read before the incident, so the statuses on the last page
\* count every commitment whose completion is among the events.
THEOREM StatusesKeepUp == Spec => []StatusesNotBehind
<1>1. ListInv => StatusesNotBehind
  BY DEF ListInv, ListingOK, StatusesNotBehind, CompletedEvents, Completed
<1> QED
  BY <1>1, ListInit, ListStep, PTL DEF Spec

=============================================================================
