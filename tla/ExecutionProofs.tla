-------------------------- MODULE ExecutionProofs ---------------------------
(***************************************************************************)
(* Theorems about Execution, for every plan, every set of handlers,        *)
(* incidents, batches and requests: a batch can be traced to one use with  *)
(* one meaning but for the race of two handlers, and no one observes after *)
(* an execution whose deviations were not reviewed.                        *)
(***************************************************************************)
EXTENDS Execution, SelectionFacts

-----------------------------------------------------------------------------
(* The inductive invariant.                                                *)

\* What a handler saw of an incident is a beginning of what there is.
SeenBehind ==
  /\ \A h \in Handlers, j \in Incidents : handler[h].seen[j] <= Len(executions[j])
  /\ \A i, j \in Incidents : \A e \in DOMAIN executions[i] :
       executions[i][e].seen[j] <= Len(executions[j])

Agree(ms, ns) == \A m \in ToSet(ms), n \in ToSet(ns) : ~Conflict(m, n)

\* What a handler has compared stays compared: executions do not change their
\* materials.
ComparedStill ==
  \A h \in Handlers : handler[h].request # None =>
    \A j \in Incidents \ {handler[h].request.incident} :
      \A f \in 1..handler[h].seen[j] :
        Agree(executions[j][f].materials, handler[h].request.materials)

\* ConflictNeedsRace, with Agree.
RacesOnly ==
  \A i, j \in Incidents : i # j =>
    \A e \in DOMAIN executions[i], f \in DOMAIN executions[j] :
      \/ Agree(executions[i][e].materials, executions[j][f].materials)
      \/ executions[i][e].seen[j] < f /\ executions[j][f].seen[i] < e

\* Two uses of a batch within one incident are the same use.
UsesApart ==
  \A i \in Incidents : \A e, f \in DOMAIN executions[i] :
    \A m \in DOMAIN executions[i][e].materials, n \in DOMAIN executions[i][f].materials :
      executions[i][e].materials[m].batch = executions[i][f].materials[n].batch
        => e = f /\ m = n

\* The gate is what the deviations give, unless a supplement answered them.
GateFollows(x) == x.gate = deviationGate(x.deviations)

\* Only a change of order is accepted unseen, and a drift is on record.
DeviationsSound(x) ==
  /\ \A n \in DOMAIN x.deviations :
       x.deviations[n].type # "step_reorder" => x.deviations[n].decision # "accepted"
  /\ x.drift => \E n \in DOMAIN x.deviations : x.deviations[n].type = "calibration_drift"

\* DepartureOnRecord, of one execution.
DepartureSound(x) ==
  /\ Range(x.order) = Steps /\ IsInjective(x.order)
  /\ (\E n \in 2..Len(x.order) : x.order[n] < x.order[n - 1]) =>
       \E n \in DOMAIN x.deviations :
         x.deviations[n].type = "step_reorder" /\ ~Critical[x.deviations[n].step]
  /\ \A s \in x.skipped :
       ~Critical[s] /\ \E n \in DOMAIN x.deviations : x.deviations[n].step = s

EachSound ==
  \A i \in Incidents :
    /\ status[i] # "plan_approved" => executions[i] # <<>>
    /\ \A e \in DOMAIN executions[i] :
         /\ DeviationsSound(executions[i][e])
         /\ DepartureSound(executions[i][e])
         /\ GateFollows(executions[i][e]) \/ e < Len(executions[i])

TraceInv == SeenBehind /\ ComparedStill /\ RacesOnly /\ UsesApart

ExecutionInv == TypeOK /\ TraceInv /\ EachSound

LEMMA InvInit == Init => ExecutionInv
<1> SUFFICES ASSUME Init PROVE ExecutionInv
  OBVIOUS
<1>1. TypeOK
  BY DEF Init, TypeOK, Idle
<1>2. TraceInv
  BY DEF Init, Idle, TraceInv, SeenBehind, ComparedStill, RacesOnly, UsesApart
<1>3. EachSound
  BY DEF Init, EachSound
<1> QED
  BY <1>1, <1>2, <1>3 DEF ExecutionInv

-----------------------------------------------------------------------------
(* Typing.                                                                 *)

LEMMA ElementTyped ==
  ASSUME NEW S, NEW s \in Seq(S), NEW n \in DOMAIN s
  PROVE  s[n] \in S /\ n \in 1..Len(s)
  OBVIOUS

LEMMA RecordTyped ==
  ASSUME TypeOK, NEW i \in Incidents, NEW e \in DOMAIN executions[i]
  PROVE  /\ executions[i] \in Seq(ExecutionRecord) /\ Len(executions[i]) \in Nat
         /\ e \in 1..Len(executions[i])
         /\ executions[i][e] \in ExecutionRecord
  BY DEF TypeOK

\* Which deviations a request that is admitted may state.
LEMMA DeviationTyped ==
  ASSUME NEW r \in Request, CheckDeviations(r)
  PROVE  /\ Recorded(r) \in Seq(Deviation)
         /\ r.skipped \subseteq Steps
         /\ \A n \in DOMAIN Recorded(r) :
              Recorded(r)[n].type # "step_reorder" => Recorded(r)[n].decision # "accepted"
         /\ r.drift => \E n \in DOMAIN Recorded(r) : Recorded(r)[n].type = "calibration_drift"
<1> DEFINE a == [n \in DOMAIN r.deviations |->
                   [type |-> r.deviations[n].type, step |-> r.deviations[n].step,
                    decision |-> IF ClassifyDeviation(r.deviations[n]) = "review_required"
                                 THEN "pending" ELSE "accepted"]]
           z == [type |-> "calibration_drift", step |-> 0, decision |-> "pending"]
<1>1. r.deviations \in Seq([type : Types, step : Nat]) /\ Len(r.deviations) \in Nat
  BY DEF Request
<1>2. \A n \in DOMAIN r.deviations :
        /\ r.deviations[n] \in [type : Types, step : Nat]
        /\ ClassifyDeviation(r.deviations[n]) \in {"record_only", "review_required"}
  <2>1. \A n \in DOMAIN r.deviations : r.deviations[n] \in ToSet(r.deviations)
    BY DEF ToSet
  <2>2. \A n \in DOMAIN r.deviations : r.deviations[n] \in [type : Types, step : Nat]
    BY <1>1, ElementTyped, Zenon
  <2> QED  BY <2>1, <2>2 DEF CheckDeviations
<1>3. \A n \in DOMAIN a :
        a[n] \in Deviation /\ (a[n].type # "step_reorder" => a[n].decision # "accepted")
  BY <1>2 DEF Deviation, Decisions, ClassifyDeviation
<1>4. a \in Seq(Deviation) /\ Len(a) \in Nat
  <2>1. DOMAIN a = 1..Len(r.deviations)
    BY <1>1
  <2>0. a = [n \in DOMAIN a |-> a[n]]
    OBVIOUS
  <2> HIDE DEF a
  <2>2. a \in [1..Len(r.deviations) -> Deviation]
    BY <1>3, <2>1, <2>0
  <2> QED  BY <1>1, <2>2
<1>5. z \in Deviation /\ z.decision # "accepted" /\ z.type = "calibration_drift"
  BY DEF Deviation, Decisions
<1>6. Recorded(r) = IF r.drift THEN a \o <<z>> ELSE a \o <<>>
  BY DEF Recorded
<1>7. r.skipped \subseteq Steps
  BY <1>2 DEF CheckDeviations, ClassifyDeviation, ToSet
<1> HIDE DEF a, z
<1>8. CASE r.drift
  <2>1. Recorded(r) = Append(a, z)
    BY <1>4, <1>5, <1>6, <1>8
  <2> QED  BY <1>3, <1>4, <1>5, <1>7, <2>1
<1>9. CASE ~r.drift
  BY <1>3, <1>4, <1>6, <1>7, <1>9
<1> QED
  BY <1>8, <1>9

\* What is recorded of a deviation stated: its type and its step.
LEMMA DeviationKept ==
  ASSUME NEW r \in Request, NEW n \in DOMAIN r.deviations
  PROVE  /\ n \in DOMAIN Recorded(r)
         /\ Recorded(r)[n].type = r.deviations[n].type
         /\ Recorded(r)[n].step = r.deviations[n].step
<1> DEFINE k == Len(r.deviations)
           a == [m \in 1..k |->
                   [type |-> r.deviations[m].type, step |-> r.deviations[m].step,
                    decision |-> IF ClassifyDeviation(r.deviations[m]) = "review_required"
                                 THEN "pending" ELSE "accepted"]]
           z == [type |-> "calibration_drift", step |-> 0, decision |-> "pending"]
           T == {a[m] : m \in 1..k} \cup {z}
           b == IF r.drift THEN <<z>> ELSE <<>>
<1>1. k \in Nat /\ DOMAIN r.deviations = 1..k
  BY LenProperties DEF Request
<1>2. Recorded(r) = a \o b
  BY <1>1 DEF Recorded
<1>3. a[n].type = r.deviations[n].type /\ a[n].step = r.deviations[n].step
  BY <1>1
<1>4. b \in Seq(T) /\ Len(b) \in Nat
  <2>1. z \in T
    OBVIOUS
  <2> HIDE DEF T, z
  <2> QED  BY <2>1
<1>5. a \in Seq(T) /\ Len(a) = k
  <2>1. \A m \in 1..k : a[m] \in T
    OBVIOUS
  <2>2. a = [m \in 1..k |-> a[m]]
    OBVIOUS
  <2> HIDE DEF a, T
  <2>3. a \in [1..k -> T]
    BY <2>1, <2>2
  <2> QED  BY <1>1, <2>3
<1> HIDE DEF a, b, T
<1>6. Len(a \o b) = k + Len(b) /\ DOMAIN (a \o b) = 1..(k + Len(b)) /\ (a \o b)[n] = a[n]
  <2>1. n \in 1..k /\ n \in 1..(k + Len(b)) /\ n <= k
    BY <1>1, <1>4
  <2>2. /\ a \o b \in Seq(T) /\ Len(a \o b) = Len(a) + Len(b)
        /\ \A m \in 1..(Len(a) + Len(b)) : (a \o b)[m] = IF m <= Len(a) THEN a[m] ELSE b[m - Len(a)]
    BY <1>4, <1>5, ConcatProperties
  <2>3. DOMAIN (a \o b) = 1..Len(a \o b)
    BY <2>2, LenProperties
  <2> QED  BY <1>5, <2>1, <2>2, <2>3
<1> QED
  BY <1>1, <1>2, <1>3, <1>4, <1>6

\* A request that passes the checks says where it departs from the plan.  The
\* steps are compared in order if a change of order is declared; as a list
\* they are those of the plan whether they were put in order or not.
LEMMA DepartureDeclared ==
  ASSUME NEW r \in Request, CheckExecution(r), CheckDeviations(r)
  PROVE  /\ Range(r.order) = Steps /\ IsInjective(r.order)
         /\ (\E n \in 2..Len(r.order) : r.order[n] < r.order[n - 1]) =>
              \E n \in DOMAIN Recorded(r) :
                Recorded(r)[n].type = "step_reorder" /\ ~Critical[Recorded(r)[n].step]
         /\ \A s \in r.skipped :
              ~Critical[s] /\ \E n \in DOMAIN Recorded(r) : Recorded(r)[n].step = s
<1>1. r.order \in Seq(Nat)
  BY DEF Request
<1>2. Range(r.order) = Steps /\ IsInjective(r.order)
  <2>1. CASE Reordered(r)
    <3>1. IsInjective(InOrder(r.order)) /\ Range(InOrder(r.order)) = Steps
      BY <2>1 DEF CheckExecution, StepsJudged
    <3> QED  BY <1>1, <3>1, InOrderFacts
  <2>2. CASE ~Reordered(r)
    BY <2>2 DEF CheckExecution, StepsJudged
  <2> QED  BY <2>1, <2>2
<1>3. ASSUME NEW n \in 2..Len(r.order), r.order[n] < r.order[n - 1]
      PROVE  \E m \in DOMAIN Recorded(r) :
               Recorded(r)[m].type = "step_reorder" /\ ~Critical[Recorded(r)[m].step]
  <2>1. Reordered(r)
    <3> SUFFICES ASSUME ~Reordered(r) PROVE FALSE
      OBVIOUS
    <3>1. r.order[n - 1] < r.order[n]
      BY DEF CheckExecution, StepsJudged
    <3>2. n \in DOMAIN r.order /\ n - 1 \in DOMAIN r.order
      BY <1>1
    <3>3. r.order[n] \in Nat /\ r.order[n - 1] \in Nat
      BY <1>1, <3>2, ElementTyped, Zenon
    <3> QED  BY <1>3, <3>1, <3>3
  <2>2. PICK d \in ToSet(r.deviations) : d.type = "step_reorder"
    BY <2>1 DEF Reordered
  <2>3. PICK m \in DOMAIN r.deviations : r.deviations[m] = d
    BY <2>2 DEF ToSet
  <2>4. ~Critical[d.step]
    BY <2>2 DEF CheckDeviations, ClassifyDeviation
  <2>5. /\ m \in DOMAIN Recorded(r) /\ Recorded(r)[m].type = d.type
        /\ Recorded(r)[m].step = d.step
    BY <2>3, DeviationKept
  <2> QED  BY <2>2, <2>4, <2>5
<1>4. ASSUME NEW s \in r.skipped
      PROVE  ~Critical[s] /\ \E m \in DOMAIN Recorded(r) : Recorded(r)[m].step = s
  <2>1. ~Critical[s] /\ \E d \in ToSet(r.deviations) : d.step = s
    BY DEF CheckExecution, CheckDeviations
  <2>2. PICK m \in DOMAIN r.deviations : r.deviations[m].step = s
    BY <2>1 DEF ToSet
  <2> QED  BY <2>1, <2>2, DeviationKept
<1> QED
  BY <1>2, <1>3, <1>4

-----------------------------------------------------------------------------
(* What a handler records.                                                 *)

\* What a handler adds under the lock.
Entry(h) ==
  LET r == handler[h].request
  IN  [order |-> r.order, skipped |-> r.skipped, materials |-> r.materials,
       deviations |-> Recorded(r), drift |-> r.drift, gate |-> deviationGate(Recorded(r)),
       seen |-> handler[h].seen]

LEMMA EntryFacts ==
  ASSUME TypeOK, NEW h \in Handlers, RecordExecution(h)
  PROVE  /\ Entry(h) \in ExecutionRecord
         /\ handler[h].request \in Request /\ handler[h].request # None
         /\ DeviationsSound(Entry(h)) /\ DepartureSound(Entry(h)) /\ GateFollows(Entry(h))
         /\ IsInjective([n \in DOMAIN Entry(h).materials |-> Entry(h).materials[n].batch])
         /\ \A m \in ToSet(Entry(h).materials) : m.batch \notin usedBatches(handler[h].request.incident)
<1> DEFINE r == handler[h].request
<1>1. r \in Request /\ r # None /\ handler[h].seen \in [Incidents -> Nat]
  BY ExecutionAssumption DEF RecordExecution, TypeOK
<1>2. /\ CheckExecution(r) /\ CheckDeviations(r)
      /\ \A m \in ToSet(r.materials) : m.batch \notin usedBatches(r.incident)
  BY DEF RecordExecution, Admitted
<1>3. /\ Recorded(r) \in Seq(Deviation) /\ r.skipped \subseteq Steps
      /\ \A n \in DOMAIN Recorded(r) :
           Recorded(r)[n].type # "step_reorder" => Recorded(r)[n].decision # "accepted"
      /\ r.drift => \E n \in DOMAIN Recorded(r) : Recorded(r)[n].type = "calibration_drift"
  BY <1>1, <1>2, DeviationTyped
<1>4. deviationGate(Recorded(r)) \in Gates
  BY DEF deviationGate, Gates
<1>5. /\ r.order \in Seq(Nat) /\ r.materials \in Seq(Material) /\ r.drift \in BOOLEAN
  BY <1>1 DEF Request
<1>6. IsInjective([n \in DOMAIN r.materials |-> r.materials[n].batch])
  BY <1>2 DEF CheckExecution
<1>7. Entry(h) = [order |-> r.order, skipped |-> r.skipped, materials |-> r.materials,
                  deviations |-> Recorded(r), drift |-> r.drift,
                  gate |-> deviationGate(Recorded(r)), seen |-> handler[h].seen]
  BY DEF Entry
<1> HIDE DEF r
<1>8. Entry(h) \in ExecutionRecord
  BY <1>1, <1>3, <1>4, <1>5, <1>7 DEF ExecutionRecord
<1>9. DeviationsSound(Entry(h)) /\ GateFollows(Entry(h))
  BY <1>3, <1>7 DEF DeviationsSound, GateFollows
<1>10. DepartureSound(Entry(h))
  BY <1>1, <1>2, <1>7, DepartureDeclared DEF DepartureSound
<1> QED
  BY <1>1, <1>2, <1>6, <1>7, <1>8, <1>9, <1>10 DEF r

\* An execution that a supplement answers changes in its gate only.
Same(x, y) ==
  /\ x.order = y.order /\ x.skipped = y.skipped
  /\ x.materials = y.materials /\ x.seen = y.seen
  /\ x.deviations = y.deviations /\ x.drift = y.drift

LEMMA RecordFacts ==
  ASSUME TypeOK, EachSound, NEW h \in Handlers, RecordExecution(h)
  PROVE  LET i == handler[h].request.incident
             k == Len(executions[i])
         IN  /\ i \in Incidents /\ k \in Nat
             /\ executions' \in [Incidents -> Seq(ExecutionRecord)]
             /\ \A j \in Incidents : j # i => executions'[j] = executions[j]
             /\ DOMAIN executions[i] = 1..k
             /\ DOMAIN executions'[i] = 1..(k + 1) /\ Len(executions'[i]) = k + 1
             /\ executions'[i][k + 1] = Entry(h)
             /\ \A f \in 1..k : Same(executions'[i][f], executions[i][f])
<1> DEFINE i == handler[h].request.incident
           old == executions[i]
           k == Len(old)
           ans == Answered(old, i)
<1>1. Entry(h) \in ExecutionRecord /\ handler[h].request \in Request
  BY EntryFacts
<1>2. i \in Incidents /\ old \in Seq(ExecutionRecord) /\ k \in Nat
  BY <1>1 DEF Request, TypeOK
<1>3. executions' = [executions EXCEPT ![i] = Append(ans, Entry(h))]
  BY DEF RecordExecution, Entry
<1>4. /\ ans \in Seq(ExecutionRecord) /\ Len(ans) = k
      /\ \A f \in 1..k : Same(ans[f], old[f])
  <2>1. CASE status[i] = "executed"
    <3>1. k \in DOMAIN old
      BY <1>2, <2>1 DEF EachSound
    <3>2. ans = [old EXCEPT ![k] = [@ EXCEPT !.gate = "resolved_by_supplemental"]]
      BY <2>1 DEF Answered
    <3>3. [old[k] EXCEPT !.gate = "resolved_by_supplemental"] \in ExecutionRecord
      <4>1. old[k] \in ExecutionRecord
        BY <1>2, <3>1, ElementTyped
      <4> QED  BY <4>1 DEF ExecutionRecord, Gates
    <3>4. Same([old[k] EXCEPT !.gate = "resolved_by_supplemental"], old[k])
      <4>1. old[k] \in ExecutionRecord
        BY <1>2, <3>1, ElementTyped
      <4> QED  BY <4>1 DEF ExecutionRecord, Same
    <3> DEFINE z == [old[k] EXCEPT !.gate = "resolved_by_supplemental"]
    <3>5. ans = [old EXCEPT ![k] = z]
      BY <3>2
    <3> HIDE DEF z, ans, old
    <3>6. ans \in Seq(ExecutionRecord) /\ Len(ans) = k /\ ans[k] = z
          /\ \A f \in 1..k : f # k => ans[f] = old[f]
      BY <1>2, <3>1, <3>3, <3>5 DEF z
    <3> QED  BY <3>4, <3>6 DEF z, Same
  <2>2. CASE status[i] # "executed"
    BY <1>2, <2>2 DEF Answered, Same
  <2> QED  BY <2>1, <2>2
<1> HIDE DEF ans
<1>5. /\ Append(ans, Entry(h)) \in Seq(ExecutionRecord)
      /\ Len(Append(ans, Entry(h))) = k + 1
      /\ \A f \in 1..k : Append(ans, Entry(h))[f] = ans[f]
      /\ Append(ans, Entry(h))[k + 1] = Entry(h)
  BY <1>1, <1>4, AppendProperties
<1>6. /\ executions'[i] = Append(ans, Entry(h))
      /\ \A j \in Incidents : j # i => executions'[j] = executions[j]
      /\ executions' \in [Incidents -> Seq(ExecutionRecord)]
  BY <1>2, <1>3, <1>5 DEF TypeOK
<1>7. DOMAIN executions'[i] = 1..(k + 1) /\ DOMAIN old = 1..k
  <2>1. DOMAIN Append(ans, Entry(h)) = 1..Len(Append(ans, Entry(h)))
    BY <1>5
  <2> QED  BY <1>2, <1>5, <1>6, <2>1
<1> HIDE DEF k, i
<1>8. \A f \in 1..k : Same(executions'[i][f], old[f])
  BY <1>4, <1>5, <1>6
<1> QED
  BY <1>2, <1>5, <1>6, <1>7, <1>8 DEF i, k

LEMMA AgreeSymmetric ==
  ASSUME NEW ms, NEW ns, Agree(ms, ns)
  PROVE  Agree(ns, ms)
  BY DEF Agree, Conflict

LEMMA SeenTyped ==
  ASSUME TypeOK
  PROVE  /\ \A h \in Handlers, j \in Incidents : handler[h].seen[j] \in Nat
         /\ \A i, j \in Incidents : \A e \in DOMAIN executions[i] :
              executions[i][e].seen[j] \in Nat
         /\ \A j \in Incidents : Len(executions[j]) \in Nat
<1>1. \A h \in Handlers : handler[h].seen \in [Incidents -> Nat]
  BY DEF TypeOK
<1>2. \A i \in Incidents : \A e \in DOMAIN executions[i] :
        executions[i][e].seen \in [Incidents -> Nat]
  BY RecordTyped DEF ExecutionRecord
<1>3. \A j \in Incidents : executions[j] \in Seq(ExecutionRecord)
  BY DEF TypeOK
<1> QED
  BY <1>1, <1>2, <1>3

\* The execution is added; the others keep what they have.
LEMMA RecordStep ==
  ASSUME ExecutionInv, NEW h \in Handlers, RecordExecution(h)
  PROVE  ExecutionInv'
<1> DEFINE r == handler[h].request
           i == r.incident
           k == Len(executions[i])
<1>1. /\ i \in Incidents /\ k \in Nat
      /\ executions' \in [Incidents -> Seq(ExecutionRecord)]
      /\ \A j \in Incidents : j # i => executions'[j] = executions[j]
      /\ DOMAIN executions[i] = 1..k
      /\ DOMAIN executions'[i] = 1..(k + 1) /\ Len(executions'[i]) = k + 1
      /\ executions'[i][k + 1] = Entry(h)
      /\ \A f \in 1..k : Same(executions'[i][f], executions[i][f])
  BY RecordFacts DEF ExecutionInv
<1>2. /\ r # None
      /\ DeviationsSound(Entry(h)) /\ DepartureSound(Entry(h)) /\ GateFollows(Entry(h))
      /\ IsInjective([n \in DOMAIN Entry(h).materials |-> Entry(h).materials[n].batch])
      /\ \A m \in ToSet(Entry(h).materials) : m.batch \notin usedBatches(i)
  BY EntryFacts DEF ExecutionInv
<1>3. Entry(h).materials = r.materials /\ Entry(h).seen = handler[h].seen
  BY DEF Entry
<1>4. /\ handler' = [handler EXCEPT ![h] = Idle]
      /\ status' = [status EXCEPT ![i] = "executed"]
  BY DEF RecordExecution
<1>5. /\ handler \in [Handlers -> [request : Requests \cup {None}, seen : [Incidents -> Nat]]]
      /\ status \in [Incidents -> {"plan_approved", "executed", "verification_failed"}]
  BY DEF ExecutionInv, TypeOK
<1>6. handler'[h].request = None /\ \A j \in Incidents : handler'[h].seen[j] = 0
  BY <1>4, <1>5 DEF Idle
<1>7. \A g \in Handlers : g # h => handler'[g] = handler[g]
  BY <1>4, <1>5
<1>s. /\ SeenBehind /\ ComparedStill /\ RacesOnly /\ UsesApart
      /\ \A g \in Handlers, j \in Incidents : handler[g].seen[j] \in Nat
      /\ \A j \in Incidents : \A l \in Incidents : \A e \in DOMAIN executions[j] :
           executions[j][e].seen[l] \in Nat
      /\ \A j \in Incidents : Len(executions[j]) \in Nat
  BY SeenTyped DEF ExecutionInv, TraceInv
<1>8. TypeOK'
  BY <1>1, <1>4, <1>5 DEF TypeOK, Idle
<1> HIDE DEF i, k, r
<1>9. \A j \in Incidents : /\ Len(executions[j]) <= Len(executions'[j])
                           /\ DOMAIN executions[j] \subseteq DOMAIN executions'[j]
                           /\ \A f \in DOMAIN executions[j] :
                                Same(executions'[j][f], executions[j][f])
  <2>1. Len(executions[i]) = k
    BY DEF k
  <2> QED  BY <1>1, <1>s, <2>1 DEF Same
<1>10. \A j \in Incidents : \A f \in DOMAIN executions'[j] :
         f \in DOMAIN executions[j] \/ (j = i /\ f = k + 1)
  BY <1>1
<1>11. SeenBehind'
  <2>1. \A g \in Handlers, j \in Incidents : handler'[g].seen[j] <= Len(executions'[j])
    BY <1>6, <1>7, <1>9, <1>s, <1>8, SeenTyped DEF SeenBehind
  <2>2. ASSUME NEW j \in Incidents, NEW l \in Incidents, NEW e \in DOMAIN executions'[j]
        PROVE  executions'[j][e].seen[l] <= Len(executions'[l])
    <3>0. Len(executions[l]) \in Nat /\ Len(executions'[l]) \in Nat
      BY <1>1, <1>s
    <3>1. CASE e \in DOMAIN executions[j]
      <4>1. executions'[j][e].seen = executions[j][e].seen
        BY <1>9, <3>1 DEF Same
      <4>2. executions[j][e].seen[l] <= Len(executions[l]) /\ executions[j][e].seen[l] \in Nat
        BY <1>s, <3>1 DEF SeenBehind
      <4> QED  BY <1>9, <3>0, <4>1, <4>2
    <3>2. CASE j = i /\ e = k + 1
      <4>1. executions'[j][e].seen[l] = handler[h].seen[l]
        BY <1>1, <1>3, <3>2
      <4>2. handler[h].seen[l] <= Len(executions[l]) /\ handler[h].seen[l] \in Nat
        BY <1>s DEF SeenBehind
      <4> QED  BY <1>9, <3>0, <4>1, <4>2
    <3> QED  BY <1>10, <3>1, <3>2
  <2> QED  BY <2>1, <2>2 DEF SeenBehind
<1>12. ComparedStill'
  <2> SUFFICES ASSUME NEW g \in Handlers, handler'[g].request # None,
                      NEW j \in Incidents, j # handler'[g].request.incident,
                      NEW f \in 1..handler'[g].seen[j]
               PROVE  Agree(executions'[j][f].materials, handler'[g].request.materials)
    BY DEF ComparedStill
  <2>1. handler'[g] = handler[g]
    BY <1>6, <1>7
  <2>2. Agree(executions[j][f].materials, handler[g].request.materials)
    BY <1>s, <2>1 DEF ComparedStill
  <2>3. f \in DOMAIN executions[j]
    <3>1. executions[j] \in Seq(ExecutionRecord)
      BY DEF ExecutionInv, TypeOK
    <3>2. handler[g].seen[j] <= Len(executions[j]) /\ handler[g].seen[j] \in Nat
      BY <1>s DEF SeenBehind
    <3> QED  BY <2>1, <3>1, <3>2
  <2>4. executions'[j][f].materials = executions[j][f].materials
    BY <1>9, <2>3 DEF Same
  <2> QED  BY <2>1, <2>2, <2>4
<1>13. ASSUME NEW j \in Incidents, j # i, NEW f \in DOMAIN executions[j]
       PROVE  \/ Agree(executions[j][f].materials, Entry(h).materials)
              \/ handler[h].seen[j] < f /\ executions[j][f].seen[i] < k + 1
  <2>1. CASE f <= handler[h].seen[j]
    <3>1. executions[j] \in Seq(ExecutionRecord) /\ handler[h].seen[j] \in Nat
      BY <1>s DEF ExecutionInv, TypeOK
    <3>2. f \in 1..handler[h].seen[j]
      BY <2>1, <3>1
    <3> QED  BY <1>2, <1>3, <1>13, <1>s, <3>2 DEF ComparedStill, r, i
  <2>2. CASE ~(f <= handler[h].seen[j])
    <3>1. executions[j] \in Seq(ExecutionRecord) /\ handler[h].seen[j] \in Nat
      BY <1>s DEF ExecutionInv, TypeOK
    <3>2. executions[j][f].seen[i] <= k /\ executions[j][f].seen[i] \in Nat
      BY <1>1, <1>s DEF SeenBehind, k
    <3> QED  BY <1>1, <2>2, <3>1, <3>2
  <2> QED  BY <2>1, <2>2
<1>14. RacesOnly'
  <2> SUFFICES ASSUME NEW a \in Incidents, NEW b \in Incidents, a # b,
                      NEW e \in DOMAIN executions'[a], NEW f \in DOMAIN executions'[b]
               PROVE  \/ Agree(executions'[a][e].materials, executions'[b][f].materials)
                      \/ executions'[a][e].seen[b] < f /\ executions'[b][f].seen[a] < e
    BY DEF RacesOnly
  <2>1. CASE e \in DOMAIN executions[a] /\ f \in DOMAIN executions[b]
    <3>1. \/ Agree(executions[a][e].materials, executions[b][f].materials)
          \/ executions[a][e].seen[b] < f /\ executions[b][f].seen[a] < e
      BY <1>s, <2>1 DEF RacesOnly
    <3>2. Same(executions'[a][e], executions[a][e]) /\ Same(executions'[b][f], executions[b][f])
      BY <1>9, <2>1
    <3> QED  BY <3>1, <3>2 DEF Same
  <2>2. CASE a = i /\ e = k + 1
    <3>1. f \in DOMAIN executions[b] /\ executions'[b] = executions[b]
      BY <1>1, <2>2
    <3>2. executions'[a][e].materials = Entry(h).materials /\ executions'[a][e].seen = handler[h].seen
      BY <1>1, <1>3, <2>2
    <3> QED  BY <1>13, <2>2, <3>1, <3>2, AgreeSymmetric
  <2>3. CASE b = i /\ f = k + 1
    <3>1. e \in DOMAIN executions[a] /\ executions'[a] = executions[a]
      BY <1>1, <2>3
    <3>2. executions'[b][f].materials = Entry(h).materials /\ executions'[b][f].seen = handler[h].seen
      BY <1>1, <1>3, <2>3
    <3> QED  BY <1>13, <2>3, <3>1, <3>2
  <2> QED  BY <1>10, <2>1, <2>2, <2>3
<1>15. UsesApart'
  <2> SUFFICES ASSUME NEW j \in Incidents,
                      NEW e \in DOMAIN executions'[j], NEW f \in DOMAIN executions'[j],
                      NEW m \in DOMAIN executions'[j][e].materials,
                      NEW n \in DOMAIN executions'[j][f].materials,
                      executions'[j][e].materials[m].batch = executions'[j][f].materials[n].batch
               PROVE  e = f /\ m = n
    BY DEF UsesApart
  <2>0. ASSUME NEW x \in DOMAIN executions[i], NEW y \in DOMAIN executions[i][x].materials,
               NEW z \in DOMAIN Entry(h).materials
        PROVE  executions[i][x].materials[y].batch # Entry(h).materials[z].batch
    BY <1>2 DEF usedBatches, ToSet
  <2>1. CASE e \in DOMAIN executions[j] /\ f \in DOMAIN executions[j]
    BY <1>9, <1>s, <2>1 DEF UsesApart, Same
  <2>2. CASE j = i /\ e = k + 1 /\ f = k + 1
    BY <1>1, <1>2, <2>2 DEF IsInjective
  <2>3. CASE j = i /\ e = k + 1 /\ f \in DOMAIN executions[i]
    BY <1>1, <1>9, <2>0, <2>3 DEF Same
  <2>4. CASE j = i /\ f = k + 1 /\ e \in DOMAIN executions[i]
    BY <1>1, <1>9, <2>0, <2>4 DEF Same
  <2> QED  BY <1>10, <2>1, <2>2, <2>3, <2>4
<1>16. EachSound'
  <2> SUFFICES ASSUME NEW j \in Incidents
               PROVE  /\ status'[j] # "plan_approved" => executions'[j] # <<>>
                      /\ \A e \in DOMAIN executions'[j] :
                           /\ DeviationsSound(executions'[j][e])
                           /\ DepartureSound(executions'[j][e])
                           /\ GateFollows(executions'[j][e]) \/ e < Len(executions'[j])
    BY DEF EachSound
  <2>1. CASE j # i
    BY <1>1, <1>4, <1>5, <2>1 DEF ExecutionInv, EachSound
  <2>2. CASE j = i
    <3>1. executions'[i] # <<>>
      BY <1>1
    <3>2. \A e \in 1..k : DeviationsSound(executions[i][e]) /\ DepartureSound(executions[i][e])
      BY <1>1 DEF ExecutionInv, EachSound
    <3>3. \A e \in 1..k : /\ DeviationsSound(executions'[i][e])
                          /\ DepartureSound(executions'[i][e])
                          /\ e < Len(executions'[i])
      <4>1. \A e \in 1..k : e < k + 1
        BY <1>1
      <4>2. ASSUME NEW x, NEW y, Same(x, y), DeviationsSound(y), DepartureSound(y)
            PROVE  DeviationsSound(x) /\ DepartureSound(x)
        BY <4>2 DEF Same, DeviationsSound, DepartureSound
      <4>3. \A e \in 1..k : DeviationsSound(executions'[i][e]) /\ DepartureSound(executions'[i][e])
        BY <1>1, <3>2, <4>2
      <4> QED  BY <1>1, <4>1, <4>3
    <3>4. \A e \in 1..(k + 1) : e \in 1..k \/ e = k + 1
      BY <1>1
    <3> QED  BY <1>1, <1>2, <2>2, <3>1, <3>3, <3>4
  <2> QED  BY <2>1, <2>2
<1> QED
  BY <1>8, <1>11, <1>12, <1>14, <1>15, <1>16 DEF ExecutionInv, TraceInv

\* A handler that compares sees every incident as it is.
LEMMA CompareStep ==
  ASSUME ExecutionInv, NEW h \in Handlers, NEW r \in Requests, CompareBatches(h, r)
  PROVE  ExecutionInv'
<1> DEFINE w == [request |-> r, seen |-> [i \in Incidents |-> Len(executions[i])]]
<1>1. /\ handler' = [handler EXCEPT ![h] = w] /\ UNCHANGED <<executions, status>>
      /\ Compared(r.incident, r.materials)
  BY DEF CompareBatches
<1>2. /\ handler \in [Handlers -> [request : Requests \cup {None}, seen : [Incidents -> Nat]]]
      /\ \A i \in Incidents : executions[i] \in Seq(ExecutionRecord)
  BY DEF ExecutionInv, TypeOK
<1>3. w \in [request : Requests \cup {None}, seen : [Incidents -> Nat]]
  BY <1>2
<1>4. w.request = r /\ \A j \in Incidents : w.seen[j] = Len(executions[j])
  OBVIOUS
<1> HIDE DEF w
<1>5. handler'[h] = w /\ \A g \in Handlers : g # h => handler'[g] = handler[g]
  BY <1>1, <1>2
<1>6. TypeOK'
  BY <1>1, <1>3 DEF ExecutionInv, TypeOK
<1>7. SeenBehind'
  <2>1. \A j \in Incidents : Len(executions[j]) \in Nat
    BY <1>2
  <2> QED  BY <1>1, <1>4, <1>5, <2>1 DEF ExecutionInv, TraceInv, SeenBehind
<1>8. ComparedStill'
  <2> SUFFICES ASSUME NEW g \in Handlers, handler'[g].request # None,
                      NEW j \in Incidents, j # handler'[g].request.incident,
                      NEW f \in 1..handler'[g].seen[j]
               PROVE  Agree(executions[j][f].materials, handler'[g].request.materials)
    BY <1>1 DEF ComparedStill
  <2>1. CASE g = h
    <3>1. f \in DOMAIN executions[j] /\ j # r.incident
      BY <1>2, <1>4, <1>5, <2>1
    <3>2. executions[j][f] \in ToSet(executions[j])
      BY <3>1 DEF ToSet
    <3>3. Agree(executions[j][f].materials, r.materials)
      BY <1>1, <3>1, <3>2 DEF Compared, Agree
    <3> QED  BY <1>4, <1>5, <2>1, <3>3
  <2>2. CASE g # h
    BY <1>5, <2>2 DEF ExecutionInv, TraceInv, ComparedStill
  <2> QED  BY <2>1, <2>2
<1>9. RacesOnly' /\ UsesApart' /\ EachSound'
  BY <1>1 DEF ExecutionInv, TraceInv, RacesOnly, UsesApart, EachSound
<1> QED
  BY <1>6, <1>7, <1>8, <1>9 DEF ExecutionInv, TraceInv

LEMMA RefuseStep ==
  ASSUME ExecutionInv, NEW h \in Handlers, Refuse(h)
  PROVE  ExecutionInv'
<1>1. handler' = [handler EXCEPT ![h] = Idle] /\ UNCHANGED <<executions, status>>
  BY DEF Refuse
<1>2. handler \in [Handlers -> [request : Requests \cup {None}, seen : [Incidents -> Nat]]]
  BY DEF ExecutionInv, TypeOK
<1>3. /\ handler'[h].request = None /\ \A j \in Incidents : handler'[h].seen[j] = 0
      /\ \A g \in Handlers : g # h => handler'[g] = handler[g]
  BY <1>1, <1>2 DEF Idle
<1>4. TypeOK'
  BY <1>1, <1>2 DEF ExecutionInv, TypeOK, Idle
<1>5. SeenBehind'
  <2>1. \A j \in Incidents : Len(executions[j]) \in Nat
    BY SeenTyped DEF ExecutionInv
  <2> QED  BY <1>1, <1>3, <2>1 DEF ExecutionInv, TraceInv, SeenBehind
<1>6. ComparedStill'
  BY <1>1, <1>3 DEF ExecutionInv, TraceInv, ComparedStill
<1>7. RacesOnly' /\ UsesApart' /\ EachSound'
  BY <1>1 DEF ExecutionInv, TraceInv, RacesOnly, UsesApart, EachSound
<1> QED
  BY <1>4, <1>5, <1>6, <1>7 DEF ExecutionInv, TraceInv

\* A failed verification changes the status of an incident that has an
\* execution.
LEMMA FailStep ==
  ASSUME ExecutionInv, NEW i \in Incidents, FailVerification(i)
  PROVE  ExecutionInv'
<1>1. /\ status[i] = "executed" /\ UNCHANGED <<executions, handler>>
      /\ status' = [status EXCEPT ![i] = "verification_failed"]
  BY DEF FailVerification, ObservationAllowed
<1>2. TypeOK'
  BY <1>1 DEF ExecutionInv, TypeOK
<1>3. EachSound'
  BY <1>1 DEF ExecutionInv, TypeOK, EachSound
<1>4. TraceInv'
  BY <1>1 DEF ExecutionInv, TraceInv, SeenBehind, ComparedStill, RacesOnly, UsesApart
<1> QED
  BY <1>2, <1>3, <1>4 DEF ExecutionInv

\* A review decides one deviation and computes the gate anew, also one that a
\* supplement had answered.
LEMMA ReviewStep ==
  ASSUME ExecutionInv, NEW i \in Incidents, NEW e \in DOMAIN executions[i],
         NEW n \in DOMAIN executions[i][e].deviations, NEW decision \in {"approved", "returned"},
         ReviewDeviation(i, e, n, decision)
  PROVE  ExecutionInv'
<1> DEFINE old == executions[i][e]
           ds == [old.deviations EXCEPT ![n].decision = decision]
           x == [old EXCEPT !.deviations = ds, !.gate = deviationGate(ds)]
           k == Len(executions[i])
<1>1. /\ executions' = [executions EXCEPT ![i][e].deviations = ds, ![i][e].gate = deviationGate(ds)]
      /\ UNCHANGED <<status, handler>>
  BY DEF ReviewDeviation
<1>2. /\ executions \in [Incidents -> Seq(ExecutionRecord)]
      /\ executions[i] \in Seq(ExecutionRecord) /\ old \in ExecutionRecord
      /\ k \in Nat /\ DOMAIN executions[i] = 1..k
  BY RecordTyped DEF ExecutionInv, TypeOK
<1>3. old.deviations \in Seq(Deviation)
  BY <1>2 DEF ExecutionRecord
<1>4. /\ ds \in Seq(Deviation) /\ DOMAIN ds = DOMAIN old.deviations
      /\ \A m \in DOMAIN ds : ds[m].type = old.deviations[m].type
                              /\ ds[m].step = old.deviations[m].step
      /\ \A m \in DOMAIN ds : ds[m].decision = old.deviations[m].decision
                               \/ ds[m].decision # "accepted"
  <2> DEFINE d == [old.deviations[n] EXCEPT !.decision = decision]
  <2>1. old.deviations[n] \in Deviation
    BY <1>3, ElementTyped
  <2>2. /\ d \in Deviation /\ d.type = old.deviations[n].type /\ d.decision = decision
        /\ d.step = old.deviations[n].step
    BY <2>1 DEF Deviation, Decisions
  <2>3. ds = [old.deviations EXCEPT ![n] = d]
    OBVIOUS
  <2> HIDE DEF d, ds, old
  <2> QED  BY <1>3, <2>2, <2>3 DEF old
<1>5. deviationGate(ds) \in Gates
  BY DEF deviationGate, Gates
<1> HIDE DEF ds
<1>6. /\ x \in ExecutionRecord /\ x.deviations = ds /\ x.gate = deviationGate(ds)
      /\ x.materials = old.materials /\ x.seen = old.seen /\ x.drift = old.drift
      /\ x.order = old.order /\ x.skipped = old.skipped
  BY <1>2, <1>4, <1>5 DEF ExecutionRecord
<1>7. executions' = [executions EXCEPT ![i] = [executions[i] EXCEPT ![e] = x]]
  BY <1>1, <1>2
<1> HIDE DEF x, old
<1>8. /\ executions' \in [Incidents -> Seq(ExecutionRecord)]
      /\ \A j \in Incidents : j # i => executions'[j] = executions[j]
      /\ DOMAIN executions'[i] = DOMAIN executions[i] /\ Len(executions'[i]) = k
      /\ \A f \in DOMAIN executions[i] : f # e => executions'[i][f] = executions[i][f]
      /\ executions'[i][e] = x
  <2> DEFINE es == [executions[i] EXCEPT ![e] = x]
  <2>1. /\ es \in Seq(ExecutionRecord) /\ DOMAIN es = DOMAIN executions[i] /\ Len(es) = k
        /\ \A f \in DOMAIN executions[i] : f # e => es[f] = executions[i][f]
        /\ es[e] = x
    BY <1>2, <1>6
  <2>2. executions' = [executions EXCEPT ![i] = es]
    BY <1>7
  <2> HIDE DEF es
  <2> QED  BY <1>2, <2>1, <2>2
<1>9. TypeOK'
  BY <1>1, <1>8 DEF ExecutionInv, TypeOK
<1>10. /\ \A j \in Incidents : /\ DOMAIN executions'[j] = DOMAIN executions[j]
                               /\ Len(executions'[j]) = Len(executions[j])
       /\ \A j \in Incidents : \A f \in DOMAIN executions[j] :
            /\ executions'[j][f].materials = executions[j][f].materials
            /\ executions'[j][f].seen = executions[j][f].seen
  BY <1>6, <1>8 DEF old, k
<1>11. SeenBehind' /\ RacesOnly' /\ UsesApart'
  <2>1. SeenBehind'
    BY <1>1, <1>10 DEF ExecutionInv, TraceInv, SeenBehind
  <2>2. RacesOnly'
    BY <1>10 DEF ExecutionInv, TraceInv, RacesOnly
  <2>3. UsesApart'
    BY <1>10 DEF ExecutionInv, TraceInv, UsesApart
  <2> QED  BY <2>1, <2>2, <2>3
<1>12. ComparedStill'
  <2> SUFFICES ASSUME NEW g \in Handlers, handler[g].request # None,
                      NEW j \in Incidents, j # handler[g].request.incident,
                      NEW f \in 1..handler[g].seen[j]
               PROVE  Agree(executions'[j][f].materials, handler[g].request.materials)
    BY <1>1 DEF ComparedStill
  <2>1. Agree(executions[j][f].materials, handler[g].request.materials)
    BY DEF ExecutionInv, TraceInv, ComparedStill
  <2>2. f \in DOMAIN executions[j]
    <3>1. executions[j] \in Seq(ExecutionRecord)
      BY DEF ExecutionInv, TypeOK
    <3>2. handler[g].seen[j] <= Len(executions[j]) /\ handler[g].seen[j] \in Nat
      BY SeenTyped DEF ExecutionInv, TraceInv, SeenBehind
    <3> QED  BY <3>1, <3>2
  <2> QED  BY <1>10, <2>1, <2>2
<1>13. EachSound'
  <2>1. DeviationsSound(x) /\ DepartureSound(x) /\ GateFollows(x)
    <3>1. DeviationsSound(old) /\ DepartureSound(old)
      BY DEF ExecutionInv, EachSound, old
    <3>2. DeviationsSound(x) /\ GateFollows(x)
      BY <1>4, <1>6, <3>1 DEF DeviationsSound, GateFollows
    <3>3. DepartureSound(x)
      BY <1>4, <1>6, <3>1 DEF DepartureSound
    <3> QED  BY <3>2, <3>3
  <2>2. \A j \in Incidents : executions[j] # <<>> => executions'[j] # <<>>
    <3>1. executions'[i] # <<>>
      BY <1>2, <1>8
    <3> QED  BY <1>8, <3>1
  <2> QED  BY <1>1, <1>8, <1>10, <2>1, <2>2 DEF ExecutionInv, EachSound
<1> QED
  BY <1>9, <1>11, <1>12, <1>13 DEF ExecutionInv, TraceInv

LEMMA InvNext ==
  ASSUME ExecutionInv, [Next]_vars
  PROVE  ExecutionInv'
<1>1. ASSUME NEW h \in Handlers, NEW r \in Requests, CompareBatches(h, r) PROVE ExecutionInv'
  BY <1>1, CompareStep
<1>2. ASSUME NEW h \in Handlers, RecordExecution(h) PROVE ExecutionInv'
  BY <1>2, RecordStep
<1>3. ASSUME NEW h \in Handlers, Refuse(h) PROVE ExecutionInv'
  BY <1>3, RefuseStep
<1>4. ASSUME NEW i \in Incidents, NEW e \in DOMAIN executions[i],
             NEW n \in DOMAIN executions[i][e].deviations, NEW decision \in {"approved", "returned"},
             ReviewDeviation(i, e, n, decision)
      PROVE  ExecutionInv'
  BY <1>4, ReviewStep
<1>5. ASSUME NEW i \in Incidents, FailVerification(i) PROVE ExecutionInv'
  BY <1>5, FailStep
<1>6. CASE UNCHANGED vars
  BY <1>6 DEF vars, ExecutionInv, TypeOK, TraceInv, SeenBehind, ComparedStill, RacesOnly,
              UsesApart, EachSound
<1> QED
  BY <1>1, <1>2, <1>3, <1>4, <1>5, <1>6 DEF Next

THEOREM InvHolds == Spec => []ExecutionInv
<1> QED
  BY InvInit, InvNext, PTL DEF Spec

-----------------------------------------------------------------------------
(* The theorems.                                                           *)

LEMMA UsedOnce == UsesApart => BatchUsedOnce
<1> SUFFICES ASSUME UsesApart, NEW i \in Incidents, NEW b \in Batches
             PROVE  UseCount(i, b) <= 1
  BY DEF BatchUsedOnce
<1> DEFINE Uses == UNION {{e} \X DOMAIN executions[i][e].materials : e \in DOMAIN executions[i]}
           S == {u \in Uses : executions[i][u[1]].materials[u[2]].batch = b}
<1>1. \A u \in S : /\ u = <<u[1], u[2]>> /\ u[1] \in DOMAIN executions[i]
                   /\ u[2] \in DOMAIN executions[i][u[1]].materials
                   /\ executions[i][u[1]].materials[u[2]].batch = b
  OBVIOUS
<1>2. \A u, v \in S : u[1] = v[1] /\ u[2] = v[2]
  BY <1>1 DEF UsesApart
<1>3. \A u, v \in S : u = v
  BY <1>1, <1>2
<1>4. UseCount(i, b) = Cardinality(S)
  BY DEF UseCount
<1> HIDE DEF S
<1>5. CASE S = {}
  BY <1>4, <1>5, FS_EmptySet
<1>6. CASE S # {}
  <2>1. PICK u : S = {u}
    BY <1>3, <1>6
  <2>2. Cardinality({u}) = 1
    BY FS_Singleton, Zenon
  <2> QED  BY <1>4, <2>1, <2>2
<1> QED
  BY <1>5, <1>6

\* RecordExecution compares batches with the other incidents before it takes
\* the store's lock, and with its own incident under it: a batch is used once
\* in an incident, and has two meanings only through handlers that overlapped.
THEOREM BatchesAreTraceable == Spec => []BatchesTraceable
<1>1. ExecutionInv => BatchesTraceable
  <2> SUFFICES ASSUME ExecutionInv PROVE BatchesTraceable
    OBVIOUS
  <2>1. BatchUsedOnce
    BY UsedOnce DEF ExecutionInv, TraceInv
  <2>2. ConflictNeedsRace
    BY DEF ExecutionInv, TraceInv, RacesOnly, Agree, ConflictNeedsRace
  <2> QED  BY <2>1, <2>2 DEF BatchesTraceable, ExecutionInv
<1> QED
  BY <1>1, InvHolds, PTL

\* A gate that is clear leaves no deviation pending or returned.
LEMMA ClearGate ==
  ASSUME NEW ds, deviationGate(ds) = "clear"
  PROVE  \A n \in DOMAIN ds : ds[n].decision \notin {"pending", "returned"}
  BY DEF deviationGate

LEMMA BarredGate ==
  ASSUME NEW ds, deviationGate(ds) # "clear"
  PROVE  \E n \in DOMAIN ds : ds[n].decision \in {"pending", "returned"}
  BY DEF deviationGate

\* The execution in force, of an incident that has one.
LEMMA LastFacts ==
  ASSUME ExecutionInv, NEW i \in Incidents, status[i] = "executed"
  PROVE  LET x == Last(executions[i])
         IN  /\ x \in ToSet(executions[i]) /\ x \in ExecutionRecord
             /\ DeviationsSound(x) /\ GateFollows(x)
<1> DEFINE k == Len(executions[i])
<1>1. executions[i] \in Seq(ExecutionRecord) /\ executions[i] # <<>>
  BY DEF ExecutionInv, TypeOK, EachSound
<1>2. k \in DOMAIN executions[i] /\ k \in Nat /\ Last(executions[i]) = executions[i][k]
  BY <1>1 DEF Last
<1>3. executions[i][k] \in ExecutionRecord
  BY <1>1, <1>2, ElementTyped
<1>4. DeviationsSound(executions[i][k]) /\ GateFollows(executions[i][k])
  BY <1>2 DEF ExecutionInv, EachSound
<1> QED
  BY <1>2, <1>3, <1>4 DEF ToSet

\* What AddObservations reads of an execution is its gate, which the recording,
\* a supplement and each review write; it is clear only when all but changes of
\* order were approved, a drift of the calibration among them.
THEOREM ObservationIsReviewed == Spec => []ReviewedBeforeObservation
<1>1. ExecutionInv => ReviewedBeforeObservation
  <2> SUFFICES ASSUME ExecutionInv, NEW i \in Incidents, ObservationAllowed(i)
               PROVE  LET e == Last(executions[i])
                      IN  /\ e.drift => \E d \in ToSet(e.deviations) : d.type = "calibration_drift"
                          /\ \A d \in ToSet(e.deviations) :
                               d.type # "step_reorder" => d.decision = "approved"
    BY DEF ReviewedBeforeObservation
  <2> DEFINE x == Last(executions[i])
  <2>1. status[i] = "executed" /\ x.gate = "clear"
    BY DEF ObservationAllowed
  <2>2. x \in ExecutionRecord /\ DeviationsSound(x) /\ GateFollows(x)
    BY <2>1, LastFacts
  <2> HIDE DEF x
  <2>3. x.deviations \in Seq(Deviation)
    BY <2>2 DEF ExecutionRecord
  <2>4. \A n \in DOMAIN x.deviations : x.deviations[n].decision \in Decisions
    <3>1. \A n \in DOMAIN x.deviations : x.deviations[n] \in Deviation
      BY <2>3, ElementTyped
    <3> QED  BY <3>1 DEF Deviation
  <2>5. \A n \in DOMAIN x.deviations : x.deviations[n].decision \notin {"pending", "returned"}
    BY <2>1, <2>2, ClearGate DEF GateFollows
  <2>6. \A n \in DOMAIN x.deviations :
          x.deviations[n].type # "step_reorder" => x.deviations[n].decision = "approved"
    BY <2>2, <2>4, <2>5 DEF DeviationsSound, Decisions
  <2>7. x.drift => \E d \in ToSet(x.deviations) : d.type = "calibration_drift"
    BY <2>2 DEF DeviationsSound, ToSet
  <2>8. \A d \in ToSet(x.deviations) : d.type # "step_reorder" => d.decision = "approved"
    BY <2>6 DEF ToSet
  <2> QED  BY <2>7, <2>8 DEF x
<1> QED
  BY <1>1, InvHolds, PTL

\* ExecutionSummary derives from the deviations what AddObservations reads off
\* the gate: whoever is refused is told.
THEOREM BlockIsShown == Spec => []BlockShown
<1>1. ExecutionInv => BlockShown
  <2> SUFFICES ASSUME ExecutionInv, NEW i \in Incidents,
                      status[i] = "executed", ~ObservationAllowed(i)
               PROVE  ObservationBlocked(i)
    BY DEF BlockShown
  <2> DEFINE x == Last(executions[i])
  <2>1. x \in ToSet(executions[i]) /\ GateFollows(x) /\ x.gate # "clear"
    BY LastFacts DEF ObservationAllowed
  <2> HIDE DEF x
  <2>2. \E n \in DOMAIN x.deviations : x.deviations[n].decision \in {"pending", "returned"}
    BY <2>1, BarredGate DEF GateFollows
  <2>3. \E d \in ToSet(x.deviations) : d.decision \in {"pending", "returned"}
    BY <2>2 DEF ToSet
  <2> QED  BY <2>1, <2>3 DEF ObservationBlocked
<1> QED
  BY <1>1, InvHolds, PTL

\* RecordExecution admits steps that are out of order or left out only beside
\* deviations that say so, and neither a supplement nor a review takes them
\* off the record again.
THEOREM DeparturesAreOnRecord == Spec => []DepartureOnRecord
<1>1. ExecutionInv => DepartureOnRecord
  <2> SUFFICES ASSUME ExecutionInv, NEW i \in Incidents, NEW n \in DOMAIN executions[i]
               PROVE  LET e == executions[i][n]
                      IN  /\ Range(e.order) = Steps /\ IsInjective(e.order)
                          /\ (\E k \in 2..Len(e.order) : e.order[k] < e.order[k - 1]) =>
                               \E d \in ToSet(e.deviations) :
                                 d.type = "step_reorder" /\ ~Critical[d.step]
                          /\ \A s \in e.skipped :
                               ~Critical[s] /\ \E d \in ToSet(e.deviations) : d.step = s
    BY DEF DepartureOnRecord, ToSet
  <2> DEFINE e == executions[i][n]
  <2>1. DepartureSound(e)
    BY DEF ExecutionInv, EachSound
  <2> HIDE DEF e
  <2>2. \A m \in DOMAIN e.deviations : e.deviations[m] \in ToSet(e.deviations)
    BY DEF ToSet
  <2>3. (\E k \in 2..Len(e.order) : e.order[k] < e.order[k - 1]) =>
          \E d \in ToSet(e.deviations) : d.type = "step_reorder" /\ ~Critical[d.step]
    BY <2>1, <2>2 DEF DepartureSound
  <2>4. \A s \in e.skipped : ~Critical[s] /\ \E d \in ToSet(e.deviations) : d.step = s
    BY <2>1, <2>2 DEF DepartureSound
  <2>5. Range(e.order) = Steps /\ IsInjective(e.order)
    BY <2>1 DEF DepartureSound
  <2> QED  BY <2>3, <2>4, <2>5 DEF e
<1> QED
  BY <1>1, InvHolds, PTL

=============================================================================
