----------------------------- MODULE StoreProofs ----------------------------
(***************************************************************************)
(* Theorems about Store, for any number of handlers, request_ids,          *)
(* incidents and keys, any set of commands and any number of kills and     *)
(* losses of power.                                                        *)
(*                                                                         *)
(* First what every snapshot satisfies: type correctness, agreement of     *)
(* memory and data file, exactness of the active-context index and         *)
(* openness of every file the store can leave behind.  Then what the audit *)
(* trail and the recorded results of a snapshot say of each other: every   *)
(* request_id takes effect once, every command was decided on the state it *)
(* was applied to, an answered command is never lost, and the store        *)
(* implements the abstract command log.                                    *)
(***************************************************************************)
EXTENDS Store, FiniteSetTheorems, TLAPS

-----------------------------------------------------------------------------
(* Snapshots.  Good is what every snapshot satisfies, wherever it is: in   *)
(* memory, on its way to disk, in a temporary file or in the data file.    *)

ContextsExact(s) ==
  \A k \in Keys, i \in Incidents :
    s.contexts[k] = i <=> InFlight(s, i) /\ s.incidents[i].key = k

ResultsComplete(s) ==
  \A r \in Requests : Recorded(s, r) => s.commands[r].incident \in Incidents

KeysKnown(s) ==
  \A i \in Incidents : Exists(s, i) => s.incidents[i].key \in Keys

Good(s) ==
  /\ IsSnapshot(s)
  /\ KeysKnown(s)
  /\ ContextsExact(s)
  /\ ResultsComplete(s)
  /\ verifyAuditChain(s.audits)

LEMMA EmptyIsGood == Good(EmptySnapshot)
<1>1. <<>> \in Seq({<<>>[n] : n \in DOMAIN <<>>})
  OBVIOUS
<1>2. IsSnapshot(EmptySnapshot)
  BY <1>1 DEF IsSnapshot, EmptySnapshot, Absent, IncidentRecord, NoResult, CommandResult,
              IsSequence
<1>3. ContextsExact(EmptySnapshot)
  BY StoreAssumption DEF ContextsExact, EmptySnapshot, InFlight, Exists, Absent
<1>4. ResultsComplete(EmptySnapshot)
  BY DEF ResultsComplete, EmptySnapshot, Recorded, NoResult
<1>5. KeysKnown(EmptySnapshot)
  BY DEF KeysKnown, EmptySnapshot, Exists, Absent
<1> QED
  BY <1>2, <1>3, <1>4, <1>5 DEF Good, verifyAuditChain, EmptySnapshot

LEMMA AppendIsSequence ==
  ASSUME NEW t, IsSequence(t), NEW e
  PROVE  /\ IsSequence(Append(t, e))
         /\ DOMAIN Append(t, e) = 1..Len(t) + 1
         /\ Len(t) \in Nat /\ DOMAIN t = 1..Len(t)
         /\ \A n \in DOMAIN t : Append(t, e)[n] = t[n]
         /\ Append(t, e)[Len(t) + 1] = e
<1> DEFINE S == {t[n] : n \in DOMAIN t}
           T == S \cup {e}
<1>1. t \in Seq(T) /\ e \in T
  BY DEF IsSequence
<1> HIDE DEF T
<1>2. /\ DOMAIN Append(t, e) = 1..Len(t) + 1
      /\ Len(t) \in Nat /\ DOMAIN t = 1..Len(t)
      /\ \A n \in DOMAIN t : Append(t, e)[n] = t[n]
      /\ Append(t, e)[Len(t) + 1] = e
      /\ Append(t, e) \in Seq(T)
  BY <1>1
<1> DEFINE u == Append(t, e)
           R == {u[n] : n \in DOMAIN u}
<1>3. u \in Seq(T)
  BY <1>2
<1> HIDE DEF u
<1>4. u \in Seq(R)
  <2>1. \A n \in DOMAIN u : u[n] \in R
    OBVIOUS
  <2> HIDE DEF R
  <2>2. u = [n \in 1..Len(u) |-> u[n]] /\ Len(u) \in Nat /\ DOMAIN u = 1..Len(u)
    BY <1>3
  <2> QED
    BY <2>1, <2>2
<1> QED
  BY <1>2, <1>4 DEF IsSequence, u

\* What a recorded command makes of each part of the snapshot.
LEMMA AppendAuditFields ==
  ASSUME NEW s, IsSnapshot(s), NEW c \in Command, NEW i \in Incidents,
         s.incidents[i].revision > 0
  PROVE  LET e == [sequence |-> Len(s.audits) + 1, incident |-> i,
                   request |-> c.request, expected |-> c.expected,
                   to |-> IF s.incidents[i].sealed THEN "sealed" ELSE "open",
                   previous |-> LastDigest(s)]
             t == appendAuditAndCommand(s, c, i)
         IN  /\ t = [incidents |-> s.incidents, cases |-> s.cases,
                     commands |-> [s.commands EXCEPT ![c.request] =
                                     [op |-> c.op, incident |-> i,
                                      revision |-> s.incidents[i].revision]],
                     audits |-> Append(s.audits, e), contexts |-> s.contexts]
             /\ IsEvent(e)
<1>1. s.incidents[i] \in IncidentRecord /\ Len(s.audits) \in Nat
  BY AppendIsSequence DEF IsSnapshot
<1>2. /\ c.request \in Requests /\ c.expected \in Nat
  BY DEF Command
<1> DEFINE e == [sequence |-> Len(s.audits) + 1, incident |-> i,
                 request |-> c.request, expected |-> c.expected,
                 to |-> IF s.incidents[i].sealed THEN "sealed" ELSE "open",
                 previous |-> LastDigest(s)]
           r == [op |-> c.op, incident |-> i, revision |-> s.incidents[i].revision]
<1>3. IsEvent(e)
  BY <1>1, <1>2 DEF IsEvent
<1>4. appendAuditAndCommand(s, c, i) =
        [s EXCEPT !.audits = Append(s.audits, e), !.commands = [s.commands EXCEPT ![c.request] = r]]
  BY DEF appendAuditAndCommand
<1>5. s = [incidents |-> s.incidents, cases |-> s.cases, commands |-> s.commands,
           audits |-> s.audits, contexts |-> s.contexts]
  BY DEF IsSnapshot
<1> HIDE DEF e, r
<1>6. [s EXCEPT !.audits = Append(s.audits, e), !.commands = [s.commands EXCEPT ![c.request] = r]]
      = [incidents |-> s.incidents, cases |-> s.cases,
         commands |-> [s.commands EXCEPT ![c.request] = r],
         audits |-> Append(s.audits, e), contexts |-> s.contexts]
  <2> DEFINE A == Append(s.audits, e)
             M == [s.commands EXCEPT ![c.request] = r]
             p == [s EXCEPT !.audits = A]
  <2> HIDE DEF A, M
  <2>1. p = [incidents |-> s.incidents, cases |-> s.cases, commands |-> s.commands,
             audits |-> A, contexts |-> s.contexts]
    BY <1>5
  <2>2. [s EXCEPT !.audits = A, !.commands = M] = [p EXCEPT !.commands = M]
    OBVIOUS
  <2> HIDE DEF p
  <2>3. [p EXCEPT !.commands = M] =
          [incidents |-> s.incidents, cases |-> s.cases, commands |-> M,
           audits |-> A, contexts |-> s.contexts]
    BY <2>1
  <2> QED
    BY <2>2, <2>3 DEF A, M
<1> QED
  BY <1>3, <1>4, <1>6 DEF e, r

\* The chain, the results and the types survive any recorded command.
LEMMA AppendAuditSound ==
  ASSUME NEW s, IsSnapshot(s), ResultsComplete(s), verifyAuditChain(s.audits),
         NEW c \in Command, NEW i \in Incidents, s.incidents[i].revision > 0
  PROVE  LET t == appendAuditAndCommand(s, c, i)
         IN  /\ IsSnapshot(t) /\ ResultsComplete(t) /\ verifyAuditChain(t.audits)
             /\ Recorded(t, c.request)
             /\ t.incidents = s.incidents /\ t.contexts = s.contexts /\ t.cases = s.cases
<1> DEFINE t == appendAuditAndCommand(s, c, i)
           e == [sequence |-> Len(s.audits) + 1, incident |-> i,
                 request |-> c.request, expected |-> c.expected,
                 to |-> IF s.incidents[i].sealed THEN "sealed" ELSE "open",
                 previous |-> LastDigest(s)]
           r == [op |-> c.op, incident |-> i, revision |-> s.incidents[i].revision]
<1>1. t = [incidents |-> s.incidents, cases |-> s.cases,
           commands |-> [s.commands EXCEPT ![c.request] = r],
           audits |-> Append(s.audits, e), contexts |-> s.contexts]
      /\ IsEvent(e)
  BY AppendAuditFields
<1>e. e.sequence = Len(s.audits) + 1 /\ e.previous = LastDigest(s)
  OBVIOUS
<1>c. c.op \in Ops /\ c.request \in Requests /\ "none" \notin Ops
  BY DEF Command, Ops
<1>r. r \in CommandResult /\ r.op # "none" /\ r.incident \in Incidents
  <2>1. s.incidents[i].revision \in Nat
    BY DEF IsSnapshot, IncidentRecord
  <2> QED
    BY <1>c, <2>1 DEF CommandResult, Ops
<1> HIDE DEF e, r, t
<1>2. IsSequence(s.audits) /\ s.commands \in [Requests -> CommandResult]
  BY DEF IsSnapshot
<1>3. /\ IsSequence(t.audits) /\ DOMAIN t.audits = 1..Len(s.audits) + 1
      /\ Len(s.audits) \in Nat /\ DOMAIN s.audits = 1..Len(s.audits)
      /\ \A n \in DOMAIN s.audits : t.audits[n] = s.audits[n]
      /\ t.audits[Len(s.audits) + 1] = e
  BY <1>1, <1>2, AppendIsSequence
<1>4. t.commands \in [Requests -> CommandResult]
  BY <1>1, <1>2, <1>r
<1>5. IsSnapshot(t)
  <2>1. \A n \in DOMAIN t.audits : IsEvent(t.audits[n])
    BY <1>1, <1>3 DEF IsSnapshot
  <2> QED
    BY <1>1, <1>3, <1>4, <2>1 DEF IsSnapshot
<1>6. /\ t.commands[c.request] = r
      /\ \A q \in Requests : q # c.request => t.commands[q] = s.commands[q]
  BY <1>1, <1>2, <1>c
<1>7. ResultsComplete(t) /\ Recorded(t, c.request)
  BY <1>6, <1>r DEF ResultsComplete, Recorded
<1>8. verifyAuditChain(t.audits)
  <2>1. ASSUME NEW n \in DOMAIN t.audits, n # Len(s.audits) + 1
        PROVE  /\ t.audits[n].sequence = n
               /\ t.audits[n].previous = IF n = 1 THEN <<>> ELSE auditDigest(t.audits[n - 1])
    <3>1. n \in DOMAIN s.audits /\ (n # 1 => n - 1 \in DOMAIN s.audits)
      BY <1>3, <2>1
    <3> QED
      BY <1>3, <3>1 DEF verifyAuditChain
  <2>2. LastDigest(s) = IF Len(s.audits) + 1 = 1 THEN <<>>
                        ELSE auditDigest(t.audits[Len(s.audits)])
    <3>1. s.audits = <<>> <=> Len(s.audits) = 0
      BY <1>2, <1>3 DEF IsSequence
    <3>2. Len(s.audits) # 0 => t.audits[Len(s.audits)] = s.audits[Len(s.audits)]
      BY <1>3
    <3> QED
      BY <1>3, <3>1, <3>2 DEF LastDigest
  <2> QED
    BY <1>3, <1>e, <2>1, <2>2 DEF verifyAuditChain
<1> QED
  BY <1>1, <1>5, <1>7, <1>8 DEF t

LEMMA CreatedIsGood ==
  ASSUME NEW s, Good(s), NEW c \in Command, CreateAllowed(s, c)
  PROVE  Good(Created(s, c)) /\ Recorded(Created(s, c), c.request)
<1> DEFINE n == [revision |-> 1, key |-> c.key, sealed |-> FALSE]
           p == [s EXCEPT !.incidents[c.incident] = n,
                          !.cases = @ \cup {CaseOf[c.incident]},
                          !.contexts[c.key] = c.incident]
           t == Created(s, c)
<1>c. c.incident \in Incidents /\ c.key \in Keys /\ CaseOf[c.incident] \in Cases
  BY StoreAssumption DEF Command
<1>n. n \in IncidentRecord /\ n.revision = 1 /\ n.key = c.key /\ ~n.sealed
  BY <1>c DEF IncidentRecord
<1> HIDE DEF n
<1>1. p = [incidents |-> [s.incidents EXCEPT ![c.incident] = n],
           cases |-> s.cases \cup {CaseOf[c.incident]},
           commands |-> s.commands, audits |-> s.audits,
           contexts |-> [s.contexts EXCEPT ![c.key] = c.incident]]
  <2>1. s = [incidents |-> s.incidents, cases |-> s.cases, commands |-> s.commands,
             audits |-> s.audits, contexts |-> s.contexts]
    BY DEF Good, IsSnapshot
  <2> DEFINE I == [s.incidents EXCEPT ![c.incident] = n]
             C == s.cases \cup {CaseOf[c.incident]}
             X == [s.contexts EXCEPT ![c.key] = c.incident]
             p1 == [s EXCEPT !.incidents = I]
             p2 == [p1 EXCEPT !.cases = C]
  <2>2. p = [s EXCEPT !.incidents = I, !.cases = C, !.contexts = X]
    OBVIOUS
  <2> HIDE DEF I, C, X, p
  <2>3. p1 = [incidents |-> I, cases |-> s.cases, commands |-> s.commands,
              audits |-> s.audits, contexts |-> s.contexts]
    BY <2>1
  <2>4. p = [p2 EXCEPT !.contexts = X]
    BY <2>2
  <2> HIDE DEF p1
  <2>5. p2 = [incidents |-> I, cases |-> C, commands |-> s.commands,
              audits |-> s.audits, contexts |-> s.contexts]
    BY <2>3
  <2> HIDE DEF p2
  <2>6. p = [incidents |-> I, cases |-> C, commands |-> s.commands,
             audits |-> s.audits, contexts |-> X]
    BY <2>4, <2>5
  <2> QED
    BY <2>6 DEF I, C, X
<1>2. t = appendAuditAndCommand(p, c, c.incident)
  BY DEF Created, n
<1> HIDE DEF p, t
<1>3. /\ p.incidents \in [Incidents -> IncidentRecord]
      /\ p.contexts \in [Keys -> Incidents \cup {None}]
      /\ p.incidents[c.incident] = n /\ p.contexts[c.key] = c.incident
      /\ \A i \in Incidents : i # c.incident => p.incidents[i] = s.incidents[i]
      /\ \A k \in Keys : k # c.key => p.contexts[k] = s.contexts[k]
  BY <1>1, <1>c, <1>n DEF Good, IsSnapshot
<1>4. IsSnapshot(p) /\ ResultsComplete(p) /\ verifyAuditChain(p.audits)
  BY <1>1, <1>3, <1>c DEF Good, IsSnapshot, ResultsComplete, Recorded
<1>k. KeysKnown(p)
  BY <1>3, <1>c, <1>n DEF Good, KeysKnown, Exists
<1>5. ContextsExact(p)
  <2> SUFFICES ASSUME NEW k \in Keys, NEW i \in Incidents
               PROVE  p.contexts[k] = i <=> InFlight(p, i) /\ p.incidents[i].key = k
    BY DEF ContextsExact
  <2>1. s.contexts[k] = i <=> InFlight(s, i) /\ s.incidents[i].key = k
    BY DEF Good, ContextsExact
  <2>2. s.contexts[c.key] = None /\ None \notin Incidents /\ ~Exists(s, c.incident)
    BY StoreAssumption DEF CreateAllowed
  <2>3. CASE i = c.incident
    BY <1>3, <1>n, <2>1, <2>2, <2>3 DEF InFlight, Exists
  <2>4. CASE i # c.incident
    <3>1. p.incidents[i] = s.incidents[i]
      BY <1>3, <2>4
    <3>2. CASE k = c.key
      BY <1>3, <2>1, <2>2, <2>4, <3>1, <3>2 DEF InFlight, Exists
    <3>3. CASE k # c.key
      BY <1>3, <2>1, <3>1, <3>3 DEF InFlight, Exists
    <3> QED
      BY <3>2, <3>3
  <2> QED
    BY <2>3, <2>4
<1>6. /\ IsSnapshot(t) /\ ResultsComplete(t) /\ verifyAuditChain(t.audits)
      /\ Recorded(t, c.request)
      /\ t.incidents = p.incidents /\ t.contexts = p.contexts
  BY <1>2, <1>3, <1>4, <1>c, <1>n, AppendAuditSound
<1> QED
  BY <1>5, <1>6, <1>k DEF Good, KeysKnown, ContextsExact, InFlight, Exists, t

LEMMA UpdatedIsGood ==
  ASSUME NEW s, Good(s), NEW c \in Command, UpdateAllowed(s, c)
  PROVE  Good(Updated(s, c)) /\ Recorded(Updated(s, c), c.request)
<1> DEFINE old == s.incidents[c.incident]
           n == [revision |-> old.revision + 1, key |-> KeyAfter(s, c),
                 sealed |-> c.op = "seal"]
           p == [s EXCEPT !.incidents[c.incident] = n]
           q == appendAuditAndCommand(p, c, c.incident)
           t == Updated(s, c)
<1>c. c.incident \in Incidents /\ c.key \in Keys
  BY DEF Command
<1>o. old \in IncidentRecord
  BY <1>c DEF Good, IsSnapshot
<1>k. KeyAfter(s, c) \in Keys
  BY <1>c DEF KeyAfter, UpdateAllowed, Good, KeysKnown
<1>n. /\ n \in IncidentRecord /\ n.revision > 0 /\ n.key = KeyAfter(s, c)
      /\ n.sealed = (c.op = "seal")
  <2>1. old.revision \in Nat
    BY <1>o DEF IncidentRecord
  <2>2. n.revision = old.revision + 1 /\ n.key = KeyAfter(s, c) /\ n.sealed = (c.op = "seal")
    OBVIOUS
  <2> QED
    BY <2>1, <2>2, <1>k DEF IncidentRecord
<1> HIDE DEF n
<1>1. p = [incidents |-> [s.incidents EXCEPT ![c.incident] = n],
           cases |-> s.cases, commands |-> s.commands, audits |-> s.audits,
           contexts |-> s.contexts]
  BY DEF Good, IsSnapshot
<1>2. t = [q EXCEPT !.contexts = ContextsAfter(s, c)]
  BY DEF Updated, n
<1> HIDE DEF p, q, t
<1>3. /\ p.incidents \in [Incidents -> IncidentRecord]
      /\ p.incidents[c.incident] = n
      /\ \A i \in Incidents : i # c.incident => p.incidents[i] = s.incidents[i]
  BY <1>1, <1>c, <1>n DEF Good, IsSnapshot
<1>4. IsSnapshot(p) /\ ResultsComplete(p) /\ verifyAuditChain(p.audits)
  BY <1>1, <1>3 DEF Good, IsSnapshot, ResultsComplete, Recorded
<1>5. /\ IsSnapshot(q) /\ ResultsComplete(q) /\ verifyAuditChain(q.audits)
      /\ Recorded(q, c.request) /\ q.incidents = p.incidents
  BY <1>3, <1>4, <1>c, <1>n, AppendAuditSound DEF q
<1>6. ContextsAfter(s, c) \in [Keys -> Incidents \cup {None}]
  BY <1>c DEF ContextsAfter, Good, IsSnapshot
<1>7. /\ t = [incidents |-> p.incidents, cases |-> q.cases, commands |-> q.commands,
              audits |-> q.audits, contexts |-> ContextsAfter(s, c)]
  BY <1>2, <1>5 DEF IsSnapshot
<1>8. IsSnapshot(t) /\ ResultsComplete(t) /\ verifyAuditChain(t.audits)
      /\ Recorded(t, c.request)
  BY <1>5, <1>6, <1>7 DEF IsSnapshot, ResultsComplete, Recorded
<1>9. ContextsExact(t)
  <2> SUFFICES ASSUME NEW k \in Keys, NEW i \in Incidents
               PROVE  t.contexts[k] = i <=> InFlight(t, i) /\ t.incidents[i].key = k
    BY DEF ContextsExact
  <2>1. s.contexts[k] = i <=> InFlight(s, i) /\ s.incidents[i].key = k
    BY DEF Good, ContextsExact
  <2>2. s.contexts[k] = c.incident <=> InFlight(s, c.incident) /\ old.key = k
    BY <1>c DEF Good, ContextsExact
  <2>3. s.contexts[KeyAfter(s, c)] \in {None, c.incident} /\ None \notin Incidents
    BY StoreAssumption DEF UpdateAllowed
  <2>4. t.contexts[k] = IF k = KeyAfter(s, c)
                        THEN IF c.op = "seal" THEN None ELSE c.incident
                        ELSE IF s.contexts[k] = c.incident THEN None ELSE s.contexts[k]
    BY <1>7 DEF ContextsAfter
  <2>5. CASE i = c.incident
    <3>1. t.incidents[i] = n
      BY <1>3, <1>7, <2>5
    <3> QED
      BY <3>1, <1>n, <1>c, <2>3, <2>4, <2>5 DEF InFlight, Exists
  <2>6. CASE i # c.incident
    <3>1. t.incidents[i] = s.incidents[i]
      BY <1>3, <1>7, <2>6
    <3>2. InFlight(t, i) /\ t.incidents[i].key = k <=> InFlight(s, i) /\ s.incidents[i].key = k
      BY <3>1 DEF InFlight, Exists
    <3> QED
      BY <3>2, <1>c, <2>1, <2>3, <2>4, <2>6
  <2> QED
    BY <2>5, <2>6
<1>10. KeysKnown(t)
  <2> SUFFICES ASSUME NEW i \in Incidents, Exists(t, i)
               PROVE  t.incidents[i].key \in Keys
    BY DEF KeysKnown
  <2>1. t.incidents = p.incidents
    BY <1>7
  <2> QED
    BY <2>1, <1>3, <1>n, <1>k DEF Good, KeysKnown, Exists
<1> QED
  BY <1>8, <1>9, <1>10 DEF Good, t

LEMMA NextStateIsGood ==
  ASSUME NEW s, Good(s), NEW c \in Command, Allowed(s, c)
  PROVE  Good(NextState(s, c)) /\ Recorded(NextState(s, c), c.request)
<1>1. CASE CreateAllowed(s, c)
  BY <1>1, CreatedIsGood DEF NextState, CreateAllowed
<1>2. CASE UpdateAllowed(s, c)
  BY <1>2, UpdatedIsGood DEF NextState, UpdateAllowed
<1> QED
  BY <1>1, <1>2 DEF Allowed

\* Open accepts a good snapshot and changes nothing in it: the rebuilt index
\* is the saved one.
LEMMA GoodOpens ==
  ASSUME NEW f, Good(f.snap), ~f.torn
  PROVE  Openable(f) /\ Opened(f) = f.snap
<1> DEFINE s == f.snap
<1>1. \A k \in Keys : s.contexts[k] \in Incidents \cup {None}
  BY DEF Good, IsSnapshot
<1>2. ASSUME NEW k \in Keys PROVE RebuiltContexts(s)[k] = s.contexts[k]
  <2>1. CASE s.contexts[k] = None
    <3>1. ~\E i \in Incidents : InFlight(s, i) /\ s.incidents[i].key = k
      BY <2>1, StoreAssumption DEF Good, ContextsExact
    <3> QED
      BY <2>1, <3>1 DEF RebuiltContexts
  <2>2. CASE s.contexts[k] # None
    <3>1. s.contexts[k] \in Incidents
      BY <1>1, <2>2
    <3>2. \A i \in Incidents : InFlight(s, i) /\ s.incidents[i].key = k <=> i = s.contexts[k]
      BY DEF Good, ContextsExact
    <3> HIDE DEF s
    <3> QED
      BY <3>1, <3>2 DEF RebuiltContexts
  <2> QED
    BY <2>1, <2>2
<1>3. RebuiltContexts(s) = s.contexts
  BY <1>2 DEF RebuiltContexts, Good, IsSnapshot
<1>4. ContextsUnique(s)
  <2> SUFFICES ASSUME NEW i \in Incidents, NEW j \in Incidents, InFlight(s, i), InFlight(s, j),
                      s.incidents[i].key = s.incidents[j].key
               PROVE  i = j
    BY DEF ContextsUnique
  <2>1. s.incidents[i].key \in Keys
    BY DEF Good, KeysKnown, InFlight
  <2>2. s.contexts[s.incidents[i].key] = i /\ s.contexts[s.incidents[i].key] = j
    BY <2>1 DEF Good, ContextsExact
  <2> QED
    BY <2>2
<1> QED
  BY <1>2, <1>3, <1>4 DEF Openable, Opened, SavedContextsAgree, Good, IsSnapshot

\* What a good snapshot answers is an answer.
LEMMA GoodAnswers ==
  ASSUME NEW s, Good(s), NEW r \in Requests, Recorded(s, r)
  PROVE  AnswerTo(s, r) \in Reply
<1>1. s.commands[r] \in CommandResult /\ s.commands[r].incident \in Incidents
  BY DEF Good, IsSnapshot, ResultsComplete
<1> QED
  BY <1>1 DEF AnswerTo, Reply, CommandResult

-----------------------------------------------------------------------------
(* The inductive invariant.                                                *)
(*                                                                         *)
(* MemoryIsFile is not inductive: that a swap brings memory to the state   *)
(* of the file rests on the lock (nobody else renamed in between), on the  *)
(* temporary file holding next, and, across a restart, on Open rebuilding  *)
(* the index exactly as it was saved.                                      *)

Critical == {"writing", "syncing", "renaming", "renamed", "swapping"}

\* One handler at a time between Prepare and Swap, and it holds the lock.
Exclusive ==
  /\ \A h \in Handlers : pc[h] \in Critical <=> lock = h
  /\ \A h \in Handlers : pc[h] # "idle" => up /\ cmd[h] \in Inputs
  /\ \A h \in Handlers : pc[h] \in Critical => Recorded(next[h], cmd[h].request)

\* Every snapshot is good, and what has the name of the data file is whole.
AllGood ==
  /\ Good(mem)
  /\ Good(file.snap) /\ file.synced /\ ~file.torn
  /\ Good(durable.snap) /\ durable.synced /\ ~durable.torn
  /\ \A h \in Handlers : Good(next[h]) /\ Good(temp[h].snap) /\ ~temp[h].torn

\* Where the new state is while it is being persisted.
InTransit ==
  /\ \A h \in Handlers : pc[h] \in {"syncing", "renaming"} => temp[h].snap = next[h]
  /\ \A h \in Handlers : pc[h] = "renaming" => temp[h].synced
  /\ \A h \in Handlers : pc[h] \in {"renamed", "swapping"} => file.snap = next[h]
  /\ up /\ (\A h \in Handlers : pc[h] \notin {"renamed", "swapping"}) => mem = file.snap

StoreInv == TypeOK /\ Exclusive /\ AllGood /\ InTransit

LEMMA GoodFile ==
  ASSUME NEW s, Good(s), NEW b \in BOOLEAN
  PROVE  /\ IsFile(File(s, b)) /\ File(s, b).snap = s
         /\ File(s, b).synced = b /\ ~File(s, b).torn
  BY DEF IsFile, File, Good

\* Syncing a file changes its synced flag only.
LEMMA SyncedFile ==
  ASSUME NEW t, IsFile(t), NEW b \in BOOLEAN
  PROVE  /\ IsFile([t EXCEPT !.synced = b]) /\ [t EXCEPT !.synced = b].snap = t.snap
         /\ [t EXCEPT !.synced = b].synced = b /\ [t EXCEPT !.synced = b].torn = t.torn
<1> DEFINE f == [t EXCEPT !.synced = b]
<1>1. f = [snap |-> t.snap, synced |-> b, torn |-> t.torn]
  BY DEF IsFile
<1> HIDE DEF f
<1>2. f.snap = t.snap /\ f.synced = b /\ f.torn = t.torn
  BY <1>1
<1>3. IsSnapshot(f.snap) /\ f.synced \in BOOLEAN /\ f.torn \in BOOLEAN
  BY <1>2 DEF IsFile
<1>4. f = [snap |-> f.snap, synced |-> f.synced, torn |-> f.torn]
  BY <1>1, <1>2
<1> QED
  BY <1>2, <1>3, <1>4 DEF IsFile, f

LEMMA StoreInit == Init => StoreInv
<1> SUFFICES ASSUME Init PROVE StoreInv
  OBVIOUS
<1>1. Good(EmptySnapshot) /\ IsSnapshot(EmptySnapshot)
  BY EmptyIsGood DEF Good
<1>2. /\ IsFile(NoFile) /\ NoFile.snap = EmptySnapshot /\ ~NoFile.torn
      /\ IsFile(File(EmptySnapshot, TRUE)) /\ File(EmptySnapshot, TRUE).snap = EmptySnapshot
      /\ File(EmptySnapshot, TRUE).synced /\ ~File(EmptySnapshot, TRUE).torn
  BY <1>1, GoodFile DEF NoFile
<1>3. TypeOK
  BY <1>1, <1>2 DEF Init, TypeOK, Stages
<1>4. Exclusive
  BY StoreAssumption DEF Init, Exclusive, Critical
<1> QED
  BY <1>1, <1>2, <1>3, <1>4 DEF Init, StoreInv, AllGood, InTransit

LEMMA StoreNext == StoreInv /\ [Next]_vars => StoreInv'
<1> SUFFICES ASSUME StoreInv, [Next]_vars PROVE StoreInv'
  OBVIOUS
<1> USE DEF StoreInv, files, Goto
<1>e. /\ Good(EmptySnapshot) /\ IsSnapshot(EmptySnapshot)
      /\ IsFile(NoFile) /\ NoFile.snap = EmptySnapshot /\ ~NoFile.torn
  BY EmptyIsGood, GoodFile DEF Good, NoFile
<1>i. ASSUME NEW c \in Inputs PROVE c \in Command /\ c.request \in Requests
  BY StoreAssumption DEF Command
<1>n. None \notin Handlers
  BY StoreAssumption
<1>1. ASSUME NEW h \in Handlers, NEW c \in Inputs, Receive(h, c) \/ Reject(h, c)
      PROVE  StoreInv'
  <2>1. TypeOK'
    BY <1>1 DEF Receive, Reject, TypeOK, Stages
  <2>2. Exclusive'
    BY <1>1 DEF Receive, Reject, TypeOK, Exclusive, Critical
  <2>3. AllGood' /\ InTransit'
    BY <1>1 DEF Receive, Reject, TypeOK, AllGood, InTransit
  <2> QED
    BY <2>1, <2>2, <2>3
<1>2. ASSUME NEW h \in Handlers, Replay(h) \/ Refuse(h)
      PROVE  StoreInv'
  <2>1. reply' \in [Handlers -> Reply \cup {NoReply}]
    <3>1. cmd[h] \in Inputs
      BY <1>2 DEF Replay, Refuse, Exclusive
    <3>2. Recorded(mem, cmd[h].request) => AnswerTo(mem, cmd[h].request) \in Reply
      BY <3>1, <1>i, GoodAnswers DEF AllGood
    <3> QED
      BY <1>2, <3>2 DEF Replay, Refuse, TypeOK
  <2>2. TypeOK'
    BY <1>2, <2>1 DEF Replay, Refuse, TypeOK, Stages
  <2>3. Exclusive'
    BY <1>2 DEF Replay, Refuse, TypeOK, Exclusive, Critical
  <2>4. AllGood' /\ InTransit'
    BY <1>2 DEF Replay, Refuse, TypeOK, AllGood, InTransit
  <2> QED
    BY <2>2, <2>3, <2>4
<1>3. ASSUME NEW h \in Handlers, Prepare(h)
      PROVE  StoreInv'
  <2>1. cmd[h] \in Inputs /\ cmd[h] \in Command
    BY <1>3, <1>i DEF Prepare, Exclusive
  <2>2. Good(NextState(mem, cmd[h])) /\ Recorded(NextState(mem, cmd[h]), cmd[h].request)
    BY <1>3, <2>1, NextStateIsGood DEF Prepare, AllGood
  <2>3. /\ next' = [g \in Handlers |-> IF g = h THEN NextState(mem, cmd[h]) ELSE next[g]]
        /\ pc' = [pc EXCEPT ![h] = "writing"] /\ lock' = h /\ lock = None
        /\ UNCHANGED <<mem, cmd, reply, temp, file, durable, up, losses, acked>>
    BY <1>3 DEF Prepare, TypeOK
  <2>4. TypeOK'
    BY <2>2, <2>3 DEF TypeOK, Stages, Good
  <2>5. Exclusive'
    BY <1>3, <2>2, <2>3, <1>n DEF Prepare, TypeOK, Exclusive, Critical
  <2>6. AllGood' /\ InTransit'
    BY <1>3, <2>2, <2>3 DEF Prepare, TypeOK, AllGood, InTransit
  <2> QED
    BY <2>4, <2>5, <2>6
<1>4. ASSUME NEW h \in Handlers, WriteTemp(h)
      PROVE  StoreInv'
  <2>1. /\ IsFile(File(next[h], FALSE)) /\ File(next[h], FALSE).snap = next[h]
        /\ ~File(next[h], FALSE).torn
    BY GoodFile DEF AllGood
  <2>2. /\ temp' = [g \in Handlers |-> IF g = h THEN File(next[h], FALSE) ELSE temp[g]]
        /\ pc[h] = "writing" /\ pc' = [pc EXCEPT ![h] = "syncing"]
        /\ UNCHANGED <<mem, next, lock, cmd, reply, file, durable, up, losses, acked>>
    BY <1>4 DEF WriteTemp, TypeOK
  <2>3. TypeOK'
    BY <2>1, <2>2 DEF TypeOK, Stages
  <2>4. Exclusive'
    BY <2>2 DEF TypeOK, Exclusive, Critical
  <2>5. AllGood' /\ InTransit'
    BY <2>1, <2>2 DEF TypeOK, AllGood, InTransit
  <2> QED
    BY <2>3, <2>4, <2>5
<1>5. ASSUME NEW h \in Handlers, SyncTemp(h)
      PROVE  StoreInv'
  <2> DEFINE f == [temp[h] EXCEPT !.synced = TRUE]
  <2>1. IsFile(f) /\ f.snap = temp[h].snap /\ f.synced /\ ~f.torn
    BY SyncedFile DEF TypeOK, AllGood
  <2>2. /\ temp' = [g \in Handlers |-> IF g = h THEN f ELSE temp[g]]
        /\ pc[h] = "syncing" /\ pc' = [pc EXCEPT ![h] = "renaming"]
        /\ UNCHANGED <<mem, next, lock, cmd, reply, file, durable, up, losses, acked>>
    BY <1>5 DEF SyncTemp, TypeOK
  <2> HIDE DEF f
  <2>3. TypeOK'
    BY <2>1, <2>2 DEF TypeOK, Stages
  <2>4. Exclusive'
    BY <2>2 DEF TypeOK, Exclusive, Critical
  <2>5. AllGood' /\ InTransit'
    BY <2>1, <2>2 DEF TypeOK, AllGood, InTransit
  <2> QED
    BY <2>3, <2>4, <2>5
<1>6. ASSUME NEW h \in Handlers, Rename(h)
      PROVE  StoreInv'
  <2>1. /\ temp' = [g \in Handlers |-> IF g = h THEN NoFile ELSE temp[g]]
        /\ pc[h] = "renaming" /\ pc' = [pc EXCEPT ![h] = "renamed"]
        /\ file' = temp[h]
        /\ UNCHANGED <<mem, next, lock, cmd, reply, durable, up, losses, acked>>
    BY <1>6 DEF Rename, TypeOK
  <2>2. temp[h].snap = next[h] /\ temp[h].synced /\ ~temp[h].torn /\ IsFile(temp[h])
    BY <2>1 DEF InTransit, AllGood, TypeOK
  <2>3. TypeOK'
    BY <1>e, <2>1, <2>2 DEF TypeOK, Stages
  <2>4. Exclusive'
    BY <2>1 DEF TypeOK, Exclusive, Critical
  <2>5. AllGood'
    BY <1>e, <2>1, <2>2 DEF AllGood
  \* Nobody else is past its rename: the lock is h's.
  <2>6. \A g \in Handlers : g # h => pc[g] \notin Critical
    BY <2>1 DEF Exclusive, Critical
  <2>7. InTransit'
    BY <2>1, <2>2, <2>6 DEF TypeOK, InTransit, Critical
  <2> QED
    BY <2>3, <2>4, <2>5, <2>7
<1>7. ASSUME NEW h \in Handlers, SyncDirectory(h)
      PROVE  StoreInv'
  <2>1. /\ pc[h] = "renamed" /\ pc' = [pc EXCEPT ![h] = "swapping"]
        /\ durable' \in {file, durable}
        /\ UNCHANGED <<mem, next, lock, cmd, reply, temp, file, up, losses, acked>>
    BY <1>7 DEF SyncDirectory
  <2>2. TypeOK'
    BY <2>1 DEF TypeOK, Stages
  <2>3. Exclusive'
    BY <2>1 DEF TypeOK, Exclusive, Critical
  <2>4. AllGood' /\ InTransit'
    BY <2>1 DEF TypeOK, AllGood, InTransit
  <2> QED
    BY <2>2, <2>3, <2>4
<1>8. ASSUME NEW h \in Handlers, FailPersist(h)
      PROVE  StoreInv'
  <2>1. /\ next' = [g \in Handlers |-> IF g = h THEN EmptySnapshot ELSE next[g]]
        /\ temp' = [g \in Handlers |-> IF g = h THEN NoFile ELSE temp[g]]
        /\ pc[h] \in {"writing", "syncing", "renaming"}
        /\ pc' = [pc EXCEPT ![h] = "replying"]
        /\ reply' \in [Handlers -> Reply \cup {NoReply}]
        /\ lock' = None
        /\ UNCHANGED <<mem, cmd, file, durable, up, losses, acked>>
    BY <1>8 DEF FailPersist, TypeOK
  <2>2. TypeOK'
    BY <1>e, <2>1 DEF TypeOK, Stages
  <2>3. \A g \in Handlers : g # h => pc[g] \notin Critical
    BY <2>1 DEF Exclusive, Critical
  <2>4. Exclusive'
    BY <2>1, <2>3, <1>n DEF TypeOK, Exclusive, Critical
  <2>5. AllGood' /\ InTransit'
    BY <1>e, <2>1, <2>3 DEF TypeOK, AllGood, InTransit, Critical
  <2> QED
    BY <2>2, <2>4, <2>5
<1>9. ASSUME NEW h \in Handlers, Swap(h)
      PROVE  StoreInv'
  <2>1. /\ next' = [g \in Handlers |-> IF g = h THEN EmptySnapshot ELSE next[g]]
        /\ pc[h] = "swapping" /\ pc' = [pc EXCEPT ![h] = "replying"]
        /\ mem' = next[h] /\ lock' = None
        /\ reply' = [reply EXCEPT ![h] = AnswerTo(next[h], cmd[h].request)]
        /\ UNCHANGED <<cmd, temp, file, durable, up, losses, acked>>
    BY <1>9 DEF Swap, TypeOK
  <2>2. AnswerTo(next[h], cmd[h].request) \in Reply
    <3>1. cmd[h] \in Inputs /\ Recorded(next[h], cmd[h].request) /\ Good(next[h])
      BY <2>1 DEF Exclusive, Critical, AllGood
    <3> QED
      BY <3>1, <1>i, GoodAnswers
  <2>3. file.snap = next[h]
    BY <2>1 DEF InTransit
  <2>4. TypeOK'
    BY <1>e, <2>1, <2>2 DEF TypeOK, Stages
  <2>5. \A g \in Handlers : g # h => pc[g] \notin Critical
    BY <2>1 DEF Exclusive, Critical
  <2>6. Exclusive'
    BY <2>1, <2>5, <1>n DEF TypeOK, Exclusive, Critical
  <2>7. AllGood' /\ InTransit'
    BY <1>e, <2>1, <2>3, <2>5 DEF TypeOK, AllGood, InTransit, Critical
  <2> QED
    BY <2>4, <2>6, <2>7
<1>10. ASSUME NEW h \in Handlers, Answer(h) \/ LoseReply(h)
       PROVE  StoreInv'
  <2>1. /\ pc[h] = "replying" /\ pc' = [pc EXCEPT ![h] = "idle"]
        /\ cmd' = [cmd EXCEPT ![h] = NoCommand]
        /\ reply' = [reply EXCEPT ![h] = NoReply]
        /\ acked' \subseteq acked \cup (IF reply[h].ok THEN {reply[h]} ELSE {})
        /\ UNCHANGED <<mem, next, lock, temp, file, durable, up, losses>>
    BY <1>10 DEF Answer, LoseReply
  <2>2. reply[h].ok => reply[h] \in Reply
    BY DEF TypeOK, NoReply
  <2>3. TypeOK'
    BY <2>1, <2>2 DEF TypeOK, Stages
  <2>4. Exclusive'
    BY <2>1 DEF TypeOK, Exclusive, Critical
  <2>5. AllGood' /\ InTransit'
    BY <2>1 DEF TypeOK, AllGood, InTransit
  <2> QED
    BY <2>3, <2>4, <2>5
<1>11. ASSUME Kill \/ LosePower
       PROVE  StoreInv'
  <2>1. /\ up' = FALSE /\ lock' = None /\ mem' = EmptySnapshot /\ acked' = acked
        /\ next' = [h \in Handlers |-> EmptySnapshot]
        /\ pc' = [h \in Handlers |-> "idle"]
        /\ cmd' = [h \in Handlers |-> NoCommand]
        /\ reply' = [h \in Handlers |-> NoReply]
        /\ temp' = [h \in Handlers |-> NoFile]
        /\ losses' \in Nat
    BY <1>11 DEF Kill, LosePower, Stop, TypeOK
  <2>2. /\ IsFile(file') /\ Good(file.snap)' /\ file'.synced /\ ~file'.torn
        /\ IsFile(durable') /\ Good(durable.snap)' /\ durable'.synced /\ ~durable'.torn
    <3>1. CASE Kill
      BY <3>1 DEF Kill, Stop, AllGood, TypeOK, Good, IsSnapshot
    <3>2. CASE LosePower
      <4>1. PICK f \in {file, durable} : file' = AfterPowerLoss(f) /\ durable' = file'
        BY <3>2 DEF LosePower
      <4>2. IsFile(f) /\ Good(f.snap) /\ f.synced /\ ~f.torn
        BY <4>1 DEF AllGood, TypeOK
      <4>3. f = [snap |-> f.snap, synced |-> f.synced, torn |-> f.torn] /\ IsSnapshot(f.snap)
        BY <4>2 DEF IsFile
      <4>4. /\ IsFile(AfterPowerLoss(f)) /\ AfterPowerLoss(f).snap = f.snap
            /\ AfterPowerLoss(f).synced /\ ~AfterPowerLoss(f).torn
        BY <4>2, <4>3 DEF AfterPowerLoss, IsFile
      <4> QED
        BY <4>1, <4>2, <4>4
    <3> QED
      BY <1>11, <3>1, <3>2
  <2>3. TypeOK'
    BY <1>e, <2>1, <2>2 DEF TypeOK, Stages
  <2>4. Exclusive'
    BY <2>1, <1>n DEF Exclusive, Critical
  <2>5. AllGood' /\ InTransit'
    BY <1>e, <2>1, <2>2 DEF AllGood, InTransit
  <2> QED
    BY <2>3, <2>4, <2>5
<1>12. ASSUME Restart
       PROVE  StoreInv'
  <2>1. mem' = file.snap
    BY <1>12, GoodOpens DEF Restart, AllGood
  <2>2. /\ up' = TRUE /\ ~up
        /\ UNCHANGED <<next, lock, pc, cmd, reply, temp, file, durable, losses, acked>>
    BY <1>12 DEF Restart
  <2>3. TypeOK'
    BY <2>1, <2>2 DEF TypeOK, AllGood, Good
  <2>4. Exclusive'
    BY <2>2 DEF Exclusive
  <2>5. AllGood' /\ InTransit'
    BY <2>1, <2>2 DEF AllGood, InTransit
  <2> QED
    BY <2>3, <2>4, <2>5
<1>13. ASSUME UNCHANGED vars PROVE StoreInv'
  BY <1>13 DEF vars, TypeOK, Exclusive, AllGood, InTransit
<1> QED
  BY <1>1, <1>2, <1>3, <1>4, <1>5, <1>6, <1>7, <1>8, <1>9, <1>10, <1>11, <1>12, <1>13
  DEF Next

LEMMA StoreInductive == Spec => []StoreInv
  BY StoreInit, StoreNext, PTL DEF Spec

-----------------------------------------------------------------------------
(* What follows.                                                           *)

\* The types of persistedState, of the files and of the handlers' state.
THEOREM TypeCorrect == Spec => []TypeOK
<1>1. StoreInv => TypeOK
  BY DEF StoreInv
<1> QED
  BY <1>1, StoreInductive, PTL

\* Create and Update assign s.state only what persist has renamed into place,
\* a failed persist changes neither, and Open reads back what was written:
\* between two writes memory is the file.
THEOREM MemoryAgreesWithFile == Spec => []MemoryIsFile
<1>1. StoreInv => MemoryIsFile
  BY StoreAssumption DEF StoreInv, Exclusive, InTransit, MemoryIsFile, Critical
<1> QED
  BY <1>1, StoreInductive, PTL

\* No kill, failed write or loss of power leaves a data file that Open
\* refuses: its content is whole, its audit chain verifies, its index agrees.
THEOREM StoreAlwaysOpens == Spec => []AlwaysOpenable
<1>1. StoreInv => AlwaysOpenable
  <2> SUFFICES ASSUME StoreInv PROVE AlwaysOpenable
    OBVIOUS
  <2> DEFINE d == [durable EXCEPT !.torn = ~durable.synced]
  <2>1. durable = [snap |-> durable.snap, synced |-> durable.synced, torn |-> durable.torn]
        /\ durable.synced
    BY DEF StoreInv, TypeOK, IsFile, AllGood
  <2>2. d.snap = durable.snap /\ ~d.torn
    BY <2>1
  <2> HIDE DEF d
  <2>3. Openable(file) /\ Openable(d)
    BY <2>2, GoodOpens DEF StoreInv, AllGood
  <2> QED
    BY <2>3 DEF AlwaysOpenable, d
<1> QED
  BY <1>1, StoreInductive, PTL

\* At most one unsealed incident per display case and sensor, and the index
\* lists exactly the unsealed ones, in memory and on disk.
THEOREM ContextIndexExact == Spec => []ActiveContextsExact
<1>1. StoreInv => ActiveContextsExact
  <2> SUFFICES ASSUME StoreInv, NEW s, Good(s)
               PROVE  /\ ContextsUnique(s)
                      /\ \A k \in Keys, i \in Incidents :
                           s.contexts[k] = i <=> InFlight(s, i) /\ s.incidents[i].key = k
    BY DEF StoreInv, AllGood, ActiveContextsExact
  <2>1. ContextsUnique(s)
    <3>1. File(s, TRUE).snap = s /\ ~File(s, TRUE).torn
      BY DEF File
    <3> QED
      BY <3>1, GoodOpens DEF Openable
  <2> QED
    BY <2>1 DEF Good, ContextsExact
<1> QED
  BY <1>1, StoreInductive, PTL

-----------------------------------------------------------------------------
(* Counting the events of an incident.                                     *)

\* The events of incident i among the first n.
Upto(t, n, i) == {m \in 1..n : t[m].incident = i}

Count(t, n, i) == Cardinality(Upto(t, n, i))

LEMMA CountIsNumber ==
  ASSUME NEW t, NEW n \in Nat, NEW i
  PROVE  IsFiniteSet(Upto(t, n, i)) /\ Count(t, n, i) \in Nat
<1>1. IsFiniteSet(1..n)
  BY FS_Interval
<1>2. IsFiniteSet(Upto(t, n, i))
  BY <1>1, FS_Subset DEF Upto
<1> QED
  BY <1>2, FS_CardinalityType DEF Count

LEMMA CountZero ==
  ASSUME NEW t, NEW i, NEW n \in Nat
  PROVE  Count(t, 0, i) = 0 /\ (Count(t, n, i) = 0 => \A m \in 1..n : t[m].incident # i)
<1>1. Upto(t, 0, i) = {}
  BY DEF Upto
<1>2. Count(t, n, i) = 0 => Upto(t, n, i) = {}
  BY CountIsNumber, FS_EmptySet DEF Count
<1> QED
  BY <1>1, <1>2, FS_EmptySet DEF Count, Upto

\* Only the events counted matter.
LEMMA CountSame ==
  ASSUME NEW t, NEW u, NEW n \in Nat, NEW i, \A m \in 1..n : u[m] = t[m]
  PROVE  Count(u, n, i) = Count(t, n, i)
<1>1. Upto(u, n, i) = Upto(t, n, i)
  BY DEF Upto
<1> QED
  BY <1>1 DEF Count

LEMMA CountNext ==
  ASSUME NEW t, NEW n \in Nat, NEW i
  PROVE  Count(t, n + 1, i) = Count(t, n, i) + (IF t[n + 1].incident = i THEN 1 ELSE 0)
<1>1. IsFiniteSet(Upto(t, n, i)) /\ Count(t, n, i) \in Nat
  BY CountIsNumber
<1>2. CASE t[n + 1].incident = i
  <2>1. Upto(t, n + 1, i) = Upto(t, n, i) \cup {n + 1} /\ n + 1 \notin Upto(t, n, i)
    BY <1>2 DEF Upto
  <2>2. Cardinality(Upto(t, n, i) \cup {n + 1}) = Cardinality(Upto(t, n, i)) + 1
    BY <1>1, <2>1, FS_AddElement
  <2> QED
    BY <1>2, <2>1, <2>2 DEF Count
<1>3. CASE t[n + 1].incident # i
  <2>1. Upto(t, n + 1, i) = Upto(t, n, i)
    BY <1>3 DEF Upto
  <2> QED
    BY <1>1, <1>3, <2>1 DEF Count
<1> QED
  BY <1>2, <1>3

-----------------------------------------------------------------------------
(* What trail, results and incidents of a snapshot say of each other.      *)

\* One event per request_id, and it is the one the result is about.
OncePerRequest(s) ==
  /\ \A m, n \in DOMAIN s.audits : s.audits[m].request = s.audits[n].request => m = n
  /\ \A r \in Requests : Recorded(s, r) <=> \E n \in DOMAIN s.audits : s.audits[n].request = r
  /\ \A n \in DOMAIN s.audits : s.commands[s.audits[n].request].incident = s.audits[n].incident

\* Revisions count events: the present one, the recorded one, the expected one.
RevisionsCount(s) ==
  /\ \A i \in Incidents : s.incidents[i].revision = Count(s.audits, Len(s.audits), i)
  /\ \A n \in DOMAIN s.audits :
       LET count == Count(s.audits, n, s.audits[n].incident)
       IN  /\ s.commands[s.audits[n].request].revision = count
           /\ s.audits[n].expected = count - 1

\* No event of an incident follows the one that sealed it.
SealEnds(s) ==
  /\ \A m, n \in DOMAIN s.audits :
       s.audits[m].to = "sealed" /\ m < n => s.audits[m].incident # s.audits[n].incident
  /\ \A n \in DOMAIN s.audits :
       s.audits[n].to = "sealed" => s.incidents[s.audits[n].incident].sealed

Logged(s) == OncePerRequest(s) /\ RevisionsCount(s) /\ SealEnds(s)

\* t has one command more than s.
Extends(s, t) ==
  /\ Len(t.audits) = Len(s.audits) + 1
  /\ \A n \in DOMAIN s.audits : t.audits[n] = s.audits[n]
  /\ \A r \in Requests : Recorded(s, r) => t.commands[r] = s.commands[r]

LEMMA EmptyIsLogged == Logged(EmptySnapshot)
<1>1. \A i \in Incidents : Count(<<>>, 0, i) = 0
  BY CountZero
<1> QED
  BY <1>1 DEF Logged, OncePerRequest, RevisionsCount, SealEnds, EmptySnapshot, Recorded,
              NoResult, Absent

-----------------------------------------------------------------------------
(* The next state, field by field.                                         *)

\* What Created and Updated have in common.
Follows(s, c, t) ==
  LET i == c.incident
      e == [sequence |-> Len(s.audits) + 1, incident |-> i,
            request |-> c.request, expected |-> c.expected,
            to |-> IF t.incidents[i].sealed THEN "sealed" ELSE "open",
            previous |-> LastDigest(s)]
  IN  /\ t.audits = Append(s.audits, e)
      /\ t.commands = [s.commands EXCEPT ![c.request] =
                         [op |-> c.op, incident |-> i, revision |-> t.incidents[i].revision]]
      /\ t.incidents[i].revision = s.incidents[i].revision + 1
      /\ \A j \in Incidents : j # i => t.incidents[j] = s.incidents[j]

LEMMA CreatedFollows ==
  ASSUME NEW s, Good(s), NEW c \in Command, CreateAllowed(s, c)
  PROVE  Follows(s, c, Created(s, c))
<1> DEFINE n == [revision |-> 1, key |-> c.key, sealed |-> FALSE]
           I == [s.incidents EXCEPT ![c.incident] = n]
           C == s.cases \cup {CaseOf[c.incident]}
           X == [s.contexts EXCEPT ![c.key] = c.incident]
           p1 == [s EXCEPT !.incidents = I]
           p2 == [p1 EXCEPT !.cases = C]
           p  == [p2 EXCEPT !.contexts = X]
           t  == Created(s, c)
<1>c. c.incident \in Incidents /\ c.key \in Keys /\ CaseOf[c.incident] \in Cases
  BY StoreAssumption DEF Command
<1>n. n \in IncidentRecord /\ n.revision = 1
  BY <1>c DEF IncidentRecord
<1>s. /\ s = [incidents |-> s.incidents, cases |-> s.cases, commands |-> s.commands,
              audits |-> s.audits, contexts |-> s.contexts]
      /\ s.incidents \in [Incidents -> IncidentRecord]
      /\ s.contexts \in [Keys -> Incidents \cup {None}]
  BY DEF Good, IsSnapshot
<1>1. t = appendAuditAndCommand(p, c, c.incident)
  BY DEF Created
<1> HIDE DEF n, t
<1>2. /\ I \in [Incidents -> IncidentRecord] /\ I[c.incident] = n
      /\ \A j \in Incidents : j # c.incident => I[j] = s.incidents[j]
      /\ X \in [Keys -> Incidents \cup {None}] /\ C \subseteq Cases
  BY <1>c, <1>n, <1>s DEF Good, IsSnapshot
<1> HIDE DEF I, C, X
<1>3. p1 = [incidents |-> I, cases |-> s.cases, commands |-> s.commands,
            audits |-> s.audits, contexts |-> s.contexts]
  BY <1>s
<1> HIDE DEF p1
<1>4. p2 = [incidents |-> I, cases |-> C, commands |-> s.commands,
            audits |-> s.audits, contexts |-> s.contexts]
  BY <1>3
<1> HIDE DEF p2
<1>5. p = [incidents |-> I, cases |-> C, commands |-> s.commands,
           audits |-> s.audits, contexts |-> X]
  BY <1>4
<1> HIDE DEF p
<1>6. IsSnapshot(p)
  BY <1>2, <1>5 DEF Good, IsSnapshot
<1>7. p.incidents[c.incident].revision > 0
  BY <1>2, <1>5, <1>n
<1>8. LET e == [sequence |-> Len(p.audits) + 1, incident |-> c.incident,
                request |-> c.request, expected |-> c.expected,
                to |-> IF p.incidents[c.incident].sealed THEN "sealed" ELSE "open",
                previous |-> LastDigest(p)]
      IN  t = [incidents |-> p.incidents, cases |-> p.cases,
               commands |-> [p.commands EXCEPT ![c.request] =
                               [op |-> c.op, incident |-> c.incident,
                                revision |-> p.incidents[c.incident].revision]],
               audits |-> Append(p.audits, e), contexts |-> p.contexts]
  BY <1>1, <1>6, <1>7, <1>c, AppendAuditFields
<1>9. /\ t.incidents = I
      /\ t.commands = [s.commands EXCEPT ![c.request] =
                         [op |-> c.op, incident |-> c.incident, revision |-> I[c.incident].revision]]
      /\ t.audits = Append(s.audits,
                      [sequence |-> Len(s.audits) + 1, incident |-> c.incident,
                       request |-> c.request, expected |-> c.expected,
                       to |-> IF I[c.incident].sealed THEN "sealed" ELSE "open",
                       previous |-> LastDigest(s)])
  BY <1>5, <1>8 DEF LastDigest
<1>10. s.incidents[c.incident].revision = 0
  BY <1>c, <1>s DEF CreateAllowed, Exists, IncidentRecord
<1> QED
  BY <1>2, <1>9, <1>10, <1>n DEF Follows, t

LEMMA UpdatedFollows ==
  ASSUME NEW s, Good(s), NEW c \in Command, UpdateAllowed(s, c)
  PROVE  Follows(s, c, Updated(s, c))
<1> DEFINE old == s.incidents[c.incident]
           n == [revision |-> old.revision + 1, key |-> KeyAfter(s, c),
                 sealed |-> c.op = "seal"]
           I == [s.incidents EXCEPT ![c.incident] = n]
           p == [s EXCEPT !.incidents = I]
           q == appendAuditAndCommand(p, c, c.incident)
           t == Updated(s, c)
<1>c. c.incident \in Incidents /\ c.key \in Keys
  BY DEF Command
<1>s. /\ s = [incidents |-> s.incidents, cases |-> s.cases, commands |-> s.commands,
              audits |-> s.audits, contexts |-> s.contexts]
      /\ s.incidents \in [Incidents -> IncidentRecord]
  BY DEF Good, IsSnapshot
<1>k. KeyAfter(s, c) \in Keys
  BY <1>c DEF KeyAfter, UpdateAllowed, Good, KeysKnown
<1>n. n \in IncidentRecord /\ n.revision = old.revision + 1 /\ n.revision > 0
  <2>1. old.revision \in Nat
    BY <1>c, <1>s DEF IncidentRecord
  <2> QED
    BY <2>1, <1>k DEF IncidentRecord
<1>1. t = [q EXCEPT !.contexts = ContextsAfter(s, c)]
  BY DEF Updated
<1> HIDE DEF n, t
<1>2. /\ I \in [Incidents -> IncidentRecord] /\ I[c.incident] = n
      /\ \A j \in Incidents : j # c.incident => I[j] = s.incidents[j]
  BY <1>c, <1>n, <1>s
<1> HIDE DEF I
<1>3. p = [incidents |-> I, cases |-> s.cases, commands |-> s.commands,
           audits |-> s.audits, contexts |-> s.contexts]
  BY <1>s
<1> HIDE DEF p
<1>4. IsSnapshot(p)
  BY <1>2, <1>3 DEF Good, IsSnapshot
<1>5. p.incidents[c.incident].revision > 0
  BY <1>2, <1>3, <1>n
<1>6. LET e == [sequence |-> Len(p.audits) + 1, incident |-> c.incident,
                request |-> c.request, expected |-> c.expected,
                to |-> IF p.incidents[c.incident].sealed THEN "sealed" ELSE "open",
                previous |-> LastDigest(p)]
      IN  q = [incidents |-> p.incidents, cases |-> p.cases,
               commands |-> [p.commands EXCEPT ![c.request] =
                               [op |-> c.op, incident |-> c.incident,
                                revision |-> p.incidents[c.incident].revision]],
               audits |-> Append(p.audits, e), contexts |-> p.contexts]
  BY <1>4, <1>5, <1>c, AppendAuditFields
<1> HIDE DEF q
<1>7. /\ t.incidents = I
      /\ t.commands = [s.commands EXCEPT ![c.request] =
                         [op |-> c.op, incident |-> c.incident, revision |-> I[c.incident].revision]]
      /\ t.audits = Append(s.audits,
                      [sequence |-> Len(s.audits) + 1, incident |-> c.incident,
                       request |-> c.request, expected |-> c.expected,
                       to |-> IF I[c.incident].sealed THEN "sealed" ELSE "open",
                       previous |-> LastDigest(s)])
  BY <1>1, <1>3, <1>6 DEF LastDigest
<1> QED
  BY <1>2, <1>7, <1>n DEF Follows, t

\* An accepted command expects the revision it finds, and finds no seal.
LEMMA AcceptedFacts ==
  ASSUME NEW s, Good(s), NEW c \in Inputs, Allowed(s, c)
  PROVE  /\ c.incident \in Incidents /\ c.request \in Requests
         /\ s.incidents[c.incident].revision = c.expected
         /\ s.incidents[c.incident].revision = 0 \/ ~s.incidents[c.incident].sealed
         /\ Follows(s, c, NextState(s, c))
<1>1. c \in Command
  BY StoreAssumption
<1>2. c.incident \in Incidents /\ c.request \in Requests
  BY <1>1 DEF Command
<1>3. CASE CreateAllowed(s, c)
  <2>1. s.incidents[c.incident].revision = 0 /\ c.expected = 0
    BY <1>2, <1>3, StoreAssumption DEF CreateAllowed, Exists, Good, IsSnapshot, IncidentRecord
  <2> QED
    BY <1>1, <1>2, <1>3, <2>1, CreatedFollows DEF NextState, CreateAllowed
<1>4. CASE UpdateAllowed(s, c)
  BY <1>1, <1>2, <1>4, UpdatedFollows DEF NextState, UpdateAllowed
<1> QED
  BY <1>3, <1>4 DEF Allowed

\* A snapshot that is extended by an accepted new command stays logged.
LEMMA NextStateLogged ==
  ASSUME NEW s, Good(s), Logged(s), NEW c \in Inputs, ~Recorded(s, c.request), Allowed(s, c)
  PROVE  Logged(NextState(s, c)) /\ Extends(s, NextState(s, c))
<1> DEFINE t == NextState(s, c)
           i == c.incident
           k == Len(s.audits)
           e == [sequence |-> k + 1, incident |-> i,
                 request |-> c.request, expected |-> c.expected,
                 to |-> IF t.incidents[i].sealed THEN "sealed" ELSE "open",
                 previous |-> LastDigest(s)]
           result == [op |-> c.op, incident |-> i, revision |-> t.incidents[i].revision]
<1>1. /\ i \in Incidents /\ c.request \in Requests
      /\ s.incidents[i].revision = c.expected
      /\ s.incidents[i].revision = 0 \/ ~s.incidents[i].sealed
      /\ Follows(s, c, t)
  BY AcceptedFacts
<1>2. /\ t.audits = Append(s.audits, e)
      /\ t.commands = [s.commands EXCEPT ![c.request] = result]
      /\ t.incidents[i].revision = s.incidents[i].revision + 1
      /\ \A j \in Incidents : j # i => t.incidents[j] = s.incidents[j]
  BY <1>1 DEF Follows
<1>e. /\ e.incident = i /\ e.request = c.request /\ e.expected = c.expected
      /\ e.to = "sealed" <=> t.incidents[i].sealed
      /\ result.op = c.op /\ result.incident = i
      /\ result.revision = t.incidents[i].revision
  OBVIOUS
<1> HIDE DEF e, result, t
<1>3. /\ IsSequence(s.audits) /\ \A n \in DOMAIN s.audits : IsEvent(s.audits[n])
      /\ s.commands \in [Requests -> CommandResult]
      /\ s.incidents \in [Incidents -> IncidentRecord]
  BY DEF Good, IsSnapshot
<1>4. /\ k \in Nat /\ DOMAIN s.audits = 1..k
      /\ DOMAIN t.audits = 1..k + 1 /\ t.audits[k + 1] = e /\ Len(t.audits) = k + 1
      /\ \A n \in 1..k : t.audits[n] = s.audits[n]
  <2>1. /\ k \in Nat /\ DOMAIN s.audits = 1..k
        /\ DOMAIN t.audits = 1..k + 1 /\ t.audits[k + 1] = e
        /\ \A n \in 1..k : t.audits[n] = s.audits[n]
        /\ IsSequence(t.audits)
    BY <1>2, <1>3, AppendIsSequence
  <2>2. Len(t.audits) = k + 1
    BY <2>1 DEF IsSequence
  <2> QED
    BY <2>1, <2>2
<1>5. /\ t.commands[c.request] = result
      /\ \A r \in Requests : r # c.request => t.commands[r] = s.commands[r]
      /\ c.op # "none"
  BY <1>1, <1>2, <1>3, StoreAssumption DEF Command, Ops
<1>d. /\ DOMAIN s.audits = 1..k
      /\ \A n \in DOMAIN t.audits : n \in 1..k \/ n = k + 1
      /\ \A n \in 1..k : n \in DOMAIN t.audits /\ t.audits[n] = s.audits[n]
      /\ k + 1 \in DOMAIN t.audits /\ t.audits[k + 1] = e /\ k + 1 \notin 1..k
  BY <1>4
\* No event is about the new request yet.
<1>6. \A n \in 1..k : s.audits[n].request # c.request /\ s.audits[n].request \in Requests
                      /\ s.audits[n].incident \in Incidents
  BY <1>1, <1>3, <1>4 DEF Logged, OncePerRequest, IsEvent
<1>7. OncePerRequest(t)
  <2>1. \A m, n \in DOMAIN t.audits : t.audits[m].request = t.audits[n].request => m = n
    BY <1>d, <1>6, <1>e DEF Logged, OncePerRequest
  <2>2. ASSUME NEW r \in Requests
        PROVE  Recorded(t, r) <=> \E n \in DOMAIN t.audits : t.audits[n].request = r
    <3>1. CASE r = c.request
      <4>1. k + 1 \in DOMAIN t.audits /\ t.audits[k + 1].request = r
        BY <1>4, <1>e, <3>1
      <4>2. Recorded(t, r)
        BY <1>5, <1>e, <3>1 DEF Recorded
      <4> QED
        BY <4>1, <4>2
    <3>2. CASE r # c.request
      <4>1. Recorded(t, r) <=> Recorded(s, r)
        BY <1>5, <3>2 DEF Recorded
      <4>2. (\E n \in DOMAIN t.audits : t.audits[n].request = r)
              <=> \E n \in DOMAIN s.audits : s.audits[n].request = r
        BY <1>d, <1>e, <3>2
      <4> QED
        BY <4>1, <4>2 DEF Logged, OncePerRequest
    <3> QED
      BY <3>1, <3>2
  <2>3. ASSUME NEW n \in DOMAIN t.audits
        PROVE  t.commands[t.audits[n].request].incident = t.audits[n].incident
    <3>1. CASE n = k + 1
      BY <1>d, <1>5, <1>e, <3>1
    <3>2. CASE n \in 1..k
      BY <1>d, <1>5, <1>6, <3>2 DEF Logged, OncePerRequest
    <3> QED
      BY <1>d, <3>1, <3>2
  <2> QED
    BY <2>1, <2>2, <2>3 DEF OncePerRequest
<1>8. RevisionsCount(t)
  <2>1. ASSUME NEW j, NEW n \in 0..k
        PROVE  Count(t.audits, n, j) = Count(s.audits, n, j)
    BY <1>4, CountSame
  <2>2. ASSUME NEW j
        PROVE  Count(t.audits, k + 1, j) = Count(s.audits, k, j) + (IF i = j THEN 1 ELSE 0)
    <3>1. Count(t.audits, k + 1, j) = Count(t.audits, k, j)
                                        + (IF t.audits[k + 1].incident = j THEN 1 ELSE 0)
      BY <1>4, CountNext
    <3> QED
      BY <3>1, <2>1, <1>4, <1>e
  <2>3. ASSUME NEW j PROVE Count(s.audits, k, j) \in Nat
    BY <1>4, CountIsNumber
  <2>4. ASSUME NEW j \in Incidents
        PROVE  t.incidents[j].revision = Count(t.audits, Len(t.audits), j)
    BY <1>2, <1>4, <2>2, <2>3 DEF Logged, RevisionsCount
  <2>5. ASSUME NEW n \in DOMAIN t.audits
        PROVE  LET count == Count(t.audits, n, t.audits[n].incident)
               IN  /\ t.commands[t.audits[n].request].revision = count
                   /\ t.audits[n].expected = count - 1
    <3>1. CASE n = k + 1
      <4>1. Count(t.audits, n, t.audits[n].incident) = Count(s.audits, k, i) + 1
        BY <1>4, <1>e, <2>2, <3>1
      <4>2. s.incidents[i].revision = Count(s.audits, k, i)
        BY <1>1 DEF Logged, RevisionsCount
      <4>3. t.audits[n] = e
        BY <3>1, <1>d
      <4>4. t.commands[t.audits[n].request].revision = s.incidents[i].revision + 1
        BY <4>3, <1>2, <1>5, <1>e
      <4>5. t.audits[n].expected = s.incidents[i].revision
        BY <4>3, <1>1, <1>e
      <4>6. s.incidents[i].revision \in Nat
        BY <4>2, <2>3
      <4> QED
        BY <4>1, <4>2, <4>4, <4>5, <4>6
    <3>2. CASE n \in 1..k
      <4>1. /\ t.audits[n] = s.audits[n]
            /\ Count(t.audits, n, t.audits[n].incident) = Count(s.audits, n, s.audits[n].incident)
        BY <1>4, <2>1, <3>2
      <4>2. t.commands[t.audits[n].request] = s.commands[s.audits[n].request]
        BY <1>5, <1>6, <3>2, <4>1
      <4>3. /\ s.commands[s.audits[n].request].revision =
                 Count(s.audits, n, s.audits[n].incident)
            /\ s.audits[n].expected = Count(s.audits, n, s.audits[n].incident) - 1
        BY <3>2, <1>d DEF Logged, RevisionsCount
      <4>4. t.commands[t.audits[n].request].revision = Count(t.audits, n, t.audits[n].incident)
        BY <4>1, <4>2, <4>3
      <4>5. t.audits[n].expected = Count(t.audits, n, t.audits[n].incident) - 1
        BY <4>1, <4>3
      <4> QED
        BY <4>4, <4>5
    <3> QED
      BY <1>4, <3>1, <3>2
  <2> QED
    BY <2>4, <2>5 DEF RevisionsCount
\* An incident that is new has no events, one that is not has no seal.
<1>9. \A n \in 1..k : s.audits[n].to = "sealed" => s.audits[n].incident # i
  <2>1. CASE s.incidents[i].revision = 0
    <3>1. Count(s.audits, k, i) = 0
      BY <2>1, <1>1 DEF Logged, RevisionsCount
    <3> QED
      BY <3>1, <1>4, CountZero
  <2>2. CASE ~s.incidents[i].sealed
    BY <2>2, <1>4 DEF Logged, SealEnds
  <2> QED
    BY <1>1, <2>1, <2>2
<1>10. SealEnds(t)
  <2>1. \A m, n \in DOMAIN t.audits :
          t.audits[m].to = "sealed" /\ m < n => t.audits[m].incident # t.audits[n].incident
    BY <1>4, <1>9, <1>e DEF Logged, SealEnds
  <2>2. ASSUME NEW n \in DOMAIN t.audits, t.audits[n].to = "sealed"
        PROVE  t.incidents[t.audits[n].incident].sealed
    <3>1. CASE n = k + 1
      BY <1>4, <1>e, <2>2, <3>1
    <3>2. CASE n \in 1..k
      BY <1>2, <1>4, <1>6, <1>9, <2>2, <3>2 DEF Logged, SealEnds
    <3> QED
      BY <1>4, <3>1, <3>2
  <2> QED
    BY <2>1, <2>2 DEF SealEnds
<1>11. Extends(s, t)
  BY <1>4, <1>5 DEF Extends
<1> QED
  BY <1>7, <1>8, <1>10, <1>11 DEF Logged, t

-----------------------------------------------------------------------------
(* The invariant: every snapshot is logged, wherever it is, and until the  *)
(* rename the one being persisted has one command more than the data file. *)

AllLogged ==
  /\ Logged(mem) /\ Logged(file.snap) /\ Logged(durable.snap)
  /\ \A h \in Handlers : Logged(next[h]) /\ Logged(temp[h].snap)

Ahead ==
  \A h \in Handlers :
    pc[h] \in {"writing", "syncing", "renaming"} => Extends(file.snap, next[h])

LogInv == AllLogged /\ Ahead

LEMMA FileSnap ==
  ASSUME NEW s, NEW b
  PROVE  File(s, b).snap = s
  BY DEF File

LEMMA LogInit == Init => LogInv
<1>1. NoFile.snap = EmptySnapshot /\ File(EmptySnapshot, TRUE).snap = EmptySnapshot
  BY FileSnap DEF NoFile
<1> QED
  BY <1>1, EmptyIsLogged DEF Init, LogInv, AllLogged, Ahead

LEMMA LogNext ==
  ASSUME StoreInv, LogInv, [Next]_vars
  PROVE  LogInv'
<1> USE DEF StoreInv, LogInv, files, Goto
<1>e. Logged(EmptySnapshot) /\ NoFile.snap = EmptySnapshot
  BY EmptyIsLogged, FileSnap DEF NoFile
<1>1. ASSUME NEW h \in Handlers, NEW c \in Inputs, Receive(h, c) \/ Reject(h, c)
      PROVE  LogInv'
  BY <1>1 DEF Receive, Reject, TypeOK, AllLogged, Ahead
<1>2. ASSUME NEW h \in Handlers, Replay(h) \/ Refuse(h)
      PROVE  LogInv'
  BY <1>2 DEF Replay, Refuse, TypeOK, AllLogged, Ahead
<1>3. ASSUME NEW h \in Handlers, Prepare(h)
      PROVE  LogInv'
  <2>1. /\ next' = [g \in Handlers |-> IF g = h THEN NextState(mem, cmd[h]) ELSE next[g]]
        /\ pc' = [pc EXCEPT ![h] = "writing"] /\ lock = None
        /\ ~Recorded(mem, cmd[h].request) /\ Allowed(mem, cmd[h]) /\ cmd[h] \in Inputs
        /\ UNCHANGED <<mem, temp, file, durable>> /\ up
    BY <1>3 DEF Prepare, TypeOK, Exclusive
  <2>2. Logged(NextState(mem, cmd[h])) /\ Extends(mem, NextState(mem, cmd[h]))
    BY <2>1, NextStateLogged DEF AllGood, AllLogged
  <2>3. mem = file.snap
    BY <2>1, StoreAssumption DEF Exclusive, InTransit, Critical
  <2> QED
    BY <2>1, <2>2, <2>3 DEF AllLogged, Ahead, TypeOK
<1>4. ASSUME NEW h \in Handlers, WriteTemp(h)
      PROVE  LogInv'
  <2>1. File(next[h], FALSE).snap = next[h]
    BY FileSnap
  <2>2. /\ temp' = [g \in Handlers |-> IF g = h THEN File(next[h], FALSE) ELSE temp[g]]
        /\ pc[h] = "writing" /\ pc' = [pc EXCEPT ![h] = "syncing"]
        /\ UNCHANGED <<mem, next, file, durable>>
    BY <1>4 DEF WriteTemp, TypeOK
  <2> QED
    BY <2>1, <2>2 DEF AllLogged, Ahead, TypeOK
<1>5. ASSUME NEW h \in Handlers, SyncTemp(h)
      PROVE  LogInv'
  <2> DEFINE f == [temp[h] EXCEPT !.synced = TRUE]
  <2>1. f.snap = temp[h].snap
    BY SyncedFile DEF TypeOK
  <2>2. /\ temp' = [g \in Handlers |-> IF g = h THEN f ELSE temp[g]]
        /\ pc[h] = "syncing" /\ pc' = [pc EXCEPT ![h] = "renaming"]
        /\ UNCHANGED <<mem, next, file, durable>>
    BY <1>5 DEF SyncTemp, TypeOK
  <2> HIDE DEF f
  <2> QED
    BY <2>1, <2>2 DEF AllLogged, Ahead, TypeOK
<1>6. ASSUME NEW h \in Handlers, Rename(h)
      PROVE  LogInv'
  <2>1. /\ temp' = [g \in Handlers |-> IF g = h THEN NoFile ELSE temp[g]]
        /\ pc[h] = "renaming" /\ pc' = [pc EXCEPT ![h] = "renamed"]
        /\ file' = temp[h] /\ UNCHANGED <<mem, next, durable>>
    BY <1>6 DEF Rename, TypeOK
  <2>2. \A g \in Handlers : g # h => pc[g] \notin Critical
    BY <2>1 DEF Exclusive, Critical
  <2> QED
    BY <1>e, <2>1, <2>2 DEF AllLogged, Ahead, TypeOK, Critical
<1>7. ASSUME NEW h \in Handlers, SyncDirectory(h)
      PROVE  LogInv'
  <2>1. /\ pc' = [pc EXCEPT ![h] = "swapping"] /\ durable' \in {file, durable}
        /\ UNCHANGED <<mem, next, temp, file>>
    BY <1>7 DEF SyncDirectory
  <2> QED
    BY <2>1 DEF AllLogged, Ahead, TypeOK
<1>8. ASSUME NEW h \in Handlers, FailPersist(h)
      PROVE  LogInv'
  <2>1. /\ next' = [g \in Handlers |-> IF g = h THEN EmptySnapshot ELSE next[g]]
        /\ temp' = [g \in Handlers |-> IF g = h THEN NoFile ELSE temp[g]]
        /\ pc' = [pc EXCEPT ![h] = "replying"]
        /\ UNCHANGED <<mem, file, durable>>
    BY <1>8 DEF FailPersist, TypeOK
  <2> QED
    BY <1>e, <2>1 DEF AllLogged, Ahead, TypeOK
<1>9. ASSUME NEW h \in Handlers, Swap(h)
      PROVE  LogInv'
  <2>1. /\ next' = [g \in Handlers |-> IF g = h THEN EmptySnapshot ELSE next[g]]
        /\ pc' = [pc EXCEPT ![h] = "replying"]
        /\ mem' = next[h] /\ UNCHANGED <<temp, file, durable>>
    BY <1>9 DEF Swap, TypeOK
  <2> QED
    BY <1>e, <2>1 DEF AllLogged, Ahead, TypeOK
<1>10. ASSUME NEW h \in Handlers, Answer(h) \/ LoseReply(h)
       PROVE  LogInv'
  BY <1>10 DEF Answer, LoseReply, AllLogged, Ahead, TypeOK
<1>11. ASSUME Kill \/ LosePower
       PROVE  LogInv'
  <2>1. /\ mem' = EmptySnapshot
        /\ next' = [h \in Handlers |-> EmptySnapshot]
        /\ pc' = [h \in Handlers |-> "idle"]
        /\ temp' = [h \in Handlers |-> NoFile]
    BY <1>11 DEF Kill, LosePower, Stop
  <2>2. file'.snap \in {file.snap, durable.snap} /\ durable'.snap \in {file.snap, durable.snap}
    <3>1. ASSUME NEW f, IsFile(f) PROVE AfterPowerLoss(f).snap = f.snap
      <4>1. f = [snap |-> f.snap, synced |-> f.synced, torn |-> f.torn]
        BY <3>1 DEF IsFile
      <4> QED
        BY <4>1 DEF AfterPowerLoss
    <3> QED
      BY <1>11, <3>1 DEF Kill, LosePower, TypeOK
  <2> QED
    BY <1>e, <2>1, <2>2 DEF AllLogged, Ahead
<1>12. ASSUME Restart
       PROVE  LogInv'
  <2>1. mem' = file.snap
    BY <1>12, GoodOpens DEF Restart, AllGood
  <2> QED
    BY <1>12, <2>1 DEF Restart, AllLogged, Ahead
<1>13. ASSUME UNCHANGED vars PROVE LogInv'
  BY <1>13 DEF vars, AllLogged, Ahead
<1> QED
  BY <1>1, <1>2, <1>3, <1>4, <1>5, <1>6, <1>7, <1>8, <1>9, <1>10, <1>11, <1>12, <1>13
  DEF Next

LEMMA LogInductive == Spec => []LogInv
<1>1. StoreInv /\ LogInv /\ [Next]_vars => LogInv'
  BY LogNext
<1> QED
  BY <1>1, LogInit, StoreInductive, PTL DEF Spec

\* However often a request_id is sent, and whatever fails, crashes or is
\* restarted in between, the trail has at most one event for it (the lookup
\* in Commands under the lock, and one file for trail and results).
THEOREM RequestsTakeEffectOnce == Spec => []ExactlyOnce
<1>1. LogInv => ExactlyOnce
  BY DEF LogInv, AllLogged, Logged, OncePerRequest, ExactlyOnce, Events
<1> QED
  BY <1>1, LogInductive, PTL

\* Every command recorded was decided on the revision it was applied to.
THEOREM UpdatesAreNotLost == Spec => []NoLostUpdate
<1>1. StoreInv /\ LogInv => NoLostUpdate
  <2> SUFFICES ASSUME StoreInv, LogInv, NEW i \in Incidents
               PROVE  /\ mem.incidents[i].revision = Count(mem.audits, Len(mem.audits), i)
                      /\ \A n \in Upto(mem.audits, Len(mem.audits), i) :
                           mem.audits[n].expected = Count(mem.audits, n, i) - 1
    BY DEF NoLostUpdate, Count, Upto
  <2>1. DOMAIN mem.audits = 1..Len(mem.audits)
    BY AppendIsSequence DEF StoreInv, AllGood, Good, IsSnapshot
  <2> QED
    BY <2>1 DEF LogInv, AllLogged, Logged, RevisionsCount, Upto
<1> QED
  BY <1>1, StoreInductive, LogInductive, PTL

-----------------------------------------------------------------------------
(* Durability.  A process killed between rename and directory sync comes   *)
(* back on a file that a loss of power still takes away, so an answer lasts *)
(* where only one of the two happens, or neither.                          *)

Lasting == MaxPowerLosses = 0 \/ (~Kills /\ DirSyncReliable)

Answered(s, a) ==
  a.request \in Requests /\ Recorded(s, a.request) /\ a = AnswerTo(s, a.request)

\* Where power can fail, the durable file lags behind between rename and
\* directory sync only.
DurableFollows ==
  MaxPowerLosses > 0 =>
    /\ \A h \in Handlers : pc[h] = "renamed" => Extends(durable.snap, file.snap)
    /\ (\A h \in Handlers : pc[h] # "renamed") => durable.snap = file.snap

Kept(a) ==
  /\ Answered(file.snap, a)
  /\ MaxPowerLosses > 0 => Answered(durable.snap, a)

\* What was answered, or is about to be, is in the file.
AnswersKept ==
  /\ \A a \in acked : Kept(a)
  /\ \A h \in Handlers : reply[h].ok => Kept(reply[h])

LastInv == DurableFollows /\ AnswersKept

LEMMA StaysAnswered ==
  ASSUME NEW s, NEW t, Extends(s, t), NEW a, Answered(s, a)
  PROVE  Answered(t, a)
  BY DEF Extends, Answered, Recorded, AnswerTo

LEMMA LastInit == Init => LastInv
<1>1. File(EmptySnapshot, TRUE).snap = EmptySnapshot
  BY FileSnap
<1> QED
  BY <1>1 DEF Init, LastInv, DurableFollows, AnswersKept, NoReply

\* A command that moves no file and gives no new answer.
LEMMA QuietStep ==
  ASSUME LastInv, UNCHANGED <<file, durable>>, acked' \subseteq acked,
         \A h \in Handlers : pc'[h] = "renamed" <=> pc[h] = "renamed",
         \A h \in Handlers : reply'[h] = reply[h] \/ ~reply'[h].ok
  PROVE  LastInv'
<1>1. DurableFollows'
  BY DEF LastInv, DurableFollows
<1>2. AnswersKept'
  BY DEF LastInv, AnswersKept, Kept
<1> QED
  BY <1>1, <1>2 DEF LastInv

LEMMA LastNext ==
  ASSUME Lasting, StoreInv, LogInv, LastInv, [Next]_vars
  PROVE  LastInv'
<1> USE DEF StoreInv, files, Goto
<1>r. ~NoReply.ok
  BY DEF NoReply
<1>m. MaxPowerLosses \in Nat /\ None \notin Handlers
  BY StoreAssumption
<1>1. ASSUME NEW h \in Handlers, NEW c \in Inputs, Receive(h, c) \/ Reject(h, c)
      PROVE  LastInv'
  BY <1>1, <1>r, QuietStep DEF Receive, Reject, TypeOK
<1>2. ASSUME NEW h \in Handlers, Refuse(h)
      PROVE  LastInv'
  BY <1>2, <1>r, QuietStep DEF Refuse, TypeOK
\* A repeat is answered from memory, which is the file, and durable.
<1>3. ASSUME NEW h \in Handlers, Replay(h)
      PROVE  LastInv'
  <2> DEFINE a == AnswerTo(mem, cmd[h].request)
  <2>1. /\ pc[h] = "waiting" /\ pc' = [pc EXCEPT ![h] = "replying"] /\ lock = None
        /\ reply' = [reply EXCEPT ![h] = IF SameCommand(mem, cmd[h]) THEN a ELSE NoReply]
        /\ Recorded(mem, cmd[h].request)
        /\ UNCHANGED <<mem, file, durable, acked>>
    BY <1>3 DEF Replay
  <2>2. \A g \in Handlers : pc[g] \notin Critical
    BY <2>1, <1>m DEF Exclusive
  <2>3. mem = file.snap /\ cmd[h].request \in Requests
    BY <2>1, <2>2, StoreAssumption DEF Exclusive, InTransit, Critical, Command
  <2>4. Answered(file.snap, a)
    BY <2>1, <2>3 DEF Answered, AnswerTo
  <2>5. MaxPowerLosses > 0 => durable.snap = file.snap
    BY <2>2 DEF LastInv, DurableFollows, Critical
  <2> HIDE DEF a
  <2>6. Kept(a)
    BY <2>4, <2>5 DEF Kept
  <2>7. DurableFollows'
    BY <2>1 DEF LastInv, DurableFollows, TypeOK
  <2>8. AnswersKept'
    BY <2>1, <2>6, <1>r DEF LastInv, AnswersKept, Kept, TypeOK
  <2> QED
    BY <2>7, <2>8 DEF LastInv
<1>4. ASSUME NEW h \in Handlers, Prepare(h) \/ WriteTemp(h) \/ SyncTemp(h)
      PROVE  LastInv'
  BY <1>4, QuietStep DEF Prepare, WriteTemp, SyncTemp, TypeOK
<1>5. ASSUME NEW h \in Handlers, Rename(h)
      PROVE  LastInv'
  <2>1. /\ pc[h] = "renaming" /\ pc' = [pc EXCEPT ![h] = "renamed"]
        /\ file' = temp[h] /\ UNCHANGED <<durable, reply, acked>>
    BY <1>5 DEF Rename
  <2>2. \A g \in Handlers : g # h => pc[g] \notin Critical
    BY <2>1 DEF Exclusive, Critical
  <2>3. Extends(file.snap, file'.snap)
    BY <2>1 DEF LogInv, Ahead, InTransit
  <2>4. MaxPowerLosses > 0 => durable.snap = file.snap
    BY <2>1, <2>2 DEF LastInv, DurableFollows, Critical
  <2>5. DurableFollows'
    BY <2>1, <2>2, <2>3, <2>4 DEF DurableFollows, TypeOK, Critical
  <2>6. \A a : Kept(a) => Answered(file'.snap, a) /\ (MaxPowerLosses > 0 => Answered(durable.snap, a))
    BY <2>3, StaysAnswered DEF Kept
  <2>7. AnswersKept'
    BY <2>1, <2>6 DEF LastInv, AnswersKept, Kept
  <2> QED
    BY <2>5, <2>7 DEF LastInv
<1>6. ASSUME NEW h \in Handlers, SyncDirectory(h)
      PROVE  LastInv'
  <2>1. /\ pc[h] = "renamed" /\ pc' = [pc EXCEPT ![h] = "swapping"]
        /\ durable' \in {file, durable}
        /\ MaxPowerLosses > 0 => durable' = file
        /\ UNCHANGED <<file, reply, acked>>
    BY <1>6, <1>m DEF SyncDirectory, Lasting
  <2>2. DurableFollows'
    <3>1. \A g \in Handlers : g # h => pc[g] \notin Critical
      BY <2>1 DEF Exclusive, Critical
    <3> QED
      BY <2>1, <3>1 DEF DurableFollows, TypeOK, Critical
  <2>3. \A a : Kept(a) => Answered(file.snap, a) /\ (MaxPowerLosses > 0 => Answered(durable'.snap, a))
    BY <2>1 DEF Kept
  <2>4. AnswersKept'
    BY <2>1, <2>3 DEF LastInv, AnswersKept, Kept
  <2> QED
    BY <2>2, <2>4 DEF LastInv
<1>7. ASSUME NEW h \in Handlers, FailPersist(h)
      PROVE  LastInv'
  BY <1>7, <1>r, QuietStep DEF FailPersist, TypeOK
\* The new answer is read from what was renamed, and synced.
<1>8. ASSUME NEW h \in Handlers, Swap(h)
      PROVE  LastInv'
  <2> DEFINE a == AnswerTo(next[h], cmd[h].request)
  <2>1. /\ pc[h] = "swapping" /\ pc' = [pc EXCEPT ![h] = "replying"]
        /\ reply' = [reply EXCEPT ![h] = a]
        /\ UNCHANGED <<file, durable, acked>>
    BY <1>8 DEF Swap
  <2>2. /\ file.snap = next[h] /\ Recorded(next[h], cmd[h].request)
        /\ cmd[h].request \in Requests
    BY <2>1, StoreAssumption DEF InTransit, Exclusive, Critical, Command
  <2>3. \A g \in Handlers : pc[g] # "renamed"
    BY <2>1 DEF Exclusive, Critical
  <2>4. Answered(file.snap, a)
    BY <2>2 DEF Answered, AnswerTo
  <2> HIDE DEF a
  <2>5. Kept(a)
    BY <2>3, <2>4 DEF Kept, LastInv, DurableFollows
  <2>6. DurableFollows'
    BY <2>1, <2>3 DEF LastInv, DurableFollows, TypeOK
  <2>7. AnswersKept'
    BY <2>1, <2>5 DEF LastInv, AnswersKept, Kept, TypeOK
  <2> QED
    BY <2>6, <2>7 DEF LastInv
<1>9. ASSUME NEW h \in Handlers, Answer(h) \/ LoseReply(h)
      PROVE  LastInv'
  <2>1. /\ pc[h] = "replying" /\ pc' = [pc EXCEPT ![h] = "idle"]
        /\ reply' = [reply EXCEPT ![h] = NoReply]
        /\ acked' \subseteq acked \cup (IF reply[h].ok THEN {reply[h]} ELSE {})
        /\ UNCHANGED <<file, durable>>
    BY <1>9 DEF Answer, LoseReply
  <2>2. DurableFollows'
    BY <2>1 DEF LastInv, DurableFollows, TypeOK
  <2>3. \A a \in acked' : Kept(a)
    BY <2>1 DEF LastInv, AnswersKept
  <2>4. AnswersKept'
    BY <2>1, <2>3, <1>r DEF LastInv, AnswersKept, Kept, TypeOK
  <2> QED
    BY <2>2, <2>4 DEF LastInv
<1>10. ASSUME Kill
       PROVE  LastInv'
  <2>1. /\ MaxPowerLosses = 0
        /\ reply' = [h \in Handlers |-> NoReply] /\ UNCHANGED <<file, durable, acked>>
    BY <1>10, <1>m DEF Kill, Stop, Lasting, TypeOK
  <2> QED
    BY <2>1, <1>r DEF LastInv, DurableFollows, AnswersKept, Kept
<1>11. ASSUME LosePower
       PROVE  LastInv'
  <2>1. /\ MaxPowerLosses > 0
        /\ reply' = [h \in Handlers |-> NoReply] /\ UNCHANGED acked
        /\ \E f \in {file, durable} : file' = AfterPowerLoss(f) /\ durable' = file'
    BY <1>11, <1>m DEF LosePower, Stop, TypeOK
  <2>2. PICK f \in {file, durable} : file' = AfterPowerLoss(f) /\ durable' = file'
    BY <2>1
  <2>3. AfterPowerLoss(f).snap = f.snap
    <3>1. f = [snap |-> f.snap, synced |-> f.synced, torn |-> f.torn]
      BY <2>2 DEF TypeOK, IsFile
    <3> QED
      BY <3>1 DEF AfterPowerLoss
  <2>4. \A a : Kept(a) => Answered(f.snap, a)
    BY <2>1, <2>2 DEF Kept
  <2>5. DurableFollows'
    <3>1. \A h \in Handlers : pc'[h] # "renamed"
      BY <1>11 DEF LosePower, Stop
    <3> QED
      BY <2>2, <3>1 DEF DurableFollows
  <2>6. AnswersKept'
    BY <2>1, <2>2, <2>3, <2>4, <1>r DEF LastInv, AnswersKept, Kept
  <2> QED
    BY <2>5, <2>6 DEF LastInv
<1>12. ASSUME Restart
       PROVE  LastInv'
  BY <1>12, QuietStep DEF Restart
<1>13. ASSUME UNCHANGED vars PROVE LastInv'
  BY <1>13, QuietStep DEF vars
<1> QED
  BY <1>1, <1>2, <1>3, <1>4, <1>5, <1>6, <1>7, <1>8, <1>9, <1>10, <1>11, <1>12, <1>13
  DEF Next

LEMMA LastInductive == ASSUME Lasting PROVE Spec => []LastInv
<1>1. StoreInv /\ LogInv /\ LastInv /\ [Next]_vars => LastInv'
  BY LastNext
<1> QED
  BY <1>1, LastInit, StoreInductive, LogInductive, PTL DEF Spec

\* Whatever a client was told is in the data file and stays there with the
\* answer given: Swap and its answer come after persist, and a repeat is
\* answered from what the file holds.
THEOREM AnswersLast == ASSUME Lasting PROVE Spec => []AckedSurvives
<1>1. LastInv => AckedSurvives
  BY DEF LastInv, AnswersKept, Kept, Answered, AckedSurvives
<1> QED
  BY <1>1, LastInductive, PTL

-----------------------------------------------------------------------------
(* The abstract command log.                                               *)

EntriesOf(s) ==
  [n \in DOMAIN s.audits |-> [request  |-> s.audits[n].request,
                              incident |-> s.audits[n].incident,
                              seals    |-> s.audits[n].to = "sealed"]]

LEMMA EntriesFacts ==
  ASSUME NEW s, Good(s)
  PROVE  /\ EntriesOf(s) \in Seq(Log!Entry)
         /\ Len(EntriesOf(s)) = Len(s.audits) /\ Len(s.audits) \in Nat
         /\ DOMAIN EntriesOf(s) = 1..Len(s.audits) /\ DOMAIN s.audits = 1..Len(s.audits)
         /\ \A n \in DOMAIN s.audits :
              /\ EntriesOf(s)[n].request = s.audits[n].request
              /\ EntriesOf(s)[n].incident = s.audits[n].incident
              /\ EntriesOf(s)[n].seals <=> s.audits[n].to = "sealed"
<1>1. /\ DOMAIN s.audits = 1..Len(s.audits) /\ Len(s.audits) \in Nat
      /\ \A n \in DOMAIN s.audits : IsEvent(s.audits[n])
  BY AppendIsSequence DEF Good, IsSnapshot
<1>2. \A n \in DOMAIN s.audits :
        [request |-> s.audits[n].request, incident |-> s.audits[n].incident,
         seals |-> s.audits[n].to = "sealed"] \in Log!Entry
  BY <1>1 DEF IsEvent, Log!Entry
<1>3. EntriesOf(s) \in Seq(Log!Entry) /\ Len(EntriesOf(s)) = Len(s.audits)
  BY <1>1, <1>2 DEF EntriesOf
<1> QED
  BY <1>1, <1>3 DEF EntriesOf

LEMMA EntriesSame ==
  ASSUME NEW s, NEW t, NEW n \in DOMAIN s.audits, n \in DOMAIN t.audits,
         t.audits[n] = s.audits[n]
  PROVE  EntriesOf(t)[n] = EntriesOf(s)[n]
  BY DEF EntriesOf

\* The instance counts as the store does.
LEMMA SameCardinality ==
  ASSUME NEW S
  PROVE  Log!Cardinality(S) = Cardinality(S)
  BY DEF Log!Cardinality, Cardinality

\* What the store answers is what the log says of the command.
LEMMA AnswerIsLogged ==
  ASSUME Good(file.snap), Logged(file.snap), NEW a, Answered(file.snap, a)
  PROVE  \E n \in DOMAIN LogOfFile :
           [request |-> a.request, incident |-> a.incident, revision |-> a.revision]
             = Log!AnswerAt(n)
<1> DEFINE s == file.snap
<1>1. LogOfFile = EntriesOf(s)
  BY DEF LogOfFile, EntriesOf
<1>2. PICK n \in DOMAIN s.audits : s.audits[n].request = a.request
  BY DEF Answered, Logged, OncePerRequest
<1>3. /\ a.incident = s.audits[n].incident
      /\ a.revision = Count(s.audits, n, s.audits[n].incident)
  BY <1>2 DEF Answered, AnswerTo, Logged, OncePerRequest, RevisionsCount
<1>4. /\ DOMAIN LogOfFile = DOMAIN s.audits /\ DOMAIN s.audits = 1..Len(s.audits)
      /\ Len(s.audits) \in Nat
      /\ \A m \in DOMAIN s.audits : LogOfFile[m].incident = s.audits[m].incident
      /\ LogOfFile[n].request = s.audits[n].request
  BY <1>1, EntriesFacts
<1>5. {j \in 1..n : LogOfFile[j].incident = LogOfFile[n].incident}
        = Upto(s.audits, n, s.audits[n].incident)
  <2>1. \A j \in 1..n : j \in DOMAIN s.audits
    BY <1>4
  <2> QED
    BY <1>4, <2>1 DEF Upto
<1>6. Log!RevisionAt(n) = a.revision
  BY <1>3, <1>5, SameCardinality DEF Log!RevisionAt, Count
<1>7. Log!AnswerAt(n) =
        [request |-> a.request, incident |-> a.incident, revision |-> a.revision]
  BY <1>2, <1>3, <1>4, <1>6 DEF Log!AnswerAt
<1> QED
  BY <1>4, <1>7

LEMMA LogStartsEmpty == Init => Log!Init
<1>1. File(EmptySnapshot, TRUE).snap = EmptySnapshot
  BY FileSnap
<1>2. EntriesOf(EmptySnapshot) = <<>>
  <2>1. Len(EmptySnapshot.audits) = 0
    BY DEF EmptySnapshot
  <2> QED
    BY <2>1, EmptyIsGood, EntriesFacts
<1>3. Init => LogOfFile = EntriesOf(EmptySnapshot)
  BY <1>1 DEF Init, LogOfFile, EntriesOf
<1>4. Init => AnswersGiven = {}
  BY DEF Init, AnswersGiven
<1> QED
  BY <1>2, <1>3, <1>4 DEF Log!Init

\* A rename records one command.
LEMMA RenameRecords ==
  ASSUME Good(file.snap), Good(file'.snap), Logged(file'.snap),
         Extends(file.snap, file'.snap), UNCHANGED acked
  PROVE  Log!Next
<1> DEFINE s == file.snap
           t == file'.snap
           k == Len(s.audits)
           e == EntriesOf(t)[k + 1]
<1>1. LogOfFile = EntriesOf(s) /\ LogOfFile' = EntriesOf(t)
  BY DEF LogOfFile, EntriesOf
<1>2. /\ k \in Nat /\ DOMAIN s.audits = 1..k /\ DOMAIN t.audits = 1..k + 1
      /\ \A n \in 1..k : t.audits[n] = s.audits[n]
  BY EntriesFacts DEF Extends
<1>3. /\ EntriesOf(s) \in Seq(Log!Entry) /\ Len(EntriesOf(s)) = k
      /\ DOMAIN EntriesOf(s) = 1..k
      /\ EntriesOf(t) \in Seq(Log!Entry) /\ Len(EntriesOf(t)) = k + 1
      /\ DOMAIN EntriesOf(t) = 1..k + 1
  BY <1>2, EntriesFacts DEF Extends
<1>4. \A n \in 1..k : EntriesOf(t)[n] = EntriesOf(s)[n]
  <2>1. \A n \in 1..k : n \in DOMAIN s.audits /\ n \in DOMAIN t.audits
    BY <1>2
  <2> QED
    BY <1>2, <2>1, EntriesSame
<1>5. e \in Log!Entry
  BY <1>2, <1>3
<1>6. EntriesOf(t) = Append(EntriesOf(s), e)
  BY <1>2, <1>3, <1>4
<1>7. \A n \in 1..k : n \in DOMAIN t.audits /\ k + 1 \in DOMAIN t.audits /\ n < k + 1 /\ n # k + 1
  BY <1>2
<1>8. \A n \in 1..k : EntriesOf(s)[n].request # e.request
  <2> SUFFICES ASSUME NEW n \in 1..k PROVE EntriesOf(t)[n].request # EntriesOf(t)[k + 1].request
    BY <1>4
  <2> QED
    BY <1>7, EntriesFacts DEF Logged, OncePerRequest
<1>9. \A n \in 1..k : EntriesOf(s)[n].seals => EntriesOf(s)[n].incident # e.incident
  <2> SUFFICES ASSUME NEW n \in 1..k, EntriesOf(t)[n].seals
               PROVE  EntriesOf(t)[n].incident # EntriesOf(t)[k + 1].incident
    BY <1>4
  <2> QED
    BY <1>7, EntriesFacts DEF Logged, SealEnds
<1>10. UNCHANGED AnswersGiven
  BY DEF AnswersGiven
<1> HIDE DEF e
<1>11. Log!Record(e)
  BY <1>1, <1>3, <1>6, <1>8, <1>9, <1>10 DEF Log!Record, Log!Recorded
<1> QED
  BY <1>5, <1>11 DEF Log!Next

\* A loss of power between rename and directory sync takes one command back.
LEMMA PowerLossForgets ==
  ASSUME Good(file.snap), Good(durable.snap), Logged(durable.snap),
         Extends(durable.snap, file.snap), file'.snap = durable.snap,
         \A a \in acked : Answered(durable.snap, a), UNCHANGED acked
  PROVE  Log!Next
<1> DEFINE s == durable.snap
           t == file.snap
           k == Len(s.audits)
<1>1. LogOfFile = EntriesOf(t) /\ LogOfFile' = EntriesOf(s)
  BY DEF LogOfFile, EntriesOf
<1>2. /\ k \in Nat /\ DOMAIN s.audits = 1..k /\ DOMAIN t.audits = 1..k + 1
      /\ \A n \in 1..k : t.audits[n] = s.audits[n]
  BY EntriesFacts DEF Extends
<1>3. /\ EntriesOf(s) \in Seq(Log!Entry) /\ Len(EntriesOf(s)) = k
      /\ DOMAIN EntriesOf(s) = 1..k
      /\ EntriesOf(t) \in Seq(Log!Entry) /\ Len(EntriesOf(t)) = k + 1
      /\ DOMAIN EntriesOf(t) = 1..k + 1
  BY <1>2, EntriesFacts DEF Extends
<1>4. \A n \in 1..k : EntriesOf(t)[n] = EntriesOf(s)[n]
  <2>1. \A n \in 1..k : n \in DOMAIN s.audits /\ n \in DOMAIN t.audits
    BY <1>2
  <2> QED
    BY <1>2, <2>1, EntriesSame
<1>5. EntriesOf(s) = SubSeq(EntriesOf(t), 1, k)
  BY <1>2, <1>3, <1>4
<1>6. ASSUME NEW a \in acked PROVE \E n \in 1..k : EntriesOf(t)[n].request = a.request
  <2>1. PICK n \in DOMAIN s.audits : s.audits[n].request = a.request
    BY <1>6 DEF Answered, Logged, OncePerRequest
  <2> QED
    BY <1>2, <1>4, <2>1, EntriesFacts
<1>7. \A b \in AnswersGiven : \E n \in 1..k : EntriesOf(t)[n].request = b.request
  BY <1>6 DEF AnswersGiven
<1>8. UNCHANGED AnswersGiven
  BY DEF AnswersGiven
<1>9. Log!Forget(k) /\ k \in 0..Len(LogOfFile)
  BY <1>1, <1>2, <1>3, <1>5, <1>7, <1>8 DEF Log!Forget
<1> QED
  BY <1>9 DEF Log!Next

LEMMA LogStep ==
  ASSUME StoreInv, LogInv, LastInv, StoreInv', LogInv', [Next]_vars
  PROVE  [Log!Next]_Log!vars
<1> USE DEF files, Goto
\* Every other step leaves the file and the answers given alone.
<1>q. ASSUME file'.snap = file.snap, UNCHANGED acked
      PROVE  UNCHANGED Log!vars
  BY <1>q DEF Log!vars, LogOfFile, AnswersGiven
<1>1. ASSUME NEW h \in Handlers, Rename(h)
      PROVE  Log!Next
  <2>1. file' = temp[h] /\ pc[h] = "renaming" /\ UNCHANGED acked
    BY <1>1 DEF Rename
  <2>2. Extends(file.snap, file'.snap)
    BY <2>1 DEF LogInv, Ahead, StoreInv, InTransit
  <2>3. Good(file.snap) /\ Good(file'.snap) /\ Logged(file'.snap)
    BY DEF StoreInv, AllGood, LogInv, AllLogged
  <2> QED
    BY <2>1, <2>2, <2>3, RenameRecords
<1>2. ASSUME NEW h \in Handlers, Answer(h)
      PROVE  [Log!Next]_Log!vars
  <2>1. /\ acked' = acked \cup (IF reply[h].ok THEN {reply[h]} ELSE {})
        /\ UNCHANGED file
    BY <1>2 DEF Answer
  <2>2. CASE ~reply[h].ok
    BY <2>1, <2>2, <1>q
  <2>3. CASE reply[h].ok
    <3> DEFINE a == reply[h]
               b == [request |-> a.request, incident |-> a.incident, revision |-> a.revision]
    <3>1. Answered(file.snap, a)
      BY <2>3 DEF LastInv, AnswersKept, Kept
    <3>2. PICK n \in DOMAIN LogOfFile : b = Log!AnswerAt(n)
      BY <3>1, AnswerIsLogged DEF StoreInv, AllGood, LogInv, AllLogged
    <3>3. AnswersGiven' = AnswersGiven \cup {b}
      BY <2>1, <2>3 DEF AnswersGiven
    <3>4. UNCHANGED LogOfFile
      BY <2>1 DEF LogOfFile
    <3> HIDE DEF b
    <3> QED
      BY <3>2, <3>3, <3>4 DEF Log!Next, Log!Tell
  <2> QED
    BY <2>2, <2>3
<1>3. ASSUME LosePower
      PROVE  [Log!Next]_Log!vars
  <2>1. UNCHANGED acked /\ MaxPowerLosses > 0
    BY <1>3, StoreAssumption DEF LosePower, Stop, StoreInv, TypeOK
  <2>2. PICK f \in {file, durable} : file' = AfterPowerLoss(f)
    BY <1>3 DEF LosePower
  <2>3. file'.snap = f.snap
    <3>1. f = [snap |-> f.snap, synced |-> f.synced, torn |-> f.torn]
      BY <2>2 DEF StoreInv, TypeOK, IsFile
    <3> QED
      BY <2>2, <3>1 DEF AfterPowerLoss
  <2>4. CASE f.snap = file.snap
    BY <2>1, <2>3, <2>4, <1>q
  <2>5. CASE f.snap # file.snap
    <3>1. f = durable /\ Extends(durable.snap, file.snap)
      BY <2>1, <2>2, <2>5 DEF LastInv, DurableFollows
    <3>2. \A a \in acked : Answered(durable.snap, a)
      BY <2>1 DEF LastInv, AnswersKept, Kept
    <3> QED
      BY <2>1, <2>3, <3>1, <3>2, PowerLossForgets DEF StoreInv, AllGood, LogInv, AllLogged
  <2> QED
    BY <2>4, <2>5
<1>4. ASSUME NEW h \in Handlers, NEW c \in Inputs, Receive(h, c) \/ Reject(h, c)
      PROVE  UNCHANGED Log!vars
  BY <1>4, <1>q DEF Receive, Reject
<1>5. ASSUME NEW h \in Handlers, Replay(h) \/ Refuse(h) \/ Prepare(h)
      PROVE  UNCHANGED Log!vars
  BY <1>5, <1>q DEF Replay, Refuse, Prepare
<1>6. ASSUME NEW h \in Handlers, WriteTemp(h) \/ SyncTemp(h) \/ SyncDirectory(h)
      PROVE  UNCHANGED Log!vars
  BY <1>6, <1>q DEF WriteTemp, SyncTemp, SyncDirectory
<1>7. ASSUME NEW h \in Handlers, FailPersist(h) \/ Swap(h) \/ LoseReply(h)
      PROVE  UNCHANGED Log!vars
  BY <1>7, <1>q DEF FailPersist, Swap, LoseReply
<1>8. ASSUME Kill \/ Restart \/ UNCHANGED vars
      PROVE  UNCHANGED Log!vars
  BY <1>8, <1>q DEF Kill, Stop, Restart, vars
<1> QED
  BY <1>1, <1>2, <1>3, <1>4, <1>5, <1>6, <1>7, <1>8 DEF Next

\* Handlers, lock, files and recovery together are one log of commands: each
\* recorded once, none after a seal, each answered with its own result, and
\* only unanswered ones are ever forgotten.
THEOREM StoreIsCommandLog == ASSUME Lasting PROVE Spec => ImplementsCommandLog
<1>1. /\ Init => Log!Init
      /\ StoreInv /\ LogInv /\ LastInv /\ StoreInv' /\ LogInv' /\ [Next]_vars
           => [Log!Next]_Log!vars
  BY LogStartsEmpty, LogStep
<1> QED
  BY <1>1, StoreInductive, LogInductive, LastInductive, PTL
  DEF Spec, ImplementsCommandLog, Log!Spec

=============================================================================
