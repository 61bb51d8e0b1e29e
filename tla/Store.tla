------------------------------- MODULE Store --------------------------------
(***************************************************************************)
(* internal/store/store.go: the single JSON snapshot behind the service.   *)
(*                                                                         *)
(* Every HTTP request is served by a goroutine (a handler).  Create and    *)
(* Update take the write lock, look the request_id up in Commands, check   *)
(* the incident, build the next state from a clone, append one audit event *)
(* and one command result, persist the whole state (temp file, write,      *)
(* sync, rename, directory sync) and only then replace the state in        *)
(* memory.  Any step of persist before the rename may fail; the process    *)
(* may be killed and the machine may lose power between any two steps.     *)
(*                                                                         *)
(* What a command does to its incident is abstracted to what the store     *)
(* looks at: whether it moves the incident to another display case/sensor  *)
(* context (handover), seals it, or neither (amend).                       *)
(*                                                                         *)
(* An operator whose name ends in an underscored remark (Prepare_NoLookup) *)
(* is not part of the specification.  It is the definition that follows it *)
(* with one plausible slip, kept to check that the properties notice.      *)
(***************************************************************************)
EXTENDS Naturals, Sequences, FiniteSets

CONSTANTS
  Handlers,        \* goroutines that serve requests
  Requests,        \* request_id values
  Incidents,       \* incident identifiers the service may draw
  Keys,            \* normalised display case / sensor contexts
  Cases,           \* case numbers
  CaseOf,          \* the case number an incident identifier gives rise to
  Inputs,          \* the commands clients send
  DirSyncReliable, \* does the directory sync after the rename succeed
  Kills,           \* may the process be killed
  MaxPowerLosses,  \* bound: times the machine loses power
  None             \* "no incident", "no key", "no handler"

Ops == {"create", "amend", "handover", "seal"}

Command == [request : Requests, op : Ops, incident : Incidents,
            key : Keys, expected : Nat]

ASSUME StoreAssumption ==
  /\ None \notin Handlers \cup Incidents \cup Keys
  /\ CaseOf \in [Incidents -> Cases]
  /\ Inputs \subseteq Command
  /\ \A c \in Inputs : c.op = "create" => c.expected = 0  \* a report names no revision
  /\ DirSyncReliable \in BOOLEAN
  /\ Kills \in BOOLEAN
  /\ MaxPowerLosses \in Nat

VARIABLES
  mem,      \* Store.state
  next,     \* the state each handler has built and is persisting
  lock,     \* holder of Store.mu in write mode, or None
  pc,       \* where each handler is
  cmd,      \* the command each handler serves
  reply,    \* the answer each handler is about to send
  temp,     \* each handler's temporary file
  file,     \* what the data file's name refers to
  durable,  \* what it refers to after a loss of power, at worst
  up,       \* is the process serving
  losses,   \* history: how often power was lost
  acked     \* history: the successful answers clients received

vars == <<mem, next, lock, pc, cmd, reply, temp, file, durable, up, losses, acked>>

-----------------------------------------------------------------------------
(* The snapshot: persistedState.                                           *)

Absent == [revision |-> 0, key |-> None, sealed |-> FALSE]
IncidentRecord == [revision : Nat, key : Keys \cup {None}, sealed : BOOLEAN]

NoResult == [op |-> "none", incident |-> None, revision |-> 0]
CommandResult == [op : Ops \cup {"none"}, incident : Incidents \cup {None},
                  revision : Nat]

EmptySnapshot ==
  [incidents |-> [i \in Incidents |-> Absent],
   cases     |-> {},
   commands  |-> [r \in Requests |-> NoResult],
   audits    |-> <<>>,
   contexts  |-> [k \in Keys |-> None]]

Exists(s, i)    == s.incidents[i].revision > 0
Recorded(s, r)  == s.commands[r].op # "none"

\* sha256 over the event, its predecessor's digest included: collision-free.
auditDigest(e) == <<e.sequence, e.incident, e.request, e.expected, e.to, e.previous>>

LastDigest(s) ==
  IF s.audits = <<>> THEN <<>> ELSE auditDigest(s.audits[Len(s.audits)])

appendAuditAndCommand(s, c, i) ==
  [s EXCEPT
     !.audits = Append(@, [sequence |-> Len(@) + 1, incident |-> i,
                           request |-> c.request, expected |-> c.expected,
                           to |-> IF s.incidents[i].sealed THEN "sealed" ELSE "open",
                           previous |-> LastDigest(s)]),
     !.commands[c.request] = [op |-> c.op, incident |-> i,
                              revision |-> s.incidents[i].revision]]

-----------------------------------------------------------------------------
(* Create and Update: the checks and the next state.                       *)

\* The recorded command answers a repeat only of the same operation, and
\* for Update of the same incident (Create draws a new one each time).
SameCommand(s, c) ==
  /\ s.commands[c.request].op = c.op
  /\ c.op # "create" => s.commands[c.request].incident = c.incident

CreateAllowed(s, c) ==
  /\ c.op = "create"
  /\ ~Exists(s, c.incident)
  /\ CaseOf[c.incident] \notin s.cases
  /\ s.contexts[c.key] = None

Created(s, c) ==
  appendAuditAndCommand(
    [s EXCEPT !.incidents[c.incident] = [revision |-> 1, key |-> c.key, sealed |-> FALSE],
              !.cases = @ \cup {CaseOf[c.incident]},
              !.contexts[c.key] = c.incident],
    c, c.incident)

\* The key the incident has once mutate has run.
KeyAfter(s, c) ==
  IF c.op = "handover" THEN c.key ELSE s.incidents[c.incident].key

UpdateAllowed_NoRevisionCheck(s, c) ==
  /\ c.op # "create"
  /\ Exists(s, c.incident)
  /\ ~s.incidents[c.incident].sealed
  /\ s.contexts[KeyAfter(s, c)] \in {None, c.incident}

UpdateAllowed_NoContextCheck(s, c) ==
  /\ c.op # "create"
  /\ Exists(s, c.incident)
  /\ ~s.incidents[c.incident].sealed
  /\ s.incidents[c.incident].revision = c.expected

UpdateAllowed(s, c) ==
  /\ c.op # "create"
  /\ Exists(s, c.incident)
  /\ ~s.incidents[c.incident].sealed
  /\ s.incidents[c.incident].revision = c.expected
  /\ s.contexts[KeyAfter(s, c)] \in {None, c.incident}

\* contexts: a moved incident gives up its old key and takes the new one; a
\* sealed one gives up its key.
ContextsAfter(s, c) ==
  [k \in Keys |->
     IF k = KeyAfter(s, c) THEN IF c.op = "seal" THEN None ELSE c.incident
     ELSE IF s.contexts[k] = c.incident THEN None ELSE s.contexts[k]]

Updated(s, c) ==
  [appendAuditAndCommand(
     [s EXCEPT !.incidents[c.incident] =
                  [revision |-> @.revision + 1, key |-> KeyAfter(s, c),
                   sealed |-> c.op = "seal"]],
     c, c.incident)
   EXCEPT !.contexts = ContextsAfter(s, c)]

Allowed(s, c) == CreateAllowed(s, c) \/ UpdateAllowed(s, c)

NextState(s, c) == IF c.op = "create" THEN Created(s, c) ELSE Updated(s, c)

-----------------------------------------------------------------------------
(* Open: reading a snapshot back.                                          *)

verifyAuditChain(audits) ==
  \A n \in DOMAIN audits :
    /\ audits[n].sequence = n
    /\ audits[n].previous = IF n = 1 THEN <<>> ELSE auditDigest(audits[n - 1])

InFlight(s, i) == Exists(s, i) /\ ~s.incidents[i].sealed

\* The index rebuilt from the incidents; defined when no two share a key.
ContextsUnique(s) ==
  \A i, j \in Incidents :
    InFlight(s, i) /\ InFlight(s, j) /\ s.incidents[i].key = s.incidents[j].key => i = j

RebuiltContexts(s) ==
  [k \in Keys |-> IF \E i \in Incidents : InFlight(s, i) /\ s.incidents[i].key = k
                  THEN CHOOSE i \in Incidents : InFlight(s, i) /\ s.incidents[i].key = k
                  ELSE None]

\* Every saved index entry must agree with the rebuilt index.
SavedContextsAgree(s) ==
  \A k \in Keys : s.contexts[k] # None => RebuiltContexts(s)[k] = s.contexts[k]

Openable(f) ==
  /\ ~f.torn
  /\ verifyAuditChain(f.snap.audits)
  /\ ContextsUnique(f.snap)
  /\ SavedContextsAgree(f.snap)

Opened(f) == [f.snap EXCEPT !.contexts = RebuiltContexts(f.snap)]

-----------------------------------------------------------------------------
(* Files.  torn: a loss of power found the content not yet synced.         *)

File(s, synced) == [snap |-> s, synced |-> synced, torn |-> FALSE]

NoFile == File(EmptySnapshot, FALSE)

AfterPowerLoss(f) == [f EXCEPT !.torn = ~f.synced]

NoCommand == [request |-> None]
NoReply   == [ok |-> FALSE]

AnswerTo_CurrentRevision(s, r) ==
  [ok |-> TRUE, request |-> r, incident |-> s.commands[r].incident,
   revision |-> s.incidents[s.commands[r].incident].revision]

\* What a client reads from the response of a recorded command.
AnswerTo(s, r) == [ok |-> TRUE, request |-> r, incident |-> s.commands[r].incident,
                   revision |-> s.commands[r].revision]

Init ==
  /\ mem = EmptySnapshot
  /\ next = [h \in Handlers |-> EmptySnapshot]
  /\ lock = None
  /\ pc = [h \in Handlers |-> "idle"]
  /\ cmd = [h \in Handlers |-> NoCommand]
  /\ reply = [h \in Handlers |-> NoReply]
  /\ temp = [h \in Handlers |-> NoFile]
  /\ file = File(EmptySnapshot, TRUE)
  /\ durable = File(EmptySnapshot, TRUE)
  /\ up = TRUE
  /\ losses = 0
  /\ acked = {}

-----------------------------------------------------------------------------
(* A handler.                                                              *)

Goto(h, from, to) == pc[h] = from /\ pc' = [pc EXCEPT ![h] = to]

files == <<temp, file, durable>>

\* A request reaches the service, a new one or a client trying again, and
\* passes the checks made before the store is entered.  From here on the
\* handler is blocked until it gets the lock.
Receive(h, c) ==
  /\ up
  /\ Goto(h, "idle", "waiting")
  /\ cmd' = [cmd EXCEPT ![h] = c]
  /\ UNCHANGED <<mem, next, lock, reply, files, up, losses, acked>>

\* The service refuses a request before it enters the store, whoever holds
\* the lock: the request is malformed or comes too late.  Creations and some
\* amendments carry a date that must be ahead of the clock, or are compared
\* with other incidents, so a repeat may be refused though it was accepted
\* the first time.
Reject(h, c) ==
  /\ up
  /\ Goto(h, "idle", "replying")
  /\ Recorded(mem, c.request) => c.op \in {"create", "amend"}
  /\ cmd' = [cmd EXCEPT ![h] = c]
  /\ reply' = [reply EXCEPT ![h] = NoReply]
  /\ UNCHANGED <<mem, next, lock, files, up, losses, acked>>

\* Under the lock, the request_id is already known: the first answer again,
\* or an error when it named another command.
Replay(h) ==
  /\ lock = None
  /\ Goto(h, "waiting", "replying")
  /\ Recorded(mem, cmd[h].request)
  /\ reply' = [reply EXCEPT ![h] = IF SameCommand(mem, cmd[h])
                                   THEN AnswerTo(mem, cmd[h].request) ELSE NoReply]
  /\ UNCHANGED <<mem, next, lock, cmd, files, up, losses, acked>>

\* Under the lock, the store or the command's own rules (mutate) refuse.
\* Rules may refuse in any state, so no condition of the store is needed.
Refuse(h) ==
  /\ lock = None
  /\ Goto(h, "waiting", "replying")
  /\ ~Recorded(mem, cmd[h].request)
  /\ reply' = [reply EXCEPT ![h] = NoReply]
  /\ UNCHANGED <<mem, next, lock, cmd, files, up, losses, acked>>

Prepare_NoLookup(h) ==
  /\ lock = None
  /\ Goto(h, "waiting", "writing")
  /\ Allowed(mem, cmd[h])
  /\ next' = [next EXCEPT ![h] = NextState(mem, cmd[h])]
  /\ lock' = h
  /\ UNCHANGED <<mem, cmd, reply, files, up, losses, acked>>

\* The checks passed: next is built and the lock is kept for persist.
Prepare(h) ==
  /\ lock = None
  /\ Goto(h, "waiting", "writing")
  /\ ~Recorded(mem, cmd[h].request)
  /\ Allowed(mem, cmd[h])
  /\ next' = [next EXCEPT ![h] = NextState(mem, cmd[h])]
  /\ lock' = h
  /\ UNCHANGED <<mem, cmd, reply, files, up, losses, acked>>

\* persist, step by step.
WriteTemp(h) ==
  /\ Goto(h, "writing", "syncing")
  /\ temp' = [temp EXCEPT ![h] = File(next[h], FALSE)]
  /\ UNCHANGED <<mem, next, lock, cmd, reply, file, durable, up, losses, acked>>

SyncTemp(h) ==
  /\ Goto(h, "syncing", "renaming")
  /\ temp' = [temp EXCEPT ![h].synced = TRUE]
  /\ UNCHANGED <<mem, next, lock, cmd, reply, file, durable, up, losses, acked>>

Rename_BeforeSync(h) ==
  /\ Goto(h, "syncing", "renamed")
  /\ file' = temp[h]
  /\ temp' = [temp EXCEPT ![h] = NoFile]
  /\ UNCHANGED <<mem, next, lock, cmd, reply, durable, up, losses, acked>>

Rename(h) ==
  /\ Goto(h, "renaming", "renamed")
  /\ file' = temp[h]
  /\ temp' = [temp EXCEPT ![h] = NoFile]
  /\ UNCHANGED <<mem, next, lock, cmd, reply, durable, up, losses, acked>>

SyncDirectory_Skipped(h) ==
  /\ Goto(h, "renamed", "swapping")
  /\ UNCHANGED <<mem, next, lock, cmd, reply, files, up, losses, acked>>

\* The outcome of the directory sync is ignored by the code.
SyncDirectory(h) ==
  /\ Goto(h, "renamed", "swapping")
  /\ durable' \in IF DirSyncReliable THEN {file} ELSE {file, durable}
  /\ UNCHANGED <<mem, next, lock, cmd, reply, temp, file, up, losses, acked>>

FailPersist_AfterRename(h) ==
  /\ pc[h] \in {"writing", "syncing", "renaming", "renamed"}
  /\ pc' = [pc EXCEPT ![h] = "replying"]
  /\ reply' = [reply EXCEPT ![h] = NoReply]
  /\ next' = [next EXCEPT ![h] = EmptySnapshot]
  /\ temp' = [temp EXCEPT ![h] = NoFile]
  /\ lock' = None
  /\ UNCHANGED <<mem, cmd, file, durable, up, losses, acked>>

FailPersist_KeepsLock(h) ==
  /\ pc[h] \in {"writing", "syncing", "renaming"}
  /\ pc' = [pc EXCEPT ![h] = "replying"]
  /\ reply' = [reply EXCEPT ![h] = NoReply]
  /\ next' = [next EXCEPT ![h] = EmptySnapshot]
  /\ temp' = [temp EXCEPT ![h] = NoFile]
  /\ UNCHANGED <<mem, lock, cmd, file, durable, up, losses, acked>>

\* mkdir, create, chmod, write, sync, close or rename fails: the temporary
\* file is removed and the state in memory stays.
FailPersist(h) ==
  /\ pc[h] \in {"writing", "syncing", "renaming"}
  /\ pc' = [pc EXCEPT ![h] = "replying"]
  /\ reply' = [reply EXCEPT ![h] = NoReply]
  /\ next' = [next EXCEPT ![h] = EmptySnapshot]
  /\ temp' = [temp EXCEPT ![h] = NoFile]
  /\ lock' = None
  /\ UNCHANGED <<mem, cmd, file, durable, up, losses, acked>>

Swap_AnswersOldState(h) ==
  /\ Goto(h, "swapping", "replying")
  /\ mem' = next[h]
  /\ next' = [next EXCEPT ![h] = EmptySnapshot]
  /\ lock' = None
  /\ reply' = [reply EXCEPT ![h] = AnswerTo(mem, cmd[h].request)]
  /\ UNCHANGED <<cmd, files, up, losses, acked>>

\* s.state = next, unlock.
Swap(h) ==
  /\ Goto(h, "swapping", "replying")
  /\ mem' = next[h]
  /\ next' = [next EXCEPT ![h] = EmptySnapshot]
  /\ lock' = None
  /\ reply' = [reply EXCEPT ![h] = AnswerTo(next[h], cmd[h].request)]
  /\ UNCHANGED <<cmd, files, up, losses, acked>>

\* The response reaches the client, or is lost with its connection.
Answer(h) ==
  /\ Goto(h, "replying", "idle")
  /\ acked' = acked \cup IF reply[h].ok THEN {reply[h]} ELSE {}
  /\ cmd' = [cmd EXCEPT ![h] = NoCommand]
  /\ reply' = [reply EXCEPT ![h] = NoReply]
  /\ UNCHANGED <<mem, next, lock, files, up, losses>>

LoseReply(h) ==
  /\ Goto(h, "replying", "idle")
  /\ cmd' = [cmd EXCEPT ![h] = NoCommand]
  /\ reply' = [reply EXCEPT ![h] = NoReply]
  /\ UNCHANGED <<mem, next, lock, files, up, losses, acked>>

-----------------------------------------------------------------------------
(* The process and the machine.                                            *)

Stop ==
  /\ up
  /\ up' = FALSE
  /\ lock' = None
  /\ mem' = EmptySnapshot
  /\ next' = [h \in Handlers |-> EmptySnapshot]
  /\ pc' = [h \in Handlers |-> "idle"]
  /\ cmd' = [h \in Handlers |-> NoCommand]
  /\ reply' = [h \in Handlers |-> NoReply]
  /\ temp' = [h \in Handlers |-> NoFile]
  /\ UNCHANGED acked

Kill ==
  /\ Kills
  /\ Stop
  /\ UNCHANGED <<file, durable, losses>>

\* The directory may or may not have reached the disk since its last sync.
LosePower ==
  /\ Stop
  /\ losses < MaxPowerLosses
  /\ losses' = losses + 1
  /\ \E f \in {file, durable} : file' = AfterPowerLoss(f) /\ durable' = file'

\* Open verifies the snapshot and rebuilds the index; a snapshot it refuses
\* keeps the service down.
Restart ==
  /\ ~up
  /\ Openable(file)
  /\ up' = TRUE
  /\ mem' = Opened(file)
  /\ UNCHANGED <<next, lock, pc, cmd, reply, files, losses, acked>>

Persist(h) == WriteTemp(h) \/ SyncTemp(h) \/ Rename(h) \/ SyncDirectory(h) \/ Swap(h)

\* What a handler does once it has got the lock.
Serve(h) == Replay(h) \/ Refuse(h) \/ Prepare(h)

Next ==
  \/ \E h \in Handlers :
       \/ \E c \in Inputs : Receive(h, c) \/ Reject(h, c)
       \/ Replay(h)
       \/ Refuse(h)
       \/ Prepare(h)
       \/ WriteTemp(h)
       \/ SyncTemp(h)
       \/ Rename(h)
       \/ SyncDirectory(h)
       \/ FailPersist(h)
       \/ Swap(h)
       \/ Answer(h)
       \/ LoseReply(h)
  \/ Kill
  \/ LosePower
  \/ Restart

Spec == Init /\ [][Next]_vars

-----------------------------------------------------------------------------
(* Liveness assumptions: a handler that can run does run, sync.RWMutex     *)
(* starves no waiting writer, and a stopped service is started again.      *)
(* Nothing is assumed of what needs no lock (Receive, Reject), so that     *)
(* a handler behind a lock never given back has no other way out.          *)
Fairness ==
  /\ \A h \in Handlers :
       /\ WF_vars(Persist(h))
       /\ WF_vars(Answer(h) \/ LoseReply(h))
       /\ SF_vars(Serve(h))
  /\ WF_vars(Restart)

FairSpec == Spec /\ Fairness

-----------------------------------------------------------------------------
(* Type correctness.                                                       *)

IsEvent(e) ==
  /\ e.sequence \in Nat /\ e.incident \in Incidents /\ e.request \in Requests
  /\ e.expected \in Nat /\ e.to \in {"open", "sealed"}

\* A sequence, whatever its elements are.
IsSequence(t) == t \in Seq({t[n] : n \in DOMAIN t})

IsSnapshot(s) ==
  /\ s = [incidents |-> s.incidents, cases |-> s.cases, commands |-> s.commands,
          audits |-> s.audits, contexts |-> s.contexts]
  /\ s.incidents \in [Incidents -> IncidentRecord]
  /\ s.cases \subseteq Cases
  /\ s.commands \in [Requests -> CommandResult]
  /\ IsSequence(s.audits) /\ \A n \in DOMAIN s.audits : IsEvent(s.audits[n])
  /\ s.contexts \in [Keys -> Incidents \cup {None}]

IsFile(f) ==
  /\ f = [snap |-> f.snap, synced |-> f.synced, torn |-> f.torn]
  /\ IsSnapshot(f.snap) /\ f.synced \in BOOLEAN /\ f.torn \in BOOLEAN

Reply == [ok : {TRUE}, request : Requests, incident : Incidents, revision : Nat]

Stages == {"idle", "waiting", "writing", "syncing", "renaming", "renamed",
           "swapping", "replying"}

\* Every variable keeps its type: the shape of persistedState, of the three
\* files and of the handlers' local state.
TypeOK ==
  /\ IsSnapshot(mem)
  /\ next = [h \in Handlers |-> next[h]] /\ \A h \in Handlers : IsSnapshot(next[h])
  /\ lock \in Handlers \cup {None}
  /\ pc \in [Handlers -> Stages]
  /\ cmd \in [Handlers -> Inputs \cup {NoCommand}]
  /\ reply \in [Handlers -> Reply \cup {NoReply}]
  /\ temp = [h \in Handlers |-> temp[h]] /\ \A h \in Handlers : IsFile(temp[h])
  /\ IsFile(file) /\ IsFile(durable)
  /\ up \in BOOLEAN /\ losses \in Nat
  /\ acked \subseteq Reply

-----------------------------------------------------------------------------
(* What must hold.                                                         *)

\* Between two writes the state served from memory is exactly the state the
\* data file holds, whatever failed before: a failed persist leaves both
\* alone, a successful one changes both (Create and Update assign s.state
\* only after persist returned nil; Open reads back what persist wrote).
MemoryIsFile == up /\ lock = None => mem = file.snap

\* The service can always be started again on what it left behind, after a
\* kill or a loss of power in the middle of any write: the content is whole,
\* the audit chain verifies, and the saved active-context index is the one
\* Open rebuilds.
AlwaysOpenable == Openable(file) /\ Openable([durable EXCEPT !.torn = ~durable.synced])

Events(s, r) == {n \in DOMAIN s.audits : s.audits[n].request = r}

\* A request_id takes effect at most once however often it is sent, from
\* however many clients and across restarts: the audit trail has one event
\* for it exactly when Commands has its result, and the two agree.
ExactlyOnce ==
  \A r \in Requests :
    /\ \A m, n \in Events(file.snap, r) : m = n
    /\ Recorded(file.snap, r) <=> Events(file.snap, r) # {}
    /\ \A n \in Events(file.snap, r) :
         file.snap.audits[n].incident = file.snap.commands[r].incident

\* An answered command is in the data file, down or up, and stays there with
\* the answer that was given.
AckedSurvives ==
  \A a \in acked : Recorded(file.snap, a.request) /\ a = AnswerTo(file.snap, a.request)

\* All clients that ever got a successful answer to a request_id got the
\* same one: a repeat returns the first result, not the present state.
OneAnswer == \A a, b \in acked : a.request = b.request => a = b

\* expected_revision: every recorded command was decided on the very state
\* it was applied to.  The revision its payload expects counts the commands
\* recorded before it, so no update was lost between read and write.
NoLostUpdate ==
  \A i \in Incidents :
    LET before(n) == {m \in 1..n : mem.audits[m].incident = i}
    IN  /\ mem.incidents[i].revision = Cardinality(before(Len(mem.audits)))
        /\ \A n \in before(Len(mem.audits)) :
             mem.audits[n].expected = Cardinality(before(n)) - 1

\* At most one unsealed incident per display case and sensor, in memory and
\* on disk, and the index lists exactly the unsealed ones.
ActiveContextsExact ==
  \A s \in {mem, file.snap} :
    /\ ContextsUnique(s)
    /\ \A k \in Keys, i \in Incidents :
         s.contexts[k] = i <=> InFlight(s, i) /\ s.incidents[i].key = k

\* Every handler that waits for the lock gets it and answers, unless the
\* process stops first: the lock is never left taken, in particular by a
\* failed persist (defer s.mu.Unlock), and no command keeps another waiting.
RequestsAnswered ==
  \A h \in Handlers : pc[h] = "waiting" ~> pc[h] = "idle"

\* The store implements the abstract command log: the log is the audit trail
\* of the data file, an answer enters it when a client gets it.
LogOfFile ==
  [n \in DOMAIN file.snap.audits |->
     [request  |-> file.snap.audits[n].request,
      incident |-> file.snap.audits[n].incident,
      seals    |-> file.snap.audits[n].to = "sealed"]]

AnswersGiven ==
  {[request |-> a.request, incident |-> a.incident, revision |-> a.revision] : a \in acked}

Log == INSTANCE CommandLog WITH log <- LogOfFile, answers <- AnswersGiven

ImplementsCommandLog == Log!Spec

=============================================================================
