# Verification of the display-case microenvironment service

TLA+ models, model checking and machine-checked proofs for the Go service in
`src/`: an HTTP JSON API that takes a museum display case from the report of an
environmental anomaly to the signed reopening and the sealed evidence. All
state lives in one JSON snapshot; there is no database and no second process.

Line numbers refer to the source; `PROJECT.json` maps every definition to them.

## 1. Inventory

| component | state | operations | where |
|---|---|---|---|
| incident store | `persistedState` in memory, the data file, a temporary file, the mutex | `Open`, `Create`, `Update`, `persist`; audit chain, command results, active-context index | `internal/store/store.go`, `model.go` |
| store views | none of their own | `Get`, `List`, `Query` (work queue with cursor, statistics), `Timeline`, `Evidence` | `store.go` |
| incident workflow | one `EnvironmentIncident` | inspection, hypotheses, sensor handover, plan and review, execution, deviation review, observation, verification, holds, sealing | `internal/case/service.go`, `extensions.go` |
| recovery evaluation | recovery readings, windows, segments, verdicts | cutting batches, policy, progress, formal verification | `service.go`, `internal/rules/recovery.go`, `extensions.go`, `workflow.go` |
| discovery | discovery readings and their quality, risk evaluations, reassessment tasks | `CreateIncident`, `AppendDiscoveryReadings`, `ReviewReading`, risk rules | `service.go`, `internal/rules/risk.go`, `workflow.go`, `extensions.go` |
| deadline commitments | commitments of an overdue incident | acknowledge, complete, expire, renew; escalation views | `case/extensions.go`, `scale_extensions.go` |
| audit trail views | none | `Timeline`, `TimelinePage`, `Evidence`, manifest | `service.go`, `store.go` |
| plan and execution rules | none | safety envelopes, dependencies, step results, materials, deviation classes | `internal/rules` |
| read-only reports | none | inspection report, plan diff, follow-ups, previews, summaries, material tracking | `case/extensions.go`, `scale_extensions.go` |
| HTTP layer | none | decoding, headers, errors, middleware | `internal/httpapi/api.go` |
| server process | listener | flags, start, graceful shutdown, self-check | `cmd/server` |

How they interact. A handler goroutine decodes a request, the case service
checks its form (sometimes with the clock and with a copy of all incidents) and
calls `Store.Create` or `Store.Update` with a mutate function. Under the store's
mutex the command is looked up by `request_id`, the revision compared, the
mutate function run on a clone, one audit event appended and the whole snapshot
persisted; only then is the state in memory replaced. Reads copy under the read
lock. There are no background goroutines, timers or messages: everything that
depends on time is decided when a request comes.

What is hard. Concurrent and repeated requests on one snapshot; a failing or
interrupted `persist`; checks made before the lock; about thirty commands on
one incident in orders nobody tried; two pieces of code that judge the same
readings (progress and verification); batches that continue state left by
earlier batches; views that page through a trail that grows or a queue whose
order changes; clocks and other incidents read before the lock. `PROJECT.json`
lists each hazard at its line with the properties that watch it.

What makes each component correct: the store applies each command once,
answers it the same way for ever, survives crashes and can always be reopened;
the workflow seals only on a fresh qualified verdict and leads every incident to
its end; recovery evaluation rests only on unbroken readings taken after the
last intervention; risk and deadline of an incident only tighten, and a spike nobody
warned of is reviewed; who answers for an overdue incident is the same in every view; what an
execution departed from is on record and reviewed; the trail shows all that
happened, in order; the work queue leaves out nobody who kept his place.

## 2. Modules

| module | models | state and actions |
|---|---|---|
| `Store` | `store.go` with the handlers, the process and the machine around it | `mem` is `Store.state`, `next` the clone a handler persists, `lock` the mutex, `pc` where a handler is, `temp`/`file`/`durable` the temporary file, what the file name refers to, and what it would refer to after a loss of power. `Receive`, `Reject`, `Replay`, `Refuse`, `Prepare` up to the built state, then `WriteTemp`, `SyncTemp`, `Rename`, `SyncDirectory`, `Swap` (or `FailPersist`), `Answer` or `LoseReply`; `Kill`, `LosePower`, `Restart` |
| `CommandLog` | what the store promises: one log, a `request_id` recorded once, nothing recorded after a seal, fixed answers, nothing answered is ever dropped | abstract; `Store` implements it |
| `Workflow` | the commands on one incident | one action per command that changes the workflow's state; `status`, `plans`, `executions` with their deviations and gates, `window`, `verified`, `holds`, ... are the fields of the incident |
| `Lifecycle` | what an incident shows from outside: status and the verdict on its current window | abstract; `Workflow` implements it |
| `Recovery` | the evidence of one recovery: how `AddObservations` cuts batches, what `VerifyRecovery` and `CalculateRecoveryProgress` make of them | `readings` with window and segment, `verdict`, the dates of the last execution and installation |
| `Discovery` | one incident up to its inspection: readings, quality, spikes, risk, deadline | `CreateIncident`, `AppendDiscoveryReadings`, `ReviewReading`, `RecordInspection` and the clock; `readings`, `level`, `score`, `peak`, `deadline`, `evaluations` are the fields of the incident |
| `Execution` | what is recorded of interventions: steps, batches, deviations, gates, and what the reports show of them | `CompareBatches` is the part of `RecordExecution` before the lock, `RecordExecution` (or `Refuse`) the part under it; `ReviewDeviation`; several incidents share batches |
| `Commitments` | deadline commitments and escalation of one incident | `Begin` is a handler reading the clock, `AcknowledgeDeadline`, `CompleteDeadlineCommitment`, `ExpireCommitment`, `RenewCommitment` (or `Refuse`) what it does under the lock; `Tick`, `Reassess`, `SignReopen` happen meanwhile; the views of `Store.Query` and `Service.Get` are operators |
| `AuditTrail` | the trail as it is read: `Timeline`, `TimelinePage`, `Evidence` beside the commands that extend it | `audits` and `incidents` are the fields of `persistedState`, `manifest` the `EvidenceManifest`s; `signing` what `SignReopen` read before the lock; `listing` is what a client is paging through. One action per kind of command, `ReadEvents` and `ServePage` (or `RefuseChain`) for the two reads behind a page |
| `WorkQueue` | the queue as it is read page by page: `Query` beside the commands that move incidents in it | `incidents` with what sorts and filters them, `time`, `listing`; `FirstPage`, `NextPage`, `RefuseCursor`; `Report`, `Raise` (readings, inspection), `Seal` (`SignReopen`), `TimePasses` |
| `Selections` | the loops of the service that go through a list and keep or order some of it | `Chosen` and `InOrder`, used by `Recovery`, `AuditTrail` and `Execution`, are recursive functions over places, because the provers know nothing of `SelectSeq`, `SortSeq` or folds |
| `MC...` | instances for TLC | inputs, symmetry |
| `SelectionFacts` | lemmas about lists, numbers and `Selections` that several proofs cite | |
| `StoreProofs`, `WorkflowProofs`, `RecoveryProofs`, `DiscoveryProofs`, `ExecutionProofs`, `AuditTrailProofs` | theorems about the module of that name and their proofs | |
| `DeadlineProofs` | theorems about the two modules in which the response deadline meets the clock, `WorkQueue` and `Commitments`, and their proofs; it extends both, which is why `WorkQueue` has its own names for time, constants and specification | |

Definitions whose name ends in an underscored remark (`Prepare_NoLookup`) are
not part of a specification. Each is the definition after it with one plausible
slip; `PROJECT.json` pairs it with a property that must notice.

The modules divide the service; each leaves to another what is modelled there.
`Store` says why a command is atomic, which every other module uses. `Workflow`
says when a command is allowed; `Recovery`, `Execution`, `Discovery` and
`Commitments` what it computes. `AuditTrail` and `WorkQueue` read what the
others leave behind (`WorkQueue` assumes of `Raise` what `RiskHoldsOrRises`
of `Discovery` shows). What a handler reads before it takes the lock, the clock,
another incident or the end of the trail, is a step of its own where the outcome
depends on it: in `Execution`, `Commitments`, `AuditTrail`, and as an earlier
instant in `Discovery`.

### Abstractions

- In `Store` a command is its effect on what the store looks at: it creates an
  incident, amends it, moves it to another context (handover) or seals it. What
  the business rules decide is the free choice between `Prepare` and `Refuse`.
- The audit digest is the tuple of the fields it is computed from, the
  predecessor's digest included: sha256 is taken as collision-free.
- A file is its content and whether it was synced; a loss of power tears what
  was not, and takes the older of the two directory entries if the directory was
  not synced. `MkdirAll` and `Chmod` have no state of their own: their failures
  are `FailPersist`.
- In `Workflow` commands are atomic (the store's revision check makes them so)
  and refused commands have no action. Plans, materials, calibration and
  readings count only by what the rules make of them, chosen by the environment.
  Roles are what the caller declares of himself, so role checks are left out;
  that reviewer and author differ is kept. `supported` stands for `supported`
  and `confirmed`, which the code treats alike; several independent readings are
  the agreement of the first and of their median.
- In `Recovery` time is counted in sampling steps and chosen by the caller, as
  in the code: observations may be reported late or ahead of the clock, an
  execution may be dated back. A reading is good, a warning, or outside.
- In `Discovery` a reading is its distance from the target range of one of the
  two measures; the points of the other are added in the same way. The quality a
  sender states is free text except with a reading of the report: each way it can
  be worded that the code tells apart is one value, and so are the words with which
  the code itself marks a reading under review. The mark (`flag`) and the state of the
  review (`review`) are two fields, as in the code. Sampling
  instants increase along the list, which the commands check; only the last is
  kept. The reassessment task is created once and never completed; it and the
  trend, which no decision reads, are left out.
- In `Execution` all incidents have one approved plan, of which is kept which
  steps are critical to safety. A batch means its name and expiry date together.
  Of calibration and safety envelope is kept whether they drift.
- In `Commitments` any command may be refused, because a client may have sent
  another revision. Texts of a commitment and roles are left out.
- In `AuditTrail` an event keeps its number, incident, kind and predecessor, and
  its digest is its number. A client presents only cursors it was given, with
  the filter it began with. Reads do not disturb each other, so one client
  stands for any number. A restart changes nothing a reader sees.
- In `WorkQueue` incidents are numbered in the order they were opened; the
  deadline is counted in half hours. Filters that compare one field of an
  incident, the counts and the statistics are left out.

## 3. Runs

| run | question | bounds and why they are enough |
|---|---|---|
| `store` | six invariants of the store under retries, failing persists, lost replies and losses of power; does it implement `CommandLog` | 2 handlers contend for the lock, 3 `request_id`s create, amend, move and seal 2 incidents in 2 contexts with right and wrong revisions; 2 losses of power give a crash of a recovery. A loss of power that spares the rename does all a kill does; kills, as many as one likes, are in the next two runs (see finding 1) |
| `store_live` | does every handler waiting for the lock get it and answer; can the file be opened if the ignored directory sync fails | fair; 2 handlers, so one waits behind the other's failing persist; the commands of one incident, each tried again at will, any number of kills, one loss of power |
| `store_powerloss` | README:40 on repeats | finds divergence 1 |
| `workflow` | seven invariants of one incident, and that it implements `Lifecycle` | 2 executions with up to 2 deviations each, 2 windows, 2 rounds: a failed and a repeated round; 2 handovers, because the first handover of an untrusted sensor always comes before the plan and only the second meets observations |
| `workflow_live` | does every incident with an isolation measure get sealed; is the plan in force one that others approved | fair; 2 plan versions (a correction), 2 executions with up to 2 deviations each, so that one is returned and answered while the other is pending, a handover, one failed round, one hold |
| `recovery` | windows, evidence, verdict and progress of one recovery | 4 instants, batches of 1 and 2, 2 executions, 1 handover; policy 2 readings, 2 steps, gap 2: enough for a gap and an interruption within a batch and between batches, a stable period after either, and a back-dated supplement whose window interleaves with the failed one |
| `discovery` | risk, deadline, history and spikes | 5 samples (inside, far, far and called `Warning`, far of a warning sensor with no quality, far and called `pending_review`), each quality also stated for a whole report, 3 instants at which duration adds 0, 2 and 3 points, batches of up to 3, 4 readings: a spike within a request, at the border of two, and beside a reviewed one |
| `execution` | batches, departures, gates and the summary | 2 handlers, 2 incidents, 3 executions, 3 batches, 10 requests: reorders of a critical and a plain step, declared and not, skipped steps with and without a deviation, a substitution with drift, one batch with two meanings |
| `commitments` | owners, views, details and stale clocks; is what is overdue taken up | fair; 2 handlers, each naming its own owner, 2 risk levels with remedies of 2 and 1, deadline at 1, 3 instants, 5 revisions: four commands, so a commitment lapses, is expired, renewed and meets another |
| `audit` | are listings exact and sealed evidence complete while the trail grows | 2 incidents, 6 events, pages of 1 and 2, all kinds or one: a listing of three pages with events recorded between any two of them, and a seal followed by events of the other incident |
| `audit_intact` | what the failed continuity check says | finds divergence 2 |
| `work_queue` | what a listing shows while the queue moves | 3 incidents, pages of 1 and 2, 2 risk levels, deadlines that become due soon and overdue within the 3 instants, 4 filters |

Several invariants of one run are conjunctions of named parts (`ReadingsSound`,
`ProgressSound`, `VerdictSound`, `WindowsSound`, `ListingSound`,
`OwnersCommitted`, `RiskExplained`, `BatchesTraceable`, `QuietListingSound`,
`OdditiesExplained`); the parts are stated and explained one by one in the
modules, types included.

The Max constants of `Workflow` bound what people may find wrong (a rejection,
a returned deviation, a failed round, a further batch on a qualified window),
never the commands that answer it, so a bound cannot create a dead end that the
code does not have. Both runs have one hypothesis: what several add, that at most
one is supported, is a guard of two commands that no other touches. Deadlock
checking is off where the system really stops: sealed incidents, incidents that
came to a dead end the code has, listings at their end, trails, clocks and
revisions at their bound. In `Store` and `Execution` deadlock is checked.

### Fairness

`Store`: a handler that can take its next step takes it; `sync.RWMutex` blocks
new readers when a writer waits and hands the lock on, so a waiting handler is
served (strong fairness of `Serve`, which is only what a handler does under the
lock); somebody starts a stopped service again. Nothing is assumed of clients, of
the refusals before the lock (`Reject`), or of a stop, and a failing disk may fail
every time. So a waiting handler is answered only if the lock is given back: with
a `FailPersist` that keeps it, `RequestsAnswered` fails.

`Workflow`: nothing schedules people. `Diligence` states the condition under
which the workflow must not be the obstacle: a step towards the seal that stays
allowed is at some time taken, and submission and signature also when they are
allowed again and again. Rejections, returns, failed rounds, holds and further
observation are never assumed. `IncidentsClose` is about the code in this sense:
it fails as soon as some order of accepted commands leads where no command leads
on (its mutant, the gate of an answered execution kept as it was, shows one). The
code has one such order, and the property names it as its exception
(`ShutAgain`): the gate of an execution with more than one deviation, answered by
a supplement, is `returned` again. From there the seal is out of reach for good
(the second half of the property). Diligent staff even walk into it, since
approving what is pending is theirs to do.

`Commitments`: a handler that has begun goes on (weak fairness, as above).
Supervisors who see an incident overdue and unacknowledged acknowledge it
sometimes, and their commands are not refused for ever for a revision that is
out of date (strong fairness, since both are interrupted by other commands).
`OverdueTakenUp` is about the code in the same sense: no commitment that lapsed,
was completed, expired or renewed may keep the next one out.

## 4. Proofs

All theorems hold for every value of the constants, under the assumptions the
modules name (`StoreAssumption`, `WorkflowAssumption`, `DiscoveryAssumption`,
`CommitmentsAssumption`, `ExecutionAssumption`, `RecoveryAssumption`,
`AuditTrailAssumption`, `WorkQueueAssumption`: sentinels are no members of the
sets they mark, bounds and instants are natural numbers, risk levels are ranks
from 1 to 4, a policy asks for two readings at least, a report names no
revision). Two theorems about `Store` assume in addition `Lasting`, below.

`WorkflowProofs`
- `TypeCorrect`: the type invariant, one step per action.
- `EvidenceIsFresh`: `EvidenceFresh` is not inductive. What is added
  (`EvidenceInv`) is that no round and no reading lies in a later window than
  the current one, that the rounds record no more executions and handovers than
  there are, and which statuses a qualified round of the current window can
  coexist with. A handover keeps the window only if it has no reading, and then
  no round on it can be qualified.
- `FailureIsFinal`: from the order of the rounds' windows in the same invariant.
- `ExecutionInForceCleared`: needs `DeviationInv`, that an execution's gate is
  the one its deviations give or the one a supplement left.
- `WorkflowImplementsLifecycle`: initial states map to initial states and each
  action to a step of `Lifecycle` or a stutter, using the invariants above; and
  `SealRestsOnVerdict` transports the abstract invariant back.

Beside `EvidenceInv` and `DeviationInv`,
- `PlansWereReviewed`, `WindowsSeparate`, `AuditHasNoGaps` and
  `SealAnswersDeviations` from `HistoryInv`. What has to be added: since a failed
  round either work was done (an execution or a handover), or it is the last round
  and its window still the current one, where `VerifyRecovery` refuses another
  (`FailedRoundsStand`); a gate that a supplement resolved has a returned
  deviation and the supplement after it (`ResolvedAnswered`); and for each stage
  reached, the event that stands for it (`AuditShown`).

`StoreProofs`
- `TypeCorrect`.
- `MemoryAgreesWithFile`, `StoreAlwaysOpens`, `ContextIndexExact` from one
  inductive invariant `StoreInv`: types; only the holder of the lock is between
  `Prepare` and `Swap` (`Exclusive`); every snapshot in memory, in the making or
  on disk is `Good` (the chain verifies, unsealed incidents have distinct
  contexts, the index lists exactly those); and what the stage of the holder says
  of its `next`, its temporary file and the data file (`InTransit`). The central
  lemma is that `Created` and `Updated` of a good snapshot are good.

Beside `StoreInv`,
- `RequestsTakeEffectOnce` and `UpdatesAreNotLost` from `LogInv`: every snapshot,
  in memory, in the making or on disk, records a request by one event, counts for
  an incident as many events as revisions, and has no event after a seal
  (`Logged`); and what the holder of the lock is about to write has one command
  more than the file (`Ahead`).
- `AnswersLast` and `StoreIsCommandLog` under `Lasting`: no power is lost, or the
  directory sync works and the process is not killed. Otherwise a kill between
  rename and directory sync, and a loss of power after the restart, take an
  answered command back (finding 1). `LastInv` says that the durable file follows
  within one rename and that what was answered is in the file. In the refinement
  `Rename` is `Record`, `Answer` is `Tell`, `LosePower` is `Forget`, and all else
  is a stutter.

`DiscoveryProofs`
- `RiskOnlyRises` and `DeadlineAlwaysFits` from `RiskInv`: the numbers are
  natural, the level is one of the four, and the deadline is at most the time
  of the last evaluation plus what the level allows. It is inductive, with a
  lemma for each of the three operations that evaluate. Of the peak they
  evaluate nothing is needed, so the proof does not depend on which reading is
  taken for it.
- `RiskAlwaysExplained` needs the types and that the peak an evaluation names is
  one of the readings it saw (`PeaksThere`): that a greatest reading exists is
  proved by induction (`ExplainedInv`). `SpikesAlwaysReviewed` is inductive beside
  it: a reading that had no second neighbour gets one with the next request, and
  what was under review or reviewed has kept its neighbours, so it is still a spike
  (`FlaggedReviewed`). It holds for any wording of the qualities, because what the
  detection passes over as of low quality is stored with that very flag, at the
  report and later (`FieldFacts`), and because it is about the state of the review and
  not about the flag, which a sender may have worded.

`DeadlineProofs`, about the commitments
- `OneAnswers`, `OwnersAnswer` and `EventsMisleadOnlyLate` from `CommitmentsInv`.
  Its core is `Separate`: of two commitments never renewed, the earlier, if still
  open, had run out when the later was entered into. A handler decides with an
  instant that has passed, but the commitment it enters carries that same instant,
  so the comparison stays true. That a newest commitment exists, without which
  `activeDeadlineCommitment` would say nothing, follows from well-foundedness
  (`GreatestExists`).

`DeadlineProofs`, about the work queue, from one inductive invariant `QueueInv`,
which says of each listing that it is `Sound`
- The queue of an instant is a list of all that match, each once, in the order of
  `Before` (`SortedFacts`). `Sorted` puts at place n whoever has n - 1 others before
  it, so this needs that a linear order of a finite set numbers its elements
  (`Ranks`): the numbers of predecessors differ, and as many differing numbers
  below the size of the set use up all of them.
- Between two pages (`PagingSound`): what matched or was shown and did not change
  still matches; what matched, did not change and was not shown yet is behind the
  cursor; what was shown and did not change is not, as long as no cursor changed.
  A command moves one incident towards the head of the queue or seals it
  (`Moved`), so only a sealed cursor can fall behind one that did not change
  (`OrderKept`). Where sealed incidents are not asked for, that cursor will be
  refused, where only they are, it was sealed before it was shown; what is left
  is the exception that `UnchangedAreShown` states.
- `UnchangedShown` and `OdditiesHaveReasons`: a page begins behind the cursor and
  ends where there is no more or at an incident the next cursor names
  (`PageFacts`), so it keeps all this (`ServedSound`).
- `QuietPagesAreTheQueue`: while nothing changes, what was shown is the head of the
  queue (`Begins`), and the cursor stands at its length, since no incident is in the
  queue twice.

`ExecutionProofs`
- `BatchesAreTraceable` from `TraceInv`: what a handler saw of an incident is a
  beginning of what there is, and no execution changes its materials, so what was
  compared stays compared; whatever was not seen came later.
- `DeparturesAreOnRecord`: a request that declares a change of order is judged in
  order, so the proof needs that a list can be put in order without losing or
  repeating an element (`InOrderFacts`); that reviews and supplements leave order
  and types of deviations alone is inductive.
- `ObservationIsReviewed` and `BlockIsShown` from `EachSound`: the gate of an
  execution is the one its deviations give, or the execution is not the last; only
  a change of order is accepted without review.

`RecoveryProofs`, all from one inductive invariant `RecoveryInv`
- `ReadingsAreSound`: windows are numbered in the order they were begun, each in
  time order and without a pause (`WindowsOrdered`), and the current one is the
  last, empty after an execution (`WindowIsLast`). Hence the current window is a
  suffix of the readings (`CurrentFacts`), and what `AddObservations` compares a
  batch with is the very last reading (`CurrentEnd`). The windows and segments of
  a batch are counts of its interruptions and bad readings; that counts grow along
  the batch, and that the first sample continues where the last batch ended, are
  the lemmas `CutFacts`, `BadFacts` and `Joined`.
- `EvidenceIsAfterIntervention`: each command that changes either date begins a
  window or finds it empty (`ReadAfterIntervention`).
- `ProgressIsSound`: the loop of the report, by induction over the readings
  (`CleanEnd`), keeps the good ones since the last that was not; without a bad
  one all readings are of one segment, so it and the evidence are the window.
- `VerdictIsSound`: within a window segments never fall, and rise after a reading
  that ends one (`SegmentsOrdered`); two readings of one segment have nothing of
  the kind between them. That a warning at the end of a batch is spared is what
  the code does and what the invariant says.

`AuditTrailProofs`
- `SealedEvidenceHolds` from `EvidenceInv`: as long as an incident has not changed,
  what a handler read for a signature is still the end of its events
  (`SigningSound`), so the revision check makes the read before the lock safe;
  after the seal nothing is added to them (`SealSound`).
- `ListingIsExact` and `StatusesKeepUp` from `ListInv`: what a listing shows is a
  beginning of the matching events up to the point it has read (`ListingOK`). The
  events of an incident and those that match only grow at the end as the trail
  does (`ChosenBegins`), so a cursor, once given, stays at its place.

`SelectionFacts` proves what most of these rest on: induction and least and greatest
elements, with a set in the place of a predicate, from the well-foundedness of
inclusion; that `Chosen` keeps exactly the chosen places, in order, and only adds
at the end when the list grows; that every list of numbers can be sorted; and that a
linear order numbers the elements of a finite set.

Only model-checked: liveness (`IncidentsClose`, `RequestsAnswered`,
`OverdueTakenUp`), which is out of the prover's reach. Every invariant and every
action property that a passing run checks is a theorem, and so are the two
refinements.

## 5. Findings

Each is shown by a run that finds the property violated; `PROJECT.json` quotes
the line that promises otherwise.

1. `store_powerloss`: the directory sync is ignored and `Open` does not repeat
   it. Killed between rename and directory sync, restarted, asked again, the
   service acknowledges a command that a loss of power then takes back.
2. `audit_intact`: `TimelinePage` checks the digest chain on the events of one
   incident only. As soon as two incidents alternate, an intact timeline is
   refused as broken, for good.

Divergences met while modelling that have no run of their own. The properties
named state what does hold.

Commands and workflow
- Checks against the clock and against other incidents come before the
  `request_id` lookup (`case/extensions.go:87`, `CreateIncident`,
  `RecordInspection`, `PlaceReopenHold`, `RenewReopenHold`, `RecordExecution`);
  a repeat that comes late is refused though README:40 promises the first
  answer. `Reject` of `Store` allows for it.
- A supplement answers the whole execution (`service.go:951`), and readiness
  counts its gate as clear (`extensions.go:741`), so a deviation nobody decided
  on may stay pending in the sealed evidence, although `extensions.go:772` says
  that all deviations are closed and README:50 that they are decided by review.
  `SealedDeviationsAnswered` allows for it. Reviewed later,
  before the seal, it blocks the seal for good: whatever the review decides, approval
  included, `ReviewDeviation` recomputes the gate of the answered execution as
  `returned` (`extensions.go:316`, `328`), no command resolves it a second time, and
  readiness refuses the seal for ever though every deviation may be closed
  (`ShutAgain`, the exception of `IncidentsClose`).
- `ReviewPlan` checks the incident's status and not the version's
  (`service.go:711`), so a rejected version with open corrections can be approved
  as it stands, though `service.go:715` speaks of a plan awaiting review.
- A handover after a failed round replaces the supplemental intervention the
  messages of `service.go:1008` and `1137` demand (`FailedRoundAnswered`).
- Without isolation measure, a low-risk inspection is accepted and no plan ever
  is (`service.go:506`, `598`). `IncidentsClose` therefore begins with the
  isolation measure.

Recovery
- A warning at the end of a batch does not end the segment (`service.go:1039`),
  against README:54. So progress and verification disagree in both directions: a
  window shown as complete fails, and (with an interruption stored last) one
  shown as empty passes. `ProgressSound` is about windows without interruption,
  `InterruptionsCounted` about what does interrupt.

Discovery
- `AppendDiscoveryReadings` looks for spikes among all readings
  (`service.go:369`), so one already reviewed goes back to review, though
  `service.go:298` says that the conclusion excludes it for good.
- It also lets readings under review or excluded drive the risk (only `warning`
  and `low` are skipped, `rules/extensions.go:34`), while at the report spikes
  are skipped (`service.go:224`).
- Only the quality stated with a reading of the report is checked (`service.go:181`),
  not the one stated for all of it (`service.go:211`) nor that of further readings
  (`service.go:318`), and `makeReading` stores the text as the quality flag
  (`service.go:1514`). A reading sent as `pending_review` shows as under review, and
  `ReviewReading` refuses it because its review is done (`service.go:289`), though
  there was none. So the flag does not say which readings were put to review, and
  `SpikesReviewed` is about the state of the review: what has one shows it.
- At the report qualities are compared as they were worded: a spike sent as
  `Warning` is put to review though `warning` is passed over (`workflow.go:190`), and
  ` warning` with a blank counts for the risk (`rules/extensions.go:34`) against
  README:42. In later requests the stored flag is compared, where all are alike.
- At the report a reading of a warning sensor with no stated quality counts for
  the risk, although it is stored as of warning quality (`service.go:1519`).
- An inspection at the same level may lower the score (`service.go:497`);
  `RiskHoldsOrRises` is about the score until then.

Commitments
- A renewal does not ask whether another commitment is in effect
  (`scale_extensions.go:395`), so two may be, although `extensions.go:99` refuses
  a second (`OneInEffect`).
- Completing or expiring an older commitment clears the stored owner
  (`extensions.go:128`, `scale_extensions.go:373`) though another is in effect;
  the views compute the owner anew and are right (`OwnersCommitted`).
- `Service.Get` keeps showing the stored owner of a lapsed commitment, while the
  queue shows nobody (`service.go:1288`, `store.go:800`).
- The event of a completed commitment is given the newest commitment as detail
  (`store.go:382`), which may be another one (`DetailMisleadsOnlyLate`).

Execution and reports
- A `step_reorder` on any step that is not critical puts all steps in order
  before they are judged (`service.go:850`), so critical steps may have been
  carried out in the wrong order with the gate clear, against
  `rules/extensions.go:202`. `DepartureOnRecord` asks for a reorder on record,
  not for one about the steps moved.
- A skipped step is covered by a `step_reorder`, which needs no review.
- Two executions recorded at once can give one batch two meanings
  (`service.go:783`, `ConflictNeedsRace`).
- `ExecutionSummary` shows observation as blocked for every skipped step and
  every returned deviation of an older execution, also when it is not
  (`scale_extensions.go:288`, `301`); the converse holds (`BlockShown`).
- The duplicate use `MaterialTracking` looks for never occurs (`BatchUsedOnce`).
- Plan dependencies are checked and not stored, so no execution is held to them;
  a dependency on a step that does not exist, in a plan that requires isolation,
  indexes out of range (`rules/workflow.go:248`).

Work queue
- The cursor carries the instant but not the state of the first page: an
  incident that moves towards the head between two pages is missed by the rest
  of the listing; if the cursor's own incident moves up, others repeat; if it
  leaves the filter, the cursor is refused; if a listing of open and sealed
  incidents has its cursor sealed, others are skipped (`UnchangedAreShown`,
  `OdditiesExplained`).

## 6. Not modelled

Inspection report, plan diff, follow-ups and previews, which format a copy of
one incident; the statistics and counts of the queue and its filters on names,
owners and missing evidence; labels and gaps of the timeline; the content of a
plan; the numbers of calibration and safety envelope; the reassessment task;
HTTP status codes and limits, flags, graceful shutdown and self-check. The small
helper files of `internal/*` (`transaction.go`, `snapshot.go`, `gates.go`,
`trend.go`, ...) are called by nothing.

## 7. Plan

Every part of the core is modelled, and every safety property is proved. What may
still be added:
1. `WorkQueue`: the filters on names and owners, and the counts.
