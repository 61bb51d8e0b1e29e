----------------------------- MODULE Commitments ------------------------------
(***************************************************************************)
(* internal/case: the deadline of one incident, the commitments people     *)
(* enter into when it is near or past, and what is shown of both.          *)
(*                                                                         *)
(* A handler reads the clock first and only then waits for the store's     *)
(* lock, so each command decides with an instant that may have passed:     *)
(* Begin and the command itself are separate steps, and time goes on       *)
(* between them.  Under the lock the command is atomic (module Store).     *)
(* Clients may expect any revision, also one that a command under way will *)
(* bring: whether it is the right one is left open, so any command may be  *)
(* refused.                                                                *)
(*                                                                         *)
(* Roles are what the caller declares and are left out, like the texts of  *)
(* a commitment.  CompletedAt and InvalidatedAt are set exactly while the  *)
(* status is completed or expired, so the status stands for them.  The     *)
(* stored EscalationStatus is overwritten by every view and left out.      *)
(*                                                                         *)
(* An operator whose name ends in an underscored remark is not part of the *)
(* specification: it is the definition that follows it with one plausible  *)
(* slip, kept to check that the properties notice.                         *)
(***************************************************************************)
EXTENDS Naturals, Sequences, FiniteSets, SequencesExt

CONSTANTS
  Handlers,      \* goroutines that serve requests
  Owners,        \* those who answer for a commitment, as owner_id
  OwnerOf,       \* bound: the one that the clients of a handler name
  Nobody,        \* the empty owner_id
  Levels,        \* number of risk levels
  Remedy,        \* MaximumRemedyWindow of each level
  SoonMargin,    \* a deadline this near is due soon
  FirstDeadline, \* bound: the ResponseDeadline of the report
  MaxTime,       \* bound: the last instant
  MaxRevision    \* bound: revisions of the incident

ASSUME CommitmentsAssumption ==
  /\ Nobody \notin Owners
  /\ OwnerOf \in [Handlers -> Owners]
  /\ Levels \in Nat \ {0}
  /\ Remedy \in [1..Levels -> Nat \ {0}]
  /\ {SoonMargin, FirstDeadline, MaxTime, MaxRevision} \subseteq Nat

VARIABLES
  clock,        \* the time of day
  risk,         \* RiskLevel, by rank
  deadline,     \* ResponseDeadline
  sealed,       \* Status is sealed
  revision,     \* Revision
  commitments,  \* DeadlineCommitments
  owner,        \* the stored CommitmentOwnerID
  event,        \* the incident's last event about a commitment
  working       \* the command each handler carries out

vars == <<clock, risk, deadline, sealed, revision, commitments, owner, event, working>>

-----------------------------------------------------------------------------
\* renewed is history: was the commitment ever renewed.
Commitment == [owner : Owners \cup {Nobody}, due : Nat, committed : Nat,
               status : {"effective", "completed", "expired"}, renewed : BOOLEAN]

Kinds == {"acknowledged", "completed", "expired", "renewed"}

\* about is history: the commitment the command was about.  detail is the one
\* that enrichAuditDetails copies into the event, 0 if it copies none.
Event == [kind : Kinds \cup {"none"}, about : Nat, detail : Nat]

\* n: the commitment named in the path; now: what the handler read.
Command == [op : Kinds, n : Nat, owner : Owners \cup {Nobody}, due : Nat, now : Nat]

Idle == [op |-> "idle"]

Init ==
  /\ clock = 0
  /\ risk = 1
  /\ deadline = FirstDeadline
  /\ sealed = FALSE
  /\ revision = 1
  /\ commitments = <<>>
  /\ owner = Nobody
  /\ event = [kind |-> "none", about |-> 0, detail |-> 0]
  /\ working = [h \in Handlers |-> Idle]

-----------------------------------------------------------------------------
(* The rules.                                                              *)

Newest(numbers) == IF numbers = {} THEN 0 ELSE CHOOSE n \in numbers : \A m \in numbers : m <= n

activeDeadlineCommitment_UntilClosed(now) ==
  Newest({n \in DOMAIN commitments : commitments[n].status = "effective"})

\* The service's: the newest that is neither completed nor invalidated and not
\* yet due, 0 if there is none.
activeDeadlineCommitment(now) ==
  Newest({n \in DOMAIN commitments : commitments[n].status = "effective" /\ commitments[n].due > now})

\* The store's, written a second time.
effectiveCommitment(now) ==
  Newest({n \in DOMAIN commitments : commitments[n].status = "effective" /\ commitments[n].due > now})

AssessEscalation(now, acknowledged) ==
  IF sealed THEN "archived"
  ELSE IF deadline <= now
       THEN IF acknowledged THEN "overdue_acknowledged" ELSE "overdue_unacknowledged"
  ELSE IF deadline - now <= SoonMargin THEN "due_soon" ELSE "normal"

MaximumRemedyWindow == Remedy[risk]

-----------------------------------------------------------------------------
(* What is shown.                                                          *)

\* The work queue's escalation and owner.
escalationView(now) == AssessEscalation(now, effectiveCommitment(now) # 0)

QueryOwner(now) ==
  LET n == effectiveCommitment(now) IN IF n = 0 THEN Nobody ELSE commitments[n].owner

\* Service.Get: the stored owner stays when nothing is in effect.
GetOwner(now) ==
  LET n == activeDeadlineCommitment(now) IN IF n = 0 THEN owner ELSE commitments[n].owner

GetStatus(n, now) ==
  IF commitments[n].status = "completed" THEN "completed"
  ELSE IF commitments[n].status = "expired" \/ commitments[n].due <= now THEN "invalidated"
  ELSE "effective"

-----------------------------------------------------------------------------
(* Commands.                                                               *)

\* The handler reads the clock.  An acknowledgement is compared with it at
\* once, whatever the store knows of its request_id.
Begin(h, c) ==
  /\ working[h] = Idle
  /\ c.op = "acknowledged" => c.due > clock
  /\ working' = [working EXCEPT ![h] = [op |-> c.op, n |-> c.n, owner |-> c.owner,
                                        due |-> c.due, now |-> clock]]
  /\ UNCHANGED <<clock, risk, deadline, sealed, revision, commitments, owner, event>>

InWindow(c) == c.due > c.now /\ c.due <= c.now + MaximumRemedyWindow

AcknowledgeAllowed_AnyTime(c) ==
  /\ c.due <= c.now + MaximumRemedyWindow
  /\ AssessEscalation(c.now, activeDeadlineCommitment(c.now) # 0) \in {"due_soon", "overdue_unacknowledged"}

AcknowledgeAllowed(c) ==
  /\ AssessEscalation(c.now, activeDeadlineCommitment(c.now) # 0) \in {"due_soon", "overdue_unacknowledged"}
  /\ c.due <= c.now + MaximumRemedyWindow
  /\ activeDeadlineCommitment(c.now) = 0

CompleteAllowed(c) ==
  c.n \in DOMAIN commitments /\ commitments[c.n].status = "effective"

ExpireAllowed(c) ==
  /\ c.n \in DOMAIN commitments /\ commitments[c.n].status = "effective"
  /\ commitments[c.n].due <= c.now

RenewAllowed(c) ==
  /\ c.n \in DOMAIN commitments /\ commitments[c.n].status = "expired"
  /\ InWindow(c)

Allowed(c) ==
  /\ ~sealed
  /\ CASE c.op = "acknowledged" -> AcknowledgeAllowed(c)
       [] c.op = "completed"    -> CompleteAllowed(c)
       [] c.op = "expired"      -> ExpireAllowed(c)
       [] c.op = "renewed"      -> RenewAllowed(c)

enrichAuditDetails_First(kind, count) ==
  IF kind \in {"acknowledged", "completed"} /\ count > 0 THEN 1 ELSE 0

\* The details name the newest commitment, whichever the command was about.
enrichAuditDetails(kind, count) ==
  IF kind \in {"acknowledged", "completed"} THEN count ELSE 0

\* The rest of every command: the revision, the event, the answer.
Commit(h, about) ==
  /\ revision < MaxRevision
  /\ revision' = revision + 1
  /\ event' = [kind |-> working[h].op, about |-> about,
                detail |-> enrichAuditDetails(working[h].op, Len(commitments'))]
  /\ working' = [working EXCEPT ![h] = Idle]
  /\ UNCHANGED <<clock, risk, deadline, sealed>>

AcknowledgeDeadline(h) ==
  LET c == working[h]
  IN  /\ c.op = "acknowledged" /\ Allowed(c)
      /\ commitments' = Append(commitments, [owner |-> c.owner, due |-> c.due,
                                             committed |-> c.now, status |-> "effective",
                                             renewed |-> FALSE])
      /\ owner' = c.owner
      /\ Commit(h, Len(commitments'))

CompleteDeadlineCommitment(h) ==
  LET c == working[h]
  IN  /\ c.op = "completed" /\ Allowed(c)
      /\ commitments' = [commitments EXCEPT ![c.n].status = "completed"]
      /\ owner' = Nobody
      /\ Commit(h, c.n)

ExpireCommitment(h) ==
  LET c == working[h]
  IN  /\ c.op = "expired" /\ Allowed(c)
      /\ commitments' = [commitments EXCEPT ![c.n].status = "expired", ![c.n].owner = Nobody]
      /\ owner' = Nobody
      /\ Commit(h, c.n)

RenewCommitment_OwnerOfIncidentOnly(h) ==
  LET c == working[h]
  IN  /\ c.op = "renewed" /\ Allowed(c)
      /\ commitments' = [commitments EXCEPT
           ![c.n] = [@ EXCEPT !.due = c.due, !.committed = c.now,
                              !.status = "effective", !.renewed = TRUE]]
      /\ owner' = c.owner
      /\ Commit(h, c.n)

\* Whether another commitment is in effect is not asked.
RenewCommitment(h) ==
  LET c == working[h]
  IN  /\ c.op = "renewed" /\ Allowed(c)
      /\ commitments' = [commitments EXCEPT
           ![c.n] = [owner |-> c.owner, due |-> c.due, committed |-> c.now,
                     status |-> "effective", renewed |-> TRUE]]
      /\ owner' = c.owner
      /\ Commit(h, c.n)

\* Not allowed, or sent with another revision.
Refuse(h) ==
  /\ working[h] # Idle
  /\ working' = [working EXCEPT ![h] = Idle]
  /\ UNCHANGED <<clock, risk, deadline, sealed, revision, commitments, owner, event>>

-----------------------------------------------------------------------------
(* What else happens to the incident meanwhile.                            *)

Tick ==
  /\ clock < MaxTime
  /\ clock' = clock + 1
  /\ UNCHANGED <<risk, deadline, sealed, revision, commitments, owner, event, working>>

\* An inspection or further readings: the risk holds or rises, the deadline
\* holds or comes nearer.
Reassess(level, d) ==
  /\ ~sealed
  /\ revision < MaxRevision
  /\ level >= risk /\ d <= deadline
  /\ risk' = level
  /\ deadline' = d
  /\ revision' = revision + 1
  /\ UNCHANGED <<clock, sealed, commitments, owner, event, working>>

\* Commitments in effect do not stand in the way of the seal.
SignReopen ==
  /\ ~sealed
  /\ revision < MaxRevision
  /\ sealed' = TRUE
  /\ revision' = revision + 1
  /\ UNCHANGED <<clock, risk, deadline, commitments, owner, event, working>>

-----------------------------------------------------------------------------
\* What clients send: they know the commitments there are, and promise what
\* the lowest risk allows, which may be too late.
PromisedDue == (clock + 1)..(clock + Remedy[1])

Requests(h) ==
  [op : {"acknowledged"}, n : {0}, owner : {OwnerOf[h]}, due : PromisedDue]
  \cup [op : {"renewed"}, n : DOMAIN commitments, owner : {OwnerOf[h]}, due : PromisedDue]
  \cup [op : {"completed", "expired"}, n : DOMAIN commitments, owner : {Nobody}, due : {0}]

Finish(h) ==
  \/ AcknowledgeDeadline(h)
  \/ CompleteDeadlineCommitment(h)
  \/ ExpireCommitment(h)
  \/ RenewCommitment(h)
  \/ Refuse(h)

Next ==
  \/ \E h \in Handlers :
       \/ \E c \in Requests(h) : revision < MaxRevision /\ Begin(h, c)
       \/ AcknowledgeDeadline(h)
       \/ CompleteDeadlineCommitment(h)
       \/ ExpireCommitment(h)
       \/ RenewCommitment(h)
       \/ Refuse(h)
  \/ Tick
  \/ \E level \in 1..Levels, d \in {deadline, clock + 1} : Reassess(level, d)
  \/ SignReopen

Spec == Init /\ [][Next]_vars

\* A supervisor who has seen what is overdue and unacknowledged promises the
\* latest instant allowed.
TakeUp(h) ==
  \E c \in Requests(h) :
    /\ c.op = "acknowledged" /\ c.due = clock + MaximumRemedyWindow
    /\ revision < MaxRevision
    /\ escalationView(clock) = "overdue_unacknowledged"
    /\ Begin(h, c)

\* Handlers are scheduled; supervisors go on acknowledging, and not always
\* with a revision that is out of date.
FairSpec ==
  /\ Spec
  /\ \A h \in Handlers : WF_vars(Finish(h))
  /\ SF_vars(\E h \in Handlers : TakeUp(h))
  /\ SF_vars(\E h \in Handlers : AcknowledgeDeadline(h))

-----------------------------------------------------------------------------
\* Every variable keeps its type.
TypeOK ==
  /\ clock \in Nat /\ deadline \in Nat /\ revision \in Nat
  /\ risk \in 1..Levels
  /\ sealed \in BOOLEAN
  /\ commitments \in Seq(Commitment)
  /\ owner \in Owners \cup {Nobody}
  /\ event \in Event
  /\ working \in [Handlers -> Command \cup {Idle}]

-----------------------------------------------------------------------------
(* What must hold.                                                         *)

\* However late a handler comes to decide, nobody is made to answer for an
\* incident another already answers for: Get shows two commitments in effect
\* only when one of them came back by a renewal.
OneInEffect ==
  \A m, n \in DOMAIN commitments :
    /\ m < n
    /\ GetStatus(m, clock) = "effective" /\ GetStatus(n, clock) = "effective"
    => commitments[m].renewed \/ commitments[n].renewed

\* An incident shown as overdue and acknowledged has somebody who answers for
\* it, the same in the work queue and in the incident itself.
AcknowledgedIsOwned ==
  escalationView(clock) = "overdue_acknowledged" =>
    QueryOwner(clock) \in Owners /\ GetOwner(clock) = QueryOwner(clock)

\* Whoever an incident names as its owner has a commitment that was neither
\* completed nor expired.
OwnerHasCommitment ==
  \A o \in {QueryOwner(clock), GetOwner(clock)} \ {Nobody} :
    \E n \in DOMAIN commitments : commitments[n].owner = o /\ commitments[n].status = "effective"

\* Owner and commitments agree, though several commands change each of them.
OwnersCommitted == TypeOK /\ AcknowledgedIsOwned /\ OwnerHasCommitment

\* The event of a completion shows another commitment than the completed one
\* only if that one had run out before the other was entered into, or one of
\* them was renewed.  The event of an acknowledgement shows its own.
DetailMisleadsOnlyLate ==
  [][revision' > revision /\ event' # event =>
       LET e == event'
       IN  /\ e.kind = "acknowledged" => e.detail = e.about
           /\ e.kind = "completed" =>
                \/ e.detail = e.about
                \/ commitments[e.about].due <= commitments[e.detail].committed
                \/ commitments[e.about].renewed \/ commitments[e.detail].renewed]_vars

\* A commitment that ran out and that nobody closed does not block the next:
\* what is overdue and unacknowledged is taken up if supervisors keep trying
\* (and the instance has revisions left).
OverdueTakenUp ==
  escalationView(clock) = "overdue_unacknowledged" /\ revision < MaxRevision
    ~> escalationView(clock) # "overdue_unacknowledged" \/ revision = MaxRevision

=============================================================================
