------------------------------ MODULE WorkQueue -------------------------------
(***************************************************************************)
(* The work queue as it is read page by page: Service.Query and            *)
(* Store.Query beside the commands that change the incidents.              *)
(*                                                                         *)
(* The queue is sorted by urgency, and urgency changes: with the clock,    *)
(* when a risk is raised or a deadline brought forward, when an incident   *)
(* is sealed.  Against the clock the cursor carries the instant of the     *)
(* first page; against the rest it only names the last incident shown.     *)
(*                                                                         *)
(* Commands are atomic (module Store), and what raises a risk is left to   *)
(* Discovery: of an incident only what sorts and filters it is kept.  The  *)
(* incidents are numbered in the order in which they were opened, those    *)
(* opened at the same instant by their identifiers; one reported later may *)
(* have the lower number, for the instant is read before the store's lock. *)
(* Filters on what names an incident or its place, on its commitments and  *)
(* on missing evidence, the counts and the statistics are left out.        *)
(*                                                                         *)
(* No name here is one of Commitments too, so that a module can extend     *)
(* both.                                                                   *)
(*                                                                         *)
(* An operator whose name ends in an underscored remark is not part of the *)
(* specification: it is the definition that follows it with one plausible  *)
(* slip, kept to check that the properties notice.                         *)
(***************************************************************************)
EXTENDS Integers, Sequences, FiniteSets, SequencesExt

CONSTANTS
  N,          \* bound: incidents
  Clients,    \* those who page through the queue
  Filters,    \* bound: what they ask for
  MaxLimit,   \* bound: the largest page asked for
  RiskLevels, \* bound: risk levels, by rank
  Deadlines,  \* bound: response deadlines, in half hours
  Horizon     \* bound: how far the clock runs, in half hours

Statuses == {"open", "sealed"}

DeadlineStatuses == {"overdue", "due_soon", "normal", "archived"}

\* An empty set stands for a filter that was not given.
Filter == [statuses : SUBSET Statuses, risks : SUBSET RiskLevels,
           deadlines : SUBSET DeadlineStatuses]

ASSUME WorkQueueAssumption ==
  /\ {N, Horizon} \subseteq Nat
  /\ MaxLimit \in Nat \ {0}
  /\ RiskLevels \subseteq 1..4
  /\ Deadlines \subseteq Int
  /\ Filters \subseteq Filter
  /\ \A f \in Filters : Cardinality(f.deadlines) <= 1

VARIABLES
  time,       \* the present
  incidents,  \* Incidents: those reported, with what sorts and filters them
  listing     \* what each client is paging through

queueVars == <<time, incidents, listing>>

Ids == 1..N

Incident == [status : Statuses, risk : RiskLevels, deadline : Deadlines]

Stages == {"idle", "paging", "done", "invalid_cursor"}

\* The last three are kept for the properties only: the incidents that matched
\* at the first page, those changed since, and those shown last on a page.
Listing == [stage : Stages, filter : Filter, now : 0..Horizon, got : Seq(Ids),
            matched : SUBSET Ids, changed : SUBSET Ids, cursors : SUBSET Ids]

NoListing == [stage |-> "idle", filter |-> [statuses |-> {}, risks |-> {}, deadlines |-> {}],
              now |-> 0, got |-> <<>>, matched |-> {}, changed |-> {}, cursors |-> {}]

QueueInit ==
  /\ time = 0
  /\ incidents = <<>>
  /\ listing = [c \in Clients |-> NoListing]

-----------------------------------------------------------------------------
(* Commands and the clock.                                                 *)

Reported == DOMAIN incidents

\* An open listing remembers which incidents changed under it.
Noted(i) ==
  [c \in Clients |-> IF listing[c].stage \in {"paging", "done"}
                     THEN [listing[c] EXCEPT !.changed = @ \cup {i}] ELSE listing[c]]

\* Bound: nothing more happens once every listing has ended.
Watched == \E c \in Clients : listing[c].stage \in {"idle", "paging"}

Report(i, risk, deadline) ==
  /\ Watched
  /\ i \notin Reported
  /\ deadline > time
  /\ incidents' = [j \in Reported \cup {i} |->
       IF j = i THEN [status |-> "open", risk |-> risk, deadline |-> deadline] ELSE incidents[j]]
  /\ listing' = Noted(i)
  /\ UNCHANGED time

Open(i) == i \in Reported /\ incidents[i].status = "open"

\* Readings and inspection: the risk never falls, the deadline is kept or
\* brought forward, to an instant that is yet to come (RiskHoldsOrRises of
\* Discovery).
Raise(i, risk, deadline) ==
  /\ Watched /\ Open(i)
  /\ risk >= incidents[i].risk
  /\ deadline = incidents[i].deadline \/ deadline \in (time + 1)..incidents[i].deadline
  /\ [status |-> "open", risk |-> risk, deadline |-> deadline] # incidents[i]
  /\ incidents' = [incidents EXCEPT ![i].risk = risk, ![i].deadline = deadline]
  /\ listing' = Noted(i)
  /\ UNCHANGED time

Seal(i) ==
  /\ Watched /\ Open(i)
  /\ incidents' = [incidents EXCEPT ![i].status = "sealed"]
  /\ listing' = Noted(i)
  /\ UNCHANGED time

TimePasses == Watched /\ time < Horizon /\ time' = time + 1 /\ UNCHANGED <<incidents, listing>>

-----------------------------------------------------------------------------
(* The order of the queue.                                                 *)

deadlineView(i, now) ==
  IF incidents[i].status = "sealed" THEN "archived"
  ELSE IF incidents[i].deadline <= now THEN "overdue"
  ELSE IF incidents[i].deadline - now <= 2 THEN "due_soon" ELSE "normal"

deadlineRank(d) == CASE d = "overdue" -> 0 [] d = "due_soon" -> 1 [] d = "normal" -> 2
                     [] d = "archived" -> 3

\* Without a filter on the status, a question for archived incidents is one
\* for sealed ones, any other for those still open.
StatusesOf(f) ==
  IF f.statuses # {} THEN f.statuses
  ELSE IF "archived" \in f.deadlines THEN {"sealed"} ELSE {"open"}

Matches(i, f, now) ==
  /\ incidents[i].status \in StatusesOf(f)
  /\ f.risks # {} => incidents[i].risk \in f.risks
  /\ f.deadlines # {} => deadlineView(i, now) \in f.deadlines

Matching(f, now) == {i \in Reported : Matches(i, f, now)}

Before(i, j, now) ==
  LET di == deadlineRank(deadlineView(i, now))
      dj == deadlineRank(deadlineView(j, now))
      ri == incidents[i].risk
      rj == incidents[j].risk
  IN  \/ di < dj
      \/ di = dj /\ ri > rj
      \/ di = dj /\ ri = rj /\ i < j

Sorted(f, now) ==
  LET S == Matching(f, now)
  IN  [n \in 1..Cardinality(S) |->
         CHOOSE i \in S : Cardinality({j \in S : Before(j, i, now)}) = n - 1]

-----------------------------------------------------------------------------
(* Query.                                                                  *)

Now_OfRequest(l) == time

\* The instant of a page: the cursor's, once there is one.
Now(l) == IF l.got = <<>> THEN time ELSE l.now

CursorKnown(items, l) == l.got = <<>> \/ Last(l.got) \in ToSet(items)

Start_SamePlace(items, l) == Len(l.got) + 1

Start_AtCursor(items, l) ==
  IF l.got = <<>> THEN 1 ELSE CHOOSE n \in DOMAIN items : items[n] = Last(l.got)

\* The first incident after the one the cursor names.
Start(items, l) ==
  IF l.got = <<>> THEN 1 ELSE 1 + CHOOSE n \in DOMAIN items : items[n] = Last(l.got)

Smaller(m, n) == IF m < n THEN m ELSE n

\* The page, and whether there is a cursor for another one.
Served(l, limit) ==
  LET now   == Now(l)
      items == Sorted(l.filter, now)
      start == Start(items, l)
      end   == Smaller(start + limit - 1, Len(items))
      more  == end < Len(items) /\ end >= start
  IN  [l EXCEPT !.stage = IF more THEN "paging" ELSE "done",
                !.now = now,
                !.got = @ \o SubSeq(items, start, end),
                !.cursors = IF more THEN @ \cup {items[end]} ELSE @]

FirstPage(c, f, limit) ==
  /\ listing[c].stage = "idle"
  /\ listing' = [listing EXCEPT
       ![c] = Served([NoListing EXCEPT !.filter = f, !.matched = Matching(f, time)], limit)]
  /\ UNCHANGED <<time, incidents>>

\* A client asks for the next page with the same filter.
NextPage(c, limit) ==
  LET l == listing[c]
  IN  /\ l.stage = "paging"
      /\ CursorKnown(Sorted(l.filter, Now(l)), l)
      /\ listing' = [listing EXCEPT ![c] = Served(l, limit)]
      /\ UNCHANGED <<time, incidents>>

RefuseCursor(c) ==
  LET l == listing[c]
  IN  /\ l.stage = "paging"
      /\ ~CursorKnown(Sorted(l.filter, Now(l)), l)
      /\ listing' = [listing EXCEPT ![c].stage = "invalid_cursor"]
      /\ UNCHANGED <<time, incidents>>

QueueNext ==
  \/ \E i \in Ids :
       \/ \E risk \in RiskLevels, deadline \in Deadlines :
            Report(i, risk, deadline) \/ Raise(i, risk, deadline)
       \/ Seal(i)
  \/ TimePasses
  \/ \E c \in Clients :
       \/ \E f \in Filters, limit \in 1..MaxLimit : FirstPage(c, f, limit)
       \/ \E limit \in 1..MaxLimit : NextPage(c, limit)
       \/ RefuseCursor(c)

QueueSpec == QueueInit /\ [][QueueNext]_queueVars

-----------------------------------------------------------------------------
\* Every variable keeps its type: a listing shows incidents that exist.
QueueTypeOK ==
  /\ time \in 0..Horizon
  /\ incidents \in UNION {[S -> Incident] : S \in SUBSET Ids}
  /\ listing \in [Clients -> Listing]
  /\ \A c \in Clients : ToSet(listing[c].got) \subseteq Reported

-----------------------------------------------------------------------------
(* What must hold.                                                         *)

\* As long as no incident changes, the pages put together are the queue of
\* the first page's instant, each incident once and in order, though the
\* clock has moved on between them.
QuietPagesExact ==
  \A c \in Clients : LET l == listing[c] IN
    l.changed = {} =>
      /\ l.stage = "paging" => IsPrefix(l.got, Sorted(l.filter, l.now))
      /\ l.stage = "done" => l.got = Sorted(l.filter, l.now)

\* A quiet listing is the queue itself.
QuietListingSound == QueueTypeOK /\ QuietPagesExact

\* Whatever happens to other incidents while a client pages, also to those
\* its cursors name: a listing that comes to its end has shown every incident
\* that was in it at first and did not change, for an incident can only move
\* towards the head of the queue or out of it.  The exception is a listing of
\* open and sealed ones together: a cursor sealed meanwhile moves to the end.
UnchangedAreShown ==
  \A c \in Clients : LET l == listing[c] IN
    l.stage = "done" =>
      \/ l.matched \ l.changed \subseteq ToSet(l.got)
      \/ /\ StatusesOf(l.filter) = Statuses
         /\ \E i \in l.cursors \cap l.changed : ~Open(i)

\* An incident is shown twice only if it changed itself, or one changed that
\* a page had ended with.
RepeatsExplained ==
  \A c \in Clients : LET l == listing[c] IN
    \A m, n \in DOMAIN l.got :
      m # n /\ l.got[m] = l.got[n] => l.changed \cap (l.cursors \cup {l.got[m]}) # {}

\* A cursor is refused only if its own incident changed.
RefusalExplained ==
  \A c \in Clients :
    listing[c].stage = "invalid_cursor" => Last(listing[c].got) \in listing[c].changed

\* What a client may find odd in a listing has its reason in a change.
OdditiesExplained == RepeatsExplained /\ RefusalExplained

=============================================================================
