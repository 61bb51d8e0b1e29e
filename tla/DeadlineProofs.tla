--------------------------- MODULE DeadlineProofs ----------------------------
(***************************************************************************)
(* Theorems about the two modules in which the response deadline of an     *)
(* incident meets the clock: WorkQueue, which sorts by it, and Commitments,*)
(* in which it is promised and let pass.  They share no variable.          *)
(*                                                                         *)
(* The queue, for any number of incidents and clients, any filters and any *)
(* bounds: undisturbed pages put together are the queue, what did not      *)
(* change is shown, and what is odd has its reason.                        *)
(*                                                                         *)
(* The commitments, for every set of handlers and owners, every risk       *)
(* ladder and every bound: however late a handler comes to decide, at most *)
(* one unrenewed commitment is in effect, what names an owner has a        *)
(* commitment, and the events mislead only where they were seen to.        *)
(***************************************************************************)
EXTENDS WorkQueue, Commitments, SelectionFacts

-----------------------------------------------------------------------------
(* The order of the queue.                                                 *)

IncidentsTyped ==
  /\ time \in 0..Horizon
  /\ incidents \in UNION {[S -> Incident] : S \in SUBSET Ids}

LEMMA EntryTyped ==
  \A e \in Incident : /\ e.status \in Statuses /\ e.risk \in RiskLevels /\ e.risk \in Int
                      /\ e.deadline \in Int
<1>1. RiskLevels \subseteq 1..4 /\ Deadlines \subseteq Int
  BY WorkQueueAssumption
<1>2. \A e \in Incident : e.status \in Statuses /\ e.risk \in RiskLevels /\ e.deadline \in Deadlines
  BY DEF Incident
<1>3. \A x \in RiskLevels : x \in Int
  BY <1>1
<1>4. \A x \in Deadlines : x \in Int
  BY <1>1
<1> QED
  BY <1>2, <1>3, <1>4

LEMMA IncidentFacts ==
  ASSUME IncidentsTyped
  PROVE  /\ time \in Int /\ Reported \subseteq Ids /\ IsFiniteSet(Reported)
         /\ \A i \in Reported : /\ i \in Nat /\ incidents[i] \in Incident
                                /\ incidents[i].status \in Statuses
                                /\ incidents[i].risk \in RiskLevels /\ incidents[i].risk \in Int
                                /\ incidents[i].deadline \in Int
<1>1. N \in Nat /\ Horizon \in Nat /\ RiskLevels \subseteq 1..4 /\ Deadlines \subseteq Int
  BY WorkQueueAssumption
<1>2. PICK S \in SUBSET Ids : incidents \in [S -> Incident]
  BY DEF IncidentsTyped
<1>3. Reported = S
  BY <1>2 DEF Reported
<1>4. IsFiniteSet(Ids) /\ Reported \in SUBSET Ids
  BY <1>1, <1>3, FS_Interval DEF Ids
<1>5. IsFiniteSet(Reported)
  BY <1>4, FS_Subset
<1>6. \A i \in Reported : i \in Nat /\ incidents[i] \in Incident
  BY <1>1, <1>2, <1>3 DEF Ids
<1>7. \A e \in Incident : /\ e.status \in Statuses /\ e.risk \in RiskLevels /\ e.risk \in Int
                          /\ e.deadline \in Int
  BY EntryTyped
<1>8. time \in Int
  BY <1>1 DEF IncidentsTyped
<1> QED
  BY <1>4, <1>5, <1>6, <1>7, <1>8

Rank(i, now) == deadlineRank(deadlineView(i, now))

LEMMA RankOf ==
  ASSUME NEW i, NEW now
  PROVE  Rank(i, now) = IF incidents[i].status = "sealed" THEN 3
                        ELSE IF incidents[i].deadline <= now THEN 0
                        ELSE IF incidents[i].deadline - now <= 2 THEN 1 ELSE 2
  BY DEF Rank, deadlineRank, deadlineView

\* Before is a linear order.
LEMMA BeforeOrders ==
  ASSUME IncidentsTyped, NEW now \in Int
  PROVE  /\ \A i \in Reported : ~Before(i, i, now)
         /\ \A i, j \in Reported : i = j \/ Before(i, j, now) \/ Before(j, i, now)
         /\ \A i, j, k \in Reported : Before(i, j, now) /\ Before(j, k, now) => Before(i, k, now)
<1>1. \A i \in Reported : i \in Int /\ Rank(i, now) \in Int /\ incidents[i].risk \in Int
  BY IncidentFacts, RankOf
<1>2. \A i, j : Before(i, j, now) <=>
        \/ Rank(i, now) < Rank(j, now)
        \/ Rank(i, now) = Rank(j, now) /\ incidents[i].risk > incidents[j].risk
        \/ Rank(i, now) = Rank(j, now) /\ incidents[i].risk = incidents[j].risk /\ i < j
  BY DEF Before, Rank
<1>3. \A i \in Reported : ~Before(i, i, now)
  BY <1>1, <1>2
<1>4. \A i, j \in Reported : i = j \/ Before(i, j, now) \/ Before(j, i, now)
  BY <1>1, <1>2
<1>5. \A i, j, k \in Reported : Before(i, j, now) /\ Before(j, k, now) => Before(i, k, now)
  BY <1>1, <1>2
<1> QED
  BY <1>3, <1>4, <1>5

\* What is sorted is a list of all that match, each once, in order.
LEMMA SortedFacts ==
  ASSUME IncidentsTyped, NEW f, NEW now \in Int
  PROVE  LET s == Sorted(f, now)
         IN  /\ s \in Seq(Ids) /\ Len(s) \in Nat /\ DOMAIN s = 1..Len(s)
             /\ \A n \in 1..Len(s) : s[n] \in Matching(f, now)
             /\ \A i \in Matching(f, now) : \E n \in 1..Len(s) : s[n] = i
             /\ \A m, n \in 1..Len(s) : m < n <=> Before(s[m], s[n], now)
             /\ \A m, n \in 1..Len(s) : s[m] = s[n] => m = n
<1> DEFINE S == Matching(f, now)
           k == Cardinality(S)
           before == [i \in S |-> {j \in S : Before(j, i, now)}]
           s == Sorted(f, now)
<1>1. S \subseteq Reported /\ S \in SUBSET Reported /\ S \subseteq Ids
  BY IncidentFacts DEF Matching
<1>2. IsFiniteSet(S) /\ k \in Nat
  BY <1>1, IncidentFacts, FS_Subset, FS_CardinalityType
<1>3. /\ \A i \in S : ~Before(i, i, now)
      /\ \A i, j \in S : i = j \/ Before(i, j, now) \/ Before(j, i, now)
      /\ \A i, j, h \in S : Before(i, j, now) /\ Before(j, h, now) => Before(i, h, now)
  BY <1>1, BeforeOrders
<1>4. s = [n \in 1..k |-> CHOOSE i \in S : Cardinality({j \in S : Before(j, i, now)}) = n - 1]
  BY DEF Sorted
<1> HIDE DEF S, s, k
<1>5. \A i, j \in S : j \in before[i] <=> Before(j, i, now)
  OBVIOUS
<1>6. \A i \in S : before[i] = {j \in S : Before(j, i, now)} /\ before[i] \subseteq S
  OBVIOUS
<1> HIDE DEF before
<1>7. /\ \A i \in S : Cardinality(before[i]) \in Nat
      /\ \A i, j \in S : i \in before[j] <=> Cardinality(before[i]) < Cardinality(before[j])
      /\ \A n \in 1..k : \E i \in S : Cardinality(before[i]) = n - 1
  <2>1. \A i \in S : before[i] \subseteq S /\ i \notin before[i]
    BY <1>3, <1>5, <1>6
  <2>2. \A i, j \in S : i = j \/ i \in before[j] \/ j \in before[i]
    BY <1>3, <1>5
  <2>3. \A i, j, h \in S : i \in before[j] /\ j \in before[h] => i \in before[h]
    BY <1>3, <1>5
  <2> QED  BY <1>2, <2>1, <2>2, <2>3, Ranks DEF k
<1>8. \A n \in 1..k : s[n] \in S /\ Cardinality(before[s[n]]) = n - 1
  <2> SUFFICES ASSUME NEW n \in 1..k PROVE s[n] \in S /\ Cardinality(before[s[n]]) = n - 1
    OBVIOUS
  <2>1. s[n] = CHOOSE i \in S : Cardinality({j \in S : Before(j, i, now)}) = n - 1
    BY <1>4
  <2>2. \E i \in S : Cardinality({j \in S : Before(j, i, now)}) = n - 1
    BY <1>6, <1>7
  <2>3. s[n] \in S /\ Cardinality({j \in S : Before(j, s[n], now)}) = n - 1
    BY <2>1, <2>2
  <2> QED  BY <1>6, <2>3
<1>9. s \in [1..k -> Ids]
  <2>1. \A n \in 1..k : s[n] \in Ids
    BY <1>1, <1>8
  <2> DEFINE e(n) == CHOOSE i \in S : Cardinality({j \in S : Before(j, i, now)}) = n - 1
  <2>2. s = [n \in 1..k |-> e(n)]
    BY <1>4
  <2> HIDE DEF e
  <2>3. \A n \in 1..k : e(n) \in Ids
    BY <2>1, <2>2
  <2> QED  BY <2>2, <2>3
<1>10. s \in Seq(Ids) /\ Len(s) = k /\ DOMAIN s = 1..k
  BY <1>2, <1>9, ListFacts
<1>11. \A m, n \in 1..k : m < n <=> Before(s[m], s[n], now)
  <2> SUFFICES ASSUME NEW m \in 1..k, NEW n \in 1..k PROVE m < n <=> Before(s[m], s[n], now)
    OBVIOUS
  <2>1. Before(s[m], s[n], now) <=> m - 1 < n - 1
    BY <1>5, <1>7, <1>8
  <2> QED  BY <2>1
<1>12. \A m, n \in 1..k : s[m] = s[n] => m = n
  <2> SUFFICES ASSUME NEW m \in 1..k, NEW n \in 1..k, s[m] = s[n] PROVE m = n
    OBVIOUS
  <2>1. m - 1 = n - 1
    BY <1>8
  <2> QED  BY <2>1
<1>13. \A i \in S : \E n \in 1..k : s[n] = i
  <2> SUFFICES ASSUME NEW i \in S PROVE \E n \in 1..k : s[n] = i
    OBVIOUS
  <2> DEFINE n == Cardinality(before[i]) + 1
  <2>1. n \in Nat /\ n >= 1 /\ Cardinality(before[i]) = n - 1
    BY <1>7
  <2>2. n <= k
    <3>1. before[i] \in SUBSET S /\ before[i] # S
      BY <1>3, <1>5, <1>6
    <3>2. Cardinality(before[i]) <= k /\ Cardinality(before[i]) # k
      BY <1>2, <3>1, FS_Subset DEF k
    <3> QED  BY <1>2, <1>7, <3>2
  <2> HIDE DEF n
  <2>3. n \in 1..k
    BY <1>2, <2>1, <2>2
  <2>4. i = s[n]
    <3>1. s[n] \in S /\ Cardinality(before[s[n]]) = Cardinality(before[i])
      BY <1>8, <2>1, <2>3
    <3>2. ~(i \in before[s[n]]) /\ ~(s[n] \in before[i])
      BY <1>7, <3>1
    <3> QED  BY <1>3, <1>5, <3>1, <3>2
  <2> QED  BY <2>3, <2>4
<1> QED
  BY <1>2, <1>8, <1>10, <1>11, <1>12, <1>13 DEF S, s

-----------------------------------------------------------------------------
(* The inductive invariant, for each listing.                              *)

\* UnchangedAreShown excepts a listing of open and sealed incidents one of whose
\* cursors was sealed meanwhile.
Excepted(l) ==
  /\ StatusesOf(l.filter) = Statuses
  /\ \E i \in l.cursors \cap l.changed : ~Open(i)

\* Between two pages: what did not change still matches, and is either shown or
\* behind the cursor, unless the cursor will not be found again.
PagingSound(l) ==
  LET c == Last(l.got)
  IN  /\ l.got # <<>> /\ c \in l.cursors
      /\ \A i \in (l.matched \cup ToSet(l.got)) \ l.changed : Matches(i, l.filter, l.now)
      /\ "open" \notin StatusesOf(l.filter) => ~Open(c)
      /\ \/ Excepted(l)
         \/ StatusesOf(l.filter) = {"open"} /\ ~Open(c)
         \/ \A i \in l.matched \ (l.changed \cup ToSet(l.got)) : Before(c, i, l.now)
      /\ l.changed \cap l.cursors = {} =>
           \A g \in ToSet(l.got) \ l.changed : g = c \/ Before(g, c, l.now)

Quiet(l) ==
  l.changed = {} =>
    /\ l.stage = "paging" => Begins(l.got, Sorted(l.filter, l.now))
    /\ l.stage = "done" => l.got = Sorted(l.filter, l.now)

Complete(l) ==
  l.stage = "done" => Excepted(l) \/ l.matched \ l.changed \subseteq ToSet(l.got)

RepeatsOf(l) ==
  \A m, n \in DOMAIN l.got :
    m # n /\ l.got[m] = l.got[n] => l.changed \cap (l.cursors \cup {l.got[m]}) # {}

RefusalOf(l) == l.stage = "invalid_cursor" => Last(l.got) \in l.changed

Sound(l) ==
  /\ l \in Listing
  /\ l.matched \cup ToSet(l.got) \cup l.cursors \subseteq Reported
  /\ l.stage = "paging" => PagingSound(l)
  /\ Quiet(l) /\ Complete(l) /\ RepeatsOf(l) /\ RefusalOf(l)

QueueInv ==
  /\ IncidentsTyped
  /\ listing \in [Clients -> Listing]
  /\ \A c \in Clients, l \in Listing : l = listing[c] => Sound(l)

LEMMA ListingFacts ==
  ASSUME NEW l \in Listing
  PROVE  /\ l.stage \in Stages /\ l.filter \in Filter /\ l.now \in Int /\ l.now \in 0..Horizon
         /\ l.got \in Seq(Ids) /\ Len(l.got) \in Nat /\ DOMAIN l.got = 1..Len(l.got)
         /\ \A x : x \in ToSet(l.got) <=> \E n \in 1..Len(l.got) : l.got[n] = x
         /\ l.got # <<>> => Len(l.got) \in 1..Len(l.got) /\ Last(l.got) = l.got[Len(l.got)]
                            /\ Last(l.got) \in ToSet(l.got)
         /\ l.matched \subseteq Ids /\ l.changed \subseteq Ids /\ l.cursors \subseteq Ids
<1>1. /\ l.stage \in Stages /\ l.filter \in Filter /\ l.now \in 0..Horizon
      /\ l.got \in Seq(Ids)
      /\ l.matched \subseteq Ids /\ l.changed \subseteq Ids /\ l.cursors \subseteq Ids
  BY DEF Listing
<1>2. l.now \in Int
  BY <1>1, WorkQueueAssumption
<1>3. Len(l.got) \in Nat /\ DOMAIN l.got = 1..Len(l.got)
  BY <1>1, LenProperties
<1>4. \A x : x \in ToSet(l.got) <=> \E n \in 1..Len(l.got) : l.got[n] = x
  BY <1>3 DEF ToSet
<1>5. l.got # <<>> => Len(l.got) \in 1..Len(l.got) /\ Last(l.got) = l.got[Len(l.got)]
  BY <1>1, <1>3, EmptySeq DEF Last
<1> QED
  BY <1>1, <1>2, <1>3, <1>4, <1>5

LEMMA StatusesFacts ==
  ASSUME NEW f \in Filter
  PROVE  StatusesOf(f) \in {Statuses, {"open"}, {"sealed"}}
<1>1. f.statuses \subseteq Statuses
  BY DEF Filter
<1>2. \A S \in SUBSET Statuses : S # {} => S \in {Statuses, {"open"}, {"sealed"}}
  BY DEF Statuses
<1> QED
  BY <1>1, <1>2 DEF StatusesOf

LEMMA SoundInit == QueueInit => QueueInv
<1> SUFFICES ASSUME QueueInit PROVE QueueInv
  OBVIOUS
<1>1. time = 0 /\ incidents = <<>> /\ listing = [c \in Clients |-> NoListing]
  BY DEF QueueInit
<1>2. IncidentsTyped
  <2>1. <<>> \in [{} -> Incident] /\ {} \in SUBSET Ids
    OBVIOUS
  <2>2. 0 \in 0..Horizon
    BY WorkQueueAssumption
  <2> QED  BY <1>1, <2>1, <2>2 DEF IncidentsTyped
<1>3. NoListing \in Listing
  <2>1. [statuses |-> {}, risks |-> {}, deadlines |-> {}] \in Filter
    BY DEF Filter
  <2>2. "idle" \in Stages /\ 0 \in 0..Horizon /\ <<>> \in Seq(Ids)
    BY WorkQueueAssumption DEF Stages
  <2> QED  BY <2>1, <2>2 DEF NoListing, Listing
<1>4. /\ NoListing.stage = "idle" /\ NoListing.got = <<>> /\ NoListing.matched = {}
      /\ NoListing.cursors = {}
  BY DEF NoListing
<1>5. ToSet(NoListing.got) = {} /\ DOMAIN NoListing.got = {}
  BY <1>4 DEF ToSet
<1>6. Sound(NoListing)
  BY <1>3, <1>4, <1>5 DEF Sound, Quiet, Complete, RepeatsOf, RefusalOf
<1> QED
  BY <1>1, <1>2, <1>3, <1>6 DEF QueueInv

-----------------------------------------------------------------------------
(* A command changes one incident.                                         *)

\* It is new, or was open, and is now sealed or nearer to the head of the queue.
Moved(x) ==
  /\ Reported \subseteq Reported'
  /\ \A j \in Reported : j # x => incidents'[j] = incidents[j]
  /\ x \in Reported =>
       /\ Open(x)
       /\ \/ incidents'[x].status = "sealed"
          \/ /\ incidents'[x].status = "open"
             /\ incidents'[x].risk >= incidents[x].risk
             /\ incidents'[x].deadline <= incidents[x].deadline

\* Two that did not change keep their order, and one that moved towards the head
\* stays before those it was before.
LEMMA OrderKept ==
  ASSUME IncidentsTyped, IncidentsTyped', NEW x, Moved(x), NEW now \in Int,
         NEW i \in Reported, NEW j \in Reported, i # x,
         j = x => incidents'[x].status = "open"
  PROVE  /\ Before(j, i, now) => Before(j, i, now)'
         /\ j # x => (Before(i, j, now) => Before(i, j, now)')
<1>1. Rank(i, now)' = Rank(i, now) /\ incidents'[i] = incidents[i]
  BY DEF Moved, Rank, deadlineRank, deadlineView
<1>2. \A a, b : Before(a, b, now) <=>
        \/ Rank(a, now) < Rank(b, now)
        \/ Rank(a, now) = Rank(b, now) /\ incidents[a].risk > incidents[b].risk
        \/ Rank(a, now) = Rank(b, now) /\ incidents[a].risk = incidents[b].risk /\ a < b
  BY DEF Before, Rank
<1>3. \A a, b : Before(a, b, now)' <=>
        \/ Rank(a, now)' < Rank(b, now)'
        \/ Rank(a, now)' = Rank(b, now)' /\ incidents'[a].risk > incidents'[b].risk
        \/ Rank(a, now)' = Rank(b, now)' /\ incidents'[a].risk = incidents'[b].risk /\ a < b
  BY DEF Before, Rank
<1>4. CASE j # x
  <2>1. Rank(j, now)' = Rank(j, now) /\ incidents'[j] = incidents[j]
    BY <1>4 DEF Moved, Rank, deadlineRank, deadlineView
  <2> QED  BY <1>1, <1>2, <1>3, <2>1
<1>5. CASE j = x
  <2>1. /\ incidents[x].status = "open" /\ incidents'[x].status = "open"
        /\ incidents'[x].risk >= incidents[x].risk
        /\ incidents'[x].deadline <= incidents[x].deadline
    BY <1>5 DEF Moved, Open
  <2>2. /\ incidents[x].risk \in Int /\ incidents'[x].risk \in Int
        /\ incidents[x].deadline \in Int /\ incidents'[x].deadline \in Int
        /\ incidents[i].risk \in Int /\ x \in Int /\ i \in Int
    <3>1. x \in Reported /\ x \in Reported'
      BY <1>5 DEF Moved
    <3>2. PICK S \in SUBSET Ids : incidents' \in [S -> Incident]
      BY DEF IncidentsTyped
    <3>3. incidents'[x] \in Incident
      BY <3>1, <3>2 DEF Reported
    <3> QED  BY <3>1, <3>3, EntryTyped, IncidentFacts
  <2>3. Rank(x, now) = IF incidents[x].deadline <= now THEN 0
                       ELSE IF incidents[x].deadline - now <= 2 THEN 1 ELSE 2
    BY <2>1, RankOf
  <2>4. Rank(x, now)' = IF incidents'[x].deadline <= now THEN 0
                        ELSE IF incidents'[x].deadline - now <= 2 THEN 1 ELSE 2
    BY <2>1 DEF Rank, deadlineRank, deadlineView
  <2>5. Rank(i, now) \in Int
    BY RankOf
  <2>6. Rank(x, now)' <= Rank(x, now) /\ Rank(x, now) \in Int /\ Rank(x, now)' \in Int
    <3>1. CASE incidents'[x].deadline <= now
      BY <2>2, <2>3, <2>4, <3>1
    <3>2. CASE ~(incidents'[x].deadline <= now)
      <4>1. ~(incidents[x].deadline <= now)
        BY <2>1, <2>2, <3>2
      <4>2. incidents'[x].deadline - now > 2 => incidents[x].deadline - now > 2
        BY <2>1, <2>2
      <4> QED  BY <2>2, <2>3, <2>4, <3>2, <4>1, <4>2
    <3> QED  BY <3>1, <3>2
  <2>7. Before(x, i, now) => Before(x, i, now)'
    BY <1>1, <1>2, <1>3, <2>1, <2>2, <2>5, <2>6
  <2> QED  BY <1>5, <2>7
<1> QED
  BY <1>4, <1>5

\* An open listing stays sound, the incident being noted as changed.
LEMMA MovedSound ==
  ASSUME IncidentsTyped, IncidentsTyped', NEW x \in Ids, Moved(x), NEW l, Sound(l),
         l.stage \in {"paging", "done"}
  PROVE  Sound([l EXCEPT !.changed = @ \cup {x}])'
<1> DEFINE r == [l EXCEPT !.changed = @ \cup {x}]
           c == Last(l.got)
<1>1. l \in Listing
  BY DEF Sound
<1>2. /\ r.stage = l.stage /\ r.filter = l.filter /\ r.now = l.now /\ r.got = l.got
      /\ r.matched = l.matched /\ r.cursors = l.cursors /\ r.changed = l.changed \cup {x}
  BY <1>1 DEF Listing
<1>3. r \in Listing
  BY <1>1 DEF Listing
<1> HIDE DEF r
<1>4. /\ l.filter \in Filter /\ l.now \in Int
      /\ l.matched \subseteq Reported /\ ToSet(l.got) \subseteq Reported /\ l.cursors \subseteq Reported
  BY <1>1, ListingFacts DEF Sound
<1>5. Reported \subseteq Reported' /\ \A j \in Reported : j # x => incidents'[j] = incidents[j]
  BY DEF Moved
<1>6. r.matched \cup ToSet(r.got) \cup r.cursors \subseteq Reported'
  BY <1>2, <1>4, <1>5
<1>7. \A j \in Reported : ~Open(j) => ~Open(j)'
  <2> SUFFICES ASSUME NEW j \in Reported, ~Open(j) PROVE ~Open(j)'
    OBVIOUS
  <2>1. j # x
    BY DEF Moved
  <2>2. incidents'[j] = incidents[j]
    BY <1>5, <2>1
  <2> QED  BY <2>2 DEF Open
<1>8. Excepted(l) => Excepted(r)'
  BY <1>2, <1>4, <1>7 DEF Excepted
<1>9. ASSUME l.stage = "paging" PROVE PagingSound(r)'
  <2>1. PagingSound(l)
    BY <1>9 DEF Sound
  <2>2. l.got # <<>> /\ c \in l.cursors /\ c \in Reported
    BY <1>4, <2>1 DEF PagingSound
  <2>3. ASSUME NEW i \in (r.matched \cup ToSet(r.got)) \ r.changed
        PROVE  Matches(i, r.filter, r.now)'
    <3>1. i \in (l.matched \cup ToSet(l.got)) \ l.changed /\ i # x /\ i \in Reported
      BY <1>2, <1>4, <2>3
    <3>2. Matches(i, l.filter, l.now)
      BY <2>1, <3>1 DEF PagingSound
    <3>3. incidents'[i] = incidents[i]
      BY <1>5, <3>1
    <3> QED  BY <1>2, <3>2, <3>3 DEF Matches, deadlineView
  <2>4. "open" \notin StatusesOf(l.filter) => ~Open(c)'
    BY <1>7, <2>1, <2>2 DEF PagingSound
  <2>5. \/ Excepted(r)'
        \/ StatusesOf(l.filter) = {"open"} /\ ~Open(c)'
        \/ \A i \in l.matched \ (l.changed \cup {x} \cup ToSet(l.got)) : Before(c, i, l.now)'
    <3>1. CASE Excepted(l)
      BY <1>8, <3>1
    <3>2. CASE StatusesOf(l.filter) = {"open"} /\ ~Open(c)
      BY <1>7, <2>2, <3>2
    <3>3. CASE \A i \in l.matched \ (l.changed \cup ToSet(l.got)) : Before(c, i, l.now)
      <4>1. CASE c = x => incidents'[x].status = "open"
        <5>1. ASSUME NEW i \in l.matched \ (l.changed \cup {x} \cup ToSet(l.got))
              PROVE  Before(c, i, l.now)'
          <6>1. i \in Reported /\ i # x /\ Before(c, i, l.now)
            BY <1>4, <3>3, <5>1
          <6> QED  BY <1>4, <2>2, <4>1, <6>1, OrderKept
        <5> QED  BY <5>1
      <4>2. CASE ~(c = x => incidents'[x].status = "open")
        <5>1. c = x /\ Open(c) /\ incidents'[x].status = "sealed" /\ ~Open(c)'
          BY <2>2, <4>2 DEF Moved, Open
        <5>2. "open" \in StatusesOf(l.filter)
          BY <2>1, <5>1 DEF PagingSound
        <5>3. StatusesOf(l.filter) = Statuses \/ StatusesOf(l.filter) = {"open"}
          BY <1>4, <5>2, StatusesFacts
        <5>4. StatusesOf(l.filter) = Statuses => Excepted(r)'
          BY <1>2, <2>2, <5>1 DEF Excepted
        <5> QED  BY <5>1, <5>3, <5>4
      <4> QED  BY <4>1, <4>2
    <3> QED  BY <2>1, <3>1, <3>2, <3>3 DEF PagingSound
  <2>6. ASSUME r.changed \cap r.cursors = {}, NEW g \in ToSet(l.got) \ r.changed
        PROVE  g = c \/ Before(g, c, l.now)'
    <3>1. c # x /\ g # x /\ g \in Reported /\ g \in ToSet(l.got) \ l.changed
          /\ l.changed \cap l.cursors = {}
      BY <1>2, <1>4, <2>2, <2>6
    <3>2. g = c \/ Before(g, c, l.now)
      BY <2>1, <3>1 DEF PagingSound
    <3> QED  BY <1>4, <2>2, <3>1, <3>2, OrderKept
  <2> QED
    BY <1>2, <2>2, <2>3, <2>4, <2>5, <2>6 DEF PagingSound
<1>10. Quiet(r)'
  BY <1>2 DEF Quiet
<1>11. Complete(r)'
  BY <1>2, <1>8 DEF Complete, Sound
<1>12. RepeatsOf(r)'
  BY <1>2 DEF RepeatsOf, Sound
<1>13. RefusalOf(r)'
  BY <1>2 DEF RefusalOf
<1> QED
  BY <1>2, <1>3, <1>6, <1>9, <1>10, <1>11, <1>12, <1>13 DEF Sound, r


\* While the incidents stay as they are, so does what is said about a listing.
LEMMA SortedSame ==
  ASSUME incidents' = incidents, NEW f, NEW now
  PROVE  Sorted(f, now)' = Sorted(f, now)
  BY DEF Sorted, Matching, Matches, Before, deadlineRank, deadlineView, Reported

LEMMA SoundSame ==
  ASSUME incidents' = incidents, NEW l, Sound(l)
  PROVE  Sound(l)'
<1>1. Reported' = Reported /\ Sorted(l.filter, l.now)' = Sorted(l.filter, l.now)
  BY SortedSame DEF Reported
<1>2. /\ \A i : Open(i)' <=> Open(i)
      /\ \A i, now : deadlineView(i, now)' = deadlineView(i, now)
  BY DEF Open, Reported, deadlineView
<1>3. /\ \A i, f, now : Matches(i, f, now)' <=> Matches(i, f, now)
      /\ \A i, j, now : Before(i, j, now)' <=> Before(i, j, now)
  BY <1>2 DEF Matches, Before
<1>4. Excepted(l)' <=> Excepted(l)
  BY <1>2 DEF Excepted
<1>5. PagingSound(l)' <=> PagingSound(l)
  BY <1>2, <1>3, <1>4 DEF PagingSound
<1>6. (Quiet(l)' <=> Quiet(l)) /\ (Complete(l)' <=> Complete(l))
  BY <1>1, <1>4 DEF Quiet, Complete
<1>7. (RepeatsOf(l)' <=> RepeatsOf(l)) /\ (RefusalOf(l)' <=> RefusalOf(l))
  BY DEF RepeatsOf, RefusalOf
<1> QED
  BY <1>1, <1>5, <1>6, <1>7 DEF Sound


-----------------------------------------------------------------------------
(* A page.                                                                 *)

\* Where a listing may be asked for a page: at its start, or between two pages
\* with a cursor that is found.
Askable(l) ==
  /\ l \in Listing
  /\ l.matched \cup ToSet(l.got) \cup l.cursors \subseteq Reported
  /\ \/ /\ l.got = <<>> /\ l.changed = {} /\ l.cursors = {}
        /\ l.matched = Matching(l.filter, time)
     \/ l.stage = "paging" /\ Sound(l) /\ CursorKnown(Sorted(l.filter, Now(l)), l)

\* The page begins behind the cursor and ends where there is no more, or at an
\* incident that the next cursor names.
LEMMA PageFacts ==
  ASSUME IncidentsTyped, NEW l, Askable(l), NEW limit \in 1..MaxLimit
  PROVE  LET now   == Now(l)
             items == Sorted(l.filter, now)
             k     == Len(items)
             s     == Start(items, l)
             e     == Smaller(s + limit - 1, k)
         IN  /\ now \in 0..Horizon /\ now \in Int
             /\ k \in Nat /\ s \in 1..(k + 1) /\ e \in Int /\ s - 1 <= e /\ e <= k
             /\ ~(e < k /\ e >= s) => e = k
             /\ l.got = <<>> => s = 1
             /\ l.got # <<>> => /\ l.stage = "paging" /\ Sound(l) /\ now = l.now
                                /\ s > 1 /\ items[s - 1] = Last(l.got)
<1> DEFINE now   == Now(l)
           items == Sorted(l.filter, now)
           k     == Len(items)
           s     == Start(items, l)
           e     == Smaller(s + limit - 1, k)
<1>1. l \in Listing /\ l.now \in 0..Horizon
  BY ListingFacts DEF Askable
<1>2. Horizon \in Nat /\ MaxLimit \in Nat /\ limit \in Nat /\ limit >= 1
  BY WorkQueueAssumption
<1>3. now \in 0..Horizon
  BY <1>1 DEF Now, IncidentsTyped
<1>4. now \in Int
  BY <1>2, <1>3
<1>5. k \in Nat /\ DOMAIN items = 1..k
  <2> HIDE DEF now
  <2> QED  BY <1>4, SortedFacts
<1>6. l.got # <<>> => /\ l.stage = "paging" /\ Sound(l) /\ now = l.now
                      /\ Last(l.got) \in ToSet(items)
  BY DEF Askable, CursorKnown, Now
<1> HIDE DEF now, items
<1>7. l.got # <<>> => s - 1 \in 1..k /\ s \in Int /\ items[s - 1] = Last(l.got)
  <2> SUFFICES ASSUME l.got # <<>> PROVE s - 1 \in 1..k /\ s \in Int /\ items[s - 1] = Last(l.got)
    OBVIOUS
  <2> DEFINE p == CHOOSE n \in DOMAIN items : items[n] = Last(l.got)
  <2>1. \E n \in DOMAIN items : items[n] = Last(l.got)
    BY <1>6 DEF ToSet
  <2>2. p \in DOMAIN items /\ items[p] = Last(l.got)
    BY <2>1
  <2>3. s = 1 + p
    BY DEF Start
  <2> HIDE DEF p, s, k
  <2>4. s - 1 = p
    BY <1>5, <2>2, <2>3
  <2> QED  BY <1>5, <2>2, <2>3, <2>4
<1>8. l.got = <<>> => s = 1
  BY DEF Start
<1>9. e = IF s + limit - 1 < k THEN s + limit - 1 ELSE k
  BY DEF Smaller
<1> HIDE DEF s, e, k
<1>10. s \in 1..(k + 1) /\ (l.got # <<>> => s > 1)
  BY <1>5, <1>7, <1>8
<1>11. e \in Int /\ s - 1 <= e /\ e <= k /\ (~(e < k /\ e >= s) => e = k)
  BY <1>2, <1>5, <1>9, <1>10
<1> QED
  BY <1>3, <1>4, <1>5, <1>6, <1>7, <1>8, <1>10, <1>11 DEF now, items, k, s, e

\* What the page adds to the listing.
LEMMA ServedFacts ==
  ASSUME IncidentsTyped, NEW l, Askable(l), NEW limit \in 1..MaxLimit
  PROVE  LET now   == Now(l)
             items == Sorted(l.filter, now)
             k     == Len(items)
             s     == Start(items, l)
             e     == Smaller(s + limit - 1, k)
             w     == e - s + 1
             g     == Len(l.got)
             r     == Served(l, limit)
         IN  /\ r \in Listing
             /\ r.filter = l.filter /\ r.now = now
             /\ r.matched = l.matched /\ r.changed = l.changed
             /\ r.stage = IF e < k /\ e >= s THEN "paging" ELSE "done"
             /\ r.cursors = IF e < k /\ e >= s THEN l.cursors \cup {items[e]} ELSE l.cursors
             /\ g \in Nat /\ w \in Nat /\ Len(r.got) = g + w
             /\ \A n \in 1..g : r.got[n] = l.got[n]
             /\ \A n \in (g + 1)..(g + w) : r.got[n] = items[s + (n - g) - 1]
             /\ \A x : x \in ToSet(r.got) <=> x \in ToSet(l.got) \/ \E n \in s..e : items[n] = x
<1> DEFINE now   == Now(l)
           items == Sorted(l.filter, now)
           k     == Len(items)
           s     == Start(items, l)
           e     == Smaller(s + limit - 1, k)
           w     == e - s + 1
           g     == Len(l.got)
           r     == Served(l, limit)
           page  == SubSeq(items, s, e)
           more  == e < k /\ e >= s
<1>1. l \in Listing /\ l.got \in Seq(Ids) /\ g \in Nat
  BY ListingFacts DEF Askable
<1>2. /\ now \in 0..Horizon /\ now \in Int
      /\ k \in Nat /\ s \in 1..(k + 1) /\ e \in Int /\ s - 1 <= e /\ e <= k
  BY PageFacts
<1>3. items \in Seq(Ids) /\ DOMAIN items = 1..k
  <2> HIDE DEF now
  <2> QED  BY <1>2, SortedFacts
<1>4. r = [l EXCEPT !.stage = IF more THEN "paging" ELSE "done",
                    !.now = now,
                    !.got = @ \o page,
                    !.cursors = IF more THEN @ \cup {items[e]} ELSE @]
  BY DEF Served
<1>5. w \in Nat /\ s \in Nat /\ e = s + w - 1
  <2> HIDE DEF s, e, k
  <2> QED  BY <1>2
<1> HIDE DEF now, items, k, s, e, r, g
<1>6. /\ page \in Seq(Ids) /\ Len(page) = w
      /\ \A n \in 1..w : page[n] = items[s + n - 1]
  <2> HIDE DEF page
  <2>1. s \in 1..Len(items) + 1 /\ e \in (s - 1)..Len(items)
    BY <1>2 DEF k
  <2>2. page = SubSeq(items, s, e)
    BY DEF page
  <2> QED  BY <1>2, <1>3, <2>1, <2>2, SubSeqProperties
<1> HIDE DEF page, w
<1>7. /\ l.got \o page \in Seq(Ids) /\ Len(l.got \o page) = g + w
      /\ \A n \in 1..g : (l.got \o page)[n] = l.got[n]
      /\ \A n \in (g + 1)..(g + w) : (l.got \o page)[n] = page[n - g]
  <2>1. \A n \in 1..(g + w) :
          (l.got \o page)[n] = IF n <= g THEN l.got[n] ELSE page[n - g]
    BY <1>1, <1>6, <1>5, ConcatProperties DEF g
  <2>2. l.got \o page \in Seq(Ids) /\ Len(l.got \o page) = g + w
    BY <1>1, <1>5, <1>6, ConcatProperties DEF g
  <2>3. \A n \in 1..g : n \in 1..(g + w) /\ n <= g
    BY <1>1, <1>5
  <2>4. \A n \in (g + 1)..(g + w) : n \in 1..(g + w) /\ ~(n <= g)
    BY <1>1, <1>5
  <2> QED  BY <2>1, <2>2, <2>3, <2>4
<1>8. more => items[e] \in Ids
  BY <1>2, <1>3, ElementOfSeq DEF k
<1>9. /\ r.filter = l.filter /\ r.now = now
      /\ r.matched = l.matched /\ r.changed = l.changed
      /\ r.stage = IF more THEN "paging" ELSE "done"
      /\ r.cursors = IF more THEN l.cursors \cup {items[e]} ELSE l.cursors
      /\ r.got = l.got \o page
  BY <1>1, <1>4 DEF Listing
<1>10. r \in Listing
  <2>1. r.stage \in Stages /\ r.filter \in Filter /\ r.now \in 0..Horizon
        /\ r.got \in Seq(Ids) /\ r.matched \in SUBSET Ids /\ r.changed \in SUBSET Ids
        /\ r.cursors \in SUBSET Ids
    BY <1>1, <1>2, <1>7, <1>8, <1>9 DEF Listing, Stages
  <2>2. \E st, fl, nw, gt, mt, ch, cu :
          l = [stage |-> st, filter |-> fl, now |-> nw, got |-> gt,
               matched |-> mt, changed |-> ch, cursors |-> cu]
    BY <1>1 DEF Listing
  <2>3. r = [stage |-> r.stage, filter |-> r.filter, now |-> r.now, got |-> r.got,
             matched |-> r.matched, changed |-> r.changed, cursors |-> r.cursors]
    BY <1>4, <2>2
  <2> QED  BY <2>1, <2>3 DEF Listing
<1> HIDE DEF more
<1>11. \A n \in (g + 1)..(g + w) : r.got[n] = items[s + (n - g) - 1]
  <2> SUFFICES ASSUME NEW n \in (g + 1)..(g + w)
               PROVE  r.got[n] = items[s + (n - g) - 1]
    OBVIOUS
  <2>1. n - g \in 1..w
    BY <1>1, <1>5
  <2>2. r.got[n] = page[n - g]
    BY <1>7, <1>9
  <2> QED  BY <1>6, <2>1, <2>2
<1>12. \A x : x \in ToSet(r.got) <=> x \in ToSet(l.got) \/ \E n \in s..e : items[n] = x
  <2> SUFFICES ASSUME NEW x
               PROVE  x \in ToSet(r.got) <=> x \in ToSet(l.got) \/ \E n \in s..e : items[n] = x
    OBVIOUS
  <2>1. x \in ToSet(r.got) <=> \E n \in 1..(g + w) : r.got[n] = x
    <3>1. Len(r.got) = g + w
      BY <1>7, <1>9
    <3> QED  BY <1>10, <3>1, ListingFacts
  <2>2. x \in ToSet(l.got) <=> \E n \in 1..g : l.got[n] = x
    BY <1>1, ListingFacts DEF g
  <2>3. ASSUME NEW n \in 1..(g + w), r.got[n] = x
        PROVE  x \in ToSet(l.got) \/ \E m \in s..e : items[m] = x
    <3>1. CASE n \in 1..g
      BY <1>7, <1>9, <2>2, <2>3, <3>1
    <3>2. CASE n \notin 1..g
      <4>1. n \in (g + 1)..(g + w) /\ s + (n - g) - 1 \in s..e
        BY <1>1, <1>5, <3>2
      <4> QED  BY <1>11, <2>3, <4>1
    <3> QED  BY <3>1, <3>2
  <2>4. ASSUME NEW n \in 1..g, l.got[n] = x PROVE x \in ToSet(r.got)
    <3>1. n \in 1..(g + w) /\ r.got[n] = x
      BY <1>1, <1>5, <1>7, <1>9, <2>4
    <3> QED  BY <2>1, <3>1
  <2>5. ASSUME NEW n \in s..e, items[n] = x PROVE x \in ToSet(r.got)
    <3> DEFINE m == g + (n - s + 1)
    <3>1. m \in (g + 1)..(g + w) /\ m \in 1..(g + w)
          /\ s + (m - g) - 1 = n
      BY <1>1, <1>5
    <3> HIDE DEF m
    <3>2. r.got[m] = x
      BY <1>11, <2>5, <3>1
    <3> QED  BY <2>1, <3>1, <3>2
  <2> QED  BY <2>1, <2>2, <2>3, <2>4, <2>5
<1> QED
  BY <1>1, <1>7, <1>9, <1>10, <1>11, <1>12, <1>5 DEF now, items, k, s, e, r, g, w, more


\* A sound listing is sound with one page more.
LEMMA ServedSound ==
  ASSUME IncidentsTyped, NEW l, Askable(l), NEW limit \in 1..MaxLimit
  PROVE  Sound(Served(l, limit))
<1> DEFINE now   == Now(l)
           items == Sorted(l.filter, now)
           k     == Len(items)
           s     == Start(items, l)
           e     == Smaller(s + limit - 1, k)
           w     == e - s + 1
           g     == Len(l.got)
           r     == Served(l, limit)
           more  == e < k /\ e >= s
           c     == Last(l.got)
           M     == Matching(l.filter, now)
<1>1. /\ now \in 0..Horizon /\ now \in Int
      /\ k \in Nat /\ s \in 1..(k + 1) /\ e \in Int /\ s - 1 <= e /\ e <= k
      /\ ~more => e = k
      /\ l.got = <<>> => s = 1
      /\ l.got # <<>> => /\ l.stage = "paging" /\ Sound(l) /\ now = l.now
                         /\ s > 1 /\ items[s - 1] = c
  BY PageFacts
<1>2. /\ r \in Listing
      /\ r.filter = l.filter /\ r.now = now
      /\ r.matched = l.matched /\ r.changed = l.changed
      /\ r.stage = IF more THEN "paging" ELSE "done"
      /\ r.cursors = IF more THEN l.cursors \cup {items[e]} ELSE l.cursors
      /\ g \in Nat /\ w \in Nat /\ Len(r.got) = g + w
      /\ \A n \in 1..g : r.got[n] = l.got[n]
      /\ \A n \in (g + 1)..(g + w) : r.got[n] = items[s + (n - g) - 1]
      /\ \A x : x \in ToSet(r.got) <=> x \in ToSet(l.got) \/ \E n \in s..e : items[n] = x
  BY ServedFacts
<1>3. /\ \A n \in 1..k : items[n] \in M
      /\ \A i \in M : \E n \in 1..k : items[n] = i
      /\ \A m, n \in 1..k : m < n <=> Before(items[m], items[n], now)
      /\ \A m, n \in 1..k : items[m] = items[n] => m = n
  <2> HIDE DEF now
  <2> QED  BY <1>1, SortedFacts
<1>4. /\ l \in Listing /\ l.filter \in Filter
      /\ l.matched \cup ToSet(l.got) \cup l.cursors \subseteq Reported
      /\ DOMAIN l.got = 1..g
      /\ l.got # <<>> => g \in 1..g /\ c = l.got[g] /\ c \in ToSet(l.got)
      /\ \A x : x \in ToSet(l.got) <=> \E n \in 1..g : l.got[n] = x
  BY ListingFacts DEF Askable
<1>5. l.got = <<>> =>
        g = 0 /\ ToSet(l.got) = {} /\ l.changed = {} /\ l.cursors = {} /\ l.matched = M
  <2>1. l.got = <<>> => now = time
    BY DEF Now
  <2>2. l.got = <<>> => l.stage # "paging" \/ ~Sound(l)
    BY DEF Sound, PagingSound
  <2> QED  BY <1>4, <2>1, <2>2 DEF Askable, ToSet
<1>6. l.got # <<>> => PagingSound(l) /\ Quiet(l) /\ RepeatsOf(l)
  BY <1>1 DEF Sound
<1>7. /\ \A i : i \in M <=> i \in Reported /\ Matches(i, l.filter, now)
      /\ M \subseteq Reported
  BY DEF Matching
<1>8. w = e - s + 1
  OBVIOUS
<1> HIDE DEF now, items, k, s, e, w, g, r, more, c, M
<1>9. r.matched \cup ToSet(r.got) \cup r.cursors \subseteq Reported
  <2>1. \A n \in s..e : n \in 1..k
    BY <1>1
  <2>2. more => e \in 1..k
    BY <1>1 DEF more
  <2> QED  BY <1>2, <1>3, <1>4, <1>7, <2>1, <2>2
<1>10. Excepted(l) => Excepted(r)
  BY <1>2 DEF Excepted
\* What did not change and was not shown yet is behind the page, or the listing
\* is of the excepted kind.
<1>11. \/ Excepted(r)
       \/ \A i \in r.matched \ (r.changed \cup ToSet(r.got)) : \E n \in (e + 1)..k : items[n] = i
  <2>1. SUFFICES ASSUME ~Excepted(r), NEW i \in r.matched \ (r.changed \cup ToSet(r.got))
                 PROVE  \E n \in (e + 1)..k : items[n] = i
    OBVIOUS
  <2>2. i \in l.matched \ (l.changed \cup ToSet(l.got)) /\ i \in Reported
        /\ \A n \in s..e : items[n] # i
    BY <1>2, <1>4
  <2>3. i \in M
    BY <1>1, <1>5, <1>6, <1>7, <2>2 DEF PagingSound
  <2>4. PICK n \in 1..k : items[n] = i
    BY <1>3, <2>3
  <2>5. n >= s
    <3>1. CASE l.got = <<>>
      BY <1>1, <3>1
    <3>2. CASE l.got # <<>>
      <4>1. s - 1 \in 1..k /\ items[s - 1] = c
        BY <1>1, <3>2
      <4>2. ~(StatusesOf(l.filter) = {"open"} /\ ~Open(c))
        <5>1. Matches(c, l.filter, now) /\ c \in Reported
          BY <1>3, <1>7, <4>1
        <5> QED  BY <5>1 DEF Matches, Open
      <4>3. Before(c, i, now)
        BY <1>1, <1>6, <1>10, <2>1, <2>2, <3>2, <4>2 DEF PagingSound, c
      <4>4. s - 1 < n
        BY <1>3, <2>4, <4>1, <4>3
      <4> QED  BY <1>1, <4>4
    <3> QED  BY <3>1, <3>2
  <2>6. ~(n \in s..e)
    BY <2>2, <2>4
  <2> QED  BY <1>1, <2>4, <2>5, <2>6
<1>12. ASSUME more PROVE PagingSound(r)
  <2>1. e \in 1..k /\ e \in s..e /\ e < k
    BY <1>1, <1>12 DEF more
  <2>2. r.got # <<>> /\ Last(r.got) = items[e] /\ items[e] \in r.cursors
    <3>1. w >= 1 /\ g + w \in (g + 1)..(g + w) /\ s + ((g + w) - g) - 1 = e
      BY <1>1, <1>2, <1>8, <2>1
    <3>2. r.got[Len(r.got)] = items[e] /\ Len(r.got) > 0
      BY <1>2, <3>1
    <3>3. r.got # <<>>
      <4>1. Len(<<>>) = 0
        BY EmptySeq
      <4> QED  BY <3>2, <4>1
    <3>4. Last(r.got) = r.got[Len(r.got)]
      BY <1>2, <3>3, ListingFacts
    <3> QED  BY <1>2, <1>12, <3>2, <3>3, <3>4
  <2>3. \A i \in (r.matched \cup ToSet(r.got)) \ r.changed : Matches(i, r.filter, r.now)
    <3> SUFFICES ASSUME NEW i \in (r.matched \cup ToSet(r.got)) \ r.changed
                 PROVE  Matches(i, r.filter, r.now)
      OBVIOUS
    <3>1. CASE \E n \in s..e : items[n] = i
      <4>1. PICK n \in s..e : items[n] = i
        BY <3>1
      <4>2. n \in 1..k
        BY <1>1, <4>1
      <4> QED  BY <1>2, <1>3, <1>7, <4>1, <4>2
    <3>2. CASE i \in (l.matched \cup ToSet(l.got)) \ l.changed
      BY <1>1, <1>2, <1>5, <1>6, <1>7, <3>2 DEF PagingSound
    <3> QED  BY <1>2, <3>1, <3>2
  <2>4. "open" \notin StatusesOf(r.filter) => ~Open(items[e])
    <3>1. Matches(items[e], r.filter, r.now)
      BY <1>2, <1>3, <1>7, <2>1
    <3> QED  BY <3>1 DEF Matches, Open
  <2>5. \/ Excepted(r)
        \/ \A i \in r.matched \ (r.changed \cup ToSet(r.got)) : Before(items[e], i, r.now)
    <3> SUFFICES ASSUME NEW i \in r.matched \ (r.changed \cup ToSet(r.got)),
                        NEW n \in (e + 1)..k, items[n] = i
                 PROVE  Before(items[e], i, r.now)
      BY <1>11
    <3>1. n \in 1..k /\ e < n
      BY <1>1, <2>1
    <3> QED  BY <1>2, <1>3, <2>1, <3>1
  <2>6. r.changed \cap r.cursors = {} =>
          \A x \in ToSet(r.got) \ r.changed : x = items[e] \/ Before(x, items[e], r.now)
    <3> SUFFICES ASSUME r.changed \cap r.cursors = {}, NEW x \in ToSet(r.got) \ r.changed
                 PROVE  x = items[e] \/ Before(x, items[e], r.now)
      OBVIOUS
    <3>1. CASE \E n \in s..e : items[n] = x
      <4>1. PICK n \in s..e : items[n] = x
        BY <3>1
      <4>2. n \in 1..k /\ (n = e \/ n < e)
        BY <1>1, <2>1, <4>1
      <4> QED  BY <1>2, <1>3, <2>1, <4>1, <4>2
    <3>2. CASE x \in ToSet(l.got)
      <4>1. l.got # <<>> /\ l.changed \cap l.cursors = {} /\ x \notin l.changed
        BY <1>2, <1>5, <3>2
      <4>2. x = c \/ Before(x, c, now)
        BY <1>1, <1>6, <3>2, <4>1 DEF PagingSound, c
      <4>3. s - 1 \in 1..k /\ s - 1 < e /\ items[s - 1] = c
        BY <1>1, <2>1, <4>1
      <4>4. Before(c, items[e], now)
        BY <1>3, <2>1, <4>3
      <4>5. x \in Reported /\ c \in Reported /\ items[e] \in Reported
        BY <1>3, <1>4, <1>7, <2>1, <3>2, <4>1
      <4> QED  BY <1>1, <1>2, <4>2, <4>4, <4>5, BeforeOrders
    <3> QED  BY <1>2, <3>1, <3>2
  <2> QED
    BY <2>2, <2>3, <2>4, <2>5, <2>6 DEF PagingSound
\* While nothing changes, the pages are the head of the queue.
<1>13. ASSUME r.changed = {}
       PROVE  g + w = e /\ \A n \in 1..e : r.got[n] = items[n]
  <2>1. g = s - 1 /\ \A n \in 1..g : l.got[n] = items[n]
    <3>1. CASE l.got = <<>>
      BY <1>1, <1>5, <3>1
    <3>2. CASE l.got # <<>>
      <4>1. Begins(l.got, items)
        BY <1>1, <1>2, <1>6, <1>13, <3>2 DEF Quiet, items, now
      <4>2. g <= k /\ \A n \in 1..g : l.got[n] = items[n]
        BY <4>1 DEF Begins, g, k
      <4>3. g \in 1..k /\ s - 1 \in 1..k /\ items[g] = items[s - 1]
        BY <1>1, <1>2, <1>4, <3>2, <4>2
      <4> QED  BY <1>3, <4>2, <4>3
    <3> QED  BY <3>1, <3>2
  <2>2. g + w = e
    BY <1>1, <1>2, <1>8, <2>1
  <2>3. ASSUME NEW n \in 1..e PROVE r.got[n] = items[n]
    <3>1. CASE n \in 1..g
      BY <1>2, <2>1, <3>1
    <3>2. CASE n \notin 1..g
      <4>1. n \in (g + 1)..(g + w) /\ s + (n - g) - 1 = n
        BY <1>1, <1>2, <2>1, <2>2, <2>3, <3>2
      <4> QED  BY <1>2, <4>1
    <3> QED  BY <3>1, <3>2
  <2> QED  BY <2>2, <2>3
<1>14. Quiet(r)
  <2> SUFFICES ASSUME r.changed = {}
               PROVE  /\ r.stage = "paging" => Begins(r.got, Sorted(r.filter, r.now))
                      /\ r.stage = "done" => r.got = Sorted(r.filter, r.now)
    BY DEF Quiet
  <2>1. Sorted(r.filter, r.now) = items
    BY <1>2 DEF items
  <2>2. Len(r.got) = e /\ \A n \in 1..e : r.got[n] = items[n]
    BY <1>2, <1>13
  <2>3. Begins(r.got, items)
    BY <1>1, <2>2 DEF Begins, k
  <2>4. r.stage = "done" => r.got = items
    <3> SUFFICES ASSUME r.stage = "done" PROVE r.got = items
      OBVIOUS
    <3>1. Len(r.got) = Len(items)
      BY <1>1, <1>2, <2>2 DEF k
    <3>2. r.got \in Seq(Ids) /\ items \in Seq(Ids)
      BY <1>1, <1>2, ListingFacts, SortedFacts DEF items
    <3> QED  BY <2>2, <3>1, <3>2, SeqEqual
  <2> QED  BY <2>1, <2>3, <2>4
<1>15. Complete(r)
  <2> SUFFICES ASSUME r.stage = "done", ~Excepted(r),
                      NEW i \in r.matched \ r.changed, i \notin ToSet(r.got)
               PROVE  FALSE
    BY DEF Complete
  <2>1. e = k
    BY <1>1, <1>2
  <2>2. \E n \in (e + 1)..k : items[n] = i
    BY <1>11
  <2> QED  BY <1>1, <2>1, <2>2
<1>16. RepeatsOf(r)
  <2>1. ASSUME NEW m \in 1..(g + w), NEW n \in 1..(g + w), m < n, r.got[m] = r.got[n]
        PROVE  r.changed \cap (r.cursors \cup {r.got[m]}) # {}
    <3>1. CASE n <= g
      <4>1. m \in 1..g /\ n \in 1..g /\ m # n /\ l.got[m] = l.got[n] /\ l.got[m] = r.got[m]
        BY <1>2, <2>1, <3>1
      <4>2. l.got # <<>>
        BY <1>5, <4>1
      <4>3. l.changed \cap (l.cursors \cup {l.got[m]}) # {}
        BY <1>4, <1>6, <4>1, <4>2 DEF RepeatsOf
      <4> QED  BY <1>2, <4>1, <4>3
    <3>2. CASE m > g
      <4>1. m \in (g + 1)..(g + w) /\ n \in (g + 1)..(g + w)
        BY <1>2, <2>1, <3>2
      <4>2. items[s + (m - g) - 1] = items[s + (n - g) - 1]
        BY <1>2, <2>1, <4>1
      <4>3. s + (m - g) - 1 \in 1..k /\ s + (n - g) - 1 \in 1..k
        BY <1>1, <1>2, <1>8, <4>1
      <4>4. s + (m - g) - 1 = s + (n - g) - 1
        BY <1>3, <4>2, <4>3
      <4> QED  BY <1>1, <1>2, <2>1, <4>4
    <3>3. CASE m <= g /\ n > g
      <4> SUFFICES ASSUME l.changed \cap (l.cursors \cup {r.got[m]}) = {} PROVE FALSE
        BY <1>2
      <4>1. m \in 1..g /\ n \in (g + 1)..(g + w) /\ s + (n - g) - 1 \in 1..k
            /\ s + (n - g) - 1 >= s
        BY <1>1, <1>2, <1>8, <2>1, <3>3
      <4> DEFINE j == s + (n - g) - 1
      <4>2. l.got[m] = items[j] /\ l.got[m] \in ToSet(l.got) /\ l.got[m] = r.got[m]
        BY <1>2, <1>4, <2>1, <4>1
      <4>3. j \in 1..k /\ j >= s
        BY <4>1
      <4> HIDE DEF j
      <4>4. l.got # <<>>
        BY <1>5, <4>2
      <4>5. items[j] = c \/ Before(items[j], c, now)
        BY <1>1, <1>6, <4>2, <4>4 DEF PagingSound, c
      <4>6. s - 1 \in 1..k /\ items[s - 1] = c /\ s - 1 < j
        BY <1>1, <4>3, <4>4
      <4>7. j = s - 1 \/ j < s - 1
        BY <1>3, <4>3, <4>5, <4>6
      <4> QED  BY <1>1, <4>3, <4>6, <4>7
    <3> QED  BY <1>2, <2>1, <3>1, <3>2, <3>3
  <2>2. DOMAIN r.got = 1..(g + w)
    BY <1>2, ListingFacts
  <2>3. \A m, n \in 1..(g + w) : m # n => m < n \/ n < m
    BY <1>2
  <2> QED  BY <2>1, <2>2, <2>3 DEF RepeatsOf
<1>17. RefusalOf(r)
  BY <1>2 DEF RefusalOf
<1> QED
  BY <1>2, <1>9, <1>12, <1>14, <1>15, <1>16, <1>17 DEF Sound, r


\* A listing that is not open stays as it is, and nothing is said of its pages
\* but that they were explained.
LEMMA ClosedSound ==
  ASSUME IncidentsTyped, IncidentsTyped', NEW x, Moved(x), NEW l, Sound(l),
         l.stage \notin {"paging", "done"}
  PROVE  Sound(l)'
<1>1. Reported \subseteq Reported'
  BY DEF Moved
<1>2. l.matched \cup ToSet(l.got) \cup l.cursors \subseteq Reported'
  BY <1>1 DEF Sound
<1>3. Quiet(l)' /\ Complete(l)'
  BY DEF Quiet, Complete
<1>4. RepeatsOf(l)' /\ RefusalOf(l)'
  BY DEF Sound, RepeatsOf, RefusalOf
<1> QED
  BY <1>2, <1>3, <1>4 DEF Sound

\* A list begins with another if that one is a prefix of it.
LEMMA PrefixBegins ==
  ASSUME NEW T, NEW s \in Seq(T), NEW t \in Seq(T), Begins(s, t)
  PROVE  IsPrefix(s, t)
<1>1. Len(s) \in Nat /\ Len(t) \in Nat /\ Len(s) <= Len(t)
  BY LenProperties DEF Begins
<1>2. /\ SubSeq(t, 1, Len(s)) \in Seq(T) /\ Len(SubSeq(t, 1, Len(s))) = Len(s)
      /\ \A n \in 1..Len(s) : SubSeq(t, 1, Len(s))[n] = t[n]
  BY <1>1, SubSeqProperties
<1>3. SubSeq(t, 1, Len(s)) = s
  BY <1>2, SeqEqual DEF Begins
<1> QED
  BY <1>1, <1>3 DEF IsPrefix

-----------------------------------------------------------------------------
(* One lemma per operation.                                                *)

LEMMA QueueFacts ==
  ASSUME QueueInv
  PROVE  /\ IncidentsTyped
         /\ \A c \in Clients : listing[c] \in Listing /\ Sound(listing[c])
  BY DEF QueueInv

\* A command that changes one incident leaves every listing sound.
LEMMA CommandStep ==
  ASSUME QueueInv, IncidentsTyped', NEW x \in Ids, Moved(x), listing' = Noted(x)
  PROVE  QueueInv'
<1>1. ASSUME NEW c \in Clients, NEW r, r = listing'[c] PROVE Sound(r)' /\ r \in Listing
  <2>1. PICK l : l = listing[c]
    OBVIOUS
  <2>2. Sound(l) /\ IncidentsTyped
    BY <2>1, QueueFacts
  <2>3. r = IF l.stage \in {"paging", "done"} THEN [l EXCEPT !.changed = @ \cup {x}] ELSE l
    BY <1>1, <2>1 DEF Noted
  <2>4. Sound(r)'
    <3>1. CASE l.stage \in {"paging", "done"}
      BY <2>2, <2>3, <3>1, MovedSound
    <3>2. CASE l.stage \notin {"paging", "done"}
      BY <2>2, <2>3, <3>2, ClosedSound
    <3> QED  BY <3>1, <3>2
  <2> QED  BY <2>4 DEF Sound
<1>2. listing' \in [Clients -> Listing]
  <2>1. \A c \in Clients : listing'[c] \in Listing
    BY <1>1
  <2> DEFINE r(c) == IF listing[c].stage \in {"paging", "done"}
                     THEN [listing[c] EXCEPT !.changed = @ \cup {x}] ELSE listing[c]
  <2>2. listing' = [c \in Clients |-> r(c)]
    BY DEF Noted
  <2> HIDE DEF r
  <2>3. \A c \in Clients : r(c) \in Listing
    BY <2>1, <2>2
  <2> QED  BY <2>2, <2>3
<1> QED
  BY <1>1, <1>2 DEF QueueInv

LEMMA ReportStep ==
  ASSUME QueueInv, NEW i \in Ids, NEW level \in RiskLevels, NEW d \in Deadlines,
         Report(i, level, d)
  PROVE  QueueInv'
<1> DEFINE e == [status |-> "open", risk |-> level, deadline |-> d]
<1>1. PICK S \in SUBSET Ids : incidents \in [S -> Incident]
  BY DEF QueueInv, IncidentsTyped
<1>2. Reported = S /\ e \in Incident
  BY <1>1 DEF Reported, Incident, Statuses
<1>3. /\ i \notin Reported /\ listing' = Noted(i) /\ time' = time
      /\ incidents' = [j \in Reported \cup {i} |-> IF j = i THEN e ELSE incidents[j]]
  BY DEF Report
<1> HIDE DEF e
<1>4. incidents' \in [S \cup {i} -> Incident]
  BY <1>1, <1>2, <1>3
<1>5. IncidentsTyped'
  <2>1. S \cup {i} \in SUBSET Ids
    OBVIOUS
  <2> QED  BY <1>3, <1>4, <2>1 DEF QueueInv, IncidentsTyped
<1>6. Reported' = S \cup {i}
  BY <1>4 DEF Reported
<1>7. Moved(i)
  BY <1>2, <1>3, <1>6 DEF Moved
<1> QED
  BY <1>3, <1>5, <1>7, CommandStep

LEMMA RaiseStep ==
  ASSUME QueueInv, NEW i \in Ids, NEW level \in RiskLevels, NEW d \in Deadlines,
         Raise(i, level, d)
  PROVE  QueueInv'
<1>1. PICK S \in SUBSET Ids : incidents \in [S -> Incident]
  BY DEF QueueInv, IncidentsTyped
<1>2. Reported = S
  BY <1>1 DEF Reported
<1>3. /\ Open(i) /\ i \in S /\ incidents[i].status = "open"
      /\ level >= incidents[i].risk
      /\ d = incidents[i].deadline \/ d \in (time + 1)..incidents[i].deadline
      /\ incidents' = [incidents EXCEPT ![i].risk = level, ![i].deadline = d]
      /\ listing' = Noted(i) /\ time' = time
  BY <1>2 DEF Raise, Open
<1>4. incidents[i] \in Incident /\ incidents[i].deadline \in Int /\ time \in Int
  BY <1>1, <1>3, EntryTyped, WorkQueueAssumption DEF QueueInv, IncidentsTyped
<1>5. /\ incidents'[i] \in Incident /\ incidents'[i].status = "open"
      /\ incidents'[i].risk = level /\ incidents'[i].deadline = d
  BY <1>1, <1>3, <1>4 DEF Incident
<1>6. /\ DOMAIN incidents' = S /\ \A j \in S : j # i => incidents'[j] = incidents[j]
      /\ incidents' = [j \in S |-> incidents'[j]]
  BY <1>1, <1>3
<1>7. incidents' \in [S -> Incident]
  BY <1>1, <1>5, <1>6
<1>8. IncidentsTyped'
  BY <1>3, <1>7 DEF QueueInv, IncidentsTyped
<1>9. d <= incidents[i].deadline
  BY <1>3, <1>4
<1>10. Moved(i)
  BY <1>2, <1>3, <1>5, <1>6, <1>9 DEF Moved, Reported
<1> QED
  BY <1>3, <1>8, <1>10, CommandStep

LEMMA SealStep ==
  ASSUME QueueInv, NEW i \in Ids, Seal(i)
  PROVE  QueueInv'
<1>1. PICK S \in SUBSET Ids : incidents \in [S -> Incident]
  BY DEF QueueInv, IncidentsTyped
<1>2. Reported = S
  BY <1>1 DEF Reported
<1>3. /\ Open(i) /\ i \in S
      /\ incidents' = [incidents EXCEPT ![i].status = "sealed"]
      /\ listing' = Noted(i) /\ time' = time
  BY <1>2 DEF Seal, Open
<1>4. incidents'[i] \in Incident /\ incidents'[i].status = "sealed"
  BY <1>1, <1>3 DEF Incident, Statuses
<1>5. /\ DOMAIN incidents' = S /\ \A j \in S : j # i => incidents'[j] = incidents[j]
      /\ incidents' = [j \in S |-> incidents'[j]]
  BY <1>1, <1>3
<1>6. incidents' \in [S -> Incident]
  BY <1>1, <1>4, <1>5
<1>7. IncidentsTyped'
  BY <1>3, <1>6 DEF QueueInv, IncidentsTyped
<1>8. Moved(i)
  BY <1>2, <1>3, <1>4, <1>5 DEF Moved, Reported
<1> QED
  BY <1>3, <1>7, <1>8, CommandStep

\* Asking for a page changes the listing of one client.
LEMMA ClientStep ==
  ASSUME QueueInv, NEW c \in Clients, NEW r, Sound(r),
         listing' = [listing EXCEPT ![c] = r], UNCHANGED <<time, incidents>>
  PROVE  QueueInv'
<1>1. listing \in [Clients -> Listing] /\ r \in Listing
  BY DEF QueueInv, Sound
<1>2. listing' \in [Clients -> Listing]
  BY <1>1
<1>3. IncidentsTyped'
  BY DEF QueueInv, IncidentsTyped
<1>4. ASSUME NEW b \in Clients, NEW l \in Listing, l = listing'[b] PROVE Sound(l)'
  <2>1. l = IF b = c THEN r ELSE listing[b]
    BY <1>1, <1>4
  <2>2. Sound(l)
    BY <2>1, QueueFacts
  <2> QED  BY <2>2, SoundSame
<1> QED
  BY <1>2, <1>3, <1>4 DEF QueueInv

LEMMA FirstPageStep ==
  ASSUME QueueInv, NEW c \in Clients, NEW f \in Filters, NEW limit \in 1..MaxLimit,
         FirstPage(c, f, limit)
  PROVE  QueueInv'
<1> DEFINE l == [NoListing EXCEPT !.filter = f, !.matched = Matching(f, time)]
<1>1. IncidentsTyped /\ Reported \subseteq Ids
  BY IncidentFacts, QueueFacts
<1>2. l = [stage |-> "idle", filter |-> f, now |-> 0, got |-> <<>>,
           matched |-> Matching(f, time), changed |-> {}, cursors |-> {}]
  <2> DEFINE a == [NoListing EXCEPT !.filter = f]
  <2>1. a = [stage |-> "idle", filter |-> f, now |-> 0, got |-> <<>>,
             matched |-> {}, changed |-> {}, cursors |-> {}]
    <3>1. PICK g : NoListing = [stage |-> "idle", filter |-> g, now |-> 0, got |-> <<>>,
                                matched |-> {}, changed |-> {}, cursors |-> {}]
      BY DEF NoListing
    <3>2. a = [[stage |-> "idle", filter |-> g, now |-> 0, got |-> <<>>,
                matched |-> {}, changed |-> {}, cursors |-> {}] EXCEPT !.filter = f]
      BY <3>1
    <3> HIDE DEF a
    <3> QED  BY <3>2
  <2>2. l = [a EXCEPT !.matched = Matching(f, time)]
    OBVIOUS
  <2> HIDE DEF a, l
  <2> QED  BY <2>1, <2>2
<1>3. Matching(f, time) \subseteq Reported
  BY DEF Matching
<1>4. f \in Filter /\ 0 \in 0..Horizon /\ <<>> \in Seq(Ids) /\ "idle" \in Stages
  BY WorkQueueAssumption DEF Stages
<1>5. l \in Listing
  <2>1. Matching(f, time) \in SUBSET Ids
    BY <1>1, <1>3
  <2> QED  BY <1>2, <1>4, <2>1 DEF Listing
<1>6. /\ l.got = <<>> /\ l.changed = {} /\ l.cursors = {} /\ l.filter = f
      /\ l.matched = Matching(f, time)
  BY <1>2
<1>7. listing' = [listing EXCEPT ![c] = Served(l, limit)] /\ UNCHANGED <<time, incidents>>
  BY DEF FirstPage
<1> HIDE DEF l
<1>8. Askable(l)
  <2>1. ToSet(l.got) = {}
    BY <1>6 DEF ToSet
  <2> QED  BY <1>3, <1>5, <1>6, <2>1 DEF Askable
<1>9. Sound(Served(l, limit))
  BY <1>1, <1>8, ServedSound
<1> QED
  BY <1>7, <1>9, ClientStep

LEMMA NextPageStep ==
  ASSUME QueueInv, NEW c \in Clients, NEW limit \in 1..MaxLimit, NextPage(c, limit)
  PROVE  QueueInv'
<1> DEFINE l == listing[c]
<1>1. /\ l.stage = "paging" /\ CursorKnown(Sorted(l.filter, Now(l)), l)
      /\ listing' = [listing EXCEPT ![c] = Served(l, limit)] /\ UNCHANGED <<time, incidents>>
  BY DEF NextPage
<1>2. Sound(l) /\ l \in Listing /\ IncidentsTyped
  BY QueueFacts
<1> HIDE DEF l
<1>3. Askable(l)
  BY <1>1, <1>2 DEF Askable, Sound
<1>4. Sound(Served(l, limit))
  BY <1>2, <1>3, ServedSound
<1> QED
  BY <1>1, <1>4, ClientStep

\* The cursor is not found: its incident no longer matches, so it changed.
LEMMA RefuseStep ==
  ASSUME QueueInv, NEW c \in Clients, RefuseCursor(c)
  PROVE  QueueInv'
<1> DEFINE l == listing[c]
           r == [l EXCEPT !.stage = "invalid_cursor"]
<1>1. /\ l.stage = "paging" /\ ~CursorKnown(Sorted(l.filter, Now(l)), l)
      /\ listing' = [listing EXCEPT ![c] = r] /\ UNCHANGED <<time, incidents>>
  BY DEF RefuseCursor
<1>2. Sound(l) /\ l \in Listing /\ IncidentsTyped
  BY QueueFacts
<1>3. /\ r.stage = "invalid_cursor" /\ r.got = l.got /\ r.matched = l.matched
      /\ r.changed = l.changed /\ r.cursors = l.cursors /\ r \in Listing
  BY <1>2 DEF Listing, Stages
<1> HIDE DEF l, r
<1>4. /\ PagingSound(l) /\ l.got # <<>> /\ Now(l) = l.now /\ l.now \in Int
      /\ Last(l.got) \in ToSet(l.got) /\ Last(l.got) \in Reported
  BY <1>1, <1>2, ListingFacts DEF Sound, PagingSound, Now
<1>5. Last(l.got) \in l.changed
  <2> SUFFICES ASSUME Last(l.got) \notin l.changed PROVE FALSE
    OBVIOUS
  <2> DEFINE items == Sorted(l.filter, l.now)
  <2>1. Last(l.got) \in Matching(l.filter, l.now)
    BY <1>4 DEF PagingSound, Matching
  <2>2. \E n \in DOMAIN items : items[n] = Last(l.got)
    BY <1>2, <1>4, <2>1, SortedFacts
  <2>3. Last(l.got) \in ToSet(items)
    BY <2>2 DEF ToSet
  <2> QED  BY <1>1, <1>4, <2>3 DEF CursorKnown
<1>6. Sound(r)
  <2>1. Quiet(r) /\ Complete(r) /\ RefusalOf(r)
    BY <1>3, <1>5 DEF Quiet, Complete, RefusalOf
  <2>2. RepeatsOf(r)
    BY <1>2, <1>3 DEF Sound, RepeatsOf
  <2> QED  BY <1>2, <1>3, <2>1, <2>2 DEF Sound
<1> QED
  BY <1>1, <1>6, ClientStep

\* The clock goes on, or nothing happens: no listing is concerned.
LEMMA PassStep ==
  ASSUME QueueInv, TimePasses \/ UNCHANGED queueVars
  PROVE  QueueInv'
<1>1. incidents' = incidents /\ listing' = listing /\ time' \in 0..Horizon
  BY WorkQueueAssumption DEF TimePasses, queueVars, QueueInv, IncidentsTyped
<1>2. IncidentsTyped'
  BY <1>1 DEF QueueInv, IncidentsTyped
<1>3. ASSUME NEW c \in Clients, NEW l \in Listing, l = listing'[c] PROVE Sound(l)'
  BY <1>1, <1>3, QueueFacts, SoundSame
<1> QED
  BY <1>1, <1>2, <1>3 DEF QueueInv

LEMMA QueueStep ==
  ASSUME QueueInv, [QueueNext]_queueVars
  PROVE  QueueInv'
  BY ReportStep, RaiseStep, SealStep, FirstPageStep, NextPageStep, RefuseStep, PassStep
     DEF QueueNext

-----------------------------------------------------------------------------
(* The theorems.                                                           *)

LEMMA QueueHolds == QueueSpec => []QueueInv
<1> QED
  BY SoundInit, QueueStep, PTL DEF QueueSpec

\* Query answers page by page; while no incident changes, the pages put
\* together are the sorted queue of the first page's instant, since the cursor
\* carries that instant and the next page begins behind the incident it names.
THEOREM QuietPagesAreTheQueue == QueueSpec => []QuietListingSound
<1>1. QueueInv => QuietListingSound
  <2> SUFFICES ASSUME QueueInv PROVE QuietListingSound
    OBVIOUS
  <2>1. QueueTypeOK
    BY QueueFacts DEF QueueInv, IncidentsTyped, Sound, QueueTypeOK
  <2>2. ASSUME NEW c \in Clients, listing[c].changed = {}
        PROVE  /\ listing[c].stage = "paging" =>
                    IsPrefix(listing[c].got, Sorted(listing[c].filter, listing[c].now))
               /\ listing[c].stage = "done" =>
                    listing[c].got = Sorted(listing[c].filter, listing[c].now)
    <3> DEFINE l == listing[c]
               items == Sorted(l.filter, l.now)
    <3>1. Sound(l) /\ l \in Listing /\ IncidentsTyped
      BY QueueFacts
    <3>2. Quiet(l)
      BY <3>1 DEF Sound
    <3>3. l.now \in Int /\ l.got \in Seq(Ids)
      BY <3>1, ListingFacts
    <3>4. items \in Seq(Ids)
      <4> HIDE DEF l
      <4> QED  BY <3>1, <3>3, SortedFacts
    <3>5. ASSUME l.stage = "paging" PROVE IsPrefix(l.got, items)
      <4>1. Begins(l.got, items)
        BY <2>2, <3>2, <3>5 DEF Quiet
      <4> HIDE DEF l, items
      <4> QED  BY <3>3, <3>4, <4>1, PrefixBegins
    <3> QED  BY <2>2, <3>2, <3>5 DEF Quiet
  <2> QED  BY <2>1, <2>2 DEF QuietListingSound, QuietPagesExact
<1> QED
  BY <1>1, QueueHolds, PTL

\* Commands raise risks, bring deadlines forward and seal incidents between two
\* pages; still whoever pages to the end is shown every incident that matched
\* at first and stayed as it was, but for the listing of open and sealed ones
\* one of whose cursors was sealed.
THEOREM UnchangedShown == QueueSpec => []UnchangedAreShown
<1>1. QueueInv => UnchangedAreShown
  <2> SUFFICES ASSUME QueueInv, NEW c \in Clients, listing[c].stage = "done"
               PROVE  \/ listing[c].matched \ listing[c].changed \subseteq ToSet(listing[c].got)
                      \/ /\ StatusesOf(listing[c].filter) = Statuses
                         /\ \E i \in listing[c].cursors \cap listing[c].changed : ~Open(i)
    BY DEF UnchangedAreShown
  <2> QED  BY QueueFacts DEF Sound, Complete, Excepted
<1> QED
  BY <1>1, QueueHolds, PTL

\* Query shows an incident twice, or refuses a cursor it gave out, only because
\* a command changed the incident in question or one that a page had ended with.
THEOREM OdditiesHaveReasons == QueueSpec => []OdditiesExplained
<1>1. QueueInv => OdditiesExplained
  <2> SUFFICES ASSUME QueueInv PROVE RepeatsExplained /\ RefusalExplained
    BY DEF OdditiesExplained
  <2>1. \A c \in Clients : RepeatsOf(listing[c]) /\ RefusalOf(listing[c])
    BY QueueFacts DEF Sound
  <2> QED  BY <2>1 DEF RepeatsOf, RefusalOf, RepeatsExplained, RefusalExplained
<1> QED
  BY <1>1, QueueHolds, PTL

-----------------------------------------------------------------------------
(* The newest commitment of a set of numbers.                              *)

LEMMA NewestFacts ==
  ASSUME NEW k \in Nat, NEW S \in SUBSET (1..k)
  PROVE  /\ Newest(S) # 0 => Newest(S) \in S
         /\ Newest(S) = 0 => S = {}
<1>1. CASE S = {}
  BY <1>1 DEF Newest
<1>2. CASE S # {}
  <2>0. S \in SUBSET (0..k)
    OBVIOUS
  <2>1. \E n \in S : \A m \in S : m <= n
    BY <1>2, <2>0, GreatestExists
  <2>2. Newest(S) \in S
    BY <1>2, <2>1 DEF Newest
  <2> QED  BY <2>2
<1> QED  BY <1>1, <1>2

\* Service and store name the same commitment, and it is one in effect.
LEMMA EffectiveFacts ==
  ASSUME commitments \in Seq(Commitment), NEW now
  PROVE  /\ effectiveCommitment(now) = activeDeadlineCommitment(now)
         /\ activeDeadlineCommitment(now) # 0 =>
              /\ activeDeadlineCommitment(now) \in DOMAIN commitments
              /\ commitments[activeDeadlineCommitment(now)].status = "effective"
         /\ activeDeadlineCommitment(now) = 0 =>
              \A n \in DOMAIN commitments :
                ~(commitments[n].status = "effective" /\ commitments[n].due > now)
<1> DEFINE S == {n \in DOMAIN commitments :
                   commitments[n].status = "effective" /\ commitments[n].due > now}
<1>1. activeDeadlineCommitment(now) = Newest(S) /\ effectiveCommitment(now) = Newest(S)
  BY DEF activeDeadlineCommitment, effectiveCommitment
<1>2. S \in SUBSET (1..Len(commitments)) /\ Len(commitments) \in Nat
  OBVIOUS
<1>3. /\ Newest(S) # 0 => Newest(S) \in S
      /\ Newest(S) = 0 => S = {}
  <2> HIDE DEF S
  <2> QED  BY <1>2, NewestFacts
<1> QED
  BY <1>1, <1>3

-----------------------------------------------------------------------------
(* The inductive invariant.                                                *)

\* A command under way has read the clock before, and whoever acknowledges or
\* renews is a person.
CommandsSound ==
  \A h \in Handlers :
    /\ working[h].op # "idle" => working[h] \in Command /\ working[h].now <= clock
    /\ working[h].op \in {"acknowledged", "renewed"} => working[h].owner \in Owners

\* The past is past, and what is in effect has an owner.
EachSound ==
  \A n \in DOMAIN commitments :
    /\ commitments[n].committed <= clock
    /\ commitments[n].status = "effective" => commitments[n].owner \in Owners

\* A commitment still open has run out before a later one was entered into,
\* unless one of them was renewed.
Separate ==
  \A m, n \in DOMAIN commitments :
    /\ m < n /\ ~commitments[m].renewed /\ ~commitments[n].renewed
    /\ commitments[m].status = "effective"
    => commitments[m].due <= commitments[n].committed

StoredOwner ==
  owner # Nobody =>
    \E n \in DOMAIN commitments :
      commitments[n].owner = owner /\ commitments[n].status = "effective"

CommitmentsInv == TypeOK /\ CommandsSound /\ EachSound /\ Separate /\ StoredOwner

LEMMA InvInit == Init => CommitmentsInv
<1> USE CommitmentsAssumption
<1> SUFFICES ASSUME Init PROVE CommitmentsInv
  OBVIOUS
<1>1. TypeOK
  <2>1. clock \in Nat /\ deadline \in Nat /\ revision \in Nat /\ risk \in 1..Levels
    BY DEF Init, CommitmentsAssumption
  <2>2. event \in Event
    BY DEF Init, Event
  <2>3. commitments \in Seq(Commitment)
    BY DEF Init
  <2>4. owner \in Owners \cup {Nobody} /\ sealed \in BOOLEAN
    BY DEF Init
  <2>5. working \in [Handlers -> Command \cup {Idle}]
    BY DEF Init
  <2> QED  BY <2>1, <2>2, <2>3, <2>4, <2>5 DEF TypeOK
<1>2. CommandsSound
  BY DEF Init, CommandsSound, Idle
<1>3. EachSound /\ Separate /\ StoredOwner
  BY DEF Init, EachSound, Separate, StoredOwner
<1> QED
  BY <1>1, <1>2, <1>3 DEF CommitmentsInv

-----------------------------------------------------------------------------
(* One lemma per operation.                                                *)

LEMMA EachTyped ==
  ASSUME commitments \in Seq(Commitment), NEW n \in DOMAIN commitments
  PROVE  /\ commitments[n] \in Commitment
         /\ commitments[n].due \in Nat /\ commitments[n].committed \in Nat
         /\ commitments[n].status \in {"effective", "completed", "expired"}
         /\ n \in Nat \ {0}
<1>1. commitments[n] \in Commitment /\ n \in Nat \ {0}
  OBVIOUS
<1> QED
  BY <1>1 DEF Commitment

\* What clients send is a command, and those who promise name themselves.
LEMMA RequestFacts ==
  ASSUME TypeOK, NEW h \in Handlers, NEW c \in Requests(h)
  PROVE  /\ c.op \in Kinds /\ c.n \in Nat /\ c.owner \in Owners \cup {Nobody} /\ c.due \in Nat
         /\ c.op \in {"acknowledged", "renewed"} => c.owner \in Owners
<1>1. 1 \in 1..Levels /\ Remedy[1] \in Nat /\ OwnerOf[h] \in Owners
  BY CommitmentsAssumption
<1>2. PromisedDue \subseteq Nat
  BY <1>1 DEF PromisedDue, TypeOK
<1>3. DOMAIN commitments \subseteq Nat
  BY DEF TypeOK
<1>4. CASE c \in [op : {"acknowledged"}, n : {0}, owner : {OwnerOf[h]}, due : PromisedDue]
  <2>1. c.op = "acknowledged" /\ c.n = 0 /\ c.owner = OwnerOf[h] /\ c.due \in PromisedDue
    BY <1>4
  <2>2. c.n \in Nat /\ c.due \in Nat
    BY <1>2, <2>1
  <2>3. c.owner \in Owners
    BY <1>1, <2>1
  <2> QED  BY <2>1, <2>2, <2>3 DEF Kinds
<1>5. CASE c \in [op : {"renewed"}, n : DOMAIN commitments, owner : {OwnerOf[h]}, due : PromisedDue]
  <2>1. /\ c.op = "renewed" /\ c.n \in DOMAIN commitments
        /\ c.owner = OwnerOf[h] /\ c.due \in PromisedDue
    BY <1>5
  <2> QED  BY <1>1, <1>2, <1>3, <2>1 DEF Kinds
<1>6. CASE c \in [op : {"completed", "expired"}, n : DOMAIN commitments, owner : {Nobody}, due : {0}]
  <2>1. /\ c.op \in {"completed", "expired"} /\ c.n \in DOMAIN commitments
        /\ c.owner = Nobody /\ c.due = 0
    BY <1>6
  <2> QED  BY <1>3, <2>1 DEF Kinds
<1> QED
  BY <1>4, <1>5, <1>6 DEF Requests

LEMMA BeginStep ==
  ASSUME CommitmentsInv, NEW h \in Handlers, NEW c \in Requests(h), Begin(h, c)
  PROVE  CommitmentsInv'
<1> DEFINE w == [op |-> c.op, n |-> c.n, owner |-> c.owner, due |-> c.due, now |-> clock]
<1>1. w \in Command /\ (w.op \in {"acknowledged", "renewed"} => w.owner \in Owners)
  BY RequestFacts DEF Command, CommitmentsInv, TypeOK
<1>2. /\ working' = [working EXCEPT ![h] = w]
      /\ UNCHANGED <<clock, risk, deadline, sealed, revision, commitments, owner, event>>
  BY DEF Begin
<1>3. w.now = clock /\ clock \in Nat
  BY DEF CommitmentsInv, TypeOK
<1> HIDE DEF w
<1>4. TypeOK'
  BY <1>1, <1>2 DEF CommitmentsInv, TypeOK
<1>5. CommandsSound'
  BY <1>1, <1>2, <1>3 DEF CommitmentsInv, TypeOK, CommandsSound
<1>6. EachSound' /\ Separate' /\ StoredOwner'
  BY <1>2 DEF CommitmentsInv, EachSound, Separate, StoredOwner
<1> QED
  BY <1>4, <1>5, <1>6 DEF CommitmentsInv

\* A command that is refused changes nothing but the handler.
LEMMA RejectStep ==
  ASSUME CommitmentsInv, NEW h \in Handlers, Refuse(h)
  PROVE  CommitmentsInv'
<1>1. TypeOK'
  BY DEF Refuse, CommitmentsInv, TypeOK
<1>2. CommandsSound'
  BY DEF Refuse, CommitmentsInv, TypeOK, CommandsSound, Idle
<1>3. EachSound' /\ Separate' /\ StoredOwner'
  BY DEF Refuse, CommitmentsInv, EachSound, Separate, StoredOwner
<1> QED
  BY <1>1, <1>2, <1>3 DEF CommitmentsInv

\* What else happens lets time go on and leaves the commitments alone.
LEMMA OtherStep ==
  ASSUME CommitmentsInv,
         \/ Tick
         \/ \E level \in 1..Levels, d \in {deadline, clock + 1} : Reassess(level, d)
         \/ SignReopen
         \/ UNCHANGED vars
  PROVE  CommitmentsInv'
<1>1. /\ clock' \in Nat /\ clock <= clock'
      /\ UNCHANGED <<commitments, owner, event, working>>
  BY DEF Tick, Reassess, SignReopen, vars, CommitmentsInv, TypeOK
<1>2. deadline' \in Nat /\ revision' \in Nat /\ risk' \in 1..Levels /\ sealed' \in BOOLEAN
  <2>1. CASE Tick
    BY <2>1 DEF Tick, CommitmentsInv, TypeOK
  <2>2. ASSUME NEW level \in 1..Levels, NEW d \in {deadline, clock + 1}, Reassess(level, d)
        PROVE  /\ deadline' \in Nat /\ revision' \in Nat
               /\ risk' \in 1..Levels /\ sealed' \in BOOLEAN
    <3>1. d \in Nat
      BY DEF CommitmentsInv, TypeOK
    <3> QED  BY <2>2, <3>1 DEF Reassess, CommitmentsInv, TypeOK
  <2>3. CASE SignReopen
    BY <2>3 DEF SignReopen, CommitmentsInv, TypeOK
  <2>4. CASE UNCHANGED vars
    BY <2>4 DEF vars, CommitmentsInv, TypeOK
  <2> QED  BY <2>1, <2>2, <2>3, <2>4
<1>3. TypeOK'
  BY <1>1, <1>2 DEF CommitmentsInv, TypeOK
<1>4. CommandsSound'
  <2>1. \A h \in Handlers : working[h].op # "idle" => working[h].now \in Nat
    BY DEF CommitmentsInv, CommandsSound, Command
  <2> QED  BY <1>1, <2>1 DEF CommitmentsInv, CommandsSound, TypeOK
<1>5. EachSound'
  <2>1. \A n \in DOMAIN commitments : commitments[n].committed \in Nat
    BY EachTyped DEF CommitmentsInv, TypeOK
  <2> QED  BY <1>1, <2>1 DEF CommitmentsInv, EachSound, TypeOK
<1>6. Separate' /\ StoredOwner'
  BY <1>1 DEF CommitmentsInv, Separate, StoredOwner
<1> QED
  BY <1>3, <1>4, <1>5, <1>6 DEF CommitmentsInv

\* The command a handler finishes is a sound one.
LEMMA WorkingFacts ==
  ASSUME CommitmentsInv, NEW h \in Handlers, working[h].op \in Kinds
  PROVE  /\ working[h] \in Command /\ working[h].now <= clock
         /\ working[h].op \in {"acknowledged", "renewed"} => working[h].owner \in Owners
  BY DEF CommitmentsInv, CommandsSound, Kinds

\* What every command that is carried out has in common.
LEMMA CommitStep ==
  ASSUME CommitmentsInv, NEW h \in Handlers, working[h].op \in Kinds,
         NEW about \in Nat, Commit(h, about),
         commitments' \in Seq(Commitment), owner' \in Owners \cup {Nobody}
  PROVE  TypeOK' /\ CommandsSound' /\ clock' = clock /\ clock \in Nat
<1>1. Len(commitments') \in Nat
  OBVIOUS
<1>2. enrichAuditDetails(working[h].op, Len(commitments')) \in Nat
  BY <1>1 DEF enrichAuditDetails
<1>3. event' \in Event
  BY <1>2 DEF Commit, Event
<1>4. /\ revision' \in Nat
      /\ working' = [working EXCEPT ![h] = Idle]
      /\ UNCHANGED <<clock, risk, deadline, sealed>>
  BY DEF Commit, CommitmentsInv, TypeOK
<1>5. TypeOK'
  BY <1>3, <1>4 DEF CommitmentsInv, TypeOK
<1>6. CommandsSound'
  BY <1>4 DEF CommitmentsInv, TypeOK, CommandsSound, Idle
<1> QED
  BY <1>4, <1>5, <1>6 DEF CommitmentsInv, TypeOK

LEMMA AcknowledgeStep ==
  ASSUME CommitmentsInv, NEW h \in Handlers, AcknowledgeDeadline(h)
  PROVE  CommitmentsInv'
<1> DEFINE c == working[h]
           e == [owner |-> c.owner, due |-> c.due, committed |-> c.now,
                 status |-> "effective", renewed |-> FALSE]
           k == Len(commitments)
<1>1. /\ c.op = "acknowledged" /\ activeDeadlineCommitment(c.now) = 0
      /\ commitments' = Append(commitments, e) /\ owner' = c.owner
      /\ Commit(h, Len(commitments'))
  BY DEF AcknowledgeDeadline, Allowed, AcknowledgeAllowed
<1>2. c \in Command /\ c.now <= clock /\ c.owner \in Owners
  BY <1>1, WorkingFacts DEF Kinds
<1>3. e \in Commitment /\ commitments \in Seq(Commitment) /\ k \in Nat
  BY <1>2 DEF Command, Commitment, CommitmentsInv, TypeOK
<1>4. e.status = "effective" /\ e.owner = c.owner /\ e.committed = c.now
  OBVIOUS
<1>5. \A n \in DOMAIN commitments :
        commitments[n].status = "effective" => commitments[n].due <= c.now
  <2>1. c.now \in Nat
    BY <1>2 DEF Command
  <2>2. \A n \in DOMAIN commitments :
          ~(commitments[n].status = "effective" /\ commitments[n].due > c.now)
    BY <1>1, <1>3, EffectiveFacts
  <2>3. \A n \in DOMAIN commitments : commitments[n].due \in Nat
    BY <1>3, EachTyped
  <2> HIDE DEF c
  <2> QED  BY <2>1, <2>2, <2>3
<1> HIDE DEF c, e
<1>6. /\ commitments' \in Seq(Commitment) /\ DOMAIN commitments' = 1..(k + 1)
      /\ DOMAIN commitments = 1..k
      /\ \A n \in 1..k : commitments'[n] = commitments[n]
      /\ commitments'[k + 1] = e
  BY <1>1, <1>3, AppendProperties
<1>7. TypeOK' /\ CommandsSound' /\ clock' = clock
  <2>1. working[h].op \in Kinds
    BY <1>1 DEF c, Kinds
  <2>2. Len(commitments') \in Nat
    BY <1>6
  <2> QED  BY <1>1, <1>2, <1>6, <2>1, <2>2, CommitStep
<1>8. EachSound'
  BY <1>2, <1>3, <1>4, <1>6, <1>7 DEF CommitmentsInv, EachSound
<1>9. Separate'
  BY <1>3, <1>4, <1>5, <1>6 DEF CommitmentsInv, Separate
<1>10. StoredOwner'
  BY <1>1, <1>3, <1>4, <1>6 DEF StoredOwner
<1> QED
  BY <1>7, <1>8, <1>9, <1>10 DEF CommitmentsInv

\* A completion closes the commitment and forgets the stored owner.
LEMMA CompleteStep ==
  ASSUME CommitmentsInv, NEW h \in Handlers, CompleteDeadlineCommitment(h)
  PROVE  CommitmentsInv'
<1> DEFINE x == working[h].n
<1>1. /\ working[h].op = "completed" /\ x \in DOMAIN commitments
      /\ commitments' = [commitments EXCEPT ![x].status = "completed"]
      /\ owner' = Nobody /\ Commit(h, x)
  BY DEF CompleteDeadlineCommitment, Allowed, CompleteAllowed
<1>2. commitments \in Seq(Commitment) /\ x \in Nat
  BY <1>1, EachTyped DEF CommitmentsInv, TypeOK
<1>3. /\ DOMAIN commitments' = DOMAIN commitments
      /\ \A n \in DOMAIN commitments : n # x => commitments'[n] = commitments[n]
      /\ commitments'[x] = [commitments[x] EXCEPT !.status = "completed"]
  BY <1>1, <1>2
<1>4. /\ commitments'[x] \in Commitment /\ commitments'[x].status = "completed"
      /\ commitments'[x].committed = commitments[x].committed
      /\ commitments'[x].due = commitments[x].due
      /\ commitments'[x].renewed = commitments[x].renewed
  <2>1. commitments[x] \in Commitment
    BY <1>1, <1>2, EachTyped
  <2> QED  BY <1>3, <2>1 DEF Commitment
<1>5. commitments' \in Seq(Commitment)
  BY <1>1, <1>2, <1>3, <1>4
<1>6. TypeOK' /\ CommandsSound' /\ clock' = clock
  <2>1. working[h].op \in Kinds
    BY <1>1 DEF Kinds
  <2> QED  BY <1>1, <1>2, <1>5, <2>1, CommitStep
<1> HIDE DEF x
<1>7. EachSound'
  BY <1>3, <1>4, <1>6 DEF CommitmentsInv, EachSound
<1>8. Separate'
  BY <1>3, <1>4 DEF CommitmentsInv, Separate
<1>9. StoredOwner'
  BY <1>1 DEF StoredOwner
<1> QED
  BY <1>6, <1>7, <1>8, <1>9 DEF CommitmentsInv

\* An expiry also takes the owner out of the commitment.
LEMMA ExpireStep ==
  ASSUME CommitmentsInv, NEW h \in Handlers, ExpireCommitment(h)
  PROVE  CommitmentsInv'
<1> DEFINE x == working[h].n
<1>1. /\ working[h].op = "expired" /\ x \in DOMAIN commitments
      /\ commitments' = [commitments EXCEPT ![x].status = "expired", ![x].owner = Nobody]
      /\ owner' = Nobody /\ Commit(h, x)
  BY DEF ExpireCommitment, Allowed, ExpireAllowed
<1>2. commitments \in Seq(Commitment) /\ x \in Nat
  BY <1>1, EachTyped DEF CommitmentsInv, TypeOK
<1>3. /\ DOMAIN commitments' = DOMAIN commitments
      /\ \A n \in DOMAIN commitments : n # x => commitments'[n] = commitments[n]
      /\ commitments'[x] = [commitments[x] EXCEPT !.status = "expired", !.owner = Nobody]
  BY <1>1, <1>2
<1>4. /\ commitments'[x] \in Commitment /\ commitments'[x].status = "expired"
      /\ commitments'[x].committed = commitments[x].committed
      /\ commitments'[x].due = commitments[x].due
      /\ commitments'[x].renewed = commitments[x].renewed
  <2>1. commitments[x] \in Commitment
    BY <1>1, <1>2, EachTyped
  <2> QED  BY <1>3, <2>1 DEF Commitment
<1>5. commitments' \in Seq(Commitment)
  BY <1>1, <1>2, <1>3, <1>4
<1>6. TypeOK' /\ CommandsSound' /\ clock' = clock
  <2>1. working[h].op \in Kinds
    BY <1>1 DEF Kinds
  <2> QED  BY <1>1, <1>2, <1>5, <2>1, CommitStep
<1> HIDE DEF x
<1>7. EachSound'
  BY <1>3, <1>4, <1>6 DEF CommitmentsInv, EachSound
<1>8. Separate'
  BY <1>3, <1>4 DEF CommitmentsInv, Separate
<1>9. StoredOwner'
  BY <1>1 DEF StoredOwner
<1> QED
  BY <1>6, <1>7, <1>8, <1>9 DEF CommitmentsInv

\* A renewal may put a second commitment in effect: Separate leaves it out.
LEMMA RenewStep ==
  ASSUME CommitmentsInv, NEW h \in Handlers, RenewCommitment(h)
  PROVE  CommitmentsInv'
<1> DEFINE c == working[h]
           x == c.n
           e == [owner |-> c.owner, due |-> c.due, committed |-> c.now,
                 status |-> "effective", renewed |-> TRUE]
<1>1. /\ c.op = "renewed" /\ x \in DOMAIN commitments
      /\ commitments' = [commitments EXCEPT ![x] = e]
      /\ owner' = c.owner /\ Commit(h, x)
  BY DEF RenewCommitment, Allowed, RenewAllowed
<1>2. c \in Command /\ c.now <= clock /\ c.owner \in Owners
  BY <1>1, WorkingFacts DEF Kinds
<1>3. commitments \in Seq(Commitment) /\ x \in Nat
  BY <1>1, EachTyped DEF CommitmentsInv, TypeOK
<1>4. e \in Commitment
  BY <1>2 DEF Command, Commitment
<1>5. e.status = "effective" /\ e.owner = c.owner /\ e.committed = c.now /\ e.renewed
  OBVIOUS
<1> HIDE DEF e
<1>6. /\ DOMAIN commitments' = DOMAIN commitments
      /\ \A n \in DOMAIN commitments : n # x => commitments'[n] = commitments[n]
      /\ commitments'[x] = e
      /\ commitments' \in Seq(Commitment)
  BY <1>1, <1>3, <1>4
<1>7. TypeOK' /\ CommandsSound' /\ clock' = clock
  <2>1. working[h].op \in Kinds
    BY <1>1 DEF Kinds
  <2> QED  BY <1>1, <1>2, <1>3, <1>6, <2>1, CommitStep
<1> HIDE DEF x, c
<1>8. EachSound'
  BY <1>2, <1>5, <1>6, <1>7 DEF CommitmentsInv, EachSound
<1>9. Separate'
  BY <1>5, <1>6 DEF CommitmentsInv, Separate
<1>10. StoredOwner'
  BY <1>1, <1>5, <1>6 DEF StoredOwner
<1> QED
  BY <1>7, <1>8, <1>9, <1>10 DEF CommitmentsInv

LEMMA InvNext ==
  ASSUME CommitmentsInv, [Next]_vars
  PROVE  CommitmentsInv'
<1>1. ASSUME NEW h \in Handlers, NEW c \in Requests(h), Begin(h, c)
      PROVE  CommitmentsInv'
  BY <1>1, BeginStep
<1>2. ASSUME NEW h \in Handlers, AcknowledgeDeadline(h) PROVE CommitmentsInv'
  BY <1>2, AcknowledgeStep
<1>3. ASSUME NEW h \in Handlers, CompleteDeadlineCommitment(h) PROVE CommitmentsInv'
  BY <1>3, CompleteStep
<1>4. ASSUME NEW h \in Handlers, ExpireCommitment(h) PROVE CommitmentsInv'
  BY <1>4, ExpireStep
<1>5. ASSUME NEW h \in Handlers, RenewCommitment(h) PROVE CommitmentsInv'
  BY <1>5, RenewStep
<1>6. ASSUME NEW h \in Handlers, Refuse(h) PROVE CommitmentsInv'
  BY <1>6, RejectStep
<1> QED
  BY <1>1, <1>2, <1>3, <1>4, <1>5, <1>6, OtherStep DEF Next

-----------------------------------------------------------------------------
(* The theorems.                                                           *)

THEOREM InvHolds == Spec => []CommitmentsInv
<1> QED
  BY InvInit, InvNext, PTL DEF Spec

LEMMA ShownEffective ==
  ASSUME TypeOK, NEW n \in DOMAIN commitments, GetStatus(n, clock) = "effective"
  PROVE  commitments[n].status = "effective" /\ commitments[n].due > clock
<1>1. /\ commitments[n].status \in {"effective", "completed", "expired"}
      /\ commitments[n].due \in Nat /\ clock \in Nat
  BY EachTyped DEF TypeOK
<1> QED
  BY <1>1 DEF GetStatus

\* AcknowledgeDeadline decides with an instant that may have passed when it
\* gets the lock; still an incident is shown with two commitments in effect
\* only if RenewCommitment brought one of them back.
THEOREM OneAnswers == Spec => []OneInEffect
<1>1. CommitmentsInv => OneInEffect
  <2> SUFFICES ASSUME CommitmentsInv,
                      NEW m \in DOMAIN commitments, NEW n \in DOMAIN commitments, m < n,
                      GetStatus(m, clock) = "effective",
                      ~commitments[m].renewed, ~commitments[n].renewed
               PROVE  FALSE
    BY DEF OneInEffect
  <2>1. commitments[m].status = "effective" /\ commitments[m].due > clock
    BY ShownEffective DEF CommitmentsInv
  <2>2. commitments[m].due <= commitments[n].committed /\ commitments[n].committed <= clock
    BY <2>1 DEF CommitmentsInv, Separate, EachSound
  <2>3. /\ commitments[m].due \in Nat /\ commitments[n].committed \in Nat
        /\ clock \in Nat
    BY EachTyped DEF CommitmentsInv, TypeOK
  <2> QED  BY <2>1, <2>2, <2>3
<1> QED
  BY <1>1, InvHolds, PTL

\* The two computations of the owner agree where an overdue incident counts
\* as acknowledged, and who is named, there or in the stored field that four
\* commands write, has a commitment still open.
THEOREM OwnersAnswer == Spec => []OwnersCommitted
<1>1. CommitmentsInv => OwnersCommitted
  <2> SUFFICES ASSUME CommitmentsInv PROVE OwnersCommitted
    OBVIOUS
  <2> DEFINE a == activeDeadlineCommitment(clock)
  <2>1. /\ effectiveCommitment(clock) = a
        /\ a # 0 => a \in DOMAIN commitments /\ commitments[a].status = "effective"
    BY EffectiveFacts DEF CommitmentsInv, TypeOK
  <2>2. a # 0 => commitments[a].owner \in Owners
    BY <2>1 DEF CommitmentsInv, EachSound
  <2>3. /\ QueryOwner(clock) = IF a = 0 THEN Nobody ELSE commitments[a].owner
        /\ GetOwner(clock) = IF a = 0 THEN owner ELSE commitments[a].owner
    BY <2>1 DEF QueryOwner, GetOwner
  <2>4. escalationView(clock) = "overdue_acknowledged" => a # 0
    BY <2>1 DEF escalationView, AssessEscalation
  <2> HIDE DEF a
  <2>5. AcknowledgedIsOwned
    BY <2>2, <2>3, <2>4 DEF AcknowledgedIsOwned
  <2>6. OwnerHasCommitment
    BY <2>1, <2>3 DEF OwnerHasCommitment, CommitmentsInv, StoredOwner
  <2> QED  BY <2>5, <2>6 DEF OwnersCommitted, CommitmentsInv
<1> QED
  BY <1>1, InvHolds, PTL

\* What one command writes into the trail: enrichAuditDetails copies the
\* newest commitment, and that is the one the command was about unless that
\* one had run out before or a renewal is involved.
LEMMA DetailOfStep ==
  ASSUME CommitmentsInv, [Next]_vars, revision' > revision, event' # event
  PROVE  LET e == event'
         IN  /\ e.kind = "acknowledged" => e.detail = e.about
             /\ e.kind = "completed" =>
                  \/ e.detail = e.about
                  \/ commitments[e.about].due <= commitments[e.detail].committed
                  \/ commitments[e.about].renewed \/ commitments[e.detail].renewed
<1> DEFINE Goal ==
      /\ event'.kind = "acknowledged" => event'.detail = event'.about
      /\ event'.kind = "completed" =>
           \/ event'.detail = event'.about
           \/ commitments[event'.about].due <= commitments[event'.detail].committed
           \/ commitments[event'.about].renewed \/ commitments[event'.detail].renewed
<1>1. ASSUME NEW h \in Handlers, AcknowledgeDeadline(h) PROVE Goal
  <2>1. working[h].op = "acknowledged" /\ Commit(h, Len(commitments'))
    BY <1>1 DEF AcknowledgeDeadline
  <2>2. event' = [kind |-> "acknowledged", about |-> Len(commitments'), detail |-> Len(commitments')]
    BY <2>1 DEF Commit, enrichAuditDetails
  <2> QED  BY <2>2
<1>2. ASSUME NEW h \in Handlers, CompleteDeadlineCommitment(h) PROVE Goal
  <2> DEFINE x == working[h].n
             k == Len(commitments)
  <2>1. /\ working[h].op = "completed" /\ x \in DOMAIN commitments
        /\ commitments[x].status = "effective"
        /\ commitments' = [commitments EXCEPT ![x].status = "completed"]
        /\ Commit(h, x)
    BY <1>2 DEF CompleteDeadlineCommitment, Allowed, CompleteAllowed
  <2>2. commitments \in Seq(Commitment)
    BY DEF CommitmentsInv, TypeOK
  <2>3. Len(commitments') = k /\ k \in DOMAIN commitments /\ x \in 1..k
    BY <2>1, <2>2
  <2>4. event' = [kind |-> "completed", about |-> x, detail |-> k]
    BY <2>1, <2>3 DEF Commit, enrichAuditDetails
  <2>5. \/ x = k \/ commitments[x].due <= commitments[k].committed
        \/ commitments[x].renewed \/ commitments[k].renewed
    BY <2>1, <2>3 DEF CommitmentsInv, Separate
  <2> HIDE DEF x, k
  <2> QED  BY <2>4, <2>5
<1>3. ASSUME NEW h \in Handlers, ExpireCommitment(h) PROVE Goal
  BY <1>3 DEF ExpireCommitment, Commit
<1>4. ASSUME NEW h \in Handlers, RenewCommitment(h) PROVE Goal
  BY <1>4 DEF RenewCommitment, Commit
<1>5. \/ \E h \in Handlers : \/ AcknowledgeDeadline(h) \/ CompleteDeadlineCommitment(h)
                             \/ ExpireCommitment(h) \/ RenewCommitment(h)
  BY DEF Next, Begin, Refuse, Tick, Reassess, SignReopen, vars
<1> QED
  BY <1>1, <1>2, <1>3, <1>4, <1>5

\* So the trail misleads about a completion only in the cases named.
THEOREM EventsMisleadOnlyLate == Spec => DetailMisleadsOnlyLate
<1>1. CommitmentsInv /\ [Next]_vars =>
        [revision' > revision /\ event' # event =>
           LET e == event'
           IN  /\ e.kind = "acknowledged" => e.detail = e.about
               /\ e.kind = "completed" =>
                    \/ e.detail = e.about
                    \/ commitments[e.about].due <= commitments[e.detail].committed
                    \/ commitments[e.about].renewed \/ commitments[e.detail].renewed]_vars
  BY DetailOfStep
<1> QED
  BY <1>1, InvHolds, PTL DEF Spec, DetailMisleadsOnlyLate

=============================================================================
