----------------------------- MODULE AuditTrail -----------------------------
(***************************************************************************)
(* The audit trail as it is read: Store.Timeline, Service.TimelinePage and *)
(* Store.Evidence beside the commands that extend the trail.               *)
(*                                                                         *)
(* One trail serves all incidents.  Clients page through the events of one *)
(* incident while commands are carried out on any of them; a page is made  *)
(* from two reads of the store, the events and then the incident, with the *)
(* lock given back in between.  Commands are atomic here (module Store),   *)
(* and when a command is allowed is left to Workflow: of an incident only  *)
(* its revision, its deadline commitments and its seal are kept.  Only the *)
(* signature is in two steps: its handler reads the end of the trail for   *)
(* the sealed snapshot before it takes the store's lock.  The revision it  *)
(* was sent with is the one its sender saw last; if it is older than that  *)
(* of the read, the signature is refused, so only the equal one is kept.   *)
(* Of the details of an event none is kept: what a page shows of a         *)
(* commitment is the status the incident gives it when the page is made.   *)
(*                                                                         *)
(* sha256 is taken as collision-free, so the digest of an event is written *)
(* as its sequence number, which also numbers its EventID.                 *)
(*                                                                         *)
(* An operator whose name ends in an underscored remark is not part of the *)
(* specification: it is the definition that follows it with one plausible  *)
(* slip, kept to check that the properties notice.                         *)
(***************************************************************************)
EXTENDS Naturals, Sequences, FiniteSets, SequencesExt, Selections

CONSTANTS
  Incidents,       \* incident identifiers
  Clients,         \* those who page through a timeline
  Filters,         \* what they ask for: sets of event kinds
  MaxLimit,        \* bound: the largest page asked for
  MaxEvents,       \* bound: events in the trail
  MaxCommitments,  \* bound: commitments of an incident
  None             \* "no incident", "no manifest", "no signature under way"

Kinds == {"reported", "amended", "acknowledged", "completed", "expired", "renewed", "sealed"}

ASSUME AuditTrailAssumption ==
  /\ None \notin Incidents
  /\ Filters \subseteq SUBSET Kinds
  /\ MaxLimit \in Nat \ {0}
  /\ {MaxEvents, MaxCommitments} \subseteq Nat

VARIABLES
  audits,     \* persistedState.Audits
  incidents,  \* persistedState.Incidents
  manifest,   \* EvidenceManifest of each incident, None before the seal
  signing,    \* the signature a handler is about to give to each incident
  listing     \* what each client is paging through

vars == <<audits, incidents, manifest, signing, listing>>

CommitmentStates == {"effective", "completed", "expired"}

AuditEvent == [sequence : 1..MaxEvents, incident : Incidents, kind : Kinds,
               previous : 0..MaxEvents]

\* tail: AuditTailDigest of FinalReadinessSnapshot.
Incident == [revision : Nat, commitments : Seq(CommitmentStates), sealed : BOOLEAN,
             tail : Nat]

Signature == [expected : Nat, tail : Nat]

Manifest == [first : Nat, last : Nat, anchor : Nat, final : Nat, digest : Incident]

\* A nil pointer is neither.
ASSUME NoneAssumption == None \notin Manifest \cup Signature

Stages == {"idle", "asking", "reading", "done", "broken_chain"}

Listing == [stage : Stages, incident : Incidents \cup {None}, filter : SUBSET Kinds,
            cursor : 0..MaxEvents, upTo : 0..MaxEvents, got : Seq(1..MaxEvents),
            statuses : Seq(CommitmentStates)]

NoListing == [stage |-> "idle", incident |-> None, filter |-> {}, cursor |-> 0,
              upTo |-> 0, got |-> <<>>, statuses |-> <<>>]

Init ==
  /\ audits = <<>>
  /\ incidents = [i \in Incidents |-> [revision |-> 0, commitments |-> <<>>, sealed |-> FALSE,
                                   tail |-> 0]]
  /\ signing = [i \in Incidents |-> None]
  /\ manifest = [i \in Incidents |-> None]
  /\ listing = [c \in Clients |-> NoListing]

-----------------------------------------------------------------------------
(* Commands: the next incident, its event, and the manifest of a seal.     *)

EventsOf(trail, i) == Chosen(trail, {n \in DOMAIN trail : trail[n].incident = i})

appendAudit(i, kind) ==
  Append(audits, [sequence |-> Len(audits) + 1, incident |-> i, kind |-> kind,
                  previous |-> IF audits = <<>> THEN 0 ELSE Last(audits).sequence])

\* The digest covers the incident as it is sealed, without its manifest.
buildManifest(trail, i, incident) ==
  LET events == EventsOf(trail, i)
  IN  [first |-> events[1].sequence, last |-> Last(events).sequence,
       anchor |-> events[1].previous, final |-> Last(events).sequence, digest |-> incident]

Exists(i) == incidents[i].revision > 0

\* What Create and Update do with the incident a command leaves behind.
Record(i, kind, incident) ==
  LET next  == [incident EXCEPT !.revision = @ + 1]
      trail == appendAudit(i, kind)
  IN  /\ Len(audits) < MaxEvents
      /\ incidents' = [incidents EXCEPT ![i] = next]
      /\ audits' = trail
      /\ manifest' = IF kind = "sealed"
                     THEN [manifest EXCEPT ![i] = buildManifest(trail, i, next)]
                     ELSE manifest
      /\ UNCHANGED listing

Report(i) == ~Exists(i) /\ Record(i, "reported", incidents[i]) /\ UNCHANGED signing

Running(i) == Exists(i) /\ ~incidents[i].sealed

\* Any command that neither seals nor touches a commitment.
Amend(i) == Running(i) /\ Record(i, "amended", incidents[i]) /\ UNCHANGED signing

\* A commitment past its date is not active, so it need not have ended.
AcknowledgeDeadline(i) ==
  /\ Running(i)
  /\ Len(incidents[i].commitments) < MaxCommitments
  /\ Record(i, "acknowledged", [incidents[i] EXCEPT !.commitments = Append(@, "effective")])
  /\ UNCHANGED signing

CompleteCommitment(i, n) ==
  /\ Running(i)
  /\ incidents[i].commitments[n] = "effective"
  /\ Record(i, "completed", [incidents[i] EXCEPT !.commitments[n] = "completed"])
  /\ UNCHANGED signing

ExpireCommitment(i, n) ==
  /\ Running(i)
  /\ incidents[i].commitments[n] = "effective"
  /\ Record(i, "expired", [incidents[i] EXCEPT !.commitments[n] = "expired"])
  /\ UNCHANGED signing

RenewCommitment(i, n) ==
  /\ Running(i)
  /\ incidents[i].commitments[n] = "expired"
  /\ Record(i, "renewed", [incidents[i] EXCEPT !.commitments[n] = "effective"])
  /\ UNCHANGED signing

\* The handler of a signature reads the incident's last event.
ReadTail(i) ==
  /\ Running(i)
  /\ signing[i] = None
  /\ signing' = [signing EXCEPT ![i] =
                    [expected |-> incidents[i].revision,
                     tail |-> Last(EventsOf(audits, i)).sequence]]
  /\ UNCHANGED <<audits, incidents, manifest, listing>>

SignReopen_NoRevisionCheck(i) ==
  /\ Running(i) /\ signing[i] # None
  /\ Record(i, "sealed", [incidents[i] EXCEPT !.sealed = TRUE, !.tail = signing[i].tail])
  /\ signing' = [signing EXCEPT ![i] = None]

\* It then signs, unless the incident has changed since the revision expected.
SignReopen(i) ==
  /\ Running(i) /\ signing[i] # None
  /\ signing[i].expected = incidents[i].revision
  /\ Record(i, "sealed", [incidents[i] EXCEPT !.sealed = TRUE, !.tail = signing[i].tail])
  /\ signing' = [signing EXCEPT ![i] = None]

RefuseSignature(i) ==
  /\ signing[i] # None
  /\ incidents[i].sealed \/ signing[i].expected # incidents[i].revision
  /\ signing' = [signing EXCEPT ![i] = None]
  /\ UNCHANGED <<audits, incidents, manifest, listing>>

-----------------------------------------------------------------------------
(* Reading.                                                                *)

verifyAuditChain(trail) ==
  \A n \in DOMAIN trail :
    /\ trail[n].sequence = n
    /\ trail[n].previous = n - 1

\* The events Timeline returned when the trail had n of them: it only grows.
Timeline(i, n) == EventsOf(SubSeq(audits, 1, n), i)

\* TimelinePage's own check, on the events of the one incident.
Continuous(events) ==
  \A n \in 2..Len(events) : events[n].previous = events[n - 1].sequence

Matching(events, filter) == Chosen(events, {n \in DOMAIN events : events[n].kind \in filter})

Numbers(events) == [n \in DOMAIN events |-> events[n].sequence]

PageStart_AtCursor(events, cursor) ==
  IF cursor = 0 THEN 1 ELSE CHOOSE n \in DOMAIN events : events[n].sequence = cursor

\* The first event after the cursor's, or of all without a cursor.
PageStart(events, cursor) ==
  IF cursor = 0 THEN 1 ELSE 1 + CHOOSE n \in DOMAIN events : events[n].sequence = cursor

\* A cursor is given only if events are left, and names the last one shown.
NextCursor(events, end) == IF end < Len(events) THEN events[end].sequence ELSE 0

CursorKnown(events, cursor) ==
  cursor = 0 \/ \E n \in DOMAIN events : events[n].sequence = cursor

CurrentStatuses_Cached(l) ==
  IF l.got = <<>> THEN incidents[l.incident].commitments ELSE l.statuses

\* Timeline shows an event's commitment with the status it has by now.
CurrentStatuses(l) == incidents[l.incident].commitments

\* A client starts to page through what matches a filter.
Ask(c, i, f) ==
  /\ listing[c].stage = "idle"
  /\ Exists(i)
  /\ listing' = [listing EXCEPT ![c] = [NoListing EXCEPT !.stage = "asking",
                                                         !.incident = i, !.filter = f]]
  /\ UNCHANGED <<audits, incidents, manifest, signing>>

\* Store.Timeline, under the read lock.
ReadEvents(c) ==
  /\ listing[c].stage = "asking"
  /\ verifyAuditChain(audits)
  /\ listing' = [listing EXCEPT ![c].stage = "reading", ![c].upTo = Len(audits)]
  /\ UNCHANGED <<audits, incidents, manifest, signing>>

RefuseChain(c) ==
  /\ listing[c].stage = "reading"
  /\ ~Continuous(Timeline(listing[c].incident, listing[c].upTo))
  /\ listing' = [listing EXCEPT ![c].stage = "broken_chain"]
  /\ UNCHANGED <<audits, incidents, manifest, signing>>

\* The incident is read for its commitments, and the page is cut; the client
\* goes on while it is given a cursor.  It presents no other cursors, and
\* those it was given are known (PagesExact), so no refusal is modelled.
ServePage(c, limit) ==
  LET l      == listing[c]
      events == Matching(Timeline(l.incident, l.upTo), l.filter)
      start  == PageStart(events, l.cursor)
      end    == IF start + limit - 1 > Len(events) THEN Len(events) ELSE start + limit - 1
      after  == NextCursor(events, end)
  IN  /\ l.stage = "reading"
      /\ Continuous(Timeline(l.incident, l.upTo))
      /\ CursorKnown(events, l.cursor)
      /\ listing' = [listing EXCEPT
           ![c] = [l EXCEPT !.stage = IF after = 0 THEN "done" ELSE "asking",
                            !.cursor = after,
                            !.got = @ \o SubSeq(Numbers(events), start, end),
                            !.statuses = CurrentStatuses(l)]]
      /\ UNCHANGED <<audits, incidents, manifest, signing>>

\* Store.Evidence, under the read lock.
Evidence(i) ==
  IF manifest[i] = None \/ ~incidents[i].sealed THEN "unsealed"
  ELSE IF /\ verifyAuditChain(audits)
          /\ manifest[i].digest = incidents[i]
          /\ manifest[i].final = Last(EventsOf(audits, i)).sequence
       THEN "complete" ELSE "integrity_failed"

Next ==
  \/ \E i \in Incidents :
       \/ Report(i)
       \/ Amend(i)
       \/ AcknowledgeDeadline(i)
       \/ \E n \in DOMAIN incidents[i].commitments :
            CompleteCommitment(i, n) \/ ExpireCommitment(i, n) \/ RenewCommitment(i, n)
       \/ ReadTail(i)
       \/ SignReopen(i)
       \/ RefuseSignature(i)
  \/ \E c \in Clients :
       \/ \E i \in Incidents, f \in Filters : Ask(c, i, f)
       \/ ReadEvents(c)
       \/ RefuseChain(c)
       \/ \E limit \in 1..MaxLimit : ServePage(c, limit)

Spec == Init /\ [][Next]_vars

-----------------------------------------------------------------------------
\* Every variable keeps its type: events are numbered within the trail, and
\* a listing holds events, a cursor and statuses.
TypeOK ==
  /\ audits \in Seq(AuditEvent)
  /\ incidents \in [Incidents -> Incident]
  /\ manifest \in [Incidents -> Manifest \cup {None}]
  /\ signing \in [Incidents -> Signature \cup {None}]
  /\ listing \in [Clients -> Listing]

-----------------------------------------------------------------------------
(* What must hold.                                                         *)

AllMatching(l, n) == Numbers(Matching(Timeline(l.incident, n), l.filter))

\* However the trail grows between two pages and whatever their sizes, the
\* pages a client put together hold every matching event once, in order, and
\* without a gap; a cursor it was given is never refused.
PagesExact ==
  \A c \in Clients :
    /\ listing[c].stage = "reading" => CursorKnown(
         Matching(Timeline(listing[c].incident, listing[c].upTo), listing[c].filter),
         listing[c].cursor)
    /\ IsPrefix(listing[c].got, AllMatching(listing[c], Len(audits)))

\* The page without a next cursor is the last: all that matched when it was
\* read has been shown.
PagesComplete ==
  \A c \in Clients : listing[c].stage = "done" =>
    listing[c].got = AllMatching(listing[c], listing[c].upTo)

\* A listing, however it is interrupted: nothing twice, nothing lost, and an
\* end that is one.
ListingSound == TypeOK /\ PagesExact /\ PagesComplete

\* The two reads behind a page are made in the right order: the statuses
\* shown are never behind the events, so a page taken after a commitment was
\* completed counts it among the completed ones.
StatusesNotBehind ==
  \A c \in Clients : listing[c].stage = "done" =>
    Cardinality({n \in 1..listing[c].upTo : /\ audits[n].incident = listing[c].incident
                                            /\ audits[n].kind = "completed"})
      <= Cardinality({n \in DOMAIN listing[c].statuses : listing[c].statuses[n] = "completed"})

\* Sealed evidence checks out for ever: whatever happens to other incidents
\* afterwards, Evidence reports a sealed incident as complete.  And though
\* its handler read it before the lock, the end of the trail in the sealed
\* snapshot is the incident's very last event before the seal.
SealedEvidenceComplete ==
  \A i \in Incidents : incidents[i].sealed =>
    LET events == EventsOf(audits, i)
    IN  /\ Evidence(i) = "complete"
        /\ incidents[i].tail = events[Len(events) - 1].sequence

-----------------------------------------------------------------------------
(* What the program says of itself and does not keep.                      *)

\* TimelinePage reports a failed check of the digest chain's continuity only
\* when the chain is broken.
IntactTrailShown ==
  \A c \in Clients : listing[c].stage = "broken_chain" => ~verifyAuditChain(audits)

=============================================================================
