----------------------------- MODULE CommandLog -----------------------------
(***************************************************************************)
(* What the incident store promises to the people who use it, with none of *)
(* its mechanism: one log of commands, each request_id recorded at most    *)
(* once, and one fixed answer per request_id.  The answer to a command     *)
(* names its incident and the revision the command brought it to, and is   *)
(* given only for a command that is in the log.                            *)
(*                                                                         *)
(* Losing power may drop commands from the end of the log, never one that  *)
(* was answered.  Module Store implements this specification.              *)
(***************************************************************************)
EXTENDS Naturals, Sequences, FiniteSets

CONSTANTS Requests, Incidents

VARIABLES log, answers

vars == <<log, answers>>

Entry == [request : Requests, incident : Incidents, seals : BOOLEAN]

-----------------------------------------------------------------------------
\* The revision entry i brought its incident to: the entries of that
\* incident up to and including i.
RevisionAt(i) ==
  Cardinality({j \in 1..i : log[j].incident = log[i].incident})

Recorded(r) == \E i \in DOMAIN log : log[i].request = r

AnswerAt(i) ==
  [request |-> log[i].request, incident |-> log[i].incident,
   revision |-> RevisionAt(i)]

Init == log = <<>> /\ answers = {}

\* A command takes effect: once per request_id, and on no sealed incident.
Record(e) ==
  /\ ~Recorded(e.request)
  /\ \A i \in DOMAIN log : log[i].seals => log[i].incident # e.incident
  /\ log' = Append(log, e)
  /\ UNCHANGED answers

\* A client learns the result of a command, first time or repeated.
Tell(i) ==
  /\ answers' = answers \cup {AnswerAt(i)}
  /\ UNCHANGED log

\* Power is lost: the commands after the first n were not yet durable.
Forget(n) ==
  /\ \A a \in answers : \E i \in 1..n : log[i].request = a.request
  /\ log' = SubSeq(log, 1, n)
  /\ UNCHANGED answers

Next ==
  \/ \E e \in Entry : Record(e)
  \/ \E i \in DOMAIN log : Tell(i)
  \/ \E n \in 0..Len(log) : Forget(n)

Spec == Init /\ [][Next]_vars

=============================================================================
