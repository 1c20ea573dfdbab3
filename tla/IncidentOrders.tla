---------------------------- MODULE IncidentOrders ----------------------------
(***************************************************************************)
(* The incidents of a factory, over its work orders                        *)
(* (services/incident.service.js, incident-policy.js,                      *)
(* incident-work-orders.service.js, migration 20261022020000).             *)
(*                                                                         *)
(* A report opens an incident, its owner investigates and resolves it, a   *)
(* manager who did not resolve it closes it.  People link work orders to   *)
(* it; resolving and closing read every linked order in the same           *)
(* transaction, under the factory's lock that the orders' commands take.   *)
(* Neither module writes the other's rows.                                 *)
(*                                                                         *)
(* As for orders, receipts are left out, and so are links to cases, which  *)
(* no later guard reads.                                                   *)
(***************************************************************************)
EXTENDS WorkOrders

CONSTANTS
  Incidents,            \* identities of incidents
  Sources,              \* reported events: manual reports and health-alert cases
  Machine,              \* the machine of a source or an assignment, or NoMachine
  NoMachine,
  NoIncident,
  MaxLinks,             \* active links of one incident: 50 in the code, which counts
                        \* cases too (a link they leave no room for is no step)
  MaxIncidentRevision   \* bound: changes of one incident

ASSUME IncidentsAssumption ==
  /\ NoIncident \notin Incidents
  /\ DOMAIN Machine = Sources \cup Assignments
  /\ MaxLinks \in Nat
  /\ MaxIncidentRevision \in Nat \ {0}
  /\ IsFiniteSet(Sources)

VARIABLES
  incident,     \* the incident with each identity, or NoRow
  occurrence    \* the incident each source was recorded for, or NoIncident

incidentVars == <<incident, occurrence>>
vars == <<orderVars, incidentVars>>

NoRow == [status |-> "none"]
Known(i) == incident[i] # NoRow

IncidentStatus == {"OPEN", "ACKNOWLEDGED", "INVESTIGATING", "RESOLVED", "CLOSED"}
Ongoing == {"OPEN", "ACKNOWLEDGED", "INVESTIGATING"}

(* severity says whether a manager has confirmed one; settled is the       *)
(* history of the closure: the orders linked at the time, none when the    *)
(* manager overrode the check.                                             *)
Incident ==
  [status : IncidentStatus, revision : 1..MaxIncidentRevision, owner : Users \cup {Nobody},
   severity : BOOLEAN, resolver : Users \cup {Nobody}, closer : Users \cup {Nobody},
   acknowledged : BOOLEAN, machine : {Machine[s] : s \in Sources},
   links : SUBSET Assignments, occurrences : 1..Cardinality(Sources),
   settled : SUBSET Assignments]

-----------------------------------------------------------------------------
(* What every command asks before its own guard. *)
Fenced(u, i, expected) ==
  /\ AuthorizeWrite(u, Writers)
  /\ Known(i)
  /\ expected = incident[i].revision
  /\ expected < MaxIncidentRevision

Manager(u) == role[u] \in Managers
Owner(u, i) == role[u] \in Executors /\ incident[i].owner = u

Write(i, patched) ==
  /\ incident' = [incident EXCEPT ![i] = [patched EXCEPT !.revision = @ + 1]]
  /\ UNCHANGED orderVars

(* A source that is already recorded answers with its incident and writes  *)
(* nothing; a second incident of a machine needs a reason.                 *)
Report(u, i, s, confirmed, related) ==
  /\ AuthorizeWrite(u, Writers)
  /\ confirmed => Manager(u)
  /\ occurrence[s] = NoIncident
  /\ ~Known(i)
  /\ Machine[s] # NoMachine /\ (\E j \in Incidents : Known(j) /\ incident[j].machine = Machine[s])
       => related
  /\ incident' = [incident EXCEPT ![i] =
       [status |-> "OPEN", revision |-> 1, owner |-> Nobody, severity |-> confirmed,
        resolver |-> Nobody, closer |-> Nobody, acknowledged |-> FALSE,
        machine |-> Machine[s], links |-> {}, occurrences |-> 1, settled |-> {}]]
  /\ occurrence' = [occurrence EXCEPT ![s] = i]
  /\ UNCHANGED orderVars

(* Assignment and reassignment hand the incident to another eligible owner, *)
(* who acknowledges anew.                                                   *)
Assign(u, i, t) ==
  /\ Manager(u)
  /\ IF incident[i].owner = Nobody
     THEN incident[i].status = "OPEN"
     ELSE incident[i].status \in Ongoing /\ incident[i].owner # t
  /\ EligibleAssignee(t)
  /\ Write(i, [incident[i] EXCEPT !.owner = t, !.status = "OPEN", !.acknowledged = FALSE])
  /\ UNCHANGED occurrence

Acknowledge(u, i) ==
  /\ Owner(u, i)
  /\ incident[i].status = "OPEN"
  /\ Write(i, [incident[i] EXCEPT !.status = "ACKNOWLEDGED", !.acknowledged = TRUE])
  /\ UNCHANGED occurrence

StartInvestigation(u, i) ==
  /\ Owner(u, i)
  /\ incident[i].status = "ACKNOWLEDGED"
  /\ Write(i, [incident[i] EXCEPT !.status = "INVESTIGATING"])
  /\ UNCHANGED occurrence

(* Mutant: an order whose work is reported counts as finished. *)
ReportedCounts(u, i, override) ==
  /\ (\E a \in incident[i].links : order[a].status \notin Terminal \cup {"COMPLETED"}) => override
  /\ override => Manager(u)

(* The linked orders are finished, or a manager overrides; declaring an     *)
(* override takes a manager even when none is needed.                       *)
OrdersChecked(u, i, override) ==
  /\ (\E a \in incident[i].links : order[a].status \notin Terminal) => override
  /\ override => Manager(u)

MarkResolved(u, i, override) ==
  /\ Owner(u, i)
  /\ incident[i].status = "INVESTIGATING"
  /\ OrdersChecked(u, i, override)
  /\ Write(i, [incident[i] EXCEPT !.status = "RESOLVED", !.resolver = u])
  /\ UNCHANGED occurrence

Close(u, i, override) ==
  /\ Manager(u)
  /\ incident[i].status = "RESOLVED"
  /\ incident[i].resolver \notin {u, Nobody}
  /\ incident[i].severity
  /\ OrdersChecked(u, i, override)
  /\ Write(i, [incident[i] EXCEPT
       !.status = "CLOSED", !.closer = u, !.settled = IF override THEN {} ELSE incident[i].links])
  /\ UNCHANGED occurrence

(* What was resolved goes back to investigation, what was closed starts     *)
(* over with the owner it had; the earlier resolution stays on the row.     *)
Reopen(u, i) ==
  /\ Manager(u)
  /\ \/ /\ incident[i].status = "RESOLVED"
        /\ Write(i, [incident[i] EXCEPT !.status = "INVESTIGATING"])
     \/ /\ incident[i].status = "CLOSED"
        /\ Write(i, [incident[i] EXCEPT !.status = "OPEN", !.acknowledged = FALSE])
  /\ UNCHANGED occurrence

ChangeSeverity(u, i) ==
  /\ Manager(u)
  /\ Write(i, [incident[i] EXCEPT !.severity = TRUE])
  /\ UNCHANGED occurrence

(* A further occurrence of the same trouble; one this incident already has  *)
(* is not counted twice, one of another incident is refused.                *)
AppendOccurrence(u, i, s) ==
  /\ Manager(u)
  /\ incident[i].status \in Ongoing
  /\ Machine[s] = incident[i].machine
  /\ occurrence[s] = NoIncident
  /\ Write(i, [incident[i] EXCEPT !.occurrences = @ + 1])
  /\ occurrence' = [occurrence EXCEPT ![s] = i]

(* Links come and go in every state of the incident. *)
Link(u, i, a) ==
  /\ Manager(u)
  /\ Exists(a)
  /\ incident[i].machine \in {NoMachine, Machine[a]}
  /\ a \notin incident[i].links
  /\ Cardinality(incident[i].links) < MaxLinks
  /\ Write(i, [incident[i] EXCEPT !.links = @ \cup {a}])
  /\ UNCHANGED occurrence

Unlink(u, i, a) ==
  /\ Manager(u)
  /\ a \in incident[i].links
  /\ Write(i, [incident[i] EXCEPT !.links = @ \ {a}])
  /\ UNCHANGED occurrence

IncidentCommand(u, i) ==
  \/ \E t \in Users : Assign(u, i, t)
  \/ Acknowledge(u, i)
  \/ StartInvestigation(u, i)
  \/ \E override \in BOOLEAN : MarkResolved(u, i, override) \/ Close(u, i, override)
  \/ Reopen(u, i)
  \/ ChangeSeverity(u, i)
  \/ \E s \in Sources : AppendOccurrence(u, i, s)
  \/ \E a \in Assignments : Link(u, i, a) \/ Unlink(u, i, a)

IncidentStep ==
  \E u \in Users, i \in Incidents :
    \/ \E s \in Sources, confirmed, related \in BOOLEAN : Report(u, i, s, confirmed, related)
    \/ \E expected \in 1..MaxIncidentRevision : Fenced(u, i, expected) /\ IncidentCommand(u, i)

-----------------------------------------------------------------------------
TypeOK ==
  /\ OrdersTypeOK
  /\ incident \in [Incidents -> Incident \cup {NoRow}]
  /\ occurrence \in [Sources -> Incidents \cup {NoIncident}]

Init ==
  /\ OrdersInit
  /\ incident = [i \in Incidents |-> NoRow]
  /\ occurrence = [s \in Sources |-> NoIncident]

Next == IncidentStep \/ (OrdersNext /\ UNCHANGED incidentVars)

Spec == Init /\ [][Next]_vars

-----------------------------------------------------------------------------
(* A closed incident was judged by another person than the one who resolved *)
(* it and has a confirmed severity (the row check of the migration, and the *)
(* comment of incident-policy.js on independent verification).              *)
ClosedByAnother(i) ==
  incident[i].status = "CLOSED" =>
    /\ incident[i].resolver # Nobody
    /\ incident[i].closer \notin {Nobody, incident[i].resolver}
    /\ incident[i].severity

(* What a manager closed without an override stays finished: the orders     *)
(* linked at that moment are never reopened afterwards, by rework or by a   *)
(* later plan, and the work in them was accepted by someone who had not     *)
(* reported it.                                                             *)
ClosedOverFinishedWork(i) ==
  incident[i].status = "CLOSED" =>
    \A a \in incident[i].settled :
      order[a].status \in Terminal /\ VerifiedByAnother(order[a])

(* Each source belongs to one incident, which counts it once. *)
OccurrencesCounted(i) ==
  incident[i].occurrences = Cardinality({s \in Sources : occurrence[s] = i})

(* Incidents are closed by someone else over work that is finished for      *)
(* good, and count each source once.                                        *)
IncidentsSafe ==
  /\ TypeOK
  /\ \A i \in Incidents : Known(i) =>
       ClosedByAnother(i) /\ ClosedOverFinishedWork(i) /\ OccurrencesCounted(i)
=============================================================================
