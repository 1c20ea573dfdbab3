------------------------------ MODULE WorkOrders ------------------------------
(***************************************************************************)
(* The maintenance work orders of one factory                              *)
(* (services/work-order.service.js, work-order-policy.js and               *)
(* work-order-recovery-policy.js, and the triggers, checks and indexes of  *)
(* migration 20261022010000).                                              *)
(*                                                                         *)
(* An order is made from an assignment of the published schedule, and      *)
(* twelve commands of the people of the factory take it through its life.  *)
(* A transaction holds the factory's lock from its first statement, so it  *)
(* is one action.  A command names the revision its author read: any       *)
(* command may arrive late, and takes effect only at that revision.        *)
(*                                                                         *)
(* Receipts are not modelled: the answer to a repeated request is read     *)
(* back and changes no state (DecisionCommand has the receipts of the same *)
(* design), and without one the revision or the origin refuses it.         *)
(***************************************************************************)
EXTENDS FactoryAccess

CONSTANTS
  Assignments,       \* maintenance assignments of the schedules that get published
  Schedule,          \* the number of the publication an assignment belongs to
  Request,           \* the maintenance request of the basis it carries out
  Overlaps,          \* pairs of assignments of a machine whose windows intersect
  MaxRevision,       \* bound: events of one order
  Nobody

ASSUME OrdersAssumption ==
  /\ Schedule \in [Assignments -> Nat]
  /\ Overlaps \subseteq Assignments \X Assignments
  /\ MaxRevision \in Nat \ {0}
  /\ Nobody \notin Users

VARIABLES
  head,    \* number of the schedule operations_heads points at
  order    \* the work order of each assignment, or NoOrder

orderVars == <<accessVars, head, order>>

Managers == {"ADMIN", "ENGINEER"}
Executors == {"OPERATOR", "ENGINEER"}
Writers == Managers \cup Executors
Terminal == {"CLOSED", "CANCELLED"}

(* Each command's states and the state it leads to. *)
Transitions ==
  [ASSIGN              |-> <<{"UNASSIGNED"}, "ASSIGNED">>,
   REASSIGN            |-> <<{"ASSIGNED", "ACCEPTED", "BLOCKED"}, "ASSIGNED">>,
   ACCEPT              |-> <<{"ASSIGNED"}, "ACCEPTED">>,
   START               |-> <<{"ACCEPTED"}, "IN_PROGRESS">>,
   BLOCK               |-> <<{"IN_PROGRESS"}, "BLOCKED">>,
   RESUME              |-> <<{"BLOCKED"}, "IN_PROGRESS">>,
   COMPLETE            |-> <<{"IN_PROGRESS"}, "COMPLETED">>,
   CLOSE               |-> <<{"COMPLETED"}, "CLOSED">>,
   REQUEST_REWORK      |-> <<{"COMPLETED"}, "IN_PROGRESS">>,
   CANCEL              |-> <<{"UNASSIGNED", "ASSIGNED", "ACCEPTED"}, "CANCELLED">>,
   MANAGER_HOLD        |-> <<{"IN_PROGRESS"}, "BLOCKED">>,
   REASSIGN_FOR_REWORK |-> <<{"COMPLETED"}, "ASSIGNED">>]

OrderCommands == DOMAIN Transitions
ExecutionCommands == {"ACCEPT", "START", "BLOCK", "RESUME", "COMPLETE"}
Verdicts == {"CLOSE", "REQUEST_REWORK", "REASSIGN_FOR_REWORK"}
Reassignments == {"ASSIGN", "REASSIGN", "REASSIGN_FOR_REWORK"}
Recoveries == {"MANAGER_HOLD", "REASSIGN_FOR_REWORK"}

OrderStatus ==
  {"UNASSIGNED", "ASSIGNED", "ACCEPTED", "IN_PROGRESS", "BLOCKED", "COMPLETED"} \cup Terminal

NoOrder == [status |-> "none"]

(* completions is the list of those who reported, one per attempt; the     *)
(* booleans say whether the column is set.                                 *)
Order ==
  [status : OrderStatus, revision : 1..MaxRevision, attempt : 1..MaxRevision,
   assignee : Users \cup {Nobody}, completions : Seq(Users),
   started : BOOLEAN, completed : BOOLEAN, blocker : BOOLEAN,
   verifier : Users \cup {Nobody}]

Exists(a) == order[a] # NoOrder
Active(a) == Exists(a) /\ order[a].status \notin Terminal

(* The one whose completion is to be verified. *)
Reporter(w) == IF w.completions = <<>> THEN Nobody ELSE w.completions[Len(w.completions)]

-----------------------------------------------------------------------------
(* The published schedule moves on when a later case is committed. *)
Republish ==
  /\ \E a \in Assignments : Schedule[a] > head
  /\ head' = head + 1
  /\ UNCHANGED <<accessVars, order>>

NewOrder ==
  [status |-> "UNASSIGNED", revision |-> 1, attempt |-> 1, assignee |-> Nobody,
   completions |-> <<>>, started |-> FALSE, completed |-> FALSE, blocker |-> FALSE,
   verifier |-> Nobody]

(* The request already has an order that is not finished, whichever plan   *)
(* it came from.                                                           *)
RequestTaken(a) == \E b \in Assignments : Active(b) /\ Request[b] = Request[a]

Clash(a) == \E b \in Assignments : Active(b) /\ <<a, b>> \in Overlaps

Create(u, a, override) ==
  /\ AuthorizeWrite(u, Managers)
  /\ Schedule[a] = head
  /\ ~Exists(a)
  /\ ~RequestTaken(a)
  /\ Clash(a) => override
  /\ order' = [order EXCEPT ![a] = NewOrder]
  /\ UNCHANGED <<accessVars, head>>

-----------------------------------------------------------------------------
EligibleAssignee(t) == AuthorizeWrite(t, Executors)

(* Mutant: holding work in progress is part of executing it. *)
HoldIsExecution(u, w, c) ==
  IF c \in ExecutionCommands \cup {"MANAGER_HOLD"}
  THEN role[u] \in Executors /\ w.assignee = u
  ELSE role[u] \in Managers

(* Execution is the assignee's, everything else is a manager's. *)
MayIssue(u, w, c) ==
  IF c \in ExecutionCommands
  THEN role[u] \in Executors /\ w.assignee = u
  ELSE role[u] \in Managers

(* Mutant: who reported the work is asked only when it is sent back. *)
ApplicableToReporter(u, w, c) ==
  /\ w.status \in Transitions[c][1]
  /\ c = "CANCEL" => ~w.started
  /\ c \in Verdicts \ {"CLOSE"} => Reporter(w) # u

(* What the state of the order allows, before the input is looked at. *)
Applicable(u, w, c) ==
  /\ w.status \in Transitions[c][1]
  /\ c = "CANCEL" => ~w.started
  /\ c \in Verdicts => Reporter(w) # u

(* The commands a reader of the order is offered. *)
Available(u, w) == {c \in OrderCommands : Applicable(u, w, c) /\ MayIssue(u, w, c)}

(* The assignees a command may name. *)
Named(c) == IF c \in Reassignments THEN Users ELSE {Nobody}

(* The two commands with which managers take work over have a guard of     *)
(* their own, in a module of its own.                                      *)
Recoverable(u, w, c, t) ==
  IF c = "MANAGER_HOLD"
  THEN w.status = "IN_PROGRESS"
  ELSE w.status = "COMPLETED" /\ Reporter(w) \notin {u, Nobody} /\ t # w.assignee

(* t is the assignee the command names. *)
Acceptable(u, w, c, t) ==
  /\ AuthorizeWrite(u, Writers)
  /\ MayIssue(u, w, c)
  /\ c \in Reassignments => EligibleAssignee(t)
  /\ IF c \in Recoveries
     THEN Recoverable(u, w, c, t)
     ELSE Applicable(u, w, c) /\ (c = "REASSIGN" => t # w.assignee)
  /\ c = "REQUEST_REWORK" => EligibleAssignee(w.assignee)

Patched(w, c, t, u) ==
  [w EXCEPT
     !.status = Transitions[c][2],
     !.revision = @ + 1,
     !.assignee = IF c \in {"ASSIGN", "REASSIGN"} THEN t ELSE @,
     !.attempt = IF c = "REQUEST_REWORK" THEN @ + 1 ELSE @,
     !.started = @ \/ c = "START",
     !.completed = (@ /\ c # "REQUEST_REWORK") \/ c = "COMPLETE",
     !.blocker = (@ /\ c \notin {"ASSIGN", "REASSIGN", "RESUME"}) \/ c = "BLOCK",
     !.completions = IF c = "COMPLETE" THEN Append(@, u) ELSE @,
     !.verifier = IF c = "CLOSE" THEN u ELSE @]

(* Mutant: the order handed over for rework stays in the reported attempt. *)
RecoveredInAttempt(w, c, t) ==
  IF c = "MANAGER_HOLD"
  THEN [w EXCEPT !.revision = @ + 1, !.status = "BLOCKED", !.blocker = TRUE]
  ELSE [w EXCEPT !.revision = @ + 1, !.status = "ASSIGNED", !.assignee = t, !.completed = FALSE]

Recovered(w, c, t) ==
  IF c = "MANAGER_HOLD"
  THEN [w EXCEPT !.revision = @ + 1, !.status = "BLOCKED", !.blocker = TRUE]
  ELSE [w EXCEPT !.revision = @ + 1, !.status = "ASSIGNED", !.assignee = t,
                 !.attempt = @ + 1, !.completed = FALSE]

Command(u, a, expected) ==
  /\ Exists(a)
  /\ expected = order[a].revision
  /\ expected < MaxRevision
  /\ \E c \in OrderCommands : \E t \in Named(c) :
       /\ Acceptable(u, order[a], c, t)
       /\ order' = [order EXCEPT ![a] =
            IF c \in Recoveries THEN Recovered(@, c, t) ELSE Patched(@, c, t, u)]
  /\ UNCHANGED <<accessVars, head>>

-----------------------------------------------------------------------------
(* What the database allows an update of an order to do: written in the    *)
(* migration, independently of the service.                                *)
UpdateGuard(old, new) ==
  /\ new.revision = old.revision + 1
  /\ old.status \notin Terminal
  /\ old.started => new.started
  /\ new.attempt = old.attempt +
       (IF old.status = "COMPLETED" /\ new.status \in {"IN_PROGRESS", "ASSIGNED"} THEN 1 ELSE 0)
  /\ new.status \in
       CASE old.status = "UNASSIGNED"  -> {"ASSIGNED", "CANCELLED"}
         [] old.status = "ASSIGNED"    -> {"ASSIGNED", "ACCEPTED", "CANCELLED"}
         [] old.status = "ACCEPTED"    -> {"ASSIGNED", "IN_PROGRESS", "CANCELLED"}
         [] old.status = "IN_PROGRESS" -> {"BLOCKED", "COMPLETED"}
         [] old.status = "BLOCKED"     -> {"ASSIGNED", "IN_PROGRESS"}
         [] old.status = "COMPLETED"   -> {"IN_PROGRESS", "ASSIGNED", "CLOSED"}
         [] OTHER -> {}

(* The CHECK constraints of the row. *)
RowChecks(w) ==
  /\ w.status \in OrderStatus \ {"UNASSIGNED", "CANCELLED"} => w.assignee # Nobody
  /\ w.status \in {"IN_PROGRESS", "BLOCKED", "COMPLETED", "CLOSED"} => w.started
  /\ w.status \in {"COMPLETED", "CLOSED"} <=> w.completed
  /\ w.status = "BLOCKED" <=> w.blocker
  /\ w.status = "CLOSED" <=> w.verifier # Nobody
  /\ w.status = "CANCELLED" => ~w.started

-----------------------------------------------------------------------------
OrdersTypeOK ==
  /\ AccessTypeOK
  /\ head \in Nat
  /\ order \in [Assignments -> Order \cup {NoOrder}]

OrdersInit ==
  /\ AccessInit
  /\ head = 1
  /\ order = [a \in Assignments |-> NoOrder]

OrderStep ==
  \/ Republish
  \/ \E u \in Users, a \in Assignments :
       \/ \E override \in BOOLEAN : Create(u, a, override)
       \/ \E expected \in 1..MaxRevision : Command(u, a, expected)

OrdersNext == OrderStep \/ (ChangeAccess /\ UNCHANGED <<head, order>>)

OrdersSpec == OrdersInit /\ [][OrdersNext]_orderVars

-----------------------------------------------------------------------------
(* Two plans on one basis never have two unfinished orders for the same    *)
(* maintenance request (the partial unique index of the migration).        *)
OneActivePerRequest ==
  \A a, b \in Assignments : Active(a) /\ Active(b) /\ Request[a] = Request[b] => a = b

(* An attempt is reported once: the key (order, attempt) of the completions *)
(* is never taken twice, and a finished attempt is the one that is judged.  *)
OneReportPerAttempt(w) ==
  Len(w.completions) = IF w.status \in {"COMPLETED", "CLOSED"} THEN w.attempt ELSE w.attempt - 1

(* The one who accepted the work is not the one who reported it, whatever   *)
(* roles changed and whoever took the order over in between.                *)
VerifiedByAnother(w) == w.status = "CLOSED" => w.verifier # Reporter(w)

(* The orders keep to the row checks, to one report per attempt, to an      *)
(* independent verification and to one unfinished order per request.        *)
OrdersSafe ==
  /\ OrdersTypeOK
  /\ OneActivePerRequest
  /\ \A a \in Assignments :
       Exists(a) => /\ RowChecks(order[a])
                    /\ OneReportPerAttempt(order[a])
                    /\ VerifiedByAnother(order[a])

(* Whoever loses access or changes role, an unfinished order is in nobody's *)
(* hands alone: with two people who manage and one who may be assigned, one *)
(* of them is offered a command that is accepted.                           *)
NeverOrphaned ==
  \A a \in Assignments : Active(a) =>
    \A m1, m2, t \in Users :
      /\ m1 # m2
      /\ AuthorizeWrite(m1, Managers) /\ AuthorizeWrite(m2, Managers)
      /\ EligibleAssignee(t) /\ t # order[a].assignee
      => \E u \in {m1, m2} : \E c \in Available(u, order[a]) :
           \E s \in Named(c) \cap {t, Nobody} : Acceptable(u, order[a], c, s)

(* The guard the migration puts on an update of an order refuses nothing    *)
(* the service does: no command can fail halfway in the database.           *)
UpdateGuardNeverFires ==
  [][\A a \in Assignments :
       Exists(a) /\ order'[a] # order[a] => UpdateGuard(order[a], order'[a])]_orderVars
=============================================================================
