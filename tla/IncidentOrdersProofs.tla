-------------------------- MODULE IncidentOrdersProofs --------------------------
(***************************************************************************)
(* Proofs about WorkOrders, for any users, assignments and publications,   *)
(* any changes of access and any bounds; and, on top of them, about        *)
(* IncidentOrders, for any people, sources, incidents and orders.          *)
(***************************************************************************)
EXTENDS IncidentOrders, FiniteSetTheorems, TLAPS

-----------------------------------------------------------------------------
(* WorkOrders.                                                             *)

(* What holds of each order.  The attempts are bounded by the revisions,   *)
(* because only a command begins one.                                      *)
RowInv(w) ==
  /\ w \in Order
  /\ RowChecks(w)
  /\ OneReportPerAttempt(w)
  /\ VerifiedByAnother(w)
  /\ w.attempt <= w.revision

RowsInv == \A a \in Assignments : Exists(a) => RowInv(order[a])

OrdersInv == OrdersTypeOK /\ OneActivePerRequest /\ RowsInv

-----------------------------------------------------------------------------
(* Orders as records. *)

LEMMA OrderFields ==
  ASSUME NEW w \in Order
  PROVE  /\ w.status \in OrderStatus
         /\ w.revision \in 1..MaxRevision
         /\ w.attempt \in 1..MaxRevision
         /\ w.assignee \in Users \cup {Nobody}
         /\ w.completions \in Seq(Users)
         /\ w.started \in BOOLEAN /\ w.completed \in BOOLEAN /\ w.blocker \in BOOLEAN
         /\ w.verifier \in Users \cup {Nobody}
         /\ w # NoOrder
  BY DEF Order, NoOrder, OrderStatus, Terminal

LEMMA NewOrderOK == RowInv(NewOrder) /\ NewOrder.status = "UNASSIGNED" /\ NewOrder # NoOrder
  <1>1. 1 \in 1..MaxRevision
    BY OrdersAssumption
  <1>2. NewOrder \in Order
    BY <1>1, OrdersAssumption DEF NewOrder, Order, OrderStatus
  <1>3. RowChecks(NewOrder)
    BY DEF NewOrder, RowChecks, OrderStatus, Terminal
  <1>4. OneReportPerAttempt(NewOrder) /\ VerifiedByAnother(NewOrder)
    BY OrdersAssumption DEF NewOrder, OneReportPerAttempt, VerifiedByAnother
  <1>5. NewOrder.attempt <= NewOrder.revision /\ NewOrder.status = "UNASSIGNED"
    BY DEF NewOrder
  <1>. QED
    BY <1>2, <1>3, <1>4, <1>5, OrderFields DEF RowInv

-----------------------------------------------------------------------------
(* What a command does to the order it is accepted for. *)

(* The fields of an order that a command other than a recovery leaves. *)
LEMMA PatchedFields ==
  ASSUME NEW w \in Order, w.revision < MaxRevision, w.attempt <= w.revision,
         NEW c \in OrderCommands \ Recoveries, NEW t \in Named(c), NEW u \in Users,
         Transitions[c][2] \in OrderStatus
  PROVE  LET p == Patched(w, c, t, u) IN
         /\ p \in Order
         /\ p.status = Transitions[c][2]
         /\ p.revision = w.revision + 1
         /\ p.assignee = IF c \in {"ASSIGN", "REASSIGN"} THEN t ELSE w.assignee
         /\ p.attempt = IF c = "REQUEST_REWORK" THEN w.attempt + 1 ELSE w.attempt
         /\ p.started <=> w.started \/ c = "START"
         /\ p.completed <=> (w.completed /\ c # "REQUEST_REWORK") \/ c = "COMPLETE"
         /\ p.blocker <=> (w.blocker /\ c \notin {"ASSIGN", "REASSIGN", "RESUME"}) \/ c = "BLOCK"
         /\ p.completions = IF c = "COMPLETE" THEN Append(w.completions, u) ELSE w.completions
         /\ p.verifier = IF c = "CLOSE" THEN u ELSE w.verifier
  <1>. DEFINE status == Transitions[c][2]
              assignee == IF c \in {"ASSIGN", "REASSIGN"} THEN t ELSE w.assignee
              attempt == IF c = "REQUEST_REWORK" THEN w.attempt + 1 ELSE w.attempt
              started == w.started \/ c = "START"
              completed == (w.completed /\ c # "REQUEST_REWORK") \/ c = "COMPLETE"
              blocker == (w.blocker /\ c \notin {"ASSIGN", "REASSIGN", "RESUME"}) \/ c = "BLOCK"
              completions == IF c = "COMPLETE" THEN Append(w.completions, u) ELSE w.completions
              verifier == IF c = "CLOSE" THEN u ELSE w.verifier
  <1>0. /\ w.revision \in 1..MaxRevision /\ w.attempt \in 1..MaxRevision
        /\ w.assignee \in Users \cup {Nobody} /\ w.verifier \in Users \cup {Nobody}
        /\ w.completions \in Seq(Users) /\ MaxRevision \in Nat
    BY OrderFields, OrdersAssumption
  <1>1. w.revision + 1 \in 1..MaxRevision /\ attempt \in 1..MaxRevision
    BY <1>0
  <1>2. assignee \in Users \cup {Nobody} /\ verifier \in Users \cup {Nobody}
    BY <1>0 DEF Named, Reassignments
  <1>3. completions \in Seq(Users)
    BY <1>0
  <1>4. started \in BOOLEAN /\ completed \in BOOLEAN /\ blocker \in BOOLEAN
    OBVIOUS
  <1>5. Patched(w, c, t, u) =
          [status |-> status, revision |-> w.revision + 1, attempt |-> attempt,
           assignee |-> assignee, completions |-> completions, started |-> started,
           completed |-> completed, blocker |-> blocker, verifier |-> verifier]
    <2>1. w = [status |-> w.status, revision |-> w.revision, attempt |-> w.attempt,
               assignee |-> w.assignee, completions |-> w.completions, started |-> w.started,
               completed |-> w.completed, blocker |-> w.blocker, verifier |-> w.verifier]
      BY DEF Order
    <2>2. Patched(w, c, t, u) =
            [w EXCEPT !.status = status, !.revision = w.revision + 1, !.assignee = assignee,
                      !.attempt = attempt, !.started = started, !.completed = completed,
                      !.blocker = blocker, !.completions = completions, !.verifier = verifier]
      BY DEF Patched
    <2>. HIDE DEF status, assignee, attempt, started, completed, blocker, completions, verifier
    <2>. QED
      BY <2>1, <2>2
  <1>6. status \in OrderStatus
    OBVIOUS
  <1>. HIDE DEF status, assignee, attempt, started, completed, blocker, completions, verifier
  <1>7. Patched(w, c, t, u) \in Order
    BY <1>1, <1>2, <1>3, <1>4, <1>5, <1>6 DEF Order
  <1>8. LET p == Patched(w, c, t, u) IN
        /\ p.status = status /\ p.revision = w.revision + 1 /\ p.attempt = attempt
        /\ p.assignee = assignee /\ p.completions = completions /\ p.started = started
        /\ p.completed = completed /\ p.blocker = blocker /\ p.verifier = verifier
    BY <1>5
  <1>. QED
    BY <1>7, <1>8 DEF status, assignee, attempt, started, completed, blocker, completions, verifier

(* The fields of an order that a manager takes over. *)
LEMMA RecoveredFields ==
  ASSUME NEW w \in Order, w.revision < MaxRevision, w.attempt <= w.revision,
         NEW c \in Recoveries, NEW t \in Named(c)
  PROVE  LET p == Recovered(w, c, t)
             hold == c = "MANAGER_HOLD" IN
         /\ p \in Order
         /\ p.status = IF hold THEN "BLOCKED" ELSE "ASSIGNED"
         /\ p.revision = w.revision + 1
         /\ p.assignee = IF hold THEN w.assignee ELSE t
         /\ p.attempt = IF hold THEN w.attempt ELSE w.attempt + 1
         /\ p.started = w.started
         /\ p.completed <=> hold /\ w.completed
         /\ p.blocker <=> hold \/ w.blocker
         /\ p.completions = w.completions
         /\ p.verifier = w.verifier
  <1>0. /\ w.revision + 1 \in 1..MaxRevision /\ w.attempt + 1 \in 1..MaxRevision
        /\ {"BLOCKED", "ASSIGNED"} \subseteq OrderStatus
    BY OrderFields, OrdersAssumption DEF OrderStatus
  <1>1. w = [status |-> w.status, revision |-> w.revision, attempt |-> w.attempt,
             assignee |-> w.assignee, completions |-> w.completions, started |-> w.started,
             completed |-> w.completed, blocker |-> w.blocker, verifier |-> w.verifier]
    BY DEF Order
  <1>2. CASE c = "MANAGER_HOLD"
    <2>1. Recovered(w, c, t) =
            [status |-> "BLOCKED", revision |-> w.revision + 1, attempt |-> w.attempt,
             assignee |-> w.assignee, completions |-> w.completions, started |-> w.started,
             completed |-> w.completed, blocker |-> TRUE, verifier |-> w.verifier]
      BY <1>1, <1>2 DEF Recovered
    <2>2. Recovered(w, c, t) \in Order
      BY <1>0, <2>1, OrderFields DEF Order
    <2>3. (w.completed <=> w.completed) /\ w.completed \in BOOLEAN /\ w.blocker \in BOOLEAN
      BY OrderFields
    <2>. QED
      BY <1>2, <2>1, <2>2, <2>3
  <1>3. CASE c # "MANAGER_HOLD"
    <2>1. Recovered(w, c, t) =
            [status |-> "ASSIGNED", revision |-> w.revision + 1, attempt |-> w.attempt + 1,
             assignee |-> t, completions |-> w.completions, started |-> w.started,
             completed |-> FALSE, blocker |-> w.blocker, verifier |-> w.verifier]
      BY <1>1, <1>3 DEF Recovered
    <2>2. t \in Users
      BY <1>3 DEF Named, Recoveries, Reassignments
    <2>. QED
      BY <1>0, <1>3, <2>1, <2>2, OrderFields DEF Order
  <1>. QED
    BY <1>2, <1>3

(* The table of transitions, line by line. *)
LEMMA CommandTable ==
  /\ OrderCommands = {"ASSIGN", "REASSIGN", "ACCEPT", "START", "BLOCK", "RESUME", "COMPLETE",
                      "CLOSE", "REQUEST_REWORK", "CANCEL"} \cup Recoveries
  /\ Transitions["ASSIGN"] = <<{"UNASSIGNED"}, "ASSIGNED">>
  /\ Transitions["REASSIGN"] = <<{"ASSIGNED", "ACCEPTED", "BLOCKED"}, "ASSIGNED">>
  /\ Transitions["ACCEPT"] = <<{"ASSIGNED"}, "ACCEPTED">>
  /\ Transitions["START"] = <<{"ACCEPTED"}, "IN_PROGRESS">>
  /\ Transitions["BLOCK"] = <<{"IN_PROGRESS"}, "BLOCKED">>
  /\ Transitions["RESUME"] = <<{"BLOCKED"}, "IN_PROGRESS">>
  /\ Transitions["COMPLETE"] = <<{"IN_PROGRESS"}, "COMPLETED">>
  /\ Transitions["CLOSE"] = <<{"COMPLETED"}, "CLOSED">>
  /\ Transitions["REQUEST_REWORK"] = <<{"COMPLETED"}, "IN_PROGRESS">>
  /\ Transitions["CANCEL"] = <<{"UNASSIGNED", "ASSIGNED", "ACCEPTED"}, "CANCELLED">>
  BY DEF OrderCommands, Transitions, Recoveries

(* An order after the command c of u, who named t. *)
After(w, c, t, u) == IF c \in Recoveries THEN Recovered(w, c, t) ELSE Patched(w, c, t, u)

(* What the rows and the database's guard ask of an order p that follows w. *)
Follows(w, p) ==
  RowChecks(p) /\ OneReportPerAttempt(p) /\ VerifiedByAnother(p) /\ UpdateGuard(w, p)

(* A command other than a recovery keeps an order to its rules: one case   *)
(* per command.                                                            *)
LEMMA PatchedRow ==
  ASSUME NEW w, RowInv(w), w.revision < MaxRevision,
         NEW c \in OrderCommands \ Recoveries, NEW t \in Named(c), NEW u \in Users,
         Acceptable(u, w, c, t)
  PROVE  RowInv(Patched(w, c, t, u)) /\ UpdateGuard(w, Patched(w, c, t, u))
  <1>1. /\ w \in Order /\ w.attempt <= w.revision
        /\ RowChecks(w) /\ OneReportPerAttempt(w) /\ VerifiedByAnother(w)
    BY DEF RowInv
  <1>2. /\ w.status \in Transitions[c][1]
        /\ c = "CANCEL" => ~w.started
        /\ c \in Verdicts => Reporter(w) # u
    BY DEF Acceptable, Applicable
  <1>3. Transitions[c][2] \in OrderStatus
    BY CommandTable DEF OrderStatus, Terminal
  <1>. DEFINE p == Patched(w, c, t, u)
  <1>4. /\ p \in Order
        /\ p.status = Transitions[c][2]
        /\ p.revision = w.revision + 1
        /\ p.assignee = IF c \in {"ASSIGN", "REASSIGN"} THEN t ELSE w.assignee
        /\ p.attempt = IF c = "REQUEST_REWORK" THEN w.attempt + 1 ELSE w.attempt
        /\ p.started <=> w.started \/ c = "START"
        /\ p.completed <=> (w.completed /\ c # "REQUEST_REWORK") \/ c = "COMPLETE"
        /\ p.blocker <=> (w.blocker /\ c \notin {"ASSIGN", "REASSIGN", "RESUME"}) \/ c = "BLOCK"
        /\ p.completions = IF c = "COMPLETE" THEN Append(w.completions, u) ELSE w.completions
        /\ p.verifier = IF c = "CLOSE" THEN u ELSE w.verifier
    BY <1>1, <1>3, PatchedFields
  <1>. HIDE DEF p
  <1>5. /\ w.revision \in Nat /\ w.attempt \in Nat /\ Len(w.completions) \in Nat
        /\ Len(Append(w.completions, u)) = Len(w.completions) + 1
        /\ u # Nobody /\ Nobody \notin Users
    BY <1>1, OrderFields, OrdersAssumption
  <1>6. p.attempt <= p.revision
    BY <1>1, <1>4, <1>5
  <1>7. c \in {"ASSIGN", "REASSIGN"} => t \in Users
    BY DEF Named, Reassignments
  <1>8. ASSUME c = "ASSIGN" PROVE Follows(w, p)
    <2>1. w.status \in Transitions["ASSIGN"][1] /\ p.status = Transitions["ASSIGN"][2]
      BY <1>2, <1>4, <1>8
    <2>. QED
      BY <1>1, <1>2, <1>4, <1>5, <1>6, <1>7, <1>8, <2>1, CommandTable
      DEF Follows, RowChecks, OneReportPerAttempt, VerifiedByAnother, UpdateGuard, OrderStatus,
          Terminal, Reporter, Verdicts
  <1>9. ASSUME c = "REASSIGN" PROVE Follows(w, p)
    <2>1. w.status \in Transitions["REASSIGN"][1] /\ p.status = Transitions["REASSIGN"][2]
      BY <1>2, <1>4, <1>9
    <2>. QED
      BY <1>1, <1>2, <1>4, <1>5, <1>6, <1>7, <1>9, <2>1, CommandTable
      DEF Follows, RowChecks, OneReportPerAttempt, VerifiedByAnother, UpdateGuard, OrderStatus,
          Terminal, Reporter, Verdicts
  <1>10. ASSUME c = "ACCEPT" PROVE Follows(w, p)
    <2>1. w.status \in Transitions["ACCEPT"][1] /\ p.status = Transitions["ACCEPT"][2]
      BY <1>2, <1>4, <1>10
    <2>. QED
      BY <1>1, <1>2, <1>4, <1>5, <1>6, <1>7, <1>10, <2>1, CommandTable
      DEF Follows, RowChecks, OneReportPerAttempt, VerifiedByAnother, UpdateGuard, OrderStatus,
          Terminal, Reporter, Verdicts
  <1>11. ASSUME c = "START" PROVE Follows(w, p)
    <2>1. w.status \in Transitions["START"][1] /\ p.status = Transitions["START"][2]
      BY <1>2, <1>4, <1>11
    <2>. QED
      BY <1>1, <1>2, <1>4, <1>5, <1>6, <1>7, <1>11, <2>1, CommandTable
      DEF Follows, RowChecks, OneReportPerAttempt, VerifiedByAnother, UpdateGuard, OrderStatus,
          Terminal, Reporter, Verdicts
  <1>12. ASSUME c = "BLOCK" PROVE Follows(w, p)
    <2>1. w.status \in Transitions["BLOCK"][1] /\ p.status = Transitions["BLOCK"][2]
      BY <1>2, <1>4, <1>12
    <2>. QED
      BY <1>1, <1>2, <1>4, <1>5, <1>6, <1>7, <1>12, <2>1, CommandTable
      DEF Follows, RowChecks, OneReportPerAttempt, VerifiedByAnother, UpdateGuard, OrderStatus,
          Terminal, Reporter, Verdicts
  <1>13. ASSUME c = "RESUME" PROVE Follows(w, p)
    <2>1. w.status \in Transitions["RESUME"][1] /\ p.status = Transitions["RESUME"][2]
      BY <1>2, <1>4, <1>13
    <2>. QED
      BY <1>1, <1>2, <1>4, <1>5, <1>6, <1>7, <1>13, <2>1, CommandTable
      DEF Follows, RowChecks, OneReportPerAttempt, VerifiedByAnother, UpdateGuard, OrderStatus,
          Terminal, Reporter, Verdicts
  <1>14. ASSUME c = "COMPLETE" PROVE Follows(w, p)
    <2>1. w.status \in Transitions["COMPLETE"][1] /\ p.status = Transitions["COMPLETE"][2]
      BY <1>2, <1>4, <1>14
    <2>. QED
      BY <1>1, <1>2, <1>4, <1>5, <1>6, <1>7, <1>14, <2>1, CommandTable
      DEF Follows, RowChecks, OneReportPerAttempt, VerifiedByAnother, UpdateGuard, OrderStatus,
          Terminal, Reporter, Verdicts
  <1>15. ASSUME c = "CLOSE" PROVE Follows(w, p)
    <2>1. w.status \in Transitions["CLOSE"][1] /\ p.status = Transitions["CLOSE"][2]
      BY <1>2, <1>4, <1>15
    <2>. QED
      BY <1>1, <1>2, <1>4, <1>5, <1>6, <1>7, <1>15, <2>1, CommandTable
      DEF Follows, RowChecks, OneReportPerAttempt, VerifiedByAnother, UpdateGuard, OrderStatus,
          Terminal, Reporter, Verdicts
  <1>16. ASSUME c = "REQUEST_REWORK" PROVE Follows(w, p)
    <2>1. w.status \in Transitions["REQUEST_REWORK"][1] /\ p.status = Transitions["REQUEST_REWORK"][2]
      BY <1>2, <1>4, <1>16
    <2>. QED
      BY <1>1, <1>2, <1>4, <1>5, <1>6, <1>7, <1>16, <2>1, CommandTable
      DEF Follows, RowChecks, OneReportPerAttempt, VerifiedByAnother, UpdateGuard, OrderStatus,
          Terminal, Reporter, Verdicts
  <1>17. ASSUME c = "CANCEL" PROVE Follows(w, p)
    <2>1. w.status \in Transitions["CANCEL"][1] /\ p.status = Transitions["CANCEL"][2]
      BY <1>2, <1>4, <1>17
    <2>. QED
      BY <1>1, <1>2, <1>4, <1>5, <1>6, <1>7, <1>17, <2>1, CommandTable
      DEF Follows, RowChecks, OneReportPerAttempt, VerifiedByAnother, UpdateGuard, OrderStatus,
          Terminal, Reporter, Verdicts
  <1>18. Follows(w, p)
    BY <1>8, <1>9, <1>10, <1>11, <1>12, <1>13, <1>14, <1>15, <1>16, <1>17, CommandTable
  <1>. QED
    BY <1>4, <1>6, <1>18 DEF p, RowInv, Follows

(* So do the two recoveries. *)
LEMMA RecoveredRow ==
  ASSUME NEW w, RowInv(w), w.revision < MaxRevision,
         NEW c \in Recoveries, NEW t \in Named(c), NEW u \in Users,
         Acceptable(u, w, c, t)
  PROVE  RowInv(Recovered(w, c, t)) /\ UpdateGuard(w, Recovered(w, c, t))
  <1>1. /\ w \in Order /\ w.attempt <= w.revision
        /\ RowChecks(w) /\ OneReportPerAttempt(w) /\ VerifiedByAnother(w)
    BY DEF RowInv
  <1>2. w.status = IF c = "MANAGER_HOLD" THEN "IN_PROGRESS" ELSE "COMPLETED"
    BY DEF Acceptable, Recoverable
  <1>. DEFINE p == Recovered(w, c, t)
              hold == c = "MANAGER_HOLD"
  <1>4. /\ p \in Order
        /\ p.status = IF hold THEN "BLOCKED" ELSE "ASSIGNED"
        /\ p.revision = w.revision + 1
        /\ p.assignee = IF hold THEN w.assignee ELSE t
        /\ p.attempt = IF hold THEN w.attempt ELSE w.attempt + 1
        /\ p.started = w.started
        /\ p.completed <=> hold /\ w.completed
        /\ p.blocker <=> hold \/ w.blocker
        /\ p.completions = w.completions
        /\ p.verifier = w.verifier
    BY <1>1, RecoveredFields
  <1>. HIDE DEF p
  <1>5. /\ w.revision \in Nat /\ w.attempt \in Nat /\ Len(w.completions) \in Nat
        /\ w.started \in BOOLEAN
    BY <1>1, OrderFields, OrdersAssumption
  <1>6. p.attempt <= p.revision
    BY <1>1, <1>4, <1>5
  <1>7. ~hold => t # Nobody
    BY OrdersAssumption DEF Named, Recoveries, Reassignments
  <1>8. ASSUME hold PROVE Follows(w, p)
    BY <1>1, <1>2, <1>4, <1>5, <1>8
    DEF Follows, RowChecks, OneReportPerAttempt, VerifiedByAnother, UpdateGuard, OrderStatus,
        Terminal, Reporter
  <1>9. ASSUME ~hold PROVE Follows(w, p)
    BY <1>1, <1>2, <1>4, <1>5, <1>7, <1>9
    DEF Follows, RowChecks, OneReportPerAttempt, VerifiedByAnother, UpdateGuard, OrderStatus,
        Terminal, Reporter
  <1>. QED
    BY <1>4, <1>6, <1>8, <1>9 DEF p, RowInv, Follows

-----------------------------------------------------------------------------
(* The steps. *)

LEMMA InitHolds == OrdersInit => OrdersInv
  <1>. SUFFICES ASSUME OrdersInit PROVE OrdersInv
    OBVIOUS
  <1>1. AccessTypeOK
    BY AccessAssumption DEF OrdersInit, AccessInit, AccessTypeOK
  <1>2. \A a \in Assignments : order[a] = NoOrder
    BY DEF OrdersInit
  <1>3. OrdersTypeOK
    BY <1>1 DEF OrdersInit, OrdersTypeOK
  <1>. QED
    BY <1>2, <1>3 DEF OrdersInv, OneActivePerRequest, RowsInv, Active, Exists

(* Changes of access leave the orders alone. *)
LEMMA AccessStep ==
  ASSUME OrdersInv, ChangeAccess, UNCHANGED <<head, order>>
  PROVE  OrdersInv'
  <1>1. AccessTypeOK
    BY DEF OrdersInv, OrdersTypeOK
  <1>2. AccessTypeOK'
    <2>1. ASSUME NEW actor \in Users, NEW u \in Users, NEW grant \in BOOLEAN,
                 ChangeMembership(actor, u, grant)
          PROVE  AccessTypeOK'
      BY <1>1, <2>1, AccessAssumption DEF AccessTypeOK, ChangeMembership, Counted
    <2>2. ASSUME NEW actor \in Users, NEW u \in Users, NEW r \in Roles, NEW a \in BOOLEAN,
                 UpdateUser(actor, u, r, a)
          PROVE  AccessTypeOK'
      BY <1>1, <2>2, AccessAssumption DEF AccessTypeOK, UpdateUser, Counted
    <2>3. ASSUME NEW actor \in Users, NEW u \in Users, DeleteUser(actor, u)
          PROVE  AccessTypeOK'
      BY <1>1, <2>3, AccessAssumption DEF AccessTypeOK, DeleteUser, Counted
    <2>. QED
      BY <2>1, <2>2, <2>3 DEF ChangeAccess
  <1>. QED
    BY <1>2 DEF OrdersInv, OrdersTypeOK, OneActivePerRequest, RowsInv, Active, Exists

LEMMA RepublishStep ==
  ASSUME OrdersInv, Republish
  PROVE  OrdersInv'
  <1>1. head \in Nat /\ head' = head + 1
    BY DEF OrdersInv, OrdersTypeOK, Republish
  <1>2. head' \in Nat
    BY <1>1
  <1>3. UNCHANGED <<role, active, member, accessChanges, order>>
    BY DEF Republish, accessVars
  <1>. QED
    BY <1>2, <1>3
    DEF OrdersInv, OrdersTypeOK, AccessTypeOK, OneActivePerRequest, RowsInv, Active, Exists

(* One order is written: the others, and access, stay. *)
LEMMA OneOrderWritten ==
  ASSUME OrdersInv, NEW a \in Assignments, NEW p, RowInv(p), p # NoOrder,
         order' = [order EXCEPT ![a] = p], UNCHANGED <<accessVars, head>>,
         p.status \notin Terminal =>
           \A b \in Assignments \ {a} : Active(b) => Request[b] # Request[a]
  PROVE  OrdersInv'
  <1>1. order \in [Assignments -> Order \cup {NoOrder}]
    BY DEF OrdersInv, OrdersTypeOK
  <1>2. order'[a] = p /\ \A b \in Assignments \ {a} : order'[b] = order[b]
    BY <1>1
  <1>3. order' \in [Assignments -> Order \cup {NoOrder}]
    BY <1>1 DEF RowInv
  <1>4. OrdersTypeOK'
    BY <1>3 DEF OrdersInv, OrdersTypeOK, AccessTypeOK, accessVars
  <1>5. RowsInv'
    BY <1>2 DEF OrdersInv, RowsInv, Exists
  <1>6. OneActivePerRequest'
    BY <1>2 DEF OrdersInv, OneActivePerRequest, Active, Exists
  <1>. QED
    BY <1>4, <1>5, <1>6 DEF OrdersInv

LEMMA CreateStep ==
  ASSUME OrdersInv, NEW u \in Users, NEW a \in Assignments, NEW override \in BOOLEAN,
         Create(u, a, override)
  PROVE  OrdersInv'
  <1>1. /\ order' = [order EXCEPT ![a] = NewOrder]
        /\ UNCHANGED <<accessVars, head>>
        /\ ~RequestTaken(a)
    BY DEF Create
  <1>. QED
    BY <1>1, NewOrderOK, OneOrderWritten DEF RequestTaken

(* A command writes one order, which was unfinished before, and lawfully. *)
LEMMA CommandStep ==
  ASSUME OrdersInv, NEW u \in Users, NEW a \in Assignments, NEW expected \in 1..MaxRevision,
         Command(u, a, expected)
  PROVE  /\ OrdersInv'
         /\ UpdateGuard(order[a], order'[a])
         /\ \A b \in Assignments \ {a} : order'[b] = order[b]
  <1>1. order \in [Assignments -> Order \cup {NoOrder}]
    BY DEF OrdersInv, OrdersTypeOK
  <1>2. RowInv(order[a]) /\ order[a].revision < MaxRevision
    BY DEF OrdersInv, RowsInv, Command
  <1>3. PICK c \in OrderCommands : \E t \in Named(c) :
          /\ Acceptable(u, order[a], c, t)
          /\ order' = [order EXCEPT ![a] = IF c \in Recoveries THEN Recovered(@, c, t)
                                          ELSE Patched(@, c, t, u)]
    BY DEF Command
  <1>4. PICK t \in Named(c) :
          /\ Acceptable(u, order[a], c, t)
          /\ order' = [order EXCEPT ![a] = IF c \in Recoveries THEN Recovered(@, c, t)
                                          ELSE Patched(@, c, t, u)]
    BY <1>3
  <1>. DEFINE p == IF c \in Recoveries THEN Recovered(order[a], c, t)
                   ELSE Patched(order[a], c, t, u)
  <1>5. order' = [order EXCEPT ![a] = p]
    BY <1>4
  <1>6. RowInv(p) /\ UpdateGuard(order[a], p)
    BY <1>2, <1>4, PatchedRow, RecoveredRow
  <1>. HIDE DEF p
  <1>7. p # NoOrder
    BY <1>6, OrderFields DEF RowInv
  <1>8. Active(a)
    BY <1>6 DEF UpdateGuard, Active, Command
  <1>9. \A b \in Assignments \ {a} : Active(b) => Request[b] # Request[a]
    BY <1>8 DEF OrdersInv, OneActivePerRequest
  <1>10. OrdersInv'
    BY <1>5, <1>6, <1>7, <1>9, OneOrderWritten DEF Command
  <1>. QED
    BY <1>1, <1>5, <1>6, <1>10

LEMMA NextHolds == OrdersInv /\ [OrdersNext]_orderVars => OrdersInv'
  <1>. SUFFICES ASSUME OrdersInv, [OrdersNext]_orderVars PROVE OrdersInv'
    OBVIOUS
  <1>1. CASE UNCHANGED orderVars
    BY <1>1
    DEF orderVars, accessVars, OrdersInv, OrdersTypeOK, AccessTypeOK, OneActivePerRequest,
        RowsInv, Active, Exists
  <1>2. CASE Republish
    BY <1>2, RepublishStep
  <1>3. ASSUME NEW u \in Users, NEW a \in Assignments, NEW override \in BOOLEAN,
               Create(u, a, override)
        PROVE  OrdersInv'
    BY <1>3, CreateStep
  <1>4. ASSUME NEW u \in Users, NEW a \in Assignments, NEW expected \in 1..MaxRevision,
               Command(u, a, expected)
        PROVE  OrdersInv'
    BY <1>4, CommandStep
  <1>5. CASE ChangeAccess /\ UNCHANGED <<head, order>>
    BY <1>5, AccessStep
  <1>. QED
    BY <1>1, <1>2, <1>3, <1>4, <1>5 DEF OrdersNext, OrderStep

THEOREM InvariantHolds == OrdersSpec => []OrdersInv
  BY InitHolds, NextHolds, PTL DEF OrdersSpec

(* The orders keep to the row checks, to one report per attempt, to an      *)
(* independent verification and to one unfinished order per request.        *)
THEOREM OrdersAreSafe == OrdersSpec => []OrdersSafe
  <1>1. OrdersInv => OrdersSafe
    BY DEF OrdersInv, OrdersSafe, RowsInv, RowInv
  <1>. QED
    BY <1>1, InvariantHolds, PTL

(* No update that the service sends is refused by the database's guard      *)
(* (maintenance_work_orders_update_guard of the migration).                 *)
THEOREM GuardNeverFires == OrdersSpec => UpdateGuardNeverFires
  <1>1. ASSUME OrdersInv, [OrdersNext]_orderVars, NEW a \in Assignments,
               Exists(a), order'[a] # order[a]
        PROVE  UpdateGuard(order[a], order'[a])
    <2>1. order \in [Assignments -> Order \cup {NoOrder}]
      BY <1>1 DEF OrdersInv, OrdersTypeOK
    <2>2. ASSUME NEW u \in Users, NEW b \in Assignments, NEW override \in BOOLEAN,
                 Create(u, b, override)
          PROVE  FALSE
      BY <1>1, <2>1, <2>2 DEF Create
    <2>3. ASSUME NEW u \in Users, NEW b \in Assignments, NEW expected \in 1..MaxRevision,
                 Command(u, b, expected)
          PROVE  UpdateGuard(order[a], order'[a])
      BY <1>1, <2>3, CommandStep
    <2>4. order' # order
      BY <1>1
    <2>. QED
      BY <1>1, <2>2, <2>3, <2>4 DEF OrdersNext, OrderStep, Republish, orderVars
  <1>2. OrdersInv /\ [OrdersNext]_orderVars =>
          [\A a \in Assignments :
             Exists(a) /\ order'[a] # order[a] => UpdateGuard(order[a], order'[a])]_orderVars
    BY <1>1
  <1>. QED
    BY <1>2, InvariantHolds, PTL DEF OrdersSpec, UpdateGuardNeverFires

(* Two managers and one other eligible assignee can always move an          *)
(* unfinished order on: by (re)assignment before the work and when it is    *)
(* blocked, by a hold while it is in progress, and by rework after the      *)
(* report, which one of the two did not make.                               *)
THEOREM OrdersAreNeverOrphaned == OrdersSpec => []NeverOrphaned
  <1>1. ASSUME OrdersInv, NEW a \in Assignments, Active(a),
               NEW m1 \in Users, NEW m2 \in Users, NEW t \in Users, m1 # m2,
               AuthorizeWrite(m1, Managers), AuthorizeWrite(m2, Managers),
               EligibleAssignee(t), t # order[a].assignee
        PROVE  \E u \in {m1, m2} : \E c \in Available(u, order[a]) :
                 \E s \in Named(c) \cap {t, Nobody} : Acceptable(u, order[a], c, s)
    <2>. DEFINE w == order[a]
    <2>1. RowInv(w) /\ w.status \notin Terminal
      BY <1>1 DEF OrdersInv, RowsInv, Active
    <2>2. w.status \in OrderStatus
      BY <2>1, OrderFields DEF RowInv
    <2>3. \A u \in {m1, m2} :
            /\ AuthorizeWrite(u, Writers)
            /\ \A c \in OrderCommands \ ExecutionCommands : MayIssue(u, w, c)
      BY <1>1 DEF AuthorizeWrite, CurrentUser, Writers, MayIssue
    <2>. HIDE DEF w
    <2>4. CASE w.status = "UNASSIGNED"
      <3>1. "ASSIGN" \in Available(m1, w)
        BY <2>3, <2>4, CommandTable DEF Available, Applicable, ExecutionCommands, Verdicts
      <3>2. Acceptable(m1, w, "ASSIGN", t)
        BY <1>1, <2>3, <2>4, <3>1
        DEF Acceptable, Available, Recoveries
      <3>3. t \in Named("ASSIGN") \cap {t, Nobody}
        BY DEF Named, Reassignments
      <3>. QED
        BY <3>1, <3>2, <3>3 DEF w
    <2>5. CASE w.status \in {"ASSIGNED", "ACCEPTED", "BLOCKED"}
      <3>1. "REASSIGN" \in Available(m1, w)
        BY <2>3, <2>5, CommandTable DEF Available, Applicable, ExecutionCommands, Verdicts
      <3>2. Acceptable(m1, w, "REASSIGN", t)
        BY <1>1, <2>3, <3>1 DEF Acceptable, Available, Recoveries, w
      <3>3. t \in Named("REASSIGN") \cap {t, Nobody}
        BY DEF Named, Reassignments
      <3>. QED
        BY <3>1, <3>2, <3>3 DEF w
    <2>6. CASE w.status = "IN_PROGRESS"
      <3>1. "MANAGER_HOLD" \in Available(m1, w)
        BY <2>3, <2>6 DEF Available, Applicable, ExecutionCommands, Verdicts, OrderCommands, Transitions
      <3>2. Acceptable(m1, w, "MANAGER_HOLD", Nobody)
        BY <2>3, <2>6, <3>1 DEF Acceptable, Available, Recoveries, Recoverable, Reassignments
      <3>3. Nobody \in Named("MANAGER_HOLD") \cap {t, Nobody}
        BY DEF Named, Reassignments
      <3>. QED
        BY <3>1, <3>2, <3>3 DEF w
    <2>7. CASE w.status = "COMPLETED"
      <3>1. /\ w.completions \in Seq(Users) /\ w.attempt \in 1..MaxRevision
            /\ Len(w.completions) = w.attempt
        BY <2>1, <2>7, OrderFields DEF RowInv, OneReportPerAttempt
      <3>2. Reporter(w) \in Users
        BY <3>1, OrdersAssumption DEF Reporter
      <3>3. PICK u \in {m1, m2} : Reporter(w) \notin {u, Nobody}
        BY <1>1, <3>2, OrdersAssumption
      <3>4. "REASSIGN_FOR_REWORK" \in Available(u, w)
        BY <2>3, <2>7, <3>3
        DEF Available, Applicable, ExecutionCommands, OrderCommands, Transitions
      <3>5. Acceptable(u, w, "REASSIGN_FOR_REWORK", t)
        BY <1>1, <2>3, <2>7, <3>3, <3>4 DEF Acceptable, Available, Recoveries, Recoverable, w
      <3>6. t \in Named("REASSIGN_FOR_REWORK") \cap {t, Nobody}
        BY DEF Named, Reassignments
      <3>. QED
        BY <3>4, <3>5, <3>6 DEF w
    <2>. QED
      BY <2>1, <2>2, <2>4, <2>5, <2>6, <2>7 DEF OrderStatus
  <1>2. OrdersInv => NeverOrphaned
    BY <1>1 DEF NeverOrphaned
  <1>. QED
    BY <1>2, InvariantHolds, PTL

-----------------------------------------------------------------------------
(* IncidentOrders.                                                         *)

(* The sources recorded for an incident. *)
SourcesOf(i) == {s \in Sources : occurrence[s] = i}

IncidentRow(i) ==
  /\ ClosedByAnother(i)
  /\ ClosedOverFinishedWork(i)
  /\ OccurrencesCounted(i)

(* Beside the three promises: only known incidents have sources, and each  *)
(* has one.                                                                *)
IncidentsInv ==
  /\ incident \in [Incidents -> Incident \cup {NoRow}]
  /\ occurrence \in [Sources -> Incidents \cup {NoIncident}]
  /\ \A s \in Sources : occurrence[s] # NoIncident => Known(occurrence[s])
  /\ \A i \in Incidents : Known(i) => IncidentRow(i)

IInv == OrdersInv /\ IncidentsInv

-----------------------------------------------------------------------------
LEMMA IncidentFields ==
  ASSUME NEW r \in Incident
  PROVE  /\ r.status \in IncidentStatus
         /\ r.revision \in 1..MaxIncidentRevision
         /\ r.owner \in Users \cup {Nobody}
         /\ r.severity \in BOOLEAN /\ r.acknowledged \in BOOLEAN
         /\ r.resolver \in Users \cup {Nobody} /\ r.closer \in Users \cup {Nobody}
         /\ r.machine \in {Machine[s] : s \in Sources}
         /\ r.links \subseteq Assignments /\ r.settled \subseteq Assignments
         /\ r.occurrences \in 1..Cardinality(Sources)
         /\ r # NoRow
  BY DEF Incident, NoRow, IncidentStatus

LEMMA KnownTyped ==
  ASSUME IncidentsInv, NEW i \in Incidents, Known(i)
  PROVE  incident[i] \in Incident
  BY DEF IncidentsInv, Known

(* The sources of an incident are counted by a number up to their own. *)
LEMMA Counted1 ==
  ASSUME NEW S \in SUBSET Sources
  PROVE  /\ IsFiniteSet(S) /\ Cardinality(S) \in Nat /\ Cardinality(S) <= Cardinality(Sources)
         /\ Cardinality(Sources) \in Nat
         /\ \A s \in Sources \ S : Cardinality(S \cup {s}) = Cardinality(S) + 1
  BY IncidentsAssumption, FS_Subset, FS_CardinalityType, FS_AddElement

-----------------------------------------------------------------------------
(* An order that is finished for good stays so whatever the orders do. *)
LEMMA TerminalStays ==
  ASSUME OrdersInv, [OrdersNext]_orderVars, NEW a \in Assignments,
         order[a].status \in Terminal
  PROVE  order'[a] = order[a]
  <1>1. Exists(a)
    BY DEF Exists, NoOrder, Terminal
  <1>2. ASSUME order'[a] # order[a]
        PROVE  UpdateGuard(order[a], order'[a])
    <2>1. order' # order /\ order \in [Assignments -> Order \cup {NoOrder}]
      BY <1>2 DEF OrdersInv, OrdersTypeOK
    <2>2. ASSUME NEW u \in Users, NEW b \in Assignments, NEW override \in BOOLEAN,
                 Create(u, b, override)
          PROVE  FALSE
      BY <1>1, <1>2, <2>1, <2>2 DEF Create
    <2>3. ASSUME NEW u \in Users, NEW b \in Assignments, NEW expected \in 1..MaxRevision,
                 Command(u, b, expected)
          PROVE  UpdateGuard(order[a], order'[a])
      BY <1>2, <2>3, CommandStep
    <2>. QED
      BY <2>1, <2>2, <2>3 DEF OrdersNext, OrderStep, Republish, orderVars
  <1>. QED
    BY <1>2 DEF UpdateGuard

(* Steps of the orders and of access leave the incidents' promises. *)
LEMMA OrdersStepKeeps ==
  ASSUME IInv, [OrdersNext]_orderVars, UNCHANGED incidentVars
  PROVE  IInv'
  <1>1. OrdersInv'
    BY NextHolds DEF IInv
  <1>2. incident' = incident /\ occurrence' = occurrence
    BY DEF incidentVars
  <1>3. ASSUME NEW i \in Incidents, Known(i)
        PROVE  IncidentRow(i)'
    <2>1. IncidentRow(i) /\ incident[i].settled \subseteq Assignments
      BY <1>3, KnownTyped, IncidentFields DEF IInv, IncidentsInv
    <2>2. ClosedOverFinishedWork(i)'
      BY <1>2, <2>1, TerminalStays
      DEF IInv, IncidentRow, ClosedOverFinishedWork, VerifiedByAnother, Reporter
    <2>. QED
      BY <1>2, <2>1, <2>2 DEF IncidentRow, ClosedByAnother, OccurrencesCounted
  <1>. QED
    BY <1>1, <1>2, <1>3 DEF IInv, IncidentsInv, Known

-----------------------------------------------------------------------------
(* The steps of the incidents. *)

(* A row that may stand for an incident, its count apart. *)
Sound(q) ==
  /\ q \in Incident
  /\ q.status = "CLOSED" =>
       /\ q.resolver # Nobody /\ q.closer \notin {Nobody, q.resolver} /\ q.severity
       /\ \A a \in q.settled : order[a].status \in Terminal /\ VerifiedByAnother(order[a])

LEMMA RowIsSound ==
  ASSUME IncidentsInv, NEW i \in Incidents, Known(i)
  PROVE  Sound(incident[i])
  BY KnownTyped DEF IncidentsInv, IncidentRow, ClosedByAnother, ClosedOverFinishedWork, Sound

(* One incident is written, its sources are counted anew. *)
LEMMA RowWritten ==
  ASSUME IInv, NEW i \in Incidents, NEW q, Sound(q),
         incident' = [incident EXCEPT ![i] = q], UNCHANGED orderVars,
         occurrence' \in [Sources -> Incidents \cup {NoIncident}],
         \A s \in Sources : occurrence'[s] # occurrence[s] => occurrence[s] = NoIncident
                                                         /\ occurrence'[s] = i,
         q.occurrences = Cardinality(SourcesOf(i)')
  PROVE  IInv'
  <1>1. OrdersInv'
    BY NextHolds DEF IInv
  <1>2. /\ incident' \in [Incidents -> Incident \cup {NoRow}]
        /\ incident'[i] = q /\ \A j \in Incidents \ {i} : incident'[j] = incident[j]
    BY DEF IInv, IncidentsInv, Sound
  <1>3. q # NoRow
    BY IncidentFields DEF Sound
  <1>4. order' = order
    BY DEF orderVars
  <1>5. \A s \in Sources : occurrence'[s] # NoIncident => incident'[occurrence'[s]] # NoRow
    BY <1>2, <1>3 DEF IInv, IncidentsInv, Known
  <1>6. IncidentRow(i)'
    BY <1>2, <1>4
    DEF Sound, IncidentRow, ClosedByAnother, ClosedOverFinishedWork, OccurrencesCounted,
        SourcesOf, VerifiedByAnother, Reporter
  <1>7. ASSUME NEW j \in Incidents \ {i}, Known(j)'
        PROVE  IncidentRow(j)'
    <2>1. Known(j) /\ IncidentRow(j)
      BY <1>2, <1>7 DEF IInv, IncidentsInv, Known
    <2>2. {s \in Sources : occurrence'[s] = j} = {s \in Sources : occurrence[s] = j}
      BY <1>7, IncidentsAssumption
    <2>. QED
      BY <1>2, <1>4, <1>7, <2>1, <2>2
      DEF IncidentRow, ClosedByAnother, ClosedOverFinishedWork, OccurrencesCounted,
          VerifiedByAnother, Reporter
  <1>. QED
    BY <1>1, <1>2, <1>5, <1>6, <1>7 DEF IInv, IncidentsInv, Known

(* A command that leaves the sources alone writes a sound row at the next  *)
(* revision.                                                               *)
LEMMA WriteStep ==
  ASSUME IInv, NEW i \in Incidents, Known(i), incident[i].revision < MaxIncidentRevision,
         NEW q, Sound(q), q.revision = incident[i].revision,
         q.occurrences = incident[i].occurrences, Write(i, q), UNCHANGED occurrence
  PROVE  IInv'
  <1>. DEFINE r == [q EXCEPT !.revision = @ + 1]
  <1>1. incident' = [incident EXCEPT ![i] = r] /\ UNCHANGED orderVars
    BY DEF Write
  <1>2. q.revision + 1 \in 1..MaxIncidentRevision
    BY KnownTyped, IncidentFields, IncidentsAssumption DEF IInv
  <1>3. /\ r \in Incident /\ r.status = q.status /\ r.resolver = q.resolver
        /\ r.closer = q.closer /\ r.severity = q.severity /\ r.settled = q.settled
        /\ r.occurrences = q.occurrences
    BY <1>2 DEF Sound, Incident
  <1>. HIDE DEF r
  <1>4. Sound(r)
    BY <1>3 DEF Sound
  <1>5. r.occurrences = Cardinality(SourcesOf(i)')
    BY <1>3 DEF IInv, IncidentsInv, IncidentRow, OccurrencesCounted, SourcesOf
  <1>. QED
    BY <1>1, <1>4, <1>5, RowWritten DEF IInv, IncidentsInv

LEMMA CommandKeeps ==
  ASSUME IInv, NEW u \in Users, NEW i \in Incidents, NEW expected \in 1..MaxIncidentRevision,
         Fenced(u, i, expected), IncidentCommand(u, i)
  PROVE  IInv'
  <1>1. incident[i] \in Incident /\ Sound(incident[i])
    BY KnownTyped, RowIsSound DEF Fenced, IInv
  <1>2. u # Nobody /\ u \in Users \cup {Nobody} /\ Known(i) /\ incident[i].revision < MaxIncidentRevision
    BY OrdersAssumption DEF Fenced
  <1>3. ASSUME NEW t \in Users, Assign(u, i, t)
        PROVE  IInv'
    <2>. DEFINE r == incident[i]
                q == [r EXCEPT !.owner = t, !.status = "OPEN", !.acknowledged = FALSE]
    <2>1. Write(i, q) /\ UNCHANGED occurrence
      BY <1>3 DEF Assign
    <2>2. q \in Incident /\ q.revision = r.revision /\ q.occurrences = r.occurrences
      BY <1>1, <1>2 DEF Incident, IncidentStatus
    <2>3. Sound(q)
      BY <1>1, <1>2, <1>3, <2>2 DEF Sound, Incident
    <2>. HIDE DEF q
    <2>. QED
      BY <1>2, <2>1, <2>2, <2>3, WriteStep
  <1>4. ASSUME Acknowledge(u, i)
        PROVE  IInv'
    <2>. DEFINE r == incident[i]
                q == [r EXCEPT !.status = "ACKNOWLEDGED", !.acknowledged = TRUE]
    <2>1. Write(i, q) /\ UNCHANGED occurrence
      BY <1>4 DEF Acknowledge
    <2>2. q \in Incident /\ q.revision = r.revision /\ q.occurrences = r.occurrences
      BY <1>1, <1>2 DEF Incident, IncidentStatus
    <2>3. Sound(q)
      BY <1>1, <1>2, <1>4, <2>2 DEF Sound, Incident
    <2>. HIDE DEF q
    <2>. QED
      BY <1>2, <2>1, <2>2, <2>3, WriteStep
  <1>5. ASSUME StartInvestigation(u, i)
        PROVE  IInv'
    <2>. DEFINE r == incident[i]
                q == [r EXCEPT !.status = "INVESTIGATING"]
    <2>1. Write(i, q) /\ UNCHANGED occurrence
      BY <1>5 DEF StartInvestigation
    <2>2. q \in Incident /\ q.revision = r.revision /\ q.occurrences = r.occurrences
      BY <1>1, <1>2 DEF Incident, IncidentStatus
    <2>3. Sound(q)
      BY <1>1, <1>2, <1>5, <2>2 DEF Sound, Incident
    <2>. HIDE DEF q
    <2>. QED
      BY <1>2, <2>1, <2>2, <2>3, WriteStep
  <1>6. ASSUME NEW override \in BOOLEAN, MarkResolved(u, i, override)
        PROVE  IInv'
    <2>. DEFINE r == incident[i]
                q == [r EXCEPT !.status = "RESOLVED", !.resolver = u]
    <2>1. Write(i, q) /\ UNCHANGED occurrence
      BY <1>6 DEF MarkResolved
    <2>2. q \in Incident /\ q.revision = r.revision /\ q.occurrences = r.occurrences
      BY <1>1, <1>2 DEF Incident, IncidentStatus
    <2>3. Sound(q)
      BY <1>1, <1>2, <1>6, <2>2 DEF Sound, Incident
    <2>. HIDE DEF q
    <2>. QED
      BY <1>2, <2>1, <2>2, <2>3, WriteStep
  <1>9. ASSUME ChangeSeverity(u, i)
        PROVE  IInv'
    <2>. DEFINE r == incident[i]
                q == [r EXCEPT !.severity = TRUE]
    <2>1. Write(i, q) /\ UNCHANGED occurrence
      BY <1>9 DEF ChangeSeverity
    <2>2. q \in Incident /\ q.revision = r.revision /\ q.occurrences = r.occurrences
      BY <1>1, <1>2 DEF Incident, IncidentStatus
    <2>3. Sound(q)
      BY <1>1, <1>2, <1>9, <2>2 DEF Sound, Incident
    <2>. HIDE DEF q
    <2>. QED
      BY <1>2, <2>1, <2>2, <2>3, WriteStep
  <1>10. ASSUME NEW a \in Assignments, Link(u, i, a)
        PROVE  IInv'
    <2>. DEFINE r == incident[i]
                q == [r EXCEPT !.links = @ \cup {a}]
    <2>1. Write(i, q) /\ UNCHANGED occurrence
      BY <1>10 DEF Link
    <2>2. q \in Incident /\ q.revision = r.revision /\ q.occurrences = r.occurrences
      BY <1>1, <1>2 DEF Incident, IncidentStatus
    <2>3. Sound(q)
      BY <1>1, <1>2, <1>10, <2>2 DEF Sound, Incident
    <2>. HIDE DEF q
    <2>. QED
      BY <1>2, <2>1, <2>2, <2>3, WriteStep
  <1>11. ASSUME NEW a \in Assignments, Unlink(u, i, a)
        PROVE  IInv'
    <2>. DEFINE r == incident[i]
                q == [r EXCEPT !.links = @ \ {a}]
    <2>1. Write(i, q) /\ UNCHANGED occurrence
      BY <1>11 DEF Unlink
    <2>2. q \in Incident /\ q.revision = r.revision /\ q.occurrences = r.occurrences
      BY <1>1, <1>2 DEF Incident, IncidentStatus
    <2>3. Sound(q)
      BY <1>1, <1>2, <1>11, <2>2 DEF Sound, Incident
    <2>. HIDE DEF q
    <2>. QED
      BY <1>2, <2>1, <2>2, <2>3, WriteStep
  <1>7. ASSUME NEW override \in BOOLEAN, Close(u, i, override)
        PROVE  IInv'
    <2>. DEFINE r == incident[i]
                q == [r EXCEPT !.status = "CLOSED", !.closer = u,
                               !.settled = IF override THEN {} ELSE r.links]
    <2>1. Write(i, q) /\ UNCHANGED occurrence
      BY <1>7 DEF Close
    <2>2. r.links \subseteq Assignments /\ r.resolver \notin {u, Nobody} /\ r.severity
      BY <1>1, <1>7, IncidentFields DEF Close
    <2>3. /\ q \in Incident /\ q.revision = r.revision /\ q.occurrences = r.occurrences
          /\ q.resolver = r.resolver /\ q.closer = u /\ q.severity = r.severity
          /\ q.settled = IF override THEN {} ELSE r.links
      BY <1>1, <1>2, <2>2 DEF Incident, IncidentStatus
    <2>4. ~override => \A a \in r.links : order[a].status \in Terminal
      BY <1>7 DEF Close, OrdersChecked
    <2>5. \A a \in Assignments : order[a].status \in Terminal => VerifiedByAnother(order[a])
      BY DEF IInv, OrdersInv, RowsInv, RowInv, Exists, NoOrder, Terminal
    <2>. HIDE DEF q
    <2>6. Sound(q)
      BY <1>2, <2>2, <2>3, <2>4, <2>5 DEF Sound
    <2>. QED
      BY <1>2, <2>1, <2>3, <2>6, WriteStep
  <1>8. ASSUME Reopen(u, i)
        PROVE  IInv'
    <2>. DEFINE r == incident[i]
                q1 == [r EXCEPT !.status = "INVESTIGATING"]
                q2 == [r EXCEPT !.status = "OPEN", !.acknowledged = FALSE]
    <2>1. (Write(i, q1) \/ Write(i, q2)) /\ UNCHANGED occurrence
      BY <1>8 DEF Reopen
    <2>2. /\ q1 \in Incident /\ q1.revision = r.revision /\ q1.occurrences = r.occurrences
          /\ q2 \in Incident /\ q2.revision = r.revision /\ q2.occurrences = r.occurrences
      BY <1>1 DEF Incident, IncidentStatus
    <2>3. Sound(q1) /\ Sound(q2)
      BY <1>1, <2>2 DEF Sound, Incident
    <2>. HIDE DEF q1, q2
    <2>. QED
      BY <1>2, <2>1, <2>2, <2>3, WriteStep
  <1>12. ASSUME NEW s \in Sources, AppendOccurrence(u, i, s)
         PROVE  IInv'
    <2>. DEFINE r == incident[i]
                q == [r EXCEPT !.occurrences = @ + 1, !.revision = @ + 1]
                S == SourcesOf(i)
    <2>1. /\ occurrence[s] = NoIncident
          /\ occurrence' = [occurrence EXCEPT ![s] = i]
          /\ UNCHANGED orderVars
          /\ incident' = [incident EXCEPT ![i] =
                            [[r EXCEPT !.occurrences = @ + 1] EXCEPT !.revision = @ + 1]]
      BY <1>12 DEF AppendOccurrence, Write
    <2>2. r.occurrences = Cardinality(S)
      BY <1>2 DEF IInv, IncidentsInv, IncidentRow, OccurrencesCounted, SourcesOf
    <2>3. /\ \A x \in Sources : occurrence'[x] = IF x = s THEN i ELSE occurrence[x]
          /\ occurrence' \in [Sources -> Incidents \cup {NoIncident}]
      BY <2>1 DEF IInv, IncidentsInv
    <2>4. SourcesOf(i)' = S \cup {s} /\ s \notin S
      BY <2>1, <2>3, IncidentsAssumption DEF SourcesOf
    <2>5. S \in SUBSET Sources /\ S \cup {s} \in SUBSET Sources
      BY DEF SourcesOf
    <2>. HIDE DEF S
    <2>6. /\ Cardinality(SourcesOf(i)') = r.occurrences + 1
          /\ r.occurrences + 1 \in 1..Cardinality(Sources)
      <3>1. /\ Cardinality(S \cup {s}) = Cardinality(S) + 1
            /\ Cardinality(S) \in Nat /\ Cardinality(Sources) \in Nat
        BY <2>4, <2>5, Counted1
      <3>2. Cardinality(S \cup {s}) <= Cardinality(Sources)
        BY <2>5, Counted1
      <3>. QED
        BY <2>2, <2>4, <3>1, <3>2
    <2>7. r.revision + 1 \in 1..MaxIncidentRevision
      BY <1>1, <1>2, IncidentFields, IncidentsAssumption
    <2>8. incident' = [incident EXCEPT ![i] = q]
      BY <1>1, <2>1 DEF Incident
    <2>9. q \in Incident /\ q.occurrences = r.occurrences + 1
      BY <1>1, <2>6, <2>7 DEF Incident
    <2>10. Sound(q)
      BY <1>1, <2>9 DEF Sound, Incident
    <2>. HIDE DEF q
    <2>. QED
      BY <2>1, <2>3, <2>6, <2>8, <2>9, <2>10, RowWritten
  <1>. QED
    BY <1>3, <1>4, <1>5, <1>6, <1>7, <1>8, <1>9, <1>10, <1>11, <1>12 DEF IncidentCommand

(* A new incident has the one source it was reported for. *)
LEMMA ReportKeeps ==
  ASSUME IInv, NEW u \in Users, NEW i \in Incidents, NEW s \in Sources,
         NEW confirmed \in BOOLEAN, NEW related \in BOOLEAN,
         Report(u, i, s, confirmed, related)
  PROVE  IInv'
  <1>. DEFINE q == [status |-> "OPEN", revision |-> 1, owner |-> Nobody, severity |-> confirmed,
                    resolver |-> Nobody, closer |-> Nobody, acknowledged |-> FALSE,
                    machine |-> Machine[s], links |-> {}, occurrences |-> 1, settled |-> {}]
  <1>1. /\ occurrence[s] = NoIncident /\ ~Known(i)
        /\ incident' = [incident EXCEPT ![i] = q]
        /\ occurrence' = [occurrence EXCEPT ![s] = i]
        /\ UNCHANGED orderVars
    BY DEF Report
  <1>2. /\ \A x \in Sources : occurrence'[x] = IF x = s THEN i ELSE occurrence[x]
        /\ occurrence' \in [Sources -> Incidents \cup {NoIncident}]
    BY <1>1 DEF IInv, IncidentsInv
  <1>3. SourcesOf(i) = {}
    BY <1>1, IncidentsAssumption DEF IInv, IncidentsInv, SourcesOf
  <1>4. SourcesOf(i)' = {} \cup {s}
    BY <1>1, <1>2, <1>3 DEF SourcesOf
  <1>5. Cardinality(SourcesOf(i)') = 1
    BY <1>4, FS_Singleton
  <1>6. 1 \in 1..Cardinality(Sources) /\ 1 \in 1..MaxIncidentRevision
    <2>1. Cardinality({} \cup {s}) <= Cardinality(Sources) /\ Cardinality(Sources) \in Nat
      BY Counted1
    <2>. QED
      BY <1>4, <1>5, <2>1, IncidentsAssumption
  <1>7. q \in Incident
    BY <1>6 DEF Incident, IncidentStatus
  <1>8. Sound(q) /\ q.occurrences = 1
    BY <1>7 DEF Sound
  <1>. HIDE DEF q
  <1>. QED
    BY <1>1, <1>2, <1>5, <1>8, RowWritten

LEMMA IncidentsInitHolds == Init => IInv
  BY InitHolds DEF Init, IInv, IncidentsInv, Known

LEMMA IncidentsNextHolds == IInv /\ [Next]_vars => IInv'
  <1>. SUFFICES ASSUME IInv, [Next]_vars PROVE IInv'
    OBVIOUS
  <1>1. CASE UNCHANGED vars
    BY <1>1, OrdersStepKeeps DEF vars
  <1>2. CASE OrdersNext /\ UNCHANGED incidentVars
    BY <1>2, OrdersStepKeeps
  <1>3. CASE IncidentStep
    BY <1>3, ReportKeeps, CommandKeeps DEF IncidentStep
  <1>. QED
    BY <1>1, <1>2, <1>3 DEF Next

THEOREM IncidentInvariant == Spec => []IInv
  BY IncidentsInitHolds, IncidentsNextHolds, PTL DEF Spec

(* Incidents are closed by someone else, over work that is finished for     *)
(* good and was accepted by someone who had not reported it, and count each *)
(* source once (checkOrders and CLOSE of incident-policy.js).               *)
THEOREM IncidentsAreSafe == Spec => []IncidentsSafe
  <1>1. IInv => IncidentsSafe
    BY DEF IInv, OrdersInv, IncidentsInv, IncidentsSafe, TypeOK, IncidentRow
  <1>. QED
    BY <1>1, IncidentInvariant, PTL

(* The orders keep their promises under the incidents: no command on an     *)
(* incident touches an order.                                               *)
THEOREM OrdersStaySafe == Spec => []OrdersSafe /\ UpdateGuardNeverFires /\ []NeverOrphaned
  <1>1. Init => OrdersInit
    BY DEF Init
  <1>2. [Next]_vars => [OrdersNext]_orderVars
    <2>1. ASSUME NEW u \in Users, NEW i \in Incidents, NEW s \in Sources,
                 NEW confirmed \in BOOLEAN, NEW related \in BOOLEAN,
                 Report(u, i, s, confirmed, related)
          PROVE  UNCHANGED orderVars
      BY <2>1 DEF Report
    <2>2. ASSUME NEW u \in Users, NEW i \in Incidents, IncidentCommand(u, i)
          PROVE  UNCHANGED orderVars
      BY <2>2
      DEF IncidentCommand, Assign, Acknowledge, StartInvestigation, MarkResolved, Close, Reopen,
          ChangeSeverity, AppendOccurrence, Link, Unlink, Write
    <2>. QED
      BY <2>1, <2>2 DEF Next, IncidentStep, vars
  <1>3. Spec => OrdersSpec
    BY <1>1, <1>2, PTL DEF Spec, OrdersSpec
  <1>. QED
    BY <1>3, OrdersAreSafe, GuardNeverFires, OrdersAreNeverOrphaned
=============================================================================
