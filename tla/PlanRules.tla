------------------------------ MODULE PlanRules ------------------------------
(***************************************************************************)
(* A factory snapshot, a schedule over it, and the hard constraints a      *)
(* candidate plan is validated against                                     *)
(* (ai_services/domain/operations/validator.py, contracts.py).             *)
(*                                                                         *)
(* Identifiers are naturals, ordered as the source orders its strings.     *)
(* Times are counted from the start of the planning window, in units of    *)
(* the clock, the durations in the same units.  What never differs between *)
(* two snapshots of the model is a constant; a snapshot is a record of the *)
(* facts that do:                                                          *)
(*   up       machines neither FAILED nor UNAVAILABLE                      *)
(*   opStatus of each operation: "PENDING" (and READY, SCHEDULED, RUNNING, *)
(*            which the planner treats alike), "BLOCKED" or "COMPLETED"    *)
(*   hours    the availability windows of each technician on shift         *)
(*   req      each maintenance request's status, bounds and duration       *)
(*   current  the assignments of the current schedule                      *)
(***************************************************************************)
EXTENDS Integers, FiniteSets, FiniteSetsExt, SequencesExt

CONSTANTS
  Horizon,        \* the end of the planning window
  Machines, Technicians, Operations, Requests,
  Minutes,        \* [Operations -> [machines it may run on -> minutes]]
  Release,        \* release of the operation's job
  Predecessors,   \* [Operations -> SUBSET Operations]
  MachineOf,      \* machine of a request
  Needs,          \* skills a request requires
  Covers,         \* [Technicians -> [Requests -> skills of it adequate for it]]
  Mandatory       \* mandatory requests

ASSUME RulesAssumption ==
  /\ Horizon \in Nat \ {0}
  /\ Machines \cup Technicians \cup Operations \cup Requests \subseteq Nat
  /\ IsFiniteSet(Technicians) /\ IsFiniteSet(Operations) /\ IsFiniteSet(Requests)
  /\ Release \in [Operations -> Int]
  /\ \A o \in Operations : /\ DOMAIN Minutes[o] \subseteq Machines
                           /\ DOMAIN Minutes[o] # {}
                           /\ \A m \in DOMAIN Minutes[o] : Minutes[o][m] \in Nat \ {0}
                           /\ \A p \in Predecessors[o] : p \in Operations /\ p < o

Legacy == "legacy-v1"
Strict == "scenario-strict:1"

Production == "PRODUCTION"
Maintenance == "MAINTENANCE"

(* An assignment: kind, the operation or request it carries out (work), the
   strategy that named it (the rest of assignment_id), and its reservation.
   A team is a set: its list is in ascending order, as the scheduler makes it. *)
Assignment(kind, strategy, work, machine, start, end, team) ==
  [kind |-> kind, strategy |-> strategy, work |-> work, machine |-> machine,
   start |-> start, end |-> end, team |-> team, status |-> "PROPOSED", locked |-> FALSE]

(* What the contract accepts as an assignment and as a snapshot.  An entry of
   BLOCKED_TIME and a machine's own status are left out. *)
Reservations ==
  {a \in [kind : {Production, Maintenance}, strategy : STRING, work : Operations \cup Requests,
          machine : Machines, start : 0 .. Horizon, end : 0 .. Horizon, team : SUBSET Technicians,
          status : {"PROPOSED", "COMMITTED", "RUNNING", "COMPLETED", "CANCELLED"}, locked : BOOLEAN] :
     /\ a.start < a.end
     /\ IF a.kind = Production THEN a.work \in Operations /\ a.team = {}
                               ELSE a.work \in Requests /\ a.team # {}}

Request ==
  [status : {"OPEN", "SCHEDULED", "IN_PROGRESS", "COMPLETED", "CANCELLED"},
   earliest : Int, latest : Int, duration : Nat \ {0}]

IsSnapshot(s) ==
  /\ s = [up |-> s.up, opStatus |-> s.opStatus, hours |-> s.hours, req |-> s.req, current |-> s.current]
  /\ s.up \subseteq Machines
  /\ s.opStatus \in [Operations -> {"PENDING", "BLOCKED", "COMPLETED"}]
  /\ DOMAIN s.hours \subseteq Technicians /\ s.hours \in [DOMAIN s.hours -> SUBSET (Int \X Int)]
  /\ s.req \in [Requests -> Request]
  /\ s.current \subseteq Reservations /\ IsFiniteSet(s.current)

AssignmentId(a) == <<a.kind, a.strategy, a.work>>

Overlap(a, b) == a.start < b.end /\ b.start < a.end

Of(plan, kind, work) == {a \in plan : a.kind = kind /\ a.work = work}

(* Entries of the current schedule that planning must not move. *)
Retained(s) == {a \in s.current : a.locked \/ a.status \in {"RUNNING", "COMPLETED"}}

ActiveRequest(s, r) == s.req[r].status \notin {"COMPLETED", "CANCELLED"}

OnShift(s) == DOMAIN s.hours

-----------------------------------------------------------------------------
(* The validator's checks, each over the assignments that are not CANCELLED. *)
InWindow(a) == a.start >= 0 /\ a.end <= Horizon

MachineEligible(s, a) ==
  IF a.kind = Production
  THEN a.machine \in DOMAIN Minutes[a.work] /\ a.machine \in s.up
  ELSE a.machine = MachineOf[a.work]

NoMachineOverlap(live) ==
  \A a, b \in live : a # b /\ a.machine = b.machine => ~Overlap(a, b)

(* Where an operation is scheduled twice the source keeps the later one. *)
Placed(live, o) ==
  CHOOSE a \in Of(live, Production, o) :
    \A b \in Of(live, Production, o) : b.start < a.start \/ (b.start = a.start /\ b.end <= a.end)

PrecedenceKept(s, live) ==
  \A a \in live : a.kind = Production /\ a = Placed(live, a.work) =>
    \A p \in Predecessors[a.work] :
      \/ s.opStatus[p] = "COMPLETED"
      \/ /\ Of(live, Production, p) # {}
         /\ Placed(live, p).end <= a.start

TechnicianAvailable(s, t, a) ==
  /\ t \in OnShift(s)
  /\ \E w \in s.hours[t] : w[1] <= a.start /\ a.end <= w[2]

TeamAdequate(a) == Needs[a.work] \subseteq UNION {Covers[t][a.work] : t \in a.team}

TechniciansKept(s, live) ==
  LET jobs == {a \in live : a.kind = Maintenance} IN
  /\ \A a \in jobs : TeamAdequate(a) /\ \A t \in a.team : TechnicianAvailable(s, t, a)
  /\ \A a, b \in jobs : a # b /\ a.team \cap b.team # {} => ~Overlap(a, b)

-----------------------------------------------------------------------------
(* The further checks of the strict profile. *)
StrictProduction(s, a) ==
  /\ s.opStatus[a.work] # "BLOCKED"
  /\ a.start >= Release[a.work]
  /\ a.status # "COMPLETED" /\ a.machine \in DOMAIN Minutes[a.work]
       => a.end - a.start = Minutes[a.work][a.machine]

StrictMaintenance(s, a) ==
  a.status # "COMPLETED" =>
    /\ a.end - a.start = s.req[a.work].duration
    /\ s.req[a.work].earliest <= a.start /\ a.start <= s.req[a.work].latest
    /\ ActiveRequest(s, a.work)

StrictConstraints(s, live) ==
  /\ \A a \in live : IF a.kind = Production THEN StrictProduction(s, a) ELSE StrictMaintenance(s, a)
  /\ \A o \in Operations :
       LET n == Cardinality(Of(live, Production, o)) IN
       n = 1 \/ (n = 0 /\ s.opStatus[o] = "COMPLETED")
  /\ \A r \in Requests :
       LET n == Cardinality(Of(live, Maintenance, r)) IN
       n = 1 \/ (n = 0 /\ ~(r \in Mandatory /\ ActiveRequest(s, r)))
  /\ Retained(s) \subseteq live

(* OperationsValidatorV1.validate: the verdict VALID. *)
Valid(s, plan, profile) ==
  LET live == {a \in plan : a.status # "CANCELLED"} IN
  /\ \A a \in live : InWindow(a) /\ MachineEligible(s, a)
  /\ NoMachineOverlap(live)
  /\ PrecedenceKept(s, live)
  /\ TechniciansKept(s, live)
  /\ profile = Strict => StrictConstraints(s, live)
=============================================================================
