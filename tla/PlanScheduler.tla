---------------------------- MODULE PlanScheduler ----------------------------
(***************************************************************************)
(* The greedy scheduler (ai_services/domain/operations/scheduler.py): from *)
(* a snapshot, a strategy and a constraint profile to one complete         *)
(* schedule, or to the failure that stops it.  It is deterministic and     *)
(* keeps no state, so it is a function here; the deadline it polls is the  *)
(* caller's choice of when to give up (PlanningEngine).                    *)
(***************************************************************************)
EXTENDS PlanRules

CONSTANTS
  OperationOrder,  \* operations by job priority, release, job and sequence
  Risk             \* [Machines -> failure probability in hundredths]

ASSUME SchedulerAssumption ==
  /\ OperationOrder \in SetToSeqs(Operations)
  /\ \A m \in Machines : Risk[m] \in 0 .. 100

Strategies == <<"PRODUCTION_PRIORITY", "BALANCED", "RELIABILITY_PRIORITY">>

NoTime == -1

(* sorted: the sequence of a set in a strict order of its members. *)
Sorted(S, Before(_, _)) ==
  CHOOSE q \in SetToSeqs(S) : \A i, j \in DOMAIN q : i < j => Before(q[i], q[j])

(* The least start at or after t at which [start, start + d) meets none of the
   taken intervals: what walking them in order of their starts finds. *)
FirstFree(taken, t, d) ==
  Min({x \in {t} \cup {a.end : a \in taken} :
         x >= t /\ \A a \in taken : a.end <= x \/ x + d <= a.start})

(* The first start at or after t that leaves d minutes of one window. *)
AvailabilityStart(s, tech, t, d) ==
  LET starts == {Max({t, w[1]}) : w \in {v \in s.hours[tech] : Max({t, v[1]}) + d <= v[2]}} IN
  IF starts = {} THEN NoTime ELSE Min(starts)

(* One pass over the team: each technician may push the start further, and the
   ones before are not asked again. *)
SettledStart(s, team, t, d) ==
  LET order == Sorted(team, <)
      pushed[i \in 0 .. Len(order)] ==
        IF i = 0 THEN t ELSE IF pushed[i - 1] = NoTime THEN NoTime
        ELSE AvailabilityStart(s, order[i], pushed[i - 1], d)
  IN pushed[Len(order)]

FindMaintenanceSlot(s, plan, r, team, earliest, latest) ==
  LET d == s.req[r].duration
      try[t \in Nat] ==
        IF t > latest THEN NoTime ELSE
        LET x == SettledStart(s, team, t, d)
            busy == {a \in plan : /\ a.machine = MachineOf[r] \/ a.team \cap team # {}
                                  /\ a.start < x + d /\ x < a.end}
        IN IF x = NoTime THEN NoTime
           ELSE IF busy # {} THEN try[Max({a.end : a \in busy})]
           ELSE IF x <= latest THEN x ELSE NoTime
  IN try[earliest]

(* The smallest teams of technicians on shift that cover the needed skills. *)
QualifiedTeams(s, r) ==
  LET able == {t \in OnShift(s) : Covers[t][r] \cap Needs[r] # {}}
      teams == {g \in (SUBSET able) \ {{}} : Needs[r] \subseteq UNION {Covers[t][r] : t \in g}}
  IN {g \in teams : \A h \in teams : Cardinality(g) <= Cardinality(h)}

TeamBefore(g, h) == g # h /\ Min((g \ h) \cup (h \ g)) \in g

(* The earliest slots, each a start and a team; of those, the first team. *)
BestSlots(slots) ==
  {c \in slots : \A e \in slots : c[1] < e[1] \/ (c[1] = e[1] /\ ~TeamBefore(e[2], c[2]))}

(* timedelta / 2: to the nearest unit, from halfway to the even one. *)
Half(n) == n \div 2 + (IF n % 4 = 3 THEN 1 ELSE 0)

(* The set holding the maintenance reservation chosen, empty if there is none. *)
ChooseMaintenanceSlot(s, plan, r, strategy) ==
  LET d == s.req[r].duration
      latest == Min({s.req[r].latest, Horizon - d})
      lower == Max({s.req[r].earliest, 0})
      earliest == IF strategy = "BALANCED" /\ latest > lower
                  THEN lower + Half(latest - lower) ELSE lower
      slots == {c \in {<<FindMaintenanceSlot(s, plan, r, g, earliest, latest), g>> : g \in QualifiedTeams(s, r)} :
                  c[1] # NoTime}
  IN {Assignment(Maintenance, strategy, r, MachineOf[r], c[1], c[1] + d, c[2]) : c \in BestSlots(slots)}

(* Hundredths of the source's score: finish, risk and leaving the machine of the
   operation's first entry in the current schedule (CHOOSE: the list has an order). *)
MachineScore(s, strategy, o, m, finish) ==
  LET entries == Of(s.current, Production, o)
      moved == IF entries # {} /\ (CHOOSE a \in entries : TRUE).machine # m THEN 1 ELSE 0
  IN 100 * finish + CASE strategy = "PRODUCTION_PRIORITY"  -> moved
                      [] strategy = "BALANCED"             -> Risk[m] * 90 + moved * 400
                      [] strategy = "RELIABILITY_PRIORITY" -> Risk[m] * 5000 + moved * 1500

ChooseMachine(s, plan, o, earliest, strategy) ==
  LET finish(m) == FirstFree({a \in plan : a.machine = m}, Max({earliest, 0}), Minutes[o][m]) + Minutes[o][m]
      score(m) == MachineScore(s, strategy, o, m, finish(m))
      fits == {m \in DOMAIN Minutes[o] \cap s.up : finish(m) <= Horizon}
      best == {m \in fits : \A n \in fits : score(m) < score(n) \/ (score(m) = score(n) /\ m <= n)}
  IN {Assignment(Production, strategy, o, m, finish(m) - Minutes[o][m], finish(m), {}) : m \in best}

-----------------------------------------------------------------------------
(* Placing one piece of work: the set of the plan it leads to, or the empty set
   when NoFeasiblePlanError is raised. *)
PlaceRequest(s, strategy, plan, r) ==
  {plan \cup {a} : a \in ChooseMaintenanceSlot(s, plan, r, strategy)}

(* Mutant: the job's release is forgotten. *)
ReadyAfterPredecessors(plan, o) ==
  Max({0} \cup {a.end : a \in {b \in plan : b.kind = Production /\ b.work \in Predecessors[o]}})

(* The earliest start the job's release and the predecessors allow. *)
ReadyAt(plan, o) ==
  Max({Release[o]} \cup {a.end : a \in {b \in plan : b.kind = Production /\ b.work \in Predecessors[o]}})

PlaceOperation(s, profile, strategy, plan, o) ==
  IF profile = Strict /\ s.opStatus[o] = "BLOCKED" THEN {}
  ELSE IF s.opStatus[o] = "COMPLETED" \/ Of(Retained(s), Production, o) # {} THEN {plan}
  ELSE {plan \cup {a} : a \in IF \E p \in Predecessors[o] : Of(plan, Production, p) = {} THEN {}
                              ELSE ChooseMachine(s, plan, o, ReadyAt(plan, o), strategy)}

(* Active requests; the strict profile leaves out those a retained assignment
   already carries out. *)
DueRequests(s, profile) ==
  LET retained == {a.work : a \in {b \in Retained(s) : b.kind = Maintenance}}
  IN {r \in Requests : ActiveRequest(s, r) /\ ~(profile = Strict /\ r \in retained)}

(* Mandatory requests first, then the urgent ones (an absent latest start is the
   end of the window). *)
Urgency(s, r) ==
  <<IF r \in Mandatory THEN 0 ELSE 1, s.req[r].latest, s.req[r].earliest, r>>

MoreUrgent(s, q, r) ==
  \E i \in 1 .. 4 : /\ Urgency(s, q)[i] < Urgency(s, r)[i]
                    /\ \A j \in 1 .. i - 1 : Urgency(s, q)[j] = Urgency(s, r)[j]

RequestOrder(s, profile) ==
  LET before(q, r) == MoreUrgent(s, q, r) IN Sorted(DueRequests(s, profile), before)

MaintenanceScheduled(s, profile, strategy, plans) ==
  LET order == RequestOrder(s, profile)
      after[i \in 0 .. Len(order)] ==
        IF i = 0 THEN plans ELSE UNION {PlaceRequest(s, strategy, p, order[i]) : p \in after[i - 1]}
  IN after[Len(order)]

ProductionScheduled(s, profile, strategy, plans) ==
  LET after[i \in 0 .. Len(OperationOrder)] ==
        IF i = 0 THEN plans
        ELSE UNION {PlaceOperation(s, profile, strategy, p, OperationOrder[i]) : p \in after[i - 1]}
  IN after[Len(OperationOrder)]

(* DeterministicScheduler.build, up to the construction of the Schedule: the set
   of its one plan, or the empty set. *)
Built(s, profile, strategy) ==
  IF strategy = "PRODUCTION_PRIORITY"
  THEN MaintenanceScheduled(s, profile, strategy, ProductionScheduled(s, profile, strategy, {Retained(s)}))
  ELSE ProductionScheduled(s, profile, strategy, MaintenanceScheduled(s, profile, strategy, {Retained(s)}))

(* The contract refuses a schedule in which two assignments have one id. *)
WellFormed(plan) == \A a, b \in plan : AssignmentId(a) = AssignmentId(b) => a = b
=============================================================================
