---------------------------- MODULE PlanningEngine ----------------------------
(***************************************************************************)
(* The planning service and the scenario engine built on it                *)
(* (ai_services/domain/operations/service.py, maintenance_constraints.py,  *)
(* ai_services/domain/scenarios/transform.py, evaluation.py,               *)
(* sensitivity.py).                                                        *)
(*                                                                         *)
(* One pinned snapshot is planned: for a LIVE decision case, or as the     *)
(* baseline and the overridden input of a scenario, whose result is then   *)
(* swept over durations or handed to a LIVE case.  Every call of the       *)
(* planner is one action; the deadline it polls may expire before any of   *)
(* its strategies is finished, so each action chooses how many are.        *)
(*                                                                         *)
(* A sweep runs over the duration of one request, planning every point     *)
(* anew, or over one objective weight, ranking the saved candidates again. *)
(***************************************************************************)
EXTENDS PlanRanking

CONSTANTS
  Snapshots,      \* pinned snapshots
  OverrideSets,   \* sets of overrides of a scenario, one per type and target
  SweptRequest,   \* the request whose duration is swept
  Weights,        \* the raw objective weights of the request
  SweptWeights,   \* the objectives whose weight is swept
  SweptValues,    \* [{"duration"} \cup SweptWeights -> values in the order requested]
  Budgets         \* numbers of strategies a call may finish before its deadline

(* Overrides: [type, target, from, to] for an absence, [type, target, to] else. *)
IsOverride(v) ==
  CASE v.type = "TECHNICIAN_UNAVAILABLE" -> v.from \in Int /\ v.to \in Int
    [] v.type = "MAINTENANCE_DURATION"   -> v.to \in Nat \ {0}
    [] v.type = "DEFER_MAINTENANCE"      -> v.to \in Int

ASSUME EngineAssumption ==
  /\ \A s \in Snapshots : IsSnapshot(s)
  /\ \A vs \in OverrideSets : \A v, u \in vs : /\ IsOverride(v)
                                               /\ v.type = u.type /\ v.target = u.target => v = u
  /\ SweptRequest \in Requests
  /\ Weights \in [Objectives -> Nat] /\ SweptWeights \subseteq Objectives
  /\ SweptValues["duration"] \in Seq(Nat \ {0}) /\ \A x \in SweptWeights : SweptValues[x] \in Seq(Nat)
  /\ \A x \in {"duration"} \cup SweptWeights : IsInjective(SweptValues[x])
  /\ \A x \in SweptWeights : \E o \in Objectives \ {x} : Weights[o] > 0
  /\ Budgets \subseteq 0 .. Len(Strategies) /\ Len(Strategies) \in Budgets

VARIABLES
  snapshot,   \* the pinned snapshot
  overrides,  \* the overrides of the scenario
  baseline,   \* the evaluation of the snapshot as it is
  scenario,   \* the evaluation of the overridden snapshot
  axis,       \* "duration" or the objective swept, "none" before a sweep
  points,     \* sequence of the evaluations of the sweep
  live        \* the answer to a LIVE planning request

engineVars == <<snapshot, overrides, baseline, scenario, axis, points, live>>

Ended(outcome) == [outcome |-> outcome, candidates |-> {}, selected |-> 0, partial |-> FALSE]

NotRun == Ended("NOT_RUN")
Infeasible == Ended("NO_FEASIBLE_PLAN")

-----------------------------------------------------------------------------
KpisOf(candidates) ==
  [i \in {c.strategy : c \in candidates} |-> (CHOOSE c \in candidates : c.strategy = i).kpis]

Ranked(candidates, w, partial) ==
  [outcome |-> "FEASIBLE", candidates |-> candidates,
   selected |-> Recommended(KpisOf(candidates), w), partial |-> partial]

(* The outcome of the schedules built: the valid plans among them, ranked.  A
   plan the contract refuses is an exception nothing in the service catches. *)
Answer(s, mode, profile, k, built) ==
  LET candidate(i, p) == [strategy |-> i, plan |-> p, kpis |-> Kpis(s, p, Drawn(mode, i))]
      valid == UNION {{candidate(i, p) : p \in {q \in built[i] : Valid(s, q, profile)}} : i \in 1 .. k}
      timedOut == k < Len(Strategies)
  IN IF \E i \in 1 .. k : \E p \in built[i] : ~WellFormed(p) THEN Ended("INTERNAL_PLANNING_ERROR")
     ELSE IF valid # {} THEN Ranked(valid, Weights, timedOut)
     ELSE IF timedOut THEN Ended("PLANNING_TIMEOUT")
     ELSE Infeasible

(* plan_with_diagnostics: the strategies finished in time and their outcome. *)
PlanWithin(s, mode, profile, k) ==
  Answer(s, mode, profile, k, [i \in 1 .. k |-> Built(s, profile, Strategies[i])])

(* The snapshots that result from LIVE lower bounds: one, or none (ValueError). *)
WithStartConstraints(s, bounds) ==
  LET moved == [s EXCEPT !.req = [r \in Requests |->
                  [s.req[r] EXCEPT !.earliest = IF \E b \in bounds : b.target = r
                                                THEN (CHOOSE b \in bounds : b.target = r).to ELSE @]]]
  IN IF \A b \in bounds : /\ ActiveRequest(s, b.target)
                          /\ Max({0, s.req[b.target].earliest}) <= b.to /\ b.to < Horizon
                          /\ b.to <= s.req[b.target].latest
     THEN {moved} ELSE {}

(* Mutant: the bounded snapshot keeps the profile of LIVE requests. *)
LivePlanLegacy(s, bounds, k) ==
  IF WithStartConstraints(s, bounds) = {} THEN Infeasible
  ELSE PlanWithin(CHOOSE t \in WithStartConstraints(s, bounds) : TRUE, Live, Legacy, k)

(* A LIVE request with bounds is planned strictly over the bounded snapshot. *)
LivePlan(s, bounds, k) ==
  IF bounds = {} THEN PlanWithin(s, Live, Legacy, k)
  ELSE IF WithStartConstraints(s, bounds) = {} THEN Infeasible
  ELSE PlanWithin(CHOOSE t \in WithStartConstraints(s, bounds) : TRUE, Live, Strict, k)

-----------------------------------------------------------------------------
(* What transform accepts of an override. *)
Accepted(s, v) ==
  CASE v.type = "TECHNICIAN_UNAVAILABLE" -> v.target \in Technicians /\ 0 <= v.from /\ v.to <= Horizon
    [] v.type = "MAINTENANCE_DURATION"   -> v.target \in Requests /\ ActiveRequest(s, v.target)
    [] v.type = "DEFER_MAINTENANCE"      -> /\ v.target \in Requests /\ ActiveRequest(s, v.target)
                                            /\ 0 <= v.to /\ v.to < Horizon
                                            /\ s.req[v.target].earliest <= v.to

Conflicting(s, v) == v.type = "DEFER_MAINTENANCE" /\ v.to > s.req[v.target].latest

(* What an absence leaves of the windows of a technician. *)
Subtract(windows, v) ==
  LET hit == {w \in windows : w[1] < v.to /\ v.from < w[2]} IN
  (windows \ hit) \cup {<<w[1], v.from>> : w \in {x \in hit : x[1] < v.from}}
                  \cup {<<v.to, w[2]>> : w \in {x \in hit : v.to < x[2]}}

Override(s, vs, type, target, old) ==
  LET v == {x \in vs : x.type = type /\ x.target = target} IN
  IF v = {} THEN old ELSE (CHOOSE x \in v : TRUE).to

(* transform: the effective snapshot, or none when a bound is contradicted. *)
Effective(s, vs) ==
  LET absences(t) == {v \in vs : v.type = "TECHNICIAN_UNAVAILABLE" /\ v.target = t}
      hours == [t \in OnShift(s) |-> IF absences(t) = {} THEN s.hours[t]
                                     ELSE Subtract(s.hours[t], CHOOSE v \in absences(t) : TRUE)]
      req == [r \in Requests |->
                [s.req[r] EXCEPT !.duration = Override(s, vs, "MAINTENANCE_DURATION", r, @),
                                 !.earliest = Override(s, vs, "DEFER_MAINTENANCE", r, @)]]
  IN IF \E v \in vs : Conflicting(s, v) THEN {} ELSE {[s EXCEPT !.hours = hours, !.req = req]}

PlanEffective(s, vs, k) ==
  IF Effective(s, vs) = {} THEN Infeasible
  ELSE PlanWithin(CHOOSE t \in Effective(s, vs) : TRUE, Simulation, Strict, k)

(* The overrides of a sweep point: the swept duration replaces a given one. *)
SweptOverrides(value) ==
  {v \in overrides : ~(v.type = "MAINTENANCE_DURATION" /\ v.target = SweptRequest)}
    \cup {[type |-> "MAINTENANCE_DURATION", target |-> SweptRequest, to |-> value]}

Reweighted(objective, value) == [Weights EXCEPT ![objective] = value]

(* Mutant: the points are evaluated in the order of the request. *)
AsRequested(values) == values

(* The order in which the points of a sweep are evaluated. *)
Ascending(values) == Sorted(ToSet(values), <)

PointValue(i) == Ascending(SweptValues[axis])[i]

(* Only lower bounds of maintenance have a LIVE form. *)
LiveMapped == scenario.outcome = "FEASIBLE" /\ \A v \in overrides : v.type = "DEFER_MAINTENANCE"

-----------------------------------------------------------------------------
Init ==
  /\ snapshot \in Snapshots /\ overrides \in OverrideSets
  /\ baseline = NotRun /\ scenario = NotRun /\ live = NotRun
  /\ axis = "none" /\ points = <<>>

(* ScenarioInputError: nothing is planned. *)
RejectInput ==
  /\ baseline = NotRun /\ scenario = NotRun /\ live = NotRun
  /\ \E v \in overrides : ~Accepted(snapshot, v)
  /\ scenario' = Ended("INVALID_SCENARIO_INPUT")
  /\ UNCHANGED <<snapshot, overrides, baseline, axis, points, live>>

EvaluateBaseline(k) ==
  /\ baseline = NotRun /\ scenario = NotRun /\ live = NotRun
  /\ \A v \in overrides : Accepted(snapshot, v)
  /\ baseline' = PlanWithin(snapshot, Simulation, Strict, k)
  /\ UNCHANGED <<snapshot, overrides, scenario, axis, points, live>>

(* Overrides that change nothing copy the baseline's evaluation. *)
EvaluateScenario(k) ==
  /\ baseline # NotRun /\ scenario = NotRun
  /\ scenario' = IF Effective(snapshot, overrides) = {snapshot} THEN baseline
                 ELSE PlanEffective(snapshot, overrides, k)
  /\ UNCHANGED <<snapshot, overrides, baseline, axis, points, live>>

(* A sweep of the saved scenario: its values are unique, its target active. *)
AskSweep ==
  /\ baseline # NotRun /\ scenario # NotRun /\ live = NotRun /\ axis = "none"
  /\ axis' \in SweptWeights \cup (IF ActiveRequest(snapshot, SweptRequest) THEN {"duration"} ELSE {})
  /\ UNCHANGED <<snapshot, overrides, baseline, scenario, points, live>>

(* A point not started before the job's deadline ends the later ones too. *)
AddPoint(evaluation) ==
  /\ axis # "none" /\ Len(points) < Len(SweptValues[axis])
  /\ \A i \in DOMAIN points : points[i].outcome # "NOT_STARTED"
  /\ points' = Append(points, evaluation)
  /\ UNCHANGED <<snapshot, overrides, baseline, scenario, axis, live>>

PlanPoint(k) ==
  /\ axis = "duration"
  /\ AddPoint(PlanEffective(snapshot, SweptOverrides(PointValue(Len(points) + 1)), k))

(* A source without a plan gives every point its outcome. *)
RankPoint ==
  /\ axis \in SweptWeights
  /\ AddPoint(IF scenario.outcome # "FEASIBLE" THEN scenario
              ELSE Ranked(scenario.candidates, Reweighted(axis, PointValue(Len(points) + 1)), scenario.partial))

SweepOutOfTime == AddPoint(Ended("NOT_STARTED"))

(* A decision case of its own, or the LIVE evaluation of a saved scenario. *)
PlanLive(k) ==
  /\ live = NotRun /\ axis = "none"
  /\ (scenario = NotRun /\ baseline = NotRun /\ overrides = {}) \/ LiveMapped
  /\ live' = LivePlan(snapshot, overrides, k)
  /\ UNCHANGED <<snapshot, overrides, baseline, scenario, axis, points>>

Next ==
  \/ RejectInput \/ AskSweep \/ RankPoint \/ SweepOutOfTime
  \/ \E k \in Budgets : \/ EvaluateBaseline(k) \/ EvaluateScenario(k)
                        \/ PlanPoint(k) \/ PlanLive(k)

Spec == Init /\ [][Next]_engineVars
-----------------------------------------------------------------------------
PointOverrides(i) == IF axis = "duration" THEN SweptOverrides(PointValue(i)) ELSE overrides

(* The hard constraints of decision-planning-engine-v1.md (Scheduling policy),
   of the contract, and for the strict profile of scenario-engine-m0-proposal.md,
   stated over the whole plan and without the validator's operators.  Work placed
   now must fit the bounds of now; a reservation kept from the current schedule
   is where and as long as it was, whoever made it. *)
ResourcesExclusive(plan) ==
  \A a, b \in plan : (a.machine = b.machine \/ a.team \cap b.team # {}) /\ a # b
                       => a.end <= b.start \/ b.end <= a.start

OperationDone(s, plan, o) ==
  \E a \in plan :
    /\ Of(plan, Production, o) = {a}
    /\ a.machine \in s.up \cap DOMAIN Minutes[o] /\ 0 <= a.start /\ a.end <= Horizon
    /\ a \notin Retained(s) => Release[o] <= a.start /\ a.end = a.start + Minutes[o][a.machine]
    /\ \A p \in Predecessors[o] : s.opStatus[p] = "COMPLETED" \/ \E b \in Of(plan, Production, p) : b.end <= a.start

RequestDone(s, plan, r, a) ==
  /\ a.machine = MachineOf[r] /\ 0 <= a.start /\ a.end <= Horizon
  /\ \A skill \in Needs[r] : \E t \in a.team : skill \in Covers[t][r]
  /\ \A t \in a.team : t \in OnShift(s) /\ \E w \in s.hours[t] : w[1] <= a.start /\ a.end <= w[2]
  /\ a \notin Retained(s) => /\ a.end = a.start + s.req[r].duration
                             /\ s.req[r].earliest <= a.start /\ a.start <= s.req[r].latest

Feasible(s, profile, plan) ==
  /\ Retained(s) \subseteq plan
  /\ ResourcesExclusive(plan)
  /\ \A o \in Operations : s.opStatus[o] # "COMPLETED" => OperationDone(s, plan, o)
  /\ \A r \in Requests : /\ \A a \in Of(plan, Maintenance, r) : RequestDone(s, plan, r, a)
                         /\ ActiveRequest(s, r) => Of(plan, Maintenance, r) # {}
  /\ profile = Strict => /\ \A o \in Operations : s.opStatus[o] # "BLOCKED"
                         /\ \A a \in plan : a.kind = Production => Release[a.work] <= a.start
                         /\ \A r \in Requests : Cardinality(Of(plan, Maintenance, r)) <= 1

(* The entries to keep are each work of their own: none is cancelled, and no
   operation has two.  No contract demands it of a current schedule. *)
ReservationsDistinct(s) ==
  \A a, b \in Retained(s) :
    /\ a.status # "CANCELLED"
    /\ a.kind = Production /\ b.kind = Production /\ a.work = b.work => a = b

(* Every plan offered, to a reviewer or to the author of a scenario, meets every
   hard constraint of the input it was made from: what the validator of the
   profile does not check (bounds, durations, releases and coverage under
   legacy-v1) the scheduler must have kept (service.py, scheduler.py).  What the
   strict profile offers does so whatever the current schedule is; legacy-v1,
   which counts nothing, when its reservations are distinct. *)
OffersAreFeasible ==
  LET feasible(result, s, profile) == \A c \in result.candidates : Feasible(s, profile, c.plan)
  IN /\ feasible(baseline, snapshot, Strict)
     /\ \A s \in Effective(snapshot, overrides) : feasible(scenario, s, Strict)
     /\ \A i \in DOMAIN points : \A s \in Effective(snapshot, PointOverrides(i)) :
          feasible(points[i], s, Strict)
     /\ IF overrides = {} THEN ReservationsDistinct(snapshot) => feasible(live, snapshot, Legacy)
        ELSE \A s \in Effective(snapshot, overrides) : feasible(live, s, Strict)

(* One input has one answer, by whichever way it reaches the planner: a LIVE
   case made from a scenario with deferred maintenance is offered the plans the
   author saw, and the point of a sweep that repeats the scenario's duration or
   weight has the scenario's plans and recommendation (a LIVE case simulates its
   failures with other draws, so its recommendation may be another),
   as long as no deadline cut either short (transform.py and
   maintenance_constraints.py build the two inputs separately). *)
Complete(result) == result.outcome \in {"FEASIBLE", "NO_FEASIBLE_PLAN"} /\ ~result.partial

Offered(result) == {<<c.strategy, c.plan>> : c \in result.candidates}

OwnValue ==
  IF axis = "duration" THEN Override(snapshot, overrides, "MAINTENANCE_DURATION", SweptRequest,
                                     snapshot.req[SweptRequest].duration)
  ELSE Weights[axis]

SameInputSamePlans ==
  Complete(scenario) =>
    /\ overrides # {} /\ live.outcome # "NOT_RUN" /\ (Complete(live) \/ live.outcome = "INTERNAL_PLANNING_ERROR")
         => live.outcome = scenario.outcome /\ Offered(live) = Offered(scenario)
    /\ \A i \in DOMAIN points : Complete(points[i]) /\ PointValue(i) = OwnValue => points[i] = scenario

(* No candidate is at least as good as the selected one on all that counts and
   better on some of it. *)
Undominated(result, w) ==
  LET ks == KpisOf(result.candidates)
      counted == UNION {Group[o] : o \in {x \in Objectives : w[x] > 0}}
  IN \A i \in DOMAIN ks : (\E m \in counted : ks[i][m] < ks[result.selected][m]) =>
                            \E m \in counted : ks[i][m] > ks[result.selected][m]

(* The plans of a scenario face the same draws: one that maintains as much and
   is no longer never simulates more failures or downtime. *)
MaintenanceHelps(result) ==
  \A c, d \in result.candidates :
    LET maintained(x) == {a.machine : a \in {b \in x.plan : b.kind = Maintenance}} IN
    maintained(d) \subseteq maintained(c) /\ c.kpis.makespan <= d.kpis.makespan =>
      c.kpis.failures <= d.kpis.failures /\ c.kpis.downtime <= d.kpis.downtime

(* The neighbouring points between which the recommendation changes. *)
RankChanges ==
  {i \in 1 .. Len(points) - 1 :
     /\ points[i].outcome = "FEASIBLE" /\ points[i + 1].outcome = "FEASIBLE"
     /\ points[i].selected # points[i + 1].selected}

(* With more weight on an objective the recommendation never does worse in it,
   and a strategy that was given up is not taken up again. *)
SweepIsMonotone ==
  LET ks == KpisOf(scenario.candidates)
      benefit(i) == ObjectiveBenefit(ks, Common(ks), axis, points[i].selected)
  IN
  \A i \in RankChanges : /\ benefit(i) < benefit(i + 1)
                         /\ \A j \in i + 1 .. Len(points) : points[j].selected # points[i].selected

(* A recommendation follows from its weights: no call and no point of a weight
   sweep selects a dominated plan, and the changes along a sweep all go one way,
   so that the reported intervals can be read as thresholds (scoring.py 48-132,
   sensitivity.py 57-94). *)
SelectionFollowsWeights ==
  /\ \A result \in {baseline, scenario, live} : result.outcome = "FEASIBLE" => Undominated(result, Weights)
  /\ MaintenanceHelps(baseline) /\ MaintenanceHelps(scenario)
  /\ axis \in SweptWeights =>
       /\ \A i \in DOMAIN points : points[i].outcome = "FEASIBLE" =>
            Undominated(points[i], Reweighted(axis, PointValue(i)))
       /\ SweepIsMonotone

(* decision-planning-engine-v1.md, "If none exists it raises PLANNING_TIMEOUT;
   infeasibility raises NO_FEASIBLE_PLAN": a LIVE request ends in plans or in one
   of these two. *)
LiveEndsAsDocumented ==
  live.outcome \in {"NOT_RUN", "FEASIBLE", "PLANNING_TIMEOUT", "NO_FEASIBLE_PLAN"}
=============================================================================
