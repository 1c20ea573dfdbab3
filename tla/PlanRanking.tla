----------------------------- MODULE PlanRanking -----------------------------
(***************************************************************************)
(* From a feasible plan to its place in the ranking: the KPIs of a plan    *)
(* with its simulated failures, and the normalised score that orders the   *)
(* candidates of one call (ai_services/domain/operations/simulator.py,     *)
(* scoring.py, ai_services/domain/scenarios/sampling.py).                  *)
(*                                                                         *)
(* Arithmetic is exact: the rounding of a KPI to six decimals and of a     *)
(* score to twelve is left out, and so are the metrics no score uses and   *)
(* the cap of the utilization at 1, which no valid plan exceeds.           *)
(***************************************************************************)
EXTENDS PlanScheduler

CONSTANTS
  Jobs, JobOf,   \* [Operations -> Jobs]
  Due,           \* [Jobs -> due time]
  Rate,          \* [Requests -> cost of a minute], by the type of maintenance
  RiskHorizon,   \* the minutes the failure probabilities are about
  Runs,          \* simulation runs
  Draws          \* [{0} \cup strategy numbers -> [Machines \X Runs -> 0 .. 99]]

ASSUME RankingAssumption ==
  /\ IsFiniteSet(Machines) /\ IsFiniteSet(Jobs) /\ IsFiniteSet(Runs) /\ RiskHorizon \in Nat
  /\ JobOf \in [Operations -> Jobs] /\ Due \in [Jobs -> Nat] /\ Rate \in [Requests -> Nat]
  /\ Draws \in [0 .. Len(Strategies) -> [Machines \X Runs -> 0 .. 99]]

Objectives == {"production", "reliability", "maintenance", "workforce", "stability"}

(* sum: the total of the values of a function with a finite domain. *)
Total(f) ==
  LET total[S \in SUBSET DOMAIN f] ==
        IF S = {} THEN 0 ELSE LET x == CHOOSE y \in S : TRUE IN f[x] + total[S \ {x}]
  IN total[DOMAIN f]

-----------------------------------------------------------------------------
(* KPIs of the assignments that are not CANCELLED.                         *)

Makespan(plan) == Max({0} \cup {a.end : a \in plan})

(* A job whose operations were all completed before has no end.            *)
Late(plan, j) ==
  Max({0} \cup {a.end - Due[j] : a \in {b \in plan : b.kind = Production /\ JobOf[b.work] = j}})

Minute(a) == a.end - a.start

Live == "LIVE"
Simulation == "SIMULATION_ONLY"

(* Mutant: a scenario, too, draws anew for every schedule. *)
DrawnPerSchedule(mode, i) == Draws[i]

(* The generator of a LIVE case is seeded by strategy and makespan, of which one
   snapshot has one for each strategy; a scenario looks its draws up by
   observation and run, the same for every plan. *)
Drawn(mode, i) == Draws[IF mode = Simulation THEN 0 ELSE i]

(* Maintenance takes 70 % of a machine's risk. *)
Failures(plan, draws) ==
  {x \in DOMAIN draws :
     10 * draws[x] < Risk[x[1]] * IF \E a \in plan : a.kind = Maintenance /\ a.machine = x[1] THEN 3 ELSE 10}

(* Assignments that differ from the current one of the same work. *)
Changes(s, plan) ==
  {a \in plan : ~\E b \in Of(s.current, a.kind, a.work) :
     b.machine = a.machine /\ b.start = a.start /\ b.end = a.end /\ b.team = a.team}

(* The metrics of the score; on_time_completion_rate is turned round, so that
   less is better in all of them. *)
Kpis(s, plan, draws) ==
  LET jobs == {a \in plan : a.kind = Maintenance} IN
  [makespan    |-> Makespan(plan),
   tardiness   |-> Total([j \in Jobs |-> Late(plan, j)]),
   lateJobs    |-> Cardinality({j \in Jobs : Late(plan, j) > 0}),
   failures    |-> Cardinality(Failures(plan, draws)),
   downtime    |-> Cardinality(Failures(plan, draws)) * Min({RiskHorizon, Makespan(plan)}),
   cost        |-> Total([a \in jobs |-> s.req[a.work].duration * Rate[a.work]]),
   utilization |-> Total([a \in jobs |-> Minute(a) * Cardinality(a.team)]),
   changes     |-> Cardinality(Changes(s, plan))]

-----------------------------------------------------------------------------
(* The score.  A benefit is a fraction of the span of its metric: all are
   brought to the common denominator 6 * Common. *)

Group ==
  [production  |-> {"makespan", "tardiness", "lateJobs"},
   reliability |-> {"failures", "downtime"},
   maintenance |-> {"cost"}, workforce |-> {"utilization"}, stability |-> {"changes"}]

Metrics == UNION {Group[o] : o \in Objectives}

Worst(ks, m) == Max({ks[i][m] : i \in DOMAIN ks})
Best(ks, m)  == Min({ks[i][m] : i \in DOMAIN ks})
Span(ks, m)  == Max({1, Worst(ks, m) - Best(ks, m)})

LeastCommonMultiple(a, b) == Min({j * a : j \in {k \in 1 .. b : (k * a) % b = 0}})

Common(ks) ==
  LET common[S \in SUBSET Metrics] ==
        IF S = {} THEN 1 ELSE LET m == CHOOSE y \in S : TRUE IN LeastCommonMultiple(common[S \ {m}], Span(ks, m))
  IN common[Metrics]

(* A metric that all candidates share has the full benefit. *)
Benefit(ks, common, m, i) ==
  IF Worst(ks, m) = Best(ks, m) THEN common
  ELSE (common \div Span(ks, m)) * (Worst(ks, m) - ks[i][m])

ObjectiveBenefit(ks, common, o, i) ==
  LET benefit(m) == Benefit(ks, common, m, i) IN
  CASE o = "production"  -> 2 * (benefit("makespan") + benefit("tardiness") + benefit("lateJobs"))
    [] o = "reliability" -> 3 * (benefit("failures") + benefit("downtime"))
    [] o = "maintenance" -> 6 * benefit("cost")
    [] o = "workforce"   -> 6 * benefit("utilization")
    [] o = "stability"   -> 6 * benefit("changes")

Score(ks, common, w, i) ==
  LET weighted(o) == w[o] * ObjectiveBenefit(ks, common, o, i) IN
  weighted("production") + weighted("reliability") + weighted("maintenance")
    + weighted("workforce") + weighted("stability")

(* The first of the sorted candidates: the best score, then the order of the
   strategies.  ks holds the KPIs of the candidates by strategy number. *)
Recommended(ks, w) ==
  LET score == [i \in DOMAIN ks |-> Score(ks, Common(ks), w, i)]
  IN  Min({i \in DOMAIN ks : \A j \in DOMAIN ks : score[j] <= score[i]})
=============================================================================
