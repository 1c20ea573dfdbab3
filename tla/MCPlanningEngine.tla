--------------------------- MODULE MCPlanningEngine ---------------------------
(* Two machines, a job of two operations and a job of one, two technicians and
   two requests, the second of which needs both of them. *)
EXTENDS PlanningEngine

MCMinutes == <<(1 :> 60 @@ 2 :> 90), (2 :> 60), (1 :> 60)>>
MCRelease == <<0, 0, 60>>
MCPredecessors == <<{}, {1}, {}>>
MCMachineOf == <<1, 2>>
MCNeeds == <<{"electric"}, {"electric", "hydraulic"}>>
MCCovers == <<<<{"electric"}, {"electric"}>>, <<{}, {"hydraulic"}>>>>
MCOrder == <<1, 2, 3>>
MCRisk == <<30, 5>>

AllDay == {<<0, 360>>}

(* The factory when the current schedule was planned. *)
MCBase ==
  [up |-> {1, 2}, opStatus |-> <<"PENDING", "PENDING", "PENDING">>, hours |-> <<AllDay, AllDay>>,
   req |-> <<[status |-> "OPEN", earliest |-> 0, latest |-> 240, duration |-> 60],
             [status |-> "OPEN", earliest |-> 60, latest |-> 360, duration |-> 60]>>,
   current |-> {}]

(* What has changed since. *)
MCFacts ==
  {MCBase,
   [MCBase EXCEPT !.up = {1}],
   [MCBase EXCEPT !.hours = <<{<<0, 150>>, <<240, 360>>}, {<<120, 180>>, <<210, 360>>}>>],
   [MCBase EXCEPT !.hours = 1 :> AllDay],
   [MCBase EXCEPT !.opStatus[3] = "BLOCKED"],
   [MCBase EXCEPT !.opStatus[1] = "COMPLETED"],
   [MCBase EXCEPT !.req[1].latest = 30],
   [MCBase EXCEPT !.req[2].status = "CANCELLED"]}

Marked(a, mark) ==
  CASE mark = "LOCKED"    -> [a EXCEPT !.locked = TRUE]
    [] mark = "COMPLETED" -> [a EXCEPT !.status = "COMPLETED"]

Consistent(done, mark) ==
  mark = "COMPLETED" => \A a \in done : a.kind = Production =>
    \A p \in MCPredecessors[a.work] : \E b \in done : b.kind = Production /\ b.work = p

(* Current schedules this planner would not make: work before its release or
   longer than it takes, done or not, an operation twice, one cancelled. *)
MCReserved(strategy, work, start, end, status) ==
  [Assignment(Production, strategy, work, 1, start, end, {}) EXCEPT !.locked = TRUE, !.status = status]

MCForeign ==
  {[MCBase EXCEPT !.current = entries] : entries \in
     {{MCReserved("A", 3, 0, 60, "COMMITTED")}, {MCReserved("A", 3, 60, 150, "COMMITTED")},
      {MCReserved("A", 3, 60, 150, "COMPLETED")}, {MCReserved("A", 3, 120, 180, "CANCELLED")},
      {MCReserved("A", 1, 0, 60, "COMMITTED"), MCReserved("B", 1, 120, 180, "COMMITTED")}}}

(* The rest are schedules this planner published, some of it locked or done since. *)
MCSnapshots ==
  MCFacts \cup MCForeign \cup
  {LET of(kind, w) == mark = "COMPLETED" /\ \E a \in done : a.kind = kind /\ a.work = w
   IN [facts EXCEPT !.current = (plan \ done) \cup {Marked(a, mark) : a \in done},
                    !.opStatus = [o \in 1 .. 3 |-> IF of(Production, o) THEN "COMPLETED" ELSE facts.opStatus[o]],
                    !.req = [r \in 1 .. 2 |-> IF of(Maintenance, r) THEN [facts.req[r] EXCEPT !.status = "COMPLETED"]
                                              ELSE facts.req[r]]] :
     <<facts, plan, done, mark>> \in {x \in
       UNION {UNION {MCFacts \X {p} \X kSubset(n, p) \X {"LOCKED", "COMPLETED"} : n \in 0 .. 2} :
                p \in UNION {Built(MCBase, Legacy, Strategies[i]) : i \in {2, 3}}} :
         Consistent(x[3], x[4])}}

Defer(r, t) == [type |-> "DEFER_MAINTENANCE", target |-> r, to |-> t]

MCOverrideSets ==
  {{}, {Defer(1, 270)}, {Defer(1, 60), Defer(2, 120)},
   {[type |-> "MAINTENANCE_DURATION", target |-> 1, to |-> 90]},
   {[type |-> "MAINTENANCE_DURATION", target |-> 3, to |-> 90]},
   {[type |-> "TECHNICIAN_UNAVAILABLE", target |-> 1, from |-> 60, to |-> 120]}}

MCJobOf == <<1, 1, 2>>
MCDue == <<210, 120>>
MCRate == <<12, 5>>

(* What a scenario draws (0), and what each strategy of a LIVE case draws. *)
MCDraws ==
  <<[x \in Machines \X {1, 2} |-> 8 * x[2]], [x \in Machines \X {1, 2} |-> 20],
    [x \in Machines \X {1, 2} |-> 4 * x[1]]>> @@ (0 :> [x \in Machines \X {1, 2} |-> 5 * x[2]])

MCWeights == [production |-> 4, reliability |-> 4, maintenance |-> 4, workforce |-> 4, stability |-> 1]
MCSweptValues ==
  "duration" :> <<90, 60, 120>> @@ "production" :> <<4, 0, 1>> @@ "stability" :> <<8, 1, 0>>
=============================================================================
