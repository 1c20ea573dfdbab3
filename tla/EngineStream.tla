----------------------------- MODULE EngineStream -----------------------------
(***************************************************************************)
(* How a worker reads an engine (worker/event-collector.js, and its use by *)
(* worker/episode-worker.js).                                              *)
(*                                                                         *)
(* The engine is not trusted: it sends any events in any order, repeats    *)
(* them, stops early, fails, or falls silent.  The collector asks for the  *)
(* next event only after the step before it is stored.  Meanwhile the      *)
(* worker may be told to stop, the heartbeat may lose the lease, or the    *)
(* read may exceed its time: each of them aborts the collector.            *)
(***************************************************************************)
EXTENDS Naturals, Sequences

CONSTANTS
  Observations,   \* identities of observations
  SimulationSteps \* bound: steps of a simulation

ASSUME StreamAssumption == SimulationSteps \in Nat

StepEvents == <<"FleetObservation", "PolicyRecommendation", "StepResult">>

(* mine: the event names the episode, policy and seed of the request.  step *)
(* is steps_completed in a summary and means nothing in a recommendation.   *)
Events ==
  [type : {StepEvents[k] : k \in 1..3} \cup {"EpisodeSummary"}, step : 0..SimulationSteps,
   about : Observations, mine : BOOLEAN, last : BOOLEAN]

VARIABLES
  step,         \* the step whose events are being read
  pending,      \* those of its events that arrived
  terminated,   \* the last stored step ended the simulation
  summary,      \* steps_completed of the accepted summary, 0 before it
  phase,        \* what the collector or its caller waits for
  aborted,      \* the collector's abort signal
  stored,       \* the steps of the episode in the database
  late          \* history: a step was stored after the abort

streamVars == <<step, pending, terminated, summary, phase, aborted, stored, late>>

StreamInit ==
  /\ step = 0 /\ pending = <<>> /\ terminated = FALSE /\ summary = 0
  /\ phase = "reading" /\ aborted = FALSE
  /\ stored = <<>> /\ late = FALSE

-----------------------------------------------------------------------------
(* Mutant: the observation a result refers to is not compared. *)
AcceptableByStep(e) ==
  /\ summary = 0
  /\ e.mine
  /\ IF e.type = "EpisodeSummary"
     THEN pending = <<>> /\ step > 0 /\ e.step = step
     ELSE /\ ~terminated
          /\ e.type = StepEvents[Len(pending) + 1]
          /\ e.type # "PolicyRecommendation" => e.step = step

(* The events of a step come in order and are about one observation; a      *)
(* summary comes between steps and counts them.                             *)
Acceptable(e) ==
  /\ summary = 0
  /\ e.mine
  /\ IF e.type = "EpisodeSummary"
     THEN pending = <<>> /\ step > 0 /\ e.step = step
     ELSE /\ ~terminated
          /\ e.type = StepEvents[Len(pending) + 1]
          /\ e.type # "PolicyRecommendation" => e.step = step
          /\ pending # <<>> => e.about = pending[1].about

Reading == phase = "reading" /\ ~aborted

(* The event is taken in; the third one of a step hands the step over. *)
Accept(e) ==
  /\ Reading
  /\ Acceptable(e)
  /\ IF e.type = "EpisodeSummary"
     THEN summary' = e.step /\ UNCHANGED <<pending, phase>>
     ELSE /\ pending' = Append(pending, e)
          /\ phase' = IF Len(pending') = 3 THEN "storing" ELSE "reading"
          /\ UNCHANGED summary
  /\ UNCHANGED <<step, terminated, aborted, stored, late>>

(* onStep: the step commits.  An abort that came meanwhile is noticed only  *)
(* now.                                                                     *)
StepCommits ==
  /\ phase = "storing"
  /\ stored' = Append(stored, [step |-> pending[3].step,
                               about |-> {pending[k].about : k \in 1..3},
                               last |-> pending[3].last])
  /\ late' = aborted
  /\ pending' = <<>>
  /\ terminated' = pending[3].last
  /\ step' = step + 1
  /\ phase' = IF aborted THEN "failed" ELSE "reading"
  /\ UNCHANGED <<summary, aborted>>

(* The engine closes its stream: right after a summary, or too early. *)
EngineCloses ==
  /\ Reading
  /\ phase' = IF summary > 0 THEN "returned" ELSE "failed"
  /\ UNCHANGED <<step, pending, terminated, summary, aborted, stored, late>>

(* A refused event, an error of the engine, a step the database refuses, or *)
(* an abort while the collector waits.                                      *)
Break ==
  /\ \/ Reading /\ \E e \in Events : ~Acceptable(e)
     \/ phase = "reading" /\ aborted
     \/ phase = "storing"
  /\ phase' = "failed"
  /\ UNCHANGED <<step, pending, terminated, summary, aborted, stored, late>>

(* The caller looks at the signal once more before it stores the summary. *)
CheckAbort ==
  /\ phase = "returned"
  /\ phase' = IF aborted THEN "failed" ELSE "committing"
  /\ UNCHANGED <<step, pending, terminated, summary, aborted, stored, late>>

Commit ==
  /\ phase = "committing"
  /\ phase' \in {"completed", "failed"}
  /\ UNCHANGED <<step, pending, terminated, summary, aborted, stored, late>>

(* Shutdown, a lost lease, or silence of the engine.  After the last check  *)
(* nothing reads the signal any more.                                       *)
Abort ==
  /\ phase \in {"reading", "storing", "returned"}
  /\ ~aborted
  /\ aborted' = TRUE
  /\ UNCHANGED <<step, pending, terminated, summary, phase, stored, late>>

StreamNext ==
  \/ \E e \in Events : Accept(e)
  \/ StepCommits \/ EngineCloses \/ Break \/ CheckAbort \/ Commit \/ Abort

StreamSpec == StreamInit /\ [][StreamNext]_streamVars

-----------------------------------------------------------------------------
Outcome == IF phase \in {"completed", "failed"} THEN phase ELSE "running"

Promise == INSTANCE StepStream WITH outcome <- Outcome, stopped <- aborted

(* Whatever the engine sends and whenever the reading is aborted, the       *)
(* episode gets whole steps in order, and completes only with their summary *)
(* (the comment of event-collector.js that the next event is asked for only *)
(* after the current step commits).                                         *)
ImplementsStepStream == Promise!Spec
=============================================================================
