------------------------------ MODULE StepStream ------------------------------
(***************************************************************************)
(* What the reader of an engine's events promises to the episode it        *)
(* executes, whatever the engine sends: the steps are stored whole, in     *)
(* order and without a gap, none after the one that ends the simulation;   *)
(* the episode completes only with the summary of exactly those steps; and *)
(* once the reader is told to stop, at most the step it is storing is      *)
(* still stored, and the episode does not complete.  EpisodeExecution      *)
(* takes this for granted.                                                 *)
(***************************************************************************)
EXTENDS Naturals, Sequences

CONSTANT Observations

VARIABLES
  stored,     \* the steps stored so far
  summary,    \* how many steps the accepted summary counts, 0 before there is one
  outcome,    \* "running", "completed" or "failed"
  stopped,    \* the reader was told to stop
  late        \* a step was stored after that

streamVars == <<stored, summary, outcome, stopped, late>>

Init ==
  stored = <<>> /\ summary = 0 /\ outcome = "running" /\ stopped = FALSE /\ late = FALSE

Terminated == stored # <<>> /\ stored[Len(stored)].last

(* A step is three events about one observation; a reader that was told to *)
(* stop gives up as it stores the last.                                    *)
Store ==
  /\ outcome = "running"
  /\ ~Terminated /\ summary = 0 /\ ~late
  /\ \E o \in Observations, last \in BOOLEAN :
       stored' = Append(stored, [step |-> Len(stored), about |-> {o}, last |-> last])
  /\ late' = stopped
  /\ outcome' \in (IF stopped THEN {"failed"} ELSE {"running"})
  /\ UNCHANGED <<summary, stopped>>

Summarize ==
  /\ outcome = "running"
  /\ summary = 0 /\ stored # <<>>
  /\ summary' = Len(stored)
  /\ UNCHANGED <<stored, outcome, stopped, late>>

Complete ==
  /\ outcome = "running"
  /\ ~stopped
  /\ summary > 0
  /\ outcome' = "completed"
  /\ UNCHANGED <<stored, summary, stopped, late>>

Fail == outcome = "running" /\ outcome' = "failed" /\ UNCHANGED <<stored, summary, stopped, late>>

Stop == stopped' = TRUE /\ UNCHANGED <<stored, summary, outcome, late>>

Next == Store \/ Summarize \/ Complete \/ Fail \/ Stop

Spec == Init /\ [][Next]_streamVars
=============================================================================
