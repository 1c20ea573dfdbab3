--------------------------- MODULE MCScenarioJob ----------------------------
(* An instance of ScenarioJob: two runs that compete for their factory.      *)
EXTENDS ScenarioJob

CONSTANTS j1, j2, f1

OneFactory == [j \in Jobs |-> f1]
NoSources == [j \in Jobs |-> None]
=============================================================================
