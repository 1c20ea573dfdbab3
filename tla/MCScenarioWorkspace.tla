------------------------- MODULE MCScenarioWorkspace --------------------------
(* An instance of ScenarioWorkspace for model checking: an administrator and *)
(* an engineer, a draft that a LIVE case can express and one it cannot.      *)
EXTENDS ScenarioWorkspace, TLC

CONSTANTS adm, eng, weights, outage, k1, k2

RolesOfTwo == adm :> "ADMIN" @@ eng :> "ENGINEER"
KeysOfTwo == adm :> {k1} @@ eng :> {k1, k2}
=============================================================================
