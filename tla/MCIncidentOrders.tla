--------------------------- MODULE MCIncidentOrders ---------------------------
(* An instance of IncidentOrders for model checking: three people, a work    *)
(* order of the second publication, one incident and two sources, all on one *)
(* machine.                                                                  *)
EXTENDS IncidentOrders, TLC

CONSTANTS adm, eng, op, p1, request, s1, s2, m1

RolesOfThree == adm :> "ADMIN" @@ eng :> "ENGINEER" @@ op :> "OPERATOR"
SecondPublication == p1 :> 2
OneRequest == p1 :> request
SameMachine == p1 :> m1 @@ s1 :> m1 @@ s2 :> m1

\* The two sources differ in nothing but their names.
SourcesAlike == Permutations(Sources)
=============================================================================
