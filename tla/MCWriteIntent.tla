--------------------------- MODULE MCWriteIntent ----------------------------
(* An instance of WriteIntent for model checking: two people who may use the *)
(* same browser, and every hook.                                             *)
EXTENDS WriteIntent, TLC

CONSTANTS u, v

TwoUsers == {u, v}
AllHooks == {"scenario", "workOrder", "journal"}
OnlyJournal == {"journal"}

(* The two people are interchangeable. *)
People == Permutations(TwoUsers)
=============================================================================
