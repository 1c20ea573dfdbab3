------------------------------ MODULE LeasedJob ------------------------------
(***************************************************************************)
(* What the worker queues of this system promise of a job, whatever their  *)
(* rows, tokens and revisions look like: a claim is issued only while no    *)
(* lease is live, an expired lease is never revived, only the holder of a    *)
(* live lease publishes, it publishes under the last claim issued, and a    *)
(* settled job stays as it is.                                             *)
(*                                                                         *)
(* DecisionCase and ScenarioJob implement this specification.              *)
(***************************************************************************)
EXTENDS Naturals

CONSTANT Jobs

VARIABLES
    claims,   \* how many claims of each job were issued
    held,     \* is the lease of the last claim live
    outcome,  \* "OPEN", "PUBLISHED" or "FAILED"
    author    \* the claim that published, 0 while none has

Init ==
    /\ claims = [j \in Jobs |-> 0]
    /\ held = [j \in Jobs |-> FALSE]
    /\ outcome = [j \in Jobs |-> "OPEN"]
    /\ author = [j \in Jobs |-> 0]

Claim(j) ==
    /\ outcome[j] = "OPEN" /\ ~held[j]
    /\ claims' = [claims EXCEPT ![j] = @ + 1]
    /\ held' = [held EXCEPT ![j] = TRUE]
    /\ UNCHANGED <<outcome, author>>

\* Leases end, by release or because time passes, some at once.
Lapse ==
    /\ held' \in [Jobs -> BOOLEAN]
    /\ \A j \in Jobs : held'[j] => held[j]
    /\ UNCHANGED <<claims, outcome, author>>

Publish(j) ==
    /\ outcome[j] = "OPEN" /\ held[j]
    /\ held' = [held EXCEPT ![j] = FALSE]
    /\ outcome' = [outcome EXCEPT ![j] = "PUBLISHED"]
    /\ author' = [author EXCEPT ![j] = claims[j]]
    /\ UNCHANGED claims

Fail(j) ==
    /\ outcome[j] = "OPEN"
    /\ held' = [held EXCEPT ![j] = FALSE]
    /\ outcome' = [outcome EXCEPT ![j] = "FAILED"]
    /\ UNCHANGED <<claims, author>>

Next == Lapse \/ \E j \in Jobs : Claim(j) \/ Publish(j) \/ Fail(j)

Spec == Init /\ [][Next]_<<claims, held, outcome, author>>
=============================================================================
