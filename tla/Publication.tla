---------------------------- MODULE Publication ----------------------------
(***************************************************************************)
(* What a factory relies on when it follows the published schedule: a log  *)
(* with one entry per plan version, which only ever grows at its end, in   *)
(* which no schedule identity appears twice, and whose every entry was      *)
(* approved by a person for the snapshot on which it was then published.    *)
(*                                                                         *)
(* DecisionCommand implements this specification.                          *)
(***************************************************************************)
EXTENDS Naturals, Sequences

CONSTANTS
    Plans,       \* candidate plans
    Snapshots,   \* observation snapshots
    ScheduleOf   \* the schedule identity (schedule_id, revision) of each plan

VARIABLES
    log,         \* entry v is the publication of plan version v
    approved     \* the <<plan, snapshot>> pairs a person approved

(* Nothing is published yet, whatever was approved before. *)
Init ==
    /\ log = <<>>
    /\ approved \in SUBSET (Plans \X Snapshots)

Approve ==
    /\ \E p \in Plans, s \in Snapshots : approved' = approved \cup {<<p, s>>}
    /\ UNCHANGED log

Publish ==
    /\ \E entry \in approved :
        /\ \A v \in 1..Len(log) : ScheduleOf[log[v][1]] # ScheduleOf[entry[1]]
        /\ log' = Append(log, entry)
    /\ UNCHANGED approved

Next == Approve \/ Publish

Spec == Init /\ [][Next]_<<log, approved>>
=============================================================================
