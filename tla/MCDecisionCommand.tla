------------------------- MODULE MCDecisionCommand -------------------------
(* DecisionCommand on a small instance, from two states a factory reaches:  *)
(* a case was rejected and the next is to be created, or one case is         *)
(* approved while another on the same head waits for approval.  The receipts *)
(* of what happened before are kept, so no state is without its history.     *)
EXTENDS DecisionCommand, TLC

CONSTANTS a1, k1, k2, k3, k4, k5, c1, c2, s1, s2, x1, p1, p2, i1, i2

TwoIdentities == (p1 :> i1) @@ (p2 :> i2)

\* The keys k1 and k2 are used in every initial state.
FreeKeys == Permutations({k3, k4, k5})

Row(status, mode, revision) ==
    [status |-> status, mode |-> mode, snapshot |-> s1, base |-> 0,
     revision |-> revision, plans |-> Plans]

Quoting(command, c, mode, revision, p) ==
    [command |-> command, case |-> c, mode |-> mode, revision |-> revision,
     snapshot |-> s1, version |-> 0, plan |-> p]

Creation(c, mode) ==
    [body |-> Quoting("CREATE", None, mode, 0, None), case |-> c,
     status |-> "CREATED", revision |-> 1, version |-> 0]

Decision(c, command, to, p) ==
    [body |-> Quoting(command, c, "LIVE", PlannedRevision, p), case |-> c,
     status |-> to, revision |-> PlannedRevision + 1, version |-> 0]

\* Case c was decided first; kept is what was answered so far, by key.
DecidedFirst(c, command, to, p, kept) ==
    /\ human = [d \in Cases |-> IF d = c THEN [decision |-> command, plan |-> p]
                                         ELSE Undecided]
    /\ events = [d \in Cases |-> IF d # c THEN {} ELSE
         {[actor |-> a1, revision |-> PlannedRevision + 1, to |-> to,
           version |-> 0]}]
    /\ LET answers == k1 :> Creation(c, "LIVE")
                        @@ k2 :> Decision(c, command, to, p) @@ kept
       IN receipts = [a \in Actors |-> [k \in Keys |->
            IF k \in DOMAIN answers THEN answers[k] ELSE None]]

OneToCreate ==
    /\ cases = c1 :> NoRow @@ c2 :> Row("REJECTED", "LIVE", PlannedRevision + 1)
    /\ born = c1 :> 0 @@ c2 :> 1
    /\ DecidedFirst(c2, "REJECT", "REJECTED", None, <<>>)

TwoOnOneHead ==
    \E mode \in Modes :
        /\ cases = c1 :> Row("APPROVED", "LIVE", PlannedRevision + 1)
                     @@ c2 :> Row("AWAITING_APPROVAL", mode, PlannedRevision)
        /\ born = c1 :> 1 @@ c2 :> 1
        /\ DecidedFirst(c1, "APPROVE", "APPROVED", p1, k3 :> Creation(c2, mode))

LaterInit ==
    /\ head = [NoHead EXCEPT !.revision = 1, !.snapshot = s1]
    /\ snapshots = [s \in Snapshots |-> IF s = s1 THEN x1 ELSE None]
    /\ OneToCreate \/ TwoOnOneHead
    /\ commits = [c \in Cases |-> Unpublished]
    /\ published = [s \in Schedules |-> None]
    /\ requests = {}
    /\ grant = [a \in Actors |-> TRUE]

LaterSpec == LaterInit /\ [][Next]_vars
=============================================================================
