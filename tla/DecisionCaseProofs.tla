------------------------- MODULE DecisionCaseProofs -------------------------
(* Proofs about DecisionCase, for every set of cases and workers, every    *)
(* lease length and every bound.                                           *)
EXTENDS DecisionCase, TLAPS

-----------------------------------------------------------------------------
(* What one transaction does to the typed tables.                          *)

TablesOK ==
    /\ row \in [Cases -> Row]
    /\ artifact \in [Cases -> Nat]
    /\ trail \in [Cases -> SUBSET Event]

(* The ends of a lease are lengths of a lease.                             *)
LEMMA LeaseEnds == 0 \in Leases /\ LeaseTicks \in Leases
  BY ConstantsAssumption DEF Leases

(* The rows that the transactions write are typed.                         *)
LEMMA WrittenRowsTyped ==
    ASSUME NEW r \in Row
    PROVE  /\ \A to \in Status :
                [r EXCEPT !.status = to, !.revision = @ + 1] \in Row
           /\ \A p \in Processing, e \in ErrorCode :
                [r EXCEPT !.processing = p, !.error = e,
                          !.token = NoToken, !.lease = 0] \in Row
           /\ [r EXCEPT !.revision = @ + 1, !.lease = LeaseTicks] \in Row
           /\ [r EXCEPT !.processing = "RUNNING", !.attempt = @ + 1,
                        !.error = "NONE", !.token = r.attempt + 1,
                        !.lease = LeaseTicks] \in Row
  <1>1. r.revision + 1 \in Nat /\ r.attempt + 1 \in Nat
    BY DEF Row
  <1>2. "RUNNING" \in Processing /\ "NONE" \in ErrorCode
    BY DEF Processing, ErrorCode
  <1>3. \A to \in Status : [r EXCEPT !.status = to, !.revision = @ + 1] \in Row
    BY <1>1 DEF Row
  <1>4. \A p \in Processing, e \in ErrorCode :
          [r EXCEPT !.processing = p, !.error = e,
                    !.token = NoToken, !.lease = 0] \in Row
    BY LeaseEnds DEF Row, NoToken
  <1>5. [r EXCEPT !.revision = @ + 1, !.lease = LeaseTicks] \in Row
    BY <1>1, LeaseEnds DEF Row
  <1>6. [r EXCEPT !.processing = "RUNNING", !.attempt = @ + 1,
                  !.error = "NONE", !.token = r.attempt + 1,
                  !.lease = LeaseTicks] \in Row
    BY <1>1, <1>2, LeaseEnds DEF Row
  <1>. QED
    BY <1>3, <1>4, <1>5, <1>6

(* A transition of a typed row to a status keeps the tables typed.         *)
LEMMA TransitionTyped ==
    ASSUME TablesOK, NEW c \in Cases, NEW r \in Row, NEW to \in Status,
           Transition(c, r, to), UNCHANGED artifact
    PROVE  TablesOK'
  <1>1. [r EXCEPT !.status = to, !.revision = @ + 1] \in Row
    BY WrittenRowsTyped
  <1>2. row' \in [Cases -> Row]
    BY <1>1 DEF Transition, TablesOK
  <1>3. r.revision + 1 \in Nat /\ row[c].status \in Status
    BY DEF TablesOK, Row
  <1>4. [revision |-> r.revision + 1, from |-> row[c].status, to |-> to]
            \in Event
    BY <1>3 DEF Event
  <1>5. trail' \in [Cases -> SUBSET Event]
    BY <1>4 DEF Transition, TablesOK
  <1>. QED
    BY <1>2, <1>5 DEF TablesOK

(* Every transaction keeps the tables typed.                               *)
LEMMA TransactionsTyped ==
    ASSUME TablesOK, NEW c \in Cases
    PROVE  /\ ClaimTx(c) => TablesOK'
           /\ ReleaseExpiredTx(c) => TablesOK'
           /\ ReleaseTx(c) => TablesOK'
           /\ FailTx(c) => TablesOK'
           /\ RenewTx(c) => TablesOK'
           /\ \A token \in Nat :
                row[c].status \in Running /\ PersistTx(c, token) => TablesOK'
  <1>1. row[c] \in Row
    BY DEF TablesOK
  <1>2. /\ "CREATED" \in Status /\ "FAILED" \in Status
        /\ "ANALYZING" \in Status /\ "AWAITING_APPROVAL" \in Status
    BY DEF Status, Running
  <1>3. /\ "PENDING" \in Processing /\ "FAILED" \in Processing
        /\ "SUCCEEDED" \in Processing
        /\ "LEASE_EXPIRED" \in ErrorCode /\ "WORKER_SHUTDOWN" \in ErrorCode
        /\ "PLANNING" \in ErrorCode /\ "NONE" \in ErrorCode
    BY DEF Processing, ErrorCode
  <1>4. \A p \in Processing, e \in ErrorCode : Released(c, p, e) \in Row
    BY <1>1, WrittenRowsTyped DEF Released
  <1>5. ClaimTx(c) => TablesOK'
    BY <1>1, <1>2, WrittenRowsTyped, TransitionTyped DEF ClaimTx
  <1>6. ReleaseExpiredTx(c) => TablesOK'
    BY <1>2, <1>3, <1>4, TransitionTyped DEF ReleaseExpiredTx
  <1>7. ReleaseTx(c) => TablesOK'
    BY <1>2, <1>3, <1>4, TransitionTyped DEF ReleaseTx
  <1>8. FailTx(c) => TablesOK'
    BY <1>2, <1>3, <1>4, TransitionTyped DEF FailTx
  <1>9. RenewTx(c) => TablesOK'
    <2>1. RenewTx(c) => row' = [row EXCEPT ![c] =
                 [row[c] EXCEPT !.revision = @ + 1, !.lease = LeaseTicks]]
      BY DEF RenewTx, TablesOK
    <2>. QED
      BY <1>1, <2>1, WrittenRowsTyped DEF RenewTx, TablesOK
  <1>10. ASSUME NEW token \in Nat, row[c].status \in Running,
                PersistTx(c, token)
         PROVE  TablesOK'
    <2>. DEFINE k == StageAt[row[c].status]
                r == Released(c, "SUCCEEDED", "NONE")
    <2>1. k \in 1..4
      BY <1>10 DEF Running, StageAt
    <2>2. r \in Row
      BY <1>3, <1>4
    <2>3. r.revision \in Nat
      BY <2>2 DEF Row
    <2>4. r.revision + (5 - k) \in Nat
      BY <2>1, <2>3
    <2>5. [r EXCEPT !.status = "AWAITING_APPROVAL",
                    !.revision = @ + (5 - k)] \in Row
      BY <1>2, <2>2, <2>4 DEF Row
    <2>6. \A i \in 1..5 : Stages[i] \in Status
      BY DEF Stages, Status, Running
    <2>7. \A i \in k..4 :
            [revision |-> r.revision + 1 + (i - k),
             from |-> Stages[i], to |-> Stages[i + 1]] \in Event
      <3>1. \A i \in k..4 : /\ r.revision + 1 + (i - k) \in Nat
                            /\ Stages[i] \in Status
                            /\ Stages[i + 1] \in Status
        BY <2>1, <2>3, <2>6
      <3>. QED
        BY <3>1 DEF Event
    <2>8. row' \in [Cases -> Row] /\ artifact' \in [Cases -> Nat]
      BY <1>10, <2>5 DEF PersistTx, TablesOK
    <2>9. trail' \in [Cases -> SUBSET Event]
      BY <1>10, <2>7 DEF PersistTx, TablesOK
    <2>. QED
      BY <2>8, <2>9 DEF TablesOK
  <1>. QED
    BY <1>5, <1>6, <1>7, <1>8, <1>9, <1>10

LEMMA NoTxTyped == TablesOK /\ NoTx => TablesOK'
  BY DEF NoTx, TablesOK

-----------------------------------------------------------------------------
(* Type correctness.  The claim a worker acts on must be a real one, which  *)
(* TypeOK does not say: HoldsClaim does.                                    *)

HoldsClaim ==
    \A w \in Workers :
        /\ pc[w] \in Holding <=> claim[w] # NoClaim
        /\ renewal[w] # "none" => pc[w] \in {"planning", "draining", "failing"}

TypeInv == TypeOK /\ HoldsClaim

(* The worker's own variables, typed.                                      *)
ProcessesOK ==
    /\ pc \in [Workers -> PC]
    /\ seen \in [Workers -> SUBSET Observation]
    /\ claim \in [Workers -> Observation \cup {NoClaim}]
    /\ renewal \in [Workers -> Renewal]
    /\ lost \in [Workers -> BOOLEAN]
    /\ stop \in [Workers -> BOOLEAN]
    /\ faults \in 0..MaxFaults

LEMMA TypeParts == TypeOK <=> TablesOK /\ ProcessesOK
  BY DEF TypeOK, TablesOK, ProcessesOK

(* An actor that passed the ownership check acts on a running row.          *)
LEMMA OwnsRunning ==
    ASSUME NEW args, NEW expired, Owns(args, expired)
    PROVE  row[args.case].status \in Running
  BY DEF Owns

(* A holder's claim names a case, so its transactions hit a real row.       *)
LEMMA HolderCase ==
    ASSUME TypeInv, NEW w \in Workers, pc[w] \in Holding
    PROVE  /\ claim[w] \in Observation
           /\ claim[w].case \in Cases
           /\ claim[w].revision \in Nat
           /\ claim[w].token \in Nat
  <1>1. claim[w] \in Observation
    BY DEF TypeInv, TypeOK, HoldsClaim
  <1>. QED
    BY <1>1 DEF Observation

LEMMA ObservationIsReal == \A k \in Observation : k # NoClaim
  <1>1. \A k \in Observation : k.case # NoCase
    BY ConstantsAssumption DEF Observation
  <1>. QED
    BY <1>1 DEF NoClaim

(* The rows a worker reads are observations.                               *)
LEMMA ObserveTyped ==
    ASSUME TablesOK, NEW rows \in SUBSET Cases
    PROVE  Observe(rows) \in SUBSET Observation
  <1>1. \A c \in rows : row[c].revision \in Nat /\ row[c].token \in Nat
    BY DEF TablesOK, Row
  <1>. QED
    BY <1>1 DEF Observe, Observation

(* Every step keeps the tables typed: each action applies one transaction,  *)
(* or none, to a case it knows.                                             *)
LEMMA TablesStep == TypeInv /\ [Next]_vars => TablesOK'
  <1>. SUFFICES ASSUME TypeInv, [Next]_vars
                PROVE  TablesOK'
    OBVIOUS
  <1>. USE TransactionsTyped, NoTxTyped
  <1>1. TablesOK /\ ProcessesOK
    BY TypeParts DEF TypeInv
  <1>2. ASSUME NEW w \in Workers, ClaimNext(w)
        PROVE  TablesOK'
    <2>1. \A s \in seen[w] : s.case \in Cases
      BY <1>1 DEF ProcessesOK, Observation
    <2>. QED
      BY <1>1, <1>2, <2>1
      DEF ClaimNext, Poll, Recover, ReadCandidates, TryClaim, Idle
  <1>3. ASSUME NEW w \in Workers, Finish(w)
        PROVE  TablesOK'
    <2>1. CASE Drained(w) \/ Abandon(w)
      BY <1>1, <2>1 DEF Drained, Abandon
    <2>2. CASE Persist(w)
      <3>1. claim[w].case \in Cases /\ claim[w].token \in Nat
        BY <2>2, HolderCase DEF Persist, Holding
      <3>. QED
        BY <1>1, <2>2, <3>1, OwnsRunning DEF Persist
    <2>3. CASE Release(w) \/ Block(w)
      <3>1. claim[w].case \in Cases
        BY <2>3, HolderCase DEF Release, Block, Holding
      <3>. QED
        BY <1>1, <2>3, <3>1 DEF Release, Block
    <2>. QED
      BY <1>3, <2>1, <2>2, <2>3 DEF Finish
  <1>4. ASSUME NEW w \in Workers, RenewalCommits(w)
        PROVE  TablesOK'
    <2>1. claim[w].case \in Cases
      BY <1>4, HolderCase DEF TypeInv, HoldsClaim, RenewalCommits, Holding
    <2>. QED
      BY <1>1, <1>4, <2>1 DEF RenewalCommits
  <1>5. ASSUME NEW w \in Workers,
               \/ SendRenewal(w) \/ RenewalReturns(w) \/ RenewalRefused(w)
               \/ RenewalThrows(w) \/ PlannerAnswers(w) \/ PlanFails(w)
               \/ Stop(w) \/ Exit(w) \/ Crash(w) \/ Restart(w)
        PROVE  TablesOK'
    BY <1>1, <1>5
    DEF SendRenewal, RenewalReturns, RenewalRefused, RenewalThrows, PlannerAnswers, PlanFails, Stop, Exit, Crash, Restart,
        NoTx, TablesOK
  <1>6. ASSUME Tick
        PROVE  TablesOK'
    <2>1. \A c \in Cases :
            [row[c] EXCEPT !.lease = IF @ = 0 THEN 0 ELSE @ - 1] \in Row
      <3>. TAKE c \in Cases
      <3>1. row[c] \in Row /\ row[c].lease \in Leases
        BY <1>1 DEF TablesOK, Row
      <3>2. (IF row[c].lease = 0 THEN 0 ELSE row[c].lease - 1) \in Leases
        BY <3>1, ConstantsAssumption DEF Leases
      <3>. QED
        BY <3>1, <3>2 DEF Row
    <2>. QED
      BY <1>1, <1>6, <2>1 DEF Tick, TablesOK
  <1>7. ASSUME UNCHANGED vars
        PROVE  TablesOK'
    BY <1>1, <1>7 DEF vars, TablesOK
  <1>. QED
    BY <1>2, <1>3, <1>4, <1>5, <1>6, <1>7 DEF Next, Renew

(* Every step keeps the processes typed, and a claim in memory exactly       *)
(* while runOnce is between its claim and its return.                        *)
LEMMA ProcessesStep == TypeInv /\ [Next]_vars => ProcessesOK' /\ HoldsClaim'
  <1>. SUFFICES ASSUME TypeInv, [Next]_vars
                PROVE  ProcessesOK' /\ HoldsClaim'
    OBVIOUS
  <1>1. TablesOK /\ ProcessesOK /\ HoldsClaim
    BY TypeParts DEF TypeInv
  <1>0. faults < MaxFaults => faults + 1 \in 0..MaxFaults
    BY <1>1, ConstantsAssumption DEF ProcessesOK
  <1>2. ASSUME NEW w \in Workers, ClaimNext(w)
        PROVE  ProcessesOK' /\ HoldsClaim'
    <2>1. CASE Poll(w) \/ ReadCandidates(w)
      <3>1. /\ ExpiredRows \in SUBSET Cases
            /\ Candidates \in SUBSET Cases
        BY DEF ExpiredRows, Candidates
      <3>2. /\ Observe(ExpiredRows) \in SUBSET Observation
            /\ Observe(Candidates) \in SUBSET Observation
        BY <1>1, <3>1, ObserveTyped
      <3>. QED
        BY <1>1, <2>1, <3>2
        DEF Poll, ReadCandidates, ProcessesOK, HoldsClaim, PC, Holding
    <2>2. CASE Recover(w) \/ Idle(w)
      BY <1>1, <2>2
      DEF Recover, Idle, ProcessesOK, HoldsClaim, PC, Holding
    <2>3. CASE TryClaim(w)
      <3>1. PICK s \in seen[w] :
              IF Claimable(s.case, s.revision)
              THEN /\ pc' = [pc EXCEPT ![w] = "planning"]
                   /\ seen' = [seen EXCEPT ![w] = {}]
                   /\ claim' = [claim EXCEPT ![w] =
                        [case |-> s.case, revision |-> s.revision + 1,
                         token |-> row[s.case].attempt + 1]]
              ELSE /\ seen' = [seen EXCEPT ![w] = @ \ {s}]
                   /\ UNCHANGED <<pc, claim>>
        BY <2>3 DEF TryClaim
      <3>2. s \in Observation
        BY <1>1 DEF ProcessesOK
      <3>3. CASE Claimable(s.case, s.revision)
        <4>. DEFINE k == [case |-> s.case, revision |-> s.revision + 1,
                          token |-> row[s.case].attempt + 1]
        <4>1. /\ s.case \in Cases /\ s.revision + 1 \in Nat
              /\ row[s.case].attempt + 1 \in Nat
          BY <1>1, <3>2 DEF Observation, TablesOK, Row
        <4>2. k \in Observation
          BY <4>1 DEF Observation
        <4>3. k # NoClaim
          BY <4>2, ObservationIsReal
        <4>4. claim' = [claim EXCEPT ![w] = k]
          BY <3>1, <3>3
        <4>. HIDE DEF k
        <4>. QED
          BY <1>1, <2>3, <3>1, <3>3, <4>2, <4>3, <4>4
          DEF TryClaim, ProcessesOK, HoldsClaim, PC, Holding
      <3>4. CASE ~Claimable(s.case, s.revision)
        BY <1>1, <2>3, <3>1, <3>4
        DEF TryClaim, ProcessesOK, HoldsClaim, PC, Holding
      <3>. QED
        BY <3>3, <3>4
    <2>. QED
      BY <1>2, <2>1, <2>2, <2>3 DEF ClaimNext
  <1>3. ASSUME NEW w \in Workers, Finish(w)
        PROVE  ProcessesOK' /\ HoldsClaim'
    <2>1. CASE Drained(w)
      BY <1>1, <2>1 DEF Drained, Goto, ProcessesOK, HoldsClaim, PC, Holding
    <2>2. CASE Persist(w)
      <3>1. Return(w) \/ Goto(w, "failing")
        BY <2>2 DEF Persist
      <3>2. /\ pc[w] = "persisting"
            /\ faults' \in 0..MaxFaults
            /\ UNCHANGED <<seen, renewal, stop>>
        BY <1>0, <1>1, <2>2 DEF Persist, ProcessesOK
      <3>. QED
        BY <1>1, <3>1, <3>2
        DEF Return, Goto, ProcessesOK, HoldsClaim, PC, Holding
    <2>3. CASE Abandon(w)
      BY <1>1, <2>3 DEF Abandon, Return, ProcessesOK, HoldsClaim, PC, Holding
    <2>4. CASE Release(w)
      BY <1>1, <2>4 DEF Release, Return, ProcessesOK, HoldsClaim, PC, Holding
    <2>5. CASE Block(w)
      BY <1>1, <2>5 DEF Block, Return, ProcessesOK, HoldsClaim, PC, Holding
    <2>. QED
      BY <1>3, <2>1, <2>2, <2>3, <2>4, <2>5 DEF Finish
  <1>4. ASSUME NEW w \in Workers, Renew(w) \/ RenewalThrows(w)
        PROVE  ProcessesOK' /\ HoldsClaim'
    <2>1. CASE RenewalCommits(w)
      BY <1>1, <2>1 DEF RenewalCommits, Renewal, ProcessesOK, HoldsClaim
    <2>2. CASE RenewalReturns(w)
      <3>. DEFINE k == [claim[w] EXCEPT !.revision = @ + 1]
      <3>1. claim[w] \in Observation
        BY <1>1, <2>2 DEF RenewalReturns, ProcessesOK, HoldsClaim, Holding
      <3>2. k \in Observation /\ k # NoClaim
        BY <3>1, ObservationIsReal DEF Observation
      <3>3. claim' = [claim EXCEPT ![w] = k] /\ claim[w] # NoClaim
        BY <1>1, <2>2, <3>1, ObservationIsReal DEF RenewalReturns, ProcessesOK
      <3>. HIDE DEF k
      <3>4. /\ claim' \in [Workers -> Observation \cup {NoClaim}]
            /\ \A v \in Workers : claim'[v] = NoClaim <=> claim[v] = NoClaim
        BY <1>1, <3>2, <3>3 DEF ProcessesOK
      <3>. QED
        BY <1>1, <2>2, <3>4 DEF RenewalReturns, Renewal, ProcessesOK, HoldsClaim
    <2>3. CASE RenewalRefused(w)
      BY <1>1, <2>3 DEF RenewalRefused, Renewal, ProcessesOK, HoldsClaim
    <2>4. CASE RenewalThrows(w)
      BY <1>0, <1>1, <2>4 DEF RenewalThrows, Renewal, ProcessesOK, HoldsClaim
    <2>. QED
      BY <1>4, <2>1, <2>2, <2>3, <2>4 DEF Renew
  <1>5. ASSUME NEW w \in Workers,
               SendRenewal(w) \/ PlannerAnswers(w) \/ PlanFails(w)
        PROVE  ProcessesOK' /\ HoldsClaim'
    <2>1. CASE SendRenewal(w)
      BY <1>1, <2>1 DEF SendRenewal, Renewal, ProcessesOK, HoldsClaim, PC, Holding
    <2>2. CASE PlannerAnswers(w)
      BY <1>1, <2>2 DEF PlannerAnswers, Goto, ProcessesOK, HoldsClaim, PC, Holding
    <2>3. CASE PlanFails(w)
      BY <1>1, <2>3 DEF PlanFails, Goto, ProcessesOK, HoldsClaim, PC, Holding
    <2>. QED
      BY <1>5, <2>1, <2>2, <2>3
  <1>6. ASSUME NEW w \in Workers, Stop(w) \/ Exit(w) \/ Crash(w) \/ Restart(w)
        PROVE  ProcessesOK' /\ HoldsClaim'
    <2>1. CASE Stop(w)
      BY <1>0, <1>1, <2>1 DEF Stop, worker, ProcessesOK, HoldsClaim, PC, Holding
    <2>2. CASE Exit(w)
      BY <1>0, <1>1, <2>2 DEF Exit, worker, ProcessesOK, HoldsClaim, PC, Holding
    <2>3. CASE Crash(w)
      BY <1>0, <1>1, <2>3 DEF Crash, worker, Renewal, ProcessesOK, HoldsClaim, PC, Holding
    <2>4. CASE Restart(w)
      BY <1>0, <1>1, <2>4 DEF Restart, worker, ProcessesOK, HoldsClaim, PC, Holding
    <2>. QED
      BY <1>6, <2>1, <2>2, <2>3, <2>4
  <1>7. ASSUME Tick \/ UNCHANGED vars
        PROVE  ProcessesOK' /\ HoldsClaim'
    BY <1>1, <1>7 DEF Tick, vars, worker, ProcessesOK, HoldsClaim
  <1>. QED
    BY <1>2, <1>3, <1>4, <1>5, <1>6, <1>7 DEF Next

LEMMA TypeInit == Init => TypeInv
  <1>. SUFFICES ASSUME Init
                PROVE  TypeInv
    OBVIOUS
  <1>1. TablesOK
    <2>1. /\ "CREATED" \in Status /\ "PENDING" \in Processing
          /\ "NONE" \in ErrorCode
      BY DEF Status, Processing, ErrorCode
    <2>2. [status |-> "CREATED", processing |-> "PENDING", attempt |-> 0,
           error |-> "NONE", revision |-> 1, token |-> NoToken,
           lease |-> 0] \in Row
      BY <2>1, LeaseEnds DEF Row, NoToken
    <2>. QED
      BY <2>2 DEF Init, TablesOK, NoToken
  <1>2. ProcessesOK /\ HoldsClaim
    BY ConstantsAssumption DEF Init, Renewal, ProcessesOK, HoldsClaim, PC, Holding
  <1>. QED
    BY <1>1, <1>2, TypeParts DEF TypeInv

LEMMA TypeInvStep == TypeInv /\ [Next]_vars => TypeInv'
  <1>1. TypeInv /\ [Next]_vars => TablesOK' /\ ProcessesOK' /\ HoldsClaim'
    BY TablesStep, ProcessesStep
  <1>2. (TablesOK /\ ProcessesOK)' => TypeOK'
    BY DEF TypeOK, TablesOK, ProcessesOK
  <1>. QED
    BY <1>1, <1>2 DEF TypeInv

(* The state of the tables and of every worker is well typed in every       *)
(* reachable state.                                                          *)
THEOREM TypeCorrect == Spec => []TypeOK
  <1>1. TypeInv => TypeOK
    BY DEF TypeInv
  <1>. QED
    BY <1>1, TypeInit, TypeInvStep, PTL DEF Spec

-----------------------------------------------------------------------------
(* The fence.  RowConsistent, PublishedByLastClaim and StaleClaimFenced are   *)
(* not inductive one by one: a row keeps its token equal to its attempt,     *)
(* so a fresh token differs from every claim in memory only if those are     *)
(* bounded by the attempt; a claim that is still the row's can be persisted  *)
(* as the last one only if it is the only one with that token; and a worker  *)
(* whose renewal committed is one revision behind until the reply arrives.   *)
(* FenceInv puts the parts together.                                         *)

RowOK(c) ==
    LET r == row[c] IN
    /\ r.processing = CASE r.status = "CREATED" -> "PENDING"
                         [] r.status \in Running -> "RUNNING"
                         [] r.status = "FAILED" -> "FAILED"
                         [] OTHER -> "SUCCEEDED"
    /\ r.token = IF r.processing = "RUNNING" THEN r.attempt ELSE NoToken
    /\ r.token = NoToken => r.lease = 0
    /\ r.status = "FAILED" => r.error # "NONE"
    /\ artifact[c] # NoToken <=> r.status = "AWAITING_APPROVAL"
    /\ artifact[c] # NoToken => artifact[c] = r.attempt
    /\ r.processing = "RUNNING" => r.attempt > 0

RowsOK == \A c \in Cases : RowOK(c)

\* The revision the claim of w will have once the reply under way is in.
Known(w) == claim[w].revision + (IF renewal[w] = "committed" THEN 1 ELSE 0)

ClaimOK(w) ==
    claim[w] # NoClaim =>
        LET k == claim[w]
            r == row[k.case]
        IN  /\ k.token \in 1..r.attempt
            /\ Known(w) <= r.revision
            /\ k.token # r.token => Known(w) < r.revision
            /\ ~lost[w] /\ k.token = r.token => Known(w) = r.revision

ClaimsOK == \A w \in Workers : ClaimOK(w)

OneHolder ==
    \A v, w \in Workers :
        /\ v # w /\ claim[v] # NoClaim /\ claim[w] # NoClaim
        /\ claim[v].case = claim[w].case
        => claim[v].token # claim[w].token

\* What a worker has read may be old, never newer than the row; a candidate
\* still at its row's revision is still waiting.
SeenOK(w) ==
    \A s \in seen[w] :
        /\ s.revision <= row[s.case].revision
        /\ pc[w] = "select" /\ s.revision = row[s.case].revision
              => row[s.case].status = "CREATED"

FenceInv ==
    /\ TypeInv
    /\ RowsOK
    /\ ClaimsOK
    /\ \A w \in Workers : SeenOK(w)
    /\ OneHolder

(* What the transactions do to the fields that FenceInv speaks of.          *)
OnlyCase(c) ==
    \A d \in Cases \ {c} : row'[d] = row[d] /\ artifact'[d] = artifact[d]

\* The claim of case c, if there was one, is over or another one begins.
EndsClaim(c) ==
    /\ OnlyCase(c)
    /\ row'[c].revision > row[c].revision
    /\ row'[c].attempt >= row[c].attempt
    /\ row'[c].token \notin 1..row[c].attempt

LEMMA ClaimEffect ==
    ASSUME TablesOK, NEW c \in Cases, ClaimTx(c)
    PROVE  /\ OnlyCase(c)
           /\ artifact' = artifact
           /\ row'[c].status = "ANALYZING"
           /\ row'[c].processing = "RUNNING"
           /\ row'[c].attempt = row[c].attempt + 1
           /\ row'[c].token = row[c].attempt + 1
           /\ row'[c].lease = LeaseTicks
           /\ row'[c].revision = row[c].revision + 1
  BY DEF TablesOK, Row, ClaimTx, Transition, OnlyCase

LEMMA ReleaseEffect ==
    ASSUME TablesOK, NEW c \in Cases, NEW p, NEW e, NEW to,
           Transition(c, Released(c, p, e), to), UNCHANGED artifact
    PROVE  /\ OnlyCase(c)
           /\ artifact' = artifact
           /\ row'[c].status = to
           /\ row'[c].processing = p
           /\ row'[c].error = e
           /\ row'[c].attempt = row[c].attempt
           /\ row'[c].token = NoToken
           /\ row'[c].lease = 0
           /\ row'[c].revision = row[c].revision + 1
  BY DEF TablesOK, Row, Transition, Released, OnlyCase

LEMMA RenewEffect ==
    ASSUME TablesOK, NEW c \in Cases, RenewTx(c)
    PROVE  /\ OnlyCase(c)
           /\ artifact' = artifact
           /\ row'[c].status = row[c].status
           /\ row'[c].processing = row[c].processing
           /\ row'[c].error = row[c].error
           /\ row'[c].attempt = row[c].attempt
           /\ row'[c].token = row[c].token
           /\ row'[c].lease = LeaseTicks
           /\ row'[c].revision = row[c].revision + 1
  BY DEF TablesOK, Row, RenewTx, OnlyCase

LEMMA PersistEffect ==
    ASSUME TablesOK, NEW c \in Cases, NEW token,
           row[c].status \in Running, PersistTx(c, token)
    PROVE  /\ OnlyCase(c)
           /\ artifact'[c] = token
           /\ row'[c].status = "AWAITING_APPROVAL"
           /\ row'[c].processing = "SUCCEEDED"
           /\ row'[c].attempt = row[c].attempt
           /\ row'[c].token = NoToken
           /\ row'[c].lease = 0
           /\ row'[c].revision > row[c].revision
           /\ row[c].status = "ANALYZING"
                => row'[c].revision = row[c].revision + 4
  <1>. DEFINE k == StageAt[row[c].status]
  <1>1. k \in 1..4 /\ (row[c].status = "ANALYZING" => k = 1)
    BY DEF Running, StageAt
  <1>2. row[c] \in Row /\ row[c].revision \in Nat
    BY DEF TablesOK, Row
  <1>3. row' = [row EXCEPT ![c] =
                  [Released(c, "SUCCEEDED", "NONE") EXCEPT
                     !.status = "AWAITING_APPROVAL",
                     !.revision = @ + (5 - k)]]
    BY DEF PersistTx
  <1>4. artifact' = [artifact EXCEPT ![c] = token]
    BY DEF PersistTx
  <1>. HIDE DEF k
  <1>5. row'[c].revision = row[c].revision + (5 - k)
    BY <1>2, <1>3 DEF TablesOK, Row, Released
  <1>. QED
    BY <1>1, <1>2, <1>3, <1>4, <1>5 DEF TablesOK, Row, Released, OnlyCase

(* The rows stay consistent under every transaction its guard admits.       *)
LEMMA OtherRowsOK ==
    ASSUME NEW c \in Cases, OnlyCase(c), RowsOK, RowOK(c)'
    PROVE  RowsOK'
  <1>1. \A d \in Cases \ {c} : RowOK(d)'
    BY DEF OnlyCase, RowOK, RowsOK
  <1>. QED
    BY <1>1 DEF RowsOK

LEMMA RowsStay ==
    ASSUME TablesOK, NEW c \in Cases, RowsOK
    PROVE  /\ artifact[c] = NoToken => (ClaimTx(c) => RowsOK')
           /\ row[c].status \in Running =>
                /\ ReleaseExpiredTx(c) \/ ReleaseTx(c) \/ FailTx(c) => RowsOK'
                /\ RenewTx(c) => RowsOK'
                /\ PersistTx(c, row[c].token) => RowsOK'
  <1>1. row[c].attempt \in Nat /\ artifact[c] \in Nat
    BY DEF TablesOK, Row
  <1>2. RowOK(c)
    BY DEF RowsOK
  <1>3. ASSUME artifact[c] = NoToken, ClaimTx(c)
        PROVE  RowsOK'
    <2>1. RowOK(c)'
      BY <1>1, <1>3, ClaimEffect DEF RowOK, Running, NoToken
    <2>. QED
      BY <1>3, <2>1, ClaimEffect, OtherRowsOK
  <1>4. ASSUME row[c].status \in Running,
               ReleaseExpiredTx(c) \/ ReleaseTx(c) \/ FailTx(c)
        PROVE  RowsOK'
    <2>1. /\ OnlyCase(c)
          /\ artifact' = artifact
          /\ \/ row'[c].status = "CREATED" /\ row'[c].processing = "PENDING"
             \/ /\ row'[c].status = "FAILED" /\ row'[c].processing = "FAILED"
                /\ row'[c].error = "PLANNING"
          /\ row'[c].attempt = row[c].attempt
          /\ row'[c].token = NoToken
          /\ row'[c].lease = 0
      BY <1>4, ReleaseEffect DEF ReleaseExpiredTx, ReleaseTx, FailTx
    <2>2. RowOK(c)'
      BY <1>1, <1>2, <1>4, <2>1 DEF RowOK, Running, NoToken
    <2>. QED
      BY <2>1, <2>2, OtherRowsOK
  <1>5. ASSUME row[c].status \in Running, RenewTx(c)
        PROVE  RowsOK'
    <2>1. RowOK(c)'
      BY <1>1, <1>2, <1>5, RenewEffect DEF RowOK, Running, NoToken
    <2>. QED
      BY <1>5, <2>1, RenewEffect, OtherRowsOK
  <1>6. ASSUME row[c].status \in Running, PersistTx(c, row[c].token)
        PROVE  RowsOK'
    <2>1. row[c].token = row[c].attempt /\ row[c].attempt > 0
      BY <1>2, <1>6 DEF RowOK, Running
    <2>2. RowOK(c)'
      BY <1>1, <1>6, <2>1, PersistEffect DEF RowOK, Running, NoToken
    <2>. QED
      BY <1>6, <2>2, PersistEffect, OtherRowsOK
  <1>. QED
    BY <1>3, <1>4, <1>5, <1>6

(* Which transaction a step applies: one whose guard its case satisfies,    *)
(* none, or the passing of time.                                             *)
TxStep(c) ==
    \/ artifact[c] = NoToken /\ row[c].token = NoToken /\ ClaimTx(c)
    \/ /\ row[c].status \in Running
       /\ \/ ReleaseExpiredTx(c) \/ ReleaseTx(c) \/ FailTx(c)
          \/ RenewTx(c)
          \/ PersistTx(c, row[c].token)

LEMMA StepApplies ==
    TypeInv /\ [Next]_vars => (\E c \in Cases : TxStep(c)) \/ NoTx \/ Tick
  <1>. SUFFICES ASSUME TypeInv, [Next]_vars
                PROVE  (\E c \in Cases : TxStep(c)) \/ NoTx \/ Tick
    OBVIOUS
  <1>1. ASSUME NEW w \in Workers, ClaimNext(w)
        PROVE  (\E c \in Cases : TxStep(c)) \/ NoTx
    <2>1. \A s \in seen[w] : s.case \in Cases
      BY DEF TypeInv, TypeOK, Observation
    <2>. QED
      BY <1>1, <2>1
      DEF ClaimNext, Poll, Recover, ReadCandidates, TryClaim, Idle, TxStep,
          Owns, Claimable
  <1>2. ASSUME NEW w \in Workers, Finish(w)
        PROVE  (\E c \in Cases : TxStep(c)) \/ NoTx
    <2>1. CASE Drained(w) \/ Abandon(w)
      BY <2>1 DEF Drained, Abandon
    <2>2. CASE Persist(w) \/ Release(w) \/ Block(w)
      <3>1. claim[w].case \in Cases
        BY <2>2, HolderCase DEF Persist, Release, Block, Holding
      <3>. QED
        BY <2>2, <3>1 DEF Persist, Release, Block, TxStep, Owns
    <2>. QED
      BY <1>2, <2>1, <2>2 DEF Finish
  <1>3. ASSUME NEW w \in Workers, RenewalCommits(w)
        PROVE  (\E c \in Cases : TxStep(c)) \/ NoTx
    <2>1. claim[w].case \in Cases
      BY <1>3, HolderCase DEF TypeInv, HoldsClaim, RenewalCommits, Holding
    <2>. QED
      BY <1>3, <2>1 DEF RenewalCommits, TxStep, Owns
  <1>4. ASSUME NEW w \in Workers,
               \/ SendRenewal(w) \/ RenewalReturns(w) \/ RenewalRefused(w)
               \/ RenewalThrows(w) \/ PlannerAnswers(w) \/ PlanFails(w)
               \/ Stop(w) \/ Exit(w) \/ Crash(w) \/ Restart(w)
        PROVE  NoTx
    BY <1>4
    DEF SendRenewal, RenewalReturns, RenewalRefused, RenewalThrows, PlannerAnswers, PlanFails, Stop, Exit, Crash, Restart
  <1>5. ASSUME UNCHANGED vars
        PROVE  NoTx
    BY <1>5 DEF vars, NoTx
  <1>. QED
    BY <1>1, <1>2, <1>3, <1>4, <1>5 DEF Next, Renew

(* Time changes no field but the lease, and ends no lease that is not live. *)
LEMMA TickEffect ==
    ASSUME TablesOK, Tick, NEW c \in Cases
    PROVE  /\ row'[c].status = row[c].status
           /\ row'[c].processing = row[c].processing
           /\ row'[c].attempt = row[c].attempt
           /\ row'[c].error = row[c].error
           /\ row'[c].revision = row[c].revision
           /\ row'[c].token = row[c].token
           /\ row[c].lease = 0 => row'[c].lease = 0
           /\ UNCHANGED <<artifact, worker, stop, faults>>
  BY DEF TablesOK, Row, Tick

LEMMA RowsStep == FenceInv /\ [Next]_vars => RowsOK'
  <1>. SUFFICES ASSUME FenceInv, [Next]_vars
                PROVE  RowsOK'
    OBVIOUS
  <1>1. TypeInv /\ TablesOK /\ RowsOK
    BY TypeParts DEF FenceInv, TypeInv
  <1>2. ASSUME NEW c \in Cases, TxStep(c)
        PROVE  RowsOK'
    BY <1>1, <1>2, RowsStay DEF TxStep
  <1>3. ASSUME NoTx
        PROVE  RowsOK'
    BY <1>1, <1>3 DEF NoTx, RowsOK, RowOK
  <1>4. ASSUME Tick
        PROVE  RowsOK'
    BY <1>1, <1>4, TickEffect DEF RowsOK, RowOK
  <1>. QED
    BY <1>1, <1>2, <1>3, <1>4, StepApplies

(* A row never goes back: its revision counts every change of status.       *)
Advances ==
    \A d \in Cases :
        /\ row'[d].revision >= row[d].revision
        /\ row'[d].revision = row[d].revision => row'[d].status = row[d].status

LEMMA RowsAdvance == TypeInv /\ [Next]_vars => Advances
  <1>. SUFFICES ASSUME TypeInv, [Next]_vars
                PROVE  Advances
    OBVIOUS
  <1>1. TablesOK
    BY TypeParts DEF TypeInv
  <1>2. \A d \in Cases : row[d].revision \in Nat /\ row'[d].revision \in Nat
    BY <1>1, TablesStep DEF TablesOK, Row
  <1>3. ASSUME NEW c \in Cases, TxStep(c)
        PROVE  Advances
    <2>1. OnlyCase(c) /\ row'[c].revision > row[c].revision
      BY <1>1, <1>2, <1>3, ClaimEffect, ReleaseEffect, RenewEffect, PersistEffect
      DEF TxStep, ReleaseExpiredTx, ReleaseTx, FailTx
    <2>. QED
      BY <1>2, <2>1 DEF OnlyCase, Advances
  <1>4. ASSUME NoTx
        PROVE  Advances
    BY <1>2, <1>4 DEF NoTx, Advances
  <1>5. ASSUME Tick
        PROVE  Advances
    BY <1>1, <1>2, <1>5, TickEffect DEF Advances
  <1>. QED
    BY <1>3, <1>4, <1>5, StepApplies

LEMMA SeenStays ==
    ASSUME TypeInv, TablesOK', Advances, NEW w \in Workers, SeenOK(w),
           seen'[w] \subseteq seen[w],
           pc'[w] = "select" => pc[w] = "select"
    PROVE  SeenOK(w)'
  <1>1. \A s \in seen[w] : s.case \in Cases /\ s.revision \in Nat
    BY DEF TypeInv, TypeOK, Observation
  <1>2. \A d \in Cases : row[d].revision \in Nat /\ row'[d].revision >= row[d].revision
    BY DEF TypeInv, TypeOK, Row, Advances
  <1>3. \A d \in Cases : row'[d].revision \in Nat
    BY DEF TablesOK, Row
  <1>. QED
    BY <1>1, <1>2, <1>3 DEF SeenOK, Advances

(* The observations stay old: the rows they were read from only advance.    *)
LEMMA SeenStep == FenceInv /\ [Next]_vars => \A w \in Workers : SeenOK(w)'
  <1>. SUFFICES ASSUME FenceInv, [Next]_vars, NEW w \in Workers
                PROVE  SeenOK(w)'
    OBVIOUS
  <1>1. /\ TypeInv /\ TablesOK' /\ Advances /\ SeenOK(w)
        /\ pc \in [Workers -> PC] /\ seen \in [Workers -> SUBSET Observation]
    BY TablesStep, RowsAdvance DEF FenceInv, TypeInv, TypeOK
  <1>2. ASSUME NEW v \in Workers, Poll(v) \/ ReadCandidates(v)
        PROVE  SeenOK(w)'
    <2>1. CASE v = w
      <3>1. row' = row
        BY <1>2 DEF Poll, ReadCandidates, NoTx
      <3>2. \A d \in Cases : row[d].revision \in Nat
        BY <1>1 DEF TypeInv, TypeOK, Row
      <3>3. \/ pc'[w] = "recover" /\ seen'[w] = Observe(ExpiredRows)
            \/ seen'[w] = Observe(Candidates)
        BY <1>1, <1>2, <2>1 DEF Poll, ReadCandidates
      <3>. QED
        BY <3>1, <3>2, <3>3 DEF SeenOK, Observe, ExpiredRows, Candidates
    <2>2. CASE v # w
      <3>1. seen'[w] = seen[w] /\ pc'[w] = pc[w]
        BY <1>1, <1>2, <2>2 DEF Poll, ReadCandidates
      <3>. QED
        BY <1>1, <3>1, SeenStays
    <2>. QED
      BY <2>1, <2>2
  <1>3. ASSUME NEW v \in Workers, Recover(v) \/ TryClaim(v) \/ Idle(v)
        PROVE  SeenOK(w)'
    <2>1. seen'[w] \subseteq seen[w] /\ (pc'[w] = "select" => pc[w] = "select")
      BY <1>1, <1>3 DEF Recover, TryClaim, Idle
    <2>. QED
      BY <1>1, <2>1, SeenStays
  <1>4. ASSUME NEW v \in Workers,
               \/ Finish(v)
               \/ SendRenewal(v) \/ Renew(v) \/ RenewalThrows(v)
               \/ PlannerAnswers(v) \/ PlanFails(v)
               \/ Stop(v) \/ Exit(v) \/ Crash(v) \/ Restart(v)
        PROVE  SeenOK(w)'
    <2>1. seen'[w] \subseteq seen[w] /\ (pc'[w] = "select" => pc[w] = "select")
      BY <1>1, <1>4
      DEF Finish, Drained, Persist, Abandon, Release, Block, Return, Goto,
          SendRenewal, Renew, RenewalCommits, RenewalReturns, RenewalRefused,
          RenewalThrows, PlannerAnswers, PlanFails, Stop, Exit, Crash, Restart, worker
    <2>. QED
      BY <1>1, <2>1, SeenStays
  <1>5. ASSUME Tick \/ UNCHANGED vars
        PROVE  SeenOK(w)'
    <2>1. seen' = seen /\ pc' = pc
      BY <1>5 DEF Tick, vars, worker
    <2>. QED
      BY <1>1, <2>1, SeenStays
  <1>. QED
    BY <1>2, <1>3, <1>4, <1>5 DEF Next, ClaimNext

\* A claim that stays is the one it was, and what its worker knows of the row
\* stays too, unless the worker takes the claim for lost.
Keeps(v) ==
    claim'[v] # NoClaim =>
        /\ claim[v] # NoClaim
        /\ claim'[v].case = claim[v].case /\ claim'[v].token = claim[v].token
        /\ Known(v)' <= Known(v) /\ Known(v)' \in Nat
        /\ lost'[v] \/ (Known(v)' = Known(v) /\ ~lost[v])

(* A step that gives no worker a new claim.                                 *)
Forgets == \A v \in Workers : Keeps(v)

\* The fields of the rows that a claim is compared with do not change.
SameFence ==
    \A d \in Cases : /\ row'[d].revision = row[d].revision
                     /\ row'[d].token = row[d].token
                     /\ row'[d].attempt = row[d].attempt

LEMMA ClaimTyped ==
    ASSUME TypeInv, NEW w \in Workers, claim[w] # NoClaim
    PROVE  /\ claim[w].case \in Cases /\ claim[w].revision \in Nat
           /\ claim[w].token \in Nat /\ Known(w) \in Nat
           /\ claim[w].revision <= Known(w)
  BY DEF TypeInv, TypeOK, Observation, Known

\* A claim in memory stays, and so does what is known of its renewal, unless
\* the worker takes the claim for lost.
LEMMA ClaimKept ==
    ASSUME TypeInv, NEW w \in Workers, claim'[w] = claim[w],
           \/ renewal'[w] = "committed" <=> renewal[w] = "committed"
           \/ renewal'[w] # "committed" /\ lost'[w],
           lost[w] \in BOOLEAN, lost'[w] \in BOOLEAN, lost[w] => lost'[w]
    PROVE  Keeps(w)
  <1>. SUFFICES ASSUME claim[w] # NoClaim
                PROVE  Keeps(w)
    BY DEF Keeps
  <1>1. claim[w].revision \in Nat
    BY ClaimTyped
  <1>. QED
    BY <1>1 DEF Keeps, Known

LEMMA RowTyped ==
    ASSUME TablesOK, NEW c \in Cases
    PROVE  /\ row[c].revision \in Nat /\ row[c].attempt \in Nat
           /\ row[c].token \in Nat
  BY DEF TablesOK, Row

LEMMA OneHolderStays == OneHolder /\ Forgets => OneHolder'
  BY DEF OneHolder, Forgets, Keeps

LEMMA ClaimsStayWithoutTx ==
    ASSUME FenceInv, Forgets, SameFence
    PROVE  ClaimsOK'
  <1>. SUFFICES ASSUME NEW w \in Workers, claim'[w] # NoClaim
                PROVE  ClaimOK(w)'
    BY DEF ClaimsOK, ClaimOK
  <1>1. Keeps(w) /\ claim[w] # NoClaim
    BY DEF Forgets, Keeps
  <1>2. /\ claim[w].case \in Cases /\ ClaimOK(w) /\ Known(w) \in Nat
        /\ row[claim[w].case].revision \in Nat
    BY <1>1, ClaimTyped, RowTyped, TypeParts DEF FenceInv, ClaimsOK, TypeInv
  <1>. QED
    BY <1>1, <1>2 DEF ClaimOK, SameFence, Keeps

(* When a claim ends, whoever still holds it in memory falls behind.        *)
LEMMA ClaimsStayWhenOneEnds ==
    ASSUME FenceInv, TablesOK', NEW c \in Cases, EndsClaim(c),
           NEW w \in Workers, Keeps(w)
    PROVE  ClaimOK(w)'
  <1>. SUFFICES ASSUME claim'[w] # NoClaim
                PROVE  ClaimOK(w)'
    BY DEF ClaimOK
  <1>1. ClaimOK(w) /\ TypeInv /\ TablesOK /\ claim[w] # NoClaim
    BY TypeParts DEF FenceInv, ClaimsOK, TypeInv, Keeps
  <1>2. /\ claim[w].case \in Cases /\ Known(w) \in Nat
        /\ claim[w].token \in Nat
    BY <1>1, ClaimTyped
  <1>3. /\ claim'[w].case = claim[w].case /\ claim'[w].token = claim[w].token
        /\ Known(w)' <= Known(w) /\ Known(w)' \in Nat
        /\ lost'[w] \/ (Known(w)' = Known(w) /\ ~lost[w])
    BY DEF Keeps
  <1>4. CASE claim[w].case = c
    <2>1. /\ row[c].revision \in Nat /\ row[c].attempt \in Nat
          /\ row'[c].revision \in Nat /\ row'[c].attempt \in Nat
      BY <1>1 DEF TablesOK, Row
    <2>2. /\ claim[w].token \in 1..row[c].attempt
          /\ Known(w) <= row[c].revision
      BY <1>1, <1>4 DEF ClaimOK
    <2>3. claim[w].token # row'[c].token
      BY <2>2 DEF EndsClaim
    <2>4. /\ claim[w].token \in 1..row'[c].attempt
          /\ Known(w)' < row'[c].revision
          /\ Known(w)' <= row'[c].revision
      BY <1>2, <1>3, <2>1, <2>2 DEF EndsClaim
    <2>. QED
      BY <1>3, <1>4, <2>3, <2>4 DEF ClaimOK
  <1>5. CASE claim[w].case # c
    <2>1. row'[claim[w].case] = row[claim[w].case]
      BY <1>2, <1>5 DEF EndsClaim, OnlyCase
    <2>2. row[claim[w].case].revision \in Nat
      BY <1>1, <1>2, RowTyped
    <2>. QED
      BY <1>1, <1>2, <1>3, <2>1, <2>2 DEF ClaimOK
  <1>. QED
    BY <1>4, <1>5

(* The transactions that end a claim, or begin one on a case that has none. *)
LEMMA TransactionsEndClaims ==
    ASSUME TablesOK, NEW c \in Cases
    PROVE  /\ ClaimTx(c) => EndsClaim(c)
           /\ ReleaseExpiredTx(c) => EndsClaim(c)
           /\ ReleaseTx(c) => EndsClaim(c)
           /\ FailTx(c) => EndsClaim(c)
           /\ \A token \in Nat :
                row[c].status \in Running /\ PersistTx(c, token) => EndsClaim(c)
  <1>1. row[c].revision \in Nat /\ row[c].attempt \in Nat
    BY RowTyped
  <1>2. ClaimTx(c) => EndsClaim(c)
    BY <1>1, ClaimEffect DEF EndsClaim
  <1>3. ReleaseExpiredTx(c) => EndsClaim(c)
    BY <1>1, ReleaseEffect DEF ReleaseExpiredTx, EndsClaim, NoToken
  <1>4. ReleaseTx(c) => EndsClaim(c)
    BY <1>1, ReleaseEffect DEF ReleaseTx, EndsClaim, NoToken
  <1>5. FailTx(c) => EndsClaim(c)
    BY <1>1, ReleaseEffect DEF FailTx, EndsClaim, NoToken
  <1>6. \A token \in Nat :
          row[c].status \in Running /\ PersistTx(c, token) => EndsClaim(c)
    BY <1>1, PersistEffect DEF EndsClaim, NoToken
  <1>. QED
    BY <1>2, <1>3, <1>4, <1>5, <1>6

(* A renewal moves the row's revision under the only claim with its token,   *)
(* whose worker will know when the reply arrives.                            *)
LEMMA ClaimsStayUnderRenewal ==
    ASSUME FenceInv, NEW u \in Workers, claim[u] # NoClaim,
           Owns(claim[u], FALSE), RenewTx(claim[u].case),
           renewal[u] = "sent", renewal'[u] = "committed",
           claim' = claim, lost' = lost,
           \A v \in Workers \ {u} : renewal'[v] = renewal[v]
    PROVE  ClaimsOK' /\ OneHolder'
  <1>. DEFINE c == claim[u].case
  <1>1. /\ TypeInv /\ TablesOK /\ OneHolder
        /\ \A w \in Workers : ClaimOK(w)
    BY TypeParts DEF FenceInv, TypeInv, ClaimsOK
  <1>2. /\ c \in Cases /\ claim[u].revision \in Nat /\ claim[u].token \in Nat
    BY <1>1, ClaimTyped
  <1>3. /\ row[c].revision = claim[u].revision /\ row[c].token = claim[u].token
    BY DEF Owns
  <1>4. /\ OnlyCase(c)
        /\ row'[c].revision = row[c].revision + 1
        /\ row'[c].token = row[c].token
        /\ row'[c].attempt = row[c].attempt
    BY <1>1, <1>2, RenewEffect
  <1>5. ClaimOK(u)'
    <2>1. claim[u].token \in 1..row[c].attempt
      BY <1>1 DEF ClaimOK
    <2>2. Known(u)' = row'[c].revision
      BY <1>2, <1>3, <1>4 DEF Known
    <2>3. row'[c].revision \in Nat
      BY <1>2, <1>3, <1>4
    <2>. QED
      BY <1>3, <1>4, <2>1, <2>2, <2>3 DEF ClaimOK
  <1>6. ASSUME NEW v \in Workers \ {u}
        PROVE  ClaimOK(v)'
    <2>. SUFFICES ASSUME claim[v] # NoClaim
                  PROVE  ClaimOK(v)'
      BY DEF ClaimOK
    <2>1. /\ claim[v].case \in Cases /\ Known(v) \in Nat
          /\ claim[v].token \in Nat /\ Known(v)' = Known(v)
      BY <1>1, ClaimTyped DEF Known
    <2>2. CASE claim[v].case = c
      <3>1. claim[v].token # row[c].token
        BY <1>1, <1>3, <2>2 DEF OneHolder
      <3>2. Known(v) < row[c].revision /\ claim[v].token \in 1..row[c].attempt
        BY <1>1, <2>2, <3>1 DEF ClaimOK
      <3>3. row[c].revision \in Nat
        BY <1>2, <1>3
      <3>4. Known(v)' < row'[c].revision /\ Known(v)' <= row'[c].revision
        BY <1>4, <2>1, <3>2, <3>3
      <3>. QED
        BY <1>4, <2>2, <3>1, <3>2, <3>4 DEF ClaimOK
    <2>3. CASE claim[v].case # c
      <3>1. row'[claim[v].case] = row[claim[v].case]
        BY <1>4, <2>1, <2>3 DEF OnlyCase
      <3>. QED
        BY <1>1, <2>1, <3>1 DEF ClaimOK
    <2>. QED
      BY <2>2, <2>3
  <1>7. OneHolder'
    BY <1>1 DEF OneHolder
  <1>. QED
    BY <1>5, <1>6, <1>7 DEF ClaimsOK

(* A fresh claim holds a token above every token its case ever had.          *)
LEMMA ClaimsStayUnderClaim ==
    ASSUME FenceInv, TablesOK', NEW w \in Workers, NEW s \in Observation,
           claim[w] = NoClaim, renewal[w] # "committed", renewal' = renewal,
           Claimable(s.case, s.revision), ClaimTx(s.case),
           claim' = [claim EXCEPT ![w] =
             [case |-> s.case, revision |-> s.revision + 1,
              token |-> row[s.case].attempt + 1]],
           lost' = lost
    PROVE  ClaimsOK' /\ OneHolder'
  <1>. DEFINE c == s.case
  <1>1. /\ TypeInv /\ TablesOK /\ OneHolder
        /\ \A v \in Workers : ClaimOK(v)
        /\ claim \in [Workers -> Observation \cup {NoClaim}]
    BY TypeParts DEF FenceInv, TypeInv, TypeOK, ClaimsOK
  <1>2. c \in Cases /\ s.revision \in Nat
    BY DEF Observation
  <1>3. /\ row[c].revision = s.revision
        /\ row[c].attempt \in Nat
        /\ row'[c].attempt = row[c].attempt + 1
        /\ row'[c].token = row[c].attempt + 1
        /\ row'[c].revision = row[c].revision + 1
    BY <1>1, <1>2, ClaimEffect, RowTyped DEF Claimable
  <1>4. /\ claim'[w].case = c /\ claim'[w].revision = s.revision + 1
        /\ claim'[w].token = row[c].attempt + 1
        /\ Known(w)' = s.revision + 1
    BY <1>1, <1>2 DEF Known
  <1>5. \A v \in Workers \ {w} : claim'[v] = claim[v] /\ Keeps(v)
    BY <1>1, ClaimKept DEF FenceInv, TypeInv, TypeOK
  <1>6. ClaimOK(w)'
    BY <1>2, <1>3, <1>4 DEF ClaimOK
  <1>7. \A v \in Workers \ {w} : ClaimOK(v)'
    <2>1. EndsClaim(c)
      BY <1>1, <1>2, TransactionsEndClaims
    <2>. QED
      BY <1>2, <1>5, <2>1, ClaimsStayWhenOneEnds
  <1>8. \A v \in Workers \ {w} :
          claim[v] # NoClaim /\ claim[v].case = c
             => claim[v].token # row[c].attempt + 1
    BY <1>1, <1>3 DEF ClaimOK
  <1>9. OneHolder'
    BY <1>1, <1>4, <1>5, <1>8 DEF OneHolder
  <1>. QED
    BY <1>6, <1>7, <1>9 DEF ClaimsOK

(* A claim that ends leaves the other claims, and the ones outdated by it,   *)
(* as the fence wants them.                                                  *)
LEMMA ClaimsStayWhenEnded ==
    ASSUME FenceInv, TablesOK', Forgets, NEW c \in Cases, EndsClaim(c)
    PROVE  ClaimsOK' /\ OneHolder'
  <1>1. \A v \in Workers : ClaimOK(v)'
    BY ClaimsStayWhenOneEnds DEF Forgets
  <1>2. OneHolder'
    BY OneHolderStays DEF FenceInv
  <1>. QED
    BY <1>1, <1>2 DEF ClaimsOK

(* A step without a transaction that forgets claims keeps the fence.         *)
LEMMA ClaimsStayQuiet ==
    ASSUME FenceInv, Forgets, SameFence
    PROVE  ClaimsOK' /\ OneHolder'
  BY ClaimsStayWithoutTx, OneHolderStays DEF FenceInv

LEMMA QuietTx == NoTx => SameFence
  BY DEF NoTx, SameFence

(* Every step keeps each claim at or behind its row, and tokens unshared.    *)
LEMMA ClaimsStep == FenceInv /\ [Next]_vars => ClaimsOK' /\ OneHolder'
  <1>. SUFFICES ASSUME FenceInv, [Next]_vars
                PROVE  ClaimsOK' /\ OneHolder'
    OBVIOUS
  <1>1. /\ TypeInv /\ TablesOK /\ HoldsClaim
        /\ pc \in [Workers -> PC]
        /\ seen \in [Workers -> SUBSET Observation]
        /\ claim \in [Workers -> Observation \cup {NoClaim}]
        /\ renewal \in [Workers -> Renewal]
        /\ lost \in [Workers -> BOOLEAN]
    BY TypeParts DEF FenceInv, TypeInv, TypeOK
  <1>2. TablesOK' /\ lost' \in [Workers -> BOOLEAN]
    BY <1>1, TablesStep, ProcessesStep DEF ProcessesOK
  <1>. USE ClaimKept
  <1>3. ASSUME NEW w \in Workers, Recover(w)
        PROVE  ClaimsOK' /\ OneHolder'
    <2>1. PICK s \in seen[w] :
            IF Owns(s, TRUE) THEN ReleaseExpiredTx(s.case) ELSE NoTx
      BY <1>3 DEF Recover
    <2>2. s.case \in Cases
      BY <1>1 DEF Observation
    <2>3. Forgets
      BY <1>1, <1>3 DEF Recover, Forgets
    <2>. QED
      BY <1>1, <1>2, <2>1, <2>2, <2>3, TransactionsEndClaims,
         ClaimsStayWhenEnded, ClaimsStayQuiet, QuietTx
  <1>4. ASSUME NEW w \in Workers, TryClaim(w)
        PROVE  ClaimsOK' /\ OneHolder'
    <2>1. PICK s \in seen[w] :
            IF Claimable(s.case, s.revision)
            THEN /\ ClaimTx(s.case)
                 /\ claim' = [claim EXCEPT ![w] =
                      [case |-> s.case, revision |-> s.revision + 1,
                       token |-> row[s.case].attempt + 1]]
            ELSE NoTx /\ claim' = claim
      BY <1>4 DEF TryClaim
    <2>2. /\ s \in Observation /\ claim[w] = NoClaim /\ lost' = lost
          /\ renewal' = renewal /\ renewal[w] # "committed"
      BY <1>1, <1>4 DEF TryClaim, HoldsClaim, Holding
    <2>3. CASE Claimable(s.case, s.revision)
      <3>. HIDE DEF FenceInv
      <3>. QED
        BY <1>2, <2>1, <2>2, <2>3, ClaimsStayUnderClaim
    <2>4. CASE ~Claimable(s.case, s.revision)
      <3>1. Forgets
        BY <1>1, <2>1, <2>2, <2>4 DEF Forgets
      <3>. QED
        BY <2>1, <2>4, <3>1, ClaimsStayQuiet, QuietTx
    <2>. QED
      BY <2>3, <2>4
  <1>5. ASSUME NEW w \in Workers, Persist(w) \/ Release(w) \/ Block(w)
        PROVE  ClaimsOK' /\ OneHolder'
    <2>1. claim[w].case \in Cases /\ claim[w].token \in Nat
      BY <1>1, <1>5, HolderCase DEF Persist, Release, Block, Holding
    <2>2. Return(w) \/ Goto(w, "failing")
      BY <1>5 DEF Persist, Release, Block
    <2>3. Forgets
      <3>1. renewal' = renewal
        BY <1>5 DEF Persist, Release, Block
      <3>2. claim'[w] = NoClaim \/ (claim' = claim /\ lost' = lost)
        BY <1>1, <2>2 DEF Return, Goto
      <3>3. \A v \in Workers \ {w} : claim'[v] = claim[v] /\ lost'[v] = lost[v]
        BY <1>1, <2>2 DEF Return, Goto
      <3>. QED
        BY <1>1, <1>2, <3>1, <3>2, <3>3 DEF Forgets, Keeps
    <2>4. \/ NoTx
          \/ ReleaseTx(claim[w].case) \/ FailTx(claim[w].case)
          \/ /\ row[claim[w].case].status \in Running
             /\ PersistTx(claim[w].case, claim[w].token)
      BY <1>5 DEF Persist, Release, Block, Owns
    <2>. QED
      BY <1>1, <1>2, <2>1, <2>3, <2>4, TransactionsEndClaims,
         ClaimsStayWhenEnded, ClaimsStayQuiet, QuietTx
  <1>6. ASSUME NEW w \in Workers, RenewalCommits(w)
        PROVE  ClaimsOK' /\ OneHolder'
    <2>1. claim[w] # NoClaim
      BY <1>1, <1>6 DEF HoldsClaim, RenewalCommits, Holding
    <2>2. /\ renewal[w] = "sent" /\ renewal'[w] = "committed"
          /\ claim' = claim /\ lost' = lost
          /\ \A v \in Workers \ {w} : renewal'[v] = renewal[v]
          /\ Owns(claim[w], FALSE) /\ RenewTx(claim[w].case)
      BY <1>1, <1>6 DEF RenewalCommits
    <2>. QED
      BY <2>1, <2>2, ClaimsStayUnderRenewal
  <1>9. ASSUME NEW w \in Workers, RenewalReturns(w)
        PROVE  ClaimsOK' /\ OneHolder'
    <2>1. claim[w] # NoClaim /\ claim[w] \in Observation /\ claim[w].revision \in Nat
      BY <1>1, <1>9, ClaimTyped DEF HoldsClaim, RenewalReturns, Holding
    <2>2. /\ claim'[w].case = claim[w].case /\ claim'[w].token = claim[w].token
          /\ claim'[w].revision = claim[w].revision + 1
          /\ renewal[w] = "committed" /\ renewal'[w] = "none" /\ lost' = lost
      BY <1>1, <1>9, <2>1 DEF RenewalReturns, Observation
    <2>3. Keeps(w)
      BY <1>1, <2>1, <2>2 DEF Keeps, Known
    <2>4. \A v \in Workers \ {w} : Keeps(v)
      BY <1>1, <1>2, <1>9 DEF RenewalReturns
    <2>5. Forgets
      BY <2>3, <2>4 DEF Forgets
    <2>. QED
      BY <1>9, <2>5, ClaimsStayQuiet, QuietTx DEF RenewalReturns
  <1>7. ASSUME NEW w \in Workers,
               \/ Poll(w) \/ ReadCandidates(w) \/ Idle(w)
               \/ Drained(w) \/ Abandon(w)
               \/ SendRenewal(w) \/ RenewalRefused(w) \/ RenewalThrows(w)
               \/ PlannerAnswers(w) \/ PlanFails(w)
               \/ Stop(w) \/ Exit(w) \/ Crash(w) \/ Restart(w)
        PROVE  ClaimsOK' /\ OneHolder'
    <2>1. NoTx
      BY <1>7
      DEF Poll, ReadCandidates, Idle, Drained, Abandon, SendRenewal,
          RenewalRefused, RenewalThrows, PlannerAnswers, PlanFails, Stop,
          Exit, Crash, Restart
    <2>2. \A v \in Workers : \/ claim'[v] = NoClaim
                              \/ /\ claim'[v] = claim[v]
                                 /\ lost[v] => lost'[v]
                                 /\ \/ renewal'[v] = "committed"
                                          <=> renewal[v] = "committed"
                                    \/ renewal'[v] # "committed" /\ lost'[v]
      BY <1>1, <1>7
      DEF Poll, ReadCandidates, Idle, Drained, Abandon, SendRenewal,
          RenewalRefused, RenewalThrows, PlannerAnswers, PlanFails, Stop,
          Exit, Crash, Restart, worker, Return, Goto
    <2>3. Forgets
      BY <1>1, <1>2, <2>2 DEF Forgets, Keeps
    <2>. QED
      BY <2>1, <2>3, ClaimsStayQuiet, QuietTx
  <1>8. ASSUME Tick \/ UNCHANGED vars
        PROVE  ClaimsOK' /\ OneHolder'
    <2>1. Forgets
      BY <1>1, <1>8 DEF Tick, vars, worker, Forgets
    <2>2. SameFence
      BY <1>1, <1>8, TickEffect DEF vars, SameFence
    <2>. QED
      BY <2>1, <2>2, ClaimsStayQuiet
  <1>. QED
    BY <1>3, <1>4, <1>5, <1>6, <1>7, <1>8, <1>9 DEF Next, Renew, ClaimNext, Finish

-----------------------------------------------------------------------------
(* The fence holds in every reachable state, and what follows from it.      *)

LEMMA FenceInit == Init => FenceInv
  <1>. SUFFICES ASSUME Init
                PROVE  FenceInv
    OBVIOUS
  <1>1. TypeInv
    BY TypeInit
  <1>2. RowsOK
    BY DEF Init, RowsOK, RowOK, NoToken, Running
  <1>3. ClaimsOK /\ OneHolder
    BY DEF Init, ClaimsOK, ClaimOK, OneHolder
  <1>4. \A w \in Workers : SeenOK(w)
    BY DEF Init, SeenOK
  <1>. QED
    BY <1>1, <1>2, <1>3, <1>4 DEF FenceInv

LEMMA FenceStep == FenceInv /\ [Next]_vars => FenceInv'
  <1>1. FenceInv => TypeInv
    BY DEF FenceInv
  <1>2. FenceInv /\ [Next]_vars
          => TypeInv' /\ RowsOK' /\ ClaimsOK' /\ OneHolder'
    BY <1>1, TypeInvStep, RowsStep, ClaimsStep
  <1>3. FenceInv /\ [Next]_vars => \A w \in Workers : SeenOK(w)'
    BY SeenStep
  <1>. QED
    BY <1>2, <1>3 DEF FenceInv

(* FenceInv is an invariant of the specification.                            *)
THEOREM FenceHolds == Spec => []FenceInv
  BY FenceInit, FenceStep, PTL DEF Spec

(* Row, lease and artifact agree after every transaction, for any number of  *)
(* cases and workers.                                                        *)
THEOREM RowsAreConsistent == Spec => []RowConsistent
  <1>1. FenceInv => RowConsistent
    BY DEF FenceInv, TypeInv, RowsOK, RowOK, RowConsistent
  <1>. QED
    BY <1>1, FenceHolds, PTL

(* No reclaimed worker's answer is ever stored.                              *)
THEOREM LastClaimPublishes == Spec => []PublishedByLastClaim
  <1>1. FenceInv => PublishedByLastClaim
    BY DEF FenceInv, RowsOK, RowOK, PublishedByLastClaim
  <1>. QED
    BY <1>1, FenceHolds, PTL

(* A worker that lost its claim is behind the row's revision, and no two     *)
(* workers hold one claim.                                                   *)
THEOREM StaleClaimsAreFenced == Spec => []StaleClaimFenced
  <1>1. FenceInv => StaleClaimFenced
    <2>. SUFFICES ASSUME FenceInv
                  PROVE  StaleClaimFenced
      OBVIOUS
    <2>1. ASSUME NEW w \in Workers, claim[w] # NoClaim
          PROVE  LET r == row[claim[w].case]
                 IN  /\ claim[w].revision <= r.revision
                     /\ claim[w].token # r.token => claim[w].revision < r.revision
      <3>1. TypeInv /\ TablesOK /\ ClaimOK(w)
        BY TypeParts DEF FenceInv, TypeInv, ClaimsOK
      <3>2. /\ claim[w].revision \in Nat /\ Known(w) \in Nat
            /\ claim[w].revision <= Known(w)
            /\ row[claim[w].case].revision \in Nat
        BY <2>1, <3>1, ClaimTyped, RowTyped
      <3>. QED
        BY <2>1, <3>1, <3>2 DEF ClaimOK
    <2>. QED
      BY <2>1 DEF FenceInv, OneHolder, StaleClaimFenced
  <1>. QED
    BY <1>1, FenceHolds, PTL

-----------------------------------------------------------------------------
(* What a step may never do.                                                 *)

\* The step of worker w is one of the holder of case c's current claim.
ByHolder(c, w) ==
    /\ claim[w] = [case |-> c, revision |-> row[c].revision,
                   token |-> row[c].token]
    /\ <<pc[w], claim[w], renewal[w]>>' # <<pc[w], claim[w], renewal[w]>>

(* What a step does to the tables: it ends an expired claim, claims a case   *)
(* that waits, acts for the holder of a running case, or touches no row.     *)
RowChange ==
    \/ \E c \in Cases : row[c].lease = 0 /\ ReleaseExpiredTx(c)
                        /\ row[c].status \in Running
    \/ \E c \in Cases : row[c].status = "CREATED" /\ ClaimTx(c)
                        /\ row[c].token = NoToken
    \/ \E c \in Cases, w \in Workers :
          /\ row[c].status \in Running /\ row[c].lease # 0
          /\ ReleaseTx(c) \/ FailTx(c) \/ RenewTx(c) \/ PersistTx(c, row[c].token)
          /\ ByHolder(c, w)
    \/ NoTx
    \/ Tick

LEMMA RowChanges == FenceInv /\ [Next]_vars => RowChange
  <1>. SUFFICES ASSUME FenceInv, [Next]_vars
                PROVE  RowChange
    OBVIOUS
  <1>1. /\ TypeInv /\ TablesOK /\ HoldsClaim
        /\ pc \in [Workers -> PC]
        /\ seen \in [Workers -> SUBSET Observation]
        /\ claim \in [Workers -> Observation \cup {NoClaim}]
        /\ renewal \in [Workers -> Renewal]
        /\ \A w \in Workers : SeenOK(w)
    BY TypeParts DEF FenceInv, TypeInv, TypeOK
  <1>2. \A w \in Workers :
          claim[w] # NoClaim /\ Owns(claim[w], FALSE) =>
            /\ claim[w].case \in Cases
            /\ row[claim[w].case].status \in Running
            /\ row[claim[w].case].lease # 0
            /\ claim[w] = [case |-> claim[w].case,
                           revision |-> row[claim[w].case].revision,
                           token |-> row[claim[w].case].token]
    BY <1>1 DEF Owns, Observation
  <1>3. ASSUME NEW w \in Workers, Recover(w)
        PROVE  RowChange
    <2>1. \A s \in seen[w] : s.case \in Cases
      BY <1>1 DEF Observation
    <2>. QED
      BY <1>3, <2>1 DEF Recover, Owns, RowChange
  <1>4. ASSUME NEW w \in Workers, TryClaim(w)
        PROVE  RowChange
    <2>1. \A s \in seen[w] :
            /\ s.case \in Cases
            /\ Claimable(s.case, s.revision) => /\ row[s.case].status = "CREATED"
                                               /\ row[s.case].token = NoToken
      BY <1>1, <1>4 DEF Observation, SeenOK, TryClaim, Claimable
    <2>. QED
      BY <1>4, <2>1 DEF TryClaim, RowChange
  <1>5. ASSUME NEW w \in Workers, Persist(w) \/ Release(w) \/ Block(w)
        PROVE  RowChange
    <2>1. claim[w] # NoClaim /\ pc[w] \in {"persisting", "failing"}
      BY <1>1, <1>5 DEF HoldsClaim, Holding, Persist, Release, Block
    <2>2. \/ NoTx
          \/ /\ Owns(claim[w], FALSE)
             /\ \/ ReleaseTx(claim[w].case) \/ FailTx(claim[w].case)
                \/ PersistTx(claim[w].case, claim[w].token)
      BY <1>5 DEF Persist, Release, Block
    <2>3. pc'[w] # pc[w]
      BY <1>1, <1>5 DEF Persist, Release, Block, Return, Goto
    <2>. QED
      BY <1>2, <2>1, <2>2, <2>3 DEF RowChange, ByHolder, Owns
  <1>6. ASSUME NEW w \in Workers, RenewalCommits(w)
        PROVE  RowChange
    <2>1. claim[w] # NoClaim
      BY <1>1, <1>6 DEF HoldsClaim, RenewalCommits, Holding
    <2>2. renewal'[w] # renewal[w]
      BY <1>1, <1>6 DEF RenewalCommits
    <2>. QED
      BY <1>2, <1>6, <2>1, <2>2 DEF RowChange, ByHolder, RenewalCommits
  <1>7. ASSUME NEW w \in Workers,
               \/ Poll(w) \/ ReadCandidates(w) \/ Idle(w)
               \/ Drained(w) \/ Abandon(w)
               \/ SendRenewal(w) \/ RenewalReturns(w) \/ RenewalRefused(w)
               \/ RenewalThrows(w) \/ PlannerAnswers(w) \/ PlanFails(w)
               \/ Stop(w) \/ Exit(w) \/ Crash(w) \/ Restart(w)
        PROVE  RowChange
    BY <1>7
    DEF Poll, ReadCandidates, Idle, Drained, Abandon, SendRenewal,
        RenewalReturns, RenewalRefused, RenewalThrows,
        PlannerAnswers, PlanFails, Stop, Exit, Crash, Restart, RowChange
  <1>8. ASSUME UNCHANGED vars
        PROVE  RowChange
    BY <1>8 DEF vars, NoTx, RowChange
  <1>. QED
    BY <1>3, <1>4, <1>5, <1>6, <1>7, <1>8
    DEF Next, Renew, ClaimNext, Finish, RowChange

(* A live lease is touched by its holder only, at the row's own revision.    *)
THEOREM LeasesAreHonoured == Spec => LeaseHonoured
  <1>1. ASSUME FenceInv, [Next]_vars, NEW c \in Cases,
               row[c].lease > 0, row'[c].revision # row[c].revision
        PROVE  \E w \in Workers : ByHolder(c, w)
    <2>1. TablesOK /\ RowOK(c) /\ row[c].lease \in Nat
      BY <1>1, TypeParts DEF FenceInv, TypeInv, RowsOK, TablesOK, Row, Leases
    <2>2. ~Tick /\ ~NoTx
      BY <1>1, <2>1, TickEffect DEF NoTx
    <2>3. ASSUME NEW d \in Cases, row[d].lease = 0, ReleaseExpiredTx(d)
          PROVE  FALSE
      BY <1>1, <2>1, <2>3, ReleaseEffect DEF ReleaseExpiredTx, OnlyCase
    <2>4. ASSUME NEW d \in Cases, ClaimTx(d), row[d].token = NoToken
          PROVE  FALSE
      BY <1>1, <2>1, <2>4, ClaimEffect DEF OnlyCase, RowOK
    <2>5. ASSUME NEW d \in Cases, NEW w \in Workers, ByHolder(d, w),
                 row[d].status \in Running,
                 \/ ReleaseTx(d) \/ FailTx(d) \/ RenewTx(d)
                 \/ PersistTx(d, row[d].token)
          PROVE  ByHolder(c, w)
      <3>1. OnlyCase(d)
        BY <2>1, <2>5, ReleaseEffect, RenewEffect, PersistEffect
        DEF ReleaseTx, FailTx
      <3>. QED
        BY <1>1, <2>5, <3>1 DEF OnlyCase
    <2>. QED
      BY <1>1, <2>2, <2>3, <2>4, <2>5, RowChanges DEF RowChange
  <1>2. FenceInv /\ [Next]_vars =>
          [\A c \in Cases :
             row[c].lease > 0 /\ row'[c].revision # row[c].revision =>
                \E w \in Workers :
                    /\ claim[w] = [case |-> c, revision |-> row[c].revision,
                                   token |-> row[c].token]
                    /\ <<pc[w], claim[w], renewal[w]>>'
                          # <<pc[w], claim[w], renewal[w]>>]_vars
    BY <1>1 DEF ByHolder
  <1>. QED
    BY <1>2, FenceHolds, PTL DEF Spec, LeaseHonoured

(* A worker that owns its case under a live lease, and lost no reply, is     *)
(* never refused: the claim it sends is the row's, the renewal in flight      *)
(* having been drained first.                                                *)
THEOREM LiveOwnersAreHeard == Spec => LiveOwnerIsHeard
  <1>1. ASSUME FenceInv, [Next]_vars, NEW w \in Workers,
               claim[w] # NoClaim, ~lost[w], faults' = faults,
               row[claim[w].case].token = claim[w].token,
               row[claim[w].case].lease > 0
        PROVE  /\ ~lost'[w]
               /\ claim'[w] = NoClaim => row'[claim[w].case].token = NoToken
    <2>. DEFINE c == claim[w].case
    <2>1. /\ TypeInv /\ TablesOK /\ HoldsClaim /\ RowsOK /\ ClaimOK(w)
          /\ pc \in [Workers -> PC] /\ faults \in Nat
          /\ claim \in [Workers -> Observation \cup {NoClaim}]
          /\ renewal \in [Workers -> Renewal] /\ lost \in [Workers -> BOOLEAN]
      BY <1>1, TypeParts DEF FenceInv, TypeInv, TypeOK, ClaimsOK
    <2>2. /\ c \in Cases /\ claim[w].revision \in Nat /\ claim[w] \in Observation
          /\ claim[w].token \in 1..row[c].attempt /\ row[c].attempt \in Nat
          /\ Known(w) = row[c].revision
      BY <1>1, <2>1, ClaimTyped, RowTyped DEF ClaimOK
    <2>3. row[c].status \in Running
      BY <2>1, <2>2, <1>1 DEF RowsOK, RowOK, NoToken, TablesOK, Row, Status, Processing
    <2>4. renewal[w] # "committed" => Owns(claim[w], FALSE)
      BY <1>1, <2>2, <2>3 DEF Owns, Known
    <2>5. ASSUME NEW v \in Workers, v # w, ~(claim'[w] = claim[w] /\ lost'[w] = lost[w])
          PROVE  ~(ClaimNext(v) \/ Finish(v) \/ SendRenewal(v) \/ Renew(v)
                   \/ RenewalThrows(v) \/ PlannerAnswers(v) \/ PlanFails(v)
                   \/ Stop(v) \/ Exit(v) \/ Crash(v) \/ Restart(v))
      BY <2>1, <2>5
      DEF ClaimNext, Poll, Recover, ReadCandidates, TryClaim, Idle, Finish,
          Drained, Persist, Abandon, Release, Block, Return, Goto, SendRenewal,
          Renew, RenewalCommits, RenewalReturns, RenewalRefused, RenewalThrows,
          PlannerAnswers, PlanFails, Stop, Exit, Crash, Restart, worker
    <2>6. CASE ClaimNext(w)
      <3>1. pc[w] \in Holding
        BY <1>1, <2>1 DEF HoldsClaim
      <3>. QED
        BY <2>6, <3>1 DEF ClaimNext, Poll, Recover, ReadCandidates, TryClaim,
                         Idle, Holding
    <2>7. CASE Persist(w)
      <3>1. renewal[w] = "none" /\ Owns(claim[w], FALSE)
        BY <2>1, <2>4, <2>7 DEF Persist, HoldsClaim, Renewal
      <3>2. CASE PersistTx(c, claim[w].token) /\ Return(w)
        BY <2>1, <2>2, <2>3, <3>2, PersistEffect DEF Return
      <3>3. CASE Goto(w, "failing")
        BY <1>1, <3>3 DEF Goto
      <3>. QED
        BY <2>7, <3>1, <3>2, <3>3 DEF Persist
    <2>8. CASE Release(w) \/ Block(w)
      <3>1. renewal[w] = "none" /\ Owns(claim[w], FALSE)
        BY <2>4, <2>8 DEF Release, Block
      <3>2. (ReleaseTx(c) \/ FailTx(c)) /\ Return(w)
        BY <2>8, <3>1 DEF Release, Block
      <3>. QED
        BY <2>1, <2>2, <3>2, ReleaseEffect DEF Return, ReleaseTx, FailTx
    <2>9. CASE RenewalReturns(w)
      <3>1. claim'[w].case = c /\ c # NoCase
        BY <2>1, <2>2, <2>9, ConstantsAssumption DEF RenewalReturns, Observation
      <3>. QED
        BY <1>1, <2>9, <3>1 DEF RenewalReturns, NoClaim
    <2>10. CASE \/ Drained(w) \/ SendRenewal(w) \/ RenewalCommits(w)
                \/ PlannerAnswers(w) \/ PlanFails(w) \/ Tick \/ UNCHANGED vars
      BY <1>1, <2>10
      DEF Drained, SendRenewal, RenewalCommits, PlannerAnswers, PlanFails,
          Goto, Tick, worker, vars
    <2>11. CASE Abandon(w) \/ RenewalRefused(w)
      BY <1>1, <2>4, <2>11 DEF Abandon, RenewalRefused
    <2>12. CASE RenewalThrows(w) \/ Stop(w) \/ Crash(w)
      BY <1>1, <2>1, <2>12 DEF RenewalThrows, Stop, Crash
    <2>13. CASE Exit(w) \/ Restart(w)
      BY <1>1, <2>1, <2>13 DEF Exit, Restart, HoldsClaim, Holding
    <2>. QED
      BY <1>1, <2>5, <2>6, <2>7, <2>8, <2>9, <2>10, <2>11, <2>12, <2>13
      DEF Next, Finish, Renew
  <1>2. FenceInv /\ [Next]_vars =>
          [\A w \in Workers :
             LET c == claim[w].case IN
             /\ claim[w] # NoClaim /\ ~lost[w] /\ faults' = faults
             /\ row[c].token = claim[w].token /\ row[c].lease > 0
             => /\ ~lost'[w]
                /\ claim'[w] = NoClaim => row'[c].token = NoToken]_vars
    BY <1>1
  <1>. QED
    BY <1>2, FenceHolds, PTL DEF Spec, LiveOwnerIsHeard

(* A failed or published case is never touched again by a worker.            *)
THEOREM SettledStays == Spec => SettledIsFinal
  <1>1. ASSUME FenceInv, [Next]_vars, NEW c \in Cases,
               row[c].status \in {"FAILED", "AWAITING_APPROVAL"}
        PROVE  row'[c] = row[c] /\ artifact'[c] = artifact[c]
    <2>1. TablesOK /\ RowOK(c) /\ row[c] \in Row
      BY <1>1, TypeParts DEF FenceInv, TypeInv, RowsOK, TablesOK
    <2>2. row[c].lease = 0
      BY <1>1, <2>1 DEF RowOK, Running
    <2>3. ASSUME Tick
          PROVE  row'[c] = row[c] /\ artifact'[c] = artifact[c]
      BY <2>1, <2>2, <2>3 DEF Tick, Row
    <2>4. ASSUME NEW d \in Cases,
                 \/ row[d].status = "CREATED" /\ ClaimTx(d)
                 \/ /\ row[d].status \in Running
                    /\ \/ ReleaseExpiredTx(d) \/ ReleaseTx(d) \/ FailTx(d)
                       \/ RenewTx(d) \/ PersistTx(d, row[d].token)
          PROVE  row'[c] = row[c] /\ artifact'[c] = artifact[c]
      <3>1. OnlyCase(d)
        BY <2>1, <2>4, ClaimEffect, ReleaseEffect, RenewEffect, PersistEffect
        DEF ReleaseExpiredTx, ReleaseTx, FailTx
      <3>2. d # c
        BY <1>1, <2>4 DEF Running
      <3>. QED
        BY <3>1, <3>2 DEF OnlyCase
    <2>. QED
      BY <1>1, <2>3, <2>4, RowChanges DEF RowChange, NoTx
  <1>2. FenceInv /\ [Next]_vars =>
          [\A c \in Cases :
             row[c].status \in {"FAILED", "AWAITING_APPROVAL"} =>
                row'[c] = row[c] /\ artifact'[c] = artifact[c]]_vars
    BY <1>1
  <1>. QED
    BY <1>2, FenceHolds, PTL DEF Spec, SettledIsFinal

-----------------------------------------------------------------------------
(* Planning is a leased job.                                                 *)

PromiseVars == <<ClaimsOf, Live, Outcome, artifact>>

\* What the promise reads of a row.
LiveRow(r) == r.status \in Running /\ r.lease > 0
OutcomeOf(r) == CASE r.status = "AWAITING_APPROVAL" -> "PUBLISHED"
                  [] r.status = "FAILED" -> "FAILED"
                  [] OTHER -> "OPEN"

LEMMA OutcomeOfStatus ==
    ASSUME NEW r
    PROVE  /\ r.status = "AWAITING_APPROVAL" => OutcomeOf(r) = "PUBLISHED"
           /\ r.status = "FAILED" => OutcomeOf(r) = "FAILED"
           /\ r.status \in Running \cup {"CREATED"} => OutcomeOf(r) = "OPEN"
  BY DEF OutcomeOf, Running

\* A transaction on one row changes the promise at that case only.
LEMMA Mapped ==
    ASSUME TablesOK, TablesOK', NEW c \in Cases, OnlyCase(c)
    PROVE  /\ ClaimsOf' = [ClaimsOf EXCEPT ![c] = row'[c].attempt]
           /\ Live' = [Live EXCEPT ![c] = LiveRow(row'[c])]
           /\ Outcome' = [Outcome EXCEPT ![c] = OutcomeOf(row'[c])]
           /\ artifact' = [artifact EXCEPT ![c] = artifact'[c]]
           /\ ClaimsOf[c] = row[c].attempt /\ Live[c] = LiveRow(row[c])
           /\ Outcome[c] = OutcomeOf(row[c])
  <1>1. \A d \in Cases \ {c} : row'[d] = row[d] /\ artifact'[d] = artifact[d]
    BY DEF OnlyCase
  <1>2. ClaimsOf' = [ClaimsOf EXCEPT ![c] = row'[c].attempt]
        /\ ClaimsOf[c] = row[c].attempt
    BY <1>1 DEF ClaimsOf
  <1>3. Live' = [Live EXCEPT ![c] = LiveRow(row'[c])] /\ Live[c] = LiveRow(row[c])
    BY <1>1 DEF Live, LiveRow
  <1>4. Outcome' = [Outcome EXCEPT ![c] = OutcomeOf(row'[c])]
        /\ Outcome[c] = OutcomeOf(row[c])
    BY <1>1 DEF Outcome, OutcomeOf
  <1>5. artifact' = [artifact EXCEPT ![c] = artifact'[c]]
    <2>1. artifact \in [Cases -> Nat] /\ artifact' = [d \in Cases |-> artifact'[d]]
      BY DEF TablesOK
    <2>. QED
      BY <1>1, <2>1
  <1>. QED
    BY <1>2, <1>3, <1>4, <1>5

\* What it leaves of the row that the promise reads, the promise keeps.
LEMMA MappedSame ==
    ASSUME TablesOK, TablesOK', NEW c \in Cases, OnlyCase(c)
    PROVE  /\ row'[c].attempt = row[c].attempt => ClaimsOf' = ClaimsOf
           /\ LiveRow(row'[c]) = LiveRow(row[c]) => Live' = Live
           /\ OutcomeOf(row'[c]) = OutcomeOf(row[c]) => Outcome' = Outcome
  <1>1. \A d \in Cases \ {c} : row'[d] = row[d]
    BY DEF OnlyCase
  <1>2. row'[c].attempt = row[c].attempt => ClaimsOf' = ClaimsOf
    BY <1>1 DEF ClaimsOf
  <1>3. LiveRow(row'[c]) = LiveRow(row[c]) => Live' = Live
    BY <1>1 DEF Live, LiveRow
  <1>4. ASSUME OutcomeOf(row'[c]) = OutcomeOf(row[c]) PROVE Outcome' = Outcome
    <2>1. \A d \in Cases : OutcomeOf(row'[d]) = OutcomeOf(row[d])
      BY <1>1, <1>4
    <2>2. Outcome = [d \in Cases |-> OutcomeOf(row[d])]
          /\ Outcome' = [d \in Cases |-> OutcomeOf(row'[d])]
      BY DEF Outcome, OutcomeOf
    <2>. QED
      BY <2>1, <2>2
  <1>. QED
    BY <1>2, <1>3, <1>4

LEMMA InitPromised == Init => Promise!Init
  <1>. SUFFICES ASSUME Init PROVE Promise!Init
    OBVIOUS
  <1>1. \A c \in Cases : row[c].status = "CREATED" /\ row[c].attempt = 0
    BY DEF Init
  <1>2. ClaimsOf = [c \in Cases |-> 0]
    BY <1>1 DEF ClaimsOf
  <1>3. Live = [c \in Cases |-> FALSE]
    BY <1>1 DEF Live, Running
  <1>4. Outcome = [c \in Cases |-> "OPEN"]
    BY <1>1 DEF Outcome
  <1>5. artifact = [c \in Cases |-> 0]
    BY DEF Init, NoToken
  <1>. QED
    BY <1>2, <1>3, <1>4, <1>5 DEF Promise!Init

LEMMA StepPromised ==
    ASSUME FenceInv, TablesOK', RowChange
    PROVE  [Promise!Next]_PromiseVars
  <1>0. /\ TablesOK /\ TablesOK' /\ \A c \in Cases : RowOK(c)
        /\ LeaseTicks \in Nat \ {0}
        /\ \A c \in Cases : row[c].lease \in Nat /\ row[c].attempt \in Nat
    BY TypeParts, ConstantsAssumption
    DEF FenceInv, TypeInv, RowsOK, TablesOK, Row, Leases
  <1>t. TablesOK /\ TablesOK'
    BY <1>0
  <1>1. ASSUME NEW c \in Cases, row[c].status \in Running,
               ReleaseExpiredTx(c) \/ ReleaseTx(c)
        PROVE  Promise!Lapse
    <2>1. /\ OnlyCase(c) /\ artifact' = artifact /\ row'[c].status = "CREATED"
          /\ row'[c].attempt = row[c].attempt
      BY <1>0, <1>1, ReleaseEffect DEF ReleaseExpiredTx, ReleaseTx
    <2>2. /\ ~LiveRow(row'[c])
          /\ OutcomeOf(row'[c]) = "OPEN" /\ OutcomeOf(row[c]) = "OPEN"
      BY <1>1, <2>1, OutcomeOfStatus DEF LiveRow, Running
    <2>3. UNCHANGED <<ClaimsOf, Outcome>>
      <3>1. ClaimsOf' = ClaimsOf
        BY <1>t, <2>1, MappedSame
      <3>2. Outcome' = Outcome
        BY <1>t, <2>1, <2>2, MappedSame
      <3>. QED
        BY <3>1, <3>2
    <2>4. Live' \in [Cases -> BOOLEAN] /\ \A d \in Cases : Live'[d] => Live[d]
      <3>1. Live \in [Cases -> BOOLEAN]
        BY DEF Live
      <3>2. LiveRow(row'[c]) = FALSE
        BY <2>2 DEF LiveRow
      <3>3. Live' = [Live EXCEPT ![c] = FALSE]
        BY <1>t, <2>1, <3>2, Mapped
      <3>. QED
        BY <3>1, <3>3
    <2>. QED
      BY <2>1, <2>3, <2>4 DEF Promise!Lapse
  <1>2. ASSUME NEW c \in Cases, row[c].status = "CREATED", ClaimTx(c)
        PROVE  Promise!Claim(c)
    <2>1. /\ OnlyCase(c) /\ artifact' = artifact /\ row'[c].status = "ANALYZING"
          /\ row'[c].attempt = row[c].attempt + 1 /\ row'[c].lease = LeaseTicks
      BY <1>0, <1>2, ClaimEffect
    <2>2. /\ LiveRow(row'[c]) /\ ~LiveRow(row[c])
          /\ OutcomeOf(row'[c]) = "OPEN" /\ OutcomeOf(row[c]) = "OPEN"
      BY <1>0, <1>2, <2>1, OutcomeOfStatus DEF LiveRow, Running
    <2>3. Outcome' = Outcome
      BY <1>t, <2>1, <2>2, MappedSame
    <2>4. Live' = [Live EXCEPT ![c] = TRUE] /\ ~Live[c] /\ Outcome[c] = "OPEN"
      <3>1. LiveRow(row'[c]) = TRUE /\ LiveRow(row[c]) = FALSE
        BY <2>2 DEF LiveRow
      <3>. QED
        BY <1>t, <2>1, <2>2, <3>1, Mapped
    <2>5. ClaimsOf' = [ClaimsOf EXCEPT ![c] = @ + 1]
      BY <1>t, <2>1, Mapped
    <2>. QED
      BY <2>1, <2>3, <2>4, <2>5 DEF Promise!Claim
  <1>3. ASSUME NEW c \in Cases, row[c].status \in Running, FailTx(c)
        PROVE  Promise!Fail(c)
    <2>1. /\ OnlyCase(c) /\ artifact' = artifact /\ row'[c].status = "FAILED"
          /\ row'[c].attempt = row[c].attempt
      BY <1>0, <1>3, ReleaseEffect DEF FailTx
    <2>2. /\ LiveRow(row'[c]) = FALSE
          /\ OutcomeOf(row'[c]) = "FAILED" /\ OutcomeOf(row[c]) = "OPEN"
      BY <1>3, <2>1, OutcomeOfStatus DEF LiveRow, Running
    <2>3. ClaimsOf' = ClaimsOf
      BY <1>t, <2>1, MappedSame
    <2>4. /\ Live' = [Live EXCEPT ![c] = FALSE]
          /\ Outcome' = [Outcome EXCEPT ![c] = "FAILED"] /\ Outcome[c] = "OPEN"
      BY <1>t, <2>1, <2>2, Mapped
    <2>. QED
      BY <2>1, <2>3, <2>4 DEF Promise!Fail
  <1>4. ASSUME NEW c \in Cases, row[c].status \in Running, row[c].lease # 0,
               PersistTx(c, row[c].token)
        PROVE  Promise!Publish(c)
    <2>1. /\ OnlyCase(c) /\ artifact'[c] = row[c].token
          /\ row'[c].status = "AWAITING_APPROVAL"
          /\ row'[c].attempt = row[c].attempt
      BY <1>0, <1>4, PersistEffect
    <2>2. row[c].token = row[c].attempt
      BY <1>0, <1>4 DEF RowOK, Running
    <2>3. /\ LiveRow(row'[c]) = FALSE /\ LiveRow(row[c])
          /\ OutcomeOf(row'[c]) = "PUBLISHED" /\ OutcomeOf(row[c]) = "OPEN"
      BY <1>0, <1>4, <2>1, OutcomeOfStatus DEF LiveRow, Running
    <2>4. ClaimsOf' = ClaimsOf
      BY <1>t, <2>1, MappedSame
    <2>5. /\ Live' = [Live EXCEPT ![c] = FALSE] /\ Live[c]
          /\ Outcome' = [Outcome EXCEPT ![c] = "PUBLISHED"] /\ Outcome[c] = "OPEN"
          /\ artifact' = [artifact EXCEPT ![c] = ClaimsOf[c]]
      <3>1. /\ Live' = [Live EXCEPT ![c] = LiveRow(row'[c])] /\ Live[c] = LiveRow(row[c])
            /\ Outcome' = [Outcome EXCEPT ![c] = OutcomeOf(row'[c])]
            /\ Outcome[c] = OutcomeOf(row[c])
            /\ artifact' = [artifact EXCEPT ![c] = artifact'[c]]
            /\ ClaimsOf[c] = row[c].attempt
        BY <1>t, <2>1, Mapped
      <3>. QED
        BY <2>1, <2>2, <2>3, <3>1
    <2>. QED
      BY <2>4, <2>5 DEF Promise!Publish
  <1>5. ASSUME NEW c \in Cases, row[c].status \in Running, row[c].lease # 0,
               RenewTx(c)
        PROVE  UNCHANGED PromiseVars
    <2>1. /\ OnlyCase(c) /\ artifact' = artifact /\ row'[c].status = row[c].status
          /\ row'[c].attempt = row[c].attempt /\ row'[c].lease = LeaseTicks
      BY <1>0, <1>5, RenewEffect
    <2>2. ClaimsOf' = ClaimsOf
      BY <1>t, <2>1, MappedSame
    <2>3. Live' = Live
      <3>1. LiveRow(row'[c]) = TRUE /\ LiveRow(row[c]) = TRUE
        BY <1>0, <1>5, <2>1 DEF LiveRow
      <3>. QED
        BY <1>t, <2>1, <3>1, MappedSame
    <2>4. Outcome' = Outcome
      <3>1. OutcomeOf(row'[c]) = OutcomeOf(row[c])
        BY <2>1 DEF OutcomeOf
      <3>. QED
        BY <1>t, <2>1, <3>1, MappedSame
    <2>. QED
      BY <2>1, <2>2, <2>3, <2>4 DEF PromiseVars
  <1>6. ASSUME Tick
        PROVE  Promise!Lapse
    <2>1. \A c \in Cases : /\ row'[c].status = row[c].status
                           /\ row'[c].attempt = row[c].attempt
                           /\ row[c].lease = 0 => row'[c].lease = 0
      BY <1>0, <1>6, TickEffect
    <2>2. UNCHANGED <<ClaimsOf, Outcome, artifact>>
      BY <1>6, <2>1 DEF ClaimsOf, Outcome, Tick
    <2>3. Live' \in [Cases -> BOOLEAN]
      BY DEF Live
    <2>4. ASSUME NEW c \in Cases, Live'[c]
          PROVE  Live[c]
      <3>1. row'[c].status \in Running /\ row'[c].lease > 0
        BY <2>4 DEF Live
      <3>2. row[c].status \in Running /\ row[c].lease # 0
        BY <2>1, <3>1
      <3>3. row[c].lease > 0
        BY <1>0, <3>2
      <3>. QED
        BY <3>2, <3>3 DEF Live
    <2>. QED
      BY <2>2, <2>3, <2>4 DEF Promise!Lapse
  <1>7. ASSUME NoTx
        PROVE  UNCHANGED PromiseVars
    BY <1>7 DEF NoTx, PromiseVars, ClaimsOf, Live, Outcome
  <1>. QED
    BY <1>1, <1>2, <1>3, <1>4, <1>5, <1>6, <1>7 DEF RowChange, Promise!Next

(* No claim is issued under a live lease and no lease is revived, only the   *)
(* last claim publishes and only while its lease lives, and failed and       *)
(* planned cases stay (claim, renew, persist, release and fail of            *)
(* decision-planning.service.js).                                            *)
THEOREM CaseIsLeasedJob == Spec => ImplementsLeasedJob
  <1>1. FenceInv /\ [Next]_vars => [Promise!Next]_PromiseVars
    BY RowChanges, TablesStep, StepPromised DEF FenceInv
  <1>. QED
    BY <1>1, InitPromised, FenceHolds, PTL
    DEF Spec, ImplementsLeasedJob, Promise!Spec, PromiseVars

-----------------------------------------------------------------------------
(* The events of a case are its history.                                     *)

UpTo(events, n) == {e \in events : e.revision <= n}

StatusAt(events, n) ==
    IF UpTo(events, n) = {} THEN "CREATED"
    ELSE (CHOOSE e \in UpTo(events, n) :
            \A f \in UpTo(events, n) : f.revision <= e.revision).to

\* What AuditTrail says of a case at a revision, in a status.
HistoryOK(events, revision, status) ==
    /\ \A e, f \in events : e.revision = f.revision => e = f
    /\ \A e \in events : /\ e.revision \in 2..revision
                         /\ e.from = StatusAt(events, e.revision - 1)
    /\ status = StatusAt(events, revision)
    /\ \A n \in 2..revision :
          (\A e \in events : e.revision # n) => StatusAt(events, n) = "ANALYZING"

LEMMA StatusOfLast ==
    ASSUME NEW events, NEW n \in Nat, NEW e \in events,
           \A f \in events : f.revision \in Nat,
           e.revision <= n,
           \A f \in events : f.revision <= n => f.revision <= e.revision,
           \A f \in events : f.revision = e.revision => f = e
    PROVE  StatusAt(events, n) = e.to
  <1>1. e \in UpTo(events, n) /\ UpTo(events, n) \subseteq events
    BY DEF UpTo
  <1>2. \A f \in UpTo(events, n) : f.revision <= e.revision
    BY DEF UpTo
  <1>. DEFINE last == CHOOSE d \in UpTo(events, n) :
                        \A f \in UpTo(events, n) : f.revision <= d.revision
  <1>3. /\ last \in UpTo(events, n)
        /\ \A f \in UpTo(events, n) : f.revision <= last.revision
    BY <1>1, <1>2
  <1>. HIDE DEF last
  <1>4. last.revision = e.revision
    BY <1>1, <1>2, <1>3
  <1>5. last = e
    BY <1>1, <1>3, <1>4
  <1>6. StatusAt(events, n) = last.to
    BY <1>1 DEF StatusAt, last
  <1>. QED
    BY <1>5, <1>6

LEMMA StatusOfSame ==
    ASSUME NEW events, NEW more, NEW n, NEW m, UpTo(events, n) = UpTo(more, m)
    PROVE  StatusAt(events, n) = StatusAt(more, m)
  BY DEF StatusAt

\* A transition extends the history by its event.
LEMMA HistoryGrows ==
    ASSUME NEW events, NEW revision \in Nat, revision >= 1, NEW from, NEW to,
           HistoryOK(events, revision, from)
    PROVE  LET e == [revision |-> revision + 1, from |-> from, to |-> to] IN
           e \notin events /\ HistoryOK(events \cup {e}, revision + 1, to)
  <1>. DEFINE e == [revision |-> revision + 1, from |-> from, to |-> to]
              more == events \cup {e}
  <1>1. e.revision = revision + 1 /\ e.from = from /\ e.to = to
    OBVIOUS
  <1>2. \A f \in events : f.revision \in 2..revision
    BY DEF HistoryOK
  <1>. HIDE DEF e
  <1>3. e \notin events /\ \A f \in more : f.revision \in 2..(revision + 1)
    BY <1>1, <1>2
  <1>4. \A f, g \in more : f.revision = g.revision => f = g
    BY <1>1, <1>2, <1>3 DEF HistoryOK
  <1>5. ASSUME NEW n \in 0..revision
        PROVE  StatusAt(more, n) = StatusAt(events, n)
    <2>1. UpTo(more, n) = UpTo(events, n)
      BY <1>1 DEF UpTo
    <2>. QED
      BY <2>1, StatusOfSame
  <1>6. StatusAt(more, revision + 1) = to
    <2>1. \A f \in more : f.revision = e.revision => f = e
      BY <1>4
    <2>. QED
      BY <1>1, <1>3, <2>1, StatusOfLast
  <1>7. ASSUME NEW f \in more
        PROVE  f.from = StatusAt(more, f.revision - 1)
    <2>1. CASE f = e
      BY <1>1, <1>5, <2>1 DEF HistoryOK
    <2>2. CASE f \in events
      <3>1. f.revision - 1 \in 0..revision
        BY <1>2, <2>2
      <3>. QED
        BY <1>5, <2>2, <3>1 DEF HistoryOK
    <2>. QED
      BY <2>1, <2>2
  <1>8. ASSUME NEW n \in 2..(revision + 1), \A f \in more : f.revision # n
        PROVE  StatusAt(more, n) = "ANALYZING"
    <2>1. n \in 2..revision
      BY <1>1, <1>8
    <2>2. \A f \in events : f.revision # n
      BY <1>8
    <2>3. StatusAt(events, n) = "ANALYZING"
      BY <2>1, <2>2 DEF HistoryOK
    <2>4. n \in 0..revision
      BY <2>1
    <2>. QED
      BY <1>5, <2>3, <2>4
  <1>. HIDE DEF more
  <1>9. HistoryOK(more, revision + 1, to)
    BY <1>3, <1>4, <1>6, <1>7, <1>8 DEF HistoryOK
  <1>. QED
    BY <1>3, <1>9 DEF more, e

\* A renewal leaves no event, and only happens while the case is ANALYZING.
LEMMA HistoryWaits ==
    ASSUME NEW events, NEW revision \in Nat, revision >= 1,
           HistoryOK(events, revision, "ANALYZING")
    PROVE  HistoryOK(events, revision + 1, "ANALYZING")
  <1>1. \A f \in events : f.revision \in 2..revision
    BY DEF HistoryOK
  <1>2. UpTo(events, revision + 1) = UpTo(events, revision)
    BY <1>1 DEF UpTo
  <1>3. StatusAt(events, revision + 1) = "ANALYZING"
    BY <1>2, StatusOfSame DEF HistoryOK
  <1>4. \A n \in 2..(revision + 1) : n \in 2..revision \/ n = revision + 1
    OBVIOUS
  <1>. QED
    BY <1>1, <1>3, <1>4 DEF HistoryOK

AuditOK(c) ==
    /\ row[c].status \in Running => row[c].status = "ANALYZING"
    /\ row[c].revision >= 1
    /\ HistoryOK(trail[c], row[c].revision, row[c].status)

AuditInv == FenceInv /\ \A c \in Cases : AuditOK(c)

\* A transition of a row whose revision was not touched before.
LEMMA TransitionAudited ==
    ASSUME TablesOK, NEW c \in Cases, AuditOK(c), NEW r \in Row, NEW to \in Status,
           r.revision = row[c].revision, Transition(c, r, to),
           to \in Running => to = "ANALYZING"
    PROVE  LET e == [revision |-> row[c].revision + 1, from |-> row[c].status,
                     to |-> to]
           IN  /\ AuditOK(c)'
               /\ trail'[c] \ trail[c] = {e}
               /\ \A d \in Cases \ {c} : trail'[d] = trail[d]
  <1>. DEFINE e == [revision |-> row[c].revision + 1, from |-> row[c].status,
                    to |-> to]
  <1>1. row[c].revision \in Nat
    BY DEF TablesOK, Row
  <1>2. /\ trail'[c] = trail[c] \cup {e}
        /\ \A d \in Cases \ {c} : trail'[d] = trail[d]
    BY DEF Transition, TablesOK
  <1>3. row'[c].status = to /\ row'[c].revision = row[c].revision + 1
    BY <1>1 DEF Transition, TablesOK, Row
  <1>4. e \notin trail[c] /\ HistoryOK(trail[c] \cup {e}, row[c].revision + 1, to)
    BY <1>1, HistoryGrows DEF AuditOK
  <1>. HIDE DEF e
  <1>5. AuditOK(c)'
    BY <1>1, <1>2, <1>3, <1>4 DEF AuditOK
  <1>. QED
    BY <1>2, <1>4, <1>5 DEF e

\* The four events of a recommendation, one per stage.
StageEvent(revision, i) ==
    [revision |-> revision + i, from |-> Stages[i], to |-> Stages[i + 1]]

LEMMA PersistAudited ==
    ASSUME TablesOK, NEW c \in Cases, AuditOK(c), NEW token,
           row[c].status \in Running, PersistTx(c, token)
    PROVE  /\ AuditOK(c)'
           /\ row[c].status = "ANALYZING"
           /\ trail'[c] \ trail[c] = {StageEvent(row[c].revision, i) : i \in 1..4}
           /\ \A d \in Cases \ {c} : trail'[d] = trail[d]
  <1>. DEFINE v == row[c].revision
              T == trail[c]
              E(i) == StageEvent(v, i)
  <1>0. row[c].status = "ANALYZING" /\ v \in Nat /\ v >= 1
    BY DEF AuditOK, TablesOK, Row
  <1>1. Released(c, "SUCCEEDED", "NONE").revision = v
    BY DEF Released, TablesOK, Row
  <1>2. StageAt[row[c].status] = 1
    BY <1>0 DEF StageAt
  <1>3. /\ row'[c].status = "AWAITING_APPROVAL"
        /\ row'[c].revision = v + 4
    BY <1>0, <1>1, <1>2 DEF PersistTx, TablesOK, Row, Released
  <1>4. trail' = [trail EXCEPT ![c] = @ \cup
             {[revision |-> v + 1 + (i - 1),
               from |-> Stages[i], to |-> Stages[i + 1]] : i \in 1..4}]
    BY <1>1, <1>2 DEF PersistTx
  <1>5. \A i \in 1..4 : v + 1 + (i - 1) = v + i
    BY <1>0
  <1>6. {[revision |-> v + 1 + (i - 1), from |-> Stages[i], to |-> Stages[i + 1]] :
             i \in 1..4} = {E(i) : i \in 1..4}
    BY <1>5 DEF StageEvent
  <1>7. /\ trail'[c] = T \cup {E(i) : i \in 1..4}
        /\ \A d \in Cases \ {c} : trail'[d] = trail[d]
    BY <1>4, <1>6 DEF TablesOK
  <1>8. {E(i) : i \in 1..4} = {E(1), E(2), E(3), E(4)}
    <2>1. 1..4 = {1, 2, 3, 4}
      OBVIOUS
    <2>. QED
      BY <2>1
  <1>9. /\ E(1) = [revision |-> v + 1, from |-> "ANALYZING", to |-> "GENERATING"]
        /\ E(2) = [revision |-> (v + 1) + 1, from |-> "GENERATING",
                   to |-> "VALIDATING"]
        /\ E(3) = [revision |-> (v + 2) + 1, from |-> "VALIDATING",
                   to |-> "EXPLAINING"]
        /\ E(4) = [revision |-> (v + 3) + 1, from |-> "EXPLAINING",
                   to |-> "AWAITING_APPROVAL"]
    <2>1. /\ Stages[1] = "ANALYZING" /\ Stages[2] = "GENERATING"
          /\ Stages[3] = "VALIDATING" /\ Stages[4] = "EXPLAINING"
          /\ Stages[5] = "AWAITING_APPROVAL"
      BY DEF Stages
    <2>2. (v + 1) + 1 = v + 2 /\ (v + 2) + 1 = v + 3 /\ (v + 3) + 1 = v + 4
      BY <1>0
    <2>. QED
      BY <2>1, <2>2 DEF StageEvent
  <1>10. HistoryOK(T, v, "ANALYZING")
    BY <1>0 DEF AuditOK
  <1>. HIDE DEF v, T, E
  <1>11. E(1) \notin T /\ HistoryOK(T \cup {E(1)}, v + 1, "GENERATING")
    BY <1>0, <1>9, <1>10, HistoryGrows
  <1>12. E(2) \notin T \cup {E(1)}
         /\ HistoryOK(T \cup {E(1)} \cup {E(2)}, v + 2, "VALIDATING")
    <2>1. v + 1 \in Nat /\ v + 1 >= 1 /\ (v + 1) + 1 = v + 2
      BY <1>0
    <2>. QED
      BY <1>9, <1>11, <2>1, HistoryGrows
  <1>13. E(3) \notin T \cup {E(1)} \cup {E(2)}
         /\ HistoryOK(T \cup {E(1)} \cup {E(2)} \cup {E(3)}, v + 3, "EXPLAINING")
    <2>1. v + 2 \in Nat /\ v + 2 >= 1 /\ (v + 2) + 1 = v + 3
      BY <1>0
    <2>. QED
      BY <1>9, <1>12, <2>1, HistoryGrows
  <1>14. E(4) \notin T \cup {E(1)} \cup {E(2)} \cup {E(3)}
         /\ HistoryOK(T \cup {E(1)} \cup {E(2)} \cup {E(3)} \cup {E(4)}, v + 4,
                      "AWAITING_APPROVAL")
    <2>1. v + 3 \in Nat /\ v + 3 >= 1 /\ (v + 3) + 1 = v + 4
      BY <1>0
    <2>. QED
      BY <1>9, <1>13, <2>1, HistoryGrows
  <1>15. T \cup {E(1)} \cup {E(2)} \cup {E(3)} \cup {E(4)} = trail'[c]
    BY <1>7, <1>8
  <1>16. AuditOK(c)'
    BY <1>0, <1>3, <1>14, <1>15 DEF AuditOK, Running
  <1>17. trail'[c] \ T = {E(i) : i \in 1..4}
    BY <1>7, <1>8, <1>11, <1>12, <1>13, <1>14
  <1>. QED
    BY <1>0, <1>7, <1>16, <1>17 DEF T, E, v

\* What a step leaves in the trail of the case it writes.
TrailChange(c) ==
    \/ /\ trail'[c] = trail[c]
       /\ row'[c].status = row[c].status
       /\ row'[c].revision = row[c].revision
    \/ /\ row[c].status \in {"CREATED", "FAILED"} /\ ClaimTx(c)
       /\ trail'[c] \ trail[c] = {[revision |-> row[c].revision + 1,
                                  from |-> row[c].status, to |-> "ANALYZING"]}
    \/ /\ row[c].status = "ANALYZING"
       /\ \/ row[c].lease = 0 /\ ReleaseExpiredTx(c)
          \/ row[c].lease # 0 /\ ReleaseTx(c)
       /\ trail'[c] \ trail[c] = {[revision |-> row[c].revision + 1,
                                  from |-> row[c].status, to |-> "CREATED"]}
    \/ /\ row[c].status = "ANALYZING" /\ row[c].lease # 0 /\ FailTx(c)
       /\ trail'[c] \ trail[c] = {[revision |-> row[c].revision + 1,
                                  from |-> row[c].status, to |-> "FAILED"]}
    \/ /\ row[c].status = "ANALYZING" /\ row[c].lease # 0 /\ RenewTx(c)
       /\ trail'[c] = trail[c]
    \/ /\ row[c].status = "ANALYZING" /\ row[c].lease # 0
       /\ PersistTx(c, row[c].token)
       /\ trail'[c] \ trail[c] = {StageEvent(row[c].revision, i) : i \in 1..4}

LEMMA ReleasedRow ==
    ASSUME TablesOK, NEW c \in Cases, NEW p \in Processing, NEW e \in ErrorCode
    PROVE  Released(c, p, e) \in Row /\ Released(c, p, e).revision = row[c].revision
  <1>1. row[c] \in Row
    BY DEF TablesOK
  <1>2. Released(c, p, e) \in Row
    BY <1>1, WrittenRowsTyped DEF Released
  <1>3. Released(c, p, e).revision = row[c].revision
    BY <1>1 DEF Released, Row
  <1>. QED
    BY <1>2, <1>3

LEMMA TrailChanges ==
    ASSUME AuditInv, RowChange, NEW c \in Cases
    PROVE  TrailChange(c) /\ AuditOK(c)'
  <1>0. /\ TablesOK /\ \A d \in Cases : AuditOK(d) /\ row[d] \in Row
        /\ \A d \in Cases : row[d].revision \in Nat
    BY TypeParts DEF AuditInv, FenceInv, TypeInv, TablesOK, Row
  <1>1. /\ "CREATED" \in Status /\ "FAILED" \in Status /\ "ANALYZING" \in Status
        /\ "PENDING" \in Processing /\ "FAILED" \in Processing
        /\ "LEASE_EXPIRED" \in ErrorCode /\ "WORKER_SHUTDOWN" \in ErrorCode
        /\ "PLANNING" \in ErrorCode
        /\ "CREATED" \notin Running /\ "FAILED" \notin Running
    BY DEF Status, Running, Processing, ErrorCode
  <1>2. ASSUME row'[c] = row[c], trail'[c] = trail[c]
        PROVE  TrailChange(c) /\ AuditOK(c)'
    BY <1>0, <1>2 DEF TrailChange, AuditOK
  <1>3. ASSUME NEW d \in Cases, d # c,
               row[d].status \in Running \/ row[d].status = "CREATED",
               \/ ReleaseExpiredTx(d) \/ ReleaseTx(d) \/ FailTx(d) \/ RenewTx(d)
               \/ ClaimTx(d) \/ PersistTx(d, row[d].token)
        PROVE  TrailChange(c) /\ AuditOK(c)'
    <2>1. row'[c] = row[c] /\ trail'[c] = trail[c]
      BY <1>0, <1>3
      DEF TablesOK, ReleaseExpiredTx, ReleaseTx, FailTx, RenewTx, ClaimTx,
          PersistTx, Transition
    <2>. QED
      BY <1>2, <2>1
  <1>4. ASSUME row[c].status \in Running, row[c].lease = 0, ReleaseExpiredTx(c)
        PROVE  TrailChange(c) /\ AuditOK(c)'
    <2>1. row[c].status = "ANALYZING"
      BY <1>0, <1>4 DEF AuditOK
    <2>2. Transition(c, Released(c, "PENDING", "LEASE_EXPIRED"), "CREATED")
      BY <1>4 DEF ReleaseExpiredTx
    <2>. QED
      BY <1>0, <1>1, <1>4, <2>1, <2>2, ReleasedRow, TransitionAudited
      DEF TrailChange
  <1>5. ASSUME row[c].status \in Running, row[c].lease # 0, ReleaseTx(c)
        PROVE  TrailChange(c) /\ AuditOK(c)'
    <2>1. row[c].status = "ANALYZING"
      BY <1>0, <1>5 DEF AuditOK
    <2>2. Transition(c, Released(c, "PENDING", "WORKER_SHUTDOWN"), "CREATED")
      BY <1>5 DEF ReleaseTx
    <2>. QED
      BY <1>0, <1>1, <1>5, <2>1, <2>2, ReleasedRow, TransitionAudited
      DEF TrailChange
  <1>6. ASSUME row[c].status \in Running, row[c].lease # 0, FailTx(c)
        PROVE  TrailChange(c) /\ AuditOK(c)'
    <2>1. row[c].status = "ANALYZING"
      BY <1>0, <1>6 DEF AuditOK
    <2>2. Transition(c, Released(c, "FAILED", "PLANNING"), "FAILED")
      BY <1>6 DEF FailTx
    <2>. QED
      BY <1>0, <1>1, <1>6, <2>1, <2>2, ReleasedRow, TransitionAudited
      DEF TrailChange
  <1>7. ASSUME row[c].status = "CREATED", ClaimTx(c)
        PROVE  TrailChange(c) /\ AuditOK(c)'
    <2>. DEFINE r == [row[c] EXCEPT !.processing = "RUNNING", !.attempt = @ + 1,
                                    !.error = "NONE",
                                    !.token = row[c].attempt + 1,
                                    !.lease = LeaseTicks]
    <2>1. r \in Row
      BY <1>0, WrittenRowsTyped
    <2>2. r.revision = row[c].revision
      BY <1>0 DEF Row
    <2>3. Transition(c, r, "ANALYZING")
      BY <1>7 DEF ClaimTx
    <2>. HIDE DEF r
    <2>4. AuditOK(c)' /\ trail'[c] \ trail[c] =
            {[revision |-> row[c].revision + 1, from |-> row[c].status,
              to |-> "ANALYZING"]}
      BY <1>0, <1>1, <2>1, <2>2, <2>3, TransitionAudited
    <2>. QED
      BY <1>7, <2>4 DEF TrailChange
  <1>8. ASSUME row[c].status \in Running, row[c].lease # 0, RenewTx(c)
        PROVE  TrailChange(c) /\ AuditOK(c)'
    <2>1. row[c].status = "ANALYZING"
      BY <1>0, <1>8 DEF AuditOK
    <2>2. /\ row'[c].status = row[c].status
          /\ row'[c].revision = row[c].revision + 1
      BY <1>0, <1>8, RenewEffect
    <2>3. trail' = trail
      BY <1>8 DEF RenewTx
    <2>4. AuditOK(c)'
      BY <1>0, <2>1, <2>2, <2>3, HistoryWaits DEF AuditOK
    <2>. QED
      BY <1>8, <2>1, <2>3, <2>4 DEF TrailChange
  <1>9. ASSUME row[c].status \in Running, row[c].lease # 0, PersistTx(c, row[c].token)
        PROVE  TrailChange(c) /\ AuditOK(c)'
    BY <1>0, <1>9, PersistAudited DEF TrailChange
  <1>10. ASSUME Tick
         PROVE  TrailChange(c) /\ AuditOK(c)'
    <2>1. /\ row'[c].status = row[c].status /\ row'[c].revision = row[c].revision
          /\ trail' = trail
      BY <1>0, <1>10, TickEffect DEF Tick
    <2>. QED
      BY <1>0, <2>1 DEF TrailChange, AuditOK
  <1>11. ASSUME NoTx
         PROVE  TrailChange(c) /\ AuditOK(c)'
    BY <1>2, <1>11 DEF NoTx
  <1>. QED
    BY <1>3, <1>4, <1>5, <1>6, <1>7, <1>8, <1>9, <1>10, <1>11 DEF RowChange

LEMMA AuditInit == Init => AuditInv
  <1>. SUFFICES ASSUME Init PROVE AuditInv
    OBVIOUS
  <1>1. StatusAt({}, 1) = "CREATED"
    BY DEF StatusAt, UpTo
  <1>2. HistoryOK({}, 1, "CREATED")
    BY <1>1 DEF HistoryOK
  <1>3. \A c \in Cases : AuditOK(c)
    BY <1>2 DEF Init, AuditOK, Running
  <1>. QED
    BY <1>3, FenceInit DEF AuditInv

LEMMA AuditHolds == Spec => []AuditInv
  <1>1. AuditInv /\ [Next]_vars => AuditInv'
    <2>. SUFFICES ASSUME AuditInv, [Next]_vars PROVE AuditInv'
      OBVIOUS
    <2>1. FenceInv' /\ RowChange
      BY FenceStep, RowChanges DEF AuditInv
    <2>2. \A c \in Cases : AuditOK(c)'
      BY <2>1, TrailChanges
    <2>. QED
      BY <2>1, <2>2 DEF AuditInv
  <1>. QED
    BY <1>1, AuditInit, PTL DEF Spec

(* The events of a case are a complete history of its status: one event per  *)
(* revision, each starting where the one before it ended, and revisions      *)
(* without an event are renewals (appendDecisionCaseEvent in transition()).  *)
THEOREM EventsAreHistory == Spec => []AuditTrail
  <1>1. AuditInv => AuditTrail
    BY DEF AuditInv, AuditOK, HistoryOK, StatusAt, UpTo, AuditTrail
  <1>. QED
    BY <1>1, AuditHolds, PTL

(* One event, and the four of a persistence, take the revisions in turn.     *)
LEMMA OneRevision ==
    ASSUME NEW n \in Nat, NEW e, e.revision = n + 1
    PROVE  {d.revision : d \in {e}} = n + 1 .. n + 1
  <1>1. {d.revision : d \in {e}} = {n + 1}
    OBVIOUS
  <1>2. n + 1 .. n + 1 = {n + 1}
    OBVIOUS
  <1>. QED
    BY <1>1, <1>2

LEMMA FourRevisions ==
    ASSUME NEW n \in Nat
    PROVE  {e.revision : e \in {StageEvent(n, i) : i \in 1..4}} = n + 1 .. n + 4
  <1>1. \A i \in 1..4 : StageEvent(n, i).revision = n + i
    BY DEF StageEvent
  <1>2. {e.revision : e \in {StageEvent(n, i) : i \in 1..4}} = {n + i : i \in 1..4}
    BY <1>1
  <1>3. ASSUME NEW m \in n + 1 .. n + 4
        PROVE  m \in {n + i : i \in 1..4}
    <2>1. m - n \in 1..4 /\ m = n + (m - n)
      OBVIOUS
    <2>. QED
      BY <2>1
  <1>4. \A i \in 1..4 : n + i \in n + 1 .. n + 4
    OBVIOUS
  <1>5. {n + i : i \in 1..4} = n + 1 .. n + 4
    BY <1>3, <1>4
  <1>. QED
    BY <1>2, <1>5

(* The database trigger, written apart from the service, accepts every       *)
(* transaction of the service (decision_case_processing_guard).              *)
THEOREM TriggerAccepts == Spec => TriggerNeverFires
  <1>1. ASSUME AuditInv, [Next]_vars, NEW c \in Cases,
               row'[c].revision # row[c].revision
        PROVE  /\ GuardAccepts(row[c], row'[c], trail'[c] \ trail[c])
               /\ row'[c].status = "AWAITING_APPROVAL" => artifact'[c] # NoToken
    <2>0. /\ TablesOK /\ RowOK(c) /\ RowOK(c)' /\ TrailChange(c)
          /\ LeaseTicks \in Nat \ {0} /\ row[c].revision \in Nat
          /\ row[c].lease \in 0..LeaseTicks /\ row[c].attempt \in Nat
      <3>1. FenceInv' /\ FenceInv
        BY <1>1, FenceStep DEF AuditInv
      <3>2. TablesOK /\ RowOK(c) /\ RowOK(c)'
        BY <3>1, TypeParts DEF FenceInv, RowsOK, TypeInv
      <3>3. TrailChange(c)
        BY <1>1, <3>1, RowChanges, TrailChanges
      <3>. QED
        BY <3>2, <3>3, ConstantsAssumption DEF TablesOK, Row, Leases
    <2>1. row'[c].status = "AWAITING_APPROVAL" => artifact'[c] # NoToken
      BY <2>0 DEF RowOK
    <2>2. row[c].status = "ANALYZING" => row[c].processing = "RUNNING"
      BY <2>0 DEF RowOK, Running
    <2>. DEFINE old == row[c]
                new == row'[c]
                added == trail'[c] \ trail[c]
    <2>3. CASE row[c].status \in {"CREATED", "FAILED"} /\ ClaimTx(c)
                 /\ added = {[revision |-> row[c].revision + 1,
                             from |-> row[c].status, to |-> "ANALYZING"]}
      <3>1. /\ new.attempt = old.attempt + 1 /\ new.lease = LeaseTicks
            /\ new.revision = old.revision + 1
        BY <2>0, <2>3, ClaimEffect
      <3>2. \A e \in added : GuardEdge(e.from, e.to)
        BY <2>3 DEF GuardEdge
      <3>3. /\ added # {} /\ old.status \in {"CREATED", "FAILED"}
            /\ old.revision \in Nat /\ LeaseTicks > 0
        <4>1. added # {}
          BY <2>3
        <4>2. old.status \in {"CREATED", "FAILED"}
          BY <2>3
        <4>3. old.revision \in Nat /\ LeaseTicks > 0
          BY <2>0
        <4>. QED
          BY <4>1, <4>2, <4>3
      <3>5. {e.revision : e \in added} = old.revision + 1 .. new.revision
        <4>. DEFINE e == [revision |-> row[c].revision + 1,
                          from |-> row[c].status, to |-> "ANALYZING"]
        <4>1. e.revision = row[c].revision + 1 /\ added = {e}
          BY <2>3
        <4>. HIDE DEF e
        <4>. QED
          BY <2>0, <3>1, <4>1, OneRevision
      <3>. HIDE DEF old, new, added
      <3>4. GuardAccepts(old, new, added)
        BY <3>1, <3>2, <3>3, <3>5 DEF GuardAccepts
      <3>. QED
        BY <2>1, <3>4 DEF old, new, added
    <2>4. CASE /\ row[c].status = "ANALYZING"
               /\ \/ row[c].lease = 0 /\ ReleaseExpiredTx(c)
                  \/ row[c].lease # 0 /\ ReleaseTx(c)
               /\ added = {[revision |-> row[c].revision + 1,
                           from |-> row[c].status, to |-> "CREATED"]}
      <3>1. /\ new.attempt = old.attempt /\ new.status = "CREATED"
            /\ new.processing = "PENDING"
            /\ new.revision = old.revision + 1
            /\ old.lease = 0 \/ new.error = "WORKER_SHUTDOWN"
        BY <2>0, <2>4, ReleaseEffect DEF ReleaseExpiredTx, ReleaseTx
      <3>2. \A e \in added : GuardEdge(e.from, e.to)
        BY <2>4 DEF GuardEdge, Running
      <3>3. added # {} /\ old.status = "ANALYZING" /\ old.processing = "RUNNING"
            /\ old.revision \in Nat
        BY <2>0, <2>2, <2>4
      <3>5. {e.revision : e \in added} = old.revision + 1 .. new.revision
        <4>. DEFINE e == [revision |-> row[c].revision + 1,
                          from |-> row[c].status, to |-> "CREATED"]
        <4>1. e.revision = row[c].revision + 1 /\ added = {e}
          BY <2>4
        <4>. HIDE DEF e
        <4>. QED
          BY <2>0, <3>1, <4>1, OneRevision
      <3>. HIDE DEF old, new, added
      <3>4. GuardAccepts(old, new, added)
        BY <3>1, <3>2, <3>3, <3>5 DEF GuardAccepts
      <3>. QED
        BY <2>1, <3>4 DEF old, new, added
    <2>5. CASE /\ row[c].status = "ANALYZING" /\ row[c].lease # 0 /\ FailTx(c)
               /\ added = {[revision |-> row[c].revision + 1,
                           from |-> row[c].status, to |-> "FAILED"]}
      <3>1. /\ new.attempt = old.attempt /\ new.status = "FAILED"
            /\ new.processing = "FAILED"
            /\ new.revision = old.revision + 1
        BY <2>0, <2>5, ReleaseEffect DEF FailTx
      <3>2. \A e \in added : GuardEdge(e.from, e.to)
        BY <2>5 DEF GuardEdge, Running
      <3>3. added # {} /\ old.status = "ANALYZING" /\ old.processing = "RUNNING"
            /\ old.revision \in Nat /\ old.lease > 0
        <4>1. added # {}
          BY <2>5
        <4>2. old.status = "ANALYZING" /\ old.processing = "RUNNING"
          BY <2>2, <2>5
        <4>3. row[c].lease # 0
          BY <2>5
        <4>4. old.revision \in Nat /\ old.lease > 0
          BY <2>0, <4>3
        <4>. QED
          BY <4>1, <4>2, <4>4
      <3>5. {e.revision : e \in added} = old.revision + 1 .. new.revision
        <4>. DEFINE e == [revision |-> row[c].revision + 1,
                          from |-> row[c].status, to |-> "FAILED"]
        <4>1. e.revision = row[c].revision + 1 /\ added = {e}
          BY <2>5
        <4>. HIDE DEF e
        <4>. QED
          BY <2>0, <3>1, <4>1, OneRevision
      <3>. HIDE DEF old, new, added
      <3>4. GuardAccepts(old, new, added)
        BY <3>1, <3>2, <3>3, <3>5 DEF GuardAccepts
      <3>. QED
        BY <2>1, <3>4 DEF old, new, added
    <2>6. CASE /\ row[c].status = "ANALYZING" /\ row[c].lease # 0 /\ RenewTx(c)
               /\ trail'[c] = trail[c]
      <3>1. /\ new.attempt = old.attempt /\ new.status = "ANALYZING"
            /\ new.processing = "RUNNING" /\ new.token = old.token
            /\ new.lease = LeaseTicks
            /\ new.revision = old.revision + 1
        BY <2>0, <2>2, <2>6, RenewEffect
      <3>2. added = {}
        BY <2>6
      <3>3. /\ old.status = "ANALYZING"
            /\ old.revision \in Nat /\ old.lease > 0 /\ LeaseTicks >= old.lease
        BY <2>0, <2>6
      <3>. HIDE DEF old, new, added
      <3>4. GuardAccepts(old, new, added)
        BY <3>1, <3>2, <3>3 DEF GuardAccepts
      <3>. QED
        BY <2>1, <3>4 DEF old, new, added
    <2>7. CASE /\ row[c].status = "ANALYZING" /\ row[c].lease # 0
               /\ PersistTx(c, row[c].token)
               /\ added = {StageEvent(row[c].revision, i) : i \in 1..4}
      <3>1. /\ new.attempt = old.attempt /\ new.status = "AWAITING_APPROVAL"
            /\ new.processing = "SUCCEEDED"
            /\ new.revision > old.revision
        BY <2>0, <2>7, PersistEffect DEF Running
      <3>2. \A e \in added : GuardEdge(e.from, e.to)
        BY <2>7 DEF GuardEdge, StageEvent
      <3>3. StageEvent(row[c].revision, 1) \in added
        BY <2>7
      <3>4. added # {} /\ old.status = "ANALYZING" /\ old.processing = "RUNNING"
            /\ old.revision \in Nat /\ new.revision \in Nat /\ old.lease > 0
        <4>1. row'[c].revision \in Nat
          <5>1. FenceInv'
            BY <1>1, FenceStep DEF AuditInv
          <5>2. TypeOK'
            BY <5>1 DEF FenceInv, TypeInv
          <5>3. TypeOK' => TablesOK'
            BY TypeParts, PTL
          <5>. QED
            BY <5>2, <5>3 DEF TablesOK, Row
        <4>. QED
          BY <2>0, <2>2, <2>7, <3>3, <4>1
      <3>6. {e.revision : e \in added} = old.revision + 1 .. new.revision
        <4>1. new.revision = row[c].revision + 4
          BY <2>0, <2>7, PersistEffect DEF Running
        <4>. QED
          BY <2>0, <2>7, <4>1, FourRevisions
      <3>. HIDE DEF old, new, added
      <3>5. GuardAccepts(old, new, added)
        BY <3>1, <3>2, <3>4, <3>6 DEF GuardAccepts
      <3>. QED
        BY <2>1, <3>5 DEF old, new, added
    <2>. QED
      BY <1>1, <2>0, <2>3, <2>4, <2>5, <2>6, <2>7 DEF TrailChange
  <1>2. AuditInv /\ [Next]_vars =>
          [\A c \in Cases :
             row'[c].revision # row[c].revision =>
                /\ GuardAccepts(row[c], row'[c], trail'[c] \ trail[c])
                /\ row'[c].status = "AWAITING_APPROVAL" => artifact'[c] # NoToken]_vars
    BY <1>1
  <1>. QED
    BY <1>2, AuditHolds, PTL DEF Spec, TriggerNeverFires
=============================================================================
