---------------------------- MODULE DecisionCase ----------------------------
(***************************************************************************)
(* The lease-fenced planning of decision cases: the rows of decision_cases *)
(* with their artifacts and events, and the worker processes that claim,   *)
(* plan, renew, persist, fail and release them.                            *)
(*                                                                         *)
(* Source: backend/src/decision-worker/decision-case-worker.js (runOnce),  *)
(* backend/src/services/decision-case-lifecycle.service.js and             *)
(* backend/src/services/decision-planning.service.js.  Each transaction    *)
(* holds the row lock from its SELECT ... FOR UPDATE to its commit, so it   *)
(* is one atomic step; a process and the database interleave freely        *)
(* between the steps, with arguments captured earlier.                     *)
(*                                                                         *)
(* Time is relative: row.lease counts the clock ticks left before          *)
(* lease_expires_at, and 0 is "lease_expires_at <= clock_timestamp()".      *)
(***************************************************************************)
EXTENDS Naturals, FiniteSets

CONSTANTS
    Cases,         \* decision case identifiers
    Workers,       \* worker processes
    NoCase,        \* the case of a worker that has claimed nothing
    LeaseTicks,    \* leaseMs, in clock ticks
    MaxAttempts,   \* bound: claims per case
    MaxRevision,   \* bound: renewals stop at this revision
    MaxFaults      \* bound: crashes, stop signals and lost replies, in all

ASSUME ConstantsAssumption ==
    /\ NoCase \notin Cases
    /\ LeaseTicks \in Nat \ {0}
    /\ MaxAttempts \in Nat
    /\ MaxRevision \in Nat
    /\ MaxFaults \in Nat

VARIABLES
    row,       \* decision_cases
    artifact,  \* decision_recommendation_artifacts: the claim that produced it
    trail,     \* decision_case_events after CASE_CREATED
    pc,        \* where each worker is in runOnce
    seen,      \* the rows the worker's last findMany returned
    claim,     \* the worker's in-memory claim
    renewal,   \* how far the worker's heartbeat transaction in flight is
    lost,      \* leaseLost
    stop,      \* the process's abort signal
    faults     \* faults so far

vars == <<row, artifact, trail, pc, seen, claim, renewal, lost, stop, faults>>
worker == <<pc, seen, claim, renewal, lost>>

-----------------------------------------------------------------------------
(* A claim's token is randomUUID(), never issued before.  The claim count  *)
(* of the case is such a value, and 0 stands for NULL.                     *)
NoToken == 0

Running == {"ANALYZING", "GENERATING", "VALIDATING", "EXPLAINING"}

\* The stages persistDecisionRecommendation walks through, in order.
StageAt == [ANALYZING |-> 1, GENERATING |-> 2, VALIDATING |-> 3,
            EXPLAINING |-> 4, AWAITING_APPROVAL |-> 5]
Stages == <<"ANALYZING", "GENERATING", "VALIDATING", "EXPLAINING",
            "AWAITING_APPROVAL">>

Status == {"CREATED", "FAILED", "AWAITING_APPROVAL"} \cup Running

Processing == {"PENDING", "RUNNING", "SUCCEEDED", "FAILED"}
\* "PLANNING" stands for the four codes of recordDecisionPlanningFailure.
ErrorCode == {"NONE", "LEASE_EXPIRED", "WORKER_SHUTDOWN", "PLANNING"}
Leases == 0..LeaseTicks

Row == [status: Status,
        processing: Processing,
        attempt: Nat,
        error: ErrorCode,
        revision: Nat, token: Nat, lease: Leases]

Event == [revision: Nat, from: Status, to: Status]
Observation == [case: Cases, revision: Nat, token: Nat]

NoClaim == [case |-> NoCase, revision |-> 0, token |-> NoToken]

\* A heartbeat is on its way, or it has committed and its reply is pending.
Renewal == {"none", "sent", "committed"}

\* Program points of a worker that holds a claim in memory.
Holding == {"planning", "draining", "persisting", "failing"}
PC == {"poll", "recover", "select", "down"} \cup Holding

-----------------------------------------------------------------------------
Init ==
    /\ row = [c \in Cases |->
                [status |-> "CREATED", processing |-> "PENDING", attempt |-> 0,
                 error |-> "NONE", revision |-> 1, token |-> NoToken,
                 lease |-> 0]]
    /\ artifact = [c \in Cases |-> NoToken]
    /\ trail = [c \in Cases |-> {}]
    /\ pc = [w \in Workers |-> "poll"]
    /\ seen = [w \in Workers |-> {}]
    /\ claim = [w \in Workers |-> NoClaim]
    /\ renewal = [w \in Workers |-> "none"]
    /\ lost = [w \in Workers |-> FALSE]
    /\ stop = [w \in Workers |-> FALSE]
    /\ faults = 0

-----------------------------------------------------------------------------
(* The transactions of decision-planning.service.js.                       *)
(*                                                                         *)
(* Operators whose comment starts with "Mutant" are wrong on purpose: they *)
(* replace the definition after them to show that a property detects it.   *)

\* Mutant: neither the revision, the token nor the lease is compared.
OwnsUnfenced(args, expired) == row[args.case].status \in Running

\* Mutant: the lease is not compared with the clock.
OwnsIgnoringLease(args, expired) ==
    LET r == row[args.case] IN
    r.revision = args.revision /\ r.token = args.token /\ r.status \in Running

\* check(row, args, at, expired): the caller's revision and token against
\* the locked row, and the lease against the database clock.
Owns(args, expired) ==
    LET r == row[args.case] IN
    /\ r.revision = args.revision
    /\ r.token = args.token
    /\ r.status \in Running
    /\ expired = (r.lease = 0)

\* Mutant: the revision is not incremented.
TransitionSameRevision(c, r, to) ==
    /\ row' = [row EXCEPT ![c] = [r EXCEPT !.status = to]]
    /\ trail' = [trail EXCEPT ![c] =
                   @ \cup {[revision |-> r.revision + 1,
                            from |-> row[c].status, to |-> to]}]

\* transition(): the new row one revision on, and its event.
Transition(c, r, to) ==
    /\ row' = [row EXCEPT ![c] = [r EXCEPT !.status = to,
                                           !.revision = @ + 1]]
    /\ trail' = [trail EXCEPT ![c] =
                   @ \cup {[revision |-> r.revision + 1,
                            from |-> row[c].status, to |-> to]}]

\* Mutant: the lease is not cleared.
ReleasedWithLease(c, processing, error) ==
    [row[c] EXCEPT !.processing = processing, !.error = error]

\* A row with clearLease applied.
Released(c, processing, error) ==
    [row[c] EXCEPT !.processing = processing, !.error = error,
                   !.token = NoToken, !.lease = 0]

Claimable(c, revision) ==
    /\ row[c].revision = revision
    /\ row[c].status \in {"CREATED", "FAILED"}
    /\ row[c].token = NoToken
    /\ artifact[c] = NoToken

ClaimTx(c) ==
    /\ Transition(c, [row[c] EXCEPT !.processing = "RUNNING",
                                    !.attempt = @ + 1,
                                    !.error = "NONE",
                                    !.token = row[c].attempt + 1,
                                    !.lease = LeaseTicks], "ANALYZING")
    /\ UNCHANGED artifact

ReleaseExpiredTx(c) ==
    /\ Transition(c, Released(c, "PENDING", "LEASE_EXPIRED"), "CREATED")
    /\ UNCHANGED artifact

ReleaseTx(c) ==
    /\ Transition(c, Released(c, "PENDING", "WORKER_SHUTDOWN"), "CREATED")
    /\ UNCHANGED artifact

FailTx(c) ==
    /\ Transition(c, Released(c, "FAILED", "PLANNING"), "FAILED")
    /\ UNCHANGED artifact

RenewTx(c) ==
    /\ row' = [row EXCEPT ![c].revision = @ + 1, ![c].lease = LeaseTicks]
    /\ UNCHANGED <<artifact, trail>>

\* Mutant: every event of the walk starts at the status the row was read with.
PersistTxStaleRow(c, token) ==
    LET k == StageAt[row[c].status]
        r == Released(c, "SUCCEEDED", "NONE")
    IN  /\ row' = [row EXCEPT ![c] =
                     [r EXCEPT !.status = "AWAITING_APPROVAL",
                               !.revision = @ + (5 - k)]]
        /\ trail' = [trail EXCEPT ![c] = @ \cup
             {[revision |-> r.revision + 1 + (i - k),
               from |-> row[c].status, to |-> Stages[i + 1]] : i \in k..4}]
        /\ artifact' = [artifact EXCEPT ![c] = token]

\* The artifact and every remaining stage commit together; the lease is
\* rechecked before each stage, so a commit means it was live throughout.
PersistTx(c, token) ==
    LET k == StageAt[row[c].status]
        r == Released(c, "SUCCEEDED", "NONE")
    IN  /\ row' = [row EXCEPT ![c] =
                     [r EXCEPT !.status = "AWAITING_APPROVAL",
                               !.revision = @ + (5 - k)]]
        /\ trail' = [trail EXCEPT ![c] = @ \cup
             {[revision |-> r.revision + 1 + (i - k),
               from |-> Stages[i], to |-> Stages[i + 1]] : i \in k..4}]
        /\ artifact' = [artifact EXCEPT ![c] = token]

NoTx == UNCHANGED <<row, artifact, trail>>

-----------------------------------------------------------------------------
(* claimNextDecisionCase.                                                  *)

\* Mutant: nobody looks for expired claims.
NoExpiredRows == {}

\* findMany: claims whose lease has run out.
ExpiredRows == {c \in Cases : /\ row[c].processing = "RUNNING"
                              /\ row[c].lease = 0
                              /\ artifact[c] = NoToken}

\* Mutant: FAILED cases are rediscovered.
CandidatesWithFailed == {c \in Cases : /\ row[c].status \in {"CREATED", "FAILED"}
                                       /\ row[c].token = NoToken
                                       /\ artifact[c] = NoToken
                                       /\ row[c].attempt < MaxAttempts}

\* Mutant: only cases never claimed before.
CandidatesOnce == {c \in Cases : /\ row[c].status = "CREATED"
                                 /\ row[c].attempt = 0
                                 /\ row[c].attempt < MaxAttempts}

\* findMany: cases waiting for a worker; FAILED cases are not rediscovered.
Candidates == {c \in Cases : /\ row[c].status = "CREATED"
                             /\ row[c].processing = "PENDING"
                             /\ row[c].token = NoToken
                             /\ artifact[c] = NoToken
                             /\ row[c].attempt < MaxAttempts}

Observe(rows) ==
    {[case |-> c, revision |-> row[c].revision, token |-> row[c].token] :
       c \in rows}

\* runOnce starts: the expired claims are read, outside any transaction.
Poll(w) ==
    /\ pc[w] = "poll" /\ ~stop[w]
    /\ pc' = [pc EXCEPT ![w] = "recover"]
    /\ seen' = [seen EXCEPT ![w] = Observe(ExpiredRows)]
    /\ NoTx
    /\ UNCHANGED <<claim, renewal, lost, stop, faults>>

\* Each observed claim is released by its own compare-and-set; a conflict is
\* swallowed.
Recover(w) ==
    /\ pc[w] = "recover"
    /\ \E s \in seen[w] :
        /\ seen' = [seen EXCEPT ![w] = @ \ {s}]
        /\ IF Owns(s, TRUE) THEN ReleaseExpiredTx(s.case) ELSE NoTx
    /\ UNCHANGED <<pc, claim, renewal, lost, stop, faults>>

\* The candidates are read once every expired claim has been tried.
ReadCandidates(w) ==
    /\ pc[w] = "recover" /\ seen[w] = {}
    /\ pc' = [pc EXCEPT ![w] = "select"]
    /\ seen' = [seen EXCEPT ![w] = Observe(Candidates)]
    /\ NoTx
    /\ UNCHANGED <<claim, renewal, lost, stop, faults>>

TryClaim(w) ==
    /\ pc[w] = "select"
    /\ \E s \in seen[w] :
        IF Claimable(s.case, s.revision)
        THEN /\ ClaimTx(s.case)
             /\ pc' = [pc EXCEPT ![w] = "planning"]
             /\ seen' = [seen EXCEPT ![w] = {}]
             /\ claim' = [claim EXCEPT ![w] =
                  [case |-> s.case, revision |-> s.revision + 1,
                   token |-> row[s.case].attempt + 1]]
        ELSE /\ seen' = [seen EXCEPT ![w] = @ \ {s}]
             /\ NoTx
             /\ UNCHANGED <<pc, claim>>
    /\ UNCHANGED <<renewal, lost, stop, faults>>

\* claimNextDecisionCase returned null: the outcome is idle.
Idle(w) ==
    /\ pc[w] = "select" /\ seen[w] = {}
    /\ pc' = [pc EXCEPT ![w] = "poll"]
    /\ NoTx
    /\ UNCHANGED <<seen, claim, renewal, lost, stop, faults>>

-----------------------------------------------------------------------------
(* The heartbeat timer of a claim, and its renewal transaction.            *)

SendRenewal(w) ==
    /\ pc[w] = "planning" /\ renewal[w] = "none" /\ ~lost[w]
    /\ claim[w].revision < MaxRevision
    /\ renewal' = [renewal EXCEPT ![w] = "sent"]
    /\ NoTx
    /\ UNCHANGED <<pc, seen, claim, lost, stop, faults>>

\* renewDecisionCaseLease commits; the worker does not know it yet.
RenewalCommits(w) ==
    /\ renewal[w] = "sent" /\ Owns(claim[w], FALSE)
    /\ renewal' = [renewal EXCEPT ![w] = "committed"]
    /\ RenewTx(claim[w].case)
    /\ UNCHANGED <<pc, seen, claim, lost, stop, faults>>

\* The reply of a committed renewal arrives: the claim's revision moves.
RenewalReturns(w) ==
    /\ renewal[w] = "committed"
    /\ renewal' = [renewal EXCEPT ![w] = "none"]
    /\ claim' = [claim EXCEPT ![w].revision = @ + 1]
    /\ NoTx
    /\ UNCHANGED <<pc, seen, lost, stop, faults>>

\* A conflict: leaseLost.  What refused it refuses it for ever, so that its
\* transaction and its reply are one step.
RenewalRefused(w) ==
    /\ renewal[w] = "sent" /\ ~Owns(claim[w], FALSE)
    /\ renewal' = [renewal EXCEPT ![w] = "none"]
    /\ lost' = [lost EXCEPT ![w] = TRUE]
    /\ NoTx
    /\ UNCHANGED <<pc, seen, claim, stop, faults>>

\* The query throws, before or after its commit: leaseLost either way.
RenewalThrows(w) ==
    /\ renewal[w] # "none" /\ faults < MaxFaults
    /\ renewal' = [renewal EXCEPT ![w] = "none"]
    /\ lost' = [lost EXCEPT ![w] = TRUE]
    /\ faults' = faults + 1
    /\ NoTx
    /\ UNCHANGED <<pc, seen, claim, stop>>

-----------------------------------------------------------------------------
(* runOnce after the claim.                                                *)

Goto(w, point) ==
    /\ pc' = [pc EXCEPT ![w] = point]
    /\ UNCHANGED <<claim, lost>>

\* runOnce returns: the claim and its flags go out of scope.
Return(w) ==
    /\ pc' = [pc EXCEPT ![w] = "poll"]
    /\ claim' = [claim EXCEPT ![w] = NoClaim]
    /\ lost' = [lost EXCEPT ![w] = FALSE]

\* The planner's recommendation arrives: the renewal is drained next.
PlannerAnswers(w) ==
    /\ pc[w] = "planning" /\ ~lost[w] /\ ~stop[w]
    /\ Goto(w, "draining")
    /\ NoTx
    /\ UNCHANGED <<seen, renewal, stop, faults>>

\* The planner or the request's integrity check fails, the deadline passes,
\* or the signal aborts the call.
PlanFails(w) ==
    /\ pc[w] = "planning"
    /\ Goto(w, "failing")
    /\ NoTx
    /\ UNCHANGED <<seen, renewal, stop, faults>>

\* Mutant: persistence does not wait for the renewal in flight.
DrainedAtOnce(w) ==
    /\ pc[w] = "draining"
    /\ Goto(w, IF lost[w] \/ stop[w] THEN "failing" ELSE "persisting")
    /\ NoTx
    /\ UNCHANGED <<seen, renewal, stop, faults>>

\* stopHeartbeat(), then combined.throwIfAborted().
Drained(w) ==
    /\ pc[w] = "draining" /\ renewal[w] = "none"
    /\ Goto(w, IF lost[w] \/ stop[w] THEN "failing" ELSE "persisting")
    /\ NoTx
    /\ UNCHANGED <<seen, renewal, stop, faults>>

Persist(w) ==
    LET c == claim[w].case IN
    /\ pc[w] = "persisting"
    /\ \/ /\ Owns(claim[w], FALSE) /\ artifact[c] = NoToken
          /\ PersistTx(c, claim[w].token)
          /\ Return(w)
          /\ UNCHANGED faults
       \* committed, but the reply is lost
       \/ /\ Owns(claim[w], FALSE) /\ artifact[c] = NoToken
          /\ faults < MaxFaults /\ faults' = faults + 1
          /\ PersistTx(c, claim[w].token)
          /\ Goto(w, "failing")
       \* the lease conflict
       \/ /\ ~Owns(claim[w], FALSE)
          /\ NoTx
          /\ Return(w)
          /\ UNCHANGED faults
       \* validation refuses the recommendation, or nothing commits
       \/ /\ NoTx
          /\ Goto(w, "failing")
          /\ UNCHANGED faults
    /\ UNCHANGED <<seen, renewal, stop>>

\* leaseLost: the outcome is lease-lost and nothing is written.
Abandon(w) ==
    /\ pc[w] = "failing" /\ renewal[w] = "none" /\ lost[w]
    /\ Return(w)
    /\ NoTx
    /\ UNCHANGED <<seen, renewal, stop, faults>>

\* Mutant: shutdown waits until the release succeeds.
ReleaseInsisting(w) ==
    /\ pc[w] = "failing" /\ renewal[w] = "none" /\ ~lost[w] /\ stop[w]
    /\ Owns(claim[w], FALSE) /\ ReleaseTx(claim[w].case)
    /\ Return(w)
    /\ UNCHANGED <<seen, renewal, stop, faults>>

\* releaseDecisionCaseClaim on shutdown; a conflict is lease-lost.
Release(w) ==
    /\ pc[w] = "failing" /\ renewal[w] = "none" /\ ~lost[w] /\ stop[w]
    /\ IF Owns(claim[w], FALSE) THEN ReleaseTx(claim[w].case) ELSE NoTx
    /\ Return(w)
    /\ UNCHANGED <<seen, renewal, stop, faults>>

\* blockDecisionCase; a conflict is lease-lost.
Block(w) ==
    /\ pc[w] = "failing" /\ renewal[w] = "none" /\ ~lost[w] /\ ~stop[w]
    /\ IF Owns(claim[w], FALSE) THEN FailTx(claim[w].case) ELSE NoTx
    /\ Return(w)
    /\ UNCHANGED <<seen, renewal, stop, faults>>

-----------------------------------------------------------------------------
(* The process and the clock.                                              *)

\* SIGINT or SIGTERM.
Stop(w) ==
    /\ pc[w] # "down" /\ ~stop[w] /\ faults < MaxFaults
    /\ stop' = [stop EXCEPT ![w] = TRUE]
    /\ faults' = faults + 1
    /\ NoTx
    /\ UNCHANGED worker

\* start() leaves its loop.
Exit(w) ==
    /\ pc[w] = "poll" /\ stop[w]
    /\ pc' = [pc EXCEPT ![w] = "down"]
    /\ NoTx
    /\ UNCHANGED <<seen, claim, renewal, lost, stop, faults>>

\* The process dies, or an error outside runOnce's handlers ends main().
Crash(w) ==
    /\ pc[w] # "down" /\ faults < MaxFaults
    /\ faults' = faults + 1
    /\ pc' = [pc EXCEPT ![w] = "down"]
    /\ seen' = [seen EXCEPT ![w] = {}]
    /\ claim' = [claim EXCEPT ![w] = NoClaim]
    /\ renewal' = [renewal EXCEPT ![w] = "none"]
    /\ lost' = [lost EXCEPT ![w] = FALSE]
    /\ NoTx
    /\ UNCHANGED stop

Restart(w) ==
    /\ pc[w] = "down"
    /\ pc' = [pc EXCEPT ![w] = "poll"]
    /\ stop' = [stop EXCEPT ![w] = FALSE]
    /\ NoTx
    /\ UNCHANGED <<seen, claim, renewal, lost, faults>>

Tick ==
    /\ \E c \in Cases : row[c].lease > 0
    /\ row' = [c \in Cases |->
                 [row[c] EXCEPT !.lease = IF @ = 0 THEN 0 ELSE @ - 1]]
    /\ UNCHANGED <<artifact, trail, worker, stop, faults>>

-----------------------------------------------------------------------------
Renew(w) == RenewalCommits(w) \/ RenewalReturns(w) \/ RenewalRefused(w)

ClaimNext(w) ==
    Poll(w) \/ Recover(w) \/ ReadCandidates(w) \/ TryClaim(w) \/ Idle(w)

Finish(w) ==
    Drained(w) \/ Persist(w) \/ Abandon(w) \/ Release(w) \/ Block(w)

Next ==
    \/ \E w \in Workers :
          \/ ClaimNext(w) \/ Finish(w)
          \/ SendRenewal(w) \/ Renew(w) \/ RenewalThrows(w)
          \/ PlannerAnswers(w) \/ PlanFails(w)
          \/ Stop(w) \/ Exit(w) \/ Crash(w) \/ Restart(w)
    \/ Tick

Spec == Init /\ [][Next]_vars

(* Time passes, a live process keeps running its own code, the database    *)
(* answers, the planning client has an absolute budget, and a worker that   *)
(* is down is started again.  Nothing is assumed of faults.                *)
Fairness ==
    /\ WF_vars(Tick)
    /\ \A w \in Workers :
         /\ WF_vars(ClaimNext(w) \/ Finish(w) \/ Exit(w))
         /\ WF_vars(Renew(w))
         /\ WF_vars(PlannerAnswers(w) \/ PlanFails(w))
         /\ WF_vars(Restart(w))

FairSpec == Spec /\ Fairness

-----------------------------------------------------------------------------
(* Type invariant.                                                         *)
TypeOK ==
    /\ row \in [Cases -> Row]
    /\ artifact \in [Cases -> Nat]
    /\ trail \in [Cases -> SUBSET Event]
    /\ pc \in [Workers -> PC]
    /\ seen \in [Workers -> SUBSET Observation]
    /\ claim \in [Workers -> Observation \cup {NoClaim}]
    /\ renewal \in [Workers -> Renewal]
    /\ lost \in [Workers -> BOOLEAN]
    /\ stop \in [Workers -> BOOLEAN]
    /\ faults \in 0..MaxFaults

(* Every variable keeps its type, and the row, its lease and its artifact   *)
(* agree after every transaction: the constraints                           *)
(* decision_cases_processing_check and decision_cases_lease_check, and a    *)
(* stored recommendation exactly when the case awaits approval.             *)
RowConsistent ==
    /\ TypeOK
    /\ \A c \in Cases :
         LET r == row[c] IN
         /\ r.processing = CASE r.status = "CREATED" -> "PENDING"
                              [] r.status \in Running -> "RUNNING"
                              [] r.status = "FAILED" -> "FAILED"
                              [] OTHER -> "SUCCEEDED"
         /\ r.token = IF r.processing = "RUNNING" THEN r.attempt ELSE NoToken
         /\ r.token = NoToken => r.lease = 0
         /\ r.status = "FAILED" => r.error # "NONE"
         /\ artifact[c] # NoToken <=> r.status = "AWAITING_APPROVAL"

(* The stored recommendation is the one the case's last claim produced: a   *)
(* worker whose claim was reclaimed can never publish its late answer.      *)
PublishedByLastClaim ==
    \A c \in Cases : artifact[c] # NoToken => artifact[c] = row[c].attempt

(* A worker that lost its claim, without knowing it, is behind the row's   *)
(* revision, so the revision compare-and-set alone refuses whatever it      *)
(* sends next; and two workers never hold the same claim.                   *)
StaleClaimFenced ==
    /\ \A w \in Workers :
         claim[w] # NoClaim =>
            LET r == row[claim[w].case] IN
            /\ claim[w].revision <= r.revision
            /\ claim[w].token # r.token => claim[w].revision < r.revision
    /\ \A v, w \in Workers :
         /\ v # w /\ claim[v] # NoClaim /\ claim[w] # NoClaim
         /\ claim[v].case = claim[w].case
         => claim[v].token # claim[w].token

(* decision_case_events is a complete history of the status: one event per *)
(* revision, each starting where the one before it ended, the last ending   *)
(* at the row's status, and revisions without an event are renewals, which  *)
(* happen only while the case is ANALYZING.                                 *)
AuditTrail ==
    \A c \in Cases :
        LET upTo(n) == {e \in trail[c] : e.revision <= n}
            statusAt(n) ==
                IF upTo(n) = {} THEN "CREATED"
                ELSE (CHOOSE e \in upTo(n) :
                        \A f \in upTo(n) : f.revision <= e.revision).to
        IN  /\ \A e, f \in trail[c] : e.revision = f.revision => e = f
            /\ \A e \in trail[c] :
                 /\ e.revision \in 2..row[c].revision
                 /\ e.from = statusAt(e.revision - 1)
            /\ row[c].status = statusAt(row[c].revision)
            /\ \A n \in 2..row[c].revision :
                 (\A e \in trail[c] : e.revision # n)
                     => statusAt(n) = "ANALYZING"

-----------------------------------------------------------------------------
(* decision_case_processing_guard (20261009010000_decision_worker_command_  *)
(* guards): what the trigger accepts of one UPDATE.  A renewal adds no event *)
(* and extends the lease; every other update is a legal edge of the status. *)
(* The stages of one persistence are several updates, each one revision on. *)
GuardEdge(from, to) ==
    \/ from \in {"CREATED", "FAILED"} /\ to = "ANALYZING"
    \/ from \in Running /\ to \in {"CREATED", "FAILED"}
    \/ \E i \in 1..4 : from = Stages[i] /\ to = Stages[i + 1]

GuardAccepts(old, new, events) ==
    /\ IF events = {} THEN new.revision = old.revision + 1
       ELSE {e.revision : e \in events} = old.revision + 1 .. new.revision
    /\ CASE old.status \in {"CREATED", "FAILED"} ->
              /\ new.attempt = old.attempt + 1
              /\ new.lease > 0
         [] events = {} ->
              /\ old.status = "ANALYZING" /\ new.status = "ANALYZING"
              /\ new.processing = "RUNNING"
              /\ new.attempt = old.attempt /\ new.token = old.token
              /\ old.lease > 0 /\ new.lease >= old.lease
         [] OTHER ->
              /\ old.processing = "RUNNING"
              /\ new.attempt = old.attempt
              /\ IF new.status = "CREATED"
                 THEN old.lease = 0 \/ new.error = "WORKER_SHUTDOWN"
                 ELSE old.lease > 0
              /\ new.processing = "RUNNING" => new.token = old.token
    /\ \A e \in events : GuardEdge(e.from, e.to)

(* Every transaction of the service is one the database trigger accepts:    *)
(* the two layers, written apart, agree on every update that commits, and   *)
(* the trigger's status edges are those of the recorded events.             *)
TriggerNeverFires ==
    [][\A c \in Cases :
         row'[c].revision # row[c].revision =>
            /\ GuardAccepts(row[c], row'[c], trail'[c] \ trail[c])
            /\ row'[c].status = "AWAITING_APPROVAL" => artifact'[c] # NoToken
      ]_vars

(* "It cannot cancel a live lease": while a claim's lease is live, only the *)
(* worker holding that claim, at the row's own revision, changes the row.    *)
LeaseHonoured ==
    [][\A c \in Cases :
         row[c].lease > 0 /\ row'[c].revision # row[c].revision =>
            \E w \in Workers :
                /\ claim[w] = [case |-> c, revision |-> row[c].revision,
                               token |-> row[c].token]
                /\ <<pc[w], claim[w], renewal[w]>>'
                      # <<pc[w], claim[w], renewal[w]>>
      ]_vars

(* A worker that still owns its case is never refused for a renewal of its  *)
(* own: while its lease lives and no query of it failed, a renewal is not    *)
(* answered with a conflict, and the transaction it ends its claim with      *)
(* commits, although the row moves on before the worker hears of it.  The    *)
(* drain of the heartbeat before persistence (stopHeartbeat) is what gives   *)
(* this.                                                                     *)
LiveOwnerIsHeard ==
    [][\A w \in Workers :
         LET c == claim[w].case IN
         /\ claim[w] # NoClaim /\ ~lost[w] /\ faults' = faults
         /\ row[c].token = claim[w].token /\ row[c].lease > 0
         => /\ ~lost'[w]
            /\ claim'[w] = NoClaim => row'[c].token = NoToken
      ]_vars

(* A case that failed or that awaits approval is never touched again by a   *)
(* worker, whatever replies were lost: a persisted recommendation is not     *)
(* turned into a failure, a failure is not rediscovered, no artifact is      *)
(* replaced.                                                                 *)
SettledIsFinal ==
    [][\A c \in Cases :
         row[c].status \in {"FAILED", "AWAITING_APPROVAL"} =>
            row'[c] = row[c] /\ artifact'[c] = artifact[c]]_vars

-----------------------------------------------------------------------------
(* No claim is held for ever: whatever its worker does, the case leaves     *)
(* processing, at the latest when its lease has expired and a worker polls.  *)
ClaimEnds ==
    \A c \in Cases :
        row[c].processing = "RUNNING" ~> row[c].processing # "RUNNING"

(* A case waiting for a worker, and allowed another claim, gets one: a       *)
(* requeued case is not forgotten.                                           *)
PendingIsClaimed ==
    \A c \in Cases :
        row[c].status = "CREATED" /\ row[c].attempt < MaxAttempts
            ~> row[c].status # "CREATED"

(* A stop signal ends the process: no claim in progress, renewal in flight   *)
(* or lost reply keeps it up.                                                *)
StopCompletes == \A w \in Workers : stop[w] ~> pc[w] = "down"

-----------------------------------------------------------------------------
ClaimsOf == [c \in Cases |-> row[c].attempt]
Live == [c \in Cases |-> row[c].status \in Running /\ row[c].lease > 0]
Outcome == [c \in Cases |->
              CASE row[c].status = "AWAITING_APPROVAL" -> "PUBLISHED"
                [] row[c].status = "FAILED" -> "FAILED"
                [] OTHER -> "OPEN"]

Promise == INSTANCE LeasedJob WITH Jobs <- Cases, claims <- ClaimsOf,
                                   held <- Live, outcome <- Outcome,
                                   author <- artifact

(* Planning is a leased job: no claim under a live lease, no lease revived, *)
(* recommendations only from the last claim while its lease lives, and      *)
(* failed and planned cases final.                                          *)
ImplementsLeasedJob == Promise!Spec
=============================================================================
