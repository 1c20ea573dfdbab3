----------------------------- MODULE ScenarioJob -----------------------------
(***************************************************************************)
(* The scenario job queue: scenario_jobs with their attempts and points,    *)
(* and the worker processes that claim, evaluate, renew, persist, release   *)
(* and reject them.                                                        *)
(*                                                                         *)
(* Source: backend/src/scenario-worker/worker.js (runOnce) and             *)
(* backend/src/services/scenario-lease.service.js.  Every transaction takes *)
(* the factory's lock and the row first, so it is one step; the workers, the *)
(* clock and the requests interleave between them.  lease and deadline      *)
(* count the ticks left; 0 is "not later than clock_timestamp()".           *)
(***************************************************************************)
EXTENDS Naturals

CONSTANTS
    Jobs, Workers,
    None,          \* no job
    FactoryOf,     \* the factory of each job
    SourceOf,      \* the run a sensitivity sweep starts from; None for a run
    Lease,         \* leaseMs, in ticks
    Deadline,      \* the 300 seconds every job has, in ticks
    MaxAttempts,   \* 3 in the code
    MaxFaults      \* bound: crashes, stop signals, lost replies, failed queries

ASSUME ConstantsAssumption ==
    /\ None \notin Jobs
    /\ SourceOf \in [Jobs -> Jobs \cup {None}]
    /\ Lease \in Nat \ {0} /\ Deadline \in Nat \ {0}
    /\ MaxAttempts \in Nat \ {0}
    /\ MaxFaults \in Nat

VARIABLES
    job,        \* scenario_jobs, each with the status of its points
    attempts,   \* scenario_attempts.status, by attempt
    pc,         \* where each worker is in runOnce
    seen,       \* the candidates it has not tried yet
    claim,      \* its claim: the job and the attempt it was issued as
    retryable,  \* does the error it handles allow another attempt
    lost,       \* a renewal was refused or failed
    stop,       \* the process's abort signal
    faults

rows == <<job, attempts>>
vars == <<job, attempts, pc, seen, claim, retryable, lost, stop, faults>>

JobStatus == {"ABSENT", "QUEUED", "RUNNING", "SUCCEEDED", "FAILED"}
PointStatus == {"QUEUED", "EVALUATED", "FAILED", "TIMEOUT"}
AttemptStatus == {"NONE", "RUNNING", "SUCCEEDED", "FAILED", "EXPIRED"}
Tries == 1..MaxAttempts

\* lease_token is random and unique: the attempt it was issued for names it.
Row == [status : JobStatus, attempt : 0..MaxAttempts, lease : 0..Lease,
        deadline : 0..Deadline, points : PointStatus, author : 0..MaxAttempts]
Claims == [job : Jobs, attempt : Tries]
NoClaim == [job |-> None, attempt |-> 0]
PC == {"down", "poll", "select", "evaluating", "persisting", "failing",
       "releasing", "rejecting"}

NewRow == [status |-> "ABSENT", attempt |-> 0, lease |-> 0,
           deadline |-> Deadline, points |-> "QUEUED", author |-> 0]

Init ==
    /\ job = [j \in Jobs |-> NewRow]
    /\ attempts = [j \in Jobs |-> [n \in Tries |-> "NONE"]]
    /\ pc = [w \in Workers |-> "poll"]
    /\ seen = [w \in Workers |-> {}]
    /\ claim = [w \in Workers |-> NoClaim]
    /\ retryable = [w \in Workers |-> FALSE]
    /\ lost = [w \in Workers |-> FALSE]
    /\ stop = [w \in Workers |-> FALSE]
    /\ faults = 0

-----------------------------------------------------------------------------
(* The transactions.  Operators whose comment starts with "Mutant" are     *)
(* wrong on purpose: they replace the definition after them to show that a  *)
(* property detects it.                                                    *)

\* enqueueRun, and enqueueSensitivity over a completed run.
Enqueue(j) ==
    /\ job[j].status = "ABSENT"
    /\ SourceOf[j] # None => job[SourceOf[j]].status = "SUCCEEDED"
    /\ job' = [job EXCEPT ![j].status = "QUEUED"]
    /\ UNCHANGED <<attempts, pc, seen, claim, retryable, lost, stop, faults>>

\* endAttempt: closes the row's attempt, if it is still open.
Ended(j, status) ==
    [attempts EXCEPT ![j] = [n \in Tries |->
        IF n = job[j].attempt /\ @[n] = "RUNNING" THEN status ELSE @[n]]]

\* fail(): the open attempt and the open points end with the job.
Fail(j, points) ==
    /\ attempts' = Ended(j, "FAILED")
    /\ job' = [job EXCEPT ![j] = [job[j] EXCEPT
                  !.status = "FAILED", !.lease = 0,
                  !.points = IF @ = "QUEUED" THEN points ELSE @]]

Requeue(j) ==
    /\ attempts' = Ended(j, "FAILED")
    /\ job' = [job EXCEPT ![j] = [@ EXCEPT !.status = "QUEUED", !.lease = 0]]

LeaseUntil(j) == IF Lease < job[j].deadline THEN Lease ELSE job[j].deadline

\* recover(), when the row was RUNNING, and the claim after it.
ClaimRow(j) ==
    LET n == job[j].attempt + 1 IN
    /\ attempts' = [attempts EXCEPT ![j] = [Ended(j, "EXPIRED")[j] EXCEPT
                                              ![n] = "RUNNING"]]
    /\ job' = [job EXCEPT ![j] = [@ EXCEPT !.status = "RUNNING", !.attempt = n,
                                          !.lease = LeaseUntil(j)]]

\* Every point gets its outcome, the job its result.
Succeed(j, n) ==
    /\ attempts' = Ended(j, "SUCCEEDED")
    /\ job' = [job EXCEPT ![j] = [@ EXCEPT !.status = "SUCCEEDED", !.lease = 0,
                                          !.points = "EVALUATED", !.author = n]]

-----------------------------------------------------------------------------
(* claimNext.                                                              *)

Expired(j) == job[j].status = "RUNNING" /\ job[j].lease = 0
Rivals(j) == {k \in Jobs \ {j} : FactoryOf[k] = FactoryOf[j]
                                  /\ job[k].status = "RUNNING"}
Exhausted(j) == job[j].deadline = 0 \/ job[j].attempt >= MaxAttempts

\* Mutant: nobody looks for expired claims.
QueuedOnly ==
    {j \in Jobs : job[j].status = "QUEUED" /\ Rivals(j) = {}}

Candidates ==
    {j \in Jobs : \/ Expired(j)
                  \/ /\ job[j].status = "QUEUED"
                     /\ \A k \in Rivals(j) : Expired(k)}

\* The candidates are read outside any transaction.
Poll(w) ==
    /\ pc[w] = "poll" /\ ~stop[w]
    /\ pc' = [pc EXCEPT ![w] = "select"]
    /\ seen' = [seen EXCEPT ![w] = Candidates]
    /\ UNCHANGED <<rows, claim, retryable, lost, stop, faults>>

Open(j) == Expired(j) \/ job[j].status = "QUEUED"

\* Mutant: the rows read by Poll are trusted.
ClaimableAsRead(j) == ~Exhausted(j)

\* The row as locked: an expired one has no rival, for its factory runs one.
Claimable(j) == Open(j) /\ ~Exhausted(j)
                /\ (job[j].status = "QUEUED" => Rivals(j) = {})

\* Claimed, unless the reply is lost, which ends the process.
TryClaim(w, j) ==
    /\ pc[w] = "select" /\ j \in seen[w] /\ Claimable(j)
    /\ ClaimRow(j)
    /\ seen' = [seen EXCEPT ![w] = {}]
    /\ \/ /\ pc' = [pc EXCEPT ![w] = "evaluating"]
          /\ claim' = [claim EXCEPT ![w] =
                         [job |-> j, attempt |-> job[j].attempt + 1]]
          /\ UNCHANGED faults
       \/ /\ faults < MaxFaults /\ faults' = faults + 1
          /\ pc' = [pc EXCEPT ![w] = "down"]
          /\ UNCHANGED claim
    /\ UNCHANGED <<retryable, lost, stop>>

\* An open job out of time or attempts is failed here, any other left alone.
Pass(w, j) ==
    /\ pc[w] = "select" /\ j \in seen[w] /\ ~Claimable(j)
    /\ IF Open(j) /\ Exhausted(j)
       THEN Fail(j, IF job[j].deadline = 0 THEN "TIMEOUT" ELSE "FAILED")
       ELSE UNCHANGED rows
    /\ seen' = [seen EXCEPT ![w] = @ \ {j}]
    /\ UNCHANGED <<pc, claim, retryable, lost, stop, faults>>

Idle(w) ==
    /\ pc[w] = "select" /\ seen[w] = {}
    /\ pc' = [pc EXCEPT ![w] = "poll"]
    /\ UNCHANGED <<rows, seen, claim, retryable, lost, stop, faults>>

-----------------------------------------------------------------------------
(* A claim at work.                                                        *)

\* Mutant: any owner of the running job, whatever its attempt.
OwnsAnyAttempt(w) ==
    LET r == job[claim[w].job] IN r.status = "RUNNING" /\ r.lease > 0

\* owns(), checked before the writes of a fenced transaction and after them.
Owns(w) ==
    LET r == job[claim[w].job] IN
    /\ r.status = "RUNNING" /\ r.attempt = claim[w].attempt
    /\ r.lease > 0 /\ r.deadline > 0

Renewed(w) == LeaseUntil(claim[w].job)

\* A renewal at any moment before stop(): done, refused, or failed.  It may
\* have committed although it failed.
Heartbeat(w) ==
    /\ pc[w] \in {"evaluating", "persisting"} /\ ~lost[w]
    /\ \/ /\ Owns(w)
          /\ job' = [job EXCEPT ![claim[w].job].lease = Renewed(w)]
          /\ UNCHANGED <<lost, faults>>
       \/ /\ ~Owns(w) /\ lost' = [lost EXCEPT ![w] = TRUE]
          /\ UNCHANGED <<job, faults>>
       \/ /\ faults < MaxFaults /\ faults' = faults + 1
          /\ lost' = [lost EXCEPT ![w] = TRUE]
          /\ \/ UNCHANGED job
             \/ /\ Owns(w)
                /\ job' = [job EXCEPT ![claim[w].job].lease = Renewed(w)]
    /\ UNCHANGED <<attempts, pc, seen, claim, retryable, stop>>

Goto(w, point) ==
    /\ pc' = [pc EXCEPT ![w] = point]
    /\ UNCHANGED <<rows, seen, claim, lost, stop, faults>>

\* runOnce returns, or the process dies; its variables are gone.
Leave(w, point) ==
    /\ pc' = [pc EXCEPT ![w] = point]
    /\ claim' = [claim EXCEPT ![w] = NoClaim]
    /\ retryable' = [retryable EXCEPT ![w] = FALSE]
    /\ lost' = [lost EXCEPT ![w] = FALSE]

\* execute() resolves, and neither signal aborted it.
EngineAnswers(w) ==
    /\ pc[w] = "evaluating" /\ ~lost[w] /\ ~stop[w]
    /\ Goto(w, "persisting") /\ UNCHANGED retryable

\* No time left, a bad request, no engine, or a signal.
EngineFails(w) ==
    /\ pc[w] = "evaluating"
    /\ Goto(w, "failing")
    /\ retryable' \in {[retryable EXCEPT ![w] = b] : b \in BOOLEAN}

\* The result is invalid or incomplete, or a signal aborts its validation.
ResultRefused(w) ==
    /\ pc[w] = "persisting"
    /\ Goto(w, "failing") /\ UNCHANGED retryable

\* persist() commits; if the reply is lost the worker believes it failed.
Persist(w) ==
    /\ pc[w] = "persisting" /\ Owns(w)
    /\ Succeed(claim[w].job, claim[w].attempt)
    /\ \/ Leave(w, "poll") /\ UNCHANGED faults
       \/ /\ faults < MaxFaults /\ faults' = faults + 1
          /\ pc' = [pc EXCEPT ![w] = "failing"]
          /\ UNCHANGED <<claim, retryable, lost>>
    /\ UNCHANGED <<seen, stop>>

\* The error is handled once stop() has waited for the renewal in flight.
Handle(w) ==
    /\ pc[w] = "failing" /\ ~lost[w]
    /\ Goto(w, IF stop[w] THEN "releasing" ELSE "rejecting")
    /\ UNCHANGED retryable

Abandon(w) ==
    /\ pc[w] = "failing" /\ lost[w]
    /\ Leave(w, "poll")
    /\ UNCHANGED <<rows, seen, stop, faults>>

\* release() and reject(): another attempt, if one is left.
MayRetry(w, j) ==
    /\ pc[w] = "releasing" \/ retryable[w]
    /\ job[j].attempt < MaxAttempts

\* A lost reply ends the process: nothing catches it.
Settle(w) ==
    LET j == claim[w].job IN
    /\ pc[w] \in {"releasing", "rejecting"} /\ Owns(w)
    /\ IF MayRetry(w, j) THEN Requeue(j) ELSE Fail(j, "FAILED")
    /\ \/ Leave(w, "poll") /\ UNCHANGED faults
       \/ /\ faults < MaxFaults /\ faults' = faults + 1
          /\ Leave(w, "down")
    /\ UNCHANGED <<seen, stop>>

\* SCENARIO_LEASE_CONFLICT is swallowed.
Refused(w) ==
    /\ pc[w] \in {"persisting", "releasing", "rejecting"} /\ ~Owns(w)
    /\ Leave(w, "poll")
    /\ UNCHANGED <<rows, seen, stop, faults>>

-----------------------------------------------------------------------------
(* The process and the clock.                                              *)

Stop(w) ==
    /\ pc[w] # "down" /\ ~stop[w]
    /\ faults < MaxFaults /\ faults' = faults + 1
    /\ stop' = [stop EXCEPT ![w] = TRUE]
    /\ UNCHANGED <<rows, pc, seen, claim, retryable, lost>>

Exit(w) ==
    /\ pc[w] = "poll" /\ stop[w]
    /\ Goto(w, "down") /\ UNCHANGED retryable

\* The process dies, or a query outside every handler throws.
Crash(w) ==
    /\ pc[w] # "down"
    /\ faults < MaxFaults /\ faults' = faults + 1
    /\ Leave(w, "down")
    /\ seen' = [seen EXCEPT ![w] = {}]
    /\ UNCHANGED <<rows, stop>>

Restart(w) ==
    /\ pc[w] = "down"
    /\ pc' = [pc EXCEPT ![w] = "poll"]
    /\ stop' = [stop EXCEPT ![w] = FALSE]
    /\ UNCHANGED <<rows, seen, claim, retryable, lost, faults>>

\* A job that is settled, or not there yet, has no use for its deadline.
Ticking(j) == job[j].status \in {"QUEUED", "RUNNING"}
Less(n) == IF n = 0 THEN 0 ELSE n - 1

Tick ==
    /\ \E j \in Jobs : Ticking(j) /\ job[j].deadline > 0
    /\ job' = [j \in Jobs |->
                 IF Ticking(j)
                 THEN [job[j] EXCEPT !.lease = Less(@), !.deadline = Less(@)]
                 ELSE job[j]]
    /\ UNCHANGED <<attempts, pc, seen, claim, retryable, lost, stop, faults>>

-----------------------------------------------------------------------------
\* What a live process does by itself, the engine's answer included.
Work(w) ==
    \/ Poll(w) \/ Idle(w) \/ Exit(w) \/ Restart(w)
    \/ \E j \in Jobs : TryClaim(w, j) \/ Pass(w, j)
    \/ EngineAnswers(w) \/ EngineFails(w) \/ ResultRefused(w) \/ Persist(w)
    \/ Handle(w) \/ Abandon(w) \/ Settle(w) \/ Refused(w)

Next ==
    \/ \E j \in Jobs : Enqueue(j)
    \/ \E w \in Workers : Work(w) \/ Heartbeat(w) \/ Stop(w) \/ Crash(w)
    \/ Tick

Spec == Init /\ [][Next]_vars

(* Time passes, a worker runs its own code and is started again when down,  *)
(* and the engine client ends each call, for it has an absolute budget.     *)
FairSpec == Spec /\ WF_vars(Tick) /\ \A w \in Workers : WF_vars(Work(w))

-----------------------------------------------------------------------------
TypeOK ==
    /\ job \in [Jobs -> Row]
    /\ attempts \in [Jobs -> [Tries -> AttemptStatus]]
    /\ pc \in [Workers -> PC]
    /\ seen \in [Workers -> SUBSET Jobs]
    /\ claim \in [Workers -> Claims \cup {NoClaim}]
    /\ retryable \in [Workers -> BOOLEAN]
    /\ lost \in [Workers -> BOOLEAN]
    /\ stop \in [Workers -> BOOLEAN]
    /\ faults \in 0..MaxFaults

(* The history of attempts tells the same story as the job, whoever wrote   *)
(* last: attempts beyond the present one do not exist, earlier ones are      *)
(* closed without success, the present one runs exactly while the job does   *)
(* and succeeded exactly if the job did, with all of its points.            *)
HistoryAgrees ==
    \A j \in Jobs :
        LET r == job[j] IN
        /\ \A n \in Tries :
             /\ n > r.attempt => attempts[j][n] = "NONE"
             /\ n < r.attempt => attempts[j][n] \in {"FAILED", "EXPIRED"}
        /\ r.status = "RUNNING" =>
             r.attempt > 0 /\ attempts[j][r.attempt] = "RUNNING"
        /\ r.status = "QUEUED" => \A n \in Tries : attempts[j][n] # "RUNNING"
        /\ r.status = "SUCCEEDED" <=> r.points = "EVALUATED"
        /\ r.status = "SUCCEEDED" =>
             attempts[j][r.attempt] = "SUCCEEDED" /\ r.author = r.attempt
        /\ r.status = "FAILED" => \A n \in Tries :
                                    attempts[j][n] \in {"NONE", "FAILED", "EXPIRED"}
        /\ r.points = "QUEUED" <=> r.status \in {"ABSENT", "QUEUED", "RUNNING"}

(* A factory runs one job at a time, so the unique index never refuses a    *)
(* claim; and a job is never queued without an attempt left.                *)
OneAtATime ==
    \A j \in Jobs :
        /\ job[j].status = "RUNNING" => Rivals(j) = {}
        /\ job[j].status = "QUEUED" => job[j].attempt < MaxAttempts
        /\ job[j].lease <= job[j].deadline

(* The queue's safety: history, concurrency limit and attempts.             *)
QueueSafe == TypeOK /\ HistoryAgrees /\ OneAtATime

(* Every job that is queued ends, in success or failure: by its deadline     *)
(* and its attempts, whatever crashes, lost replies and busy factories do.   *)
JobEnds ==
    \A j \in Jobs :
        job[j].status = "QUEUED" ~> job[j].status \in {"SUCCEEDED", "FAILED"}

-----------------------------------------------------------------------------
Claimed == [j \in Jobs |-> job[j].attempt]
Live == [j \in Jobs |-> job[j].status = "RUNNING" /\ job[j].lease > 0]
Outcome == [j \in Jobs |-> CASE job[j].status = "SUCCEEDED" -> "PUBLISHED"
                             [] job[j].status = "FAILED" -> "FAILED"
                             [] OTHER -> "OPEN"]
Author == [j \in Jobs |-> job[j].author]

Promise == INSTANCE LeasedJob WITH claims <- Claimed, held <- Live,
                                   outcome <- Outcome, author <- Author

(* The queue is a leased job: no claim under a live lease, results only from *)
(* the last claim while its lease lives, and settled jobs final.            *)
ImplementsLeasedJob == Promise!Spec
=============================================================================
