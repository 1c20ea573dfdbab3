-------------------------- MODULE EpisodeExecution --------------------------
(***************************************************************************)
(* The episodes of one experiment: workers claim them, stream the engine's *)
(* steps into the database, finish or fail them; leases expire and other   *)
(* workers recover them; people retry and cancel; a trigger derives the     *)
(* status of the experiment.                                               *)
(*                                                                         *)
(* Source: backend/src/worker/, services/episode-lifecycle.service.js, the  *)
(* run, retry and cancel handlers, and the triggers of migration            *)
(* 20260902090000_execution_api_foundation.                                 *)
(*                                                                         *)
(* Transactions run at PostgreSQL's default, READ COMMITTED.  One that      *)
(* changes a status takes three steps, between which others run: it writes  *)
(* episode rows (locking them) and its AFTER trigger reads the episodes; the *)
(* trigger's UPDATE of the experiment; the commit.  The others, which touch *)
(* a single row and no status, are one step.                                *)
(***************************************************************************)
EXTENDS Naturals, Sequences, FiniteSets, Functions

CONSTANTS
    Episodes,     \* the episodes of the experiment
    Workers,      \* worker processes
    Clients,      \* API requests that may be open at one time
    None,         \* NULL
    Lease,        \* lease duration, in ticks
    Skew,         \* how many ticks each worker's clock is ahead of true time
    MaxAttempts,  \* bound: attempts of an episode
    MaxSteps,     \* bound: steps the engine emits in an attempt
    MaxFaults,    \* bound: crashes, stops, lost replies, rollbacks
    MaxOpen       \* bound: transactions open at one time

ASSUME ConstantsAssumption ==
    /\ Lease \in Nat \ {0}
    /\ Skew \in [Workers -> Nat]
    /\ MaxAttempts \in Nat \ {0} /\ MaxSteps \in Nat \ {0}
    /\ MaxFaults \in Nat /\ MaxOpen \in Nat \ {0}
    /\ IsFiniteSet(Episodes) /\ Episodes # {}
    /\ Workers \cap Clients = {}
    /\ None \notin Workers \cup Episodes \cup Nat

VARIABLES
    experiment,  \* experiments.status
    episodes,    \* episodes: the rows, as committed
    queue,       \* the PENDING episodes in the order of queued_at
    steps,       \* fleet_observations: who stored each step of each attempt
    summaries,   \* episode_summaries: steps_completed, by attempt
    tx,          \* the open transaction of each worker or client
    pc,          \* where each worker is
    job,         \* the claim a worker holds, with the steps streamed so far
    abort,       \* controller.signal.aborted
    stop,        \* stopping
    faults       \* faults so far

tables == <<experiment, episodes, queue, steps, summaries>>
memory == <<pc, job, abort, stop>>
vars == <<tables, tx, memory, faults>>

-----------------------------------------------------------------------------
Open == {"PENDING", "RUNNING"}
Status == {"NONE", "COMPLETED", "FAILED", "CANCELLED"} \cup Open
Derived == {"RUNNING", "COMPLETED", "FAILED", "CANCELLED"}
Attempts == 1..MaxAttempts
Actors == Workers \cup Clients

\* A lease token is random: the worker and the attempt stand for it.
Token == Workers \X Attempts

Row == [status: Status, attempt: Attempts, token: Token \cup {None},
        lease: Nat, steps: Nat]
NewRow == [status |-> "NONE", attempt |-> 1, token |-> None,
           lease |-> 0, steps |-> 0]

Job == [episode: Episodes, attempt: Attempts, token: Token, streamed: Nat]

\* NULL is not a value of any column.
ASSUME NullAssumption == None \notin Derived \cup Token \cup Job

\* next: what the trigger derived; sync: what its UPDATE writes, if anything.
NoTx == [phase |-> "none", rows |-> <<>>, next |-> None, sync |-> None]

Init ==
    /\ experiment = "READY"
    /\ episodes = [e \in Episodes |-> NewRow]
    /\ queue = <<>>
    /\ steps = [e \in Episodes |-> [a \in Attempts |-> <<>>]]
    /\ summaries = [e \in Episodes |-> [a \in Attempts |-> None]]
    /\ tx = [a \in Actors |-> NoTx]
    /\ pc = [w \in Workers |-> "poll"]
    /\ job = [w \in Workers |-> None]
    /\ abort = [w \in Workers |-> FALSE]
    /\ stop = [w \in Workers |-> FALSE]
    /\ faults = 0

\* runExperiment: a second run, with this key or another, writes nothing.
\* The identifiers that break ties of queued_at are random.
Run ==
    /\ experiment = "READY"
    /\ experiment' = "RUNNING"
    /\ episodes' = [e \in Episodes |-> [NewRow EXCEPT !.status = "PENDING"]]
    /\ queue' \in Bijection(1..Cardinality(Episodes), Episodes)
    /\ UNCHANGED <<steps, summaries, tx, memory, faults>>

-----------------------------------------------------------------------------
(* Transactions that change a status.                                      *)

Unlocked(e) == \A a \in Actors : e \notin DOMAIN tx[a].rows

View(rows) ==
    [e \in Episodes |-> IF e \in DOMAIN rows THEN rows[e] ELSE episodes[e]]

\* Operators whose comment starts with "Mutant" are wrong on purpose: they
\* replace the definition after them to show that a property detects it.

\* sync_experiment_status_from_episodes: a transaction sees the committed
\* rows and its own.
Derive(rows) ==
    LET present == {View(rows)[e].status : e \in Episodes} IN
    IF present \cap Open # {} THEN "RUNNING"
    ELSE IF "FAILED" \in present THEN "FAILED"
    ELSE IF "CANCELLED" \in present THEN "CANCELLED"
    ELSE "COMPLETED"

\* Mutant: the trigger runs before the change, and does not see it.
WriteDerivedBefore(a, rows) ==
    /\ tx[a] = NoTx
    /\ Cardinality({b \in Actors : tx[b] # NoTx}) < MaxOpen
    /\ \A e \in DOMAIN rows : Unlocked(e)
    /\ tx' = [tx EXCEPT ![a] = [phase |-> "written", rows |-> rows,
                                next |-> Derive(<<>>), sync |-> None]]
    /\ UNCHANGED <<tables, memory, faults>>

\* The statement waits until the rows it changes are unlocked.
Write(a, rows) ==
    /\ tx[a] = NoTx
    /\ Cardinality({b \in Actors : tx[b] # NoTx}) < MaxOpen
    /\ \A e \in DOMAIN rows : Unlocked(e)
    /\ tx' = [tx EXCEPT ![a] = [phase |-> "written", rows |-> rows,
                                next |-> Derive(rows), sync |-> None]]
    /\ UNCHANGED <<tables, memory, faults>>

\* UPDATE experiments ... WHERE status IS DISTINCT FROM next_status.  It waits
\* for a transaction that updated the row, and then checks again.
Sync(a) ==
    /\ tx[a].phase = "written"
    /\ \/ tx[a].next = experiment
       \/ \A b \in Actors : tx[b].sync = None
    /\ tx' = [tx EXCEPT ![a].phase = "synced",
                        ![a].sync = IF tx[a].next = experiment
                                    THEN None ELSE tx[a].next]
    /\ UNCHANGED <<tables, memory, faults>>

\* An episode that is claimed or cancelled leaves the queue, one that is
\* retried goes to its end; a transaction does at most one of these.
Queued(q, rows) ==
    LET gone == {i \in DOMAIN q : q[i] \in DOMAIN rows}
        back == {e \in DOMAIN rows : rows[e].status = "PENDING"}
        i == CHOOSE j \in gone : TRUE
    IN  IF gone # {} THEN SubSeq(q, 1, i - 1) \o SubSeq(q, i + 1, Len(q))
        ELSE IF back # {} THEN Append(q, CHOOSE e \in back : TRUE)
        ELSE q

\* The writes become visible.
Publish(a) ==
    LET rows == tx[a].rows IN
    /\ tx[a].phase = "synced"
    /\ episodes' = View(rows)
    /\ experiment' = IF tx[a].sync = None THEN experiment ELSE tx[a].sync
    /\ queue' = Queued(queue, rows)
    /\ summaries' = [e \in Episodes |->
         IF e \in DOMAIN rows /\ rows[e].status = "COMPLETED"
         THEN [summaries[e] EXCEPT ![rows[e].attempt] = rows[e].steps]
         ELSE summaries[e]]
    /\ tx' = [tx EXCEPT ![a] = NoTx]
    /\ UNCHANGED steps

Discard(a) ==
    /\ tx' = [tx EXCEPT ![a] = NoTx]
    /\ UNCHANGED tables

Fault == faults < MaxFaults /\ faults' = faults + 1

One(e, r) == [x \in {e} |-> r]

-----------------------------------------------------------------------------
(* retryEpisode and cancelEpisode.                                         *)

\* Mutant: the progress of the attempt before is kept.
RetriedWithProgress(r) ==
    [r EXCEPT !.status = "PENDING", !.token = None, !.lease = 0,
              !.attempt = @ + 1]

Retried(r) ==
    [r EXCEPT !.status = "PENDING", !.token = None, !.lease = 0,
              !.attempt = @ + 1, !.steps = 0]

Retry(c, e) ==
    /\ episodes[e].status = "FAILED" /\ episodes[e].attempt < MaxAttempts
    /\ Write(c, One(e, Retried(episodes[e])))

Cancel(c, e) ==
    /\ episodes[e].status = "PENDING"
    /\ Write(c, One(e, [episodes[e] EXCEPT !.status = "CANCELLED"]))

\* The response needs no model: a client may ask again.
ClientCommits(c) == Publish(c) /\ UNCHANGED <<memory, faults>>

ClientRollsBack(c) == tx[c] # NoTx /\ Fault /\ Discard(c) /\ UNCHANGED memory

-----------------------------------------------------------------------------
(* The worker's loop: recoverStale, claimNext.                             *)

\* leaseExpiresAt <= now, by the clock of the worker that asks.  Time is
\* relative: lease counts down, from a start that its owner's clock shifts.
Expired(w, e) == episodes[e].lease <= Skew[w]

\* Mutant: leases are compared the wrong way round.
StaleUnlessExpired(w) ==
    {e \in Episodes : episodes[e].status = "RUNNING" /\ ~Expired(w, e)}

Stale(w) == {e \in Episodes : episodes[e].status = "RUNNING" /\ Expired(w, e)}

Ended(r, status) ==
    [r EXCEPT !.status = status, !.token = None, !.lease = 0]

\* Mutant: an expired episode is silently queued again.
RecoverByReplay(w) ==
    /\ pc[w] = "poll" /\ ~stop[w] /\ Stale(w) # {}
    /\ Write(w, [e \in Stale(w) |-> Ended(episodes[e], "PENDING")])

Recover(w) ==
    /\ pc[w] = "poll" /\ ~stop[w] /\ Stale(w) # {}
    /\ Write(w, [e \in Stale(w) |-> Ended(episodes[e], "FAILED")])

NothingStale(w) ==
    /\ pc[w] = "poll" /\ ~stop[w] /\ Stale(w) = {}
    /\ pc' = [pc EXCEPT ![w] = "claim"]
    /\ UNCHANGED <<tables, tx, job, abort, stop, faults>>

\* Mutant: only episodes that never failed are claimed.
ClaimFirstAttempt(w) ==
    /\ pc[w] = "claim" /\ ~stop[w] /\ queue # <<>>
    /\ LET e == Head(queue) IN
       /\ episodes[e].attempt = 1
       /\ Write(w, One(e, [episodes[e] EXCEPT
                             !.status = "RUNNING", !.lease = Lease + Skew[w],
                             !.token = <<w, 1>>]))

Claim(w) ==
    /\ pc[w] = "claim" /\ ~stop[w] /\ queue # <<>>
    /\ LET e == Head(queue) IN
       Write(w, One(e, [episodes[e] EXCEPT
                          !.status = "RUNNING", !.lease = Lease + Skew[w],
                          !.token = <<w, episodes[e].attempt>>]))

\* Nothing is queued, or another transaction had the oldest episode.
NothingClaimed(w) ==
    /\ pc[w] = "claim" /\ tx[w] = NoTx
    /\ queue = <<>> \/ (queue # <<>> /\ ~Unlocked(Head(queue)))
    /\ pc' = [pc EXCEPT ![w] = "poll"]
    /\ UNCHANGED <<tables, tx, job, abort, stop, faults>>

-----------------------------------------------------------------------------
(* The worker with an episode.  guard() fences each of its writes.          *)

\* Mutant: the attempt and its token are not compared.
OwnsAnyAttempt(w) ==
    LET e == job[w].episode IN
    /\ episodes[e].status = "RUNNING"
    /\ ~Expired(w, e)

Owns(w) ==
    LET e == job[w].episode IN
    /\ episodes[e].status = "RUNNING"
    /\ episodes[e].attempt = job[w].attempt /\ episodes[e].token = job[w].token
    /\ ~Expired(w, e)

Goto(w, l) ==
    /\ pc' = [pc EXCEPT ![w] = l]
    /\ job' = IF l \in {"poll", "down"} THEN [job EXCEPT ![w] = None] ELSE job

\* persistStep.
StoreStep(w) ==
    LET e == job[w].episode IN
    /\ pc[w] = "run" /\ ~abort[w] /\ job[w].streamed < MaxSteps
    /\ Unlocked(e) /\ Owns(w)
    /\ episodes[e].steps = job[w].streamed
    /\ episodes' = [episodes EXCEPT ![e].steps = job[w].streamed + 1]
    /\ steps' = [steps EXCEPT ![e][job[w].attempt] = Append(@, w)]
    /\ UNCHANGED <<experiment, queue, summaries, tx, abort, stop>>

StepStored(w) ==
    /\ StoreStep(w)
    /\ job' = [job EXCEPT ![w].streamed = @ + 1]
    /\ UNCHANGED <<pc, faults>>

\* The step is committed, its reply is not seen.
StepReplyLost(w) == StoreStep(w) /\ Fault /\ Goto(w, "fail")

\* The engine failed, fell silent or broke the protocol, the step was refused
\* or not stored, or the controller was aborted.
RunFails(w) ==
    /\ pc[w] = "run"
    /\ Goto(w, "fail")
    /\ UNCHANGED <<tables, tx, abort, stop, faults>>

\* The summary arrived and the heartbeats are drained.
StreamEnds(w) ==
    /\ pc[w] = "run" /\ ~abort[w] /\ job[w].streamed > 0
    /\ Goto(w, "finish")
    /\ UNCHANGED <<tables, tx, abort, stop, faults>>

Renewed(w) ==
    episodes' = [episodes EXCEPT ![job[w].episode].lease = Lease + Skew[w]]

Heartbeat(w) ==
    /\ pc[w] = "run" /\ ~abort[w] /\ Unlocked(job[w].episode)
    /\ \/ Owns(w) /\ Renewed(w) /\ UNCHANGED <<abort, faults>>
       \/ /\ ~Owns(w)
          /\ abort' = [abort EXCEPT ![w] = TRUE]
          /\ UNCHANGED <<episodes, faults>>
       \/ /\ Owns(w) /\ Fault
          /\ abort' = [abort EXCEPT ![w] = TRUE]
          /\ Renewed(w) \/ UNCHANGED episodes
    /\ UNCHANGED <<experiment, queue, steps, summaries, tx, pc, job, stop>>

\* persistSummary.
Finish(w) ==
    LET e == job[w].episode IN
    /\ pc[w] = "finish" /\ Owns(w) /\ episodes[e].steps = job[w].streamed
    /\ Write(w, One(e, Ended(episodes[e], "COMPLETED")))

FinishRefused(w) ==
    /\ pc[w] = "finish" /\ tx[w] = NoTx
    /\ Unlocked(job[w].episode)
    /\ ~Owns(w) \/ episodes[job[w].episode].steps # job[w].streamed
    /\ Goto(w, "fail")
    /\ UNCHANGED <<tables, tx, abort, stop, faults>>

\* markFailed.
Fail(w) ==
    /\ pc[w] = "fail" /\ Owns(w)
    /\ Write(w, One(job[w].episode, Ended(episodes[job[w].episode], "FAILED")))

\* Mutant: the worker insists on storing the failure.
FailInsisting(w) ==
    /\ pc[w] = "fail" /\ tx[w] = NoTx
    /\ Unlocked(job[w].episode) /\ ~Owns(w)
    /\ UNCHANGED vars

FailRefused(w) ==
    /\ pc[w] = "fail" /\ tx[w] = NoTx
    /\ Unlocked(job[w].episode) /\ ~Owns(w)
    /\ Goto(w, "poll")
    /\ UNCHANGED <<tables, tx, abort, stop, faults>>

-----------------------------------------------------------------------------
(* The end of a worker's transaction.                                      *)

ClaimedJob(w) ==
    LET e == CHOOSE x \in DOMAIN tx[w].rows : TRUE
        r == tx[w].rows[e]
    IN  [episode |-> e, attempt |-> r.attempt, token |-> r.token, streamed |-> 0]

\* A stop signal during the claim gives the episode up at once.
CommitReplied(w) ==
    /\ Publish(w)
    /\ \/ pc[w] = "poll" /\ Goto(w, "claim") /\ UNCHANGED abort
       \/ /\ pc[w] = "claim"
          /\ pc' = [pc EXCEPT ![w] = IF stop[w] THEN "fail" ELSE "run"]
          /\ job' = [job EXCEPT ![w] = ClaimedJob(w)]
          /\ abort' = [abort EXCEPT ![w] = FALSE]
       \/ pc[w] \in {"finish", "fail"} /\ Goto(w, "poll") /\ UNCHANGED abort
    /\ UNCHANGED <<stop, faults>>

\* The summary is committed, its reply is not seen: markFailed is next.
SummaryReplyLost(w) ==
    /\ pc[w] = "finish" /\ Publish(w)
    /\ Fault /\ Goto(w, "fail")
    /\ UNCHANGED <<abort, stop>>

\* An error of recoverStale or claimNext ends the process.
CommitFails(w) ==
    /\ tx[w] # NoTx /\ Fault /\ Discard(w)
    /\ Goto(w, CASE pc[w] = "finish" -> "fail" [] pc[w] = "fail" -> "poll"
                  [] OTHER -> "down")
    /\ UNCHANGED <<abort, stop>>

-----------------------------------------------------------------------------
(* Processes and time.                                                     *)

Stop(w) ==
    /\ pc[w] # "down" /\ ~stop[w] /\ Fault
    /\ stop' = [stop EXCEPT ![w] = TRUE]
    /\ UNCHANGED <<tables, tx, pc, job, abort>>

\* The grace period of a stop ends with the episode still streaming.
GraceEnds(w) ==
    /\ stop[w] /\ pc[w] = "run" /\ ~abort[w]
    /\ abort' = [abort EXCEPT ![w] = TRUE]
    /\ UNCHANGED <<tables, tx, pc, job, stop, faults>>

Exit(w) ==
    /\ stop[w] /\ pc[w] \in {"poll", "claim"} /\ tx[w] = NoTx
    /\ Goto(w, "down")
    /\ UNCHANGED <<tables, tx, abort, stop, faults>>

\* The connection dies with the process: an open transaction is rolled back.
Crash(w) ==
    /\ pc[w] # "down" /\ Fault
    /\ Goto(w, "down") /\ Discard(w)
    /\ UNCHANGED <<abort, stop>>

Restart(w) ==
    /\ pc[w] = "down"
    /\ Goto(w, "poll")
    /\ stop' = [stop EXCEPT ![w] = FALSE]
    /\ abort' = [abort EXCEPT ![w] = FALSE]
    /\ UNCHANGED <<tables, tx, faults>>

Older(r) == [r EXCEPT !.lease = IF @ = 0 THEN 0 ELSE @ - 1]

Tick ==
    /\ \E e \in Episodes : episodes[e].lease > 0
    /\ episodes' = [e \in Episodes |-> Older(episodes[e])]
    /\ tx' = [a \in Actors |->
         [tx[a] EXCEPT !.rows = [e \in DOMAIN @ |-> Older(@[e])]]]
    /\ UNCHANGED <<experiment, queue, steps, summaries, memory, faults>>

Loop(w) ==
    \/ Recover(w) \/ NothingStale(w) \/ Claim(w) \/ NothingClaimed(w)
    \/ StepStored(w) \/ RunFails(w) \/ StreamEnds(w)
    \/ Finish(w) \/ FinishRefused(w) \/ Fail(w) \/ FailRefused(w)
    \/ CommitReplied(w) \/ Exit(w)

Disturb(w) ==
    \/ StepReplyLost(w) \/ SummaryReplyLost(w) \/ CommitFails(w)
    \/ Stop(w) \/ Crash(w)

Next ==
    \/ Run \/ Tick
    \/ \E a \in Actors : Sync(a)
    \/ \E c \in Clients :
         \/ ClientCommits(c) \/ ClientRollsBack(c)
         \/ \E e \in Episodes : Retry(c, e) \/ Cancel(c, e)
    \/ \E w \in Workers :
         Loop(w) \/ Heartbeat(w) \/ GraceEnds(w) \/ Restart(w) \/ Disturb(w)

Spec == Init /\ [][Next]_vars

\* The code of a running process is executed and time passes; the database
\* finishes what a transaction began; the engine's streams are finite, each read
\* of them bounded; a process that is down is started again.
FairSpec ==
    /\ Spec /\ WF_vars(Tick)
    /\ \A a \in Actors : WF_vars(Sync(a))
    /\ \A c \in Clients : WF_vars(ClientCommits(c))
    /\ \A w \in Workers :
         WF_vars(Loop(w)) /\ WF_vars(GraceEnds(w)) /\ WF_vars(Restart(w))

-----------------------------------------------------------------------------
(* Type invariant.                                                         *)
Transaction(t) ==
    /\ t.phase \in {"none", "written", "synced"}
    /\ DOMAIN t.rows \subseteq Episodes
    /\ \A e \in DOMAIN t.rows : t.rows[e] \in Row
    /\ t.next \in Derived \cup {None} /\ t.sync \in Derived \cup {None}

TypeOK ==
    /\ experiment \in Derived \cup {"READY"}
    /\ episodes \in [Episodes -> Row]
    /\ queue \in Seq(Episodes)
    /\ steps \in [Episodes -> [Attempts -> Seq(Workers)]]
    /\ summaries \in [Episodes -> [Attempts -> Nat \cup {None}]]
    /\ DOMAIN tx = Actors /\ \A a \in Actors : Transaction(tx[a])
    /\ pc \in [Workers -> {"down", "poll", "claim", "run", "finish", "fail"}]
    /\ job \in [Workers -> Job \cup {None}]
    /\ abort \in [Workers -> BOOLEAN]
    /\ stop \in [Workers -> BOOLEAN]
    /\ faults \in Nat

(* The results of an attempt are whole: steps_completed of a row counts the  *)
(* steps stored of its present attempt, attempts to come have none, and all  *)
(* steps of one attempt were stored by one worker; an episode is completed   *)
(* exactly when its present attempt has a summary, that summary counts all   *)
(* of its steps, and attempts before have none.  The variables are typed.    *)
ResultsAreWhole ==
    /\ TypeOK
    /\ \A e \in Episodes, a \in Attempts :
         /\ Len(steps[e][episodes[e].attempt]) = episodes[e].steps
         /\ a > episodes[e].attempt => steps[e][a] = <<>>
         /\ \A i, j \in DOMAIN steps[e][a] : steps[e][a][i] = steps[e][a][j]
         /\ summaries[e][a] # None <=>
              episodes[e].status = "COMPLETED" /\ episodes[e].attempt = a
         /\ summaries[e][a] # None => summaries[e][a] = Len(steps[e][a])

(* "Recovery marks expired jobs FAILED; it never silently replays them": no  *)
(* two workers ever hold claims of one attempt, however long the first       *)
(* outlives its lease.                                                       *)
AttemptsAreExclusive ==
    \A v, w \in Workers :
        v # w /\ job[v] # None /\ job[w] # None
              /\ job[v].episode = job[w].episode
            => job[v].attempt # job[w].attempt

(* With nothing under way, the experiment's status is that of its episodes.   *)
ExperimentSynced ==
    experiment # "READY" /\ (\A a \in Actors : tx[a] = NoTx)
        => experiment = Derive(<<>>)

\* enforce_episode_status_transition
TransitionAllowed(from, to) ==
    \/ from = to
    \/ from = "PENDING" /\ to \in {"RUNNING", "CANCELLED"}
    \/ from = "RUNNING" /\ to \in {"COMPLETED", "FAILED", "CANCELLED"}
    \/ from = "FAILED" /\ to = "PENDING"

(* History is immutable: steps and summaries are only added, to the present   *)
(* attempt of a running episode, by a worker that holds a claim of it.  And   *)
(* the transition trigger accepts every commit, though its writer decided on  *)
(* a status it had read before.                                              *)
OldAttemptsFrozen ==
    [][\A e \in Episodes :
         /\ episodes[e].status # "NONE" =>
              TransitionAllowed(episodes[e].status, episodes'[e].status)
         /\ \A a \in Attempts :
              steps'[e][a] # steps[e][a] \/ summaries'[e][a] # summaries[e][a] =>
                /\ episodes[e].status = "RUNNING" /\ episodes[e].attempt = a
                /\ \E w \in Workers :
                     /\ job[w] # None
                     /\ job[w].episode = e /\ job[w].token = episodes[e].token
                /\ summaries[e][a] = None]_vars

(* A running episode does not run for ever, whoever crashes.                  *)
RunningEnds ==
    \A e \in Episodes :
        episodes[e].status = "RUNNING" ~> episodes[e].status # "RUNNING"

(* A queued episode is claimed or cancelled.                                  *)
QueuedIsTaken ==
    \A e \in Episodes :
        episodes[e].status = "PENDING" ~> episodes[e].status # "PENDING"

(* A process told to stop ends.                                               *)
StopEnds == \A w \in Workers : stop[w] ~> pc[w] = "down"
=============================================================================
