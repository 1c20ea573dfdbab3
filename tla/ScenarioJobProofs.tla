--------------------------- MODULE ScenarioJobProofs ---------------------------
(***************************************************************************)
(* Proofs about ScenarioJob, for any jobs, factories, workers and any      *)
(* lengths of leases and deadlines: the queue is safe and is a leased job. *)
(***************************************************************************)
EXTENDS ScenarioJob, TLAPS

(* A row r with its attempts a.  Beside QueueSafe: an absent job has no     *)
(* attempt, and all attempts of a queued one are closed.                   *)
RowOK(r, a) ==
  /\ r \in Row
  /\ a \in [Tries -> AttemptStatus]
  /\ \A n \in Tries : n > r.attempt => a[n] = "NONE"
  /\ \A n \in Tries : n < r.attempt => a[n] \in {"FAILED", "EXPIRED"}
  /\ r.status = "ABSENT" => r.attempt = 0
  /\ r.status = "RUNNING" => r.attempt > 0 /\ a[r.attempt] = "RUNNING"
  /\ r.status = "QUEUED" => /\ r.attempt < MaxAttempts
                            /\ r.attempt > 0 => a[r.attempt] \in {"FAILED", "EXPIRED"}
  /\ r.status = "SUCCEEDED" <=> r.points = "EVALUATED"
  /\ r.status = "SUCCEEDED" =>
       r.attempt > 0 /\ a[r.attempt] = "SUCCEEDED" /\ r.author = r.attempt
  /\ r.status = "FAILED" => \A n \in Tries : a[n] \in {"NONE", "FAILED", "EXPIRED"}
  /\ r.points = "QUEUED" <=> r.status \in {"ABSENT", "QUEUED", "RUNNING"}
  /\ r.lease <= r.deadline

TablesOK == DOMAIN job = Jobs /\ DOMAIN attempts = Jobs
            /\ job = [j \in Jobs |-> job[j]] /\ attempts = [j \in Jobs |-> attempts[j]]

RowsOK == \A j \in Jobs : RowOK(job[j], attempts[j])

OneRuns ==
  \A j, k \in Jobs :
    /\ job[j].status = "RUNNING" /\ job[k].status = "RUNNING"
    /\ FactoryOf[j] = FactoryOf[k]
    => j = k

Working == {"evaluating", "persisting", "failing", "releasing", "rejecting"}

WorkersOK ==
  /\ pc \in [Workers -> PC]
  /\ seen \in [Workers -> SUBSET Jobs]
  /\ claim \in [Workers -> Claims \cup {NoClaim}]
  /\ retryable \in [Workers -> BOOLEAN]
  /\ lost \in [Workers -> BOOLEAN]
  /\ stop \in [Workers -> BOOLEAN]
  /\ faults \in 0..MaxFaults
  /\ \A w \in Workers : pc[w] \in Working => claim[w] \in Claims

IInv == TablesOK /\ RowsOK /\ OneRuns /\ WorkersOK

-----------------------------------------------------------------------------
LEMMA RowFields ==
  ASSUME NEW r \in Row
  PROVE  /\ r.status \in JobStatus /\ r.attempt \in 0..MaxAttempts
         /\ r.lease \in 0..Lease /\ r.deadline \in 0..Deadline
         /\ r.points \in PointStatus /\ r.author \in 0..MaxAttempts
         /\ r.attempt \in Nat /\ r.lease \in Nat /\ r.deadline \in Nat
         /\ Lease \in Nat /\ Deadline \in Nat /\ MaxAttempts \in Nat
         /\ Lease > 0 /\ Deadline > 0 /\ MaxAttempts > 0
         /\ 0 \in 0..Lease
  <1>1. /\ Lease \in Nat /\ Deadline \in Nat /\ MaxAttempts \in Nat
        /\ Lease > 0 /\ Deadline > 0 /\ MaxAttempts > 0
    BY ConstantsAssumption
  <1>. QED
    BY <1>1 DEF Row

(* The attempts after the row's one was closed. *)
Closed(r, a, status) ==
  [n \in Tries |-> IF n = r.attempt /\ a[n] = "RUNNING" THEN status ELSE a[n]]

(* One row and its attempts are written. *)
OnlyJob(j, r, a) ==
  /\ job' = [job EXCEPT ![j] = r]
  /\ attempts' = [attempts EXCEPT ![j] = a]

LEMMA OneWritten ==
  ASSUME TablesOK, NEW j \in Jobs, NEW r, NEW a, OnlyJob(j, r, a)
  PROVE  /\ TablesOK'
         /\ job'[j] = r /\ attempts'[j] = a
         /\ \A k \in Jobs \ {j} : job'[k] = job[k] /\ attempts'[k] = attempts[k]
  BY DEF TablesOK, OnlyJob

(* What the transactions make of a row. *)
Failed(r, points) ==
  [r EXCEPT !.status = "FAILED", !.lease = 0,
            !.points = IF r.points = "QUEUED" THEN points ELSE r.points]
Requeued(r) == [r EXCEPT !.status = "QUEUED", !.lease = 0]
Succeeded(r, n) ==
  [r EXCEPT !.status = "SUCCEEDED", !.lease = 0, !.points = "EVALUATED", !.author = n]
Until(r) == IF Lease < r.deadline THEN Lease ELSE r.deadline
ClaimedRow(r) ==
  [r EXCEPT !.status = "RUNNING", !.attempt = r.attempt + 1, !.lease = Until(r)]
ClaimedTries(r, a) == [Closed(r, a, "EXPIRED") EXCEPT ![r.attempt + 1] = "RUNNING"]

LEMMA Transactions ==
  ASSUME TablesOK, NEW j \in Jobs
  PROVE  /\ \A points \in PointStatus : Fail(j, points) =>
              OnlyJob(j, Failed(job[j], points), Closed(job[j], attempts[j], "FAILED"))
         /\ Requeue(j) => OnlyJob(j, Requeued(job[j]), Closed(job[j], attempts[j], "FAILED"))
         /\ \A n \in Tries : Succeed(j, n) =>
              OnlyJob(j, Succeeded(job[j], n), Closed(job[j], attempts[j], "SUCCEEDED"))
         /\ ClaimRow(j) =>
              OnlyJob(j, ClaimedRow(job[j]), ClaimedTries(job[j], attempts[j]))
  <1>1. \A status : Ended(j, status) =
          [attempts EXCEPT ![j] = Closed(job[j], attempts[j], status)]
    BY DEF Ended, Closed
  <1>2. \A status : Ended(j, status)[j] = Closed(job[j], attempts[j], status)
    BY <1>1 DEF TablesOK
  <1>3. ASSUME NEW points \in PointStatus, Fail(j, points)
        PROVE  OnlyJob(j, Failed(job[j], points), Closed(job[j], attempts[j], "FAILED"))
    BY <1>1, <1>3 DEF Fail, OnlyJob, Failed
  <1>4. Requeue(j) => OnlyJob(j, Requeued(job[j]), Closed(job[j], attempts[j], "FAILED"))
    BY <1>1 DEF Requeue, OnlyJob, Requeued
  <1>5. ASSUME NEW n \in Tries, Succeed(j, n)
        PROVE  OnlyJob(j, Succeeded(job[j], n), Closed(job[j], attempts[j], "SUCCEEDED"))
    BY <1>1, <1>5 DEF Succeed, OnlyJob, Succeeded
  <1>6. ClaimRow(j) => OnlyJob(j, ClaimedRow(job[j]), ClaimedTries(job[j], attempts[j]))
    BY <1>2 DEF ClaimRow, OnlyJob, ClaimedRow, ClaimedTries, LeaseUntil, Until
  <1>. QED
    BY <1>3, <1>4, <1>5, <1>6

-----------------------------------------------------------------------------
(* Rows stay in order. *)

LEMMA UntilTyped ==
  ASSUME NEW r \in Row
  PROVE  /\ Until(r) \in 0..Lease /\ Until(r) <= r.deadline
         /\ r.deadline > 0 => Until(r) > 0
  BY RowFields DEF Until

LEMMA ClosedTries ==
  ASSUME NEW r, NEW a, RowOK(r, a), NEW status \in AttemptStatus
  PROVE  /\ Closed(r, a, status) \in [Tries -> AttemptStatus]
         /\ \A n \in Tries : n # r.attempt => Closed(r, a, status)[n] = a[n]
         /\ r.status = "RUNNING" => Closed(r, a, status)[r.attempt] = status
         /\ r.status = "QUEUED" => Closed(r, a, status) = a
  <1>1. r \in Row /\ a \in [Tries -> AttemptStatus]
    BY DEF RowOK
  <1>2. r.status = "RUNNING" => r.attempt \in Tries /\ a[r.attempt] = "RUNNING"
    BY <1>1, RowFields DEF RowOK, Tries
  <1>3. ASSUME r.status = "QUEUED"
        PROVE  Closed(r, a, status) = a
    <2>1. \A n \in Tries : ~(n = r.attempt /\ a[n] = "RUNNING")
      BY <1>3, <1>1, RowFields DEF RowOK, Tries
    <2>. QED
      BY <1>1, <2>1 DEF Closed
  <1>. QED
    BY <1>1, <1>2, <1>3 DEF Closed

LEMMA EnqueuedRow ==
  ASSUME NEW r, NEW a, RowOK(r, a), r.status = "ABSENT"
  PROVE  RowOK([r EXCEPT !.status = "QUEUED"], a)
  <1>. DEFINE q == [r EXCEPT !.status = "QUEUED"]
  <1>1. /\ q \in Row /\ q.status = "QUEUED" /\ q.attempt = r.attempt /\ q.lease = r.lease
        /\ q.deadline = r.deadline /\ q.points = r.points /\ q.author = r.author
    BY DEF RowOK, Row, JobStatus
  <1>. HIDE DEF q
  <1>9. RowOK(q, a)
    BY <1>1, RowFields DEF RowOK
  <1>. QED
    BY <1>9 DEF q

LEMMA FailedRow ==
  ASSUME NEW r, NEW a, RowOK(r, a), r.status \in {"QUEUED", "RUNNING"},
         NEW points \in {"FAILED", "TIMEOUT"}
  PROVE  RowOK(Failed(r, points), Closed(r, a, "FAILED"))
  <1>. DEFINE q == Failed(r, points)
              b == Closed(r, a, "FAILED")
  <1>0. r \in Row /\ r.points = "QUEUED"
    BY DEF RowOK
  <1>1. /\ q \in Row /\ q.status = "FAILED" /\ q.attempt = r.attempt /\ q.lease = 0
        /\ q.deadline = r.deadline /\ q.points = points /\ q.author = r.author
    BY <1>0, RowFields DEF Failed, Row, JobStatus, PointStatus
  <1>2. /\ b \in [Tries -> AttemptStatus]
        /\ \A n \in Tries : n # r.attempt => b[n] = a[n]
        /\ r.attempt > 0 => b[r.attempt] \in {"FAILED", "EXPIRED"}
    BY ClosedTries DEF RowOK, AttemptStatus
  <1>. HIDE DEF q, b
  <1>3. \A n \in Tries : n > r.attempt => b[n] = "NONE"
    BY <1>0, <1>2, RowFields DEF RowOK, Tries
  <1>4. \A n \in Tries : n < r.attempt => b[n] \in {"FAILED", "EXPIRED"}
    BY <1>0, <1>2, RowFields DEF RowOK, Tries
  <1>5. \A n \in Tries : b[n] \in {"NONE", "FAILED", "EXPIRED"}
    BY <1>0, <1>2, <1>3, <1>4, RowFields DEF Tries
  <1>6. q.points # "QUEUED" /\ q.points # "EVALUATED" /\ q.lease <= q.deadline
    BY <1>0, <1>1, RowFields
  <1>9. RowOK(q, b)
    BY <1>1, <1>2, <1>3, <1>4, <1>5, <1>6 DEF RowOK
  <1>. QED
    BY <1>9 DEF q, b

LEMMA RequeuedRow ==
  ASSUME NEW r, NEW a, RowOK(r, a), r.status = "RUNNING", r.attempt < MaxAttempts
  PROVE  RowOK(Requeued(r), Closed(r, a, "FAILED"))
  <1>. DEFINE q == Requeued(r)
              b == Closed(r, a, "FAILED")
  <1>0. r \in Row /\ r.points = "QUEUED"
    BY DEF RowOK
  <1>1. /\ q \in Row /\ q.status = "QUEUED" /\ q.attempt = r.attempt /\ q.lease = 0
        /\ q.deadline = r.deadline /\ q.points = r.points /\ q.author = r.author
    BY <1>0, RowFields DEF Requeued, Row, JobStatus
  <1>2. /\ b \in [Tries -> AttemptStatus]
        /\ \A n \in Tries : n # r.attempt => b[n] = a[n]
        /\ b[r.attempt] = "FAILED"
    BY ClosedTries DEF RowOK, AttemptStatus
  <1>. HIDE DEF q, b
  <1>9. RowOK(q, b)
    <2>1. r.attempt \in 0..MaxAttempts /\ r.attempt < MaxAttempts
      BY <1>0, RowFields DEF RowOK, Tries
    <2>2. (\A n \in Tries : n > q.attempt => b[n] = "NONE")
          /\ (\A n \in Tries : n < q.attempt => b[n] \in {"FAILED", "EXPIRED"})
      BY <1>1, <1>2, <2>1 DEF RowOK, Tries
    <2>3. q.lease <= q.deadline
      BY <1>0, <1>1, RowFields
    <2>. QED
      BY <1>0, <1>1, <1>2, <2>1, <2>2, <2>3 DEF RowOK
  <1>. QED
    BY <1>9 DEF q, b

LEMMA ClaimedRowOK ==
  ASSUME NEW r, NEW a, RowOK(r, a), r.status \in {"QUEUED", "RUNNING"}, r.attempt < MaxAttempts
  PROVE  RowOK(ClaimedRow(r), ClaimedTries(r, a))
  <1>. DEFINE q == ClaimedRow(r)
              b == Closed(r, a, "EXPIRED")
              c == ClaimedTries(r, a)
  <1>0. /\ r \in Row /\ r.points = "QUEUED"
        /\ r.attempt + 1 \in Tries /\ r.attempt + 1 \in 0..MaxAttempts
    BY RowFields DEF RowOK, Tries
  <1>1. /\ q \in Row /\ q.status = "RUNNING" /\ q.attempt = r.attempt + 1 /\ q.lease = Until(r)
        /\ q.deadline = r.deadline /\ q.points = r.points /\ q.author = r.author
    BY <1>0, UntilTyped DEF ClaimedRow, Row, JobStatus
  <1>2. /\ b \in [Tries -> AttemptStatus]
        /\ \A n \in Tries : n # r.attempt => b[n] = a[n]
        /\ r.attempt > 0 => b[r.attempt] \in {"FAILED", "EXPIRED"}
    BY ClosedTries DEF RowOK, AttemptStatus
  <1>. HIDE DEF b
  <1>3. /\ c \in [Tries -> AttemptStatus]
        /\ c[r.attempt + 1] = "RUNNING"
        /\ \A n \in Tries : n # r.attempt + 1 => c[n] = b[n]
    BY <1>0, <1>2 DEF ClaimedTries, AttemptStatus, b
  <1>. HIDE DEF q, c
  <1>6. /\ r.attempt \in Nat
        /\ \A n \in Tries : n > r.attempt => a[n] = "NONE"
        /\ \A n \in Tries : n < r.attempt => a[n] \in {"FAILED", "EXPIRED"}
    BY <1>0, RowFields DEF RowOK
  <1>4. \A n \in Tries : n > r.attempt + 1 => c[n] = "NONE"
    BY <1>2, <1>3, <1>6 DEF Tries
  <1>5. \A n \in Tries : n < r.attempt + 1 => c[n] \in {"FAILED", "EXPIRED"}
    BY <1>2, <1>3, <1>6 DEF Tries
  <1>9. RowOK(q, c)
    BY <1>0, <1>1, <1>3, <1>4, <1>5, UntilTyped, RowFields DEF RowOK
  <1>. QED
    BY <1>9 DEF q, c

LEMMA SucceededRow ==
  ASSUME NEW r, NEW a, RowOK(r, a), r.status = "RUNNING"
  PROVE  RowOK(Succeeded(r, r.attempt), Closed(r, a, "SUCCEEDED"))
  <1>. DEFINE q == Succeeded(r, r.attempt)
              b == Closed(r, a, "SUCCEEDED")
  <1>0. r \in Row /\ r.points = "QUEUED" /\ r.attempt > 0
    BY DEF RowOK
  <1>1. /\ q \in Row /\ q.status = "SUCCEEDED" /\ q.attempt = r.attempt /\ q.lease = 0
        /\ q.deadline = r.deadline /\ q.points = "EVALUATED" /\ q.author = r.attempt
    BY <1>0, RowFields DEF Succeeded, Row, JobStatus, PointStatus
  <1>2. /\ b \in [Tries -> AttemptStatus]
        /\ \A n \in Tries : n # r.attempt => b[n] = a[n]
        /\ b[r.attempt] = "SUCCEEDED"
    BY ClosedTries DEF AttemptStatus
  <1>. HIDE DEF q, b
  <1>9. RowOK(q, b)
    BY <1>0, <1>1, <1>2, RowFields DEF RowOK, Tries

(* A renewal or the clock moves the lease and the deadline only. *)
  <1>. QED
    BY <1>9 DEF q, b

LEMMA TimedRow ==
  ASSUME NEW r, NEW a, RowOK(r, a), NEW l \in 0..Lease, NEW d \in 0..Deadline, l <= d
  PROVE  RowOK([r EXCEPT !.lease = l, !.deadline = d], a)
  <1>. DEFINE q == [r EXCEPT !.lease = l, !.deadline = d]
  <1>1. /\ q \in Row /\ q.status = r.status /\ q.attempt = r.attempt /\ q.lease = l
        /\ q.deadline = d /\ q.points = r.points /\ q.author = r.author
    BY DEF RowOK, Row
  <1>. HIDE DEF q
  <1>9. RowOK(q, a)
    BY <1>1 DEF RowOK
  <1>. QED
    BY <1>9 DEF q

-----------------------------------------------------------------------------
(* What the actions do to the tables: seven kinds of steps. *)

Owned(j) == job[j].status = "RUNNING" /\ job[j].lease > 0 /\ job[j].deadline > 0

Enqueues(j) ==
  /\ job[j].status = "ABSENT"
  /\ OnlyJob(j, [job[j] EXCEPT !.status = "QUEUED"], attempts[j])
Claiming(j) == Claimable(j) /\ OnlyJob(j, ClaimedRow(job[j]), ClaimedTries(job[j], attempts[j]))
Fails(j, points) ==
  /\ job[j].status \in {"QUEUED", "RUNNING"}
  /\ OnlyJob(j, Failed(job[j], points), Closed(job[j], attempts[j], "FAILED"))
Requeues(j) ==
  /\ job[j].status = "RUNNING" /\ job[j].attempt < MaxAttempts
  /\ OnlyJob(j, Requeued(job[j]), Closed(job[j], attempts[j], "FAILED"))
Succeeds(j) ==
  /\ Owned(j)
  /\ OnlyJob(j, Succeeded(job[j], job[j].attempt), Closed(job[j], attempts[j], "SUCCEEDED"))
Renews(j) ==
  Owned(j) /\ OnlyJob(j, [job[j] EXCEPT !.lease = Until(job[j])], attempts[j])
Ticks ==
  /\ job' = [j \in Jobs |->
               IF Ticking(j)
               THEN [job[j] EXCEPT !.lease = Less(@), !.deadline = Less(@)]
               ELSE job[j]]
  /\ UNCHANGED attempts

TableStep ==
  \/ UNCHANGED rows
  \/ \E j \in Jobs :
       \/ Enqueues(j) \/ Claiming(j) \/ Requeues(j) \/ Succeeds(j) \/ Renews(j)
       \/ \E points \in {"FAILED", "TIMEOUT"} : Fails(j, points)
  \/ Ticks

LEMMA OwnerOwns ==
  ASSUME WorkersOK, NEW w \in Workers, pc[w] \in Working, Owns(w)
  PROVE  /\ claim[w].job \in Jobs /\ claim[w].attempt \in Tries
         /\ Owned(claim[w].job) /\ claim[w].attempt = job[claim[w].job].attempt
  BY DEF WorkersOK, Owns, Owned, Claims

LEMMA RenewalRow ==
  ASSUME IInv, NEW w \in Workers, pc[w] \in Working, Owns(w),
         job' = [job EXCEPT ![claim[w].job].lease = Renewed(w)], UNCHANGED attempts
  PROVE  TableStep
  <1>. DEFINE j == claim[w].job
  <1>1. j \in Jobs /\ Owned(j)
    BY OwnerOwns DEF IInv
  <1>2. job' = [job EXCEPT ![j] = [job[j] EXCEPT !.lease = Until(job[j])]]
    BY DEF Renewed, LeaseUntil, Until
  <1>3. attempts' = [attempts EXCEPT ![j] = attempts[j]]
    BY <1>1 DEF IInv, TablesOK
  <1>. HIDE DEF j
  <1>4. Renews(j)
    BY <1>1, <1>2, <1>3 DEF Renews, OnlyJob
  <1>. QED
    BY <1>1, <1>4 DEF TableStep

LEMMA StepsOfTables ==
  ASSUME IInv, [Next]_vars
  PROVE  TableStep
  <1>. USE DEF IInv
  <1>1. CASE UNCHANGED vars
    BY <1>1 DEF vars, rows, TableStep
  <1>2. ASSUME NEW j \in Jobs, Enqueue(j)
        PROVE  TableStep
    <2>1. job' = [job EXCEPT ![j] = [job[j] EXCEPT !.status = "QUEUED"]]
      BY <1>2 DEF Enqueue
    <2>2. attempts' = [attempts EXCEPT ![j] = attempts[j]]
      BY <1>2 DEF Enqueue, TablesOK
    <2>3. Enqueues(j)
      BY <1>2, <2>1, <2>2 DEF Enqueue, Enqueues, OnlyJob
    <2>. QED
      BY <2>3 DEF TableStep
  <1>3. ASSUME NEW w \in Workers, NEW j \in Jobs, TryClaim(w, j)
        PROVE  TableStep
    <2>1. Claiming(j)
      BY <1>3, Transactions DEF TryClaim, Claiming
    <2>. QED
      BY <2>1 DEF TableStep
  <1>4. ASSUME NEW w \in Workers, NEW j \in Jobs, Pass(w, j)
        PROVE  TableStep
    <2>1. CASE Open(j) /\ Exhausted(j)
      <3>1. PICK points \in {"FAILED", "TIMEOUT"} : Fail(j, points)
        BY <1>4, <2>1 DEF Pass
      <3>2. Fails(j, points)
        BY <2>1, <3>1, Transactions DEF Fails, Open, Expired, PointStatus
      <3>. QED
        BY <3>2 DEF TableStep
    <2>2. CASE ~(Open(j) /\ Exhausted(j))
      BY <1>4, <2>2 DEF Pass, TableStep
    <2>. QED
      BY <2>1, <2>2
  <1>5. ASSUME NEW w \in Workers, Persist(w)
        PROVE  TableStep
    <2>1. pc[w] \in Working /\ Owns(w) /\ Succeed(claim[w].job, claim[w].attempt)
      BY <1>5 DEF Persist, Working
    <2>2. Succeeds(claim[w].job) /\ claim[w].job \in Jobs
      BY <2>1, OwnerOwns, Transactions DEF Succeeds
    <2>. QED
      BY <2>2 DEF TableStep
  <1>6. ASSUME NEW w \in Workers, Settle(w)
        PROVE  TableStep
    <2>. DEFINE j == claim[w].job
    <2>1. pc[w] \in Working /\ Owns(w)
          /\ IF MayRetry(w, j) THEN Requeue(j) ELSE Fail(j, "FAILED")
      BY <1>6 DEF Settle, Working
    <2>2. j \in Jobs /\ Owned(j)
      BY <2>1, OwnerOwns
    <2>. HIDE DEF j
    <2>3. Requeues(j) \/ Fails(j, "FAILED")
      BY <2>1, <2>2, Transactions DEF Requeues, Fails, Owned, MayRetry, PointStatus
    <2>. QED
      BY <2>2, <2>3 DEF TableStep
  <1>7. ASSUME NEW w \in Workers, Heartbeat(w)
        PROVE  TableStep
    <2>1. CASE Owns(w) /\ job' = [job EXCEPT ![claim[w].job].lease = Renewed(w)]
      BY <1>7, <2>1, RenewalRow DEF Heartbeat, Working
    <2>2. CASE UNCHANGED job
      BY <1>7, <2>2 DEF Heartbeat, TableStep, rows
    <2>. QED
      BY <1>7, <2>1, <2>2 DEF Heartbeat
  <1>8. CASE Tick
    BY <1>8 DEF Tick, Ticks, TableStep
  <1>9. ASSUME NEW w \in Workers,
               \/ Poll(w) \/ Idle(w) \/ Exit(w) \/ Restart(w) \/ EngineAnswers(w) \/ EngineFails(w)
               \/ ResultRefused(w) \/ Handle(w) \/ Abandon(w) \/ Refused(w) \/ Stop(w) \/ Crash(w)
        PROVE  TableStep
    <2>1. UNCHANGED rows
      BY <1>9
      DEF Poll, Idle, Exit, Restart, EngineAnswers, EngineFails, ResultRefused, Handle, Abandon,
          Refused, Stop, Crash, Goto, Leave
    <2>. QED
      BY <2>1 DEF TableStep
  <1>. QED
    BY <1>1, <1>2, <1>3, <1>4, <1>5, <1>6, <1>7, <1>8, <1>9 DEF Next, Work

-----------------------------------------------------------------------------
(* The tables stay in order. *)

LEMMA TickedRow ==
  ASSUME NEW r, NEW a, RowOK(r, a)
  PROVE  RowOK([r EXCEPT !.lease = Less(@), !.deadline = Less(@)], a)
  <1>1. Less(r.lease) \in 0..Lease /\ Less(r.deadline) \in 0..Deadline
    BY RowFields DEF RowOK, Less
  <1>2. Less(r.lease) <= Less(r.deadline)
    BY RowFields DEF RowOK, Less
  <1>. QED
    BY <1>1, <1>2, TimedRow

(* One row is written in order, and does not begin to run beside another. *)
LEMMA OneWrittenOK ==
  ASSUME TablesOK, RowsOK, OneRuns, NEW j \in Jobs, NEW r, NEW a, OnlyJob(j, r, a), RowOK(r, a),
         r.status = "RUNNING" => job[j].status = "RUNNING" \/ Rivals(j) = {}
  PROVE  TablesOK' /\ RowsOK' /\ OneRuns'
  <1>1. /\ TablesOK' /\ job'[j] = r /\ attempts'[j] = a
        /\ \A k \in Jobs \ {j} : job'[k] = job[k] /\ attempts'[k] = attempts[k]
    BY OneWritten
  <1>2. RowsOK'
    BY <1>1 DEF RowsOK
  <1>3. ASSUME NEW x \in Jobs, NEW y \in Jobs, x # y, FactoryOf[x] = FactoryOf[y],
               job'[x].status = "RUNNING", job'[y].status = "RUNNING"
        PROVE  FALSE
    BY <1>1, <1>3 DEF OneRuns, Rivals
  <1>. QED
    BY <1>1, <1>2, <1>3 DEF OneRuns

LEMMA TablesKept ==
  ASSUME IInv, TableStep
  PROVE  TablesOK' /\ RowsOK' /\ OneRuns'
  <1>. USE DEF IInv
  <1>1. CASE UNCHANGED rows
    BY <1>1 DEF rows, TablesOK, RowsOK, OneRuns
  <1>2. ASSUME NEW j \in Jobs, Enqueues(j)
        PROVE  TablesOK' /\ RowsOK' /\ OneRuns'
    <2>1. RowOK([job[j] EXCEPT !.status = "QUEUED"], attempts[j])
      BY <1>2, EnqueuedRow DEF RowsOK, Enqueues
    <2>2. [job[j] EXCEPT !.status = "QUEUED"].status # "RUNNING"
      BY DEF RowsOK, RowOK, Row
    <2>. QED
      BY <1>2, <2>1, <2>2, OneWrittenOK DEF Enqueues
  <1>3. ASSUME NEW j \in Jobs, Claiming(j)
        PROVE  TablesOK' /\ RowsOK' /\ OneRuns'
    <2>1. /\ job[j].status \in {"QUEUED", "RUNNING"} /\ job[j].attempt < MaxAttempts
          /\ job[j].status = "RUNNING" \/ Rivals(j) = {}
      BY <1>3, RowFields DEF Claiming, Claimable, Open, Expired, Exhausted, RowsOK, RowOK
    <2>2. RowOK(ClaimedRow(job[j]), ClaimedTries(job[j], attempts[j]))
      BY <2>1, ClaimedRowOK DEF RowsOK
    <2>. QED
      BY <1>3, <2>1, <2>2, OneWrittenOK DEF Claiming
  <1>4. ASSUME NEW j \in Jobs, Requeues(j)
        PROVE  TablesOK' /\ RowsOK' /\ OneRuns'
    <2>1. RowOK(Requeued(job[j]), Closed(job[j], attempts[j], "FAILED"))
      BY <1>4, RequeuedRow DEF Requeues, RowsOK
    <2>. QED
      BY <1>4, <2>1, OneWrittenOK DEF Requeues
  <1>5. ASSUME NEW j \in Jobs, Succeeds(j)
        PROVE  TablesOK' /\ RowsOK' /\ OneRuns'
    <2>1. RowOK(Succeeded(job[j], job[j].attempt), Closed(job[j], attempts[j], "SUCCEEDED"))
      BY <1>5, SucceededRow DEF Succeeds, Owned, RowsOK
    <2>. QED
      BY <1>5, <2>1, OneWrittenOK DEF Succeeds, Owned
  <1>6. ASSUME NEW j \in Jobs, Renews(j)
        PROVE  TablesOK' /\ RowsOK' /\ OneRuns'
    <2>1. /\ job[j] \in Row /\ RowOK(job[j], attempts[j])
          /\ job[j].deadline \in 0..Deadline
      BY RowFields DEF RowsOK, RowOK
    <2>2. /\ Until(job[j]) \in 0..Lease /\ Until(job[j]) <= job[j].deadline
          /\ [job[j] EXCEPT !.lease = Until(job[j])] =
               [job[j] EXCEPT !.lease = Until(job[j]), !.deadline = job[j].deadline]
      BY <2>1, UntilTyped DEF Row
    <2>3. RowOK([job[j] EXCEPT !.lease = Until(job[j])], attempts[j])
      BY <2>1, <2>2, TimedRow
    <2>. QED
      BY <1>6, <2>3, OneWrittenOK DEF Renews, Owned
  <1>7. ASSUME NEW j \in Jobs, NEW points \in {"FAILED", "TIMEOUT"}, Fails(j, points)
        PROVE  TablesOK' /\ RowsOK' /\ OneRuns'
    <2>1. RowOK(Failed(job[j], points), Closed(job[j], attempts[j], "FAILED"))
      BY <1>7, FailedRow DEF Fails, RowsOK
    <2>2. Failed(job[j], points).status = "FAILED"
      BY DEF Failed, RowsOK, RowOK, Row
    <2>. QED
      BY <1>7, <2>1, <2>2, OneWrittenOK DEF Fails
  <1>8. CASE Ticks
    <2>1. \A j \in Jobs : job'[j] \in {job[j], [job[j] EXCEPT !.lease = Less(@), !.deadline = Less(@)]}
      BY <1>8 DEF Ticks
    <2>2. ASSUME NEW j \in Jobs
          PROVE  job'[j].status = job[j].status
      <3>1. job[j] \in Row
        BY DEF RowsOK, RowOK
      <3>2. [job[j] EXCEPT !.lease = Less(@), !.deadline = Less(@)].status = job[j].status
        BY <3>1 DEF Row
      <3>. QED
        BY <2>1, <3>2
    <2>3. TablesOK'
      BY <1>8 DEF Ticks, TablesOK
    <2>4. RowsOK'
      BY <1>8, <2>1, TickedRow DEF Ticks, RowsOK
    <2>5. OneRuns'
      BY <2>2 DEF OneRuns
    <2>. QED
      BY <2>3, <2>4, <2>5
  <1>. QED
    BY <1>1, <1>2, <1>3, <1>4, <1>5, <1>6, <1>7, <1>8 DEF TableStep

-----------------------------------------------------------------------------
(* The workers. *)

LEMMA InitHolds == Init => IInv
  <1>. SUFFICES ASSUME Init PROVE IInv
    OBVIOUS
  <1>1. TablesOK
    BY DEF Init, TablesOK
  <1>2. ASSUME NEW j \in Jobs
        PROVE  RowOK(job[j], attempts[j])
    <2>1. job[j] = NewRow /\ attempts[j] = [n \in Tries |-> "NONE"]
      BY <1>2 DEF Init
    <2>2. /\ MaxAttempts \in Nat /\ Lease \in Nat /\ Deadline \in Nat /\ Tries \subseteq Nat \ {0}
          /\ 0 \in 0..MaxAttempts /\ 0 \in 0..Lease /\ Deadline \in 0..Deadline
      BY ConstantsAssumption DEF Tries
    <2>3. NewRow \in Row
      BY <2>2 DEF NewRow, Row, JobStatus, PointStatus
    <2>. QED
      BY <2>1, <2>2, <2>3 DEF RowOK, NewRow, AttemptStatus
  <1>3. OneRuns
    BY DEF Init, OneRuns, NewRow
  <1>4. WorkersOK
    BY ConstantsAssumption DEF Init, WorkersOK, PC, Working
  <1>. QED
    BY <1>1, <1>2, <1>3, <1>4 DEF IInv, RowsOK

LEMMA WorkersKept ==
  ASSUME IInv, [Next]_vars
  PROVE  WorkersOK'
  <1>. USE DEF IInv
  <1>. DEFINE Points == /\ pc' \in [Workers -> PC]
                        /\ claim' \in [Workers -> Claims \cup {NoClaim}]
                        /\ \A v \in Workers : pc'[v] \in Working => claim'[v] \in Claims
              Rest == /\ seen' \in [Workers -> SUBSET Jobs]
                      /\ retryable' \in [Workers -> BOOLEAN]
                      /\ lost' \in [Workers -> BOOLEAN]
                      /\ stop' \in [Workers -> BOOLEAN]
                      /\ faults' \in 0..MaxFaults
  <1>1. MaxFaults \in Nat /\ (faults < MaxFaults => faults + 1 \in 0..MaxFaults)
    BY ConstantsAssumption DEF WorkersOK
  <1>2. \A w \in Workers : claim[w] \in Claims \cup {NoClaim} /\ claim = [claim EXCEPT ![w] = claim[w]]
    BY DEF WorkersOK
  <1>3. CASE UNCHANGED vars \/ Tick \/ \E j \in Jobs : Enqueue(j)
    BY <1>3 DEF WorkersOK, vars, Tick, Enqueue
  <1>4. ASSUME NEW w \in Workers,
               \/ Poll(w) \/ Idle(w) \/ Exit(w) \/ Restart(w) \/ EngineAnswers(w) \/ EngineFails(w)
               \/ ResultRefused(w) \/ Handle(w)
        PROVE  WorkersOK'
    <2>1. Rest
      BY <1>4
      DEF WorkersOK, Poll, Idle, Exit, Restart, EngineAnswers, EngineFails, ResultRefused, Handle,
          Goto, Candidates
    <2>2. UNCHANGED claim /\ \E point \in PC : pc' = [pc EXCEPT ![w] = point]
                               /\ (point \in Working => pc[w] \in Working)
      BY <1>4
      DEF Poll, Idle, Exit, Restart, EngineAnswers, EngineFails, ResultRefused, Handle, Goto, PC,
          Working
    <2>3. Points
      BY <2>2 DEF WorkersOK
    <2>. QED
      BY <2>1, <2>3 DEF WorkersOK
  <1>5. ASSUME NEW w \in Workers, NEW j \in Jobs, TryClaim(w, j)
        PROVE  WorkersOK'
    <2>1. Rest
      BY <1>1, <1>5 DEF WorkersOK, TryClaim
    <2>2. [job |-> j, attempt |-> job[j].attempt + 1] \in Claims
      BY <1>5, RowFields DEF TryClaim, Claimable, Exhausted, Claims, Tries, RowsOK, RowOK
    <2>3. Points
      BY <1>5, <2>2 DEF TryClaim, WorkersOK, PC, Working
    <2>. QED
      BY <2>1, <2>3 DEF WorkersOK
  <1>6. ASSUME NEW w \in Workers, NEW j \in Jobs, Pass(w, j)
        PROVE  WorkersOK'
    BY <1>6 DEF Pass, WorkersOK
  <1>7. ASSUME NEW w \in Workers, Heartbeat(w)
        PROVE  WorkersOK'
    BY <1>1, <1>7 DEF Heartbeat, WorkersOK
  <1>8. ASSUME NEW w \in Workers, Stop(w)
        PROVE  WorkersOK'
    BY <1>1, <1>8 DEF Stop, WorkersOK
  <1>9. ASSUME NEW w \in Workers,
               Persist(w) \/ Abandon(w) \/ Settle(w) \/ Refused(w) \/ Crash(w)
        PROVE  WorkersOK'
    <2>1. Rest
      BY <1>1, <1>9 DEF WorkersOK, Persist, Abandon, Settle, Refused, Crash, Leave
    <2>2. \/ UNCHANGED claim /\ pc[w] \in Working /\ pc' = [pc EXCEPT ![w] = "failing"]
          \/ \E point \in {"poll", "down"} : Leave(w, point)
      BY <1>9 DEF Persist, Abandon, Settle, Refused, Crash, Working
    <2>3. Points
      BY <2>2 DEF Leave, WorkersOK, PC, Working
    <2>. QED
      BY <2>1, <2>3 DEF WorkersOK
  <1>. QED
    BY <1>3, <1>4, <1>5, <1>6, <1>7, <1>8, <1>9 DEF Next, Work

LEMMA NextHolds == IInv /\ [Next]_vars => IInv'
  BY StepsOfTables, TablesKept, WorkersKept DEF IInv

THEOREM QueueInvariant == Spec => []IInv
  BY InitHolds, NextHolds, PTL DEF Spec

(* A job, its attempts and its points tell one story, a factory runs one    *)
(* job at a time, and no job is queued without an attempt left.             *)
THEOREM QueueIsSafe == Spec => []QueueSafe
  <1>1. IInv => TypeOK
    BY DEF IInv, TablesOK, RowsOK, RowOK, WorkersOK, TypeOK
  <1>2. ASSUME IInv, NEW j \in Jobs
        PROVE  /\ RowOK(job[j], attempts[j])
               /\ \A n \in Tries : job[j].status = "QUEUED" => attempts[j][n] # "RUNNING"
    <2>1. RowOK(job[j], attempts[j])
      BY <1>2 DEF IInv, RowsOK
    <2>. QED
      BY <2>1, RowFields DEF RowOK, Tries
  <1>3. ASSUME IInv, NEW j \in Jobs
        PROVE  Rivals(j) # {} => job[j].status # "RUNNING"
    BY <1>3 DEF IInv, OneRuns, Rivals
  <1>4. IInv => HistoryAgrees
    <2>. SUFFICES ASSUME IInv, NEW j \in Jobs
                  PROVE  HistoryAgrees!(j)
      BY DEF HistoryAgrees
    <2>. DEFINE r == job[j]
                a == attempts[j]
    <2>1. RowOK(r, a) /\ \A n \in Tries : r.status = "QUEUED" => a[n] # "RUNNING"
      BY <1>2
    <2>. HIDE DEF r, a
    <2>2. /\ \A n \in Tries :
               /\ n > r.attempt => a[n] = "NONE"
               /\ n < r.attempt => a[n] \in {"FAILED", "EXPIRED"}
          /\ r.status = "RUNNING" => r.attempt > 0 /\ a[r.attempt] = "RUNNING"
          /\ r.status = "QUEUED" => \A n \in Tries : a[n] # "RUNNING"
          /\ r.status = "SUCCEEDED" <=> r.points = "EVALUATED"
          /\ r.status = "SUCCEEDED" => a[r.attempt] = "SUCCEEDED" /\ r.author = r.attempt
          /\ r.status = "FAILED" => \A n \in Tries : a[n] \in {"NONE", "FAILED", "EXPIRED"}
          /\ r.points = "QUEUED" <=> r.status \in {"ABSENT", "QUEUED", "RUNNING"}
      BY <2>1 DEF RowOK
    <2>. QED
      BY <2>2 DEF r, a
  <1>5. IInv => OneAtATime
    <2>. SUFFICES ASSUME IInv, NEW j \in Jobs
                  PROVE  /\ job[j].status = "RUNNING" => Rivals(j) = {}
                         /\ job[j].status = "QUEUED" => job[j].attempt < MaxAttempts
                         /\ job[j].lease <= job[j].deadline
      BY DEF OneAtATime
    <2>1. RowOK(job[j], attempts[j])
      BY <1>2
    <2>. QED
      BY <1>3, <2>1 DEF RowOK
  <1>6. IInv => QueueSafe
    BY <1>1, <1>4, <1>5 DEF QueueSafe
  <1>. QED
    BY <1>6, QueueInvariant, PTL

-----------------------------------------------------------------------------
(* The queue is a leased job. *)

PromiseVars == <<Claimed, Live, Outcome, Author>>

LEMMA InitPromised == Init => Promise!Init
  <1>. SUFFICES ASSUME Init PROVE Promise!Init
    OBVIOUS
  <1>1. \A j \in Jobs : /\ job[j].status = "ABSENT" /\ job[j].attempt = 0 /\ job[j].author = 0
                        /\ job[j].lease = 0
    BY DEF Init, NewRow
  <1>2. Claimed = [j \in Jobs |-> 0] /\ Author = [j \in Jobs |-> 0]
    BY <1>1 DEF Claimed, Author
  <1>3. Live = [j \in Jobs |-> FALSE]
    BY <1>1 DEF Live
  <1>4. Outcome = [j \in Jobs |-> "OPEN"]
    BY <1>1 DEF Outcome
  <1>. QED
    BY <1>2, <1>3, <1>4 DEF Promise!Init

(* What the promise reads of a row. *)
LiveRow(r) == r.status = "RUNNING" /\ r.lease > 0
OutcomeOf(r) == CASE r.status = "SUCCEEDED" -> "PUBLISHED"
                  [] r.status = "FAILED" -> "FAILED"
                  [] OTHER -> "OPEN"

LEMMA Mapped ==
  ASSUME TablesOK, NEW j \in Jobs, NEW r, NEW a, OnlyJob(j, r, a)
  PROVE  /\ Claimed' = [Claimed EXCEPT ![j] = r.attempt]
         /\ Live' = [Live EXCEPT ![j] = LiveRow(r)]
         /\ Outcome' = [Outcome EXCEPT ![j] = OutcomeOf(r)]
         /\ Author' = [Author EXCEPT ![j] = r.author]
         /\ Claimed[j] = job[j].attempt /\ Live[j] = LiveRow(job[j])
         /\ Outcome[j] = OutcomeOf(job[j]) /\ Author[j] = job[j].author
  <1>1. job'[j] = r /\ \A k \in Jobs \ {j} : job'[k] = job[k]
    BY OneWritten
  <1>2. Claimed' = [Claimed EXCEPT ![j] = r.attempt] /\ Claimed[j] = job[j].attempt
    BY <1>1 DEF Claimed
  <1>3. Live' = [Live EXCEPT ![j] = LiveRow(r)] /\ Live[j] = LiveRow(job[j])
    BY <1>1 DEF Live, LiveRow
  <1>4. Outcome' = [Outcome EXCEPT ![j] = OutcomeOf(r)] /\ Outcome[j] = OutcomeOf(job[j])
    BY <1>1 DEF Outcome, OutcomeOf
  <1>5. Author' = [Author EXCEPT ![j] = r.author] /\ Author[j] = job[j].author
    BY <1>1 DEF Author
  <1>. QED
    BY <1>2, <1>3, <1>4, <1>5

(* A written row that promises what the old one did is a stutter. *)
LEMMA SamePromise ==
  ASSUME TablesOK, NEW j \in Jobs, NEW r, NEW a, OnlyJob(j, r, a),
         r.attempt = job[j].attempt, LiveRow(r) = LiveRow(job[j]),
         OutcomeOf(r) = OutcomeOf(job[j]), r.author = job[j].author
  PROVE  UNCHANGED PromiseVars
  <1>1. job'[j] = r /\ \A k \in Jobs \ {j} : job'[k] = job[k]
    BY OneWritten
  <1>2. \A k \in Jobs : /\ job'[k].attempt = job[k].attempt
                        /\ LiveRow(job'[k]) = LiveRow(job[k])
                        /\ OutcomeOf(job'[k]) = OutcomeOf(job[k])
                        /\ job'[k].author = job[k].author
    BY <1>1
  <1>3. UNCHANGED <<Claimed, Author>>
    BY <1>2 DEF Claimed, Author
  <1>4. UNCHANGED Live
    BY <1>2 DEF Live, LiveRow
  <1>5. UNCHANGED Outcome
    BY <1>2 DEF Outcome, OutcomeOf
  <1>. QED
    BY <1>3, <1>4, <1>5 DEF PromiseVars

LEMMA StepPromised ==
  ASSUME IInv, TableStep
  PROVE  [Promise!Next]_PromiseVars
  <1>. USE DEF IInv
  <1>1. CASE UNCHANGED rows
    BY <1>1 DEF rows, PromiseVars, Claimed, Live, Outcome, Author
  <1>2. ASSUME NEW j \in Jobs, Enqueues(j)
        PROVE  UNCHANGED PromiseVars
    <2>. DEFINE q == [job[j] EXCEPT !.status = "QUEUED"]
    <2>1. /\ q.status = "QUEUED" /\ q.attempt = job[j].attempt /\ q.author = job[j].author
          /\ job[j].status = "ABSENT" /\ OnlyJob(j, q, attempts[j])
      BY <1>2 DEF Enqueues, RowsOK, RowOK, Row
    <2>. HIDE DEF q
    <2>2. LiveRow(q) = LiveRow(job[j]) /\ OutcomeOf(q) = OutcomeOf(job[j])
      BY <2>1 DEF LiveRow, OutcomeOf
    <2>. QED
      BY <2>1, <2>2, SamePromise
  <1>3. ASSUME NEW j \in Jobs, Claiming(j)
        PROVE  Promise!Claim(j)
    <2>. DEFINE r == job[j]
                q == ClaimedRow(r)
    <2>0. r \in Row /\ RowOK(r, attempts[j])
      BY DEF RowsOK, RowOK
    <2>1. /\ r.status \in {"QUEUED", "RUNNING"} /\ (r.status = "RUNNING" => r.lease = 0)
          /\ r.deadline # 0 /\ r.deadline \in Nat
      BY <1>3, <2>0, RowFields DEF Claiming, Claimable, Open, Expired, Exhausted
    <2>2. /\ q.status = "RUNNING" /\ q.attempt = r.attempt + 1 /\ q.author = r.author
          /\ q.lease = Until(r)
      BY <2>0 DEF ClaimedRow, Row
    <2>3. Until(r) > 0
      BY <2>0, <2>1, UntilTyped
    <2>4. OnlyJob(j, q, ClaimedTries(r, attempts[j]))
      BY <1>3 DEF Claiming
    <2>. HIDE DEF r, q
    <2>5. /\ LiveRow(q) = TRUE /\ OutcomeOf(q) = "OPEN"
          /\ LiveRow(r) = FALSE /\ OutcomeOf(r) = "OPEN"
      BY <2>1, <2>2, <2>3 DEF LiveRow, OutcomeOf
    <2>6. /\ Claimed' = [Claimed EXCEPT ![j] = r.attempt + 1] /\ Claimed[j] = r.attempt
          /\ Live' = [Live EXCEPT ![j] = TRUE] /\ ~Live[j]
          /\ Outcome' = [Outcome EXCEPT ![j] = "OPEN"] /\ Outcome[j] = "OPEN"
          /\ Author' = [Author EXCEPT ![j] = r.author] /\ Author[j] = r.author
      BY <2>2, <2>4, <2>5, Mapped DEF r
    <2>7. UNCHANGED <<Outcome, Author>>
      BY <2>6 DEF Outcome, Author
    <2>. QED
      BY <2>6, <2>7 DEF Promise!Claim
  <1>4. ASSUME NEW j \in Jobs, Requeues(j)
        PROVE  Promise!Lapse
    <2>. DEFINE r == job[j]
                q == Requeued(r)
    <2>1. /\ q.status = "QUEUED" /\ q.attempt = r.attempt /\ q.author = r.author
          /\ r.status = "RUNNING" /\ OnlyJob(j, q, Closed(r, attempts[j], "FAILED"))
      BY <1>4 DEF Requeues, Requeued, RowsOK, RowOK, Row
    <2>. HIDE DEF r, q
    <2>2. /\ LiveRow(q) = FALSE /\ OutcomeOf(q) = "OPEN" /\ OutcomeOf(r) = "OPEN"
      BY <2>1 DEF LiveRow, OutcomeOf
    <2>3. /\ Claimed' = [Claimed EXCEPT ![j] = r.attempt] /\ Claimed[j] = r.attempt
          /\ Live' = [Live EXCEPT ![j] = FALSE]
          /\ Outcome' = [Outcome EXCEPT ![j] = "OPEN"] /\ Outcome[j] = "OPEN"
          /\ Author' = [Author EXCEPT ![j] = r.author] /\ Author[j] = r.author
      BY <2>1, <2>2, Mapped DEF r
    <2>4. UNCHANGED <<Claimed, Outcome, Author>>
      BY <2>3 DEF Claimed, Outcome, Author
    <2>5. Live \in [Jobs -> BOOLEAN]
      BY DEF Live
    <2>. QED
      BY <2>3, <2>4, <2>5 DEF Promise!Lapse
  <1>5. ASSUME NEW j \in Jobs, Succeeds(j)
        PROVE  Promise!Publish(j)
    <2>. DEFINE r == job[j]
                q == Succeeded(r, r.attempt)
    <2>1. /\ q.status = "SUCCEEDED" /\ q.attempt = r.attempt /\ q.author = r.attempt
          /\ r.status = "RUNNING" /\ r.lease > 0
          /\ OnlyJob(j, q, Closed(r, attempts[j], "SUCCEEDED"))
      BY <1>5 DEF Succeeds, Owned, Succeeded, RowsOK, RowOK, Row
    <2>. HIDE DEF r, q
    <2>2. /\ LiveRow(q) = FALSE /\ OutcomeOf(q) = "PUBLISHED"
          /\ LiveRow(r) = TRUE /\ OutcomeOf(r) = "OPEN"
      BY <2>1 DEF LiveRow, OutcomeOf
    <2>3. /\ Claimed' = [Claimed EXCEPT ![j] = r.attempt] /\ Claimed[j] = r.attempt
          /\ Live' = [Live EXCEPT ![j] = FALSE] /\ Live[j]
          /\ Outcome' = [Outcome EXCEPT ![j] = "PUBLISHED"] /\ Outcome[j] = "OPEN"
          /\ Author' = [Author EXCEPT ![j] = r.attempt]
      BY <2>1, <2>2, Mapped DEF r
    <2>4. UNCHANGED Claimed
      BY <2>3 DEF Claimed
    <2>. QED
      BY <2>3, <2>4 DEF Promise!Publish
  <1>6. ASSUME NEW j \in Jobs, Renews(j)
        PROVE  UNCHANGED PromiseVars
    <2>. DEFINE q == [job[j] EXCEPT !.lease = Until(job[j])]
    <2>0. job[j] \in Row
      BY DEF RowsOK, RowOK
    <2>1. /\ q.status = job[j].status /\ q.attempt = job[j].attempt /\ q.author = job[j].author
          /\ q.lease = Until(job[j]) /\ OnlyJob(j, q, attempts[j])
          /\ job[j].status = "RUNNING" /\ job[j].lease > 0 /\ job[j].deadline > 0
      BY <1>6, <2>0 DEF Renews, Owned, Row
    <2>. HIDE DEF q
    <2>2. q.lease > 0
      BY <2>0, <2>1, UntilTyped
    <2>3. LiveRow(q) = LiveRow(job[j]) /\ OutcomeOf(q) = OutcomeOf(job[j])
      BY <2>1, <2>2 DEF LiveRow, OutcomeOf
    <2>. QED
      BY <2>1, <2>3, SamePromise
  <1>7. ASSUME NEW j \in Jobs, NEW points \in {"FAILED", "TIMEOUT"}, Fails(j, points)
        PROVE  Promise!Fail(j)
    <2>. DEFINE r == job[j]
                q == Failed(r, points)
    <2>1. /\ q.status = "FAILED" /\ q.attempt = r.attempt /\ q.author = r.author
          /\ r.status \in {"QUEUED", "RUNNING"}
          /\ OnlyJob(j, q, Closed(r, attempts[j], "FAILED"))
      BY <1>7 DEF Fails, Failed, RowsOK, RowOK, Row
    <2>. HIDE DEF r, q
    <2>2. LiveRow(q) = FALSE /\ OutcomeOf(q) = "FAILED" /\ OutcomeOf(r) = "OPEN"
      BY <2>1 DEF LiveRow, OutcomeOf
    <2>3. /\ Claimed' = [Claimed EXCEPT ![j] = r.attempt] /\ Claimed[j] = r.attempt
          /\ Live' = [Live EXCEPT ![j] = FALSE]
          /\ Outcome' = [Outcome EXCEPT ![j] = "FAILED"] /\ Outcome[j] = "OPEN"
          /\ Author' = [Author EXCEPT ![j] = r.author] /\ Author[j] = r.author
      BY <2>1, <2>2, Mapped DEF r
    <2>4. UNCHANGED <<Claimed, Author>>
      BY <2>3 DEF Claimed, Author
    <2>. QED
      BY <2>3, <2>4 DEF Promise!Fail
  <1>8. CASE Ticks
    <2>1. ASSUME NEW j \in Jobs
          PROVE  /\ job'[j].status = job[j].status /\ job'[j].attempt = job[j].attempt
                 /\ job'[j].author = job[j].author
                 /\ job'[j].lease > 0 => job[j].lease > 0
      <3>1. job[j] \in Row /\ job[j].lease \in Nat
        BY RowFields DEF RowsOK, RowOK
      <3>2. job'[j] \in {job[j], [job[j] EXCEPT !.lease = Less(@), !.deadline = Less(@)]}
        BY <1>8 DEF Ticks
      <3>3. Less(job[j].lease) > 0 => job[j].lease > 0
        BY <3>1 DEF Less
      <3>. QED
        BY <3>1, <3>2, <3>3 DEF Row
    <2>2. UNCHANGED <<Claimed, Outcome, Author>>
      BY <2>1 DEF Claimed, Outcome, Author
    <2>3. Live' \in [Jobs -> BOOLEAN] /\ \A j \in Jobs : Live'[j] => Live[j]
      BY <2>1 DEF Live
    <2>4. Promise!Lapse
      BY <2>2, <2>3 DEF Promise!Lapse
    <2>. QED
      BY <2>4 DEF Promise!Next
  <1>. QED
    BY <1>1, <1>2, <1>3, <1>4, <1>5, <1>6, <1>7, <1>8 DEF TableStep, Promise!Next

(* No claim is issued under a live lease, no expired lease is revived, only *)
(* the last claim publishes while its lease lives, and settled jobs stay    *)
(* (claimNext, renew, persist, release and reject of                        *)
(* scenario-lease.service.js).                                              *)
THEOREM QueueIsLeasedJob == Spec => ImplementsLeasedJob
  <1>1. IInv /\ [Next]_vars => [Promise!Next]_PromiseVars
    BY StepsOfTables, StepPromised
  <1>. QED
    BY <1>1, InitPromised, QueueInvariant, PTL
    DEF Spec, ImplementsLeasedJob, Promise!Spec, PromiseVars
=============================================================================
