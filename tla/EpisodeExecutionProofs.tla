----------------------- MODULE EpisodeExecutionProofs -----------------------
(* Proofs about EpisodeExecution, for any number of episodes, workers,      *)
(* requests, attempts and steps, any lease and any skew of the clocks, and  *)
(* about EngineStream, how a worker reads its engine.                       *)
EXTENDS EpisodeExecution, EngineStream, FiniteSetTheorems, SequenceTheorems, TLAPS

-----------------------------------------------------------------------------
(* The inductive invariant.                                                 *)

(* What a transaction may do to a row: the next attempt, or the next status *)
(* of this one.                                                             *)
Changes(r, n) ==
  \/ /\ r.status = "FAILED" /\ n.status = "PENDING"
     /\ n.attempt = r.attempt + 1 /\ n.steps = 0
  \/ /\ n.attempt = r.attempt /\ n.steps = r.steps
     /\ \/ r.status = "PENDING" /\ n.status \in {"RUNNING", "CANCELLED"}
        \/ r.status = "RUNNING" /\ n.status \in {"COMPLETED", "FAILED"}

(* A lease token names the worker that claimed the attempt of its row.      *)
TokenOK(r) == r.status = "RUNNING" => r.token \in Token /\ r.token[2] = r.attempt

IsTx(t) ==
  /\ t = [phase |-> t.phase, rows |-> t.rows, next |-> t.next, sync |-> t.sync]
  /\ t.phase = "none" => t = NoTx
  /\ t.phase # "none" => DOMAIN t.rows # {}

(* Open transactions hold different rows, which have not changed since they  *)
(* were read.                                                                *)
LocksInv ==
  /\ \A a \in Actors : IsTx(tx[a])
  /\ \A a, b \in Actors : a # b => DOMAIN tx[a].rows \cap DOMAIN tx[b].rows = {}
  /\ \A a \in Actors : \A e \in DOMAIN tx[a].rows :
       Changes(episodes[e], tx[a].rows[e]) /\ TokenOK(tx[a].rows[e])

(* What the transaction of a client does, and that of a worker, which is     *)
(* where its transaction has to be committed.                                *)
ClientWrites(rows) ==
  \E e \in Episodes :
    DOMAIN rows = {e} /\ rows[e].status \in {"PENDING", "CANCELLED"}

WorkerWrites(w, rows) ==
  \/ /\ pc[w] = "poll"
     /\ \A e \in DOMAIN rows :
          rows[e].status = "FAILED" /\ episodes[e].status = "RUNNING" /\ Expired(w, e)
  \/ /\ pc[w] = "claim"
     /\ \E e \in Episodes :
          /\ DOMAIN rows = {e} /\ rows[e].status = "RUNNING"
          /\ rows[e].token = <<w, rows[e].attempt>>
  \/ /\ pc[w] \in {"finish", "fail"}
     /\ LET e == job[w].episode IN
        /\ DOMAIN rows = {e} /\ rows[e].status \in {"COMPLETED", "FAILED"}
        /\ episodes[e].status = "RUNNING"
        /\ episodes[e].attempt = job[w].attempt /\ episodes[e].token = job[w].token

ClientTx(c) == tx[c] # NoTx => ClientWrites(tx[c].rows)
WorkerTx(w) == tx[w] # NoTx => WorkerWrites(w, tx[w].rows)

TransactionsInv == (\A c \in Clients : ClientTx(c)) /\ (\A w \in Workers : WorkerTx(w))

(* A worker holds a claim while it runs; the attempt it claimed is never      *)
(* queued again.                                                              *)
HeldOK(w, j, rows) ==
  LET r == rows[j.episode] IN
  /\ j.token = <<w, j.attempt>>
  /\ r.status # "NONE" /\ j.attempt <= r.attempt
  /\ j.attempt = r.attempt =>
       /\ r.status # "PENDING"
       /\ r.status = "RUNNING" => r.token = j.token

JobOK(w) ==
  /\ job[w] = None <=> pc[w] \in {"poll", "claim", "down"}
  /\ job[w] # None => HeldOK(w, job[w], episodes)

JobsInv == (\A w \in Workers : JobOK(w)) /\ AttemptsAreExclusive

(* The stored results of an episode. *)
StepsOK(e) ==
  /\ Len(steps[e][episodes[e].attempt]) = episodes[e].steps
  /\ \A a \in Attempts :
       /\ a > episodes[e].attempt => steps[e][a] = <<>>
       /\ \A i, j \in DOMAIN steps[e][a] : steps[e][a][i] = steps[e][a][j]
  /\ episodes[e].status = "RUNNING" =>
       \A i \in DOMAIN steps[e][episodes[e].attempt] :
         steps[e][episodes[e].attempt][i] = episodes[e].token[1]
  /\ episodes[e].status \in {"NONE", "PENDING"} => episodes[e].steps = 0
  /\ episodes[e].status = "NONE" => episodes[e].attempt = 1

SummaryOK(e) ==
  \A a \in Attempts :
    /\ summaries[e][a] # None <=> episodes[e].status = "COMPLETED" /\ episodes[e].attempt = a
    /\ summaries[e][a] # None => summaries[e][a] = Len(steps[e][a])

ResultsInv == \A e \in Episodes : TokenOK(episodes[e]) /\ StepsOK(e) /\ SummaryOK(e)

(* The queue holds each PENDING episode, once. *)
QueueInv ==
  /\ \A i \in DOMAIN queue : episodes[queue[i]].status = "PENDING"
  /\ \A i, j \in DOMAIN queue : queue[i] = queue[j] => i = j

ReadyInv == \A e \in Episodes : episodes[e].status = "NONE" <=> experiment = "READY"

Inv ==
  /\ TypeOK /\ LocksInv /\ TransactionsInv /\ JobsInv /\ ResultsInv /\ QueueInv /\ ReadyInv

-----------------------------------------------------------------------------
(* Facts about the state.                                                   *)

LEMMA RowFields ==
  ASSUME NEW r \in Row
  PROVE  /\ r.status \in Status /\ r.attempt \in Attempts /\ r.attempt \in Nat
         /\ r.token \in Token \cup {None} /\ r.lease \in Nat /\ r.steps \in Nat
  BY ConstantsAssumption DEF Row, Attempts

LEMMA JobFields ==
  ASSUME NEW j \in Job
  PROVE  /\ j.episode \in Episodes /\ j.attempt \in Attempts /\ j.attempt \in Nat
         /\ j.token \in Token /\ j.streamed \in Nat /\ j # None
  BY ConstantsAssumption, NullAssumption DEF Job, Attempts

LEMMA NoTxFields ==
  /\ NoTx.phase = "none" /\ NoTx.rows = <<>> /\ DOMAIN NoTx.rows = {}
  /\ NoTx.next = None /\ NoTx.sync = None
  /\ Transaction(NoTx) /\ IsTx(NoTx)
  BY DEF NoTx, Transaction, IsTx

LEMMA NewRowTyped == NewRow \in Row /\ NewRow.status = "NONE" /\ NewRow.attempt = 1 /\ NewRow.steps = 0
  BY ConstantsAssumption DEF NewRow, Row, Status, Attempts

(* The conjuncts of TypeOK that an open transaction and a running worker use. *)
LEMMA Typed ==
  ASSUME TypeOK
  PROVE  /\ \A e \in Episodes : episodes[e] \in Row
         /\ \A w \in Workers : job[w] \in Job \cup {None}
         /\ \A a \in Actors : Transaction(tx[a])
         /\ DOMAIN tx = Actors
         /\ Workers \subseteq Actors /\ Clients \subseteq Actors
  BY DEF TypeOK, Actors

LEMMA InitHolds == Init => Inv
  <1>1. SUFFICES ASSUME Init PROVE Inv
    OBVIOUS
  <1>2. TypeOK
    BY <1>1, NewRowTyped, NoTxFields, ConstantsAssumption DEF Init, TypeOK, Derived
  <1>3. LocksInv /\ TransactionsInv
    <2>1. \A a \in Actors : tx[a] = NoTx
      BY <1>1 DEF Init
    <2>. QED
      BY <2>1, NoTxFields DEF LocksInv, TransactionsInv, ClientTx, WorkerTx, Actors
  <1>4. JobsInv
    BY <1>1 DEF Init, JobsInv, JobOK, AttemptsAreExclusive
  <1>5. ResultsInv
    <2>1. ASSUME NEW e \in Episodes
          PROVE  TokenOK(episodes[e]) /\ StepsOK(e) /\ SummaryOK(e)
      <3>1. /\ episodes[e] = NewRow /\ \A a \in Attempts : steps[e][a] = <<>> /\ summaries[e][a] = None
        BY <1>1 DEF Init
      <3>2. 1 \in Attempts
        BY ConstantsAssumption DEF Attempts
      <3>. QED
        BY <3>1, <3>2, NewRowTyped DEF TokenOK, StepsOK, SummaryOK
    <2>. QED
      BY <2>1 DEF ResultsInv
  <1>6. QueueInv /\ ReadyInv
    BY <1>1, NewRowTyped DEF Init, QueueInv, ReadyInv
  <1>. QED
    BY <1>2, <1>3, <1>4, <1>5, <1>6 DEF Inv
-----------------------------------------------------------------------------
(* Steps of a worker, or of nobody, that leave the tables alone.             *)

TablesInv == ResultsInv /\ QueueInv /\ ReadyInv

LEMMA TablesKept ==
  ASSUME Inv, UNCHANGED tables
  PROVE  TablesInv'
  <1>1. episodes' = episodes /\ queue' = queue /\ experiment' = experiment
        /\ steps' = steps /\ summaries' = summaries
    BY DEF tables
  <1>. QED
    BY <1>1 DEF Inv, TablesInv, ResultsInv, TokenOK, StepsOK, SummaryOK, QueueInv, ReadyInv

(* Nothing of what a transaction or a claim relies on changes.               *)
LEMMA FlagsStep ==
  ASSUME Inv, UNCHANGED <<tables, tx, pc, job>>, TypeOK'
  PROVE  Inv'
  <1>1. episodes' = episodes /\ tx' = tx /\ pc' = pc /\ job' = job
    BY DEF tables
  <1>2. LocksInv'
    BY <1>1 DEF Inv, LocksInv
  <1>3. \A c \in Clients : ClientTx(c)'
    BY <1>1 DEF Inv, TransactionsInv, ClientTx
  <1>4. ASSUME NEW w \in Workers PROVE WorkerTx(w)'
    <2>1. WorkerTx(w)
      BY DEF Inv, TransactionsInv
    <2>. QED
      BY <1>1, <2>1 DEF WorkerTx, WorkerWrites, Expired
  <1>5. JobsInv'
    BY <1>1 DEF Inv, JobsInv, JobOK, AttemptsAreExclusive
  <1>. QED
    BY <1>2, <1>3, <1>4, <1>5, TablesKept DEF Inv, TablesInv, TransactionsInv

(* The transaction of a is gone, the others are as they were.                *)
Released(a) ==
  DOMAIN tx' = Actors /\ tx'[a] = NoTx /\ \A b \in Actors \ {a} : tx'[b] = tx[b]

LEMMA ReleasedLocks ==
  ASSUME Inv, NEW a \in Actors, Released(a), episodes' = episodes
  PROVE  LocksInv'
  <1>1. \A b \in Actors : IsTx(tx'[b]) /\ (tx'[b] = tx[b] \/ tx'[b] = NoTx)
    BY NoTxFields DEF Inv, LocksInv, Released
  <1>2. \A b \in Actors : DOMAIN tx'[b].rows \subseteq DOMAIN tx[b].rows
    BY <1>1, NoTxFields
  <1>3. \A b \in Actors : \A e \in DOMAIN tx'[b].rows : tx'[b].rows[e] = tx[b].rows[e]
    BY <1>1, NoTxFields
  <1>. QED
    BY <1>1, <1>2, <1>3 DEF Inv, LocksInv

LEMMA ReleasedTyped ==
  ASSUME TypeOK, NEW a \in Actors, Released(a)
  PROVE  DOMAIN tx' = Actors /\ \A b \in Actors : Transaction(tx'[b])
  BY NoTxFields DEF TypeOK, Released

(* A worker without a transaction goes elsewhere.                            *)
LEMMA GotoStep ==
  ASSUME Inv, UNCHANGED tables, NEW w \in Workers, Released(w), NEW l, Goto(w, l),
         \/ l \in {"poll", "down"}
         \/ l = "claim" /\ job[w] = None
         \/ l \in {"finish", "fail"} /\ job[w] # None,
         abort' \in [Workers -> BOOLEAN], stop' \in [Workers -> BOOLEAN], faults' \in Nat
  PROVE  Inv'
  <1>0. /\ w \in Actors /\ TypeOK /\ episodes' = episodes
        /\ pc' = [pc EXCEPT ![w] = l]
        /\ job' = IF l \in {"poll", "down"} THEN [job EXCEPT ![w] = None] ELSE job
        /\ job \in [Workers -> Job \cup {None}]
        /\ pc \in [Workers -> {"down", "poll", "claim", "run", "finish", "fail"}]
    BY DEF Actors, Inv, tables, Goto, TypeOK
  <1>1. job' \in [Workers -> Job \cup {None}]
    BY <1>0
  <1>2. pc' \in [Workers -> {"down", "poll", "claim", "run", "finish", "fail"}]
    BY <1>0
  <1>3. TypeOK'
    BY <1>0, <1>1, <1>2, ReleasedTyped DEF TypeOK, tables
  <1>4. \A v \in Workers \ {w} : pc'[v] = pc[v] /\ job'[v] = job[v]
    BY <1>0
  <1>5. LocksInv'
    BY <1>0, ReleasedLocks
  <1>6. TransactionsInv'
    <2>1. ASSUME NEW c \in Clients PROVE ClientTx(c)'
      <3>1. c \in Actors \ {w}
        BY ConstantsAssumption DEF Actors
      <3>2. tx'[c] = tx[c] /\ ClientTx(c)
        BY <3>1 DEF Released, Inv, TransactionsInv
      <3>. QED
        BY <3>2 DEF ClientTx, ClientWrites
    <2>2. ASSUME NEW v \in Workers PROVE WorkerTx(v)'
      <3>1. CASE v = w
        BY <3>1 DEF WorkerTx, Released
      <3>2. CASE v # w
        <4>1. tx'[v] = tx[v] /\ pc'[v] = pc[v] /\ job'[v] = job[v] /\ WorkerTx(v)
          BY <1>4, <3>2 DEF Released, Inv, TransactionsInv, Actors
        <4>. QED
          BY <1>0, <4>1 DEF WorkerTx, WorkerWrites, Expired
      <3>. QED
        BY <3>1, <3>2
    <2>. QED
      BY <2>1, <2>2 DEF TransactionsInv
  <1>7. JobsInv'
    <2>1. \A v \in Workers : job'[v] = job[v] \/ job'[v] = None
      BY <1>0
    <2>2. ASSUME NEW v \in Workers PROVE JobOK(v)'
      <3>1. JobOK(v)
        BY DEF Inv, JobsInv
      <3>2. job'[v] = None <=> pc'[v] \in {"poll", "claim", "down"}
        BY <1>0, <1>4, <3>1 DEF JobOK
      <3>. QED
        BY <1>0, <2>1, <3>1, <3>2 DEF JobOK
    <2>3. AttemptsAreExclusive'
      BY <2>1 DEF Inv, JobsInv, AttemptsAreExclusive
    <2>. QED
      BY <2>2, <2>3 DEF JobsInv
  <1>. QED
    BY <1>3, <1>5, <1>6, <1>7, TablesKept DEF Inv, TablesInv
-----------------------------------------------------------------------------
(* Transactions begin, go on and are rolled back.                            *)

(* The transactions after a step that keeps the rows of every other one.     *)
LEMMA TxStep ==
  ASSUME Inv, UNCHANGED <<tables, pc, job>>, NEW a \in Actors,
         DOMAIN tx' = Actors, \A b \in Actors \ {a} : tx'[b] = tx[b],
         IsTx(tx'[a]), Transaction(tx'[a]), tx'[a] # NoTx,
         \A e \in DOMAIN tx'[a].rows :
           /\ Changes(episodes[e], tx'[a].rows[e]) /\ TokenOK(tx'[a].rows[e])
           /\ \A b \in Actors \ {a} : e \notin DOMAIN tx[b].rows,
         a \in Clients => ClientWrites(tx'[a].rows),
         a \in Workers => WorkerWrites(a, tx'[a].rows),
         abort' \in [Workers -> BOOLEAN], stop' \in [Workers -> BOOLEAN], faults' \in Nat
  PROVE  Inv'
  <1>0. /\ TypeOK /\ episodes' = episodes /\ pc' = pc /\ job' = job
    BY DEF Inv, tables
  <1>1. TypeOK'
    BY <1>0 DEF TypeOK, tables
  <1>2. LocksInv'
    <2>1. \A b \in Actors : IsTx(tx'[b])
      BY DEF Inv, LocksInv
    <2>2. \A b, c \in Actors : b # c => DOMAIN tx'[b].rows \cap DOMAIN tx'[c].rows = {}
      BY DEF Inv, LocksInv
    <2>3. \A b \in Actors : \A e \in DOMAIN tx'[b].rows :
            Changes(episodes[e], tx'[b].rows[e]) /\ TokenOK(tx'[b].rows[e])
      BY DEF Inv, LocksInv
    <2>. QED
      BY <1>0, <2>1, <2>2, <2>3 DEF LocksInv
  <1>3. ASSUME NEW c \in Clients PROVE ClientTx(c)'
    <2>1. ClientTx(c) /\ c \in Actors
      BY DEF Inv, TransactionsInv, Actors
    <2>. QED
      BY <2>1 DEF ClientTx
  <1>4. ASSUME NEW w \in Workers PROVE WorkerTx(w)'
    <2>1. WorkerTx(w) /\ w \in Actors
      BY DEF Inv, TransactionsInv, Actors
    <2>2. w = a \/ tx'[w] = tx[w]
      BY <2>1
    <2>3. tx'[w] # NoTx => WorkerWrites(w, tx'[w].rows)
      BY <2>1, <2>2 DEF WorkerTx
    <2>. QED
      BY <1>0, <2>3 DEF WorkerTx, WorkerWrites, Expired
  <1>5. JobsInv'
    BY <1>0 DEF Inv, JobsInv, JobOK, AttemptsAreExclusive
  <1>. QED
    BY <1>1, <1>2, <1>3, <1>4, <1>5, TablesKept DEF Inv, TablesInv, TransactionsInv

(* The statement of a transaction, which leaves the memory alone.            *)
LEMMA WriteStep ==
  ASSUME Inv, NEW a \in Actors, NEW rows, Write(a, rows),
         DOMAIN rows \subseteq Episodes, DOMAIN rows # {},
         \A e \in DOMAIN rows :
           rows[e] \in Row /\ Changes(episodes[e], rows[e]) /\ TokenOK(rows[e]),
         a \in Clients => ClientWrites(rows),
         a \in Workers => WorkerWrites(a, rows)
  PROVE  Inv'
  <1>. DEFINE t == [phase |-> "written", rows |-> rows, next |-> Derive(rows), sync |-> None]
  <1>1. t.rows = rows /\ t.phase = "written" /\ t # NoTx /\ IsTx(t)
    BY DEF IsTx, NoTx
  <1>2. Transaction(t)
    BY DEF Transaction, Derive, Derived
  <1>3. /\ tx' = [tx EXCEPT ![a] = t] /\ UNCHANGED <<tables, memory, faults>>
        /\ \A e \in DOMAIN rows : Unlocked(e)
    BY DEF Write
  <1>. HIDE DEF t
  <1>4. DOMAIN tx = Actors /\ TypeOK
    BY DEF Inv, TypeOK
  <1>5. tx'[a] = t /\ DOMAIN tx' = Actors /\ \A b \in Actors \ {a} : tx'[b] = tx[b]
    BY <1>3, <1>4
  <1>6. \A e \in DOMAIN rows : \A b \in Actors : e \notin DOMAIN tx[b].rows
    BY <1>3 DEF Unlocked
  <1>7. UNCHANGED <<tables, pc, job>> /\ abort' = abort /\ stop' = stop /\ faults' = faults
    BY <1>3 DEF memory
  <1>8. abort' \in [Workers -> BOOLEAN] /\ stop' \in [Workers -> BOOLEAN] /\ faults' \in Nat
    BY <1>4, <1>7 DEF TypeOK
  <1>. QED
    BY <1>1, <1>2, <1>5, <1>6, <1>7, <1>8, TxStep

LEMMA SyncStep == ASSUME Inv, NEW a \in Actors, Sync(a) PROVE Inv'
  <1>. DEFINE old == tx[a]
              sync == IF old.next = experiment THEN None ELSE old.next
              t == [phase |-> "synced", rows |-> old.rows, next |-> old.next, sync |-> sync]
  <1>1. /\ TypeOK /\ DOMAIN tx = Actors /\ IsTx(old) /\ Transaction(old)
        /\ old.phase = "written" /\ UNCHANGED <<tables, memory, faults>>
        /\ tx' = [tx EXCEPT ![a].phase = "synced", ![a].sync = sync]
    BY DEF Inv, LocksInv, TypeOK, Sync
  <1>2. old # NoTx /\ DOMAIN old.rows # {}
    BY <1>1, NoTxFields DEF IsTx
  <1>3. t.rows = old.rows /\ t.phase = "synced" /\ t # NoTx /\ IsTx(t) /\ Transaction(t)
    <2>1. t.rows = old.rows /\ t.phase = "synced" /\ t.next = old.next /\ t.sync = sync
      OBVIOUS
    <2>2. t # NoTx
      BY NoTxFields
    <2>3. IsTx(t)
      BY <1>2, <2>1 DEF IsTx
    <2>. QED
      BY <1>1, <2>1, <2>2, <2>3 DEF Transaction
  <1>4. tx'[a] = t /\ DOMAIN tx' = Actors /\ \A b \in Actors \ {a} : tx'[b] = tx[b]
    <2>1. tx' = [tx EXCEPT ![a] = [old EXCEPT !.phase = "synced", !.sync = sync]]
      BY <1>1
    <2>2. [old EXCEPT !.phase = "synced", !.sync = sync] = t
      <3>. DEFINE u == [old EXCEPT !.phase = "synced"]
      <3>. HIDE DEF old, sync
      <3>1. u = [phase |-> "synced", rows |-> old.rows, next |-> old.next, sync |-> old.sync]
        BY <1>1 DEF IsTx
      <3>2. [old EXCEPT !.phase = "synced", !.sync = sync] = [u EXCEPT !.sync = sync]
        OBVIOUS
      <3>. HIDE DEF u
      <3>. QED
        BY <3>1, <3>2
    <2>. HIDE DEF t, old, sync
    <2>3. tx' = [tx EXCEPT ![a] = t]
      BY <2>1, <2>2
    <2>. QED
      BY <1>1, <2>3
  <1>5. /\ \A e \in DOMAIN old.rows :
             /\ Changes(episodes[e], old.rows[e]) /\ TokenOK(old.rows[e])
             /\ \A b \in Actors \ {a} : e \notin DOMAIN tx[b].rows
        /\ a \in Clients => ClientWrites(old.rows)
        /\ a \in Workers => WorkerWrites(a, old.rows)
    BY <1>2 DEF Inv, LocksInv, TransactionsInv, ClientTx, WorkerTx
  <1>6. UNCHANGED <<tables, pc, job>> /\ abort' = abort /\ stop' = stop /\ faults' = faults
    BY <1>1 DEF memory
  <1>7. abort' \in [Workers -> BOOLEAN] /\ stop' \in [Workers -> BOOLEAN] /\ faults' \in Nat
    BY <1>1, <1>6 DEF TypeOK
  <1>. HIDE DEF t, old
  <1>. QED
    BY <1>3, <1>4, <1>5, <1>6, <1>7, TxStep

LEMMA DiscardReleases ==
  ASSUME TypeOK, NEW a \in Actors, Discard(a)
  PROVE  Released(a) /\ UNCHANGED tables
  BY DEF TypeOK, Discard, Released

LEMMA ClientRollsBackStep == ASSUME Inv, NEW c \in Clients, ClientRollsBack(c) PROVE Inv'
  <1>1. /\ TypeOK /\ c \in Actors /\ Released(c) /\ UNCHANGED tables /\ UNCHANGED memory
        /\ faults' \in Nat /\ episodes' = episodes /\ pc' = pc /\ job' = job
    BY DiscardReleases DEF Inv, Actors, ClientRollsBack, Fault, TypeOK, memory, tables
  <1>2. TypeOK'
    BY <1>1, ReleasedTyped DEF TypeOK, tables, memory
  <1>3. LocksInv'
    BY <1>1, ReleasedLocks
  <1>4. ASSUME NEW d \in Clients PROVE ClientTx(d)'
    <2>1. ClientTx(d) /\ (tx'[d] = tx[d] \/ tx'[d] = NoTx)
      BY <1>1 DEF Inv, TransactionsInv, Released, Actors
    <2>. QED
      BY <2>1 DEF ClientTx
  <1>5. ASSUME NEW w \in Workers PROVE WorkerTx(w)'
    <2>1. WorkerTx(w) /\ (tx'[w] = tx[w] \/ tx'[w] = NoTx)
      BY <1>1 DEF Inv, TransactionsInv, Released, Actors
    <2>. QED
      BY <1>1, <2>1 DEF WorkerTx, WorkerWrites, Expired
  <1>6. JobsInv'
    BY <1>1 DEF Inv, JobsInv, JobOK, AttemptsAreExclusive
  <1>. QED
    BY <1>1, <1>2, <1>3, <1>4, <1>5, <1>6, TablesKept DEF Inv, TablesInv, TransactionsInv
-----------------------------------------------------------------------------
(* A worker stores a step or renews its lease.                               *)

SameStatus ==
  \A e \in Episodes :
    /\ episodes'[e].status = episodes[e].status /\ episodes'[e].attempt = episodes[e].attempt
    /\ episodes'[e].token = episodes[e].token

LEMMA SameStatusKeeps ==
  ASSUME Inv, SameStatus, queue' = queue, experiment' = experiment
  PROVE  /\ QueueInv' /\ ReadyInv'
         /\ \A w \in Workers : job[w] # None => HeldOK(w, job[w], episodes')
  <1>1. \A i \in DOMAIN queue : queue[i] \in Episodes
    BY DEF Inv, TypeOK
  <1>2. QueueInv' /\ ReadyInv'
    BY <1>1 DEF Inv, QueueInv, ReadyInv, SameStatus
  <1>3. ASSUME NEW w \in Workers, job[w] # None PROVE HeldOK(w, job[w], episodes')
    <2>1. job[w].episode \in Episodes /\ HeldOK(w, job[w], episodes)
      BY <1>3, Typed, JobFields DEF Inv, JobsInv, JobOK
    <2>. QED
      BY <2>1 DEF HeldOK, SameStatus
  <1>. QED
    BY <1>2, <1>3

(* What a worker's open transaction writes stays what the position of the     *)
(* worker allows, while its rows are not touched.                             *)
LEMMA WritesKept ==
  ASSUME NEW w \in Workers, WorkerTx(w),
         tx'[w] = tx[w], pc'[w] = pc[w], job'[w] = job[w],
         \A e \in DOMAIN tx[w].rows : episodes'[e] = episodes[e]
  PROVE  WorkerTx(w)'
  <1>1. \A e \in DOMAIN tx[w].rows :
          /\ episodes'[e].status = episodes[e].status
          /\ episodes'[e].attempt = episodes[e].attempt
          /\ episodes'[e].token = episodes[e].token
          /\ Expired(w, e) => Expired(w, e)'
    BY DEF Expired
  <1>2. ASSUME tx[w] # NoTx PROVE WorkerWrites(w, tx[w].rows)'
    <2>1. WorkerWrites(w, tx[w].rows)
      BY <1>2 DEF WorkerTx
    <2>2. CASE pc[w] = "poll"
      BY <1>1, <2>1, <2>2 DEF WorkerWrites
    <2>3. CASE pc[w] = "claim"
      BY <2>1, <2>3 DEF WorkerWrites
    <2>4. CASE pc[w] \in {"finish", "fail"}
      <3>. DEFINE e == job[w].episode
      <3>1. /\ DOMAIN tx[w].rows = {e} /\ tx[w].rows[e].status \in {"COMPLETED", "FAILED"}
            /\ episodes[e].status = "RUNNING"
            /\ episodes[e].attempt = job[w].attempt /\ episodes[e].token = job[w].token
        BY <2>1, <2>4 DEF WorkerWrites
      <3>. HIDE DEF e
      <3>2. /\ episodes'[e].status = "RUNNING"
            /\ episodes'[e].attempt = job[w].attempt /\ episodes'[e].token = job[w].token
        BY <1>1, <3>1
      <3>. QED
        BY <2>4, <3>1, <3>2 DEF WorkerWrites, e
    <2>. QED
      BY <2>1, <2>2, <2>3, <2>4 DEF WorkerWrites
  <1>. QED
    BY <1>2 DEF WorkerTx

LEMMA RowStep ==
  ASSUME Inv, SameStatus, UNCHANGED <<queue, experiment, tx>>, TypeOK', ResultsInv',
         \A a \in Actors : \A e \in DOMAIN tx[a].rows : episodes'[e] = episodes[e],
         \A v \in Workers :
           \/ pc'[v] = pc[v] /\ job'[v] = job[v]
           \/ /\ tx[v] = NoTx /\ job[v] # None /\ job'[v] # None
              /\ job'[v].episode = job[v].episode /\ job'[v].attempt = job[v].attempt
              /\ job'[v].token = job[v].token /\ pc'[v] \notin {"poll", "claim", "down"}
  PROVE  Inv'
  <1>1. LocksInv'
    BY DEF Inv, LocksInv
  <1>2. ASSUME NEW c \in Clients PROVE ClientTx(c)'
    BY DEF Inv, TransactionsInv, ClientTx
  <1>3. ASSUME NEW w \in Workers PROVE WorkerTx(w)'
    <2>1. SUFFICES ASSUME tx[w] # NoTx PROVE WorkerTx(w)'
      BY DEF WorkerTx
    <2>2. /\ WorkerTx(w) /\ pc'[w] = pc[w] /\ job'[w] = job[w] /\ tx'[w] = tx[w]
          /\ \A e \in DOMAIN tx[w].rows : episodes'[e] = episodes[e]
      BY <2>1 DEF Inv, TransactionsInv, Actors
    <2>. QED
      BY <2>2, WritesKept
  <1>4. JobsInv'
    <2>1. ASSUME NEW w \in Workers PROVE JobOK(w)'
      <3>1. JobOK(w) /\ (job[w] # None => HeldOK(w, job[w], episodes'))
        BY SameStatusKeeps DEF Inv, JobsInv
      <3>2. CASE pc'[w] = pc[w] /\ job'[w] = job[w]
        BY <3>1, <3>2 DEF JobOK
      <3>3. CASE /\ job[w] # None /\ job'[w] # None
                 /\ job'[w].episode = job[w].episode /\ job'[w].attempt = job[w].attempt
                 /\ job'[w].token = job[w].token /\ pc'[w] \notin {"poll", "claim", "down"}
        BY <3>1, <3>3 DEF JobOK, HeldOK
      <3>. QED
        BY <3>2, <3>3
    <2>2. AttemptsAreExclusive'
      BY DEF Inv, JobsInv, AttemptsAreExclusive
    <2>. QED
      BY <2>1, <2>2 DEF JobsInv
  <1>. QED
    BY <1>1, <1>2, <1>3, <1>4, SameStatusKeeps DEF Inv, TransactionsInv

(* A worker that streams has no transaction, and what it holds is a claim.   *)
LEMMA Running ==
  ASSUME Inv, NEW w \in Workers, pc[w] = "run"
  PROVE  /\ tx[w] = NoTx /\ job[w] \in Job /\ job[w] # None
         /\ job[w].episode \in Episodes /\ job[w].attempt \in Attempts
         /\ job[w].streamed \in Nat /\ job[w].token = <<w, job[w].attempt>>
         /\ episodes[job[w].episode] \in Row
  <1>1. tx[w] = NoTx
    BY DEF Inv, TransactionsInv, WorkerTx, WorkerWrites
  <1>2. job[w] # None /\ job[w].token = <<w, job[w].attempt>>
    BY DEF Inv, JobsInv, JobOK, HeldOK
  <1>. QED
    BY <1>1, <1>2, Typed, JobFields DEF Inv

(* The rows and results after persistStep. *)
LEMMA StoreStepRows ==
  ASSUME Inv, NEW w \in Workers, StoreStep(w)
  PROVE  /\ episodes' \in [Episodes -> Row] /\ SameStatus /\ ResultsInv'
         /\ steps' \in [Episodes -> [Attempts -> Seq(Workers)]]
         /\ \A a \in Actors : \A e \in DOMAIN tx[a].rows : episodes'[e] = episodes[e]
  <1>. DEFINE e == job[w].episode
              a == job[w].attempt
              n == [episodes[e] EXCEPT !.steps = job[w].streamed + 1]
              s == Append(steps[e][a], w)
  <1>0. /\ TypeOK /\ pc[w] = "run" /\ Unlocked(e) /\ Owns(w)
        /\ episodes[e].steps = job[w].streamed
        /\ episodes' = [episodes EXCEPT ![e].steps = job[w].streamed + 1]
        /\ steps' = [steps EXCEPT ![e][a] = Append(@, w)] /\ summaries' = summaries
    BY DEF StoreStep, Inv
  <1>1. /\ e \in Episodes /\ a \in Attempts /\ job[w].streamed \in Nat
        /\ job[w].token = <<w, a>> /\ episodes[e] \in Row
    BY <1>0, Running
  <1>2. /\ episodes[e].status = "RUNNING" /\ episodes[e].attempt = a
        /\ episodes[e].token = <<w, a>> /\ episodes[e].token[1] = w
    <2>1. Owns(w) /\ job[w].token = <<w, a>>
      BY <1>0, <1>1
    <2>. QED
      BY <2>1 DEF Owns
  <1>. HIDE DEF e, a
  <1>3. /\ n \in Row /\ n.status = "RUNNING" /\ n.attempt = a
        /\ n.token = episodes[e].token /\ n.steps = episodes[e].steps + 1
    <2>. DEFINE r == episodes[e]
    <2>1. r \in Row /\ r.status = "RUNNING" /\ r.attempt = a /\ r.steps = job[w].streamed
          /\ job[w].streamed + 1 \in Nat
      BY <1>0, <1>1, <1>2 DEF e
    <2>. HIDE DEF r
    <2>2. LET m == [r EXCEPT !.steps = job[w].streamed + 1] IN
          m \in Row /\ m.status = "RUNNING" /\ m.attempt = a
          /\ m.token = r.token /\ m.steps = r.steps + 1
      BY <2>1 DEF Row
    <2>. QED
      BY <2>2 DEF r
  <1>4. episodes' = [episodes EXCEPT ![e] = n] /\ episodes \in [Episodes -> Row]
    BY <1>0 DEF e, TypeOK
  <1>5. /\ steps \in [Episodes -> [Attempts -> Seq(Workers)]] /\ s \in Seq(Workers)
        /\ steps' = [steps EXCEPT ![e] = [steps[e] EXCEPT ![a] = s]]
    <2>1. steps \in [Episodes -> [Attempts -> Seq(Workers)]]
      BY <1>0 DEF TypeOK
    <2>2. steps[e][a] \in Seq(Workers)
      BY <1>1, <2>1
    <2>3. s \in Seq(Workers)
      BY <2>2, AppendProperties
    <2>. QED
      BY <1>0, <2>1, <2>3 DEF e, a
  <1>6. /\ s # <<>> /\ Len(s) = Len(steps[e][a]) + 1
        /\ \A i \in DOMAIN s : (i \in DOMAIN steps[e][a] /\ s[i] = steps[e][a][i]) \/ s[i] = w
    <2>1. steps[e][a] \in Seq(Workers)
      BY <1>1, <1>5
    <2>. QED
      BY <2>1, AppendProperties
  <1>. HIDE DEF n, s
  <1>7. /\ episodes' \in [Episodes -> Row] /\ episodes'[e] = n
        /\ \A d \in Episodes \ {e} : episodes'[d] = episodes[d]
    BY <1>1, <1>3, <1>4
  <1>8. /\ steps' \in [Episodes -> [Attempts -> Seq(Workers)]]
        /\ steps'[e][a] = s /\ \A b \in Attempts \ {a} : steps'[e][b] = steps[e][b]
        /\ \A d \in Episodes \ {e} : steps'[d] = steps[d]
    BY <1>1, <1>5
  <1>9. SameStatus
    BY <1>2, <1>3, <1>7 DEF SameStatus
  <1>10. ASSUME NEW d \in Episodes
         PROVE  TokenOK(episodes[d])' /\ StepsOK(d)' /\ SummaryOK(d)'
    <2>1. TokenOK(episodes[d]) /\ StepsOK(d) /\ SummaryOK(d)
      BY DEF Inv, ResultsInv
    <2>2. CASE d # e
      <3>1. episodes'[d] = episodes[d] /\ steps'[d] = steps[d] /\ summaries'[d] = summaries[d]
        BY <1>0, <1>7, <1>8, <2>2
      <3>. QED
        BY <2>1, <3>1 DEF TokenOK, StepsOK, SummaryOK
    <2>3. CASE d = e
      <3>1. TokenOK(n)
        BY <1>2, <1>3, <2>1, <2>3 DEF TokenOK
      <3>2. Len(steps[e][a]) = episodes[e].steps
            /\ \A i \in DOMAIN steps[e][a] : steps[e][a][i] = w
        BY <1>2, <2>1, <2>3 DEF StepsOK
      <3>3. \A i \in DOMAIN s : s[i] = w
        BY <1>6, <3>2
      <3>4. Len(s) = n.steps /\ n.token[1] = w
        BY <1>2, <1>3, <1>6, <3>2
      <3>5. ASSUME NEW b \in Attempts
            PROVE  /\ b > a => steps'[e][b] = <<>>
                   /\ \A i, j \in DOMAIN steps'[e][b] : steps'[e][b][i] = steps'[e][b][j]
        <4>1. CASE b = a
          <5>1. ~(b > a)
            BY <1>1, <4>1 DEF Attempts
          <5>. QED
            BY <1>8, <3>3, <4>1, <5>1
        <4>2. CASE b # a
          <5>1. steps'[e][b] = steps[e][b]
            BY <1>8, <4>2
          <5>2. /\ b > a => steps[e][b] = <<>>
                /\ \A i, j \in DOMAIN steps[e][b] : steps[e][b][i] = steps[e][b][j]
            BY <1>2, <2>1, <2>3 DEF StepsOK
          <5>. QED
            BY <5>1, <5>2
        <4>. QED
          BY <4>1, <4>2
      <3>6. StepsOK(d)'
        BY <1>3, <1>7, <1>8, <2>3, <3>3, <3>4, <3>5 DEF StepsOK
      <3>7. SummaryOK(d)'
        <4>1. \A b \in Attempts : summaries[e][b] = None
          BY <1>2, <2>1, <2>3 DEF SummaryOK
        <4>. QED
          BY <1>0, <1>3, <1>7, <2>3, <4>1 DEF SummaryOK
      <3>. QED
        BY <1>7, <2>3, <3>1, <3>6, <3>7
    <2>. QED
      BY <2>2, <2>3
  <1>11. ASSUME NEW b \in Actors, NEW d \in DOMAIN tx[b].rows
         PROVE  episodes'[d] = episodes[d]
    <2>1. d \in Episodes
      BY Typed DEF Inv, Transaction
    <2>2. d # e
      BY <1>0 DEF Unlocked, e
    <2>. QED
      BY <1>7, <2>1, <2>2
  <1>. QED
    BY <1>7, <1>8, <1>9, <1>10, <1>11 DEF ResultsInv
LEMMA StepStoredStep == ASSUME Inv, NEW w \in Workers, StepStored(w) PROVE Inv'
  <1>. DEFINE j == job[w]
              n == [j EXCEPT !.streamed = @ + 1]
  <1>0. /\ TypeOK /\ StoreStep(w) /\ pc' = pc /\ faults' = faults /\ pc[w] = "run"
        /\ UNCHANGED <<experiment, queue, summaries, tx, abort, stop>>
        /\ job' = [job EXCEPT ![w].streamed = @ + 1]
    BY DEF StepStored, StoreStep, Inv
  <1>1. /\ episodes' \in [Episodes -> Row] /\ SameStatus /\ ResultsInv'
        /\ steps' \in [Episodes -> [Attempts -> Seq(Workers)]]
        /\ \A a \in Actors : \A e \in DOMAIN tx[a].rows : episodes'[e] = episodes[e]
    BY <1>0, StoreStepRows
  <1>2. tx[w] = NoTx /\ j \in Job /\ j # None
    BY <1>0, Running
  <1>3. /\ n \in Job /\ n # None /\ n.episode = j.episode /\ n.attempt = j.attempt
        /\ n.token = j.token
    <2>. HIDE DEF j
    <2>1. n \in Job /\ n.episode = j.episode /\ n.attempt = j.attempt /\ n.token = j.token
      BY <1>2 DEF Job
    <2>. QED
      BY <2>1, NullAssumption
  <1>4. job \in [Workers -> Job \cup {None}] /\ job' = [job EXCEPT ![w] = n]
    BY <1>0 DEF TypeOK
  <1>. HIDE DEF n
  <1>5. /\ job' \in [Workers -> Job \cup {None}] /\ job'[w] = n
        /\ \A v \in Workers \ {w} : job'[v] = job[v]
    BY <1>3, <1>4
  <1>6. TypeOK'
    BY <1>0, <1>1, <1>5 DEF TypeOK
  <1>7. \A v \in Workers :
          \/ pc'[v] = pc[v] /\ job'[v] = job[v]
          \/ /\ tx[v] = NoTx /\ job[v] # None /\ job'[v] # None
             /\ job'[v].episode = job[v].episode /\ job'[v].attempt = job[v].attempt
             /\ job'[v].token = job[v].token /\ pc'[v] \notin {"poll", "claim", "down"}
    BY <1>0, <1>2, <1>3, <1>5
  <1>. QED
    BY <1>0, <1>1, <1>6, <1>7, RowStep

LEMMA StepReplyLostStep == ASSUME Inv, NEW w \in Workers, StepReplyLost(w) PROVE Inv'
  <1>0. /\ TypeOK /\ StoreStep(w) /\ pc' = [pc EXCEPT ![w] = "fail"] /\ job' = job
        /\ faults' = faults + 1 /\ pc[w] = "run"
        /\ UNCHANGED <<experiment, queue, summaries, tx, abort, stop>>
    BY DEF StepReplyLost, StoreStep, Inv, Goto, Fault
  <1>1. /\ episodes' \in [Episodes -> Row] /\ SameStatus /\ ResultsInv'
        /\ steps' \in [Episodes -> [Attempts -> Seq(Workers)]]
        /\ \A a \in Actors : \A e \in DOMAIN tx[a].rows : episodes'[e] = episodes[e]
    BY <1>0, StoreStepRows
  <1>2. tx[w] = NoTx /\ job[w] # None
    BY <1>0, Running
  <1>3. TypeOK'
    BY <1>0, <1>1 DEF TypeOK
  <1>4. \A v \in Workers :
          \/ pc'[v] = pc[v] /\ job'[v] = job[v]
          \/ /\ tx[v] = NoTx /\ job[v] # None /\ job'[v] # None
             /\ job'[v].episode = job[v].episode /\ job'[v].attempt = job[v].attempt
             /\ job'[v].token = job[v].token /\ pc'[v] \notin {"poll", "claim", "down"}
    BY <1>0, <1>2 DEF TypeOK
  <1>. QED
    BY <1>0, <1>1, <1>3, <1>4, RowStep

(* Only leases change.                                                       *)
SameButLease ==
  /\ SameStatus /\ \A e \in Episodes : episodes'[e].steps = episodes[e].steps
  /\ UNCHANGED <<steps, summaries>>

LEMMA SameButLeaseResults == ASSUME Inv, SameButLease PROVE ResultsInv'
  <1>1. ASSUME NEW e \in Episodes
        PROVE  TokenOK(episodes[e])' /\ StepsOK(e)' /\ SummaryOK(e)'
    <2>1. TokenOK(episodes[e]) /\ StepsOK(e) /\ SummaryOK(e)
      BY DEF Inv, ResultsInv
    <2>2. /\ episodes'[e].status = episodes[e].status /\ episodes'[e].attempt = episodes[e].attempt
          /\ episodes'[e].token = episodes[e].token /\ episodes'[e].steps = episodes[e].steps
          /\ steps' = steps /\ summaries' = summaries
      BY DEF SameButLease, SameStatus
    <2>. QED
      BY <2>1, <2>2 DEF TokenOK, StepsOK, SummaryOK
  <1>. QED
    BY <1>1 DEF ResultsInv

LEMMA HeartbeatStep == ASSUME Inv, NEW w \in Workers, Heartbeat(w) PROVE Inv'
  <1>. DEFINE e == job[w].episode
              n == [episodes[e] EXCEPT !.lease = Lease + Skew[w]]
  <1>0. /\ TypeOK /\ pc[w] = "run" /\ Unlocked(e)
        /\ UNCHANGED <<experiment, queue, steps, summaries, tx, pc, job, stop>>
        /\ Renewed(w) \/ episodes' = episodes
        /\ abort' = abort \/ abort' = [abort EXCEPT ![w] = TRUE]
        /\ faults' = faults \/ faults' = faults + 1
    BY DEF Heartbeat, Inv, Fault
  <1>1. e \in Episodes /\ episodes[e] \in Row /\ episodes \in [Episodes -> Row]
    BY <1>0, Running DEF TypeOK
  <1>2. /\ n \in Row /\ n.status = episodes[e].status /\ n.attempt = episodes[e].attempt
        /\ n.token = episodes[e].token /\ n.steps = episodes[e].steps
    <2>. DEFINE r == episodes[e]
                l == Lease + Skew[w]
    <2>1. r \in Row /\ l \in Nat
      BY <1>1, ConstantsAssumption
    <2>. HIDE DEF r, l
    <2>2. LET m == [r EXCEPT !.lease = l] IN
          /\ m \in Row /\ m.status = r.status /\ m.attempt = r.attempt
          /\ m.token = r.token /\ m.steps = r.steps
      BY <2>1 DEF Row
    <2>. QED
      BY <2>2 DEF r, l
  <1>3. episodes' = [episodes EXCEPT ![e] = n] \/ episodes' = episodes
    BY <1>0 DEF Renewed
  <1>. HIDE DEF n
  <1>4. /\ episodes' \in [Episodes -> Row]
        /\ \A d \in Episodes \ {e} : episodes'[d] = episodes[d]
        /\ episodes'[e] = n \/ episodes'[e] = episodes[e]
    BY <1>1, <1>2, <1>3
  <1>5. SameButLease
    BY <1>0, <1>2, <1>4 DEF SameButLease, SameStatus
  <1>6. TypeOK'
    <2>1. abort' \in [Workers -> BOOLEAN]
      BY <1>0 DEF TypeOK
    <2>2. faults' \in Nat
      BY <1>0 DEF TypeOK
    <2>3. UNCHANGED <<experiment, queue, steps, summaries, tx, pc, job, stop>>
      BY <1>0
    <2>. QED
      BY <1>0, <1>4, <2>1, <2>2, <2>3 DEF TypeOK
  <1>7. ASSUME NEW a \in Actors, NEW d \in DOMAIN tx[a].rows
        PROVE  episodes'[d] = episodes[d]
    <2>1. d \in Episodes
      BY Typed DEF Inv, Transaction
    <2>2. d # e
      BY <1>0 DEF Unlocked
    <2>. QED
      BY <1>4, <2>1, <2>2
  <1>8. SameStatus /\ ResultsInv'
    BY <1>5, SameButLeaseResults DEF SameButLease
  <1>. HIDE DEF e
  <1>. QED
    BY <1>0, <1>6, <1>7, <1>8, RowStep

LEMMA OlderFields ==
  ASSUME NEW r \in Row
  PROVE  /\ Older(r) \in Row /\ Older(r).status = r.status /\ Older(r).attempt = r.attempt
         /\ Older(r).token = r.token /\ Older(r).steps = r.steps /\ Older(r).lease <= r.lease
  <1>. DEFINE l == IF r.lease = 0 THEN 0 ELSE r.lease - 1
  <1>1. l \in Nat /\ l <= r.lease
    BY RowFields
  <1>2. Older(r) = [r EXCEPT !.lease = l]
    BY DEF Older
  <1>. HIDE DEF l
  <1>. QED
    BY <1>1, <1>2 DEF Row

(* Time passes in the rows of an open transaction as well.                   *)
LEMMA TickRows ==
  ASSUME Inv, Tick, NEW a \in Actors
  PROVE  /\ tx'[a] = [phase |-> tx[a].phase, rows |-> tx'[a].rows, next |-> tx[a].next,
                      sync |-> tx[a].sync]
         /\ tx'[a].phase = tx[a].phase /\ tx'[a].next = tx[a].next
         /\ tx'[a].sync = tx[a].sync
         /\ tx'[a].rows = [e \in DOMAIN tx[a].rows |-> Older(tx[a].rows[e])]
         /\ DOMAIN tx'[a].rows = DOMAIN tx[a].rows
         /\ DOMAIN tx[a].rows \subseteq Episodes
         /\ \A e \in DOMAIN tx[a].rows :
              /\ tx[a].rows[e] \in Row /\ tx'[a].rows[e] \in Row
              /\ tx'[a].rows[e].status = tx[a].rows[e].status
              /\ tx'[a].rows[e].attempt = tx[a].rows[e].attempt
              /\ tx'[a].rows[e].token = tx[a].rows[e].token
              /\ tx'[a].rows[e].steps = tx[a].rows[e].steps
  <1>. DEFINE old == tx[a].rows
              aged == [e \in DOMAIN old |-> Older(old[e])]
  <1>1. IsTx(tx[a]) /\ Transaction(tx[a])
    BY Typed DEF Inv, LocksInv
  <1>2. tx'[a] = [tx[a] EXCEPT !.rows = aged]
    BY DEF Tick
  <1>. DEFINE rows == aged
  <1>. HIDE DEF rows
  <1>3. LET t == tx[a] IN
        [t EXCEPT !.rows = rows] = [phase |-> t.phase, rows |-> rows, next |-> t.next,
                                    sync |-> t.sync]
    BY <1>1 DEF IsTx
  <1>4. tx'[a] = [phase |-> tx[a].phase, rows |-> rows, next |-> tx[a].next,
                  sync |-> tx[a].sync]
    BY <1>2, <1>3 DEF rows
  <1>5. /\ tx'[a].phase = tx[a].phase /\ tx'[a].next = tx[a].next
        /\ tx'[a].sync = tx[a].sync /\ tx'[a].rows = rows
    BY <1>4
  <1>6. /\ DOMAIN rows = DOMAIN tx[a].rows
        /\ \A e \in DOMAIN tx[a].rows : rows[e] = Older(tx[a].rows[e])
    BY DEF rows
  <1>7. DOMAIN tx[a].rows \subseteq Episodes /\ \A e \in DOMAIN tx[a].rows : tx[a].rows[e] \in Row
    BY <1>1 DEF Transaction
  <1>8. \A e \in DOMAIN tx[a].rows :
          /\ tx'[a].rows[e] \in Row
          /\ tx'[a].rows[e].status = tx[a].rows[e].status
          /\ tx'[a].rows[e].attempt = tx[a].rows[e].attempt
          /\ tx'[a].rows[e].token = tx[a].rows[e].token
          /\ tx'[a].rows[e].steps = tx[a].rows[e].steps
    BY <1>5, <1>6, <1>7, OlderFields
  <1>. QED
    BY <1>4, <1>5, <1>6, <1>7, <1>8 DEF rows

LEMMA TickStep == ASSUME Inv, Tick PROVE Inv'
  <1>. DEFINE old(a) == tx[a].rows
              aged(a) == [e \in DOMAIN old(a) |-> Older(old(a)[e])]
  <1>0. /\ TypeOK /\ episodes' = [e \in Episodes |-> Older(episodes[e])]
        /\ tx' = [a \in Actors |-> [tx[a] EXCEPT !.rows = aged(a)]]
        /\ UNCHANGED <<experiment, queue, steps, summaries, pc, job, abort, stop, faults>>
    BY DEF Tick, Inv, memory
  <1>1. /\ episodes' \in [Episodes -> Row] /\ SameButLease
        /\ \A e \in Episodes : episodes'[e].lease <= episodes[e].lease
    <2>1. \A e \in Episodes : episodes[e] \in Row
      BY Typed, <1>0
    <2>. QED
      BY <1>0, <2>1, OlderFields DEF SameButLease, SameStatus
  <1>2. ASSUME NEW a \in Actors
        PROVE  /\ tx'[a] = [phase |-> tx[a].phase, rows |-> tx'[a].rows, next |-> tx[a].next,
                            sync |-> tx[a].sync]
               /\ tx'[a].phase = tx[a].phase /\ tx'[a].next = tx[a].next
               /\ tx'[a].sync = tx[a].sync /\ tx'[a].rows = aged(a)
               /\ DOMAIN tx'[a].rows = DOMAIN tx[a].rows
               /\ DOMAIN tx[a].rows \subseteq Episodes
               /\ \A e \in DOMAIN tx[a].rows :
                    /\ tx[a].rows[e] \in Row /\ tx'[a].rows[e] \in Row
                    /\ tx'[a].rows[e].status = tx[a].rows[e].status
                    /\ tx'[a].rows[e].attempt = tx[a].rows[e].attempt
                    /\ tx'[a].rows[e].token = tx[a].rows[e].token
                    /\ tx'[a].rows[e].steps = tx[a].rows[e].steps
    BY TickRows
  <1>. HIDE DEF aged, old
  <1>3. TypeOK'
    <2>1. DOMAIN tx' = Actors
      BY <1>0
    <2>2. ASSUME NEW a \in Actors PROVE Transaction(tx'[a])
      <3>1. Transaction(tx[a])
        BY DEF Inv, TypeOK
      <3>2. /\ tx'[a].phase = tx[a].phase /\ tx'[a].next = tx[a].next /\ tx'[a].sync = tx[a].sync
            /\ DOMAIN tx'[a].rows \subseteq Episodes
            /\ \A e \in DOMAIN tx'[a].rows : tx'[a].rows[e] \in Row
        <4>1. tx'[a].phase = tx[a].phase /\ tx'[a].next = tx[a].next /\ tx'[a].sync = tx[a].sync
          BY TickRows
        <4>2. /\ DOMAIN tx'[a].rows = DOMAIN tx[a].rows /\ DOMAIN tx[a].rows \subseteq Episodes
              /\ \A e \in DOMAIN tx[a].rows : tx'[a].rows[e] \in Row
          BY TickRows
        <4>. QED
          BY <4>1, <4>2
      <3>. QED
        BY <3>1, <3>2 DEF Transaction
    <2>. QED
      BY <1>0, <1>1, <2>1, <2>2 DEF TypeOK
  <1>4. ASSUME NEW a \in Actors
        PROVE  IsTx(tx'[a]) /\ (tx'[a] = NoTx <=> tx[a] = NoTx)
    <2>1. IsTx(tx[a])
      BY DEF Inv, LocksInv
    <2>2. CASE tx[a].phase = "none"
      <3>1. tx[a] = NoTx
        BY <2>1, <2>2 DEF IsTx
      <3>2. aged(a) = <<>>
        BY <3>1, NoTxFields DEF aged, old
      <3>3. /\ tx'[a].phase = "none" /\ tx'[a].rows = <<>> /\ tx'[a].next = None
            /\ tx'[a].sync = None
        BY <1>2, <3>1, <3>2, NoTxFields
      <3>4. tx'[a] = NoTx
        <4>. DEFINE t == tx'[a]
        <4>1. t = [phase |-> t.phase, rows |-> t.rows, next |-> t.next, sync |-> t.sync]
          <5>1. tx'[a] = [phase |-> tx[a].phase, rows |-> tx'[a].rows,
                          next |-> tx[a].next, sync |-> tx[a].sync]
            BY <1>2
          <5>2. tx'[a].phase = tx[a].phase /\ tx'[a].next = tx[a].next /\ tx'[a].sync = tx[a].sync
            BY <1>2
          <5>. QED
            BY <5>1, <5>2
        <4>2. t.phase = "none" /\ t.rows = <<>> /\ t.next = None /\ t.sync = None
          BY <3>3
        <4>. HIDE DEF t
        <4>3. t = NoTx
          BY <4>1, <4>2 DEF NoTx
        <4>. QED
          BY <4>3 DEF t
      <3>. QED
        BY <3>1, <3>4, NoTxFields
    <2>3. CASE tx[a].phase # "none"
      <3>1. DOMAIN tx'[a].rows # {} /\ tx'[a].phase # "none"
        BY <1>2, <2>1, <2>3 DEF IsTx
      <3>2. tx'[a] = [phase |-> tx'[a].phase, rows |-> tx'[a].rows, next |-> tx'[a].next,
                      sync |-> tx'[a].sync]
        BY <1>2
      <3>. QED
        BY <2>3, <3>1, <3>2, NoTxFields DEF IsTx
    <2>. QED
      BY <2>2, <2>3
  <1>5. LocksInv'
    <2>1. ASSUME NEW a \in Actors, NEW e \in DOMAIN tx'[a].rows
          PROVE  Changes(episodes'[e], tx'[a].rows[e]) /\ TokenOK(tx'[a].rows[e])
      <3>1. /\ e \in DOMAIN tx[a].rows /\ e \in Episodes
            /\ Changes(episodes[e], tx[a].rows[e]) /\ TokenOK(tx[a].rows[e])
        BY <1>2, <2>1 DEF Inv, LocksInv
      <3>2. /\ episodes'[e].status = episodes[e].status
            /\ episodes'[e].attempt = episodes[e].attempt /\ episodes'[e].steps = episodes[e].steps
        BY <1>1, <3>1 DEF SameButLease, SameStatus
      <3>. QED
        BY <1>2, <3>1, <3>2 DEF Changes, TokenOK
    <2>2. \A a, b \in Actors : a # b => DOMAIN tx'[a].rows \cap DOMAIN tx'[b].rows = {}
      BY <1>2 DEF Inv, LocksInv
    <2>. QED
      BY <1>4, <2>1, <2>2 DEF LocksInv
  <1>6. ASSUME NEW c \in Clients PROVE ClientTx(c)'
    <2>1. SUFFICES ASSUME tx'[c] # NoTx PROVE ClientWrites(tx'[c].rows)
      BY DEF ClientTx, ClientWrites
    <2>2. c \in Actors /\ ClientWrites(tx[c].rows)
      BY <1>4, <2>1 DEF Inv, TransactionsInv, ClientTx, Actors
    <2>. QED
      BY <1>2, <2>2 DEF ClientWrites
  <1>7. ASSUME NEW w \in Workers PROVE WorkerTx(w)'
    <2>1. SUFFICES ASSUME tx'[w] # NoTx PROVE WorkerWrites(w, tx[w].rows)'
      BY DEF WorkerTx
    <2>2. w \in Actors /\ WorkerWrites(w, tx[w].rows)
      BY <1>4, <2>1 DEF Inv, TransactionsInv, WorkerTx, Actors
    <2>3. \A e \in Episodes :
            /\ episodes'[e].status = episodes[e].status
            /\ episodes'[e].attempt = episodes[e].attempt
            /\ episodes'[e].token = episodes[e].token /\ episodes'[e].lease <= episodes[e].lease
            /\ episodes'[e].lease \in Nat /\ episodes[e].lease \in Nat
      BY <1>0, <1>1, Typed, RowFields DEF SameButLease, SameStatus
    <2>4. pc'[w] = pc[w] /\ job'[w] = job[w] /\ Skew[w] \in Nat
      BY <1>0, ConstantsAssumption
    <2>8. /\ DOMAIN tx'[w].rows = DOMAIN tx[w].rows /\ DOMAIN tx[w].rows \subseteq Episodes
          /\ \A e \in DOMAIN tx[w].rows :
               /\ tx'[w].rows[e].status = tx[w].rows[e].status
               /\ tx'[w].rows[e].attempt = tx[w].rows[e].attempt
               /\ tx'[w].rows[e].token = tx[w].rows[e].token
      BY <1>2, <2>2
    <2>5. CASE pc[w] = "poll"
      <3>1. \A e \in DOMAIN tx[w].rows :
              /\ tx[w].rows[e].status = "FAILED" /\ episodes[e].status = "RUNNING"
              /\ episodes[e].lease <= Skew[w]
        BY <2>2, <2>5 DEF WorkerWrites, Expired
      <3>2. \A e \in DOMAIN tx'[w].rows :
              /\ tx'[w].rows[e].status = "FAILED" /\ episodes'[e].status = "RUNNING"
              /\ episodes'[e].lease <= Skew[w]
        <4>1. ASSUME NEW e \in DOMAIN tx'[w].rows
              PROVE  /\ tx'[w].rows[e].status = "FAILED" /\ episodes'[e].status = "RUNNING"
                     /\ episodes'[e].lease <= Skew[w]
          <5>1. e \in DOMAIN tx[w].rows /\ e \in Episodes
            BY <2>8
          <5>2. tx'[w].rows[e].status = "FAILED" /\ episodes'[e].status = "RUNNING"
            BY <2>3, <2>8, <3>1, <5>1
          <5>3. episodes'[e].lease <= Skew[w]
            BY <2>3, <2>4, <3>1, <5>1
          <5>. QED
            BY <5>2, <5>3
        <4>. QED
          BY <4>1
      <3>. QED
        BY <2>4, <2>5, <3>2 DEF WorkerWrites, Expired
    <2>6. CASE pc[w] = "claim"
      <3>1. PICK e \in Episodes :
              /\ DOMAIN tx[w].rows = {e} /\ tx[w].rows[e].status = "RUNNING"
              /\ tx[w].rows[e].token = <<w, tx[w].rows[e].attempt>>
        BY <2>2, <2>6 DEF WorkerWrites
      <3>2. /\ DOMAIN tx'[w].rows = {e} /\ tx'[w].rows[e].status = "RUNNING"
            /\ tx'[w].rows[e].token = <<w, tx'[w].rows[e].attempt>>
        BY <2>8, <3>1
      <3>. QED
        BY <2>4, <2>6, <3>2 DEF WorkerWrites
    <2>7. CASE pc[w] \in {"finish", "fail"}
      <3>. DEFINE e == job[w].episode
      <3>1. /\ DOMAIN tx[w].rows = {e} /\ tx[w].rows[e].status \in {"COMPLETED", "FAILED"}
            /\ episodes[e].status = "RUNNING"
            /\ episodes[e].attempt = job[w].attempt /\ episodes[e].token = job[w].token
        BY <2>2, <2>7 DEF WorkerWrites
      <3>2. e \in Episodes
        BY <2>8, <3>1
      <3>. HIDE DEF e
      <3>3. /\ DOMAIN tx'[w].rows = {e} /\ tx'[w].rows[e].status \in {"COMPLETED", "FAILED"}
            /\ episodes'[e].status = "RUNNING"
            /\ episodes'[e].attempt = job[w].attempt /\ episodes'[e].token = job[w].token
        BY <2>3, <2>8, <3>1, <3>2
      <3>. QED
        BY <2>4, <2>7, <3>3 DEF WorkerWrites, e
    <2>. QED
      BY <2>2, <2>5, <2>6, <2>7 DEF WorkerWrites
  <1>8. JobsInv'
    <2>1. \A w \in Workers : job[w] # None => HeldOK(w, job[w], episodes')
      BY <1>0, <1>1, SameStatusKeeps DEF SameButLease
    <2>. QED
      BY <1>0, <2>1 DEF Inv, JobsInv, JobOK, AttemptsAreExclusive
  <1>. QED
    BY <1>0, <1>1, <1>3, <1>5, <1>6, <1>7, <1>8, SameStatusKeeps, SameButLeaseResults
       DEF Inv, TransactionsInv, SameButLease
-----------------------------------------------------------------------------
(* The queue after a commit.                                                 *)

LEMMA Without ==
  ASSUME NEW S, NEW q \in Seq(S), NEW i \in 1..Len(q)
  PROVE  LET r == SubSeq(q, 1, i - 1) \o SubSeq(q, i + 1, Len(q)) IN
         /\ r \in Seq(S) /\ Len(r) = Len(q) - 1
         /\ \A k \in 1..Len(r) : r[k] = IF k < i THEN q[k] ELSE q[k + 1]
  <1>. DEFINE x == SubSeq(q, 1, i - 1)
              y == SubSeq(q, i + 1, Len(q))
              r == x \o y
  <1>0. Len(q) \in Nat /\ i \in Nat /\ 1 <= i /\ i <= Len(q)
    BY LenProperties
  <1>1. x \in Seq(S) /\ Len(x) = i - 1 /\ \A k \in 1..(i - 1) : x[k] = q[k]
    BY <1>0, SubSeqProperties
  <1>2. y \in Seq(S) /\ Len(y) = Len(q) - i /\ \A k \in 1..(Len(q) - i) : y[k] = q[i + k]
    BY <1>0, SubSeqProperties
  <1>. HIDE DEF x, y
  <1>3. /\ r \in Seq(S) /\ Len(r) = Len(q) - 1
        /\ \A k \in 1..Len(r) : r[k] = IF k <= Len(x) THEN x[k] ELSE y[k - Len(x)]
    <2>1. /\ r \in Seq(S) /\ Len(r) = Len(x) + Len(y)
          /\ \A k \in 1..(Len(x) + Len(y)) : r[k] = IF k <= Len(x) THEN x[k] ELSE y[k - Len(x)]
      BY <1>1, <1>2, ConcatProperties
    <2>2. Len(x) + Len(y) = Len(q) - 1
      BY <1>0, <1>1, <1>2
    <2>. HIDE DEF r
    <2>. QED
      BY <2>1, <2>2
  <1>4. ASSUME NEW k \in 1..Len(r) PROVE r[k] = IF k < i THEN q[k] ELSE q[k + 1]
    <2>1. r[k] = (IF k <= Len(x) THEN x[k] ELSE y[k - Len(x)]) /\ k \in Nat /\ 1 <= k
          /\ k <= Len(q) - 1
      BY <1>0, <1>3
    <2>2. CASE k < i
      BY <1>0, <1>1, <2>1, <2>2
    <2>3. CASE ~(k < i)
      <3>1. k - Len(x) \in 1..(Len(q) - i) /\ ~(k <= Len(x)) /\ i + (k - Len(x)) = k + 1
        BY <1>0, <1>1, <2>1, <2>3
      <3>. QED
        BY <1>2, <2>1, <2>3, <3>1
    <2>. QED
      BY <2>2, <2>3
  <1>. QED
    BY <1>3, <1>4 DEF x, y

(* What stays queued is what was, without the rows of the transaction; what  *)
(* it queues is one of its own rows.                                         *)
LEMMA QueuedFacts ==
  ASSUME NEW q \in Seq(Episodes), \A i, j \in DOMAIN q : q[i] = q[j] => i = j,
         NEW rows,
         \/ \E e \in Episodes : DOMAIN rows = {e}
         \/ /\ \A i \in DOMAIN q : q[i] \notin DOMAIN rows
            /\ \A e \in DOMAIN rows : rows[e].status # "PENDING"
  PROVE  LET r == Queued(q, rows) IN
         /\ r \in Seq(Episodes)
         /\ \A i, j \in DOMAIN r : r[i] = r[j] => i = j
         /\ \A i \in DOMAIN r :
              \/ r[i] \notin DOMAIN rows /\ \E j \in DOMAIN q : q[j] = r[i]
              \/ r[i] \in DOMAIN rows /\ rows[r[i]].status = "PENDING"
  <1>. DEFINE r == Queued(q, rows)
              gone == {i \in DOMAIN q : q[i] \in DOMAIN rows}
              back == {e \in DOMAIN rows : rows[e].status = "PENDING"}
              g == CHOOSE j \in gone : TRUE
              b == CHOOSE e \in back : TRUE
  <1>0. DOMAIN q = 1..Len(q) /\ Len(q) \in Nat
    BY LenProperties
  <1>1. CASE gone # {}
    <2>1. g \in gone /\ g \in 1..Len(q)
      BY <1>0, <1>1
    <2>2. r = SubSeq(q, 1, g - 1) \o SubSeq(q, g + 1, Len(q))
      BY <1>1 DEF Queued
    <2>3. \A i \in DOMAIN q \ {g} : q[i] \notin DOMAIN rows
      <3>1. PICK e \in Episodes : DOMAIN rows = {e}
        BY <1>1
      <3>2. q[g] = e
        BY <2>1, <3>1
      <3>. QED
        BY <1>0, <2>1, <3>1, <3>2
    <2>. HIDE DEF r, g, gone, back
    <2>4. /\ r \in Seq(Episodes) /\ Len(r) = Len(q) - 1
          /\ \A k \in 1..Len(r) : r[k] = IF k < g THEN q[k] ELSE q[k + 1]
      BY <2>1, <2>2, Without
    <2>5. DOMAIN r = 1..Len(r)
      BY <2>4, LenProperties
    <2>. DEFINE at(k) == IF k < g THEN k ELSE k + 1
    <2>6. \A k \in DOMAIN r : at(k) \in DOMAIN q \ {g} /\ r[k] = q[at(k)]
      BY <1>0, <2>1, <2>4, <2>5
    <2>7. \A j, k \in DOMAIN r : at(j) = at(k) => j = k
      BY <1>0, <2>1, <2>4, <2>5
    <2>. HIDE DEF at
    <2>8. \A j, k \in DOMAIN r : r[j] = r[k] => j = k
      BY <2>6, <2>7
    <2>. QED
      BY <2>3, <2>4, <2>6, <2>8 DEF r
  <1>2. CASE gone = {} /\ back # {}
    <2>1. b \in back /\ r = Append(q, b)
      BY <1>2 DEF Queued
    <2>2. b \in DOMAIN rows /\ rows[b].status = "PENDING"
      BY <2>1
    <2>3. b \in Episodes /\ \A i \in DOMAIN q : q[i] \notin DOMAIN rows
      BY <1>2, <2>2
    <2>. HIDE DEF r, b, gone, back
    <2>4. /\ r \in Seq(Episodes) /\ Len(r) = Len(q) + 1
          /\ \A i \in 1..Len(q) : r[i] = q[i]
          /\ r[Len(q) + 1] = b
      BY <2>1, <2>3, AppendProperties
    <2>5. DOMAIN r = 1..(Len(q) + 1)
      BY <2>4, LenProperties
    <2>6. \A i \in DOMAIN r : (i \in DOMAIN q /\ r[i] = q[i]) \/ (i = Len(q) + 1 /\ r[i] = b)
      <3>1. \A i \in 1..(Len(q) + 1) : i \in 1..Len(q) \/ i = Len(q) + 1
        BY <1>0
      <3>. QED
        BY <1>0, <2>4, <2>5, <3>1
    <2>. QED
      BY <2>2, <2>3, <2>4, <2>6 DEF r
  <1>3. CASE gone = {} /\ back = {}
    <2>1. r = q
      BY <1>3 DEF Queued
    <2>. QED
      BY <1>3, <2>1
  <1>. QED
    BY <1>1, <1>2, <1>3
-----------------------------------------------------------------------------
(* A commit.                                                                 *)

(* Rows of the transaction are as it wrote them, the others as they were.    *)
LEMMA PublishRows ==
  ASSUME Inv, NEW a \in Actors, Publish(a)
  PROVE  /\ Released(a) /\ tx[a] # NoTx
         /\ DOMAIN tx[a].rows \subseteq Episodes /\ DOMAIN tx[a].rows # {}
         /\ episodes' \in [Episodes -> Row]
         /\ \A e \in DOMAIN tx[a].rows :
              /\ episodes'[e] = tx[a].rows[e]
              /\ tx[a].rows[e] \in Row /\ episodes[e] \in Row
              /\ Changes(episodes[e], tx[a].rows[e]) /\ TokenOK(tx[a].rows[e])
         /\ \A e \in Episodes \ DOMAIN tx[a].rows : episodes'[e] = episodes[e]
         /\ steps' = steps
  <1>. DEFINE rows == tx[a].rows
  <1>1. /\ TypeOK /\ LocksInv /\ tx[a].phase = "synced" /\ steps' = steps
        /\ tx' = [tx EXCEPT ![a] = NoTx]
        /\ episodes' = [e \in Episodes |-> IF e \in DOMAIN rows THEN rows[e] ELSE episodes[e]]
    BY DEF Inv, Publish, View
  <1>2. tx[a] # NoTx /\ DOMAIN rows # {}
    BY <1>1, NoTxFields DEF LocksInv, IsTx
  <1>3. Released(a)
    BY <1>1 DEF Released, TypeOK
  <1>4. DOMAIN rows \subseteq Episodes /\ \A e \in DOMAIN rows : rows[e] \in Row
    BY <1>1, Typed DEF Transaction
  <1>5. \A e \in Episodes : episodes[e] \in Row
    BY <1>1, Typed
  <1>6. \A e \in DOMAIN rows : Changes(episodes[e], rows[e]) /\ TokenOK(rows[e])
    BY <1>1 DEF LocksInv
  <1>. HIDE DEF rows
  <1>. QED
    BY <1>1, <1>2, <1>3, <1>4, <1>5, <1>6 DEF rows

(* The rows of a client or a claim are one; other rows are not queued.       *)
LEMMA PublishQueue ==
  ASSUME Inv, NEW a \in Actors, Publish(a)
  PROVE  queue' \in Seq(Episodes) /\ QueueInv'
  <1>. DEFINE rows == tx[a].rows
  <1>1. /\ queue \in Seq(Episodes) /\ queue' = Queued(queue, rows) /\ QueueInv
        /\ TransactionsInv
    BY DEF Inv, TypeOK, Publish
  <1>2. /\ tx[a] # NoTx
        /\ \A e \in DOMAIN rows : episodes'[e] = rows[e]
        /\ \A e \in Episodes \ DOMAIN rows : episodes'[e] = episodes[e]
        /\ DOMAIN rows \subseteq Episodes
    BY PublishRows
  <1>3. \/ \E e \in Episodes : DOMAIN rows = {e}
        \/ /\ \A i \in DOMAIN queue : queue[i] \notin DOMAIN rows
           /\ \A e \in DOMAIN rows : rows[e].status # "PENDING"
    <2>1. CASE a \in Clients
      BY <1>1, <1>2, <2>1 DEF TransactionsInv, ClientTx, ClientWrites
    <2>2. CASE a \in Workers
      <3>1. WorkerWrites(a, rows)
        BY <1>1, <1>2, <2>2 DEF TransactionsInv, WorkerTx
      <3>2. CASE pc[a] = "poll"
        <4>1. \A e \in DOMAIN rows : rows[e].status = "FAILED" /\ episodes[e].status = "RUNNING"
          BY <3>1, <3>2 DEF WorkerWrites
        <4>. QED
          BY <1>1, <4>1 DEF QueueInv
      <3>3. CASE pc[a] = "claim"
        BY <3>1, <3>3 DEF WorkerWrites
      <3>4. CASE pc[a] \in {"finish", "fail"}
        <4>1. \E e : DOMAIN rows = {e}
          BY <3>1, <3>4 DEF WorkerWrites
        <4>. QED
          BY <1>2, <4>1
      <3>. QED
        BY <3>1, <3>2, <3>3, <3>4 DEF WorkerWrites
    <2>. QED
      BY <2>1, <2>2 DEF Actors
  <1>4. \A i, j \in DOMAIN queue : queue[i] = queue[j] => i = j
    BY <1>1 DEF QueueInv
  <1>. HIDE DEF rows
  <1>5. /\ queue' \in Seq(Episodes)
        /\ \A i, j \in DOMAIN queue' : queue'[i] = queue'[j] => i = j
        /\ \A i \in DOMAIN queue' :
             \/ queue'[i] \notin DOMAIN rows /\ \E j \in DOMAIN queue : queue[j] = queue'[i]
             \/ queue'[i] \in DOMAIN rows /\ rows[queue'[i]].status = "PENDING"
    BY <1>1, <1>3, <1>4, QueuedFacts
  <1>6. \A i \in DOMAIN queue' : queue'[i] \in Episodes
    BY <1>5
  <1>7. ASSUME NEW i \in DOMAIN queue' PROVE episodes'[queue'[i]].status = "PENDING"
    <2>1. CASE queue'[i] \notin DOMAIN rows /\ \E j \in DOMAIN queue : queue[j] = queue'[i]
      BY <1>1, <1>2, <1>6, <2>1 DEF QueueInv
    <2>2. CASE queue'[i] \in DOMAIN rows /\ rows[queue'[i]].status = "PENDING"
      BY <1>2, <2>2
    <2>. QED
      BY <1>5, <2>1, <2>2
  <1>. QED
    BY <1>5, <1>7 DEF QueueInv

(* A summary is stored with the status that it completes.                    *)
LEMMA PublishResults ==
  ASSUME Inv, NEW a \in Actors, Publish(a)
  PROVE  summaries' \in [Episodes -> [Attempts -> Nat \cup {None}]] /\ ResultsInv'
  <1>. DEFINE rows == tx[a].rows
  <1>1. /\ TypeOK /\ summaries \in [Episodes -> [Attempts -> Nat \cup {None}]]
        /\ summaries' = [e \in Episodes |->
             IF e \in DOMAIN rows /\ rows[e].status = "COMPLETED"
             THEN [summaries[e] EXCEPT ![rows[e].attempt] = rows[e].steps]
             ELSE summaries[e]]
    BY DEF Inv, TypeOK, Publish
  <1>2. /\ \A e \in DOMAIN rows :
             /\ episodes'[e] = rows[e] /\ rows[e] \in Row /\ episodes[e] \in Row
             /\ Changes(episodes[e], rows[e]) /\ TokenOK(rows[e])
        /\ \A e \in Episodes \ DOMAIN rows : episodes'[e] = episodes[e]
        /\ DOMAIN rows \subseteq Episodes /\ steps' = steps
    BY PublishRows
  <1>. HIDE DEF rows
  <1>3. \A e \in DOMAIN rows : rows[e].steps \in Nat /\ rows[e].attempt \in Attempts
    BY <1>2, RowFields
  <1>4. summaries' \in [Episodes -> [Attempts -> Nat \cup {None}]]
    <2>1. ASSUME NEW e \in Episodes PROVE summaries'[e] \in [Attempts -> Nat \cup {None}]
      <3>1. summaries[e] \in [Attempts -> Nat \cup {None}]
        BY <1>1
      <3>2. CASE e \in DOMAIN rows /\ rows[e].status = "COMPLETED"
        <4>1. summaries'[e] = [summaries[e] EXCEPT ![rows[e].attempt] = rows[e].steps]
          BY <1>1, <3>2
        <4>. QED
          BY <1>3, <3>1, <3>2, <4>1
      <3>3. CASE ~(e \in DOMAIN rows /\ rows[e].status = "COMPLETED")
        BY <1>1, <3>1, <3>3
      <3>. QED
        BY <3>2, <3>3
    <2>. QED
      BY <1>1, <2>1
  <1>5. ASSUME NEW e \in Episodes
        PROVE  TokenOK(episodes[e])' /\ StepsOK(e)' /\ SummaryOK(e)'
    <2>1. TokenOK(episodes[e]) /\ StepsOK(e) /\ SummaryOK(e)
      BY DEF Inv, ResultsInv
    <2>2. CASE e \notin DOMAIN rows
      <3>1. episodes'[e] = episodes[e] /\ steps' = steps /\ summaries'[e] = summaries[e]
        BY <1>1, <1>2, <2>2
      <3>. QED
        BY <2>1, <3>1 DEF TokenOK, StepsOK, SummaryOK
    <2>3. CASE e \in DOMAIN rows
      <3>. DEFINE r == episodes[e]
                  n == rows[e]
                  s == steps[e]
      <3>1. /\ episodes'[e] = n /\ n \in Row /\ r \in Row /\ Changes(r, n) /\ TokenOK(n)
            /\ steps'[e] = s
        BY <1>2, <2>3
      <3>2. /\ r.attempt \in Attempts /\ r.attempt \in Nat /\ n.attempt \in Attempts
            /\ n.attempt \in Nat /\ r.steps \in Nat /\ n.steps \in Nat
        BY <3>1, RowFields
      <3>3. /\ Len(s[r.attempt]) = r.steps
            /\ \A b \in Attempts :
                 /\ b > r.attempt => s[b] = <<>>
                 /\ \A i, j \in DOMAIN s[b] : s[b][i] = s[b][j]
            /\ r.status = "PENDING" => r.steps = 0
        BY <2>1 DEF StepsOK
      <3>4. /\ \A b \in Attempts :
                 summaries[e][b] # None <=> r.status = "COMPLETED" /\ r.attempt = b
            /\ summaries[e] \in [Attempts -> Nat \cup {None}]
        BY <1>1, <2>1 DEF SummaryOK
      <3>5. s \in [Attempts -> Seq(Workers)]
        BY <1>1 DEF TypeOK
      <3>. HIDE DEF r, n, s
      <3>6. /\ Len(s[n.attempt]) = n.steps
            /\ \A b \in Attempts : b > n.attempt => s[b] = <<>>
            /\ n.status \in {"RUNNING", "PENDING"} => s[n.attempt] = <<>> /\ n.steps = 0
            /\ n.status # "NONE"
        <4>1. CASE /\ r.status = "FAILED" /\ n.status = "PENDING"
                   /\ n.attempt = r.attempt + 1 /\ n.steps = 0
          <5>1. \A b \in Attempts : b >= n.attempt => b > r.attempt
            BY <3>2, <4>1 DEF Attempts
          <5>2. n.attempt >= n.attempt
            BY <3>2
          <5>3. s[n.attempt] = <<>> /\ \A b \in Attempts : b > n.attempt => s[b] = <<>>
            BY <3>2, <3>3, <5>1, <5>2 DEF Attempts
          <5>. QED
            BY <4>1, <5>3
        <4>2. CASE /\ n.attempt = r.attempt /\ n.steps = r.steps
                   /\ \/ r.status = "PENDING" /\ n.status \in {"RUNNING", "CANCELLED"}
                      \/ r.status = "RUNNING" /\ n.status \in {"COMPLETED", "FAILED"}
          <5>1. Len(s[n.attempt]) = n.steps /\ \A b \in Attempts : b > n.attempt => s[b] = <<>>
            BY <3>3, <4>2
          <5>2. s[n.attempt] \in Seq(Workers)
            BY <3>2, <3>5
          <5>3. ASSUME n.status \in {"RUNNING", "PENDING"}
                PROVE  s[n.attempt] = <<>> /\ n.steps = 0
            <6>1. n.steps = 0
              BY <3>3, <4>2, <5>3
            <6>. QED
              BY <5>1, <5>2, <6>1, EmptySeq
          <5>. QED
            BY <4>2, <5>1, <5>3
        <4>. QED
          BY <3>1, <4>1, <4>2 DEF Changes
      <3>7. StepsOK(e)'
        <4>1. n.status = "RUNNING" => DOMAIN s[n.attempt] = {}
          BY <3>6
        <4>. QED
          BY <3>1, <3>3, <3>6, <4>1 DEF StepsOK
      <3>8. SummaryOK(e)'
        <4>1. \A b \in Attempts : summaries[e][b] = None
          BY <3>1, <3>4 DEF Changes
        <4>2. CASE n.status = "COMPLETED"
          <5>1. summaries'[e] = [summaries[e] EXCEPT ![n.attempt] = n.steps]
            BY <1>1, <2>3, <4>2 DEF n
          <5>2. /\ summaries'[e][n.attempt] = n.steps
                /\ \A b \in Attempts \ {n.attempt} : summaries'[e][b] = None
            BY <3>2, <3>4, <4>1, <5>1
          <5>3. n.steps # None
            BY <3>2, ConstantsAssumption
          <5>. QED
            BY <3>1, <3>6, <4>2, <5>2, <5>3 DEF SummaryOK
        <4>3. CASE n.status # "COMPLETED"
          <5>1. summaries'[e] = summaries[e]
            BY <1>1, <4>3 DEF n
          <5>. QED
            BY <3>1, <4>1, <4>3, <5>1 DEF SummaryOK
        <4>. QED
          BY <4>2, <4>3
      <3>. QED
        BY <3>1, <3>7, <3>8
    <2>. QED
      BY <2>2, <2>3
  <1>. QED
    BY <1>4, <1>5 DEF ResultsInv

LEMMA PublishReady ==
  ASSUME Inv, NEW a \in Actors, Publish(a)
  PROVE  experiment' \in Derived \cup {"READY"} /\ ReadyInv'
  <1>1. /\ TypeOK /\ ReadyInv /\ Transaction(tx[a])
        /\ experiment' = IF tx[a].sync = None THEN experiment ELSE tx[a].sync
    BY Typed DEF Inv, Publish
  <1>2. PICK e \in DOMAIN tx[a].rows : e \in Episodes /\ Changes(episodes[e], tx[a].rows[e])
    BY PublishRows
  <1>3. experiment # "READY"
    BY <1>1, <1>2 DEF ReadyInv, Changes
  <1>4. experiment' \in Derived
    BY <1>1, <1>3 DEF Transaction, TypeOK
  <1>5. experiment' # "READY"
    BY <1>4 DEF Derived
  <1>6. ASSUME NEW d \in Episodes PROVE episodes'[d].status # "NONE"
    <2>1. CASE d \in DOMAIN tx[a].rows
      BY <2>1, PublishRows DEF Changes
    <2>2. CASE d \notin DOMAIN tx[a].rows
      BY <1>1, <1>3, <2>2, PublishRows DEF ReadyInv
    <2>. QED
      BY <2>1, <2>2
  <1>. QED
    BY <1>4, <1>5, <1>6 DEF ReadyInv

(* The claims of all workers stay what they were.                            *)
LEMMA PublishHeld ==
  ASSUME Inv, NEW a \in Actors, Publish(a), NEW w \in Workers, job[w] # None
  PROVE  HeldOK(w, job[w], episodes')
  <1>. DEFINE j == job[w]
              r == episodes[j.episode]
              n == episodes'[j.episode]
  <1>1. /\ j \in Job /\ j.episode \in Episodes /\ j.attempt \in Nat
        /\ HeldOK(w, j, episodes)
    BY Typed, JobFields DEF Inv, JobsInv, JobOK
  <1>2. /\ j.token = <<w, j.attempt>> /\ r.status # "NONE" /\ j.attempt <= r.attempt
        /\ j.attempt = r.attempt => /\ r.status # "PENDING"
                                    /\ r.status = "RUNNING" => r.token = j.token
    BY <1>1 DEF HeldOK
  <1>3. n = r \/ Changes(r, n)
    BY <1>1, PublishRows
  <1>4. r.attempt \in Nat /\ n.attempt \in Nat
    <2>1. r \in Row /\ n \in Row
      BY <1>1, PublishRows, Typed DEF Inv
    <2>. QED
      BY <2>1, RowFields
  <1>. HIDE DEF j, r, n
  <1>5. CASE n = r
    BY <1>2, <1>5 DEF HeldOK, j, r, n
  <1>6. CASE Changes(r, n)
    <2>1. n.status # "NONE" /\ j.attempt <= n.attempt
      BY <1>1, <1>2, <1>4, <1>6 DEF Changes
    <2>2. ASSUME j.attempt = n.attempt
          PROVE  n.status # "PENDING" /\ n.status # "RUNNING"
      <3>1. r.attempt = n.attempt /\ j.attempt = r.attempt
        BY <1>1, <1>2, <1>4, <1>6, <2>2 DEF Changes
      <3>. QED
        BY <1>2, <1>4, <1>6, <3>1 DEF Changes
    <2>. QED
      BY <1>2, <2>1, <2>2 DEF HeldOK, j, n
  <1>. QED
    BY <1>3, <1>5, <1>6

(* The locks keep the rows of the other transactions as they were read.      *)
LEMMA PublishLocks ==
  ASSUME Inv, NEW a \in Actors, Publish(a)
  PROVE  /\ LocksInv'
         /\ \A b \in Actors \ {a} : \A e \in DOMAIN tx[b].rows : episodes'[e] = episodes[e]
  <1>1. ASSUME NEW b \in Actors \ {a}, NEW e \in DOMAIN tx[b].rows
        PROVE  episodes'[e] = episodes[e]
    <2>1. e \in Episodes /\ e \notin DOMAIN tx[a].rows
      BY Typed DEF Inv, LocksInv, Transaction
    <2>. QED
      BY <2>1, PublishRows
  <1>2. Released(a) /\ LocksInv
    BY PublishRows DEF Inv
  <1>3. \A b \in Actors : IsTx(tx'[b])
    BY <1>2, NoTxFields DEF LocksInv, Released
  <1>4. \A b, c \in Actors : b # c => DOMAIN tx'[b].rows \cap DOMAIN tx'[c].rows = {}
    BY <1>2, NoTxFields DEF LocksInv, Released
  <1>5. ASSUME NEW b \in Actors, NEW e \in DOMAIN tx'[b].rows
        PROVE  Changes(episodes'[e], tx'[b].rows[e]) /\ TokenOK(tx'[b].rows[e])
    <2>1. b # a
      BY <1>2, <1>5, NoTxFields DEF Released
    <2>2. tx'[b] = tx[b]
      BY <1>2, <2>1 DEF Released
    <2>. QED
      BY <1>1, <1>2, <1>5, <2>1, <2>2 DEF LocksInv
  <1>. QED
    BY <1>1, <1>3, <1>4, <1>5 DEF LocksInv

(* A commit, whatever its worker, if any, does next: w is the only worker    *)
(* that goes anywhere.                                                       *)
LEMMA PublishStep ==
  ASSUME Inv, NEW a \in Actors, Publish(a),
         job' \in [Workers -> Job \cup {None}],
         pc' \in [Workers -> {"down", "poll", "claim", "run", "finish", "fail"}],
         \A v \in Workers \ {a} : pc'[v] = pc[v] /\ job'[v] = job[v],
         a \in Workers =>
           /\ job'[a] = None <=> pc'[a] \in {"poll", "claim", "down"}
           /\ job'[a] \in {None, job[a]}
              \/ /\ HeldOK(a, job'[a], episodes')
                 /\ \A v \in Workers \ {a} :
                      /\ job[v] # None /\ job[v].episode = job'[a].episode
                      => job[v].attempt # job'[a].attempt,
         abort' \in [Workers -> BOOLEAN], stop' \in [Workers -> BOOLEAN], faults' \in Nat
  PROVE  Inv'
  <1>1. TypeOK /\ Released(a) /\ steps' = steps
    BY PublishRows DEF Inv
  <1>2. DOMAIN tx' = Actors /\ \A b \in Actors : Transaction(tx'[b])
    BY <1>1, ReleasedTyped
  <1>3. TypeOK'
    <2>1. /\ experiment' \in Derived \cup {"READY"} /\ queue' \in Seq(Episodes)
          /\ episodes' \in [Episodes -> Row]
          /\ summaries' \in [Episodes -> [Attempts -> Nat \cup {None}]]
      BY PublishRows, PublishQueue, PublishResults, PublishReady
    <2>2. steps' \in [Episodes -> [Attempts -> Seq(Workers)]]
      BY <1>1 DEF TypeOK
    <2>. QED
      BY <1>2, <2>1, <2>2 DEF TypeOK
  <1>4. ASSUME NEW c \in Clients PROVE ClientTx(c)'
    <2>1. tx'[c] = tx[c] \/ tx'[c] = NoTx
      BY <1>1 DEF Released, Actors
    <2>. QED
      BY <2>1 DEF Inv, TransactionsInv, ClientTx
  <1>5. ASSUME NEW w \in Workers PROVE WorkerTx(w)'
    <2>1. CASE w = a
      BY <1>1, <2>1 DEF Released, WorkerTx
    <2>2. CASE w # a
      <3>1. /\ tx'[w] = tx[w] /\ pc'[w] = pc[w] /\ job'[w] = job[w] /\ WorkerTx(w)
            /\ w \in Actors \ {a}
        BY <1>1, <2>2 DEF Released, Actors, Inv, TransactionsInv
      <3>2. \A e \in DOMAIN tx[w].rows : episodes'[e] = episodes[e]
        BY <3>1, PublishLocks
      <3>. QED
        BY <3>1, <3>2, WritesKept
    <2>. QED
      BY <2>1, <2>2
  <1>6. JobsInv'
    <2>1. ASSUME NEW w \in Workers PROVE JobOK(w)'
      <3>1. JobOK(w) /\ (job[w] # None => HeldOK(w, job[w], episodes'))
        BY PublishHeld DEF Inv, JobsInv
      <3>. QED
        BY <3>1 DEF JobOK
    <2>2. AttemptsAreExclusive'
      BY DEF Inv, JobsInv, AttemptsAreExclusive
    <2>. QED
      BY <2>1, <2>2 DEF JobsInv
  <1>. QED
    BY <1>3, <1>4, <1>5, <1>6, PublishLocks, PublishQueue, PublishResults, PublishReady
       DEF Inv, TransactionsInv

LEMMA ClientCommitsStep == ASSUME Inv, NEW c \in Clients, ClientCommits(c) PROVE Inv'
  <1>1. /\ TypeOK /\ Publish(c) /\ c \in Actors /\ c \notin Workers
        /\ pc' = pc /\ job' = job /\ abort' = abort /\ stop' = stop /\ faults' = faults
    BY ConstantsAssumption DEF ClientCommits, Inv, Actors, memory
  <1>2. /\ job' \in [Workers -> Job \cup {None}]
        /\ pc' \in [Workers -> {"down", "poll", "claim", "run", "finish", "fail"}]
        /\ abort' \in [Workers -> BOOLEAN] /\ stop' \in [Workers -> BOOLEAN] /\ faults' \in Nat
    BY <1>1 DEF TypeOK
  <1>. QED
    BY <1>1, <1>2, PublishStep

(* The worker goes on, with or without its claim.                            *)
LEMMA PublishGoto ==
  ASSUME Inv, NEW w \in Workers, Publish(w), NEW l, Goto(w, l),
         \/ l = "poll"
         \/ l = "claim" /\ job[w] = None
         \/ l = "fail" /\ job[w] # None,
         abort' \in [Workers -> BOOLEAN], stop' \in [Workers -> BOOLEAN], faults' \in Nat
  PROVE  Inv'
  <1>1. /\ TypeOK /\ w \in Actors /\ pc' = [pc EXCEPT ![w] = l]
        /\ job' = IF l \in {"poll", "down"} THEN [job EXCEPT ![w] = None] ELSE job
        /\ job \in [Workers -> Job \cup {None}]
        /\ pc \in [Workers -> {"down", "poll", "claim", "run", "finish", "fail"}]
    BY DEF Inv, Actors, Goto, TypeOK
  <1>2. job' \in [Workers -> Job \cup {None}]
    BY <1>1
  <1>3. pc' \in [Workers -> {"down", "poll", "claim", "run", "finish", "fail"}]
    BY <1>1
  <1>4. \A v \in Workers \ {w} : pc'[v] = pc[v] /\ job'[v] = job[v]
    BY <1>1
  <1>5. /\ job'[w] = None <=> pc'[w] \in {"poll", "claim", "down"}
        /\ job'[w] \in {None, job[w]}
    BY <1>1
  <1>. QED
    BY <1>1, <1>2, <1>3, <1>4, <1>5, PublishStep

(* The job of a claim is one that no other worker holds.                     *)
LEMMA ClaimCommitsStep ==
  ASSUME Inv, NEW w \in Workers, Publish(w), pc[w] = "claim",
         pc' = [pc EXCEPT ![w] = IF stop[w] THEN "fail" ELSE "run"],
         job' = [job EXCEPT ![w] = ClaimedJob(w)],
         abort' = [abort EXCEPT ![w] = FALSE], UNCHANGED <<stop, faults>>
  PROVE  Inv'
  <1>. DEFINE j == ClaimedJob(w)
  <1>1. /\ TypeOK /\ w \in Actors /\ WorkerWrites(w, tx[w].rows)
        /\ job \in [Workers -> Job \cup {None}]
        /\ pc \in [Workers -> {"down", "poll", "claim", "run", "finish", "fail"}]
    <2>1. tx[w] # NoTx
      BY PublishRows DEF Actors
    <2>. QED
      BY <2>1 DEF Inv, TransactionsInv, WorkerTx, Actors, TypeOK
  <1>2. PICK e \in Episodes :
          /\ DOMAIN tx[w].rows = {e} /\ tx[w].rows[e].status = "RUNNING"
          /\ tx[w].rows[e].token = <<w, tx[w].rows[e].attempt>>
    BY <1>1 DEF WorkerWrites
  <1>. DEFINE n == tx[w].rows[e]
  <1>3. /\ episodes'[e] = n /\ n \in Row /\ Changes(episodes[e], n)
        /\ n.token = <<w, n.attempt>> /\ n.status = "RUNNING"
    BY <1>1, <1>2, PublishRows
  <1>4. j = [episode |-> e, attempt |-> n.attempt, token |-> n.token, streamed |-> 0]
    BY <1>2 DEF ClaimedJob
  <1>5. n.attempt \in Attempts /\ n.token \in Token
    BY <1>3, RowFields DEF Token
  <1>. HIDE DEF n, j
  <1>6. /\ j \in Job /\ j.episode = e /\ j.attempt = n.attempt
        /\ j.token = <<w, j.attempt>> /\ j.token = n.token
    BY <1>3, <1>4, <1>5 DEF Job
  <1>7. j # None
    BY <1>6, NullAssumption
  <1>8. job' \in [Workers -> Job \cup {None}] /\ job'[w] = j
        /\ \A v \in Workers \ {w} : job'[v] = job[v]
    BY <1>1, <1>6 DEF j
  <1>9. /\ pc' \in [Workers -> {"down", "poll", "claim", "run", "finish", "fail"}]
        /\ pc'[w] \in {"fail", "run"} /\ \A v \in Workers \ {w} : pc'[v] = pc[v]
    BY <1>1
  <1>10. HeldOK(w, j, episodes')
    <2>1. n.attempt <= n.attempt
      BY <1>3, RowFields
    <2>. QED
      BY <1>3, <1>6, <2>1 DEF HeldOK
  <1>11. ASSUME NEW v \in Workers \ {w}, job[v] # None, job[v].episode = e
         PROVE  job[v].attempt # j.attempt
    <2>1. HeldOK(v, job[v], episodes)
      BY <1>11 DEF Inv, JobsInv, JobOK
    <2>2. job[v].attempt = episodes[e].attempt => episodes[e].status # "PENDING"
      BY <1>11, <2>1 DEF HeldOK
    <2>3. episodes[e].status = "PENDING" /\ n.attempt = episodes[e].attempt
      BY <1>3 DEF Changes
    <2>. QED
      BY <1>6, <2>2, <2>3
  <1>12. abort' \in [Workers -> BOOLEAN] /\ stop' \in [Workers -> BOOLEAN] /\ faults' \in Nat
    BY <1>1 DEF TypeOK
  <1>. QED
    BY <1>1, <1>6, <1>7, <1>8, <1>9, <1>10, <1>11, <1>12, PublishStep

LEMMA CommitRepliedStep == ASSUME Inv, NEW w \in Workers, CommitReplied(w) PROVE Inv'
  <1>1. /\ TypeOK /\ JobOK(w) /\ Publish(w) /\ UNCHANGED <<stop, faults>>
    BY DEF Inv, JobsInv, CommitReplied
  <1>2. stop' \in [Workers -> BOOLEAN] /\ faults' \in Nat
    BY <1>1 DEF TypeOK
  <1>3. CASE pc[w] = "poll" /\ Goto(w, "claim") /\ UNCHANGED abort
    BY <1>1, <1>2, <1>3, PublishGoto DEF JobOK, TypeOK
  <1>4. CASE /\ pc[w] = "claim"
             /\ pc' = [pc EXCEPT ![w] = IF stop[w] THEN "fail" ELSE "run"]
             /\ job' = [job EXCEPT ![w] = ClaimedJob(w)]
             /\ abort' = [abort EXCEPT ![w] = FALSE]
    BY <1>1, <1>4, ClaimCommitsStep
  <1>5. CASE pc[w] \in {"finish", "fail"} /\ Goto(w, "poll") /\ UNCHANGED abort
    BY <1>1, <1>2, <1>5, PublishGoto DEF TypeOK
  <1>. QED
    BY <1>3, <1>4, <1>5 DEF CommitReplied

LEMMA SummaryReplyLostStep == ASSUME Inv, NEW w \in Workers, SummaryReplyLost(w) PROVE Inv'
  <1>1. /\ TypeOK /\ JobOK(w) /\ Publish(w) /\ pc[w] = "finish" /\ Goto(w, "fail")
        /\ abort' = abort /\ stop' = stop /\ faults' = faults + 1
    BY DEF Inv, JobsInv, SummaryReplyLost, Fault
  <1>2. abort' \in [Workers -> BOOLEAN] /\ stop' \in [Workers -> BOOLEAN] /\ faults' \in Nat
    BY <1>1 DEF TypeOK
  <1>3. job[w] # None
    BY <1>1 DEF JobOK
  <1>. QED
    BY <1>1, <1>2, <1>3, PublishGoto
-----------------------------------------------------------------------------
(* The other steps.                                                          *)

(* Before the run nobody writes and nobody has a claim.                      *)
LEMMA Idle ==
  ASSUME Inv, experiment = "READY"
  PROVE  /\ \A e \in Episodes : episodes[e].status = "NONE"
         /\ \A a \in Actors : tx[a] = NoTx
         /\ \A w \in Workers : job[w] = None
  <1>1. \A e \in Episodes : episodes[e].status = "NONE"
    BY DEF Inv, ReadyInv
  <1>2. ASSUME NEW a \in Actors PROVE tx[a] = NoTx
    <2>1. DOMAIN tx[a].rows \subseteq Episodes
      BY Typed DEF Inv, Transaction
    <2>2. \A e \in DOMAIN tx[a].rows : Changes(episodes[e], tx[a].rows[e])
      BY DEF Inv, LocksInv
    <2>3. DOMAIN tx[a].rows = {}
      BY <1>1, <2>1, <2>2 DEF Changes
    <2>. QED
      BY <2>3 DEF Inv, LocksInv, IsTx
  <1>3. ASSUME NEW w \in Workers, job[w] # None PROVE FALSE
    <2>1. job[w].episode \in Episodes /\ HeldOK(w, job[w], episodes)
      BY <1>3, Typed, JobFields DEF Inv, JobsInv, JobOK
    <2>. QED
      BY <1>1, <2>1 DEF HeldOK
  <1>. QED
    BY <1>1, <1>2, <1>3

LEMMA RunStep == ASSUME Inv, Run PROVE Inv'
  <1>. DEFINE n == [NewRow EXCEPT !.status = "PENDING"]
  <1>1. /\ TypeOK /\ experiment = "READY" /\ experiment' = "RUNNING"
        /\ episodes' = [e \in Episodes |-> n]
        /\ queue' \in Bijection(1..Cardinality(Episodes), Episodes)
        /\ steps' = steps /\ summaries' = summaries /\ tx' = tx /\ faults' = faults
        /\ pc' = pc /\ job' = job /\ abort' = abort /\ stop' = stop
    BY DEF Run, Inv, memory
  <1>2. /\ \A e \in Episodes : episodes[e].status = "NONE"
        /\ \A a \in Actors : tx[a] = NoTx
        /\ \A w \in Workers : job[w] = None
    BY <1>1, Idle
  <1>3. /\ n \in Row /\ n.status = "PENDING" /\ n.attempt = 1 /\ n.steps = 0
    BY NewRowTyped DEF NewRow, Row, Status, Open
  <1>. HIDE DEF n
  <1>4. /\ queue' \in Seq(Episodes)
        /\ \A i, j \in DOMAIN queue' : queue'[i] = queue'[j] => i = j
    <2>1. Cardinality(Episodes) \in Nat
      BY ConstantsAssumption, FS_CardinalityType
    <2>. DEFINE c == Cardinality(Episodes)
    <2>. HIDE DEF c
    <2>2. /\ queue' \in [1..c -> Episodes]
          /\ \A i, j \in 1..c : queue'[i] = queue'[j] => i = j
      BY <1>1 DEF Bijection, Injection, IsInjective, c
    <2>. QED
      BY <2>1, <2>2 DEF c
  <1>5. TypeOK'
    <2>1. episodes' \in [Episodes -> Row] /\ experiment' \in Derived \cup {"READY"}
      BY <1>1, <1>3 DEF Derived
    <2>. QED
      BY <1>1, <1>4, <2>1 DEF TypeOK
  <1>6. LocksInv' /\ TransactionsInv'
    BY <1>1, <1>2, NoTxFields DEF LocksInv, TransactionsInv, ClientTx, WorkerTx, Actors
  <1>7. JobsInv'
    BY <1>1, <1>2 DEF Inv, JobsInv, JobOK, AttemptsAreExclusive
  <1>8. ASSUME NEW e \in Episodes PROVE (TokenOK(episodes[e]) /\ StepsOK(e) /\ SummaryOK(e))'
    <2>1. StepsOK(e) /\ SummaryOK(e) /\ episodes[e].status = "NONE"
      BY <1>2 DEF Inv, ResultsInv
    <2>2. episodes[e].attempt = 1 /\ episodes[e].steps = 0
      BY <2>1 DEF StepsOK
    <2>3. episodes'[e] = n
      BY <1>1
    <2>. QED
      BY <1>1, <1>3, <2>1, <2>2, <2>3 DEF TokenOK, StepsOK, SummaryOK
  <1>9. QueueInv' /\ ReadyInv'
    <2>1. \A i \in DOMAIN queue' : queue'[i] \in Episodes
      BY <1>4
    <2>. QED
      BY <1>1, <1>3, <1>4, <2>1 DEF QueueInv, ReadyInv
  <1>. QED
    BY <1>5, <1>6, <1>7, <1>8, <1>9 DEF Inv, ResultsInv

(* A statement changes one row, to n.                                        *)
LEMMA WriteOne ==
  ASSUME Inv, NEW a \in Actors, NEW e \in Episodes, NEW n, Write(a, One(e, n)),
         n \in Row, Changes(episodes[e], n), TokenOK(n),
         a \in Clients => n.status \in {"PENDING", "CANCELLED"},
         a \in Workers => WorkerWrites(a, One(e, n))
  PROVE  Inv'
  <1>1. DOMAIN One(e, n) = {e} /\ One(e, n)[e] = n
    BY DEF One
  <1>2. a \in Clients => ClientWrites(One(e, n))
    BY <1>1 DEF ClientWrites
  <1>. DEFINE rows == One(e, n)
  <1>3. DOMAIN rows \subseteq Episodes /\ DOMAIN rows # {}
        /\ \A d \in DOMAIN rows : rows[d] \in Row /\ Changes(episodes[d], rows[d]) /\ TokenOK(rows[d])
    BY <1>1
  <1>4. Write(a, rows) /\ (a \in Clients => ClientWrites(rows)) /\ (a \in Workers => WorkerWrites(a, rows))
    BY <1>2
  <1>. HIDE DEF rows
  <1>. QED
    BY <1>3, <1>4, WriteStep

LEMMA RetryStep == ASSUME Inv, NEW c \in Clients, NEW e \in Episodes, Retry(c, e) PROVE Inv'
  <1>. DEFINE r == episodes[e]
              n == Retried(r)
  <1>1. /\ r \in Row /\ r.status = "FAILED" /\ r.attempt < MaxAttempts
        /\ Write(c, One(e, n)) /\ c \in Actors /\ c \notin Workers
    BY Typed, ConstantsAssumption DEF Inv, Retry, Actors
  <1>. HIDE DEF r
  <1>2. /\ n \in Row /\ n.status = "PENDING" /\ n.attempt = r.attempt + 1 /\ n.steps = 0
    <2>1. r.attempt + 1 \in Attempts
      BY <1>1, RowFields, ConstantsAssumption DEF Attempts
    <2>. DEFINE b == r.attempt + 1
                u == [r EXCEPT !.status = "PENDING"]
                v == [u EXCEPT !.token = None]
                x == [v EXCEPT !.lease = 0]
                y == [x EXCEPT !.attempt = b]
    <2>2. n = [y EXCEPT !.steps = 0]
      BY DEF Retried
    <2>. HIDE DEF b, n
    <2>3. u \in Row /\ u.status = "PENDING"
      BY <1>1 DEF Row, Status, Open
    <2>. HIDE DEF u
    <2>4. v \in Row /\ v.status = "PENDING"
      BY <2>3 DEF Row
    <2>. HIDE DEF v
    <2>5. x \in Row /\ x.status = "PENDING"
      BY <2>4 DEF Row
    <2>. HIDE DEF x
    <2>6. y \in Row /\ y.status = "PENDING" /\ y.attempt = b
      BY <2>1, <2>5 DEF Row, b
    <2>. HIDE DEF y
    <2>7. n \in Row /\ n.status = "PENDING" /\ n.attempt = b /\ n.steps = 0
      BY <2>2, <2>6 DEF Row
    <2>. QED
      BY <2>7 DEF b
  <1>. HIDE DEF n
  <1>3. Changes(r, n) /\ TokenOK(n)
    BY <1>1, <1>2 DEF Changes, TokenOK
  <1>. QED
    BY <1>1, <1>2, <1>3, WriteOne DEF r

LEMMA CancelStep == ASSUME Inv, NEW c \in Clients, NEW e \in Episodes, Cancel(c, e) PROVE Inv'
  <1>. DEFINE r == episodes[e]
              n == [r EXCEPT !.status = "CANCELLED"]
  <1>1. /\ r \in Row /\ r.status = "PENDING"
        /\ Write(c, One(e, n)) /\ c \in Actors /\ c \notin Workers
    BY Typed, ConstantsAssumption DEF Inv, Cancel, Actors
  <1>. HIDE DEF r
  <1>2. /\ n \in Row /\ n.status = "CANCELLED" /\ n.attempt = r.attempt /\ n.steps = r.steps
    BY <1>1 DEF Row, Status
  <1>. HIDE DEF n
  <1>3. Changes(r, n) /\ TokenOK(n)
    BY <1>1, <1>2 DEF Changes, TokenOK
  <1>. QED
    BY <1>1, <1>2, <1>3, WriteOne DEF r

LEMMA EndedFields ==
  ASSUME NEW r \in Row, NEW s \in Status
  PROVE  /\ Ended(r, s) \in Row /\ Ended(r, s).status = s
         /\ Ended(r, s).attempt = r.attempt /\ Ended(r, s).steps = r.steps
  <1>. DEFINE n == Ended(r, s)
              u == [r EXCEPT !.status = s]
              v == [u EXCEPT !.token = None]
  <1>1. n = [v EXCEPT !.lease = 0]
    BY DEF Ended
  <1>2. u \in Row /\ u.status = s /\ u.attempt = r.attempt /\ u.steps = r.steps
    BY DEF Row
  <1>. HIDE DEF n, u
  <1>3. v \in Row /\ v.status = s /\ v.attempt = r.attempt /\ v.steps = r.steps
    BY <1>2 DEF Row
  <1>. HIDE DEF v
  <1>4. n \in Row /\ n.status = s /\ n.attempt = r.attempt /\ n.steps = r.steps
    BY <1>1, <1>3 DEF Row
  <1>. QED
    BY <1>4 DEF n

LEMMA RecoverStep == ASSUME Inv, NEW w \in Workers, Recover(w) PROVE Inv'
  <1>. DEFINE rows == [e \in Stale(w) |-> Ended(episodes[e], "FAILED")]
  <1>1. /\ pc[w] = "poll" /\ Stale(w) # {} /\ Write(w, rows) /\ w \in Actors /\ w \notin Clients
    BY ConstantsAssumption DEF Recover, Actors
  <1>2. /\ Stale(w) \subseteq Episodes
        /\ \A e \in Stale(w) : episodes[e].status = "RUNNING" /\ Expired(w, e)
    BY DEF Stale
  <1>3. DOMAIN rows = Stale(w) /\ \A e \in Stale(w) : rows[e] = Ended(episodes[e], "FAILED")
    OBVIOUS
  <1>. HIDE DEF rows
  <1>4. ASSUME NEW e \in Stale(w)
        PROVE  /\ rows[e] \in Row /\ Changes(episodes[e], rows[e]) /\ TokenOK(rows[e])
               /\ rows[e].status = "FAILED"
    <2>1. episodes[e] \in Row /\ "FAILED" \in Status
      BY <1>2, Typed DEF Inv, Status
    <2>. QED
      BY <1>2, <1>3, <2>1, EndedFields DEF Changes, TokenOK
  <1>5. WorkerWrites(w, rows)
    BY <1>1, <1>2, <1>3, <1>4 DEF WorkerWrites
  <1>6. DOMAIN rows \subseteq Episodes /\ DOMAIN rows # {}
        /\ \A e \in DOMAIN rows : rows[e] \in Row /\ Changes(episodes[e], rows[e]) /\ TokenOK(rows[e])
    BY <1>1, <1>2, <1>3, <1>4
  <1>. QED
    BY <1>1, <1>5, <1>6, WriteStep

LEMMA ClaimStep == ASSUME Inv, NEW w \in Workers, Claim(w) PROVE Inv'
  <1>. DEFINE e == Head(queue)
              r == episodes[e]
              n == [r EXCEPT !.status = "RUNNING", !.lease = Lease + Skew[w],
                             !.token = <<w, r.attempt>>]
  <1>1. /\ TypeOK /\ pc[w] = "claim" /\ queue # <<>> /\ queue \in Seq(Episodes)
        /\ Write(w, One(e, n)) /\ w \in Actors /\ w \notin Clients
    BY ConstantsAssumption DEF Claim, Actors, Inv, TypeOK
  <1>2. e \in Episodes /\ 1 \in DOMAIN queue /\ e = queue[1]
    <2>1. Len(queue) \in Nat \ {0} /\ DOMAIN queue = 1..Len(queue)
      BY <1>1, EmptySeq, LenProperties
    <2>. QED
      BY <1>1, <2>1
  <1>3. r \in Row /\ r.status = "PENDING"
    BY <1>1, <1>2, Typed DEF Inv, QueueInv
  <1>. HIDE DEF e, r
  <1>4. r.attempt \in Attempts /\ Lease + Skew[w] \in Nat
    BY <1>3, RowFields, ConstantsAssumption
  <1>5. /\ n \in Row /\ n.status = "RUNNING" /\ n.attempt = r.attempt /\ n.steps = r.steps
        /\ n.token = <<w, r.attempt>>
    <2>. DEFINE l == Lease + Skew[w]
                t == <<w, r.attempt>>
                u == [r EXCEPT !.status = "RUNNING"]
                v == [u EXCEPT !.lease = l]
    <2>1. n = [v EXCEPT !.token = t] /\ t \in Token /\ l \in Nat
      BY <1>4 DEF Token
    <2>. HIDE DEF n, l, t
    <2>2. u \in Row /\ u.status = "RUNNING" /\ u.attempt = r.attempt /\ u.steps = r.steps
      BY <1>3 DEF Row, Status, Open
    <2>. HIDE DEF u
    <2>3. v \in Row /\ v.status = "RUNNING" /\ v.attempt = r.attempt /\ v.steps = r.steps
      BY <2>1, <2>2 DEF Row
    <2>. HIDE DEF v
    <2>4. /\ n \in Row /\ n.status = "RUNNING" /\ n.attempt = r.attempt /\ n.steps = r.steps
          /\ n.token = t
      BY <2>1, <2>3 DEF Row
    <2>. QED
      BY <2>4 DEF t
  <1>. HIDE DEF n
  <1>6. Changes(r, n) /\ TokenOK(n)
    BY <1>3, <1>4, <1>5 DEF Changes, TokenOK, Token
  <1>7. WorkerWrites(w, One(e, n))
    <2>1. DOMAIN One(e, n) = {e} /\ One(e, n)[e] = n
      BY DEF One
    <2>. QED
      BY <1>1, <1>2, <1>5, <2>1 DEF WorkerWrites
  <1>8. Changes(episodes[e], n)
    BY <1>6 DEF r
  <1>. QED
    BY <1>1, <1>2, <1>5, <1>6, <1>7, <1>8, WriteOne

(* persistSummary and markFailed: the guard holds, so the row is the attempt *)
(* that the worker claimed.                                                  *)
LEMMA EndsStep ==
  ASSUME Inv, NEW w \in Workers, pc[w] \in {"finish", "fail"}, Owns(w),
         NEW s \in {"COMPLETED", "FAILED"},
         Write(w, One(job[w].episode, Ended(episodes[job[w].episode], s)))
  PROVE  Inv'
  <1>. DEFINE e == job[w].episode
              n == Ended(episodes[e], s)
  <1>1. /\ e \in Episodes /\ episodes[e] \in Row /\ w \in Actors /\ w \notin Clients
    <2>1. job[w] # None
      BY DEF Inv, JobsInv, JobOK
    <2>. QED
      BY <2>1, Typed, JobFields, ConstantsAssumption DEF Inv, Actors
  <1>2. /\ episodes[e].status = "RUNNING" /\ episodes[e].attempt = job[w].attempt
        /\ episodes[e].token = job[w].token
    BY DEF Owns
  <1>3. s \in Status /\ s # "RUNNING"
    BY DEF Status
  <1>4. n \in Row /\ n.status = s /\ n.attempt = episodes[e].attempt /\ n.steps = episodes[e].steps
    BY <1>1, <1>3, EndedFields
  <1>5. Write(w, One(e, n))
    OBVIOUS
  <1>6. ASSUME NEW m, m = n PROVE WorkerWrites(w, One(e, m))
    <2>1. DOMAIN One(e, m) = {e} /\ One(e, m)[e] = m
      BY DEF One
    <2>2. m.status \in {"COMPLETED", "FAILED"}
      BY <1>4, <1>6
    <2>. HIDE DEF n
    <2>. QED
      BY <1>2, <2>1, <2>2 DEF WorkerWrites
  <1>. HIDE DEF n, e
  <1>7. Changes(episodes[e], n) /\ TokenOK(n)
    BY <1>2, <1>3, <1>4 DEF Changes, TokenOK
  <1>. QED
    BY <1>1, <1>4, <1>5, <1>6, <1>7, WriteOne

LEMMA FinishStep == ASSUME Inv, NEW w \in Workers, Finish(w) PROVE Inv'
  <1>1. /\ pc[w] \in {"finish", "fail"} /\ Owns(w) /\ "COMPLETED" \in {"COMPLETED", "FAILED"}
        /\ Write(w, One(job[w].episode, Ended(episodes[job[w].episode], "COMPLETED")))
    BY DEF Finish
  <1>. QED
    BY <1>1, EndsStep

LEMMA FailStep == ASSUME Inv, NEW w \in Workers, Fail(w) PROVE Inv'
  <1>1. /\ pc[w] \in {"finish", "fail"} /\ Owns(w) /\ "FAILED" \in {"COMPLETED", "FAILED"}
        /\ Write(w, One(job[w].episode, Ended(episodes[job[w].episode], "FAILED")))
    BY DEF Fail
  <1>. QED
    BY <1>1, EndsStep

(* A worker without a transaction goes to l; the flags and tx stay.          *)
LEMMA MoveStep ==
  ASSUME Inv, NEW w \in Workers, tx[w] = NoTx, NEW l, Goto(w, l),
         UNCHANGED <<tables, tx, abort, stop, faults>>,
         \/ l \in {"poll", "down"}
         \/ l = "claim" /\ job[w] = None
         \/ l \in {"finish", "fail"} /\ job[w] # None
  PROVE  Inv'
  <1>1. Released(w)
    BY DEF Released, Inv, TypeOK, Actors
  <1>2. abort' \in [Workers -> BOOLEAN] /\ stop' \in [Workers -> BOOLEAN] /\ faults' \in Nat
    BY DEF Inv, TypeOK
  <1>3. UNCHANGED tables
    OBVIOUS
  <1>. QED
    BY <1>1, <1>2, <1>3, GotoStep

LEMMA LoopMoves ==
  ASSUME Inv, NEW w \in Workers,
         \/ NothingStale(w) \/ NothingClaimed(w) \/ RunFails(w) \/ StreamEnds(w)
         \/ FinishRefused(w) \/ FailRefused(w) \/ Exit(w)
  PROVE  Inv'
  <1>0. JobOK(w) /\ WorkerTx(w) /\ job \in [Workers -> Job \cup {None}] /\ w \in Actors
    BY DEF Inv, JobsInv, TransactionsInv, TypeOK, Actors
  <1>1. CASE NothingStale(w)
    <2>1. pc[w] = "poll" /\ Stale(w) = {}
      BY <1>1 DEF NothingStale
    <2>2. tx[w] = NoTx
      <3>1. SUFFICES ASSUME tx[w] # NoTx PROVE FALSE
        OBVIOUS
      <3>2. DOMAIN tx[w].rows # {} /\ DOMAIN tx[w].rows \subseteq Episodes
        BY <1>0, <3>1, Typed DEF Inv, LocksInv, IsTx, Transaction
      <3>3. \A e \in DOMAIN tx[w].rows : episodes[e].status = "RUNNING" /\ Expired(w, e)
        BY <1>0, <2>1, <3>1 DEF WorkerTx, WorkerWrites
      <3>. QED
        BY <2>1, <3>2, <3>3 DEF Stale
    <2>3. /\ Goto(w, "claim") /\ job[w] = None /\ UNCHANGED <<tables, tx, abort, stop, faults>>
      BY <1>0, <1>1, <2>1 DEF NothingStale, Goto, JobOK
    <2>. QED
      BY <2>2, <2>3, MoveStep
  <1>2. CASE NothingClaimed(w)
    <2>1. job[w] = None
      BY <1>0, <1>2 DEF NothingClaimed, JobOK
    <2>2. [job EXCEPT ![w] = None] = job
      BY <1>0, <2>1
    <2>3. /\ Goto(w, "poll") /\ tx[w] = NoTx /\ UNCHANGED <<tables, tx, abort, stop, faults>>
      BY <1>2, <2>2 DEF NothingClaimed, Goto
    <2>. QED
      BY <2>3, MoveStep
  <1>3. CASE RunFails(w)
    <2>1. /\ Goto(w, "fail") /\ tx[w] = NoTx /\ job[w] # None
          /\ UNCHANGED <<tables, tx, abort, stop, faults>>
      BY <1>3, Running DEF RunFails
    <2>. QED
      BY <2>1, MoveStep
  <1>4. CASE StreamEnds(w)
    <2>1. /\ Goto(w, "finish") /\ tx[w] = NoTx /\ job[w] # None
          /\ UNCHANGED <<tables, tx, abort, stop, faults>>
      BY <1>4, Running DEF StreamEnds
    <2>. QED
      BY <2>1, MoveStep
  <1>5. CASE FinishRefused(w)
    <2>1. /\ Goto(w, "fail") /\ tx[w] = NoTx /\ job[w] # None
          /\ UNCHANGED <<tables, tx, abort, stop, faults>>
      BY <1>0, <1>5 DEF FinishRefused, JobOK
    <2>. QED
      BY <2>1, MoveStep
  <1>6. CASE FailRefused(w)
    <2>1. /\ Goto(w, "poll") /\ tx[w] = NoTx /\ UNCHANGED <<tables, tx, abort, stop, faults>>
      BY <1>6 DEF FailRefused
    <2>. QED
      BY <2>1, MoveStep
  <1>7. CASE Exit(w)
    <2>1. /\ Goto(w, "down") /\ tx[w] = NoTx /\ UNCHANGED <<tables, tx, abort, stop, faults>>
      BY <1>7 DEF Exit
    <2>. QED
      BY <2>1, MoveStep
  <1>. QED
    BY <1>1, <1>2, <1>3, <1>4, <1>5, <1>6, <1>7

LEMMA CommitFailsStep == ASSUME Inv, NEW w \in Workers, CommitFails(w) PROVE Inv'
  <1>. DEFINE l == CASE pc[w] = "finish" -> "fail" [] pc[w] = "fail" -> "poll" [] OTHER -> "down"
  <1>1. /\ TypeOK /\ JobOK(w) /\ Discard(w) /\ Goto(w, l) /\ w \in Actors
        /\ abort' = abort /\ stop' = stop /\ faults' = faults + 1
    BY DEF Inv, JobsInv, CommitFails, Fault, Actors
  <1>2. Released(w) /\ UNCHANGED tables
    BY <1>1, DiscardReleases
  <1>3. abort' \in [Workers -> BOOLEAN] /\ stop' \in [Workers -> BOOLEAN] /\ faults' \in Nat
    BY <1>1 DEF TypeOK
  <1>4. l \in {"poll", "down"} \/ (l = "fail" /\ job[w] # None)
    <2>1. CASE pc[w] = "finish"
      BY <1>1, <2>1 DEF JobOK
    <2>2. CASE pc[w] # "finish"
      BY <2>2
    <2>. QED
      BY <2>1, <2>2
  <1>. HIDE DEF l
  <1>. QED
    BY <1>1, <1>2, <1>3, <1>4, GotoStep

LEMMA CrashStep == ASSUME Inv, NEW w \in Workers, Crash(w) PROVE Inv'
  <1>1. /\ TypeOK /\ Discard(w) /\ Goto(w, "down") /\ w \in Actors
        /\ abort' = abort /\ stop' = stop /\ faults' = faults + 1
    BY DEF Inv, Crash, Fault, Actors
  <1>2. Released(w) /\ UNCHANGED tables
    BY <1>1, DiscardReleases
  <1>3. abort' \in [Workers -> BOOLEAN] /\ stop' \in [Workers -> BOOLEAN] /\ faults' \in Nat
    BY <1>1 DEF TypeOK
  <1>. QED
    BY <1>1, <1>2, <1>3, GotoStep

LEMMA RestartStep == ASSUME Inv, NEW w \in Workers, Restart(w) PROVE Inv'
  <1>1. /\ TypeOK /\ WorkerTx(w) /\ pc[w] = "down" /\ Goto(w, "poll") /\ UNCHANGED <<tables, tx, faults>>
        /\ abort' = [abort EXCEPT ![w] = FALSE] /\ stop' = [stop EXCEPT ![w] = FALSE]
    BY DEF Inv, TransactionsInv, Restart
  <1>2. tx[w] = NoTx
    BY <1>1 DEF WorkerTx, WorkerWrites
  <1>3. Released(w)
    BY <1>1, <1>2 DEF Released, TypeOK, Actors
  <1>4. abort' \in [Workers -> BOOLEAN] /\ stop' \in [Workers -> BOOLEAN] /\ faults' \in Nat
    BY <1>1 DEF TypeOK
  <1>5. UNCHANGED tables
    BY <1>1
  <1>. QED
    BY <1>1, <1>3, <1>4, <1>5, GotoStep

LEMMA FlagMoves ==
  ASSUME Inv, NEW w \in Workers, Stop(w) \/ GraceEnds(w)
  PROVE  Inv'
  <1>1. /\ TypeOK /\ UNCHANGED <<tables, tx, pc, job>>
        /\ abort' = abort \/ abort' = [abort EXCEPT ![w] = TRUE]
        /\ stop' = stop \/ stop' = [stop EXCEPT ![w] = TRUE]
        /\ faults' = faults \/ faults' = faults + 1
    BY DEF Inv, Stop, GraceEnds, Fault
  <1>2. abort' \in [Workers -> BOOLEAN] /\ stop' \in [Workers -> BOOLEAN] /\ faults' \in Nat
    <2>1. abort \in [Workers -> BOOLEAN] /\ stop \in [Workers -> BOOLEAN] /\ faults \in Nat
      BY <1>1 DEF TypeOK
    <2>2. abort' \in [Workers -> BOOLEAN]
      BY <1>1, <2>1
    <2>3. stop' \in [Workers -> BOOLEAN]
      BY <1>1, <2>1
    <2>. QED
      BY <1>1, <2>1, <2>2, <2>3
  <1>3. TypeOK'
    BY <1>1, <1>2 DEF TypeOK, tables
  <1>. QED
    BY <1>1, <1>3, FlagsStep

LEMMA StepHolds == Inv /\ [Next]_vars => Inv'
  <1>. SUFFICES ASSUME Inv, [Next]_vars PROVE Inv'
    OBVIOUS
  <1>1. ASSUME UNCHANGED vars PROVE Inv'
    <2>1. UNCHANGED <<tables, tx, pc, job, abort, stop, faults>>
      BY <1>1 DEF vars, memory
    <2>2. TypeOK'
      BY <2>1 DEF Inv, TypeOK, tables
    <2>. QED
      BY <2>1, <2>2, FlagsStep
  <1>2. CASE Run
    BY <1>2, RunStep
  <1>3. CASE Tick
    BY <1>3, TickStep
  <1>4. CASE \E a \in Actors : Sync(a)
    BY <1>4, SyncStep
  <1>5. CASE \E c \in Clients :
               \/ ClientCommits(c) \/ ClientRollsBack(c)
               \/ \E e \in Episodes : Retry(c, e) \/ Cancel(c, e)
    BY <1>5, ClientCommitsStep, ClientRollsBackStep, RetryStep, CancelStep
  <1>6. ASSUME NEW w \in Workers, Loop(w) PROVE Inv'
    BY <1>6, RecoverStep, ClaimStep, StepStoredStep, FinishStep, FailStep,
       CommitRepliedStep, LoopMoves DEF Loop
  <1>7. ASSUME NEW w \in Workers, Heartbeat(w) \/ GraceEnds(w) \/ Restart(w) PROVE Inv'
    BY <1>7, HeartbeatStep, FlagMoves, RestartStep
  <1>8. ASSUME NEW w \in Workers, Disturb(w) PROVE Inv'
    BY <1>8, StepReplyLostStep, SummaryReplyLostStep, CommitFailsStep, FlagMoves, CrashStep
       DEF Disturb
  <1>. QED
    BY <1>1, <1>2, <1>3, <1>4, <1>5, <1>6, <1>7, <1>8 DEF Next

LEMMA InvHolds == Spec => []Inv
  BY InitHolds, StepHolds, PTL DEF Spec
-----------------------------------------------------------------------------
(* What the steps never do.                                                  *)

(* The body of OldAttemptsFrozen, for one episode. *)
Frozen(e) ==
  /\ episodes[e].status # "NONE" =>
       TransitionAllowed(episodes[e].status, episodes'[e].status)
  /\ \A a \in Attempts :
       steps'[e][a] # steps[e][a] \/ summaries'[e][a] # summaries[e][a] =>
         /\ episodes[e].status = "RUNNING" /\ episodes[e].attempt = a
         /\ \E w \in Workers :
              /\ job[w] # None
              /\ job[w].episode = e /\ job[w].token = episodes[e].token
         /\ summaries[e][a] = None

LEMMA FrozenRest ==
  ASSUME NEW e \in Episodes, steps' = steps, summaries' = summaries,
         episodes'[e].status = episodes[e].status \/ episodes[e].status = "NONE"
  PROVE  Frozen(e)
  BY DEF Frozen, TransitionAllowed

LEMMA FrozenTables ==
  ASSUME UNCHANGED tables, NEW e \in Episodes
  PROVE  Frozen(e)
  BY FrozenRest DEF tables

LEMMA FrozenStore ==
  ASSUME Inv, NEW w \in Workers, StoreStep(w), NEW e \in Episodes
  PROVE  Frozen(e)
  <1>1. /\ summaries' = summaries /\ Owns(w) /\ pc[w] = "run"
        /\ steps' = [steps EXCEPT ![job[w].episode][job[w].attempt] = Append(@, w)]
        /\ steps \in [Episodes -> [Attempts -> Seq(Workers)]]
    BY DEF StoreStep, Inv, TypeOK
  <1>2. episodes'[e].status = episodes[e].status
    BY StoreStepRows DEF SameStatus
  <1>3. ASSUME NEW a \in Attempts, steps'[e][a] # steps[e][a]
        PROVE  /\ episodes[e].status = "RUNNING" /\ episodes[e].attempt = a
               /\ \E v \in Workers :
                    job[v] # None /\ job[v].episode = e /\ job[v].token = episodes[e].token
               /\ summaries[e][a] = None
    <2>1. job[w].episode = e /\ job[w].attempt = a
      BY <1>1, <1>3
    <2>2. job[w] # None
      BY <1>1, Running
    <2>3. /\ episodes[e].status = "RUNNING" /\ episodes[e].attempt = a
          /\ episodes[e].token = job[w].token
      BY <1>1, <2>1 DEF Owns
    <2>4. summaries[e][a] = None
      BY <2>3 DEF Inv, ResultsInv, SummaryOK
    <2>. QED
      BY <2>1, <2>2, <2>3, <2>4
  <1>. QED
    BY <1>1, <1>2, <1>3 DEF Frozen, TransitionAllowed

LEMMA FrozenPublish ==
  ASSUME Inv, NEW a \in Actors, Publish(a), NEW e \in Episodes
  PROVE  Frozen(e)
  <1>. DEFINE rows == tx[a].rows
  <1>1. /\ tx[a] # NoTx /\ steps' = steps /\ TransactionsInv /\ JobsInv
        /\ \A d \in DOMAIN rows : Changes(episodes[d], rows[d]) /\ episodes'[d] = rows[d]
        /\ \A d \in Episodes \ DOMAIN rows : episodes'[d] = episodes[d]
        /\ summaries \in [Episodes -> [Attempts -> Nat \cup {None}]]
        /\ summaries' = [d \in Episodes |->
             IF d \in DOMAIN rows /\ rows[d].status = "COMPLETED"
             THEN [summaries[d] EXCEPT ![rows[d].attempt] = rows[d].steps]
             ELSE summaries[d]]
    BY PublishRows DEF Inv, Publish, TypeOK
  <1>2. TransitionAllowed(episodes[e].status, episodes'[e].status)
    <2>1. episodes'[e] = episodes[e] \/ Changes(episodes[e], episodes'[e])
      BY <1>1
    <2>. QED
      BY <2>1 DEF Changes, TransitionAllowed
  <1>3. ASSUME NEW b \in Attempts, summaries'[e][b] # summaries[e][b]
        PROVE  /\ episodes[e].status = "RUNNING" /\ episodes[e].attempt = b
               /\ \E v \in Workers :
                    job[v] # None /\ job[v].episode = e /\ job[v].token = episodes[e].token
               /\ summaries[e][b] = None
    <2>1. e \in DOMAIN rows /\ rows[e].status = "COMPLETED" /\ rows[e].attempt = b
      BY <1>1, <1>3
    <2>2. episodes[e].status = "RUNNING" /\ episodes[e].attempt = b
      BY <1>1, <2>1 DEF Changes
    <2>3. a \in Workers
      BY <1>1, <2>1 DEF TransactionsInv, ClientTx, ClientWrites, Actors
    <2>4. WorkerWrites(a, rows)
      BY <1>1, <2>3 DEF TransactionsInv, WorkerTx
    <2>5. /\ pc[a] \in {"finish", "fail"} /\ DOMAIN rows = {job[a].episode}
          /\ episodes[job[a].episode].token = job[a].token
      BY <2>1, <2>4 DEF WorkerWrites
    <2>6. job[a] # None
      BY <1>1, <2>3, <2>5 DEF JobsInv, JobOK
    <2>7. summaries[e][b] = None
      BY <2>2 DEF Inv, ResultsInv, SummaryOK
    <2>. QED
      BY <2>1, <2>2, <2>3, <2>5, <2>6, <2>7
  <1>. QED
    BY <1>1, <1>2, <1>3 DEF Frozen

LEMMA FrozenStep == Inv /\ [Next]_vars => [\A e \in Episodes : Frozen(e)]_vars
  <1>. SUFFICES ASSUME Inv, Next, NEW e \in Episodes PROVE Frozen(e)
    OBVIOUS
  <1>1. CASE Run
    BY <1>1, Idle, FrozenRest DEF Run
  <1>2. CASE Tick
    <2>1. episodes'[e] = Older(episodes[e]) /\ steps' = steps /\ summaries' = summaries
      BY <1>2 DEF Tick
    <2>2. episodes[e] \in Row
      BY Typed DEF Inv
    <2>. QED
      BY <2>1, <2>2, OlderFields, FrozenRest
  <1>3. CASE \E a \in Actors : Sync(a)
    BY <1>3, FrozenTables DEF Sync
  <1>4. ASSUME NEW c \in Clients,
               \/ ClientCommits(c) \/ ClientRollsBack(c)
               \/ \E d \in Episodes : Retry(c, d) \/ Cancel(c, d)
        PROVE  Frozen(e)
    <2>1. CASE ClientCommits(c)
      BY <2>1, FrozenPublish DEF ClientCommits, Actors
    <2>2. CASE ~ClientCommits(c)
      BY <1>4, <2>2, FrozenTables DEF ClientRollsBack, Discard, Retry, Cancel, Write
    <2>. QED
      BY <2>1, <2>2
  <1>5. ASSUME NEW w \in Workers, Loop(w) PROVE Frozen(e)
    <2>1. CASE StepStored(w)
      BY <2>1, FrozenStore DEF StepStored
    <2>2. CASE CommitReplied(w)
      BY <2>2, FrozenPublish DEF CommitReplied, Actors
    <2>3. CASE Recover(w) \/ Claim(w) \/ Finish(w) \/ Fail(w)
      BY <2>3, FrozenTables DEF Recover, Claim, Finish, Fail, Write
    <2>4. CASE \/ NothingStale(w) \/ NothingClaimed(w) \/ RunFails(w) \/ StreamEnds(w)
               \/ FinishRefused(w) \/ FailRefused(w) \/ Exit(w)
      BY <2>4, FrozenTables
         DEF NothingStale, NothingClaimed, RunFails, StreamEnds, FinishRefused, FailRefused, Exit
    <2>. QED
      BY <1>5, <2>1, <2>2, <2>3, <2>4 DEF Loop
  <1>6. ASSUME NEW w \in Workers, Heartbeat(w) PROVE Frozen(e)
    <2>1. /\ steps' = steps /\ summaries' = summaries
          /\ Renewed(w) \/ episodes' = episodes
      BY <1>6 DEF Heartbeat
    <2>2. episodes'[e].status = episodes[e].status
      <3>1. episodes \in [Episodes -> Row]
        BY DEF Inv, TypeOK
      <3>2. CASE Renewed(w)
        BY <3>1, <3>2 DEF Renewed, Row
      <3>. QED
        BY <2>1, <3>2
    <2>. QED
      BY <2>1, <2>2, FrozenRest
  <1>7. ASSUME NEW w \in Workers, GraceEnds(w) \/ Restart(w) PROVE Frozen(e)
    BY <1>7, FrozenTables DEF GraceEnds, Restart
  <1>8. ASSUME NEW w \in Workers, Disturb(w) PROVE Frozen(e)
    <2>1. CASE StepReplyLost(w)
      BY <2>1, FrozenStore DEF StepReplyLost
    <2>2. CASE SummaryReplyLost(w)
      BY <2>2, FrozenPublish DEF SummaryReplyLost, Actors
    <2>3. CASE CommitFails(w) \/ Stop(w) \/ Crash(w)
      BY <2>3, FrozenTables DEF CommitFails, Stop, Crash, Discard
    <2>. QED
      BY <1>8, <2>1, <2>2, <2>3 DEF Disturb
  <1>. QED
    BY <1>1, <1>2, <1>3, <1>4, <1>5, <1>6, <1>7, <1>8 DEF Next
-----------------------------------------------------------------------------
(* The status of the experiment, where no two transactions are open at a     *)
(* time.                                                                     *)

Serial == \A a, b \in Actors : tx[a] # NoTx /\ tx[b] # NoTx => a = b

(* What sync_experiment_status_from_episodes derives from a set of statuses. *)
StatusFrom(present) ==
  IF present \cap Open # {} THEN "RUNNING"
  ELSE IF "FAILED" \in present THEN "FAILED"
  ELSE IF "CANCELLED" \in present THEN "CANCELLED"
  ELSE "COMPLETED"

(* What a transaction that wrote some rows sees of the others.               *)
Seen(rows, all, e) == (IF e \in DOMAIN rows THEN rows[e] ELSE all[e]).status
Target(rows, all) == StatusFrom({Seen(rows, all, e) : e \in Episodes})

SyncedTx(t, all, present) ==
  /\ t.phase = "written" => t.next = Target(t.rows, all)
  /\ t.phase = "synced" => Target(t.rows, all) = IF t.sync = None THEN present ELSE t.sync

SyncedInv ==
  /\ experiment # "READY" => experiment = Target(<<>>, episodes)
  /\ \A a \in Actors : SyncedTx(tx[a], episodes, experiment)

LEMMA DeriveIsTarget == \A rows : Derive(rows) = Target(rows, episodes)
  <1>1. ASSUME NEW rows PROVE Derive(rows) = Target(rows, episodes)
    <2>1. \A e \in Episodes : View(rows)[e].status = Seen(rows, episodes, e)
      BY DEF View, Seen
    <2>2. {View(rows)[e].status : e \in Episodes} = {Seen(rows, episodes, e) : e \in Episodes}
      BY <2>1
    <2>. QED
      BY <2>2 DEF Derive, Target, StatusFrom
  <1>. QED
    BY <1>1

LEMMA TargetSame ==
  ASSUME NEW r1, NEW r2, NEW all1, NEW all2,
         \A e \in Episodes : Seen(r1, all1, e) = Seen(r2, all2, e)
  PROVE  Target(r1, all1) = Target(r2, all2)
  <1>1. {Seen(r1, all1, e) : e \in Episodes} = {Seen(r2, all2, e) : e \in Episodes}
    OBVIOUS
  <1>. QED
    BY <1>1 DEF Target

LEMMA TargetDerived == \A rows, all : Target(rows, all) \in Derived /\ Target(rows, all) # None
  <1>1. \A present : StatusFrom(present) \in Derived
    BY DEF StatusFrom, Derived
  <1>. QED
    BY <1>1, NullAssumption DEF Target

LEMMA SyncedNoTx == \A all, present : SyncedTx(NoTx, all, present)
  BY NoTxFields DEF SyncedTx

(* Nothing is written, some transactions may be rolled back.                 *)
LEMMA SyncedKept ==
  ASSUME SyncedInv, UNCHANGED tables,
         \A b \in Actors : tx'[b] = tx[b] \/ tx'[b] = NoTx
  PROVE  SyncedInv'
  <1>1. episodes' = episodes /\ experiment' = experiment
    BY DEF tables
  <1>. QED
    BY <1>1, SyncedNoTx DEF SyncedInv

(* A transaction that keeps its step, its decision and the statuses it wrote, *)
(* over rows that keep theirs, derives what it did.                          *)
LEMMA SyncedSame ==
  ASSUME SyncedInv, SameStatus, experiment' = experiment,
         \A a \in Actors :
           /\ tx'[a].phase = tx[a].phase /\ tx'[a].next = tx[a].next
           /\ tx'[a].sync = tx[a].sync /\ DOMAIN tx'[a].rows = DOMAIN tx[a].rows
           /\ \A e \in DOMAIN tx[a].rows : tx'[a].rows[e].status = tx[a].rows[e].status
  PROVE  SyncedInv'
  <1>1. Target(<<>>, episodes') = Target(<<>>, episodes)
    <2>1. \A e \in Episodes : Seen(<<>>, episodes', e) = Seen(<<>>, episodes, e)
      BY DEF Seen, SameStatus
    <2>. QED
      BY <2>1, TargetSame
  <1>2. ASSUME NEW a \in Actors PROVE SyncedTx(tx'[a], episodes', experiment')
    <2>1. \A e \in Episodes :
            Seen(tx'[a].rows, episodes', e) = Seen(tx[a].rows, episodes, e)
      BY DEF Seen, SameStatus
    <2>2. Target(tx'[a].rows, episodes') = Target(tx[a].rows, episodes)
      BY <2>1, TargetSame
    <2>3. SyncedTx(tx[a], episodes, experiment)
      BY DEF SyncedInv
    <2>. QED
      BY <2>2, <2>3 DEF SyncedTx
  <1>. QED
    BY <1>1, <1>2 DEF SyncedInv

LEMMA SyncedWrite ==
  ASSUME Inv, SyncedInv, NEW a \in Actors, NEW rows, Write(a, rows)
  PROVE  SyncedInv'
  <1>. DEFINE t == [phase |-> "written", rows |-> rows, next |-> Derive(rows), sync |-> None]
  <1>1. t.phase = "written" /\ t.rows = rows /\ t.next = Target(rows, episodes)
    BY DeriveIsTarget
  <1>2. SyncedTx(t, episodes, experiment)
    BY <1>1 DEF SyncedTx
  <1>3. tx' = [tx EXCEPT ![a] = t] /\ episodes' = episodes /\ experiment' = experiment
    BY DEF Write, tables
  <1>. HIDE DEF t
  <1>4. DOMAIN tx = Actors
    BY DEF Inv, TypeOK
  <1>5. \A b \in Actors : tx'[b] = tx[b] \/ tx'[b] = t
    BY <1>3, <1>4
  <1>. QED
    BY <1>2, <1>3, <1>5 DEF SyncedInv

LEMMA SyncedSync ==
  ASSUME Inv, SyncedInv, NEW a \in Actors, Sync(a)
  PROVE  SyncedInv'
  <1>. DEFINE next == tx[a].next
              sync == IF next = experiment THEN None ELSE next
  <1>1. /\ tx[a].phase = "written" /\ IsTx(tx[a]) /\ DOMAIN tx = Actors
        /\ episodes' = episodes /\ experiment' = experiment
        /\ tx' = [tx EXCEPT ![a].phase = "synced", ![a].sync = sync]
    BY DEF Sync, Inv, LocksInv, TypeOK, tables
  <1>2. next = Target(tx[a].rows, episodes)
    BY <1>1 DEF SyncedInv, SyncedTx
  <1>3. next # None
    BY <1>2, TargetDerived
  <1>4. Target(tx[a].rows, episodes) = IF sync = None THEN experiment ELSE sync
    BY <1>2, <1>3
  <1>. HIDE DEF sync
  <1>5. /\ tx'[a].phase = "synced" /\ tx'[a].sync = sync /\ tx'[a].rows = tx[a].rows
        /\ \A b \in Actors \ {a} : tx'[b] = tx[b]
    <2>. DEFINE old == tx[a]
                u == [old EXCEPT !.phase = "synced"]
                t == [u EXCEPT !.sync = sync]
    <2>1. tx' = [tx EXCEPT ![a] = t]
      BY <1>1
    <2>. HIDE DEF old
    <2>2. u = [phase |-> "synced", rows |-> old.rows, next |-> old.next, sync |-> old.sync]
      BY <1>1 DEF IsTx, old
    <2>. HIDE DEF u
    <2>3. t = [phase |-> "synced", rows |-> old.rows, next |-> old.next, sync |-> sync]
      BY <2>2
    <2>4. t.phase = "synced" /\ t.sync = sync /\ t.rows = old.rows
      BY <2>3
    <2>. HIDE DEF t
    <2>5. tx'[a] = t /\ \A b \in Actors \ {a} : tx'[b] = tx[b]
      BY <1>1, <2>1
    <2>. QED
      BY <2>4, <2>5 DEF old
  <1>6. SyncedTx(tx'[a], episodes, experiment)
    BY <1>4, <1>5 DEF SyncedTx
  <1>7. \A b \in Actors : SyncedTx(tx'[b], episodes, experiment)
    BY <1>5, <1>6 DEF SyncedInv
  <1>. QED
    BY <1>1, <1>7 DEF SyncedInv

(* Only here it matters that the transaction is alone.                       *)
LEMMA SyncedPublish ==
  ASSUME Inv, Serial, SyncedInv, NEW a \in Actors, Publish(a)
  PROVE  SyncedInv'
  <1>. DEFINE rows == tx[a].rows
  <1>1. /\ tx[a].phase = "synced" /\ tx[a] # NoTx /\ Released(a)
        /\ experiment' = IF tx[a].sync = None THEN experiment ELSE tx[a].sync
        /\ \A e \in DOMAIN rows : episodes'[e] = rows[e]
        /\ \A e \in Episodes \ DOMAIN rows : episodes'[e] = episodes[e]
    BY PublishRows DEF Publish
  <1>2. \A b \in Actors : tx'[b] = NoTx
    BY <1>1 DEF Serial, Released
  <1>3. experiment' = Target(rows, episodes)
    BY <1>1 DEF SyncedInv, SyncedTx
  <1>4. Target(rows, episodes) = Target(<<>>, episodes')
    <2>1. \A e \in Episodes : Seen(rows, episodes, e) = Seen(<<>>, episodes', e)
      BY <1>1 DEF Seen
    <2>. QED
      BY <2>1, TargetSame
  <1>. QED
    BY <1>2, <1>3, <1>4, SyncedNoTx DEF SyncedInv

LEMMA SyncedRun == ASSUME Inv, SyncedInv, Run PROVE SyncedInv'
  <1>1. /\ experiment = "READY" /\ experiment' = "RUNNING" /\ tx' = tx
        /\ \A e \in Episodes : episodes'[e].status = "PENDING"
    BY DEF Run, NewRow
  <1>2. \A a \in Actors : tx'[a] = NoTx
    BY <1>1, Idle
  <1>3. PICK d \in Episodes : TRUE
    BY ConstantsAssumption
  <1>4. \A e \in Episodes : Seen(<<>>, episodes', e) = "PENDING"
    BY <1>1 DEF Seen
  <1>5. "PENDING" \in {Seen(<<>>, episodes', e) : e \in Episodes}
    BY <1>3, <1>4
  <1>6. Target(<<>>, episodes') = "RUNNING"
    BY <1>5 DEF Target, StatusFrom, Open
  <1>. QED
    BY <1>1, <1>2, <1>6, SyncedNoTx DEF SyncedInv

LEMMA SyncedRows ==
  ASSUME SyncedInv, SameStatus, UNCHANGED <<experiment, tx>>
  PROVE  SyncedInv'
  BY SyncedSame

LEMMA SyncedStep == Inv /\ Serial /\ SyncedInv /\ [Next]_vars => SyncedInv'
  <1>. SUFFICES ASSUME Inv, Serial, SyncedInv, [Next]_vars PROVE SyncedInv'
    OBVIOUS
  <1>1. ASSUME UNCHANGED <<tables, tx>> PROVE SyncedInv'
    <2>1. UNCHANGED tables /\ \A b \in Actors : tx'[b] = tx[b] \/ tx'[b] = NoTx
      BY <1>1
    <2>. QED
      BY <2>1, SyncedKept
  <1>2. ASSUME NEW a \in Actors, Discard(a) PROVE SyncedInv'
    <2>1. UNCHANGED tables /\ \A b \in Actors : tx'[b] = tx[b] \/ tx'[b] = NoTx
      BY <1>2, DiscardReleases DEF Released, Inv
    <2>. QED
      BY <2>1, SyncedKept
  <1>3. CASE Run
    BY <1>3, SyncedRun
  <1>4. CASE Tick
    <2>1. SameStatus
      <3>1. \A e \in Episodes : episodes[e] \in Row
        BY Typed DEF Inv
      <3>. QED
        BY <1>4, <3>1, OlderFields DEF Tick, SameStatus
    <2>2. experiment' = experiment
      BY <1>4 DEF Tick
    <2>3. \A a \in Actors :
            /\ tx'[a].phase = tx[a].phase /\ tx'[a].next = tx[a].next
            /\ tx'[a].sync = tx[a].sync /\ DOMAIN tx'[a].rows = DOMAIN tx[a].rows
            /\ \A e \in DOMAIN tx[a].rows : tx'[a].rows[e].status = tx[a].rows[e].status
      BY <1>4, TickRows
    <2>. QED
      BY <2>1, <2>2, <2>3, SyncedSame
  <1>5. CASE \E a \in Actors : Sync(a)
    BY <1>5, SyncedSync
  <1>6. ASSUME NEW c \in Clients,
               \/ ClientCommits(c) \/ ClientRollsBack(c)
               \/ \E e \in Episodes : Retry(c, e) \/ Cancel(c, e)
        PROVE  SyncedInv'
    <2>1. c \in Actors
      BY DEF Actors
    <2>2. CASE ClientCommits(c)
      BY <2>1, <2>2, SyncedPublish DEF ClientCommits
    <2>3. CASE ClientRollsBack(c)
      BY <1>2, <2>1, <2>3 DEF ClientRollsBack
    <2>4. CASE \E e \in Episodes : Retry(c, e) \/ Cancel(c, e)
      BY <2>1, <2>4, SyncedWrite DEF Retry, Cancel
    <2>. QED
      BY <1>6, <2>2, <2>3, <2>4
  <1>7. ASSUME NEW w \in Workers, Loop(w) PROVE SyncedInv'
    <2>1. w \in Actors
      BY DEF Actors
    <2>2. CASE StepStored(w)
      <3>1. StoreStep(w) /\ UNCHANGED <<experiment, tx>>
        BY <2>2 DEF StepStored, StoreStep
      <3>. QED
        BY <3>1, StoreStepRows, SyncedRows
    <2>3. CASE CommitReplied(w)
      BY <2>1, <2>3, SyncedPublish DEF CommitReplied
    <2>4. CASE Recover(w) \/ Claim(w) \/ Finish(w) \/ Fail(w)
      BY <2>1, <2>4, SyncedWrite DEF Recover, Claim, Finish, Fail
    <2>5. CASE \/ NothingStale(w) \/ NothingClaimed(w) \/ RunFails(w) \/ StreamEnds(w)
               \/ FinishRefused(w) \/ FailRefused(w) \/ Exit(w)
      BY <1>1, <2>5
         DEF NothingStale, NothingClaimed, RunFails, StreamEnds, FinishRefused, FailRefused, Exit
    <2>. QED
      BY <1>7, <2>2, <2>3, <2>4, <2>5 DEF Loop
  <1>8. ASSUME NEW w \in Workers, Heartbeat(w) PROVE SyncedInv'
    <2>1. UNCHANGED <<experiment, tx>>
      BY <1>8 DEF Heartbeat
    <2>2. CASE Renewed(w)
      <3>1. episodes \in [Episodes -> Row]
        BY DEF Inv, TypeOK
      <3>2. SameStatus
        BY <2>2, <3>1 DEF Renewed, SameStatus, Row
      <3>. QED
        BY <2>1, <3>2, SyncedRows
    <2>3. CASE episodes' = episodes
      <3>1. SameStatus
        BY <2>3 DEF SameStatus
      <3>. QED
        BY <2>1, <3>1, SyncedRows
    <2>. QED
      BY <1>8, <2>2, <2>3 DEF Heartbeat
  <1>9. ASSUME NEW w \in Workers, GraceEnds(w) \/ Restart(w) PROVE SyncedInv'
    BY <1>1, <1>9 DEF GraceEnds, Restart
  <1>10. ASSUME NEW w \in Workers, Disturb(w) PROVE SyncedInv'
    <2>1. w \in Actors
      BY DEF Actors
    <2>2. CASE StepReplyLost(w)
      <3>1. StoreStep(w) /\ UNCHANGED <<experiment, tx>>
        BY <2>2 DEF StepReplyLost, StoreStep
      <3>. QED
        BY <3>1, StoreStepRows, SyncedRows
    <2>3. CASE SummaryReplyLost(w)
      BY <2>1, <2>3, SyncedPublish DEF SummaryReplyLost
    <2>4. CASE CommitFails(w) \/ Crash(w)
      BY <1>2, <2>1, <2>4 DEF CommitFails, Crash
    <2>5. CASE Stop(w)
      BY <1>1, <2>5 DEF Stop
    <2>. QED
      BY <1>10, <2>2, <2>3, <2>4, <2>5 DEF Disturb
  <1>11. CASE UNCHANGED vars
    BY <1>1, <1>11 DEF vars
  <1>. QED
    BY <1>3, <1>4, <1>5, <1>6, <1>7, <1>8, <1>9, <1>10, <1>11 DEF Next

LEMMA SyncedInit == Init => SyncedInv
  <1>1. Init => experiment = "READY" /\ \A a \in Actors : tx[a] = NoTx
    BY DEF Init
  <1>. QED
    BY <1>1, SyncedNoTx DEF SyncedInv

(* One episode has one row to lock.                                          *)
LEMMA OneRow == Inv /\ (\A d, e \in Episodes : d = e) => Serial
  <1>. SUFFICES ASSUME Inv, \A d, e \in Episodes : d = e,
                       NEW a \in Actors, NEW b \in Actors, tx[a] # NoTx, tx[b] # NoTx, a # b
                PROVE  FALSE
    BY DEF Serial
  <1>1. /\ DOMAIN tx[a].rows # {} /\ DOMAIN tx[b].rows # {}
        /\ DOMAIN tx[a].rows \cap DOMAIN tx[b].rows = {}
    BY DEF Inv, LocksInv, IsTx
  <1>2. DOMAIN tx[a].rows \subseteq Episodes /\ DOMAIN tx[b].rows \subseteq Episodes
    BY Typed DEF Inv, Transaction
  <1>. QED
    BY <1>1, <1>2

-----------------------------------------------------------------------------
(* The theorems.                                                             *)

(* The results of an attempt are whole: whatever crashes, lost replies and   *)
(* commits interleave, the steps counted in a row are the steps stored of its *)
(* attempt, by one worker, and an episode is completed exactly when that      *)
(* attempt has a summary, which counts all of them (persistStep,              *)
(* persistSummary, retryEpisode).                                             *)
THEOREM ResultsStayWhole == Spec => []ResultsAreWhole
  <1>1. Inv => ResultsAreWhole
    BY DEF Inv, ResultsInv, StepsOK, SummaryOK, ResultsAreWhole
  <1>. QED
    BY <1>1, InvHolds, PTL

(* Recovery never replays: an attempt is claimed once, so no two workers hold *)
(* claims of the same one, though one of them may outlive its lease by any    *)
(* time, and clocks may differ by any amount (recoverStale, claimNext).       *)
THEOREM AttemptsHaveOneClaim == Spec => []AttemptsAreExclusive
  <1>1. Inv => AttemptsAreExclusive
    BY DEF Inv, JobsInv
  <1>. QED
    BY <1>1, InvHolds, PTL

(* History is immutable: only the holder of the lease token of a running      *)
(* attempt adds steps or its summary, and the trigger that guards the status  *)
(* of an episode never refuses a commit, because the row stays locked from    *)
(* the decision to the commit.                                                *)
THEOREM HistoryIsFrozen == Spec => OldAttemptsFrozen
  <1>1. Inv /\ [Next]_vars => [\A e \in Episodes : Frozen(e)]_vars
    BY FrozenStep
  <1>. QED
    BY <1>1, InvHolds, PTL DEF Spec, OldAttemptsFrozen, Frozen

(* The status of the experiment drifts only where transactions overlap: in    *)
(* every behaviour in which no two are open at a time, it is the one derived  *)
(* from the episodes, however many there are, and whatever is rolled back     *)
(* (sync_experiment_status_from_episodes).                                    *)
THEOREM SyncedWhenSerial == Spec /\ []Serial => []ExperimentSynced
  <1>1. SyncedInv => ExperimentSynced
    BY DeriveIsTarget DEF SyncedInv, ExperimentSynced
  <1>. QED
    BY <1>1, InvHolds, SyncedInit, SyncedStep, PTL DEF Spec

(* With one episode that is every behaviour, because its transactions wait    *)
(* for each other.                                                            *)
THEOREM SyncedWithOneEpisode ==
  ASSUME \A d, e \in Episodes : d = e
  PROVE  Spec => []ExperimentSynced
  <1>1. Inv => Serial
    BY OneRow
  <1>. QED
    BY <1>1, InvHolds, SyncedWhenSerial, PTL

-----------------------------------------------------------------------------
(* The stream a worker reads: for any observations and any number of steps   *)
(* the collector keeps the promise of StepStream.                            *)

Phases == {"reading", "storing", "returned", "committing", "completed", "failed"}
StoredStep == [step : Nat, about : SUBSET Observations, last : BOOLEAN]

StreamTyped ==
  /\ step \in Nat
  /\ pending \in Seq(Events)
  /\ terminated \in BOOLEAN
  /\ summary \in Nat
  /\ phase \in Phases
  /\ aborted \in BOOLEAN
  /\ stored \in Seq(StoredStep)
  /\ late \in BOOLEAN

(* The events at hand are the first ones of the step that is next in the   *)
(* database, all about one observation.                                    *)
PendingAgrees ==
  /\ step = Len(stored)
  /\ Len(pending) <= 3
  /\ pending # <<>> => summary = 0 /\ ~terminated
  /\ \A k \in 1..Len(pending) : pending[k].about = pending[1].about
  /\ Len(pending) = 3 => pending[3].step = step

(* What each phase says of the rest. *)
PhaseAgrees ==
  /\ phase = "reading" => Len(pending) < 3
  /\ phase = "storing" => Len(pending) = 3
  /\ phase \in {"returned", "committing"} => summary > 0
  /\ phase = "committing" => ~aborted
  /\ late => phase = "failed"

(* The summary counts the stored steps, and no step follows the last one. *)
StoredAgrees ==
  /\ terminated = Promise!Terminated
  /\ summary > 0 => summary = Len(stored)

StreamInv == StreamTyped /\ PendingAgrees /\ PhaseAgrees /\ StoredAgrees

USE DEF Phases

(* A step with its three events at hand is a step of the promise. *)
LEMMA PendingStep ==
  ASSUME StreamInv, phase = "storing"
  PROVE  /\ pending[1].about \in Observations
         /\ pending[3].last \in BOOLEAN
         /\ pending[3].step = Len(stored)
         /\ {pending[k].about : k \in 1..3} = {pending[1].about}
  <1>1. Len(pending) = 3 /\ pending \in Seq(Events)
    BY DEF StreamInv, StreamTyped, PhaseAgrees
  <1>2. pending[1] \in Events /\ pending[3] \in Events
    BY <1>1, ElementOfSeq
  <1>3. \A k \in 1..3 : pending[k].about = pending[1].about
    BY <1>1 DEF StreamInv, PendingAgrees
  <1>. QED
    BY <1>1, <1>2, <1>3 DEF StreamInv, PendingAgrees, Events

(* The promise starts where the collector does. *)
LEMMA StreamInitHolds == StreamInit => StreamInv /\ Promise!Init
  <1>. SUFFICES ASSUME StreamInit PROVE StreamInv /\ Promise!Init
    OBVIOUS
  <1>. USE DEF StreamInit
  <1>0. <<>> \in Seq(Events) /\ <<>> \in Seq(StoredStep)
    OBVIOUS
  <1>1. StreamTyped
    BY <1>0 DEF StreamTyped
  <1>2. PendingAgrees /\ PhaseAgrees
    BY DEF PendingAgrees, PhaseAgrees
  <1>3. StoredAgrees
    BY DEF StoredAgrees, Promise!Terminated
  <1>4. Promise!Init
    BY DEF Promise!Init, Outcome
  <1>. QED
    BY <1>1, <1>2, <1>3, <1>4 DEF StreamInv

(* Taking in an event keeps the invariant; the promise does not notice, or *)
(* sees a summary.                                                         *)
LEMMA AcceptStep ==
  ASSUME StreamInv, NEW e \in Events, Accept(e)
  PROVE  StreamInv' /\ (Promise!Summarize \/ UNCHANGED <<stored, summary, Outcome, aborted, late>>)
  <1>1. /\ summary = 0 /\ phase = "reading" /\ ~aborted
        /\ UNCHANGED <<step, terminated, aborted, stored, late>>
    BY DEF Accept, Acceptable, Reading
  <1>2. CASE e.type = "EpisodeSummary"
    <2>1. /\ pending = <<>> /\ step > 0 /\ e.step = step
          /\ summary' = step /\ UNCHANGED <<pending, phase>>
      BY <1>2 DEF Accept, Acceptable
    <2>2. StreamTyped' /\ PendingAgrees' /\ PhaseAgrees'
      BY <1>1, <2>1 DEF StreamInv, StreamTyped, PendingAgrees, PhaseAgrees
    <2>3. StoredAgrees'
      BY <1>1, <2>1 DEF StreamInv, StoredAgrees, PendingAgrees, Promise!Terminated
    <2>4. Promise!Summarize
      BY <1>1, <2>1 DEF Promise!Summarize, Outcome, StreamInv, PendingAgrees, StreamTyped
    <2>. QED
      BY <2>2, <2>3, <2>4 DEF StreamInv
  <1>3. CASE e.type # "EpisodeSummary"
    <2>1. /\ ~terminated
          /\ e.type = StepEvents[Len(pending) + 1]
          /\ e.type # "PolicyRecommendation" => e.step = step
          /\ pending # <<>> => e.about = pending[1].about
          /\ pending' = Append(pending, e)
          /\ phase' = IF Len(pending') = 3 THEN "storing" ELSE "reading"
          /\ summary' = summary
      BY <1>3 DEF Accept, Acceptable
    <2>2. pending \in Seq(Events) /\ Len(pending) < 3 /\ Len(pending) \in Nat
      BY <1>1 DEF StreamInv, StreamTyped, PhaseAgrees
    <2>3. /\ pending' \in Seq(Events) /\ Len(pending') = Len(pending) + 1
          /\ \A k \in 1..Len(pending) : pending'[k] = pending[k]
          /\ pending'[Len(pending) + 1] = e
      BY <2>1, <2>2
    <2>4. StreamTyped'
      BY <1>1, <2>1, <2>3 DEF StreamInv, StreamTyped
    <2>5. \A k \in 1..Len(pending') : pending'[k].about = pending'[1].about
      <3>1. CASE pending = <<>>
        BY <2>2, <2>3, <3>1
      <3>2. CASE pending # <<>>
        <4>1. pending'[1] = pending[1]
          BY <2>2, <2>3, <3>2
        <4>2. \A k \in 1..Len(pending) : pending[k].about = pending[1].about
          BY DEF StreamInv, PendingAgrees
        <4>. QED
          BY <2>1, <2>2, <2>3, <3>2, <4>1, <4>2
      <3>. QED
        BY <3>1, <3>2
    <2>6. Len(pending') = 3 => pending'[3].step = step
      <3>. HAVE Len(pending') = 3
      <3>1. e.type = StepEvents[3] /\ pending'[3] = e
        BY <2>1, <2>2, <2>3
      <3>. QED
        BY <2>1, <3>1 DEF StepEvents
    <2>7. PendingAgrees'
      BY <1>1, <2>1, <2>2, <2>3, <2>5, <2>6 DEF StreamInv, PendingAgrees
    <2>8. PhaseAgrees'
      BY <1>1, <2>1, <2>2, <2>3 DEF StreamInv, PhaseAgrees
    <2>9. StoredAgrees'
      BY <1>1, <2>1 DEF StreamInv, StoredAgrees, Promise!Terminated
    <2>10. UNCHANGED <<stored, summary, Outcome, aborted, late>>
      BY <1>1, <2>1 DEF Outcome
    <2>. QED
      BY <2>4, <2>7, <2>8, <2>9, <2>10 DEF StreamInv
  <1>. QED
    BY <1>2, <1>3

(* Storing a step is the promise's store. *)
LEMMA CommitStep ==
  ASSUME StreamInv, StepCommits
  PROVE  StreamInv' /\ Promise!Store
  <1>1. /\ phase = "storing" /\ pending' = <<>> /\ late' = aborted
        /\ terminated' = pending[3].last /\ step' = step + 1
        /\ phase' = (IF aborted THEN "failed" ELSE "reading")
        /\ UNCHANGED <<summary, aborted>>
    BY DEF StepCommits
  <1>2. /\ pending[1].about \in Observations /\ pending[3].last \in BOOLEAN
        /\ pending[3].step = Len(stored)
        /\ {pending[k].about : k \in 1..3} = {pending[1].about}
    BY <1>1, PendingStep
  <1>3. summary = 0 /\ ~terminated /\ ~late
    <2>1. pending \in Seq(Events) /\ Len(pending) = 3
      BY <1>1 DEF StreamInv, StreamTyped, PhaseAgrees
    <2>2. pending # <<>>
      BY <2>1
    <2>. QED
      BY <1>1, <2>2 DEF StreamInv, PendingAgrees, PhaseAgrees
  <1>. DEFINE s == [step |-> Len(stored), about |-> {pending[1].about}, last |-> pending[3].last]
  <1>4. stored' = Append(stored, s)
    BY <1>2 DEF StepCommits
  <1>5. stored \in Seq(StoredStep) /\ Len(stored) \in Nat /\ step = Len(stored)
    BY DEF StreamInv, StreamTyped, PendingAgrees
  <1>6. s \in StoredStep
    BY <1>2, <1>5 DEF StoredStep
  <1>7. /\ stored' \in Seq(StoredStep) /\ Len(stored') = Len(stored) + 1
        /\ stored'[Len(stored')] = s /\ stored' # <<>>
    <2>. HIDE DEF s
    <2>. QED
      BY <1>4, <1>5, <1>6
  <1>8. StreamTyped'
    BY <1>1, <1>2, <1>5, <1>7 DEF StreamInv, StreamTyped
  <1>9. PendingAgrees' /\ PhaseAgrees'
    BY <1>1, <1>3, <1>5, <1>7 DEF StreamInv, StreamTyped, PendingAgrees, PhaseAgrees
  <1>10. StoredAgrees'
    <2>1. stored'[Len(stored')].last = pending[3].last
      BY <1>7
    <2>2. terminated' = Promise!Terminated'
      BY <1>1, <1>2, <1>7, <2>1 DEF Promise!Terminated
    <2>. QED
      BY <1>1, <1>3, <2>2 DEF StoredAgrees
  <1>11. Promise!Store
    <2>1. ~Promise!Terminated
      BY <1>3 DEF StreamInv, StoredAgrees
    <2>2. Outcome = "running" /\ Outcome' \in (IF aborted THEN {"failed"} ELSE {"running"})
      BY <1>1 DEF Outcome
    <2>. QED
      BY <1>1, <1>2, <1>3, <1>4, <2>1, <2>2 DEF Promise!Store
  <1>. QED
    BY <1>8, <1>9, <1>10, <1>11 DEF StreamInv

(* The other steps move the phase or the signal only. *)
LEMMA StreamQuietStep ==
  ASSUME StreamInv, EngineCloses \/ Break \/ CheckAbort \/ Commit \/ Abort
  PROVE  /\ StreamInv'
         /\ \/ Promise!Complete \/ Promise!Fail \/ Promise!Stop
            \/ UNCHANGED <<stored, summary, Outcome, aborted, late>>
  <1>1. UNCHANGED <<step, pending, terminated, summary, stored, late>>
    BY DEF EngineCloses, Break, CheckAbort, Commit, Abort
  <1>2. StreamTyped'
    BY <1>1 DEF StreamInv, StreamTyped, EngineCloses, Break, CheckAbort, Commit, Abort
  <1>3. PendingAgrees' /\ StoredAgrees'
    BY <1>1 DEF StreamInv, PendingAgrees, StoredAgrees, Promise!Terminated
  <1>4. PhaseAgrees'
    BY <1>1 DEF StreamInv, StreamTyped, PhaseAgrees, EngineCloses, Break, CheckAbort, Commit, Abort, Reading
  <1>5. ASSUME EngineCloses \/ Break
        PROVE  Promise!Fail \/ UNCHANGED <<stored, summary, Outcome, aborted, late>>
    BY <1>1, <1>5 DEF EngineCloses, Break, Reading, Promise!Fail, Outcome
  <1>6. ASSUME CheckAbort
        PROVE  Promise!Fail \/ UNCHANGED <<stored, summary, Outcome, aborted, late>>
    BY <1>1, <1>6 DEF CheckAbort, Promise!Fail, Outcome
  <1>7. ASSUME Commit
        PROVE  Promise!Fail \/ Promise!Complete
    BY <1>1, <1>7 DEF Commit, Promise!Fail, Promise!Complete, Outcome, StreamInv, PhaseAgrees
  <1>8. ASSUME Abort
        PROVE  Promise!Stop
    BY <1>1, <1>8 DEF Abort, Promise!Stop, Outcome
  <1>. QED
    BY <1>2, <1>3, <1>4, <1>5, <1>6, <1>7, <1>8 DEF StreamInv

LEMMA StreamNextHolds ==
  StreamInv /\ [StreamNext]_streamVars =>
    StreamInv' /\ [Promise!Next]_<<stored, summary, Outcome, aborted, late>>
  <1>. SUFFICES ASSUME StreamInv, [StreamNext]_streamVars
                PROVE  StreamInv' /\ [Promise!Next]_<<stored, summary, Outcome, aborted, late>>
    OBVIOUS
  <1>1. CASE UNCHANGED streamVars
    <2>1. StreamInv'
      BY <1>1 DEF streamVars, StreamInv, StreamTyped, PendingAgrees, PhaseAgrees, StoredAgrees, Promise!Terminated
    <2>. QED
      BY <1>1, <2>1 DEF streamVars, Outcome
  <1>2. ASSUME NEW e \in Events, Accept(e)
        PROVE  StreamInv' /\ [Promise!Next]_<<stored, summary, Outcome, aborted, late>>
    BY <1>2, AcceptStep DEF Promise!Next
  <1>3. CASE StepCommits
    BY <1>3, CommitStep DEF Promise!Next
  <1>4. CASE EngineCloses \/ Break \/ CheckAbort \/ Commit \/ Abort
    BY <1>4, StreamQuietStep DEF Promise!Next
  <1>. QED
    BY <1>1, <1>2, <1>3, <1>4 DEF StreamNext

(* The phases agree with what is read and stored, in every reachable state  *)
(* (the state that sequence and consumeEngineEvents share).                 *)
THEOREM StreamStateAgrees == StreamSpec => []StreamInv
  BY StreamInitHolds, StreamNextHolds, PTL DEF StreamSpec

(* Whatever an engine sends and whenever the reading is aborted, the        *)
(* collector keeps the promise on which the episode worker builds.          *)
THEOREM StreamPromise == StreamSpec => ImplementsStepStream
  BY StreamInitHolds, StreamNextHolds, PTL DEF StreamSpec, ImplementsStepStream, Promise!Spec, Promise!streamVars
=============================================================================
