-------------------------- MODULE DecisionCommand --------------------------
(***************************************************************************)
(* The operations head of a factory and the commands of people on decision *)
(* cases: ingest a snapshot, create a case, approve, reject, commit.        *)
(*                                                                         *)
(* Source: backend/src/services/decision-command.service.js,               *)
(* decision-case.service.js and operations-snapshot.service.js.  Every      *)
(* writer takes the advisory lock of the factory first and keeps it to its  *)
(* commit, so a transaction is one atomic step.  What interleaves is people:*)
(* a request quotes what its author read, waits in the network, and may be  *)
(* delivered late, or again after its reply was lost.                       *)
(***************************************************************************)
EXTENDS Naturals, FiniteSets

CONSTANTS
    Actors,        \* users
    Keys,          \* idempotency keys
    Cases,         \* decision case identifiers
    Snapshots,     \* snapshot identifiers
    Contents,      \* what a snapshot may contain
    Plans,         \* candidate plans, with their version and schedule
    ValidPlans,    \* those whose validation verdict is VALID
    Schedules,     \* schedule identities: schedule_id and revision
    ScheduleOf,    \* the identity of each plan's schedule
    None,          \* NULL
    MaxInFlight    \* bound: requests being sent or retried at one time

ASSUME ConstantsAssumption ==
    /\ ValidPlans \subseteq Plans
    /\ ScheduleOf \in [Plans -> Schedules]
    /\ None \notin Snapshots \cup Plans \cup Schedules \cup Contents \cup Cases
    /\ MaxInFlight \in Nat

VARIABLES
    head,       \* operations_heads: the row of the factory
    snapshots,  \* factory_snapshots: content by identifier
    cases,      \* decision_cases, with the plans of their recommendation
    human,      \* decision_human_records
    commits,    \* decision_commits
    published,  \* operation_schedules: the plan published under an identity
    events,     \* decision_case_events of human commands
    receipts,   \* decision_case_idempotency_receipts
    requests,   \* requests on their way, or to be retried
    grant,      \* may the actor write to the factory (role and membership)
    born        \* history: the head's revision when the case was created

tables == <<head, snapshots, cases, human, commits, published, events, born>>
vars == <<head, snapshots, cases, human, commits, published, events, receipts,
          requests, grant, born>>

-----------------------------------------------------------------------------
Modes == {"LIVE", "SIMULATION_ONLY"}
Commands == {"APPROVE", "REJECT", "COMMIT"}
Decided == {"APPROVED", "REJECTED", "COMMITTED"}
Status == {"NONE", "CREATED", "FAILED", "AWAITING_APPROVAL"} \cup Decided

\* The fewest revisions planning takes: DecisionCase has every other number.
FailedRevision == 3
PlannedRevision == 6

OperationsHead == [revision: Nat, snapshot: Snapshots \cup {None},
                   version: Nat, schedule: Schedules \cup {None}]
NoHead == [revision |-> 0, snapshot |-> None, version |-> 0, schedule |-> None]

Case == [status: Status, mode: Modes, snapshot: Snapshots \cup {None},
         base: Nat, revision: Nat, plans: SUBSET Plans]
NoRow == [status |-> "NONE", mode |-> "LIVE", snapshot |-> None,
          base |-> 0, revision |-> 0, plans |-> {}]

Human == [decision: {"NONE", "APPROVE", "REJECT"}, plan: Plans \cup {None}]
Undecided == [decision |-> "NONE", plan |-> None]

\* version 0 stands for the absence of a commit.
Publication == [version: Nat, plan: Plans \cup {None},
                snapshot: Snapshots \cup {None}]
Unpublished == [version |-> 0, plan |-> None, snapshot |-> None]

HumanEvent == [actor: Actors, revision: Nat, to: Decided, version: Nat]

\* The body of a request: what contentHash() tells apart.
Body == [command: Commands \cup {"CREATE"}, case: Cases \cup {None},
         mode: Modes, revision: Nat, snapshot: Snapshots, version: Nat,
         plan: Plans \cup {None}]
Request == [actor: Actors, key: Keys, body: Body]

\* A receipt keeps the request's hash and the response first sent.
Receipt == [body: Body, case: Cases, status: Status, revision: Nat,
            version: Nat]

ASSUME NullAssumption == None \notin Receipt

Init ==
    /\ head = NoHead
    /\ snapshots = [s \in Snapshots |-> None]
    /\ cases = [c \in Cases |-> NoRow]
    /\ human = [c \in Cases |-> Undecided]
    /\ commits = [c \in Cases |-> Unpublished]
    /\ published = [s \in Schedules |-> None]
    /\ events = [c \in Cases |-> {}]
    /\ receipts = [a \in Actors |-> [k \in Keys |-> None]]
    /\ requests = {}
    /\ grant = [a \in Actors |-> TRUE]
    /\ born = [c \in Cases |-> 0]

-----------------------------------------------------------------------------
(* ingestFactorySnapshot.  Any source may deliver any content for any      *)
(* identifier, against any head revision it remembers.                      *)
(*                                                                         *)
(* Operators whose comment starts with "Mutant" are wrong on purpose: they *)
(* replace the definition after them to show that a property detects it.   *)

\* Mutant: a snapshot delivered again becomes the current one again.
IngestRepublishing(s, content, expected) ==
    /\ snapshots[s] \in {None, content}
    /\ head.revision = expected
    /\ head.snapshot # s
    /\ snapshots' = [snapshots EXCEPT ![s] = content]
    /\ head' = [head EXCEPT !.revision = @ + 1, !.snapshot = s]
    /\ UNCHANGED <<cases, human, commits, published, events, born, receipts,
                   requests, grant>>

\* Stored again with the same content it is a replay, with another content a
\* conflict: neither writes.
Ingest(s, content, expected) ==
    /\ snapshots[s] = None
    /\ head.revision = expected
    /\ snapshots' = [snapshots EXCEPT ![s] = content]
    /\ head' = [head EXCEPT !.revision = @ + 1, !.snapshot = s]
    /\ UNCHANGED <<cases, human, commits, published, events, born, receipts,
                   requests, grant>>

-----------------------------------------------------------------------------
(* Requests: their author read the head and the case at one moment.        *)

Send(a, k, body) ==
    /\ Cardinality(requests) < MaxInFlight
    /\ [actor |-> a, key |-> k, body |-> body] \notin requests
    /\ requests' = requests \cup {[actor |-> a, key |-> k, body |-> body]}
    /\ UNCHANGED <<tables, receipts, grant>>

SendCreate(a, k, mode) ==
    /\ head.revision > 0
    /\ Send(a, k, [command |-> "CREATE", case |-> None, mode |-> mode,
                   revision |-> 0, snapshot |-> head.snapshot,
                   version |-> head.version, plan |-> None])

\* The tokens of a command are those of the case the author looked at.
Tokens(c, command, p) ==
    [command |-> command, case |-> c, mode |-> cases[c].mode,
     revision |-> cases[c].revision, snapshot |-> cases[c].snapshot,
     version |-> cases[c].base, plan |-> IF command = "REJECT" THEN None ELSE p]

\* A command quotes a recommendation, so the author has seen one.
SendCommand(a, k, c, command, p) ==
    /\ cases[c].plans # {}
    /\ Send(a, k, Tokens(c, command, p))

-----------------------------------------------------------------------------
(* The fences of a request, checked under the factory lock.                *)

CreateFence(b) ==
    /\ head.revision > 0
    /\ head.snapshot = b.snapshot
    /\ head.version = b.version

\* Mutant: any valid plan of the recommendation can be committed.
SelectionFenceAnyPlan(b) ==
    b.command # "REJECT" => b.plan \in cases[b.case].plans \cap ValidPlans

\* The selected candidate is a valid one of this recommendation, and what is
\* committed is the candidate approved.
SelectionFence(b) ==
    /\ b.command # "REJECT" => b.plan \in cases[b.case].plans \cap ValidPlans
    /\ b.command = "COMMIT" =>
         human[b.case] = [decision |-> "APPROVE", plan |-> b.plan]

\* Mutant: the head's snapshot is not compared.
BasisFenceVersionOnly(b) ==
    /\ cases[b.case].snapshot = b.snapshot
    /\ head.version = b.version /\ cases[b.case].base = b.version

\* Mutant: the plan version of the head is not compared.
BasisFenceSnapshotOnly(b) ==
    head.snapshot = b.snapshot /\ cases[b.case].snapshot = b.snapshot

\* The basis reviewed is the basis of the case and still the head's.
BasisFence(b) ==
    /\ head.snapshot = b.snapshot /\ cases[b.case].snapshot = b.snapshot
    /\ head.version = b.version /\ cases[b.case].base = b.version

\* Mutant: simulation cases can be committed.
StateFenceAnyMode(b) ==
    /\ cases[b.case].revision = b.revision
    /\ cases[b.case].status =
         IF b.command = "COMMIT" THEN "APPROVED" ELSE "AWAITING_APPROVAL"

StateFence(b) ==
    /\ cases[b.case].revision = b.revision
    /\ b.command = "COMMIT" => cases[b.case].mode = "LIVE"
    /\ cases[b.case].status =
         IF b.command = "COMMIT" THEN "APPROVED" ELSE "AWAITING_APPROVAL"

IdentityFence(b) ==
    b.command = "COMMIT" => published[ScheduleOf[b.plan]] = None

Fence(b) ==
    IF b.command = "CREATE"
    THEN CreateFence(b)
    ELSE StateFence(b) /\ BasisFence(b) /\ SelectionFence(b) /\ IdentityFence(b)

\* authorizeFactoryWrite, then the receipt, then the fences.
Outcome(r) ==
    IF ~grant[r.actor] THEN "refused"
    ELSE IF receipts[r.actor][r.key] # None
         THEN IF receipts[r.actor][r.key].body = r.body
              THEN "replayed" ELSE "reused"
    ELSE IF Fence(r.body) THEN "done" ELSE "conflict"

-----------------------------------------------------------------------------
(* What a request writes, in one transaction.                              *)

\* The reply arrives, or it is lost and the author will retry.
Replied(r) == requests' \in {requests \ {r}, requests}

\* Mutant: only commits leave a receipt.
ReceiptOfCommits(r, c, status, revision, version) ==
    receipts' = IF r.body.command # "COMMIT" THEN receipts
                ELSE [receipts EXCEPT ![r.actor][r.key] =
                        [body |-> r.body, case |-> c, status |-> status,
                         revision |-> revision, version |-> version]]

WriteReceipt(r, c, status, revision, version) ==
    receipts' = [receipts EXCEPT ![r.actor][r.key] =
                   [body |-> r.body, case |-> c, status |-> status,
                    revision |-> revision, version |-> version]]

\* createDecisionCase, insertValidatedDecisionCase
Create(r, c) ==
    /\ r.body.command = "CREATE" /\ Outcome(r) = "done"
    /\ cases[c].status = "NONE"
    /\ cases' = [cases EXCEPT ![c] =
                   [status |-> "CREATED", mode |-> r.body.mode,
                    snapshot |-> head.snapshot, base |-> head.version,
                    revision |-> 1, plans |-> {}]]
    /\ born' = [born EXCEPT ![c] = head.revision]
    /\ WriteReceipt(r, c, "CREATED", 1, head.version)
    /\ Replied(r)
    /\ UNCHANGED <<head, snapshots, human, commits, published, events, grant>>

\* The row, the human event and the receipt of a command.
Advance(r, status, version) ==
    LET c == r.body.case
        revision == cases[c].revision + 1
    IN  /\ cases' = [cases EXCEPT ![c].status = status,
                                  ![c].revision = revision]
        /\ events' = [events EXCEPT ![c] = @ \cup
             {[actor |-> r.actor, revision |-> revision, to |-> status,
               version |-> version]}]
        /\ WriteReceipt(r, c, status, revision, version)
        /\ Replied(r)
        /\ UNCHANGED <<snapshots, grant, born>>

Approve(r) ==
    /\ r.body.command = "APPROVE" /\ Outcome(r) = "done"
    /\ human' = [human EXCEPT ![r.body.case] =
                   [decision |-> "APPROVE", plan |-> r.body.plan]]
    /\ Advance(r, "APPROVED", head.version)
    /\ UNCHANGED <<head, commits, published>>

Reject(r) ==
    /\ r.body.command = "REJECT" /\ Outcome(r) = "done"
    /\ human' = [human EXCEPT ![r.body.case] =
                   [decision |-> "REJECT", plan |-> None]]
    /\ Advance(r, "REJECTED", head.version)
    /\ UNCHANGED <<head, commits, published>>

NextHead(p) ==
    [head EXCEPT !.schedule = ScheduleOf[p], !.version = @ + 1,
                 !.revision = @ + 1]

Commit(r) ==
    LET c == r.body.case
        p == r.body.plan
    IN  /\ r.body.command = "COMMIT" /\ Outcome(r) = "done"
        /\ published' = [published EXCEPT ![ScheduleOf[p]] = p]
        /\ commits' = [commits EXCEPT ![c] =
             [version |-> head.version + 1, plan |-> p,
              snapshot |-> cases[c].snapshot]]
        /\ head' = NextHead(p)
        /\ Advance(r, "COMMITTED", NextHead(p).version)
        /\ UNCHANGED human

\* Refused, in conflict or a replay: nothing is written and the author stops.
GiveUp(r) ==
    /\ Outcome(r) # "done"
    /\ requests' = requests \ {r}
    /\ UNCHANGED <<tables, receipts, grant>>

-----------------------------------------------------------------------------
(* The planning workers (DecisionCase), and changes of access.             *)

Plan(c) ==
    /\ cases[c].status = "CREATED"
    /\ \E plans \in (SUBSET Plans) \ {{}} :
         cases' = [cases EXCEPT ![c].status = "AWAITING_APPROVAL",
                                ![c].revision = PlannedRevision,
                                ![c].plans = plans]
    /\ UNCHANGED <<head, snapshots, human, commits, published, events, born,
                   receipts, requests, grant>>

PlanningFails(c) ==
    /\ cases[c].status = "CREATED"
    /\ cases' = [cases EXCEPT ![c].status = "FAILED",
                              ![c].revision = FailedRevision]
    /\ UNCHANGED <<head, snapshots, human, commits, published, events, born,
                   receipts, requests, grant>>

ChangeAccess(a) ==
    /\ grant' = [grant EXCEPT ![a] = ~@]
    /\ UNCHANGED <<tables, receipts, requests>>

Next ==
    \/ \E s \in Snapshots, content \in Contents :
          \E expected \in 0..head.revision : Ingest(s, content, expected)
    \/ \E a \in Actors, k \in Keys :
          \/ \E mode \in Modes : SendCreate(a, k, mode)
          \/ \E c \in Cases, command \in Commands, p \in Plans :
                SendCommand(a, k, c, command, p)
    \/ \E r \in requests :
          \/ \E c \in Cases : Create(r, c)
          \/ Approve(r) \/ Reject(r) \/ Commit(r) \/ GiveUp(r)
    \/ \E c \in Cases : Plan(c) \/ PlanningFails(c)
    \/ \E a \in Actors : ChangeAccess(a)

Spec == Init /\ [][Next]_vars

-----------------------------------------------------------------------------
(* Type invariant.                                                         *)
TypeOK ==
    /\ head \in OperationsHead
    /\ snapshots \in [Snapshots -> Contents \cup {None}]
    /\ cases \in [Cases -> Case]
    /\ human \in [Cases -> Human]
    /\ commits \in [Cases -> Publication]
    /\ published \in [Schedules -> Plans \cup {None}]
    /\ events \in [Cases -> SUBSET HumanEvent]
    /\ receipts \in [Actors -> [Keys -> Receipt \cup {None}]]
    /\ requests \in SUBSET Request
    /\ grant \in [Actors -> BOOLEAN]
    /\ born \in [Cases -> Nat]

\* meta.stale of a case.
Stale(c) ==
    \/ head.snapshot # cases[c].snapshot
    \/ head.version # cases[c].base

(* What was published for a case is the very plan a person approved for it, *)
(* on the snapshot of the case, in a live case; and it is still what        *)
(* operation_schedules holds under its identity.                            *)
PublishedAsApproved ==
    \A c \in Cases :
        /\ commits[c] # Unpublished <=> cases[c].status = "COMMITTED"
        /\ commits[c] # Unpublished =>
             /\ human[c] = [decision |-> "APPROVE", plan |-> commits[c].plan]
             /\ commits[c].snapshot = cases[c].snapshot
             /\ cases[c].mode = "LIVE"
             /\ published[ScheduleOf[commits[c].plan]] = commits[c].plan

(* "Failed transactions leave neither effects nor a receipt", and no request *)
(* has two effects: the receipts naming a case are exactly those of its      *)
(* creation and of each human event, whoever retried what in between.  The   *)
(* variables have their types.                                               *)
ReceiptPerEffect ==
    /\ TypeOK
    /\ \A c \in Cases :
         LET of == {ak \in Actors \X Keys :
                      /\ receipts[ak[1]][ak[2]] # None
                      /\ receipts[ak[1]][ak[2]].case = c}
         IN  /\ Cardinality(of) = Cardinality(events[c])
                                    + IF cases[c].status = "NONE" THEN 0 ELSE 1
             /\ \A e \in events[c] :
                  \E k \in Keys :
                     LET t == receipts[e.actor][k] IN
                     /\ <<e.actor, k>> \in of
                     /\ t.status = e.to /\ t.revision = e.revision
                     /\ t.version = e.version

\* caseResponse(): the commands a read offers.
Offered(c, a) ==
    IF ~grant[a] \/ Stale(c) THEN {}
    ELSE CASE cases[c].status = "AWAITING_APPROVAL" ->
                {"REJECT"} \cup IF cases[c].plans \cap ValidPlans = {}
                                THEN {} ELSE {"APPROVE"}
           [] cases[c].status = "APPROVED" /\ cases[c].mode = "LIVE" ->
                {"COMMIT"}
           [] OTHER -> {}

(* What a read says of a case can be acted on.  A case that is not reported *)
(* stale belongs to a head nobody has touched since the case was created:   *)
(* the two tokens of its basis say as much as the head's revision would, and *)
(* no replayed snapshot leads back to an earlier pair.  A command is offered *)
(* exactly when, sent at once with the tokens read, some selection of it     *)
(* passes the fences; only the schedule's identity, published by another     *)
(* case, may still refuse it.                                                *)
ReadsCanBeActedOn ==
    /\ \A c \in Cases :
         cases[c].status # "NONE" /\ ~Stale(c) => head.revision = born[c]
    /\ \A c \in Cases, a \in Actors :
         cases[c].plans # {} /\ grant[a] =>
             \A command \in Commands :
                 command \in Offered(c, a) <=>
                     \E p \in Plans :
                         LET b == Tokens(c, command, p) IN
                         StateFence(b) /\ BasisFence(b) /\ SelectionFence(b)

(* A person's command takes effect only while the head is the very one the  *)
(* case was created on: no snapshot was ingested and nothing was published  *)
(* between the creation of the case and its approval, rejection or commit.  *)
DecidedOnUntouchedBasis ==
    [][\A c \in Cases :
         cases'[c].status # cases[c].status /\ cases'[c].status \in Decided
            => head.revision = born[c]]_vars

-----------------------------------------------------------------------------
(* The triggers of 20261009000000_decision_commands, from their SQL.        *)

\* decision_human_insert_guard and the primary key of the table.
HumanInsertGuard(c) ==
    /\ human[c] = Undecided
    /\ cases[c].status = "AWAITING_APPROVAL"
    /\ human'[c].decision = "APPROVE" =>
         human'[c].plan \in cases[c].plans \cap ValidPlans

\* decision_commit_insert_guard, evaluated before the head is updated.
CommitInsertGuard(c) ==
    /\ commits[c] = Unpublished
    /\ cases[c].status = "APPROVED" /\ cases[c].mode = "LIVE"
    /\ human[c].decision = "APPROVE"
    /\ commits'[c].snapshot = cases[c].snapshot
    /\ head.snapshot = cases[c].snapshot /\ head.version = cases[c].base
    /\ commits'[c].version = head.version + 1
    /\ published'[ScheduleOf[commits'[c].plan]] = human[c].plan

\* decision_case_processing_guard on the edges of human commands.
StatusGuard(c) ==
    /\ cases'[c].revision = cases[c].revision + 1
    /\ human'[c].decision =
         IF cases'[c].status = "REJECTED" THEN "REJECT" ELSE "APPROVE"
    /\ cases'[c].status = "COMMITTED" =>
         /\ cases[c].mode = "LIVE"
         /\ commits'[c] # Unpublished
         /\ head'.schedule = ScheduleOf[commits'[c].plan]
         /\ head'.version = commits'[c].version
         /\ head'.snapshot = cases[c].snapshot

(* The triggers, which guard direct writes as well, accept every transaction *)
(* of the service, and published schedules are never overwritten.            *)
CommandTriggersNeverFire ==
    [][/\ \A c \in Cases :
            /\ human'[c] # human[c] => HumanInsertGuard(c)
            /\ commits'[c] # commits[c] => CommitInsertGuard(c)
            /\ cases'[c].status # cases[c].status /\ cases'[c].status \in Decided
                 => StatusGuard(c)
       /\ \A s \in Schedules :
            published[s] # None => published'[s] = published[s]]_vars

-----------------------------------------------------------------------------
(* The publications, in the order of their plan versions.                   *)
PublicationLog ==
    [v \in 1..head.version |->
        LET c == CHOOSE d \in Cases : commits[d].version = v
        IN  <<commits[c].plan, commits[c].snapshot>>]

Approvals == {<<human[c].plan, cases[c].snapshot>> :
                c \in {d \in Cases : human[d].decision = "APPROVE"}}

Abstract == INSTANCE Publication WITH log <- PublicationLog,
                                      approved <- Approvals

(* The commands implement an append-only log of approved publications: one  *)
(* per plan version, no entry ever changed, no schedule identity twice.      *)
ImplementsPublication == Abstract!Spec
=============================================================================
