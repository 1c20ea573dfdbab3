--------------------------- MODULE ScenarioWorkspace ---------------------------
(***************************************************************************)
(* Scenario workspaces of one factory: drafts, the runs enqueued from them *)
(* and their hand-over to a LIVE decision case                             *)
(* (services/scenario-workspace.service.js, scenario-live.service.js and   *)
(* scenario-job.service.js).                                               *)
(*                                                                         *)
(* Every command is one transaction under the factory's lock, except the   *)
(* LIVE evaluation: it is prepared in one transaction, validated outside   *)
(* any, and created in a second one.  Requests are composed from what      *)
(* their author reads at that moment, may be delivered at any time, and    *)
(* are sent again under their key when no answer comes.                    *)
(***************************************************************************)
EXTENDS FactoryAccess

CONSTANTS
  Keys,          \* the idempotency keys each author uses
  Contents,      \* what a draft may say: its overrides and weights
  Mappable,      \* the contents whose overrides a LIVE case can express
  MaxHead,       \* bound: revisions of the operations head
  MaxInFlight,   \* bound: requests under way at a time
  None

ASSUME WorkspaceAssumption ==
  /\ DOMAIN Keys = Users
  /\ Mappable \subseteq Contents
  /\ MaxHead \in Nat \ {0}
  /\ MaxInFlight \in Nat
  /\ None \notin Contents \cup Users

VARIABLES
  head,         \* operations_heads: snapshot, plan version and revision
  workspaces,   \* each pins a snapshot and a plan version
  drafts,       \* each has its workspace and its revisions, oldest first
  jobs,         \* runs and sensitivity sweeps, with the input they froze
  cases,        \* scenario_live_evaluations and the LIVE case of each
  receipts,     \* the request behind each author's key, or None
  requests      \* requests under way

tables == <<workspaces, drafts, jobs, cases>>
workspaceVars == <<accessVars, head, tables, receipts, requests>>

Writers == {"ADMIN", "ENGINEER"}

(* The input of a run without a draft: the workspace's own configuration,  *)
(* which has no overrides.                                                 *)
Baseline == 0

-----------------------------------------------------------------------------
(* Effects.  "by" and "seen" are history: the author and key of the effect,*)
(* and the revision its author had read.                                   *)

Pinned(w) == [snapshot |-> workspaces[w].snapshot, plan |-> workspaces[w].plan]

NewWorkspace(b, by) ==
  /\ workspaces' = Append(workspaces, [snapshot |-> head.snapshot, plan |-> head.plan, by |-> by])
  /\ UNCHANGED <<drafts, jobs, cases>>

NewDraft(b, by) ==
  /\ drafts' = Append(drafts, [workspace |-> b.workspace,
                               revisions |-> <<[content |-> b.content, seen |-> 0, by |-> by]>>])
  /\ UNCHANGED <<workspaces, jobs, cases>>

DraftRevised(b, by) ==
  /\ drafts' = [drafts EXCEPT ![b.draft].revisions =
                  Append(@, [content |-> b.content, seen |-> b.revision, by |-> by])]
  /\ UNCHANGED <<workspaces, jobs, cases>>

(* frozenInput: the content goes into the job, not a reference to it. *)
NewRun(b, by) ==
  /\ jobs' = Append(jobs,
       [kind |-> "RUN", workspace |-> b.workspace, status |-> "QUEUED",
        draft |-> b.draft, revision |-> b.revision, by |-> by,
        content |-> IF b.draft = Baseline THEN Baseline
                    ELSE drafts[b.draft].revisions[Len(drafts[b.draft].revisions)].content])
  /\ UNCHANGED <<workspaces, drafts, cases>>

NewSweep(b, by) ==
  /\ jobs' = Append(jobs,
       [kind |-> "SENSITIVITY", workspace |-> b.workspace, status |-> "QUEUED",
        draft |-> jobs[b.run].draft, revision |-> jobs[b.run].revision, by |-> by,
        content |-> jobs[b.run].content])
  /\ UNCHANGED <<workspaces, drafts, cases>>

NewCase(b, by) ==
  /\ cases' = Append(cases, [workspace |-> b.workspace, run |-> b.run,
                             snapshot |-> head.snapshot, plan |-> head.plan,
                             revision |-> head.revision, by |-> by])
  /\ UNCHANGED <<workspaces, drafts, jobs>>

-----------------------------------------------------------------------------
(* Fences of the commands. *)

(* A job that can be built upon: a run, completed and saved. *)
Completed(j) == jobs[j].kind = "RUN" /\ jobs[j].status \in {"FEASIBLE", "NO_FEASIBLE_PLAN"}

DraftFence(b) == Len(drafts[b.draft].revisions) = b.revision

RunFence(b) == b.draft = Baseline \/ DraftFence(b)

(* source, of both transactions: the run's overrides can be mapped, the    *)
(* head is the one the author confirmed, and it is the workspace's.        *)
SourceFence(b) ==
  /\ Completed(b.run)
  /\ jobs[b.run].content \in Mappable \cup {Baseline}
  /\ head = b.head
  /\ Pinned(b.workspace) = [snapshot |-> head.snapshot, plan |-> head.plan]

(* Mutant: the second transaction trusts the first. *)
LiveFenceOnce(r) ==
  \/ r.prepared
  \/ SourceFence(r.body) /\ jobs[r.body.run].status = "FEASIBLE"

(* The first transaction also asks for a feasible result. *)
LiveFence(r) ==
  /\ SourceFence(r.body)
  /\ ~r.prepared => jobs[r.body.run].status = "FEASIBLE"

Fence(r) ==
  CASE r.body.command = "create" -> head = r.body.head
    [] r.body.command = "createDraft" -> TRUE
    [] r.body.command = "updateDraft" -> DraftFence(r.body)
    [] r.body.command = "enqueueRun" -> RunFence(r.body)
    [] r.body.command = "enqueueSensitivity" -> Completed(r.body.run)
    [] r.body.command = "liveEvaluation" -> LiveFence(r)

(* The order of the checks: authorization, receipt, fences. *)
Outcome(r) ==
  LET receipt == receipts[r.author][r.key] IN
  IF ~AuthorizeWrite(r.author, Writers) THEN "refused"
  ELSE IF receipt # None THEN IF receipt = r.body THEN "replayed" ELSE "refused"
  ELSE IF Fence(r) THEN "done" ELSE "refused"

-----------------------------------------------------------------------------
(* Requests on their way. *)

(* A client makes a new key for each command. *)
Compose(u, k, b) ==
  /\ Cardinality(requests) < MaxInFlight
  /\ receipts[u][k] = None
  /\ \A r \in requests : <<r.author, r.key>> # <<u, k>>
  /\ requests' = requests \cup {[author |-> u, key |-> k, body |-> b, prepared |-> FALSE]}
  /\ UNCHANGED <<accessVars, head, tables, receipts>>

(* What an author can ask for, with what he reads now. *)
ComposeAny(u, k) ==
  \/ Compose(u, k, [command |-> "create", head |-> head])
  \/ \E w \in DOMAIN workspaces :
       \/ \E c \in Contents :
            Compose(u, k, [command |-> "createDraft", workspace |-> w, content |-> c])
       \/ Compose(u, k, [command |-> "enqueueRun", workspace |-> w, draft |-> Baseline, revision |-> 0])
  \/ \E d \in DOMAIN drafts :
       LET now == Len(drafts[d].revisions) IN
       \/ \E c \in Contents :
            Compose(u, k, [command |-> "updateDraft", draft |-> d, revision |-> now, content |-> c])
       \/ Compose(u, k, [command |-> "enqueueRun", workspace |-> drafts[d].workspace,
                         draft |-> d, revision |-> now])
  \/ \E j \in DOMAIN jobs :
       \/ Compose(u, k, [command |-> "enqueueSensitivity", workspace |-> jobs[j].workspace, run |-> j])
       \/ Compose(u, k, [command |-> "liveEvaluation", workspace |-> jobs[j].workspace,
                         run |-> j, head |-> head])

(* No answer came in time: the same request goes out again, while the      *)
(* first is between its two transactions.                                  *)
Resend(r) ==
  /\ r.prepared
  /\ Cardinality(requests) < MaxInFlight
  /\ requests' = requests \cup {[r EXCEPT !.prepared = FALSE]}
  /\ UNCHANGED <<accessVars, head, tables, receipts>>

(* An answer arrives, or is lost, and then the request is sent again. *)
Answered(r) ==
  requests' \in {requests \ {r}, (requests \ {r}) \cup {[r EXCEPT !.prepared = FALSE]}}

Refuse(r) ==
  /\ Outcome(r) = "refused"
  /\ requests' = requests \ {r}
  /\ UNCHANGED <<accessVars, head, tables, receipts>>

Replay(r) ==
  /\ Outcome(r) = "replayed"
  /\ Answered(r)
  /\ UNCHANGED <<accessVars, head, tables, receipts>>

-----------------------------------------------------------------------------
(* The commands. *)

(* Mutant: a draft is cheap, its creation leaves no receipt. *)
ReceiptUnlessDraft(r) ==
  receipts' = IF r.body.command = "createDraft" THEN receipts
              ELSE [receipts EXCEPT ![r.author][r.key] = r.body]

WriteReceipt(r) == receipts' = [receipts EXCEPT ![r.author][r.key] = r.body]

Carries(r, command) == r.body.command = command /\ Outcome(r) = "done"

Commit(r) ==
  /\ WriteReceipt(r)
  /\ Answered(r)
  /\ UNCHANGED <<accessVars, head>>

By(r) == <<r.author, r.key>>

CreateWorkspace(r) == Carries(r, "create") /\ NewWorkspace(r.body, By(r)) /\ Commit(r)
CreateDraft(r) == Carries(r, "createDraft") /\ NewDraft(r.body, By(r)) /\ Commit(r)
UpdateDraft(r) == Carries(r, "updateDraft") /\ DraftRevised(r.body, By(r)) /\ Commit(r)
EnqueueRun(r) == Carries(r, "enqueueRun") /\ NewRun(r.body, By(r)) /\ Commit(r)
EnqueueSensitivity(r) == Carries(r, "enqueueSensitivity") /\ NewSweep(r.body, By(r)) /\ Commit(r)

(* The first transaction writes nothing. *)
PrepareLive(r) ==
  /\ Carries(r, "liveEvaluation") /\ ~r.prepared
  /\ requests' = (requests \ {r}) \cup {[r EXCEPT !.prepared = TRUE]}
  /\ UNCHANGED <<accessVars, head, tables, receipts>>

(* The validator refuses the request, or the process ends meanwhile. *)
ValidationFails(r) ==
  /\ r.prepared
  /\ requests' = requests \ {r}
  /\ UNCHANGED <<accessVars, head, tables, receipts>>

CreateLive(r) ==
  /\ Carries(r, "liveEvaluation") /\ r.prepared
  /\ NewCase(r.body, By(r))
  /\ Commit(r)

-----------------------------------------------------------------------------
(* Around the workspaces. *)

(* A worker ends a job (ScenarioJob says how). *)
JobEnds(j) ==
  /\ jobs[j].status = "QUEUED"
  /\ \E s \in {"FEASIBLE", "NO_FEASIBLE_PLAN", "FAILED"} : jobs' = [jobs EXCEPT ![j].status = s]
  /\ UNCHANGED <<accessVars, head, workspaces, drafts, cases, receipts, requests>>

(* A snapshot is ingested or a plan committed (DecisionCommand says how). *)
HeadMoves ==
  /\ head.revision < MaxHead
  /\ \/ head' = [head EXCEPT !.snapshot = @ + 1, !.revision = @ + 1]
     \/ head' = [head EXCEPT !.plan = @ + 1, !.revision = @ + 1]
  /\ UNCHANGED <<accessVars, tables, receipts, requests>>

(* Grants, revocations and deletions: for a writer, a role or an active flag *)
(* that an update withdraws is a deletion.                                  *)
AccessMoves ==
  /\ \E actor, u \in Users :
       \/ \E grant \in BOOLEAN : ChangeMembership(actor, u, grant)
       \/ DeleteUser(actor, u)
  /\ UNCHANGED <<head, tables, receipts, requests>>

(* The factory has its first snapshot, and a workspace with a draft, made   *)
(* under keys that nobody uses again.                                       *)
WorkspaceInit ==
  /\ AccessInit
  /\ head = [snapshot |-> 1, plan |-> 0, revision |-> 1]
  /\ workspaces = <<[snapshot |-> 1, plan |-> 0, by |-> <<None, 1>>]>>
  /\ \E c \in Mappable :
       drafts = <<[workspace |-> 1,
                   revisions |-> <<[content |-> c, seen |-> 0, by |-> <<None, 2>>]>>]>>
  /\ jobs = <<>>
  /\ cases = <<>>
  /\ receipts = [u \in Users |-> [k \in Keys[u] |-> None]]
  /\ requests = {}

Deliver(r) ==
  \/ Refuse(r) \/ Replay(r) \/ Resend(r) \/ ValidationFails(r)
  \/ CreateWorkspace(r) \/ CreateDraft(r) \/ UpdateDraft(r) \/ EnqueueRun(r)
  \/ EnqueueSensitivity(r) \/ PrepareLive(r) \/ CreateLive(r)

WorkspaceNext ==
  \/ \E u \in Users : \E k \in Keys[u] : ComposeAny(u, k)
  \/ \E r \in requests : Deliver(r)
  \/ \E j \in DOMAIN jobs : JobEnds(j)
  \/ HeadMoves
  \/ AccessMoves

WorkspaceSpec == WorkspaceInit /\ [][WorkspaceNext]_workspaceVars

-----------------------------------------------------------------------------
(* The rows of the tables, and what a request may carry. *)
JobStatus == {"QUEUED", "FEASIBLE", "NO_FEASIBLE_PLAN", "FAILED"}
Authors == (Users \X UNION {Keys[u] : u \in Users}) \cup {<<None, 1>>, <<None, 2>>}

WorkspaceHead == [snapshot : Nat, plan : Nat, revision : 1..MaxHead]
Workspace == [snapshot : Nat, plan : Nat, by : Authors]
Revision == [content : Contents, seen : Nat, by : Authors]
Draft == [workspace : Nat, revisions : Seq(Revision) \ {<<>>}]
Job == [kind : {"RUN", "SENSITIVITY"}, workspace : Nat, status : JobStatus, draft : Nat,
        revision : Nat, by : Authors, content : Contents \cup {Baseline}]
Case == [workspace : Nat, run : Nat, snapshot : Nat, plan : Nat, revision : Nat, by : Authors]

Body ==
  [command : {"create"}, head : WorkspaceHead]
    \cup [command : {"createDraft"}, workspace : Nat, content : Contents]
    \cup [command : {"updateDraft"}, draft : Nat, revision : Nat, content : Contents]
    \cup [command : {"enqueueRun"}, workspace : Nat, draft : Nat, revision : Nat]
    \cup [command : {"enqueueSensitivity"}, workspace : Nat, run : Nat]
    \cup [command : {"liveEvaluation"}, workspace : Nat, run : Nat, head : WorkspaceHead]

Request == [author : Users, key : UNION {Keys[u] : u \in Users}, body : Body, prepared : BOOLEAN]

(* NULL is not a request. *)
ASSUME NullAssumption == None \notin Body

TypeOK ==
  /\ AccessTypeOK
  /\ head \in WorkspaceHead
  /\ workspaces \in Seq(Workspace) /\ drafts \in Seq(Draft)
  /\ jobs \in Seq(Job) /\ cases \in Seq(Case)
  /\ DOMAIN receipts = Users
  /\ \A u \in Users : receipts[u] \in [Keys[u] -> Body \cup {None}]
  /\ requests \subseteq Request /\ \A r \in requests : r.key \in Keys[r.author]
  /\ Cardinality(requests) <= MaxInFlight

(* Everything that was ever made, with its author and key. *)
Rows(name, s) ==
  {[table |-> name, row |-> i, version |-> 1, by |-> s[i].by] : i \in DOMAIN s}

Versions(d) ==
  {[table |-> "drafts", row |-> d, version |-> i, by |-> drafts[d].revisions[i].by] :
     i \in DOMAIN drafts[d].revisions}

Made ==
  Rows("workspaces", workspaces) \cup Rows("jobs", jobs) \cup Rows("cases", cases)
    \cup UNION {Versions(d) : d \in DOMAIN drafts}

(* "A lost response can be replayed", and nothing is made twice: however    *)
(* often a request is sent, and though two deliveries of a LIVE evaluation  *)
(* may both be between its transactions, each key has one effect, the one   *)
(* its receipt names.  And nothing is lost: each revision of a draft was    *)
(* written by someone who had the one before in front of him, and each job  *)
(* holds the content of the very revision it names, whatever was saved      *)
(* since.                                                                   *)
EffectPerKey ==
  /\ TypeOK
  /\ \A m, n \in Made : m.by = n.by => m = n
  /\ \A u \in Users : \A k \in Keys[u] :
       (\E m \in Made : m.by = <<u, k>>) <=> receipts[u][k] # None
  /\ \A d \in DOMAIN drafts :
       \A i \in DOMAIN drafts[d].revisions : drafts[d].revisions[i].seen = i - 1
  /\ \A j \in DOMAIN jobs :
       jobs[j].draft # Baseline =>
         jobs[j].content = drafts[jobs[j].draft].revisions[jobs[j].revision].content

(* "A stale workspace is rejected, never silently rebased": a LIVE case is  *)
(* made only from a completed, feasible run of its workspace, by an author  *)
(* who may write at that moment and who confirmed the head of that moment,  *)
(* and on the basis the workspace was made for, although what he was told   *)
(* before the validation may no longer hold.                                *)
LiveOnItsBasis ==
  [][\A i \in DOMAIN cases' \ DOMAIN cases :
       LET c == cases'[i] IN
       /\ AuthorizeWrite(c.by[1], Writers)
       /\ [snapshot |-> c.snapshot, plan |-> c.plan, revision |-> c.revision] = head
       /\ receipts'[c.by[1]][c.by[2]].head = head
       /\ Pinned(c.workspace) = [snapshot |-> c.snapshot, plan |-> c.plan]
       /\ jobs[c.run].kind = "RUN" /\ jobs[c.run].status = "FEASIBLE"
       /\ jobs[c.run].workspace = c.workspace
       /\ jobs[c.run].content \in Mappable \cup {Baseline}]_workspaceVars
=============================================================================
