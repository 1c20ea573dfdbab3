------------------------ MODULE ScenarioWorkspaceProofs ------------------------
(***************************************************************************)
(* Proofs about ScenarioWorkspace, for any authors, keys and contents, any  *)
(* number of requests under way and any history of the head.               *)
(***************************************************************************)
EXTENDS ScenarioWorkspace, FiniteSetTheorems, SequenceTheorems, TLAPS

-----------------------------------------------------------------------------
(* The inductive invariant.                                                *)

(* What a request names exists, and a LIVE evaluation that passed its first *)
(* transaction names a feasible run of its workspace.                      *)
Sound(r, js, ds) ==
  LET b == r.body IN
  /\ b.command = "updateDraft" => b.draft \in DOMAIN ds
  /\ b.command = "enqueueRun" => b.draft = Baseline \/ b.draft \in DOMAIN ds
  /\ b.command = "enqueueSensitivity" => b.run \in DOMAIN js
  /\ b.command = "liveEvaluation" => b.run \in DOMAIN js /\ js[b.run].workspace = b.workspace
  /\ r.prepared => b.command = "liveEvaluation" /\ js[b.run].status = "FEASIBLE"

RequestsInv == IsFiniteSet(requests) /\ \A r \in requests : Sound(r, jobs, drafts)

(* A job holds the content of the revision it names. *)
Based(j, ds) ==
  j.draft # Baseline =>
    /\ j.draft \in DOMAIN ds /\ j.revision \in DOMAIN ds[j.draft].revisions
    /\ j.content = ds[j.draft].revisions[j.revision].content

JobsInv == \A j \in DOMAIN jobs : Based(jobs[j], drafts)

RevisionsInv ==
  \A d \in DOMAIN drafts :
    \A i \in DOMAIN drafts[d].revisions : drafts[d].revisions[i].seen = i - 1

MadeInv ==
  /\ \A m, n \in Made : m.by = n.by => m = n
  /\ \A u \in Users : \A k \in Keys[u] :
       (\E m \in Made : m.by = <<u, k>>) <=> receipts[u][k] # None

Inv == TypeOK /\ RequestsInv /\ JobsInv /\ RevisionsInv /\ MadeInv

-----------------------------------------------------------------------------
(* Records.                                                                *)

LEMMA BodyFields ==
  ASSUME NEW b \in Body
  PROVE  /\ b # None
         /\ b.command = "create" => b.head \in WorkspaceHead
         /\ b.command = "createDraft" => b.workspace \in Nat /\ b.content \in Contents
         /\ b.command = "updateDraft" => b.draft \in Nat /\ b.revision \in Nat /\ b.content \in Contents
         /\ b.command = "enqueueRun" => b.workspace \in Nat /\ b.draft \in Nat /\ b.revision \in Nat
         /\ b.command = "enqueueSensitivity" => b.workspace \in Nat /\ b.run \in Nat
         /\ b.command = "liveEvaluation" => b.workspace \in Nat /\ b.run \in Nat /\ b.head \in WorkspaceHead
  BY NullAssumption DEF Body

LEMMA RequestFields ==
  ASSUME NEW r \in Request
  PROVE  /\ r.author \in Users /\ r.key \in UNION {Keys[u] : u \in Users}
         /\ r.body \in Body /\ r.prepared \in BOOLEAN /\ By(r) = <<r.author, r.key>>
         /\ By(r) \in Authors
         /\ \A p \in BOOLEAN :
              LET q == [r EXCEPT !.prepared = p] IN
              /\ q \in Request /\ q.author = r.author /\ q.key = r.key
              /\ q.body = r.body /\ q.prepared = p
  <1>1. /\ r.author \in Users /\ r.key \in UNION {Keys[u] : u \in Users}
        /\ r.body \in Body /\ r.prepared \in BOOLEAN
    BY DEF Request
  <1>2. ASSUME NEW p \in BOOLEAN
        PROVE  LET q == [r EXCEPT !.prepared = p] IN
               /\ q \in Request /\ q.author = r.author /\ q.key = r.key
               /\ q.body = r.body /\ q.prepared = p
    BY DEF Request
  <1>3. By(r) = <<r.author, r.key>> /\ By(r) \in Authors
    BY <1>1 DEF By, Authors
  <1>. QED
    BY <1>1, <1>2, <1>3

(* What it takes for a command to be executed. *)
LEMMA DoneFacts ==
  ASSUME NEW r, Outcome(r) = "done"
  PROVE  AuthorizeWrite(r.author, Writers) /\ receipts[r.author][r.key] = None /\ Fence(r)
  BY DEF Outcome

LEMMA SeqDomain ==
  ASSUME NEW S, NEW s \in Seq(S)
  PROVE  /\ Len(s) \in Nat /\ DOMAIN s = 1..Len(s)
         /\ \A i \in DOMAIN s : s[i] \in S
  BY LenProperties

LEMMA Appended ==
  ASSUME NEW S, NEW s \in Seq(S), NEW x \in S
  PROVE  LET t == Append(s, x) IN
         /\ t \in Seq(S) /\ DOMAIN t = DOMAIN s \cup {Len(s) + 1}
         /\ Len(s) + 1 \notin DOMAIN s
         /\ \A i \in DOMAIN s : t[i] = s[i]
         /\ t[Len(s) + 1] = x
  <1>. DEFINE t == Append(s, x)
  <1>1. /\ t \in Seq(S) /\ Len(t) = Len(s) + 1 /\ t[Len(s) + 1] = x
        /\ \A i \in 1..Len(s) : t[i] = s[i]
    BY AppendProperties
  <1>2. Len(s) \in Nat /\ DOMAIN s = 1..Len(s) /\ DOMAIN t = 1..(Len(s) + 1)
    BY <1>1, LenProperties
  <1>. HIDE DEF t
  <1>. QED
    BY <1>1, <1>2 DEF t

-----------------------------------------------------------------------------
(* Requests.                                                               *)

(* The requests under way after one, r, is over or goes out again as q.    *)
LEMMA RequestsStep ==
  ASSUME TypeOK, IsFiniteSet(requests), NEW q \in Request, q.key \in Keys[q.author],
         \/ requests' \subseteq requests
         \/ \E r \in requests : requests' = (requests \ {r}) \cup {q}
         \/ Cardinality(requests) < MaxInFlight /\ requests' = requests \cup {q}
  PROVE  /\ requests' \subseteq Request /\ \A r \in requests' : r.key \in Keys[r.author]
         /\ IsFiniteSet(requests') /\ Cardinality(requests') <= MaxInFlight
         /\ \A r \in requests' : r \in requests \/ r = q
  <1>1. /\ requests \subseteq Request /\ \A r \in requests : r.key \in Keys[r.author]
        /\ Cardinality(requests) <= MaxInFlight /\ Cardinality(requests) \in Nat
        /\ MaxInFlight \in Nat
    BY FS_CardinalityType, WorkspaceAssumption DEF TypeOK
  <1>2. CASE requests' \subseteq requests
    <2>1. IsFiniteSet(requests') /\ Cardinality(requests') <= Cardinality(requests)
          /\ Cardinality(requests') \in Nat
      BY <1>2, FS_Subset, FS_CardinalityType
    <2>. QED
      BY <1>1, <1>2, <2>1
  <1>3. CASE \E r \in requests : requests' = (requests \ {r}) \cup {q}
    <2>1. PICK r \in requests : requests' = (requests \ {r}) \cup {q}
      BY <1>3
    <2>. DEFINE rest == requests \ {r}
    <2>2. IsFiniteSet(rest) /\ Cardinality(rest) = Cardinality(requests) - 1
      BY FS_RemoveElement
    <2>. HIDE DEF rest
    <2>3. IsFiniteSet(requests') /\ Cardinality(requests') \in Nat
          /\ (Cardinality(requests') = Cardinality(rest) \/ Cardinality(requests') = Cardinality(rest) + 1)
      <3>1. requests' = rest \cup {q}
        BY <2>1 DEF rest
      <3>. QED
        BY <2>2, <3>1, FS_AddElement, FS_CardinalityType
    <2>. QED
      BY <1>1, <2>1, <2>2, <2>3
  <1>4. CASE Cardinality(requests) < MaxInFlight /\ requests' = requests \cup {q}
    <2>1. IsFiniteSet(requests') /\ Cardinality(requests') \in Nat
          /\ (Cardinality(requests') = Cardinality(requests) \/ Cardinality(requests') = Cardinality(requests) + 1)
      BY <1>4, FS_AddElement, FS_CardinalityType
    <2>. QED
      BY <1>1, <1>4, <2>1
  <1>. QED
    BY <1>2, <1>3, <1>4

(* The tables only grow, and a job that is feasible stays so. *)
Grows ==
  /\ DOMAIN drafts \subseteq DOMAIN drafts'
  /\ \A d \in DOMAIN drafts : \A i \in DOMAIN drafts[d].revisions :
       i \in DOMAIN drafts'[d].revisions /\ drafts'[d].revisions[i] = drafts[d].revisions[i]
  /\ DOMAIN jobs \subseteq DOMAIN jobs'
  /\ \A j \in DOMAIN jobs :
       /\ jobs'[j].workspace = jobs[j].workspace /\ jobs'[j].draft = jobs[j].draft
       /\ jobs'[j].revision = jobs[j].revision /\ jobs'[j].content = jobs[j].content
       /\ jobs[j].status = "FEASIBLE" => jobs'[j].status = "FEASIBLE"

LEMMA GrowsKeeps ==
  ASSUME Inv, Grows
  PROVE  /\ \A r \in requests : Sound(r, jobs', drafts')
         /\ \A j \in DOMAIN jobs : Based(jobs'[j], drafts')
  <1>1. ASSUME NEW r \in requests PROVE Sound(r, jobs', drafts')
    <2>1. Sound(r, jobs, drafts)
      BY DEF Inv, RequestsInv
    <2>. QED
      BY <2>1 DEF Sound, Grows
  <1>2. ASSUME NEW j \in DOMAIN jobs PROVE Based(jobs'[j], drafts')
    <2>1. Based(jobs[j], drafts)
      BY DEF Inv, JobsInv
    <2>. QED
      BY <2>1 DEF Based, Grows
  <1>. QED
    BY <1>1, <1>2

LEMMA Unmoved ==
  ASSUME UNCHANGED <<jobs, drafts>>
  PROVE  Grows
  BY DEF Grows

LEMMA RequestsStay ==
  ASSUME Inv, Grows, NEW q \in Request, q.key \in Keys[q.author], Sound(q, jobs', drafts'),
         \/ requests' \subseteq requests
         \/ \E r \in requests : requests' = (requests \ {r}) \cup {q}
         \/ Cardinality(requests) < MaxInFlight /\ requests' = requests \cup {q}
  PROVE  /\ requests' \subseteq Request /\ \A r \in requests' : r.key \in Keys[r.author]
         /\ Cardinality(requests') <= MaxInFlight /\ RequestsInv'
  <1>1. TypeOK /\ IsFiniteSet(requests)
    BY DEF Inv, RequestsInv
  <1>2. /\ requests' \subseteq Request /\ \A r \in requests' : r.key \in Keys[r.author]
        /\ IsFiniteSet(requests') /\ Cardinality(requests') <= MaxInFlight
        /\ \A r \in requests' : r \in requests \/ r = q
    BY <1>1, RequestsStep
  <1>3. \A r \in requests' : Sound(r, jobs', drafts')
    BY <1>2, GrowsKeeps
  <1>. QED
    BY <1>2, <1>3 DEF RequestsInv

(* A request keeps all but where it is. *)
LEMMA SameRequest ==
  ASSUME Inv, NEW r \in requests, NEW p \in BOOLEAN
  PROVE  LET q == [r EXCEPT !.prepared = p] IN
         /\ r \in Request /\ q \in Request /\ q.key \in Keys[q.author]
         /\ q.author = r.author /\ q.key = r.key /\ q.body = r.body /\ q.prepared = p
         /\ Sound(r, jobs, drafts)
  <1>1. r \in Request /\ r.key \in Keys[r.author] /\ Sound(r, jobs, drafts)
    BY DEF Inv, TypeOK, RequestsInv
  <1>2. LET q == [r EXCEPT !.prepared = p] IN
        /\ q \in Request /\ q.author = r.author /\ q.key = r.key
        /\ q.body = r.body /\ q.prepared = p
    BY <1>1, RequestFields
  <1>. QED
    BY <1>1, <1>2

LEMMA AnsweredStays ==
  ASSUME Inv, Grows, NEW r \in requests, Answered(r)
  PROVE  /\ requests' \subseteq Request /\ \A q \in requests' : q.key \in Keys[q.author]
         /\ Cardinality(requests') <= MaxInFlight /\ RequestsInv'
  <1>. DEFINE q == [r EXCEPT !.prepared = FALSE]
  <1>1. /\ q \in Request /\ q.key \in Keys[q.author] /\ q.body = r.body /\ q.prepared = FALSE
    BY SameRequest
  <1>2. Sound(r, jobs', drafts')
    BY GrowsKeeps
  <1>3. requests' \subseteq requests \/ requests' = (requests \ {r}) \cup {q}
    BY DEF Answered
  <1>. HIDE DEF q
  <1>4. Sound(q, jobs', drafts')
    BY <1>1, <1>2 DEF Sound
  <1>. QED
    BY <1>1, <1>3, <1>4, RequestsStay

-----------------------------------------------------------------------------
(* What was made.                                                          *)

LEMMA RowsAppend ==
  ASSUME NEW name, NEW S, NEW s \in Seq(S), NEW x \in S
  PROVE  Rows(name, Append(s, x)) =
           Rows(name, s) \cup {[table |-> name, row |-> Len(s) + 1, version |-> 1, by |-> x.by]}
  <1>. DEFINE t == Append(s, x)
              f(v, i) == [table |-> name, row |-> i, version |-> 1, by |-> v[i].by]
  <1>1. /\ DOMAIN t = DOMAIN s \cup {Len(s) + 1}
        /\ \A i \in DOMAIN s : t[i] = s[i]
        /\ t[Len(s) + 1] = x
    BY Appended
  <1>. HIDE DEF t
  <1>2. \A i \in DOMAIN s : f(t, i) = f(s, i)
    BY <1>1
  <1>3. f(t, Len(s) + 1) = [table |-> name, row |-> Len(s) + 1, version |-> 1, by |-> x.by]
    BY <1>1
  <1>. HIDE DEF f
  <1>4. {f(t, i) : i \in DOMAIN t} = {f(s, i) : i \in DOMAIN s} \cup {f(t, Len(s) + 1)}
    BY <1>1, <1>2
  <1>5. Rows(name, t) = {f(t, i) : i \in DOMAIN t} /\ Rows(name, s) = {f(s, i) : i \in DOMAIN s}
    BY DEF Rows, f
  <1>. QED
    BY <1>3, <1>4, <1>5 DEF t

LEMMA RowsSame ==
  ASSUME NEW name, NEW s, NEW t, DOMAIN t = DOMAIN s, \A i \in DOMAIN s : t[i].by = s[i].by
  PROVE  Rows(name, t) = Rows(name, s)
  BY DEF Rows

LEMMA VersionsSame ==
  ASSUME drafts' = drafts
  PROVE  UNION {Versions(d) : d \in DOMAIN drafts}' = UNION {Versions(d) : d \in DOMAIN drafts}
  BY DEF Versions

(* A key that has no receipt made nothing, so what it makes is its only effect. *)
LEMMA MadeStep ==
  ASSUME Inv, NEW r \in requests, receipts[r.author][r.key] = None, WriteReceipt(r),
         NEW m, m.by = By(r), Made' = Made \cup {m}
  PROVE  /\ MadeInv' /\ DOMAIN receipts' = Users
         /\ \A u \in Users : receipts'[u] \in [Keys[u] -> Body \cup {None}]
  <1>1. /\ r.author \in Users /\ r.key \in Keys[r.author] /\ r.body \in Body /\ r.body # None
        /\ By(r) = <<r.author, r.key>>
    <2>1. r \in Request /\ r.key \in Keys[r.author]
      BY DEF Inv, TypeOK
    <2>. QED
      BY <2>1, RequestFields, BodyFields
  <1>2. /\ DOMAIN receipts = Users /\ \A u \in Users : receipts[u] \in [Keys[u] -> Body \cup {None}]
        /\ receipts' = [receipts EXCEPT ![r.author] = [receipts[r.author] EXCEPT ![r.key] = r.body]]
    BY DEF Inv, TypeOK, WriteReceipt
  <1>3. /\ DOMAIN receipts' = Users
        /\ receipts'[r.author] = [receipts[r.author] EXCEPT ![r.key] = r.body]
        /\ \A u \in Users \ {r.author} : receipts'[u] = receipts[u]
    BY <1>1, <1>2
  <1>4. /\ receipts'[r.author] \in [Keys[r.author] -> Body \cup {None}]
        /\ receipts'[r.author][r.key] = r.body
        /\ \A k \in Keys[r.author] \ {r.key} : receipts'[r.author][k] = receipts[r.author][k]
    BY <1>1, <1>2, <1>3
  <1>5. /\ \A a, b \in Made : a.by = b.by => a = b
        /\ \A u \in Users : \A k \in Keys[u] :
             (\E a \in Made : a.by = <<u, k>>) <=> receipts[u][k] # None
    BY DEF Inv, MadeInv
  <1>6. \A a \in Made : a.by # m.by
    BY <1>1, <1>5
  <1>7. \A a, b \in Made' : a.by = b.by => a = b
    BY <1>5, <1>6
  <1>8. ASSUME NEW u \in Users, NEW k \in Keys[u]
        PROVE  (\E a \in Made' : a.by = <<u, k>>) <=> receipts'[u][k] # None
    <2>1. CASE u = r.author /\ k = r.key
      BY <1>1, <1>4, <2>1
    <2>2. CASE ~(u = r.author /\ k = r.key)
      <3>1. m.by # <<u, k>>
        BY <1>1, <2>2
      <3>2. receipts'[u][k] = receipts[u][k]
        BY <1>3, <1>4, <2>2
      <3>3. (\E a \in Made' : a.by = <<u, k>>) <=> (\E a \in Made : a.by = <<u, k>>)
        BY <3>1
      <3>4. (\E a \in Made : a.by = <<u, k>>) <=> receipts[u][k] # None
        BY <1>5
      <3>. QED
        BY <3>2, <3>3, <3>4
    <2>. QED
      BY <2>1, <2>2
  <1>. QED
    BY <1>2, <1>3, <1>4, <1>7, <1>8 DEF MadeInv

(* A command that is executed, whatever it makes. *)
LEMMA CommitStep ==
  ASSUME Inv, NEW r \in requests, Outcome(r) = "done", Commit(r), Grows,
         workspaces' \in Seq(Workspace), drafts' \in Seq(Draft),
         jobs' \in Seq(Job), cases' \in Seq(Case),
         JobsInv', RevisionsInv', NEW m, m.by = By(r), Made' = Made \cup {m}
  PROVE  Inv'
  <1>1. /\ WriteReceipt(r) /\ Answered(r) /\ UNCHANGED <<accessVars, head>>
        /\ receipts[r.author][r.key] = None
    BY DoneFacts DEF Commit
  <1>2. /\ requests' \subseteq Request /\ \A q \in requests' : q.key \in Keys[q.author]
        /\ Cardinality(requests') <= MaxInFlight /\ RequestsInv'
    BY <1>1, AnsweredStays
  <1>3. /\ MadeInv' /\ DOMAIN receipts' = Users
        /\ \A u \in Users : receipts'[u] \in [Keys[u] -> Body \cup {None}]
    BY <1>1, MadeStep
  <1>4. AccessTypeOK' /\ head' \in WorkspaceHead
    BY <1>1 DEF Inv, TypeOK, AccessTypeOK, accessVars
  <1>. QED
    BY <1>2, <1>3, <1>4 DEF Inv, TypeOK

-----------------------------------------------------------------------------
(* The commands. *)

LEMMA Tables ==
  ASSUME Inv
  PROVE  /\ workspaces \in Seq(Workspace) /\ drafts \in Seq(Draft)
         /\ jobs \in Seq(Job) /\ cases \in Seq(Case) /\ head \in WorkspaceHead
         /\ \A d \in DOMAIN drafts :
              /\ drafts[d] \in Draft /\ drafts[d].revisions \in Seq(Revision)
              /\ drafts[d].revisions # <<>>
         /\ \A j \in DOMAIN jobs : jobs[j] \in Job
  <1>1. /\ workspaces \in Seq(Workspace) /\ drafts \in Seq(Draft)
        /\ jobs \in Seq(Job) /\ cases \in Seq(Case) /\ head \in WorkspaceHead
    BY DEF Inv, TypeOK
  <1>2. \A d \in DOMAIN drafts : drafts[d] \in Draft
    BY <1>1, SeqDomain
  <1>3. \A j \in DOMAIN jobs : jobs[j] \in Job
    BY <1>1, SeqDomain
  <1>. QED
    BY <1>1, <1>2, <1>3 DEF Draft

LEMMA TheRequest ==
  ASSUME Inv, NEW r \in requests
  PROVE  /\ r.body \in Body /\ By(r) \in Authors /\ Sound(r, jobs, drafts)
         /\ r.author \in Users /\ r.key \in Keys[r.author] /\ By(r) = <<r.author, r.key>>
  BY RequestFields DEF Inv, TypeOK, RequestsInv

(* Drafts and jobs keep what holds of them. *)
LEMMA DraftsKeep ==
  ASSUME Inv, UNCHANGED <<jobs, drafts>>
  PROVE  JobsInv' /\ RevisionsInv' /\ Grows
  BY Unmoved DEF Inv, JobsInv, RevisionsInv

LEMMA CreateWorkspaceStep == ASSUME Inv, NEW r \in requests, CreateWorkspace(r) PROVE Inv'
  <1>. DEFINE x == [snapshot |-> head.snapshot, plan |-> head.plan, by |-> By(r)]
              m == [table |-> "workspaces", row |-> Len(workspaces) + 1, version |-> 1, by |-> x.by]
  <1>1. /\ Outcome(r) = "done" /\ Commit(r) /\ workspaces' = Append(workspaces, x)
        /\ drafts' = drafts /\ jobs' = jobs /\ cases' = cases
    BY DEF CreateWorkspace, Carries, NewWorkspace
  <1>2. x \in Workspace
    BY Tables, TheRequest DEF WorkspaceHead, Workspace
  <1>3. m.by = By(r)
    OBVIOUS
  <1>. HIDE DEF x
  <1>4. /\ workspaces' \in Seq(Workspace)
        /\ Rows("workspaces", workspaces') = Rows("workspaces", workspaces) \cup {m}
    BY <1>1, <1>2, Tables, Appended, RowsAppend
  <1>. HIDE DEF m
  <1>5. Made' = Made \cup {m}
    BY <1>1, <1>4, VersionsSame DEF Made
  <1>6. drafts' \in Seq(Draft) /\ jobs' \in Seq(Job) /\ cases' \in Seq(Case)
    BY <1>1, Tables
  <1>7. JobsInv' /\ RevisionsInv' /\ Grows
    BY <1>1, DraftsKeep
  <1>. QED
    BY <1>1, <1>3, <1>4, <1>5, <1>6, <1>7, CommitStep

(* A job that is based on a draft joins the others. *)
LEMMA NewJob ==
  ASSUME Inv, NEW r \in requests, Outcome(r) = "done", Commit(r),
         NEW x \in Job, x.by = By(r), Based(x, drafts),
         jobs' = Append(jobs, x), UNCHANGED <<workspaces, drafts, cases>>
  PROVE  Inv'
  <1>. DEFINE m == [table |-> "jobs", row |-> Len(jobs) + 1, version |-> 1, by |-> x.by]
  <1>1. m.by = By(r)
    OBVIOUS
  <1>2. /\ jobs' \in Seq(Job) /\ DOMAIN jobs' = DOMAIN jobs \cup {Len(jobs) + 1}
        /\ \A i \in DOMAIN jobs : jobs'[i] = jobs[i]
        /\ jobs'[Len(jobs) + 1] = x
        /\ Rows("jobs", jobs') = Rows("jobs", jobs) \cup {m}
    <2>1. jobs \in Seq(Job)
      BY Tables
    <2>2. Rows("jobs", jobs') = Rows("jobs", jobs) \cup {m}
      BY <2>1, RowsAppend, SMTT(40)
    <2>. HIDE DEF m
    <2>3. LET t == Append(jobs, x) IN
          /\ t \in Seq(Job) /\ DOMAIN t = DOMAIN jobs \cup {Len(jobs) + 1}
          /\ \A i \in DOMAIN jobs : t[i] = jobs[i]
          /\ t[Len(jobs) + 1] = x
      BY <2>1, Appended
    <2>. QED
      BY <2>2, <2>3
  <1>. HIDE DEF m
  <1>3. Made' = Made \cup {m}
    BY <1>2, VersionsSame DEF Made
  <1>4. workspaces' \in Seq(Workspace) /\ drafts' \in Seq(Draft) /\ cases' \in Seq(Case)
    BY Tables
  <1>5. Grows
    BY <1>2 DEF Grows
  <1>6. JobsInv' /\ RevisionsInv'
    BY <1>2 DEF Inv, JobsInv, RevisionsInv
  <1>. QED
    BY <1>1, <1>2, <1>3, <1>4, <1>5, <1>6, CommitStep

LEMMA EnqueueRunStep == ASSUME Inv, NEW r \in requests, EnqueueRun(r) PROVE Inv'
  <1>. DEFINE b == r.body
              revisions == drafts[b.draft].revisions
              content == IF b.draft = Baseline THEN Baseline ELSE revisions[Len(revisions)].content
              x == [kind |-> "RUN", workspace |-> b.workspace, status |-> "QUEUED",
                    draft |-> b.draft, revision |-> b.revision, by |-> By(r), content |-> content]
  <1>1. /\ b.command = "enqueueRun" /\ Outcome(r) = "done" /\ Commit(r)
        /\ jobs' = Append(jobs, x) /\ UNCHANGED <<workspaces, drafts, cases>>
    BY DEF EnqueueRun, Carries, NewRun
  <1>2. RunFence(b)
    BY <1>1, DoneFacts DEF Fence
  <1>3. /\ b.workspace \in Nat /\ b.draft \in Nat /\ b.revision \in Nat /\ By(r) \in Authors
        /\ b.draft = Baseline \/ b.draft \in DOMAIN drafts
    BY <1>1, TheRequest, BodyFields DEF Sound
  <1>4. ASSUME b.draft # Baseline
        PROVE  /\ b.draft \in DOMAIN drafts /\ b.revision \in DOMAIN revisions
               /\ content = revisions[b.revision].content /\ content \in Contents
    <2>1. b.draft \in DOMAIN drafts /\ Len(revisions) = b.revision
      BY <1>2, <1>3, <1>4 DEF RunFence, DraftFence
    <2>2. revisions \in Seq(Revision) /\ revisions # <<>>
      BY <2>1, Tables
    <2>. HIDE DEF revisions
    <2>3. b.revision \in DOMAIN revisions /\ revisions[b.revision] \in Revision
      BY <2>1, <2>2, EmptySeq, SeqDomain
    <2>. QED
      BY <1>4, <2>1, <2>3 DEF Revision
  <1>5. content \in Contents \cup {Baseline}
    BY <1>4
  <1>. HIDE DEF content
  <1>6. x \in Job /\ x.by = By(r)
    BY <1>3, <1>5 DEF Job, JobStatus
  <1>7. Based(x, drafts)
    BY <1>4 DEF Based
  <1>. HIDE DEF x
  <1>. QED
    BY <1>1, <1>6, <1>7, NewJob

LEMMA EnqueueSensitivityStep ==
  ASSUME Inv, NEW r \in requests, EnqueueSensitivity(r)
  PROVE  Inv'
  <1>. DEFINE b == r.body
              old == jobs[b.run]
              x == [kind |-> "SENSITIVITY", workspace |-> b.workspace, status |-> "QUEUED",
                    draft |-> old.draft, revision |-> old.revision, by |-> By(r),
                    content |-> old.content]
  <1>1. /\ b.command = "enqueueSensitivity" /\ Outcome(r) = "done" /\ Commit(r)
        /\ jobs' = Append(jobs, x) /\ UNCHANGED <<workspaces, drafts, cases>>
    BY DEF EnqueueSensitivity, Carries, NewSweep
  <1>2. b.workspace \in Nat /\ b.run \in DOMAIN jobs /\ By(r) \in Authors
    BY <1>1, TheRequest, BodyFields DEF Sound
  <1>3. old \in Job /\ Based(old, drafts)
    BY <1>2, Tables DEF Inv, JobsInv
  <1>. HIDE DEF old
  <1>4. x \in Job /\ x.by = By(r)
    BY <1>2, <1>3 DEF Job, JobStatus
  <1>5. Based(x, drafts)
    BY <1>3 DEF Based
  <1>. HIDE DEF x
  <1>. QED
    BY <1>1, <1>4, <1>5, NewJob

LEMMA CreateLiveStep == ASSUME Inv, NEW r \in requests, CreateLive(r) PROVE Inv'
  <1>. DEFINE b == r.body
              x == [workspace |-> b.workspace, run |-> b.run, snapshot |-> head.snapshot,
                    plan |-> head.plan, revision |-> head.revision, by |-> By(r)]
              m == [table |-> "cases", row |-> Len(cases) + 1, version |-> 1, by |-> x.by]
  <1>1. /\ b.command = "liveEvaluation" /\ Outcome(r) = "done" /\ Commit(r)
        /\ cases' = Append(cases, x) /\ UNCHANGED <<workspaces, drafts, jobs>>
    BY DEF CreateLive, Carries, NewCase
  <1>2. b.workspace \in Nat /\ b.run \in Nat /\ By(r) \in Authors
    BY <1>1, TheRequest, BodyFields
  <1>3. /\ head.snapshot \in Nat /\ head.plan \in Nat /\ head.revision \in Nat
    BY Tables DEF WorkspaceHead
  <1>4. x \in Case /\ x.by = By(r)
    BY <1>2, <1>3 DEF Case
  <1>5. m.by = By(r)
    OBVIOUS
  <1>. HIDE DEF x
  <1>6. cases' \in Seq(Case) /\ Rows("cases", cases') = Rows("cases", cases) \cup {m}
    <2>1. cases \in Seq(Case)
      BY Tables
    <2>2. Rows("cases", cases') = Rows("cases", cases) \cup {m}
      <3>1. x \in Case
        BY <1>4
      <3>2. ASSUME NEW y \in Case
            PROVE  Rows("cases", Append(cases, y)) = Rows("cases", cases) \cup
                     {[table |-> "cases", row |-> Len(cases) + 1, version |-> 1, by |-> y.by]}
        BY <2>1, RowsAppend
      <3>3. Rows("cases", Append(cases, x)) = Rows("cases", cases) \cup {m}
        BY <3>1, <3>2
      <3>. HIDE DEF m
      <3>. QED
        BY <1>1, <3>3
    <2>. HIDE DEF m
    <2>. QED
      BY <1>1, <1>4, <2>1, <2>2, Appended
  <1>. HIDE DEF m
  <1>7. Made' = Made \cup {m}
    BY <1>1, <1>6, VersionsSame DEF Made
  <1>8. workspaces' \in Seq(Workspace) /\ drafts' \in Seq(Draft) /\ jobs' \in Seq(Job)
    BY <1>1, Tables
  <1>9. JobsInv' /\ RevisionsInv' /\ Grows
    BY <1>1, DraftsKeep
  <1>. QED
    BY <1>1, <1>5, <1>6, <1>7, <1>8, <1>9, CommitStep

(* The versions of a draft in any state of the table. *)
Saved(ds, d) ==
  {[table |-> "drafts", row |-> d, version |-> i, by |-> ds[d].revisions[i].by] :
     i \in DOMAIN ds[d].revisions}

AllSaved(ds) == UNION {Saved(ds, d) : d \in DOMAIN ds}

(* The drafts after a draft has one more revision: all others are the same. *)
LEMMA DraftStep ==
  ASSUME Inv, NEW r \in requests, Outcome(r) = "done", Commit(r),
         UNCHANGED <<workspaces, jobs, cases>>,
         NEW d \in Nat, DOMAIN drafts' = DOMAIN drafts \cup {d},
         \A e \in DOMAIN drafts \ {d} : drafts'[e] = drafts[e],
         NEW old \in Seq(Revision), old = IF d \in DOMAIN drafts THEN drafts[d].revisions ELSE <<>>,
         NEW x \in Revision, x.by = By(r), x.seen = Len(old),
         drafts'[d].revisions = Append(old, x), drafts' \in Seq(Draft)
  PROVE  Inv'
  <1>. DEFINE n == Len(old) + 1
              m == [table |-> "drafts", row |-> d, version |-> n, by |-> x.by]
              new == drafts'[d].revisions
  <1>1. /\ DOMAIN new = DOMAIN old \cup {n} /\ n \notin DOMAIN old
        /\ \A i \in DOMAIN old : new[i] = old[i]
        /\ new[n] = x /\ Len(old) \in Nat /\ n - 1 = Len(old)
    BY Appended, LenProperties
  <1>2. m.by = By(r)
    OBVIOUS
  <1>. HIDE DEF n
  <1>3. ASSUME NEW e \in DOMAIN drafts' PROVE Saved(drafts', e) =
          IF e = d THEN (IF d \in DOMAIN drafts THEN Saved(drafts, d) ELSE {}) \cup {m}
          ELSE Saved(drafts, e)
    <2>1. CASE e # d
      BY <2>1 DEF Saved
    <2>2. CASE e = d
      <3>. DEFINE f(v, i) == [table |-> "drafts", row |-> d, version |-> i, by |-> v[i].by]
      <3>1. \A i \in DOMAIN old : f(new, i) = f(old, i)
        BY <1>1
      <3>2. f(new, n) = m
        BY <1>1
      <3>3. Saved(drafts', d) = {f(new, i) : i \in DOMAIN new}
        BY DEF Saved
      <3>4. (IF d \in DOMAIN drafts THEN Saved(drafts, d) ELSE {}) = {f(old, i) : i \in DOMAIN old}
        <4>1. CASE d \in DOMAIN drafts
          BY <4>1 DEF Saved
        <4>2. CASE d \notin DOMAIN drafts
          BY <4>2
        <4>. QED
          BY <4>1, <4>2
      <3>. HIDE DEF f, m, new
      <3>5. {f(new, i) : i \in DOMAIN new} = {f(old, i) : i \in DOMAIN old} \cup {m}
        BY <1>1, <3>1, <3>2
      <3>. QED
        BY <2>2, <3>3, <3>4, <3>5
    <2>. QED
      BY <2>1, <2>2
  <1>. HIDE DEF m
  <1>4. AllSaved(drafts') = AllSaved(drafts) \cup {m}
    <2>1. ASSUME NEW a PROVE a \in AllSaved(drafts') <=> a \in AllSaved(drafts) \cup {m}
      BY <1>3 DEF AllSaved
    <2>. QED
      BY <2>1
  <1>5. Made' = Made \cup {m}
    <2>1. /\ UNION {Versions(e) : e \in DOMAIN drafts}' = AllSaved(drafts')
          /\ UNION {Versions(e) : e \in DOMAIN drafts} = AllSaved(drafts)
      BY DEF Versions, AllSaved, Saved
    <2>. QED
      BY <1>4, <2>1 DEF Made
  <1>6. Grows
    BY <1>1 DEF Grows
  <1>7. JobsInv'
    <2>1. \A j \in DOMAIN jobs : Based(jobs'[j], drafts')
      BY <1>6, GrowsKeeps
    <2>. QED
      BY <2>1 DEF JobsInv
  <1>8. RevisionsInv'
    <2>1. ASSUME NEW e \in DOMAIN drafts', NEW i \in DOMAIN drafts'[e].revisions
          PROVE  drafts'[e].revisions[i].seen = i - 1
      <3>1. CASE e # d
        BY <3>1 DEF Inv, RevisionsInv
      <3>2. CASE e = d /\ i = n
        BY <1>1, <3>2
      <3>3. CASE e = d /\ i # n
        <4>1. i \in DOMAIN old /\ new[i] = old[i]
          BY <1>1, <3>3
        <4>2. d \in DOMAIN drafts
          BY <4>1
        <4>. QED
          BY <3>3, <4>1, <4>2 DEF Inv, RevisionsInv
      <3>. QED
        BY <3>1, <3>2, <3>3
    <2>. QED
      BY <2>1 DEF RevisionsInv
  <1>9. workspaces' \in Seq(Workspace) /\ jobs' \in Seq(Job) /\ cases' \in Seq(Case)
    BY Tables
  <1>. QED
    BY <1>2, <1>5, <1>6, <1>7, <1>8, <1>9, CommitStep

LEMMA CreateDraftStep == ASSUME Inv, NEW r \in requests, CreateDraft(r) PROVE Inv'
  <1>. DEFINE b == r.body
              x == [content |-> b.content, seen |-> 0, by |-> By(r)]
              new == [workspace |-> b.workspace, revisions |-> <<x>>]
              d == Len(drafts) + 1
              none == <<>>
  <1>1. /\ b.command = "createDraft" /\ Outcome(r) = "done" /\ Commit(r)
        /\ drafts' = Append(drafts, new) /\ UNCHANGED <<workspaces, jobs, cases>>
    BY DEF CreateDraft, Carries, NewDraft
  <1>2. b.workspace \in Nat /\ b.content \in Contents /\ By(r) \in Authors
    BY <1>1, TheRequest, BodyFields
  <1>3. x \in Revision /\ x.by = By(r) /\ x.seen = 0
    BY <1>2 DEF Revision
  <1>. HIDE DEF x
  <1>4. /\ none \in Seq(Revision) /\ Len(none) = 0
        /\ <<x>> = Append(none, x) /\ <<x>> \in Seq(Revision) /\ <<x>> # <<>>
    BY <1>3
  <1>5. new \in Draft /\ new.revisions = <<x>>
    BY <1>2, <1>4 DEF Draft
  <1>. HIDE DEF new
  <1>6. /\ drafts' \in Seq(Draft) /\ DOMAIN drafts' = DOMAIN drafts \cup {d} /\ d \notin DOMAIN drafts
        /\ \A e \in DOMAIN drafts : drafts'[e] = drafts[e]
        /\ drafts'[d] = new
    <2>1. drafts \in Seq(Draft)
      BY Tables
    <2>. QED
      BY <1>1, <1>5, <2>1, Appended
  <1>7. d \in Nat
    BY Tables, LenProperties
  <1>. HIDE DEF d, none
  <1>8. none = IF d \in DOMAIN drafts THEN drafts[d].revisions ELSE <<>>
    BY <1>6 DEF none
  <1>9. drafts'[d].revisions = Append(none, x) /\ x.seen = Len(none)
    BY <1>3, <1>4, <1>5, <1>6
  <1>. QED
    BY <1>1, <1>3, <1>4, <1>6, <1>7, <1>8, <1>9, DraftStep

LEMMA UpdateDraftStep == ASSUME Inv, NEW r \in requests, UpdateDraft(r) PROVE Inv'
  <1>. DEFINE b == r.body
              d == b.draft
              old == drafts[d].revisions
              x == [content |-> b.content, seen |-> b.revision, by |-> By(r)]
              new == [drafts[d] EXCEPT !.revisions = Append(old, x)]
  <1>1. /\ b.command = "updateDraft" /\ Outcome(r) = "done" /\ Commit(r)
        /\ drafts' = [drafts EXCEPT ![d].revisions = Append(@, x)]
        /\ UNCHANGED <<workspaces, jobs, cases>>
    BY DEF UpdateDraft, Carries, DraftRevised
  <1>2. /\ d \in DOMAIN drafts /\ d \in Nat /\ b.content \in Contents /\ b.revision \in Nat
        /\ By(r) \in Authors
    BY <1>1, TheRequest, BodyFields DEF Sound
  <1>3. Len(old) = b.revision
    BY <1>1, DoneFacts DEF Fence, DraftFence
  <1>4. x \in Revision /\ x.by = By(r) /\ x.seen = Len(old)
    BY <1>2, <1>3 DEF Revision
  <1>5. drafts' = [drafts EXCEPT ![d] = new]
    BY <1>1
  <1>. HIDE DEF x, old
  <1>6. old \in Seq(Revision) /\ Append(old, x) \in Seq(Revision) /\ Append(old, x) # <<>>
    <2>1. old \in Seq(Revision)
      BY <1>2, Tables DEF old
    <2>. QED
      BY <1>4, <2>1, AppendProperties
  <1>7. new \in Draft /\ new.revisions = Append(old, x)
    <2>1. drafts[d] \in Draft
      BY <1>2, Tables
    <2>. DEFINE s == Append(old, x)
    <2>. HIDE DEF s
    <2>2. LET y == [drafts[d] EXCEPT !.revisions = s] IN y.revisions = s
                 /\ (s \in Seq(Revision) /\ s # <<>> => y \in Draft)
      BY <2>1 DEF Draft
    <2>. QED
      BY <1>6, <2>2 DEF s
  <1>. HIDE DEF new, d
  <1>8. /\ drafts' \in Seq(Draft) /\ DOMAIN drafts' = DOMAIN drafts
        /\ \A e \in DOMAIN drafts \ {d} : drafts'[e] = drafts[e]
        /\ drafts'[d] = new
    <2>1. drafts \in Seq(Draft) /\ DOMAIN drafts = 1..Len(drafts)
      BY Tables, LenProperties
    <2>. QED
      BY <1>2, <1>5, <1>7, <2>1
  <1>9. DOMAIN drafts' = DOMAIN drafts \cup {d}
    BY <1>2, <1>8
  <1>10. old = IF d \in DOMAIN drafts THEN drafts[d].revisions ELSE <<>>
    BY <1>2 DEF old
  <1>11. drafts'[d].revisions = Append(old, x)
    BY <1>7, <1>8
  <1>. QED
    <2>1. /\ Outcome(r) = "done" /\ Commit(r) /\ UNCHANGED <<workspaces, jobs, cases>>
          /\ d \in Nat /\ old \in Seq(Revision) /\ drafts' \in Seq(Draft)
          /\ x \in Revision /\ x.by = By(r) /\ x.seen = Len(old)
      BY <1>1, <1>2, <1>4, <1>6, <1>8
    <2>2. \A e \in DOMAIN drafts \ {d} : drafts'[e] = drafts[e]
      BY <1>8
    <2>. QED
      BY ONLY Inv, r \in requests, <2>1, <2>2, <1>9, <1>10, <1>11, DraftStep

(* At the start there is what the factory was set up with. *)
LEMMA InitHolds == ASSUME WorkspaceInit PROVE Inv
  <1>. DEFINE first == <<None, 1>>
              second == <<None, 2>>
  <1>1. PICK c \in Mappable :
          drafts = <<[workspace |-> 1,
                      revisions |-> <<[content |-> c, seen |-> 0, by |-> second]>>]>>
    BY DEF WorkspaceInit
  <1>. DEFINE x == [content |-> c, seen |-> 0, by |-> second]
              d == [workspace |-> 1, revisions |-> <<x>>]
              w == [snapshot |-> 1, plan |-> 0, by |-> first]
              mw == [table |-> "workspaces", row |-> 1, version |-> 1, by |-> first]
              md == [table |-> "drafts", row |-> 1, version |-> 1, by |-> second]
  <1>2. /\ AccessInit /\ head = [snapshot |-> 1, plan |-> 0, revision |-> 1]
        /\ workspaces = <<w>> /\ jobs = <<>> /\ cases = <<>>
        /\ receipts = [u \in Users |-> [k \in Keys[u] |-> None]] /\ requests = {}
    BY DEF WorkspaceInit
  <1>3. AccessTypeOK
    BY <1>2, AccessAssumption DEF AccessInit, AccessTypeOK
  <1>4. head \in WorkspaceHead
    BY <1>2, WorkspaceAssumption DEF WorkspaceHead
  <1>5. first \in Authors /\ second \in Authors /\ first # second
    BY DEF Authors
  <1>. HIDE DEF first, second
  <1>6. x \in Revision /\ x.seen = 0 /\ x.by = second
    BY <1>5, WorkspaceAssumption DEF Revision
  <1>7. w \in Workspace /\ w.by = first
    BY <1>5 DEF Workspace
  <1>8. drafts = <<d>>
    BY <1>1
  <1>. HIDE DEF x, w
  <1>9. d \in Draft /\ d.revisions = <<x>>
    <2>1. <<x>> \in Seq(Revision) /\ <<x>> # <<>>
      BY <1>6
    <2>. QED
      BY <2>1 DEF Draft
  <1>. HIDE DEF d
  <1>10. /\ workspaces \in Seq(Workspace) /\ drafts \in Seq(Draft)
         /\ jobs \in Seq(Job) /\ cases \in Seq(Case)
    BY <1>2, <1>7, <1>8, <1>9
  <1>11. /\ DOMAIN receipts = Users
         /\ \A u \in Users : receipts[u] \in [Keys[u] -> Body \cup {None}]
         /\ \A u \in Users : \A k \in Keys[u] : receipts[u][k] = None
    BY <1>2
  <1>12. Cardinality(requests) = 0 /\ IsFiniteSet(requests) /\ 0 <= MaxInFlight
    BY <1>2, FS_EmptySet, WorkspaceAssumption
  <1>13. TypeOK
    BY <1>2, <1>3, <1>4, <1>10, <1>11, <1>12 DEF TypeOK
  <1>14. /\ DOMAIN drafts = {1} /\ drafts[1].revisions = <<x>> /\ drafts[1].revisions[1] = x
         /\ DOMAIN drafts[1].revisions = {1} /\ DOMAIN workspaces = {1} /\ workspaces[1].by = first
         /\ DOMAIN jobs = {} /\ DOMAIN cases = {}
    BY <1>2, <1>7, <1>8, <1>9
  <1>15. RequestsInv /\ JobsInv /\ RevisionsInv
    BY <1>2, <1>6, <1>12, <1>14 DEF RequestsInv, JobsInv, RevisionsInv
  <1>16. Made = {mw, md}
    <2>1. Rows("workspaces", workspaces) = {mw}
      BY <1>14 DEF Rows
    <2>2. Rows("jobs", jobs) = {} /\ Rows("cases", cases) = {}
      BY <1>14 DEF Rows
    <2>3. Versions(1) = {md}
      BY <1>6, <1>14 DEF Versions
    <2>. HIDE DEF mw, md
    <2>4. UNION {Versions(e) : e \in DOMAIN drafts} = {md}
      BY <1>14, <2>3
    <2>. QED
      BY <2>1, <2>2, <2>4 DEF Made
  <1>17. mw.by = first /\ md.by = second
    OBVIOUS
  <1>18. \A u \in Users : \A k \in Keys[u] : <<u, k>> # first /\ <<u, k>> # second
    BY WorkspaceAssumption DEF first, second
  <1>. HIDE DEF mw, md
  <1>19. MadeInv
    BY <1>5, <1>11, <1>16, <1>17, <1>18 DEF MadeInv
  <1>. QED
    BY <1>13, <1>15, <1>19 DEF Inv

-----------------------------------------------------------------------------
(* The steps that make nothing.                                            *)

(* Only requests move. *)
LEMMA OnlyRequests ==
  ASSUME Inv, UNCHANGED <<accessVars, head, tables, receipts>>,
         requests' \subseteq Request, \A q \in requests' : q.key \in Keys[q.author],
         Cardinality(requests') <= MaxInFlight, RequestsInv'
  PROVE  Inv'
  <1>1. /\ UNCHANGED accessVars /\ head' = head /\ receipts' = receipts
        /\ workspaces' = workspaces /\ drafts' = drafts /\ jobs' = jobs /\ cases' = cases
    BY DEF tables
  <1>2. TypeOK'
    BY <1>1 DEF Inv, TypeOK, AccessTypeOK, accessVars
  <1>3. JobsInv' /\ RevisionsInv'
    BY <1>1, DraftsKeep
  <1>4. Made' = Made
    BY <1>1, VersionsSame DEF Made
  <1>5. MadeInv'
    BY <1>1, <1>4 DEF Inv, MadeInv
  <1>. QED
    BY <1>2, <1>3, <1>5 DEF Inv

LEMMA NoMoreRequests ==
  ASSUME Inv, UNCHANGED <<accessVars, head, tables, receipts>>, requests' \subseteq requests
  PROVE  Inv'
  <1>1. /\ requests' \subseteq Request /\ \A q \in requests' : q.key \in Keys[q.author]
        /\ Cardinality(requests') <= MaxInFlight /\ RequestsInv'
    <2>1. /\ requests \subseteq Request /\ \A q \in requests : q.key \in Keys[q.author]
          /\ Cardinality(requests) <= MaxInFlight /\ Cardinality(requests) \in Nat
          /\ IsFiniteSet(requests) /\ MaxInFlight \in Nat
      BY FS_CardinalityType, WorkspaceAssumption DEF Inv, TypeOK, RequestsInv
    <2>2. /\ IsFiniteSet(requests') /\ Cardinality(requests') <= Cardinality(requests)
          /\ Cardinality(requests') \in Nat
      BY <2>1, FS_Subset, FS_CardinalityType
    <2>3. jobs' = jobs /\ drafts' = drafts
      BY DEF tables
    <2>. QED
      BY <2>1, <2>2, <2>3 DEF Inv, RequestsInv
  <1>. QED
    BY <1>1, OnlyRequests

LEMMA ComposeStep ==
  ASSUME Inv, NEW u \in Users, NEW k \in Keys[u], NEW b \in Body, Compose(u, k, b),
         Sound([author |-> u, key |-> k, body |-> b, prepared |-> FALSE], jobs, drafts)
  PROVE  Inv'
  <1>. DEFINE q == [author |-> u, key |-> k, body |-> b, prepared |-> FALSE]
  <1>1. /\ Cardinality(requests) < MaxInFlight /\ requests' = requests \cup {q}
        /\ UNCHANGED <<accessVars, head, tables, receipts>>
    BY DEF Compose
  <1>2. q \in Request /\ q.key \in Keys[q.author]
    BY DEF Request
  <1>3. jobs' = jobs /\ drafts' = drafts /\ Grows
    BY <1>1, Unmoved DEF tables
  <1>4. Sound(q, jobs', drafts')
    BY <1>3
  <1>. HIDE DEF q
  <1>5. /\ requests' \subseteq Request /\ \A r \in requests' : r.key \in Keys[r.author]
        /\ Cardinality(requests') <= MaxInFlight /\ RequestsInv'
    BY <1>1, <1>2, <1>3, <1>4, RequestsStay
  <1>. QED
    BY <1>1, <1>5, OnlyRequests

(* A request keeps its place, or comes back, as one that was prepared or not. *)
LEMMA SentAgain ==
  ASSUME Inv, NEW r \in requests, NEW p \in BOOLEAN,
         UNCHANGED <<accessVars, head, tables, receipts>>,
         p => r.body.command = "liveEvaluation" /\ jobs[r.body.run].status = "FEASIBLE",
         \/ requests' = (requests \ {r}) \cup {[r EXCEPT !.prepared = p]}
         \/ Cardinality(requests) < MaxInFlight /\ requests' = requests \cup {[r EXCEPT !.prepared = p]}
  PROVE  Inv'
  <1>. DEFINE q == [r EXCEPT !.prepared = p]
  <1>1. /\ q \in Request /\ q.key \in Keys[q.author] /\ q.body = r.body /\ q.prepared = p
        /\ Sound(r, jobs, drafts)
    BY SameRequest
  <1>2. jobs' = jobs /\ drafts' = drafts /\ Grows
    BY Unmoved DEF tables
  <1>. HIDE DEF q
  <1>3. Sound(q, jobs', drafts')
    BY <1>1, <1>2 DEF Sound
  <1>4. /\ requests' \subseteq Request /\ \A a \in requests' : a.key \in Keys[a.author]
        /\ Cardinality(requests') <= MaxInFlight /\ RequestsInv'
    BY <1>1, <1>2, <1>3, RequestsStay DEF q
  <1>. QED
    BY <1>4, OnlyRequests

LEMMA PrepareLiveStep == ASSUME Inv, NEW r \in requests, PrepareLive(r) PROVE Inv'
  <1>1. /\ r.body.command = "liveEvaluation" /\ Outcome(r) = "done" /\ ~r.prepared
        /\ requests' = (requests \ {r}) \cup {[r EXCEPT !.prepared = TRUE]}
        /\ UNCHANGED <<accessVars, head, tables, receipts>>
    BY DEF PrepareLive, Carries
  <1>2. jobs[r.body.run].status = "FEASIBLE"
    BY <1>1, DoneFacts DEF Fence, LiveFence
  <1>. QED
    BY <1>1, <1>2, SentAgain

LEMMA JobEndsStep == ASSUME Inv, NEW j \in DOMAIN jobs, JobEnds(j) PROVE Inv'
  <1>1. PICK s \in {"FEASIBLE", "NO_FEASIBLE_PLAN", "FAILED"} : jobs' = [jobs EXCEPT ![j].status = s]
    BY DEF JobEnds
  <1>2. /\ jobs[j].status = "QUEUED"
        /\ UNCHANGED <<accessVars, head, workspaces, drafts, cases, receipts, requests>>
    BY DEF JobEnds
  <1>3. jobs \in Seq(Job) /\ jobs[j] \in Job /\ DOMAIN jobs = 1..Len(jobs)
    BY Tables, LenProperties
  <1>. DEFINE new == [jobs[j] EXCEPT !.status = s]
  <1>4. /\ new \in Job /\ new.workspace = jobs[j].workspace /\ new.draft = jobs[j].draft
        /\ new.revision = jobs[j].revision /\ new.content = jobs[j].content /\ new.by = jobs[j].by
    BY <1>3 DEF Job, JobStatus
  <1>5. jobs' = [jobs EXCEPT ![j] = new]
    BY <1>1
  <1>. HIDE DEF new
  <1>6. /\ jobs' \in Seq(Job) /\ DOMAIN jobs' = DOMAIN jobs /\ jobs'[j] = new
        /\ \A i \in DOMAIN jobs \ {j} : jobs'[i] = jobs[i]
    BY <1>3, <1>4, <1>5
  <1>7. \A i \in DOMAIN jobs : jobs'[i].by = jobs[i].by
    BY <1>4, <1>6
  <1>8. Grows
    BY <1>2, <1>4, <1>6 DEF Grows
  <1>9. Rows("jobs", jobs') = Rows("jobs", jobs)
    BY <1>6, <1>7, RowsSame
  <1>10. Made' = Made
    BY <1>2, <1>9, VersionsSame DEF Made
  <1>11. MadeInv'
    BY <1>2, <1>10 DEF Inv, MadeInv
  <1>12. RequestsInv'
    BY <1>2, <1>8, GrowsKeeps DEF Inv, RequestsInv
  <1>13. JobsInv'
    BY <1>6, <1>8, GrowsKeeps DEF JobsInv
  <1>14. RevisionsInv'
    BY <1>2 DEF Inv, RevisionsInv
  <1>15. TypeOK'
    BY <1>2, <1>6 DEF Inv, TypeOK, AccessTypeOK, accessVars
  <1>. QED
    BY <1>11, <1>12, <1>13, <1>14, <1>15 DEF Inv

LEMMA HeadMovesStep == ASSUME Inv, HeadMoves PROVE Inv'
  <1>1. /\ head \in WorkspaceHead /\ head.revision < MaxHead
        /\ UNCHANGED <<accessVars, tables, receipts, requests>>
    BY DEF HeadMoves, Inv, TypeOK
  <1>2. head' \in WorkspaceHead
    <2>1. /\ head.snapshot + 1 \in Nat /\ head.plan + 1 \in Nat /\ head.revision + 1 \in 1..MaxHead
          /\ head = [snapshot |-> head.snapshot, plan |-> head.plan, revision |-> head.revision]
      BY <1>1, WorkspaceAssumption DEF WorkspaceHead
    <2>2. CASE head' = [head EXCEPT !.snapshot = @ + 1, !.revision = @ + 1]
      <3>1. head' = [snapshot |-> head.snapshot + 1, plan |-> head.plan, revision |-> head.revision + 1]
        BY <2>1, <2>2
      <3>. QED
        BY <1>1, <2>1, <3>1 DEF WorkspaceHead
    <2>3. CASE head' = [head EXCEPT !.plan = @ + 1, !.revision = @ + 1]
      <3>1. head' = [snapshot |-> head.snapshot, plan |-> head.plan + 1, revision |-> head.revision + 1]
        BY <2>1, <2>3
      <3>. QED
        BY <1>1, <2>1, <3>1 DEF WorkspaceHead
    <2>. QED
      BY <2>2, <2>3 DEF HeadMoves
  <1>3. /\ workspaces' = workspaces /\ drafts' = drafts /\ jobs' = jobs /\ cases' = cases
        /\ receipts' = receipts /\ requests' = requests
    BY <1>1 DEF tables
  <1>4. Made' = Made
    BY <1>3, VersionsSame DEF Made
  <1>5. TypeOK'
    BY <1>1, <1>2, <1>3 DEF Inv, TypeOK, AccessTypeOK, accessVars
  <1>6. MadeInv'
    BY <1>3, <1>4 DEF Inv, MadeInv
  <1>. QED
    BY <1>3, <1>5, <1>6, DraftsKeep DEF Inv, RequestsInv

LEMMA AccessMovesStep == ASSUME Inv, AccessMoves PROVE Inv'
  <1>1. AccessTypeOK /\ UNCHANGED <<head, tables, receipts, requests>>
    BY DEF AccessMoves, Inv, TypeOK
  <1>2. AccessTypeOK'
    <2>1. ASSUME NEW actor \in Users, NEW u \in Users, NEW grant \in BOOLEAN,
                 ChangeMembership(actor, u, grant)
          PROVE  AccessTypeOK'
      BY <1>1, <2>1, AccessAssumption DEF AccessTypeOK, ChangeMembership, Counted
    <2>2. ASSUME NEW actor \in Users, NEW u \in Users, DeleteUser(actor, u)
          PROVE  AccessTypeOK'
      BY <1>1, <2>2, AccessAssumption DEF AccessTypeOK, DeleteUser, Counted
    <2>. QED
      BY <2>1, <2>2 DEF AccessMoves
  <1>3. /\ workspaces' = workspaces /\ drafts' = drafts /\ jobs' = jobs /\ cases' = cases
        /\ receipts' = receipts /\ requests' = requests /\ head' = head
    BY <1>1 DEF tables
  <1>4. Made' = Made
    BY <1>3, VersionsSame DEF Made
  <1>5. TypeOK'
    BY <1>2, <1>3 DEF Inv, TypeOK
  <1>6. MadeInv'
    BY <1>3, <1>4 DEF Inv, MadeInv
  <1>. QED
    BY <1>3, <1>5, <1>6, DraftsKeep DEF Inv, RequestsInv

-----------------------------------------------------------------------------
(* Every step.                                                             *)

LEMMA ComposeAnyStep ==
  ASSUME Inv, NEW u \in Users, NEW k \in Keys[u], ComposeAny(u, k)
  PROVE  Inv'
  <1>. DEFINE Q(b) == [author |-> u, key |-> k, body |-> b, prepared |-> FALSE]
  <1>1. head \in WorkspaceHead /\ workspaces \in Seq(Workspace) /\ drafts \in Seq(Draft) /\ jobs \in Seq(Job)
    BY Tables
  <1>2. ASSUME NEW b \in Body, Compose(u, k, b), Sound(Q(b), jobs, drafts)
        PROVE  Inv'
    BY <1>2, ComposeStep
  <1>3. ASSUME Compose(u, k, [command |-> "create", head |-> head]) PROVE Inv'
    <2>. DEFINE b == [command |-> "create", head |-> head]
    <2>1. b \in Body
      BY <1>1 DEF Body
    <2>2. Sound(Q(b), jobs, drafts)
      BY DEF Sound
    <2>. QED
      BY <1>2, <1>3, <2>1, <2>2
  <1>4. ASSUME NEW w \in DOMAIN workspaces, NEW c \in Contents,
               Compose(u, k, [command |-> "createDraft", workspace |-> w, content |-> c])
        PROVE  Inv'
    <2>. DEFINE b == [command |-> "createDraft", workspace |-> w, content |-> c]
    <2>1. w \in Nat
      BY <1>1, LenProperties
    <2>2. b \in Body
      BY <2>1 DEF Body
    <2>3. Sound(Q(b), jobs, drafts)
      BY DEF Sound
    <2>. QED
      BY <1>2, <1>4, <2>2, <2>3
  <1>5. ASSUME NEW w \in DOMAIN workspaces,
               Compose(u, k, [command |-> "enqueueRun", workspace |-> w, draft |-> Baseline, revision |-> 0])
        PROVE  Inv'
    <2>. DEFINE b == [command |-> "enqueueRun", workspace |-> w, draft |-> Baseline, revision |-> 0]
    <2>1. w \in Nat /\ Baseline \in Nat
      BY <1>1, LenProperties DEF Baseline
    <2>2. b \in Body
      BY <2>1 DEF Body
    <2>3. Sound(Q(b), jobs, drafts)
      BY DEF Sound
    <2>. QED
      BY <1>2, <1>5, <2>2, <2>3
  <1>6. ASSUME NEW d \in DOMAIN drafts, NEW c \in Contents,
               Compose(u, k, [command |-> "updateDraft", draft |-> d,
                              revision |-> Len(drafts[d].revisions), content |-> c])
        PROVE  Inv'
    <2>. DEFINE now == Len(drafts[d].revisions)
                b == [command |-> "updateDraft", draft |-> d, revision |-> now, content |-> c]
    <2>1. d \in Nat /\ now \in Nat
      BY <1>1, Tables, LenProperties
    <2>. HIDE DEF now
    <2>2. b \in Body
      BY <2>1 DEF Body
    <2>3. Sound(Q(b), jobs, drafts)
      BY DEF Sound
    <2>4. Compose(u, k, b)
      BY <1>6 DEF now
    <2>. QED
      BY <1>2, <2>2, <2>3, <2>4
  <1>7. ASSUME NEW d \in DOMAIN drafts,
               Compose(u, k, [command |-> "enqueueRun", workspace |-> drafts[d].workspace,
                              draft |-> d, revision |-> Len(drafts[d].revisions)])
        PROVE  Inv'
    <2>. DEFINE now == Len(drafts[d].revisions)
                b == [command |-> "enqueueRun", workspace |-> drafts[d].workspace,
                      draft |-> d, revision |-> now]
    <2>1. d \in Nat /\ now \in Nat /\ drafts[d].workspace \in Nat
      BY <1>1, Tables, LenProperties DEF Draft
    <2>. HIDE DEF now
    <2>2. b \in Body
      BY <2>1 DEF Body
    <2>3. Sound(Q(b), jobs, drafts)
      BY DEF Sound
    <2>4. Compose(u, k, b)
      BY <1>7 DEF now
    <2>. QED
      BY <1>2, <2>2, <2>3, <2>4
  <1>8. ASSUME NEW j \in DOMAIN jobs,
               Compose(u, k, [command |-> "enqueueSensitivity", workspace |-> jobs[j].workspace, run |-> j])
        PROVE  Inv'
    <2>. DEFINE b == [command |-> "enqueueSensitivity", workspace |-> jobs[j].workspace, run |-> j]
    <2>1. j \in Nat /\ jobs[j].workspace \in Nat
      BY <1>1, Tables, LenProperties DEF Job
    <2>2. b \in Body
      BY <2>1 DEF Body
    <2>3. Sound(Q(b), jobs, drafts)
      BY DEF Sound
    <2>. QED
      BY <1>2, <1>8, <2>2, <2>3
  <1>9. ASSUME NEW j \in DOMAIN jobs,
               Compose(u, k, [command |-> "liveEvaluation", workspace |-> jobs[j].workspace,
                              run |-> j, head |-> head])
        PROVE  Inv'
    <2>. DEFINE b == [command |-> "liveEvaluation", workspace |-> jobs[j].workspace,
                      run |-> j, head |-> head]
    <2>1. j \in Nat /\ jobs[j].workspace \in Nat
      BY <1>1, Tables, LenProperties DEF Job
    <2>2. b \in Body
      BY <1>1, <2>1 DEF Body
    <2>3. Sound(Q(b), jobs, drafts)
      BY DEF Sound
    <2>. QED
      BY <1>2, <1>9, <2>2, <2>3
  <1>. HIDE DEF Q
  <1>. QED
    BY <1>3, <1>4, <1>5, <1>6, <1>7, <1>8, <1>9 DEF ComposeAny

LEMMA DeliverStep == ASSUME Inv, NEW r \in requests, Deliver(r) PROVE Inv'
  <1>1. CASE Refuse(r)
    BY <1>1, NoMoreRequests DEF Refuse
  <1>2. CASE Replay(r)
    <2>1. /\ UNCHANGED <<accessVars, head, tables, receipts>> /\ Answered(r)
      BY <1>2 DEF Replay
    <2>2. CASE requests' = requests \ {r}
      BY <2>1, <2>2, NoMoreRequests
    <2>3. CASE requests' = (requests \ {r}) \cup {[r EXCEPT !.prepared = FALSE]}
      BY <2>1, <2>3, SentAgain
    <2>. QED
      BY <2>1, <2>2, <2>3 DEF Answered
  <1>3. CASE Resend(r)
    BY <1>3, SentAgain DEF Resend
  <1>4. CASE ValidationFails(r)
    BY <1>4, NoMoreRequests DEF ValidationFails
  <1>. QED
    BY <1>1, <1>2, <1>3, <1>4, CreateWorkspaceStep, CreateDraftStep, UpdateDraftStep,
       EnqueueRunStep, EnqueueSensitivityStep, PrepareLiveStep, CreateLiveStep DEF Deliver

LEMMA StepHolds == ASSUME Inv, [WorkspaceNext]_workspaceVars PROVE Inv'
  <1>1. CASE UNCHANGED workspaceVars
    BY <1>1, NoMoreRequests DEF workspaceVars
  <1>2. CASE WorkspaceNext
    BY <1>2, ComposeAnyStep, DeliverStep, JobEndsStep, HeadMovesStep, AccessMovesStep
    DEF WorkspaceNext
  <1>. QED
    BY <1>1, <1>2

LEMMA InvHolds == WorkspaceSpec => []Inv
  BY InitHolds, StepHolds, PTL DEF WorkspaceSpec

(* However often a request is sent, and though two deliveries of a LIVE     *)
(* evaluation may both be between its transactions, each key has one effect,*)
(* the one its receipt names; each revision of a draft was written by       *)
(* someone who had the one before in front of him, and each job holds the   *)
(* content of the revision it names (scenario-workspace.service.js,         *)
(* updateDraft and enqueueRun).                                             *)
THEOREM KeysHaveOneEffect == WorkspaceSpec => []EffectPerKey
  <1>1. Inv => EffectPerKey
    BY DEF Inv, MadeInv, RevisionsInv, JobsInv, Based, EffectPerKey
  <1>. QED
    BY <1>1, InvHolds, PTL

(* Only the second transaction of a LIVE evaluation makes a case, and it    *)
(* asks everything again that may have changed since the first.             *)
LEMMA CasesAreCreated ==
  ASSUME Inv, WorkspaceNext, cases' # cases
  PROVE  \E r \in requests : CreateLive(r)
  <1>1. ASSUME NEW u, NEW k, ComposeAny(u, k) PROVE FALSE
    BY <1>1 DEF ComposeAny, Compose, tables
  <1>2. ASSUME NEW r \in requests, Deliver(r) PROVE CreateLive(r)
    BY <1>2 DEF Deliver, Refuse, Replay, Resend, ValidationFails, CreateWorkspace, CreateDraft,
      UpdateDraft, EnqueueRun, EnqueueSensitivity, PrepareLive, NewWorkspace, NewDraft,
      DraftRevised, NewRun, NewSweep, tables
  <1>3. ASSUME NEW j, JobEnds(j) PROVE FALSE
    BY <1>3 DEF JobEnds
  <1>4. ~HeadMoves /\ ~AccessMoves
    BY DEF HeadMoves, AccessMoves, tables
  <1>. QED
    BY <1>1, <1>2, <1>3, <1>4 DEF WorkspaceNext

(* A LIVE case is made only from a completed, feasible run of its           *)
(* workspace, by an author who may write at that moment and who confirmed   *)
(* the head of that moment, and on the basis the workspace was made for     *)
(* (scenario-live.service.js, source, called by both transactions).         *)
THEOREM LiveCasesKeepTheirBasis == WorkspaceSpec => LiveOnItsBasis
  <1>. DEFINE A(c) ==
         /\ AuthorizeWrite(c.by[1], Writers)
         /\ [snapshot |-> c.snapshot, plan |-> c.plan, revision |-> c.revision] = head
         /\ receipts'[c.by[1]][c.by[2]].head = head
         /\ Pinned(c.workspace) = [snapshot |-> c.snapshot, plan |-> c.plan]
         /\ jobs[c.run].kind = "RUN" /\ jobs[c.run].status = "FEASIBLE"
         /\ jobs[c.run].workspace = c.workspace
         /\ jobs[c.run].content \in Mappable \cup {Baseline}
  <1>1. ASSUME Inv, NEW r \in requests, CreateLive(r), NEW i \in DOMAIN cases' \ DOMAIN cases
        PROVE  A(cases'[i])
    <2>. DEFINE b == r.body
                x == [workspace |-> b.workspace, run |-> b.run, snapshot |-> head.snapshot,
                      plan |-> head.plan, revision |-> head.revision, by |-> By(r)]
    <2>1. /\ b.command = "liveEvaluation" /\ Outcome(r) = "done" /\ r.prepared /\ WriteReceipt(r)
          /\ cases' = Append(cases, x)
      BY <1>1 DEF CreateLive, Carries, NewCase, Commit
    <2>2. /\ b \in Body /\ By(r) \in Authors /\ Sound(r, jobs, drafts)
          /\ r.author \in Users /\ r.key \in Keys[r.author] /\ By(r) = <<r.author, r.key>>
      BY <1>1, TheRequest
    <2>3. x.by[1] = r.author /\ x.by[2] = r.key
      BY <2>2
    <2>4. /\ b.workspace \in Nat /\ b.run \in Nat /\ head \in WorkspaceHead
          /\ head.snapshot \in Nat /\ head.plan \in Nat /\ head.revision \in Nat
      BY <1>1, <2>1, <2>2, BodyFields, Tables DEF WorkspaceHead
    <2>5. x \in Case
      BY <2>2, <2>4 DEF Case
    <2>6. cases'[i] = x
      <3>1. cases \in Seq(Case)
        BY <1>1, Tables
      <3>. HIDE DEF x
      <3>. QED
        BY <1>1, <2>1, <2>5, <3>1, Appended
    <2>7. AuthorizeWrite(r.author, Writers) /\ SourceFence(b)
      BY <2>1, DoneFacts DEF Fence, LiveFence
    <2>8. /\ jobs[b.run].kind = "RUN" /\ jobs[b.run].content \in Mappable \cup {Baseline}
          /\ head = b.head /\ Pinned(b.workspace) = [snapshot |-> head.snapshot, plan |-> head.plan]
      BY <2>7 DEF SourceFence, Completed
    <2>9. jobs[b.run].workspace = b.workspace /\ jobs[b.run].status = "FEASIBLE"
      BY <2>1, <2>2 DEF Sound
    <2>10. [snapshot |-> head.snapshot, plan |-> head.plan, revision |-> head.revision] = head
      BY <2>4 DEF WorkspaceHead
    <2>11. receipts'[r.author][r.key] = b
      BY <1>1, <2>1, <2>2 DEF WriteReceipt, Inv, TypeOK
    <2>12. A(x)
      BY <2>3, <2>7, <2>8, <2>9, <2>10, <2>11
    <2>. HIDE DEF x, A
    <2>. QED
      BY <2>6, <2>12
  <1>. HIDE DEF A
  <1>2. ASSUME Inv, [WorkspaceNext]_workspaceVars, NEW i \in DOMAIN cases' \ DOMAIN cases
        PROVE  A(cases'[i])
    <2>1. cases' # cases
      BY <1>2
    <2>2. WorkspaceNext
      BY <1>2, <2>1 DEF workspaceVars, tables
    <2>. QED
      BY <1>1, <1>2, <2>1, <2>2, CasesAreCreated
  <1>3. ASSUME Inv, [WorkspaceNext]_workspaceVars
        PROVE  [\A i \in DOMAIN cases' \ DOMAIN cases : A(cases'[i])]_workspaceVars
    BY <1>2, <1>3
  <1>. QED
    BY <1>3, InvHolds, PTL DEF WorkspaceSpec, LiveOnItsBasis, A
=============================================================================
