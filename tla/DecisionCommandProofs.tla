------------------------ MODULE DecisionCommandProofs ------------------------
(* Proofs about DecisionCommand, for every set of actors, keys, cases,      *)
(* snapshots and plans, and any number of requests in flight.               *)
EXTENDS DecisionCommand, Sequences, FiniteSetTheorems, SequenceTheorems, TLAPS

-----------------------------------------------------------------------------
(* Type correctness.  TypeOK alone is not inductive: a command must name a   *)
(* case that exists, and the tokens copied from the head and from a case     *)
(* must name a snapshot.                                                     *)

RequestsOK ==
    \A r \in requests : r.body.command # "CREATE" => r.body.case \in Cases

HeadOK ==
    /\ head.snapshot = None <=> head.revision = 0
    /\ head.snapshot # None => snapshots[head.snapshot] # None

BasesOK ==
    \A c \in Cases :
        LET r == cases[c] IN
        /\ r.status = "NONE" => r = NoRow
        /\ r.status # "NONE" =>
             /\ r.snapshot \in Snapshots
             /\ snapshots[r.snapshot] # None
             /\ r.base <= head.version

TypeInv == TypeOK /\ RequestsOK /\ HeadOK /\ BasesOK

(* The fields of typed rows and requests.                                    *)
LEMMA RequestTyped ==
    ASSUME TypeInv, NEW r \in requests
    PROVE  /\ r \in Request
           /\ r.actor \in Actors /\ r.key \in Keys /\ r.body \in Body
           /\ r.body.snapshot \in Snapshots /\ r.body.version \in Nat
           /\ r.body.plan \in Plans \cup {None} /\ r.body.mode \in Modes
           /\ r.body.revision \in Nat
           /\ r.body.command \in Commands \cup {"CREATE"}
           /\ r.body.command # "CREATE" => r.body.case \in Cases
  BY DEF TypeInv, TypeOK, RequestsOK, Request, Body

LEMMA CaseTyped ==
    ASSUME TypeInv, NEW c \in Cases
    PROVE  /\ cases[c] \in Case
           /\ cases[c].status \in Status /\ cases[c].mode \in Modes
           /\ cases[c].snapshot \in Snapshots \cup {None}
           /\ cases[c].base \in Nat /\ cases[c].revision \in Nat
           /\ cases[c].plans \in SUBSET Plans
           /\ human[c] \in Human /\ commits[c] \in Publication
           /\ commits[c].version \in Nat
           /\ events[c] \in SUBSET HumanEvent /\ born[c] \in Nat
  BY DEF TypeInv, TypeOK, Case, Publication

LEMMA HeadTyped ==
    ASSUME TypeInv
    PROVE  /\ head \in OperationsHead /\ head.revision \in Nat /\ head.version \in Nat
           /\ head.snapshot \in Snapshots \cup {None}
           /\ head.schedule \in Schedules \cup {None}
           /\ head.revision > 0 => head.snapshot \in Snapshots
  BY DEF TypeInv, TypeOK, HeadOK, OperationsHead

(* A command that is done passed its fences, under a key without a receipt.  *)
LEMMA DonePassed ==
    ASSUME NEW r, Outcome(r) = "done"
    PROVE  /\ grant[r.actor]
           /\ receipts[r.actor][r.key] = None
           /\ Fence(r.body)
  BY DEF Outcome

(* What a command that is done knows of its case.                            *)
LEMMA CommandFenced ==
    ASSUME TypeInv, NEW r \in requests, r.body.command \in Commands,
           Outcome(r) = "done"
    PROVE  LET c == r.body.case IN
           /\ c \in Cases
           /\ receipts[r.actor][r.key] = None
           /\ StateFence(r.body) /\ BasisFence(r.body)
           /\ SelectionFence(r.body) /\ IdentityFence(r.body)
           /\ cases[c].status \in {"AWAITING_APPROVAL", "APPROVED"}
           /\ head.snapshot = cases[c].snapshot /\ head.version = cases[c].base
           /\ ~Stale(c)
           /\ r.body.command # "REJECT" => r.body.plan \in cases[c].plans \cap ValidPlans
  <1>1. r.body.command # "CREATE"
    BY DEF Commands
  <1>2. r.body.case \in Cases
    BY <1>1, RequestTyped
  <1>3. Fence(r.body) /\ receipts[r.actor][r.key] = None
    BY DonePassed
  <1>4. /\ StateFence(r.body) /\ BasisFence(r.body)
        /\ SelectionFence(r.body) /\ IdentityFence(r.body)
    BY <1>1, <1>3 DEF Fence
  <1>. QED
    BY <1>2, <1>3, <1>4 DEF StateFence, BasisFence, SelectionFence, Stale

(* The steps that write no table and no receipt.                             *)
Quiet == UNCHANGED <<tables, receipts>>

(* The rows a command writes.                                                *)
Advanced(r, status, version) ==
    LET c == r.body.case IN
    /\ cases' = [cases EXCEPT ![c].status = status,
                              ![c].revision = cases[c].revision + 1]
    /\ events' = [events EXCEPT ![c] = @ \cup
         {[actor |-> r.actor, revision |-> cases[c].revision + 1,
           to |-> status, version |-> version]}]
    /\ receipts' = [receipts EXCEPT ![r.actor][r.key] =
         [body |-> r.body, case |-> c, status |-> status,
          revision |-> cases[c].revision + 1, version |-> version]]
    /\ UNCHANGED <<snapshots, born, grant>>
    /\ requests' \subseteq requests

LEMMA AdvanceWrites ==
    ASSUME NEW r, NEW status, NEW version, Advance(r, status, version)
    PROVE  Advanced(r, status, version)
  BY DEF Advance, Advanced, WriteReceipt, Replied

(* A done command, as one fact about what it writes.                         *)
Decides(r, status) ==
    /\ r.body.command \in Commands /\ Outcome(r) = "done"
    /\ \/ /\ r.body.command = "APPROVE" /\ status = "APPROVED"
          /\ human' = [human EXCEPT ![r.body.case] =
                         [decision |-> "APPROVE", plan |-> r.body.plan]]
          /\ UNCHANGED <<head, commits, published>>
          /\ Advanced(r, status, head.version)
       \/ /\ r.body.command = "REJECT" /\ status = "REJECTED"
          /\ human' = [human EXCEPT ![r.body.case] =
                         [decision |-> "REJECT", plan |-> None]]
          /\ UNCHANGED <<head, commits, published>>
          /\ Advanced(r, status, head.version)
       \/ /\ r.body.command = "COMMIT" /\ status = "COMMITTED"
          /\ published' = [published EXCEPT
                             ![ScheduleOf[r.body.plan]] = r.body.plan]
          /\ commits' = [commits EXCEPT ![r.body.case] =
               [version |-> head.version + 1, plan |-> r.body.plan,
                snapshot |-> cases[r.body.case].snapshot]]
          /\ head' = [head EXCEPT !.schedule = ScheduleOf[r.body.plan],
                                  !.version = @ + 1, !.revision = @ + 1]
          /\ UNCHANGED human
          /\ Advanced(r, status, NextHead(r.body.plan).version)

LEMMA CommandDecides ==
    ASSUME NEW r
    PROVE  /\ Approve(r) => Decides(r, "APPROVED")
           /\ Reject(r) => Decides(r, "REJECTED")
           /\ Commit(r) => Decides(r, "COMMITTED")
  <1>1. Approve(r) => Decides(r, "APPROVED")
    BY AdvanceWrites DEF Approve, Decides, Commands
  <1>2. Reject(r) => Decides(r, "REJECTED")
    BY AdvanceWrites DEF Reject, Decides, Commands
  <1>3. Commit(r) => Decides(r, "COMMITTED")
    <2>1. Commit(r) =>
            /\ head' = [head EXCEPT !.schedule = ScheduleOf[r.body.plan],
                                    !.version = @ + 1, !.revision = @ + 1]
            /\ Advanced(r, "COMMITTED", NextHead(r.body.plan).version)
      BY AdvanceWrites DEF Commit, NextHead
    <2>. QED
      BY <2>1 DEF Commit, Decides, Commands
  <1>. QED
    BY <1>1, <1>2, <1>3

(* The creation of a case.                                                   *)
Creates(r, c) ==
    /\ r.body.command = "CREATE" /\ CreateFence(r.body)
    /\ receipts[r.actor][r.key] = None
    /\ cases[c].status = "NONE"
    /\ cases' = [cases EXCEPT ![c] =
                   [status |-> "CREATED", mode |-> r.body.mode,
                    snapshot |-> head.snapshot, base |-> head.version,
                    revision |-> 1, plans |-> {}]]
    /\ born' = [born EXCEPT ![c] = head.revision]
    /\ receipts' = [receipts EXCEPT ![r.actor][r.key] =
         [body |-> r.body, case |-> c, status |-> "CREATED",
          revision |-> 1, version |-> head.version]]
    /\ requests' \subseteq requests
    /\ UNCHANGED <<head, snapshots, human, commits, published, events, grant>>

LEMMA CreateCreates ==
    ASSUME NEW r, NEW c, Create(r, c)
    PROVE  Creates(r, c)
  BY DonePassed DEF Create, Creates, Fence, WriteReceipt, Replied

(* What a step is: every action, by what it writes.                          *)
StepKind ==
    \/ Quiet
    \/ \E s \in Snapshots, content \in Contents, expected \in Nat :
          Ingest(s, content, expected)
    \/ \E r \in requests, c \in Cases : Creates(r, c)
    \/ \E r \in requests, status \in {"APPROVED", "REJECTED", "COMMITTED"} :
          Decides(r, status)
    \/ \E c \in Cases : Plan(c) \/ PlanningFails(c)

LEMMA StepKinds == [Next]_vars => StepKind
  <1>. SUFFICES ASSUME [Next]_vars PROVE StepKind
    OBVIOUS
  <1>1. ASSUME NEW s \in Snapshots, NEW content \in Contents,
               NEW expected \in 0..head.revision, Ingest(s, content, expected)
        PROVE  StepKind
    BY <1>1 DEF StepKind
  <1>2. ASSUME NEW a \in Actors, NEW k \in Keys,
               \/ \E mode \in Modes : SendCreate(a, k, mode)
               \/ \E c \in Cases, command \in Commands, p \in Plans :
                     SendCommand(a, k, c, command, p)
        PROVE  StepKind
    BY <1>2 DEF SendCreate, SendCommand, Send, Quiet, StepKind
  <1>3. ASSUME NEW r \in requests, NEW c \in Cases, Create(r, c)
        PROVE  StepKind
    BY <1>3, CreateCreates DEF StepKind
  <1>4. ASSUME NEW r \in requests, Approve(r) \/ Reject(r) \/ Commit(r)
        PROVE  StepKind
    BY <1>4, CommandDecides DEF StepKind
  <1>5. ASSUME NEW r \in requests, GiveUp(r)
        PROVE  StepKind
    BY <1>5 DEF GiveUp, Quiet, StepKind
  <1>6. ASSUME NEW c \in Cases, Plan(c) \/ PlanningFails(c)
        PROVE  StepKind
    BY <1>6 DEF StepKind
  <1>7. ASSUME NEW a \in Actors, ChangeAccess(a)
        PROVE  StepKind
    BY <1>7 DEF ChangeAccess, Quiet, StepKind
  <1>8. ASSUME UNCHANGED vars
        PROVE  StepKind
    BY <1>8 DEF vars, tables, Quiet, StepKind
  <1>. QED
    BY <1>1, <1>2, <1>3, <1>4, <1>5, <1>6, <1>7, <1>8 DEF Next

-----------------------------------------------------------------------------
(* Requests: what is sent copies tokens that name a snapshot and a case.     *)

LEMMA RequestsStep ==
    TypeInv /\ [Next]_vars =>
        requests' \in SUBSET Request /\ RequestsOK' /\ grant' \in [Actors -> BOOLEAN]
  <1>. SUFFICES ASSUME TypeInv, [Next]_vars
                PROVE  requests' \in SUBSET Request /\ RequestsOK'
                         /\ grant' \in [Actors -> BOOLEAN]
    OBVIOUS
  <1>0. /\ requests \in SUBSET Request /\ RequestsOK
        /\ grant \in [Actors -> BOOLEAN]
    BY DEF TypeInv, TypeOK
  <1>1. ASSUME requests' \subseteq requests, UNCHANGED grant
        PROVE  requests' \in SUBSET Request /\ RequestsOK'
                 /\ grant' \in [Actors -> BOOLEAN]
    BY <1>0, <1>1 DEF RequestsOK
  <1>2. ASSUME NEW a \in Actors, NEW k \in Keys, NEW body \in Body,
               Send(a, k, body), body.command # "CREATE" => body.case \in Cases
        PROVE  requests' \in SUBSET Request /\ RequestsOK'
                 /\ grant' \in [Actors -> BOOLEAN]
    <2>. DEFINE r == [actor |-> a, key |-> k, body |-> body]
    <2>1. r \in Request /\ r.body = body
      BY DEF Request
    <2>2. requests' = requests \cup {r} /\ UNCHANGED grant
      BY <1>2 DEF Send
    <2>. HIDE DEF r
    <2>. QED
      BY <1>0, <1>2, <2>1, <2>2 DEF RequestsOK
  <1>3. ASSUME NEW a \in Actors, NEW k \in Keys, NEW mode \in Modes,
               SendCreate(a, k, mode)
        PROVE  requests' \in SUBSET Request /\ RequestsOK'
                 /\ grant' \in [Actors -> BOOLEAN]
    <2>. DEFINE body == [command |-> "CREATE", case |-> None, mode |-> mode,
                         revision |-> 0, snapshot |-> head.snapshot,
                         version |-> head.version, plan |-> None]
    <2>1. head.snapshot \in Snapshots /\ head.version \in Nat
      BY <1>3, HeadTyped DEF SendCreate
    <2>2. body \in Body /\ body.command = "CREATE"
      BY <2>1 DEF Body
    <2>. QED
      BY <1>2, <1>3, <2>2 DEF SendCreate
  <1>4. ASSUME NEW a \in Actors, NEW k \in Keys, NEW c \in Cases,
               NEW command \in Commands, NEW p \in Plans,
               SendCommand(a, k, c, command, p)
        PROVE  requests' \in SUBSET Request /\ RequestsOK'
                 /\ grant' \in [Actors -> BOOLEAN]
    <2>1. cases[c].status # "NONE"
      BY <1>4 DEF SendCommand, TypeInv, BasesOK, NoRow
    <2>2. cases[c].snapshot \in Snapshots
      BY <2>1 DEF TypeInv, BasesOK
    <2>3. Tokens(c, command, p) \in Body /\ Tokens(c, command, p).case = c
      BY <2>2, CaseTyped DEF Tokens, Body
    <2>. QED
      BY <1>2, <1>4, <2>3 DEF SendCommand
  <1>5. ASSUME NEW r \in requests,
               \/ \E c \in Cases : Create(r, c)
               \/ Approve(r) \/ Reject(r) \/ Commit(r) \/ GiveUp(r)
        PROVE  requests' \subseteq requests /\ UNCHANGED grant
    BY <1>5, CreateCreates, CommandDecides
    DEF Creates, Decides, Advanced, GiveUp
  <1>6. ASSUME NEW a \in Actors, ChangeAccess(a)
        PROVE  requests' \in SUBSET Request /\ RequestsOK'
                 /\ grant' \in [Actors -> BOOLEAN]
    BY <1>0, <1>6 DEF ChangeAccess, RequestsOK
  <1>7. ASSUME \/ \E s \in Snapshots, content \in Contents :
                     \E expected \in 0..head.revision : Ingest(s, content, expected)
               \/ \E c \in Cases : Plan(c) \/ PlanningFails(c)
               \/ UNCHANGED vars
        PROVE  requests' \subseteq requests /\ UNCHANGED grant
    BY <1>7 DEF Ingest, Plan, PlanningFails, vars
  <1>. QED
    BY <1>1, <1>3, <1>4, <1>5, <1>6, <1>7 DEF Next

-----------------------------------------------------------------------------
(* The tables keep their types, and every case its basis.                    *)

TablesOK ==
    /\ head \in OperationsHead
    /\ snapshots \in [Snapshots -> Contents \cup {None}]
    /\ cases \in [Cases -> Case]
    /\ human \in [Cases -> Human]
    /\ commits \in [Cases -> Publication]
    /\ published \in [Schedules -> Plans \cup {None}]
    /\ events \in [Cases -> SUBSET HumanEvent]
    /\ receipts \in [Actors -> [Keys -> Receipt \cup {None}]]
    /\ born \in [Cases -> Nat]

LEMMA TypeParts ==
    TypeOK <=> TablesOK /\ requests \in SUBSET Request
                 /\ grant \in [Actors -> BOOLEAN]
  BY DEF TypeOK, TablesOK

LEMMA IngestTyped ==
    ASSUME TypeInv, NEW s \in Snapshots, NEW content \in Contents,
           NEW expected, Ingest(s, content, expected)
    PROVE  TablesOK' /\ HeadOK' /\ BasesOK'
  <1>1. /\ snapshots' = [snapshots EXCEPT ![s] = content]
        /\ head' = [head EXCEPT !.revision = @ + 1, !.snapshot = s]
        /\ UNCHANGED <<cases, human, commits, published, events, born, receipts>>
    BY DEF Ingest
  <1>2. TablesOK
    BY TypeParts DEF TypeInv
  <1>3. content # None /\ s # None
    BY ConstantsAssumption
  <1>4. /\ head'.revision = head.revision + 1 /\ head'.snapshot = s
        /\ head'.version = head.version /\ head'.schedule = head.schedule
        /\ head' \in OperationsHead
    <2>1. head \in OperationsHead /\ head.revision + 1 \in Nat
      BY HeadTyped
    <2>2. head' = [head EXCEPT !.revision = head.revision + 1, !.snapshot = s]
      BY <1>1
    <2>. QED
      BY <2>1, <2>2 DEF OperationsHead
  <1>5. snapshots' \in [Snapshots -> Contents \cup {None}]
        /\ \A t \in Snapshots : snapshots[t] # None \/ t = s => snapshots'[t] # None
    BY <1>1, <1>2, <1>3 DEF TablesOK
  <1>6. TablesOK'
    BY <1>1, <1>2, <1>4, <1>5 DEF TablesOK
  <1>7. HeadOK'
    BY <1>3, <1>4, <1>5, HeadTyped DEF HeadOK
  <1>8. BasesOK'
    BY <1>1, <1>4, <1>5 DEF BasesOK, TypeInv
  <1>. QED
    BY <1>6, <1>7, <1>8

LEMMA CreateTyped ==
    ASSUME TypeInv, NEW r \in requests, NEW c \in Cases, Creates(r, c)
    PROVE  TablesOK' /\ HeadOK' /\ BasesOK'
  <1>. DEFINE row == [status |-> "CREATED", mode |-> r.body.mode,
                      snapshot |-> head.snapshot, base |-> head.version,
                      revision |-> 1, plans |-> {}]
              receipt == [body |-> r.body, case |-> c, status |-> "CREATED",
                          revision |-> 1, version |-> head.version]
  <1>1. TablesOK
    BY TypeParts DEF TypeInv
  <1>2. head.snapshot \in Snapshots /\ head.version \in Nat /\ head.revision \in Nat
    BY HeadTyped DEF Creates, CreateFence
  <1>3. row \in Case /\ row.status = "CREATED" /\ row.snapshot = head.snapshot
        /\ row.base = head.version
    BY <1>2, RequestTyped DEF Case, Status
  <1>4. receipt \in Receipt
    BY <1>2, RequestTyped DEF Receipt, Status
  <1>5. /\ cases' = [cases EXCEPT ![c] = row]
        /\ receipts' = [receipts EXCEPT ![r.actor][r.key] = receipt]
        /\ born' = [born EXCEPT ![c] = head.revision]
        /\ UNCHANGED <<head, snapshots, human, commits, published, events>>
    BY DEF Creates
  <1>6. snapshots[head.snapshot] # None
    BY <1>2, ConstantsAssumption DEF TypeInv, HeadOK
  <1>. HIDE DEF row, receipt
  <1>7. receipts' \in [Actors -> [Keys -> Receipt \cup {None}]]
    BY <1>1, <1>4, <1>5, RequestTyped DEF TablesOK
  <1>8. TablesOK'
    BY <1>1, <1>2, <1>3, <1>5, <1>7 DEF TablesOK
  <1>9. HeadOK'
    BY <1>5 DEF HeadOK, TypeInv
  <1>10. BasesOK'
    BY <1>1, <1>2, <1>3, <1>5, <1>6 DEF BasesOK, TypeInv, TablesOK
  <1>. QED
    BY <1>8, <1>9, <1>10

LEMMA DecideTyped ==
    ASSUME TypeInv, NEW r \in requests,
           NEW status \in {"APPROVED", "REJECTED", "COMMITTED"},
           Decides(r, status)
    PROVE  TablesOK' /\ HeadOK' /\ BasesOK'
  <1>. DEFINE c == r.body.case
              p == r.body.plan
  <1>1. TablesOK
    BY TypeParts DEF TypeInv
  <1>2. /\ c \in Cases /\ cases[c].status \in {"AWAITING_APPROVAL", "APPROVED"}
        /\ r.body.command # "REJECT" => p \in Plans
    BY CommandFenced, CaseTyped DEF Decides
  <1>3. head.version \in Nat /\ head.revision \in Nat /\ status \in Decided
    BY HeadTyped DEF Decided
  <1>4. PICK version \in Nat : Advanced(r, status, version)
    <2>1. p \in Plans => NextHead(p).version = head.version + 1
      BY HeadTyped DEF NextHead, OperationsHead
    <2>. QED
      BY <1>2, <1>3, <2>1 DEF Decides
  <1>5. /\ cases' \in [Cases -> Case]
        /\ \A d \in Cases : /\ cases'[d].snapshot = cases[d].snapshot
                            /\ cases'[d].base = cases[d].base
        /\ \A d \in Cases : cases'[d] = cases[d] \/ d = c
        /\ cases'[c].status = status
    <2>1. [cases[c] EXCEPT !.status = status, !.revision = cases[c].revision + 1] \in Case
      <3>1. cases[c] \in Case /\ cases[c].revision + 1 \in Nat /\ status \in Status
        BY <1>2, <1>3, CaseTyped DEF Status
      <3>. QED
        BY <3>1 DEF Case
    <2>2. cases' = [cases EXCEPT ![c] =
              [cases[c] EXCEPT !.status = status, !.revision = cases[c].revision + 1]]
      BY <1>1, <1>2, <1>4 DEF Advanced, TablesOK
    <2>. QED
      BY <1>1, <1>2, <2>1, <2>2, CaseTyped DEF TablesOK, Case
  <1>6. events' \in [Cases -> SUBSET HumanEvent]
    <2>1. [actor |-> r.actor, revision |-> cases[c].revision + 1,
           to |-> status, version |-> version] \in HumanEvent
      BY <1>2, <1>3, CaseTyped, RequestTyped DEF HumanEvent
    <2>. QED
      BY <1>1, <1>2, <1>4, <2>1 DEF Advanced, TablesOK
  <1>7. receipts' \in [Actors -> [Keys -> Receipt \cup {None}]]
    <2>1. [body |-> r.body, case |-> c, status |-> status,
           revision |-> cases[c].revision + 1, version |-> version] \in Receipt
      BY <1>2, <1>3, CaseTyped, RequestTyped DEF Receipt, Status
    <2>. QED
      BY <1>1, <1>4, <2>1, RequestTyped DEF Advanced, TablesOK
  <1>8. human' \in [Cases -> Human]
    BY <1>1, <1>2 DEF Decides, TablesOK, Human
  <1>9. commits' \in [Cases -> Publication]
    <2>1. p \in Plans =>
            [version |-> head.version + 1, plan |-> p,
             snapshot |-> cases[c].snapshot] \in Publication
      BY <1>2, <1>3, CaseTyped DEF Publication
    <2>. QED
      BY <1>1, <1>2, <2>1 DEF Decides, TablesOK
  <1>10. /\ head' \in OperationsHead /\ head'.snapshot = head.snapshot
         /\ head'.revision = 0 <=> head.revision = 0
         /\ head'.version >= head.version
    <2>1. head.snapshot # None
      <3>1. head.snapshot = cases[c].snapshot
        BY CommandFenced DEF Decides
      <3>2. cases[c].snapshot \in Snapshots
        BY <1>2 DEF TypeInv, BasesOK
      <3>. QED
        BY <3>1, <3>2, ConstantsAssumption
    <2>2. head.revision # 0
      BY <2>1 DEF TypeInv, HeadOK
    <2>3. p \in Plans => ScheduleOf[p] \in Schedules
      BY ConstantsAssumption
    <2>4. head \in OperationsHead /\ head.revision + 1 \in Nat /\ head.version + 1 \in Nat
      BY <1>3, HeadTyped
    <2>5. CASE UNCHANGED head
      BY <1>3, <2>4, <2>5
    <2>6. CASE p \in Plans /\ head' = [head EXCEPT !.schedule = ScheduleOf[p],
                  !.version = head.version + 1, !.revision = head.revision + 1]
      <3>1. head' \in OperationsHead
        BY <2>3, <2>4, <2>6 DEF OperationsHead
      <3>2. /\ head'.snapshot = head.snapshot
            /\ head'.version = head.version + 1 /\ head'.revision = head.revision + 1
        BY <2>4, <2>6 DEF OperationsHead
      <3>. QED
        BY <1>3, <2>2, <3>1, <3>2
    <2>. QED
      BY <1>2, <2>5, <2>6 DEF Decides
  <1>11. published' \in [Schedules -> Plans \cup {None}]
    BY <1>1, <1>2, ConstantsAssumption DEF Decides, TablesOK
  <1>12. TablesOK'
    BY <1>1, <1>4, <1>5, <1>6, <1>7, <1>8, <1>9, <1>10, <1>11
    DEF TablesOK, Advanced
  <1>13. HeadOK'
    BY <1>4, <1>10 DEF HeadOK, TypeInv, Advanced
  <1>14. BasesOK'
    <2>1. \A d \in Cases : cases[d].base \in Nat
      BY CaseTyped
    <2>2. head'.version \in Nat /\ status # "NONE"
      BY <1>10, <1>3 DEF OperationsHead, Decided
    <2>3. UNCHANGED snapshots
      BY <1>4 DEF Advanced
    <2>. HIDE DEF c, p
    <2>. QED
      BY <1>2, <1>3, <1>5, <1>10, <2>1, <2>2, <2>3 DEF BasesOK, TypeInv
  <1>. QED
    BY <1>12, <1>13, <1>14

LEMMA PlanTyped ==
    ASSUME TypeInv, NEW c \in Cases, Plan(c) \/ PlanningFails(c)
    PROVE  TablesOK' /\ HeadOK' /\ BasesOK'
  <1>1. TablesOK
    BY TypeParts DEF TypeInv
  <1>2. PICK status \in {"AWAITING_APPROVAL", "FAILED"}, revision \in Nat,
             plans \in SUBSET Plans :
          cases' = [cases EXCEPT ![c].status = status, ![c].revision = revision,
                                 ![c].plans = plans]
    <2>1. CASE Plan(c)
      BY <2>1 DEF Plan, PlannedRevision
    <2>2. CASE PlanningFails(c)
      <3>1. cases' = [cases EXCEPT ![c].status = "FAILED", ![c].revision = 3,
                                   ![c].plans = cases[c].plans]
        BY <1>1, <2>2 DEF PlanningFails, FailedRevision, TablesOK, Case
      <3>. QED
        BY <3>1, CaseTyped
    <2>. QED
      BY <2>1, <2>2
  <1>3. [cases[c] EXCEPT !.status = status, !.revision = revision,
                         !.plans = plans] \in Case
    BY CaseTyped DEF Case, Status
  <1>4. cases' = [cases EXCEPT ![c] = [cases[c] EXCEPT !.status = status,
                    !.revision = revision, !.plans = plans]]
    BY <1>1, <1>2 DEF TablesOK
  <1>5. /\ UNCHANGED <<head, snapshots, human, commits, published, events, born,
                       receipts>>
        /\ cases[c].status = "CREATED"
    BY DEF Plan, PlanningFails
  <1>6. cases' \in [Cases -> Case]
    BY <1>1, <1>3, <1>4 DEF TablesOK
  <1>7. TablesOK' /\ HeadOK'
    BY <1>1, <1>5, <1>6 DEF TablesOK, HeadOK, TypeInv
  <1>8. BasesOK'
    <2>1. /\ \A d \in Cases \ {c} : cases'[d] = cases[d]
          /\ cases'[c].status = status
          /\ cases'[c].snapshot = cases[c].snapshot /\ cases'[c].base = cases[c].base
      BY <1>1, <1>4 DEF TablesOK, Case
    <2>. QED
      BY <1>5, <2>1 DEF BasesOK, TypeInv
  <1>. QED
    BY <1>7, <1>8

LEMMA TypeInvStep == TypeInv /\ [Next]_vars => TypeInv'
  <1>. SUFFICES ASSUME TypeInv, [Next]_vars PROVE TypeInv'
    OBVIOUS
  <1>1. TablesOK' /\ HeadOK' /\ BasesOK'
    <2>1. ASSUME Quiet
          PROVE  TablesOK' /\ HeadOK' /\ BasesOK'
      BY <2>1, TypeParts DEF Quiet, tables, TypeInv, TablesOK, HeadOK, BasesOK
    <2>. QED
      BY <2>1, StepKinds, IngestTyped, CreateTyped, DecideTyped, PlanTyped
      DEF StepKind
  <1>2. (TablesOK /\ requests \in SUBSET Request /\ grant \in [Actors -> BOOLEAN])'
          => TypeOK'
    BY DEF TypeOK, TablesOK
  <1>. QED
    BY <1>1, <1>2, RequestsStep DEF TypeInv

LEMMA TypeInit == Init => TypeInv
  <1>. SUFFICES ASSUME Init PROVE TypeInv
    OBVIOUS
  <1>1. NoHead \in OperationsHead /\ NoRow \in Case /\ Undecided \in Human
        /\ Unpublished \in Publication
    BY DEF NoHead, OperationsHead, NoRow, Case, Status, Modes, Undecided, Human,
           Unpublished, Publication
  <1>2. TypeOK
    BY <1>1 DEF Init, TypeOK
  <1>3. RequestsOK /\ HeadOK /\ BasesOK
    BY DEF Init, RequestsOK, HeadOK, NoHead, BasesOK, NoRow
  <1>. QED
    BY <1>2, <1>3 DEF TypeInv

(* The variables of the model keep their types.                              *)
THEOREM CommandsTypeCorrect == Spec => []TypeOK
  <1>1. TypeInv => TypeOK
    BY DEF TypeInv
  <1>. QED
    BY <1>1, TypeInit, TypeInvStep, PTL DEF Spec

-----------------------------------------------------------------------------
(* What a person decided, what was published for it, and the head it was    *)
(* decided on.                                                               *)

DecisionOK(c) ==
    LET r == cases[c] IN
    /\ r.plans = {} <=> r.status \in {"NONE", "CREATED", "FAILED"}
    /\ r.status = "CREATED" => r.revision = 1
    /\ r.status \notin Decided => human[c] = Undecided
    /\ r.status \in {"APPROVED", "COMMITTED"} =>
         /\ human[c].decision = "APPROVE"
         /\ human[c].plan \in r.plans \cap ValidPlans
    /\ r.status = "REJECTED" => human[c].decision = "REJECT"
    /\ r.status # "COMMITTED" => commits[c] = Unpublished
    /\ r.status = "COMMITTED" =>
         /\ r.mode = "LIVE"
         /\ commits[c].plan = human[c].plan /\ commits[c].snapshot = r.snapshot
         /\ commits[c].version \in 1..head.version
         /\ published[ScheduleOf[human[c].plan]] = human[c].plan

DecisionsOK == \A c \in Cases : DecisionOK(c)

\* A case that is not stale has the head it was created on.
FreshOK == \A c \in Cases :
              cases[c].status # "NONE" /\ ~Stale(c) => head.revision = born[c]

\* Every plan version was published for exactly one case.
LogOK ==
    /\ \A v \in 1..head.version : \E c \in Cases : commits[c].version = v
    /\ \A c, d \in Cases :
          commits[c].version = commits[d].version /\ commits[c].version # 0 => c = d

BasisInv == TypeInv /\ DecisionsOK /\ FreshOK /\ LogOK

(* What the tables hold after a step, row by row.                            *)
LEMMA IngestEffect ==
    ASSUME TypeInv, NEW s \in Snapshots, NEW content \in Contents, NEW expected,
           Ingest(s, content, expected)
    PROVE  /\ head'.snapshot = s /\ head'.version = head.version
           /\ snapshots[s] = None
           /\ UNCHANGED <<cases, human, commits, published, events, born, receipts>>
  BY HeadTyped DEF Ingest, OperationsHead

LEMMA CreateEffect ==
    ASSUME TypeInv, NEW r \in requests, NEW c \in Cases, Creates(r, c)
    PROVE  /\ cases[c] = NoRow
           /\ \A d \in Cases \ {c} : cases'[d] = cases[d] /\ born'[d] = born[d]
           /\ cases'[c].status = "CREATED" /\ cases'[c].plans = {}
           /\ cases'[c].revision = 1 /\ cases'[c].snapshot = head.snapshot
           /\ cases'[c].base = head.version /\ born'[c] = head.revision
           /\ UNCHANGED <<head, snapshots, human, commits, published, events>>
  BY DEF TypeInv, TypeOK, BasesOK, Creates

LEMMA PlanEffect ==
    ASSUME TypeInv, NEW c \in Cases, Plan(c) \/ PlanningFails(c)
    PROVE  /\ cases[c].status = "CREATED"
           /\ \A d \in Cases \ {c} : cases'[d] = cases[d]
           /\ \/ /\ cases'[c].status = "AWAITING_APPROVAL"
                 /\ cases'[c].plans # {} /\ cases'[c].revision = 6
              \/ /\ cases'[c].status = "FAILED"
                 /\ cases'[c].plans = cases[c].plans /\ cases'[c].revision = 3
           /\ cases'[c].snapshot = cases[c].snapshot
           /\ cases'[c].base = cases[c].base /\ cases'[c].mode = cases[c].mode
           /\ UNCHANGED <<head, snapshots, human, commits, published, events, born,
                          receipts>>
  <1>0. cases \in [Cases -> Case] /\ cases[c] \in Case
    BY DEF TypeInv, TypeOK
  <1>1. CASE Plan(c)
    <2>1. PICK plans \in (SUBSET Plans) \ {{}} :
            cases' = [cases EXCEPT ![c].status = "AWAITING_APPROVAL",
                                   ![c].revision = 6, ![c].plans = plans]
      BY <1>1 DEF Plan, PlannedRevision
    <2>2. /\ cases[c].status = "CREATED"
          /\ UNCHANGED <<head, snapshots, human, commits, published, events, born,
                         receipts>>
      BY <1>1 DEF Plan
    <2>. QED
      BY <1>0, <2>1, <2>2 DEF Case
  <1>2. CASE PlanningFails(c)
    <2>1. /\ cases' = [cases EXCEPT ![c].status = "FAILED", ![c].revision = 3]
          /\ cases[c].status = "CREATED"
          /\ UNCHANGED <<head, snapshots, human, commits, published, events, born,
                         receipts>>
      BY <1>2 DEF PlanningFails, FailedRevision
    <2>. QED
      BY <1>0, <2>1 DEF Case
  <1>. QED
    BY <1>1, <1>2

LEMMA DecideEffect ==
    ASSUME TypeInv, NEW r \in requests,
           NEW status \in {"APPROVED", "REJECTED", "COMMITTED"},
           Decides(r, status)
    PROVE  LET c == r.body.case IN
           /\ \A d \in Cases \ {c} : /\ cases'[d] = cases[d]
                                     /\ human'[d] = human[d]
                                     /\ commits'[d] = commits[d]
                                     /\ events'[d] = events[d]
           /\ cases'[c].status = status
           /\ cases'[c].revision = cases[c].revision + 1
           /\ cases'[c].mode = cases[c].mode /\ cases'[c].plans = cases[c].plans
           /\ cases'[c].snapshot = cases[c].snapshot
           /\ cases'[c].base = cases[c].base
           /\ status = "APPROVED" =>
                human'[c] = [decision |-> "APPROVE", plan |-> r.body.plan]
           /\ status = "REJECTED" => human'[c] = [decision |-> "REJECT", plan |-> None]
           /\ status = "COMMITTED" =>
                /\ human' = human
                /\ commits'[c] = [version |-> head.version + 1, plan |-> r.body.plan,
                                  snapshot |-> cases[c].snapshot]
                /\ published' = [published EXCEPT
                                   ![ScheduleOf[r.body.plan]] = r.body.plan]
                /\ head'.version = head.version + 1
                /\ head'.revision = head.revision + 1
                /\ head'.snapshot = head.snapshot
                /\ head'.schedule = ScheduleOf[r.body.plan]
           /\ status # "COMMITTED" => UNCHANGED <<head, commits, published>>
           /\ UNCHANGED <<snapshots, born>>
  <1>. DEFINE c == r.body.case
  <1>1. c \in Cases
    BY CommandFenced DEF Decides
  <1>2. PICK version : Advanced(r, status, version)
    BY DEF Decides
  <1>3. /\ cases' = [cases EXCEPT ![c].status = status,
                                  ![c].revision = cases[c].revision + 1]
        /\ UNCHANGED <<snapshots, born>>
        /\ \A d \in Cases \ {c} : events'[d] = events[d]
    BY <1>1, <1>2 DEF Advanced, TypeInv, TypeOK
  <1>4. /\ \A d \in Cases \ {c} : cases'[d] = cases[d]
        /\ cases'[c].status = status
        /\ cases'[c].revision = cases[c].revision + 1
        /\ cases'[c].mode = cases[c].mode /\ cases'[c].plans = cases[c].plans
        /\ cases'[c].snapshot = cases[c].snapshot
        /\ cases'[c].base = cases[c].base
    BY <1>1, <1>3, CaseTyped DEF TypeInv, TypeOK, Case
  <1>5. CASE status = "APPROVED"
    <2>1. /\ human' = [human EXCEPT ![c] =
                         [decision |-> "APPROVE", plan |-> r.body.plan]]
          /\ UNCHANGED <<head, commits, published>>
      BY <1>5 DEF Decides
    <2>. QED
      BY <1>1, <1>3, <1>4, <1>5, <2>1 DEF TypeInv, TypeOK
  <1>6. CASE status = "REJECTED"
    <2>1. /\ human' = [human EXCEPT ![c] = [decision |-> "REJECT", plan |-> None]]
          /\ UNCHANGED <<head, commits, published>>
      BY <1>6 DEF Decides
    <2>. QED
      BY <1>1, <1>3, <1>4, <1>6, <2>1 DEF TypeInv, TypeOK
  <1>7. CASE status = "COMMITTED"
    <2>1. /\ published' = [published EXCEPT
                             ![ScheduleOf[r.body.plan]] = r.body.plan]
          /\ commits' = [commits EXCEPT ![c] =
               [version |-> head.version + 1, plan |-> r.body.plan,
                snapshot |-> cases[c].snapshot]]
          /\ head' = [head EXCEPT !.schedule = ScheduleOf[r.body.plan],
                                  !.version = @ + 1, !.revision = @ + 1]
          /\ UNCHANGED human
      BY <1>7 DEF Decides
    <2>2. /\ head'.version = head.version + 1
          /\ head'.revision = head.revision + 1
          /\ head'.snapshot = head.snapshot
          /\ head'.schedule = ScheduleOf[r.body.plan]
      BY <2>1, HeadTyped DEF OperationsHead
    <2>. QED
      BY <1>1, <1>3, <1>4, <1>7, <2>1, <2>2 DEF TypeInv, TypeOK
  <1>. QED
    BY <1>5, <1>6, <1>7

(* The command and the guard of a decision.                                  *)
LEMMA DecideGuard ==
    ASSUME TypeInv, NEW r \in requests,
           NEW status \in {"APPROVED", "REJECTED", "COMMITTED"},
           Decides(r, status)
    PROVE  LET c == r.body.case
               p == r.body.plan
           IN
           /\ c \in Cases /\ r.body.command \in Commands
           /\ receipts[r.actor][r.key] = None
           /\ cases[c].status =
                IF status = "COMMITTED" THEN "APPROVED" ELSE "AWAITING_APPROVAL"
           /\ head.snapshot = cases[c].snapshot /\ head.version = cases[c].base
           /\ ~Stale(c)
           /\ status # "REJECTED" => p \in cases[c].plans \cap ValidPlans
           /\ status = "COMMITTED" =>
                /\ cases[c].mode = "LIVE"
                /\ human[c] = [decision |-> "APPROVE", plan |-> p]
                /\ published[ScheduleOf[p]] = None
  <1>1. /\ status = "APPROVED" => r.body.command = "APPROVE"
        /\ status = "REJECTED" => r.body.command = "REJECT"
        /\ status = "COMMITTED" => r.body.command = "COMMIT"
        /\ r.body.command \in Commands /\ Outcome(r) = "done"
    BY DEF Decides
  <1>. QED
    BY <1>1, CommandFenced DEF StateFence, SelectionFence, IdentityFence

LEMMA DecisionsStep == BasisInv /\ [Next]_vars => DecisionsOK'
  <1>. SUFFICES ASSUME BasisInv, [Next]_vars PROVE DecisionsOK'
    OBVIOUS
  <1>0. TypeInv /\ DecisionsOK /\ TypeInv'
    BY TypeInvStep DEF BasisInv
  <1>1. CASE Quiet
    BY <1>0, <1>1 DEF Quiet, tables, DecisionsOK, DecisionOK
  <1>2. ASSUME NEW s \in Snapshots, NEW content \in Contents, NEW expected,
               Ingest(s, content, expected)
        PROVE  DecisionsOK'
    BY <1>0, <1>2, IngestEffect DEF DecisionsOK, DecisionOK
  <1>3. ASSUME NEW r \in requests, NEW c \in Cases, Creates(r, c)
        PROVE  DecisionsOK'
    <2>1. DecisionOK(c)'
      BY <1>0, <1>3, CreateEffect DEF DecisionsOK, DecisionOK, NoRow, Decided
    <2>2. \A d \in Cases \ {c} : DecisionOK(d)'
      BY <1>0, <1>3, CreateEffect DEF DecisionsOK, DecisionOK
    <2>. QED
      BY <2>1, <2>2 DEF DecisionsOK
  <1>4. ASSUME NEW c \in Cases, Plan(c) \/ PlanningFails(c)
        PROVE  DecisionsOK'
    <2>1. DecisionOK(c)'
      BY <1>0, <1>4, PlanEffect DEF DecisionsOK, DecisionOK, Decided
    <2>2. \A d \in Cases \ {c} : DecisionOK(d)'
      BY <1>0, <1>4, PlanEffect DEF DecisionsOK, DecisionOK
    <2>. QED
      BY <2>1, <2>2 DEF DecisionsOK
  <1>5. ASSUME NEW r \in requests,
               NEW status \in {"APPROVED", "REJECTED", "COMMITTED"},
               Decides(r, status)
        PROVE  DecisionsOK'
    <2>. DEFINE c == r.body.case
                p == r.body.plan
    <2>1. DecisionOK(c)'
      <3>1. /\ c \in Cases /\ DecisionOK(c) /\ head.version \in Nat
            /\ status # "REJECTED" => p \in Plans /\ ScheduleOf[p] \in Schedules
        BY <1>0, <1>5, DecideGuard, HeadTyped, ConstantsAssumption DEF DecisionsOK
      <3>2. CASE status \in {"APPROVED", "REJECTED"}
        <4>1. /\ cases'[c].status = status /\ cases'[c].plans = cases[c].plans
              /\ UNCHANGED commits
              /\ status = "APPROVED" =>
                   human'[c] = [decision |-> "APPROVE", plan |-> p]
              /\ status = "REJECTED" =>
                   human'[c] = [decision |-> "REJECT", plan |-> None]
          BY <1>0, <1>5, <3>2, DecideEffect
        <4>2. /\ cases[c].status = "AWAITING_APPROVAL"
              /\ status = "APPROVED" => p \in cases[c].plans \cap ValidPlans
          BY <1>0, <1>5, <3>2, DecideGuard
        <4>. HIDE DEF c, p
        <4>. QED
          BY <3>1, <3>2, <4>1, <4>2 DEF DecisionOK, Decided
      <3>3. CASE status = "COMMITTED"
        <4>1. /\ published' = [published EXCEPT ![ScheduleOf[p]] = p]
              /\ human' = human
              /\ commits'[c] = [version |-> head.version + 1, plan |-> p,
                                snapshot |-> cases[c].snapshot]
              /\ head'.version = head.version + 1
              /\ cases'[c].status = "COMMITTED"
              /\ cases'[c].mode = cases[c].mode /\ cases'[c].plans = cases[c].plans
              /\ cases'[c].snapshot = cases[c].snapshot
          BY <1>0, <1>5, <3>3, DecideEffect
        <4>2. /\ human[c] = [decision |-> "APPROVE", plan |-> p]
              /\ p \in cases[c].plans \cap ValidPlans
              /\ cases[c].mode = "LIVE"
          BY <1>0, <1>5, <3>3, DecideGuard
        <4>3. published'[ScheduleOf[p]] = p
          BY <1>0, <3>1, <3>3, <4>1 DEF TypeInv, TypeOK
        <4>. HIDE DEF c, p
        <4>. QED
          BY <3>1, <4>1, <4>2, <4>3 DEF DecisionOK, Decided
      <3>. QED
        BY <3>2, <3>3
    <2>2. ASSUME NEW d \in Cases \ {c}
          PROVE  DecisionOK(d)'
      <3>1. /\ cases'[d] = cases[d] /\ human'[d] = human[d] /\ commits'[d] = commits[d]
            /\ DecisionOK(d)
        BY <1>0, <1>5, DecideEffect DEF DecisionsOK
      <3>2. head.version \in Nat /\ head'.version >= head.version /\ head'.version \in Nat
        <4>1. head'.version \in {head.version, head.version + 1}
          BY <1>0, <1>5, DecideEffect
        <4>. QED
          BY <1>0, <4>1, HeadTyped
      <3>3. ASSUME NEW t \in Schedules, published[t] # None
            PROVE  published'[t] = published[t]
        <4>1. CASE status = "COMMITTED"
          <5>1. published' = [published EXCEPT ![ScheduleOf[p]] = p]
            BY <1>0, <1>5, <4>1, DecideEffect
          <5>2. published[ScheduleOf[p]] = None
            BY <1>0, <1>5, <4>1, DecideGuard
          <5>. QED
            BY <1>0, <3>3, <5>1, <5>2 DEF TypeInv, TypeOK
        <4>2. CASE status # "COMMITTED"
          BY <1>0, <1>5, <4>2, DecideEffect
        <4>. QED
          BY <4>1, <4>2
      <3>4. cases[d].status = "COMMITTED" =>
              /\ ScheduleOf[human[d].plan] \in Schedules
              /\ human[d].plan # None
        BY <3>1, ConstantsAssumption DEF DecisionOK
      <3>5. cases[d].status = "COMMITTED" => commits[d].version \in 1..head'.version
        BY <3>1, <3>2 DEF DecisionOK
      <3>. HIDE DEF c
      <3>. QED
        BY <3>1, <3>3, <3>4, <3>5 DEF DecisionOK
    <2>. QED
      BY <2>1, <2>2 DEF DecisionsOK
  <1>. QED
    BY <1>1, <1>2, <1>3, <1>4, <1>5, StepKinds DEF StepKind

LEMMA FreshStep == BasisInv /\ [Next]_vars => FreshOK'
  <1>. SUFFICES ASSUME BasisInv, [Next]_vars PROVE FreshOK'
    OBVIOUS
  <1>0. TypeInv /\ FreshOK
    BY DEF BasisInv
  <1>1. CASE Quiet
    BY <1>0, <1>1 DEF Quiet, tables, FreshOK, Stale
  <1>2. ASSUME NEW s \in Snapshots, NEW content \in Contents, NEW expected,
               Ingest(s, content, expected)
        PROVE  FreshOK'
    <2>1. \A c \in Cases : cases[c].status # "NONE" => cases[c].snapshot # s
      BY <1>0, <1>2, IngestEffect DEF TypeInv, BasesOK
    <2>. QED
      BY <1>0, <1>2, <2>1, IngestEffect DEF FreshOK, Stale
  <1>3. ASSUME NEW r \in requests, NEW c \in Cases, Creates(r, c)
        PROVE  FreshOK'
    BY <1>0, <1>3, CreateEffect DEF FreshOK, Stale
  <1>4. ASSUME NEW c \in Cases, Plan(c) \/ PlanningFails(c)
        PROVE  FreshOK'
    BY <1>0, <1>4, PlanEffect DEF FreshOK, Stale
  <1>5. ASSUME NEW r \in requests,
               NEW status \in {"APPROVED", "REJECTED", "COMMITTED"},
               Decides(r, status)
        PROVE  FreshOK'
    <2>0. /\ \A d \in Cases : /\ cases'[d].snapshot = cases[d].snapshot
                              /\ cases'[d].base = cases[d].base
                              /\ cases'[d].status # "NONE" => cases[d].status # "NONE"
          /\ UNCHANGED born
          /\ r.body.case \in Cases /\ cases[r.body.case].status # "NONE"
      <3>1. /\ r.body.case \in Cases
            /\ cases[r.body.case].status \in {"APPROVED", "AWAITING_APPROVAL"}
        BY <1>0, <1>5, DecideGuard
      <3>2. /\ \A d \in Cases \ {r.body.case} : cases'[d] = cases[d]
            /\ cases'[r.body.case].snapshot = cases[r.body.case].snapshot
            /\ cases'[r.body.case].base = cases[r.body.case].base
            /\ UNCHANGED born
        BY <1>0, <1>5, DecideEffect
      <3>. QED
        BY <3>1, <3>2
    <2>1. CASE status # "COMMITTED"
      <3>1. UNCHANGED head
        BY <1>0, <1>5, <2>1, DecideEffect
      <3>. QED
        BY <1>0, <2>0, <3>1 DEF FreshOK, Stale
    <2>2. CASE status = "COMMITTED"
      <3>1. head'.version = head.version + 1 /\ head.version \in Nat
        BY <1>0, <1>5, <2>2, DecideEffect, HeadTyped
      <3>2. \A d \in Cases : cases'[d].status # "NONE" =>
              cases[d].base \in Nat /\ cases[d].base <= head.version
        BY <1>0, <2>0, CaseTyped DEF TypeInv, BasesOK
      <3>3. \A d \in Cases : cases'[d].status # "NONE" => head'.version # cases'[d].base
        BY <2>0, <3>1, <3>2
      <3>. QED
        BY <3>3 DEF FreshOK, Stale
    <2>. QED
      BY <2>1, <2>2
  <1>. QED
    BY <1>1, <1>2, <1>3, <1>4, <1>5, StepKinds DEF StepKind

LEMMA LogStep == BasisInv /\ [Next]_vars => LogOK'
  <1>. SUFFICES ASSUME BasisInv, [Next]_vars PROVE LogOK'
    OBVIOUS
  <1>0. TypeInv /\ DecisionsOK /\ LogOK
    BY DEF BasisInv
  <1>1. CASE UNCHANGED commits /\ head'.version = head.version
    BY <1>0, <1>1 DEF LogOK
  <1>2. CASE Quiet
    BY <1>1, <1>2 DEF Quiet, tables
  <1>3. ASSUME NEW s \in Snapshots, NEW content \in Contents, NEW expected,
               Ingest(s, content, expected)
        PROVE  LogOK'
    BY <1>0, <1>1, <1>3, IngestEffect
  <1>4. ASSUME NEW r \in requests, NEW c \in Cases, Creates(r, c)
        PROVE  LogOK'
    BY <1>0, <1>1, <1>4, CreateEffect
  <1>5. ASSUME NEW c \in Cases, Plan(c) \/ PlanningFails(c)
        PROVE  LogOK'
    BY <1>0, <1>1, <1>5, PlanEffect
  <1>6. ASSUME NEW r \in requests,
               NEW status \in {"APPROVED", "REJECTED", "COMMITTED"},
               Decides(r, status)
        PROVE  LogOK'
    <2>1. CASE status # "COMMITTED"
      BY <1>0, <1>1, <1>6, <2>1, DecideEffect
    <2>2. CASE status = "COMMITTED"
      <3>. DEFINE c == r.body.case
      <3>1. /\ c \in Cases /\ head.version \in Nat
            /\ commits[c] = Unpublished
        <4>1. c \in Cases /\ cases[c].status = "APPROVED" /\ head.version \in Nat
          BY <1>0, <1>6, <2>2, DecideGuard, HeadTyped
        <4>. QED
          BY <1>0, <4>1 DEF DecisionsOK, DecisionOK
      <3>2. /\ head'.version = head.version + 1
            /\ commits'[c].version = head.version + 1
            /\ \A d \in Cases \ {c} : commits'[d] = commits[d]
        <4>1. commits'[c] = [version |-> head.version + 1, plan |-> r.body.plan,
                             snapshot |-> cases[c].snapshot]
          BY <1>0, <1>6, <2>2, DecideEffect
        <4>2. /\ head'.version = head.version + 1
              /\ \A d \in Cases \ {c} : commits'[d] = commits[d]
          BY <1>0, <1>6, <2>2, DecideEffect
        <4>. QED
          BY <4>1, <4>2
      <3>3. \A d \in Cases : commits[d].version \in 0..head.version
        BY <1>0, <3>1 DEF DecisionsOK, DecisionOK, Unpublished
      <3>4. commits[c].version = 0
        BY <3>1 DEF Unpublished
      <3>. HIDE DEF c
      <3>5. ASSUME NEW v \in 1..head'.version
            PROVE  \E d \in Cases : commits'[d].version = v
        <4>1. CASE v = head.version + 1
          BY <3>1, <3>2, <4>1
        <4>2. CASE v \in 1..head.version
          <5>1. PICK d \in Cases : commits[d].version = v
            BY <1>0, <4>2 DEF LogOK
          <5>2. d # c
            BY <3>4, <4>2, <5>1
          <5>. QED
            BY <3>2, <5>1, <5>2
        <4>. QED
          BY <3>1, <3>2, <4>1, <4>2
      <3>6. ASSUME NEW d \in Cases, NEW e \in Cases,
                   commits'[d].version = commits'[e].version, commits'[d].version # 0
            PROVE  d = e
        BY <1>0, <3>1, <3>2, <3>3, <3>6 DEF LogOK
      <3>. QED
        BY <3>5, <3>6 DEF LogOK
    <2>. QED
      BY <2>1, <2>2
  <1>. QED
    BY <1>2, <1>3, <1>4, <1>5, <1>6, StepKinds DEF StepKind

LEMMA BasisInit == Init => BasisInv
  <1>. SUFFICES ASSUME Init PROVE BasisInv
    OBVIOUS
  <1>1. DecisionsOK
    BY DEF Init, DecisionsOK, DecisionOK, NoRow, Decided
  <1>2. FreshOK
    BY DEF Init, FreshOK, NoRow
  <1>3. LogOK
    BY DEF Init, LogOK, Unpublished, NoHead
  <1>. QED
    BY <1>1, <1>2, <1>3, TypeInit DEF BasisInv

(* BasisInv is an invariant of the specification.                            *)
THEOREM BasisHolds == Spec => []BasisInv
  <1>1. BasisInv /\ [Next]_vars => BasisInv'
    BY TypeInvStep, DecisionsStep, FreshStep, LogStep DEF BasisInv
  <1>. QED
    BY <1>1, BasisInit, PTL DEF Spec

-----------------------------------------------------------------------------
(* The properties that follow from the basis.                                *)

(* What was published for a case is the plan a person approved for it, on    *)
(* the snapshot of the case, and nothing overwrites it.                      *)
THEOREM PublicationsAreApproved == Spec => []PublishedAsApproved
  <1>1. BasisInv => PublishedAsApproved
    <2>. SUFFICES ASSUME BasisInv, NEW c \in Cases
                  PROVE  /\ commits[c] # Unpublished <=> cases[c].status = "COMMITTED"
                         /\ commits[c] # Unpublished =>
                              /\ human[c] = [decision |-> "APPROVE",
                                             plan |-> commits[c].plan]
                              /\ commits[c].snapshot = cases[c].snapshot
                              /\ cases[c].mode = "LIVE"
                              /\ published[ScheduleOf[commits[c].plan]] = commits[c].plan
      BY DEF PublishedAsApproved
    <2>1. DecisionOK(c) /\ human[c] \in Human
      BY CaseTyped DEF BasisInv, DecisionsOK
    <2>2. human[c] = [decision |-> human[c].decision, plan |-> human[c].plan]
      BY <2>1 DEF Human
    <2>3. cases[c].status = "COMMITTED" => commits[c].version # Unpublished.version
      BY <2>1, HeadTyped DEF DecisionOK, Unpublished, BasisInv
    <2>. QED
      BY <2>1, <2>2, <2>3 DEF DecisionOK, Decided
  <1>. QED
    BY <1>1, BasisHolds, PTL

\* The statuses of a case that has a recommendation.
LEMMA PlannedStatus ==
    ASSUME BasisInv, NEW c \in Cases, cases[c].plans # {}
    PROVE  /\ cases[c].status \in {"AWAITING_APPROVAL", "APPROVED", "REJECTED",
                                   "COMMITTED"}
           /\ cases[c].status = "APPROVED" =>
                \E p \in cases[c].plans \cap ValidPlans :
                    human[c] = [decision |-> "APPROVE", plan |-> p]
  <1>1. TypeInv /\ DecisionOK(c)
    BY DEF BasisInv, DecisionsOK
  <1>2. cases[c].status \in Status /\ human[c] \in Human
    BY <1>1, CaseTyped
  <1>3. human[c] = [decision |-> human[c].decision, plan |-> human[c].plan]
    BY <1>2 DEF Human
  <1>4. cases[c].status = "APPROVED" =>
          human[c].decision = "APPROVE" /\ human[c].plan \in cases[c].plans \cap ValidPlans
    BY <1>1 DEF DecisionOK
  <1>5. cases[c].status \notin {"NONE", "CREATED", "FAILED"}
    BY <1>1 DEF DecisionOK
  <1>. QED
    BY <1>2, <1>3, <1>4, <1>5 DEF Status, Decided

\* Fences of the tokens just read, in the words of the case.
LEMMA TokensFenced ==
    ASSUME NEW c \in Cases, NEW command \in Commands, NEW p \in Plans
    PROVE  LET b == Tokens(c, command, p) IN
           /\ StateFence(b) <=>
                /\ command = "COMMIT" => cases[c].mode = "LIVE"
                /\ cases[c].status =
                     IF command = "COMMIT" THEN "APPROVED" ELSE "AWAITING_APPROVAL"
           /\ BasisFence(b) <=> ~Stale(c)
           /\ SelectionFence(b) <=>
                /\ command # "REJECT" => p \in cases[c].plans \cap ValidPlans
                /\ command = "COMMIT" =>
                     human[c] = [decision |-> "APPROVE", plan |-> p]
  <1>. DEFINE b == Tokens(c, command, p)
  <1>1. /\ b.command = command /\ b.case = c /\ b.mode = cases[c].mode
        /\ b.revision = cases[c].revision /\ b.snapshot = cases[c].snapshot
        /\ b.version = cases[c].base /\ (command # "REJECT" => b.plan = p)
    BY DEF Tokens
  <1>. HIDE DEF b
  <1>. QED
    <2>1. StateFence(b) <=>
            /\ command = "COMMIT" => cases[c].mode = "LIVE"
            /\ cases[c].status =
                 IF command = "COMMIT" THEN "APPROVED" ELSE "AWAITING_APPROVAL"
      BY <1>1 DEF StateFence
    <2>2. BasisFence(b) <=> ~Stale(c)
      BY <1>1 DEF BasisFence, Stale
    <2>3. SelectionFence(b) <=>
            /\ command # "REJECT" => p \in cases[c].plans \cap ValidPlans
            /\ command = "COMMIT" =>
                 human[c] = [decision |-> "APPROVE", plan |-> p]
      BY <1>1 DEF SelectionFence, Commands
    <2>. QED
      BY <2>1, <2>2, <2>3 DEF b

(* A case not reported stale has the head it was created on, and a command   *)
(* is offered exactly when it would pass the fences if sent at once.         *)
THEOREM ReadsAreActionable == Spec => []ReadsCanBeActedOn
  <1>1. BasisInv => ReadsCanBeActedOn
    <2>. SUFFICES ASSUME BasisInv, NEW c \in Cases, NEW a \in Actors,
                         cases[c].plans # {}, grant[a], NEW command \in Commands
                  PROVE  command \in Offered(c, a) <=>
                           \E p \in Plans :
                              LET b == Tokens(c, command, p) IN
                              StateFence(b) /\ BasisFence(b) /\ SelectionFence(b)
      BY DEF ReadsCanBeActedOn, BasisInv, FreshOK
    <2>. DEFINE Passes(p) ==
                  LET b == Tokens(c, command, p) IN
                  StateFence(b) /\ BasisFence(b) /\ SelectionFence(b)
    <2>1. CASE Stale(c)
      <3>1. \A p \in Plans : ~Passes(p)
        BY <2>1, TokensFenced
      <3>. QED
        BY <2>1, <3>1 DEF Offered
    <2>2. CASE ~Stale(c) /\ cases[c].status = "AWAITING_APPROVAL"
      <3>1. Offered(c, a) = {"REJECT"} \cup IF cases[c].plans \cap ValidPlans = {}
                                            THEN {} ELSE {"APPROVE"}
        BY <2>2 DEF Offered
      <3>2. ASSUME NEW p \in Plans
            PROVE  Passes(p) <=>
                     \/ command = "REJECT"
                     \/ command = "APPROVE" /\ p \in cases[c].plans \cap ValidPlans
        <4>. DEFINE b == Tokens(c, command, p)
        <4>1. /\ StateFence(b) <=> command # "COMMIT"
              /\ BasisFence(b)
              /\ SelectionFence(b) <=>
                   /\ command # "REJECT" => p \in cases[c].plans \cap ValidPlans
                   /\ command = "COMMIT" =>
                        human[c] = [decision |-> "APPROVE", plan |-> p]
          BY <2>2, TokensFenced
        <4>. QED
          BY <4>1 DEF Commands
      <3>3. cases[c].plans # {} /\ cases[c].plans \subseteq Plans
        BY CaseTyped DEF BasisInv
      <3>. HIDE DEF Passes
      <3>4. CASE command = "REJECT"
        <4>1. \E p \in Plans : Passes(p)
          BY <3>2, <3>3, <3>4
        <4>. QED
          BY <3>1, <3>4, <4>1 DEF Passes
      <3>5. CASE command = "APPROVE"
        <4>1. command \in Offered(c, a) <=> cases[c].plans \cap ValidPlans # {}
          <5>1. CASE cases[c].plans \cap ValidPlans = {}
            BY <3>1, <3>5, <5>1
          <5>2. CASE cases[c].plans \cap ValidPlans # {}
            BY <3>1, <3>5, <5>2
          <5>. QED
            BY <5>1, <5>2
        <4>2. \A p \in Plans : Passes(p) <=> p \in cases[c].plans \cap ValidPlans
          BY <3>2, <3>5
        <4>. QED
          BY <3>3, <4>1, <4>2 DEF Passes
      <3>6. CASE command = "COMMIT"
        <4>1. command \notin Offered(c, a) /\ \A p \in Plans : ~Passes(p)
          BY <3>1, <3>2, <3>6
        <4>. QED
          BY <4>1 DEF Passes
      <3>. QED
        BY <3>4, <3>5, <3>6 DEF Commands
    <2>3. CASE ~Stale(c) /\ cases[c].status = "APPROVED"
      <3>1. Offered(c, a) = IF cases[c].mode = "LIVE" THEN {"COMMIT"} ELSE {}
        BY <2>3 DEF Offered
      <3>2. \A p \in Plans : Passes(p) <=>
              /\ command = "COMMIT" /\ cases[c].mode = "LIVE"
              /\ p \in cases[c].plans \cap ValidPlans
              /\ human[c] = [decision |-> "APPROVE", plan |-> p]
        BY <2>3, TokensFenced DEF Commands
      <3>3. cases[c].plans \subseteq Plans
        BY CaseTyped DEF BasisInv
      <3>4. \E p \in cases[c].plans \cap ValidPlans :
                human[c] = [decision |-> "APPROVE", plan |-> p]
        BY <2>3, PlannedStatus
      <3>. HIDE DEF Passes
      <3>5. command \in Offered(c, a) <=> \E p \in Plans : Passes(p)
        BY <3>1, <3>2, <3>3, <3>4
      <3>. QED
        BY <3>5 DEF Passes
    <2>4. CASE ~Stale(c) /\ cases[c].status \in {"REJECTED", "COMMITTED"}
      <3>1. Offered(c, a) = {}
        BY <2>4 DEF Offered
      <3>2. \A p \in Plans : ~Passes(p)
        BY <2>4, TokensFenced
      <3>. QED
        BY <3>1, <3>2
    <2>. QED
      BY <2>1, <2>2, <2>3, <2>4, PlannedStatus
  <1>. QED
    BY <1>1, BasisHolds, PTL

\* A case enters a decided status only by a command of a person.
LEMMA DecidedByCommand ==
    ASSUME BasisInv, [Next]_vars, NEW c \in Cases,
           cases'[c].status # cases[c].status, cases'[c].status \in Decided
    PROVE  \E r \in requests, status \in {"APPROVED", "REJECTED", "COMMITTED"} :
              Decides(r, status) /\ r.body.case = c
  <1>0. TypeInv
    BY DEF BasisInv
  <1>1. ~Quiet
    BY DEF Quiet, tables
  <1>2. ASSUME NEW s \in Snapshots, NEW content \in Contents, NEW expected \in Nat,
               Ingest(s, content, expected)
        PROVE  FALSE
    BY <1>2 DEF Ingest
  <1>3. ASSUME NEW r \in requests, NEW d \in Cases, Creates(r, d)
        PROVE  FALSE
    BY <1>0, <1>3, CreateEffect DEF Decided
  <1>4. ASSUME NEW d \in Cases, Plan(d) \/ PlanningFails(d)
        PROVE  FALSE
    BY <1>0, <1>4, PlanEffect DEF Decided
  <1>5. ASSUME NEW r \in requests,
               NEW status \in {"APPROVED", "REJECTED", "COMMITTED"},
               Decides(r, status)
        PROVE  r.body.case = c
    <2>1. \A d \in Cases \ {r.body.case} : cases'[d] = cases[d]
      BY <1>0, <1>5, DecideEffect
    <2>. QED
      BY <2>1
  <1>. QED
    BY <1>1, <1>2, <1>3, <1>4, <1>5, StepKinds DEF StepKind

(* Nothing was ingested or published between the creation of a case and its *)
(* approval, its rejection or its commit.                                    *)
THEOREM DecisionsOnTheirHead == Spec => DecidedOnUntouchedBasis
  <1>1. BasisInv /\ [Next]_vars =>
          \A c \in Cases :
            cases'[c].status # cases[c].status /\ cases'[c].status \in Decided
              => head.revision = born[c]
    <2>. SUFFICES ASSUME BasisInv, [Next]_vars, NEW c \in Cases,
                         cases'[c].status # cases[c].status, cases'[c].status \in Decided
                  PROVE  head.revision = born[c]
      OBVIOUS
    <2>1. PICK r \in requests, status \in {"APPROVED", "REJECTED", "COMMITTED"} :
             Decides(r, status) /\ r.body.case = c
      BY DecidedByCommand
    <2>2. ~Stale(c) /\ cases[c].status # "NONE"
      BY <2>1, DecideGuard DEF BasisInv
    <2>. QED
      BY <2>2 DEF BasisInv, FreshOK
  <1>. QED
    BY <1>1, BasisHolds, PTL DEF Spec, DecidedOnUntouchedBasis

\* Every other step leaves the tables of decisions and publications alone.
LEMMA OnlyCommandsDecide ==
    ASSUME BasisInv, [Next]_vars
    PROVE  \/ /\ UNCHANGED <<human, commits, published, events>>
              /\ head'.version = head.version
              /\ \A c \in Cases :
                    cases'[c].status # cases[c].status => cases'[c].status \notin Decided
           \/ \E r \in requests, status \in {"APPROVED", "REJECTED", "COMMITTED"} :
                 Decides(r, status)
  <1>. DEFINE Still == /\ UNCHANGED <<human, commits, published, events>>
                       /\ head'.version = head.version
              Same == \A c \in Cases :
                    cases'[c].status # cases[c].status => cases'[c].status \notin Decided
  <1>0. TypeInv
    BY DEF BasisInv
  <1>1. Quiet => Still /\ Same
    BY DEF Quiet, tables
  <1>2. ASSUME NEW s \in Snapshots, NEW content \in Contents, NEW expected \in Nat,
               Ingest(s, content, expected)
        PROVE  Still /\ Same
    <2>1. Still
      BY <1>0, <1>2, IngestEffect
    <2>. QED
      BY <1>0, <1>2, <2>1, IngestEffect
  <1>3. ASSUME NEW r \in requests, NEW d \in Cases, Creates(r, d)
        PROVE  Still /\ Same
    <2>1. Still
      BY <1>0, <1>3, CreateEffect
    <2>2. Same
      BY <1>0, <1>3, CreateEffect DEF Decided
    <2>. QED
      BY <2>1, <2>2
  <1>4. ASSUME NEW d \in Cases, Plan(d) \/ PlanningFails(d)
        PROVE  Still /\ Same
    <2>1. Still
      BY <1>0, <1>4, PlanEffect
    <2>2. Same
      BY <1>0, <1>4, PlanEffect DEF Decided
    <2>. QED
      BY <2>1, <2>2
  <1>5. (Still /\ Same) \/ \E r \in requests,
                              status \in {"APPROVED", "REJECTED", "COMMITTED"} :
                                Decides(r, status)
    <2>. HIDE DEF Still, Same
    <2>. QED
      BY <1>1, <1>2, <1>3, <1>4, StepKinds DEF StepKind
  <1>. QED
    BY <1>5

\* The triggers on the rows of one case, at a command of that case.
LEMMA DecidePassesTriggers ==
    ASSUME BasisInv, NEW r \in requests,
           NEW status \in {"APPROVED", "REJECTED", "COMMITTED"},
           Decides(r, status)
    PROVE  LET c == r.body.case IN
           /\ human'[c] # human[c] => HumanInsertGuard(c)
           /\ commits'[c] # commits[c] => CommitInsertGuard(c)
           /\ StatusGuard(c)
           /\ \A s \in Schedules :
                published[s] # None => published'[s] = published[s]
  <1>. DEFINE c == r.body.case
              p == r.body.plan
  <1>0. TypeInv
    BY DEF BasisInv
  <1>1. /\ c \in Cases
        /\ cases[c].status =
             IF status = "COMMITTED" THEN "APPROVED" ELSE "AWAITING_APPROVAL"
        /\ head.snapshot = cases[c].snapshot /\ head.version = cases[c].base
        /\ status # "REJECTED" => p \in cases[c].plans \cap ValidPlans
        /\ status = "COMMITTED" =>
             /\ cases[c].mode = "LIVE"
             /\ human[c] = [decision |-> "APPROVE", plan |-> p]
             /\ published[ScheduleOf[p]] = None
    BY <1>0, DecideGuard
  <1>2. /\ cases'[c].status = status
        /\ cases'[c].revision = cases[c].revision + 1
    BY <1>0, DecideEffect
  <1>3. DecisionOK(c) /\ head.version \in Nat
    BY <1>0, <1>1, HeadTyped DEF BasisInv, DecisionsOK
  <1>4. status = "COMMITTED" => p \in Plans /\ ScheduleOf[p] \in Schedules
    BY <1>0, <1>1, CaseTyped, ConstantsAssumption
  <1>5. CASE status \in {"APPROVED", "REJECTED"}
    <2>1. /\ UNCHANGED <<commits, published>>
          /\ status = "APPROVED" => human'[c] = [decision |-> "APPROVE", plan |-> p]
          /\ status = "REJECTED" => human'[c] = [decision |-> "REJECT", plan |-> None]
      BY <1>0, <1>5, DecideEffect
    <2>2. human[c] = Undecided
      BY <1>1, <1>3, <1>5 DEF DecisionOK, Decided
    <2>. HIDE DEF c, p
    <2>3. HumanInsertGuard(c)
      BY <1>1, <1>5, <2>1, <2>2 DEF HumanInsertGuard
    <2>4. StatusGuard(c)
      BY <1>2, <1>5, <2>1 DEF StatusGuard
    <2>. QED
      BY <2>1, <2>3, <2>4 DEF c
  <1>6. CASE status = "COMMITTED"
    <2>1. /\ human' = human
          /\ commits'[c] = [version |-> head.version + 1, plan |-> p,
                            snapshot |-> cases[c].snapshot]
          /\ published' = [published EXCEPT ![ScheduleOf[p]] = p]
          /\ head'.version = head.version + 1 /\ head'.snapshot = head.snapshot
          /\ head'.schedule = ScheduleOf[p]
      BY <1>0, <1>6, DecideEffect
    <2>2. commits[c] = Unpublished
      BY <1>1, <1>3, <1>6 DEF DecisionOK
    <2>3. \A s \in Schedules :
             /\ published[s] # None => published'[s] = published[s]
             /\ s = ScheduleOf[p] => published'[s] = p
      BY <1>0, <1>1, <1>6, <2>1 DEF TypeInv, TypeOK
    <2>4. commits'[c].plan = p /\ commits'[c].version = head.version + 1
          /\ commits'[c].snapshot = cases[c].snapshot
      BY <2>1
    <2>5. human[c].decision = "APPROVE" /\ human[c].plan = p
      BY <1>1, <1>6
    <2>. HIDE DEF c, p
    <2>6. CommitInsertGuard(c)
      BY <1>1, <1>4, <1>6, <2>2, <2>3, <2>4, <2>5 DEF CommitInsertGuard
    <2>7. commits'[c] # Unpublished
      BY <1>3, <2>4 DEF Unpublished
    <2>8. StatusGuard(c)
      BY <1>1, <1>2, <1>6, <2>1, <2>4, <2>5, <2>7 DEF StatusGuard
    <2>. QED
      BY <2>1, <2>3, <2>6, <2>8 DEF c
  <1>. QED
    BY <1>5, <1>6

(* The triggers of the database, which guard direct writes, accept every     *)
(* transaction of the service, and no published schedule is overwritten.     *)
THEOREM TriggersAcceptCommands == Spec => CommandTriggersNeverFire
  <1>. DEFINE Accepted ==
         /\ \A c \in Cases :
              /\ human'[c] # human[c] => HumanInsertGuard(c)
              /\ commits'[c] # commits[c] => CommitInsertGuard(c)
              /\ cases'[c].status # cases[c].status /\ cases'[c].status \in Decided
                   => StatusGuard(c)
         /\ \A s \in Schedules :
              published[s] # None => published'[s] = published[s]
  <1>1. BasisInv /\ [Next]_vars => Accepted
    <2>. SUFFICES ASSUME BasisInv, [Next]_vars PROVE Accepted
      OBVIOUS
    <2>1. ASSUME NEW r \in requests,
                 NEW status \in {"APPROVED", "REJECTED", "COMMITTED"},
                 Decides(r, status)
          PROVE  Accepted
      <3>1. \A d \in Cases \ {r.body.case} :
               /\ cases'[d] = cases[d] /\ human'[d] = human[d]
               /\ commits'[d] = commits[d]
        BY <2>1, DecideEffect DEF BasisInv
      <3>2. /\ human'[r.body.case] # human[r.body.case] => HumanInsertGuard(r.body.case)
            /\ commits'[r.body.case] # commits[r.body.case] =>
                 CommitInsertGuard(r.body.case)
            /\ StatusGuard(r.body.case)
            /\ \A s \in Schedules :
                 published[s] # None => published'[s] = published[s]
        BY <2>1, DecidePassesTriggers
      <3>. QED
        BY <3>1, <3>2
    <2>2. ASSUME UNCHANGED <<human, commits, published>>,
                 \A c \in Cases :
                    cases'[c].status # cases[c].status => cases'[c].status \notin Decided
          PROVE  Accepted
      BY <2>2
    <2>. HIDE DEF Accepted
    <2>. QED
      BY <2>1, <2>2, OnlyCommandsDecide
  <1>. QED
    BY <1>1, BasisHolds, PTL DEF Spec, CommandTriggersNeverFire

-----------------------------------------------------------------------------
(* Receipts and effects.                                                     *)

ReceiptsIn(table, c) ==
    {ak \in Actors \X Keys : /\ table[ak[1]][ak[2]] # None
                             /\ table[ak[1]][ak[2]].case = c}

\* The receipt of a human event.
Answers(table, e, c, k) ==
    /\ <<e.actor, k>> \in ReceiptsIn(table, c)
    /\ table[e.actor][k].status = e.to
    /\ table[e.actor][k].revision = e.revision
    /\ table[e.actor][k].version = e.version

\* Events carry ever larger revisions, so that a command always adds one.
ReceiptsOK(c) ==
    /\ IsFiniteSet(ReceiptsIn(receipts, c)) /\ IsFiniteSet(events[c])
    /\ Cardinality(ReceiptsIn(receipts, c)) = Cardinality(events[c])
                                      + IF cases[c].status = "NONE" THEN 0 ELSE 1
    /\ \A e \in events[c] : e.revision <= cases[c].revision
    /\ \A e \in events[c] : \E k \in Keys : Answers(receipts, e, c, k)

EffectsInv == BasisInv /\ \A c \in Cases : ReceiptsOK(c)

LEMMA OneMore ==
    ASSUME NEW S, NEW x, IsFiniteSet(S), x \notin S
    PROVE  IsFiniteSet(S \cup {x}) /\ Cardinality(S \cup {x}) = Cardinality(S) + 1
  BY FS_AddElement

\* What a receipt under an unused key adds.
LEMMA ReceiptsGrow ==
    ASSUME NEW a \in Actors, NEW k \in Keys, NEW t \in Receipt, NEW c,
           receipts[a][k] = None,
           \A b \in Actors, m \in Keys :
              receipts'[b][m] = IF b = a /\ m = k THEN t ELSE receipts[b][m]
    PROVE  /\ <<a, k>> \notin ReceiptsIn(receipts, c)
           /\ t.case = c =>
                ReceiptsIn(receipts', c) = ReceiptsIn(receipts, c) \cup {<<a, k>>}
           /\ t.case # c => ReceiptsIn(receipts', c) = ReceiptsIn(receipts, c)
  <1>0. t # None
    BY NullAssumption
  <1>1. ASSUME NEW b \in Actors, NEW m \in Keys
        PROVE  <<b, m>> \in ReceiptsIn(receipts', c) <=>
                 \/ <<b, m>> = <<a, k>> /\ t.case = c
                 \/ <<b, m>> \in ReceiptsIn(receipts, c)
    BY <1>0 DEF ReceiptsIn
  <1>2. ASSUME NEW ak \in Actors \X Keys
        PROVE  ak \in ReceiptsIn(receipts', c) <=>
                 (ak = <<a, k>> /\ t.case = c) \/ ak \in ReceiptsIn(receipts, c)
    <2>1. PICK b \in Actors, m \in Keys : ak = <<b, m>>
      OBVIOUS
    <2>. QED
      BY <1>1, <2>1
  <1>3. ReceiptsIn(receipts, c) \subseteq Actors \X Keys
        /\ ReceiptsIn(receipts', c) \subseteq Actors \X Keys
    BY DEF ReceiptsIn
  <1>4. <<a, k>> \notin ReceiptsIn(receipts, c) /\ <<a, k>> \in Actors \X Keys
    BY DEF ReceiptsIn
  <1>5. CASE t.case = c
    BY <1>2, <1>3, <1>4, <1>5
  <1>6. CASE t.case # c
    BY <1>2, <1>3, <1>4, <1>6
  <1>. QED
    BY <1>4, <1>5, <1>6

\* A case whose own tables and receipts a step leaves alone.
LEMMA ReceiptsFramed ==
    ASSUME NEW c \in Cases, ReceiptsOK(c),
           ReceiptsIn(receipts', c) = ReceiptsIn(receipts, c), events'[c] = events[c],
           cases'[c].status = "NONE" <=> cases[c].status = "NONE",
           cases[c].revision \in Nat, cases'[c].revision \in Nat,
           cases'[c].revision >= cases[c].revision,
           \A e \in events[c] : e.revision \in Nat,
           \A b \in Actors, m \in Keys :
              receipts[b][m] # None => receipts'[b][m] = receipts[b][m]
    PROVE  ReceiptsOK(c)'
  <1>1. /\ IsFiniteSet(ReceiptsIn(receipts', c)) /\ IsFiniteSet(events'[c])
        /\ Cardinality(ReceiptsIn(receipts', c)) = Cardinality(events'[c])
              + IF cases'[c].status = "NONE" THEN 0 ELSE 1
    BY DEF ReceiptsOK
  <1>2. \A e \in events'[c] : e.revision <= cases'[c].revision
    BY DEF ReceiptsOK
  <1>3. ASSUME NEW e \in events'[c]
        PROVE  \E k \in Keys : Answers(receipts', e, c, k)
    <2>1. PICK k \in Keys : Answers(receipts, e, c, k)
      BY <1>3 DEF ReceiptsOK
    <2>2. receipts'[e.actor][k] = receipts[e.actor][k]
      BY <2>1 DEF Answers, ReceiptsIn
    <2>. QED
      BY <2>1, <2>2 DEF Answers
  <1>. QED
    BY <1>1, <1>2, <1>3 DEF ReceiptsOK

LEMMA CreateReceipts ==
    ASSUME EffectsInv, TypeInv', NEW r \in requests, NEW c \in Cases, Creates(r, c)
    PROVE  \A d \in Cases : ReceiptsOK(d)'
  <1>. DEFINE t == [body |-> r.body, case |-> c, status |-> "CREATED",
                    revision |-> 1, version |-> head.version]
  <1>0. TypeInv /\ \A d \in Cases : ReceiptsOK(d)
    BY DEF EffectsInv, BasisInv
  <1>1. t \in Receipt
    BY <1>0, HeadTyped, RequestTyped DEF Receipt, Status
  <1>2. /\ receipts[r.actor][r.key] = None
        /\ receipts' = [receipts EXCEPT ![r.actor][r.key] = t]
        /\ t.case = c
    BY DEF Creates
  <1>. HIDE DEF t
  <1>3. /\ \A b \in Actors, m \in Keys :
             receipts[b][m] # None => receipts'[b][m] = receipts[b][m]
        /\ \A d \in Cases :
             /\ <<r.actor, r.key>> \notin ReceiptsIn(receipts, d)
             /\ ReceiptsIn(receipts', d) = IF d = c THEN ReceiptsIn(receipts, d) \cup {<<r.actor, r.key>>}
                                          ELSE ReceiptsIn(receipts, d)
    <2>1. r.actor \in Actors /\ r.key \in Keys
      BY <1>0, RequestTyped
    <2>2. \A b \in Actors, m \in Keys :
             receipts'[b][m] = IF b = r.actor /\ m = r.key THEN t ELSE receipts[b][m]
      <3>1. receipts \in [Actors -> [Keys -> Receipt \cup {None}]]
        BY <1>0 DEF TypeInv, TypeOK
      <3>. QED
        BY <1>2, <2>1, <3>1
    <2>3. ASSUME NEW d \in Cases
          PROVE  /\ <<r.actor, r.key>> \notin ReceiptsIn(receipts, d)
                 /\ ReceiptsIn(receipts', d) =
                      IF d = c THEN ReceiptsIn(receipts, d) \cup {<<r.actor, r.key>>}
                               ELSE ReceiptsIn(receipts, d)
      <3>1. /\ receipts[r.actor][r.key] = None /\ t.case = c
        BY <1>0, <1>1, <1>2
      <3>2. /\ <<r.actor, r.key>> \notin ReceiptsIn(receipts, d)
            /\ t.case = d => ReceiptsIn(receipts', d) =
                 ReceiptsIn(receipts, d) \cup {<<r.actor, r.key>>}
            /\ t.case # d => ReceiptsIn(receipts', d) = ReceiptsIn(receipts, d)
        BY <1>1, <2>1, <2>2, <3>1, ReceiptsGrow
      <3>. QED
        BY <3>1, <3>2
    <2>4. \A b \in Actors, m \in Keys :
             receipts[b][m] # None => receipts'[b][m] = receipts[b][m]
      <3>1. receipts[r.actor][r.key] = None
        BY <1>0, <1>1, <1>2
      <3>. QED
        BY <2>2, <3>1
    <2>5. receipts'[r.actor][r.key] = t
      BY <2>1, <2>2
    <2>. QED
      BY <2>3, <2>4, <2>5
  <1>4. /\ cases[c] = NoRow /\ UNCHANGED events
        /\ \A d \in Cases \ {c} : cases'[d] = cases[d]
        /\ cases'[c].status = "CREATED" /\ cases'[c].revision = 1
    BY <1>0, CreateEffect
  <1>5. ASSUME NEW d \in Cases \ {c}
        PROVE  ReceiptsOK(d)'
    <2>1. cases[d].revision \in Nat /\ \A e \in events[d] : e.revision \in Nat
      BY <1>0, CaseTyped DEF HumanEvent
    <2>. QED
      BY <1>0, <1>3, <1>4, <2>1, ReceiptsFramed
  <1>6. ReceiptsOK(c)'
    <2>1. /\ IsFiniteSet(ReceiptsIn(receipts, c)) /\ IsFiniteSet(events[c])
          /\ Cardinality(ReceiptsIn(receipts, c)) = Cardinality(events[c])
          /\ \A e \in events[c] : e.revision <= 0 /\ e.revision \in Nat
          /\ \A e \in events[c] : \E k \in Keys : Answers(receipts, e, c, k)
      BY <1>0, <1>4, CaseTyped, FS_CardinalityType DEF ReceiptsOK, NoRow, HumanEvent
    <2>2. /\ IsFiniteSet(ReceiptsIn(receipts', c))
          /\ Cardinality(ReceiptsIn(receipts', c)) = Cardinality(events[c]) + 1
      BY <1>3, <2>1, FS_AddElement
    <2>3. \A e \in events'[c] : e.revision <= cases'[c].revision
      BY <1>4, <2>1
    <2>4. ASSUME NEW e \in events'[c]
          PROVE  \E k \in Keys : Answers(receipts', e, c, k)
      <3>1. PICK k \in Keys : Answers(receipts, e, c, k)
        BY <1>4, <2>1
      <3>2. receipts'[e.actor][k] = receipts[e.actor][k]
        BY <1>3, <3>1 DEF Answers, ReceiptsIn
      <3>. QED
        BY <1>3, <3>1, <3>2 DEF Answers
    <2>. QED
      BY <1>4, <2>1, <2>2, <2>3, <2>4 DEF ReceiptsOK
  <1>. QED
    BY <1>5, <1>6

LEMMA DecideReceipts ==
    ASSUME EffectsInv, NEW r \in requests,
           NEW status \in {"APPROVED", "REJECTED", "COMMITTED"},
           Decides(r, status)
    PROVE  \A d \in Cases : ReceiptsOK(d)'
  <1>. DEFINE c == r.body.case
  <1>0. TypeInv /\ \A d \in Cases : ReceiptsOK(d)
    BY DEF EffectsInv, BasisInv
  <1>1. /\ c \in Cases /\ receipts[r.actor][r.key] = None
        /\ cases[c].status \in {"APPROVED", "AWAITING_APPROVAL"}
    BY <1>0, DecideGuard
  <1>2. PICK version \in Nat : Advanced(r, status, version)
    <2>1. CASE status = "COMMITTED"
      <3>1. NextHead(r.body.plan).version = head.version + 1
        BY <1>0, HeadTyped DEF NextHead, OperationsHead
      <3>. QED
        BY <1>0, <2>1, <3>1, HeadTyped DEF Decides
    <2>2. CASE status # "COMMITTED"
      BY <1>0, <2>2, HeadTyped DEF Decides
    <2>. QED
      BY <2>1, <2>2
  <1>. DEFINE t == [body |-> r.body, case |-> c, status |-> status,
                    revision |-> cases[c].revision + 1, version |-> version]
              n == [actor |-> r.actor, revision |-> cases[c].revision + 1,
                    to |-> status, version |-> version]
  <1>3. /\ receipts' = [receipts EXCEPT ![r.actor][r.key] = t]
        /\ t.case = c /\ t.status = status /\ t.version = version
        /\ t.revision = cases[c].revision + 1
    BY <1>2 DEF Advanced
  <1>4. t \in Receipt
    BY <1>0, <1>1, CaseTyped, RequestTyped DEF Receipt, Status, Decided
  <1>5. /\ events'[c] = events[c] \cup {n}
        /\ n.actor = r.actor /\ n.revision = cases[c].revision + 1
        /\ n.to = status /\ n.version = version
    BY <1>0, <1>1, <1>2 DEF Advanced, TypeInv, TypeOK
  <1>. HIDE DEF t, n
  <1>6. /\ receipts'[r.actor][r.key] = t
        /\ \A b \in Actors, m \in Keys :
             receipts[b][m] # None => receipts'[b][m] = receipts[b][m]
        /\ \A d \in Cases :
             /\ <<r.actor, r.key>> \notin ReceiptsIn(receipts, d)
             /\ ReceiptsIn(receipts', d) = IF d = c THEN ReceiptsIn(receipts, d) \cup {<<r.actor, r.key>>}
                                          ELSE ReceiptsIn(receipts, d)
    <2>1. r.actor \in Actors /\ r.key \in Keys
      BY <1>0, RequestTyped
    <2>2. \A b \in Actors, m \in Keys :
             receipts'[b][m] = IF b = r.actor /\ m = r.key THEN t ELSE receipts[b][m]
      <3>1. receipts \in [Actors -> [Keys -> Receipt \cup {None}]]
        BY <1>0 DEF TypeInv, TypeOK
      <3>. QED
        BY <1>3, <2>1, <3>1
    <2>3. ASSUME NEW d \in Cases
          PROVE  /\ <<r.actor, r.key>> \notin ReceiptsIn(receipts, d)
                 /\ ReceiptsIn(receipts', d) =
                      IF d = c THEN ReceiptsIn(receipts, d) \cup {<<r.actor, r.key>>}
                               ELSE ReceiptsIn(receipts, d)
      <3>1. /\ receipts[r.actor][r.key] = None /\ t.case = c
        BY <1>0, <1>1, <1>3, <1>4
      <3>2. /\ <<r.actor, r.key>> \notin ReceiptsIn(receipts, d)
            /\ t.case = d => ReceiptsIn(receipts', d) =
                 ReceiptsIn(receipts, d) \cup {<<r.actor, r.key>>}
            /\ t.case # d => ReceiptsIn(receipts', d) = ReceiptsIn(receipts, d)
        BY <1>4, <2>1, <2>2, <3>1, ReceiptsGrow
      <3>. QED
        BY <3>1, <3>2
    <2>4. \A b \in Actors, m \in Keys :
             receipts[b][m] # None => receipts'[b][m] = receipts[b][m]
      <3>1. receipts[r.actor][r.key] = None
        BY <1>0, <1>1, <1>3, <1>4
      <3>. QED
        BY <2>2, <3>1
    <2>5. receipts'[r.actor][r.key] = t
      BY <2>1, <2>2
    <2>. QED
      BY <2>3, <2>4, <2>5
  <1>7. /\ cases'[c].status = status /\ cases'[c].revision = cases[c].revision + 1
        /\ \A d \in Cases \ {c} : cases'[d] = cases[d] /\ events'[d] = events[d]
    BY <1>0, DecideEffect
  <1>8. ASSUME NEW d \in Cases \ {c}
        PROVE  ReceiptsOK(d)'
    <2>1. cases[d].revision \in Nat /\ \A e \in events[d] : e.revision \in Nat
      BY <1>0, CaseTyped DEF HumanEvent
    <2>. QED
      BY <1>0, <1>6, <1>7, <2>1, ReceiptsFramed
  <1>9. ReceiptsOK(c)'
    <2>1. /\ IsFiniteSet(ReceiptsIn(receipts, c)) /\ IsFiniteSet(events[c])
          /\ Cardinality(ReceiptsIn(receipts, c)) = Cardinality(events[c]) + 1
          /\ \A e \in events[c] : e.revision <= cases[c].revision
          /\ \A e \in events[c] : \E k \in Keys : Answers(receipts, e, c, k)
      BY <1>0, <1>1 DEF ReceiptsOK
    <2>2. cases[c].revision \in Nat /\ \A e \in events[c] : e.revision \in Nat
      BY <1>0, <1>1, CaseTyped DEF HumanEvent
    <2>3. n \notin events[c]
      BY <1>5, <2>1, <2>2
    <2>4. /\ IsFiniteSet(ReceiptsIn(receipts', c)) /\ IsFiniteSet(events'[c])
          /\ Cardinality(ReceiptsIn(receipts', c)) = Cardinality(ReceiptsIn(receipts, c)) + 1
          /\ Cardinality(events'[c]) = Cardinality(events[c]) + 1
      <3>1. /\ ReceiptsIn(receipts', c) = ReceiptsIn(receipts, c) \cup {<<r.actor, r.key>>}
            /\ <<r.actor, r.key>> \notin ReceiptsIn(receipts, c)
        BY <1>1, <1>6
      <3>2. /\ IsFiniteSet(ReceiptsIn(receipts', c))
            /\ Cardinality(ReceiptsIn(receipts', c)) = Cardinality(ReceiptsIn(receipts, c)) + 1
        <4>1. /\ IsFiniteSet(ReceiptsIn(receipts, c) \cup {<<r.actor, r.key>>})
              /\ Cardinality(ReceiptsIn(receipts, c) \cup {<<r.actor, r.key>>})
                   = Cardinality(ReceiptsIn(receipts, c)) + 1
          BY <2>1, <3>1, OneMore
        <4>. QED
          BY <3>1, <4>1
      <3>3. IsFiniteSet(events'[c]) /\ Cardinality(events'[c]) = Cardinality(events[c]) + 1
        <4>1. /\ IsFiniteSet(events[c] \cup {n})
              /\ Cardinality(events[c] \cup {n}) = Cardinality(events[c]) + 1
          BY <2>1, <2>3, OneMore
        <4>. QED
          BY <1>5, <4>1
      <3>. QED
        BY <3>2, <3>3
    <2>5. \A e \in events'[c] : e.revision <= cases'[c].revision
      BY <1>5, <1>7, <2>1, <2>2
    <2>6. ASSUME NEW e \in events[c]
          PROVE  \E k \in Keys : Answers(receipts', e, c, k)
      <3>1. PICK k \in Keys : Answers(receipts, e, c, k)
        BY <2>1
      <3>2. receipts'[e.actor][k] = receipts[e.actor][k]
        BY <1>6, <3>1 DEF Answers, ReceiptsIn
      <3>. QED
        BY <1>1, <1>6, <3>1, <3>2 DEF Answers
    <2>7. Answers(receipts', n, c, r.key)
      BY <1>1, <1>3, <1>5, <1>6 DEF Answers
    <2>8. \A e \in events'[c] : \E k \in Keys : Answers(receipts', e, c, k)
      BY <1>0, <1>5, <2>6, <2>7, RequestTyped
    <2>9. status # "NONE"
      OBVIOUS
    <2>. QED
      BY <1>7, <2>1, <2>4, <2>5, <2>8, <2>9 DEF ReceiptsOK
  <1>. QED
    BY <1>8, <1>9

LEMMA EffectsStep == EffectsInv /\ [Next]_vars => \A c \in Cases : ReceiptsOK(c)'
  <1>. SUFFICES ASSUME EffectsInv, [Next]_vars
                PROVE  \A c \in Cases : ReceiptsOK(c)'
    OBVIOUS
  <1>0. TypeInv /\ TypeInv' /\ \A c \in Cases : ReceiptsOK(c) /\ DecisionOK(c)
    BY TypeInvStep DEF EffectsInv, BasisInv, DecisionsOK
  <1>1. ASSUME UNCHANGED <<cases, events, receipts>>
        PROVE  \A c \in Cases : ReceiptsOK(c)'
    <2>. SUFFICES ASSUME NEW c \in Cases PROVE ReceiptsOK(c)'
      OBVIOUS
    <2>1. /\ ReceiptsOK(c) /\ receipts' = receipts
          /\ events'[c] = events[c] /\ cases'[c] = cases[c]
      BY <1>0, <1>1
    <2>. QED
      BY <2>1 DEF ReceiptsOK
  <1>2. ASSUME NEW c \in Cases, Plan(c) \/ PlanningFails(c)
        PROVE  \A d \in Cases : ReceiptsOK(d)'
    <2>1. /\ UNCHANGED <<events, receipts>> /\ cases[c].status = "CREATED"
          /\ \A d \in Cases \ {c} : cases'[d] = cases[d]
          /\ cases'[c].status \in {"AWAITING_APPROVAL", "FAILED"}
          /\ cases'[c].revision \in {3, 6}
      BY <1>0, <1>2, PlanEffect
    <2>2. cases[c].revision = 1
      BY <1>0, <2>1 DEF DecisionOK
    <2>3. \A d \in Cases : ReceiptsIn(receipts', d) = ReceiptsIn(receipts, d)
      BY <2>1 DEF ReceiptsIn
    <2>4. ASSUME NEW d \in Cases
          PROVE  ReceiptsOK(d)'
      <3>1. cases[d].revision \in Nat /\ \A e \in events[d] : e.revision \in Nat
        BY <1>0, CaseTyped DEF HumanEvent
      <3>2. /\ cases'[d].revision \in Nat /\ cases'[d].revision >= cases[d].revision
            /\ cases'[d].status = "NONE" <=> cases[d].status = "NONE"
        BY <2>1, <2>2, <3>1
      <3>. QED
        BY <1>0, <2>1, <2>3, <3>1, <3>2, ReceiptsFramed
    <2>. QED
      BY <2>4
  <1>3. ASSUME Quiet \/ \E s \in Snapshots, content \in Contents, expected \in Nat :
                           Ingest(s, content, expected)
        PROVE  UNCHANGED <<cases, events, receipts>>
    BY <1>3 DEF Quiet, tables, Ingest
  <1>. QED
    BY <1>0, <1>1, <1>2, <1>3, CreateReceipts, DecideReceipts, StepKinds DEF StepKind

LEMMA EffectsInit == Init => EffectsInv
  <1>. SUFFICES ASSUME Init PROVE EffectsInv
    OBVIOUS
  <1>1. ASSUME NEW c \in Cases
        PROVE  ReceiptsOK(c)
    <2>1. ReceiptsIn(receipts, c) = {} /\ events[c] = {} /\ cases[c].status = "NONE"
      BY <1>1 DEF Init, ReceiptsIn, NoRow
    <2>. QED
      BY <2>1, FS_EmptySet DEF ReceiptsOK
  <1>. QED
    BY <1>1, BasisInit DEF EffectsInv

(* Every effect of a request has its receipt and every receipt its effect:   *)
(* the receipts naming a case are those of its creation and of its human     *)
(* events, one for one, whoever retried what.                                *)
THEOREM EffectsHaveReceipts == Spec => []ReceiptPerEffect
  <1>1. EffectsInv /\ [Next]_vars => EffectsInv'
    BY EffectsStep, TypeInvStep, DecisionsStep, FreshStep, LogStep
    DEF EffectsInv, BasisInv
  <1>2. EffectsInv => ReceiptPerEffect
    <2>. SUFFICES ASSUME EffectsInv PROVE ReceiptPerEffect
      OBVIOUS
    <2>1. TypeOK
      BY DEF EffectsInv, BasisInv, TypeInv
    <2>2. ASSUME NEW c \in Cases
          PROVE  /\ Cardinality(ReceiptsIn(receipts, c)) = Cardinality(events[c])
                      + IF cases[c].status = "NONE" THEN 0 ELSE 1
                 /\ \A e \in events[c] : \E k \in Keys : Answers(receipts, e, c, k)
      BY DEF EffectsInv, ReceiptsOK
    <2>. QED
      <3>. SUFFICES ASSUME NEW c \in Cases
                    PROVE  LET of == {ak \in Actors \X Keys :
                                        /\ receipts[ak[1]][ak[2]] # None
                                        /\ receipts[ak[1]][ak[2]].case = c}
                           IN  /\ Cardinality(of) = Cardinality(events[c])
                                    + IF cases[c].status = "NONE" THEN 0 ELSE 1
                               /\ \A e \in events[c] :
                                    \E k \in Keys :
                                       LET t == receipts[e.actor][k] IN
                                       /\ <<e.actor, k>> \in of
                                       /\ t.status = e.to /\ t.revision = e.revision
                                       /\ t.version = e.version
        BY <2>1 DEF ReceiptPerEffect
      <3>. DEFINE of == {ak \in Actors \X Keys :
                           /\ receipts[ak[1]][ak[2]] # None
                           /\ receipts[ak[1]][ak[2]].case = c}
      <3>1. of = ReceiptsIn(receipts, c)
        BY DEF ReceiptsIn
      <3>. HIDE DEF of
      <3>2. Cardinality(of) = Cardinality(events[c])
                                + IF cases[c].status = "NONE" THEN 0 ELSE 1
        BY <2>2, <3>1
      <3>3. ASSUME NEW e \in events[c]
            PROVE  \E k \in Keys :
                     /\ <<e.actor, k>> \in of
                     /\ receipts[e.actor][k].status = e.to
                     /\ receipts[e.actor][k].revision = e.revision
                     /\ receipts[e.actor][k].version = e.version
        BY <2>2, <3>1 DEF Answers
      <3>. QED
        BY <3>2, <3>3 DEF of
  <1>. QED
    BY <1>1, <1>2, EffectsInit, PTL DEF Spec

-----------------------------------------------------------------------------
(* The publications are an append-only log of what people approved.          *)

LogOf(table, n) ==
    [v \in 1..n |->
        LET c == CHOOSE d \in Cases : table[d].version = v
        IN  <<table[c].plan, table[c].snapshot>>]

LEMMA LogEntry ==
    ASSUME NEW table, NEW n \in Nat, NEW c \in Cases, NEW v \in 1..n,
           table[c].version = v,
           \A d \in Cases : table[d].version = v => d = c
    PROVE  LogOf(table, n)[v] = <<table[c].plan, table[c].snapshot>>
  <1>1. (CHOOSE d \in Cases : table[d].version = v) = c
    OBVIOUS
  <1>. QED
    BY <1>1 DEF LogOf

\* Every entry is the publication of one committed case.
LEMMA LogEntries ==
    ASSUME BasisInv
    PROVE  /\ PublicationLog = LogOf(commits, head.version)
           /\ head.version \in Nat
           /\ PublicationLog \in Seq(Plans \X Snapshots)
           /\ Len(PublicationLog) = head.version
           /\ \A v \in 1..head.version : \E c \in Cases :
                /\ commits[c].version = v /\ cases[c].status = "COMMITTED"
                /\ commits[c].plan \in Plans /\ commits[c].snapshot \in Snapshots
                /\ \A d \in Cases : commits[d].version = v => d = c
                /\ PublicationLog[v] = <<commits[c].plan, commits[c].snapshot>>
  <1>0. TypeInv /\ head.version \in Nat
    BY HeadTyped DEF BasisInv
  <1>1. PublicationLog = LogOf(commits, head.version)
    BY DEF PublicationLog, LogOf
  <1>2. ASSUME NEW v \in 1..head.version
        PROVE  \E c \in Cases :
                /\ commits[c].version = v /\ cases[c].status = "COMMITTED"
                /\ commits[c].plan \in Plans /\ commits[c].snapshot \in Snapshots
                /\ \A d \in Cases : commits[d].version = v => d = c
                /\ PublicationLog[v] = <<commits[c].plan, commits[c].snapshot>>
    <2>1. PICK c \in Cases : commits[c].version = v
      BY DEF BasisInv, LogOK
    <2>2. \A d \in Cases : commits[d].version = v => d = c
      BY <1>0, <2>1 DEF BasisInv, LogOK
    <2>3. DecisionOK(c) /\ commits[c].version # 0
      BY <1>0, <2>1 DEF BasisInv, DecisionsOK
    <2>4. cases[c].status = "COMMITTED"
      BY <2>3 DEF DecisionOK, Unpublished
    <2>5. /\ commits[c].plan = human[c].plan /\ commits[c].snapshot = cases[c].snapshot
          /\ human[c].plan \in cases[c].plans
      BY <2>3, <2>4 DEF DecisionOK
    <2>6. commits[c].plan \in Plans
      BY <1>0, <2>5, CaseTyped
    <2>7. commits[c].snapshot \in Snapshots
      BY <1>0, <2>4, <2>5 DEF TypeInv, BasesOK
    <2>8. PublicationLog[v] = <<commits[c].plan, commits[c].snapshot>>
      <3>1. LogOf(commits, head.version)[v] = <<commits[c].plan, commits[c].snapshot>>
        BY <1>0, <2>1, <2>2, LogEntry
      <3>. QED
        BY <1>1, <3>1
    <2>. QED
      BY <2>1, <2>2, <2>4, <2>6, <2>7, <2>8
  <1>3. PublicationLog \in [1..head.version -> Plans \X Snapshots]
    <2>1. ASSUME NEW v \in 1..head.version
          PROVE  PublicationLog[v] \in Plans \X Snapshots
      <3>1. PICK c \in Cases :
               /\ commits[c].plan \in Plans /\ commits[c].snapshot \in Snapshots
               /\ PublicationLog[v] = <<commits[c].plan, commits[c].snapshot>>
        BY <1>2
      <3>. QED
        BY <3>1
    <2>2. PublicationLog = [v \in 1..head.version |-> PublicationLog[v]]
      BY DEF PublicationLog
    <2>. QED
      BY <2>1, <2>2
  <1>4. /\ PublicationLog \in Seq(Plans \X Snapshots)
        /\ Len(PublicationLog) = head.version
    BY <1>0, <1>3, LenProperties, SeqDef
  <1>. QED
    BY <1>0, <1>1, <1>2, <1>4

LogWhole == /\ PublicationLog = LogOf(commits, head.version)
            /\ PublicationLog \in Seq(Plans \X Snapshots)
            /\ Len(PublicationLog) = head.version

LEMMA NextLog == BasisInv' => LogWhole'
  <1>1. BasisInv => LogWhole
    BY LogEntries DEF LogWhole
  <1>. QED
    BY <1>1, PTL

PairOf(c) == <<human[c].plan, cases[c].snapshot>>

LEMMA ApprovalsAre ==
    \A x : x \in Approvals <=>
             \E c \in Cases : human[c].decision = "APPROVE" /\ x = PairOf(c)
  BY DEF Approvals, PairOf

LEMMA ApprovalsKept ==
    ASSUME \A c \in Cases :
             /\ human'[c].decision = "APPROVE" <=> human[c].decision = "APPROVE"
             /\ human[c].decision = "APPROVE" => PairOf(c)' = PairOf(c)
    PROVE  Approvals' = Approvals
  BY DEF Approvals, PairOf

PublicationVars == <<PublicationLog, Approvals>>

LEMMA InitPublished == Init => Abstract!Init
  <1>. SUFFICES ASSUME Init PROVE Abstract!Init
    OBVIOUS
  <1>1. BasisInv /\ head.version = 0
    BY BasisInit DEF Init, NoHead
  <1>2. PublicationLog = <<>>
    BY <1>1, LogEntries, EmptySeq
  <1>3. Approvals = {}
    BY DEF Init, Approvals, Undecided
  <1>. QED
    BY <1>2, <1>3 DEF Abstract!Init

LEMMA LogKept ==
    ASSUME UNCHANGED commits, head'.version = head.version
    PROVE  PublicationLog' = PublicationLog
  BY DEF PublicationLog

\* An approval is an Approve of the log, a rejection changes nothing of it.
LEMMA DecisionApproves ==
    ASSUME BasisInv, NEW r \in requests, NEW status \in {"APPROVED", "REJECTED"},
           Decides(r, status)
    PROVE  [Abstract!Next]_PublicationVars
  <1>. DEFINE c == r.body.case
              p == r.body.plan
  <1>0. TypeInv
    BY DEF BasisInv
  <1>1. /\ c \in Cases /\ cases[c].status = "AWAITING_APPROVAL"
        /\ status = "APPROVED" => p \in cases[c].plans \cap ValidPlans
    BY <1>0, DecideGuard
  <1>2. /\ UNCHANGED <<head, commits>>
        /\ cases'[c].snapshot = cases[c].snapshot
        /\ \A d \in Cases \ {c} : cases'[d] = cases[d] /\ human'[d] = human[d]
        /\ status = "APPROVED" => human'[c] = [decision |-> "APPROVE", plan |-> p]
        /\ status = "REJECTED" => human'[c] = [decision |-> "REJECT", plan |-> None]
    BY <1>0, DecideEffect
  <1>3. human[c].decision = "NONE"
    BY <1>1 DEF BasisInv, DecisionsOK, DecisionOK, Decided, Undecided
  <1>4. PublicationLog' = PublicationLog
    BY <1>2, LogKept
  <1>5. p \in cases[c].plans => p \in Plans
    BY <1>0, <1>1, CaseTyped
  <1>6. cases[c].snapshot \in Snapshots
    BY <1>0, <1>1 DEF TypeInv, BasesOK
  <1>. HIDE DEF c, p
  <1>7. CASE status = "REJECTED"
    <2>1. Approvals' = Approvals
      <3>1. human'[c].decision # "APPROVE"
        BY <1>2, <1>7
      <3>2. \A d \in Cases :
             /\ human'[d].decision = "APPROVE" <=> human[d].decision = "APPROVE"
             /\ human[d].decision = "APPROVE" => PairOf(d)' = PairOf(d)
        BY <1>2, <1>3, <3>1 DEF PairOf
      <3>. QED
        BY <3>2, ApprovalsKept
    <2>. QED
      BY <1>4, <2>1 DEF PublicationVars
  <1>8. CASE status = "APPROVED"
    <2>1. human'[c].decision = "APPROVE" /\ human'[c].plan = p
      BY <1>2, <1>8
    <2>2. Approvals' = Approvals \cup {<<p, cases[c].snapshot>>}
      BY <1>1, <1>2, <1>3, <2>1 DEF Approvals
    <2>3. p \in Plans
      BY <1>1, <1>5, <1>8
    <2>4. Abstract!Approve
      BY <1>4, <1>6, <2>2, <2>3 DEF Abstract!Approve
    <2>. QED
      BY <2>4 DEF Abstract!Next
  <1>. QED
    BY <1>7, <1>8

\* A commit appends the approved plan, under an identity not in the log.
LEMMA CommitPublishes ==
    ASSUME BasisInv, BasisInv', NEW r \in requests, Decides(r, "COMMITTED")
    PROVE  Abstract!Publish
  <1>. DEFINE c == r.body.case
              p == r.body.plan
              entry == <<p, cases[c].snapshot>>
  <1>0. TypeInv
    BY DEF BasisInv
  <1>1. /\ c \in Cases /\ p \in cases[c].plans \cap ValidPlans
        /\ human[c] = [decision |-> "APPROVE", plan |-> p]
        /\ published[ScheduleOf[p]] = None
        /\ cases[c].status = "APPROVED"
    BY <1>0, DecideGuard
  <1>2. /\ human' = human
        /\ cases'[c].snapshot = cases[c].snapshot
        /\ \A d \in Cases \ {c} : cases'[d] = cases[d] /\ commits'[d] = commits[d]
        /\ head'.version = head.version + 1
        /\ commits'[c] = [version |-> head.version + 1, plan |-> p,
                          snapshot |-> cases[c].snapshot]
    BY <1>0, DecideEffect
  <1>3. p \in Plans /\ cases[c].snapshot \in Snapshots
    BY <1>0, <1>1, CaseTyped DEF TypeInv, BasesOK
  <1>4. /\ commits'[c].version = head.version + 1 /\ commits'[c].plan = p
        /\ commits'[c].snapshot = cases[c].snapshot
    BY <1>2
  <1>5. human[c].decision = "APPROVE" /\ human[c].plan = p
    BY <1>1
  <1>. HIDE DEF c, p
  <1>6. Approvals' = Approvals
    <2>1. \A d \in Cases :
           /\ human'[d].decision = "APPROVE" <=> human[d].decision = "APPROVE"
           /\ human[d].decision = "APPROVE" => PairOf(d)' = PairOf(d)
      BY <1>2 DEF PairOf
    <2>. QED
      BY <2>1, ApprovalsKept
  <1>7. entry \in Approvals
    BY <1>1, <1>5, ApprovalsAre DEF PairOf
  <1>8. /\ PublicationLog \in Seq(Plans \X Snapshots)
        /\ Len(PublicationLog) = head.version /\ head.version \in Nat
    BY LogEntries
  <1>9. \A v \in 1..Len(PublicationLog) :
           ScheduleOf[PublicationLog[v][1]] # ScheduleOf[entry[1]]
    <2>. SUFFICES ASSUME NEW v \in 1..head.version
                  PROVE  ScheduleOf[PublicationLog[v][1]] # ScheduleOf[p]
      BY <1>8
    <2>1. PICK d \in Cases : /\ cases[d].status = "COMMITTED"
                             /\ commits[d].plan \in Plans
                             /\ PublicationLog[v] = <<commits[d].plan, commits[d].snapshot>>
      BY LogEntries
    <2>2. published[ScheduleOf[commits[d].plan]] = commits[d].plan
      BY <2>1 DEF BasisInv, DecisionsOK, DecisionOK
    <2>3. commits[d].plan # None
      BY <2>1, ConstantsAssumption
    <2>4. PublicationLog[v][1] = commits[d].plan
      BY <2>1
    <2>. QED
      BY <1>1, <2>2, <2>3, <2>4
  <1>10. /\ PublicationLog' = LogOf(commits', head.version + 1)
         /\ PublicationLog' \in Seq(Plans \X Snapshots)
         /\ Len(PublicationLog') = head.version + 1
    <2>1. LogWhole'
      BY NextLog
    <2>. QED
      BY <1>2, <2>1 DEF LogWhole
  <1>11. \A d \in Cases : commits[d].version \in 0..head.version
    BY <1>8 DEF BasisInv, DecisionsOK, DecisionOK, Unpublished
  <1>12. commits[c].version = 0
    BY <1>1 DEF BasisInv, DecisionsOK, DecisionOK, Unpublished
  <1>13. PublicationLog'[head.version + 1] = entry
    <2>1. \A d \in Cases : commits'[d].version = head.version + 1 => d = c
      BY <1>2, <1>8, <1>11
    <2>. QED
      <3>1. LogOf(commits', head.version + 1)[head.version + 1]
              = <<commits'[c].plan, commits'[c].snapshot>>
        <4>1. head.version + 1 \in Nat /\ head.version + 1 \in 1..(head.version + 1)
          BY <1>8
        <4>2. c \in Cases /\ commits'[c].version = head.version + 1
          BY <1>1, <1>4
        <4>. QED
          BY <2>1, <4>1, <4>2, LogEntry
      <3>. QED
        BY <1>4, <1>10, <3>1
  <1>14. ASSUME NEW v \in 1..head.version
         PROVE  PublicationLog'[v] = PublicationLog[v]
    <2>1. PICK d \in Cases :
             /\ commits[d].version = v
             /\ \A e \in Cases : commits[e].version = v => e = d
             /\ PublicationLog[v] = <<commits[d].plan, commits[d].snapshot>>
      BY LogEntries
    <2>2. d # c
      BY <1>12, <2>1
    <2>3. commits'[d] = commits[d] /\ v \in 1..(head.version + 1)
      BY <1>2, <1>8, <2>2
    <2>4. \A e \in Cases : commits'[e].version = v => e = d
      BY <1>2, <1>4, <1>8, <2>1
    <2>5. LogOf(commits', head.version + 1)[v] = <<commits'[d].plan, commits'[d].snapshot>>
      <3>1. commits'[d].version = v /\ head.version + 1 \in Nat
        BY <1>8, <2>1, <2>3
      <3>. QED
        BY <2>3, <2>4, <3>1, LogEntry
    <2>. QED
      BY <1>10, <2>1, <2>3, <2>5
  <1>15. PublicationLog' = Append(PublicationLog, entry)
    <2>1. entry \in Plans \X Snapshots
      BY <1>3
    <2>. HIDE DEF entry
    <2>2. /\ Append(PublicationLog, entry) \in Seq(Plans \X Snapshots)
          /\ Len(Append(PublicationLog, entry)) = head.version + 1
          /\ \A v \in 1..head.version :
               Append(PublicationLog, entry)[v] = PublicationLog[v]
          /\ Append(PublicationLog, entry)[head.version + 1] = entry
      BY <1>8, <2>1, AppendProperties
    <2>3. \A v \in 1..Len(PublicationLog') :
             PublicationLog'[v] = Append(PublicationLog, entry)[v]
      BY <1>8, <1>10, <1>13, <1>14, <2>2
    <2>. QED
      BY <1>10, <2>2, <2>3, SeqEqual
  <1>. QED
    BY <1>6, <1>7, <1>9, <1>15 DEF Abstract!Publish

LEMMA StepPublished ==
    ASSUME BasisInv, BasisInv', [Next]_vars
    PROVE  [Abstract!Next]_PublicationVars
  <1>0. TypeInv
    BY DEF BasisInv
  <1>1. ASSUME UNCHANGED <<human, commits>>, head'.version = head.version,
               \A c \in Cases : human[c].decision = "APPROVE" =>
                                  cases'[c].snapshot = cases[c].snapshot
        PROVE  UNCHANGED PublicationVars
    <2>1. Approvals' = Approvals
      <3>1. \A d \in Cases :
             /\ human'[d].decision = "APPROVE" <=> human[d].decision = "APPROVE"
             /\ human[d].decision = "APPROVE" => PairOf(d)' = PairOf(d)
        BY <1>1 DEF PairOf
      <3>. QED
        BY <3>1, ApprovalsKept
    <2>. QED
      BY <1>1, <2>1, LogKept DEF PublicationVars
  <1>2. CASE Quiet
    BY <1>1, <1>2 DEF Quiet, tables
  <1>3. ASSUME NEW s \in Snapshots, NEW content \in Contents, NEW expected \in Nat,
               Ingest(s, content, expected)
        PROVE  UNCHANGED PublicationVars
    <2>1. UNCHANGED <<cases, human, commits>> /\ head'.version = head.version
      BY <1>0, <1>3, IngestEffect
    <2>. QED
      BY <1>1, <2>1
  <1>4. ASSUME NEW r \in requests, NEW c \in Cases, Creates(r, c)
        PROVE  UNCHANGED PublicationVars
    <2>1. /\ UNCHANGED <<human, commits, head>> /\ cases[c] = NoRow
          /\ \A d \in Cases \ {c} : cases'[d] = cases[d]
      BY <1>0, <1>4, CreateEffect
    <2>2. human[c].decision = "NONE"
      BY <2>1 DEF BasisInv, DecisionsOK, DecisionOK, NoRow, Decided, Undecided
    <2>. QED
      BY <1>1, <2>1, <2>2
  <1>5. ASSUME NEW c \in Cases, Plan(c) \/ PlanningFails(c)
        PROVE  UNCHANGED PublicationVars
    <2>1. /\ UNCHANGED <<human, commits, head>>
          /\ cases'[c].snapshot = cases[c].snapshot
          /\ \A d \in Cases \ {c} : cases'[d] = cases[d]
      BY <1>0, <1>5, PlanEffect
    <2>. QED
      BY <1>1, <2>1
  <1>6. ASSUME NEW r \in requests,
               NEW status \in {"APPROVED", "REJECTED", "COMMITTED"},
               Decides(r, status)
        PROVE  [Abstract!Next]_PublicationVars
    <2>1. CASE status \in {"APPROVED", "REJECTED"}
      BY <1>6, <2>1, DecisionApproves
    <2>2. CASE status = "COMMITTED"
      BY <1>6, <2>2, CommitPublishes DEF Abstract!Next
    <2>. QED
      BY <2>1, <2>2
  <1>. QED
    BY <1>2, <1>1, <1>3, <1>4, <1>5, <1>6, StepKinds DEF StepKind, Quiet

(* The commands implement the append-only log of approved publications: one  *)
(* entry per plan version, none ever changed, no schedule identity twice.    *)
THEOREM CommandsPublish == Spec => ImplementsPublication
  <1>1. BasisInv /\ BasisInv' /\ [Next]_vars => [Abstract!Next]_PublicationVars
    BY StepPublished
  <1>. QED
    BY <1>1, InitPublished, BasisHolds, PTL
    DEF Spec, ImplementsPublication, Abstract!Spec, PublicationVars
=============================================================================
