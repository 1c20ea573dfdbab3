---------------------------- MODULE WriteIntent ----------------------------
(***************************************************************************)
(* One write of the web frontend: a person confirms a form, the page       *)
(* freezes a key and a body, checks who is signed in, sends the POST, and  *)
(* must tell what became of it although the reply may be lost, the session *)
(* or the access may change, and the page may be left, mounted again or    *)
(* reloaded.  Three hooks do this: useScenarioIntent and useWorkOrderIntent*)
(* keep the frozen request in the tab's memory under the actor's identity, *)
(* useOperationsAction keeps it in sessionStorage under the scope alone.   *)
(* One tab and one scope are modelled, with the server's receipts and      *)
(* fences reduced to what the hooks can see of them.                       *)
(***************************************************************************)
EXTENDS Naturals, FiniteSets

CONSTANTS Users, Nobody, Hooks,
          MaxKeys, MaxTries,         \* bounds: requests composed, sends of each
          MaxSwitches, MaxDenials    \* bounds: changes of session, of access

ASSUME BoundsAssumption ==
  /\ MaxKeys \in Nat /\ MaxTries \in Nat /\ MaxSwitches \in Nat /\ MaxDenials \in Nat
  /\ Nobody \notin Users
  /\ Hooks \subseteq {"scenario", "workOrder", "journal"}

Keys == 1 .. MaxKeys
None == 0

VARIABLES
  hook,        \* which of the three hooks this page uses
  session,     \* whose cookie the browser holds
  allowed,     \* users the server authorizes for this scope
  overtaken,   \* keys whose expected revision is no longer current
  receipts,    \* [key, by]: effects the server committed, with their receipts
  wire,        \* POSTs sent and not handled yet
  memory,      \* the frozen request of a slot: a user, or Nobody for the journal
  bound,       \* the identity the tab's memory belongs to
  page,        \* the mounted component
  intent,      \* what is known of each key
  switches, denials

client == <<memory, bound, page, intent>>
server == <<allowed, overtaken, receipts>>
world  == <<session, switches, denials>>
vars   == <<hook, server, wire, client, world>>

Journal == hook = "journal"
Slot(u) == IF Journal THEN Nobody ELSE u

Unmounted == [actor |-> Nobody, active |-> None, kind |-> "idle", step |-> "none"]
Unused    == [author |-> Nobody, owner |-> Nobody, tries |-> 0,
              verdict |-> "open", refusal |-> 0]

Init ==
  /\ hook \in Hooks
  /\ session \in Users /\ allowed = Users
  /\ overtaken = {} /\ receipts = {} /\ wire = {}
  /\ memory = [u \in Users \cup {Nobody} |-> None] /\ bound = Nobody
  /\ page = Unmounted
  /\ intent = [k \in Keys |-> Unused]
  /\ switches = 0 /\ denials = 0

-----------------------------------------------------------------------------
(* The memory of the tab.                                                  *)

Mounted == page.actor # Nobody
Busy    == page.step # "none"

\* clearScenarioMemory and clearWorkOrderMemory: what was still open is lost.
Empty == [u \in Users \cup {Nobody} |-> None]
Dropped(is) ==
  [k \in Keys |-> IF is[k].verdict = "open" /\ \E u \in Users : memory[u] = k
                  THEN [is[k] EXCEPT !.verdict = "dropped"] ELSE is[k]]

\* Mutant: the effect of the hook forgets to look for a saved request.
MountedBlank(u, m) ==
  [actor |-> u, active |-> None, step |-> "none", kind |-> "idle"]

\* A mounted hook takes up the request of its slot.
MountedAs(u, m) ==
  LET k == m[Slot(u)]
  IN [actor |-> u, active |-> k, step |-> "none",
      kind |-> IF k = None THEN "idle"
               ELSE IF ~Journal /\ intent[k].refusal # 0 THEN "rejected" ELSE "uncertain"]

\* The frame verified the identity u: another actor's requests are dropped.
ScenarioMount(u) ==
  LET other == bound \notin {Nobody, u}
  IN /\ bound' = u
     /\ memory' = IF other THEN Empty ELSE memory
     /\ intent' = IF other THEN Dropped(intent) ELSE intent
     /\ page' = MountedAs(u, memory')

JournalMount(u) ==
  /\ page' = MountedAs(u, memory)
  /\ UNCHANGED <<memory, bound, intent>>

\* A page is opened, or the frame of an open one finds another user signed in.
Mount ==
  /\ session \in Users /\ page.actor # session
  /\ Journal => ~Mounted
  /\ IF Journal THEN JournalMount(session) ELSE ScenarioMount(session)
  /\ UNCHANGED <<hook, server, wire, world>>

\* In-app navigation, or a frame whose identity read failed with neither 401 nor
\* 403: the request under way is aborted, which does not stop the server.
Leave ==
  /\ Mounted /\ page' = Unmounted
  /\ UNCHANGED <<hook, server, wire, world, memory, bound, intent>>

\* A hard reload, a frame whose identity read was refused (it clears the memory),
\* or the redirect to the login page after an answer 401.
Reloaded ==
  /\ page' = Unmounted
  /\ bound' = Nobody
  /\ memory' = IF Journal THEN memory ELSE Empty
  /\ intent' = IF Journal THEN intent ELSE Dropped(intent)

Reload ==
  /\ Mounted /\ Reloaded
  /\ UNCHANGED <<hook, server, wire, world>>

-----------------------------------------------------------------------------
(* Starting and repeating a request.                                       *)

Executing(k) == [page EXCEPT !.active = k, !.kind = "pending", !.step = "check"]

\* The author is who the page shows; the journal's page has no identity of its
\* own and takes whoever is signed in.
Author == IF Journal THEN session ELSE page.actor

Start ==
  /\ Mounted /\ ~Busy /\ page.active = None /\ Author \in Users
  /\ \E k \in Keys :
       /\ intent[k].author = Nobody /\ \A j \in 1 .. k - 1 : intent[j].author # Nobody
       /\ memory' = [memory EXCEPT ![Slot(page.actor)] = k]
       /\ intent' = [intent EXCEPT ![k].author = Author, ![k].tries = 1]
       /\ page' = Executing(k)
  /\ UNCHANGED <<hook, server, wire, world, bound>>

Repeatable == IF Journal THEN {"uncertain", "accepted", "unauthorized"} ELSE {"uncertain"}

Retry ==
  /\ Mounted /\ ~Busy /\ page.active # None /\ page.kind \in Repeatable
  /\ intent[page.active].tries < MaxTries
  /\ intent' = [intent EXCEPT ![page.active].tries = @ + 1, ![page.active].refusal = 0]
  /\ page' = Executing(page.active)
  /\ UNCHANGED <<hook, server, wire, world, memory, bound>>

-----------------------------------------------------------------------------
(* What the page makes of an answer.                                       *)

Stopped(kind) == [page EXCEPT !.kind = kind, !.step = "none"]

\* SESSION_CHANGED: memory is cleared, the request is given up.
SessionChanged ==
  /\ memory' = Empty /\ bound' = Nobody
  /\ intent' = Dropped(intent)
  /\ page' = [Stopped("rejected") EXCEPT !.active = None]

NotItsActor ==
  IF Journal
  THEN page' = Stopped("unauthorized") /\ UNCHANGED <<memory, bound, intent>>
  ELSE SessionChanged

\* A refusal is conclusive when no other send of the request can be behind it: it
\* answers the only one, or it comes after the look for a receipt of the author's
\* and nothing else of the request is under way.  The page shows all refusals
\* alike; the difference is kept for the properties, like an acceptance told before.
Conclusive(w, status) ==
  \/ intent[w.key].tries = 1
  \/ /\ status = 409 /\ w.by = intent[w.key].author
     /\ \A x \in wire \ {w} : x.key # w.key

RefusalOf(w, status) ==
  IF intent[w.key].verdict = "accepted" THEN "accepted"
  ELSE IF Conclusive(w, status) THEN "refused" ELSE "doubtful"

Refused(w, status) ==
  [intent EXCEPT ![w.key].verdict = RefusalOf(w, status), ![w.key].refusal = status]

\* execute() of the two in-memory hooks: any 4xx before a receipt is a refusal,
\* shown until it is reviewed.
ScenarioAnswered(w, status) ==
  \/ /\ status = 200
     /\ page' = [page EXCEPT !.step = "after"] /\ UNCHANGED <<memory, bound, intent>>
  \/ /\ status \in {403, 404, 409}
     /\ intent' = Refused(w, status) /\ page' = Stopped("rejected")
     /\ UNCHANGED <<memory, bound>>

\* execute() of the journal: 409 and 404 clear it, 403 keeps it for recovery.
JournalAnswered(w, status) ==
  \/ /\ status = 200
     /\ intent' = [intent EXCEPT ![w.key].verdict = "accepted"]
     /\ page' = Stopped("accepted") /\ UNCHANGED <<memory, bound>>
  \/ /\ status \in {404, 409}
     /\ memory' = [memory EXCEPT ![Nobody] = None]
     /\ intent' = Refused(w, status)
     /\ page' = [Stopped("rejected") EXCEPT !.active = None] /\ UNCHANGED bound
  \/ /\ status = 403
     /\ page' = Stopped("unauthorized") /\ UNCHANGED <<memory, bound, intent>>

Answered(w, status) ==
  IF status = 401 THEN Reloaded
  ELSE IF Journal THEN JournalAnswered(w, status) ELSE ScenarioAnswered(w, status)

\* The identity read after the receipt confirmed the actor: useScenarioIntent
\* forgets the request, useWorkOrderIntent keeps it until it is reviewed.
ScenarioAccepted ==
  /\ memory' = [memory EXCEPT ![page.actor] = None]
  /\ page' = [Stopped("accepted") EXCEPT !.active = None]

WorkOrderAccepted ==
  /\ memory' = memory
  /\ page' = Stopped("accepted")

Accepted ==
  /\ intent' = [intent EXCEPT ![page.active].verdict = "accepted"]
  /\ UNCHANGED bound
  /\ IF hook = "scenario" THEN ScenarioAccepted ELSE WorkOrderAccepted

-----------------------------------------------------------------------------
(* The steps of execute().                                                 *)

IsItsActor ==
  IF Journal THEN intent[page.active].owner \in {Nobody, session}
  ELSE session = page.actor

\* getOperationsActorId refuses a role that cannot decide.
Viewer == Journal /\ session \notin allowed

\* The identity read is answered; the journal adopts the first identity it gets.
Identified ==
  /\ page.step = "check" /\ session \in Users
  /\ \/ (~IsItsActor \/ Viewer) /\ NotItsActor
     \/ /\ IsItsActor
        /\ page' = [page EXCEPT !.step = "send"]
        /\ intent' = IF Journal THEN [intent EXCEPT ![page.active].owner = session] ELSE intent
        /\ UNCHANGED <<memory, bound>>
  /\ UNCHANGED <<hook, server, wire, world>>

\* The POST leaves with the cookie the browser holds by then.
Post ==
  /\ page.step = "send"
  /\ wire' = wire \cup {[key |-> page.active, try |-> intent[page.active].tries, by |-> session]}
  /\ page' = [page EXCEPT !.step = "sent"]
  /\ UNCHANGED <<hook, server, world, memory, bound, intent>>

Confirmed ==
  /\ page.step = "after" /\ session \in Users
  /\ IF session = page.actor THEN Accepted ELSE SessionChanged
  /\ UNCHANGED <<hook, server, wire, world>>

\* An identity read is answered 401: authFetch leaves for the login page.
Redirected ==
  /\ page.step \in {"check", "after"} /\ session = Nobody
  /\ Reloaded
  /\ UNCHANGED <<hook, server, wire, world>>

\* The deadline, a network error or an answer 5xx, at any step.
Unconfirmed ==
  /\ Busy /\ page' = Stopped("uncertain")
  /\ UNCHANGED <<hook, server, wire, world, memory, bound, intent>>

\* reviewed(), and acknowledge() where the forms offer or call it: the person, or
\* the authoritative read, takes note of a settled request.
Reviewed ==
  /\ Mounted /\ ~Busy /\ page.kind \in {"accepted", "rejected"}
  /\ memory' = [memory EXCEPT ![Slot(page.actor)] = None]
  /\ page' = [Stopped("idle") EXCEPT !.active = None]
  /\ UNCHANGED <<hook, server, wire, world, bound, intent>>

-----------------------------------------------------------------------------
(* The server: authorization, then the receipt, then the conflicts.  An    *)
(* overtaken revision stays so; a busy machine, an unavailable assignee or *)
(* owner and the like refuse one send and may let the next one pass.       *)

Receipt(w) == [key |-> w.key, by |-> w.by]

\* Mutant: the revision is tested before the receipt is looked up.
StatusesFenceFirst(w) ==
  IF w.by = Nobody THEN {401}
  ELSE IF w.by \notin allowed THEN {403, 404}
  ELSE IF w.key \in overtaken THEN {409}
  ELSE IF Receipt(w) \in receipts THEN {200} ELSE {200, 409}

Statuses(w) ==
  IF w.by = Nobody THEN {401}
  ELSE IF w.by \notin allowed THEN {403, 404}
  ELSE IF Receipt(w) \in receipts THEN {200}
  ELSE IF w.key \in overtaken THEN {409} ELSE {200, 409}

Awaited(w) ==
  page.step = "sent" /\ page.active = w.key /\ intent[w.key].tries = w.try

\* The reply arrives, or nobody gets it.
Serve(w) ==
  \E status \in Statuses(w) :
    /\ wire' = wire \ {w}
    /\ receipts' = IF status = 200 THEN receipts \cup {Receipt(w)} ELSE receipts
    /\ \/ Awaited(w) /\ Answered(w, status)
       \/ UNCHANGED client
    /\ UNCHANGED <<hook, allowed, overtaken, world>>

Lose(w) ==
  /\ wire' = wire \ {w}
  /\ UNCHANGED <<hook, server, client, world>>

Overtake(k) ==
  /\ k \notin overtaken /\ intent[k].author # Nobody
  /\ overtaken' = overtaken \cup {k}
  /\ UNCHANGED <<hook, allowed, receipts, wire, client, world>>

\* Membership or role is withdrawn and given back.
ChangeAccess(u) ==
  /\ denials < MaxDenials \/ u \notin allowed
  /\ allowed' = IF u \in allowed THEN allowed \ {u} ELSE allowed \cup {u}
  /\ denials' = IF u \in allowed THEN denials + 1 ELSE denials
  /\ UNCHANGED <<hook, overtaken, receipts, wire, client, session, switches>>

\* Somebody signs in or out, in this tab or in another one.
ChangeSession(u) ==
  /\ u # session /\ switches < MaxSwitches
  /\ session' = u /\ switches' = switches + 1
  /\ UNCHANGED <<hook, server, wire, client, denials>>

Next ==
  \/ Mount \/ Leave \/ Reload
  \/ Start \/ Retry \/ Reviewed
  \/ Identified \/ Post \/ Confirmed \/ Redirected \/ Unconfirmed
  \/ \E w \in wire : Serve(w) \/ Lose(w)
  \/ \E k \in Keys : Overtake(k)
  \/ \E u \in Users : ChangeAccess(u)
  \/ \E u \in Users \cup {Nobody} : ChangeSession(u)

Spec == Init /\ [][Next]_vars

-----------------------------------------------------------------------------
(* Properties.                                                             *)

Page == [actor : Users \cup {Nobody}, active : Keys \cup {None},
         kind : {"idle", "pending", "uncertain", "accepted", "rejected", "unauthorized"},
         step : {"none", "check", "send", "sent", "after"}]
Intent == [author : Users \cup {Nobody}, owner : Users \cup {Nobody}, tries : Nat,
           verdict : {"open", "accepted", "refused", "doubtful", "dropped"},
           refusal : {0, 403, 404, 409}]
Message == [key : Keys, try : Nat, by : Users \cup {Nobody}]

TypeOK ==
  /\ hook \in {"scenario", "workOrder", "journal"}
  /\ session \in Users \cup {Nobody} /\ bound \in Users \cup {Nobody}
  /\ allowed \subseteq Users /\ overtaken \subseteq Keys
  /\ receipts \subseteq [key : Keys, by : Users]
  /\ wire \subseteq Message
  /\ memory \in [Users \cup {Nobody} -> Keys \cup {None}]
  /\ page \in Page
  /\ intent \in [Keys -> Intent]
  /\ switches \in 0 .. MaxSwitches /\ denials \in 0 .. MaxDenials

Done(k) == [key |-> k, by |-> intent[k].author] \in receipts

\* What the page says of a request is what became of it: a request told to be
\* accepted was committed; one refused conclusively was not, and stays so, since
\* no hook sends it again, although the conflict itself may pass (execute, retry
\* and the mount effect of the three hooks, whatever was lost or switched).  The
\* variables are typed.
VerdictsAreTrue ==
  /\ TypeOK
  /\ \A k \in Keys :
       /\ intent[k].verdict = "accepted" => \E r \in receipts : r.key = k
       /\ intent[k].verdict = "refused" => ~Done(k)

\* A person's second request of a scope takes effect next to a first one only
\* if they were told of the first: accepted, refused on a repetition while what
\* became of an earlier send was unknown, or lost with the tab's memory, which
\* the journal never is (start() in the three hooks).
NoSilentRepeat ==
  \A j, k \in Keys :
    (j < k /\ Done(j) /\ Done(k) /\ intent[j].author = intent[k].author)
      => \/ intent[j].verdict = "accepted"
         \/ intent[j].verdict = "doubtful" /\ intent[j].tries > 1
         \/ intent[j].verdict = "dropped" /\ ~Journal

\* What docs/frontend-live-decision-workflow.md says of the journal: an outcome
\* that is not known stays recoverable with the original key and body.  A write
\* that took effect is either told to be accepted or still in the journal; an
\* answer 409, which the same document sends to human review, is set apart.
UnknownOutcomesRecoverable ==
  \A k \in Keys :
    Journal /\ Done(k) /\ intent[k].refusal # 409
      => intent[k].verdict = "accepted" \/ memory[Nobody] = k
=============================================================================
