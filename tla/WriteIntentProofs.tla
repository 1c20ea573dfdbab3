------------------------- MODULE WriteIntentProofs --------------------------
(* Proofs about WriteIntent, for any users, any number of requests, sends,  *)
(* changes of session and of access, and each of the three hooks.           *)
EXTENDS WriteIntent, TLAPS

-----------------------------------------------------------------------------
(* The inductive invariant.                                                 *)

(* No send of a key has been accepted for anybody. *)
Untouched(k) == \A r \in receipts : r.key # k

OnWire(k) == \E w \in wire : w.key = k

(* The page is about to send the key. *)
Sending(k) == page.active = k /\ page.step \in {"check", "send"}

(* Each send of a request is a message of its own, and is sent once. *)
WireInv ==
  /\ \A w \in wire : w.try \in 1 .. intent[w.key].tries /\ intent[w.key].author # Nobody
  /\ \A w, x \in wire : w.key = x.key /\ w.try = x.try => w = x
  /\ \A w \in wire : Sending(w.key) => w.try < intent[w.key].tries

(* The page shows the request of its slot, and a slot holds requests that    *)
(* were composed.                                                            *)
PageInv ==
  /\ Mounted => page.active = memory[Slot(page.actor)]
  /\ ~Mounted => page = Unmounted
  /\ Busy => page.active # None
  /\ page.step = "after" => ~Journal /\ ~Untouched(page.active)
  /\ page.kind \in {"accepted", "rejected"} /\ page.active # None
       => intent[page.active].verdict # "open"

MemoryInv ==
  \A s \in Users \cup {Nobody} : memory[s] # None => intent[memory[s]].author # Nobody

(* A request that is still open is in the slot of its author. *)
OpenInv ==
  \A k \in Keys :
    intent[k].author # Nobody /\ intent[k].verdict = "open"
      => memory[Slot(intent[k].author)] = k

(* Keys are used in order, and a person composes a second request only when   *)
(* the first is no longer open.                                               *)
OrderInv ==
  \A j, k \in Keys :
    j < k /\ intent[k].author # Nobody
      => /\ intent[j].author # Nobody
         /\ intent[j].author = intent[k].author => intent[j].verdict # "open"

(* A request refused conclusively is never sent again: no page offers it, and *)
(* the journal has forgotten it.                                              *)
RefusedInv ==
  \A k \in Keys :
    intent[k].verdict = "refused"
      => /\ intent[k].refusal # 0
         /\ page.active = k => page.kind = "rejected" /\ ~Busy
         /\ Journal => memory[Nobody] # k

IntentOK(k) ==
  /\ intent[k].author = Nobody => intent[k].tries = 0 /\ intent[k].verdict = "open"
                                    /\ intent[k].refusal = 0 /\ Untouched(k)
  /\ intent[k].author # Nobody => intent[k].tries > 0
  /\ intent[k].refusal # 0 => intent[k].verdict # "open"
  /\ Journal => intent[k].verdict # "dropped"
  /\ intent[k].verdict = "accepted" => ~Untouched(k)
  /\ intent[k].verdict = "doubtful" => intent[k].tries > 1
  /\ intent[k].tries <= 1 /\ (OnWire(k) \/ Sending(k)) => Untouched(k)
  /\ intent[k].verdict = "refused" => ~OnWire(k) /\ ~Done(k)

IntentsInv == \A k \in Keys : IntentOK(k)

(* The part that looks at the page and the memory. *)
ClientInv == PageInv /\ MemoryInv /\ OpenInv /\ RefusedInv

Inv == TypeOK /\ WireInv /\ ClientInv /\ OrderInv /\ IntentsInv

-----------------------------------------------------------------------------
(* Facts about the state.                                                   *)

LEMMA IntentFields ==
  ASSUME TypeOK, NEW k \in Keys
  PROVE  /\ intent[k] \in Intent
         /\ intent[k].author \in Users \cup {Nobody} /\ intent[k].owner \in Users \cup {Nobody}
         /\ intent[k].tries \in Nat
         /\ intent[k].verdict \in {"open", "accepted", "refused", "doubtful", "dropped"}
         /\ intent[k].refusal \in {0, 403, 404, 409}
         /\ k # None /\ k \in Nat
  BY BoundsAssumption DEF TypeOK, Intent, Keys, None

LEMMA PageFields ==
  ASSUME TypeOK
  PROVE  /\ page.actor \in Users \cup {Nobody} /\ page.active \in Keys \cup {None}
         /\ page.kind \in {"idle", "pending", "uncertain", "accepted", "rejected", "unauthorized"}
         /\ page.step \in {"none", "check", "send", "sent", "after"}
         /\ page = [actor |-> page.actor, active |-> page.active,
                    kind |-> page.kind, step |-> page.step]
         /\ Slot(page.actor) \in Users \cup {Nobody}
         /\ memory[Slot(page.actor)] \in Keys \cup {None}
         /\ None \notin Keys
  BY BoundsAssumption DEF TypeOK, Page, Slot, Keys, None

(* The request of the page was composed by somebody. *)
LEMMA ActiveComposed ==
  ASSUME TypeOK, PageInv, MemoryInv, page.active # None
  PROVE  /\ page.active \in Keys /\ Mounted
         /\ intent[page.active].author # Nobody
         /\ memory[Slot(page.actor)] = page.active
  <1>1. page.active \in Keys /\ Slot(page.actor) \in Users \cup {Nobody}
    BY PageFields
  <1>2. Mounted
    BY DEF PageInv, Unmounted
  <1>. QED
    BY <1>1, <1>2 DEF PageInv, MemoryInv

(* What is open when the tab's memory is dropped is told so, and no more.   *)
LEMMA DroppedFields ==
  ASSUME TypeOK, NEW k \in Keys
  PROVE  LET d == Dropped(intent)[k] IN
         /\ Dropped(intent) \in [Keys -> Intent]
         /\ d.author = intent[k].author /\ d.tries = intent[k].tries
         /\ d.refusal = intent[k].refusal
         /\ \/ d.verdict = intent[k].verdict
            \/ d.verdict = "dropped" /\ \E u \in Users : memory[u] = k
         /\ d.verdict = "open" => \A u \in Users : memory[u] # k
         /\ (\A u \in Users : memory[u] # k) => d = intent[k]
  <1>1. ASSUME NEW j \in Keys
        PROVE  [intent[j] EXCEPT !.verdict = "dropped"] \in Intent
    BY IntentFields DEF Intent
  <1>2. Dropped(intent) \in [Keys -> Intent]
    BY <1>1, IntentFields DEF Dropped
  <1>3. intent[k] \in Intent
    BY IntentFields
  <1>4. /\ intent[k].verdict = "open" /\ (\E u \in Users : memory[u] = k)
             => Dropped(intent)[k] = [intent[k] EXCEPT !.verdict = "dropped"]
        /\ ~(intent[k].verdict = "open" /\ (\E u \in Users : memory[u] = k))
             => Dropped(intent)[k] = intent[k]
    BY DEF Dropped
  <1>5. LET x == [intent[k] EXCEPT !.verdict = "dropped"] IN
        /\ x.author = intent[k].author /\ x.tries = intent[k].tries
        /\ x.refusal = intent[k].refusal /\ x.verdict = "dropped"
    BY <1>3 DEF Intent
  <1>6. CASE intent[k].verdict = "open" /\ \E u \in Users : memory[u] = k
    <2>1. Dropped(intent)[k] = [intent[k] EXCEPT !.verdict = "dropped"]
      BY <1>4, <1>6
    <2>. QED
      BY <1>2, <1>5, <1>6, <2>1
  <1>7. CASE ~(intent[k].verdict = "open" /\ \E u \in Users : memory[u] = k)
    <2>1. Dropped(intent)[k] = intent[k]
      BY <1>4, <1>7
    <2>2. intent[k].verdict = "open" => \A u \in Users : memory[u] # k
      BY <1>7
    <2>. QED
      BY <1>2, <2>1, <2>2
  <1>. QED
    BY <1>6, <1>7

LEMMA TypeInit == Init => TypeOK
  <1>1. Unused \in Intent
    BY BoundsAssumption DEF Unused, Intent
  <1>2. Unmounted \in Page
    BY DEF Unmounted, Page
  <1>. QED
    BY <1>1, <1>2, BoundsAssumption DEF Init, TypeOK

-----------------------------------------------------------------------------
(* Steps that neither compose, send nor refuse a request, and commit nothing.*)

(* The request may have been told accepted or dropped, and is otherwise as it *)
(* was.                                                                       *)
Kept(k) ==
  /\ intent'[k].author = intent[k].author /\ intent'[k].tries = intent[k].tries
  /\ intent'[k].refusal = intent[k].refusal
  /\ \/ intent'[k].verdict = intent[k].verdict
     \/ intent'[k].verdict = "dropped" /\ ~Journal /\ intent[k].author # Nobody
     \/ intent'[k].verdict = "accepted" /\ ~Untouched(k) /\ intent[k].author # Nobody

Quiet ==
  /\ hook' = hook /\ receipts' = receipts
  /\ wire' \subseteq wire
  /\ page'.step \in {"check", "send"} => Sending(page'.active)
  /\ page'.step # "none" => Busy /\ page'.active = page.active
  /\ \A k \in Keys : Kept(k)

LEMMA QuietStep ==
  ASSUME Inv, Quiet
  PROVE  WireInv' /\ OrderInv' /\ IntentsInv'
  <1>1. WireInv'
    <2>1. \A w \in wire : w.key \in Keys
      BY DEF Inv, TypeOK, Message
    <2>. QED
      BY <2>1 DEF Inv, WireInv, Quiet, Kept, Sending
  <1>2. OrderInv'
    BY DEF Inv, OrderInv, Quiet, Kept
  <1>3. ASSUME NEW k \in Keys
        PROVE  IntentOK(k)'
    <2>1. IntentOK(k) /\ Kept(k)
      BY DEF Inv, IntentsInv, Quiet
    <2>2. /\ Untouched(k)' <=> Untouched(k)
          /\ OnWire(k)' => OnWire(k)
          /\ Sending(k)' => Sending(k)
      BY DEF Quiet, Untouched, OnWire, Sending
    <2>3. Done(k)' <=> Done(k)
      BY <2>1 DEF Kept, Quiet, Done
    <2>4. Journal' <=> Journal
      BY DEF Quiet, Journal
    <2>. QED
      BY <2>1, <2>2, <2>3, <2>4 DEF IntentOK, Kept
  <1>. QED
    BY <1>1, <1>2, <1>3 DEF IntentsInv

LEMMA QuietInv ==
  ASSUME Inv, Quiet, TypeOK', ClientInv'
  PROVE  Inv'
  BY QuietStep DEF Inv

(* What has nothing to do with the page: the world, the other clients, and   *)
(* messages that get lost.                                                    *)
LEMMA OutsideStep ==
  ASSUME Inv, UNCHANGED <<hook, receipts, client>>,
         wire' \subseteq wire, TypeOK'
  PROVE  Inv'
  <1>1. Quiet
    BY DEF Quiet, Kept, client, Sending, Busy
  <1>2. PageInv'
    BY DEF Inv, ClientInv, PageInv, client, Mounted, Slot, Journal, Busy, Untouched, Unmounted
  <1>3. MemoryInv' /\ OpenInv' /\ RefusedInv'
    BY DEF Inv, ClientInv, MemoryInv, OpenInv, RefusedInv, client, Slot, Journal, Busy
  <1>. QED
    BY <1>1, <1>2, <1>3, QuietInv DEF ClientInv

(* The page changes what it shows, and nothing else happens to the client.   *)
PageMoves ==
  \/ page' = Unmounted
  \/ /\ Mounted /\ Busy /\ page'.actor = page.actor /\ page'.active = page.active
     /\ page'.step \in {"check", "send"} => page.step \in {"check", "send"}
     /\ page'.step = "after" =>
          \/ page.step = "after"
          \/ ~Journal /\ page.active # None /\ ~Untouched(page.active)'
     /\ page'.kind \in {"accepted", "rejected"} => page'.kind = page.kind

LEMMA PageClient ==
  ASSUME Inv, UNCHANGED <<hook, memory, intent>>, receipts \subseteq receipts', PageMoves
  PROVE  ClientInv'
  <1>1. PageInv'
    <2>1. CASE page' = Unmounted
      BY <2>1 DEF PageInv, Mounted, Busy, Unmounted
    <2>2. CASE page' # Unmounted
      BY <2>2 DEF PageMoves, Inv, ClientInv, PageInv, Mounted, Slot, Journal, Busy, Untouched, Unmounted
    <2>. QED
      BY <2>1, <2>2
  <1>2. MemoryInv' /\ OpenInv'
    BY DEF Inv, ClientInv, MemoryInv, OpenInv, Slot, Journal
  <1>3. RefusedInv'
    <2>1. ASSUME NEW k \in Keys, intent[k].verdict = "refused" PROVE page'.active # k
      BY <2>1, IntentFields DEF Inv, ClientInv, RefusedInv, PageMoves, Unmounted
    <2>. QED
      BY <2>1 DEF Inv, ClientInv, RefusedInv, Journal
  <1>. QED
    BY <1>1, <1>2, <1>3 DEF ClientInv

LEMMA PageStep ==
  ASSUME Inv, UNCHANGED <<hook, server, wire, memory, intent>>, TypeOK', PageMoves
  PROVE  Inv'
  <1>1. Quiet
    BY DEF Quiet, Kept, server, Sending, Busy, Unmounted, PageMoves
  <1>2. receipts \subseteq receipts'
    BY DEF server
  <1>. QED
    BY <1>1, <1>2, PageClient, QuietInv

(* The memory of the tab is dropped, and the page is left or asked again.    *)
LEMMA DropClient ==
  ASSUME Inv, ~Journal, hook' = hook, TypeOK',
         memory' = Empty, intent' = Dropped(intent),
         page'.active = None /\ page'.step = "none",
         page'.actor = Nobody => page' = Unmounted
  PROVE  ClientInv' /\ \A k \in Keys : Kept(k)
  <1>1. ASSUME NEW k \in Keys
        PROVE  Kept(k)
    <2>1. (\E u \in Users : memory[u] = k) => intent[k].author # Nobody
      BY BoundsAssumption DEF Inv, ClientInv, MemoryInv, Keys, None
    <2>. QED
      BY <2>1, DroppedFields DEF Inv, Kept
  <1>2. PageInv' /\ MemoryInv'
    BY DEF PageInv, MemoryInv, Empty, Mounted, Busy, Slot, Journal, Inv, TypeOK, Page
  <1>3. OpenInv'
    <2>1. SUFFICES ASSUME NEW k \in Keys, intent'[k].author # Nobody,
                          intent'[k].verdict = "open"
                   PROVE  FALSE
      BY DEF OpenInv
    <2>2. /\ intent[k].author # Nobody /\ intent[k].author \in Users
          /\ intent[k].verdict = "open" /\ \A u \in Users : memory[u] # k
      BY <2>1, DroppedFields, IntentFields DEF Inv
    <2>. QED
      BY <2>2 DEF Inv, ClientInv, OpenInv, Slot
  <1>4. RefusedInv'
    <2>1. ASSUME NEW k \in Keys, intent'[k].verdict = "refused"
          PROVE  intent[k].verdict = "refused" /\ page'.active # k
      BY <1>1, <2>1, PageFields DEF Inv, Kept
    <2>. QED
      BY <1>1, <2>1 DEF Inv, ClientInv, RefusedInv, Kept, Journal
  <1>. QED
    BY <1>1, <1>2, <1>3, <1>4 DEF ClientInv

LEMMA DropStep ==
  ASSUME Inv, ~Journal, UNCHANGED <<hook, server, wire>>, TypeOK',
         memory' = Empty, intent' = Dropped(intent),
         page'.active = None /\ page'.step = "none",
         page'.actor = Nobody => page' = Unmounted
  PROVE  Inv'
  <1>1. ClientInv' /\ \A k \in Keys : Kept(k)
    BY DropClient
  <1>2. Quiet
    BY <1>1 DEF Quiet, server
  <1>. QED
    BY <1>1, <1>2, QuietInv

(* The request of the page is told to be settled; it may be forgotten.       *)
Settles ==
  /\ page.active # None /\ hook' = hook
  /\ page'.actor = page.actor /\ page'.step = "none"
  /\ \/ page'.active = None /\ memory' = [memory EXCEPT ![Slot(page.actor)] = None]
     \/ page'.active = page.active /\ memory' = memory
  /\ \A k \in Keys :
       /\ intent'[k].author = intent[k].author
       /\ IF k = page.active
          THEN /\ intent'[k].verdict # "open"
               /\ intent'[k].verdict = "refused"
                    => /\ intent'[k].refusal # 0 /\ page'.kind = "rejected"
                       /\ Journal => page'.active = None
          ELSE intent'[k].verdict = intent[k].verdict /\ intent'[k].refusal = intent[k].refusal

LEMMA SettledClient ==
  ASSUME Inv, Settles
  PROVE  ClientInv'
  <1>. DEFINE s == Slot(page.actor)
  <1>0. /\ TypeOK /\ page.active \in Keys /\ Mounted
        /\ intent[page.active].author # Nobody /\ memory[s] = page.active
        /\ s \in Users \cup {Nobody} /\ page.active # None
    BY ActiveComposed, PageFields DEF Inv, ClientInv, Settles
  <1>1. /\ page'.actor = page.actor /\ page'.step = "none"
        /\ \/ page'.active = None /\ memory' = [memory EXCEPT ![s] = None]
           \/ page'.active = page.active /\ memory' = memory
    BY DEF Settles
  <1>2. \A k \in Keys :
          /\ intent'[k].author = intent[k].author
          /\ k = page.active => intent'[k].verdict # "open"
          /\ k # page.active => intent'[k].verdict = intent[k].verdict
    BY DEF Settles
  <1>3. \A a : Slot(a)' = Slot(a)
    BY DEF Slot, Journal, Settles
  <1>4. Slot(page.actor)' = s
    BY <1>1 DEF Slot, Journal, Settles
  <1>. HIDE DEF s
  <1>5. PageInv'
    <2>1. Mounted' /\ ~Busy'
      BY <1>0, <1>1 DEF Mounted, Busy
    <2>2. page'.active = memory'[s]
      BY <1>0, <1>1 DEF TypeOK
    <2>. QED
      BY <1>0, <1>1, <1>2, <1>4, <2>1, <2>2 DEF PageInv, Busy
  <1>6. MemoryInv'
    BY <1>0, <1>1, <1>2 DEF Inv, ClientInv, TypeOK, MemoryInv
  <1>7. OpenInv'
    <2>1. ASSUME NEW k \in Keys, intent'[k].author # Nobody, intent'[k].verdict = "open"
          PROVE  memory'[Slot(intent'[k].author)] = k
      <3>1. k # page.active /\ intent[k].verdict = "open" /\ intent[k].author # Nobody
        BY <1>2, <2>1
      <3>2. memory[Slot(intent[k].author)] = k /\ Slot(intent[k].author) \in Users \cup {Nobody}
        BY <3>1, IntentFields, <1>0 DEF Inv, ClientInv, OpenInv, Slot
      <3>3. Slot(intent[k].author) # s
        BY <1>0, <3>1, <3>2
      <3>. QED
        BY <1>0, <1>1, <1>2, <3>2, <3>3 DEF TypeOK
    <2>. QED
      BY <1>3, <2>1 DEF OpenInv
  <1>8. RefusedInv'
    <2>1. ASSUME NEW k \in Keys, intent'[k].verdict = "refused"
          PROVE  /\ intent'[k].refusal # 0
                 /\ page'.active = k => page'.kind = "rejected" /\ page'.step = "none"
                 /\ Journal => memory'[Nobody] # k
      <3>1. CASE k = page.active
        <4>1. intent'[k].refusal # 0 /\ page'.kind = "rejected" /\ (Journal => page'.active = None)
          BY <2>1, <3>1 DEF Settles
        <4>2. Journal => s = Nobody
          BY DEF s, Slot
        <4>. QED
          BY <1>0, <1>1, <3>1, <4>1, <4>2 DEF TypeOK
      <3>2. CASE k # page.active
        <4>1. intent[k].verdict = "refused" /\ intent'[k].refusal = intent[k].refusal
          BY <2>1, <3>2 DEF Settles
        <4>2. intent[k].refusal # 0 /\ (Journal => memory[Nobody] # k)
          BY <4>1 DEF Inv, ClientInv, RefusedInv
        <4>3. k # None
          BY <1>0, IntentFields
        <4>. QED
          BY <1>0, <1>1, <3>2, <4>1, <4>2, <4>3 DEF TypeOK
      <3>. QED
        BY <3>1, <3>2
    <2>2. Journal' <=> Journal
      BY DEF Settles, Journal
    <2>. QED
      BY <2>1, <2>2 DEF RefusedInv, Busy
  <1>. QED
    BY <1>5, <1>6, <1>7, <1>8 DEF ClientInv

-----------------------------------------------------------------------------
(* The actions of the page.                                                  *)

LEMMA MountedType ==
  ASSUME TypeOK, NEW u \in Users, NEW m \in [Users \cup {Nobody} -> Keys \cup {None}]
  PROVE  LET p == MountedAs(u, m) IN
         /\ p \in Page /\ p.actor = u /\ p.active = m[Slot(u)] /\ p.step = "none"
         /\ p.kind = IF p.active = None THEN "idle"
                     ELSE IF ~Journal /\ intent[p.active].refusal # 0
                          THEN "rejected" ELSE "uncertain"
  <1>1. Slot(u) \in Users \cup {Nobody}
    BY DEF Slot
  <1>. QED
    BY <1>1 DEF MountedAs, Page

LEMMA EmptyType == Empty \in [Users \cup {Nobody} -> Keys \cup {None}]
  BY DEF Empty

LEMMA DroppedType == ASSUME TypeOK PROVE Dropped(intent) \in [Keys -> Intent]
  <1>1. ASSUME NEW k \in Keys PROVE [intent[k] EXCEPT !.verdict = "dropped"] \in Intent
    BY IntentFields DEF Intent
  <1>. QED
    BY <1>1, IntentFields DEF Dropped

(* A page that is opened takes up the request of its slot.                   *)
LEMMA TakeUp ==
  ASSUME Inv, UNCHANGED <<hook, server, wire, memory, intent>>, TypeOK', NEW u \in Users,
         page' = MountedAs(u, memory)
  PROVE  Inv'
  <1>1. /\ page'.actor = u /\ page'.active = memory[Slot(u)] /\ page'.step = "none"
        /\ page'.kind \in {"accepted", "rejected"} /\ page'.active # None
             => page'.active \in Keys /\ intent[page'.active].refusal # 0
        /\ page'.active # None /\ ~Journal /\ intent[page'.active].refusal # 0
             => page'.kind = "rejected"
    <2>1. memory \in [Users \cup {Nobody} -> Keys \cup {None}] /\ Slot(u) \in Users \cup {Nobody}
      BY DEF Inv, TypeOK, Slot
    <2>. QED
      BY <2>1, MountedType DEF Inv
  <1>2. Quiet
    BY <1>1 DEF Quiet, Kept, server
  <1>3. PageInv'
    BY <1>1, BoundsAssumption DEF Inv, IntentsInv, IntentOK, PageInv, Mounted, Busy, Slot, Journal
  <1>4. MemoryInv' /\ OpenInv'
    BY DEF Inv, ClientInv, MemoryInv, OpenInv, Slot, Journal
  <1>5. RefusedInv'
    <2>1. ASSUME NEW k \in Keys, intent[k].verdict = "refused"
          PROVE  /\ intent[k].refusal # 0 /\ (Journal => memory[Nobody] # k)
                 /\ page'.active = k => page'.kind = "rejected"
      <3>1. intent[k].refusal # 0 /\ (Journal => memory[Nobody] # k) /\ k # None
        BY <2>1, IntentFields DEF Inv, ClientInv, RefusedInv
      <3>2. Journal => page'.active # k
        BY <1>1, <3>1 DEF Slot
      <3>. QED
        BY <1>1, <3>1, <3>2
    <2>. QED
      BY <1>1, <2>1 DEF RefusedInv, Busy, Journal
  <1>. QED
    BY <1>2, <1>3, <1>4, <1>5, QuietInv DEF ClientInv

LEMMA MountStep == ASSUME Inv, Mount PROVE Inv'
  <1>. DEFINE u == session
  <1>1. u \in Users /\ UNCHANGED <<hook, server, wire, world>> /\ TypeOK
    BY DEF Mount, Inv
  <1>2. CASE Journal
    <2>1. page' = MountedAs(u, memory) /\ UNCHANGED <<memory, bound, intent>>
      BY <1>2 DEF Mount, JournalMount
    <2>2. TypeOK'
      BY <1>1, <2>1, MountedType DEF TypeOK, server, world
    <2>. QED
      BY <1>1, <2>1, <2>2, TakeUp
  <1>3. CASE ~Journal /\ bound \in {Nobody, u}
    <2>1. page' = MountedAs(u, memory) /\ UNCHANGED <<memory, intent>> /\ bound' = u
      BY <1>3 DEF Mount, ScenarioMount
    <2>2. TypeOK'
      BY <1>1, <2>1, MountedType DEF TypeOK, server, world
    <2>. QED
      BY <1>1, <2>1, <2>2, TakeUp
  <1>4. CASE ~Journal /\ bound \notin {Nobody, u}
    <2>1. /\ page' = MountedAs(u, Empty) /\ bound' = u
          /\ memory' = Empty /\ intent' = Dropped(intent)
      BY <1>4 DEF Mount, ScenarioMount
    <2>2. page' \in Page /\ page'.actor = u /\ page'.active = None /\ page'.step = "none"
      <3>1. Empty[Slot(u)] = None
        BY <1>1 DEF Slot, Empty
      <3>. QED
        BY <1>1, <2>1, <3>1, MountedType, EmptyType
    <2>3. TypeOK'
      BY <1>1, <2>1, <2>2, EmptyType, DroppedType DEF TypeOK, server, world
    <2>4. page'.actor # Nobody
      BY <1>1, <2>2, BoundsAssumption
    <2>. QED
      BY <1>1, <1>4, <2>1, <2>2, <2>3, <2>4, DropStep
  <1>. QED
    BY <1>2, <1>3, <1>4

LEMMA UnmountedType == Unmounted \in Page
  BY DEF Unmounted, Page

LEMMA LeaveStep == ASSUME Inv, Leave PROVE Inv'
  <1>1. TypeOK'
    BY UnmountedType DEF Inv, Leave, TypeOK, server, world
  <1>. QED
    BY <1>1, PageStep DEF Leave, PageMoves

LEMMA ReloadedStep ==
  ASSUME Inv, Reloaded, UNCHANGED <<hook, server, wire, world>>
  PROVE  Inv'
  <1>1. TypeOK'
    BY UnmountedType, EmptyType, DroppedType DEF Inv, Reloaded, TypeOK, server, world
  <1>2. CASE Journal
    BY <1>1, <1>2, PageStep DEF Reloaded, PageMoves
  <1>3. CASE ~Journal
    BY <1>1, <1>3, DropStep DEF Reloaded, Unmounted
  <1>. QED
    BY <1>2, <1>3

(* Where the page has stopped. *)
LEMMA StoppedFields ==
  ASSUME TypeOK, NEW kind \in {"idle", "pending", "uncertain", "accepted", "rejected", "unauthorized"}
  PROVE  /\ Stopped(kind) \in Page
         /\ Stopped(kind).actor = page.actor /\ Stopped(kind).active = page.active
         /\ Stopped(kind).kind = kind /\ Stopped(kind).step = "none"
         /\ LET p == [Stopped(kind) EXCEPT !.active = None] IN
            /\ p \in Page /\ p.actor = page.actor /\ p.active = None
            /\ p.kind = kind /\ p.step = "none"
  BY DEF Stopped, TypeOK, Page

LEMMA SessionChangedStep ==
  ASSUME Inv, ~Journal, SessionChanged, Mounted, UNCHANGED <<hook, server, wire, world>>
  PROVE  Inv'
  <1>1. page' \in Page /\ page'.actor = page.actor /\ page'.active = None /\ page'.step = "none"
    BY StoppedFields DEF SessionChanged, Inv
  <1>2. TypeOK'
    BY <1>1, EmptyType, DroppedType DEF Inv, SessionChanged, TypeOK, server, world
  <1>. QED
    BY <1>1, <1>2, DropStep DEF SessionChanged, Mounted

LEMMA UnconfirmedStep == ASSUME Inv, Unconfirmed PROVE Inv'
  <1>1. /\ page' \in Page /\ page'.actor = page.actor /\ page'.active = page.active
        /\ page'.step = "none" /\ page'.kind = "uncertain"
    BY StoppedFields DEF Unconfirmed, Inv
  <1>2. TypeOK'
    BY <1>1 DEF Inv, Unconfirmed, TypeOK, server, world
  <1>3. Mounted
    BY DEF Unconfirmed, Inv, ClientInv, PageInv, Unmounted, Busy
  <1>. QED
    BY <1>1, <1>2, <1>3, PageStep DEF Unconfirmed, PageMoves

LEMMA ReviewedStep == ASSUME Inv, Reviewed PROVE Inv'
  <1>. DEFINE s == Slot(page.actor)
  <1>1. /\ page' \in Page /\ page'.actor = page.actor /\ page'.active = None
        /\ page'.step = "none" /\ page'.kind = "idle"
    BY StoppedFields DEF Reviewed, Inv
  <1>2. s \in Users \cup {Nobody} /\ memory' = [memory EXCEPT ![s] = None]
        /\ UNCHANGED <<hook, server, wire, world, bound, intent>>
    BY PageFields DEF Reviewed, Inv
  <1>3. TypeOK'
    BY <1>1, <1>2 DEF Inv, TypeOK, server, world
  <1>4. Quiet
    BY <1>1, <1>2 DEF Quiet, Kept, server
  <1>5. PageInv'
    BY <1>1, <1>2 DEF Reviewed, Inv, ClientInv, TypeOK, PageInv, Mounted, Busy, Slot, Journal
  <1>6. MemoryInv'
    BY <1>2 DEF Inv, ClientInv, TypeOK, MemoryInv
  <1>7. OpenInv'
    <2>1. page.active # None => intent[page.active].verdict # "open"
      BY DEF Inv, ClientInv, PageInv, Reviewed
    <2>2. page.active = memory[s]
      BY DEF Inv, ClientInv, PageInv, Reviewed
    <2>3. ASSUME NEW k \in Keys, intent[k].author # Nobody, intent[k].verdict = "open"
          PROVE  Slot(intent[k].author) # s /\ memory[Slot(intent[k].author)] = k
      BY <2>1, <2>2, <2>3, PageFields DEF Inv, ClientInv, OpenInv
    <2>4. \A k \in Keys : Slot(intent[k].author) \in Users \cup {Nobody}
      BY IntentFields DEF Inv, Slot
    <2>5. \A a : Slot(a)' = Slot(a)
      BY <1>2 DEF Slot, Journal
    <2>. HIDE DEF s
    <2>. QED
      BY <1>2, <2>3, <2>4, <2>5 DEF OpenInv, Inv, TypeOK
  <1>8. RefusedInv'
    <2>1. ASSUME NEW k \in Keys, intent[k].verdict = "refused"
          PROVE  /\ intent[k].refusal # 0 /\ page'.active # k
                 /\ Journal => memory'[Nobody] # k
      <3>1. intent[k].refusal # 0 /\ (Journal => memory[Nobody] # k) /\ k # None
        BY <2>1, IntentFields DEF Inv, ClientInv, RefusedInv
      <3>2. memory \in [Users \cup {Nobody} -> Keys \cup {None}]
        BY DEF Inv, TypeOK
      <3>. HIDE DEF s
      <3>. QED
        BY <1>1, <1>2, <3>1, <3>2
    <2>. QED
      BY <1>2, <2>1 DEF RefusedInv, Journal
  <1>. QED
    BY <1>3, <1>4, <1>5, <1>6, <1>7, <1>8, QuietInv DEF ClientInv

(* The identity is confirmed before the request is sent.                     *)
LEMMA IdentifiedStep == ASSUME Inv, Identified PROVE Inv'
  <1>0. /\ TypeOK /\ Busy /\ session \in Users
        /\ page.active \in Keys /\ Mounted /\ intent[page.active].author # Nobody
        /\ memory[Slot(page.actor)] = page.active
        /\ UNCHANGED <<hook, server, wire, world>>
    <2>1. Busy
      BY DEF Identified, Busy
    <2>2. page.active # None
      BY <2>1 DEF Inv, ClientInv, PageInv
    <2>. QED
      BY <2>1, <2>2, ActiveComposed DEF Inv, ClientInv, Identified
  <1>1. CASE NotItsActor /\ Journal
    <2>1. page' = Stopped("unauthorized") /\ UNCHANGED <<memory, bound, intent>>
      BY <1>1 DEF NotItsActor
    <2>2. /\ page' \in Page /\ page'.actor = page.actor /\ page'.active = page.active
          /\ page'.step = "none" /\ page'.kind = "unauthorized"
      BY <2>1, StoppedFields, <1>0
    <2>3. TypeOK'
      BY <1>0, <2>1, <2>2 DEF TypeOK, server, world
    <2>. QED
      BY <1>0, <2>1, <2>2, <2>3, PageStep DEF PageMoves
  <1>2. CASE NotItsActor /\ ~Journal
    BY <1>0, <1>2, SessionChangedStep DEF NotItsActor
  <1>3. CASE ~NotItsActor
    <2>1. /\ page' = [page EXCEPT !.step = "send"]
          /\ intent' = IF Journal THEN [intent EXCEPT ![page.active].owner = session] ELSE intent
          /\ UNCHANGED <<memory, bound>> /\ page.step = "check"
      BY <1>3 DEF Identified
    <2>2. /\ page' \in Page /\ page'.actor = page.actor /\ page'.active = page.active
          /\ page'.step = "send" /\ page'.kind = page.kind
      BY <1>0, <2>1 DEF TypeOK, Page
    <2>3. intent' \in [Keys -> Intent] /\ \A k \in Keys :
            /\ intent'[k].author = intent[k].author /\ intent'[k].tries = intent[k].tries
            /\ intent'[k].refusal = intent[k].refusal
            /\ intent'[k].verdict = intent[k].verdict
      <3>1. intent \in [Keys -> Intent]
        BY <1>0 DEF TypeOK
      <3>2. [intent[page.active] EXCEPT !.owner = session] \in Intent
        BY <1>0, <3>1 DEF Intent
      <3>. QED
        BY <1>0, <2>1, <3>1, <3>2 DEF Intent
    <2>4. TypeOK'
      BY <1>0, <2>1, <2>2, <2>3 DEF TypeOK, server, world
    <2>5. Quiet
      BY <1>0, <2>1, <2>2, <2>3 DEF Quiet, Kept, server, Sending, Busy
    <2>6. PageInv'
      BY <1>0, <2>1, <2>2, <2>3 DEF Inv, ClientInv, PageInv, Mounted, Busy, Slot, Journal
    <2>7. MemoryInv'
      BY <1>0, <2>1, <2>3 DEF Inv, ClientInv, TypeOK, MemoryInv
    <2>8. OpenInv'
      <3>1. \A a : Slot(a)' = Slot(a)
        BY <1>0 DEF Slot, Journal
      <3>. QED
        BY <2>1, <2>3, <3>1 DEF Inv, ClientInv, OpenInv
    <2>9. RefusedInv'
      <3>1. ASSUME NEW k \in Keys, intent[k].verdict = "refused" PROVE page'.active # k
        BY <1>0, <2>2, <3>1 DEF Inv, ClientInv, RefusedInv
      <3>. QED
        BY <1>0, <2>1, <2>3, <3>1 DEF Inv, ClientInv, RefusedInv, Journal
    <2>. QED
      BY <2>4, <2>5, <2>6, <2>7, <2>8, <2>9, QuietInv DEF ClientInv
  <1>. QED
    BY <1>1, <1>2, <1>3

(* The identity read after the receipt: the request is told to be accepted.  *)
LEMMA AcceptedStep ==
  ASSUME Inv, ~Journal, Accepted, page.step = "after", UNCHANGED <<hook, server, wire, world>>
  PROVE  Inv'
  <1>. DEFINE s == Slot(page.actor)
  <1>0. /\ TypeOK /\ Busy /\ page.active \in Keys /\ Mounted
        /\ intent[page.active].author # Nobody /\ memory[s] = page.active
        /\ ~Untouched(page.active) /\ s = page.actor /\ s \in Users \cup {Nobody}
        /\ page.active # None
    <2>1. Busy
      BY DEF Busy
    <2>2. page.active # None /\ ~Untouched(page.active)
      BY <2>1 DEF Inv, ClientInv, PageInv
    <2>. QED
      BY <2>1, <2>2, ActiveComposed, PageFields DEF Inv, ClientInv, Slot
  <1>1. intent' \in [Keys -> Intent] /\ \A k \in Keys :
            /\ intent'[k].author = intent[k].author /\ intent'[k].tries = intent[k].tries
            /\ intent'[k].refusal = intent[k].refusal
            /\ intent'[k].verdict = IF k = page.active THEN "accepted" ELSE intent[k].verdict
    <2>1. intent \in [Keys -> Intent]
      BY <1>0 DEF TypeOK
    <2>2. [intent[page.active] EXCEPT !.verdict = "accepted"] \in Intent
      BY <1>0, <2>1 DEF Intent
    <2>. QED
      BY <1>0, <2>1, <2>2 DEF Intent, Accepted
  <1>2. /\ page' \in Page /\ page'.actor = page.actor /\ page'.step = "none"
        /\ page'.kind = "accepted"
        /\ \/ page'.active = None /\ memory' = [memory EXCEPT ![s] = None]
           \/ page'.active = page.active /\ memory' = memory
    <2>1. CASE hook = "scenario"
      <3>1. /\ memory' = [memory EXCEPT ![page.actor] = None]
            /\ page' = [Stopped("accepted") EXCEPT !.active = None]
        BY <2>1 DEF Accepted, ScenarioAccepted
      <3>2. /\ [Stopped("accepted") EXCEPT !.active = None] \in Page
            /\ [Stopped("accepted") EXCEPT !.active = None].actor = page.actor
            /\ [Stopped("accepted") EXCEPT !.active = None].active = None
            /\ [Stopped("accepted") EXCEPT !.active = None].kind = "accepted"
            /\ [Stopped("accepted") EXCEPT !.active = None].step = "none"
        BY <1>0, StoppedFields
      <3>. QED
        BY <1>0, <3>1, <3>2
    <2>2. CASE hook # "scenario"
      BY <1>0, <2>2, StoppedFields DEF Accepted, WorkOrderAccepted
    <2>. QED
      BY <2>1, <2>2
  <1>3. TypeOK'
    BY <1>0, <1>1, <1>2 DEF TypeOK, Accepted, server, world
  <1>4. Quiet
    BY <1>0, <1>1, <1>2 DEF Quiet, Kept, server
  <1>5. Settles
    BY <1>0, <1>1, <1>2 DEF Settles
  <1>. QED
    BY <1>3, <1>4, <1>5, SettledClient, QuietInv

LEMMA ConfirmedStep == ASSUME Inv, Confirmed PROVE Inv'
  <1>1. ~Journal /\ Mounted
    BY DEF Inv, ClientInv, PageInv, Confirmed, Unmounted
  <1>. QED
    BY <1>1, AcceptedStep, SessionChangedStep DEF Confirmed

-----------------------------------------------------------------------------
(* The actions that compose a request or send it.                            *)

LEMMA ExecutingFields ==
  ASSUME TypeOK, NEW k \in Keys
  PROVE  /\ Executing(k) \in Page /\ Executing(k).actor = page.actor
         /\ Executing(k).active = k /\ Executing(k).kind = "pending"
         /\ Executing(k).step = "check"
  BY DEF Executing, TypeOK, Page

LEMMA StartStep == ASSUME Inv, Start PROVE Inv'
  <1>. DEFINE s == Slot(page.actor)
              a == Author
  <1>1. PICK k \in Keys :
          /\ intent[k].author = Nobody /\ \A j \in 1 .. k - 1 : intent[j].author # Nobody
          /\ memory' = [memory EXCEPT ![s] = k]
          /\ intent' = [intent EXCEPT ![k].author = a, ![k].tries = 1]
          /\ page' = Executing(k)
    BY DEF Start
  <1>2. /\ TypeOK /\ Mounted /\ ~Busy /\ page.active = None /\ a \in Users
        /\ UNCHANGED <<hook, server, wire, world, bound>>
        /\ s \in Users \cup {Nobody} /\ Slot(a) = s /\ memory[s] = None
    BY PageFields DEF Inv, ClientInv, Start, PageInv, Author, Slot
  <1>3. /\ page' \in Page /\ page'.actor = page.actor /\ page'.active = k
        /\ page'.kind = "pending" /\ page'.step = "check"
    BY <1>1, <1>2, ExecutingFields
  <1>4. /\ intent' \in [Keys -> Intent]
        /\ \A j \in Keys \ {k} : intent'[j] = intent[j]
        /\ intent'[k].author = a /\ intent'[k].tries = 1
        /\ intent'[k].verdict = intent[k].verdict /\ intent'[k].refusal = intent[k].refusal
    <2>. HIDE DEF a
    <2>1. intent \in [Keys -> Intent]
      BY <1>2 DEF TypeOK
    <2>. DEFINE i == intent[k]
                n == [i EXCEPT !.author = a, !.tries = 1]
    <2>2. i \in Intent
      BY <2>1
    <2>3. n \in Intent /\ n.author = a /\ n.tries = 1
          /\ n.verdict = i.verdict /\ n.refusal = i.refusal
      <3>1. a \in Users
        BY <1>2
      <3>. HIDE DEF i
      <3>2. n.author = a /\ n.tries = 1 /\ n.verdict = i.verdict /\ n.refusal = i.refusal
        BY <2>2, <3>1 DEF Intent
      <3>3. [i EXCEPT !.author = a] \in Intent
        BY <2>2, <3>1 DEF Intent
      <3>4. n = [[i EXCEPT !.author = a] EXCEPT !.tries = 1]
        OBVIOUS
      <3>. HIDE DEF n
      <3>5. n \in Intent
        <4>1. ASSUME NEW x \in Intent PROVE [x EXCEPT !.tries = 1] \in Intent
          BY DEF Intent
        <4>. QED
          BY <3>3, <3>4, <4>1
      <3>. QED
        BY <3>2, <3>5
    <2>4. intent' = [intent EXCEPT ![k] = n]
      BY <1>1
    <2>. HIDE DEF n
    <2>. QED
      BY <2>1, <2>3, <2>4
  <1>. HIDE DEF s, a
  <1>5. TypeOK'
    BY <1>1, <1>2, <1>3, <1>4 DEF TypeOK, server, world
  <1>6. /\ intent[k].tries = 0 /\ intent[k].verdict = "open" /\ intent[k].refusal = 0
        /\ Untouched(k) /\ ~OnWire(k)
    BY <1>1 DEF Inv, IntentsInv, IntentOK, WireInv, OnWire
  <1>7. WireInv'
    <2>1. \A w \in wire : w.key \in Keys /\ w.key # k
      BY <1>2, <1>6 DEF TypeOK, Message, OnWire
    <2>2. wire' = wire /\ \A w \in wire : ~Sending(w.key)'
      BY <1>2, <1>3, <2>1 DEF Sending
    <2>. QED
      BY <1>4, <2>1, <2>2 DEF Inv, WireInv
  <1>8. \A x : Slot(x)' = Slot(x)
    BY <1>2 DEF Slot, Journal
  <1>9. a # Nobody /\ k # None /\ None \notin Keys /\ k \in Nat
    BY <1>2, BoundsAssumption, IntentFields, PageFields
  <1>10. PageInv'
    <2>1. Mounted' /\ Busy'
      BY <1>2, <1>3 DEF Mounted, Busy
    <2>2. page'.active = memory'[s]
      BY <1>1, <1>2, <1>3 DEF TypeOK
    <2>3. Slot(page.actor)' = s
      BY <1>2, <1>3 DEF Slot, Journal, s
    <2>. QED
      BY <1>3, <1>9, <2>1, <2>2, <2>3 DEF PageInv
  <1>11. MemoryInv'
    BY <1>1, <1>2, <1>4, <1>9 DEF Inv, ClientInv, TypeOK, MemoryInv
  <1>12. \A j \in Keys : intent[j].author # Nobody /\ intent[j].verdict = "open"
                           => Slot(intent[j].author) # s /\ intent[j].author # a
    BY <1>2, <1>9 DEF Inv, ClientInv, OpenInv
  <1>13. OpenInv'
    <2>1. ASSUME NEW j \in Keys, intent'[j].author # Nobody, intent'[j].verdict = "open"
          PROVE  memory'[Slot(intent'[j].author)] = j
      <3>1. CASE j = k
        BY <1>1, <1>2, <1>4, <3>1 DEF TypeOK
      <3>2. CASE j # k
        <4>1. /\ memory[Slot(intent[j].author)] = j /\ Slot(intent[j].author) # s
              /\ intent'[j] = intent[j]
          BY <1>4, <1>12, <2>1, <3>2 DEF Inv, ClientInv, OpenInv
        <4>2. Slot(intent[j].author) \in Users \cup {Nobody}
          BY <1>2, IntentFields DEF Slot
        <4>. QED
          BY <1>1, <1>2, <4>1, <4>2 DEF TypeOK
      <3>. QED
        BY <3>1, <3>2
    <2>. QED
      BY <1>8, <2>1 DEF OpenInv
  <1>14. OrderInv'
    <2>1. ASSUME NEW i \in Keys, NEW j \in Keys, i < j, intent'[j].author # Nobody
          PROVE  /\ intent'[i].author # Nobody
                 /\ intent'[i].author = intent'[j].author => intent'[i].verdict # "open"
      <3>1. CASE j = k
        <4>1. i \in 1 .. k - 1 /\ i # k
          BY <2>1, <3>1, <1>9 DEF Keys
        <4>2. intent'[i] = intent[i] /\ intent[i].author # Nobody
          BY <1>1, <1>4, <4>1
        <4>. QED
          BY <1>4, <1>12, <3>1, <4>2
      <3>2. CASE j # k
        <4>1. intent[j].author # Nobody
          BY <1>4, <2>1, <3>2
        <4>2. /\ intent[i].author # Nobody
              /\ intent[i].author = intent[j].author => intent[i].verdict # "open"
          BY <2>1, <4>1 DEF Inv, OrderInv
        <4>3. i # k
          BY <1>1, <4>2
        <4>. QED
          BY <1>4, <3>2, <4>2, <4>3
      <3>. QED
        BY <3>1, <3>2
    <2>. QED
      BY <2>1 DEF OrderInv
  <1>15. IntentsInv'
    <2>1. ASSUME NEW j \in Keys PROVE IntentOK(j)'
      <3>1. /\ Untouched(j)' <=> Untouched(j)
            /\ OnWire(j)' <=> OnWire(j)
            /\ Journal' <=> Journal
            /\ receipts' = receipts
        BY <1>2 DEF Untouched, OnWire, Journal, server
      <3>2. CASE j = k
        BY <1>4, <1>6, <1>9, <3>1, <3>2 DEF IntentOK
      <3>3. CASE j # k
        <4>1. ~Sending(j)'
          BY <1>3, <3>3 DEF Sending
        <4>2. intent'[j] = intent[j] /\ (Done(j)' <=> Done(j))
          BY <1>4, <3>1, <3>3 DEF Done
        <4>. QED
          BY <3>1, <4>1, <4>2 DEF Inv, IntentsInv, IntentOK
      <3>. QED
        BY <3>2, <3>3
    <2>. QED
      BY <2>1 DEF IntentsInv
  <1>16. RefusedInv'
    <2>1. ASSUME NEW j \in Keys, intent'[j].verdict = "refused"
          PROVE  /\ intent'[j].refusal # 0 /\ page'.active # j
                 /\ Journal => memory'[Nobody] # j
      <3>1. j # k /\ intent'[j] = intent[j]
        BY <1>4, <1>6, <2>1
      <3>2. intent[j].refusal # 0 /\ (Journal => memory[Nobody] # j)
        BY <2>1, <3>1 DEF Inv, ClientInv, RefusedInv
      <3>. QED
        BY <1>1, <1>2, <1>3, <3>1, <3>2 DEF TypeOK
    <2>. QED
      BY <1>2, <2>1 DEF RefusedInv, Journal
  <1>. QED
    BY <1>5, <1>7, <1>10, <1>11, <1>13, <1>14, <1>15, <1>16 DEF Inv, ClientInv

LEMMA RetryStep == ASSUME Inv, Retry PROVE Inv'
  <1>. DEFINE k == page.active
  <1>1. /\ TypeOK /\ k \in Keys /\ Mounted /\ ~Busy /\ k # None
        /\ intent[k].author # Nobody /\ memory[Slot(page.actor)] = k
        /\ intent[k].tries \in Nat /\ intent[k].tries > 0
        /\ intent' = [intent EXCEPT ![k].tries = @ + 1, ![k].refusal = 0]
        /\ page' = Executing(k)
        /\ UNCHANGED <<hook, server, wire, world, memory, bound>>
    BY ActiveComposed, IntentFields DEF Inv, ClientInv, Retry, IntentsInv, IntentOK
  <1>2. /\ page' \in Page /\ page'.actor = page.actor /\ page'.active = k
        /\ page'.kind = "pending" /\ page'.step = "check"
    BY <1>1, ExecutingFields
  <1>3. /\ intent' \in [Keys -> Intent]
        /\ \A j \in Keys \ {k} : intent'[j] = intent[j]
        /\ intent'[k].author = intent[k].author /\ intent'[k].tries = intent[k].tries + 1
        /\ intent'[k].verdict = intent[k].verdict /\ intent'[k].refusal = 0
    <2>. HIDE DEF k
    <2>. DEFINE i == intent[k]
                t == [i EXCEPT !.tries = @ + 1]
                n == [i EXCEPT !.tries = @ + 1, !.refusal = 0]
    <2>1. i \in Intent /\ intent \in [Keys -> Intent]
      BY <1>1, IntentFields DEF TypeOK
    <2>2. n \in Intent /\ n.author = i.author /\ n.tries = i.tries + 1
          /\ n.verdict = i.verdict /\ n.refusal = 0
      <3>. HIDE DEF i
      <3>1. t \in Intent
        BY <2>1 DEF Intent
      <3>2. n = [t EXCEPT !.refusal = 0]
        OBVIOUS
      <3>3. n \in Intent
        <4>. HIDE DEF t, n
        <4>. QED
          BY <3>1, <3>2 DEF Intent
      <3>4. n.author = i.author /\ n.tries = i.tries + 1
            /\ n.verdict = i.verdict /\ n.refusal = 0
        BY <2>1 DEF Intent
      <3>. QED
        BY <3>3, <3>4
    <2>3. intent' = [intent EXCEPT ![k] = n]
      BY <1>1
    <2>4. k \in Keys
      BY <1>1
    <2>. HIDE DEF n
    <2>5. intent' \in [Keys -> Intent] /\ intent'[k] = n
          /\ \A j \in Keys \ {k} : intent'[j] = intent[j]
      BY <2>1, <2>2, <2>3, <2>4
    <2>. QED
      BY <2>2, <2>5
  <1>. HIDE DEF k
  <1>4. TypeOK'
    BY <1>1, <1>2, <1>3 DEF TypeOK, server, world
  <1>5. \A a : Slot(a)' = Slot(a)
    BY <1>1 DEF Slot, Journal
  <1>6. WireInv'
    <2>1. ASSUME NEW w \in wire
          PROVE  /\ w.key \in Keys /\ w.try \in Nat
                 /\ w.try \in 1 .. intent[w.key].tries /\ intent[w.key].author # Nobody
                 /\ w.key # k => intent'[w.key] = intent[w.key] /\ ~Sending(w.key)'
      BY <1>1, <1>2, <1>3 DEF Inv, TypeOK, Message, WireInv, Sending
    <2>2. wire' = wire
      BY <1>1
    <2>3. ASSUME NEW w \in wire
          PROVE  /\ w.try \in 1 .. intent'[w.key].tries /\ intent'[w.key].author # Nobody
                 /\ Sending(w.key)' => w.try < intent'[w.key].tries
      BY <1>1, <1>3, <2>1
    <2>. QED
      BY <2>2, <2>3 DEF Inv, WireInv
  <1>7. PageInv'
    <2>1. Mounted' /\ Busy'
      BY <1>1, <1>2 DEF Mounted, Busy
    <2>2. Slot(page.actor)' = Slot(page.actor)
      BY <1>1, <1>2 DEF Slot, Journal
    <2>. QED
      BY <1>1, <1>2, <2>1, <2>2 DEF PageInv
  <1>8. MemoryInv' /\ OpenInv'
    <2>1. MemoryInv'
      BY <1>1, <1>3, <1>5 DEF Inv, ClientInv, TypeOK, MemoryInv
    <2>2. OpenInv'
      BY <1>1, <1>3, <1>5 DEF Inv, ClientInv, TypeOK, OpenInv
    <2>. QED
      BY <2>1, <2>2
  <1>9. OrderInv'
    BY <1>3 DEF Inv, OrderInv
  <1>10. intent[k].verdict # "refused"
    BY <1>1 DEF Inv, ClientInv, RefusedInv, Retry, Repeatable, k
  <1>11. IntentsInv'
    <2>1. ASSUME NEW j \in Keys PROVE IntentOK(j)'
      <3>1. /\ Untouched(j)' <=> Untouched(j)
            /\ OnWire(j)' <=> OnWire(j)
            /\ Journal' <=> Journal
            /\ receipts' = receipts
        BY <1>1 DEF Untouched, OnWire, Journal, server
      <3>2. IntentOK(j)
        BY DEF Inv, IntentsInv
      <3>3. CASE j = k
        BY <1>1, <1>3, <1>10, <3>1, <3>2, <3>3 DEF IntentOK
      <3>4. CASE j # k
        <4>1. ~Sending(j)'
          BY <1>2, <3>4 DEF Sending
        <4>2. intent'[j] = intent[j] /\ (Done(j)' <=> Done(j))
          BY <1>3, <3>1, <3>4 DEF Done
        <4>. QED
          BY <3>1, <3>2, <4>1, <4>2 DEF IntentOK
      <3>. QED
        BY <3>3, <3>4
    <2>. QED
      BY <2>1 DEF IntentsInv
  <1>12. RefusedInv'
    <2>1. ASSUME NEW j \in Keys, intent'[j].verdict = "refused"
          PROVE  intent[j].verdict = "refused" /\ intent'[j] = intent[j] /\ page'.active # j
      BY <1>2, <1>3, <1>10, <2>1
    <2>. QED
      BY <1>1, <2>1 DEF Inv, ClientInv, RefusedInv, Journal
  <1>. QED
    BY <1>4, <1>6, <1>7, <1>8, <1>9, <1>11, <1>12 DEF Inv, ClientInv

LEMMA PostStep == ASSUME Inv, Post PROVE Inv'
  <1>. DEFINE k == page.active
              m == [key |-> k, try |-> intent[k].tries, by |-> session]
  <1>1. /\ TypeOK /\ k \in Keys /\ Mounted /\ k # None /\ Sending(k) /\ Busy
        /\ intent[k].author # Nobody /\ memory[Slot(page.actor)] = k
        /\ intent[k].tries \in Nat /\ intent[k].tries > 0
    <2>1. Busy /\ Sending(k)
      BY DEF Post, Busy, Sending
    <2>2. k # None
      BY <2>1 DEF Inv, ClientInv, PageInv
    <2>. QED
      BY <2>1, <2>2, ActiveComposed, IntentFields DEF Inv, ClientInv, IntentsInv, IntentOK
  <1>2. /\ wire' = wire \cup {m} /\ m.key = k /\ m.try = intent[k].tries /\ m \in Message
        /\ UNCHANGED <<hook, server, world, memory, bound, intent>>
    BY <1>1 DEF Post, TypeOK, Message
  <1>3. /\ page' \in Page /\ page'.actor = page.actor /\ page'.active = k
        /\ page'.kind = page.kind /\ page'.step = "sent"
    BY <1>1 DEF Post, TypeOK, Page
  <1>. HIDE DEF m
  <1>4. TypeOK'
    BY <1>1, <1>2, <1>3 DEF TypeOK, server, world
  <1>5. ClientInv'
    <2>1. PageMoves /\ receipts \subseteq receipts'
      BY <1>1, <1>2, <1>3 DEF PageMoves, server
    <2>. QED
      BY <1>2, <2>1, PageClient
  <1>6. WireInv'
    <2>1. \A x \in Keys : ~Sending(x)'
      BY <1>3 DEF Sending
    <2>2. ASSUME NEW w \in wire
          PROVE  /\ w.key \in Keys /\ w.try \in 1 .. intent[w.key].tries
                 /\ intent[w.key].author # Nobody
                 /\ w.key = k => w.try # m.try
      BY <1>1, <1>2 DEF Inv, TypeOK, Message, WireInv
    <2>3. \A w \in wire' :
            w.key \in Keys /\ w.try \in 1 .. intent[w.key].tries /\ intent[w.key].author # Nobody
      BY <1>1, <1>2, <2>2
    <2>4. \A w, x \in wire' : w.key = x.key /\ w.try = x.try => w = x
      BY <1>2, <2>2 DEF Inv, WireInv
    <2>5. intent' = intent
      BY <1>2
    <2>. QED
      BY <2>1, <2>3, <2>4, <2>5 DEF WireInv
  <1>7. OrderInv'
    BY <1>2 DEF Inv, OrderInv
  <1>8. IntentsInv'
    <2>1. ASSUME NEW j \in Keys PROVE IntentOK(j)'
      <3>1. /\ Untouched(j)' <=> Untouched(j)
            /\ Journal' <=> Journal
            /\ receipts' = receipts /\ intent' = intent
        BY <1>2 DEF Untouched, Journal, server
      <3>2. /\ OnWire(j)' <=> OnWire(j) \/ j = k
            /\ Sending(j)' => Sending(j)
        BY <1>1, <1>2, <1>3 DEF OnWire, Sending
      <3>3. IntentOK(j) /\ (Done(j)' <=> Done(j))
        BY <3>1 DEF Inv, IntentsInv, Done
      <3>4. j = k => Sending(j) /\ intent[j].verdict # "refused"
        BY <1>1 DEF Inv, ClientInv, RefusedInv
      <3>. QED
        BY <3>1, <3>2, <3>3, <3>4 DEF IntentOK
    <2>. QED
      BY <2>1 DEF IntentsInv
  <1>. QED
    BY <1>4, <1>5, <1>6, <1>7, <1>8 DEF Inv

-----------------------------------------------------------------------------
(* The answers of the server.                                                *)

(* What an answer may make of the request k, and the page of it.             *)
Answers(w, status, k) ==
  /\ intent'[k].author = intent[k].author /\ intent'[k].tries = intent[k].tries
  /\ \/ intent'[k].verdict = intent[k].verdict /\ intent'[k].refusal = intent[k].refusal
     \/ /\ intent'[k].verdict = "dropped" /\ ~Journal /\ intent[k].author # Nobody
        /\ intent'[k].refusal = intent[k].refusal
     \/ /\ k = w.key /\ status = 200 /\ intent'[k].verdict = "accepted"
        /\ intent'[k].refusal = intent[k].refusal
     \/ /\ k = w.key /\ status \in {403, 404, 409}
        /\ intent'[k].verdict = RefusalOf(w, status)

Served(w, status) ==
  /\ status \in Statuses(w) /\ wire' = wire \ {w}
  /\ receipts' = IF status = 200 THEN receipts \cup {Receipt(w)} ELSE receipts
  /\ UNCHANGED <<hook, allowed, overtaken>>
  /\ page'.step \in {"check", "send"} => Sending(page'.active)
  /\ page'.step # "none" => Busy /\ page'.active = page.active
  /\ \A k \in Keys : Answers(w, status, k)

(* What the status of a send says of its key (the order of the server's      *)
(* checks: authorization, receipt, fence).                                   *)
LEMMA StatusMeans ==
  ASSUME TypeOK, NEW w \in wire, NEW status \in Statuses(w)
  PROVE  /\ status \in {200, 401, 403, 404, 409}
         /\ status = 200 => w.by \in allowed
         /\ status = 409 => Receipt(w) \notin receipts
         /\ status = 401 <=> w.by = Nobody
  BY BoundsAssumption DEF TypeOK, Statuses

LEMMA ServedIntent ==
  ASSUME Inv, NEW w \in wire, NEW status, Served(w, status), NEW k \in Keys
  PROVE  IntentOK(k)'
  <1>1. /\ IntentOK(k) /\ Answers(w, status, k) /\ status \in Statuses(w) /\ TypeOK
        /\ w.key \in Keys /\ intent[w.key].author # Nobody
        /\ w.try \in 1 .. intent[w.key].tries /\ intent[k].tries \in Nat
        /\ intent[w.key].tries \in Nat
    BY IntentFields DEF Inv, IntentsInv, Served, WireInv, TypeOK, Message
  <1>2. Journal' <=> Journal
    BY DEF Served, Journal
  <1>3. /\ OnWire(k)' => OnWire(k)
        /\ Sending(k)' => Sending(k)
        /\ ~Untouched(k) => ~Untouched(k)'
    BY DEF Served, OnWire, Sending, Untouched
  <1>4. CASE k # w.key
    <2>1. /\ Untouched(k)' <=> Untouched(k)
          /\ Done(k)' <=> Done(k)
      BY <1>1, <1>4 DEF Served, Untouched, Receipt, Done, Answers
    <2>2. /\ intent'[k].author = intent[k].author /\ intent'[k].tries = intent[k].tries
          /\ intent'[k].refusal = intent[k].refusal
          /\ \/ intent'[k].verdict = intent[k].verdict
             \/ intent'[k].verdict = "dropped" /\ ~Journal /\ intent[k].author # Nobody
      BY <1>1, <1>4 DEF Answers
    <2>. QED
      BY <1>1, <1>2, <1>3, <2>1, <2>2 DEF IntentOK
  <1>5. CASE k = w.key
    <2>1. OnWire(k) /\ intent[k].verdict # "refused"
      BY <1>1, <1>5 DEF OnWire, IntentOK
    <2>2. intent[k].tries <= 1 => Untouched(k) /\ ~OnWire(k)' /\ ~Sending(k)
      <3>1. SUFFICES ASSUME intent[k].tries <= 1
                     PROVE  Untouched(k) /\ ~OnWire(k)' /\ ~Sending(k)
        OBVIOUS
      <3>2. Untouched(k)
        BY <1>1, <2>1, <3>1 DEF IntentOK
      <3>3. ASSUME NEW x \in wire, x.key = k PROVE x = w
        <4>1. x.try \in 1 .. intent[k].tries
          BY <3>3 DEF Inv, WireInv
        <4>2. x.try = w.try
          BY <1>1, <1>5, <3>1, <4>1
        <4>. QED
          BY <1>5, <3>3, <4>2 DEF Inv, WireInv
      <3>4. Sending(k) => w.try < intent[k].tries
        BY <1>5 DEF Inv, WireInv
      <3>5. ~Sending(k)
        BY <1>1, <1>5, <3>1, <3>4
      <3>6. ~OnWire(k)'
        BY <3>3 DEF OnWire, Served
      <3>. QED
        BY <3>2, <3>5, <3>6
    <2>3. status = 200 => ~Untouched(k)'
      <3>1. status = 200 => Receipt(w) \in receipts'
        BY DEF Served
      <3>2. Receipt(w).key = k
        BY <1>5 DEF Receipt
      <3>. QED
        BY <3>1, <3>2 DEF Untouched
    <2>4. /\ intent'[k].author = intent[k].author /\ intent'[k].tries = intent[k].tries
          /\ intent[k].author # Nobody /\ intent[k].tries > 0
      BY <1>1, <1>5 DEF Answers, IntentOK
    <2>5. CASE intent'[k].verdict # "refused" /\ intent'[k].verdict # "doubtful"
      <3>1. /\ intent'[k].refusal # 0 => intent'[k].verdict # "open"
            /\ Journal => intent'[k].verdict # "dropped"
            /\ intent'[k].verdict = "accepted" => ~Untouched(k)'
        BY <1>1, <1>3, <2>3, <2>5 DEF Answers, IntentOK, RefusalOf
      <3>. QED
        BY <1>2, <2>2, <1>3, <2>4, <2>5, <3>1 DEF IntentOK
    <2>6. CASE intent'[k].verdict = "doubtful"
      <3>1. intent[k].tries > 1
        BY <1>1, <1>5, <2>4, <2>6 DEF Answers, IntentOK, RefusalOf, Conclusive
      <3>. QED
        BY <1>1, <2>4, <2>6, <3>1 DEF IntentOK
    <2>7. CASE intent'[k].verdict = "refused"
      <3>1. status \in {403, 404, 409} /\ Conclusive(w, status)
        BY <1>1, <2>1, <2>7 DEF Answers, RefusalOf
      <3>2. receipts' = receipts /\ wire' = wire \ {w}
        BY <3>1 DEF Served
      <3>3. Done(k)' <=> Done(k)
        BY <2>4, <3>2 DEF Done
      <3>4. ~Done(k) /\ ~OnWire(k)'
        <4>1. CASE intent[k].tries = 1
          BY <2>2, <4>1 DEF Untouched, Done
        <4>2. CASE intent[k].tries # 1
          <5>1. status = 409 /\ w.by = intent[k].author /\ \A x \in wire \ {w} : x.key # k
            BY <1>5, <3>1, <4>2 DEF Conclusive
          <5>2. Receipt(w) \notin receipts
            BY <1>1, <5>1, StatusMeans
          <5>. QED
            BY <1>5, <3>2, <5>1, <5>2 DEF Done, Receipt, OnWire
        <4>. QED
          BY <4>1, <4>2
      <3>5. intent[k].tries <= 1 => ~Sending(k)'
        BY <1>3, <2>2
      <3>. QED
        BY <2>4, <2>7, <3>3, <3>4, <3>5 DEF IntentOK
    <2>. QED
      BY <2>5, <2>6, <2>7
  <1>. QED
    BY <1>4, <1>5

LEMMA ServedStep ==
  ASSUME Inv, NEW w \in wire, NEW status, Served(w, status), TypeOK', ClientInv'
  PROVE  Inv'
  <1>1. \A x \in wire : x.key \in Keys
    BY DEF Inv, TypeOK, Message
  <1>2. \A k \in Keys : /\ intent'[k].author = intent[k].author
                        /\ intent'[k].tries = intent[k].tries
                        /\ intent'[k].verdict = "open" => intent[k].verdict = "open"
    BY DEF Served, Answers, RefusalOf
  <1>3. wire' \subseteq wire /\ \A x \in wire : Sending(x.key)' => Sending(x.key)
    BY DEF Served, Sending
  <1>4. WireInv'
    BY <1>1, <1>2, <1>3 DEF Inv, WireInv
  <1>5. OrderInv'
    BY <1>2 DEF Inv, OrderInv
  <1>6. IntentsInv'
    BY ServedIntent DEF IntentsInv
  <1>. QED
    BY <1>4, <1>5, <1>6 DEF Inv

LEMMA RefusedFields ==
  ASSUME TypeOK, NEW w \in wire, NEW status \in {403, 404, 409}
  PROVE  /\ Refused(w, status) \in [Keys -> Intent]
         /\ \A k \in Keys \ {w.key} : Refused(w, status)[k] = intent[k]
         /\ LET n == Refused(w, status)[w.key] IN
            /\ n.author = intent[w.key].author /\ n.tries = intent[w.key].tries
            /\ n.verdict = RefusalOf(w, status) /\ n.refusal = status
         /\ RefusalOf(w, status) \in {"accepted", "refused", "doubtful"}
  <1>. DEFINE i == intent[w.key]
              v == RefusalOf(w, status)
              n == [i EXCEPT !.verdict = v, !.refusal = status]
  <1>1. w.key \in Keys /\ intent \in [Keys -> Intent] /\ i \in Intent
    BY DEF TypeOK, Message
  <1>2. v \in {"accepted", "refused", "doubtful"}
    BY DEF RefusalOf
  <1>. HIDE DEF v
  <1>3. n \in Intent /\ n.author = i.author /\ n.tries = i.tries
        /\ n.verdict = v /\ n.refusal = status
    <2>. DEFINE a == [i EXCEPT !.verdict = v]
    <2>. HIDE DEF i
    <2>1. a \in Intent /\ a.author = i.author /\ a.tries = i.tries /\ a.verdict = v
      BY <1>1, <1>2 DEF Intent
    <2>2. n = [a EXCEPT !.refusal = status]
      OBVIOUS
    <2>. HIDE DEF a, n
    <2>. QED
      BY <2>1, <2>2 DEF Intent
  <1>4. Refused(w, status) = [intent EXCEPT ![w.key] = n]
    <2>. DEFINE a == [i EXCEPT !.verdict = v]
                f == [intent EXCEPT ![w.key].verdict = v]
    <2>1. f = [intent EXCEPT ![w.key] = a]
      OBVIOUS
    <2>2. n = [a EXCEPT !.refusal = status]
      OBVIOUS
    <2>3. Refused(w, status) = [f EXCEPT ![w.key].refusal = status]
      BY DEF Refused, v
    <2>. HIDE DEF f, a, n, i
    <2>4. f[w.key] = a
      BY <1>1, <2>1
    <2>5. Refused(w, status) = [f EXCEPT ![w.key] = n]
      BY <2>2, <2>3, <2>4
    <2>6. DOMAIN intent = Keys /\ DOMAIN f = Keys
          /\ intent = [k \in Keys |-> intent[k]]
          /\ f = [k \in Keys |-> IF k = w.key THEN a ELSE intent[k]]
      BY <1>1, <2>1
    <2>7. Refused(w, status) = [k \in Keys |-> IF k = w.key THEN n ELSE f[k]]
      BY <2>5, <2>6
    <2>8. Refused(w, status) = [k \in Keys |-> IF k = w.key THEN n ELSE intent[k]]
      BY <2>6, <2>7
    <2>9. [intent EXCEPT ![w.key] = n] = [k \in Keys |-> IF k = w.key THEN n ELSE intent[k]]
      BY <2>6
    <2>. QED
      BY <2>8, <2>9
  <1>. HIDE DEF n, i
  <1>5. /\ Refused(w, status) \in [Keys -> Intent] /\ Refused(w, status)[w.key] = n
        /\ \A k \in Keys \ {w.key} : Refused(w, status)[k] = intent[k]
    BY <1>1, <1>3, <1>4
  <1>. QED
    BY <1>2, <1>3, <1>5 DEF v, i

LEMMA ServeStep == ASSUME Inv, NEW w \in wire, Serve(w) PROVE Inv'
  <1>1. PICK status \in Statuses(w) :
          /\ wire' = wire \ {w}
          /\ receipts' = IF status = 200 THEN receipts \cup {Receipt(w)} ELSE receipts
          /\ (Awaited(w) /\ Answered(w, status)) \/ UNCHANGED client
          /\ UNCHANGED <<hook, allowed, overtaken, world>>
    BY DEF Serve
  <1>2. /\ TypeOK /\ w \in Message /\ w.key \in Keys /\ w.by \in Users \cup {Nobody}
        /\ status \in {200, 401, 403, 404, 409}
        /\ receipts \subseteq receipts' /\ hook' = hook
    BY <1>1, StatusMeans DEF Inv, TypeOK, Message
  <1>3. receipts' \subseteq [key : Keys, by : Users]
    BY <1>1, <1>2, StatusMeans DEF TypeOK, Receipt
  <1>4. ASSUME memory' \in [Users \cup {Nobody} -> Keys \cup {None}], page' \in Page,
               intent' \in [Keys -> Intent], bound' \in Users \cup {Nobody}
        PROVE  TypeOK'
    BY <1>1, <1>2, <1>3, <1>4 DEF TypeOK, world
  <1>5. ASSUME TypeOK', ClientInv', \A k \in Keys : Answers(w, status, k),
               page'.step \in {"check", "send"} => Sending(page'.active),
               page'.step # "none" => Busy /\ page'.active = page.active
        PROVE  Inv'
    BY <1>1, <1>5, ServedStep DEF Served
  <1>6. CASE UNCHANGED client
    <2>1. UNCHANGED <<memory, bound, page, intent>>
      BY <1>6 DEF client
    <2>2. TypeOK'
      BY <1>2, <1>4, <2>1 DEF TypeOK
    <2>3. ClientInv'
      <3>1. PageInv'
        BY <1>2, <2>1 DEF Inv, ClientInv, PageInv, Mounted, Slot, Journal, Busy, Untouched, Unmounted
      <3>2. MemoryInv' /\ OpenInv' /\ RefusedInv'
        BY <1>2, <2>1 DEF Inv, ClientInv, MemoryInv, OpenInv, RefusedInv, Slot, Journal, Busy
      <3>. QED
        BY <3>1, <3>2 DEF ClientInv
    <2>. QED
      BY <1>5, <2>1, <2>2, <2>3 DEF Answers, Sending, Busy
  <1>7. ASSUME Awaited(w), Answered(w, status)
        PROVE  Inv'
    <2>1. /\ page.active = w.key /\ page.step = "sent" /\ intent[w.key].tries = w.try
          /\ Busy /\ page.active # None /\ Mounted
          /\ intent[w.key].author # Nobody
      <3>1. page.active = w.key /\ page.step = "sent" /\ intent[w.key].tries = w.try
        BY <1>7 DEF Awaited
      <3>2. page.active # None
        BY <1>2, <3>1, IntentFields
      <3>. QED
        BY <1>2, <3>1, <3>2, ActiveComposed DEF Inv, ClientInv, Busy
    <2>2. memory \in [Users \cup {Nobody} -> Keys \cup {None}] /\ page \in Page
          /\ intent \in [Keys -> Intent] /\ bound \in Users \cup {Nobody}
      BY <1>2 DEF TypeOK
    <2>3. ASSUME page' \in Page, ClientInv', page'.step = "none",
                 UNCHANGED <<memory, bound, intent>>
          PROVE  Inv'
      BY <1>4, <1>5, <2>2, <2>3 DEF Answers
    <2>4. CASE status = 401
      <3>1. Reloaded
        BY <1>7, <2>4 DEF Answered
      <3>2. page' \in Page /\ page' = Unmounted /\ page'.step = "none" /\ page'.active = None
            /\ bound' = Nobody
        BY <3>1, UnmountedType DEF Reloaded, Unmounted
      <3>3. CASE Journal
        <4>1. UNCHANGED <<memory, intent>>
          BY <3>1, <3>3 DEF Reloaded
        <4>2. TypeOK'
          BY <1>4, <2>2, <3>2, <4>1
        <4>3. ClientInv'
          BY <1>2, <3>2, <4>1, PageClient DEF PageMoves
        <4>. QED
          BY <1>5, <3>2, <4>1, <4>2, <4>3 DEF Answers
      <3>4. CASE ~Journal
        <4>1. memory' = Empty /\ intent' = Dropped(intent)
          BY <3>1, <3>4 DEF Reloaded
        <4>2. TypeOK'
          BY <1>2, <1>4, <3>2, <4>1, EmptyType, DroppedType
        <4>3. ClientInv' /\ \A k \in Keys : Kept(k)
          BY <1>2, <3>2, <3>4, <4>1, <4>2, DropClient
        <4>4. ASSUME NEW k \in Keys PROVE Answers(w, status, k)
          <5>1. (\E u \in Users : memory[u] = k) => intent[k].author # Nobody
            BY <1>2, IntentFields DEF Inv, ClientInv, MemoryInv
          <5>. QED
            BY <1>2, <3>4, <4>1, <5>1, DroppedFields DEF Answers
        <4>. QED
          BY <1>5, <3>2, <4>2, <4>3, <4>4
      <3>. QED
        BY <3>3, <3>4
    <2>5. ASSUME status = 200 \/ status \in {403, 404, 409},
                 intent' = IF status = 200
                           THEN [intent EXCEPT ![w.key].verdict = "accepted"]
                           ELSE Refused(w, status),
                 bound' = bound, page' \in Page, page'.actor = page.actor,
                 page'.step = "none",
                 status # 200 => page'.kind = "rejected" /\ (Journal => page'.active = None),
                 \/ page'.active = None /\ memory' = [memory EXCEPT ![Slot(page.actor)] = None]
                 \/ page'.active = page.active /\ memory' = memory
          PROVE  Inv'
      <3>1. /\ intent' \in [Keys -> Intent]
            /\ \A k \in Keys \ {w.key} : intent'[k] = intent[k]
            /\ intent'[w.key].author = intent[w.key].author
            /\ intent'[w.key].tries = intent[w.key].tries
            /\ \/ /\ status = 200 /\ intent'[w.key].verdict = "accepted"
                  /\ intent'[w.key].refusal = intent[w.key].refusal
               \/ /\ status \in {403, 404, 409} /\ intent'[w.key].verdict = RefusalOf(w, status)
                  /\ intent'[w.key].verdict # "open" /\ intent'[w.key].refusal = status
        <4>1. CASE status = 200
          <5>1. intent' = [intent EXCEPT ![w.key].verdict = "accepted"]
            BY <2>5, <4>1
          <5>2. [intent[w.key] EXCEPT !.verdict = "accepted"] \in Intent
            BY <1>2, <2>2 DEF Intent
          <5>. QED
            BY <1>2, <2>2, <4>1, <5>1, <5>2 DEF Intent
        <4>2. CASE status # 200
          BY <1>2, <2>5, <4>2, RefusedFields
        <4>. QED
          BY <4>1, <4>2
      <3>2. memory' \in [Users \cup {Nobody} -> Keys \cup {None}]
        BY <2>2, <2>5
      <3>3. TypeOK'
        BY <1>4, <2>2, <2>5, <3>1, <3>2
      <3>4. Settles
        BY <1>2, <2>1, <2>5, <3>1 DEF Settles
      <3>5. ClientInv'
        BY <3>4, SettledClient
      <3>6. \A k \in Keys : Answers(w, status, k)
        BY <2>5, <3>1 DEF Answers
      <3>. QED
        BY <1>5, <2>5, <3>3, <3>5, <3>6
    <2>6. CASE Journal /\ status # 401
      <3>1. JournalAnswered(w, status)
        BY <1>7, <2>6 DEF Answered
      <3>2. Slot(page.actor) = Nobody
        BY <2>6 DEF Slot
      <3>3. CASE status = 200
        BY <1>2, <2>5, <3>1, <3>3, StoppedFields DEF JournalAnswered
      <3>4. CASE status \in {404, 409}
        <4>1. /\ memory' = [memory EXCEPT ![Nobody] = None] /\ bound' = bound
              /\ intent' = Refused(w, status)
              /\ page' = [Stopped("rejected") EXCEPT !.active = None]
          BY <3>1, <3>4 DEF JournalAnswered
        <4>2. /\ page' \in Page /\ page'.actor = page.actor /\ page'.active = None
              /\ page'.step = "none" /\ page'.kind = "rejected"
          BY <1>2, <4>1, StoppedFields
        <4>. QED
          BY <2>5, <3>2, <3>4, <4>1, <4>2
      <3>5. CASE status = 403
        <4>1. page' = Stopped("unauthorized") /\ UNCHANGED <<memory, bound, intent>>
          BY <3>1, <3>5 DEF JournalAnswered
        <4>2. /\ page' \in Page /\ page'.actor = page.actor /\ page'.active = page.active
              /\ page'.step = "none" /\ page'.kind = "unauthorized"
          BY <1>2, <4>1, StoppedFields
        <4>3. ClientInv'
          BY <1>2, <2>1, <4>1, <4>2, PageClient DEF PageMoves
        <4>. QED
          BY <2>3, <4>1, <4>2, <4>3
      <3>. QED
        BY <1>2, <2>6, <3>3, <3>4, <3>5
    <2>7. CASE ~Journal /\ status # 401
      <3>1. ScenarioAnswered(w, status)
        BY <1>7, <2>7 DEF Answered
      <3>2. CASE status \in {403, 404, 409}
        BY <1>2, <2>5, <2>7, <3>1, <3>2, StoppedFields DEF ScenarioAnswered
      <3>3. CASE status = 200
        <4>1. page' = [page EXCEPT !.step = "after"] /\ UNCHANGED <<memory, bound, intent>>
          BY <3>1, <3>3 DEF ScenarioAnswered
        <4>2. /\ page' \in Page /\ page'.actor = page.actor /\ page'.active = page.active
              /\ page'.step = "after" /\ page'.kind = page.kind
          BY <2>2, <4>1 DEF Page
        <4>3. ~Untouched(page.active)'
          <5>1. Receipt(w) \in receipts' /\ Receipt(w).key = page.active /\ page'.active = page.active
            BY <1>1, <2>1, <3>3, <4>2 DEF Receipt
          <5>. QED
            BY <5>1 DEF Untouched
        <4>4. ClientInv'
          BY <1>2, <2>1, <2>7, <4>1, <4>2, <4>3, PageClient DEF PageMoves
        <4>5. TypeOK'
          BY <1>4, <2>2, <4>1, <4>2
        <4>. QED
          BY <1>5, <2>1, <4>1, <4>2, <4>4, <4>5 DEF Answers
      <3>. QED
        BY <1>2, <2>7, <3>2, <3>3
    <2>. QED
      BY <2>4, <2>6, <2>7
  <1>. QED
    BY <1>1, <1>6, <1>7

-----------------------------------------------------------------------------
(* The theorems.                                                             *)

LEMMA InvInit == Init => Inv
  <1>1. Init => TypeOK
    BY TypeInit
  <1>2. Init => WireInv /\ PageInv /\ MemoryInv /\ OpenInv /\ OrderInv
    BY DEF Init, WireInv, PageInv, MemoryInv, OpenInv, OrderInv, Unmounted, Mounted, Busy, Unused
  <1>4. Init => RefusedInv
    BY DEF Init, RefusedInv, Unused
  <1>3. Init => IntentsInv
    BY DEF Init, IntentsInv, IntentOK, Unused, Untouched, OnWire, Sending, Unmounted
  <1>. QED
    BY <1>1, <1>2, <1>3, <1>4 DEF Inv, ClientInv

LEMMA WorldStep ==
  ASSUME Inv
  PROVE  /\ \A w \in wire : Lose(w) => Inv'
         /\ \A k \in Keys : Overtake(k) => Inv'
         /\ \A u \in Users : ChangeAccess(u) => Inv'
         /\ \A u \in Users \cup {Nobody} : ChangeSession(u) => Inv'
  <1>1. ASSUME NEW w \in wire, Lose(w) PROVE Inv'
    BY <1>1, OutsideStep DEF Lose, Inv, TypeOK, client, server, world
  <1>2. ASSUME NEW k \in Keys, Overtake(k) PROVE Inv'
    BY <1>2, OutsideStep DEF Overtake, Inv, TypeOK, client, world
  <1>3. ASSUME NEW u \in Users, ChangeAccess(u) PROVE Inv'
    <2>1. denials' \in 0 .. MaxDenials
      BY <1>3, BoundsAssumption DEF ChangeAccess, Inv, TypeOK
    <2>2. TypeOK'
      BY <1>3, <2>1 DEF ChangeAccess, Inv, TypeOK, client
    <2>. QED
      BY <1>3, <2>2, OutsideStep DEF ChangeAccess, client
  <1>4. ASSUME NEW u \in Users \cup {Nobody}, ChangeSession(u) PROVE Inv'
    <2>1. switches' \in 0 .. MaxSwitches
      BY <1>4, BoundsAssumption DEF ChangeSession, Inv, TypeOK
    <2>2. TypeOK'
      BY <1>4, <2>1 DEF ChangeSession, Inv, TypeOK, client, server
    <2>. QED
      BY <1>4, <2>2, OutsideStep DEF ChangeSession, client, server
  <1>. QED
    BY <1>1, <1>2, <1>3, <1>4

LEMMA InvStep == Inv /\ [Next]_vars => Inv'
  <1>1. ASSUME Inv, UNCHANGED vars PROVE Inv'
    <2>1. TypeOK'
      BY <1>1 DEF Inv, TypeOK, vars, client, server, world
    <2>. QED
      BY <1>1, <2>1, OutsideStep DEF vars, client, server
  <1>2. ASSUME Inv, Next PROVE Inv'
    <2>1. CASE Reload \/ Redirected
      BY <1>2, <2>1, ReloadedStep DEF Reload, Redirected
    <2>. QED
      BY <1>2, <2>1, MountStep, LeaveStep, StartStep, RetryStep, ReviewedStep, IdentifiedStep,
         PostStep, ConfirmedStep, UnconfirmedStep, ServeStep, WorldStep DEF Next
  <1>. QED
    BY <1>1, <1>2

LEMMA InvHolds == Spec => []Inv
  BY InvInit, InvStep, PTL DEF Spec

(* The page never tells a person something false about a request: accepted   *)
(* means committed; refused with no other send behind it means that it was    *)
(* not, and stays so, for nothing sends it again, whatever was lost, repeated, *)
(* left or switched (execute, retry and the mount effect of the three hooks).  *)
THEOREM PagesTellTheTruth == Spec => []VerdictsAreTrue
  <1>1. Inv => VerdictsAreTrue
    <2>1. SUFFICES ASSUME Inv, NEW k \in Keys
                   PROVE  /\ intent[k].verdict = "accepted" => \E r \in receipts : r.key = k
                          /\ intent[k].verdict = "refused" => ~Done(k)
      BY DEF VerdictsAreTrue, Inv
    <2>2. IntentOK(k)
      BY <2>1 DEF Inv, IntentsInv
    <2>. QED
      BY <2>2 DEF IntentOK, Untouched
  <1>. QED
    BY <1>1, InvHolds, PTL

(* A second request of a person takes effect next to a first one only if he  *)
(* was told of the first: while it is open it stays in his slot, and the page *)
(* composes nothing over it (start of the three hooks).                      *)
THEOREM RepeatsAreTold == Spec => []NoSilentRepeat
  <1>1. Inv => NoSilentRepeat
    <2>1. SUFFICES ASSUME Inv, NEW j \in Keys, NEW k \in Keys, j < k, Done(j), Done(k),
                          intent[j].author = intent[k].author
                   PROVE  \/ intent[j].verdict = "accepted"
                          \/ intent[j].verdict = "doubtful" /\ intent[j].tries > 1
                          \/ intent[j].verdict = "dropped" /\ ~Journal
      BY DEF NoSilentRepeat
    <2>2. intent[k].author # Nobody
      BY <2>1, BoundsAssumption DEF Inv, TypeOK, Done
    <2>3. intent[j].verdict # "open"
      BY <2>1, <2>2 DEF Inv, OrderInv
    <2>4. /\ IntentOK(j)
          /\ intent[j].verdict \in {"open", "accepted", "refused", "doubtful", "dropped"}
      BY <2>1, IntentFields DEF Inv, IntentsInv
    <2>. QED
      BY <2>1, <2>3, <2>4 DEF IntentOK
  <1>. QED
    BY <1>1, InvHolds, PTL
=============================================================================
