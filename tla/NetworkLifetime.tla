-------------------------- MODULE NetworkLifetime --------------------------
(***************************************************************************)
(* Who owns a backend, and what a wrapper reaches: Networks                *)
(* (src/Network.cpp) own their backend, move it, and retire it when they   *)
(* end; views of a network own nothing; wrappers (include/iidm/ObjectRef.h)*)
(* hold a raw pointer to the backend beside a HandleRef, whose tracker     *)
(* owns a retired backend (HandleTracker::keep).                           *)
(*                                                                         *)
(* Backend and tracker may own each other: what is freed follows from      *)
(* who holds whom, by the counts of the shared_ptr and the unique_ptr.     *)
(* Each C++ operation is one step: HandleTracker has the interleavings.    *)
(***************************************************************************)
EXTENDS Naturals, FiniteSets

CONSTANTS
  Nets,          \* Network objects: owners and views
  Wrappers,      \* the other wrappers
  Backends,
  NullBackend,   \* the backend of what is bound to no network
  NoBackend      \* no tracker held, nothing owned

ASSUME LifetimeConstants ==
  /\ Nets \cap Wrappers = {}
  /\ {NullBackend, NoBackend} \cap Backends = {} /\ NullBackend # NoBackend

Objects == Nets \cup Wrappers

VARIABLES
  backend,   \* each backend: "none", "open", "closed", "freed"
  strong,    \* the backends whose tracker_ holds their tracker (shared_ptr)
  kept,      \* the backends given to their tracker: its kept_, and keptBy_ (weak)
  owned,     \* owned_ of each Network
  ptr,       \* backend_ of each object
  tracker,   \* the tracker its HandleRef holds, by backend
  valid      \* the objects whose handle is not INVALID_HANDLE

vars == <<backend, strong, kept, owned, ptr, tracker, valid>>

\* A default-constructed object is the same as one that does not exist.
Unbound(o) == ptr[o] = NullBackend

Init ==
  /\ backend = [b \in Backends |-> "none"]
  /\ strong  = {}
  /\ kept    = {}
  /\ owned   = [n \in Nets |-> NoBackend]
  /\ ptr     = [o \in Objects |-> NullBackend]
  /\ tracker = [o \in Objects |-> NoBackend]
  /\ valid   = {}

\* What a call through o meets: NullBackend and a closed backend throw
\* InvalidHandleException, as an open one does for an invalid handle.
Reach(o) ==
  IF Unbound(o) THEN "InvalidHandle"
  ELSE IF backend[ptr[o]] = "freed" THEN "dangling"
  ELSE IF backend[ptr[o]] = "open" /\ o \in valid THEN "ok" ELSE "InvalidHandle"

\* handleTracker(): tracker_, and the weak reference of a kept backend after it
\* (the NullBackend's own tracker counts nothing).
TrackerOf(b) == IF b \in strong \cup kept \cup {NullBackend} THEN b ELSE NoBackend

\* What holds b's tracker: HandleRefs, and the tracker_ of b itself.
Held(b) == b \in strong \/ \E o \in Objects : tracker[o] = b

\* Backends `bk` after a step: a tracker that nothing holds takes what it keeps along.
Settle(bk) ==
  [b \in Backends |-> IF b \in kept' /\ ~Held(b)' THEN "freed" ELSE bk[b]]

\* Defect: the tracker is copied: the backend and its tracker own each other.
KeepCyclic(b) == kept' = kept \cup ({b} \cap Backends) /\ UNCHANGED strong

\* keep(): tracker_ is moved out of the backend, which its tracker owns from then on.
Keep(b) ==
  /\ strong' = strong \ {b}
  /\ kept' = kept \cup ({b} \cap Backends)

\* Defect: the closed backend goes with its Network.
RetireAndFree(b) ==
  /\ UNCHANGED <<strong, kept>>
  /\ backend' = Settle([c \in Backends |-> IF c = b THEN "freed" ELSE backend[c]])

\* retire() of what a Network owned, if anything: closed, then kept.
Retire(b) ==
  /\ Keep(b)
  /\ backend' = Settle([c \in Backends |-> IF c = b THEN "closed" ELSE backend[c]])

\* HandleRefs end, and no Network.
RetireNone == UNCHANGED <<strong, kept>> /\ backend' = Settle(backend)

----------------------------------------------------------------------------
\* The factory: a session is opened, and the Network owns it.
Open(n, b) ==
  /\ backend[b] = "none" /\ Unbound(n)
  /\ backend' = [backend EXCEPT ![b] = "open"]
  /\ strong' = strong \cup {b}
  /\ owned' = [owned EXCEPT ![n] = b]
  /\ ptr' = [ptr EXCEPT ![n] = b]
  /\ tracker' = [tracker EXCEPT ![n] = b]
  /\ valid' = valid \cup {n}
  /\ UNCHANGED kept

\* Loading fails: the backend goes with the exception, before any wrapper.
OpenFails(b) ==
  /\ backend[b] = "none"
  /\ backend' = [backend EXCEPT ![b] = "freed"]
  /\ UNCHANGED <<strong, kept, owned, ptr, tracker, valid>>

\* Builds p from a handle and o's backend pointer, taking its tracker.
Bind(p, o, isValid) ==
  /\ Unbound(p)
  /\ ptr' = [ptr EXCEPT ![p] = ptr[o]]
  /\ tracker' = [tracker EXCEPT ![p] = TrackerOf(ptr[o])]
  /\ valid' = IF isValid THEN valid \cup {p} ELSE valid
  /\ UNCHANGED <<backend, strong, kept, owned>>

\* A call through o returns an object (a view when p is a Network), or none.
Get(o, p) ==
  /\ Reach(o) = "ok"
  /\ \E found \in BOOLEAN : Bind(p, o, found)

\* A view or conversion of o built from its own handle, without a call.
Derive(o, p) ==
  /\ ~Unbound(o) /\ Reach(o) # "dangling"
  /\ Bind(p, o, o \in valid)

\* Defect: the copy takes the tracker of the source's backend, not its own.
CopyAsksBackend(o, w) ==
  /\ o # w /\ w \in Wrappers
  /\ ptr' = [ptr EXCEPT ![w] = ptr[o]]
  /\ tracker' = [tracker EXCEPT ![w] = TrackerOf(ptr[o])]
  /\ valid' = IF o \in valid THEN valid \cup {w} ELSE valid \ {w}
  /\ RetireNone
  /\ UNCHANGED owned

\* Copy construction or assignment; a Network is copied only as a plain wrapper.
Copy(o, w) ==
  /\ o # w /\ w \in Wrappers
  /\ ptr' = [ptr EXCEPT ![w] = ptr[o]]
  /\ tracker' = [tracker EXCEPT ![w] = tracker[o]]
  /\ valid' = IF o \in valid THEN valid \cup {w} ELSE valid \ {w}
  /\ RetireNone
  /\ UNCHANGED owned

\* The HandleRef of o goes to p, which releases its own.
MoveHandle(o, p) ==
  /\ tracker' = [tracker EXCEPT ![p] = tracker[o], ![o] = NoBackend]
  /\ valid' = IF o \in valid THEN (valid \ {o}) \cup {p} ELSE valid \ {p}

\* The implicit move of a wrapper: the source still points to the backend.
Move(o, w) ==
  /\ o # w /\ w \in Wrappers
  /\ MoveHandle(o, w)
  /\ ptr' = [ptr EXCEPT ![w] = ptr[o]]
  /\ RetireNone
  /\ UNCHANGED owned

\* Defect: owned_ is moved before the target retires its own.
MoveNetworkLate(n, m) ==
  /\ n # m
  /\ MoveHandle(n, m)
  /\ ptr' = [ptr EXCEPT ![m] = ptr[n], ![n] = NullBackend]
  /\ owned' = [owned EXCEPT ![m] = owned[n], ![n] = NoBackend]
  /\ Retire(owned[n])

\* Defect: the backend stays with both Networks.
MoveNetworkShared(n, m) ==
  /\ n # m
  /\ MoveHandle(n, m)
  /\ ptr' = [ptr EXCEPT ![m] = ptr[n], ![n] = NullBackend]
  /\ owned' = [owned EXCEPT ![m] = owned[n]]
  /\ Retire(owned[m])

\* Network's move: the source is bound to no backend anymore, and the target
\* retires the backend it owned.
MoveNetwork(n, m) ==
  /\ n # m
  /\ MoveHandle(n, m)
  /\ ptr' = [ptr EXCEPT ![m] = ptr[n], ![n] = NullBackend]
  /\ owned' = [owned EXCEPT ![m] = owned[n], ![n] = NoBackend]
  /\ Retire(owned[m])

Release(o) ==
  /\ ptr' = [ptr EXCEPT ![o] = NullBackend]
  /\ tracker' = [tracker EXCEPT ![o] = NoBackend]
  /\ valid' = valid \ {o}

DestroyWrapper(w) ==
  /\ ~Unbound(w)
  /\ Release(w)
  /\ RetireNone
  /\ UNCHANGED owned

\* ~Network retires what it owns, then its HandleRef is released.
DestroyNetwork(n) ==
  /\ ~Unbound(n)
  /\ Release(n)
  /\ owned' = [owned EXCEPT ![n] = NoBackend]
  /\ Retire(owned[n])

Next ==
  \/ \E b \in Backends : OpenFails(b) \/ \E n \in Nets : Open(n, b)
  \/ \E o, p \in Objects : Get(o, p) \/ Derive(o, p) \/ Copy(o, p) \/ Move(o, p)
  \/ \E n, m \in Nets : MoveNetwork(n, m)
  \/ \E w \in Wrappers : DestroyWrapper(w)
  \/ \E n \in Nets : DestroyNetwork(n)

Spec == Init /\ [][Next]_vars

----------------------------------------------------------------------------
TypeOK ==
  /\ backend \in [Backends -> {"none", "open", "closed", "freed"}]
  /\ strong \subseteq Backends /\ kept \subseteq Backends
  /\ owned \in [Nets -> Backends \cup {NoBackend}]
  /\ ptr \in [Objects -> Backends \cup {NullBackend}]
  /\ tracker \in [Objects -> Backends \cup {NoBackend}]
  /\ valid \subseteq Objects

\* A wrapper that nothing was moved from never reaches a freed backend, whatever
\* Networks were moved, assigned or destroyed since it was taken: its tracker
\* keeps the backend, absent objects' wrappers included (HandleRef.cpp:81).
NoDanglingWrapper ==
  \A o \in Objects : tracker[o] # NoBackend => Reach(o) # "dangling"

\* No use of a wrapper at all reaches a freed backend: what README.md promises
\* of the objects used after their network is destroyed.
DestroyedObjectsThrow == \A o \in Objects : Reach(o) # "dangling"

\* A session is open exactly while one Network owns it: moving Networks neither
\* loses a session (a leak) nor leaves it to two of them (a double close).
OneOwner ==
  \A b \in Backends :
    Cardinality({n \in Nets : owned[n] = b}) = IF backend[b] = "open" THEN 1 ELSE 0

\* Every backend that exists is reached from an object of the program: a Network
\* owns it, or a HandleRef holds the tracker that keeps it. A retired backend is
\* not left to a tracker that it holds alone (HandleRef.cpp:69), for good.
NothingKeptForNobody ==
  \A b \in Backends : backend[b] \in {"open", "closed"} =>
    \/ \E n \in Nets : owned[n] = b
    \/ b \in kept /\ \E o \in Objects : tracker[o] = b

\* Moving a Network disturbs no object taken from it, and destroys the session
\* of no other one.
MovingKeepsObjects ==
  [][\A n, m \in Nets : MoveNetwork(n, m) =>
       \A w \in Wrappers : Reach(w) = "ok" /\ ptr[w] # owned[m] => Reach(w)' = "ok"]_vars
============================================================================
