--------------------------- MODULE HandleTracker ---------------------------
(***************************************************************************)
(* HandleTracker (src/HandleTracker.h, src/HandleRef.cpp): the counts of   *)
(* the HandleRefs of each handle of one backend, the wrappers' HandleRefs  *)
(* that use it from any thread, and the Network that owns the backend and  *)
(* closes it, when it is destroyed or assigned over, while wrappers and    *)
(* threads are still around.                                               *)
(*                                                                         *)
(* The mutex of the tracker makes each locked section one step.  What the  *)
(* code does after unlocking (the call into Java, the reset of the shared  *)
(* pointer) is a step of its own, with the values read under the lock.     *)
(* A handle is the address of a Java-side reference: once given up, the    *)
(* address may come back, for this backend or for another one of the JVM.  *)
(* The backend is the JNI one, whose close resets a field at a time while  *)
(* other threads read them; any release may fail, and then leaks.          *)
(***************************************************************************)
EXTENDS Integers, FiniteSets

CONSTANTS
  Threads,
  Refs,        \* HandleRef objects; a default-constructed or moved-from one
               \* is the same as one that does not exist
  NetRef,      \* the HandleRef of the Network that owns the backend: a Network
               \* moved to another object takes the name along
  Handles,
  NetHandle,   \* the handle of the network itself, the backend's own
  NoHandle     \* INVALID_HANDLE

ASSUME FiniteRefs == IsFiniteSet(Refs)
ASSUME NetworkConstants == NetRef \in Refs /\ NetHandle \in Handles
ASSUME NoHandleIsNone == NoHandle \notin Handles

VARIABLES
  counts,    \* counts_: 0 stands for an absent entry
  owner,     \* owner_: "backend" or "nullptr"
  net,       \* the Network: the "owner", "assigned" over or "destroyed"
  backend,   \* "open", "dropped" (networkRef_ is reset), "closed" (jvm_ too),
             \* "moving" (tracker_ is moved out), "kept" (keptBy_ is set) or "freed"
  java,      \* the Java-side references of this backend
  foreign,   \* addresses that references of other backends got
  handle,    \* handle_ of each HandleRef
  tracked,   \* the HandleRefs whose tracker_ is set
  pc,        \* where each thread is in the operation it runs
  reg,       \* the handle it works on
  obj,       \* the HandleRef it builds, assigns or destroys
  src,       \* the HandleRef it reads or moves from
  toFree,    \* releaseAll's handles still to release
  late,      \* history: references in transit when the owner was cleared
  leaked     \* history: references whose release failed

refVars    == <<handle, tracked>>
threadVars == <<pc, reg, obj, src>>
javaVars   == <<java, foreign, leaked>>
vars == <<counts, owner, net, backend, java, foreign, handle, tracked, pc, reg,
          obj, src, toFree, late, leaked>>

Init ==
  /\ counts  = [h \in Handles |-> IF h = NetHandle THEN 1 ELSE 0]
  /\ owner   = "backend"
  /\ net     = "owner"
  /\ backend = "open"
  /\ java    = {NetHandle}
  /\ foreign = {}
  /\ handle  = [r \in Refs |-> IF r = NetRef THEN NetHandle ELSE NoHandle]
  /\ tracked = {NetRef}
  /\ pc      = [t \in Threads |-> "idle"]
  /\ reg     = [t \in Threads |-> NoHandle]
  /\ obj     = [t \in Threads |-> NetRef]
  /\ src     = [t \in Threads |-> NetRef]
  /\ toFree  = {}
  /\ late    = {}
  /\ leaked  = {}

\* A HandleRef is a plain C++ object: threads may read one together (the host
\* of a call, the source of a copy), and take turns on changing it.
Busy(r) == \E t \in Threads : pc[t] # "idle" /\ r \in {obj[t], src[t]}
Written(r) == \E t \in Threads :
  pc[t] # "idle" /\ (r = obj[t] \/ (pc[t] # "wrap" /\ r = src[t]))
Empty(r) == r \notin tracked
\* What wrappers may do, the Network may do once its session is gone.
Wrappers == IF net = "owner" THEN tracked \ {NetRef} ELSE tracked

Enter(t, where, h, r, s) ==
  /\ pc'  = [pc EXCEPT ![t] = where]
  /\ reg' = [reg EXCEPT ![t] = h]
  /\ obj' = [obj EXCEPT ![t] = r]
  /\ src' = [src EXCEPT ![t] = s]

Goto(t, where) ==
  /\ pc' = [pc EXCEPT ![t] = where]
  /\ UNCHANGED <<reg, obj, src>>

Finish(t) == Enter(t, "idle", NoHandle, NetRef, NetRef)

\* retain(h): counts nothing once the owner is gone, nor an invalid handle.
Retain(h) ==
  counts' = IF h # NoHandle /\ owner = "backend"
            THEN [counts EXCEPT ![h] = @ + 1] ELSE counts

\* DeleteGlobalRef of an address, whoever has it; and the release that fails.
DeleteReference(h) == /\ java' = java \ {h}
                      /\ foreign' = foreign \ {h}
                      /\ UNCHANGED leaked
LeakReference(h) == /\ leaked' = leaked \cup ({h} \cap java)
                    /\ UNCHANGED <<java, foreign>>

\* The backend's releaseHandle.  Its tests of jvm_ and networkRef_ are not
\* synchronized with close(): each may have been read before or after the reset.
\* env() throws when the JVM is gone or the thread cannot be attached.
ReleaseHandle(h) ==
  \/ /\ h # NetHandle \/ backend # "open"
     /\ DeleteReference(h) \/ LeakReference(h)
  \/ /\ h = NetHandle \/ backend \notin {"open", "dropped"}
     /\ UNCHANGED <<java, foreign, leaked>>

----------------------------------------------------------------------------
\* A backend call through the wrapper `host` returns the reference of an
\* object, or none, for the wrapper r about to be built.
Obtain(t, host, r, h) ==
  /\ pc[t] = "idle" /\ backend = "open"
  /\ host \in tracked /\ ~Written(host)
  /\ Empty(r) /\ ~Busy(r)
  /\ h \notin java \cup foreign
  /\ java' = IF h = NoHandle THEN java ELSE java \cup {h}
  /\ late' = IF owner = "nullptr" THEN late \cup (java' \ java) ELSE late
  /\ Enter(t, "wrap", h, r, host)
  /\ UNCHANGED <<counts, owner, net, backend, foreign, refVars, toFree, leaked>>

\* HandleRef(handle, backend): takes the backend's tracker, then retains.  While
\* keep() has moved the tracker out of the backend it gets none: it holds nothing.
Wrap(t) ==
  /\ pc[t] = "wrap"
  /\ IF backend = "moving" THEN UNCHANGED <<counts, refVars>>
     ELSE /\ handle' = [handle EXCEPT ![obj[t]] = reg[t]]
          /\ tracked' = tracked \cup {obj[t]}
          /\ Retain(reg[t])
  /\ Finish(t)
  /\ UNCHANGED <<owner, net, backend, javaVars, toFree, late>>

\* Defect: a copy that is not retained.
CopyUnretained(t, r, s) ==
  /\ pc[t] = "idle"
  /\ r \in tracked /\ ~Written(r)
  /\ Empty(s) /\ ~Busy(s)
  /\ handle' = [handle EXCEPT ![s] = handle[r]]
  /\ tracked' = tracked \cup {s}
  /\ UNCHANGED <<counts, owner, net, backend, javaVars, threadVars, toFree, late>>

\* Copy construction; HandleRef(handle_, backend_) of a view or of as<T>() too.
Copy(t, r, s) ==
  /\ pc[t] = "idle"
  /\ r \in tracked /\ ~Written(r)
  /\ Empty(s) /\ ~Busy(s)
  /\ handle' = [handle EXCEPT ![s] = handle[r]]
  /\ tracked' = tracked \cup {s}
  /\ Retain(handle[r])
  /\ UNCHANGED <<owner, net, backend, javaVars, threadVars, toFree, late>>

\* Defect: a move that leaves its source set.
MoveKeepsSource(t, r, s) ==
  /\ pc[t] = "idle"
  /\ r \in Wrappers /\ ~Busy(r)
  /\ Empty(s) /\ ~Busy(s)
  /\ handle' = [handle EXCEPT ![s] = handle[r]]
  /\ tracked' = tracked \cup {s}
  /\ UNCHANGED <<counts, owner, net, backend, javaVars, threadVars, toFree, late>>

\* Move construction: nothing is counted.
Move(t, r, s) ==
  /\ pc[t] = "idle"
  /\ r \in Wrappers /\ ~Busy(r)
  /\ Empty(s) /\ ~Busy(s)
  /\ handle' = [handle EXCEPT ![s] = handle[r], ![r] = NoHandle]
  /\ tracked' = (tracked \cup {s}) \ {r}
  /\ UNCHANGED <<counts, owner, net, backend, javaVars, threadVars, toFree, late>>

----------------------------------------------------------------------------
\* Defect: the entry is decremented without looking for it first.
ReleaseUnchecked(t, r, s) ==
  LET h == handle[r]
      last == h # NoHandle /\ counts[h] = 1
  IN  /\ counts' = IF h # NoHandle THEN [counts EXCEPT ![h] = @ - 1] ELSE counts
      /\ Enter(t, IF last /\ owner = "backend" THEN "free" ELSE "reset", h, r, s)

\* Defect: the last but one holder releases already.
ReleaseEarly(t, r, s) ==
  LET h == handle[r]
      last == h # NoHandle /\ counts[h] \in {1, 2}
  IN  /\ counts' = IF last THEN [counts EXCEPT ![h] = 0]
                   ELSE IF h # NoHandle /\ counts[h] > 0
                   THEN [counts EXCEPT ![h] = @ - 1] ELSE counts
      /\ Enter(t, IF last /\ owner = "backend" THEN "free" ELSE "reset", h, r, s)

\* Defect: the entry outlives the unlock, to be erased after the call to Java.
ReleaseThenErase(t, r, s) ==
  LET h == handle[r]
      last == h # NoHandle /\ counts[h] = 1
  IN  /\ counts' = IF h # NoHandle /\ counts[h] > 1
                   THEN [counts EXCEPT ![h] = @ - 1] ELSE counts
      /\ Enter(t, IF last /\ owner = "backend" THEN "free" ELSE "reset", h, r, s)

\* tracker_->release(handle_), the locked section.  The last holder erases the
\* entry and calls the backend after unlocking, through the owner read here.
TrackerRelease(t, r, s) ==
  LET h == handle[r]
      last == h # NoHandle /\ counts[h] = 1
  IN  /\ counts' = IF h # NoHandle /\ counts[h] > 0
                   THEN [counts EXCEPT ![h] = @ - 1] ELSE counts
      /\ Enter(t, IF last /\ owner = "backend" THEN "free" ELSE "reset", h, r, s)

\* The destructor of a wrapper's HandleRef.
Destroy(t, r) ==
  /\ pc[t] = "idle"
  /\ r \in Wrappers /\ ~Busy(r)
  /\ TrackerRelease(t, r, r)
  /\ UNCHANGED <<owner, net, backend, javaVars, refVars, toFree, late>>

\* Move assignment r = std::move(s), both set: releases what r held first.
\* Copy assignment is a Copy to a temporary and a move assignment from it.
Assign(t, r, s) ==
  /\ pc[t] = "idle"
  /\ r # s /\ {r, s} \subseteq Wrappers
  /\ ~Busy(r) /\ ~Busy(s)
  /\ TrackerRelease(t, r, s)
  /\ UNCHANGED <<owner, net, backend, javaVars, refVars, toFree, late>>

\* The first step of Network::operator=: the target's HandleRef is released while
\* its session is open still.  The source is a view of this session, or the
\* Network of another one (or a moved-from one): s is NetRef then, left empty.
AssignNetwork(t, s) ==
  /\ pc[t] = "idle"
  /\ net = "owner" /\ ~Busy(NetRef)
  /\ s \in tracked /\ ~Busy(s)
  /\ net' = "assigned"
  /\ TrackerRelease(t, NetRef, s)
  /\ UNCHANGED <<owner, backend, javaVars, refVars, toFree, late>>

\* owner->releaseHandle(h), after unlocking: the backend may have been closed
\* meanwhile.  A failure is swallowed.
Free(t) ==
  /\ pc[t] = "free"
  /\ ReleaseHandle(reg[t])
  /\ Goto(t, "reset")
  /\ UNCHANGED <<counts, owner, net, backend, refVars, toFree, late>>

\* tracker_.reset(), then what an assignment moves in from s (for a destructor
\* s is r itself, left empty).  The tracker, and the closed backend it keeps, go
\* with the last HandleRef.  A Network assigned over closes its session next.
Reset(t) ==
  LET r == obj[t]
      s == src[t]
  IN  /\ pc[t] = "reset"
      /\ handle' = [handle EXCEPT ![r] = handle[s], ![s] = NoHandle]
      /\ tracked' = tracked \ {s}
      /\ backend' = IF backend = "kept" /\ tracked' = {} THEN "freed" ELSE backend
      /\ IF r = NetRef /\ owner = "backend"
         THEN Enter(t, "retire", NoHandle, NetRef, NetRef) ELSE Finish(t)
      /\ UNCHANGED <<counts, owner, net, javaVars, toFree, late>>

----------------------------------------------------------------------------
\* Defect: the handles are released but stay tracked.
ReleaseAllStillTracking(t) ==
  /\ toFree' = {h \in Handles : counts[h] > 0}
  /\ Enter(t, "closing", NoHandle, NetRef, NetRef)
  /\ UNCHANGED <<counts, owner, backend, javaVars, refVars, late>>

\* close() begins: releaseAll takes every counted handle and clears the owner.
ReleaseAll(t) ==
  /\ toFree' = {h \in Handles : counts[h] > 0}
  /\ counts' = [h \in Handles |-> 0]
  /\ owner' = "nullptr"
  /\ late' = {reg[u] : u \in {v \in Threads : pc[v] \in {"wrap", "free"}}} \cap java
  /\ Enter(t, "closing", NoHandle, NetRef, NetRef)
  /\ UNCHANGED <<backend, javaVars, refVars>>

\* ~Network retires the session with its own HandleRef still set,
DestroyNetwork(t) ==
  /\ pc[t] = "idle"
  /\ net = "owner" /\ ~Busy(NetRef)
  /\ net' = "destroyed"
  /\ ReleaseAll(t)

\* Network::operator= after it has released and replaced it.
RetireAssigned(t) ==
  /\ pc[t] = "retire"
  /\ ReleaseAll(t)
  /\ UNCHANGED net

\* Defect: the first failure ends the loop.
ReleaseNextStops(t, h) ==
  /\ pc[t] = "closing" /\ h \in toFree
  /\ ReleaseHandle(h)
  /\ toFree' = IF leaked' = leaked THEN toFree \ {h} ELSE {}
  /\ UNCHANGED <<counts, owner, net, backend, refVars, threadVars, late>>

\* One turn of releaseAll's loop over the handles it took; a failure is swallowed.
ReleaseNext(t, h) ==
  /\ pc[t] = "closing" /\ h \in toFree
  /\ toFree' = toFree \ {h}
  /\ ReleaseHandle(h)
  /\ UNCHANGED <<counts, owner, net, backend, refVars, threadVars, late>>

\* Then the backend gives up its own reference, or forgets it when the thread has
\* no environment, and resets networkRef_
DropNetwork(t) ==
  /\ pc[t] = "closing" /\ toFree = {} /\ backend = "open"
  /\ DeleteReference(NetHandle) \/ LeakReference(NetHandle)
  /\ backend' = "dropped"
  /\ UNCHANGED <<counts, owner, net, refVars, threadVars, toFree, late>>

\* Defect: the close waits until no thread is in an operation.
FinishCloseAlone(t) ==
  /\ pc[t] = "closing" /\ backend = "dropped"
  /\ \A u \in Threads \ {t} : pc[u] = "idle"
  /\ backend' = "closed"
  /\ Goto(t, "keep")
  /\ UNCHANGED <<counts, owner, net, javaVars, refVars, toFree, late>>

\* and jvm_.
FinishClose(t) ==
  /\ pc[t] = "closing" /\ backend = "dropped"
  /\ backend' = "closed"
  /\ Goto(t, "keep")
  /\ UNCHANGED <<counts, owner, net, javaVars, refVars, toFree, late>>

\* HandleTracker::keep moves the tracker out of the backend,
MoveTracker(t) ==
  /\ pc[t] = "keep" /\ backend = "closed"
  /\ backend' = "moving"
  /\ UNCHANGED <<counts, owner, net, javaVars, refVars, threadVars, toFree, late>>

\* Defect: the backend goes with its network.
KeepNothing(t) ==
  /\ pc[t] = "keep" /\ backend = "moving"
  /\ backend' = "freed"
  /\ IF net = "destroyed" THEN Goto(t, "leave") ELSE Finish(t)
  /\ UNCHANGED <<counts, owner, net, javaVars, refVars, toFree, late>>

\* and hands the backend over to it: for nobody, when no HandleRef is left.
Keep(t) ==
  /\ pc[t] = "keep" /\ backend = "moving"
  /\ backend' = IF tracked = {} THEN "freed" ELSE "kept"
  /\ IF net = "destroyed" THEN Goto(t, "leave") ELSE Finish(t)
  /\ UNCHANGED <<counts, owner, net, javaVars, refVars, toFree, late>>

\* The own HandleRef of a destroyed Network goes last, like any other.
LeaveNetwork(t) ==
  /\ pc[t] = "leave"
  /\ TrackerRelease(t, NetRef, NetRef)
  /\ UNCHANGED <<owner, net, backend, javaVars, refVars, toFree, late>>

\* Another backend of the same JVM gets a free address.
ForeignReference(h) ==
  /\ h \notin java \cup foreign
  /\ foreign' = foreign \cup {h}
  /\ UNCHANGED <<counts, owner, net, backend, java, refVars, threadVars, toFree,
                 late, leaked>>

----------------------------------------------------------------------------
\* The steps that finish an operation a thread is in.
Continue(t) ==
  \/ Wrap(t) \/ Free(t) \/ Reset(t) \/ RetireAssigned(t)
  \/ DropNetwork(t) \/ FinishClose(t) \/ MoveTracker(t) \/ Keep(t) \/ LeaveNetwork(t)
  \/ \E h \in Handles : ReleaseNext(t, h)

Begin(t) ==
  \/ DestroyNetwork(t)
  \/ \E r \in Refs : Destroy(t, r) \/ AssignNetwork(t, r)
  \/ \E r, s \in Refs : \/ Copy(t, r, s) \/ Move(t, r, s) \/ Assign(t, r, s)
                        \/ \E h \in Handles \cup {NoHandle} : Obtain(t, r, s, h)

Next == \/ \E t \in Threads : Begin(t) \/ Continue(t)
        \/ \E h \in Handles : ForeignReference(h)

Spec == Init /\ [][Next]_vars

\* An operation that started runs on: the code waits for nothing but the mutex.
FairSpec == Spec /\ \A t \in Threads : WF_vars(Continue(t))

----------------------------------------------------------------------------
TypeOK ==
  /\ counts \in [Handles -> Nat]
  /\ owner \in {"backend", "nullptr"}
  /\ net \in {"owner", "assigned", "destroyed"}
  /\ backend \in {"open", "dropped", "closed", "moving", "kept", "freed"}
  /\ java \subseteq Handles /\ foreign \subseteq Handles
  /\ toFree \subseteq Handles /\ late \subseteq Handles /\ leaked \subseteq Handles
  /\ handle \in [Refs -> Handles \cup {NoHandle}]
  /\ tracked \subseteq Refs
  /\ pc \in [Threads -> {"idle", "wrap", "free", "reset", "retire", "closing", "keep", "leave"}]
  /\ reg \in [Threads -> Handles \cup {NoHandle}]
  /\ obj \in [Threads -> Refs] /\ src \in [Threads -> Refs]

\* The HandleRefs past the locked section of their release.
Releasing == {obj[t] : t \in {u \in Threads : pc[u] \in {"free", "reset"}}}
Holders(h) == {r \in tracked \ Releasing : handle[r] = h}
Quiet == \A t \in Threads : pc[t] = "idle"

\* While the backend is open, the count of a handle is the number of HandleRefs
\* that hold it: copies, moves and assignments on any threads neither lose nor
\* duplicate a hold (HandleTracker::retain/release, HandleRef's special members).
CountsMatchHolders ==
  owner = "backend" => \A h \in Handles : counts[h] = Cardinality(Holders(h))

\* While the backend is open, the Java-side reference of every handle a wrapper
\* holds exists: no wrapper of an open network reaches a deleted reference.
HeldHandlesLive ==
  owner = "backend" => \A r \in tracked \ Releasing : handle[r] \in java \cup {NoHandle}

\* The release decided under the lock and done after it is still due then: the
\* reference exists, no wrapper holds it again, and neither another release nor
\* the close (releaseAll) gives it up too.  The one exception is the network's own
\* handle, once a Network is assigned over: see ForeignUntouched.
ReleasedOnce ==
  \A t \in Threads : pc[t] = "free" =>
    /\ reg[t] \in java \/ (reg[t] = NetHandle /\ net = "assigned" /\ backend # "open")
    /\ reg[t] \notin toFree
    /\ owner = "backend" => Holders(reg[t]) = {}
    /\ \A u \in Threads \ {t} : pc[u] = "free" => reg[u] # reg[t]

\* Between operations the only references that leak are those whose release failed
\* (HandleRef.cpp:31, JNIBackend.cpp:252).  But for them, an open backend has exactly
\* the references its wrappers hold, and a closed one at most those that were in
\* transit (just returned, or being released) on another thread when the close began.
LeaksAccounted ==
  Quiet => IF owner = "backend"
           THEN java = ({handle[r] : r \in tracked} \ {NoHandle}) \cup leaked
           ELSE java \subseteq late \cup leaked

\* The backend of a destroyed network stays as long as a HandleRef holds its
\* tracker or a thread is in a call through one, and is freed with the last.
BackendLifetime ==
  /\ backend = "freed" => tracked = {} /\ Quiet
  /\ backend = "kept" => tracked # {}

\* Whatever wrappers outlive the network, no release deletes a reference that
\* another backend got at the same address ("the remaining releases become no-ops").
ForeignUntouched == [][foreign \subseteq foreign']_vars

\* Nothing else than the late release of the handle of a Network assigned over does:
\* a thread that decided it before the close, as the last holder, and is done after.
OthersUntouched ==
  [][\A h \in foreign \ foreign' :
       /\ h = NetHandle /\ net = "assigned" /\ backend # "open"
       /\ \E t \in Threads : pc[t] = "free" /\ reg[t] = h /\ pc'[t] # "free"]_vars

\* Destroying a network, or assigning over it, ends, whatever the other threads do:
\* it waits for none of them, and leaves a backend that is kept or freed.
CloseEnds == net # "owner" ~> backend \in {"kept", "freed"}

----------------------------------------------------------------------------
(***************************************************************************)
(* The inductive invariant behind these properties.                        *)
(***************************************************************************)
\* Two operations never change a HandleRef that the other one uses.
Exclusive ==
  \A t, u \in Threads : t # u /\ pc[t] # "idle" /\ pc[u] # "idle" =>
    /\ obj[t] \notin {obj[u], src[u]}
    /\ pc[t] # "wrap" => src[t] \notin {obj[u], src[u]}

\* What each step of an operation relies on.
InOperation ==
  \A t \in Threads :
    /\ pc[t] = "wrap" => obj[t] \notin tracked /\ src[t] \in tracked
    /\ pc[t] \in {"free", "reset"} =>
         /\ obj[t] \in tracked /\ src[t] \in tracked
         /\ net = "owner" => NetRef \notin {obj[t], src[t]}
    /\ pc[t] = "retire" =>
         /\ obj[t] = NetRef /\ src[t] = NetRef
         /\ net = "assigned" /\ owner = "backend"
    /\ pc[t] \in {"closing", "keep", "leave"} =>
         /\ obj[t] = NetRef /\ src[t] = NetRef
         /\ net = "destroyed" => NetRef \in tracked
         /\ owner = "nullptr"
    /\ pc[t] = "closing" => backend \in {"open", "dropped"}
    /\ pc[t] = "keep" => backend \in {"closed", "moving"}
    /\ pc[t] = "leave" => backend = "kept" /\ net = "destroyed"

UntrackedIsEmpty == \A r \in Refs \ tracked : handle[r] = NoHandle

\* Until the close, or an assignment, the Network holds the network's handle, and
\* the backend keeps its reference for as long as it is open.
NetworkHeld ==
  /\ owner = "backend" => backend = "open" /\ toFree = {} /\ net # "destroyed"
  /\ net = "owner" => /\ owner = "backend"
                      /\ NetRef \in tracked \ Releasing
                      /\ handle[NetRef] = NetHandle
  /\ backend = "open" => NetHandle \in java

\* References in transit: each thread has its own, no wrapper holds it, and
\* releaseAll does not know it.
InTransit ==
  \A t \in Threads : pc[t] \in {"wrap", "free"} /\ reg[t] # NoHandle =>
    /\ reg[t] \in java \/ (reg[t] = NetHandle /\ backend # "open")
    /\ reg[t] \notin toFree
    /\ reg[t] = NetHandle => pc[t] = "free" /\ net = "assigned"
    /\ owner = "backend" => Holders(reg[t]) = {}
    /\ \A u \in Threads \ {t} : pc[u] \in {"wrap", "free"} => reg[u] # reg[t]

References ==
  /\ java \cap foreign = {}
  /\ toFree \subseteq java
  /\ backend # "open" => toFree = {}
  /\ \A t \in Threads : pc[t] = "free" => reg[t] # NoHandle

IInv ==
  /\ TypeOK /\ Exclusive /\ InOperation /\ UntrackedIsEmpty /\ NetworkHeld
  /\ InTransit /\ References
  /\ CountsMatchHolders /\ HeldHandlesLive /\ BackendLifetime

----------------------------------------------------------------------------
\* What the bookkeeping promises: see HandleOwnership.
Ownership == INSTANCE HandleOwnership WITH
  live     <- java,
  returned <- {reg[t] : t \in {u \in Threads : pc[u] = "wrap"}} \ {NoHandle},
  holding  <- [r \in Refs |-> IF r \in tracked \ Releasing THEN handle[r] ELSE NoHandle],
  open     <- (owner = "backend")

Implements == Ownership!Spec
============================================================================
