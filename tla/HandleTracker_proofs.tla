------------------------ MODULE HandleTracker_proofs ------------------------
(***************************************************************************)
(* Proofs about HandleTracker, for any finite set of HandleRefs and any    *)
(* sets of threads and handles.                                            *)
(***************************************************************************)
EXTENDS HandleTracker, FiniteSetTheorems, TLAPS

(***************************************************************************)
(* Type correctness of the tracker, the HandleRefs and the threads.        *)
(***************************************************************************)
LEMMA TypeStep == TypeOK /\ [Next]_vars => TypeOK'
<1> SUFFICES ASSUME TypeOK, [Next]_vars PROVE TypeOK'
  OBVIOUS
<1> USE NetworkConstants DEF TypeOK, Enter, Goto, Finish, refVars, threadVars, javaVars
<1>1. ASSUME NEW t \in Threads, NEW r \in Refs, NEW s \in Refs,
             NEW h \in Handles \cup {NoHandle}, Obtain(t, r, s, h)
      PROVE  TypeOK'
  BY <1>1 DEF Obtain
<1>2. ASSUME NEW t \in Threads, Wrap(t) PROVE TypeOK'
  BY <1>2 DEF Wrap, Retain
<1>3. ASSUME NEW t \in Threads, NEW r \in Refs, NEW s \in Refs, Copy(t, r, s)
      PROVE  TypeOK'
  BY <1>3 DEF Copy, Retain
<1>4. ASSUME NEW t \in Threads, NEW r \in Refs, NEW s \in Refs, Move(t, r, s)
      PROVE  TypeOK'
  BY <1>4 DEF Move
<1>5. ASSUME NEW t \in Threads, NEW r \in Refs, NEW s \in Refs, TrackerRelease(t, r, s)
      PROVE  /\ counts' \in [Handles -> Nat]
             /\ pc' \in [Threads -> {"idle", "wrap", "free", "reset", "retire", "closing", "keep", "leave"}]
             /\ reg' \in [Threads -> Handles \cup {NoHandle}]
             /\ obj' \in [Threads -> Refs] /\ src' \in [Threads -> Refs]
  BY <1>5 DEF TrackerRelease
<1>6. ASSUME NEW t \in Threads, NEW r \in Refs, Destroy(t, r) PROVE TypeOK'
  BY <1>5, <1>6 DEF Destroy
<1>7. ASSUME NEW t \in Threads, NEW r \in Refs, NEW s \in Refs, Assign(t, r, s)
      PROVE  TypeOK'
  BY <1>5, <1>7 DEF Assign
<1>8. ASSUME NEW t \in Threads, Free(t) PROVE TypeOK'
  BY <1>8 DEF Free, ReleaseHandle, DeleteReference, LeakReference
<1>9. ASSUME NEW t \in Threads, Reset(t) PROVE TypeOK'
  BY <1>9 DEF Reset
<1>10. ASSUME NEW t \in Threads, DestroyNetwork(t) \/ RetireAssigned(t) PROVE TypeOK'
  BY <1>10 DEF DestroyNetwork, RetireAssigned, ReleaseAll
<1>11. ASSUME NEW t \in Threads, NEW h \in Handles, ReleaseNext(t, h) PROVE TypeOK'
  BY <1>11 DEF ReleaseNext, ReleaseHandle, DeleteReference, LeakReference
<1>12. ASSUME NEW t \in Threads, DropNetwork(t) PROVE TypeOK'
  BY <1>12 DEF DropNetwork, DeleteReference, LeakReference
<1>13. ASSUME NEW t \in Threads, FinishClose(t) \/ MoveTracker(t) \/ Keep(t) PROVE TypeOK'
  BY <1>13 DEF FinishClose, MoveTracker, Keep
<1>14. ASSUME NEW t \in Threads, LeaveNetwork(t) PROVE TypeOK'
  BY <1>5, <1>14 DEF LeaveNetwork
<1>15. ASSUME NEW h \in Handles, ForeignReference(h) PROVE TypeOK'
  BY <1>15 DEF ForeignReference
<1>16. ASSUME NEW t \in Threads, NEW s \in Refs, AssignNetwork(t, s) PROVE TypeOK'
  BY <1>5, <1>16 DEF AssignNetwork
<1>17. CASE UNCHANGED vars
  BY <1>17 DEF vars
<1> QED
  BY <1>1, <1>2, <1>3, <1>4, <1>6, <1>7, <1>8, <1>9, <1>10, <1>11, <1>12, <1>13,
     <1>14, <1>15, <1>16, <1>17 DEF Next, Begin, Continue

\* Every variable keeps its type, whatever the threads do.
THEOREM TypeCorrect == Spec => []TypeOK
<1>1. Init => TypeOK
  BY NetworkConstants DEF Init, TypeOK
<1> QED
  BY <1>1, TypeStep, PTL DEF Spec

----------------------------------------------------------------------------
(***************************************************************************)
(* Counting holders: what a retain, a release and a move do to the number  *)
(* of HandleRefs of a handle.                                              *)
(***************************************************************************)

\* The HandleRefs that hold a handle are finitely many.
LEMMA HoldersFinite ==
  ASSUME TypeOK, NEW h
  PROVE  IsFiniteSet(Holders(h)) /\ Cardinality(Holders(h)) \in Nat
<1>1. Holders(h) \subseteq Refs
  BY DEF Holders, TypeOK
<1> QED  BY <1>1, FiniteRefs, FS_Subset, FS_CardinalityType

\* A wrapper in place of another one: their number stays.
LEMMA Swap ==
  ASSUME NEW S, IsFiniteSet(S), NEW x \in S, NEW y, y \notin S
  PROVE  Cardinality((S \ {x}) \cup {y}) = Cardinality(S)
<1>1. IsFiniteSet(S \ {x}) /\ Cardinality(S \ {x}) = Cardinality(S) - 1
  BY FS_RemoveElement
<1>2. Cardinality((S \ {x}) \cup {y}) = Cardinality(S \ {x}) + 1
  BY <1>1, FS_AddElement
<1> QED  BY <1>1, <1>2, FS_CardinalityType

\* A retained handle with one more holder: counts_ still has their number.
LEMMA CountsAdd ==
  ASSUME TypeOK, CountsMatchHolders, owner' = owner, NEW h \in Handles \cup {NoHandle}, Retain(h),
         NEW r \in Refs, r \notin Holders(h),
         \A k \in Handles : Holders(k)' = IF k = h THEN Holders(k) \cup {r} ELSE Holders(k)
  PROVE  CountsMatchHolders'
<1> SUFFICES ASSUME owner = "backend", NEW k \in Handles
             PROVE  counts'[k] = Cardinality(Holders(k)')
  BY DEF CountsMatchHolders
<1>1. counts[k] = Cardinality(Holders(k))
  BY DEF CountsMatchHolders
<1>2. CASE k = h
  <2>1. counts'[k] = counts[k] + 1
    BY <1>2, NoHandleIsNone DEF Retain, TypeOK
  <2>2. Cardinality(Holders(k) \cup {r}) = Cardinality(Holders(k)) + 1
    BY <1>2, HoldersFinite, FS_AddElement
  <2> QED  BY <1>1, <1>2, <2>1, <2>2
<1>3. CASE k # h
  <2>1. counts'[k] = counts[k]
    BY <1>3 DEF Retain, TypeOK
  <2> QED  BY <1>1, <1>3, <2>1
<1> QED  BY <1>2, <1>3

\* A release with one holder less: counts_ still has their number.
LEMMA CountsDrop ==
  ASSUME TypeOK, CountsMatchHolders, Exclusive, owner' = owner, UNCHANGED refVars,
         NEW t \in Threads, NEW r \in tracked \ Releasing, NEW s \in Refs,
         pc[t] \notin {"free", "reset"}, TrackerRelease(t, r, s)
  PROVE  CountsMatchHolders'
<1> SUFFICES ASSUME owner = "backend", NEW k \in Handles
             PROVE  counts'[k] = Cardinality(Holders(k)')
  BY DEF CountsMatchHolders
<1>1. counts[k] = Cardinality(Holders(k))
  BY DEF CountsMatchHolders
<1>2. Holders(k)' = Holders(k) \ {r}
  BY DEF Holders, Releasing, TrackerRelease, Enter, refVars, TypeOK
<1>3. CASE k = handle[r]
  <2>1. r \in Holders(k)
    BY <1>3 DEF Holders
  <2>2. Cardinality(Holders(k) \ {r}) = Cardinality(Holders(k)) - 1
    BY <2>1, HoldersFinite, FS_RemoveElement
  <2>3. counts[k] > 0
    BY <1>1, <2>1, HoldersFinite, FS_EmptySet
  <2>4. counts'[k] = counts[k] - 1
    BY <1>3, <2>3, NoHandleIsNone DEF TrackerRelease, TypeOK
  <2> QED  BY <1>1, <1>2, <2>2, <2>4
<1>4. CASE k # handle[r]
  <2>1. Holders(k) \ {r} = Holders(k)
    BY <1>4 DEF Holders
  <2>2. counts'[k] = counts[k]
    BY <1>4 DEF TrackerRelease, TypeOK
  <2> QED  BY <1>1, <1>2, <2>1, <2>2
<1> QED  BY <1>3, <1>4

\* Same holders and same counts_.
LEMMA CountsKept ==
  ASSUME TypeOK, CountsMatchHolders, owner' = owner, counts' = counts,
         \A k \in Handles : Cardinality(Holders(k)') = Cardinality(Holders(k))
  PROVE  CountsMatchHolders'
BY DEF CountsMatchHolders

\* A thread that takes the last hold on a handle is alone on it.
LEMMA SoleHolder ==
  ASSUME TypeOK, CountsMatchHolders, owner = "backend",
         NEW r \in tracked \ Releasing, handle[r] # NoHandle, counts[handle[r]] = 1
  PROVE  Holders(handle[r]) = {r}
<1>1. handle[r] \in Handles /\ r \in Holders(handle[r])
  BY DEF TypeOK, Holders
<1>2. Cardinality(Holders(handle[r])) = 1
  BY <1>1 DEF CountsMatchHolders
<1> QED  BY <1>1, <1>2, HoldersFinite, FS_Singleton

\* A handle counted at least once has a HandleRef that holds it.
LEMMA CountedIsHeld ==
  ASSUME TypeOK, CountsMatchHolders, owner = "backend", NEW h \in Handles
  PROVE  counts[h] > 0 <=> Holders(h) # {}
BY HoldersFinite, FS_EmptySet DEF CountsMatchHolders, TypeOK

----------------------------------------------------------------------------
(***************************************************************************)
(* Each action preserves the inductive invariant.                          *)
(***************************************************************************)
\* A call that returns a handle no wrapper holds yet.
LEMMA IInvObtain ==
  ASSUME IInv, TypeOK', NEW t \in Threads, NEW x \in Refs, NEW y \in Refs,
         NEW h \in Handles \cup {NoHandle}, Obtain(t, x, y, h)
  PROVE  IInv'
<1> USE NetworkConstants, NoHandleIsNone
        DEF IInv, TypeOK, Enter, Goto, Finish, Wrappers, refVars, threadVars, javaVars
<1>1. Exclusive'
  BY DEF Obtain, Busy, Written, Exclusive
<1>2. InOperation'
  BY DEF Obtain, Empty, Busy, InOperation
<1>3. UntrackedIsEmpty'
  BY DEF Obtain, Busy, UntrackedIsEmpty
<1>4. NetworkHeld'
  BY DEF Obtain, Busy, NetworkHeld, Releasing
<1>5. InTransit'
  BY DEF Obtain, Busy, InTransit, References, NetworkHeld, Holders, Releasing,
         InOperation, HeldHandlesLive
<1>6. References'
  BY DEF Obtain, Busy, References
<1>7. HeldHandlesLive'
  BY DEF Obtain, Busy, HeldHandlesLive, Releasing
<1>8. BackendLifetime'
  BY DEF Obtain, Busy, BackendLifetime
<1>9. CountsMatchHolders'
  <2>1. \A k \in Handles : Holders(k)' = Holders(k)
    BY DEF Holders, Releasing, Obtain
  <2> QED  BY <2>1, CountsKept DEF Obtain
<1> QED  BY <1>1, <1>2, <1>3, <1>4, <1>5, <1>6, <1>7, <1>8, <1>9

\* A HandleRef built on a handle returned: one more hold.
LEMMA IInvWrap ==
  ASSUME IInv, TypeOK', NEW t \in Threads, Wrap(t)
  PROVE  IInv'
<1> USE NetworkConstants, NoHandleIsNone
        DEF IInv, TypeOK, Enter, Goto, Finish, Wrappers, refVars, threadVars, javaVars
<1>1. Exclusive'
  BY DEF Wrap, Exclusive
<1>2. InOperation'
  BY DEF Wrap, InOperation, Exclusive
<1>3. UntrackedIsEmpty'
  BY DEF Wrap, UntrackedIsEmpty
<1>4. NetworkHeld'
  BY DEF Wrap, NetworkHeld, InOperation, Releasing, InTransit
<1>5. InTransit'
  BY DEF Wrap, InTransit, Holders, Releasing
<1>6. References'
  BY DEF Wrap, References
<1>7. HeldHandlesLive'
  BY DEF Wrap, HeldHandlesLive, InTransit, NetworkHeld, Releasing, InOperation
<1>8. BackendLifetime'
  BY DEF Wrap, BackendLifetime, Quiet
<1>9. CountsMatchHolders'
  <2> SUFFICES ASSUME owner = "backend" PROVE CountsMatchHolders'
    BY DEF Wrap, CountsMatchHolders
  <2>0. backend # "moving"
    BY DEF NetworkHeld
  <2>1. obj[t] \notin tracked /\ obj[t] \notin Releasing'
    BY DEF Wrap, InOperation, Exclusive, Releasing
  <2>2. \A k \in Handles :
          Holders(k)' = IF k = reg[t] THEN Holders(k) \cup {obj[t]} ELSE Holders(k)
    BY <2>0, <2>1 DEF Wrap, Holders, Releasing
  <2>3. obj[t] \notin Holders(reg[t]) /\ Retain(reg[t]) /\ owner' = owner
    BY <2>0, <2>1 DEF Wrap, Holders
  <2>4. reg[t] \in Handles \cup {NoHandle} /\ obj[t] \in Refs
    OBVIOUS
  <2> QED  BY <2>2, <2>3, <2>4, CountsAdd
<1> QED  BY <1>1, <1>2, <1>3, <1>4, <1>5, <1>6, <1>7, <1>8, <1>9

\* A HandleRef copied: one more hold.
LEMMA IInvCopy ==
  ASSUME IInv, TypeOK', NEW t \in Threads, NEW x \in Refs, NEW y \in Refs, Copy(t, x, y)
  PROVE  IInv'
<1> USE NetworkConstants, NoHandleIsNone
        DEF IInv, TypeOK, Enter, Goto, Finish, Wrappers, refVars, threadVars, javaVars
<1>1. Exclusive'
  BY DEF Copy, Retain, Busy, Exclusive
<1>2. InOperation'
  BY DEF Copy, Retain, Busy, InOperation
<1>3. UntrackedIsEmpty'
  BY DEF Copy, Retain, Busy, UntrackedIsEmpty
<1>4. NetworkHeld'
  BY DEF Copy, Empty, Busy, NetworkHeld, Releasing
<1>5. InTransit'
  BY DEF Copy, Retain, Empty, Written, InTransit, Holders, Releasing
<1>6. References'
  BY DEF Copy, Retain, Busy, References
<1>7. HeldHandlesLive'
  BY DEF Copy, Empty, Written, HeldHandlesLive, Releasing
<1>8. BackendLifetime'
  BY DEF Copy, Retain, Busy, BackendLifetime
<1>9. CountsMatchHolders'
  <2>1. y \notin tracked /\ y \notin Releasing
    BY DEF Copy, Empty, Busy, Releasing
  <2>2. \A k \in Handles :
          Holders(k)' = IF k = handle[x] THEN Holders(k) \cup {y} ELSE Holders(k)
    BY <2>1 DEF Copy, Holders, Releasing
  <2>3. y \notin Holders(handle[x]) /\ Retain(handle[x]) /\ owner' = owner
    BY <2>1 DEF Copy, Holders
  <2> QED  BY <2>2, <2>3, CountsAdd
<1> QED  BY <1>1, <1>2, <1>3, <1>4, <1>5, <1>6, <1>7, <1>8, <1>9

\* A HandleRef moved: one holder in place of another.
LEMMA IInvMove ==
  ASSUME IInv, TypeOK', NEW t \in Threads, NEW x \in Refs, NEW y \in Refs, Move(t, x, y)
  PROVE  IInv'
<1> USE NetworkConstants, NoHandleIsNone
        DEF IInv, TypeOK, Enter, Goto, Finish, Wrappers, refVars, threadVars, javaVars
<1>1. Exclusive'
  BY DEF Move, Empty, Exclusive
<1>2. InOperation'
  BY DEF Move, Busy, InOperation
<1>3. UntrackedIsEmpty'
  BY DEF Move, Empty, UntrackedIsEmpty
<1>4. NetworkHeld'
  BY DEF Move, Empty, NetworkHeld, Releasing
<1>5. InTransit'
  BY DEF Move, Busy, InTransit, Holders, Releasing
<1>6. References'
  BY DEF Move, Empty, References
<1>7. HeldHandlesLive'
  BY DEF Move, Busy, HeldHandlesLive, Releasing
<1>8. BackendLifetime'
  BY DEF Move, Empty, BackendLifetime
<1>9. CountsMatchHolders'
  <2>1. y \notin tracked /\ x \notin Releasing /\ y \notin Releasing /\ x # y
    BY DEF Move, Busy, Empty, Releasing
  <2>2. ASSUME NEW k \in Handles
        PROVE  Cardinality(Holders(k)') = Cardinality(Holders(k))
    <3>1. CASE handle[x] = k
      <4>1. Holders(k)' = (Holders(k) \ {x}) \cup {y}
        BY <2>1, <3>1 DEF Move, Holders, Releasing
      <4>2. x \in Holders(k) /\ y \notin Holders(k)
        BY <2>1, <3>1 DEF Move, Holders
      <4> QED  BY <4>1, <4>2, HoldersFinite, Swap
    <3>2. CASE handle[x] # k
      <4>1. Holders(k)' = Holders(k)
        BY <2>1, <3>2 DEF Move, Holders, Releasing
      <4> QED  BY <4>1
    <3> QED  BY <3>1, <3>2
  <2> QED  BY <2>2, CountsKept DEF Move
<1> QED  BY <1>1, <1>2, <1>3, <1>4, <1>5, <1>6, <1>7, <1>8, <1>9

\* The locked section of a destructor: one hold less.
LEMMA IInvDestroy ==
  ASSUME IInv, TypeOK', NEW t \in Threads, NEW x \in Refs, Destroy(t, x)
  PROVE  IInv'
<1> USE NetworkConstants, NoHandleIsNone
        DEF IInv, TypeOK, Enter, Goto, Finish, Wrappers, refVars, threadVars, javaVars
<1>1. Exclusive'
  BY DEF Destroy, TrackerRelease, Busy, Exclusive
<1>2. InOperation'
  BY DEF Destroy, TrackerRelease, InOperation
<1>3. UntrackedIsEmpty'
  BY DEF Destroy, TrackerRelease, UntrackedIsEmpty
<1>4. NetworkHeld'
  BY DEF Destroy, TrackerRelease, NetworkHeld, Releasing
<1>5. InTransit'
  <2>1. x \in tracked \ Releasing
    BY DEF Destroy, Busy, Releasing
  <2>2. ASSUME owner = "backend", handle[x] # NoHandle, counts[handle[x]] = 1
        PROVE  /\ Holders(handle[x]) = {x}
               /\ handle[x] = NetHandle => net = "assigned"
    <3>1. Holders(handle[x]) = {x}
      BY <2>1, <2>2, SoleHolder
    <3> QED  BY <2>1, <2>2, <3>1 DEF Destroy, Holders, NetworkHeld
  <2> QED  BY <2>1, <2>2 DEF Destroy, TrackerRelease, Busy, InTransit, NetworkHeld,
       Holders, Releasing, HeldHandlesLive, InOperation
<1>6. References'
  BY DEF Destroy, TrackerRelease, References
<1>7. HeldHandlesLive'
  BY DEF Destroy, TrackerRelease, HeldHandlesLive, Releasing
<1>8. BackendLifetime'
  BY DEF Destroy, TrackerRelease, BackendLifetime
<1>9. CountsMatchHolders'
  <2>1. x \in tracked \ Releasing /\ pc[t] = "idle" /\ TrackerRelease(t, x, x)
    BY DEF Destroy, Busy, Releasing
  <2> QED  BY <2>1, CountsDrop DEF Destroy
<1> QED  BY <1>1, <1>2, <1>3, <1>4, <1>5, <1>6, <1>7, <1>8, <1>9

\* The locked section of a move assignment: the target's hold goes.
LEMMA IInvAssign ==
  ASSUME IInv, TypeOK', NEW t \in Threads, NEW x \in Refs, NEW y \in Refs, Assign(t, x, y)
  PROVE  IInv'
<1> USE NetworkConstants, NoHandleIsNone
        DEF IInv, TypeOK, Enter, Goto, Finish, Wrappers, refVars, threadVars, javaVars
<1>1. Exclusive'
  BY DEF Assign, TrackerRelease, Busy, Exclusive
<1>2. InOperation'
  <2>1. ASSUME NEW u \in Threads \ {t}
        PROVE  /\ pc'[u] = pc[u] /\ obj'[u] = obj[u] /\ src'[u] = src[u]
    BY DEF Assign, TrackerRelease
  <2>2. /\ pc'[t] \in {"free", "reset"} /\ obj'[t] = x /\ src'[t] = y
        /\ x \in tracked /\ y \in tracked /\ (net = "owner" => NetRef \notin {x, y})
    BY DEF Assign, TrackerRelease
  <2> QED  BY <2>1, <2>2 DEF Assign, InOperation
<1>3. UntrackedIsEmpty'
  BY DEF Assign, TrackerRelease, UntrackedIsEmpty
<1>4. NetworkHeld'
  BY DEF Assign, TrackerRelease, NetworkHeld, Releasing
<1>5. InTransit'
  <2>1. x \in tracked \ Releasing
    BY DEF Assign, Busy, Releasing
  <2>2. ASSUME owner = "backend", handle[x] # NoHandle, counts[handle[x]] = 1
        PROVE  /\ Holders(handle[x]) = {x}
               /\ handle[x] = NetHandle => net = "assigned"
    <3>1. Holders(handle[x]) = {x}
      BY <2>1, <2>2, SoleHolder
    <3> QED  BY <2>1, <2>2, <3>1 DEF Assign, Holders, NetworkHeld
  <2> QED  BY <2>1, <2>2 DEF Assign, TrackerRelease, Busy, InTransit, NetworkHeld,
       Holders, Releasing, HeldHandlesLive, InOperation
<1>6. References'
  BY DEF Assign, TrackerRelease, References
<1>7. HeldHandlesLive'
  BY DEF Assign, TrackerRelease, HeldHandlesLive, Releasing
<1>8. BackendLifetime'
  BY DEF Assign, TrackerRelease, BackendLifetime
<1>9. CountsMatchHolders'
  <2>1. x \in tracked \ Releasing /\ pc[t] = "idle" /\ TrackerRelease(t, x, y)
    BY DEF Assign, Busy, Releasing
  <2> QED  BY <2>1, CountsDrop DEF Assign
<1> QED  BY <1>1, <1>2, <1>3, <1>4, <1>5, <1>6, <1>7, <1>8, <1>9

\* The locked section of an assignment over the Network: its session is open still.
LEMMA IInvAssignNetwork ==
  ASSUME IInv, TypeOK', NEW t \in Threads, NEW y \in Refs, AssignNetwork(t, y)
  PROVE  IInv'
<1> USE NetworkConstants, NoHandleIsNone
        DEF IInv, TypeOK, Enter, Goto, Finish, Wrappers, refVars, threadVars, javaVars
<1>1. Exclusive'
  BY DEF AssignNetwork, TrackerRelease, Busy, Exclusive
<1>2. InOperation'
  <2>1. ASSUME NEW u \in Threads \ {t}
        PROVE  /\ pc'[u] = pc[u] /\ obj'[u] = obj[u] /\ src'[u] = src[u]
               /\ pc[u] \notin {"closing", "keep", "leave", "retire"}
    BY DEF AssignNetwork, TrackerRelease, InOperation, NetworkHeld
  <2>2. /\ pc'[t] \in {"free", "reset"} /\ obj'[t] = NetRef /\ src'[t] = y
        /\ NetRef \in tracked /\ y \in tracked /\ net' = "assigned"
    BY DEF AssignNetwork, TrackerRelease, NetworkHeld
  <2> QED  BY <2>1, <2>2 DEF AssignNetwork, InOperation
<1>3. UntrackedIsEmpty'
  BY DEF AssignNetwork, TrackerRelease, UntrackedIsEmpty
<1>4. NetworkHeld'
  BY DEF AssignNetwork, TrackerRelease, NetworkHeld
<1>5. InTransit'
  <2>1. NetRef \in tracked \ Releasing /\ handle[NetRef] = NetHandle /\ owner = "backend"
        /\ NetHandle \in java /\ toFree = {}
    BY DEF AssignNetwork, NetworkHeld
  <2>2. ASSUME counts[NetHandle] = 1 PROVE Holders(NetHandle) = {NetRef}
    BY <2>1, <2>2, SoleHolder
  <2>3. NetRef \in Releasing' /\ \A h \in Handles : Holders(h)' = Holders(h) \ {NetRef}
    BY <2>1 DEF AssignNetwork, TrackerRelease, Busy, Holders, Releasing
  <2>4. \A u \in Threads : pc[u] \in {"wrap", "free"} => reg[u] # NetHandle
    BY DEF AssignNetwork, InTransit
  <2> QED  BY <2>1, <2>2, <2>3, <2>4 DEF AssignNetwork, TrackerRelease, InTransit
<1>6. References'
  BY DEF AssignNetwork, TrackerRelease, References
<1>7. HeldHandlesLive'
  BY DEF AssignNetwork, TrackerRelease, HeldHandlesLive, Releasing
<1>8. BackendLifetime'
  BY DEF AssignNetwork, TrackerRelease, BackendLifetime, NetworkHeld
<1>9. CountsMatchHolders'
  <2>1. NetRef \in tracked \ Releasing /\ pc[t] = "idle" /\ TrackerRelease(t, NetRef, y)
    BY DEF AssignNetwork, NetworkHeld
  <2> QED  BY <2>1, CountsDrop DEF AssignNetwork
<1> QED  BY <1>1, <1>2, <1>3, <1>4, <1>5, <1>6, <1>7, <1>8, <1>9

\* The release done after unlocking.
LEMMA IInvFree ==
  ASSUME IInv, TypeOK', NEW t \in Threads, Free(t)
  PROVE  IInv'
<1> USE NetworkConstants, NoHandleIsNone
        DEF IInv, TypeOK, Enter, Goto, Finish, Wrappers, refVars, threadVars, javaVars
<1>1. Exclusive'
  BY DEF Free, Exclusive
<1>2. InOperation'
  BY DEF Free, InOperation
<1>3. UntrackedIsEmpty'
  BY DEF Free, UntrackedIsEmpty
<1>4. NetworkHeld'
  BY DEF Free, ReleaseHandle, DeleteReference, LeakReference, NetworkHeld, Releasing
<1>5. InTransit'
  BY DEF Free, ReleaseHandle, DeleteReference, LeakReference, InTransit, Holders, Releasing
<1>6. References'
  BY DEF Free, ReleaseHandle, DeleteReference, LeakReference, References, InTransit, HeldHandlesLive
<1>7. HeldHandlesLive'
  BY DEF Free, ReleaseHandle, DeleteReference, LeakReference, HeldHandlesLive, InTransit,
         NetworkHeld, Releasing, Holders, InOperation
<1>8. BackendLifetime'
  BY DEF Free, BackendLifetime, Quiet
<1>9. CountsMatchHolders'
  <2>1. \A k \in Handles : Holders(k)' = Holders(k)
    BY DEF Holders, Releasing, Free
  <2> QED  BY <2>1, CountsKept DEF Free
<1> QED  BY <1>1, <1>2, <1>3, <1>4, <1>5, <1>6, <1>7, <1>8, <1>9

\* The end of a destructor or of an assignment, which moves the source in.
LEMMA IInvReset ==
  ASSUME IInv, TypeOK', NEW t \in Threads, Reset(t)
  PROVE  IInv'
<1> USE NetworkConstants, NoHandleIsNone
        DEF IInv, TypeOK, Enter, Goto, Finish, Wrappers, refVars, threadVars, javaVars
<1> DEFINE r == obj[t]
           s == src[t]
<1>a. /\ r \in tracked /\ s \in tracked /\ (net = "owner" => NetRef \notin {r, s})
      /\ \A u \in Threads \ {t} :
           pc[u] # "idle" => r \notin {obj[u], src[u]} /\ s \notin {obj[u], src[u]}
  <2>1. pc[t] = "reset"
    BY DEF Reset
  <2>2. r \in tracked /\ s \in tracked /\ (net = "owner" => NetRef \notin {r, s})
    BY <2>1 DEF InOperation
  <2>3. ASSUME NEW u \in Threads \ {t}, pc[u] # "idle"
        PROVE  r \notin {obj[u], src[u]} /\ s \notin {obj[u], src[u]}
    BY <2>1, <2>3 DEF Exclusive
  <2> QED  BY <2>2, <2>3
<1>b. /\ handle'[s] = NoHandle /\ (s # r => handle'[r] = handle[s])
      /\ \A q \in Refs \ {r, s} : handle'[q] = handle[q]
  BY DEF Reset
<1>c. Releasing' = Releasing \ {r} /\ r \in Releasing /\ (s # r => s \notin Releasing)
  <2>1. pc[t] = "reset" /\ pc'[t] \in {"idle", "retire"}
        /\ (\A u \in Threads \ {t} : pc'[u] = pc[u])
        /\ \A u \in Threads \ {t} : obj'[u] = obj[u]
    BY DEF Reset
  <2> QED  BY <1>a, <2>1 DEF Releasing
<1>d. \A k \in Handles : Holders(k)' = IF s # r /\ handle[s] = k
                                     THEN (Holders(k) \ {s}) \cup {r} ELSE Holders(k)
  BY <1>a, <1>b, <1>c DEF Reset, Holders
<1>1. Exclusive'
  BY DEF Reset, Exclusive
<1>2. InOperation'
  BY <1>a DEF Reset, InOperation, NetworkHeld
<1>3. UntrackedIsEmpty'
  BY <1>a, <1>b DEF Reset, UntrackedIsEmpty
<1>4. NetworkHeld'
  BY <1>a, <1>b, <1>c DEF Reset, NetworkHeld
<1>5. InTransit'
  BY <1>a, <1>c, <1>d DEF Reset, InTransit, Holders
<1>6. References'
  BY DEF Reset, References
<1>7. HeldHandlesLive'
  BY <1>a, <1>b, <1>c DEF Reset, HeldHandlesLive
<1>8. BackendLifetime'
  <2>1. ASSUME backend = "kept", tracked \ {s} = {}, NEW u \in Threads \ {t} PROVE pc[u] = "idle"
    <3>1. tracked \subseteq {s} /\ owner # "backend"
      BY <2>1 DEF NetworkHeld
    <3>2. CASE pc[u] \in {"wrap", "free", "reset"}
      <4>1. src[u] \in tracked
        BY <3>2 DEF InOperation
      <4> QED  BY <1>a, <3>1, <3>2, <4>1
    <3>3. CASE pc[u] \in {"retire", "closing", "keep"}
      BY <2>1, <3>1, <3>3 DEF InOperation
    <3>4. CASE pc[u] = "leave"
      <4>1. src[u] \in tracked
        BY <3>4 DEF InOperation
      <4> QED  BY <1>a, <3>1, <3>4, <4>1
    <3> QED  BY <3>2, <3>3, <3>4
  <2> QED  BY <2>1, <1>a DEF Reset, BackendLifetime, Quiet, NetworkHeld
<1>9. CountsMatchHolders'
  <2>1. ASSUME NEW k \in Handles, s # r, handle[s] = k
        PROVE  s \in Holders(k) /\ r \notin Holders(k)
    BY <2>1, <1>a, <1>c DEF Holders
  <2>2. ASSUME NEW k \in Handles
        PROVE  Cardinality(Holders(k)') = Cardinality(Holders(k))
    BY <1>d, <2>1, HoldersFinite, Swap
  <2> QED  BY <2>2, CountsKept DEF Reset
<1> QED  BY <1>1, <1>2, <1>3, <1>4, <1>5, <1>6, <1>7, <1>8, <1>9

\* The locked section of the close: every count goes to its loop.
LEMMA IInvReleaseAll ==
  ASSUME IInv, TypeOK', NEW t \in Threads, ReleaseAll(t),
         \/ pc[t] = "idle" /\ net = "owner" /\ ~Busy(NetRef) /\ net' = "destroyed"
         \/ pc[t] = "retire" /\ UNCHANGED net
  PROVE  IInv'
<1> USE NetworkConstants, NoHandleIsNone
        DEF IInv, TypeOK, Enter, Goto, Finish, Wrappers, refVars, threadVars, javaVars
<1>0. owner = "backend" /\ backend = "open"
  BY DEF InOperation, NetworkHeld
<1>1. Exclusive'
  BY DEF ReleaseAll, Busy, Exclusive, InOperation
<1>2. InOperation'
  BY <1>0 DEF ReleaseAll, Busy, InOperation, Exclusive, NetworkHeld
<1>3. UntrackedIsEmpty'
  BY DEF ReleaseAll, UntrackedIsEmpty
<1>4. NetworkHeld'
  BY <1>0 DEF ReleaseAll, NetworkHeld, InOperation
<1>5. InTransit'
  <2>1. ASSUME NEW u \in Threads, pc[u] \in {"wrap", "free"}, reg[u] # NoHandle
        PROVE  ~(counts[reg[u]] > 0)
    BY <1>0, <2>1, CountedIsHeld DEF InTransit
  <2> QED  BY <1>0, <2>1 DEF ReleaseAll, InTransit, InOperation
<1>6. References'
  <2>1. ASSUME NEW h \in Handles, counts[h] > 0 PROVE h \in java
    BY <1>0, <2>1, CountedIsHeld DEF Holders, HeldHandlesLive
  <2> QED  BY <1>0, <2>1 DEF ReleaseAll, References
<1>7. HeldHandlesLive'
  BY DEF ReleaseAll, HeldHandlesLive
<1>8. BackendLifetime'
  BY <1>0 DEF ReleaseAll, BackendLifetime
<1>9. CountsMatchHolders'
  BY DEF ReleaseAll, CountsMatchHolders, InOperation
<1> QED  BY <1>1, <1>2, <1>3, <1>4, <1>5, <1>6, <1>7, <1>8, <1>9

\* One release of the close.
LEMMA IInvReleaseNext ==
  ASSUME IInv, TypeOK', NEW t \in Threads, NEW h \in Handles, ReleaseNext(t, h)
  PROVE  IInv'
<1> USE NetworkConstants, NoHandleIsNone
        DEF IInv, TypeOK, Enter, Goto, Finish, Wrappers, refVars, threadVars, javaVars
<1>1. Exclusive'
  BY DEF ReleaseNext, Exclusive
<1>2. InOperation'
  BY DEF ReleaseNext, InOperation
<1>3. UntrackedIsEmpty'
  BY DEF ReleaseNext, UntrackedIsEmpty
<1>4. NetworkHeld'
  BY DEF ReleaseNext, ReleaseHandle, DeleteReference, LeakReference, NetworkHeld, InOperation
<1>5. InTransit'
  BY DEF ReleaseNext, ReleaseHandle, DeleteReference, LeakReference, InTransit, Holders, Releasing
<1>6. References'
  BY DEF ReleaseNext, ReleaseHandle, DeleteReference, LeakReference, References
<1>7. HeldHandlesLive'
  BY DEF ReleaseNext, HeldHandlesLive, NetworkHeld, Releasing,
         InOperation
<1>8. BackendLifetime'
  BY DEF ReleaseNext, BackendLifetime, Quiet
<1>9. CountsMatchHolders'
  BY DEF ReleaseNext, CountsMatchHolders, InOperation
<1> QED  BY <1>1, <1>2, <1>3, <1>4, <1>5, <1>6, <1>7, <1>8, <1>9

\* The backend gives up its own reference.
LEMMA IInvDropNetwork ==
  ASSUME IInv, TypeOK', NEW t \in Threads, DropNetwork(t)
  PROVE  IInv'
<1> USE NetworkConstants, NoHandleIsNone
        DEF IInv, TypeOK, Enter, Goto, Finish, Wrappers, refVars, threadVars, javaVars
<1>1. Exclusive'
  BY DEF DropNetwork, Exclusive
<1>2. InOperation'
  BY DEF DropNetwork, InOperation, Exclusive
<1>3. UntrackedIsEmpty'
  BY DEF DropNetwork, UntrackedIsEmpty
<1>4. NetworkHeld'
  BY DEF DropNetwork, NetworkHeld, InOperation, Releasing, InTransit
<1>5. InTransit'
  BY DEF DropNetwork, DeleteReference, LeakReference, InTransit, Holders, Releasing
<1>6. References'
  BY DEF DropNetwork, DeleteReference, LeakReference, References
<1>7. HeldHandlesLive'
  BY DEF DropNetwork, HeldHandlesLive, DeleteReference, LeakReference, NetworkHeld, Releasing, InOperation
<1>8. BackendLifetime'
  BY DEF DropNetwork, BackendLifetime
<1>9. CountsMatchHolders'
  BY DEF DropNetwork, CountsMatchHolders, InOperation
<1> QED  BY <1>1, <1>2, <1>3, <1>4, <1>5, <1>6, <1>7, <1>8, <1>9

\* The close has ended.
LEMMA IInvFinishClose ==
  ASSUME IInv, TypeOK', NEW t \in Threads, FinishClose(t)
  PROVE  IInv'
<1> USE NetworkConstants, NoHandleIsNone
        DEF IInv, TypeOK, Enter, Goto, Finish, Wrappers, refVars, threadVars, javaVars
<1>1. Exclusive'
  BY DEF FinishClose, Exclusive
<1>2. InOperation'
  BY DEF FinishClose, InOperation, Exclusive
<1>3. UntrackedIsEmpty'
  BY DEF FinishClose, UntrackedIsEmpty
<1>4. NetworkHeld'
  BY DEF FinishClose, NetworkHeld, InOperation, Releasing
<1>5. InTransit'
  BY DEF FinishClose, InTransit, Holders, Releasing
<1>6. References'
  BY DEF FinishClose, References
<1>7. HeldHandlesLive'
  BY DEF FinishClose, HeldHandlesLive, NetworkHeld, Releasing, InOperation
<1>8. BackendLifetime'
  BY DEF FinishClose, BackendLifetime
<1>9. CountsMatchHolders'
  BY DEF FinishClose, CountsMatchHolders, InOperation
<1> QED  BY <1>1, <1>2, <1>3, <1>4, <1>5, <1>6, <1>7, <1>8, <1>9

\* The tracker is moved out of the closed backend.
LEMMA IInvMoveTracker ==
  ASSUME IInv, TypeOK', NEW t \in Threads, MoveTracker(t)
  PROVE  IInv'
<1> USE NetworkConstants, NoHandleIsNone
        DEF IInv, TypeOK, Enter, Goto, Finish, Wrappers, refVars, threadVars, javaVars
<1>1. Exclusive'
  BY DEF MoveTracker, Exclusive
<1>2. InOperation'
  BY DEF MoveTracker, InOperation, Exclusive
<1>3. UntrackedIsEmpty'
  BY DEF MoveTracker, UntrackedIsEmpty
<1>4. NetworkHeld'
  BY DEF MoveTracker, NetworkHeld, InOperation, Releasing, InTransit
<1>5. InTransit'
  BY DEF MoveTracker, InTransit, Holders, Releasing
<1>6. References'
  BY DEF MoveTracker, References
<1>7. HeldHandlesLive'
  BY DEF MoveTracker, HeldHandlesLive, NetworkHeld, Releasing, InOperation
<1>8. BackendLifetime'
  BY DEF MoveTracker, BackendLifetime
<1>9. CountsMatchHolders'
  BY DEF MoveTracker, CountsMatchHolders, InOperation
<1> QED  BY <1>1, <1>2, <1>3, <1>4, <1>5, <1>6, <1>7, <1>8, <1>9

\* The tracker takes the closed backend over.
LEMMA IInvKeep ==
  ASSUME IInv, TypeOK', NEW t \in Threads, Keep(t)
  PROVE  IInv'
<1> USE NetworkConstants, NoHandleIsNone
        DEF IInv, TypeOK, Enter, Goto, Finish, Wrappers, refVars, threadVars, javaVars
<1>1. Exclusive'
  BY DEF Keep, Exclusive
<1>2. InOperation'
  BY DEF Keep, InOperation, Exclusive
<1>3. UntrackedIsEmpty'
  BY DEF Keep, UntrackedIsEmpty
<1>4. NetworkHeld'
  BY DEF Keep, NetworkHeld, InOperation, Releasing, InTransit
<1>5. InTransit'
  BY DEF Keep, InTransit, Holders, Releasing
<1>6. References'
  BY DEF Keep, References
<1>7. HeldHandlesLive'
  BY DEF Keep, HeldHandlesLive, Releasing
<1>8. BackendLifetime'
  <2>1. ASSUME NEW u \in Threads \ {t}, tracked = {} PROVE pc[u] = "idle"
    <3>1. pc[t] = "keep" /\ obj[t] = NetRef /\ owner = "nullptr"
      BY DEF Keep, InOperation
    <3>2. pc[u] \notin {"closing", "keep", "leave"}
      BY <3>1 DEF InOperation, Exclusive
    <3> QED  BY <2>1, <3>1, <3>2 DEF InOperation
  <2>2. tracked = {} => net # "destroyed"
    BY DEF Keep, InOperation
  <2> QED  BY <2>1, <2>2 DEF Keep, BackendLifetime, Quiet
<1>9. CountsMatchHolders'
  BY DEF Keep, CountsMatchHolders, InOperation
<1> QED  BY <1>1, <1>2, <1>3, <1>4, <1>5, <1>6, <1>7, <1>8, <1>9

\* The Network's own HandleRef is released.
LEMMA IInvLeaveNetwork ==
  ASSUME IInv, TypeOK', NEW t \in Threads, LeaveNetwork(t)
  PROVE  IInv'
<1> USE NetworkConstants, NoHandleIsNone
        DEF IInv, TypeOK, Enter, Goto, Finish, Wrappers, refVars, threadVars, javaVars
<1>1. Exclusive'
  BY DEF LeaveNetwork, TrackerRelease, Exclusive, InOperation
<1>2. InOperation'
  BY DEF LeaveNetwork, TrackerRelease, InOperation
<1>3. UntrackedIsEmpty'
  BY DEF LeaveNetwork, UntrackedIsEmpty
<1>4. NetworkHeld'
  BY DEF LeaveNetwork, NetworkHeld, InOperation, Releasing, InTransit
<1>5. InTransit'
  BY DEF LeaveNetwork, TrackerRelease, InTransit, References, Holders, InOperation,
         Exclusive
<1>6. References'
  BY DEF LeaveNetwork, TrackerRelease, References
<1>7. HeldHandlesLive'
  BY DEF LeaveNetwork, TrackerRelease, HeldHandlesLive, Releasing
<1>8. BackendLifetime'
  BY DEF LeaveNetwork, BackendLifetime, Quiet
<1>9. CountsMatchHolders'
  BY DEF LeaveNetwork, CountsMatchHolders, InOperation
<1> QED  BY <1>1, <1>2, <1>3, <1>4, <1>5, <1>6, <1>7, <1>8, <1>9

\* Another backend gets a free address.
LEMMA IInvForeignReference ==
  ASSUME IInv, TypeOK', NEW h \in Handles, ForeignReference(h)
  PROVE  IInv'
<1> USE NetworkConstants, NoHandleIsNone
        DEF IInv, TypeOK, Enter, Goto, Finish, Wrappers, refVars, threadVars, javaVars
<1>1. Exclusive'
  BY DEF ForeignReference, Exclusive
<1>2. InOperation'
  BY DEF ForeignReference, InOperation
<1>3. UntrackedIsEmpty'
  BY DEF ForeignReference, UntrackedIsEmpty
<1>4. NetworkHeld'
  BY DEF ForeignReference, NetworkHeld, Releasing
<1>5. InTransit'
  BY DEF ForeignReference, InTransit, Holders, Releasing
<1>6. References'
  BY DEF ForeignReference, References
<1>7. HeldHandlesLive'
  BY DEF ForeignReference, HeldHandlesLive, Releasing
<1>8. BackendLifetime'
  BY DEF ForeignReference, BackendLifetime, Quiet
<1>9. CountsMatchHolders'
  <2>1. \A k \in Handles : Holders(k)' = Holders(k)
    BY DEF Holders, Releasing, ForeignReference
  <2> QED  BY <2>1, CountsKept DEF ForeignReference
<1> QED  BY <1>1, <1>2, <1>3, <1>4, <1>5, <1>6, <1>7, <1>8, <1>9

\* Nothing changes.
LEMMA IInvStutter ==
  ASSUME IInv, TypeOK', UNCHANGED vars
  PROVE  IInv'
<1> USE NetworkConstants, NoHandleIsNone
        DEF IInv, TypeOK, Enter, Goto, Finish, Wrappers, refVars, threadVars, javaVars
<1>1. Exclusive'
  BY DEF vars, Exclusive
<1>2. InOperation'
  BY DEF vars, InOperation
<1>3. UntrackedIsEmpty'
  BY DEF vars, UntrackedIsEmpty
<1>4. NetworkHeld'
  BY DEF vars, NetworkHeld, Releasing
<1>5. InTransit'
  BY DEF vars, InTransit, Holders, Releasing
<1>6. References'
  BY DEF vars, References
<1>7. HeldHandlesLive'
  BY DEF vars, HeldHandlesLive, Releasing
<1>8. BackendLifetime'
  BY DEF vars, BackendLifetime, Quiet
<1>9. CountsMatchHolders'
  <2>1. \A k \in Handles : Holders(k)' = Holders(k)
    BY DEF Holders, Releasing, vars
  <2> QED  BY <2>1, CountsKept DEF vars
<1> QED  BY <1>1, <1>2, <1>3, <1>4, <1>5, <1>6, <1>7, <1>8, <1>9

----------------------------------------------------------------------------
\* A backend just opened, with its Network only.
LEMMA IInvInit == Init => IInv
<1> SUFFICES ASSUME Init PROVE IInv
  OBVIOUS
<1> USE NetworkConstants, NoHandleIsNone DEF Init
<1>1. TypeOK
  BY DEF TypeOK
<1>2. Releasing = {}
  BY DEF Releasing
<1>3. CountsMatchHolders
  <2> SUFFICES ASSUME NEW h \in Handles PROVE counts[h] = Cardinality(Holders(h))
    BY DEF CountsMatchHolders
  <2>1. Holders(h) = IF h = NetHandle THEN {NetRef} ELSE {}
    BY <1>2 DEF Holders
  <2> QED  BY <2>1, FS_Singleton, FS_EmptySet
<1>4. /\ Exclusive /\ InOperation /\ UntrackedIsEmpty /\ NetworkHeld
      /\ InTransit /\ References /\ HeldHandlesLive /\ BackendLifetime
  BY <1>2 DEF Exclusive, InOperation, UntrackedIsEmpty, NetworkHeld, InTransit,
              References, HeldHandlesLive, BackendLifetime
<1> QED  BY <1>1, <1>3, <1>4 DEF IInv

\* Every step of every thread preserves the inductive invariant.
LEMMA IInvStep == IInv /\ [Next]_vars => IInv'
<1> SUFFICES ASSUME IInv, [Next]_vars PROVE IInv'
  OBVIOUS
<1>1. TypeOK'
  BY TypeStep DEF IInv
<1>2. ASSUME NEW t \in Threads, Continue(t) PROVE IInv'
  BY <1>1, <1>2, IInvWrap, IInvFree, IInvReset, IInvReleaseAll, IInvDropNetwork,
     IInvFinishClose, IInvMoveTracker, IInvKeep, IInvLeaveNetwork, IInvReleaseNext
     DEF Continue, RetireAssigned
<1>3. ASSUME NEW t \in Threads, Begin(t) PROVE IInv'
  BY <1>1, <1>3, IInvReleaseAll, IInvDestroy, IInvCopy, IInvMove, IInvAssign,
     IInvAssignNetwork, IInvObtain DEF Begin, DestroyNetwork
<1>4. ASSUME NEW h \in Handles, ForeignReference(h) PROVE IInv'
  BY <1>1, <1>4, IInvForeignReference
<1>5. CASE UNCHANGED vars
  BY <1>1, <1>5, IInvStutter
<1> QED  BY <1>2, <1>3, <1>4, <1>5 DEF Next

(***************************************************************************)
(* The invariant of every state the tracker, its HandleRefs and the        *)
(* threads that use them can reach, whatever the number of each.           *)
(***************************************************************************)
THEOREM Inductive == Spec => []IInv
BY IInvInit, IInvStep, PTL DEF Spec

(***************************************************************************)
(* No interleaving of copies, moves, assignments and destructions on any   *)
(* number of threads loses or duplicates a hold: while the backend is      *)
(* open, counts_ has the number of HandleRefs of each handle.              *)
(***************************************************************************)
THEOREM CountsCorrect == Spec => []CountsMatchHolders
<1>1. IInv => CountsMatchHolders
  BY DEF IInv
<1> QED  BY <1>1, Inductive, PTL

(***************************************************************************)
(* A wrapper of an open network never holds a released handle.             *)
(***************************************************************************)
THEOREM HeldLive == Spec => []HeldHandlesLive
<1>1. IInv => HeldHandlesLive
  BY DEF IInv
<1> QED  BY <1>1, Inductive, PTL

(***************************************************************************)
(* What a thread decided to release under the lock is still there, unheld  *)
(* and nobody else's to release when it does so after unlocking; but for   *)
(* the network's handle, once the Network is assigned over and the close   *)
(* has given its reference up.                                             *)
(***************************************************************************)
THEOREM ReleasesOnce == Spec => []ReleasedOnce
<1>1. IInv => ReleasedOnce
  BY DEF IInv, InTransit, References, ReleasedOnce
<1> QED  BY <1>1, Inductive, PTL

(***************************************************************************)
(* A closed backend is neither freed under a thread or a wrapper that may  *)
(* still reach it nor kept once nothing can.                               *)
(***************************************************************************)
THEOREM BackendKept == Spec => []BackendLifetime
<1>1. IInv => BackendLifetime
  BY DEF IInv
<1> QED  BY <1>1, Inductive, PTL

(***************************************************************************)
(* The only release that reaches an address that another backend's         *)
(* reference got is that of a Network's own handle, decided before the     *)
(* close by a thread that dropped its last copy after the Network was      *)
(* assigned over.                                                          *)
(***************************************************************************)
LateOfNetwork(h) ==
  /\ h = NetHandle /\ net = "assigned" /\ backend # "open"
  /\ \E t \in Threads : pc[t] = "free" /\ reg[t] = h /\ pc'[t] # "free"

THEOREM ForeignSafe == Spec => OthersUntouched
<1>1. IInv /\ [Next]_vars => \A h \in foreign \ foreign' : LateOfNetwork(h)
  <2> SUFFICES ASSUME IInv, [Next]_vars, NEW h \in foreign \ foreign' PROVE LateOfNetwork(h)
    OBVIOUS
  <2>1. ASSUME NEW k \in java, DeleteReference(k) PROVE FALSE
    BY <2>1 DEF DeleteReference, IInv, References
  <2>2. ASSUME NEW k \in java, ReleaseHandle(k) PROVE FALSE
    BY <2>1, <2>2 DEF ReleaseHandle, LeakReference
  <2>3. ASSUME NEW t \in Threads, Free(t) PROVE LateOfNetwork(h)
    <3>1. pc[t] = "free" /\ pc'[t] # "free" /\ ReleaseHandle(reg[t])
      BY <2>3 DEF Free, Goto, IInv, TypeOK
    <3>2. /\ reg[t] \in java \/ (reg[t] = NetHandle /\ backend # "open")
          /\ reg[t] = NetHandle => net = "assigned"
      BY <3>1 DEF IInv, References, InTransit
    <3>3. reg[t] = h
      BY <3>1 DEF ReleaseHandle, DeleteReference, LeakReference
    <3> QED  BY <2>2, <3>1, <3>2, <3>3 DEF LateOfNetwork
  <2>4. ASSUME NEW t \in Threads, NEW k \in Handles, ReleaseNext(t, k) PROVE FALSE
    <3>1. k \in java
      BY <2>4 DEF ReleaseNext, IInv, References
    <3> QED  BY <2>2, <2>4, <3>1 DEF ReleaseNext
  <2>5. ASSUME NEW t \in Threads, DropNetwork(t) PROVE FALSE
    <3>1. NetHandle \in java
      BY <2>5 DEF DropNetwork, IInv, NetworkHeld
    <3> QED  BY <2>1, <2>5, <3>1 DEF DropNetwork, LeakReference
  <2>6. ASSUME NEW t \in Threads, Begin(t) PROVE foreign' = foreign
    BY <2>6 DEF Begin, DestroyNetwork, ReleaseAll, Destroy, AssignNetwork, Copy, Move,
                Assign, Obtain, javaVars
  <2>7. ASSUME NEW t \in Threads,
               \/ Wrap(t) \/ Reset(t) \/ RetireAssigned(t)
               \/ FinishClose(t) \/ MoveTracker(t) \/ Keep(t) \/ LeaveNetwork(t)
        PROVE  foreign' = foreign
    BY <2>7 DEF Wrap, Reset, RetireAssigned, ReleaseAll, FinishClose, MoveTracker, Keep,
                LeaveNetwork, javaVars
  <2>8. ASSUME NEW k \in Handles, ForeignReference(k) PROVE foreign \subseteq foreign'
    BY <2>8 DEF ForeignReference
  <2>9. CASE UNCHANGED vars
    BY <2>9 DEF vars
  <2> QED
    BY <2>3, <2>4, <2>5, <2>6, <2>7, <2>8, <2>9 DEF Next, Continue
<1> QED  BY <1>1, Inductive, PTL DEF Spec, OthersUntouched, LateOfNetwork

----------------------------------------------------------------------------
(***************************************************************************)
(* HandleTracker implements HandleOwnership.                               *)
(***************************************************************************)
\* The refinement mapping, as HandleTracker gives it to HandleOwnership.
Returned == {reg[t] : t \in {u \in Threads : pc[u] = "wrap"}} \ {NoHandle}
Holding  == [r \in Refs |-> IF r \in tracked \ Releasing THEN handle[r] ELSE NoHandle]
OwnershipKept == UNCHANGED <<java, Returned, Holding, owner>>

\* The locked section of a release is where its HandleRef gives up its hold.
LEMMA ReleaseDrops ==
  ASSUME TypeOK, NEW t \in Threads, NEW r \in Refs, NEW s \in Refs,
         pc[t] \in {"idle", "leave"}, TrackerRelease(t, r, s),
         UNCHANGED <<owner, javaVars, refVars>>
  PROVE  Ownership!Drop(r)
<1> USE DEF TrackerRelease, Enter, TypeOK, refVars, javaVars
<1>1. Releasing' = Releasing \cup {r}
  BY DEF Releasing
<1>2. Holding' = [Holding EXCEPT ![r] = NoHandle]
  BY <1>1 DEF Holding
<1>3. Returned' = Returned
  BY DEF Returned
<1> QED  BY <1>2, <1>3 DEF Ownership!Drop, Holding, Returned

\* A reference given up is one that nothing uses any more, or the close's.
LEMMA ReleaseFrees ==
  ASSUME TypeOK, NEW h \in java, java' = java \ {h},
         owner = "backend" => Holders(h) = {} /\ h \notin Returned,
         UNCHANGED <<Returned, Holding, owner>>
  PROVE  Ownership!Free(h)
<1>1. h # NoHandle
  BY NoHandleIsNone DEF TypeOK
<1>2. ASSUME NEW r \in Refs, Holding[r] = h PROVE r \in Holders(h)
  BY <1>1, <1>2 DEF Holding, Holders
<1> QED
  BY <1>2 DEF Ownership!Free, Ownership!InUse, Returned, Holding

\* How the mapping changes when a HandleRef is set, and when it is moved from.
LEMMA HoldingGains ==
  ASSUME TypeOK, NEW r \in Refs \ (tracked \cup Releasing), NEW h,
         handle' = [handle EXCEPT ![r] = h], tracked' = tracked \cup {r},
         Releasing' = Releasing
  PROVE  Holding' = [Holding EXCEPT ![r] = h] /\ Holding[r] = NoHandle
<1>1. ASSUME NEW q \in Refs PROVE Holding'[q] = IF q = r THEN h ELSE Holding[q]
  BY <1>1 DEF Holding, TypeOK
<1> QED  BY <1>1 DEF Holding

\* How the mapping changes when a HandleRef is moved from.
LEMMA HoldingPasses ==
  ASSUME TypeOK, NEW r \in tracked \ Releasing, NEW s \in Refs \ (tracked \cup Releasing),
         handle' = [handle EXCEPT ![s] = handle[r], ![r] = NoHandle],
         tracked' = (tracked \cup {s}) \ {r}, Releasing' = Releasing
  PROVE  Holding' = [Holding EXCEPT ![s] = Holding[r], ![r] = NoHandle] /\ Holding[s] = NoHandle
<1>1. ASSUME NEW q \in Refs
      PROVE  Holding'[q] = IF q = r THEN NoHandle ELSE IF q = s THEN Holding[r] ELSE Holding[q]
  BY <1>1 DEF Holding, TypeOK
<1> QED  BY <1>1 DEF Holding, TypeOK

\* Each step of the operations is a step of the ownership, or none.
LEMMA StepOwnership ==
  ASSUME IInv, IInv', Next
  PROVE  Ownership!Next \/ OwnershipKept
<1> USE NetworkConstants, NoHandleIsNone DEF IInv, TypeOK, Enter, Goto, Finish, Wrappers, refVars, threadVars, javaVars
<1>1. ASSUME NEW t \in Threads, NEW x \in Refs, NEW y \in Refs,
             NEW h \in Handles \cup {NoHandle}, Obtain(t, x, y, h)
      PROVE  Ownership!Next \/ OwnershipKept
  <2>1. Returned' = (Returned \cup {h}) \ {NoHandle}
    BY <1>1 DEF Obtain, Returned
  <2>2. Holding' = Holding
    BY <1>1 DEF Obtain, Holding, Releasing
  <2>3. CASE h = NoHandle
    BY <1>1, <2>1, <2>2, <2>3 DEF Obtain, OwnershipKept, Returned
  <2>4. CASE h # NoHandle
    <3>1. Ownership!Obtain(h)
      BY <1>1, <2>1, <2>2, <2>4 DEF Obtain, Ownership!Obtain, Returned, Holding
    <3> QED  BY <2>4, <3>1 DEF Ownership!Next
  <2> QED  BY <2>3, <2>4
<1>2. ASSUME NEW t \in Threads, Wrap(t) PROVE Ownership!Next \/ OwnershipKept
  <2>1. obj[t] \notin Releasing /\ obj[t] \notin tracked
    BY <1>2 DEF Wrap, InOperation, Releasing
  <2>0. CASE backend = "moving"
    <3>1. Holding' = Holding /\ Returned' = Returned \ {reg[t]} /\ owner # "backend"
      BY <1>2, <2>0 DEF Wrap, Holding, Returned, Releasing, InTransit, NetworkHeld
    <3>2. CASE reg[t] = NoHandle
      BY <1>2, <3>1, <3>2 DEF Wrap, OwnershipKept, Returned
    <3>3. CASE reg[t] # NoHandle
      <4>1. ASSUME NEW h \in Handles, h = reg[t] PROVE Ownership!Lose(h)
        BY <1>2, <3>1, <4>1 DEF Wrap, Ownership!Lose, Returned, Holding
      <4> QED  BY <3>3, <4>1 DEF Ownership!Next
    <3> QED  BY <3>2, <3>3
  <2> SUFFICES ASSUME backend # "moving" PROVE Ownership!Next \/ OwnershipKept
    BY <2>0
  <2>2. Holding' = [Holding EXCEPT ![obj[t]] = reg[t]] /\ Holding[obj[t]] = NoHandle
    <3>1. Releasing' = Releasing
      BY <1>2 DEF Wrap, Releasing
    <3>2. /\ handle' = [handle EXCEPT ![obj[t]] = reg[t]]
          /\ tracked' = tracked \cup {obj[t]} /\ obj[t] \in Refs
      BY <1>2 DEF Wrap
    <3> QED  BY <2>1, <3>1, <3>2, HoldingGains
  <2>3. Returned' = Returned \ {reg[t]}
    BY <1>2 DEF Wrap, Returned, InTransit
  <2>4. CASE reg[t] = NoHandle
    <3>1. Holding' = Holding
      BY <2>2, <2>4 DEF Holding
    <3>2. Returned' = Returned
      BY <2>3, <2>4 DEF Returned
    <3> QED  BY <1>2, <3>1, <3>2 DEF Wrap, OwnershipKept
  <2>5. CASE reg[t] # NoHandle
    <3>1. reg[t] \in Returned
      BY <1>2, <2>5 DEF Wrap, Returned
    <3>2. ASSUME NEW r \in Refs, NEW h \in Handles, r = obj[t], h = reg[t]
          PROVE  Ownership!Hold(r, h)
      BY <1>2, <2>2, <2>3, <3>1, <3>2 DEF Wrap, Ownership!Hold, Ownership!InUse, Returned, Holding
    <3>3. obj[t] \in Refs /\ reg[t] \in Handles
      BY <2>5
    <3> QED  BY <3>2, <3>3 DEF Ownership!Next
  <2> QED  BY <2>4, <2>5
<1>3. ASSUME NEW t \in Threads, NEW x \in Refs, NEW y \in Refs, Copy(t, x, y)
      PROVE  Ownership!Next \/ OwnershipKept
  <2>1. x \notin Releasing /\ y \notin Releasing /\ y \notin tracked /\ x \in tracked
    BY <1>3 DEF Copy, Written, Busy, Empty, Releasing
  <2>2. Returned' = Returned /\ Releasing' = Releasing
    BY <1>3 DEF Copy, Returned, Releasing
  <2>3. /\ Holding' = [Holding EXCEPT ![y] = handle[x]]
        /\ Holding[y] = NoHandle /\ Holding[x] = handle[x]
    <3>1. Holding[x] = handle[x]
      BY <2>1 DEF Holding
    <3> QED  BY <1>3, <2>1, <2>2, <3>1, HoldingGains DEF Copy
  <2>4. CASE handle[x] = NoHandle
    <3>1. Holding' = Holding
      BY <2>3, <2>4 DEF Holding
    <3> QED  BY <1>3, <2>2, <3>1 DEF Copy, OwnershipKept
  <2>5. CASE handle[x] # NoHandle
    <3>1. ASSUME NEW h \in Handles, h = handle[x] PROVE Ownership!Hold(y, h)
      BY <1>3, <2>2, <2>3, <3>1 DEF Copy, Ownership!Hold, Ownership!InUse, Returned, Holding
    <3>2. handle[x] \in Handles
      BY <2>5
    <3> QED  BY <3>1, <3>2 DEF Ownership!Next
  <2> QED  BY <2>4, <2>5
<1>4. ASSUME NEW t \in Threads, NEW x \in Refs, NEW y \in Refs, Move(t, x, y)
      PROVE  Ownership!Next
  <2>1. x \notin Releasing /\ y \notin Releasing /\ y \notin tracked /\ x \in tracked
    BY <1>4 DEF Move, Busy, Empty, Releasing
  <2>2. Returned' = Returned /\ Releasing' = Releasing
    BY <1>4 DEF Move, Returned, Releasing
  <2>3. /\ Holding' = [Holding EXCEPT ![y] = Holding[x], ![x] = NoHandle]
        /\ Holding[y] = NoHandle
    BY <1>4, <2>1, <2>2, HoldingPasses DEF Move
  <2>4. Ownership!Pass(x, y)
    BY <1>4, <2>2, <2>3 DEF Move, Ownership!Pass, Returned, Holding
  <2> QED  BY <2>4 DEF Ownership!Next
<1>5. ASSUME NEW t \in Threads, NEW x \in Refs, Destroy(t, x) PROVE Ownership!Next
  <2>1. Ownership!Drop(x)
    BY <1>5, ReleaseDrops DEF Destroy
  <2> QED  BY <2>1 DEF Ownership!Next
<1>6. ASSUME NEW t \in Threads, NEW x \in Refs, NEW y \in Refs, Assign(t, x, y)
      PROVE  Ownership!Next
  <2>1. Ownership!Drop(x)
    BY <1>6, ReleaseDrops DEF Assign
  <2> QED  BY <2>1 DEF Ownership!Next
<1>7. ASSUME NEW t \in Threads, Free(t) PROVE Ownership!Next \/ OwnershipKept
  <2>1. UNCHANGED <<Returned, Holding, owner>>
    BY <1>7 DEF Free, Returned, Holding, Releasing
  <2>2. CASE java' = java
    BY <2>1, <2>2 DEF OwnershipKept
  <2>3. CASE java' # java
    <3>1. java' = java \ {reg[t]} /\ reg[t] \in java
      BY <1>7, <2>3 DEF Free, ReleaseHandle, DeleteReference, LeakReference
    <3>2. owner = "backend" => Holders(reg[t]) = {} /\ reg[t] \notin Returned
      BY <1>7, <3>1 DEF Free, InTransit, References, Returned
    <3>3. Ownership!Free(reg[t])
      BY <2>1, <3>1, <3>2, ReleaseFrees
    <3> QED  BY <3>1, <3>3 DEF Ownership!Next
  <2> QED  BY <2>2, <2>3
<1>8. ASSUME NEW t \in Threads, Reset(t) PROVE Ownership!Next \/ OwnershipKept
  <2> DEFINE r == obj[t]
             s == src[t]
  <2>1. /\ r \in tracked /\ s \in tracked /\ r \in Releasing /\ (s # r => s \notin Releasing)
        /\ Releasing' = Releasing \ {r}
    <3>1. /\ pc[t] = "reset" /\ pc'[t] \in {"idle", "retire"}
          /\ \A u \in Threads \ {t} : pc'[u] = pc[u] /\ obj'[u] = obj[u]
      BY <1>8 DEF Reset
    <3>2. /\ r \in tracked /\ s \in tracked
          /\ \A u \in Threads \ {t} : pc[u] # "idle" => obj[u] \notin {r, s}
      BY <3>1 DEF InOperation, Exclusive
    <3> QED  BY <3>1, <3>2 DEF Releasing
  <2>2. Returned' = Returned
    BY <1>8 DEF Reset, Returned
  <2>3. CASE s = r
    BY <1>8, <2>1, <2>2, <2>3 DEF Reset, OwnershipKept, Holding
  <2>4. CASE s # r
    <3>1. /\ Holding' = [Holding EXCEPT ![r] = Holding[s], ![s] = NoHandle]
          /\ Holding[r] = NoHandle
      BY <1>8, <2>1, <2>4 DEF Reset, Holding
    <3>2. ASSUME NEW x \in Refs, NEW y \in Refs, x = s, y = r PROVE Ownership!Pass(x, y)
      BY <1>8, <2>2, <3>1, <3>2 DEF Reset, Ownership!Pass, Returned, Holding
    <3>3. r \in Refs /\ s \in Refs
      OBVIOUS
    <3> QED  BY <3>2, <3>3 DEF Ownership!Next
  <2> QED  BY <2>3, <2>4
<1>9. ASSUME NEW t \in Threads, pc[t] \in {"idle", "retire"}, ReleaseAll(t) PROVE Ownership!Next
  <2>1. Returned' = Returned /\ Holding' = Holding /\ java' = java /\ owner' = "nullptr"
    BY <1>9 DEF ReleaseAll, Returned, Holding, Releasing
  <2>2. Ownership!Close
    BY <2>1 DEF Ownership!Close, Returned, Holding
  <2> QED  BY <2>2 DEF Ownership!Next
<1>10. ASSUME NEW t \in Threads, NEW h \in Handles, ReleaseNext(t, h)
       PROVE  Ownership!Next \/ OwnershipKept
  <2>1. UNCHANGED <<Returned, Holding, owner>> /\ h \in java /\ owner # "backend"
    BY <1>10 DEF ReleaseNext, Returned, Holding, Releasing, References, InOperation
  <2>2. CASE java' = java
    BY <2>1, <2>2 DEF OwnershipKept
  <2>3. CASE java' # java
    <3>1. java' = java \ {h}
      BY <1>10, <2>3 DEF ReleaseNext, ReleaseHandle, DeleteReference, LeakReference
    <3> QED  BY <2>1, <3>1, ReleaseFrees DEF Ownership!Next
  <2> QED  BY <2>2, <2>3
<1>11. ASSUME NEW t \in Threads, DropNetwork(t) PROVE Ownership!Next \/ OwnershipKept
  <2>1. UNCHANGED <<Returned, Holding, owner>> /\ owner # "backend" /\ NetHandle \in java
    BY <1>11 DEF DropNetwork, Returned, Holding, Releasing, InOperation, NetworkHeld
  <2>2. CASE java' = java
    BY <2>1, <2>2 DEF OwnershipKept
  <2>3. CASE java' # java
    <3>1. java' = java \ {NetHandle}
      BY <1>11, <2>3 DEF DropNetwork, DeleteReference, LeakReference
    <3> QED  BY <2>1, <3>1, ReleaseFrees DEF Ownership!Next
  <2> QED  BY <2>2, <2>3
<1>12. ASSUME NEW t \in Threads, FinishClose(t) \/ MoveTracker(t) \/ Keep(t) PROVE OwnershipKept
  BY <1>12 DEF FinishClose, MoveTracker, Keep, OwnershipKept, Returned, Holding, Releasing
<1>13. ASSUME NEW t \in Threads, LeaveNetwork(t) PROVE Ownership!Next
  <2>1. Ownership!Drop(NetRef)
    BY <1>13, ReleaseDrops DEF LeaveNetwork
  <2> QED  BY <2>1 DEF Ownership!Next
<1>14. ASSUME NEW t \in Threads, NEW y \in Refs, AssignNetwork(t, y) PROVE Ownership!Next
  <2>1. Ownership!Drop(NetRef)
    BY <1>14, ReleaseDrops DEF AssignNetwork
  <2> QED  BY <2>1 DEF Ownership!Next
<1>15. ASSUME NEW h \in Handles, ForeignReference(h) PROVE OwnershipKept
  BY <1>15 DEF ForeignReference, OwnershipKept, Returned, Holding, Releasing
<1> QED
  BY <1>1, <1>2, <1>3, <1>4, <1>5, <1>6, <1>7, <1>8, <1>9, <1>10, <1>11, <1>12,
     <1>13, <1>14, <1>15 DEF Next, Begin, Continue, DestroyNetwork, RetireAssigned

\* A backend just opened is an ownership of the network's handle.
LEMMA InitOwnership == Init => Ownership!Init
<1> SUFFICES ASSUME Init PROVE Ownership!Init
  OBVIOUS
<1>1. Returned = {} /\ Releasing = {}
  BY DEF Init, Returned, Releasing
<1>2. Holding = [r \in Refs |-> IF r = NetRef THEN NetHandle ELSE NoHandle]
  BY <1>1, NetworkConstants DEF Init, Holding
<1> QED
  BY <1>1, <1>2, NetworkConstants DEF Init, Ownership!Init, Ownership!InUse, Returned, Holding

(***************************************************************************)
(* Counters, locked sections and releases after unlocking implement the    *)
(* plain ownership of HandleOwnership: a reference is given up only when   *)
(* no wrapper uses its handle, or by the close.                            *)
(***************************************************************************)
THEOREM Refines == Spec => Implements
<1>1. IInv /\ IInv' /\ [Next]_vars => [Ownership!Next]_(Ownership!vars)
  <2>1. CASE UNCHANGED vars
    BY <2>1 DEF vars, Ownership!vars, Releasing
  <2>2. ASSUME OwnershipKept PROVE UNCHANGED Ownership!vars
    BY <2>2 DEF OwnershipKept, Ownership!vars, Returned, Holding
  <2> QED  BY <2>1, <2>2, StepOwnership
<1> QED  BY <1>1, InitOwnership, Inductive, PTL DEF Spec, Implements, Ownership!Spec

(***************************************************************************)
(* Hence the handle of every wrapper, and every handle on its way to one,  *)
(* is that of a reference that exists, while the backend is open.          *)
(***************************************************************************)
THEOREM UsedLive == Spec => []Ownership!UsedHandlesLive
BY Refines, Ownership!UsedStayLive, PTL DEF Implements

----------------------------------------------------------------------------
(***************************************************************************)
(* What HandleTracker does not lose: every Java-side reference is counted, *)
(* on its way, due to the close, or one whose release failed.              *)
(***************************************************************************)
\* On their way to a first HandleRef, or from a last one.
OnTheWay == {reg[t] : t \in {u \in Threads : pc[u] \in {"wrap", "free"}}}

\* Until the close, a reference is counted or in transit, or its release failed; that
\* of a Network being assigned over is the backend's alone.
Accounted ==
  owner = "backend" =>
    \A h \in java : \/ counts[h] > 0 \/ h \in OnTheWay \/ h \in leaked
                    \/ h = NetHandle /\ net = "assigned"

\* After it, what is neither due to releaseAll nor the network's was in transit then.
OnlyLate ==
  owner = "nullptr" =>
    \A h \in java : \/ h \in late \/ h \in toFree \/ h \in leaked
                    \/ h = NetHandle /\ backend = "open"

\* The thread that closes is there until it has given up all that is due, and the
\* one that assigns over a Network until it closes.
Assigning(t) == pc[t] \in {"free", "reset", "retire"} /\ obj[t] = NetRef
Closer ==
  /\ owner = "nullptr" /\ (backend = "open" \/ toFree # {}) => \E t \in Threads : pc[t] = "closing"
  /\ net = "assigned" /\ owner = "backend" => \E t \in Threads : Assigning(t)

\* Nothing finds a reference again whose release failed.
Forgotten ==
  owner = "backend" => \A h \in leaked : h \in java /\ ~(counts[h] > 0) /\ h \notin OnTheWay

Books == Accounted /\ OnlyLate /\ Closer /\ Forgotten
LInv == IInv /\ Books

----------------------------------------------------------------------------
\* Steps within operations that leave the references, and what is due, as they are.
LEMMA LInvSame ==
  ASSUME LInv, UNCHANGED <<owner, net, java, late, toFree, leaked>>,
         \A h \in Handles : counts[h] > 0 => counts'[h] > 0 \/ h \in OnTheWay',
         \A h \in Handles : h \in OnTheWay => counts'[h] > 0 \/ h \in OnTheWay',
         owner = "backend" => \A h \in leaked : ~(counts'[h] > 0) /\ h \notin OnTheWay',
         backend' = backend \/ (backend # "open" /\ backend' # "open"),
         \A t \in Threads : pc[t] = "closing" => pc'[t] = "closing",
         owner = "backend" => \A t \in Threads : Assigning(t) => Assigning(t)'
  PROVE  Books'
<1>1. java \subseteq Handles
  BY DEF LInv, IInv, TypeOK
<1>2. Accounted'
  BY <1>1 DEF LInv, Books, Accounted
<1>3. OnlyLate'
  BY DEF LInv, Books, OnlyLate
<1>4. Closer'
  BY DEF LInv, Books, Closer
<1>5. Forgotten'
  BY DEF LInv, Books, Forgotten
<1> QED  BY <1>2, <1>3, <1>4, <1>5 DEF Books

\* Steps of a close that has given up everything.
LEMMA LInvAfter ==
  ASSUME LInv, owner = "nullptr", backend # "open", backend' # "open",
         UNCHANGED <<owner, java, late, toFree, leaked>>
  PROVE  Books'
<1>1. toFree = {}
  BY DEF LInv, IInv, References
<1> QED  BY <1>1 DEF LInv, Books, Accounted, OnlyLate, Closer, Forgotten

LEMMA LInvObtain ==
  ASSUME LInv, NEW t \in Threads, NEW x \in Refs, NEW y \in Refs,
         NEW h \in Handles \cup {NoHandle}, Obtain(t, x, y, h)
  PROVE  Books'
<1> USE DEF LInv, Books
<1>1. /\ pc[t] = "idle" /\ UNCHANGED <<counts, owner, net, backend, toFree, leaked>>
      /\ java' = (IF h = NoHandle THEN java ELSE java \cup {h})
      /\ late' = IF owner = "nullptr" THEN late \cup (java' \ java) ELSE late
      /\ pc' = [pc EXCEPT ![t] = "wrap"] /\ reg' = [reg EXCEPT ![t] = h]
      /\ obj' = [obj EXCEPT ![t] = y] /\ h \notin java
  BY DEF Obtain, Enter
<1>2. /\ pc'[t] = "wrap" /\ reg'[t] = h
      /\ \A u \in Threads \ {t} : pc'[u] = pc[u] /\ reg'[u] = reg[u] /\ obj'[u] = obj[u]
  BY <1>1 DEF IInv, TypeOK
<1>3. Accounted'
  BY <1>1, <1>2 DEF Accounted, OnTheWay
<1>4. OnlyLate'
  BY <1>1 DEF OnlyLate
<1>5. Closer'
  BY <1>1, <1>2 DEF Closer, Assigning
<1>6. Forgotten'
  BY <1>1, <1>2 DEF Forgotten, OnTheWay
<1> QED  BY <1>3, <1>4, <1>5, <1>6

LEMMA LInvWrap ==
  ASSUME LInv, NEW t \in Threads, Wrap(t) PROVE Books'
<1>1. /\ pc[t] = "wrap" /\ reg[t] \in Handles \cup {NoHandle}
      /\ UNCHANGED <<owner, net, backend, java, toFree, late, leaked>>
      /\ pc' = [pc EXCEPT ![t] = "idle"] /\ reg' = [reg EXCEPT ![t] = NoHandle]
      /\ obj' = [obj EXCEPT ![t] = NetRef]
      /\ owner = "backend" => Retain(reg[t])
  BY DEF Wrap, Finish, Enter, LInv, IInv, TypeOK, javaVars, NetworkHeld
<1>2. /\ pc'[t] = "idle"
      /\ \A u \in Threads \ {t} : pc'[u] = pc[u] /\ reg'[u] = reg[u] /\ obj'[u] = obj[u]
  BY <1>1 DEF LInv, IInv, TypeOK
<1>3. CASE owner = "backend"
  <2>1. /\ \A h \in Handles : counts'[h] = counts[h] \/ counts'[h] = counts[h] + 1
        /\ \A h \in Handles : h = reg[t] => counts'[h] = counts[h] + 1
        /\ \A h \in Handles : h # reg[t] => counts'[h] = counts[h]
        /\ \A h \in Handles : counts[h] \in Nat
    BY <1>1, <1>3, NoHandleIsNone DEF Retain, LInv, IInv, TypeOK
  <2>2. \A h \in Handles : counts[h] > 0 => counts'[h] > 0
    BY <2>1
  <2>3. \A h \in Handles : h \in OnTheWay => counts'[h] > 0 \/ h \in OnTheWay'
    BY <1>2, <2>1 DEF OnTheWay
  <2>4. reg[t] \in OnTheWay
    BY <1>1 DEF OnTheWay
  <2>5. OnTheWay' \subseteq OnTheWay
    BY <1>2 DEF OnTheWay
  <2>6. \A h \in leaked : ~(counts'[h] > 0) /\ h \notin OnTheWay'
    BY <1>3, <2>1, <2>4, <2>5 DEF LInv, IInv, TypeOK, Books, Forgotten
  <2> QED  BY <1>1, <1>2, <2>2, <2>3, <2>6, LInvSame DEF Assigning
<1>4. CASE owner # "backend"
  <2>1. Accounted' /\ Forgotten'
    BY <1>1, <1>4 DEF Accounted, Forgotten
  <2>2. OnlyLate'
    BY <1>1 DEF LInv, Books, OnlyLate
  <2>3. Closer'
    BY <1>1, <1>2, <1>4 DEF LInv, Books, Closer
  <2> QED  BY <2>1, <2>2, <2>3 DEF Books
<1> QED  BY <1>3, <1>4

\* A copy counts one more, of a handle that is counted already, and a move nothing.
LEMMA LInvHold ==
  ASSUME LInv, NEW t \in Threads, NEW x \in Refs, NEW y \in Refs, Copy(t, x, y) \/ Move(t, x, y)
  PROVE  Books'
<1>1. /\ UNCHANGED <<owner, net, backend, java, late, toFree, leaked, pc, reg, obj>>
      /\ counts' = counts \/ (Retain(handle[x]) /\ x \in tracked \ Releasing)
  BY DEF Copy, Move, threadVars, javaVars, Written, Releasing
<1>2. \A h \in Handles : counts[h] > 0 => counts'[h] > 0
  BY <1>1 DEF Retain, LInv, IInv, TypeOK
<1>3. OnTheWay' = OnTheWay /\ \A u \in Threads : Assigning(u)' <=> Assigning(u)
  BY <1>1 DEF OnTheWay, Assigning
<1>4. ASSUME owner = "backend", NEW h \in Handles, ~(counts[h] > 0) PROVE ~(counts'[h] > 0)
  <2>1. x \in tracked \ Releasing => handle[x] # h
    BY <1>4, CountedIsHeld DEF LInv, IInv, Holders, TypeOK
  <2> QED  BY <1>1, <1>4, <2>1 DEF Retain, LInv, IInv, TypeOK
<1>5. owner = "backend" => \A h \in leaked : ~(counts'[h] > 0) /\ h \notin OnTheWay'
  BY <1>3, <1>4 DEF LInv, IInv, TypeOK, Books, Forgotten
<1> QED  BY <1>1, <1>2, <1>3, <1>5, LInvSame

\* The last release of a handle puts its reference in transit.
LEMMA LInvRelease ==
  ASSUME LInv, NEW t \in Threads, NEW x \in Refs, NEW y \in Refs, TrackerRelease(t, x, y),
         pc[t] \in {"idle", "leave"}, UNCHANGED <<owner, backend, javaVars, toFree, late>>,
         net' = net \/ (net' = "assigned" /\ x = NetRef)
  PROVE  Books'
<1> DEFINE k == handle[x]
           where == IF k # NoHandle /\ counts[k] = 1 /\ owner = "backend" THEN "free" ELSE "reset"
<1>1. /\ counts' = (IF k # NoHandle /\ counts[k] > 0 THEN [counts EXCEPT ![k] = @ - 1] ELSE counts)
      /\ pc' = [pc EXCEPT ![t] = where] /\ reg' = [reg EXCEPT ![t] = k]
      /\ obj' = [obj EXCEPT ![t] = x]
      /\ k \in Handles \cup {NoHandle} /\ UNCHANGED <<java, leaked>>
  BY DEF TrackerRelease, Enter, LInv, IInv, TypeOK, javaVars
<1>2. /\ pc'[t] = where /\ reg'[t] = k /\ obj'[t] = x
      /\ \A u \in Threads \ {t} : pc'[u] = pc[u] /\ reg'[u] = reg[u] /\ obj'[u] = obj[u]
  BY <1>1 DEF LInv, IInv, TypeOK
<1>3. /\ \A h \in Handles : counts[h] \in Nat
      /\ \A h \in Handles \ {k} : counts'[h] = counts[h]
      /\ k \in Handles /\ counts[k] > 0 => counts'[k] = counts[k] - 1
      /\ k \in Handles /\ ~(counts[k] > 0) => counts'[k] = counts[k]
  BY <1>1, NoHandleIsNone DEF LInv, IInv, TypeOK
<1>4. OnTheWay \subseteq OnTheWay' /\ OnTheWay' \subseteq OnTheWay \cup (IF where = "free" THEN {k} ELSE {})
  BY <1>2 DEF OnTheWay
<1>5. k \in Handles => k # NoHandle
  BY NoHandleIsNone
<1>6. \A u \in Threads : Assigning(u) => Assigning(u)'
  BY <1>2 DEF Assigning
<1>7. OnlyLate'
  BY <1>1 DEF LInv, Books, OnlyLate
<1>8. Closer'
  <2>1. ASSUME net' # net PROVE Assigning(t)'
    BY <1>2, <2>1 DEF Assigning
  <2> QED  BY <1>2, <1>6, <2>1 DEF LInv, Books, Closer
<1>9. CASE owner = "backend"
  <2>1. ASSUME NEW h \in Handles, counts[h] > 0 PROVE counts'[h] > 0 \/ h \in OnTheWay'
    <3>1. CASE h # k
      BY <1>3, <2>1, <3>1
    <3>2. CASE h = k /\ counts[k] # 1
      BY <1>3, <2>1, <3>2
    <3>3. CASE h = k /\ counts[k] = 1
      BY <1>2, <1>5, <1>9, <3>3 DEF OnTheWay
    <3> QED  BY <3>1, <3>2, <3>3
  <2>2. Accounted'
    BY <1>1, <1>4, <2>1 DEF LInv, IInv, TypeOK, Books, Accounted
  <2>3. ASSUME NEW h \in leaked PROVE h \in java /\ ~(counts'[h] > 0) /\ h \notin OnTheWay'
    <3>1. h \in Handles /\ h \in java /\ ~(counts[h] > 0) /\ h \notin OnTheWay
      BY <1>9 DEF LInv, IInv, TypeOK, Books, Forgotten
    <3>2. ~(counts'[h] > 0)
      BY <1>3, <3>1
    <3>3. where = "free" => k # h
      BY <3>1
    <3> QED  BY <1>4, <3>1, <3>2, <3>3
  <2>4. Forgotten'
    BY <1>1, <2>3 DEF Forgotten
  <2> QED  BY <1>7, <1>8, <2>2, <2>4 DEF Books
<1>10. CASE owner # "backend"
  BY <1>7, <1>8, <1>10 DEF Books, Accounted, Forgotten
<1> QED  BY <1>9, <1>10

\* The release done after unlocking gives the reference up or fails: only a closed
\* backend ignores it, or the network's own handle.
LEMMA LInvFree ==
  ASSUME LInv, NEW t \in Threads, Free(t) PROVE Books'
<1>1. /\ pc[t] = "free" /\ pc' = [pc EXCEPT ![t] = "reset"]
      /\ UNCHANGED <<counts, owner, net, backend, reg, obj, toFree, late>>
      /\ ReleaseHandle(reg[t]) /\ reg[t] \in Handles
  BY DEF Free, Goto, LInv, IInv, TypeOK, References
<1>2. pc'[t] = "reset" /\ \A u \in Threads \ {t} : pc'[u] = pc[u]
  BY <1>1 DEF LInv, IInv, TypeOK
<1>3. \/ java' = java \ {reg[t]} /\ leaked' = leaked
      \/ java' = java /\ leaked' = leaked \cup ({reg[t]} \cap java)
      \/ java' = java /\ leaked' = leaked /\ (reg[t] = NetHandle \/ backend # "open")
  BY <1>1 DEF ReleaseHandle, DeleteReference, LeakReference
<1>4. OnTheWay' \subseteq OnTheWay /\ OnTheWay \subseteq OnTheWay' \cup {reg[t]}
  BY <1>1, <1>2 DEF OnTheWay
<1>5. OnlyLate'
  BY <1>1, <1>3 DEF LInv, Books, OnlyLate
<1>6. Closer'
  BY <1>1, <1>2 DEF LInv, Books, Closer, Assigning
<1>7. CASE owner = "backend"
  <2>1. /\ backend = "open" /\ reg[t] \in java /\ Holders(reg[t]) = {}
        /\ reg[t] = NetHandle => net = "assigned"
    BY <1>1, <1>7 DEF LInv, IInv, InTransit, References, NetworkHeld
  <2>2. reg[t] \notin OnTheWay'
    BY <1>1, <1>2 DEF LInv, IInv, InTransit, References, OnTheWay
  <2>3. ~(counts[reg[t]] > 0)
    BY <1>1, <1>7, <2>1, CountedIsHeld DEF LInv, IInv
  <2>4. Accounted'
    BY <1>1, <1>3, <1>4, <2>1 DEF LInv, Books, Accounted
  <2>5. reg[t] \notin leaked
    BY <1>1, <1>7 DEF LInv, Books, Forgotten, OnTheWay
  <2>6. Forgotten'
    BY <1>1, <1>3, <1>4, <2>1, <2>2, <2>3, <2>5 DEF LInv, Books, Forgotten
  <2> QED  BY <1>5, <1>6, <2>4, <2>6 DEF Books
<1>8. CASE owner # "backend"
  BY <1>1, <1>5, <1>6, <1>8 DEF Books, Accounted, Forgotten
<1> QED  BY <1>7, <1>8

LEMMA LInvReset ==
  ASSUME LInv, NEW t \in Threads, Reset(t) PROVE Books'
<1>1. /\ pc[t] = "reset" /\ UNCHANGED <<counts, owner, net, java, late, toFree, leaked>>
      /\ backend' = backend \/ (backend = "kept" /\ backend' = "freed")
      /\ pc'[t] \in {"idle", "retire"}
      /\ obj[t] = NetRef /\ owner = "backend" => pc'[t] = "retire" /\ obj'[t] = NetRef
      /\ \A u \in Threads \ {t} : pc'[u] = pc[u] /\ reg'[u] = reg[u] /\ obj'[u] = obj[u]
  BY DEF Reset, Finish, Enter, LInv, IInv, TypeOK, javaVars
<1>2. OnTheWay' = OnTheWay
  BY <1>1 DEF OnTheWay
<1>3. owner = "backend" => \A u \in Threads : Assigning(u) => Assigning(u)'
  BY <1>1 DEF Assigning
<1>4. owner = "backend" => \A h \in leaked : ~(counts'[h] > 0) /\ h \notin OnTheWay'
  BY <1>1, <1>2 DEF LInv, Books, Forgotten
<1> QED  BY <1>1, <1>2, <1>3, <1>4, LInvSame

\* The close begins: what is counted is due to it, the rest is in transit.
LEMMA LInvReleaseAll ==
  ASSUME LInv, NEW t \in Threads, owner = "backend", ReleaseAll(t) PROVE Books'
<1>1. /\ owner' = "nullptr" /\ UNCHANGED <<java, leaked, backend>>
      /\ toFree' = {h \in Handles : counts[h] > 0} /\ pc' = [pc EXCEPT ![t] = "closing"]
      /\ late' = OnTheWay \cap java
  BY DEF ReleaseAll, Enter, OnTheWay, javaVars
<1>2. pc'[t] = "closing" /\ java \subseteq Handles /\ backend = "open"
  BY <1>1 DEF LInv, IInv, TypeOK, NetworkHeld
<1>3. Accounted' /\ Closer' /\ Forgotten'
  BY <1>1, <1>2 DEF Accounted, Closer, Forgotten
<1>4. OnlyLate'
  BY <1>1, <1>2 DEF LInv, Books, Accounted, OnlyLate
<1> QED  BY <1>3, <1>4 DEF Books

LEMMA LInvReleaseNext ==
  ASSUME LInv, NEW t \in Threads, NEW h \in Handles, ReleaseNext(t, h)
  PROVE  Books'
<1>1. /\ pc[t] = "closing" /\ toFree' = toFree \ {h} /\ ReleaseHandle(h) /\ h \in toFree
      /\ UNCHANGED <<owner, backend, pc, late>>
  BY DEF ReleaseNext, threadVars
<1>2. owner = "nullptr" /\ backend = "open"
  BY <1>1 DEF LInv, IInv, InOperation, References
<1>3. \/ java' = java \ {h} /\ leaked' = leaked
      \/ java' = java /\ leaked' = leaked \cup ({h} \cap java)
      \/ java' = java /\ leaked' = leaked /\ h = NetHandle
  BY <1>1, <1>2 DEF ReleaseHandle, DeleteReference, LeakReference
<1>4. Accounted' /\ Closer' /\ Forgotten'
  BY <1>1, <1>2 DEF Accounted, Closer, Forgotten
<1>5. OnlyLate'
  BY <1>1, <1>2, <1>3 DEF LInv, Books, OnlyLate
<1> QED  BY <1>4, <1>5 DEF Books

\* Nothing is due anymore: the network's reference is given up, or forgotten.
LEMMA LInvDropNetwork ==
  ASSUME LInv, NEW t \in Threads, DropNetwork(t) PROVE Books'
<1>1. /\ pc[t] = "closing" /\ toFree = {} /\ toFree' = {} /\ backend' = "dropped"
      /\ UNCHANGED <<owner, late>>
      /\ \/ java' = java \ {NetHandle} /\ leaked' = leaked
         \/ java' = java /\ leaked' = leaked \cup ({NetHandle} \cap java)
  BY DEF DropNetwork, DeleteReference, LeakReference
<1>2. owner = "nullptr"
  BY <1>1 DEF LInv, IInv, InOperation
<1>3. Accounted' /\ Closer' /\ Forgotten'
  BY <1>1, <1>2 DEF Accounted, Closer, Forgotten
<1>4. OnlyLate'
  BY <1>1, <1>2 DEF LInv, Books, OnlyLate
<1> QED  BY <1>3, <1>4 DEF Books

----------------------------------------------------------------------------
LEMMA LInvStep == LInv /\ [Next]_vars => LInv'
<1> SUFFICES ASSUME LInv, [Next]_vars PROVE LInv'
  OBVIOUS
<1>1. IInv'
  BY IInvStep DEF LInv
<1>2. ASSUME UNCHANGED <<counts, owner, net, backend, java, pc, reg, obj, toFree, late, leaked>>
      PROVE  Books'
  <2>1. OnTheWay' = OnTheWay /\ \A u \in Threads : Assigning(u)' <=> Assigning(u)
    BY <1>2 DEF OnTheWay, Assigning
  <2> QED  BY <1>2, <2>1 DEF LInv, Books, Accounted, OnlyLate, Closer, Forgotten
<1>3. ASSUME NEW t \in Threads, NEW x \in Refs, Destroy(t, x) PROVE Books'
  BY <1>3, LInvRelease DEF Destroy
<1>4. ASSUME NEW t \in Threads, NEW x \in Refs, NEW y \in Refs, Assign(t, x, y) PROVE Books'
  BY <1>4, LInvRelease DEF Assign
<1>5. ASSUME NEW t \in Threads, NEW y \in Refs, AssignNetwork(t, y) PROVE Books'
  BY <1>5, LInvRelease, NetworkConstants DEF AssignNetwork
<1>6. ASSUME NEW t \in Threads, LeaveNetwork(t) PROVE Books'
  BY <1>6, LInvRelease, NetworkConstants DEF LeaveNetwork
<1>7. ASSUME NEW t \in Threads, DestroyNetwork(t) \/ RetireAssigned(t) PROVE Books'
  <2>1. owner = "backend"
    BY <1>7 DEF DestroyNetwork, RetireAssigned, LInv, IInv, NetworkHeld, InOperation
  <2> QED  BY <1>7, <2>1, LInvReleaseAll DEF DestroyNetwork, RetireAssigned
<1>8. ASSUME NEW t \in Threads, FinishClose(t) \/ MoveTracker(t) \/ Keep(t) PROVE Books'
  <2>1. /\ owner = "nullptr" /\ backend # "open" /\ backend' # "open"
        /\ UNCHANGED <<owner, java, late, toFree, leaked>>
    BY <1>8 DEF FinishClose, MoveTracker, Keep, LInv, IInv, InOperation, javaVars
  <2> QED  BY <2>1, LInvAfter
<1>9. ASSUME NEW h \in Handles, ForeignReference(h)
      PROVE  UNCHANGED <<counts, owner, net, backend, java, pc, reg, obj, toFree, late, leaked>>
  BY <1>9 DEF ForeignReference, threadVars
<1>10. UNCHANGED vars =>
         UNCHANGED <<counts, owner, net, backend, java, pc, reg, obj, toFree, late, leaked>>
  BY DEF vars
<1>11. Books'
  BY <1>2, <1>3, <1>4, <1>5, <1>6, <1>7, <1>8, <1>9, <1>10, LInvObtain, LInvWrap, LInvHold,
     LInvFree, LInvReset, LInvReleaseNext, LInvDropNetwork DEF Next, Begin, Continue
<1> QED  BY <1>1, <1>11 DEF LInv

\* Between operations nothing leaks but the references whose release failed, and those
\* that were on their way when the close began.
THEOREM NothingLeaks == Spec => []LeaksAccounted
<1>1. Init => LInv
  <2>1. Init => Books
    BY NetworkConstants DEF Init, Books, Accounted, OnlyLate, Closer, Forgotten
  <2> QED  BY <2>1, IInvInit DEF LInv
<1>2. ASSUME LInv, Quiet PROVE IF owner = "backend"
                               THEN java = ({handle[r] : r \in tracked} \ {NoHandle}) \cup leaked
                               ELSE java \subseteq late \cup leaked
  <2>1. Releasing = {} /\ OnTheWay = {} /\ \A t \in Threads : ~Assigning(t)
    BY <1>2 DEF Quiet, Releasing, OnTheWay, Assigning
  <2>2. CASE owner = "backend"
    <3>1. \A r \in tracked : handle[r] \in java \cup {NoHandle}
      BY <1>2, <2>1, <2>2 DEF LInv, IInv, HeldHandlesLive
    <3>2. ASSUME NEW h \in java, h \notin leaked
          PROVE  h # NoHandle /\ \E r \in tracked : handle[r] = h
      <4>1. h \in Handles /\ counts[h] > 0
        BY <1>2, <2>1, <2>2, <3>2 DEF LInv, Books, Accounted, Closer, IInv, TypeOK
      <4>2. Holders(h) # {}
        BY <1>2, <2>2, <4>1, CountedIsHeld DEF LInv, IInv
      <4> QED  BY <4>1, <4>2, NoHandleIsNone DEF Holders
    <3>3. leaked \subseteq java
      BY <1>2, <2>2 DEF LInv, Books, Forgotten
    <3> QED  BY <2>2, <3>1, <3>2, <3>3
  <2>3. CASE owner # "backend"
    <3>1. owner = "nullptr" /\ ~ \E t \in Threads : pc[t] = "closing"
      BY <1>2, <2>3 DEF Quiet, LInv, IInv, TypeOK
    <3> QED  BY <1>2, <2>3, <3>1 DEF LInv, Books, OnlyLate, Closer
  <2> QED  BY <2>2, <2>3
<1>3. LInv => LeaksAccounted
  BY <1>2 DEF LeaksAccounted
<1> QED  BY <1>1, <1>3, LInvStep, PTL DEF Spec
=============================================================================
