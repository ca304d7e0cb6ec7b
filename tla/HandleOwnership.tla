-------------------------- MODULE HandleOwnership --------------------------
(***************************************************************************)
(* What the handle bookkeeping of one backend promises, without counters,  *)
(* locks or threads: the Java-side reference behind a handle lives as long *)
(* as a wrapper uses the handle, and while the backend is open nothing     *)
(* else may give it up.  HandleTracker implements this module.             *)
(***************************************************************************)
EXTENDS TLAPS

CONSTANTS Refs, Handles, NoHandle

VARIABLES
  live,      \* handles whose Java-side reference exists
  returned,  \* handles a backend call returned and no wrapper holds yet
  holding,   \* the handle each wrapper holds, NoHandle when it holds none
  open       \* the backend still releases handles for its wrappers

vars == <<live, returned, holding, open>>

InUse(h) == h \in returned \/ \E r \in Refs : holding[r] = h

Init ==
  /\ live \subseteq Handles
  /\ returned = {}
  /\ holding \in [Refs -> live \cup {NoHandle}]
  /\ \A h \in live : InUse(h)
  /\ open = TRUE

\* The backend makes a reference: never at an address already in use.
Obtain(h) ==
  /\ h \notin live
  /\ live' = live \cup {h}
  /\ returned' = returned \cup {h}
  /\ UNCHANGED <<holding, open>>

\* A wrapper takes a handle that was returned to it, or that another one holds.
Hold(r, h) ==
  /\ holding[r] = NoHandle
  /\ InUse(h)
  /\ holding' = [holding EXCEPT ![r] = h]
  /\ returned' \in {returned, returned \ {h}}
  /\ UNCHANGED <<live, open>>

\* A handle goes from one wrapper to another.
Pass(r, s) ==
  /\ holding[s] = NoHandle
  /\ holding' = [holding EXCEPT ![s] = holding[r], ![r] = NoHandle]
  /\ UNCHANGED <<live, returned, open>>

Drop(r) ==
  /\ holding' = [holding EXCEPT ![r] = NoHandle]
  /\ UNCHANGED <<live, returned, open>>

\* A reference is given up only once nothing uses its handle, or on closing.
Free(h) ==
  /\ h \in live
  /\ open => ~InUse(h)
  /\ live' = live \ {h}
  /\ UNCHANGED <<returned, holding, open>>

\* After the close a wrapper may be left without the handle returned to it.
Lose(h) ==
  /\ ~open
  /\ returned' = returned \ {h}
  /\ UNCHANGED <<live, holding, open>>

Close ==
  /\ open' = FALSE
  /\ UNCHANGED <<live, returned, holding>>

Next ==
  \/ \E h \in Handles : Obtain(h) \/ Free(h) \/ Lose(h)
  \/ \E r \in Refs, h \in Handles : Hold(r, h)
  \/ \E r, s \in Refs : Pass(r, s)
  \/ \E r \in Refs : Drop(r)
  \/ Close

Spec == Init /\ [][Next]_vars

(***************************************************************************)
(* While the backend is open, the handle of every wrapper, and every       *)
(* handle just returned, has its Java-side reference: no wrapper ever      *)
(* dereferences a released handle.                                         *)
(***************************************************************************)
UsedHandlesLive ==
  open => \A h \in Handles \ {NoHandle} : InUse(h) => h \in live

Typed == holding \in [Refs -> Handles \cup {NoHandle}]

\* No wrapper dereferences a released handle, by induction over these steps.
THEOREM UsedStayLive == Spec => []UsedHandlesLive
<1>1. Init => Typed /\ UsedHandlesLive
  BY DEF Init, Typed, UsedHandlesLive, InUse
<1>2. Typed /\ UsedHandlesLive /\ [Next]_vars => Typed' /\ UsedHandlesLive'
  <2> SUFFICES ASSUME Typed, UsedHandlesLive, [Next]_vars PROVE Typed' /\ UsedHandlesLive'
    OBVIOUS
  <2> USE DEF Typed, UsedHandlesLive, InUse
  <2>1. ASSUME NEW h \in Handles, Obtain(h) \/ Free(h) \/ Lose(h)
        PROVE  Typed' /\ UsedHandlesLive'
    BY <2>1 DEF Obtain, Free, Lose
  <2>2. ASSUME NEW r \in Refs, NEW h \in Handles, Hold(r, h)
        PROVE  Typed' /\ UsedHandlesLive'
    BY <2>2 DEF Hold
  <2>3. ASSUME NEW r \in Refs, NEW s \in Refs, Pass(r, s)
        PROVE  Typed' /\ UsedHandlesLive'
    BY <2>3 DEF Pass
  <2>4. ASSUME NEW r \in Refs, Drop(r) PROVE Typed' /\ UsedHandlesLive'
    BY <2>4 DEF Drop
  <2>5. CASE Close \/ UNCHANGED vars
    BY <2>5 DEF Close, vars
  <2> QED  BY <2>1, <2>2, <2>3, <2>4, <2>5 DEF Next
<1> QED  BY <1>1, <1>2, PTL DEF Spec
============================================================================
