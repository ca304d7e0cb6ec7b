------------------------- MODULE EntryPoints_proofs -------------------------
(***************************************************************************)
(* Proofs about EntryPoints, for any threads, any failures and any bounds. *)
(***************************************************************************)
EXTENDS EntryPoints, TLAPS

-----------------------------------------------------------------------------
(***************************************************************************)
(* The classification of failures.                                         *)
(***************************************************************************)
\* A failure has a kind, which is not OK.
LEMMA KindRange ==
  ASSUME NEW e \in JavaExceptions
  PROVE  KindOf(e) \in OK .. NETWORK_NOT_FOUND /\ KindOf(e) # OK
  BY DEF OK, KindOf, GENERIC, INVALID_HANDLE, PROPERTY_NOT_FOUND, VALIDATION, NETWORK_NOT_FOUND

\* The chain of KindOf and throwBridgeError together raise the documented
\* exception, although some classes of the chain extend later ones.
LEMMA KindDocumented ==
  ASSUME NEW e \in JavaExceptions
  PROVE  Thrown(KindOf(e)) = Calls!Documented(e)
<1>1. IsInstance(e, {"InvalidHandleException"}) <=> e = "InvalidHandleException"
  BY DEF IsInstance, Extends
<1>2. IsInstance(e, {"PropertyNotFoundException", "ClassCastException", "NullPointerException"})
        <=> e \in {"PropertyNotFoundException", "ClassCastException", "NullPointerException"}
  BY DEF IsInstance, Extends
<1>3. IsInstance(e, {"NetworkNotFoundException"}) <=> e = "NetworkNotFoundException"
  BY DEF IsInstance, Extends
<1>4. IsInstance(e, {"PowsyblException", "IllegalArgumentException", "IllegalStateException",
                     "UnsupportedOperationException"})
        <=> e \in {"PowsyblException", "IllegalArgumentException", "IllegalStateException",
                   "UnsupportedOperationException", "InvalidHandleException",
                   "PropertyNotFoundException", "NetworkNotFoundException"}
  BY DEF IsInstance, Extends
<1>5. KindOf(e) = IF e = "InvalidHandleException" THEN 2
                  ELSE IF e \in {"PropertyNotFoundException", "ClassCastException",
                                 "NullPointerException"} THEN 3
                  ELSE IF e = "NetworkNotFoundException" THEN 5
                  ELSE IF e \in {"PowsyblException", "IllegalArgumentException",
                                 "IllegalStateException", "UnsupportedOperationException"} THEN 4
                  ELSE 1
  BY <1>1, <1>2, <1>3, <1>4 DEF KindOf, GENERIC, INVALID_HANDLE, PROPERTY_NOT_FOUND, VALIDATION,
                               NETWORK_NOT_FOUND
<1>6. CASE e = "InvalidHandleException"
  BY <1>5, <1>6 DEF Thrown, Calls!Documented, INVALID_HANDLE
<1>7. CASE e \in {"PropertyNotFoundException", "ClassCastException", "NullPointerException"}
  BY <1>5, <1>7 DEF Thrown, Calls!Documented, INVALID_HANDLE, PROPERTY_NOT_FOUND
<1>8. CASE e = "NetworkNotFoundException"
  BY <1>5, <1>8 DEF Thrown, Calls!Documented, INVALID_HANDLE, PROPERTY_NOT_FOUND, VALIDATION,
                    NETWORK_NOT_FOUND
<1>9. CASE e \in {"PowsyblException", "IllegalArgumentException", "IllegalStateException",
                  "UnsupportedOperationException"}
  BY <1>5, <1>9 DEF Thrown, Calls!Documented, INVALID_HANDLE, PROPERTY_NOT_FOUND, VALIDATION
<1>10. CASE e = "OutOfMemoryError"
  BY <1>5, <1>10 DEF Thrown, Calls!Documented, INVALID_HANDLE, PROPERTY_NOT_FOUND, VALIDATION,
                     NETWORK_NOT_FOUND
<1> QED  BY <1>6, <1>7, <1>8, <1>9, <1>10 DEF JavaExceptions

-----------------------------------------------------------------------------
(***************************************************************************)
(* Lemmas on the state.                                                    *)
(***************************************************************************)
\* A handle in flight is brought by some call.
LEMMA InFlightBy == \A h : h \in InFlight <=> \E t \in Threads : h \in call[t].got
  BY DEF InFlight

\* Setting one call leaves the others alone.
LEMMA SetCall ==
  ASSUME TypeOK, NEW t \in Threads, NEW c \in CallType, call' = [call EXCEPT ![t] = c]
  PROVE  /\ call' \in [Threads -> CallType]
         /\ call'[t] = c
         /\ \A u \in Threads \ {t} : call'[u] = call[u]
  BY DEF TypeOK

\* The initial state of every thread is a call.
LEMMA IdleType == Idle \in CallType
  BY DEF Idle, CallType, Operations, OK, NETWORK_NOT_FOUND

-----------------------------------------------------------------------------
(***************************************************************************)
(* Each action preserves the inductive invariant.                          *)
(***************************************************************************)
\* Starting a call takes nothing and registers nothing.
LEMMA IInvCall ==
  ASSUME IInv, NEW t \in Threads, NEW op \in Operations,
         NEW h \in held \cup {INVALID_HANDLE_VALUE, networkHandle}, Call(t, op, h)
  PROVE  IInv'
<1> DEFINE c == [Idle EXCEPT !.at = "entry", !.op = op, !.target = h]
<1>1. c \in CallType /\ c.at = "entry" /\ c.op = op /\ c.got = {} /\ c.cause = None
        /\ c.status = OK
  BY IdleType DEF IInv, TypeOK, Idle, CallType, INVALID_HANDLE_VALUE
<1> HIDE DEF c
<1>2. call' = [call EXCEPT ![t] = c] /\ call[t].at = "idle"
  BY DEF Call, At, c
<1>3. /\ call' \in [Threads -> CallType] /\ call'[t] = c
      /\ \A u \in Threads \ {t} : call'[u] = call[u]
  BY <1>1, <1>2, SetCall DEF IInv
<1>4. UNCHANGED <<registry, nextHandle, lastError, memory, networkHandle, held, abandoned>>
  BY DEF Call
<1>5. \A u \in Threads : call'[u].got = call[u].got
  BY <1>1, <1>2, <1>3 DEF IInv, Staged, At
<1>6. InFlight' = InFlight
  BY <1>5 DEF InFlight
<1>7. TypeOK' /\ Numbered' /\ Apart' /\ RegistryAccounted'
  BY <1>3, <1>4, <1>5, <1>6 DEF IInv, TypeOK, Numbered, Apart, RegistryAccounted
<1>8. OneLoad'
  BY <1>1, <1>2, <1>3, <1>4 DEF IInv, OneLoad, Loads, At, Call, INVALID_HANDLE_VALUE
<1>9. Staged' /\ BuffersAccounted' /\ LastErrorIsMine'
  BY <1>1, <1>2, <1>3, <1>4 DEF IInv, Staged, BuffersAccounted, LastErrorIsMine, At, Failed, Unfailed
<1> QED  BY <1>7, <1>8, <1>9 DEF IInv

\* A failure leaves its Throwable for C++, and its handles behind.
LEMMA IInvFail ==
  ASSUME IInv, NEW t \in Threads, NEW e \in JavaExceptions, Fail(t, e),
         call[t].at \in {"entry", "registering", "allocating"},
         UNCHANGED <<registry, nextHandle, memory, networkHandle, held>>
  PROVE  IInv'
<1> DEFINE c == [call[t] EXCEPT !.at = "returned", !.status = KindOf(e), !.cause = e, !.got = {}]
<1>1. c \in CallType /\ c.at = "returned" /\ c.got = {} /\ c.cause = e /\ c.status = KindOf(e)
        /\ c.status # OK /\ c.op = call[t].op
  <2>1. call[t] \in CallType
    BY DEF IInv, TypeOK
  <2> QED  BY <2>1, KindRange DEF CallType
<1>2. call' = [call EXCEPT ![t] = c]
  BY DEF IInv, TypeOK, Fail
<1> HIDE DEF c
<1>3. /\ call' \in [Threads -> CallType] /\ call'[t] = c
      /\ \A u \in Threads \ {t} : call'[u] = call[u]
  BY <1>1, <1>2, SetCall DEF IInv
<1>4. lastError' = [lastError EXCEPT ![t] = e] /\ abandoned' = abandoned \cup call[t].got
  BY DEF Fail
<1>5. abandoned' \cup InFlight' = abandoned \cup InFlight /\ InFlight' \subseteq InFlight
  <2>1. \A h : h \in InFlight' <=> \E u \in Threads : h \in call'[u].got
    BY DEF InFlight
  <2>2. \A h : h \in InFlight' <=> \E u \in Threads \ {t} : h \in call[u].got
    BY <2>1, <1>1, <1>3
  <2>3. \A h : h \in InFlight <=> h \in InFlight' \/ h \in call[t].got
    BY <2>2, InFlightBy
  <2> QED  BY <1>4, <2>3
<1>6. TypeOK' /\ Numbered' /\ RegistryAccounted'
  BY <1>3, <1>4, <1>5 DEF IInv, TypeOK, Numbered, RegistryAccounted, CallType
<1>7. Apart'
  BY <1>1, <1>3, <1>4 DEF IInv, Apart
<1>8. OneLoad'
  BY <1>1, <1>3 DEF IInv, OneLoad, Loads, At
<1>9. Staged' /\ BuffersAccounted'
  BY <1>1, <1>3 DEF IInv, Staged, BuffersAccounted, At, Failed, Unfailed
<1>10. LastErrorIsMine'
  BY <1>1, <1>3, <1>4 DEF IInv, TypeOK, LastErrorIsMine, At
<1> QED  BY <1>6, <1>7, <1>8, <1>9, <1>10 DEF IInv

\* The lookup, the dispatch, the registrations and the allocation may fail.
LEMMA IInvFailures ==
  ASSUME IInv, NEW t \in Threads, LookupFails(t) \/ DispatchFails(t) \/ HandOverFails(t)
  PROVE  IInv'
<1>1. PICK e \in JavaExceptions : Fail(t, e)
  <2>1. CASE LookupFails(t)
    BY <2>1 DEF LookupFails, JavaExceptions
  <2>2. CASE DispatchFails(t)
    BY <2>2, EntryPointConstants DEF DispatchFails
  <2>3. CASE HandOverFails(t)
    BY <2>3, EntryPointConstants DEF HandOverFails, JavaExceptions
  <2> QED  BY <2>1, <2>2, <2>3
<1>2. call[t].at \in {"entry", "registering", "allocating"}
  BY DEF LookupFails, DispatchFails, HandOverFails, At
<1>3. UNCHANGED <<registry, nextHandle, memory, networkHandle, held>>
  BY DEF LookupFails, DispatchFails, HandOverFails
<1> QED  BY <1>1, <1>2, <1>3, IInvFail

\* What comes back decides what the entry point has to do.
LEMMA IInvDispatch ==
  ASSUME IInv, NEW t \in Threads, Dispatch(t)
  PROVE  IInv'
<1>1. PICK n \in 0 .. MaxObjects, where \in {"returned", "registering", "allocating"} :
        /\ call[t].op = "value"   => where = "returned" /\ n = 0
        /\ call[t].op = "text"    => where # "registering" /\ n = 0
        /\ call[t].op = "object"  => where # "allocating" /\ n = (IF where = "returned" THEN 0 ELSE 1)
        /\ call[t].op = "objects" => where = (IF n = 0 THEN "returned" ELSE "registering")
        /\ call[t].op = "load"    => where = "registering" /\ n = 1
        /\ call' = [call EXCEPT ![t].at = where, ![t].left = n]
  BY DEF Dispatch
<1> DEFINE c == [call[t] EXCEPT !.at = where, !.left = n]
<1>2. c \in CallType /\ c.at = where /\ c.left = n /\ c.op = call[t].op /\ c.got = call[t].got
        /\ c.cause = call[t].cause /\ c.status = call[t].status
  <2>1. call[t] \in CallType
    BY DEF IInv, TypeOK
  <2>2. n \in Nat
    BY EntryPointConstants
  <2> QED  BY <2>1, <2>2 DEF CallType
<1>3. call' = [call EXCEPT ![t] = c]
  BY <1>1 DEF IInv, TypeOK
<1>4. /\ Unfailed(t) /\ call[t].got = {} /\ call[t].at = "entry"
      /\ call[t].op \in Operations
  BY DEF Dispatch, At, IInv, Staged, TypeOK, CallType
<1> HIDE DEF c
<1>5. /\ call' \in [Threads -> CallType] /\ call'[t] = c
      /\ \A u \in Threads \ {t} : call'[u] = call[u]
  BY <1>2, <1>3, SetCall DEF IInv
<1>6. UNCHANGED <<registry, nextHandle, lastError, memory, networkHandle, held, abandoned>>
  BY DEF Dispatch
<1>7. \A u \in Threads : call'[u].got = call[u].got
  BY <1>2, <1>5
<1>8. InFlight' = InFlight
  BY <1>7 DEF InFlight
<1>9. TypeOK' /\ Numbered' /\ Apart' /\ RegistryAccounted'
  BY <1>5, <1>6, <1>7, <1>8 DEF IInv, TypeOK, Numbered, Apart, RegistryAccounted
<1>10. OneLoad'
  BY <1>1, <1>2, <1>4, <1>5, <1>6 DEF IInv, OneLoad, Loads, At
<1>11. Staged'
  BY <1>1, <1>2, <1>4, <1>5 DEF IInv, Staged, At, Failed, Unfailed, Operations
<1>12. BuffersAccounted'
  BY <1>1, <1>2, <1>4, <1>5, <1>6 DEF IInv, BuffersAccounted, At
<1>13. LastErrorIsMine'
  BY <1>1, <1>2, <1>4, <1>5, <1>6 DEF IInv, LastErrorIsMine, At, Unfailed
<1> QED  BY <1>9, <1>10, <1>11, <1>12, <1>13 DEF IInv

\* A registered handle is new: no wrapper and no other call has it.
LEMMA IInvRegister ==
  ASSUME IInv, NEW t \in Threads, Register(t)
  PROVE  IInv'
<1> DEFINE where == IF call[t].left > 1 THEN "registering"
                    ELSE IF call[t].op = "objects" THEN "allocating" ELSE "returned"
           c == [call[t] EXCEPT !.got = @ \cup {nextHandle}, !.left = @ - 1, !.at = where]
<1>1. call[t] \in CallType /\ call[t].at = "registering" /\ call[t].left > 0 /\ Unfailed(t)
  BY DEF IInv, TypeOK, Staged, Register, At
<1>2. c \in CallType /\ c.at = where /\ c.left = call[t].left - 1 /\ c.op = call[t].op
        /\ c.got = call[t].got \cup {nextHandle} /\ c.cause = call[t].cause
        /\ c.status = call[t].status
  <2>1. where \in {"registering", "allocating", "returned"}
    OBVIOUS
  <2>2. nextHandle \in Nat /\ call[t].left - 1 \in Nat
    BY <1>1 DEF IInv, TypeOK, CallType
  <2> HIDE DEF where
  <2> QED  BY <1>1, <2>1, <2>2 DEF CallType
<1>3. call' = [call EXCEPT ![t] = c]
  BY DEF IInv, TypeOK, Register
<1> HIDE DEF c
<1>4. /\ call' \in [Threads -> CallType] /\ call'[t] = c
      /\ \A u \in Threads \ {t} : call'[u] = call[u]
  BY <1>2, <1>3, SetCall DEF IInv
<1>5. /\ registry' = registry \cup {nextHandle} /\ nextHandle' = nextHandle + 1
      /\ nextHandle <= MaxHandles
      /\ UNCHANGED <<lastError, memory, networkHandle, held, abandoned>>
  BY DEF Register
<1>6. InFlight' = InFlight \cup {nextHandle}
  <2>1. \A h : h \in InFlight' <=> \E u \in Threads : h \in call'[u].got
    BY DEF InFlight
  <2>2. \A h : h \in InFlight' <=> h = nextHandle \/ \E u \in Threads : h \in call[u].got
    BY <2>1, <1>2, <1>4
  <2> QED  BY <2>2, InFlightBy
<1>7. nextHandle \in Nat /\ nextHandle > 0 /\ nextHandle' \in 1 .. MaxHandles + 1
  BY <1>5, EntryPointConstants DEF IInv, Numbered
<1>8. TypeOK'
  BY <1>4, <1>5, <1>7 DEF IInv, TypeOK, INVALID_HANDLE_VALUE
<1>9. Numbered'
  <2>1. \A h \in held \cup abandoned \cup InFlight : h \in Nat
    <3>1. \A u \in Threads : call[u].got \subseteq Nat
      BY DEF IInv, TypeOK, CallType
    <3> QED  BY <3>1, InFlightBy DEF IInv, TypeOK
  <2> QED  BY <1>5, <1>6, <1>7, <2>1 DEF IInv, TypeOK, Numbered
<1>10. Apart'
  <2>1. /\ nextHandle \notin held \cup abandoned \cup InFlight
        /\ nextHandle # networkHandle
    BY <1>7 DEF IInv, TypeOK, Numbered
  <2>2. \A u \in Threads : nextHandle \notin call[u].got
    BY <2>1, InFlightBy
  <2> QED  BY <1>2, <1>4, <1>5, <2>1, <2>2 DEF IInv, Apart
<1>11. OneLoad'
  BY <1>1, <1>2, <1>4, <1>5 DEF IInv, OneLoad, Loads, At
<1>12. Staged'
  BY <1>1, <1>2, <1>4, <1>5 DEF IInv, TypeOK, Staged, At, Failed, Unfailed, CallType
<1>13. RegistryAccounted'
  BY <1>5, <1>6 DEF IInv, RegistryAccounted
<1>14. BuffersAccounted'
  BY <1>1, <1>2, <1>4, <1>5 DEF IInv, BuffersAccounted, At, Unfailed
<1>15. LastErrorIsMine'
  BY <1>1, <1>2, <1>4, <1>5 DEF IInv, LastErrorIsMine, At, Unfailed
<1> QED  BY <1>8, <1>9, <1>10, <1>11, <1>12, <1>13, <1>14, <1>15 DEF IInv

\* The buffer of the result belongs to a call that succeeds.
LEMMA IInvAllocate ==
  ASSUME IInv, NEW t \in Threads, Allocate(t)
  PROVE  IInv'
<1> DEFINE c == [call[t] EXCEPT !.at = "returned"]
<1>1. call[t] \in CallType /\ call[t].at = "allocating" /\ Unfailed(t) /\ call[t].op # "load"
  BY DEF IInv, TypeOK, Staged, Allocate, At
<1>2. c \in CallType /\ c.at = "returned" /\ c.op = call[t].op /\ c.got = call[t].got
        /\ c.cause = call[t].cause /\ c.status = call[t].status
  BY <1>1 DEF CallType
<1>3. call' = [call EXCEPT ![t] = c]
  BY DEF IInv, TypeOK, Allocate
<1> HIDE DEF c
<1>4. /\ call' \in [Threads -> CallType] /\ call'[t] = c
      /\ \A u \in Threads \ {t} : call'[u] = call[u]
  BY <1>2, <1>3, SetCall DEF IInv
<1>5. /\ memory' = memory \cup {<<t, "result">>}
      /\ UNCHANGED <<registry, nextHandle, lastError, networkHandle, held, abandoned>>
  BY DEF Allocate
<1>6. \A u \in Threads : call'[u].got = call[u].got
  BY <1>2, <1>4
<1>7. InFlight' = InFlight
  BY <1>6 DEF InFlight
<1>8. TypeOK' /\ Numbered' /\ Apart' /\ RegistryAccounted'
  BY <1>4, <1>5, <1>6, <1>7 DEF IInv, TypeOK, Numbered, Apart, RegistryAccounted
<1>9. OneLoad' /\ Staged'
  BY <1>1, <1>2, <1>4, <1>5 DEF IInv, OneLoad, Loads, Staged, At, Failed, Unfailed
<1>10. BuffersAccounted'
  BY <1>1, <1>2, <1>4, <1>5 DEF IInv, BuffersAccounted, At, Unfailed
<1>11. LastErrorIsMine'
  BY <1>1, <1>2, <1>4, <1>5 DEF IInv, LastErrorIsMine, At, Unfailed
<1> QED  BY <1>8, <1>9, <1>10, <1>11 DEF IInv

\* What an idle thread's call holds.
LEMMA IdleCall ==
  /\ Idle.at = "idle" /\ Idle.got = {} /\ Idle.cause = None /\ Idle.status = OK
  /\ Idle.message = None
  BY DEF Idle

\* The handles of a call that returned are held by C++.
LEMMA IInvReturn ==
  ASSUME IInv, NEW t \in Threads, Return(t)
  PROVE  IInv'
<1>1. call[t] \in CallType /\ call[t].at = "returned" /\ Unfailed(t)
  BY DEF IInv, TypeOK, Staged, Return, At, Failed
<1>2. call' = [call EXCEPT ![t] = Idle]
  BY DEF Return
<1>3. /\ call' \in [Threads -> CallType] /\ call'[t] = Idle
      /\ \A u \in Threads \ {t} : call'[u] = call[u]
  BY <1>2, IdleType, SetCall DEF IInv
<1>4. /\ held' = held \cup call[t].got /\ memory' = memory \ {<<t, "result">>}
      /\ UNCHANGED <<registry, nextHandle, lastError, abandoned>>
  BY DEF Return
<1>5. held' \cup InFlight' = held \cup InFlight /\ InFlight' \subseteq InFlight
  <2>1. \A h : h \in InFlight' <=> \E u \in Threads : h \in call'[u].got
    BY DEF InFlight
  <2>2. \A h : h \in InFlight' <=> \E u \in Threads \ {t} : h \in call[u].got
    BY <2>1, <1>3, IdleCall
  <2>3. \A h : h \in InFlight <=> h \in InFlight' \/ h \in call[t].got
    BY <2>2, InFlightBy
  <2> QED  BY <1>4, <2>3
<1>6. call[t].got \subseteq Nat /\ call[t].got \subseteq InFlight
  BY <1>1, InFlightBy DEF CallType
<1>7. \/ networkHandle' = networkHandle /\ call[t].op # "load"
      \/ networkHandle' \in call[t].got /\ call[t].op = "load"
  <2>1. CASE call[t].op # "load"
    BY <2>1 DEF Return
  <2>2. CASE call[t].op = "load"
    <3>1. call[t].got # {}
      BY <1>1, <2>2 DEF IInv, Staged, At
    <3>2. networkHandle' = CHOOSE h \in call[t].got : TRUE
      BY <2>2 DEF Return
    <3> QED  BY <3>1, <3>2, <2>2
  <2> QED  BY <2>1, <2>2
<1>8. TypeOK'
  BY <1>3, <1>4, <1>6, <1>7 DEF IInv, TypeOK
<1>9. Numbered'
  BY <1>4, <1>5, <1>6, <1>7 DEF IInv, Numbered
<1>11. Apart'
  BY <1>3, <1>4, <1>6, <1>7, IdleCall DEF IInv, Apart
<1>12. OneLoad'
  BY <1>1, <1>3, <1>7, IdleCall DEF IInv, OneLoad, Loads, At
<1>13. Staged'
  BY <1>3, IdleCall DEF IInv, Staged, At, Failed, Unfailed
<1>14. RegistryAccounted'
  <2>1. CASE networkHandle' = networkHandle
    BY <1>4, <1>5, <2>1 DEF IInv, RegistryAccounted
  <2>2. CASE networkHandle' \in call[t].got /\ call[t].op = "load"
    <3>1. networkHandle = INVALID_HANDLE_VALUE
      BY <1>1, <2>2 DEF IInv, OneLoad, Loads, At
    <3> QED  BY <1>4, <1>5, <1>6, <2>2, <3>1 DEF IInv, RegistryAccounted
  <2> QED  BY <1>7, <2>1, <2>2
<1>15. BuffersAccounted'
  BY <1>1, <1>3, <1>4, IdleCall DEF IInv, BuffersAccounted, At
<1>16. LastErrorIsMine'
  BY <1>1, <1>3, <1>4, IdleCall DEF IInv, LastErrorIsMine, At, Unfailed
<1> QED  BY <1>8, <1>9, <1>11, <1>12, <1>13, <1>14, <1>15, <1>16 DEF IInv

\* C++ takes the message, and the thread keeps no error.
LEMMA IInvTakeLastError ==
  ASSUME IInv, NEW t \in Threads, TakeLastError(t)
  PROVE  IInv'
<1>1. PICK message \in {lastError[t], None} :
        /\ call' = [call EXCEPT ![t].at = "raising", ![t].message = message]
        /\ memory' = IF message = None THEN memory ELSE memory \cup {<<t, "message">>}
  BY DEF TakeLastError
<1> DEFINE c == [call[t] EXCEPT !.at = "raising", !.message = message]
<1>2. /\ call[t] \in CallType /\ call[t].at = "returned" /\ Failed(t)
      /\ lastError[t] = call[t].cause
  BY DEF IInv, TypeOK, Staged, TakeLastError, At, Unfailed, LastErrorIsMine
<1>3. c \in CallType /\ c.at = "raising" /\ c.op = call[t].op /\ c.got = call[t].got
        /\ c.cause = call[t].cause /\ c.status = call[t].status /\ c.message = message
  BY <1>1, <1>2 DEF CallType
<1>4. call' = [call EXCEPT ![t] = c]
  BY <1>1 DEF IInv, TypeOK
<1> HIDE DEF c
<1>5. /\ call' \in [Threads -> CallType] /\ call'[t] = c
      /\ \A u \in Threads \ {t} : call'[u] = call[u]
  BY <1>3, <1>4, SetCall DEF IInv
<1>6. /\ lastError' = [lastError EXCEPT ![t] = None]
      /\ UNCHANGED <<registry, nextHandle, networkHandle, held, abandoned>>
  BY DEF TakeLastError
<1>7. \A u \in Threads : call'[u].got = call[u].got
  BY <1>3, <1>5
<1>8. InFlight' = InFlight
  BY <1>7 DEF InFlight
<1>9. TypeOK' /\ Numbered' /\ Apart' /\ RegistryAccounted'
  BY <1>1, <1>5, <1>6, <1>7, <1>8 DEF IInv, TypeOK, Numbered, Apart, RegistryAccounted
<1>10. OneLoad' /\ Staged'
  BY <1>1, <1>2, <1>3, <1>5, <1>6 DEF IInv, OneLoad, Loads, Staged, At, Failed, Unfailed
<1>11. BuffersAccounted'
  BY <1>1, <1>2, <1>3, <1>5 DEF IInv, BuffersAccounted, At, Failed
<1>12. LastErrorIsMine'
  BY <1>2, <1>3, <1>5, <1>6 DEF IInv, TypeOK, LastErrorIsMine, At
<1> QED  BY <1>9, <1>10, <1>11, <1>12 DEF IInv

\* The message is copied and freed.
LEMMA IInvRaise ==
  ASSUME IInv, NEW t \in Threads, Raise(t)
  PROVE  IInv'
<1>1. call[t].at = "raising" /\ Failed(t)
  BY DEF IInv, Staged, Raise, At
<1>2. call' = [call EXCEPT ![t] = Idle]
  BY DEF Raise
<1>3. /\ call' \in [Threads -> CallType] /\ call'[t] = Idle
      /\ \A u \in Threads \ {t} : call'[u] = call[u]
  BY <1>2, IdleType, SetCall DEF IInv
<1>4. /\ memory' = memory \ {<<t, "message">>}
      /\ UNCHANGED <<registry, nextHandle, lastError, networkHandle, held, abandoned>>
  BY DEF Raise
<1>5. \A u \in Threads : call'[u].got = call[u].got
  BY <1>1, <1>3, IdleCall DEF Failed
<1>6. InFlight' = InFlight
  BY <1>5 DEF InFlight
<1>7. TypeOK' /\ Numbered' /\ Apart' /\ RegistryAccounted'
  BY <1>3, <1>4, <1>5, <1>6 DEF IInv, TypeOK, Numbered, Apart, RegistryAccounted
<1>8. OneLoad' /\ Staged'
  BY <1>3, <1>4, IdleCall DEF IInv, OneLoad, Loads, Staged, At, Failed, Unfailed
<1>9. BuffersAccounted' /\ LastErrorIsMine'
  BY <1>1, <1>3, <1>4, IdleCall DEF IInv, BuffersAccounted, LastErrorIsMine, At
<1> QED  BY <1>7, <1>8, <1>9 DEF IInv

\* A released handle was the caller's alone.
LEMMA IInvRelease ==
  ASSUME IInv, NEW t \in Threads, NEW h \in held, Release(t, h)
  PROVE  IInv'
<1>1. /\ held' = held \ {h}
      /\ registry' = IF h = networkHandle THEN registry ELSE registry \ {h}
      /\ UNCHANGED <<nextHandle, lastError, memory, networkHandle, call, abandoned>>
  BY DEF Release
<1>2. InFlight' = InFlight
  BY <1>1 DEF InFlight
<1>3. h \notin abandoned \cup InFlight /\ h # INVALID_HANDLE_VALUE
  BY InFlightBy DEF IInv, Apart, Numbered, INVALID_HANDLE_VALUE
<1>4. TypeOK' /\ Numbered' /\ Apart'
  BY <1>1, <1>2 DEF IInv, TypeOK, Numbered, Apart
<1>5. RegistryAccounted'
  BY <1>1, <1>2, <1>3 DEF IInv, RegistryAccounted
<1>6. OneLoad' /\ Staged' /\ BuffersAccounted' /\ LastErrorIsMine'
  BY <1>1 DEF IInv, OneLoad, Loads, Staged, BuffersAccounted, LastErrorIsMine, At, Failed, Unfailed
<1> QED  BY <1>4, <1>5, <1>6 DEF IInv

\* A stutter.
LEMMA IInvStutter ==
  ASSUME IInv, UNCHANGED vars
  PROVE  IInv'
  BY DEF vars, IInv, TypeOK, Numbered, Apart, OneLoad, Loads, Staged, RegistryAccounted,
         BuffersAccounted, LastErrorIsMine, InFlight, At, Failed, Unfailed

\* Before the first call.
LEMMA IInvInit == Init => IInv
<1> SUFFICES ASSUME Init PROVE IInv
  OBVIOUS
<1>1. \A t \in Threads : call[t] = Idle
  BY DEF Init
<1>2. InFlight = {}
  BY <1>1, IdleCall DEF InFlight
<1>3. TypeOK /\ Numbered
  BY <1>1, <1>2, IdleType, EntryPointConstants DEF Init, TypeOK, Numbered, INVALID_HANDLE_VALUE
<1>4. Apart /\ OneLoad /\ Staged
  BY <1>1, IdleCall DEF Init, Apart, OneLoad, Loads, Staged, At, Unfailed
<1>5. RegistryAccounted /\ BuffersAccounted /\ LastErrorIsMine
  BY <1>1, <1>2, IdleCall DEF Init, RegistryAccounted, BuffersAccounted, LastErrorIsMine, At
<1> QED  BY <1>3, <1>4, <1>5 DEF IInv

(***************************************************************************)
(* The inductive invariant holds always.                                   *)
(***************************************************************************)
THEOREM Inductive == Spec => []IInv
<1>1. IInv /\ [Next]_vars => IInv'
  BY IInvCall, IInvFailures, IInvDispatch, IInvRegister, IInvAllocate, IInvReturn,
     IInvTakeLastError, IInvRaise, IInvRelease, IInvStutter DEF Next, Continue
<1> QED  BY <1>1, IInvInit, PTL DEF Spec

-----------------------------------------------------------------------------
(***************************************************************************)
(* Whatever the interleaving, every variable has its type.                 *)
(***************************************************************************)
THEOREM TypeCorrect == Spec => []TypeOK
BY Inductive, PTL DEF IInv

(***************************************************************************)
(* NetworkRegistry holds the handles that C++ holds or is about to, the    *)
(* network's, and those of calls that failed half-way: none is lost by a   *)
(* call that succeeds, and none is released twice.                         *)
(***************************************************************************)
THEOREM RegistryKnown == Spec => []RegistryAccounted
BY Inductive, PTL DEF IInv

(***************************************************************************)
(* Every unmanaged buffer is owed by a call under way.                     *)
(***************************************************************************)
THEOREM BuffersFreed == Spec => []BuffersAccounted
BY Inductive, PTL DEF IInv

(***************************************************************************)
(* LAST_ERROR is the failure of the thread's own call.                     *)
(***************************************************************************)
THEOREM ErrorsOwn == Spec => []LastErrorIsMine
BY Inductive, PTL DEF IInv

-----------------------------------------------------------------------------
(***************************************************************************)
(* Every step is a step of BackendCalls, or none.                          *)
(***************************************************************************)
\* A step of one call changes one answer.
LEMMA SetAnswer ==
  ASSUME IInv, IInv', NEW t \in Threads, \A u \in Threads \ {t} : call'[u] = call[u]
  PROVE  /\ Answers' = [Answers EXCEPT ![t] = AnswerOf(t)']
         /\ Answers[t] = AnswerOf(t)
         /\ At(t, "idle")' /\ ~At(t, "idle") => Calling' = Calling \ {t}
         /\ ~At(t, "idle")' => Calling' = Calling \cup {t}
         /\ ~At(t, "idle")' /\ ~At(t, "idle") => Calling' = Calling
<1>1. \A u \in Threads \ {t} : AnswerOf(u)' = AnswerOf(u)
  BY DEF AnswerOf, Answered, At
<1>2. Answers' = [Answers EXCEPT ![t] = AnswerOf(t)']
  BY <1>1 DEF Answers
<1> QED  BY <1>2 DEF Answers, Calling, At

\* The handles of a call not yet answered are promised to nobody.
LEMMA GotFresh ==
  ASSUME IInv, NEW t \in Threads, ~Answered(t)
  PROVE  call[t].got \cap Calls!Promised = {}
<1>1. ASSUME NEW h \in call[t].got PROVE h \notin Calls!Promised
  <2>1. h \notin held
    BY DEF IInv, Apart
  <2>2. ASSUME NEW u \in Threads PROVE h \notin Answers[u].objects
    <3>1. CASE u = t
      BY <3>1 DEF Answers, AnswerOf
    <3>2. CASE u # t
      BY <3>2 DEF Answers, AnswerOf, IInv, Apart
    <3> QED  BY <3>1, <3>2
  <2> QED  BY <2>1, <2>2 DEF Calls!Promised
<1> QED  BY <1>1

\* A handle not yet given out is promised to nobody.
LEMMA NextFresh ==
  ASSUME IInv
  PROVE  nextHandle \notin Calls!Promised
<1>1. nextHandle \notin held \cup InFlight
  BY DEF IInv, TypeOK, Numbered
<1>2. \A u \in Threads : Answers[u].objects \subseteq call[u].got
  BY DEF Answers, AnswerOf
<1> QED  BY <1>1, <1>2, InFlightBy DEF Calls!Promised

\* An entry point that succeeds answers with the handles it registered.
LEMMA AnswerObjects ==
  ASSUME IInv, IInv', NEW t \in Threads,
         ~At(t, "idle"), ~Answered(t), Answered(t)', call'[t].cause = None,
         call'[t].got \cap Calls!Promised = {},
         \A u \in Threads \ {t} : call'[u] = call[u],
         UNCHANGED <<held, outcome>>
  PROVE  Calls!Answer(t)
<1> DEFINE hs == call'[t].got
<1>1. AnswerOf(t)' = Calls!Objects(hs) /\ ~AnswerOf(t).final /\ ~At(t, "idle")'
  BY DEF AnswerOf, Answered, At, Calls!Objects
<1>2. Answers' = [Answers EXCEPT ![t] = Calls!Objects(hs)] /\ Calling' = Calling /\ t \in Calling
        /\ ~Answers[t].final
  BY <1>1, SetAnswer DEF Calling
<1>3. hs \in SUBSET ((1 .. MaxHandles) \ Calls!Promised)
  <2>1. \A h \in hs : h \in InFlight'
    BY DEF InFlight
  <2>2. hs \subseteq 1 .. MaxHandles
    BY <2>1, EntryPointConstants DEF IInv, TypeOK, CallType, Numbered
  <2> QED  BY <2>2
<1> QED  BY <1>2, <1>3 DEF Calls!Answer

\* One that fails answers with what it caught.
LEMMA AnswerFailure ==
  ASSUME IInv, IInv', NEW t \in Threads,
         ~At(t, "idle"), ~Answered(t), Answered(t)', call'[t].cause \in JavaExceptions,
         call'[t].got = {}, \A u \in Threads \ {t} : call'[u] = call[u],
         UNCHANGED <<held, outcome>>
  PROVE  Calls!Answer(t)
<1>1. AnswerOf(t)' = Calls!Failure(call'[t].cause) /\ ~AnswerOf(t).final /\ ~At(t, "idle")'
  BY DEF AnswerOf, Answered, At, Calls!Failure
<1>2. Answers' = [Answers EXCEPT ![t] = Calls!Failure(call'[t].cause)] /\ Calling' = Calling
        /\ t \in Calling /\ ~Answers[t].final
  BY <1>1, SetAnswer DEF Calling
<1> QED  BY <1>2 DEF Calls!Answer

\* Nothing changes for the callers.
LEMMA AnswersKept ==
  ASSUME IInv, IInv', NEW t \in Threads, ~At(t, "idle"), ~At(t, "idle")', AnswerOf(t)' = AnswerOf(t),
         \A u \in Threads \ {t} : call'[u] = call[u], UNCHANGED <<held, outcome>>
  PROVE  UNCHANGED Calls!vars
<1>1. Calling' = Calling /\ Answers' = [Answers EXCEPT ![t] = Answers[t]]
  BY SetAnswer
<1> QED  BY <1>1 DEF Calls!vars, Answers

\* Calls start alike.
LEMMA StepCall ==
  ASSUME IInv, IInv', NEW t \in Threads, NEW op \in Operations,
         NEW h \in held \cup {INVALID_HANDLE_VALUE, networkHandle}, Call(t, op, h)
  PROVE  Calls!Call(t)
<1> DEFINE c == [Idle EXCEPT !.at = "entry", !.op = op, !.target = h]
<1>1. c \in CallType /\ c.at = "entry"
  BY IdleType DEF IInv, TypeOK, Idle, CallType, INVALID_HANDLE_VALUE
<1> HIDE DEF c
<1>2. /\ call[t].at = "idle" /\ call' = [call EXCEPT ![t] = c]
      /\ outcome' = [outcome EXCEPT ![t] = NoOutcome] /\ held' = held
  BY DEF Call, At, c
<1>3. call'[t] = c /\ \A u \in Threads \ {t} : call'[u] = call[u]
  BY <1>1, <1>2, SetCall DEF IInv
<1>4. AnswerOf(t)' = AnswerOf(t) /\ ~At(t, "idle")' /\ t \notin Calling
  BY <1>1, <1>2, <1>3 DEF AnswerOf, Answered, At, Calling
<1>5. Answers' = [Answers EXCEPT ![t] = Answers[t]] /\ Calling' = Calling \cup {t}
  BY <1>3, <1>4, SetAnswer
<1> QED  BY <1>2, <1>4, <1>5 DEF Calls!Call, Calls!Nothing, NoOutcome, Answers

\* Whatever fails, the call answers with it.
LEMMA StepFailures ==
  ASSUME IInv, IInv', NEW t \in Threads, LookupFails(t) \/ DispatchFails(t) \/ HandOverFails(t)
  PROVE  Calls!Answer(t)
<1>1. PICK e \in JavaExceptions : Fail(t, e)
  <2>1. CASE LookupFails(t)
    BY <2>1 DEF LookupFails, JavaExceptions
  <2>2. CASE DispatchFails(t)
    BY <2>2, EntryPointConstants DEF DispatchFails
  <2>3. CASE HandOverFails(t)
    BY <2>3, EntryPointConstants DEF HandOverFails, JavaExceptions
  <2> QED  BY <2>1, <2>2, <2>3
<1>2. ~At(t, "idle") /\ ~Answered(t) /\ UNCHANGED <<held, outcome>>
  BY DEF LookupFails, DispatchFails, HandOverFails, At, Answered
<1>3. /\ call'[t].at = "returned" /\ call'[t].cause = e /\ call'[t].got = {}
      /\ \A u \in Threads \ {t} : call'[u] = call[u]
  <2>1. call[t] \in CallType
    BY DEF IInv, TypeOK
  <2>2. call' = [call EXCEPT ![t] = [call[t] EXCEPT !.at = "returned", !.status = KindOf(e),
                                                   !.cause = e, !.got = {}]]
    BY <1>1 DEF Fail, IInv, TypeOK
  <2> QED  BY <2>1, <2>2 DEF IInv, TypeOK, CallType
<1> QED  BY <1>1, <1>2, <1>3, AnswerFailure DEF Answered, At

\* A step towards the answer, and the answer of a call that hands nothing over.
LEMMA StepDispatch ==
  ASSUME IInv, IInv', NEW t \in Threads, Dispatch(t)
  PROVE  Calls!Answer(t) \/ UNCHANGED Calls!vars
<1>1. PICK n \in 0 .. MaxObjects, where \in {"returned", "registering", "allocating"} :
        call' = [call EXCEPT ![t].at = where, ![t].left = n]
  BY DEF Dispatch
<1>2. /\ ~At(t, "idle") /\ ~Answered(t) /\ UNCHANGED <<held, outcome>>
      /\ call[t].got = {} /\ call[t].cause = None
  BY DEF Dispatch, At, Answered, IInv, Staged, Unfailed
<1>3. /\ call'[t].at = where /\ call'[t].cause = call[t].cause /\ call'[t].got = call[t].got
      /\ \A u \in Threads \ {t} : call'[u] = call[u]
  <2>1. call[t] \in CallType
    BY DEF IInv, TypeOK
  <2>2. call' = [call EXCEPT ![t] = [call[t] EXCEPT !.at = where, !.left = n]]
    BY <1>1 DEF IInv, TypeOK
  <2> QED  BY <2>1, <2>2 DEF IInv, TypeOK, CallType
<1>4. CASE where = "returned"
  <2>1. Answered(t)' /\ call'[t].got \cap Calls!Promised = {}
    BY <1>2, <1>3, <1>4 DEF Answered, At
  <2> QED  BY <1>2, <1>3, <2>1, AnswerObjects
<1>5. CASE where # "returned"
  <2>1. ~At(t, "idle")' /\ AnswerOf(t)' = AnswerOf(t)
    BY <1>2, <1>3, <1>5 DEF AnswerOf, Answered, At
  <2> QED  BY <1>2, <1>3, <2>1, AnswersKept
<1> QED  BY <1>4, <1>5

\* The last object registered answers the call, unless an array is to be filled.
LEMMA StepRegister ==
  ASSUME IInv, IInv', NEW t \in Threads, Register(t)
  PROVE  Calls!Answer(t) \/ UNCHANGED Calls!vars
<1> DEFINE where == IF call[t].left > 1 THEN "registering"
                    ELSE IF call[t].op = "objects" THEN "allocating" ELSE "returned"
<1>1. /\ ~At(t, "idle") /\ ~Answered(t) /\ UNCHANGED <<held, outcome>>
      /\ call[t].cause = None
  BY DEF Register, At, Answered, IInv, Staged, Unfailed
<1>2. /\ call'[t].at = where /\ call'[t].cause = call[t].cause
      /\ call'[t].got = call[t].got \cup {nextHandle}
      /\ \A u \in Threads \ {t} : call'[u] = call[u]
  <2>1. call[t] \in CallType
    BY DEF IInv, TypeOK
  <2>2. call' = [call EXCEPT ![t] = [call[t] EXCEPT !.got = @ \cup {nextHandle}, !.left = @ - 1,
                                                   !.at = where]]
    BY DEF Register, IInv, TypeOK
  <2> HIDE DEF where
  <2> QED  BY <2>1, <2>2 DEF IInv, TypeOK, CallType
<1>3. CASE where = "returned"
  <2>1. Answered(t)' /\ call'[t].got \cap Calls!Promised = {}
    BY <1>1, <1>2, <1>3, GotFresh, NextFresh DEF Answered, At
  <2> QED  BY <1>1, <1>2, <2>1, AnswerObjects
<1>4. CASE where # "returned"
  <2>1. ~At(t, "idle")' /\ AnswerOf(t)' = AnswerOf(t)
    BY <1>1, <1>2, <1>4 DEF AnswerOf, Answered, At
  <2> QED  BY <1>1, <1>2, <2>1, AnswersKept
<1> QED  BY <1>3, <1>4

\* A buffer filled answers the call.
LEMMA StepAllocate ==
  ASSUME IInv, IInv', NEW t \in Threads, Allocate(t)
  PROVE  Calls!Answer(t)
<1>1. /\ ~At(t, "idle") /\ ~Answered(t) /\ UNCHANGED <<held, outcome>>
      /\ call[t].cause = None
  BY DEF Allocate, At, Answered, IInv, Staged, Unfailed
<1>2. /\ call'[t].at = "returned" /\ call'[t].cause = call[t].cause
      /\ call'[t].got = call[t].got /\ \A u \in Threads \ {t} : call'[u] = call[u]
  <2>1. call[t] \in CallType
    BY DEF IInv, TypeOK
  <2>2. call' = [call EXCEPT ![t] = [call[t] EXCEPT !.at = "returned"]]
    BY DEF Allocate, IInv, TypeOK
  <2> QED  BY <2>1, <2>2 DEF IInv, TypeOK, CallType
<1>3. Answered(t)' /\ call'[t].got \cap Calls!Promised = {}
  BY <1>1, <1>2, GotFresh DEF Answered, At
<1> QED  BY <1>1, <1>2, <1>3, AnswerObjects

\* C++ gets the objects.
LEMMA StepReturn ==
  ASSUME IInv, IInv', NEW t \in Threads, Return(t)
  PROVE  Calls!Return(t)
<1>1. /\ call[t].at = "returned" /\ call[t].cause = None
      /\ call' = [call EXCEPT ![t] = Idle] /\ held' = held \cup call[t].got
      /\ outcome' = [outcome EXCEPT ![t] = [NoOutcome EXCEPT !.objects = call[t].got]]
  BY DEF Return, At, IInv, Staged, Unfailed, Failed
<1>2. call'[t] = Idle /\ \A u \in Threads \ {t} : call'[u] = call[u]
  BY <1>1, IdleType, SetCall DEF IInv
<1>3. /\ AnswerOf(t)' = Calls!NoAnswer /\ At(t, "idle")' /\ ~At(t, "idle") /\ t \in Calling
      /\ AnswerOf(t) = Calls!Objects(call[t].got)
  BY <1>1, <1>2, IdleCall DEF AnswerOf, Answered, At, Calls!NoAnswer, Calls!Objects, Calling
<1>4. /\ Answers' = [Answers EXCEPT ![t] = Calls!NoAnswer] /\ Calling' = Calling \ {t}
      /\ Answers[t] = Calls!Objects(call[t].got)
  BY <1>2, <1>3, SetAnswer
<1>5. [NoOutcome EXCEPT !.objects = call[t].got] = Calls!Returned(call[t].got)
  BY DEF NoOutcome, Calls!Returned
<1>6. outcome' = [outcome EXCEPT ![t] = Calls!Returned(call[t].got)]
  BY <1>1, <1>5
<1>7. Answers[t].final /\ Answers[t].failure = None /\ Answers[t].objects = call[t].got
  BY <1>4 DEF Calls!Objects
<1> QED  BY <1>1, <1>3, <1>4, <1>6, <1>7 DEF Calls!Return

\* C++ raises what is documented for what Java caught.
LEMMA StepRaise ==
  ASSUME IInv, IInv', NEW t \in Threads, Raise(t)
  PROVE  Calls!Return(t)
<1> DEFINE e == call[t].cause
           m == call[t].message
<1>1. /\ call[t].at = "raising" /\ e \in JavaExceptions /\ e # None /\ call[t].got = {}
      /\ call[t].status = KindOf(e) /\ m \in {e, None}
      /\ call' = [call EXCEPT ![t] = Idle] /\ held' = held
      /\ outcome' = [outcome EXCEPT ![t] = [objects |-> {}, raised |-> Thrown(call[t].status),
                                            message |-> m]]
  BY EntryPointConstants DEF Raise, At, IInv, Staged, Failed
<1>2. call'[t] = Idle /\ \A u \in Threads \ {t} : call'[u] = call[u]
  BY <1>1, IdleType, SetCall DEF IInv
<1>3. /\ AnswerOf(t)' = Calls!NoAnswer /\ At(t, "idle")' /\ ~At(t, "idle") /\ t \in Calling
      /\ AnswerOf(t) = Calls!Failure(e)
  BY <1>1, <1>2, IdleCall DEF AnswerOf, Answered, At, Calls!NoAnswer, Calls!Failure, Calling
<1>4. /\ Answers' = [Answers EXCEPT ![t] = Calls!NoAnswer] /\ Calling' = Calling \ {t}
      /\ Answers[t] = Calls!Failure(e)
  BY <1>2, <1>3, SetAnswer
<1>5. [objects |-> {}, raised |-> Thrown(call[t].status), message |-> m] = Calls!Raised(e, m)
  <2>1. Thrown(call[t].status) = Calls!Documented(e)
    BY <1>1, KindDocumented
  <2> QED  BY <2>1 DEF Calls!Raised
<1>6. outcome' = [outcome EXCEPT ![t] = Calls!Raised(e, m)]
  BY <1>1, <1>5
<1>7. Answers[t].final /\ Answers[t].failure = e /\ Answers[t].objects = {}
  BY <1>4 DEF Calls!Failure
<1> QED  BY <1>1, <1>3, <1>4, <1>6, <1>7 DEF Calls!Return

\* The message is on its way; nobody sees it yet.
LEMMA StepTakeLastError ==
  ASSUME IInv, IInv', NEW t \in Threads, TakeLastError(t)
  PROVE  UNCHANGED Calls!vars
<1>1. PICK message : call' = [call EXCEPT ![t].at = "raising", ![t].message = message]
  BY DEF TakeLastError
<1>2. ~At(t, "idle") /\ Answered(t) /\ UNCHANGED <<held, outcome>>
  BY DEF TakeLastError, At, Answered
<1>3. /\ call'[t].at = "raising" /\ call'[t].cause = call[t].cause
      /\ call'[t].got = call[t].got /\ \A u \in Threads \ {t} : call'[u] = call[u]
  <2>1. call[t] \in CallType
    BY DEF IInv, TypeOK
  <2>2. call' = [call EXCEPT ![t] = [call[t] EXCEPT !.at = "raising", !.message = message]]
    BY <1>1 DEF IInv, TypeOK
  <2> QED  BY <2>1, <2>2 DEF IInv, TypeOK, CallType
<1>4. ~At(t, "idle")' /\ AnswerOf(t)' = AnswerOf(t)
  BY <1>2, <1>3 DEF AnswerOf, Answered, At
<1> QED  BY <1>2, <1>3, <1>4, AnswersKept

\* A release is one of the handle.
LEMMA StepRelease ==
  ASSUME IInv, NEW t \in Threads, NEW h \in held, Release(t, h)
  PROVE  h \in 1 .. MaxHandles /\ Calls!Release(h)
<1>1. h \in 1 .. MaxHandles
  BY EntryPointConstants DEF IInv, TypeOK, Numbered
<1>2. held' = held \ {h} /\ UNCHANGED <<call, outcome>>
  BY DEF Release
<1>3. Answers' = Answers /\ Calling' = Calling
  BY <1>2 DEF Answers, AnswerOf, Answered, At, Calling
<1> QED  BY <1>1, <1>2, <1>3 DEF Calls!Release

(***************************************************************************)
(* The entry points implement BackendCalls: each call returns its own      *)
(* objects behind handles of its own, or raises the documented exception   *)
(* for its own failure, with that failure's message or none.               *)
(***************************************************************************)
THEOREM Refines == Spec => Implements
<1>1. Init => Calls!Init
  <2> SUFFICES ASSUME Init PROVE Calls!Init
    OBVIOUS
  <2>1. \A t \in Threads : call[t] = Idle
    BY DEF Init
  <2>2. Answers = [t \in Threads |-> Calls!NoAnswer] /\ Calling = {}
    BY <2>1, IdleCall DEF Answers, AnswerOf, Answered, At, Calling, Calls!NoAnswer
  <2> QED  BY <2>2 DEF Init, Calls!Init, Calls!Nothing, NoOutcome
<1>2. IInv /\ IInv' /\ [Next]_vars => [Calls!Next]_(Calls!vars)
  <2>1. CASE UNCHANGED vars
    BY <2>1 DEF vars, Calls!vars, Answers, AnswerOf, Answered, At, Calling
  <2>2. ASSUME IInv, IInv', Next PROVE [Calls!Next]_(Calls!vars)
    <3>1. PICK t \in Threads :
            \/ \E op \in Operations, h \in held \cup {INVALID_HANDLE_VALUE, networkHandle} : Call(t, op, h)
            \/ Continue(t)
            \/ \E h \in held : Release(t, h)
      BY <2>2 DEF Next
    <3>2. ASSUME NEW op \in Operations, NEW h \in held \cup {INVALID_HANDLE_VALUE, networkHandle},
                 Call(t, op, h)
          PROVE Calls!Next
      BY <2>2, <3>2, StepCall DEF Calls!Next
    <3>3. CASE Continue(t)
      BY <2>2, <3>3, StepFailures, StepDispatch, StepRegister, StepAllocate, StepReturn,
         StepRaise, StepTakeLastError DEF Continue, Calls!Next
    <3>4. ASSUME NEW h \in held, Release(t, h) PROVE Calls!Next
      BY <2>2, <3>4, StepRelease DEF Calls!Next
    <3> QED  BY <3>1, <3>2, <3>3, <3>4
  <2> QED  BY <2>1, <2>2
<1> QED  BY <1>1, <1>2, Inductive, PTL DEF Spec, Implements, Calls!Spec

=============================================================================
