---------------------------- MODULE EntryPoints ----------------------------
(***************************************************************************)
(* Calls through the entry points of the native image                      *)
(* (IidmEntryPoints.java, called by GraalVMBackend.cpp): the registry of   *)
(* handles, the unmanaged buffers handed to C++, and the two calls it      *)
(* takes to report a failure, as the message is left in a variable of the  *)
(* thread for C++ to take.                                                 *)
(*                                                                         *)
(* What a property code does is powsybl's business: an operation is one of *)
(* Operations, told apart by what comes back.  Steps of several threads    *)
(* interleave between the calls and inside those that register objects.    *)
(***************************************************************************)
EXTENDS BridgeErrors

CONSTANTS
  Threads,
  Failures,     \* the Java exceptions that powsybl and the dispatch throw
  MaxHandles,   \* bound on the handles ever registered
  MaxObjects,   \* bound on the objects that one call returns
  None

ASSUME EntryPointConstants ==
  /\ Failures \subseteq JavaExceptions
  /\ MaxHandles \in Nat /\ MaxObjects \in Nat
  /\ None \notin JavaExceptions

\* "value": a number or nothing, "text": a buffer or none (strings, lists of
\* strings or integers, serialized networks), "object": a handle or 0,
\* "objects": an array of handles, "load": the network's handle.
Operations == {"value", "text", "object", "objects", "load"}

INVALID_HANDLE_VALUE == 0

VARIABLES
  registry,       \* NetworkRegistry.registry: the registered handles
  nextHandle,     \* NetworkRegistry.nextHandle
  lastError,      \* LAST_ERROR of each thread
  memory,         \* the unmanaged buffers not freed: a thread and what for
  networkHandle,  \* networkHandle_
  held,           \* the handles that C++ holds (HandleTracker)
  call,           \* what each thread is doing
  outcome,        \* what the last call of each thread gave to C++
  abandoned       \* history: handles registered by calls that then failed

vars == <<registry, nextHandle, lastError, memory, networkHandle, held, call,
          outcome, abandoned>>

\* at: "idle", "entry", "registering", "allocating", "returned", "raising".
\* left: the objects still to register; got: the handles registered;
\* status: the entry point's result; cause: what it caught (history);
\* message: what iidm_take_last_error returned.
Idle == [at |-> "idle", op |-> "value", target |-> 0, left |-> 0, got |-> {},
         status |-> OK, cause |-> None, message |-> None]

NoOutcome == [objects |-> {}, raised |-> None, message |-> None]

\* Defect: the first handle is 0, which is no handle.
InitFromZero ==
  /\ registry      = {}
  /\ nextHandle    = 0
  /\ lastError     = [t \in Threads |-> None]
  /\ memory        = {}
  /\ networkHandle = INVALID_HANDLE_VALUE
  /\ held          = {}
  /\ call          = [t \in Threads |-> Idle]
  /\ outcome       = [t \in Threads |-> NoOutcome]
  /\ abandoned     = {}

Init ==
  /\ registry      = {}
  /\ nextHandle    = 1
  /\ lastError     = [t \in Threads |-> None]
  /\ memory        = {}
  /\ networkHandle = INVALID_HANDLE_VALUE
  /\ held          = {}
  /\ call          = [t \in Threads |-> Idle]
  /\ outcome       = [t \in Threads |-> NoOutcome]
  /\ abandoned     = {}

At(t, where) == call[t].at = where

\* A call on an object of C++, on no object, or on the network (findById).
\* NetworkFactory loads once, before it gives the backend away.
Call(t, op, h) ==
  /\ At(t, "idle")
  /\ op = "load" => /\ h = networkHandle
                    /\ h = INVALID_HANDLE_VALUE
                    /\ \A u \in Threads : At(u, "idle")
  /\ call' = [call EXCEPT ![t] = [Idle EXCEPT !.at = "entry", !.op = op, !.target = h]]
  /\ outcome' = [outcome EXCEPT ![t] = NoOutcome]
  /\ UNCHANGED <<registry, nextHandle, lastError, memory, networkHandle, held, abandoned>>

\* Defect: LAST_ERROR is one variable for all threads.
FailShared(t, e) ==
  /\ lastError' = [u \in Threads |-> e]
  /\ call' = [call EXCEPT ![t].at = "returned", ![t].status = KindOf(e), ![t].cause = e,
                          ![t].got = {}]
  /\ abandoned' = abandoned \cup call[t].got

\* catch (Throwable t) { return fail(t); }
Fail(t, e) ==
  /\ lastError' = [lastError EXCEPT ![t] = e]
  /\ call' = [call EXCEPT ![t].at = "returned", ![t].status = KindOf(e), ![t].cause = e,
                          ![t].got = {}]
  /\ abandoned' = abandoned \cup call[t].got

\* NetworkRegistry.lookup comes first, but a load looks nothing up.
Found(t) == call[t].op = "load" \/ call[t].target \in registry

LookupFails(t) ==
  /\ At(t, "entry")
  /\ ~Found(t)
  /\ Fail(t, "InvalidHandleException")
  /\ UNCHANGED <<registry, nextHandle, memory, networkHandle, held, outcome>>

DispatchFails(t) ==
  /\ At(t, "entry")
  /\ Found(t)
  /\ \E e \in Failures : Fail(t, e)
  /\ UNCHANGED <<registry, nextHandle, memory, networkHandle, held, outcome>>

\* What comes back: nothing to hand over, objects to register, or a text.
Dispatch(t) ==
  /\ At(t, "entry")
  /\ Found(t)
  /\ \E n \in 0 .. MaxObjects, where \in {"returned", "registering", "allocating"} :
       /\ call[t].op = "value"   => where = "returned" /\ n = 0
       /\ call[t].op = "text"    => where # "registering" /\ n = 0
       /\ call[t].op = "object"  => where # "allocating" /\ n = (IF where = "returned" THEN 0 ELSE 1)
       /\ call[t].op = "objects" => where = (IF n = 0 THEN "returned" ELSE "registering")
       /\ call[t].op = "load"    => where = "registering" /\ n = 1
       /\ call' = [call EXCEPT ![t].at = where, ![t].left = n]
  /\ UNCHANGED <<registry, nextHandle, lastError, memory, networkHandle, held, outcome, abandoned>>

\* NetworkRegistry.register, of one object.
Register(t) ==
  /\ At(t, "registering")
  /\ nextHandle <= MaxHandles
  /\ registry' = registry \cup {nextHandle}
  /\ nextHandle' = nextHandle + 1
  /\ call' = [call EXCEPT ![t].got = @ \cup {nextHandle}, ![t].left = @ - 1,
                          ![t].at = IF call[t].left > 1 THEN "registering"
                                    ELSE IF call[t].op = "objects" THEN "allocating"
                                    ELSE "returned"]
  /\ UNCHANGED <<lastError, memory, networkHandle, held, outcome, abandoned>>

\* The registration or the allocation fails, or the stream of objects, which is
\* lazy: some of them are registered already (PropertyDispatcher.java:637-638).
HandOverFails(t) ==
  /\ At(t, "registering") \/ At(t, "allocating")
  /\ \/ Fail(t, "OutOfMemoryError")
     \/ /\ At(t, "registering") /\ call[t].op = "objects"
        /\ \E e \in Failures : Fail(t, e)
  /\ UNCHANGED <<registry, nextHandle, memory, networkHandle, held, outcome>>

\* The buffer is filled and written to the out-pointer.
Allocate(t) ==
  /\ At(t, "allocating")
  /\ memory' = memory \cup {<<t, "result">>}
  /\ call' = [call EXCEPT ![t].at = "returned"]
  /\ UNCHANGED <<registry, nextHandle, lastError, networkHandle, held, outcome, abandoned>>

\* Defect: the buffer is not freed.
ReturnKeepingBuffer(t) ==
  /\ At(t, "returned")
  /\ call[t].status = OK
  /\ held' = held \cup call[t].got
  /\ networkHandle' = IF call[t].op = "load" THEN CHOOSE h \in call[t].got : TRUE
                      ELSE networkHandle
  /\ outcome' = [outcome EXCEPT ![t] = [NoOutcome EXCEPT !.objects = call[t].got]]
  /\ call' = [call EXCEPT ![t] = Idle]
  /\ UNCHANGED <<registry, nextHandle, lastError, memory, abandoned>>

\* check() is passed: C++ copies the result, frees the buffer and holds the
\* handles.
Return(t) ==
  /\ At(t, "returned")
  /\ call[t].status = OK
  /\ held' = held \cup call[t].got
  /\ memory' = memory \ {<<t, "result">>}
  /\ networkHandle' = IF call[t].op = "load" THEN CHOOSE h \in call[t].got : TRUE
                      ELSE networkHandle
  /\ outcome' = [outcome EXCEPT ![t] = [NoOutcome EXCEPT !.objects = call[t].got]]
  /\ call' = [call EXCEPT ![t] = Idle]
  /\ UNCHANGED <<registry, nextHandle, lastError, abandoned>>

\* Defect: the error is read and left in place.
ReadLastError(t) ==
  /\ At(t, "returned")
  /\ call[t].status # OK
  /\ \E message \in {lastError[t], None} :
       /\ call' = [call EXCEPT ![t].at = "raising", ![t].message = message]
       /\ memory' = IF message = None THEN memory ELSE memory \cup {<<t, "message">>}
  /\ UNCHANGED <<registry, nextHandle, lastError, networkHandle, held, outcome, abandoned>>

\* check() is not: iidm_take_last_error, whose own allocation may fail.
TakeLastError(t) ==
  /\ At(t, "returned")
  /\ call[t].status # OK
  /\ \E message \in {lastError[t], None} :
       /\ call' = [call EXCEPT ![t].at = "raising", ![t].message = message]
       /\ memory' = IF message = None THEN memory ELSE memory \cup {<<t, "message">>}
  /\ lastError' = [lastError EXCEPT ![t] = None]
  /\ UNCHANGED <<registry, nextHandle, networkHandle, held, outcome, abandoned>>

Raise(t) ==
  /\ At(t, "raising")
  /\ memory' = memory \ {<<t, "message">>}
  /\ outcome' = [outcome EXCEPT ![t] =
                   [objects |-> {}, raised |-> Thrown(call[t].status),
                    message |-> call[t].message]]
  /\ call' = [call EXCEPT ![t] = Idle]
  /\ UNCHANGED <<registry, nextHandle, lastError, networkHandle, held, abandoned>>

\* Defect: the network's handle is released like the others.
ReleaseAny(t, h) ==
  /\ At(t, "idle")
  /\ h \in held
  /\ \A u \in Threads : call[u].target # h \/ At(u, "idle") \/ h = networkHandle
  /\ held' = held \ {h}
  /\ registry' = registry \ {h}
  /\ UNCHANGED <<nextHandle, lastError, memory, networkHandle, call, outcome, abandoned>>

\* The last wrapper of a handle is destroyed, on a thread that is in no call;
\* no call under way is on it.  The network's handle stays registered.
Release(t, h) ==
  /\ At(t, "idle")
  /\ h \in held
  /\ \A u \in Threads : call[u].target # h \/ At(u, "idle") \/ h = networkHandle
  /\ held' = held \ {h}
  /\ registry' = IF h = networkHandle THEN registry ELSE registry \ {h}
  /\ UNCHANGED <<nextHandle, lastError, memory, networkHandle, call, outcome, abandoned>>

Continue(t) ==
  \/ LookupFails(t) \/ DispatchFails(t) \/ Dispatch(t)
  \/ Register(t) \/ HandOverFails(t) \/ Allocate(t)
  \/ Return(t) \/ TakeLastError(t) \/ Raise(t)

Next ==
  \E t \in Threads :
    \/ \E op \in Operations, h \in held \cup {INVALID_HANDLE_VALUE, networkHandle} : Call(t, op, h)
    \/ Continue(t)
    \/ \E h \in held : Release(t, h)

Spec == Init /\ [][Next]_vars

-----------------------------------------------------------------------------
CallType ==
  [at : {"idle", "entry", "registering", "allocating", "returned", "raising"},
   op : Operations, target : Nat, left : Nat, got : SUBSET Nat, status : OK .. NETWORK_NOT_FOUND,
   cause : JavaExceptions \cup {None}, message : JavaExceptions \cup {None}]

\* Every variable has its type.
TypeOK ==
  /\ registry \subseteq Nat \ {INVALID_HANDLE_VALUE}
  /\ nextHandle \in Nat
  /\ lastError \in [Threads -> JavaExceptions \cup {None}]
  /\ memory \subseteq Threads \X {"result", "message"}
  /\ networkHandle \in Nat
  /\ held \subseteq Nat /\ abandoned \subseteq Nat
  /\ call \in [Threads -> CallType]

(***************************************************************************)
(* A handle is registered exactly while somebody can release it: C++ holds *)
(* it or a call is bringing it; beside the network's own, and those of a   *)
(* call that failed after it had registered some of its objects.  No       *)
(* object stays registered that C++ does not know of, and no handle that   *)
(* C++ uses is refused.                                                    *)
(***************************************************************************)
InFlight == UNION {call[t].got : t \in Threads}

RegistryAccounted ==
  registry = held \cup ({networkHandle} \ {INVALID_HANDLE_VALUE}) \cup abandoned \cup InFlight

(***************************************************************************)
(* Each unmanaged buffer belongs to a call that still has to free it, and  *)
(* a call that is over left none: nothing leaks whichever step fails, and  *)
(* nothing is freed twice.                                                 *)
(***************************************************************************)
BuffersAccounted ==
  \A t \in Threads :
    /\ <<t, "result">> \in memory => At(t, "returned") /\ call[t].status = OK
    /\ <<t, "message">> \in memory <=> At(t, "raising") /\ call[t].message # None

(***************************************************************************)
(* LAST_ERROR of a thread is the failure of the call it is in, from the    *)
(* catch until C++ takes it: a call never finds an earlier one there, and  *)
(* an idle thread keeps no Throwable alive.                                *)
(***************************************************************************)
LastErrorIsMine ==
  \A t \in Threads :
    lastError[t] = (IF At(t, "returned") THEN call[t].cause ELSE None)

(***************************************************************************)
(* Each call returns its own objects, behind handles nobody else has, or   *)
(* raises the documented exception for its own failure: the entry points   *)
(* implement BackendCalls.                                                 *)
(***************************************************************************)
Answered(t) == At(t, "returned") \/ At(t, "raising")

Calling == {t \in Threads : ~At(t, "idle")}

AnswerOf(t) ==
  IF Answered(t) THEN [objects |-> call[t].got, failure |-> call[t].cause, final |-> TRUE]
  ELSE [objects |-> {}, failure |-> None, final |-> FALSE]

Answers == [t \in Threads |-> AnswerOf(t)]

Calls == INSTANCE BackendCalls WITH Handles <- 1 .. MaxHandles, calling <- Calling, answer <- Answers

Implements == Calls!Spec

-----------------------------------------------------------------------------
(***************************************************************************)
(* The inductive invariant behind these properties.                        *)
(***************************************************************************)
\* Handles are given out in order, from 1.
Numbered ==
  /\ nextHandle \in 1 .. MaxHandles + 1
  /\ networkHandle < nextHandle
  /\ \A h \in held \cup abandoned \cup InFlight : 0 < h /\ h < nextHandle

\* A handle has one place: C++, one call, or none if it was abandoned.
Apart ==
  /\ held \cap abandoned = {}
  /\ \A t \in Threads : call[t].got \cap (held \cup abandoned \cup {networkHandle}) = {}
  /\ \A t, u \in Threads : t # u => call[t].got \cap call[u].got = {}
  /\ networkHandle \notin abandoned

Loads(t) == call[t].op = "load" /\ ~At(t, "idle")

OneLoad ==
  \A t \in Threads : Loads(t) =>
    /\ networkHandle = INVALID_HANDLE_VALUE
    /\ \A u \in Threads : Loads(u) => u = t

Failed(t) ==
  /\ call[t].cause \in JavaExceptions
  /\ call[t].status = KindOf(call[t].cause)
  /\ call[t].status # OK
  /\ call[t].got = {}

Unfailed(t) == call[t].cause = None /\ call[t].status = OK

\* What is known of a call at each step.
Staged ==
  \A t \in Threads :
    /\ At(t, "idle") \/ At(t, "entry") => call[t].got = {} /\ Unfailed(t)
    /\ At(t, "registering") => Unfailed(t) /\ call[t].left > 0
    /\ At(t, "registering") /\ call[t].op # "objects" => call[t].left = 1
    /\ At(t, "allocating")  => Unfailed(t) /\ call[t].op # "load"
    /\ At(t, "returned")    => Unfailed(t) \/ Failed(t)
    /\ At(t, "returned") /\ call[t].op = "load" /\ Unfailed(t) => call[t].got # {}
    /\ At(t, "raising")     => Failed(t) /\ call[t].message \in {call[t].cause, None}

IInv ==
  /\ TypeOK /\ Numbered /\ Apart /\ OneLoad /\ Staged
  /\ RegistryAccounted /\ BuffersAccounted /\ LastErrorIsMine

=============================================================================
