--------------------------- MODULE GraalIsolates ---------------------------
(***************************************************************************)
(* The isolates of the native image and the threads attached to them       *)
(* (src/graalvm/GraalVMBackend.cpp): each call goes through the isolate    *)
(* thread of its C++ thread, attached on its first call and detached when  *)
(* the thread ends, unless the isolate was closed meanwhile.               *)
(*                                                                         *)
(* openIsolates() is shared by all threads under a mutex, each of whose    *)
(* locked sections is one step; threadIsolates belongs to one thread.      *)
(* Isolates are external: `running` and `attached` are what the image      *)
(* knows of them.  All backends use the same library.                      *)
(***************************************************************************)
EXTENDS Naturals, FiniteSets

CONSTANTS
  Threads,
  Backends,    \* GraalVMBackend objects, each opened once
  Addresses,   \* where isolates are created; free again once torn down
  Null

ASSUME IsolateConstants == Null \notin Addresses /\ Backends # {}

VARIABLES
  status,          \* of each backend: "none", "init", "open", "closing", "closed"
  isolate,         \* isolate_ of each backend
  isolateId,       \* isolateId_
  libHandle,       \* the backends with libHandle_ set
  lastId,          \* openIsolates().lastId
  detachThread,    \* the ids in openIsolates().detachThread
  threadIsolates,  \* each thread's isolate threads: their isolate's id and address
  threadEnded,     \* the threads whose ThreadExit has run
  pc,              \* what each thread is doing
  using,           \* the backend it does it on
  running,         \* the id of the isolate at each address, 0 for none
  attached         \* the threads the isolate at each address knows

backendVars == <<status, isolate, isolateId, libHandle>>
imageVars   == <<running, attached>>
vars == <<status, isolate, isolateId, libHandle, lastId, detachThread,
          threadIsolates, threadEnded, pc, using, running, attached>>

Init ==
  /\ status         = [b \in Backends |-> "none"]
  /\ isolate        = [b \in Backends |-> Null]
  /\ isolateId      = [b \in Backends |-> 0]
  /\ libHandle      = {}
  /\ lastId         = 0
  /\ detachThread   = {}
  /\ threadIsolates = [t \in Threads |-> {}]
  /\ threadEnded    = {}
  /\ pc             = [t \in Threads |-> "idle"]
  /\ using          = [t \in Threads |-> CHOOSE b \in Backends : TRUE]
  /\ running        = [a \in Addresses |-> 0]
  /\ attached       = [a \in Addresses |-> {}]

Goto(t, where, b) ==
  /\ pc' = [pc EXCEPT ![t] = where]
  /\ using' = [using EXCEPT ![t] = b]

\* The library is mapped as long as one backend has it open.
Loaded == libHandle # {}

\* Defect: what is forgotten are the isolates still open.
RememberInverted(t, id, a, open) ==
  threadIsolates' = [threadIsolates EXCEPT
    ![t] = {e \in @ : e.id \notin open} \cup {[id |-> id, address |-> a]}]

\* rememberThread: also forgets the isolates closed since.
Remember(t, id, a, open) ==
  threadIsolates' = [threadIsolates EXCEPT
    ![t] = {e \in @ : e.id \in open} \cup {[id |-> id, address |-> a]}]

Known(t, b) == \E e \in threadIsolates[t] : e.id = isolateId[b]

\* thread(): the isolate thread of t, attached on its first call.
Thread(t, b) ==
  \/ /\ Known(t, b)
     /\ UNCHANGED <<threadIsolates, attached>>
  \/ /\ ~Known(t, b) /\ isolate[b] # Null
     /\ attached' = [attached EXCEPT ![isolate[b]] = @ \cup {t}]
     /\ Remember(t, isolateId[b], isolate[b], detachThread)

----------------------------------------------------------------------------
\* Defect: the first isolate gets the id 0 of the closed backends.
OpenPostIncrement(t, b, a) ==
  /\ pc[t] = "idle" /\ status[b] = "none" /\ running[a] = 0
  /\ libHandle' = libHandle \cup {b}
  /\ lastId' = lastId + 1
  /\ isolate' = [isolate EXCEPT ![b] = a]
  /\ isolateId' = [isolateId EXCEPT ![b] = lastId]
  /\ detachThread' = detachThread \cup {lastId}
  /\ running' = [running EXCEPT ![a] = lastId]
  /\ attached' = [attached EXCEPT ![a] = {t}]
  /\ Remember(t, lastId, a, detachThread')
  /\ status' = [status EXCEPT ![b] = "init"]
  /\ Goto(t, "init", b)
  /\ UNCHANGED threadEnded

\* init: a new isolate, under an id of its own; the check of the property
\* codes that follows is a call into it.
Open(t, b, a) ==
  /\ pc[t] = "idle" /\ status[b] = "none" /\ running[a] = 0
  /\ libHandle' = libHandle \cup {b}
  /\ lastId' = lastId + 1
  /\ isolate' = [isolate EXCEPT ![b] = a]
  /\ isolateId' = [isolateId EXCEPT ![b] = lastId']
  /\ detachThread' = detachThread \cup {lastId'}
  /\ running' = [running EXCEPT ![a] = lastId']
  /\ attached' = [attached EXCEPT ![a] = {t}]
  /\ Remember(t, lastId', a, detachThread')
  /\ status' = [status EXCEPT ![b] = "init"]
  /\ Goto(t, "init", b)
  /\ UNCHANGED threadEnded

\* The library is not loaded; or a symbol is missing or the isolate not created:
\* the constructor throws then too, and nothing closes the library.
OpenFails(t, b) ==
  /\ pc[t] = "idle" /\ status[b] = "none"
  /\ libHandle' \in {libHandle, libHandle \cup {b}}
  /\ status' = [status EXCEPT ![b] = "closed"]
  /\ UNCHANGED <<isolate, isolateId, lastId, detachThread, threadIsolates,
                 threadEnded, pc, using, imageVars>>

\* checkPropertyCodes: other codes close the backend from its constructor.
CheckCodes(t) ==
  /\ pc[t] = "init"
  /\ \/ /\ status' = [status EXCEPT ![using[t]] = "open"]
        /\ Goto(t, "idle", using[t])
     \/ /\ status' = [status EXCEPT ![using[t]] = "closing"]
        /\ Goto(t, "close", using[t])
  /\ UNCHANGED <<isolate, isolateId, libHandle, lastId, detachThread,
                 threadIsolates, threadEnded, imageVars>>

\* An operation of the backend, up to its call into the library.  A closed
\* backend, or a failed attachment, throws instead and changes nothing.
Call(t, b) ==
  /\ pc[t] = "idle" /\ status[b] \in {"open", "closed"}
  /\ Thread(t, b)
  /\ Goto(t, "call", b)
  /\ UNCHANGED <<backendVars, lastId, detachThread, threadEnded, running>>

\* A last wrapper is destroyed: its handle is the backend's to release, as
\* HandleTracker::release saw under its lock.
StartRelease(t, b) ==
  /\ pc[t] = "idle" /\ status[b] = "open"
  /\ Goto(t, "release", b)
  /\ UNCHANGED <<backendVars, lastId, detachThread, threadIsolates, threadEnded,
                 imageVars>>

\* releaseHandle, up to its call into the library: no-op once closed; a failed
\* attachment is swallowed.
Release(t) ==
  /\ pc[t] = "release"
  /\ \/ /\ isolate[using[t]] # Null
        /\ Thread(t, using[t])
        /\ Goto(t, "releasing", using[t])
     \/ /\ \/ isolate[using[t]] = Null
           \/ ~Known(t, using[t])
        /\ Goto(t, "idle", using[t])
        /\ UNCHANGED <<threadIsolates, attached>>
  /\ UNCHANGED <<backendVars, lastId, detachThread, threadEnded, running>>

\* The call into the library itself.
Return(t) ==
  /\ pc[t] \in {"call", "releasing"}
  /\ Goto(t, "idle", using[t])
  /\ UNCHANGED <<backendVars, lastId, detachThread, threadIsolates, threadEnded,
                 imageVars>>

----------------------------------------------------------------------------
\* close(), on any thread once no other one calls through the backend; a
\* release of a last wrapper may be under way.
Close(t, b) ==
  /\ pc[t] = "idle" /\ status[b] = "open"
  /\ \A u \in Threads : ~(pc[u] = "call" /\ using[u] = b)
  /\ status' = [status EXCEPT ![b] = "closing"]
  /\ Goto(t, "close", b)
  /\ UNCHANGED <<isolate, isolateId, libHandle, lastId, detachThread,
                 threadIsolates, threadEnded, imageVars>>

\* The isolate is torn down from the closing thread's isolate thread; if it
\* cannot be attached the isolate is left as it is.
CloseThread(t) ==
  /\ pc[t] = "close"
  /\ \/ /\ Thread(t, using[t])
        /\ Goto(t, "erase", using[t])
     \/ /\ ~Known(t, using[t])
        /\ Goto(t, "unload", using[t])
        /\ UNCHANGED <<threadIsolates, attached>>
  /\ UNCHANGED <<backendVars, lastId, detachThread, threadEnded, running>>

\* Defect: the id is not erased before the tear-down.
EraseNothing(t) ==
  /\ pc[t] = "erase"
  /\ Goto(t, "teardown", using[t])
  /\ UNCHANGED <<backendVars, lastId, detachThread, threadIsolates, threadEnded,
                 imageVars>>

\* The threads that end from now on leave their detaching to the tear-down.
Erase(t) ==
  /\ pc[t] = "erase"
  /\ detachThread' = detachThread \ {isolateId[using[t]]}
  /\ Goto(t, "teardown", using[t])
  /\ UNCHANGED <<backendVars, lastId, threadIsolates, threadEnded, imageVars>>

\* graal_detach_all_threads_and_tear_down_isolate: waits for no thread.
TearDown(t) ==
  /\ pc[t] = "teardown"
  /\ running' = [running EXCEPT ![isolate[using[t]]] = 0]
  /\ attached' = [attached EXCEPT ![isolate[using[t]]] = {}]
  /\ Goto(t, "unload", using[t])
  /\ UNCHANGED <<backendVars, lastId, detachThread, threadIsolates, threadEnded>>

\* Defect: the id of the isolate stays.
UnloadKeepsId(t) ==
  /\ pc[t] = "unload"
  /\ isolate' = [isolate EXCEPT ![using[t]] = Null]
  /\ libHandle' = libHandle \ {using[t]}
  /\ status' = [status EXCEPT ![using[t]] = "closed"]
  /\ Goto(t, "idle", using[t])
  /\ UNCHANGED <<isolateId, lastId, detachThread, threadIsolates, threadEnded,
                 imageVars>>

\* The end of close().
Unload(t) ==
  /\ pc[t] = "unload"
  /\ isolateId' = [isolateId EXCEPT ![using[t]] = 0]
  /\ isolate' = [isolate EXCEPT ![using[t]] = Null]
  /\ libHandle' = libHandle \ {using[t]}
  /\ status' = [status EXCEPT ![using[t]] = "closed"]
  /\ Goto(t, "idle", using[t])
  /\ UNCHANGED <<lastId, detachThread, threadIsolates, threadEnded, imageVars>>

\* ~ThreadExit, under the lock: detaches from the isolates still open.  The
\* thread may use networks after that, from the destructors still to run.
ThreadExit(t) ==
  /\ pc[t] = "idle" /\ t \notin threadEnded
  /\ threadEnded' = threadEnded \cup {t}
  /\ attached' = [a \in Addresses |->
       IF \E e \in threadIsolates[t] : e.id \in detachThread /\ e.address = a
       THEN attached[a] \ {t} ELSE attached[a]]
  /\ threadIsolates' = [threadIsolates EXCEPT ![t] = {}]
  /\ UNCHANGED <<backendVars, lastId, detachThread, pc, using, running>>

Next ==
  \E t \in Threads :
    \/ \E b \in Backends :
         \/ OpenFails(t, b) \/ Call(t, b) \/ StartRelease(t, b) \/ Close(t, b)
         \/ \E a \in Addresses : Open(t, b, a)
    \/ CheckCodes(t) \/ Release(t) \/ Return(t)
    \/ CloseThread(t) \/ Erase(t) \/ TearDown(t) \/ Unload(t)
    \/ ThreadExit(t)

Spec == Init /\ [][Next]_vars

----------------------------------------------------------------------------
Entry == [id : Nat \ {0}, address : Addresses]

TypeOK ==
  /\ status \in [Backends -> {"none", "init", "open", "closing", "closed"}]
  /\ isolate \in [Backends -> Addresses \cup {Null}]
  /\ isolateId \in [Backends -> Nat]
  /\ libHandle \subseteq Backends
  /\ lastId \in Nat
  /\ detachThread \subseteq 1..lastId
  /\ threadIsolates \in [Threads -> SUBSET Entry]
  /\ threadEnded \subseteq Threads
  /\ pc \in [Threads -> {"idle", "init", "call", "release", "releasing", "close",
                         "erase", "teardown", "unload"}]
  /\ using \in [Threads -> Backends]
  /\ running \in [Addresses -> Nat]
  /\ attached \in [Addresses -> SUBSET Threads]

\* What a thread would detach from if it ended now: an isolate it is attached
\* to, never a closed one nor another one at the same address (the id of an
\* isolate, and its erasure before the tear-down).
ExitDetachesOwn ==
  \A t \in Threads : \A e \in threadIsolates[t] : e.id \in detachThread =>
    running[e.address] = e.id /\ t \in attached[e.address]

\* A thread forgets an isolate that is open only by detaching from it: otherwise
\* it would stay attached for good, or attach once more (rememberThread).
RememberedUntilDetached ==
  [][\A t \in Threads : \A e \in threadIsolates[t] \ threadIsolates'[t] :
       e.id \in detachThread' => t \notin attached'[e.address]]_vars

\* An operation, or a release by a backend that no one closes, enters the image
\* only through an isolate thread of its own thread in a running isolate, one
\* that the thread remembers: used after the close, a backend throws.
CallsEnterRunning ==
  \A t \in Threads :
    pc[t] = "call" \/ (pc[t] = "releasing" /\ status[using[t]] = "open") =>
      LET b == using[t]
      IN  /\ isolate[b] # Null /\ Loaded
          /\ running[isolate[b]] = isolateId[b] /\ t \in attached[isolate[b]]
          /\ [id |-> isolateId[b], address |-> isolate[b]] \in threadIsolates[t]

\* A thread that ends calls no function of a library already unloaded: it
\* detaches from open isolates only (comment on OpenIsolates).
ExitCallsLoadedLibrary ==
  \A t \in Threads \ threadEnded : \A e \in threadIsolates[t] :
    e.id \in detachThread => Loaded

\* Wrappers release nothing into an isolate that is being closed (comment in
\* close(): "release nothing later on").
ReleasesEnterRunning ==
  \A t \in Threads : pc[t] = "releasing" =>
    LET b == using[t]
    IN  isolate[b] # Null /\ running[isolate[b]] = isolateId[b]
============================================================================
