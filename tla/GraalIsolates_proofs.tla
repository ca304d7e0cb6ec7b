------------------------ MODULE GraalIsolates_proofs ------------------------
(***************************************************************************)
(* Proofs about GraalIsolates, for any threads, backends and addresses.    *)
(***************************************************************************)
EXTENDS GraalIsolates, TLAPS

(***************************************************************************)
(* The inductive invariant.                                                *)
(***************************************************************************)

\* The ids given so far are those up to lastId, and each backend has its own.
IdsGiven ==
  /\ \A b \in Backends : isolateId[b] <= lastId
  /\ \A t \in Threads : \A e \in threadIsolates[t] : e.id <= lastId

IdsApart ==
  \A b, c \in Backends : isolateId[b] = isolateId[c] /\ isolateId[b] # 0 => b = c

\* What a thread remembers of a backend's isolate is where the backend has it.
EntriesAgree ==
  \A t \in Threads : \A e \in threadIsolates[t] : \A b \in Backends :
    e.id = isolateId[b] => e.address = isolate[b]

\* The isolate of a backend runs as long as its id is not erased.
OpenIsRunning ==
  \A b \in Backends : isolateId[b] \in detachThread =>
    isolate[b] \in Addresses /\ running[isolate[b]] = isolateId[b]

Isolates == IdsGiven /\ IdsApart /\ EntriesAgree /\ OpenIsRunning /\ ExitDetachesOwn

\* A backend has an isolate from its opening to the end of its close.
StatusTells ==
  \A b \in Backends :
    /\ status[b] \in {"none", "closed"} => isolate[b] = Null /\ isolateId[b] = 0
    /\ status[b] \in {"init", "open", "closing"} => isolate[b] \in Addresses /\ isolateId[b] # 0
    /\ status[b] \in {"init", "open"} => b \in libHandle /\ isolateId[b] \in detachThread

Closing == {"close", "erase", "teardown", "unload"}

\* Where a thread is says how far its backend is.
Phase(t) ==
  LET b == using[t]
  IN  /\ pc[t] = "init" => status[b] = "init"
      /\ pc[t] = "call" =>
           status[b] = "open" /\ [id |-> isolateId[b], address |-> isolate[b]] \in threadIsolates[t]
      /\ pc[t] \in {"release", "releasing"} => status[b] \in {"open", "closing", "closed"}
      /\ pc[t] = "releasing" /\ status[b] = "open" =>
           [id |-> isolateId[b], address |-> isolate[b]] \in threadIsolates[t]
      /\ pc[t] \in Closing => status[b] = "closing"
      /\ pc[t] \in {"close", "erase"} => isolateId[b] \in detachThread
      /\ pc[t] = "teardown" =>
           isolateId[b] \notin detachThread /\ running[isolate[b]] = isolateId[b]

Phases == \A t \in Threads : Phase(t)

\* A backend is opened, and closed, by one thread.
Alone ==
  \A t, u \in Threads :
    pc[t] \in Closing \cup {"init"} /\ pc[u] \in Closing \cup {"init"} /\ using[t] = using[u]
    => t = u

IInv == TypeOK /\ Isolates /\ StatusTells /\ Phases /\ Alone

----------------------------------------------------------------------------
\* What remembering an isolate does to what each thread remembers.
LEMMA Remembering ==
  ASSUME TypeOK, NEW t \in Threads, NEW id \in Nat \ {0}, NEW a \in Addresses, NEW open,
         Remember(t, id, a, open)
  PROVE  /\ threadIsolates' \in [Threads -> SUBSET Entry]
         /\ threadIsolates'[t] =
              {e \in threadIsolates[t] : e.id \in open} \cup {[id |-> id, address |-> a]}
         /\ \A u \in Threads \ {t} : threadIsolates'[u] = threadIsolates[u]
<1>1. [id |-> id, address |-> a] \in Entry
  BY DEF Entry
<1> QED  BY <1>1 DEF Remember, TypeOK

\* The ways on for a thread: nobody else moves.
LEMMA Going ==
  ASSUME TypeOK, NEW t \in Threads, NEW b \in Backends,
         NEW where \in {"idle", "init", "call", "release", "releasing", "close", "erase",
                        "teardown", "unload"},
         Goto(t, where, b)
  PROVE  /\ pc' \in [Threads -> {"idle", "init", "call", "release", "releasing", "close",
                                 "erase", "teardown", "unload"}]
         /\ using' \in [Threads -> Backends]
         /\ pc'[t] = where /\ using'[t] = b
         /\ \A u \in Threads \ {t} : pc'[u] = pc[u] /\ using'[u] = using[u]
BY DEF Goto, TypeOK

\* The steps that neither open, remember nor tear down anything.
LEMMA Undisturbed ==
  ASSUME Isolates,
         UNCHANGED <<isolate, isolateId, lastId, detachThread, threadIsolates, running, attached>>
  PROVE  Isolates'
BY DEF Isolates, IdsGiven, IdsApart, EntriesAgree, OpenIsRunning, ExitDetachesOwn

\* thread(): what is remembered is where t is attached, and the isolate of b is among it.
LEMMA ThreadKeeps ==
  ASSUME IInv, NEW t \in Threads, NEW b \in Backends, Thread(t, b),
         UNCHANGED <<isolate, isolateId, lastId, detachThread, running>>
  PROVE  /\ threadIsolates' \in [Threads -> SUBSET Entry]
         /\ attached' \in [Addresses -> SUBSET Threads]
         /\ Isolates' /\ isolate[b] # Null
         /\ [id |-> isolateId[b], address |-> isolate[b]] \in threadIsolates'[t]
         /\ \A u \in Threads \ {t} : threadIsolates'[u] = threadIsolates[u]
<1> USE DEF IInv
<1>1. CASE Known(t, b) /\ UNCHANGED <<threadIsolates, attached>>
  <2>1. PICK e \in threadIsolates[t] : e.id = isolateId[b]
    BY <1>1 DEF Known
  <2>2. e \in Entry
    BY DEF TypeOK
  <2>3. e.address = isolate[b] /\ e = [id |-> e.id, address |-> e.address] /\ e.address \in Addresses
    BY <2>1, <2>2 DEF EntriesAgree, Isolates, Entry
  <2>4. isolate[b] # Null
    BY <2>3, IsolateConstants
  <2> QED  BY <1>1, <2>1, <2>3, <2>4, Undisturbed DEF TypeOK
<1>2. CASE /\ ~Known(t, b) /\ isolate[b] # Null
           /\ attached' = [attached EXCEPT ![isolate[b]] = @ \cup {t}]
           /\ Remember(t, isolateId[b], isolate[b], detachThread)
  <2> DEFINE new == [id |-> isolateId[b], address |-> isolate[b]]
  <2>1. isolate[b] \in Addresses /\ isolateId[b] \in Nat \ {0}
    BY <1>2 DEF StatusTells, TypeOK
  <2>2. /\ threadIsolates' \in [Threads -> SUBSET Entry]
        /\ threadIsolates'[t] = {e \in threadIsolates[t] : e.id \in detachThread} \cup {new}
        /\ \A u \in Threads \ {t} : threadIsolates'[u] = threadIsolates[u]
    BY <1>2, <2>1, Remembering
  <2>3. /\ attached' \in [Addresses -> SUBSET Threads] /\ t \in attached'[isolate[b]]
        /\ \A a \in Addresses : attached[a] \subseteq attached'[a]
    BY <1>2, <2>1 DEF TypeOK
  <2>4. \A u \in Threads : \A e \in threadIsolates'[u] :
          e \in threadIsolates[u] \/ (u = t /\ e = new)
    BY <2>2
  <2>5. new.id = isolateId[b] /\ new.address = isolate[b]
    OBVIOUS
  <2> HIDE DEF new
  <2>6. IdsGiven'
    BY <2>4, <2>5 DEF Isolates, IdsGiven
  <2>7. IdsApart' /\ OpenIsRunning'
    BY DEF Isolates, IdsApart, OpenIsRunning
  <2>8. EntriesAgree'
    BY <2>1, <2>4, <2>5 DEF Isolates, IdsApart, EntriesAgree
  <2>9. ExitDetachesOwn'
    <3> SUFFICES ASSUME NEW u \in Threads, NEW e \in threadIsolates'[u], e.id \in detachThread
                 PROVE  running[e.address] = e.id /\ u \in attached'[e.address]
      BY DEF ExitDetachesOwn
    <3>1. CASE e \in threadIsolates[u]
      <4>1. e.address \in Addresses
        BY <3>1 DEF TypeOK, Entry
      <4> QED  BY <2>3, <3>1, <4>1 DEF Isolates, ExitDetachesOwn
    <3>2. CASE u = t /\ e = new
      BY <2>3, <2>5, <3>2 DEF Isolates, OpenIsRunning
    <3> QED  BY <2>4, <3>1, <3>2
  <2>10. new \in threadIsolates'[t]
    BY <2>2
  <2> QED  BY <1>2, <2>2, <2>3, <2>6, <2>7, <2>8, <2>9, <2>10 DEF Isolates, new
<1> QED  BY <1>1, <1>2 DEF Thread

\* The steps of t that change no backend's phase but that of the one t is on.
LEMMA AloneOn ==
  ASSUME IInv, NEW t \in Threads, NEW b \in Backends,
         \A u \in Threads \ {t} : pc'[u] = pc[u] /\ using'[u] = using[u],
         using'[t] = b,
         \/ pc'[t] \notin Closing \cup {"init"}
         \/ pc[t] \in Closing \cup {"init"} /\ using[t] = b
         \/ status[b] \notin {"init", "closing"}
  PROVE  Alone'
<1>1. \A u \in Threads : pc[u] \in Closing \cup {"init"} => status[using[u]] \in {"init", "closing"}
  BY DEF IInv, Phases, Phase
<1>2. \A u \in Threads \ {t} : pc'[u] \in Closing \cup {"init"} /\ using'[u] = b
                               => pc'[t] \notin Closing \cup {"init"}
  BY <1>1 DEF IInv, Alone
<1>3. \A u, v \in Threads \ {t} :
        pc'[u] \in Closing \cup {"init"} /\ pc'[v] \in Closing \cup {"init"} /\ using'[u] = using'[v]
        => u = v
  BY DEF IInv, Alone
<1> QED  BY <1>2, <1>3 DEF Alone

----------------------------------------------------------------------------
LEMMA IInvOpen ==
  ASSUME IInv, NEW t \in Threads, NEW b \in Backends, NEW a \in Addresses, Open(t, b, a)
  PROVE  IInv'
<1> USE DEF IInv
<1> DEFINE id == lastId + 1
           new == [id |-> id, address |-> a]
<1>1. /\ pc[t] = "idle" /\ status[b] = "none" /\ running[a] = 0
      /\ libHandle' = libHandle \cup {b} /\ lastId' = id
      /\ isolate' = [isolate EXCEPT ![b] = a] /\ isolateId' = [isolateId EXCEPT ![b] = id]
      /\ detachThread' = detachThread \cup {id}
      /\ running' = [running EXCEPT ![a] = id] /\ attached' = [attached EXCEPT ![a] = {t}]
      /\ status' = [status EXCEPT ![b] = "init"] /\ threadEnded' = threadEnded
  BY DEF Open
<1>2. /\ id \in Nat \ {0} /\ lastId \in Nat /\ id > lastId
      /\ \A i \in detachThread : i \in Nat /\ i <= lastId /\ i # 0
  BY DEF TypeOK
<1>3. /\ threadIsolates' \in [Threads -> SUBSET Entry]
      /\ threadIsolates'[t] = {e \in threadIsolates[t] : e.id \in detachThread'} \cup {new}
      /\ \A u \in Threads \ {t} : threadIsolates'[u] = threadIsolates[u]
  BY <1>1, <1>2, Remembering DEF Open
<1>4. /\ pc' \in [Threads -> {"idle", "init", "call", "release", "releasing", "close",
                              "erase", "teardown", "unload"}]
      /\ using' \in [Threads -> Backends] /\ pc'[t] = "init" /\ using'[t] = b
      /\ \A u \in Threads \ {t} : pc'[u] = pc[u] /\ using'[u] = using[u]
  BY Going DEF Open
<1>5. TypeOK'
  <2>1. detachThread' \subseteq 1..lastId'
    BY <1>1, <1>2
  <2> QED  BY <1>1, <1>2, <1>3, <1>4, <2>1 DEF TypeOK
<1>6. /\ isolate'[b] = a /\ isolateId'[b] = id /\ status'[b] = "init"
      /\ \A c \in Backends \ {b} : /\ isolate'[c] = isolate[c] /\ isolateId'[c] = isolateId[c]
                                   /\ status'[c] = status[c]
      /\ running'[a] = id /\ t \in attached'[a]
      /\ \A d \in Addresses \ {a} : running'[d] = running[d] /\ attached'[d] = attached[d]
  BY <1>1 DEF TypeOK
<1>7. \A u \in Threads : \A e \in threadIsolates'[u] :
        e \in threadIsolates[u] \/ (u = t /\ e = new)
  BY <1>3
<1>8. new.id = id /\ new.address = a /\ new \in threadIsolates'[t]
  BY <1>3
<1>9. \A u \in Threads : \A e \in threadIsolates[u] :
        e.id \in Nat /\ e.id # 0 /\ e.address \in Addresses /\ e.id <= lastId
  BY DEF TypeOK, Entry, Isolates, IdsGiven
<1>10. \A c \in Backends : isolateId[c] \in Nat /\ isolateId[c] <= lastId
  BY DEF TypeOK, Isolates, IdsGiven
<1> HIDE DEF new, id
<1>11. IdsGiven'
  BY <1>1, <1>2, <1>6, <1>7, <1>8, <1>9, <1>10 DEF IdsGiven
<1>12. IdsApart'
  BY <1>2, <1>6, <1>10 DEF Isolates, IdsApart
<1>13. EntriesAgree'
  BY <1>2, <1>6, <1>7, <1>8, <1>9, <1>10 DEF Isolates, EntriesAgree
<1>14. OpenIsRunning'
  <2> SUFFICES ASSUME NEW c \in Backends, isolateId'[c] \in detachThread'
               PROVE  isolate'[c] \in Addresses /\ running'[isolate'[c]] = isolateId'[c]
    BY DEF OpenIsRunning
  <2>1. CASE c # b
    <3>1. isolateId[c] \in detachThread
      BY <1>1, <1>2, <1>6, <1>10, <2>1
    <3>2. isolate[c] \in Addresses /\ running[isolate[c]] = isolateId[c] /\ isolateId[c] # 0
      BY <1>2, <3>1 DEF Isolates, OpenIsRunning
    <3>3. isolate[c] # a
      BY <1>1, <3>2
    <3> QED  BY <1>6, <2>1, <3>2, <3>3
  <2> QED  BY <1>6, <2>1
<1>15. ExitDetachesOwn'
  <2> SUFFICES ASSUME NEW u \in Threads, NEW e \in threadIsolates'[u], e.id \in detachThread'
               PROVE  running'[e.address] = e.id /\ u \in attached'[e.address]
    BY DEF ExitDetachesOwn
  <2>1. CASE e \in threadIsolates[u]
    <3>1. e.id \in detachThread /\ e.address \in Addresses /\ e.id # 0
      BY <1>1, <1>2, <1>9, <2>1
    <3>2. running[e.address] = e.id /\ u \in attached[e.address]
      BY <2>1, <3>1 DEF Isolates, ExitDetachesOwn
    <3>3. e.address # a
      BY <1>1, <3>1, <3>2
    <3> QED  BY <1>6, <3>1, <3>2, <3>3
  <2>2. CASE u = t /\ e = new
    BY <1>6, <1>8, <2>2
  <2> QED  BY <1>7, <2>1, <2>2
<1>16. StatusTells'
  BY <1>1, <1>2, <1>6 DEF StatusTells
<1>17. Phases'
  <2> SUFFICES ASSUME NEW u \in Threads PROVE Phase(u)'
    BY DEF Phases
  <2>1. CASE u = t
    BY <1>4, <1>6, <2>1 DEF Phase, Closing
  <2>2. CASE u # t
    <3>1. pc'[u] = pc[u] /\ using'[u] = using[u] /\ using[u] \in Backends
          /\ threadIsolates'[u] = threadIsolates[u]
      BY <1>3, <1>4, <2>2 DEF TypeOK
    <3>2. Phase(u)
      BY DEF Phases
    <3>3. pc[u] \in Closing \cup {"init", "call", "release", "releasing"} => using[u] # b
      BY <1>1, <3>2 DEF Phase
    <3>4. pc[u] \in {"close", "erase"} => isolateId'[using[u]] \in detachThread'
      BY <1>1, <1>6, <3>1, <3>2, <3>3 DEF Phase, Closing
    <3>5. pc[u] = "teardown" => isolateId'[using[u]] \notin detachThread'
                                /\ running'[isolate'[using[u]]] = isolateId'[using[u]]
      <4> SUFFICES ASSUME pc[u] = "teardown"
                   PROVE  isolateId'[using[u]] \notin detachThread'
                          /\ running'[isolate'[using[u]]] = isolateId'[using[u]]
        OBVIOUS
      <4>1. /\ isolateId[using[u]] \notin detachThread /\ using[u] # b
            /\ running[isolate[using[u]]] = isolateId[using[u]] /\ status[using[u]] = "closing"
        BY <3>2, <3>3 DEF Phase, Closing
      <4>2. isolate[using[u]] \in Addresses /\ isolateId[using[u]] # 0
        BY <3>1, <4>1 DEF StatusTells
      <4>3. isolate[using[u]] # a /\ isolateId[using[u]] # id
        BY <1>1, <1>2, <1>10, <3>1, <4>1, <4>2
      <4> QED  BY <1>1, <1>6, <3>1, <4>1, <4>2, <4>3
    <3> QED  BY <1>6, <3>1, <3>2, <3>3, <3>4, <3>5 DEF Phase, Closing
  <2> QED  BY <2>1, <2>2
<1>18. Alone'
  BY <1>1, <1>4, AloneOn
<1> QED  BY <1>5, <1>11, <1>12, <1>13, <1>14, <1>15, <1>16, <1>17, <1>18 DEF Isolates

LEMMA IInvOpenFails ==
  ASSUME IInv, NEW t \in Threads, NEW b \in Backends, OpenFails(t, b) PROVE IInv'
<1> USE DEF IInv
<1>1. /\ status[b] = "none" /\ status' = [status EXCEPT ![b] = "closed"]
      /\ libHandle \subseteq libHandle' /\ libHandle' \subseteq libHandle \cup {b}
      /\ UNCHANGED <<isolate, isolateId, lastId, detachThread, threadIsolates,
                     threadEnded, pc, using, running, attached>>
  BY DEF OpenFails, imageVars
<1>2. TypeOK'
  BY <1>1 DEF TypeOK
<1>3. Isolates'
  BY <1>1, Undisturbed
<1>4. status'[b] = "closed" /\ \A c \in Backends \ {b} : status'[c] = status[c]
  BY <1>1 DEF TypeOK
<1>5. StatusTells'
  BY <1>1, <1>4 DEF StatusTells
<1>6. \A u \in Threads : using[u] \in Backends
  BY DEF TypeOK
<1>7. Phases'
  BY <1>1, <1>4, <1>6 DEF Phases, Phase, Closing
<1>8. Alone'
  BY <1>1 DEF Alone
<1> QED  BY <1>2, <1>3, <1>5, <1>7, <1>8

LEMMA IInvCheckCodes ==
  ASSUME IInv, NEW t \in Threads, CheckCodes(t) PROVE IInv'
<1> USE DEF IInv
<1> DEFINE b == using[t]
<1>1. PICK s \in {"open", "closing"} :
        /\ pc[t] = "init" /\ status' = [status EXCEPT ![b] = s]
        /\ Goto(t, IF s = "open" THEN "idle" ELSE "close", b)
        /\ UNCHANGED <<isolate, isolateId, libHandle, lastId, detachThread,
                       threadIsolates, threadEnded, running, attached>>
  BY DEF CheckCodes, imageVars
<1>2. b \in Backends
  BY DEF TypeOK
<1>3. /\ pc' \in [Threads -> {"idle", "init", "call", "release", "releasing", "close",
                              "erase", "teardown", "unload"}]
      /\ using' \in [Threads -> Backends] /\ using'[t] = b
      /\ pc'[t] = IF s = "open" THEN "idle" ELSE "close"
      /\ \A u \in Threads \ {t} : pc'[u] = pc[u] /\ using'[u] = using[u]
  BY <1>1, <1>2, Going
<1>4. TypeOK'
  BY <1>1, <1>2, <1>3 DEF TypeOK
<1>5. Isolates'
  BY <1>1, Undisturbed
<1>6. status[b] = "init" /\ isolateId[b] \in detachThread
  BY <1>1, <1>2 DEF Phases, Phase, StatusTells
<1>7. status'[b] = s /\ \A c \in Backends \ {b} : status'[c] = status[c]
  BY <1>1, <1>2 DEF TypeOK
<1> HIDE DEF b
<1>8. StatusTells'
  BY <1>1, <1>2, <1>6, <1>7 DEF StatusTells
<1>9. Phases'
  <2> SUFFICES ASSUME NEW u \in Threads PROVE Phase(u)'
    BY DEF Phases
  <2>1. CASE u = t
    BY <1>1, <1>3, <1>6, <1>7, <2>1 DEF Phase, Closing
  <2>2. CASE u # t
    <3>1. pc'[u] = pc[u] /\ using'[u] = using[u] /\ using[u] \in Backends /\ Phase(u)
      BY <1>3, <2>2 DEF TypeOK, Phases
    <3>2. pc[u] \in Closing \cup {"init", "call", "release", "releasing"} => using[u] # b
      BY <1>1, <1>6, <2>2, <3>1 DEF Phase, Alone, b
    <3> QED  BY <1>1, <1>7, <3>1, <3>2 DEF Phase, Closing
  <2> QED  BY <2>1, <2>2
<1>10. Alone'
  BY <1>1, <1>2, <1>3, AloneOn DEF b
<1> QED  BY <1>4, <1>5, <1>8, <1>9, <1>10

----------------------------------------------------------------------------
(***************************************************************************)
(* The steps that change no backend and end elsewhere than in a close.     *)
(***************************************************************************)
LEMMA IInvMoves ==
  ASSUME IInv, NEW t \in Threads, NEW b \in Backends,
         NEW where \in {"idle", "release", "releasing", "call"},
         Goto(t, where, b),
         \/ UNCHANGED <<threadIsolates, attached>>
         \/ Thread(t, b),
         where \in {"call", "releasing"} => Thread(t, b),
         where = "call" => status[b] \in {"open", "closed"},
         where \in {"release", "releasing"} => status[b] \in {"open", "closing", "closed"},
         UNCHANGED <<backendVars, lastId, detachThread, threadEnded, running>>
  PROVE  IInv'
<1> USE DEF IInv, backendVars
<1>1. /\ pc' \in [Threads -> {"idle", "init", "call", "release", "releasing", "close",
                              "erase", "teardown", "unload"}]
      /\ using' \in [Threads -> Backends] /\ pc'[t] = where /\ using'[t] = b
      /\ \A u \in Threads \ {t} : pc'[u] = pc[u] /\ using'[u] = using[u]
  BY Going
<1>2. /\ threadIsolates' \in [Threads -> SUBSET Entry]
      /\ attached' \in [Addresses -> SUBSET Threads] /\ Isolates'
      /\ \A u \in Threads \ {t} : threadIsolates'[u] = threadIsolates[u]
  <2>1. CASE UNCHANGED <<threadIsolates, attached>>
    BY <2>1, Undisturbed DEF TypeOK
  <2>2. CASE Thread(t, b)
    BY <2>2, ThreadKeeps
  <2> QED  BY <2>1, <2>2
<1>3. TypeOK'
  BY <1>1, <1>2 DEF TypeOK
<1>4. StatusTells'
  BY DEF StatusTells
<1>5. Phases'
  <2> SUFFICES ASSUME NEW u \in Threads PROVE Phase(u)'
    BY DEF Phases
  <2>1. CASE u = t
    <3>1. CASE where = "call"
      <4>1. /\ [id |-> isolateId[b], address |-> isolate[b]] \in threadIsolates'[t]
            /\ isolate[b] # Null
        BY <3>1, ThreadKeeps
      <4>2. status[b] = "open"
        BY <3>1, <4>1 DEF StatusTells
      <4> QED  BY <1>1, <2>1, <3>1, <4>1, <4>2 DEF Phase, Closing
    <3>2. CASE where = "releasing"
      <4>1. [id |-> isolateId[b], address |-> isolate[b]] \in threadIsolates'[t]
        BY <3>2, ThreadKeeps
      <4> QED  BY <1>1, <2>1, <3>2, <4>1 DEF Phase, Closing
    <3>3. CASE where \in {"idle", "release"}
      BY <1>1, <2>1, <3>3 DEF Phase, Closing
    <3> QED  BY <3>1, <3>2, <3>3
  <2>2. CASE u # t
    <3>1. pc'[u] = pc[u] /\ using'[u] = using[u] /\ threadIsolates'[u] = threadIsolates[u]
          /\ Phase(u)
      BY <1>1, <1>2, <2>2 DEF Phases
    <3> QED  BY <3>1 DEF Phase
  <2> QED  BY <2>1, <2>2
<1>6. Alone'
  BY <1>1, AloneOn DEF Closing
<1> QED  BY <1>2, <1>3, <1>4, <1>5, <1>6

LEMMA IInvCall ==
  ASSUME IInv, NEW t \in Threads, NEW b \in Backends, Call(t, b) PROVE IInv'
BY IInvMoves DEF Call

LEMMA IInvStartRelease ==
  ASSUME IInv, NEW t \in Threads, NEW b \in Backends, StartRelease(t, b) PROVE IInv'
BY IInvMoves DEF StartRelease, imageVars

LEMMA IInvRelease ==
  ASSUME IInv, NEW t \in Threads, Release(t) PROVE IInv'
<1>1. using[t] \in Backends
  BY DEF IInv, TypeOK
<1>2. status[using[t]] \in {"open", "closing", "closed"}
  BY DEF Release, IInv, Phases, Phase
<1> QED  BY <1>1, <1>2, IInvMoves DEF Release

LEMMA IInvReturn ==
  ASSUME IInv, NEW t \in Threads, Return(t) PROVE IInv'
<1>1. using[t] \in Backends
  BY DEF IInv, TypeOK
<1> QED  BY <1>1, IInvMoves DEF Return, imageVars

----------------------------------------------------------------------------
(***************************************************************************)
(* The close.                                                              *)
(***************************************************************************)
LEMMA IInvClose ==
  ASSUME IInv, NEW t \in Threads, NEW b \in Backends, Close(t, b) PROVE IInv'
<1> USE DEF IInv
<1>1. /\ pc[t] = "idle" /\ status[b] = "open" /\ status' = [status EXCEPT ![b] = "closing"]
      /\ \A u \in Threads : ~(pc[u] = "call" /\ using[u] = b)
      /\ UNCHANGED <<isolate, isolateId, libHandle, lastId, detachThread,
                     threadIsolates, threadEnded, running, attached>>
  BY DEF Close, imageVars
<1>2. /\ pc' \in [Threads -> {"idle", "init", "call", "release", "releasing", "close",
                              "erase", "teardown", "unload"}]
      /\ using' \in [Threads -> Backends] /\ pc'[t] = "close" /\ using'[t] = b
      /\ \A u \in Threads \ {t} : pc'[u] = pc[u] /\ using'[u] = using[u]
  BY Going DEF Close
<1>3. TypeOK'
  BY <1>1, <1>2 DEF TypeOK
<1>4. Isolates'
  BY <1>1, Undisturbed
<1>5. status'[b] = "closing" /\ \A c \in Backends \ {b} : status'[c] = status[c]
  BY <1>1 DEF TypeOK
<1>6. StatusTells'
  BY <1>1, <1>5 DEF StatusTells
<1>7. Phases'
  <2> SUFFICES ASSUME NEW u \in Threads PROVE Phase(u)'
    BY DEF Phases
  <2>1. CASE u = t
    BY <1>1, <1>2, <1>5, <2>1 DEF Phase, Closing, StatusTells
  <2>2. CASE u # t
    <3>1. pc'[u] = pc[u] /\ using'[u] = using[u] /\ using[u] \in Backends /\ Phase(u)
      BY <1>2, <2>2 DEF TypeOK, Phases
    <3>2. pc[u] \in Closing \cup {"init", "call"} => using[u] # b
      BY <1>1, <3>1 DEF Phase
    <3> QED  BY <1>1, <1>5, <3>1, <3>2 DEF Phase, Closing
  <2> QED  BY <2>1, <2>2
<1>8. Alone'
  BY <1>1, <1>2, AloneOn
<1> QED  BY <1>3, <1>4, <1>6, <1>7, <1>8

\* The steps of a close before the backend forgets its isolate.
LEMMA IInvOnward ==
  ASSUME IInv, NEW t \in Threads, NEW where \in Closing, pc[t] \in Closing,
         Goto(t, where, using[t]),
         UNCHANGED <<backendVars, lastId, threadEnded>>,
         threadIsolates' \in [Threads -> SUBSET Entry],
         attached' \in [Addresses -> SUBSET Threads],
         running' \in [Addresses -> Nat],
         detachThread' \subseteq detachThread, Isolates',
         \A u \in Threads \ {t} : threadIsolates'[u] = threadIsolates[u],
         \A c \in Backends \ {using[t]} :
           /\ isolateId[c] \in detachThread => isolateId[c] \in detachThread'
           /\ isolateId[c] # 0 /\ running[isolate[c]] = isolateId[c]
                => running'[isolate[c]] = isolateId[c],
         where \in {"close", "erase"} => isolateId[using[t]] \in detachThread',
         where = "teardown" => isolateId[using[t]] \notin detachThread'
                               /\ running'[isolate[using[t]]] = isolateId[using[t]]
  PROVE  IInv'
<1> USE DEF IInv, backendVars
<1>1. /\ pc' \in [Threads -> {"idle", "init", "call", "release", "releasing", "close",
                              "erase", "teardown", "unload"}]
      /\ using' \in [Threads -> Backends] /\ pc'[t] = where /\ using'[t] = using[t]
      /\ using[t] \in Backends
      /\ \A u \in Threads \ {t} : pc'[u] = pc[u] /\ using'[u] = using[u]
  BY Going DEF TypeOK, Closing
<1>2. status[using[t]] = "closing"
  BY DEF Phases, Phase
<1>3. TypeOK'
  BY <1>1 DEF TypeOK
<1>4. StatusTells'
  BY <1>1, <1>2 DEF StatusTells
<1>5. Phases'
  <2> SUFFICES ASSUME NEW u \in Threads PROVE Phase(u)'
    BY DEF Phases
  <2>1. CASE u = t
    BY <1>1, <1>2, <2>1 DEF Phase, Closing
  <2>2. CASE u # t
    <3>1. pc'[u] = pc[u] /\ using'[u] = using[u] /\ using[u] \in Backends /\ Phase(u)
          /\ threadIsolates'[u] = threadIsolates[u]
      BY <1>1, <2>2 DEF TypeOK, Phases
    <3>2. pc[u] \in Closing => using[u] # using[t]
      BY <2>2 DEF Alone
    <3>3. pc[u] = "teardown" => isolateId[using[u]] # 0
      BY <3>1 DEF Phase, Closing, StatusTells
    <3> QED  BY <3>1, <3>2, <3>3 DEF Phase, Closing
  <2> QED  BY <2>1, <2>2
<1>6. Alone'
  BY <1>1, AloneOn
<1> QED  BY <1>3, <1>4, <1>5, <1>6

LEMMA IInvCloseThread ==
  ASSUME IInv, NEW t \in Threads, CloseThread(t) PROVE IInv'
<1> USE DEF IInv
<1>1. /\ pc[t] = "close" /\ using[t] \in Backends
      /\ UNCHANGED <<backendVars, lastId, detachThread, threadEnded, running>>
      /\ isolateId[using[t]] \in detachThread
  BY DEF CloseThread, TypeOK, Phases, Phase
<1>2. CASE Thread(t, using[t]) /\ Goto(t, "erase", using[t])
  <2>1. /\ threadIsolates' \in [Threads -> SUBSET Entry]
        /\ attached' \in [Addresses -> SUBSET Threads] /\ Isolates'
        /\ \A u \in Threads \ {t} : threadIsolates'[u] = threadIsolates[u]
    BY <1>1, <1>2, ThreadKeeps DEF backendVars
  <2>2. "erase" \in Closing /\ pc[t] \in Closing /\ running \in [Addresses -> Nat]
    BY <1>1 DEF Closing, TypeOK
  <2> HIDE DEF IInv
  <2> QED  BY <1>1, <1>2, <2>1, <2>2, IInvOnward DEF backendVars
<1>3. CASE Goto(t, "unload", using[t]) /\ UNCHANGED <<threadIsolates, attached>>
  <2>1. Isolates'
    BY <1>1, <1>3, Undisturbed DEF backendVars
  <2>2. "unload" \in Closing /\ pc[t] \in Closing /\ running \in [Addresses -> Nat]
        /\ threadIsolates \in [Threads -> SUBSET Entry] /\ attached \in [Addresses -> SUBSET Threads]
    BY <1>1 DEF Closing, TypeOK
  <2> HIDE DEF IInv
  <2> QED  BY <1>1, <1>3, <2>1, <2>2, IInvOnward DEF backendVars
<1> QED  BY <1>2, <1>3 DEF CloseThread

LEMMA IInvErase ==
  ASSUME IInv, NEW t \in Threads, Erase(t) PROVE IInv'
<1> USE DEF IInv
<1>1. /\ pc[t] = "erase" /\ using[t] \in Backends /\ Goto(t, "teardown", using[t])
      /\ detachThread' = detachThread \ {isolateId[using[t]]}
      /\ UNCHANGED <<backendVars, lastId, threadIsolates, threadEnded, running, attached>>
  BY DEF Erase, imageVars, TypeOK
<1>2. running[isolate[using[t]]] = isolateId[using[t]] /\ isolateId[using[t]] # 0
  BY <1>1 DEF Phases, Phase, Closing, Isolates, OpenIsRunning, StatusTells
<1>3. Isolates'
  BY <1>1 DEF Isolates, IdsGiven, IdsApart, EntriesAgree, OpenIsRunning, ExitDetachesOwn, backendVars
<1>4. \A c \in Backends \ {using[t]} :
        isolateId[c] \in detachThread => isolateId[c] \in detachThread'
  BY <1>1, <1>2 DEF Isolates, IdsApart
<1>5. /\ "teardown" \in Closing /\ pc[t] \in Closing /\ running \in [Addresses -> Nat]
      /\ threadIsolates \in [Threads -> SUBSET Entry] /\ attached \in [Addresses -> SUBSET Threads]
  BY <1>1 DEF Closing, TypeOK
<1> HIDE DEF IInv
<1> QED  BY <1>1, <1>2, <1>3, <1>4, <1>5, IInvOnward DEF backendVars

LEMMA IInvTearDown ==
  ASSUME IInv, NEW t \in Threads, TearDown(t) PROVE IInv'
<1> USE DEF IInv
<1> DEFINE b == using[t]
<1>1. /\ pc[t] = "teardown" /\ b \in Backends /\ Goto(t, "unload", b)
      /\ running' = [running EXCEPT ![isolate[b]] = 0]
      /\ attached' = [attached EXCEPT ![isolate[b]] = {}]
      /\ UNCHANGED <<backendVars, lastId, detachThread, threadIsolates, threadEnded>>
  BY DEF TearDown, TypeOK
<1>2. /\ isolateId[b] \notin detachThread /\ running[isolate[b]] = isolateId[b]
      /\ isolate[b] \in Addresses /\ isolateId[b] # 0
  BY <1>1 DEF Phases, Phase, Closing, StatusTells
<1>3. /\ running' \in [Addresses -> Nat] /\ attached' \in [Addresses -> SUBSET Threads]
      /\ \A a \in Addresses \ {isolate[b]} : running'[a] = running[a] /\ attached'[a] = attached[a]
  BY <1>1 DEF TypeOK
<1> HIDE DEF b
<1>4. \A c \in Backends \ {b} :
        isolateId[c] # 0 /\ isolate[c] \in Addresses /\ running[isolate[c]] = isolateId[c]
        => running'[isolate[c]] = isolateId[c]
  BY <1>1, <1>2, <1>3 DEF Isolates, IdsApart
<1>5. \A c \in Backends : isolateId[c] # 0 => isolate[c] \in Addresses
  BY DEF StatusTells, TypeOK
<1>6. Isolates'
  <2>1. \A i \in detachThread : i # 0
    BY DEF TypeOK
  <2>2. IdsGiven' /\ IdsApart' /\ EntriesAgree'
    BY <1>1 DEF Isolates, IdsGiven, IdsApart, EntriesAgree, backendVars
  <2>3. OpenIsRunning'
    BY <1>1, <1>2, <1>4, <2>1 DEF Isolates, OpenIsRunning, backendVars
  <2>4. ExitDetachesOwn'
    <3> SUFFICES ASSUME NEW u \in Threads, NEW e \in threadIsolates[u], e.id \in detachThread
                 PROVE  running'[e.address] = e.id /\ u \in attached'[e.address]
      BY <1>1 DEF ExitDetachesOwn
    <3>1. e.address \in Addresses /\ running[e.address] = e.id /\ u \in attached[e.address]
      BY DEF TypeOK, Entry, Isolates, ExitDetachesOwn
    <3>2. e.address # isolate[b]
      BY <1>2, <3>1
    <3> QED  BY <1>3, <3>1, <3>2
  <2> QED  BY <2>2, <2>3, <2>4 DEF Isolates
<1>7. "unload" \in Closing /\ pc[t] \in Closing /\ threadIsolates \in [Threads -> SUBSET Entry]
  BY <1>1 DEF Closing, TypeOK
<1> HIDE DEF IInv
<1> QED  BY <1>1, <1>3, <1>4, <1>5, <1>6, <1>7, IInvOnward DEF backendVars, b

LEMMA IInvUnload ==
  ASSUME IInv, NEW t \in Threads, Unload(t) PROVE IInv'
<1> USE DEF IInv
<1> DEFINE b == using[t]
<1>1. /\ pc[t] = "unload" /\ b \in Backends
      /\ isolateId' = [isolateId EXCEPT ![b] = 0] /\ isolate' = [isolate EXCEPT ![b] = Null]
      /\ libHandle' = libHandle \ {b} /\ status' = [status EXCEPT ![b] = "closed"]
      /\ UNCHANGED <<lastId, detachThread, threadIsolates, threadEnded, running, attached>>
  BY DEF Unload, imageVars, TypeOK
<1>2. /\ pc' \in [Threads -> {"idle", "init", "call", "release", "releasing", "close",
                              "erase", "teardown", "unload"}]
      /\ using' \in [Threads -> Backends] /\ pc'[t] = "idle" /\ using'[t] = b
      /\ \A u \in Threads \ {t} : pc'[u] = pc[u] /\ using'[u] = using[u]
  BY <1>1, Going DEF Unload
<1>3. TypeOK'
  BY <1>1, <1>2 DEF TypeOK
<1>4. /\ isolateId'[b] = 0 /\ isolate'[b] = Null /\ status'[b] = "closed"
      /\ \A c \in Backends \ {b} : /\ isolateId'[c] = isolateId[c] /\ isolate'[c] = isolate[c]
                                   /\ status'[c] = status[c]
  BY <1>1 DEF TypeOK
<1>5. status[b] = "closing"
  BY <1>1 DEF Phases, Phase, Closing
<1> HIDE DEF b
<1>6. /\ \A i \in detachThread : i # 0
      /\ \A u \in Threads : \A e \in threadIsolates[u] : e.id # 0
      /\ lastId \in Nat
  BY DEF TypeOK, Entry
<1>7. IdsGiven' /\ IdsApart' /\ EntriesAgree' /\ OpenIsRunning'
  BY <1>1, <1>4, <1>6 DEF Isolates, IdsGiven, IdsApart, EntriesAgree, OpenIsRunning
<1>8. ExitDetachesOwn'
  BY <1>1 DEF Isolates, ExitDetachesOwn
<1>9. StatusTells'
  BY <1>1, <1>4 DEF StatusTells
<1>10. Phases'
  <2> SUFFICES ASSUME NEW u \in Threads PROVE Phase(u)'
    BY DEF Phases
  <2>1. CASE u = t
    BY <1>2, <2>1 DEF Phase, Closing
  <2>2. CASE u # t
    <3>1. pc'[u] = pc[u] /\ using'[u] = using[u] /\ using[u] \in Backends /\ Phase(u)
      BY <1>2, <2>2 DEF TypeOK, Phases
    <3>2. pc[u] \in Closing => using[u] # b
      BY <1>1, <2>2 DEF Alone, b, Closing
    <3>3. pc[u] \in {"init", "call"} => using[u] # b
      BY <1>5, <3>1 DEF Phase
    <3> QED  BY <1>1, <1>4, <3>1, <3>2, <3>3 DEF Phase, Closing
  <2> QED  BY <2>1, <2>2
<1>11. Alone'
  BY <1>1, <1>2, AloneOn DEF Closing
<1> QED  BY <1>3, <1>7, <1>8, <1>9, <1>10, <1>11 DEF Isolates

\* ~ThreadExit: t remembers nothing anymore, and is detached where it was.
LEMMA IInvThreadExit ==
  ASSUME IInv, NEW t \in Threads, ThreadExit(t) PROVE IInv'
<1> USE DEF IInv
<1>1. /\ pc[t] = "idle" /\ threadEnded' = threadEnded \cup {t}
      /\ attached' = [a \in Addresses |->
           IF \E e \in threadIsolates[t] : e.id \in detachThread /\ e.address = a
           THEN attached[a] \ {t} ELSE attached[a]]
      /\ threadIsolates' = [threadIsolates EXCEPT ![t] = {}]
      /\ UNCHANGED <<isolate, isolateId, status, libHandle, lastId, detachThread, pc, using, running>>
  BY DEF ThreadExit, backendVars
<1>2. TypeOK'
  BY <1>1 DEF TypeOK
<1>3. /\ threadIsolates'[t] = {} /\ \A u \in Threads \ {t} : threadIsolates'[u] = threadIsolates[u]
      /\ \A a \in Addresses, u \in Threads \ {t} : u \in attached[a] => u \in attached'[a]
  BY <1>1 DEF TypeOK
<1>4. IdsGiven' /\ IdsApart' /\ EntriesAgree' /\ OpenIsRunning'
  BY <1>1, <1>3 DEF Isolates, IdsGiven, IdsApart, EntriesAgree, OpenIsRunning
<1>5. ExitDetachesOwn'
  <2>1. \A u \in Threads : \A e \in threadIsolates[u] : e.address \in Addresses
    BY DEF TypeOK, Entry
  <2> QED  BY <1>1, <1>3, <2>1 DEF Isolates, ExitDetachesOwn
<1>6. StatusTells' /\ Alone'
  BY <1>1 DEF StatusTells, Alone
<1>7. Phases'
  <2> SUFFICES ASSUME NEW u \in Threads PROVE Phase(u)'
    BY DEF Phases
  <2>1. CASE u = t
    BY <1>1, <2>1 DEF Phase, Closing
  <2>2. CASE u # t
    BY <1>1, <1>3, <2>2 DEF Phases, Phase
  <2> QED  BY <2>1, <2>2
<1> QED  BY <1>2, <1>4, <1>5, <1>6, <1>7 DEF Isolates

----------------------------------------------------------------------------
LEMMA IInvInit == Init => IInv
<1> SUFFICES ASSUME Init PROVE IInv
  OBVIOUS
<1>1. (CHOOSE b \in Backends : TRUE) \in Backends
  BY IsolateConstants
<1>2. TypeOK
  BY <1>1 DEF Init, TypeOK
<1>3. Isolates
  BY <1>2 DEF Init, TypeOK, Isolates, IdsGiven, IdsApart, EntriesAgree, OpenIsRunning,
              ExitDetachesOwn
<1>4. StatusTells /\ Phases /\ Alone
  BY <1>2 DEF Init, TypeOK, StatusTells, Phases, Phase, Alone, Closing
<1> QED  BY <1>2, <1>3, <1>4 DEF IInv

LEMMA IInvStep == IInv /\ [Next]_vars => IInv'
<1> SUFFICES ASSUME IInv, [Next]_vars PROVE IInv'
  OBVIOUS
<1>1. CASE UNCHANGED vars
  BY <1>1 DEF vars, IInv, TypeOK, Isolates, IdsGiven, IdsApart, EntriesAgree, OpenIsRunning,
              ExitDetachesOwn, StatusTells, Phases, Phase, Alone
<1>2. CASE Next
  <2>1. PICK t \in Threads :
          \/ \E b \in Backends :
               \/ OpenFails(t, b) \/ Call(t, b) \/ StartRelease(t, b) \/ Close(t, b)
               \/ \E a \in Addresses : Open(t, b, a)
          \/ CheckCodes(t) \/ Release(t) \/ Return(t)
          \/ CloseThread(t) \/ Erase(t) \/ TearDown(t) \/ Unload(t) \/ ThreadExit(t)
    BY <1>2 DEF Next
  <2> QED
    BY <2>1, IInvOpen, IInvOpenFails, IInvCheckCodes, IInvCall, IInvStartRelease, IInvRelease,
       IInvReturn, IInvClose, IInvCloseThread, IInvErase, IInvTearDown, IInvUnload, IInvThreadExit
<1> QED  BY <1>1, <1>2

(***************************************************************************)
(* What holds of every state, for any number of threads, isolates opened   *)
(* and addresses that come back.                                           *)
(***************************************************************************)
THEOREM Inductive == Spec => []IInv
BY IInvInit, IInvStep, PTL DEF Spec

\* The isolates, the backends and what the threads remember keep their types.
THEOREM TypeCorrect == Spec => []TypeOK
<1>1. IInv => TypeOK
  BY DEF IInv
<1> QED  BY <1>1, Inductive, PTL

\* A thread that ends detaches from isolates it is attached to, wherever they were created.
THEOREM OwnDetached == Spec => []ExitDetachesOwn
<1>1. IInv => ExitDetachesOwn
  BY DEF IInv, Isolates
<1> QED  BY <1>1, Inductive, PTL

\* A call, or a release by a backend that no one closes, is made in the running isolate of its
\* backend, by a thread attached to it.
THEOREM CallsInside == Spec => []CallsEnterRunning
<1>1. IInv => CallsEnterRunning
  <2> SUFFICES ASSUME IInv, NEW t \in Threads,
                      pc[t] = "call" \/ (pc[t] = "releasing" /\ status[using[t]] = "open")
               PROVE  LET b == using[t]
                      IN  /\ isolate[b] # Null /\ Loaded
                          /\ running[isolate[b]] = isolateId[b] /\ t \in attached[isolate[b]]
                          /\ [id |-> isolateId[b], address |-> isolate[b]] \in threadIsolates[t]
    BY DEF CallsEnterRunning
  <2>1. /\ using[t] \in Backends /\ status[using[t]] = "open"
        /\ [id |-> isolateId[using[t]], address |-> isolate[using[t]]] \in threadIsolates[t]
    BY DEF IInv, TypeOK, Phases, Phase
  <2>2. /\ isolate[using[t]] \in Addresses /\ using[t] \in libHandle
        /\ isolateId[using[t]] \in detachThread
    BY <2>1 DEF IInv, StatusTells
  <2>3. running[isolate[using[t]]] = isolateId[using[t]] /\ t \in attached[isolate[using[t]]]
    BY <2>1, <2>2 DEF IInv, Isolates, ExitDetachesOwn
  <2> QED  BY <2>1, <2>2, <2>3, IsolateConstants DEF Loaded
<1> QED  BY <1>1, Inductive, PTL

\* No thread stays attached to an open isolate that it has forgotten.
THEOREM NeverForgotten == Spec => RememberedUntilDetached
<1> DEFINE Detached == \A t \in Threads : \A e \in threadIsolates[t] \ threadIsolates'[t] :
                         e.id \in detachThread' => t \notin attached'[e.address]
<1>1. ASSUME IInv, NEW t \in Threads, NEW id \in Nat \ {0}, NEW a \in Addresses,
             Remember(t, id, a, detachThread')
      PROVE  Detached
  <2>1. /\ threadIsolates'[t] =
             {e \in threadIsolates[t] : e.id \in detachThread'} \cup {[id |-> id, address |-> a]}
        /\ \A u \in Threads \ {t} : threadIsolates'[u] = threadIsolates[u]
    BY <1>1, Remembering DEF IInv
  <2> QED  BY <2>1
<1>2. ASSUME IInv, NEW t \in Threads, NEW b \in Backends, Thread(t, b),
             UNCHANGED <<isolate, isolateId, lastId, detachThread>>
      PROVE  Detached
  <2>1. isolate[b] # Null => isolate[b] \in Addresses /\ isolateId[b] \in Nat \ {0}
    BY <1>2 DEF IInv, StatusTells, TypeOK
  <2> QED  BY <1>1, <1>2, <2>1 DEF Thread
<1>3. ASSUME IInv, NEW t \in Threads, NEW b \in Backends, NEW a \in Addresses, Open(t, b, a)
      PROVE  Detached
  <2>1. lastId' \in Nat \ {0} /\ Remember(t, lastId', a, detachThread')
    BY <1>3 DEF Open, IInv, TypeOK
  <2> QED  BY <1>1, <1>3, <2>1
<1>4. ASSUME IInv, NEW t \in Threads, ThreadExit(t) PROVE Detached
  <2>1. /\ \A u \in Threads \ {t} : threadIsolates'[u] = threadIsolates[u]
        /\ \A e \in threadIsolates[t] : e.address \in Addresses
        /\ detachThread' = detachThread
    BY <1>4 DEF ThreadExit, IInv, TypeOK, Entry
  <2>2. \A e \in threadIsolates[t] : e.id \in detachThread => t \notin attached'[e.address]
    BY <1>4, <2>1 DEF ThreadExit
  <2> QED  BY <2>1, <2>2
<1>5. ASSUME IInv, NEW t \in Threads,
             Release(t) \/ CloseThread(t) \/ \E b \in Backends : Call(t, b)
      PROVE  Detached
  <2>1. using[t] \in Backends
    BY <1>5 DEF IInv, TypeOK
  <2>2. \/ threadIsolates' = threadIsolates
        \/ \E b \in Backends :
             Thread(t, b) /\ UNCHANGED <<isolate, isolateId, lastId, detachThread>>
    BY <1>5, <2>1 DEF Release, CloseThread, Call, backendVars
  <2> QED  BY <1>2, <1>5, <2>2
<1>6. ASSUME IInv, [Next]_vars PROVE Detached
  <2>1. CASE threadIsolates' = threadIsolates
    BY <2>1
  <2>2. CASE \E t \in Threads :
               \/ Release(t) \/ CloseThread(t) \/ \E b \in Backends : Call(t, b)
               \/ ThreadExit(t)
               \/ \E b \in Backends, a \in Addresses : Open(t, b, a)
    BY <1>3, <1>4, <1>5, <1>6, <2>2
  <2> QED
    BY <1>6, <2>1, <2>2
       DEF Next, vars, OpenFails, StartRelease, Close, CheckCodes, Return, Erase, TearDown, Unload
<1>7. IInv /\ [Next]_vars => [Detached]_vars
  BY <1>6
<1> QED  BY <1>7, Inductive, PTL DEF Spec, RememberedUntilDetached
=============================================================================
