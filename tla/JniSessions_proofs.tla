------------------------- MODULE JniSessions_proofs -------------------------
(***************************************************************************)
(* Proofs about JniSessions, for any threads, backends, ids and networks.  *)
(***************************************************************************)
EXTENDS JniSessions, TLAPS

(***************************************************************************)
(* The inductive invariant.                                                *)
(***************************************************************************)

\* While the JVM runs, the threads that the backend attached are those it will detach, but for
\* those that the host detached itself.
OursRecorded ==
  jvm = "running" => \A t \in Threads \ threadEnded :
    /\ attachment[t] = "ours" => t \in toDetach
    /\ t \in toDetach \ taken => attachment[t] = "ours"

\* An open backend has a network, one not opened yet or closed has none.
Bound ==
  \A b \in Backends :
    /\ status[b] = "open" => networkRef[b] # None
    /\ status[b] \in {"none", "closed"} => networkRef[b] = None
    /\ status[b] = "none" => loaded[b] = None

\* A backend is loaded into by one thread, while it opens.
Loading ==
  /\ \A t \in Threads : pc[t] \in {"load", "rebind"} => status[using[t]] = "opening"
  /\ \A t, u \in Threads :
       pc[t] \in {"load", "rebind"} /\ pc[u] \in {"load", "rebind"} /\ using[t] = using[u] => t = u

\* Only a close leaves a reference behind.
LostByClose == \A b \in Backends, n \in Networks : <<b, n>> \in lost => status[b] = "closed"

\* Neither the Java program nor another backend uses the id of b.
OwnId(b) ==
  /\ networkId[b] \notin JavaIds
  /\ \A c \in Backends \ {b} : status[c] = "none" \/ networkId[c] # networkId[b]

\* What was loaded under an id of one's own is still registered when it is got back.
OwnRegistered ==
  \A t \in Threads : pc[t] = "rebind" /\ OwnId(using[t]) =>
    registry[networkId[using[t]]] = loaded[using[t]]

IInv ==
  /\ TypeOK /\ OursRecorded /\ Bound /\ Loading /\ LostByClose
  /\ OneReferenceEach /\ OwnRegistered /\ OwnIdOwnNetwork

----------------------------------------------------------------------------
LEMMA EnvKeeps ==
  ASSUME TypeOK, OursRecorded, NEW t \in Threads, Env(t)
  PROVE  /\ attachment' \in [Threads -> {"none", "ours", "host"}] /\ toDetach' \subseteq Threads
         /\ jvm = "running" /\ jvm' = jvm /\ threadEnded' = threadEnded /\ taken' = taken
         /\ OursRecorded'
         /\ \A u \in Threads : attachment[u] = "host" => attachment'[u] = "host"
<1>1. /\ attachment' = [attachment EXCEPT ![t] = IF @ = "none" THEN "ours" ELSE @]
      /\ jvm = "running" /\ jvm' = jvm /\ threadEnded' = threadEnded /\ taken' = taken
      /\ toDetach' = IF attachment[t] = "none" /\ t \notin threadEnded
                     THEN toDetach \cup {t} ELSE toDetach
  BY DEF Env
<1>2. attachment' \in [Threads -> {"none", "ours", "host"}] /\ toDetach' \subseteq Threads
  BY <1>1 DEF TypeOK
<1>3. /\ attachment'[t] = IF attachment[t] = "none" THEN "ours" ELSE attachment[t]
      /\ \A u \in Threads \ {t} : attachment'[u] = attachment[u]
  BY <1>1 DEF TypeOK
<1>4. OursRecorded'
  BY <1>1, <1>3 DEF OursRecorded
<1> QED  BY <1>1, <1>2, <1>3, <1>4

\* Binding b, not closed yet, to n: a reference takes the place of the one before.
LEMMA Binding ==
  ASSUME IInv, NEW b \in Backends, NEW n \in Networks \cup {None},
         NEW s \in {"opening", "open", "closed"},
         Bind(b, n), status' = [status EXCEPT ![b] = s], status[b] # "closed",
         s = "open" => n # None, s = "closed" => n = None,
         UNCHANGED <<jvm, lost>>, \A c \in Backends \ {b} : loaded'[c] = loaded[c]
  PROVE  /\ networkRef' \in [Backends -> Networks \cup {None}]
         /\ globalRefs' \in [Backends -> SUBSET Networks]
         /\ status' \in [Backends -> {"none", "opening", "open", "closed"}]
         /\ networkRef'[b] = n /\ \A c \in Backends \ {b} : networkRef'[c] = networkRef[c]
         /\ status'[b] = s /\ \A c \in Backends \ {b} : status'[c] = status[c]
         /\ Bound' /\ LostByClose' /\ OneReferenceEach'
<1> USE DEF IInv
<1>1. /\ networkRef' = [networkRef EXCEPT ![b] = n]
      /\ globalRefs' = [globalRefs EXCEPT ![b] = (@ \ {networkRef[b]}) \cup ({n} \ {None})]
  BY DEF Bind
<1>2. /\ networkRef' \in [Backends -> Networks \cup {None}]
      /\ globalRefs' \in [Backends -> SUBSET Networks]
      /\ status' \in [Backends -> {"none", "opening", "open", "closed"}]
  BY <1>1 DEF TypeOK
<1>3. /\ networkRef'[b] = n /\ \A c \in Backends \ {b} : networkRef'[c] = networkRef[c]
      /\ status'[b] = s /\ \A c \in Backends \ {b} : status'[c] = status[c]
      /\ globalRefs'[b] = (globalRefs[b] \ {networkRef[b]}) \cup ({n} \ {None})
      /\ \A c \in Backends \ {b} : globalRefs'[c] = globalRefs[c]
  BY <1>1 DEF TypeOK
<1>4. Bound'
  BY <1>3 DEF Bound
<1>5. LostByClose'
  BY <1>3 DEF LostByClose
<1>6. OneReferenceEach'
  <2> SUFFICES ASSUME jvm = "running", NEW c \in Backends
               PROVE  {m \in globalRefs'[c] : <<c, m>> \notin lost} = {networkRef'[c]} \ {None}
    BY DEF OneReferenceEach
  <2>1. {m \in globalRefs[c] : <<c, m>> \notin lost} = {networkRef[c]} \ {None}
    BY DEF OneReferenceEach
  <2>2. CASE c = b
    <3>1. \A m \in Networks : <<b, m>> \notin lost
      BY DEF LostByClose
    <3>2. globalRefs[b] \subseteq Networks /\ globalRefs'[b] \subseteq Networks
      BY <1>2 DEF TypeOK
    <3>3. globalRefs[b] = {networkRef[b]} \ {None}
      BY <2>1, <2>2, <3>1, <3>2
    <3>4. globalRefs'[b] = {n} \ {None}
      BY <1>3, <3>2, <3>3, SessionConstants
    <3> QED  BY <1>3, <2>2, <3>1, <3>2, <3>4
  <2>3. CASE c # b
    BY <1>3, <2>1, <2>3
  <2> QED  BY <2>2, <2>3
<1> QED  BY <1>2, <1>3, <1>4, <1>5, <1>6

----------------------------------------------------------------------------
(***************************************************************************)
(* The backends.                                                           *)
(***************************************************************************)
LEMMA IInvOpen ==
  ASSUME IInv, NEW t \in Threads, NEW b \in Backends, NEW i \in Ids, NEW wrap \in BOOLEAN,
         Open(t, b, i, wrap)
  PROVE  IInv'
<1> USE DEF IInv
<1>1. PICK n \in Networks \cup {None}, s \in {"opening", "open", "closed"} :
        /\ Bind(b, n) /\ status' = [status EXCEPT ![b] = s]
        /\ s = "open" => n # None
        /\ s = "closed" => n = None
        /\ Goto(t, IF s = "opening" THEN "load" ELSE "idle", b)
  <2>1. registry[i] \in Networks \cup {None}
    BY DEF TypeOK
  <2>2. CASE wrap /\ registry[i] = None
    <3>1. Bind(b, None) /\ status' = [status EXCEPT ![b] = "closed"] /\ Goto(t, "idle", b)
      BY <2>2 DEF Open, Discard
    <3> QED  BY <3>1
  <2>3. CASE wrap /\ registry[i] # None
    <3>1. Bind(b, registry[i]) /\ status' = [status EXCEPT ![b] = "open"] /\ Goto(t, "idle", b)
      BY <2>3 DEF Open
    <3> QED  BY <2>1, <2>3, <3>1
  <2>4. CASE ~wrap
    <3>1. Bind(b, registry[i]) /\ status' = [status EXCEPT ![b] = "opening"] /\ Goto(t, "load", b)
      BY <2>4 DEF Open
    <3> QED  BY <2>1, <3>1
  <2> QED  BY <2>2, <2>3, <2>4
<1>2. /\ pc[t] = "idle" /\ status[b] = "none" /\ Env(t)
      /\ networkId' = [networkId EXCEPT ![b] = i]
      /\ UNCHANGED <<registry, made, loaded, lost>>
  BY DEF Open
<1>3. /\ attachment' \in [Threads -> {"none", "ours", "host"}] /\ toDetach' \subseteq Threads
      /\ jvm' = jvm /\ threadEnded' = threadEnded /\ taken' = taken /\ OursRecorded'
  BY <1>2, EnvKeeps
<1>4. /\ networkRef' \in [Backends -> Networks \cup {None}]
      /\ globalRefs' \in [Backends -> SUBSET Networks]
      /\ status' \in [Backends -> {"none", "opening", "open", "closed"}]
      /\ networkRef'[b] = n /\ \A c \in Backends \ {b} : networkRef'[c] = networkRef[c]
      /\ status'[b] = s /\ \A c \in Backends \ {b} : status'[c] = status[c]
      /\ Bound' /\ LostByClose' /\ OneReferenceEach'
  <2> HIDE DEF IInv
  <2> QED  BY <1>1, <1>2, <1>3, Binding
<1>5. /\ pc' = [pc EXCEPT ![t] = IF s = "opening" THEN "load" ELSE "idle"]
      /\ using' = [using EXCEPT ![t] = b]
  BY <1>1 DEF Goto
<1>6. TypeOK'
  BY <1>2, <1>3, <1>4, <1>5 DEF TypeOK
<1>7. /\ pc'[t] = IF s = "opening" THEN "load" ELSE "idle"
      /\ using'[t] = b
      /\ \A u \in Threads \ {t} : pc'[u] = pc[u] /\ using'[u] = using[u] /\ using[u] \in Backends
      /\ networkId'[b] = i /\ \A c \in Backends \ {b} : networkId'[c] = networkId[c]
  BY <1>2, <1>5 DEF TypeOK
<1>8. \A u \in Threads \ {t} : pc[u] \in {"load", "rebind"} => using[u] # b
  BY <1>2 DEF Loading
<1>9. Loading'
  BY <1>4, <1>7, <1>8 DEF Loading
<1>10. \A c \in Backends \ {b} : OwnId(c)' => OwnId(c)
  BY <1>2, <1>4, <1>7 DEF OwnId
<1>11. OwnRegistered'
  BY <1>2, <1>7, <1>8, <1>10 DEF OwnRegistered
<1>12. OwnIdOwnNetwork'
  <2> SUFFICES ASSUME NEW c \in Backends, status'[c] = "open", loaded'[c] # None, OwnId(c)'
               PROVE  networkRef'[c] = loaded'[c]
    BY DEF OwnIdOwnNetwork, OwnId
  <2>1. c # b
    BY <1>2 DEF Bound
  <2> QED  BY <1>2, <1>4, <1>10, <2>1 DEF OwnIdOwnNetwork, OwnId
<1> QED  BY <1>3, <1>4, <1>6, <1>9, <1>11, <1>12

LEMMA IInvOpenFails ==
  ASSUME IInv, NEW t \in Threads, NEW b \in Backends, OpenFails(t, b) PROVE IInv'
<1> USE DEF IInv
<1>1. /\ status[b] = "none" /\ Env(t) /\ status' = [status EXCEPT ![b] = "closed"]
      /\ UNCHANGED <<registry, made, networkId, networkRef, globalRefs, loaded, lost, pc, using>>
  BY DEF OpenFails
<1>2. /\ attachment' \in [Threads -> {"none", "ours", "host"}] /\ toDetach' \subseteq Threads
      /\ jvm' = jvm /\ threadEnded' = threadEnded /\ taken' = taken /\ OursRecorded'
  BY <1>1, EnvKeeps
<1>3. status'[b] = "closed" /\ \A c \in Backends \ {b} : status'[c] = status[c]
  BY <1>1 DEF TypeOK
<1>4. TypeOK'
  BY <1>1, <1>2 DEF TypeOK
<1>5. Bound' /\ LostByClose' /\ OneReferenceEach'
  BY <1>1, <1>2, <1>3 DEF Bound, LostByClose, OneReferenceEach
<1>6. \A u \in Threads : pc[u] \in {"load", "rebind"} => using[u] \in Backends /\ using[u] # b
  BY <1>1 DEF Loading, TypeOK
<1>7. Loading'
  BY <1>1, <1>3, <1>6 DEF Loading
<1>8. \A c \in Backends \ {b} : OwnId(c)' => OwnId(c)
  BY <1>1, <1>3 DEF OwnId
<1>9. OwnRegistered'
  BY <1>1, <1>6, <1>8 DEF OwnRegistered
<1>10. OwnIdOwnNetwork'
  <2> SUFFICES ASSUME NEW c \in Backends, status'[c] = "open", loaded'[c] # None, OwnId(c)'
               PROVE  networkRef'[c] = loaded'[c]
    BY DEF OwnIdOwnNetwork, OwnId
  <2> QED  BY <1>1, <1>3, <1>8 DEF OwnIdOwnNetwork, OwnId
<1> QED  BY <1>2, <1>4, <1>5, <1>7, <1>9, <1>10

\* Java makes a network, and registers it under the id of the backend.
LEMMA IInvLoad ==
  ASSUME IInv, NEW t \in Threads, NEW n \in Networks, Load(t, n) PROVE IInv'
<1> USE DEF IInv
<1> DEFINE b == using[t]
<1>1. /\ pc[t] = "load" /\ b \in Backends
      /\ made' = made \cup {n} /\ registry' = [registry EXCEPT ![networkId[b]] = n]
      /\ loaded' = [loaded EXCEPT ![b] = n] /\ Goto(t, "rebind", b)
      /\ UNCHANGED <<jvm, attachment, toDetach, threadEnded, taken, status, networkId, networkRef,
                     globalRefs, lost>>
  BY DEF Load, threadVars, TypeOK
<1>2. pc' = [pc EXCEPT ![t] = "rebind"] /\ using' = [using EXCEPT ![t] = b]
  BY <1>1 DEF Goto
<1>3. status[b] = "opening" /\ networkId[b] \in Ids
  BY <1>1 DEF Loading, TypeOK
<1>4. TypeOK'
  BY <1>1, <1>2, <1>3 DEF TypeOK
<1>5. /\ pc'[t] = "rebind" /\ using'[t] = b
      /\ \A u \in Threads \ {t} : pc'[u] = pc[u] /\ using'[u] = using[u]
      /\ \A u \in Threads : using[u] \in Backends
      /\ loaded'[b] = n /\ \A c \in Backends \ {b} : loaded'[c] = loaded[c]
      /\ registry'[networkId[b]] = n
      /\ \A i \in Ids \ {networkId[b]} : registry'[i] = registry[i]
      /\ \A c \in Backends : networkId[c] \in Ids
  BY <1>1, <1>2, <1>3 DEF TypeOK
<1>6. \A u \in Threads \ {t} : pc[u] \in {"load", "rebind"} => using[u] # b
  BY <1>1 DEF Loading
<1> HIDE DEF b
<1>7. OursRecorded' /\ LostByClose' /\ OneReferenceEach'
  BY <1>1 DEF OursRecorded, LostByClose, OneReferenceEach
<1>8. Bound'
  BY <1>1, <1>3, <1>5 DEF Bound
<1>9. Loading'
  BY <1>1, <1>3, <1>5, <1>6 DEF Loading
<1>10. \A c \in Backends : OwnId(c)' <=> OwnId(c)
  BY <1>1 DEF OwnId
<1>11. OwnRegistered'
  <2> SUFFICES ASSUME NEW u \in Threads, pc'[u] = "rebind", OwnId(using[u])'
               PROVE  registry'[networkId'[using'[u]]] = loaded'[using'[u]]
    BY DEF OwnRegistered
  <2>1. CASE u = t
    BY <1>1, <1>5, <2>1
  <2>2. CASE u # t
    <3>1. using'[u] = using[u] /\ using[u] \in Backends /\ pc[u] = "rebind" /\ using[u] # b
      BY <1>5, <1>6, <2>2
    <3>2. OwnId(using[u])
      BY <1>1, <3>1 DEF OwnId
    <3>3. networkId[using[u]] # networkId[b]
      BY <1>1, <1>3, <3>1, <3>2 DEF OwnId
    <3> QED  BY <1>1, <1>5, <3>1, <3>2, <3>3 DEF OwnRegistered
  <2> QED  BY <2>1, <2>2
<1>12. OwnIdOwnNetwork'
  <2> SUFFICES ASSUME NEW c \in Backends, status'[c] = "open", loaded'[c] # None, OwnId(c)'
               PROVE  networkRef'[c] = loaded'[c]
    BY DEF OwnIdOwnNetwork, OwnId
  <2> QED  BY <1>1, <1>3, <1>5, <1>10 DEF OwnIdOwnNetwork, OwnId
<1> QED  BY <1>4, <1>7, <1>8, <1>9, <1>11, <1>12

\* The end of a load: the backend is bound to what it got, or discarded.
LEMMA IInvLoadEnds ==
  ASSUME IInv, NEW t \in Threads, pc[t] \in {"load", "rebind"}, Goto(t, "idle", using[t]),
         NEW n \in Networks \cup {None}, NEW s \in {"open", "closed"},
         Bind(using[t], n), status' = [status EXCEPT ![using[t]] = s],
         s = "open" => n # None /\ (OwnId(using[t]) => n = loaded[using[t]]),
         s = "closed" => n = None,
         UNCHANGED <<threadVars, registry, made, networkId, loaded, lost>>
  PROVE  IInv'
<1> USE DEF IInv, threadVars
<1> DEFINE b == using[t]
<1>1. b \in Backends /\ status[b] = "opening"
  BY DEF TypeOK, Loading
<1>2. /\ networkRef' \in [Backends -> Networks \cup {None}]
      /\ globalRefs' \in [Backends -> SUBSET Networks]
      /\ status' \in [Backends -> {"none", "opening", "open", "closed"}]
      /\ networkRef'[b] = n /\ \A c \in Backends \ {b} : networkRef'[c] = networkRef[c]
      /\ status'[b] = s /\ \A c \in Backends \ {b} : status'[c] = status[c]
      /\ Bound' /\ LostByClose' /\ OneReferenceEach'
  <2> HIDE DEF IInv
  <2> QED  BY <1>1, Binding
<1>3. pc' = [pc EXCEPT ![t] = "idle"] /\ using' = [using EXCEPT ![t] = b]
  BY DEF Goto
<1>4. TypeOK'
  BY <1>1, <1>2, <1>3 DEF TypeOK
<1>5. /\ pc'[t] = "idle"
      /\ \A u \in Threads \ {t} : pc'[u] = pc[u] /\ using'[u] = using[u] /\ using[u] \in Backends
  BY <1>3 DEF TypeOK
<1>6. \A u \in Threads \ {t} : pc[u] \in {"load", "rebind"} => using[u] # b
  BY DEF Loading
<1>7. OursRecorded'
  BY DEF OursRecorded
<1>8. \A c \in Backends : OwnId(c)' => OwnId(c)
  BY <1>1, <1>2 DEF OwnId
<1>9. n = None \/ (OwnId(b) => n = loaded[b])
  OBVIOUS
<1> HIDE DEF b
<1>10. Loading'
  BY <1>2, <1>5, <1>6 DEF Loading
<1>11. OwnRegistered'
  BY <1>5, <1>8 DEF OwnRegistered
<1>12. OwnIdOwnNetwork'
  <2> SUFFICES ASSUME NEW c \in Backends, status'[c] = "open", loaded'[c] # None, OwnId(c)'
               PROVE  networkRef'[c] = loaded'[c]
    BY DEF OwnIdOwnNetwork, OwnId
  <2>1. CASE c = b
    BY <1>2, <1>8, <1>9, <2>1
  <2>2. CASE c # b
    BY <1>2, <1>8, <2>2 DEF OwnIdOwnNetwork, OwnId
  <2> QED  BY <2>1, <2>2
<1> QED  BY <1>2, <1>4, <1>7, <1>10, <1>11, <1>12

LEMMA IInvLoadFails ==
  ASSUME IInv, NEW t \in Threads, LoadFails(t) PROVE IInv'
BY IInvLoadEnds DEF LoadFails, Discard

LEMMA IInvRebind ==
  ASSUME IInv, NEW t \in Threads, Rebind(t) PROVE IInv'
<1> DEFINE n == registry[networkId[using[t]]]
<1>1. n \in Networks \cup {None} /\ pc[t] = "rebind"
  BY DEF IInv, TypeOK, Rebind
<1>2. OwnId(using[t]) => n = loaded[using[t]]
  BY <1>1 DEF IInv, OwnRegistered
<1>3. CASE n = None
  BY <1>1, <1>3, IInvLoadEnds DEF Rebind, Discard
<1>4. CASE n # None
  <2>1. /\ Bind(using[t], n) /\ status' = [status EXCEPT ![using[t]] = "open"]
        /\ Goto(t, "idle", using[t])
        /\ UNCHANGED <<threadVars, registry, made, networkId, loaded, lost>>
    BY <1>4 DEF Rebind
  <2> HIDE DEF n
  <2> QED  BY <1>1, <1>2, <1>4, <2>1, IInvLoadEnds
<1> QED  BY <1>3, <1>4

\* What disturbs no backend: the sessions stay as they are.
LEMMA Undisturbed ==
  ASSUME IInv, UNCHANGED <<registry, made, status, networkId, networkRef, globalRefs, loaded,
                           lost, pc, using>>, jvm' = jvm
  PROVE  Bound' /\ Loading' /\ LostByClose' /\ OneReferenceEach' /\ OwnRegistered' /\ OwnIdOwnNetwork'
BY DEF IInv, Bound, Loading, LostByClose, OneReferenceEach, OwnRegistered, OwnIdOwnNetwork, OwnId

LEMMA IInvCall ==
  ASSUME IInv, NEW t \in Threads, NEW b \in Backends, Call(t, b) PROVE IInv'
<1>1. /\ Env(t) /\ UNCHANGED <<registry, made, status, networkId, networkRef, globalRefs, loaded,
                               lost, pc, using>>
  BY DEF Call
<1>2. /\ attachment' \in [Threads -> {"none", "ours", "host"}] /\ toDetach' \subseteq Threads
      /\ jvm' = jvm /\ threadEnded' = threadEnded /\ taken' = taken /\ OursRecorded'
  BY <1>1, EnvKeeps DEF IInv
<1>3. TypeOK'
  BY <1>1, <1>2 DEF IInv, TypeOK
<1> QED  BY <1>1, <1>2, <1>3, Undisturbed DEF IInv

LEMMA IInvClose ==
  ASSUME IInv, NEW t \in Threads, NEW b \in Backends, Close(t, b) PROVE IInv'
<1> USE DEF IInv
<1>1. /\ status[b] = "open" /\ status' = [status EXCEPT ![b] = "closed"]
      /\ UNCHANGED <<registry, made, networkId, loaded, pc, using>>
  BY DEF Close
<1>2. /\ attachment' \in [Threads -> {"none", "ours", "host"}] /\ toDetach' \subseteq Threads
      /\ jvm' = jvm /\ threadEnded' = threadEnded /\ taken' = taken /\ OursRecorded'
  <2>1. CASE Env(t)
    BY <2>1, EnvKeeps
  <2>2. CASE UNCHANGED threadVars
    BY <2>2 DEF threadVars, TypeOK, OursRecorded
  <2> QED  BY <2>1, <2>2 DEF Close, EnvFails
<1>3. status'[b] = "closed" /\ \A c \in Backends \ {b} : status'[c] = status[c]
  BY <1>1 DEF TypeOK
<1>4. /\ networkRef' \in [Backends -> Networks \cup {None}]
      /\ globalRefs' \in [Backends -> SUBSET Networks] /\ lost' \subseteq Backends \X Networks
      /\ status' \in [Backends -> {"none", "opening", "open", "closed"}]
      /\ \A c \in Backends \ {b} : networkRef'[c] = networkRef[c]
      /\ Bound' /\ LostByClose' /\ OneReferenceEach'
  <2>1. CASE Env(t) /\ Bind(b, None) /\ UNCHANGED lost
    <3>1. /\ networkRef' \in [Backends -> Networks \cup {None}]
          /\ globalRefs' \in [Backends -> SUBSET Networks]
          /\ status' \in [Backends -> {"none", "opening", "open", "closed"}]
          /\ \A c \in Backends \ {b} : networkRef'[c] = networkRef[c]
          /\ Bound' /\ LostByClose' /\ OneReferenceEach'
      <4> HIDE DEF IInv
      <4> QED  BY <1>1, <1>2, <2>1, Binding
    <3> QED  BY <2>1, <3>1 DEF TypeOK
  <2>2. CASE /\ networkRef' = [networkRef EXCEPT ![b] = None]
             /\ lost' = lost \cup {<<b, networkRef[b]>>} /\ UNCHANGED globalRefs
    <3>1. /\ networkRef[b] \in Networks
          /\ networkRef' \in [Backends -> Networks \cup {None}]
          /\ globalRefs' \in [Backends -> SUBSET Networks]
          /\ status' \in [Backends -> {"none", "opening", "open", "closed"}]
      BY <1>1, <2>2 DEF TypeOK, Bound
    <3>2. lost' \subseteq Backends \X Networks
      BY <2>2, <3>1 DEF TypeOK
    <3>3. networkRef'[b] = None /\ \A c \in Backends \ {b} : networkRef'[c] = networkRef[c]
      BY <2>2 DEF TypeOK
    <3>4. Bound'
      BY <1>1, <1>3, <3>3 DEF Bound
    <3>5. LostByClose'
      BY <1>3, <2>2 DEF LostByClose
    <3>6. OneReferenceEach'
      <4> SUFFICES ASSUME jvm = "running", NEW c \in Backends
                   PROVE  {m \in globalRefs[c] : <<c, m>> \notin lost'} = {networkRef'[c]} \ {None}
        BY <1>2, <2>2 DEF OneReferenceEach
      <4>1. {m \in globalRefs[c] : <<c, m>> \notin lost} = {networkRef[c]} \ {None}
        BY DEF OneReferenceEach
      <4>2. CASE c = b
        <5>1. \A m \in globalRefs[b] : <<b, m>> \notin lost => m = networkRef[b]
          BY <4>1, <4>2
        <5>2. \A m \in globalRefs[b] : <<b, m>> \in lost'
          BY <2>2, <5>1
        <5> QED  BY <3>3, <4>2, <5>2
      <4>3. CASE c # b
        <5>1. \A m : <<c, m>> \in lost' <=> <<c, m>> \in lost
          BY <2>2, <4>3
        <5> QED  BY <3>3, <4>1, <4>3, <5>1
      <4> QED  BY <4>2, <4>3
    <3> QED  BY <3>1, <3>2, <3>3, <3>4, <3>5, <3>6
  <2> QED  BY <2>1, <2>2 DEF Close
<1>5. TypeOK'
  BY <1>1, <1>2, <1>4 DEF TypeOK
<1>6. Loading'
  BY <1>1, <1>3 DEF Loading, TypeOK
<1>7. \A c \in Backends : OwnId(c)' => OwnId(c)
  BY <1>1, <1>3 DEF OwnId
<1>8. OwnRegistered'
  BY <1>1, <1>7 DEF OwnRegistered, TypeOK
<1>9. OwnIdOwnNetwork'
  <2> SUFFICES ASSUME NEW c \in Backends, status'[c] = "open", loaded'[c] # None, OwnId(c)'
               PROVE  networkRef'[c] = loaded'[c]
    BY DEF OwnIdOwnNetwork, OwnId
  <2> QED  BY <1>1, <1>3, <1>4, <1>7 DEF OwnIdOwnNetwork, OwnId
<1> QED  BY <1>2, <1>4, <1>5, <1>6, <1>8, <1>9

----------------------------------------------------------------------------
(***************************************************************************)
(* The threads, the Java program and the JVM.                              *)
(***************************************************************************)
LEMMA IInvThreads ==
  ASSUME IInv, NEW t \in Threads, ThreadExit(t) \/ HostAttach(t) \/ HostDetach(t) PROVE IInv'
<1> USE DEF IInv
<1>1. /\ jvm' = jvm
      /\ UNCHANGED <<registry, made, status, networkId, networkRef, globalRefs, loaded, lost,
                     pc, using>>
  BY DEF ThreadExit, HostAttach, HostDetach
<1>2. attachment' \in [Threads -> {"none", "ours", "host"}] /\ toDetach' \subseteq Threads
      /\ threadEnded' \subseteq Threads /\ taken' \subseteq Threads
  BY DEF ThreadExit, HostAttach, HostDetach, TypeOK
<1>3. TypeOK'
  BY <1>1, <1>2 DEF TypeOK
<1>4. \A u \in Threads \ {t} :
        /\ attachment'[u] = attachment[u] /\ (u \in threadEnded' <=> u \in threadEnded)
        /\ u \in taken' <=> u \in taken
  BY DEF ThreadExit, HostAttach, HostDetach, TypeOK
<1>5. toDetach' = toDetach
  BY DEF ThreadExit, HostAttach, HostDetach
<1>6. \/ t \in threadEnded'
      \/ /\ attachment[t] # "ours" \/ t \in taken'
         /\ attachment'[t] # "ours" /\ threadEnded' = threadEnded /\ taken \subseteq taken'
  BY DEF ThreadExit, HostAttach, HostDetach, TypeOK
<1>7. OursRecorded'
  BY <1>1, <1>4, <1>5, <1>6 DEF OursRecorded
<1> QED  BY <1>1, <1>3, <1>7, Undisturbed

\* The Java program uses its own ids.
LEMMA IInvJava ==
  ASSUME IInv, NEW i \in JavaIds, Unregister(i) \/ \E n \in Networks : Register(i, n) PROVE IInv'
<1> USE DEF IInv
<1>1. UNCHANGED <<jvm, attachment, toDetach, threadEnded, taken, status, networkId, networkRef,
                  globalRefs, loaded, lost, pc, using>>
  BY DEF Unregister, Register, threadVars
<1>2. registry' \in [Ids -> Networks \cup {None}] /\ made' \subseteq Networks
  BY SessionConstants DEF Unregister, Register, TypeOK
<1>3. TypeOK'
  BY <1>1, <1>2 DEF TypeOK
<1>4. \A j \in Ids \ {i} : registry'[j] = registry[j]
  BY SessionConstants DEF Unregister, Register, TypeOK
<1>5. OursRecorded' /\ Bound' /\ Loading' /\ LostByClose' /\ OneReferenceEach' /\ OwnIdOwnNetwork'
  BY <1>1 DEF OursRecorded, Bound, Loading, LostByClose, OneReferenceEach, OwnIdOwnNetwork
<1>6. OwnRegistered'
  BY <1>1, <1>4 DEF OwnRegistered, OwnId, TypeOK
<1> QED  BY <1>3, <1>5, <1>6

LEMMA IInvDestroyJvm == ASSUME IInv, DestroyJvm PROVE IInv'
<1> USE DEF IInv
<1>1. /\ jvm' = "destroyed" /\ \A t \in Threads : pc[t] = "idle"
      /\ attachment' = [t \in Threads |-> "none"] /\ globalRefs' = [b \in Backends |-> {}]
      /\ registry' = [i \in Ids |-> None]
      /\ UNCHANGED <<toDetach, threadEnded, taken, made, status, networkId, networkRef,
                     loaded, lost, pc, using>>
  BY DEF DestroyJvm
<1>2. TypeOK'
  BY <1>1 DEF TypeOK
<1>3. OursRecorded' /\ OneReferenceEach' /\ OwnRegistered'
  BY <1>1 DEF OursRecorded, OneReferenceEach, OwnRegistered
<1>4. Bound' /\ Loading' /\ LostByClose' /\ OwnIdOwnNetwork'
  BY <1>1 DEF Bound, Loading, LostByClose, OwnIdOwnNetwork
<1> QED  BY <1>2, <1>3, <1>4

----------------------------------------------------------------------------
LEMMA IInvInit == Init => IInv
<1> SUFFICES ASSUME Init PROVE IInv
  OBVIOUS
<1>1. (CHOOSE b \in Backends : TRUE) \in Backends
  BY SessionConstants
<1>2. TypeOK
  BY <1>1, SessionConstants DEF Init, TypeOK
<1>3. OursRecorded /\ Bound /\ Loading /\ LostByClose /\ OwnRegistered /\ OwnIdOwnNetwork
  BY DEF Init, OursRecorded, Bound, Loading, LostByClose, OwnRegistered, OwnIdOwnNetwork
<1>4. OneReferenceEach
  BY DEF Init, OneReferenceEach
<1> QED  BY <1>2, <1>3, <1>4 DEF IInv

LEMMA IInvStep == IInv /\ [Next]_vars => IInv'
<1> SUFFICES ASSUME IInv, [Next]_vars PROVE IInv'
  OBVIOUS
<1>1. CASE UNCHANGED vars
  <2>1. TypeOK' /\ OursRecorded'
    BY <1>1 DEF vars, IInv, TypeOK, OursRecorded
  <2> QED  BY <1>1, <2>1, Undisturbed DEF vars, IInv
<1>2. CASE Next
  BY <1>2, IInvOpen, IInvOpenFails, IInvLoad, IInvLoadFails, IInvRebind, IInvCall, IInvClose,
     IInvThreads, IInvJava, IInvDestroyJvm DEF Next
<1> QED  BY <1>1, <1>2

(***************************************************************************)
(* What holds of every state, for any number of threads, backends and      *)
(* networks, loaded and registered in any order.                           *)
(***************************************************************************)
THEOREM Inductive == Spec => []IInv
BY IInvInit, IInvStep, PTL DEF Spec

\* The JVM, its registry and the backends keep their types.
THEOREM TypeCorrect == Spec => []TypeOK
<1>1. IInv => TypeOK
  BY DEF IInv
<1> QED  BY <1>1, Inductive, PTL

\* A backend has one global reference to the network it is bound to, and to no other one.
THEOREM ReferencesCounted == Spec => []OneReferenceEach
<1>1. IInv => OneReferenceEach
  BY DEF IInv
<1> QED  BY <1>1, Inductive, PTL

\* A load under an id of its own binds the network that it made.
THEOREM LoadsApart == Spec => []OwnIdOwnNetwork
<1>1. IInv => OwnIdOwnNetwork
  BY DEF IInv
<1> QED  BY <1>1, Inductive, PTL

\* No call, close or end of a thread detaches a thread that the host program attached, unless
\* the backend had attached it before and the host had detached it.
THEOREM HostsStay == Spec => HostThreadsStay
<1> DEFINE Stay == \A t \in Threads \ taken : attachment[t] = "host" /\ attachment'[t] # "host" =>
                     HostDetach(t) \/ DestroyJvm
<1>1. ASSUME IInv, [Next]_vars, NEW t \in Threads \ taken, attachment[t] = "host", attachment'[t] # "host"
      PROVE  HostDetach(t) \/ DestroyJvm
  <2>1. ASSUME NEW u \in Threads, Env(u) PROVE FALSE
    BY <1>1, <2>1, EnvKeeps DEF IInv
  <2>2. ASSUME NEW u \in Threads, ThreadExit(u) PROVE FALSE
    <3>1. u = t /\ t \in toDetach /\ jvm = "running" /\ t \notin threadEnded
      BY <1>1, <2>2 DEF ThreadExit, IInv, TypeOK
    <3> QED  BY <1>1, <3>1 DEF IInv, OursRecorded
  <2>3. ASSUME NEW u \in Threads, HostAttach(u) \/ HostDetach(u) PROVE HostDetach(t)
    BY <1>1, <2>3 DEF HostAttach, HostDetach, IInv, TypeOK
  <2>4. attachment' # attachment
    BY <1>1
  <2> QED
    BY <1>1, <2>1, <2>2, <2>3, <2>4
       DEF Next, vars, threadVars, Open, Load, LoadFails, Rebind, OpenFails, Call, Close, EnvFails,
           Register, Unregister
<1>2. IInv /\ [Next]_vars => [Stay]_vars
  BY <1>1
<1> QED  BY <1>2, Inductive, PTL DEF Spec, HostThreadsStay

\* A thread that the backend attached to the JVM does not stay attached when it ends.
THEOREM EndedDetached == Spec => EndedThreadsDetached
<1> DEFINE Detached ==
      \A t \in threadEnded' \ threadEnded : jvm = "running" => attachment'[t] # "ours"
<1>1. ASSUME IInv, [Next]_vars, NEW t \in threadEnded' \ threadEnded, jvm = "running"
      PROVE  attachment'[t] # "ours"
  <2>1. t \in Threads /\ ThreadExit(t)
    BY <1>1 DEF Next, vars, threadVars, Env, EnvFails, Open, Load, LoadFails, Rebind, OpenFails,
                Call, Close, ThreadExit, HostAttach, HostDetach, Register, Unregister, DestroyJvm
  <2>2. CASE t \in toDetach
    BY <1>1, <2>1, <2>2 DEF ThreadExit, IInv, TypeOK
  <2>3. CASE t \notin toDetach
    BY <1>1, <2>1, <2>3 DEF ThreadExit, IInv, OursRecorded
  <2> QED  BY <2>2, <2>3
<1>2. IInv /\ [Next]_vars => [Detached]_vars
  BY <1>1
<1> QED  BY <1>2, Inductive, PTL DEF Spec, EndedThreadsDetached
=============================================================================
