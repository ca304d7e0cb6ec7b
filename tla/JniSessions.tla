---------------------------- MODULE JniSessions ----------------------------
(***************************************************************************)
(* The backends of the networks of a JVM (src/jni/JNIBackend.cpp), the     *)
(* Java registry through which they get them (IidmBridgeRegistry.java),    *)
(* and the attachment of C++ threads to the JVM.                           *)
(*                                                                         *)
(* A call into Java is one step.  The registry is shared by all backends   *)
(* and by the Java program, which registers and unregisters networks of    *)
(* its own at any time, attaches threads and destroys the JVM.             *)
(***************************************************************************)
EXTENDS FiniteSets

CONSTANTS
  Threads,
  Backends,     \* JNIBackend objects, each opened once
  Ids,          \* ids of the registry
  DefaultId,
  JavaIds,      \* those the Java program registers under
  Networks,     \* the Java networks that can be made
  None

ASSUME SessionConstants ==
  /\ DefaultId \in Ids /\ JavaIds \subseteq Ids
  /\ None \notin Networks /\ Backends # {}

VARIABLES
  jvm,          \* "running" or "destroyed": createdJavaVM()
  attachment,   \* of each thread to it: "none", "ours" (env) or "host"
  toDetach,     \* the threads whose jvmAttachment is set
  threadEnded,  \* those whose JvmAttachment has been destroyed
  taken,        \* history: those the backend attached and the host detached
  registry,     \* IidmBridgeRegistry.networks
  made,         \* the Java networks made so far
  status,       \* of each backend: "none", "opening", "open", "closed"
  networkId,    \* networkId_
  networkRef,   \* the network behind networkRef_
  globalRefs,   \* the global references to networks the JVM has for each
  loaded,       \* history: the network each backend's load made
  lost,         \* history: references that a failed attachment left behind
  pc, using     \* what each thread is doing, on which backend

threadVars == <<jvm, attachment, toDetach, threadEnded, taken>>
vars == <<jvm, attachment, toDetach, threadEnded, taken, registry, made, status,
          networkId, networkRef, globalRefs, loaded, lost, pc, using>>

Init ==
  /\ jvm         = "running"
  /\ attachment  = [t \in Threads |-> "none"]
  /\ toDetach    = {}
  /\ threadEnded = {}
  /\ taken       = {}
  /\ registry    = [i \in Ids |-> None]
  /\ made        = {}
  /\ status      = [b \in Backends |-> "none"]
  /\ networkId   = [b \in Backends |-> DefaultId]
  /\ networkRef  = [b \in Backends |-> None]
  /\ globalRefs  = [b \in Backends |-> {}]
  /\ loaded      = [b \in Backends |-> None]
  /\ lost        = {}
  /\ pc          = [t \in Threads |-> "idle"]
  /\ using       = [t \in Threads |-> CHOOSE b \in Backends : TRUE]

Goto(t, where, b) ==
  /\ pc' = [pc EXCEPT ![t] = where]
  /\ using' = [using EXCEPT ![t] = b]

\* Defect: records the threads that others attached too.
EnvRecordsAll(t) ==
  /\ jvm = "running"
  /\ attachment' = [attachment EXCEPT ![t] = IF @ = "none" THEN "ours" ELSE @]
  /\ toDetach' = IF t \notin threadEnded THEN toDetach \cup {t} ELSE toDetach
  /\ UNCHANGED <<jvm, threadEnded, taken>>

\* Defect: the attachment is not recorded.
EnvRecordsNothing(t) ==
  /\ jvm = "running"
  /\ attachment' = [attachment EXCEPT ![t] = IF @ = "none" THEN "ours" ELSE @]
  /\ UNCHANGED <<jvm, threadEnded, toDetach, taken>>

\* env(): attaches the thread to the JVM if it is not yet.
Env(t) ==
  /\ jvm = "running"
  /\ attachment' = [attachment EXCEPT ![t] = IF @ = "none" THEN "ours" ELSE @]
  /\ toDetach' = IF attachment[t] = "none" /\ t \notin threadEnded
                 THEN toDetach \cup {t} ELSE toDetach
  /\ UNCHANGED <<jvm, threadEnded, taken>>

\* env() throws: the JVM is destroyed, or does not attach the thread.
EnvFails(t) ==
  /\ attachment[t] = "none"
  /\ UNCHANGED threadVars

\* Defect: the reference held before stays.
BindOver(b, n) ==
  /\ networkRef' = [networkRef EXCEPT ![b] = n]
  /\ globalRefs' = [globalRefs EXCEPT ![b] = @ \cup ({n} \ {None})]

\* Defect: a reference to no network is held like any other.
BindNull(b, n) ==
  /\ networkRef' = [networkRef EXCEPT ![b] = n]
  /\ globalRefs' = [globalRefs EXCEPT ![b] = (@ \ {networkRef[b]}) \cup {n}]

\* A new global reference to n, in place of the one held before: none when the
\* constructor binds; when closing n is None.
Bind(b, n) ==
  /\ networkRef' = [networkRef EXCEPT ![b] = n]
  /\ globalRefs' = [globalRefs EXCEPT ![b] = (@ \ {networkRef[b]}) \cup ({n} \ {None})]

\* The destructor of a backend that never became a Network's, env at hand.
Discard(b) ==
  /\ status' = [status EXCEPT ![b] = "closed"]
  /\ Bind(b, None)

----------------------------------------------------------------------------
\* The constructor: binds the network registered under the id, if any.  That
\* is all NetworkFactory::wrap needs, and it throws when there is none.
Open(t, b, i, wrap) ==
  /\ pc[t] = "idle" /\ status[b] = "none"
  /\ Env(t)
  /\ networkId' = [networkId EXCEPT ![b] = i]
  /\ IF wrap /\ registry[i] = None
     THEN Discard(b) /\ Goto(t, "idle", b)
     ELSE /\ Bind(b, registry[i])
          /\ status' = [status EXCEPT ![b] = IF wrap THEN "open" ELSE "opening"]
          /\ Goto(t, IF wrap THEN "idle" ELSE "load", b)
  /\ UNCHANGED <<registry, made, loaded, lost>>

\* A class is missing, or its property codes differ: the constructor throws
\* before it binds a network.
OpenFails(t, b) ==
  /\ pc[t] = "idle" /\ status[b] = "none"
  /\ Env(t)
  /\ status' = [status EXCEPT ![b] = "closed"]
  /\ UNCHANGED <<registry, made, networkId, networkRef, globalRefs, loaded,
                 lost, pc, using>>

\* loadNetworkBytes, createNetwork: Java makes a network and registers it.
Load(t, n) ==
  LET b == using[t]
  IN  /\ pc[t] = "load" /\ jvm = "running"
      /\ n \notin made
      /\ made' = made \cup {n}
      /\ registry' = [registry EXCEPT ![networkId[b]] = n]
      /\ loaded' = [loaded EXCEPT ![b] = n]
      /\ Goto(t, "rebind", b)
      /\ UNCHANGED <<threadVars, status, networkId, networkRef, globalRefs, lost>>

\* The bytes are no network: the load throws, and the backend goes with it.
LoadFails(t) ==
  /\ pc[t] = "load" /\ jvm = "running"
  /\ Discard(using[t])
  /\ Goto(t, "idle", using[t])
  /\ UNCHANGED <<threadVars, registry, made, networkId, loaded, lost>>

\* Defect: gets the network of the default id.
RebindDefault(t) ==
  LET b == using[t]
      n == registry[DefaultId]
  IN  /\ pc[t] = "rebind" /\ jvm = "running"
      /\ IF n = None THEN Discard(b)
         ELSE Bind(b, n) /\ status' = [status EXCEPT ![b] = "open"]
      /\ Goto(t, "idle", b)
      /\ UNCHANGED <<threadVars, registry, made, networkId, loaded, lost>>

\* rebindNetwork: gets from the registry what the load put there.
Rebind(t) ==
  LET b == using[t]
      n == registry[networkId[b]]
  IN  /\ pc[t] = "rebind" /\ jvm = "running"
      /\ IF n = None THEN Discard(b)
         ELSE Bind(b, n) /\ status' = [status EXCEPT ![b] = "open"]
      /\ Goto(t, "idle", b)
      /\ UNCHANGED <<threadVars, registry, made, networkId, loaded, lost>>

\* Any other operation only needs the thread attached.
Call(t, b) ==
  /\ pc[t] = "idle" /\ status[b] = "open"
  /\ Env(t)
  /\ UNCHANGED <<registry, made, status, networkId, networkRef, globalRefs,
                 loaded, lost, pc, using>>

\* close(): gives its reference up, unless the thread cannot be attached.  The
\* registry keeps the network.
Close(t, b) ==
  /\ pc[t] = "idle" /\ status[b] = "open"
  /\ \/ Env(t) /\ Bind(b, None) /\ UNCHANGED lost
     \/ /\ EnvFails(t)
        /\ networkRef' = [networkRef EXCEPT ![b] = None]
        /\ lost' = lost \cup {<<b, networkRef[b]>>}
        /\ UNCHANGED globalRefs
  /\ status' = [status EXCEPT ![b] = "closed"]
  /\ UNCHANGED <<registry, made, networkId, loaded, pc, using>>

\* ~JvmAttachment: detaches from the JVM if the backend attached the thread,
\* which may use networks after that, from the destructors still to run.
ThreadExit(t) ==
  /\ pc[t] = "idle" /\ t \notin threadEnded
  /\ threadEnded' = threadEnded \cup {t}
  /\ attachment' = IF t \in toDetach /\ jvm = "running"
                   THEN [attachment EXCEPT ![t] = "none"] ELSE attachment
  /\ UNCHANGED <<jvm, toDetach, taken, registry, made, status, networkId, networkRef,
                 globalRefs, loaded, lost, pc, using>>

----------------------------------------------------------------------------
\* The Java program: register, unregister (clear is that of each id).
Register(i, n) ==
  /\ jvm = "running" /\ n \notin made
  /\ made' = made \cup {n}
  /\ registry' = [registry EXCEPT ![i] = n]
  /\ UNCHANGED <<threadVars, status, networkId, networkRef, globalRefs, loaded,
                 lost, pc, using>>

Unregister(i) ==
  /\ jvm = "running" /\ registry[i] # None
  /\ registry' = [registry EXCEPT ![i] = None]
  /\ UNCHANGED <<threadVars, made, status, networkId, networkRef, globalRefs,
                 loaded, lost, pc, using>>

\* The host program attaches threads of its own, and detaches any: what the
\* backend recorded of the thread stays.
HostAttach(t) ==
  /\ jvm = "running" /\ pc[t] = "idle" /\ attachment[t] = "none"
  /\ attachment' = [attachment EXCEPT ![t] = "host"]
  /\ UNCHANGED <<jvm, toDetach, threadEnded, taken, registry, made, status,
                 networkId, networkRef, globalRefs, loaded, lost, pc, using>>

HostDetach(t) ==
  /\ jvm = "running" /\ pc[t] = "idle" /\ attachment[t] # "none"
  /\ attachment' = [attachment EXCEPT ![t] = "none"]
  /\ taken' = IF attachment[t] = "ours" THEN taken \cup {t} ELSE taken
  /\ UNCHANGED <<jvm, toDetach, threadEnded, registry, made, status, networkId,
                 networkRef, globalRefs, loaded, lost, pc, using>>

\* Destroys the JVM, once no thread is in a load; networks may be left.
DestroyJvm ==
  /\ jvm = "running" /\ \A t \in Threads : pc[t] = "idle"
  /\ jvm' = "destroyed"
  /\ attachment' = [t \in Threads |-> "none"]
  /\ globalRefs' = [b \in Backends |-> {}]
  /\ registry' = [i \in Ids |-> None]
  /\ UNCHANGED <<toDetach, threadEnded, taken, made, status, networkId, networkRef,
                 loaded, lost, pc, using>>

Next ==
  \/ \E t \in Threads :
       \/ \E b \in Backends, i \in Ids, wrap \in BOOLEAN : Open(t, b, i, wrap)
       \/ \E n \in Networks : Load(t, n)
       \/ LoadFails(t) \/ Rebind(t)
       \/ \E b \in Backends : OpenFails(t, b) \/ Call(t, b) \/ Close(t, b)
       \/ ThreadExit(t) \/ HostAttach(t) \/ HostDetach(t)
  \/ \E i \in JavaIds : Unregister(i) \/ \E n \in Networks : Register(i, n)
  \/ DestroyJvm

Spec == Init /\ [][Next]_vars

----------------------------------------------------------------------------
TypeOK ==
  /\ jvm \in {"running", "destroyed"}
  /\ attachment \in [Threads -> {"none", "ours", "host"}]
  /\ toDetach \subseteq Threads /\ threadEnded \subseteq Threads
  /\ taken \subseteq Threads
  /\ registry \in [Ids -> Networks \cup {None}]
  /\ made \subseteq Networks
  /\ status \in [Backends -> {"none", "opening", "open", "closed"}]
  /\ networkId \in [Backends -> Ids]
  /\ networkRef \in [Backends -> Networks \cup {None}]
  /\ globalRefs \in [Backends -> SUBSET Networks]
  /\ loaded \in [Backends -> Networks \cup {None}]
  /\ lost \subseteq Backends \X Networks
  /\ pc \in [Threads -> {"idle", "load", "rebind"}]
  /\ using \in [Threads -> Backends]

\* A running JVM has exactly the references to networks that backends hold,
\* but those of a close that could not attach its thread: a load replaces the
\* reference bound before it, and a backend that fails to open leaves none.
OneReferenceEach ==
  jvm = "running" => \A b \in Backends :
    {n \in globalRefs[b] : <<b, n>> \notin lost} = {networkRef[b]} \ {None}

\* A network loaded under an id that nobody else uses is the one its backend
\* is bound to, whatever is loaded, registered and closed under other ids.
OwnIdOwnNetwork ==
  \A b \in Backends :
    status[b] = "open" /\ loaded[b] # None /\ networkId[b] \notin JavaIds
    /\ (\A c \in Backends \ {b} : status[c] = "none" \/ networkId[c] # networkId[b])
    => networkRef[b] = loaded[b]

\* The threads attached by others stay as they are (JNIBackend.cpp:23): only the
\* host program, or the end of the JVM, detaches them.  Not those that the host
\* took from the backend: their jvmAttachment is still set (line 65), and ends
\* the attachment that the host may have given them since.
HostThreadsStay ==
  [][\A t \in Threads \ taken : attachment[t] = "host" /\ attachment'[t] # "host" =>
       HostDetach(t) \/ DestroyJvm]_vars

\* A thread that the backend attached is detached when it ends.
EndedThreadsDetached ==
  [][\A t \in threadEnded' \ threadEnded : jvm = "running" => attachment'[t] # "ours"]_vars

\* The network a load makes becomes the backend's network (comments on
\* createNetwork in BackendProvider.h and in rebindNetwork).
LoadedNetworkBound ==
  \A b \in Backends : status[b] = "open" /\ loaded[b] # None => networkRef[b] = loaded[b]
============================================================================
