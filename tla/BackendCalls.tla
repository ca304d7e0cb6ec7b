---------------------------- MODULE BackendCalls ----------------------------
(***************************************************************************)
(* What a call of a backend promises to the thread that makes it, without  *)
(* registries, buffers or statuses: it returns the objects Java gave it,   *)
(* behind handles that nothing else uses, or it raises the C++ exception   *)
(* documented for the failure that Java met during this very call.         *)
(* EntryPoints implements this module.                                     *)
(***************************************************************************)
EXTENDS Naturals

CONSTANTS Threads, Handles, JavaExceptions, None

VARIABLES
  held,     \* handles that C++ has and has not given back
  calling,  \* the threads in a call
  answer,   \* what Java answered to the call of each thread, NoAnswer before
  outcome   \* what the last call of each thread gave to C++

vars == <<held, calling, answer, outcome>>

\* The exceptions of README.md's table, for the Java ones.
Documented(failure) ==
  IF failure \in {"InvalidHandleException", "NetworkNotFoundException"} THEN failure
  ELSE IF failure \in {"PropertyNotFoundException", "ClassCastException", "NullPointerException"}
    THEN "PropertyNotFoundException"
  ELSE IF failure \in {"PowsyblException", "IllegalArgumentException", "IllegalStateException",
                       "UnsupportedOperationException"} THEN "ValidationException"
  ELSE "IidmException"

NoAnswer        == [objects |-> {}, failure |-> None, final |-> FALSE]
Objects(hs)     == [objects |-> hs, failure |-> None, final |-> TRUE]
Failure(e)      == [objects |-> {}, failure |-> e, final |-> TRUE]

\* An outcome: the objects returned, or the exception raised and whose message it has.
Nothing           == [objects |-> {}, raised |-> None, message |-> None]
Returned(hs)      == [objects |-> hs, raised |-> None, message |-> None]
Raised(e, m)      == [objects |-> {}, raised |-> Documented(e), message |-> m]

Promised == held \cup UNION {answer[t].objects : t \in Threads}

Init ==
  /\ held = {}
  /\ calling = {}
  /\ answer = [t \in Threads |-> NoAnswer]
  /\ outcome = [t \in Threads |-> Nothing]

Call(t) ==
  /\ t \notin calling
  /\ calling' = calling \cup {t}
  /\ outcome' = [outcome EXCEPT ![t] = Nothing]
  /\ UNCHANGED <<held, answer>>

\* Java answers: with new handles, or a failure.
Answer(t) ==
  /\ t \in calling
  /\ ~answer[t].final
  /\ \/ \E hs \in SUBSET (Handles \ Promised) :
          answer' = [answer EXCEPT ![t] = Objects(hs)]
     \/ \E e \in JavaExceptions : answer' = [answer EXCEPT ![t] = Failure(e)]
  /\ UNCHANGED <<held, calling, outcome>>

\* The message may be missing when there is no memory for it.
Return(t) ==
  /\ t \in calling
  /\ answer[t].final
  /\ \/ /\ answer[t].failure = None
        /\ outcome' = [outcome EXCEPT ![t] = Returned(answer[t].objects)]
     \/ /\ answer[t].failure # None
        /\ \E m \in {answer[t].failure, None} :
             outcome' = [outcome EXCEPT ![t] = Raised(answer[t].failure, m)]
  /\ held' = held \cup answer[t].objects
  /\ calling' = calling \ {t}
  /\ answer' = [answer EXCEPT ![t] = NoAnswer]

\* The last wrapper of a handle is destroyed.
Release(h) ==
  /\ h \in held
  /\ held' = held \ {h}
  /\ UNCHANGED <<calling, answer, outcome>>

Next ==
  \/ \E t \in Threads : Call(t) \/ Answer(t) \/ Return(t)
  \/ \E h \in Handles : Release(h)

Spec == Init /\ [][Next]_vars
=============================================================================
