---------------------------- MODULE BridgeErrors ----------------------------
(***************************************************************************)
(* How a Java failure becomes a C++ exception: BridgeErrors.java classifies *)
(* the Java exception, BridgeErrors.cpp throws the C++ one.  A failure is  *)
(* the name of its Java class.                                             *)
(***************************************************************************)
EXTENDS Naturals

JavaExceptions ==
  {"InvalidHandleException", "PropertyNotFoundException", "NetworkNotFoundException",
   "ClassCastException", "NullPointerException", "PowsyblException",
   "IllegalArgumentException", "IllegalStateException",
   "UnsupportedOperationException", "OutOfMemoryError"}

\* The subclasses that matter to the classification.
Extends ==
  {<<"InvalidHandleException", "IllegalArgumentException">>,
   <<"PropertyNotFoundException", "IllegalArgumentException">>,
   <<"NetworkNotFoundException", "IllegalStateException">>}

IsInstance(failure, classes) ==
  \E c \in classes : failure = c \/ <<failure, c>> \in Extends

OK                 == 0
GENERIC            == 1
INVALID_HANDLE     == 2
PROPERTY_NOT_FOUND == 3
VALIDATION         == 4
NETWORK_NOT_FOUND  == 5

\* The first class of the chain that fits.
KindOf(failure) ==
  IF IsInstance(failure, {"InvalidHandleException"}) THEN INVALID_HANDLE
  ELSE IF IsInstance(failure, {"PropertyNotFoundException", "ClassCastException",
                               "NullPointerException"}) THEN PROPERTY_NOT_FOUND
  ELSE IF IsInstance(failure, {"NetworkNotFoundException"}) THEN NETWORK_NOT_FOUND
  ELSE IF IsInstance(failure, {"PowsyblException", "IllegalArgumentException",
             "IllegalStateException", "UnsupportedOperationException"}) THEN VALIDATION
  ELSE GENERIC

\* throwBridgeError: the C++ exception of a kind.
Thrown(kind) ==
  IF kind = INVALID_HANDLE THEN "InvalidHandleException"
  ELSE IF kind = PROPERTY_NOT_FOUND THEN "PropertyNotFoundException"
  ELSE IF kind = VALIDATION THEN "ValidationException"
  ELSE IF kind = NETWORK_NOT_FOUND THEN "NetworkNotFoundException"
  ELSE "IidmException"

=============================================================================
