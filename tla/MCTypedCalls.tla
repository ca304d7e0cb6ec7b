---------------------------- MODULE MCTypedCalls ----------------------------
(***************************************************************************)
(* TypedCalls has no constants: every class and every kind is in it.       *)
(***************************************************************************)
EXTENDS TypedCalls

\* A lineage is complete: no class of it has a base that is not in it.
ASSUME LineageComplete == \A class \in Classes : Up(Lineage[class]) = Lineage[class]
=============================================================================
