-------------------------- MODULE MCHandleTracker --------------------------
(***************************************************************************)
(* HandleTracker on a small instance.                                      *)
(***************************************************************************)
EXTENDS HandleTracker

\* Bounds: one address at a time with a reference of another backend, one failed
\* release.  Each address is followed by itself, whatever became of the others.
FewForeign == Cardinality(foreign) <= 1
FewLeaked == Cardinality(leaked) <= 1
============================================================================
