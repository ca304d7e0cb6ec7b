------------------------- MODULE MCNetworkLifetime -------------------------
(***************************************************************************)
(* NetworkLifetime on a small instance.                                    *)
(***************************************************************************)
EXTENDS NetworkLifetime, TLC

Interchangeable ==
  Permutations(Nets) \cup Permutations(Wrappers) \cup Permutations(Backends)
============================================================================
