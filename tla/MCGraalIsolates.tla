-------------------------- MODULE MCGraalIsolates --------------------------
(***************************************************************************)
(* GraalIsolates on a small instance.                                      *)
(***************************************************************************)
EXTENDS GraalIsolates, TLC

Interchangeable == Permutations(Threads) \cup Permutations(Addresses)
============================================================================
