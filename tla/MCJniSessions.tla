--------------------------- MODULE MCJniSessions ---------------------------
(***************************************************************************)
(* JniSessions on a small instance.                                        *)
(***************************************************************************)
EXTENDS JniSessions, TLC

Interchangeable ==
  Permutations(Threads) \cup Permutations(Backends) \cup Permutations(Networks)
============================================================================
