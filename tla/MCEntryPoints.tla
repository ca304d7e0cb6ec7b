--------------------------- MODULE MCEntryPoints ---------------------------
(***************************************************************************)
(* EntryPoints on a small instance.                                        *)
(***************************************************************************)
EXTENDS EntryPoints, TLC

Interchangeable == Permutations(Threads)
=============================================================================
