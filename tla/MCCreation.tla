----------------------------- MODULE MCCreation -----------------------------
(* Creation on a small instance, whose handles, adders, sides and           *)
(* coordinates are interchangeable: nothing in Creation orders them.        *)
EXTENDS Creation, TLC

Symmetric == {h @@ s @@ c : h \in Permutations(Handles), s \in Permutations(Slots),
                            c \in Permutations(Coordinates)}
=============================================================================
