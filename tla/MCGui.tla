------------------------------- MODULE MCGui -------------------------------
(* Two applications whose view ports are in one layer or in two.           *)
EXTENDS Gui

CONSTANTS a1, a2

OneLayer == [a \in Apps |-> "Fullscreen"]
TwoLayers == [a \in Apps |-> IF a = a1 THEN "Fullscreen" ELSE "Main"]

(* With OneLayer nothing tells the applications apart, nor the publishers. *)
Symmetric == Permutations(Apps) \union Permutations(Publishers)
=============================================================================
