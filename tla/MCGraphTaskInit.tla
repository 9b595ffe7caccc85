--------------------------- MODULE MCGraphTaskInit ---------------------------
(***************************************************************************)
(* Every graph of a leaf and three functions with one or two outputs each, *)
(* repeated edges and edges that are not valid (0) included.               *)
(***************************************************************************)
EXTENDS GraphTaskInit

CONSTANT MaxOutputs

EdgeLists(n) == BoundedSeq(0 .. n - 1, MaxOutputs) \ {<<>>}

AllGraphs == {<<<<>>, x, y, z>> : x \in EdgeLists(2), y \in EdgeLists(3), z \in EdgeLists(4)}

MCNode == 1 .. 4
==============================================================================
