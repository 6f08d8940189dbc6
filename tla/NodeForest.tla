----------------------------- MODULE NodeForest -----------------------------
(***************************************************************************)
(* The folder hierarchy as the recursive queries of internal/nodes see it. *)
(* A row of the nodes table points at its parent; the queries walk that    *)
(* pointer upwards (ancestors) or backwards (subtree).  The walks are      *)
(* written here as least sets closed under the pointer, which is what a    *)
(* recursive common table expression computes.                             *)
(***************************************************************************)
CONSTANTS
    Nodes,      \* identifiers of node rows
    NoNode      \* the NULL parent

ASSUME NoNodeAssumption == NoNode \notin Nodes

\* The sets of nodes that contain the parent of each of their members.
ClosedUpward(up) == {S \in SUBSET Nodes : \A m \in S : up[m] \in S \cup {NoNode}}

\* The nodes met walking from n to the root, n included.
Chain(up, n) ==
    LET closed == {S \in ClosedUpward(up) : n \in S}
    IN  {m \in Nodes : \A S \in closed : m \in S}

\* The nodes whose chain meets n: n and everything below it.
Subtree(up, n) == {m \in Nodes : n \in Chain(up, m)}

\* The part of m's chain that lies below n, m included and n excluded.
Below(up, n, m) == (Chain(up, m) \cap Subtree(up, n)) \ {n}
=============================================================================
