-------------------------------- MODULE MCWalk --------------------------------
(* Small instances of Walk for TLC. *)
EXTENDS Walk

CONSTANTS w1, w2, w3, n1, n2

NoNode == [w \in Walkers |-> None]

\* Two callers on n1, the third with no node.
OneNode == [w \in Walkers |-> IF w = w3 THEN None ELSE n1]

\* Two callers on n1, the others on n2.
TwoNodes == [w \in Walkers |-> IF w = w3 THEN n2 ELSE n1]

\* Both nodes prefer the same slice.
SamePreferred == [n \in Nodes |-> 0]
=============================================================================
