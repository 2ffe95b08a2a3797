------------------------------ MODULE SharedSlice ------------------------------
(***************************************************************************)
(* What a slice is to callers who lock it for their nodes, without offsets, *)
(* objects, managers or policies: who holds an address in it and for which  *)
(* node, and the node that it is locked for.  One caller at a time takes an *)
(* address, if there is room and its node may, or gives one up; the last    *)
(* one takes the lock along.                                                *)
(*                                                                         *)
(* Walk assumes no more of each slice of a subnet, and SliceClients, where  *)
(* a slice is an object behind an API server, keeps it.                     *)
(***************************************************************************)
CONSTANTS Names, Nodes, None,
          Crowds   \* the sets of names that there are addresses for

VARIABLES holders,  \* a function from the names that hold an address to their nodes
          lock

Init == holders = [n \in {} |-> None] /\ lock = None

\* A holder may take again: a retry of what was already done.
Take(n, node) ==
    /\ n \in DOMAIN holders => holders[n] = node
    /\ DOMAIN holders \cup {n} \in Crowds
    /\ lock \in {None, node}
    /\ node # None => \A m \in DOMAIN holders : holders[m] = node
    /\ holders' = [m \in DOMAIN holders \cup {n} |-> IF m = n THEN node ELSE holders[m]]
    /\ lock' = node

Give(n) ==
    /\ holders' = [m \in DOMAIN holders \ {n} |-> holders[m]]
    /\ lock' = IF DOMAIN holders' = {} THEN None ELSE lock

Next ==
    \/ \E n \in Names, node \in Nodes \cup {None} : Take(n, node)
    \/ \E n \in DOMAIN holders : Give(n)

Spec == Init /\ [][Next]_<<holders, lock>>
=============================================================================
