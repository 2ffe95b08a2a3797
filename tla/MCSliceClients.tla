---------------------------- MODULE MCSliceClients ----------------------------
(* Small instances of SliceClients for TLC. *)
EXTENDS SliceClients

CONSTANTS p1, p2, p3, n1, n2, c1, c2, c3

NoWindows == {}
FirstWindow == {[offset |-> 0, length |-> 1]}
NoDeviceName == [d \in {} |-> p1]

OwnNames == [c \in Clients |-> CASE c = c1 -> p1 [] c = c2 -> p2 [] c = c3 -> p3]
SharedNames == [c \in Clients |-> CASE c = c1 -> p1 [] c = c2 -> p1 [] c = c3 -> p2]

PlainEntries == [c \in Clients |-> Named(None)]
NoLocks == [c \in Clients |-> None]

\* c1 locks the slice for n1; c2 runs on n1 and does not lock; c3 locks for n2.
NodeEntries == [c \in Clients |-> Named(IF c = c3 THEN n2 ELSE n1)]
WindowEntries == [NodeEntries EXCEPT ![c1].window = [offset |-> 0, length |-> 1]]
NodeLocks == [c \in Clients |-> CASE c = c1 -> n1 [] c = c2 -> None [] c = c3 -> n2]
\* All lock; c1 and c2 of n1 lock the slice together.
AllLocks == [c \in Clients |-> IF c = c3 THEN n2 ELSE n1]

\* All that the steps of ClientsLate and the two specifications it checks depend on: not
\* what a caller was told, nor the ghost.  (No read is served from the cache there.)
LateView == <<db, call, attempt, late,
              [c \in Clients |-> IF caller[c].status = "holding" THEN caller[c].addr ELSE None]>>
=============================================================================
