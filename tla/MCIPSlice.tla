------------------------------ MODULE MCIPSlice ------------------------------
(* Small instances of IPSlice for TLC. *)
EXTENDS IPSlice

CONSTANTS p1, p2, p3, n1, n2, d1

Window(o, l) == [offset |-> o, length |-> l]

\* Two windows that overlap, one beside them, and one that is misaligned.
MCWindows == {Window(0, 2), Window(1, 1), Window(2, 2), Window(1, 2)}

NoWindows == {}

\* No status, and one that claims offset 0 for p1 under an all-ones bitmap.
MCStatuses == {None, [allocation |-> [n \in {p1} |-> 0], bitmap |-> Offsets]}

MCDeviceName == [d \in Devices |-> p1]

NoDeviceName == [d \in {} |-> p1]
=============================================================================
