-------------------------------- MODULE Address --------------------------------
(***************************************************************************)
(* Addresses as bytes, operators only.  The client places an offset in a   *)
(* slice, and a slice in a subnet, with addAddr's carry loop over 16 bytes *)
(* (pkg/allocator/allocator.go); the validating policy renders the same    *)
(* address by adding to the last octet alone; Release gets the offset back *)
(* by subtracting last bytes.                                              *)
(***************************************************************************)
EXTENDS Integers

CONSTANTS Byte,  \* values of a byte: 256 in the code
          Width, \* bytes of an address: 16 in the code
          Hosts  \* addresses of a slice: 64 in the code

ASSUME AddressAssumption ==
    /\ Byte \in Nat \ {0, 1} /\ Width \in Nat \ {0}
    /\ Hosts \in Nat \ {0} /\ (Byte % Hosts) = 0   \* a slice lies in one last byte

Last == Width - 1

Addresses == [0 .. Last -> 0 .. Byte - 1]

Offsets == 0 .. Hosts - 1

\* The number that the first bytes up to each one spell, big-endian.
Prefixes(a) ==
    LET value[k \in 0 .. Last] == IF k = 0 THEN a[0] ELSE value[k - 1] * Byte + a[k]
    IN  value

\* The big-endian integer that an address is.
Value(a) == Prefixes(a)[Last]

\* How many numbers the first bytes up to each one can spell; all of them, the
\* addresses of the address space.
Powers ==
    LET power[k \in 0 .. Last] == IF k = 0 THEN Byte ELSE power[k - 1] * Byte
    IN  power

Capacity == Powers[Last]

\* The address of an integer, around the end of the address space.
Quotients(v) ==
    LET rest[k \in 0 .. Last] == IF k = Last THEN v ELSE rest[k + 1] \div Byte
    IN  rest

OfValue(v) == [k \in 0 .. Last |-> Quotients(v)[k] % Byte]

\* Slip: the byte is not added to what is carried on.
AddAddrSlip(a, delta) ==
    LET carry[k \in 0 .. Last] == IF k = Last THEN delta ELSE carry[k + 1] \div Byte
    IN  [k \in 0 .. Last |-> (carry[k] + a[k]) % Byte]

\* What is carried to each byte.
Carries(a, delta) ==
    LET carry[k \in 0 .. Last] ==
            IF k = Last THEN delta ELSE (carry[k + 1] + a[k + 1]) \div Byte
    IN  carry

\* The loop leaves once nothing is carried; the bytes above stay what they are.
AddAddr(a, delta) == [k \in 0 .. Last |-> (Carries(a, delta)[k] + a[k]) % Byte]

\* The network address of the slice that an address lies in.
Masked(a) == [a EXCEPT ![Last] = @ - (@ % Hosts)]

\* The difference of two bytes is a byte.
OffsetForAddr(prefix, a) == (a[Last] - prefix[Last]) % Byte

\* Slip: the offset is taken for the octet.
RenderedSlip(prefix, offset) == [prefix EXCEPT ![Last] = offset]

\* v4base + string(v4lastOctet + offset)
Rendered(prefix, offset) == [prefix EXCEPT ![Last] = @ + offset]
=============================================================================
