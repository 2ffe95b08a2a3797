------------------------------- MODULE MCBlocks -------------------------------
(* A small instance of Blocks for TLC. *)
EXTENDS Blocks, TLC

CONSTANTS a, b, c, d, e, c1, c2, c3, c4, c5

Net(name, kind, namespace) == [name |-> name, kind |-> kind, namespace |-> namespace]

NetAB  == Net(<<a>>, <<b>>, <<>>)
NetABC == Net(<<a>>, <<b>>, <<c>>)

\* Four callers share a network; the fifth has the same addresses in another one.
MCNetwork == [x \in Callers |-> IF x = c5 THEN NetABC ELSE NetAB]
MCFamily  == [x \in Callers |-> "IPv4"]

\* Nested subnets of four, two and one slices; the first one crosses a byte.
MCSubnet == (c1 :> [addr |-> OfValue(9), slices |-> 4])
         @@ (c2 :> [addr |-> OfValue(12), slices |-> 2])
         @@ (c3 :> [addr |-> OfValue(12), slices |-> 1])
         @@ (c4 :> [addr |-> OfValue(15), slices |-> 1])
         @@ (c5 :> [addr |-> OfValue(12), slices |-> 1])

\* Labels of the devices of one claim.
DeviceLabel == (c1 :> a) @@ (c2 :> b) @@ (c3 :> c) @@ (c4 :> d) @@ (c5 :> e)

MCDevice == [x \in Callers |-> [claimNamespace |-> <<a>>, claimName |-> <<b, c>>, device |-> <<DeviceLabel[x]>>]]

Id(network, family, text, length) ==
    [network |-> network, family |-> family, prefix |-> text, prefixLength |-> length]

Spelled(family, v, canonical) == [ip |-> family, digits |-> OfValue(v), canonical |-> canonical]

\* Around the slice at 12: as it should be, not aligned, not canonical, of the wrong
\* length or family, no address at all; another family; dotted networks that spell the
\* names of NetABC's slices.
MCIdentities ==
    {Id(NetAB, "IPv4", Spelled("IPv4", v, canonical), l) :
        v \in {12, 13}, canonical \in BOOLEAN, l \in {25, 26}}
    \cup {Id(NetAB, "IPv6", Spelled(ip, 12, TRUE), l) : ip \in {"IPv4", "IPv6", None}, l \in {26, 122}}
    \cup {Id(network, "IPv4", Spelled("IPv4", 12, TRUE), 26) :
            network \in {NetABC, Net(<<a, b>>, <<c>>, <<>>), Net(<<a>>, <<b, c>>, <<>>)}}
=============================================================================
