-------------------------------- MODULE Blocks --------------------------------
(***************************************************************************)
(* All the slices of a cluster.  A slice is an object whose name is derived *)
(* from its identity -- pod network, family, prefix, length -- by the       *)
(* client (pkg/naming), and once more by the validating policy.  Nobody     *)
(* lists objects: that no two slices own an address, that a release reaches *)
(* the slice of its allocation and that no client is denied rests on names, *)
(* on the rules on the identity and on address arithmetic alone.            *)
(*                                                                          *)
(* A dotted name is the sequence of its labels.  What a slice does with its *)
(* offsets is in IPSlice; here it gives the lowest free one.                *)
(***************************************************************************)
EXTENDS Address, Sequences

CONSTANTS Labels,     \* DNS-1123 labels
          Callers,
          Network,    \* the pod network of each caller
          Family,     \* the address family of each caller
          Subnet,     \* the subnet of each caller: an address in it, its number of slices
          Device,     \* the device that each caller asks an address for
          Identities, \* what others write as the identity of a slice
          None

Families == {"IPv4", "IPv6"}

Networks == [name : Seq(Labels), kind : Seq(Labels), namespace : Seq(Labels)]

\* An address as text: a family has one canonical spelling of it, and others.
Texts == [ip : Families \cup {None}, digits : Addresses, canonical : BOOLEAN]

Identity == [network : Networks, family : Families, prefix : Texts, prefixLength : Nat]

Devices == [claimNamespace : Seq(Labels), claimName : Seq(Labels), device : Seq(Labels)]

\* DNS-1123 labels: no dots.
IsNetwork(network) ==
    Len(network.name) = 1 /\ Len(network.kind) = 1 /\ Len(network.namespace) <= 1

\* A device is one label by the rules of the API it comes from, not by this schema.
IsDevice(ref) == Len(ref.claimNamespace) = 1 /\ ref.claimName # <<>> /\ Len(ref.device) = 1

ASSUME BlocksAssumption ==
    /\ None \notin Callers \cup Families \cup Addresses
    /\ Network \in [Callers -> Networks] /\ \A c \in Callers : IsNetwork(Network[c])
    /\ Family \in [Callers -> Families]
    /\ Subnet \in [Callers -> [addr : Addresses, slices : Nat \ {0}]]
    /\ Device \in [Callers -> Devices] /\ \A c \in Callers : IsDevice(Device[c])
    /\ \A c, d \in Callers : c # d => Device[c] # Device[d]
    /\ Identities \subseteq Identity

VARIABLES slices,  \* the objects by name: their identity, and who holds each offset
          answer,  \* the address that each caller was given and has not released, or None
          denied,  \* the callers whose apply was ever denied
          deleted  \* whether a slice was ever deleted

vars == <<slices, answer, denied, deleted>>

-----------------------------------------------------------------------------
(* Identities and names. *)

\* Slip: the device is not in it.
RequestNameForDeviceSlip(ref) == ref.claimNamespace \o ref.claimName

RequestNameForDevice(ref) == ref.claimNamespace \o ref.claimName \o ref.device

RequestName(c) == RequestNameForDevice(Device[c])

\* netip.Addr.String
Text(family, a) == [ip |-> family, digits |-> a, canonical |-> TRUE]

Canonicalized(text) == IF text.ip = None THEN text ELSE [text EXCEPT !.canonical = TRUE]

\* Dots and colons both become hyphens: what remains does not tell the family.
Sanitized(text) == <<text.digits, text.canonical>>

SliceId(family, text, prefixLength) == <<family, Sanitized(text), prefixLength>>

\* Slip: the namespace is left out.
NameSlip(id) ==
    id.network.name \o id.network.kind
       \o <<SliceId(id.family, Canonicalized(id.prefix), id.prefixLength)>>

\* What a client calls the slice.
Name(id) ==
    id.network.name \o id.network.kind \o id.network.namespace
       \o <<SliceId(id.family, Canonicalized(id.prefix), id.prefixLength)>>

\* What rule 1 of the validating policy wants it to be called.
CanonicalName(id) ==
    id.network.name \o id.network.kind \o id.network.namespace
       \o <<SliceId(id.family, id.prefix, id.prefixLength)>>

SliceBits(family) == IF family = "IPv4" THEN 26 ELSE 122

\* Slip: dots in the names of a network.
CRDIdentityDotsSlip(id) ==
    /\ id.prefix.ip = id.family /\ id.prefix.digits \in Addresses /\ id.prefix.canonical
    /\ id.prefixLength = SliceBits(id.family)
    /\ Masked(id.prefix.digits) = id.prefix.digits

\* Slip: any address for a prefix.
CRDIdentitySlip(id) ==
    /\ IsNetwork(id.network)
    /\ id.prefix.ip = id.family /\ id.prefix.digits \in Addresses /\ id.prefix.canonical
    /\ id.prefixLength = SliceBits(id.family)

CRDIdentity(id) ==
    /\ IsNetwork(id.network)
    /\ id.prefix.ip = id.family /\ id.prefix.digits \in Addresses /\ id.prefix.canonical
    /\ id.prefixLength = SliceBits(id.family)
    /\ Masked(id.prefix.digits) = id.prefix.digits

\* The identity is immutable, the name is compared on CREATE only.
Admits(name, id) ==
    /\ CRDIdentity(id)
    /\ IF name \in DOMAIN slices THEN slices[name].id = id ELSE name = CanonicalName(id)

Alloc(name) ==
    IF name \in DOMAIN slices THEN slices[name].alloc ELSE [o \in Offsets |-> None]

Put(name, id, alloc) ==
    slices' = [n \in DOMAIN slices \cup {name} |->
                 IF n = name THEN [id |-> id, alloc |-> alloc] ELSE slices[n]]

Named(alloc, reqName) == {o \in Offsets : alloc[o] # None /\ RequestName(alloc[o]) = reqName}

\* Slip: the offset goes with its name.
FreedSlip(alloc, reqName) == [o \in Offsets \ Named(alloc, reqName) |-> alloc[o]]

Freed(alloc, reqName) ==
    [o \in Offsets |-> IF o \in Named(alloc, reqName) THEN None ELSE alloc[o]]

-----------------------------------------------------------------------------
(* The clients. *)

SubnetBase(c) ==
    LET size == Subnet[c].slices * Hosts
        v    == Value(Subnet[c].addr)
    IN  OfValue(v - (v % size))

\* Slip: two slices a step.
SliceAtSlip(c, i) == AddAddr(SubnetBase(c), i * 2 * Hosts)

SliceAt(c, i) == AddAddr(SubnetBase(c), i * Hosts)

SpecOf(c, prefix) ==
    [network |-> Network[c], family |-> Family[c], prefix |-> Text(Family[c], prefix),
     prefixLength |-> SliceBits(Family[c])]

Deny(c) == denied' = denied \cup {c} /\ UNCHANGED <<slices, answer, deleted>>

\* The lowest free offset, or the one that the request has.
Picks(alloc, reqName) ==
    IF Named(alloc, reqName) # {} THEN Named(alloc, reqName)
    ELSE {o \in Offsets : alloc[o] = None /\ \A k \in 0 .. o - 1 : alloc[k] # None}

\* An attempt on one slice of the subnet.  Only in a subnet of one slice may a call be
\* repeated (pkg/allocator/allocator.go:161-166).
Allocate(c, i) ==
    LET prefix == SliceAt(c, i)
        id     == SpecOf(c, prefix)
        alloc  == Alloc(Name(id))
    IN  /\ answer[c] = None \/ Subnet[c].slices = 1
        /\ IF ~Admits(Name(id), id) THEN Deny(c)
           ELSE \E o \in Picks(alloc, RequestName(c)) :
                  /\ Put(Name(id), id, [alloc EXCEPT ![o] = c])
                  /\ answer' = [answer EXCEPT ![c] = AddAddr(prefix, o)]
                  /\ UNCHANGED <<denied, deleted>>

\* The apply that removes a request; it creates the slice if there is none.
Remove(c, id, reqName) ==
    IF ~Admits(Name(id), id) THEN Deny(c)
    ELSE /\ Put(Name(id), id, Freed(Alloc(Name(id)), reqName))
         /\ answer' = [answer EXCEPT ![c] = None]
         /\ UNCHANGED <<denied, deleted>>

Release(c) ==
    /\ answer[c] # None
    /\ Remove(c, SpecOf(c, Masked(answer[c])), RequestName(c))

\* Without a request.  SliceClients has what may happen between GET and apply.
ReleaseByAddress(c) ==
    LET prefix == Masked(answer[c])
        id     == SpecOf(c, prefix)
        holder == Alloc(Name(id))[OffsetForAddr(prefix, answer[c])]
    IN  /\ answer[c] # None
        /\ IF holder = None
           THEN /\ answer' = [answer EXCEPT ![c] = None]
                /\ UNCHANGED <<slices, denied, deleted>>
           ELSE Remove(c, id, RequestName(holder))

-----------------------------------------------------------------------------
(* Others. *)

Names == {CanonicalName(id) : id \in Identities} \cup {Name(id) : id \in Identities}

Write(name, id) ==
    /\ Admits(name, id)
    /\ Put(name, id, Alloc(name))
    /\ UNCHANGED <<answer, denied, deleted>>

\* No policy matches DELETE.  One deletion is a bound of the model.
Delete(name) ==
    /\ ~deleted
    /\ slices' = [n \in DOMAIN slices \ {name} |-> slices[n]]
    /\ deleted' = TRUE
    /\ UNCHANGED <<answer, denied>>

Init ==
    /\ slices = <<>>
    /\ answer = [c \in Callers |-> None]
    /\ denied = {} /\ deleted = FALSE

Next ==
    \/ \E c \in Callers : \/ \E i \in 0 .. Subnet[c].slices - 1 : Allocate(c, i)
                          \/ Release(c)
                          \/ ReleaseByAddress(c)
    \/ \E id \in Identities, name \in Names : Write(name, id)
    \/ \E name \in DOMAIN slices : Delete(name)

Spec == Init /\ [][Next]_vars

-----------------------------------------------------------------------------

TypeOK ==
    /\ \A name \in DOMAIN slices :
          slices[name] \in [id : Identity, alloc : [Offsets -> Callers \cup {None}]]
    /\ answer \in [Callers -> Addresses \cup {None}]
    /\ denied \subseteq Callers /\ deleted \in BOOLEAN

SameSpace(id, other) == id.network = other.network /\ id.family = other.family

\* apis/v1alpha1/types.go:103-105: "every address belongs to exactly one slice, so
\* disjointness holds WITHOUT any cross-object check" -- whatever anybody creates,
\* rewrites or deletes.
DisjointBlocks ==
    \A n, m \in DOMAIN slices :
        n # m /\ SameSpace(slices[n].id, slices[m].id) =>
            \A o, p \in Offsets :
                Rendered(slices[n].id.prefix.digits, o) # Rendered(slices[m].id.prefix.digits, p)

\* pkg/naming/naming.go:35: the client and the policy derive the same name, and nobody
\* can take the name of another network's slice first; so no call on a valid network and
\* subnet is ever denied for its identity.
NoClientDenied == denied = {}

\* The same for every writer and every valid identity, whoever has written before.
ValidIsAdmitted == \A id \in Identities : CRDIdentity(id) => Admits(Name(id), id)

Holds(c) == {h \in (DOMAIN slices) \X Offsets : slices[h[1]].alloc[h[2]] = c}

\* The addresses in the status of the slices are those that callers were given and have
\* not released: a release finds, by name and offset, what Allocate took.
StatusShowsAnswers ==
    ~deleted => \A c \in Callers :
        /\ {Rendered(slices[h[1]].id.prefix.digits, h[2]) : h \in Holds(c)} = {answer[c]} \ {None}
        /\ \A h \in Holds(c) : SameSpace(slices[h[1]].id, SpecOf(c, 0))

\* Two callers of a network are never left with one address.
AnswersAreUnique ==
    ~deleted => \A c, d \in Callers :
        c # d /\ SameSpace(SpecOf(c, 0), SpecOf(d, 0)) /\ answer[c] # None => answer[c] # answer[d]

(* A cluster implements the address table, as a slice does: the names are the
   callers, and what they hold are addresses of networks and families, one each. *)

Spaces == {<<Network[c], Family[c]>> : c \in Callers}

Addressed(c) ==
    {<<<<slices[h[1]].id.network, slices[h[1]].id.family>>,
       Rendered(slices[h[1]].id.prefix.digits, h[2])>> : h \in Holds(c)}

Held == [c \in {d \in Callers : Holds(d) # {}} |-> Addressed(c)]

BlockOf(space, prefix) == {{<<space, Rendered(prefix, o)>>} : o \in Offsets}

Table == INSTANCE AddressTable
             WITH Names   <- Callers,
                  Offsets <- {{x} : x \in Spaces \X Addresses},
                  Slices  <- {BlockOf(x[1], x[2]) :
                                 x \in Spaces \X {a \in Addresses : Masked(a) = a}},
                  held    <- Held

\* No list of objects, no lock and no lease stands behind it: whatever anybody writes or
\* deletes, an address of a network is taken while nobody holds it, by one caller at a
\* time, kept until it is given up, and lost only with its own slice.
ImplementsTable == Table!SpecApart

SubnetAddresses(c) ==
    {OfValue(Value(SubnetBase(c)) + k) : k \in 0 .. Subnet[c].slices * Hosts - 1}

IsFull(c, i) == \A o \in Offsets : Alloc(Name(SpecOf(c, SliceAt(c, i))))[o] # None

\* The slices that a walk visits make up the subnet: no answer is outside of it, and
\* when all of them are full no address of it is free.
SlicesCoverSubnet ==
    \A c \in Callers :
        /\ answer[c] \in SubnetAddresses(c) \cup {None}
        /\ (\A i \in 0 .. Subnet[c].slices - 1 : IsFull(c, i)) =>
              \A a \in SubnetAddresses(c) : \E n \in DOMAIN slices, o \in Offsets :
                  /\ SameSpace(slices[n].id, SpecOf(c, 0))
                  /\ Rendered(slices[n].id.prefix.digits, o) = a
                  /\ slices[n].alloc[o] # None

\* addAddr adds, through every byte and around the end of the address space, whatever is
\* added to an address that is in use; it is stated for both families "regardless of
\* where the address sits" (pkg/allocator/allocator.go:493-497).
LoopAdds ==
    \A c \in Callers : answer[c] # None =>
        \A delta \in 0 .. Capacity + 1 :
            Value(AddAddr(answer[c], delta)) = (Value(answer[c]) + delta) % Capacity
=============================================================================
