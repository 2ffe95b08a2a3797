----------------------------- MODULE Blocks_proofs -----------------------------
(***************************************************************************)
(* Proofs about Blocks, for all labels, networks, callers and writers, and *)
(* all sizes of bytes, addresses and slices.                               *)
(***************************************************************************)
EXTENDS Blocks, Address_proofs, SequenceTheorems, TLAPS

\* Concatenation, element by element.
LEMMA Concat ==
    ASSUME NEW S, NEW s \in Seq(S), NEW t \in Seq(S)
    PROVE  /\ s \o t \in Seq(S) /\ Len(s \o t) = Len(s) + Len(t)
           /\ \A k \in 1 .. Len(s) : (s \o t)[k] = s[k]
           /\ \A k \in 1 .. Len(t) : (s \o t)[Len(s) + k] = t[k]
  BY ConcatProperties

\* The parts of the name of a valid identity.
LEMMA NameParts ==
    ASSUME NEW id \in Identity, CRDIdentity(id)
    PROVE  LET network == id.network
               name    == CanonicalName(id)
           IN  /\ network.name \in Seq(Labels) /\ Len(network.name) = 1
               /\ network.kind \in Seq(Labels) /\ Len(network.kind) = 1
               /\ network.namespace \in Seq(Labels) /\ Len(network.namespace) \in {0, 1}
               /\ Len(name) = 3 + Len(network.namespace)
               /\ name[1] = network.name[1] /\ name[2] = network.kind[1]
               /\ Len(network.namespace) = 1 => name[3] = network.namespace[1]
               /\ name[3 + Len(network.namespace)]
                     = SliceId(id.family, id.prefix, id.prefixLength)
<1> DEFINE s == id.network.name
           t == id.network.kind
           u == id.network.namespace
           x == SliceId(id.family, id.prefix, id.prefixLength)
           S == Labels \cup {x}
           one == <<x>>
           two == s \o t
           all == two \o u
           name == all \o one
<1>0. /\ s \in Seq(Labels) /\ t \in Seq(Labels) /\ u \in Seq(Labels)
      /\ Len(s) = 1 /\ Len(t) = 1 /\ Len(u) \in {0, 1}
  <2>1. id.network \in Networks /\ IsNetwork(id.network)
    BY DEF Identity, CRDIdentity
  <2>2. s \in Seq(Labels) /\ t \in Seq(Labels) /\ u \in Seq(Labels)
    BY <2>1 DEF Networks
  <2> QED
    BY <2>1, <2>2 DEF IsNetwork
<1>x. x \in S
  OBVIOUS
<1>name. name = CanonicalName(id)
  BY Zenon DEF CanonicalName
<1> HIDE DEF s, t, u, x
<1>seq. s \in Seq(S) /\ t \in Seq(S) /\ u \in Seq(S)
  BY <1>0
<1> HIDE DEF S
<1>1. one \in Seq(S)
  BY <1>x
<1>2. Len(one) = 1 /\ one[1] = x
  OBVIOUS
<1> HIDE DEF one
<1>3. two \in Seq(S)
  BY <1>seq, Concat, Zenon
<1>4. two[1] = s[1] /\ two[1 + 1] = t[1] /\ Len(two) = 2
  <2>1. Len(two) = Len(s) + Len(t)
    BY <1>seq, Concat, Zenon
  <2>2. /\ \A k \in 1 .. Len(s) : two[k] = s[k]
        /\ \A k \in 1 .. Len(t) : two[Len(s) + k] = t[k]
    BY <1>seq, Concat, SMT
  <2> HIDE DEF two
  <2> QED
    BY <1>0, <2>1, <2>2
<1> HIDE DEF two
<1>5. all \in Seq(S)
  BY <1>seq, <1>3, Concat, Zenon
<1>6. /\ all[1] = s[1] /\ all[2] = t[1] /\ Len(all) = 2 + Len(u)
      /\ Len(u) = 1 => all[2 + 1] = u[1]
  <2>1. Len(all) = Len(two) + Len(u)
    BY <1>seq, <1>3, Concat, Zenon
  <2>2. /\ \A k \in 1 .. Len(two) : all[k] = two[k]
        /\ \A k \in 1 .. Len(u) : all[Len(two) + k] = u[k]
    BY <1>seq, <1>3, Concat, SMT
  <2> HIDE DEF all
  <2> QED
    BY <1>0, <1>4, <2>1, <2>2
<1> HIDE DEF all
<1>7. /\ Len(name) = 3 + Len(u)
      /\ name[1] = s[1] /\ name[2] = t[1]
      /\ Len(u) = 1 => name[3] = u[1]
      /\ name[3 + Len(u)] = x
  <2>1. Len(name) = Len(all) + Len(one)
    BY <1>1, <1>5, Concat, Zenon
  <2>2. /\ \A k \in 1 .. Len(all) : name[k] = all[k]
        /\ \A k \in 1 .. Len(one) : name[Len(all) + k] = one[k]
    BY <1>1, <1>5, Concat, SMT
  <2> HIDE DEF name
  <2> QED
    BY <1>0, <1>2, <1>6, <2>1, <2>2
<1> QED
  BY <1>0, <1>7, <1>name, Zenon DEF s, t, u, x

\* Two sequences of one label at most are equal if their lengths and first labels are.
LEMMA ShortEqual ==
    ASSUME NEW S, NEW s \in Seq(S), NEW t \in Seq(S), Len(s) = Len(t), Len(s) \in {0, 1},
           Len(s) = 1 => s[1] = t[1]
    PROVE  s = t
  BY SMT

\* A valid identity is the only one with its name.
LEMMA NameIdentifies ==
    ASSUME NEW id \in Identity, CRDIdentity(id),
           NEW other \in Identity, CRDIdentity(other),
           CanonicalName(id) = CanonicalName(other)
    PROVE  id = other
<1>1. id.network = other.network
  <2>1. Len(id.network.namespace) = Len(other.network.namespace)
    BY NameParts
  <2>2. id.network.name = other.network.name
    BY NameParts, ShortEqual
  <2>3. id.network.kind = other.network.kind
    BY NameParts, ShortEqual
  <2>4. id.network.namespace = other.network.namespace
    <3>1. Len(id.network.namespace) = 1
            => id.network.namespace[1] = other.network.namespace[1]
      BY NameParts
    <3>2. /\ id.network.namespace \in Seq(Labels) /\ other.network.namespace \in Seq(Labels)
          /\ Len(id.network.namespace) \in {0, 1}
      BY NameParts
    <3> QED
      BY <2>1, <3>1, <3>2, ShortEqual
  <2> QED
    BY <2>2, <2>3, <2>4 DEF Identity, Networks
<1>2. SliceId(id.family, id.prefix, id.prefixLength)
         = SliceId(other.family, other.prefix, other.prefixLength)
  BY NameParts, <1>1
<1>3. /\ id.family = other.family /\ id.prefixLength = other.prefixLength
      /\ id.prefix.digits = other.prefix.digits /\ id.prefix.canonical = other.prefix.canonical
  BY <1>2 DEF SliceId, Sanitized
<1>4. id.prefix = other.prefix
  BY <1>3 DEF CRDIdentity, Identity, Texts
<1> QED
  BY <1>1, <1>3, <1>4 DEF Identity

\* On a valid identity the client's name is the policy's.
LEMMA NamesAgree ==
    ASSUME NEW id \in Identity, CRDIdentity(id)
    PROVE  Name(id) = CanonicalName(id)
<1>1. id.prefix.ip # None /\ id.prefix.canonical = TRUE
  BY BlocksAssumption DEF CRDIdentity, Identity, Texts
<1>2. Canonicalized(id.prefix) = id.prefix
  BY <1>1 DEF Canonicalized, Identity, Texts
<1> QED
  BY <1>2 DEF Name, CanonicalName

-----------------------------------------------------------------------------
(* The identity of a slice never leaves its name. *)

\* Every object has a valid identity, and the name of it.
Identified ==
    \A n \in DOMAIN slices :
        /\ slices[n].id \in Identity /\ CRDIdentity(slices[n].id)
        /\ n = CanonicalName(slices[n].id)

\* Whatever is admitted leaves the objects identified.
LEMMA PutIdentified ==
    ASSUME Identified, NEW id \in Identity, NEW name, Admits(name, id),
           NEW alloc, Put(name, id, alloc)
    PROVE  Identified'
<1> SUFFICES ASSUME NEW n \in DOMAIN slices'
             PROVE  /\ slices'[n].id \in Identity /\ CRDIdentity(slices'[n].id)
                    /\ n = CanonicalName(slices'[n].id)
  BY DEF Identified
<1>1. CASE n = name
  <2>1. slices'[n].id = id
    BY <1>1 DEF Put
  <2>2. name = CanonicalName(id)
    BY DEF Admits, Identified
  <2> QED
    BY <1>1, <2>1, <2>2 DEF Admits
<1>2. CASE n # name
  <2>1. n \in DOMAIN slices /\ slices'[n] = slices[n]
    BY <1>2 DEF Put
  <2> QED
    BY <2>1 DEF Identified
<1> QED
  BY <1>1, <1>2

\* What a client writes is an identity, if an address of the slice's family is.
LEMMA SpecIsIdentity ==
    ASSUME NEW c \in Callers, NEW prefix \in Addresses
    PROVE  SpecOf(c, prefix) \in Identity
<1>1. Network[c] \in Networks /\ Family[c] \in Families
  BY BlocksAssumption
<1>2. Text(Family[c], prefix) \in Texts
  BY <1>1 DEF Text, Texts
<1>3. SliceBits(Family[c]) \in Nat
  BY DEF SliceBits
<1> QED
  BY <1>1, <1>2, <1>3 DEF SpecOf, Identity

\* The same for what the apiserver lets in.
LEMMA AdmittedIsIdentity ==
    ASSUME NEW c \in Callers, NEW prefix, NEW name, Admits(name, SpecOf(c, prefix))
    PROVE  SpecOf(c, prefix) \in Identity
<1>1. SpecOf(c, prefix).prefix.digits \in Addresses
  BY DEF Admits, CRDIdentity
<1>2. prefix \in Addresses
  BY <1>1 DEF SpecOf, Text
<1> QED
  BY <1>2, SpecIsIdentity

\* A removal leaves the objects identified, or is denied.
LEMMA RemoveIdentified ==
    ASSUME Identified, NEW c \in Callers, NEW prefix, NEW reqName,
           Remove(c, SpecOf(c, prefix), reqName)
    PROVE  Identified'
<1> DEFINE id == SpecOf(c, prefix)
<1>1. CASE ~Admits(Name(id), id)
  BY <1>1 DEF Remove, Deny, Identified
<1>2. CASE Admits(Name(id), id)
  <2>1. id \in Identity
    BY <1>2, AdmittedIsIdentity
  <2>2. Put(Name(id), id, Freed(Alloc(Name(id)), reqName))
    BY <1>2 DEF Remove
  <2> QED
    BY <1>2, <2>1, <2>2, PutIdentified
<1> QED
  BY <1>1, <1>2

\* Identified is inductive.
THEOREM AlwaysIdentified == Spec => []Identified
<1>1. Init => Identified
  BY DEF Init, Identified
<1>2. Identified /\ [Next]_vars => Identified'
  <2> SUFFICES ASSUME Identified, [Next]_vars
               PROVE  Identified'
    OBVIOUS
  <2>1. ASSUME NEW c \in Callers, NEW i \in 0 .. Subnet[c].slices - 1, Allocate(c, i)
        PROVE  Identified'
    <3> DEFINE id == SpecOf(c, SliceAt(c, i))
    <3>1. CASE ~Admits(Name(id), id)
      BY <2>1, <3>1 DEF Allocate, Deny, Identified
    <3>2. CASE Admits(Name(id), id)
      <4>1. id \in Identity
        BY <3>2, AdmittedIsIdentity
      <4>2. PICK o : Put(Name(id), id, [Alloc(Name(id)) EXCEPT ![o] = c])
        BY <2>1, <3>2, Zenon DEF Allocate
      <4> HIDE DEF id
      <4> QED
        BY <3>2, <4>1, <4>2, PutIdentified
    <3> QED
      BY <3>1, <3>2
  <2>2. ASSUME NEW c \in Callers, Release(c)
        PROVE  Identified'
    BY <2>2, RemoveIdentified DEF Release
  <2>3. ASSUME NEW c \in Callers, ReleaseByAddress(c)
        PROVE  Identified'
    <3>1. CASE UNCHANGED slices
      BY <3>1 DEF Identified
    <3>2. ASSUME NEW reqName, Remove(c, SpecOf(c, Masked(answer[c])), reqName)
          PROVE  Identified'
      BY <3>2, RemoveIdentified
    <3> QED
      BY <2>3, <3>1, <3>2, Zenon DEF ReleaseByAddress
  <2>4. ASSUME NEW id \in Identities, NEW name \in Names, Write(name, id)
        PROVE  Identified'
    <3>1. id \in Identity
      BY BlocksAssumption
    <3> QED
      BY <2>4, <3>1, PutIdentified DEF Write
  <2>5. ASSUME NEW name \in DOMAIN slices, Delete(name)
        PROVE  Identified'
    BY <2>5 DEF Delete, Identified
  <2>6. CASE UNCHANGED vars
    BY <2>6 DEF vars, Identified
  <2> QED
    BY <2>1, <2>2, <2>3, <2>4, <2>5, <2>6, Zenon DEF Next
<1> QED
  BY <1>1, <1>2, PTL DEF Spec

-----------------------------------------------------------------------------

\* pkg/naming: one name for the client and the policy, and nobody else can have taken it.
THEOREM ValidAdmission == Spec => []ValidIsAdmitted
<1>1. Identified => ValidIsAdmitted
  <2> SUFFICES ASSUME Identified, NEW id \in Identities, CRDIdentity(id)
               PROVE  Admits(Name(id), id)
    BY DEF ValidIsAdmitted
  <2>1. id \in Identity
    BY BlocksAssumption
  <2>2. Name(id) = CanonicalName(id)
    BY <2>1, NamesAgree
  <2>3. ASSUME Name(id) \in DOMAIN slices
        PROVE  slices[Name(id)].id = id
    <3>1. /\ slices[Name(id)].id \in Identity /\ CRDIdentity(slices[Name(id)].id)
          /\ CanonicalName(slices[Name(id)].id) = CanonicalName(id)
      BY <2>2, <2>3 DEF Identified
    <3> QED
      BY <2>1, <3>1, NameIdentifies
  <2> QED
    BY <2>2, <2>3 DEF Admits
<1> QED
  BY <1>1, AlwaysIdentified, PTL

\* Two multiples of the size of a block, with an address in common, are equal.
LEMMA SameBlock ==
    ASSUME NEW b \in Nat, NEW c \in Nat, (b % Hosts) = 0, (c % Hosts) = 0,
           NEW o \in Offsets, NEW p \in Offsets, b + o = c + p
    PROVE  b = c
<1>1. Hosts \in Nat \ {0} /\ o \in 0 .. Hosts - 1 /\ p \in 0 .. Hosts - 1
  BY AddressAssumption DEF Offsets
<1> DEFINE x == b \div Hosts
           y == c \div Hosts
<1>2. x \in Int /\ y \in Int /\ b = Hosts * x /\ c = Hosts * y
  BY <1>1
<1> HIDE DEF x, y
<1>3. ~(x < y)
  <2> SUFFICES ASSUME x + 1 <= y
               PROVE  FALSE
    BY <1>2
  <2>1. Hosts * (x + 1) <= Hosts * y
    BY <1>1, <1>2
  <2>2. Hosts * (x + 1) = Hosts * x + Hosts
    BY <1>1, <1>2
  <2> QED
    BY <1>1, <1>2, <2>1, <2>2
<1>4. ~(y < x)
  <2> SUFFICES ASSUME y + 1 <= x
               PROVE  FALSE
    BY <1>2
  <2>1. Hosts * (y + 1) <= Hosts * x
    BY <1>1, <1>2
  <2>2. Hosts * (y + 1) = Hosts * y + Hosts
    BY <1>1, <1>2
  <2> QED
    BY <1>1, <1>2, <2>1, <2>2
<1> QED
  BY <1>2, <1>3, <1>4

\* Two prefixes of blocks, with an address in common, are equal.
LEMMA SamePrefix ==
    ASSUME NEW a \in Addresses, NEW b \in Addresses, Masked(a) = a, Masked(b) = b,
           NEW o \in Offsets, NEW p \in Offsets, Rendered(a, o) = Rendered(b, p)
    PROVE  a = b
<1>1. /\ Last \in 0 .. Last /\ Byte \in Nat \ {0}
  BY AddressAssumption DEF Last
<1>2. /\ a[Last] \in Nat /\ b[Last] \in Nat
      /\ Hosts \in Nat \ {0} /\ o \in Int /\ p \in Int
  BY <1>1, AddressAssumption DEF Addresses, Offsets
<1>3. (a[Last] % Hosts) = 0 /\ (b[Last] % Hosts) = 0
  <2>1. a[Last] - (a[Last] % Hosts) = a[Last] /\ b[Last] - (b[Last] % Hosts) = b[Last]
    BY <1>1 DEF Masked, Addresses
  <2>2. /\ (a[Last] % Hosts) \in Int /\ (b[Last] % Hosts) \in Int
        /\ a[Last] \in Int /\ b[Last] \in Int
    BY <1>2
  <2>3. \A x, y \in Int : x - y = x => y = 0
    OBVIOUS
  <2> QED
    BY <2>1, <2>2, <2>3, Zenon
<1>4. a[Last] + o = b[Last] + p
  BY <1>1 DEF Rendered, Addresses
<1>5. a[Last] = b[Last]
  BY <1>2, <1>3, <1>4, SameBlock
<1>6. ASSUME NEW k \in 0 .. Last, k # Last
      PROVE  a[k] = b[k]
  <2>1. Rendered(a, o)[k] = a[k] /\ Rendered(b, p)[k] = b[k]
    BY <1>6 DEF Rendered, Addresses
  <2> QED
    BY <2>1
<1>7. \A k \in 0 .. Last : a[k] = b[k]
  BY <1>5, <1>6
<1>8. a = [k \in 0 .. Last |-> a[k]] /\ b = [k \in 0 .. Last |-> b[k]]
  BY DEF Addresses
<1> QED
  BY <1>7, <1>8, Zenon

\* apis/v1alpha1/types.go:103-105: no address is in two slices of a network.
THEOREM Disjointness == Spec => []DisjointBlocks
<1>1. Identified => DisjointBlocks
  <2> SUFFICES ASSUME Identified, NEW n \in DOMAIN slices, NEW m \in DOMAIN slices,
                      SameSpace(slices[n].id, slices[m].id),
                      NEW o \in Offsets, NEW p \in Offsets,
                      Rendered(slices[n].id.prefix.digits, o)
                        = Rendered(slices[m].id.prefix.digits, p)
               PROVE  n = m
    BY DEF DisjointBlocks
  <2> DEFINE id == slices[n].id
             other == slices[m].id
  <2>1. /\ id \in Identity /\ CRDIdentity(id) /\ n = CanonicalName(id)
        /\ other \in Identity /\ CRDIdentity(other) /\ m = CanonicalName(other)
    BY DEF Identified
  <2>2. id.network = other.network /\ id.family = other.family
    BY DEF SameSpace
  <2>3. Rendered(id.prefix.digits, o) = Rendered(other.prefix.digits, p)
    OBVIOUS
  <2> HIDE DEF id, other
  <2>4. id.prefix.digits = other.prefix.digits
    BY <2>1, <2>3, SamePrefix DEF CRDIdentity
  <2>5. id.prefix = other.prefix
    BY <2>1, <2>2, <2>4 DEF CRDIdentity, Identity, Texts
  <2>6. id = other
    BY <2>1, <2>2, <2>5 DEF CRDIdentity, Identity
  <2> QED
    BY <2>1, <2>6
<1> QED
  BY <1>1, AlwaysIdentified, PTL

-----------------------------------------------------------------------------
(* Request names. *)

\* The parts of the request name of a device.
LEMMA RequestNameParts ==
    ASSUME NEW ref \in Devices, IsDevice(ref)
    PROVE  LET name == RequestNameForDevice(ref) IN
           /\ ref.claimNamespace \in Seq(Labels) /\ ref.claimName \in Seq(Labels)
           /\ ref.device \in Seq(Labels)
           /\ Len(ref.claimNamespace) = 1 /\ Len(ref.device) = 1 /\ Len(ref.claimName) \in Nat
           /\ Len(name) = 2 + Len(ref.claimName)
           /\ name[1] = ref.claimNamespace[1]
           /\ \A k \in 1 .. Len(ref.claimName) : name[1 + k] = ref.claimName[k]
           /\ name[2 + Len(ref.claimName)] = ref.device[1]
<1> DEFINE s == ref.claimNamespace
           t == ref.claimName
           u == ref.device
           two == s \o t
           name == two \o u
<1>1. /\ s \in Seq(Labels) /\ t \in Seq(Labels) /\ u \in Seq(Labels)
      /\ Len(s) = 1 /\ Len(u) = 1 /\ Len(t) \in Nat
  BY DEF Devices, IsDevice
<1>2. name = RequestNameForDevice(ref)
  BY Zenon DEF RequestNameForDevice
<1> HIDE DEF s, t, u
<1>3. two \in Seq(Labels)
  BY <1>1, Concat, Zenon
<1>4. /\ Len(two) = 1 + Len(t) /\ two[1] = s[1]
      /\ \A k \in 1 .. Len(t) : two[1 + k] = t[k]
  <2>1. Len(two) = Len(s) + Len(t)
    BY <1>1, Concat, Zenon
  <2>2. s \in Seq(Labels) /\ t \in Seq(Labels)
    BY <1>1
  <2>3. /\ \A k \in 1 .. Len(s) : two[k] = s[k]
        /\ \A k \in 1 .. Len(t) : two[Len(s) + k] = t[k]
    BY <2>2, Concat, SMT
  <2> HIDE DEF two
  <2> QED
    BY <1>1, <2>1, <2>3
<1> HIDE DEF two
<1>5. /\ Len(name) = 2 + Len(t) /\ name[1] = s[1]
      /\ \A k \in 1 .. Len(t) : name[1 + k] = t[k]
      /\ name[2 + Len(t)] = u[1]
  <2>1. Len(name) = Len(two) + Len(u)
    BY <1>1, <1>3, Concat, Zenon
  <2>2. u \in Seq(Labels)
    BY <1>1
  <2>3. /\ \A k \in 1 .. Len(two) : name[k] = two[k]
        /\ \A k \in 1 .. Len(u) : name[Len(two) + k] = u[k]
    BY <1>3, <2>2, Concat, SMT
  <2> HIDE DEF name
  <2>4. name[1] = two[1] /\ \A k \in 1 .. Len(t) : name[1 + k] = two[1 + k]
    BY <1>1, <1>4, <2>3
  <2> QED
    BY <1>1, <1>4, <2>1, <2>3, <2>4
<1> QED
  BY <1>1, <1>2, <1>5, Zenon DEF s, t, u

\* pkg/naming/naming.go:84-88: dots in the names of claims do not make the request names
\* of two devices one, as long as a device has none.
THEOREM RequestNamesDiffer ==
    \A c, d \in Callers : RequestName(c) = RequestName(d) => c = d
<1> SUFFICES ASSUME NEW c \in Callers, NEW d \in Callers, RequestName(c) = RequestName(d)
             PROVE  Device[c] = Device[d]
  BY BlocksAssumption
<1> DEFINE r == Device[c]
           s == Device[d]
<1>1. r \in Devices /\ IsDevice(r) /\ s \in Devices /\ IsDevice(s)
  BY BlocksAssumption
<1>2. RequestNameForDevice(r) = RequestNameForDevice(s)
  BY DEF RequestName
<1> HIDE DEF r, s
<1>3. Len(r.claimName) = Len(s.claimName)
  <2>1. 2 + Len(r.claimName) = 2 + Len(s.claimName)
    BY <1>1, <1>2, RequestNameParts, Zenon
  <2>2. Len(r.claimName) \in Nat /\ Len(s.claimName) \in Nat
    BY <1>1, RequestNameParts, Zenon
  <2> QED
    BY <2>1, <2>2
<1>4. r.claimNamespace = s.claimNamespace
  <2>1. r.claimNamespace[1] = s.claimNamespace[1]
    <3>1. /\ RequestNameForDevice(r)[1] = r.claimNamespace[1]
          /\ RequestNameForDevice(s)[1] = s.claimNamespace[1]
      BY <1>1, RequestNameParts, Zenon
    <3> QED
      BY <1>2, <3>1, Zenon
  <2>2. /\ r.claimNamespace \in Seq(Labels) /\ Len(r.claimNamespace) = 1
        /\ s.claimNamespace \in Seq(Labels) /\ Len(s.claimNamespace) = 1
    BY <1>1, RequestNameParts, Zenon
  <2> QED
    BY <2>1, <2>2
<1>5. r.device = s.device
  <2>1. r.device[1] = s.device[1]
    <3>1. /\ RequestNameForDevice(r)[2 + Len(r.claimName)] = r.device[1]
          /\ RequestNameForDevice(s)[2 + Len(s.claimName)] = s.device[1]
      BY <1>1, RequestNameParts, Zenon
    <3> QED
      BY <1>2, <1>3, <3>1, Zenon
  <2>2. /\ r.device \in Seq(Labels) /\ Len(r.device) = 1
        /\ s.device \in Seq(Labels) /\ Len(s.device) = 1
    BY <1>1, RequestNameParts, Zenon
  <2> QED
    BY <2>1, <2>2
<1>6. r.claimName = s.claimName
  <2>1. \A k \in 1 .. Len(r.claimName) : r.claimName[k] = s.claimName[k]
    <3>1. /\ \A k \in 1 .. Len(r.claimName) :
                RequestNameForDevice(r)[1 + k] = r.claimName[k]
          /\ \A k \in 1 .. Len(s.claimName) :
                RequestNameForDevice(s)[1 + k] = s.claimName[k]
      BY <1>1, RequestNameParts, Zenon
    <3> QED
      BY <1>2, <1>3, <3>1, Zenon
  <2>2. r.claimName \in Seq(Labels) /\ s.claimName \in Seq(Labels)
    BY <1>1, RequestNameParts, Zenon
  <2> QED
    BY <1>3, <2>1, <2>2, SeqEqual, Zenon
<1>7. r = s
  BY <1>1, <1>4, <1>5, <1>6 DEF Devices
<1> QED
  BY <1>7 DEF r, s
-----------------------------------------------------------------------------
(* What a slice holds, and the steps on it. *)

\* A slice that is not there holds nothing.
LEMMA AllocType ==
    ASSUME TypeOK, NEW n
    PROVE  Alloc(n) \in [Offsets -> Callers \cup {None}]
<1>1. CASE n \in DOMAIN slices
  <2>1. slices[n] \in [id : Identity, alloc : [Offsets -> Callers \cup {None}]]
    BY <1>1 DEF TypeOK
  <2>2. QED
    BY <1>1, <2>1 DEF Alloc
<1>2. CASE n \notin DOMAIN slices
  BY <1>2 DEF Alloc
<1>3. QED
  BY <1>1, <1>2

\* Only the slice that is written changes.
LEMMA PutAlloc ==
    ASSUME NEW name, NEW id, NEW alloc, Put(name, id, alloc), NEW n
    PROVE  Alloc(n)' = IF n = name THEN alloc ELSE Alloc(n)
<1>1. DOMAIN slices' = DOMAIN slices \cup {name}
  BY DEF Put
<1>2. \A m \in DOMAIN slices' :
          slices'[m] = IF m = name THEN [id |-> id, alloc |-> alloc] ELSE slices[m]
  BY DEF Put
<1>3. CASE n = name
  BY <1>1, <1>2, <1>3 DEF Alloc
<1>4. CASE n # name /\ n \in DOMAIN slices
  BY <1>1, <1>2, <1>4 DEF Alloc
<1>5. CASE n # name /\ n \notin DOMAIN slices
  BY <1>1, <1>5 DEF Alloc
<1>6. QED
  BY <1>3, <1>4, <1>5

LEMMA PutType ==
    ASSUME TypeOK, NEW name, NEW id \in Identity,
           NEW alloc \in [Offsets -> Callers \cup {None}], Put(name, id, alloc)
    PROVE  \A n \in DOMAIN slices' :
              slices'[n] \in [id : Identity, alloc : [Offsets -> Callers \cup {None}]]
<1> SUFFICES ASSUME NEW n \in DOMAIN slices'
             PROVE  slices'[n] \in [id : Identity, alloc : [Offsets -> Callers \cup {None}]]
  OBVIOUS
<1>1. CASE n = name
  <2>1. slices'[n] = [id |-> id, alloc |-> alloc]
    BY <1>1 DEF Put
  <2>2. QED
    BY <2>1
<1>2. CASE n # name
  <2>1. n \in DOMAIN slices /\ slices'[n] = slices[n]
    BY <1>2 DEF Put
  <2>2. QED
    BY <2>1 DEF TypeOK
<1>3. QED
  BY <1>1, <1>2

LEMMA FreedType ==
    ASSUME NEW alloc \in [Offsets -> Callers \cup {None}], NEW reqName
    PROVE  Freed(alloc, reqName) \in [Offsets -> Callers \cup {None}]
  BY DEF Freed

\* A request is a caller's own: the offsets that it names are the caller's.
LEMMA NamedIs ==
    ASSUME NEW alloc \in [Offsets -> Callers \cup {None}], NEW c \in Callers
    PROVE  Named(alloc, RequestName(c)) = {o \in Offsets : alloc[o] = c}
<1>1. ASSUME NEW o \in Offsets
      PROVE  o \in Named(alloc, RequestName(c)) <=> alloc[o] = c
  <2>1. alloc[o] = None \/ alloc[o] \in Callers
    OBVIOUS
  <2>2. c # None
    BY BlocksAssumption
  <2>3. alloc[o] \in Callers /\ RequestName(alloc[o]) = RequestName(c) => alloc[o] = c
    BY RequestNamesDiffer
  <2>4. QED
    BY <2>1, <2>2, <2>3 DEF Named
<1>2. QED
  BY <1>1 DEF Named

LEMMA PicksType ==
    ASSUME NEW alloc, NEW reqName
    PROVE  Picks(alloc, reqName) \subseteq Offsets
  BY DEF Picks, Named

\* A pick is free, unless the caller has one.
LEMMA PicksAre ==
    ASSUME NEW alloc \in [Offsets -> Callers \cup {None}], NEW c \in Callers,
           NEW o \in Picks(alloc, RequestName(c))
    PROVE  /\ o \in Offsets
           /\ \/ alloc[o] = c
              \/ alloc[o] = None /\ \A p \in Offsets : alloc[p] # c
<1>1. Named(alloc, RequestName(c)) = {p \in Offsets : alloc[p] = c}
  BY NamedIs
<1>2. QED
  BY <1>1 DEF Picks

LEMMA FreedIs ==
    ASSUME NEW alloc \in [Offsets -> Callers \cup {None}], NEW c \in Callers, NEW o \in Offsets
    PROVE  Freed(alloc, RequestName(c))[o] = IF alloc[o] = c THEN None ELSE alloc[o]
  BY NamedIs DEF Freed

-----------------------------------------------------------------------------
(* The slices of a subnet. *)

LEMMA SubnetBaseType ==
    ASSUME NEW c \in Callers
    PROVE  SubnetBase(c) \in Addresses /\ Masked(SubnetBase(c)) = SubnetBase(c)
<1> DEFINE n == Subnet[c].slices
           size == n * Hosts
           v == Value(Subnet[c].addr)
<1>1. n \in Nat /\ n > 0 /\ Subnet[c].addr \in Addresses
  BY BlocksAssumption
<1>2. v \in Nat
  BY <1>1, ValueType
<1>3. SubnetBase(c) = OfValue(v - (v % size))
  BY DEF SubnetBase
<1> HIDE DEF v, n
<1>4. size \in Nat /\ size > 0
  BY <1>1, Sizes
<1>5. v - (v % size) \in Multiples
  <2> DEFINE q == v \div size
             r == v % size
  <2>1. q \in Nat /\ r \in Nat /\ v = q * size + r
    <3> HIDE DEF size
    <3>1. QED
      BY <1>2, <1>4, DivMod
  <2> HIDE DEF q, r
  <2>2. q * size = (q * n) * Hosts /\ q * n \in Nat /\ q * size \in Nat
    BY <1>1, <2>1, Sizes
  <2>3. v - r = q * size
    <3> HIDE DEF size
    <3>1. QED
      BY <1>2, <2>1, <2>2
  <2>4. QED
    BY <2>2, <2>3 DEF Multiples, r
<1>6. QED
  BY <1>3, <1>5, OfMultiple

LEMMA SliceAtType ==
    ASSUME NEW c \in Callers, NEW i \in Nat
    PROVE  /\ SliceAt(c, i) \in Addresses /\ Masked(SliceAt(c, i)) = SliceAt(c, i)
           /\ i * Hosts \in Nat
<1>1. i * Hosts \in Nat /\ i * Hosts \in Multiples
  BY Sizes DEF Multiples
<1>2. QED
  BY <1>1, SubnetBaseType, AddMultiple DEF SliceAt

\* The identity that a client gives to an aligned slice is valid.
LEMMA SpecIsValid ==
    ASSUME NEW c \in Callers, NEW prefix \in Addresses, Masked(prefix) = prefix
    PROVE  SpecOf(c, prefix) \in Identity /\ CRDIdentity(SpecOf(c, prefix))
<1>1. SpecOf(c, prefix) \in Identity
  BY SpecIsIdentity
<1>2. IsNetwork(Network[c])
  BY BlocksAssumption
<1>3. QED
  BY <1>1, <1>2 DEF CRDIdentity, SpecOf, Text

\* Whoever has written before, a valid identity is admitted under its name, and what
\* has its name has it.
LEMMA ValidAdmitted ==
    ASSUME Identified, NEW id \in Identity, CRDIdentity(id)
    PROVE  /\ Admits(Name(id), id)
           /\ Name(id) \in DOMAIN slices => slices[Name(id)].id = id
<1>1. Name(id) = CanonicalName(id)
  BY NamesAgree
<1>2. Name(id) \in DOMAIN slices => slices[Name(id)].id = id
  <2> SUFFICES ASSUME Name(id) \in DOMAIN slices
               PROVE  slices[Name(id)].id = id
    OBVIOUS
  <2>1. /\ slices[Name(id)].id \in Identity /\ CRDIdentity(slices[Name(id)].id)
        /\ CanonicalName(slices[Name(id)].id) = CanonicalName(id)
    BY <1>1 DEF Identified
  <2>2. QED
    BY <2>1, NameIdentifies
<1>3. QED
  BY <1>1, <1>2 DEF Admits

\* The addresses of the slices of a subnet are those of the subnet.
LEMMA SubnetAddressesAre ==
    ASSUME NEW c \in Callers
    PROVE  /\ \A i \in 0 .. Subnet[c].slices - 1, o \in Offsets :
                 AddAddr(SliceAt(c, i), o) \in SubnetAddresses(c)
           /\ \A a \in SubnetAddresses(c) : \E i \in 0 .. Subnet[c].slices - 1, o \in Offsets :
                 a = AddAddr(SliceAt(c, i), o)
<1> DEFINE n == Subnet[c].slices
           base == SubnetBase(c)
<1>1. n \in Nat /\ n > 0 /\ base \in Addresses
  BY BlocksAssumption, SubnetBaseType
<1>2. ASSUME NEW i \in Nat, NEW o \in Offsets
      PROVE  i * Hosts + o \in Nat
             /\ AddAddr(SliceAt(c, i), o) = OfValue(Value(base) + (i * Hosts + o))
  <2>1. o \in Nat /\ i * Hosts \in Nat
    BY SliceAtType DEF Offsets
  <2>2. AddAddr(SliceAt(c, i), o) = AddAddr(base, i * Hosts + o)
    BY <1>1, <2>1, AddAddrTwice DEF SliceAt
  <2>3. QED
    BY <1>1, <2>1, <2>2, AddAddrIs
<1>3. ASSUME NEW i \in 0 .. n - 1, NEW o \in Offsets
      PROVE  i * Hosts + o \in 0 .. n * Hosts - 1
  <2> HIDE DEF n
  <2>1. \A x, y, b \in Nat : x <= y => x * b <= y * b
    OBVIOUS
  <2>2. (i + 1) * Hosts <= n * Hosts
    BY <1>1, <2>1, Sizes
  <2>3. (i + 1) * Hosts = i * Hosts + Hosts /\ i * Hosts \in Nat /\ n * Hosts \in Nat
    BY <1>1, Sizes
  <2>4. o \in Nat /\ o + 1 <= Hosts
    BY Sizes DEF Offsets
  <2>5. QED
    BY <2>2, <2>3, <2>4, Sizes
<1>4. ASSUME NEW k \in 0 .. n * Hosts - 1
      PROVE  \E i \in 0 .. n - 1, o \in Offsets : k = i * Hosts + o
  <2> DEFINE i == k \div Hosts
             o == k % Hosts
  <2>0. k \in Nat /\ n * Hosts \in Nat /\ k < n * Hosts
    <3> HIDE DEF n
    <3>1. n * Hosts \in Nat
      BY <1>1, Sizes
    <3>2. QED
      BY <3>1
  <2>1. i \in Nat /\ o \in 0 .. Hosts - 1 /\ k = i * Hosts + o
    BY <2>0, DivMod, Sizes
  <2> HIDE DEF i, o, n
  <2>2. i < n
    <3> SUFFICES ASSUME n <= i
                 PROVE  FALSE
      BY <1>1, <2>1
    <3>1. \A x, y, b \in Nat : x <= y => x * b <= y * b
      OBVIOUS
    <3>2. n * Hosts <= i * Hosts /\ i * Hosts \in Nat
      BY <1>1, <2>1, <3>1, Sizes
    <3>3. QED
      BY <2>0, <2>1, <3>2, Sizes
  <2>3. QED
    BY <1>1, <2>1, <2>2 DEF Offsets
<1>5. ASSUME NEW i \in 0 .. n - 1, NEW o \in Offsets
      PROVE  AddAddr(SliceAt(c, i), o) \in SubnetAddresses(c)
  <2>1. i \in Nat
    OBVIOUS
  <2>2. AddAddr(SliceAt(c, i), o) = OfValue(Value(base) + (i * Hosts + o))
    BY <1>2, <2>1
  <2>3. i * Hosts + o \in 0 .. n * Hosts - 1
    BY <1>3
  <2>4. QED
    BY <2>2, <2>3 DEF SubnetAddresses
<1>6. ASSUME NEW a \in SubnetAddresses(c)
      PROVE  \E i \in 0 .. n - 1, o \in Offsets : a = AddAddr(SliceAt(c, i), o)
  <2>1. PICK k \in 0 .. n * Hosts - 1 : a = OfValue(Value(base) + k)
    BY DEF SubnetAddresses
  <2>2. PICK i \in 0 .. n - 1, o \in Offsets : k = i * Hosts + o
    BY <1>4
  <2>3. i \in Nat
    OBVIOUS
  <2>4. a = AddAddr(SliceAt(c, i), o)
    BY <1>2, <2>1, <2>2, <2>3
  <2>5. QED
    BY <2>4
<1>7. QED
  BY <1>5, <1>6
-----------------------------------------------------------------------------
(* The state of the callers. *)

\* Every answer is in a slice of its caller's subnet.
Placed ==
    \A c \in Callers : answer[c] # None =>
        \E i \in 0 .. Subnet[c].slices - 1, o \in Offsets : answer[c] = AddAddr(SliceAt(c, i), o)

\* The name of the slice of an answer, and the offset there.
SliceOf(c) == Name(SpecOf(c, Masked(answer[c])))
OffsetOf(c) == OffsetForAddr(Masked(answer[c]), answer[c])

\* A caller holds nothing but the offset of its answer in the slice of it, whatever the
\* names and the networks of others.
OnlyAnswer(c) ==
    \A n, o : o \in Offsets /\ Alloc(n)[o] = c =>
        answer[c] # None /\ n = SliceOf(c) /\ o = OffsetOf(c)

\* It does hold it, unless that slice was deleted.
Keeps(c) == answer[c] # None /\ Alloc(SliceOf(c))[OffsetOf(c)] = c
HoldsAnswer(c) == answer[c] # None => Alloc(SliceOf(c))[OffsetOf(c)] = c

Inv ==
    /\ TypeOK
    /\ Identified
    /\ NoClientDenied
    /\ Placed
    /\ \A c \in Callers : OnlyAnswer(c)
    /\ ~deleted => \A c \in Callers : HoldsAnswer(c)

\* Where an answer is.
LEMMA PlaceOf ==
    ASSUME NEW c \in Callers, NEW i \in 0 .. Subnet[c].slices - 1, NEW o \in Offsets,
           answer[c] = AddAddr(SliceAt(c, i), o)
    PROVE  /\ answer[c] \in Addresses /\ answer[c] # None
           /\ Masked(answer[c]) = SliceAt(c, i)
           /\ SliceOf(c) = Name(SpecOf(c, SliceAt(c, i))) /\ OffsetOf(c) = o
<1>1. SliceAt(c, i) \in Addresses /\ Masked(SliceAt(c, i)) = SliceAt(c, i)
  BY SliceAtType
<1>2. /\ answer[c] \in Addresses /\ Masked(answer[c]) = SliceAt(c, i)
      /\ OffsetForAddr(SliceAt(c, i), answer[c]) = o
  BY <1>1, AddressIn
<1>3. QED
  BY <1>2, BlocksAssumption DEF SliceOf, OffsetOf

\* What a client writes for its answer is valid.
LEMMA AnswerIsValid ==
    ASSUME Placed, NEW c \in Callers, answer[c] # None
    PROVE  /\ SpecOf(c, Masked(answer[c])) \in Identity
           /\ CRDIdentity(SpecOf(c, Masked(answer[c])))
           /\ answer[c] = Rendered(Masked(answer[c]), OffsetOf(c))
           /\ OffsetOf(c) \in Offsets /\ Masked(answer[c]) \in Addresses
           /\ Masked(Masked(answer[c])) = Masked(answer[c])
<1>1. PICK i \in 0 .. Subnet[c].slices - 1, o \in Offsets : answer[c] = AddAddr(SliceAt(c, i), o)
  BY DEF Placed
<1>2. Masked(answer[c]) = SliceAt(c, i) /\ OffsetOf(c) = o
  BY <1>1, PlaceOf
<1>3. SliceAt(c, i) \in Addresses /\ Masked(SliceAt(c, i)) = SliceAt(c, i)
  BY SliceAtType
<1>4. SpecOf(c, SliceAt(c, i)) \in Identity /\ CRDIdentity(SpecOf(c, SliceAt(c, i)))
  BY <1>3, SpecIsValid
<1>5. answer[c] = Rendered(SliceAt(c, i), o)
  BY <1>1, <1>3, LoopRenders
<1>6. QED
  BY <1>2, <1>3, <1>4, <1>5

\* What a caller holds depends on the slices and on its own answer alone.
LEMMA PlaceStays ==
    ASSUME NEW c \in Callers, answer'[c] = answer[c]
    PROVE  SliceOf(c)' = SliceOf(c) /\ OffsetOf(c)' = OffsetOf(c)
  BY DEF SliceOf, OffsetOf

LEMMA OnlyAnswerStays ==
    ASSUME NEW c \in Callers, OnlyAnswer(c), answer'[c] = answer[c],
           \A n, o : o \in Offsets /\ Alloc(n)'[o] = c => Alloc(n)[o] = c
    PROVE  OnlyAnswer(c)'
  BY PlaceStays DEF OnlyAnswer

LEMMA HoldsAnswerStays ==
    ASSUME Placed, NEW c \in Callers, HoldsAnswer(c), answer'[c] = answer[c],
           \A n, o : o \in Offsets /\ Alloc(n)[o] = c => Alloc(n)'[o] = c
    PROVE  HoldsAnswer(c)'
<1>1. ASSUME NEW n, NEW o, n = SliceOf(c), o = OffsetOf(c), answer[c] # None
      PROVE  Alloc(n)'[o] = c
  <2>1. o \in Offsets
    BY <1>1, AnswerIsValid
  <2>2. QED
    BY <1>1, <2>1 DEF HoldsAnswer
<1>2. QED
  BY <1>1, PlaceStays DEF HoldsAnswer

LEMMA KeepsStays ==
    ASSUME Placed, NEW c \in Callers, answer'[c] = answer[c],
           \A n, o : o \in Offsets => (Alloc(n)'[o] = c <=> Alloc(n)[o] = c)
    PROVE  Keeps(c)' <=> Keeps(c)
<1>1. ASSUME NEW n, NEW o, n = SliceOf(c), o = OffsetOf(c), answer[c] # None
      PROVE  Alloc(n)'[o] = c <=> Alloc(n)[o] = c
  <2>1. o \in Offsets
    BY <1>1, AnswerIsValid
  <2>2. QED
    BY <2>1
<1>2. QED
  BY <1>1, PlaceStays DEF Keeps

\* The caller has its answer then; nothing changes if it had one, or for the others.
LEMMA AllocateStep ==
    ASSUME Inv, NEW c \in Callers, NEW i \in 0 .. Subnet[c].slices - 1, Allocate(c, i)
    PROVE  /\ Inv'
           /\ Keeps(c)' /\ (Keeps(c) => answer'[c] = answer[c])
           /\ \A d \in Callers : d # c => answer'[d] = answer[d] /\ (Keeps(d)' <=> Keeps(d))
<1> DEFINE prefix == SliceAt(c, i)
           id == SpecOf(c, prefix)
           alloc == Alloc(Name(id))
<1>1. prefix \in Addresses /\ Masked(prefix) = prefix
  BY SliceAtType
<1>2. id \in Identity /\ CRDIdentity(id)
  BY <1>1, SpecIsValid
<1>3. Admits(Name(id), id)
  BY <1>2, ValidAdmitted DEF Inv
<1>4. PICK o \in Picks(alloc, RequestName(c)) :
          /\ Put(Name(id), id, [alloc EXCEPT ![o] = c])
          /\ answer' = [answer EXCEPT ![c] = AddAddr(prefix, o)]
          /\ UNCHANGED <<denied, deleted>>
  BY <1>3 DEF Allocate
<1>5. alloc \in [Offsets -> Callers \cup {None}]
  BY AllocType DEF Inv
<1>6. /\ o \in Offsets
      /\ \/ alloc[o] = c
         \/ alloc[o] = None /\ \A p \in Offsets : alloc[p] # c
  BY <1>4, <1>5, PicksAre
<1>7. AddAddr(prefix, o) \in Addresses
  BY <1>1, <1>6, AddressIn
<1>8. answer \in [Callers -> Addresses \cup {None}]
  BY DEF Inv, TypeOK
<1>9. answer'[c] = AddAddr(prefix, o) /\ \A d \in Callers : d # c => answer'[d] = answer[d]
  BY <1>4, <1>8
<1>10. answer[c] = None \/ Subnet[c].slices = 1
  BY DEF Allocate
<1> DEFINE new == [alloc EXCEPT ![o] = c]
<1> HIDE DEF id, alloc, prefix
<1>11. new \in [Offsets -> Callers \cup {None}]
  BY <1>5, <1>6
<1>12. Put(Name(id), id, new)
  BY <1>4
<1>13. /\ new[o] = c /\ \A p \in Offsets : p # o => new[p] = alloc[p]
  BY <1>5, <1>6
<1> HIDE DEF new
<1>14. TypeOK'
  <2>1. \A n \in DOMAIN slices' :
            slices'[n] \in [id : Identity, alloc : [Offsets -> Callers \cup {None}]]
    BY <1>2, <1>11, <1>12, PutType DEF Inv
  <2>2. answer' \in [Callers -> Addresses \cup {None}]
    BY <1>4, <1>7, <1>8
  <2>3. QED
    BY <1>4, <2>1, <2>2 DEF Inv, TypeOK
<1>15. Identified'
  BY <1>2, <1>3, <1>12, PutIdentified DEF Inv
<1>16. NoClientDenied'
  BY <1>4 DEF Inv, NoClientDenied
<1>17. Placed'
  BY <1>6, <1>9 DEF Inv, Placed, prefix
<1>18. \A n : Alloc(n)' = IF n = Name(id) THEN new ELSE Alloc(n)
  BY <1>12, PutAlloc
<1>19. \A n, p : p \in Offsets => (Alloc(n)[p] = c => n = Name(id) /\ (alloc[o] = c => p = o))
  <2>1. OnlyAnswer(c)
    BY DEF Inv
  <2>2. CASE answer[c] = None
    BY <2>1, <2>2 DEF OnlyAnswer
  <2>3. CASE answer[c] # None
    <3>1. Subnet[c].slices = 1
      BY <1>10, <2>3
    <3>2. PICK j \in 0 .. Subnet[c].slices - 1, q \in Offsets :
              answer[c] = AddAddr(SliceAt(c, j), q)
      BY <2>3 DEF Inv, Placed
    <3>3. j = i
      BY <3>1
    <3>4. SliceOf(c) = Name(id) /\ OffsetOf(c) = q
      BY <3>2, <3>3, PlaceOf DEF id, prefix
    <3>5. \A n, p : p \in Offsets => (Alloc(n)[p] = c => n = Name(id) /\ p = q)
      BY <2>1, <2>3, <3>4 DEF OnlyAnswer
    <3>6. alloc[o] = c => o = q
      BY <1>6, <3>5 DEF alloc
    <3>7. QED
      BY <3>5, <3>6
  <2>4. QED
    BY <2>2, <2>3
<1>20. SliceOf(c)' = Name(id) /\ OffsetOf(c)' = o /\ answer'[c] # None
  <2>1. /\ Masked(AddAddr(prefix, o)) = prefix
        /\ OffsetForAddr(prefix, AddAddr(prefix, o)) = o
    BY <1>1, <1>6, AddressIn
  <2>2. answer'[c] # None
    BY <1>7, <1>9, BlocksAssumption
  <2>3. SliceOf(c)' = Name(SpecOf(c, Masked(answer'[c])))
    BY DEF SliceOf, SpecOf
  <2>4. OffsetOf(c)' = OffsetForAddr(Masked(answer'[c]), answer'[c])
    BY DEF OffsetOf
  <2>5. QED
    BY <1>9, <2>1, <2>2, <2>3, <2>4 DEF id
<1>21. ASSUME NEW d \in Callers, d # c, NEW n, NEW p, p \in Offsets
       PROVE  Alloc(n)'[p] = d <=> Alloc(n)[p] = d
  <2>1. alloc[o] # d
    BY <1>6, <1>21, BlocksAssumption
  <2>2. new[p] = d <=> alloc[p] = d
    BY <1>13, <1>21, <2>1
  <2>3. QED
    BY <1>18, <2>2 DEF alloc
<1>22. ASSUME NEW d \in Callers
       PROVE  OnlyAnswer(d)'
  <2>1. OnlyAnswer(d)
    BY DEF Inv
  <2>2. CASE d # c
    BY <1>9, <1>21, <2>1, <2>2, OnlyAnswerStays
  <2>3. CASE d = c
    <3>1. ASSUME NEW n, NEW p, p \in Offsets, Alloc(n)'[p] = c
          PROVE  n = Name(id) /\ p = o
      <4>1. n = Name(id)
        BY <1>18, <1>19, <3>1
      <4>2. new[p] = c
        BY <1>18, <3>1, <4>1
      <4>3. p # o => alloc[p] = c /\ alloc[o] # c
        BY <1>13, <1>19, <3>1, <4>2 DEF alloc
      <4>4. QED
        BY <1>6, <3>1, <4>1, <4>3
    <3>2. QED
      BY <1>20, <2>3, <3>1 DEF OnlyAnswer
  <2>4. QED
    BY <2>2, <2>3
<1>23. ASSUME ~deleted', NEW d \in Callers
       PROVE  HoldsAnswer(d)'
  <2>1. HoldsAnswer(d) /\ Placed
    BY <1>4, <1>23 DEF Inv
  <2>2. CASE d # c
    BY <1>9, <1>21, <2>1, <2>2, HoldsAnswerStays
  <2>3. CASE d = c
    BY <1>13, <1>18, <1>20, <2>3 DEF HoldsAnswer
  <2>4. QED
    BY <2>2, <2>3
<1>24. Keeps(c)'
  BY <1>13, <1>18, <1>20 DEF Keeps
<1>25. Keeps(c) => answer'[c] = answer[c]
  <2> SUFFICES ASSUME Keeps(c)
               PROVE  answer'[c] = answer[c]
    OBVIOUS
  <2>1. Subnet[c].slices = 1
    BY <1>10 DEF Keeps
  <2>2. PICK j \in 0 .. Subnet[c].slices - 1, q \in Offsets :
            answer[c] = AddAddr(SliceAt(c, j), q)
    BY DEF Inv, Placed, Keeps
  <2>3. j = i
    BY <2>1
  <2>4. SliceOf(c) = Name(id) /\ OffsetOf(c) = q
    BY <2>2, <2>3, PlaceOf DEF id, prefix
  <2>5. alloc[q] = c
    BY <2>4 DEF Keeps, alloc
  <2>6. alloc[o] = c
    BY <1>6, <2>5
  <2>7. q = o
    BY <1>19, <2>5, <2>6 DEF alloc
  <2>8. QED
    BY <1>9, <2>2, <2>3, <2>7 DEF prefix
<1>26. ASSUME NEW d \in Callers, d # c
       PROVE  answer'[d] = answer[d] /\ (Keeps(d)' <=> Keeps(d))
  BY <1>9, <1>21, <1>26, KeepsStays DEF Inv
<1>27. Inv'
  BY <1>14, <1>15, <1>16, <1>17, <1>22, <1>23 DEF Inv
<1>28. QED
  BY <1>24, <1>25, <1>26, <1>27

\* Once a slice was deleted a release by address may find another holder.
LEMMA RemoveStep ==
    ASSUME Inv, NEW c \in Callers, answer[c] # None, NEW d \in Callers,
           d = c \/ Alloc(SliceOf(c))[OffsetOf(c)] = d,
           Remove(c, SpecOf(c, Masked(answer[c])), RequestName(d))
    PROVE  /\ Inv'
           /\ \A e \in Callers : /\ Keeps(e)' <=> Keeps(e) /\ e # d
                                 /\ Keeps(e)' => answer'[e] = answer[e]
<1> DEFINE id == SpecOf(c, Masked(answer[c]))
           alloc == Alloc(Name(id))
           new == Freed(alloc, RequestName(d))
<1>1. id \in Identity /\ CRDIdentity(id)
  BY AnswerIsValid DEF Inv
<1>2. Admits(Name(id), id)
  BY <1>1, ValidAdmitted DEF Inv
<1>3. /\ Put(Name(id), id, new)
      /\ answer' = [answer EXCEPT ![c] = None]
      /\ UNCHANGED <<denied, deleted>>
  BY <1>2 DEF Remove
<1>4. alloc \in [Offsets -> Callers \cup {None}]
  BY AllocType DEF Inv
<1>5. /\ new \in [Offsets -> Callers \cup {None}]
      /\ \A p \in Offsets : new[p] = IF alloc[p] = d THEN None ELSE alloc[p]
  <2> HIDE DEF alloc
  <2>1. QED
    BY <1>4, FreedType, FreedIs
<1>6. answer \in [Callers -> Addresses \cup {None}]
  BY DEF Inv, TypeOK
<1>7. answer'[c] = None /\ \A e \in Callers : e # c => answer'[e] = answer[e]
  BY <1>3, <1>6
<1>8. Name(id) = SliceOf(c)
  BY DEF SliceOf
<1> HIDE DEF id, alloc, new
<1>9. TypeOK'
  <2>1. \A n \in DOMAIN slices' :
            slices'[n] \in [id : Identity, alloc : [Offsets -> Callers \cup {None}]]
    BY <1>1, <1>3, <1>5, PutType DEF Inv
  <2>2. answer' \in [Callers -> Addresses \cup {None}]
    BY <1>3, <1>6
  <2>3. QED
    BY <1>3, <2>1, <2>2 DEF Inv, TypeOK
<1>10. Identified'
  BY <1>1, <1>2, <1>3, PutIdentified DEF Inv
<1>11. NoClientDenied'
  BY <1>3 DEF Inv, NoClientDenied
<1>12. Placed'
  BY <1>7 DEF Inv, Placed
<1>13. \A n : Alloc(n)' = IF n = Name(id) THEN new ELSE Alloc(n)
  BY <1>3, PutAlloc
<1>14. ASSUME NEW e \in Callers, NEW n, NEW p, p \in Offsets
       PROVE  /\ Alloc(n)'[p] = e => Alloc(n)[p] = e
              /\ e # d /\ Alloc(n)[p] = e => Alloc(n)'[p] = e
  <2>1. e # None
    BY BlocksAssumption
  <2>2. QED
    BY <1>5, <1>13, <1>14, <2>1 DEF alloc
<1>15. ASSUME NEW n, NEW p, p \in Offsets
       PROVE  Alloc(n)'[p] # c
  <2> SUFFICES ASSUME Alloc(n)'[p] = c
               PROVE  FALSE
    OBVIOUS
  <2>1. Alloc(n)[p] = c
    BY <1>14, <1>15
  <2>2. n = SliceOf(c) /\ p = OffsetOf(c)
    BY <1>15, <2>1 DEF Inv, OnlyAnswer
  <2>3. d = c
    BY <2>1, <2>2
  <2>4. new[p] = c /\ alloc[p] = c
    BY <1>8, <1>13, <2>1, <2>2 DEF alloc
  <2>5. c # None
    BY BlocksAssumption
  <2>6. QED
    BY <1>5, <1>15, <2>3, <2>4, <2>5
<1>16. ASSUME NEW e \in Callers
       PROVE  OnlyAnswer(e)'
  <2>1. CASE e = c
    BY <1>15, <2>1 DEF OnlyAnswer
  <2>2. CASE e # c
    <3>1. OnlyAnswer(e)
      BY DEF Inv
    <3>2. QED
      BY <1>7, <1>14, <2>2, <3>1, OnlyAnswerStays
  <2>3. QED
    BY <2>1, <2>2
<1>17. ASSUME ~deleted', NEW e \in Callers
       PROVE  HoldsAnswer(e)'
  <2>1. CASE e = c
    BY <1>7, <2>1 DEF HoldsAnswer
  <2>2. CASE e # c
    <3>1. HoldsAnswer(e) /\ HoldsAnswer(c) /\ Placed
      BY <1>3, <1>17 DEF Inv
    <3>2. d = c
      BY <3>1 DEF HoldsAnswer
    <3>3. QED
      BY <1>7, <1>14, <2>2, <3>1, <3>2, HoldsAnswerStays
  <2>3. QED
    BY <2>1, <2>2
<1>18. Inv'
  BY <1>9, <1>10, <1>11, <1>12, <1>16, <1>17 DEF Inv
<1>19. ASSUME NEW e \in Callers
       PROVE  Keeps(e)' <=> Keeps(e) /\ e # d
  <2>1. CASE e = c
    <3>1. ~Keeps(c)'
      BY <1>7 DEF Keeps
    <3>2. Keeps(c) => d = c
      BY DEF Keeps
    <3>3. QED
      BY <2>1, <3>1, <3>2
  <2>2. CASE e # c /\ e # d
    <3>1. \A n, p : p \in Offsets => (Alloc(n)'[p] = e <=> Alloc(n)[p] = e)
      BY <1>14, <2>2
    <3>2. QED
      BY <1>7, <2>2, <3>1, KeepsStays DEF Inv
  <2>3. CASE e # c /\ e = d
    <3>1. OffsetOf(c) \in Offsets /\ Alloc(SliceOf(c))[OffsetOf(c)] = d
      BY <2>3, AnswerIsValid DEF Inv
    <3>2. answer[d] # None /\ SliceOf(d) = Name(id)
      BY <1>8, <3>1 DEF Inv, OnlyAnswer
    <3>3. OffsetOf(d) \in Offsets /\ SliceOf(d)' = Name(id) /\ OffsetOf(d)' = OffsetOf(d)
      BY <1>7, <2>3, <3>2, AnswerIsValid, PlaceStays DEF Inv
    <3>4. new[OffsetOf(d)] # d
      BY <1>5, <3>3, BlocksAssumption
    <3>5. ~Keeps(d)'
      BY <1>13, <3>3, <3>4 DEF Keeps
    <3>6. QED
      BY <2>3, <3>5
  <2>4. QED
    BY <2>1, <2>2, <2>3
<1>20. ASSUME NEW e \in Callers, Keeps(e)'
       PROVE  answer'[e] = answer[e]
  BY <1>7, <1>20 DEF Keeps
<1>21. QED
  BY <1>18, <1>19, <1>20

LEMMA ReleaseStep ==
    ASSUME Inv, NEW c \in Callers, Release(c)
    PROVE  /\ Inv'
           /\ \A e \in Callers : /\ Keeps(e)' <=> Keeps(e) /\ e # c
                                 /\ Keeps(e)' => answer'[e] = answer[e]
  BY RemoveStep DEF Release

\* Once its slice was deleted, an address may be somebody else's, or nobody's.
LEMMA ReleaseByAddressStep ==
    ASSUME Inv, NEW c \in Callers, ReleaseByAddress(c)
    PROVE  /\ Inv'
           /\ \E d \in Callers \cup {None} : \A e \in Callers :
                 /\ Keeps(e)' <=> Keeps(e) /\ e # d
                 /\ Keeps(e)' => answer'[e] = answer[e]
<1> DEFINE prefix == Masked(answer[c])
           id == SpecOf(c, prefix)
           holder == Alloc(Name(id))[OffsetForAddr(prefix, answer[c])]
<1>1. answer[c] # None
  BY DEF ReleaseByAddress
<1>2. OffsetForAddr(prefix, answer[c]) \in Offsets
  BY <1>1, AnswerIsValid DEF Inv, OffsetOf
<1>3. holder \in Callers \cup {None}
  <2>1. Alloc(Name(id)) \in [Offsets -> Callers \cup {None}]
    BY AllocType DEF Inv
  <2> HIDE DEF id, prefix
  <2>2. QED
    BY <1>2, <2>1
<1>4. holder = Alloc(SliceOf(c))[OffsetOf(c)] /\ c # None
  BY BlocksAssumption DEF SliceOf, OffsetOf
<1>5. CASE holder = None
  <2>1. answer' = [answer EXCEPT ![c] = None] /\ UNCHANGED <<slices, denied, deleted>>
    BY <1>5 DEF ReleaseByAddress
  <2>2. deleted = TRUE
    BY <1>1, <1>4, <1>5 DEF Inv, TypeOK, HoldsAnswer
  <2>3. answer \in [Callers -> Addresses \cup {None}]
    BY DEF Inv, TypeOK
  <2>4. answer'[c] = None /\ \A e \in Callers : e # c => answer'[e] = answer[e]
    BY <2>1, <2>3
  <2>5. TypeOK'
    BY <2>1, <2>3 DEF Inv, TypeOK
  <2>6. Identified'
    BY <2>1 DEF Inv, Identified
  <2>7. NoClientDenied'
    BY <2>1 DEF Inv, NoClientDenied
  <2>8. Placed'
    BY <2>4 DEF Inv, Placed
  <2>9. \A n : Alloc(n)' = Alloc(n)
    BY <2>1 DEF Alloc
  <2>10. ASSUME NEW e \in Callers
         PROVE  OnlyAnswer(e)'
    <3>1. OnlyAnswer(e)
      BY DEF Inv
    <3>2. CASE e = c
      BY <1>4, <1>5, <2>9, <3>1, <3>2 DEF OnlyAnswer
    <3>3. CASE e # c
      BY <2>4, <2>9, <3>1, <3>3, OnlyAnswerStays
    <3>4. QED
      BY <3>2, <3>3
  <2>11. Inv'
    BY <2>1, <2>2, <2>5, <2>6, <2>7, <2>8, <2>10 DEF Inv
  <2>12. ASSUME NEW e \in Callers
         PROVE  /\ Keeps(e)' <=> Keeps(e) /\ e # None
                /\ Keeps(e)' => answer'[e] = answer[e]
    <3>1. CASE e = c
      BY <1>4, <1>5, <2>4, <3>1 DEF Keeps
    <3>2. CASE e # c
      <4>1. Keeps(e)' <=> Keeps(e)
        BY <2>4, <2>9, <3>2, KeepsStays DEF Inv
      <4>2. QED
        BY <2>4, <3>2, <4>1, BlocksAssumption
    <3>3. QED
      BY <3>1, <3>2
  <2>13. QED
    BY <2>11, <2>12
<1>6. CASE holder # None
  <2>1. Remove(c, id, RequestName(holder))
    BY <1>6 DEF ReleaseByAddress
  <2>2. holder \in Callers
    BY <1>3, <1>6
  <2> HIDE DEF holder
  <2>3. Alloc(SliceOf(c))[OffsetOf(c)] = holder
    BY <1>4
  <2>4. /\ Inv'
        /\ \A e \in Callers : /\ Keeps(e)' <=> Keeps(e) /\ e # holder
                              /\ Keeps(e)' => answer'[e] = answer[e]
    BY <1>1, <2>1, <2>2, <2>3, RemoveStep
  <2>5. \E d \in Callers \cup {None} : \A e \in Callers :
            /\ Keeps(e)' <=> Keeps(e) /\ e # d
            /\ Keeps(e)' => answer'[e] = answer[e]
    <3> WITNESS holder \in Callers \cup {None}
    <3>1. QED
      BY <2>4
  <2>6. QED
    BY <2>4, <2>5
<1>7. QED
  BY <1>5, <1>6

LEMMA WriteStep ==
    ASSUME Inv, NEW id \in Identities, NEW name, Write(name, id)
    PROVE  /\ Inv'
           /\ \A c \in Callers : answer'[c] = answer[c] /\ (Keeps(c)' <=> Keeps(c))
<1>1. id \in Identity
  BY BlocksAssumption
<1>2. Admits(name, id) /\ Put(name, id, Alloc(name)) /\ UNCHANGED <<answer, denied, deleted>>
  BY DEF Write
<1>3. Alloc(name) \in [Offsets -> Callers \cup {None}]
  BY AllocType DEF Inv
<1>4. TypeOK'
  <2>1. \A n \in DOMAIN slices' :
            slices'[n] \in [id : Identity, alloc : [Offsets -> Callers \cup {None}]]
    BY <1>1, <1>2, <1>3, PutType DEF Inv
  <2>2. QED
    BY <1>2, <2>1 DEF Inv, TypeOK
<1>5. Identified'
  BY <1>1, <1>2, PutIdentified DEF Inv
<1>6. NoClientDenied' /\ Placed'
  BY <1>2 DEF Inv, NoClientDenied, Placed
<1>7. \A n : Alloc(n)' = Alloc(n)
  BY <1>2, PutAlloc
<1>8. \A c \in Callers : answer'[c] = answer[c]
  BY <1>2
<1>9. \A c \in Callers : OnlyAnswer(c)'
  BY <1>7, <1>8, OnlyAnswerStays DEF Inv
<1>10. ~deleted' => \A c \in Callers : HoldsAnswer(c)'
  BY <1>2, <1>7, <1>8, HoldsAnswerStays DEF Inv
<1>11. \A c \in Callers : Keeps(c)' <=> Keeps(c)
  BY <1>7, <1>8, KeepsStays DEF Inv
<1>12. Inv'
  BY <1>4, <1>5, <1>6, <1>9, <1>10 DEF Inv
<1>13. QED
  BY <1>8, <1>11, <1>12

LEMMA DeleteStep ==
    ASSUME Inv, NEW name \in DOMAIN slices, Delete(name)
    PROVE  /\ Inv'
           /\ \A c \in Callers : /\ answer'[c] = answer[c]
                                 /\ Keeps(c)' <=> Keeps(c) /\ SliceOf(c) # name
<1>1. /\ slices' = [n \in DOMAIN slices \ {name} |-> slices[n]]
      /\ deleted' = TRUE /\ UNCHANGED <<answer, denied>>
  BY DEF Delete
<1>2. TypeOK'
  BY <1>1 DEF Inv, TypeOK
<1>3. Identified'
  BY <1>1 DEF Inv, Identified
<1>4. NoClientDenied' /\ Placed'
  BY <1>1 DEF Inv, NoClientDenied, Placed
<1>5. ASSUME NEW c \in Callers
      PROVE  OnlyAnswer(c)'
  <2>1. \A n, o : o \in Offsets /\ Alloc(n)'[o] = c => Alloc(n)[o] = c
    BY <1>1, BlocksAssumption DEF Alloc
  <2>2. answer'[c] = answer[c] /\ OnlyAnswer(c)
    BY <1>1 DEF Inv
  <2>3. QED
    BY <2>1, <2>2, OnlyAnswerStays
<1>6. Inv'
  BY <1>1, <1>2, <1>3, <1>4, <1>5 DEF Inv
<1>7. ASSUME NEW c \in Callers
      PROVE  Keeps(c)' <=> Keeps(c) /\ SliceOf(c) # name
  <2>1. \A n : n # name => Alloc(n)' = Alloc(n)
    BY <1>1 DEF Alloc
  <2>2. \A o \in Offsets : Alloc(name)'[o] # c
    BY <1>1, BlocksAssumption DEF Alloc
  <2>3. answer'[c] = answer[c]
    BY <1>1
  <2>4. answer[c] # None => OffsetOf(c) \in Offsets
    BY AnswerIsValid DEF Inv
  <2>5. QED
    BY <2>1, <2>2, <2>3, <2>4, PlaceStays DEF Keeps
<1>8. QED
  BY <1>1, <1>6, <1>7

\* Inv is inductive.
THEOREM AlwaysInv == Spec => []Inv
<1>1. Init => Inv
  <2> SUFFICES ASSUME Init
               PROVE  Inv
    OBVIOUS
  <2>1. DOMAIN slices = {}
    BY DEF Init
  <2>2. \A n : Alloc(n) = [o \in Offsets |-> None]
    BY <2>1 DEF Alloc
  <2>3. \A c \in Callers : c # None /\ answer[c] = None
    BY BlocksAssumption DEF Init
  <2>4. \A c \in Callers : OnlyAnswer(c) /\ HoldsAnswer(c)
    BY <2>2, <2>3 DEF OnlyAnswer, HoldsAnswer
  <2>5. QED
    BY <2>1, <2>3, <2>4 DEF Init, Inv, TypeOK, Identified, NoClientDenied, Placed
<1>2. Inv /\ [Next]_vars => Inv'
  <2> SUFFICES ASSUME Inv, [Next]_vars
               PROVE  Inv'
    OBVIOUS
  <2>1. ASSUME NEW c \in Callers, NEW i \in 0 .. Subnet[c].slices - 1, Allocate(c, i)
        PROVE  Inv'
    BY <2>1, AllocateStep
  <2>2. ASSUME NEW c \in Callers, Release(c)
        PROVE  Inv'
    BY <2>2, ReleaseStep
  <2>3. ASSUME NEW c \in Callers, ReleaseByAddress(c)
        PROVE  Inv'
    BY <2>3, ReleaseByAddressStep
  <2>4. ASSUME NEW id \in Identities, NEW name \in Names, Write(name, id)
        PROVE  Inv'
    BY <2>4, WriteStep
  <2>5. ASSUME NEW name \in DOMAIN slices, Delete(name)
        PROVE  Inv'
    BY <2>5, DeleteStep
  <2>6. CASE UNCHANGED vars
    BY <2>6 DEF vars, Inv, TypeOK, Identified, NoClientDenied, Placed, OnlyAnswer,
                HoldsAnswer, Alloc, SliceOf, OffsetOf
  <2>7. QED
    BY <2>1, <2>2, <2>3, <2>4, <2>5, <2>6, Zenon DEF Next
<1>3. QED
  BY <1>1, <1>2, PTL DEF Spec

\* The values of the state.
THEOREM TypeCorrect == Spec => []TypeOK
<1>1. Inv => TypeOK
  BY DEF Inv
<1>2. QED
  BY <1>1, AlwaysInv, PTL

\* pkg/naming/naming.go:35: no call on a valid network and subnet is ever denied, whoever
\* has created, rewritten or deleted slices.
THEOREM NeverDenied == Spec => []NoClientDenied
<1>1. Inv => NoClientDenied
  BY DEF Inv
<1>2. QED
  BY <1>1, AlwaysInv, PTL

\* What is held is a place in a slice that is there.
LEMMA HoldsIs ==
    ASSUME Inv, NEW c \in Callers, NEW h
    PROVE  h \in Holds(c) <=> /\ answer[c] # None /\ h = <<SliceOf(c), OffsetOf(c)>>
                              /\ Alloc(SliceOf(c))[OffsetOf(c)] = c
<1>0. c # None /\ OnlyAnswer(c)
  BY BlocksAssumption DEF Inv
<1>1. \A n, o : o \in Offsets => (Alloc(n)[o] = c => n \in DOMAIN slices)
  BY <1>0 DEF Alloc
<1>2. \A n \in DOMAIN slices : Alloc(n) = slices[n].alloc
  BY DEF Alloc
<1>3. answer[c] # None => OffsetOf(c) \in Offsets
  BY AnswerIsValid DEF Inv
<1>4. ASSUME h \in Holds(c)
      PROVE  /\ answer[c] # None /\ h = <<SliceOf(c), OffsetOf(c)>>
             /\ Alloc(SliceOf(c))[OffsetOf(c)] = c
  <2>1. PICK n \in DOMAIN slices, o \in Offsets : h = <<n, o>> /\ slices[n].alloc[o] = c
    BY <1>4 DEF Holds
  <2>2. Alloc(n)[o] = c
    BY <1>2, <2>1
  <2>3. QED
    BY <1>0, <2>1, <2>2 DEF OnlyAnswer
<1>5. ASSUME answer[c] # None, h = <<SliceOf(c), OffsetOf(c)>>,
             Alloc(SliceOf(c))[OffsetOf(c)] = c
      PROVE  h \in Holds(c)
  <2>1. OffsetOf(c) \in Offsets /\ SliceOf(c) \in DOMAIN slices
    BY <1>1, <1>3, <1>5
  <2>2. slices[SliceOf(c)].alloc[OffsetOf(c)] = c
    BY <1>2, <1>5, <2>1
  <2>3. QED
    BY <1>5, <2>1, <2>2 DEF Holds
<1>6. QED
  BY <1>4, <1>5

\* The slice of what is held, and the address.
LEMMA HolderPlace ==
    ASSUME Inv, NEW c \in Callers, NEW h \in Holds(c)
    PROVE  LET id == SpecOf(c, Masked(answer[c]))
           IN  /\ answer[c] # None /\ h = <<SliceOf(c), OffsetOf(c)>>
               /\ SliceOf(c) \in DOMAIN slices /\ slices[SliceOf(c)].id = id
               /\ slices[h[1]].id = id
               /\ id.network = Network[c] /\ id.family = Family[c]
               /\ Rendered(slices[h[1]].id.prefix.digits, h[2]) = answer[c]
<1> DEFINE id == SpecOf(c, Masked(answer[c]))
<1>1. answer[c] # None /\ h = <<SliceOf(c), OffsetOf(c)>>
  BY HoldsIs
<1>2. /\ id \in Identity /\ CRDIdentity(id)
      /\ answer[c] = Rendered(Masked(answer[c]), OffsetOf(c))
  BY <1>1, AnswerIsValid DEF Inv
<1>3. SliceOf(c) = Name(id)
  BY DEF SliceOf
<1>4. SliceOf(c) \in DOMAIN slices
  <2>1. Holds(c) \subseteq (DOMAIN slices) \X Offsets
    BY DEF Holds
  <2>2. <<SliceOf(c), OffsetOf(c)>> \in (DOMAIN slices) \X Offsets
    BY <1>1, <2>1, Zenon
  <2>3. QED
    BY <2>2
<1>5. id.prefix.digits = Masked(answer[c]) /\ id.network = Network[c] /\ id.family = Family[c]
  BY DEF SpecOf, Text
<1> HIDE DEF id
<1>6. slices[SliceOf(c)].id = id
  BY <1>2, <1>3, <1>4, ValidAdmitted DEF Inv
<1>7. h[1] = SliceOf(c) /\ h[2] = OffsetOf(c)
  BY <1>1
<1>8. QED
  BY <1>1, <1>2, <1>4, <1>5, <1>6, <1>7 DEF id

\* pkg/allocator/allocator.go:295, "determined deterministically": as long as no slice was
\* deleted a release finds, by the name and the offset of its address, what Allocate took.
THEOREM StatusAgrees == Spec => []StatusShowsAnswers
<1>1. Inv => StatusShowsAnswers
  <2> SUFFICES ASSUME Inv, ~deleted, NEW c \in Callers
               PROVE  /\ {Rendered(slices[h[1]].id.prefix.digits, h[2]) : h \in Holds(c)}
                           = {answer[c]} \ {None}
                      /\ \A h \in Holds(c) : SameSpace(slices[h[1]].id, SpecOf(c, 0))
    BY DEF StatusShowsAnswers
  <2>1. CASE answer[c] = None
    <3>1. Holds(c) = {}
      BY <2>1, HoldsIs
    <3>2. QED
      BY <2>1, <3>1
  <2>2. CASE answer[c] # None
    <3> DEFINE place == <<SliceOf(c), OffsetOf(c)>>
    <3>1. place \in Holds(c)
      BY <2>2, HoldsIs DEF Inv, HoldsAnswer
    <3>2. Holds(c) = {place}
      BY <3>1, HoldsIs
    <3>3. /\ Rendered(slices[place[1]].id.prefix.digits, place[2]) = answer[c]
          /\ slices[place[1]].id.network = Network[c] /\ slices[place[1]].id.family = Family[c]
      BY <3>1, HolderPlace
    <3>4. SameSpace(slices[place[1]].id, SpecOf(c, 0))
      BY <3>3 DEF SameSpace, SpecOf
    <3> HIDE DEF place
    <3>5. QED
      BY <2>2, <3>2, <3>3, <3>4
  <2>3. QED
    BY <2>1, <2>2
<1>2. QED
  BY <1>1, AlwaysInv, PTL

\* The reason for all of this: as long as no slice was deleted, two callers of a network
\* never have one address.
THEOREM UniqueAnswers == Spec => []AnswersAreUnique
<1>1. Inv => AnswersAreUnique
  <2> SUFFICES ASSUME Inv, ~deleted, NEW c \in Callers, NEW d \in Callers,
                      SameSpace(SpecOf(c, 0), SpecOf(d, 0)), answer[c] # None,
                      answer[c] = answer[d]
               PROVE  c = d
    BY DEF AnswersAreUnique
  <2>1. Network[c] = Network[d] /\ Family[c] = Family[d]
    BY DEF SameSpace, SpecOf
  <2>2. SliceOf(c) = SliceOf(d) /\ OffsetOf(c) = OffsetOf(d)
    BY <2>1 DEF SliceOf, OffsetOf, SpecOf
  <2>4. HoldsAnswer(c) /\ HoldsAnswer(d)
    BY DEF Inv
  <2>5. Alloc(SliceOf(c))[OffsetOf(c)] = c
    BY <2>4 DEF HoldsAnswer
  <2>6. Alloc(SliceOf(c))[OffsetOf(c)] = d
    BY <2>2, <2>4 DEF HoldsAnswer
  <2>7. QED
    BY <2>5, <2>6
<1>2. QED
  BY <1>1, AlwaysInv, PTL

\* pkg/allocator/allocator.go:242-265: the slices of a walk are the subnet, neither more
\* nor less.
THEOREM SubnetCovered == Spec => []SlicesCoverSubnet
<1>1. Inv => SlicesCoverSubnet
  <2> SUFFICES ASSUME Inv, NEW c \in Callers
               PROVE  /\ answer[c] \in SubnetAddresses(c) \cup {None}
                      /\ (\A i \in 0 .. Subnet[c].slices - 1 : IsFull(c, i)) =>
                            \A a \in SubnetAddresses(c) :
                                \E n \in DOMAIN slices, o \in Offsets :
                                    /\ SameSpace(slices[n].id, SpecOf(c, 0))
                                    /\ Rendered(slices[n].id.prefix.digits, o) = a
                                    /\ slices[n].alloc[o] # None
    BY Zenon DEF SlicesCoverSubnet
  <2>1. answer[c] \in SubnetAddresses(c) \cup {None}
    BY SubnetAddressesAre DEF Inv, Placed
  <2>2. ASSUME \A i \in 0 .. Subnet[c].slices - 1 : IsFull(c, i),
               NEW a \in SubnetAddresses(c)
        PROVE  \E n \in DOMAIN slices, o \in Offsets :
                   /\ SameSpace(slices[n].id, SpecOf(c, 0))
                   /\ Rendered(slices[n].id.prefix.digits, o) = a
                   /\ slices[n].alloc[o] # None
    <3>1. PICK i \in 0 .. Subnet[c].slices - 1, o \in Offsets : a = AddAddr(SliceAt(c, i), o)
      BY SubnetAddressesAre
    <3> DEFINE prefix == SliceAt(c, i)
               id == SpecOf(c, prefix)
               n == Name(id)
    <3>2. prefix \in Addresses /\ Masked(prefix) = prefix
      BY SliceAtType
    <3>3. id \in Identity /\ CRDIdentity(id)
      BY <3>2, SpecIsValid
    <3>4. Alloc(n)[o] # None
      BY <2>2 DEF IsFull
    <3>5. n \in DOMAIN slices /\ slices[n].alloc[o] # None
      BY <3>4 DEF Alloc
    <3>6. id.prefix.digits = prefix /\ SameSpace(id, SpecOf(c, 0))
      BY DEF SpecOf, Text, SameSpace
    <3>7. Rendered(prefix, o) = a
      BY <3>1, <3>2, LoopRenders
    <3> HIDE DEF id, prefix
    <3>8. slices[n].id = id
      BY <3>3, <3>5, ValidAdmitted DEF Inv
    <3> HIDE DEF n
    <3>9. QED
      BY <3>5, <3>6, <3>7, <3>8
  <2>3. QED
    BY <2>1, <2>2
<1>2. QED
  BY <1>1, AlwaysInv, PTL

\* pkg/allocator/allocator.go:493-497: whatever is added to an address in use.
THEOREM LoopAddsAlways == Spec => []LoopAdds
<1>1. Inv => LoopAdds
  <2> SUFFICES ASSUME Inv, NEW c \in Callers, answer[c] # None,
                      NEW delta \in 0 .. Capacity + 1
               PROVE  Value(AddAddr(answer[c], delta)) = (Value(answer[c]) + delta) % Capacity
    BY DEF LoopAdds
  <2>1. answer[c] \in Addresses
    BY DEF Inv, TypeOK
  <2>2. delta \in Nat
    BY CapacityType
  <2>3. QED
    BY <2>1, <2>2, AddAddrAdds
<1>2. QED
  BY <1>1, AlwaysInv, PTL

-----------------------------------------------------------------------------
(* A cluster is a table of addresses. *)

\* What a caller holds, as the table has it: its answer, in its network and family.
Key(c) == {<<<<Network[c], Family[c]>>, answer[c]>>}

\* The table is the answers that are kept, of the address space and all different.
HeldIsKept ==
    /\ Held = [c \in {d \in Callers : Keeps(d)} |-> Key(c)]
    /\ \A c \in Callers : Keeps(c) => Key(c) \in {{x} : x \in Spaces \X Addresses}
    /\ \A c, d \in Callers : Keeps(c) /\ Keeps(d) /\ Key(c) = Key(d) => c = d

LEMMA Singletons ==
    ASSUME NEW x, NEW y, {x} = {y}
    PROVE  x = y
  OBVIOUS

LEMMA AddressedIsKey ==
    ASSUME Inv, NEW c \in Callers
    PROVE  /\ Holds(c) # {} <=> Keeps(c)
           /\ Keeps(c) => Addressed(c) = Key(c)
<1> DEFINE place == <<SliceOf(c), OffsetOf(c)>>
<1>1. Holds(c) # {} <=> Keeps(c)
  <2>1. ASSUME NEW h \in Holds(c)
        PROVE  Keeps(c)
    BY HoldsIs DEF Keeps
  <2>2. Keeps(c) => place \in Holds(c)
    BY HoldsIs DEF Keeps
  <2>3. QED
    BY <2>1, <2>2
<1>2. ASSUME Keeps(c)
      PROVE  Addressed(c) = Key(c)
  <2>1. place \in Holds(c) /\ \A h \in Holds(c) : h = place
    BY <1>2, HoldsIs DEF Keeps
  <2>2. /\ Rendered(slices[place[1]].id.prefix.digits, place[2]) = answer[c]
        /\ slices[place[1]].id.network = Network[c] /\ slices[place[1]].id.family = Family[c]
    BY <2>1, HolderPlace
  <2> HIDE DEF place
  <2>3. Holds(c) = {place}
    BY <2>1
  <2>4. QED
    BY <2>2, <2>3 DEF Addressed, Key
<1>3. QED
  BY <1>1, <1>2

\* One address of a network is one offset of one slice, and that has one holder.
LEMMA KeysDiffer ==
    ASSUME NEW c \in Callers, NEW d \in Callers, Keeps(c), Keeps(d), Key(c) = Key(d)
    PROVE  c = d
<1>1. Network[c] = Network[d] /\ Family[c] = Family[d] /\ answer[c] = answer[d]
  <2> DEFINE x == <<<<Network[c], Family[c]>>, answer[c]>>
             y == <<<<Network[d], Family[d]>>, answer[d]>>
  <2>1. {x} = {y}
    BY DEF Key
  <2>2. x = y
    <3> HIDE DEF x, y
    <3>1. QED
      BY <2>1, Singletons
  <2>3. QED
    BY <2>2
<1>2. SliceOf(c) = SliceOf(d) /\ OffsetOf(c) = OffsetOf(d)
  BY <1>1 DEF SliceOf, OffsetOf, SpecOf
<1>3. QED
  BY <1>2 DEF Keeps

LEMMA KeptTable == Inv => HeldIsKept
<1> SUFFICES ASSUME Inv
             PROVE  HeldIsKept
  OBVIOUS
<1>1. Held = [c \in {d \in Callers : Keeps(d)} |-> Key(c)]
  BY AddressedIsKey DEF Held
<1>2. ASSUME NEW c \in Callers, Keeps(c)
      PROVE  Key(c) \in {{x} : x \in Spaces \X Addresses}
  <2>1. answer[c] \in Addresses
    BY <1>2 DEF Inv, TypeOK, Keeps
  <2>2. <<<<Network[c], Family[c]>>, answer[c]>> \in Spaces \X Addresses
    BY <2>1 DEF Spaces
  <2>3. QED
    BY <2>2 DEF Key
<1>3. QED
  BY <1>1, <1>2, KeysDiffer DEF HeldIsKept

\* Nobody who kept an answer, and nobody else, has it now.
LEMMA TableStays ==
    ASSUME HeldIsKept, HeldIsKept',
           \A c \in Callers : /\ Keeps(c)' <=> Keeps(c)
                              /\ Keeps(c)' => answer'[c] = answer[c]
    PROVE  Held' = Held
<1>1. DOMAIN Held' = DOMAIN Held
  BY DEF HeldIsKept
<1>2. \A c \in DOMAIN Held : Held'[c] = Held[c]
  BY DEF HeldIsKept, Key
<1>3. Held = [c \in DOMAIN Held |-> Held[c]] /\ Held' = [c \in DOMAIN Held' |-> Held'[c]]
  BY DEF Held
<1>4. QED
  BY <1>1, <1>2, <1>3, Zenon

\* The caller c takes an address.
LEMMA TableTakes ==
    ASSUME HeldIsKept, HeldIsKept', NEW c \in Callers, ~Keeps(c), Keeps(c)',
           \A d \in Callers : d # c => answer'[d] = answer[d] /\ (Keeps(d)' <=> Keeps(d))
    PROVE  c \in Callers \ DOMAIN Held /\ Table!Exchange({}, {c})
<1>1. c \notin DOMAIN Held /\ DOMAIN Held' = (DOMAIN Held \ {}) \cup {c}
  BY DEF HeldIsKept
<1>2. Held' \in [DOMAIN Held' -> {{x} : x \in Spaces \X Addresses}]
  BY DEF HeldIsKept
<1>3. \A d \in DOMAIN Held \ {} : Held'[d] = Held[d]
  BY DEF HeldIsKept, Key
<1>4. \A n \in {c} : \A d \in DOMAIN Held \ {} : Held'[n] # Held[d]
  <2>1. \A d \in DOMAIN Held : d \in Callers /\ d # c /\ Keeps(d)'
    BY DEF HeldIsKept
  <2>2. \A d \in DOMAIN Held : Held'[d] # Held'[c]
    BY <2>1 DEF HeldIsKept
  <2>3. QED
    BY <1>3, <2>2
<1>5. QED
  BY <1>1, <1>2, <1>3, <1>4 DEF Table!Exchange

\* The caller d gives up the address that it holds.
LEMMA TableGives ==
    ASSUME HeldIsKept, HeldIsKept', NEW d,
           \A c \in Callers : /\ Keeps(c)' <=> Keeps(c) /\ c # d
                              /\ Keeps(c)' => answer'[c] = answer[c]
    PROVE  [Table!NextApart]_Held
<1>1. CASE d \in DOMAIN Held
  <2>1. DOMAIN Held' = (DOMAIN Held \ {d}) \cup {}
    BY DEF HeldIsKept
  <2>2. Held' \in [DOMAIN Held' -> {{x} : x \in Spaces \X Addresses}]
    BY DEF HeldIsKept
  <2>3. \A c \in DOMAIN Held \ {d} : Held'[c] = Held[c]
    BY DEF HeldIsKept, Key
  <2>4. Table!Exchange({d}, {})
    BY <2>1, <2>2, <2>3 DEF Table!Exchange
  <2>5. QED
    BY <1>1, <2>4 DEF Table!NextApart
<1>2. CASE d \notin DOMAIN Held
  <2>1. \A c \in Callers : Keeps(c) => c # d
    BY <1>2 DEF HeldIsKept
  <2>2. Held' = Held
    BY <2>1, TableStays
  <2>3. QED
    BY <2>2
<1>3. QED
  BY <1>1, <1>2

\* The addresses of a block are those with its name.
LEMMA BlockHas ==
    ASSUME Inv, NEW c \in Callers, Keeps(c), NEW d \in Callers, Keeps(d)
    PROVE  Key(d) \in BlockOf(<<Network[c], Family[c]>>, Masked(answer[c]))
              <=> SliceOf(d) = SliceOf(c)
<1>1. answer[c] # None /\ answer[d] # None
  BY DEF Keeps
<1>2. /\ OffsetOf(d) \in Offsets /\ answer[d] = Rendered(Masked(answer[d]), OffsetOf(d))
      /\ Masked(answer[c]) \in Addresses /\ Masked(Masked(answer[c])) = Masked(answer[c])
      /\ Masked(answer[d]) \in Addresses /\ Masked(Masked(answer[d])) = Masked(answer[d])
  BY <1>1, AnswerIsValid DEF Inv
<1>3. ASSUME Key(d) \in BlockOf(<<Network[c], Family[c]>>, Masked(answer[c]))
      PROVE  SliceOf(d) = SliceOf(c)
  <2>1. PICK o \in Offsets :
            Key(d) = {<<<<Network[c], Family[c]>>, Rendered(Masked(answer[c]), o)>>}
    BY <1>3 DEF BlockOf
  <2>2. /\ Network[d] = Network[c] /\ Family[d] = Family[c]
        /\ answer[d] = Rendered(Masked(answer[c]), o)
    <3> DEFINE x == <<<<Network[d], Family[d]>>, answer[d]>>
               y == <<<<Network[c], Family[c]>>, Rendered(Masked(answer[c]), o)>>
    <3>1. {x} = {y}
      BY <2>1 DEF Key
    <3>2. x = y
      <4> HIDE DEF x, y
      <4>1. QED
        BY <3>1, Singletons
    <3>3. QED
      BY <3>2
  <2>3. Masked(answer[d]) = Masked(answer[c])
    BY <1>2, <2>2, SamePrefix
  <2>4. QED
    BY <2>2, <2>3 DEF SliceOf, SpecOf
<1>4. ASSUME SliceOf(d) = SliceOf(c)
      PROVE  Key(d) \in BlockOf(<<Network[c], Family[c]>>, Masked(answer[c]))
  <2>1. SpecOf(d, Masked(answer[d])) = SpecOf(c, Masked(answer[c]))
    <3>1. Holds(c) # {} /\ Holds(d) # {}
      BY AddressedIsKey
    <3>2. /\ slices[SliceOf(c)].id = SpecOf(c, Masked(answer[c]))
          /\ slices[SliceOf(d)].id = SpecOf(d, Masked(answer[d]))
      BY <3>1, HolderPlace
    <3>3. QED
      BY <1>4, <3>2
  <2>2. /\ Network[d] = Network[c] /\ Family[d] = Family[c]
        /\ Masked(answer[d]) = Masked(answer[c])
    BY <2>1 DEF SpecOf, Text
  <2>3. QED
    BY <1>2, <2>2 DEF BlockOf, Key
<1>5. QED
  BY <1>3, <1>4

\* With a slice the table loses what is held in it.
LEMMA TableDeletes ==
    ASSUME Inv, HeldIsKept, HeldIsKept', NEW name,
           \A c \in Callers : /\ answer'[c] = answer[c]
                              /\ Keeps(c)' <=> Keeps(c) /\ SliceOf(c) # name
    PROVE  [Table!NextApart]_Held
<1>1. CASE \E c \in Callers : Keeps(c) /\ SliceOf(c) = name
  <2>1. PICK c \in Callers : Keeps(c) /\ SliceOf(c) = name
    BY <1>1
  <2> DEFINE space == <<Network[c], Family[c]>>
             prefix == Masked(answer[c])
             block == BlockOf(space, prefix)
             left == {d \in DOMAIN Held : Held[d] \notin block}
  <2>2. space \in Spaces /\ prefix \in Addresses /\ Masked(prefix) = prefix
    BY <2>1, AnswerIsValid DEF Spaces, Inv, Keeps
  <2>3. DOMAIN Held = {d \in Callers : Keeps(d)} /\ \A d \in DOMAIN Held : Held[d] = Key(d)
    BY DEF HeldIsKept
  <2>4. \A d \in DOMAIN Held : Held[d] \in block <=> SliceOf(d) = name
    BY <2>1, <2>3, BlockHas
  <2> HIDE DEF block
  <2>5. DOMAIN Held' = left
    BY <2>3, <2>4 DEF HeldIsKept
  <2>6. \A d \in left : Held'[d] = Held[d]
    BY <2>3, <2>5 DEF HeldIsKept, Key
  <2>7. Held' = [d \in DOMAIN Held' |-> Held'[d]]
    BY DEF Held
  <2>8. Table!Delete(block)
    BY <2>5, <2>6, <2>7 DEF Table!Delete
  <2>9. block \in {BlockOf(x[1], x[2]) : x \in Spaces \X {a \in Addresses : Masked(a) = a}}
    <3>1. <<space, prefix>> \in Spaces \X {a \in Addresses : Masked(a) = a}
      BY <2>2
    <3>2. <<space, prefix>>[1] = space /\ <<space, prefix>>[2] = prefix
      OBVIOUS
    <3>3. block = BlockOf(<<space, prefix>>[1], <<space, prefix>>[2])
      BY <3>2 DEF block
    <3>4. QED
      BY <3>1, <3>3
  <2>10. QED
    BY <2>8, <2>9 DEF Table!NextApart
<1>2. CASE ~\E c \in Callers : Keeps(c) /\ SliceOf(c) = name
  BY <1>2, TableStays
<1>3. QED
  BY <1>1, <1>2

LEMMA TableStep ==
    ASSUME Inv, HeldIsKept, HeldIsKept', [Next]_vars
    PROVE  [Table!NextApart]_Held
<1>1. ASSUME NEW c \in Callers, NEW i \in 0 .. Subnet[c].slices - 1, Allocate(c, i)
      PROVE  [Table!NextApart]_Held
  <2>1. /\ Keeps(c)' /\ (Keeps(c) => answer'[c] = answer[c])
        /\ \A d \in Callers : d # c => answer'[d] = answer[d] /\ (Keeps(d)' <=> Keeps(d))
    BY <1>1, AllocateStep
  <2>2. CASE Keeps(c)
    BY <2>1, <2>2, TableStays
  <2>3. CASE ~Keeps(c)
    <3>1. c \in Callers \ DOMAIN Held /\ Table!Exchange({}, {c})
      BY <2>1, <2>3, TableTakes
    <3>2. QED
      BY <3>1 DEF Table!NextApart
  <2>4. QED
    BY <2>2, <2>3
<1>2. ASSUME NEW c \in Callers, Release(c)
      PROVE  [Table!NextApart]_Held
  BY <1>2, ReleaseStep, TableGives
<1>3. ASSUME NEW c \in Callers, ReleaseByAddress(c)
      PROVE  [Table!NextApart]_Held
  BY <1>3, ReleaseByAddressStep, TableGives
<1>4. ASSUME NEW id \in Identities, NEW name \in Names, Write(name, id)
      PROVE  [Table!NextApart]_Held
  BY <1>4, WriteStep, TableStays
<1>5. ASSUME NEW name \in DOMAIN slices, Delete(name)
      PROVE  [Table!NextApart]_Held
  BY <1>5, DeleteStep, TableDeletes
<1>6. CASE UNCHANGED vars
  BY <1>6 DEF vars, Held, Holds, Addressed
<1>7. QED
  BY <1>1, <1>2, <1>3, <1>4, <1>5, <1>6, Zenon DEF Next

\* What a cluster promises as a whole, with no list, lock or lease behind it: every step is
\* that of a table in which one caller takes a free address, one gives up its own, or one
\* slice goes with what is held in it.
THEOREM Refinement == Spec => ImplementsTable
<1>1. Init => Table!Init
  <2> SUFFICES ASSUME Init
               PROVE  Held = [n \in {} |-> n]
    BY DEF Table!Init
  <2>1. DOMAIN slices = {}
    BY DEF Init
  <2>2. {d \in Callers : Holds(d) # {}} = {}
    BY <2>1 DEF Holds
  <2>3. QED
    BY <2>2 DEF Held
<1>2. Inv /\ HeldIsKept /\ HeldIsKept' /\ [Next]_vars => [Table!NextApart]_Held
  BY TableStep
<1>3. QED
  BY <1>1, <1>2, KeptTable, AlwaysInv, PTL DEF Spec, ImplementsTable, Table!SpecApart
=============================================================================
