------------------------------ MODULE Admission ------------------------------
(***************************************************************************)
(* What the API server decides about one write of an IPSlice object: the   *)
(* mutating policy that rebuilds status (deployment/mutating-policy.yaml), *)
(* the schema rules of the CRD (apis/v1alpha1/types.go) and the validating *)
(* policy (deployment/validating-policy.yaml).  Operators only: IPSlice    *)
(* makes a state machine of them.                                          *)
(*                                                                         *)
(* The two list fields are list-maps (listType=map, keyed by name and by   *)
(* requestName), so a list is a function whose domain is its set of keys.  *)
(* Their order reaches the result only through `pending[0]' and            *)
(* `removed[0]', for which every element is considered (First).  The       *)
(* bitmap is the set of the positions that hold '1'.                       *)
(*                                                                         *)
(* Definitions named ...Slip are plausible mistakes in the definition that *)
(* follows them; PROJECT.json says which property notices which.           *)
(***************************************************************************)
EXTENDS Integers, FiniteSets

CONSTANTS Hosts,          \* addresses per slice: 64 in the code
          Names,          \* request names
          Nodes,          \* Kubernetes node names
          Devices,        \* device references of DRA resource claims
          DeviceName,     \* the request name each device reference derives
          Windows,        \* offset windows that clients ask for
          ClientStatuses, \* statuses that clients write into their objects
          None,           \* an optional field that is not set
          Absent          \* no object stored under the name

Offsets == 0 .. Hosts - 1

\* A list-map: at most one entry for every key of K.
ListMap(K, V) == UNION {[D -> V] : D \in SUBSET K}

Request == [window : Windows \cup {None},
            node : Nodes \cup {None},
            deviceRef : Devices \cup {None}]

Status == [allocation : ListMap(Names, Offsets), bitmap : SUBSET Offsets]

Object == [request : ListMap(Names, Request),
           node : Nodes \cup {None},
           status : Status \cup {None}]

\* The bodies that clients submit; the status in them is whatever they like.
Proposal == [request : ListMap(Names, Request),
             node : Nodes \cup {None},
             status : ClientStatuses]

ASSUME HostsAssumption == Hosts \in Nat \ {0}
ASSUME NamesAssumption == IsFiniteSet(Names) /\ None \notin Names
\* The field ranges of the schema; alignment and fit are rules, below.
ASSUME WindowsAssumption == Windows \subseteq [offset : Offsets, length : 1 .. Hosts]
ASSUME OptionalAssumption == None \notin Windows \cup Nodes \cup Devices \cup Status
ASSUME AbsentAssumption == Absent \notin Object
ASSUME ClientStatusAssumption == ClientStatuses \subseteq Status \cup {None}

-----------------------------------------------------------------------------
(* The mutating policy.  `old' is the stored object, `new' the submitted one. *)

Existing(old) == IF old = Absent \/ old.status = None
                 THEN [n \in {} |-> 0]
                 ELSE old.status.allocation

RawOldBitmap(old) == IF old = Absent \/ old.status = None
                     THEN {}
                     ELSE old.status.bitmap

ReqNames(new) == DOMAIN new.request

\* Slip: the incoming object's status instead of the stored one's.
KeptSlip(old, new) ==
    IF old = Absent \/ new.status = None THEN [n \in {} |-> 0]
    ELSE [n \in DOMAIN new.status.allocation \cap ReqNames(new) |-> new.status.allocation[n]]

Kept(old, new) == [n \in DOMAIN Existing(old) \cap ReqNames(new) |-> Existing(old)[n]]

Removed(old, new) ==
    IF Cardinality(DOMAIN Kept(old, new)) = Cardinality(DOMAIN Existing(old))
    THEN {}
    ELSE DOMAIN Existing(old) \ ReqNames(new)

Pending(old, new) ==
    IF Cardinality(ReqNames(new)) = Cardinality(DOMAIN Kept(old, new))
    THEN {}
    ELSE ReqNames(new) \ DOMAIN Kept(old, new)

\* What the first element of a list with the elements S may be.
First(S) == IF S = {} THEN {None} ELSE S

\* Slip: a release forgets its bit.
ClearedBitmapSlip(old, gone) == RawOldBitmap(old)

\* Only removed[0] gives its bit back.
ClearedBitmap(old, gone) ==
    RawOldBitmap(old) \ {Existing(old)[n] : n \in {gone} \cap DOMAIN Existing(old)}

Wlo(r) == IF r.window = None THEN 0 ELSE r.window.offset
Whi(r) == IF r.window = None THEN Hosts - 1
                             ELSE r.window.offset + r.window.length - 1

\* Slip: the search starts at the front of the slice, not of the window.
PickSlip(bitmap, lo) ==
    {o \in Offsets : o \notin bitmap /\ \A x \in Offsets : x < o => x \in bitmap}

\* indexOf("0", lo): the lowest free offset from lo on, {} for -1.
Pick(bitmap, lo) ==
    {o \in Offsets : o >= lo /\ o \notin bitmap
                     /\ \A x \in Offsets : x >= lo /\ x < o => x \in bitmap}

\* The offset that pending[0] is given: {} when there is no room for it.
Granted(new, first, bitmap) ==
    {o \in UNION {Pick(bitmap, Wlo(new.request[n])) : n \in {first} \cap ReqNames(new)} :
        o <= Whi(new.request[first])}

\* Slip: the lock is emptied instead of removed.
LockAfterBlankSlip(new) == IF ReqNames(new) = {} THEN "" ELSE new.node

\* Slip: the lock stays behind in an empty slice.
LockAfterStaysSlip(new) == new.node

\* The node lock is removed with the last request.
LockAfter(new) == IF ReqNames(new) = {} THEN None ELSE new.node

\* The object that leaves the mutating policy.
Mutate(old, new, first, gone) ==
    LET kept    == Kept(old, new)
        cleared == ClearedBitmap(old, gone)
        granted == Granted(new, first, cleared)
        holders == IF granted = {} THEN DOMAIN kept ELSE DOMAIN kept \cup {first}
    IN  [request |-> new.request,
         node    |-> LockAfter(new),
         status  |-> [allocation |-> [n \in holders |->
                          IF n \in DOMAIN kept THEN kept[n] ELSE CHOOSE o \in granted : TRUE],
                      bitmap |-> cleared \cup granted]]

\* Everything the mutating policy may make of a write, over the list orders.
Outcomes(old, new) ==
    {Mutate(old, new, first, gone) : first \in First(Pending(old, new)),
                                     gone \in First(Removed(old, new))}

-----------------------------------------------------------------------------
(* The schema of the CRD.  `m' is the object after the mutating policy. *)

\* Slip: the cap is one short of the slice.
RequestsWithinCapSlip(m) == Cardinality(DOMAIN m.request) < Hosts

\* MaxItems=64 on spec.request.
RequestsWithinCap(m) == Cardinality(DOMAIN m.request) <= Hosts

WindowWellFormed(r) ==
    r.window # None =>
        /\ r.window.offset % r.window.length = 0
        /\ r.window.length \in {1, 2, 4, 8, 16, 32, 64}
        /\ r.window.offset + r.window.length <= Hosts

\* The root rules compare sizes; the validating policy compares names.
AllRequestsCounted(m) ==
    DOMAIN m.request # {} =>
        Cardinality(DOMAIN m.status.allocation) = Cardinality(DOMAIN m.request)

NoOrphanCounted(m) ==
    Cardinality(DOMAIN m.status.allocation) <= Cardinality(DOMAIN m.request)

NodesMatchLock(m) ==
    m.node # None => \A n \in DOMAIN m.request : m.request[n].node = m.node

\* `self == oldSelf' is only evaluated when both objects have the field.
Unchanged(before, after) == before = None \/ after = None \/ before = after

FieldsImmutable(old, m) ==
    old # Absent =>
        \A n \in DOMAIN old.request \cap DOMAIN m.request :
            /\ Unchanged(old.request[n].window, m.request[n].window)
            /\ Unchanged(old.request[n].node, m.request[n].node)
            /\ Unchanged(old.request[n].deviceRef, m.request[n].deviceRef)

CRDValid(old, m) ==
    /\ RequestsWithinCap(m)
    /\ \A n \in DOMAIN m.request : WindowWellFormed(m.request[n])
    /\ AllRequestsCounted(m)
    /\ NoOrphanCounted(m)
    /\ \A n \in DOMAIN m.status.allocation : m.status.allocation[n] \in Offsets
    /\ NodesMatchLock(m)
    /\ FieldsImmutable(old, m)

-----------------------------------------------------------------------------
(* The validating policy. *)

NoDuplicateOffset(m) ==
    \A a, b \in DOMAIN m.status.allocation :
        m.status.allocation[a] = m.status.allocation[b] => a = b

OffsetsFixed(old, m) ==
    \A n \in DOMAIN Existing(old) \cap DOMAIN m.request :
        /\ n \in DOMAIN m.status.allocation
        /\ m.status.allocation[n] = Existing(old)[n]

AllocatedInWindow(m) ==
    \A n \in DOMAIN m.status.allocation :
        /\ n \in DOMAIN m.request
        /\ m.request[n].window # None =>
               /\ m.status.allocation[n] >= m.request[n].window.offset
               /\ m.status.allocation[n] < m.request[n].window.offset + m.request[n].window.length

EveryRequestAllocated(m) == DOMAIN m.request \subseteq DOMAIN m.status.allocation

\* Slip: any number of requests may go in one write.
AtMostOneRemovedSlip(old, m) == TRUE

AtMostOneRemoved(old, m) ==
    old # Absent => Cardinality(DOMAIN old.request \ DOMAIN m.request) <= 1

\* Slip: the lock has to stay when the last request goes, too.
LockKeptForeverSlip(old, m) ==
    (old # Absent /\ old.node # None) => m.node = old.node

LockKept(old, m) ==
    (old # Absent /\ old.node # None /\ DOMAIN m.request # {}) => m.node = old.node

NamesMatchDevices(m) ==
    \A n \in DOMAIN m.request :
        m.request[n].deviceRef # None => n = DeviceName[m.request[n].deviceRef]

VAPValid(old, m) ==
    /\ NoDuplicateOffset(m)
    /\ OffsetsFixed(old, m)
    /\ AllocatedInWindow(m)
    /\ EveryRequestAllocated(m)
    /\ AtMostOneRemoved(old, m)
    /\ LockKept(old, m)
    /\ NamesMatchDevices(m)

-----------------------------------------------------------------------------

Admitted(old, m) == CRDValid(old, m) /\ VAPValid(old, m)

\* Some list order of the submitted object gets it through.
Accepts(old, new) == \E m \in Outcomes(old, new) : Admitted(old, m)
=============================================================================
