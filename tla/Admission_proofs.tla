--------------------------- MODULE Admission_proofs ---------------------------
(***************************************************************************)
(* Facts about one admitted write, for every slice size, every finite set  *)
(* of names and every set of windows, nodes, devices and client statuses:  *)
(* what the mutating policy makes of a body, and when it is admitted.      *)
(***************************************************************************)
EXTENDS Admission, FiniteSetTheorems, WellFoundedInduction, TLAPS

(***************************************************************************)
(* Sets.                                                                   *)
(***************************************************************************)

\* A set with at most one element: the size that the policies bound.
LEMMA AtMostOneElement ==
    ASSUME NEW S, IsFiniteSet(S), Cardinality(S) <= 1
    PROVE  \A x, y \in S : x = y
<1>1. Cardinality(S) \in Nat
  BY FS_CardinalityType
<1>2. CASE Cardinality(S) = 0
  BY <1>2, FS_EmptySet
<1>3. CASE Cardinality(S) = 1
  BY <1>3, FS_Singleton
<1>4. QED
  BY <1>1, <1>2, <1>3

\* A part as large as the whole is the whole: the size shortcuts of the mutating
\* policy give what the filters they stand for would.
LEMMA SameSize ==
    ASSUME NEW S, NEW T, IsFiniteSet(S), T \subseteq S, Cardinality(T) = Cardinality(S)
    PROVE  T = S
  BY FS_Subset

(***************************************************************************)
(* The parts of an object.                                                 *)
(***************************************************************************)

LEMMA ListMapType ==
    ASSUME NEW K, NEW V, NEW f
    PROVE  f \in ListMap(K, V)
             <=> /\ DOMAIN f \subseteq K
                 /\ f \in [DOMAIN f -> V]
  BY DEF ListMap

\* What the policies read from the stored object.
LEMMA ExistingType ==
    ASSUME NEW old \in Object \cup {Absent}
    PROVE  /\ DOMAIN Existing(old) \subseteq Names
           /\ \A n \in DOMAIN Existing(old) : Existing(old)[n] \in Offsets
           /\ Existing(old) = [n \in DOMAIN Existing(old) |-> Existing(old)[n]]
           /\ RawOldBitmap(old) \subseteq Offsets
           /\ IsFiniteSet(DOMAIN Existing(old))
<1>1. CASE old = Absent \/ old.status = None
  BY <1>1, FS_EmptySet DEF Existing, RawOldBitmap
<1>2. CASE ~(old = Absent \/ old.status = None)
  <2>1. old.status \in Status
    BY <1>2, AbsentAssumption DEF Object
  <2>2. /\ old.status.allocation \in ListMap(Names, Offsets)
        /\ old.status.bitmap \subseteq Offsets
    BY <2>1 DEF Status
  <2>3. Existing(old) = old.status.allocation /\ RawOldBitmap(old) = old.status.bitmap
    BY <1>2 DEF Existing, RawOldBitmap
  <2>4. DOMAIN Existing(old) \subseteq Names /\ Existing(old) \in [DOMAIN Existing(old) -> Offsets]
    BY <2>2, <2>3, ListMapType
  <2>5. IsFiniteSet(DOMAIN Existing(old))
    BY <2>4, NamesAssumption, FS_Subset
  <2>6. QED
    BY <2>2, <2>3, <2>4, <2>5
<1>3. QED
  BY <1>1, <1>2

\* A body with any status: the mutating policy never looks at it.
Submitted == [request : ListMap(Names, Request),
              node : Nodes \cup {None},
              status : Status \cup {None}]

LEMMA ProposalsAreSubmitted == Proposal \subseteq Submitted
  BY ClientStatusAssumption DEF Proposal, Submitted

LEMMA SubmittedType ==
    ASSUME NEW new \in Submitted
    PROVE  /\ ReqNames(new) \subseteq Names
           /\ new.request \in ListMap(Names, Request)
           /\ \A n \in ReqNames(new) : new.request[n] \in Request
           /\ IsFiniteSet(ReqNames(new))
           /\ None \notin ReqNames(new)
           /\ LockAfter(new) \in Nodes \cup {None}
<1>1. new.request \in ListMap(Names, Request) /\ new.node \in Nodes \cup {None}
  BY DEF Submitted
<1>2. ReqNames(new) \subseteq Names /\ new.request \in [ReqNames(new) -> Request]
  BY <1>1, ListMapType DEF ReqNames
<1>3. IsFiniteSet(ReqNames(new))
  BY <1>2, NamesAssumption, FS_Subset
<1>4. QED
  BY <1>1, <1>2, <1>3, NamesAssumption DEF LockAfter

(***************************************************************************)
(* The mutating policy.                                                    *)
(***************************************************************************)

LEMMA KeptIs ==
    ASSUME NEW old \in Object \cup {Absent}, NEW new \in Submitted
    PROVE  /\ DOMAIN Kept(old, new) = DOMAIN Existing(old) \cap ReqNames(new)
           /\ \A n \in DOMAIN Kept(old, new) : Kept(old, new)[n] = Existing(old)[n]
  BY DEF Kept

LEMMA RemovedIs ==
    ASSUME NEW old \in Object \cup {Absent}, NEW new \in Submitted
    PROVE  Removed(old, new) = DOMAIN Existing(old) \ ReqNames(new)
<1>1. CASE Cardinality(DOMAIN Kept(old, new)) = Cardinality(DOMAIN Existing(old))
  <2>1. DOMAIN Kept(old, new) = DOMAIN Existing(old)
    <3>1. DOMAIN Kept(old, new) \subseteq DOMAIN Existing(old)
      BY KeptIs
    <3>2. QED
      BY <1>1, <3>1, ExistingType, SameSize
  <2>2. QED
    BY <1>1, <2>1, KeptIs DEF Removed
<1>2. QED
  BY <1>1 DEF Removed

LEMMA PendingIs ==
    ASSUME NEW old \in Object \cup {Absent}, NEW new \in Submitted
    PROVE  Pending(old, new) = ReqNames(new) \ DOMAIN Existing(old)
<1>1. CASE Cardinality(ReqNames(new)) = Cardinality(DOMAIN Kept(old, new))
  <2>1. DOMAIN Kept(old, new) = ReqNames(new)
    <3>1. DOMAIN Kept(old, new) \subseteq ReqNames(new)
      BY KeptIs
    <3>2. QED
      BY <1>1, <3>1, SubmittedType, SameSize
  <2>2. QED
    BY <1>1, <2>1, KeptIs DEF Pending
<1>2. QED
  BY <1>1, KeptIs DEF Pending

\* What pending[0] may be given: nothing, or the lowest free offset of its window.
LEMMA GrantedIs ==
    ASSUME NEW new \in Submitted, NEW first, NEW bitmap
    PROVE  /\ Granted(new, first, bitmap) # {} => first \in ReqNames(new)
           /\ Granted(new, first, bitmap) \subseteq Offsets \ bitmap
           /\ \A o \in Granted(new, first, bitmap) :
                 /\ Wlo(new.request[first]) <= o
                 /\ \A x \in Offsets : Wlo(new.request[first]) <= x /\ x < o => x \in bitmap
           /\ \A o1, o2 \in Granted(new, first, bitmap) : o1 = o2
<1>1. Granted(new, first, bitmap) # {} => first \in ReqNames(new)
  BY DEF Granted
<1>2. \A o \in Granted(new, first, bitmap) :
          /\ o \in Pick(bitmap, Wlo(new.request[first]))
  BY DEF Granted
<1>3. CASE Granted(new, first, bitmap) = {}
  BY <1>3
<1>4. CASE Granted(new, first, bitmap) # {}
  <2>1. first \in ReqNames(new) /\ new.request[first] \in Request
    BY <1>1, <1>4, SubmittedType
  <2>2. Wlo(new.request[first]) \in Int
    BY <2>1, WindowsAssumption, HostsAssumption DEF Wlo, Request, Offsets
  <2>3. \A o \in Granted(new, first, bitmap) :
            /\ o \in Offsets \ bitmap
            /\ Wlo(new.request[first]) <= o
            /\ \A x \in Offsets : Wlo(new.request[first]) <= x /\ x < o => x \in bitmap
    BY <1>2, <2>2, HostsAssumption DEF Pick, Offsets
  <2>4. \A o1, o2 \in Granted(new, first, bitmap) : o1 = o2
    <3>1. SUFFICES ASSUME NEW o1 \in Granted(new, first, bitmap),
                          NEW o2 \in Granted(new, first, bitmap), o1 < o2
                   PROVE  FALSE
      BY <2>3, HostsAssumption DEF Offsets
    <3>2. QED
      BY <2>3, <3>1
  <2>5. QED
    BY <2>1, <2>3, <2>4
<1>5. QED
  BY <1>3, <1>4

\* The object that leaves the mutating policy, field by field.
LEMMA MutateIs ==
    ASSUME NEW old \in Object \cup {Absent}, NEW new \in Submitted,
           NEW first, NEW gone, NEW m, m = Mutate(old, new, first, gone),
           NEW granted, granted = Granted(new, first, ClearedBitmap(old, gone))
    PROVE  /\ m.request = new.request
           /\ m.node = LockAfter(new)
           /\ m.status.bitmap = ClearedBitmap(old, gone) \cup granted
           /\ DOMAIN m.status.allocation
                = (DOMAIN Existing(old) \cap ReqNames(new)) \cup (IF granted = {} THEN {} ELSE {first})
           /\ \A n \in DOMAIN Existing(old) \cap ReqNames(new) :
                  m.status.allocation[n] = Existing(old)[n]
           /\ granted # {} /\ first \notin DOMAIN Existing(old)
                => m.status.allocation[first] \in granted
           /\ m.status = [allocation |-> m.status.allocation, bitmap |-> m.status.bitmap]
           /\ m.status.allocation
                = [n \in DOMAIN m.status.allocation |-> m.status.allocation[n]]
           /\ m = [request |-> m.request, node |-> m.node, status |-> m.status]
<1> DEFINE kept == Kept(old, new)
           holders == IF granted = {} THEN DOMAIN kept ELSE DOMAIN kept \cup {first}
           alloc == [n \in holders |-> IF n \in DOMAIN kept THEN kept[n]
                                       ELSE CHOOSE o \in granted : TRUE]
<1>1. m = [request |-> new.request, node |-> LockAfter(new),
           status |-> [allocation |-> alloc, bitmap |-> ClearedBitmap(old, gone) \cup granted]]
  BY DEF Mutate
<1>2. DOMAIN kept = DOMAIN Existing(old) \cap ReqNames(new)
  BY KeptIs
<1>3. \A n \in DOMAIN kept : alloc[n] = Existing(old)[n]
  BY KeptIs
<1>4. granted # {} /\ first \notin DOMAIN kept => alloc[first] \in granted
  OBVIOUS
<1>5. DOMAIN alloc = holders
  OBVIOUS
<1>6. alloc = [n \in DOMAIN alloc |-> alloc[n]]
  OBVIOUS
<1>7. holders = (DOMAIN Existing(old) \cap ReqNames(new)) \cup (IF granted = {} THEN {} ELSE {first})
  BY <1>2
<1> HIDE DEF kept, alloc, holders
<1>8. /\ m.request = new.request
      /\ m.node = LockAfter(new)
      /\ m.status.bitmap = ClearedBitmap(old, gone) \cup granted
      /\ m.status.allocation = alloc
      /\ m.status = [allocation |-> m.status.allocation, bitmap |-> m.status.bitmap]
      /\ m = [request |-> m.request, node |-> m.node, status |-> m.status]
  BY <1>1
<1>9. QED
  BY <1>2, <1>3, <1>4, <1>5, <1>6, <1>7, <1>8

\* Whatever the policies make of a submitted object is a well-typed object.
LEMMA MutateType ==
    ASSUME NEW old \in Object \cup {Absent}, NEW new \in Submitted,
           NEW first \in First(Pending(old, new)), NEW gone
    PROVE  /\ Mutate(old, new, first, gone) \in Object
           /\ Mutate(old, new, first, gone).status \in Status
<1> DEFINE m == Mutate(old, new, first, gone)
           granted == Granted(new, first, ClearedBitmap(old, gone))
<1>1. granted \subseteq Offsets /\ (granted # {} => first \in ReqNames(new))
  BY GrantedIs
<1>2. granted # {} => first \notin DOMAIN Existing(old)
  BY <1>1, PendingIs, SubmittedType DEF First
<1>3. ClearedBitmap(old, gone) \subseteq Offsets
  BY ExistingType DEF ClearedBitmap
<1>4. /\ m.request = new.request
      /\ m.node = LockAfter(new)
      /\ m.status.bitmap = ClearedBitmap(old, gone) \cup granted
      /\ DOMAIN m.status.allocation
           = (DOMAIN Existing(old) \cap ReqNames(new)) \cup (IF granted = {} THEN {} ELSE {first})
      /\ \A n \in DOMAIN Existing(old) \cap ReqNames(new) :
             m.status.allocation[n] = Existing(old)[n]
      /\ granted # {} /\ first \notin DOMAIN Existing(old)
           => m.status.allocation[first] \in granted
      /\ m.status = [allocation |-> m.status.allocation, bitmap |-> m.status.bitmap]
      /\ m.status.allocation = [n \in DOMAIN m.status.allocation |-> m.status.allocation[n]]
      /\ m = [request |-> m.request, node |-> m.node, status |-> m.status]
  <2>1. m = Mutate(old, new, first, gone) /\ granted = Granted(new, first, ClearedBitmap(old, gone))
    OBVIOUS
  <2> HIDE DEF m, granted
  <2>2. QED
    BY <2>1, MutateIs
<1> HIDE DEF m, granted
<1>5. m.status.allocation \in ListMap(Names, Offsets)
  <2>1. DOMAIN m.status.allocation \subseteq Names
    BY <1>1, <1>4, ExistingType, SubmittedType
  <2>2. \A n \in DOMAIN m.status.allocation : m.status.allocation[n] \in Offsets
    BY <1>1, <1>2, <1>4, ExistingType
  <2>3. QED
    BY <1>4, <2>1, <2>2, ListMapType
<1>6. m.status.bitmap \in SUBSET Offsets
  BY <1>1, <1>3, <1>4
<1>7. m.status \in Status
  BY <1>4, <1>5, <1>6 DEF Status
<1>8. m.request \in ListMap(Names, Request) /\ m.node \in Nodes \cup {None}
  BY <1>4, SubmittedType
<1>9. QED
  BY <1>4, <1>7, <1>8 DEF Object, m

(***************************************************************************)
(* The rules in two groups.                                                *)
(***************************************************************************)

\* What admission asks of an object by itself.
WellFormed(m) ==
    /\ RequestsWithinCap(m)
    /\ \A n \in DOMAIN m.request : WindowWellFormed(m.request[n])
    /\ DOMAIN m.status.allocation = DOMAIN m.request
    /\ NodesMatchLock(m)
    /\ NoDuplicateOffset(m)
    /\ AllocatedInWindow(m)
    /\ NamesMatchDevices(m)

\* What it asks of an object that replaces another.
Succeeds(old, m) ==
    /\ FieldsImmutable(old, m)
    /\ OffsetsFixed(old, m)
    /\ AtMostOneRemoved(old, m)
    /\ LockKept(old, m)

\* The CRD counts what the validating policy compares name by name.
LEMMA AdmittedIs ==
    ASSUME NEW old, NEW m \in Object, m.status \in Status
    PROVE  Admitted(old, m) <=> WellFormed(m) /\ Succeeds(old, m)
<1>1. \A n \in DOMAIN m.status.allocation : m.status.allocation[n] \in Offsets
  BY ListMapType DEF Status
<1>2. IsFiniteSet(DOMAIN m.request)
  BY ListMapType, NamesAssumption, FS_Subset DEF Object
<1>3. Cardinality(DOMAIN m.request) \in Nat
  BY <1>2, FS_CardinalityType
<1>4. DOMAIN m.status.allocation = DOMAIN m.request => AllRequestsCounted(m) /\ NoOrphanCounted(m)
  BY <1>3 DEF AllRequestsCounted, NoOrphanCounted
<1>5. AllocatedInWindow(m) /\ EveryRequestAllocated(m)
         => DOMAIN m.status.allocation = DOMAIN m.request
  BY DEF AllocatedInWindow, EveryRequestAllocated
<1>6. DOMAIN m.status.allocation = DOMAIN m.request => EveryRequestAllocated(m)
  BY DEF EveryRequestAllocated
<1>7. QED
  BY <1>1, <1>4, <1>5, <1>6 DEF Admitted, CRDValid, VAPValid, WellFormed, Succeeds

(***************************************************************************)
(* Writes to an object that was admitted before.                           *)
(***************************************************************************)

\* What every stored object is.  The rules never look at the bitmap, and never
\* compare the lock of an empty slice: both come from the mutating policy.
Sound(o) ==
    o # Absent =>
        /\ o.status \in Status
        /\ WellFormed(o)
        /\ o.status.bitmap = {o.status.allocation[n] : n \in DOMAIN o.status.allocation}
        /\ o.node # None => DOMAIN o.request # {}

Wanted(o) == IF o = Absent THEN [n \in {} |-> None] ELSE o.request

LEMMA SoundIs ==
    ASSUME NEW old \in Object \cup {Absent}, Sound(old)
    PROVE  /\ DOMAIN Existing(old) = DOMAIN Wanted(old)
           /\ DOMAIN Existing(old) \subseteq Names
           /\ None \notin DOMAIN Existing(old)
           /\ IsFiniteSet(DOMAIN Existing(old))
           /\ \A n \in DOMAIN Existing(old) : Existing(old)[n] \in Offsets
           /\ \A a, b \in DOMAIN Existing(old) : Existing(old)[a] = Existing(old)[b] => a = b
           /\ RawOldBitmap(old) = {Existing(old)[n] : n \in DOMAIN Existing(old)}
           /\ old # Absent => Existing(old) = old.status.allocation
           /\ \A n \in DOMAIN Wanted(old) : Wanted(old)[n] \in Request
<1>1. CASE old = Absent
  BY <1>1, ExistingType DEF Existing, RawOldBitmap, Wanted
<1>2. CASE old # Absent
  <2>1. old \in Object /\ old.status \in Status /\ old.status # None
    BY <1>2, OptionalAssumption DEF Sound
  <2>2. Existing(old) = old.status.allocation /\ RawOldBitmap(old) = old.status.bitmap
    BY <1>2, <2>1 DEF Existing, RawOldBitmap
  <2>3. old.request \in ListMap(Names, Request)
    BY <2>1 DEF Object
  <2>4. \A n \in DOMAIN Wanted(old) : Wanted(old)[n] \in Request
    BY <1>2, <2>3, ListMapType DEF Wanted
  <2>5. QED
    BY <1>2, <2>2, <2>4, ExistingType, NamesAssumption DEF Sound, WellFormed, NoDuplicateOffset, Wanted
<1>3. QED
  BY <1>1, <1>2

\* The bitmap loses the bits of the released addresses and nothing else: with at
\* most one request removed, `removed[0]' is all of them.
LEMMA ClearedOf ==
    ASSUME NEW old \in Object \cup {Absent}, Sound(old), NEW new \in Submitted,
           NEW gone \in First(Removed(old, new)),
           Cardinality(DOMAIN Existing(old) \ ReqNames(new)) <= 1
    PROVE  ClearedBitmap(old, gone)
             = {Existing(old)[n] : n \in DOMAIN Existing(old) \cap ReqNames(new)}
<1> DEFINE held == Existing(old)
<1>1. /\ RawOldBitmap(old) = {held[n] : n \in DOMAIN held}
      /\ \A a, b \in DOMAIN held : held[a] = held[b] => a = b
      /\ None \notin DOMAIN held
      /\ IsFiniteSet(DOMAIN held)
  BY SoundIs
<1>2. Removed(old, new) = DOMAIN held \ ReqNames(new)
  BY RemovedIs
<1>3. ClearedBitmap(old, gone) = RawOldBitmap(old) \ {held[n] : n \in {gone} \cap DOMAIN held}
  BY DEF ClearedBitmap
<1>4. IsFiniteSet(DOMAIN held \ ReqNames(new))
  BY <1>1, FS_Subset
<1>5. \A x, y \in DOMAIN held \ ReqNames(new) : x = y
  BY <1>4, AtMostOneElement
<1> HIDE DEF held
<1>6. CASE DOMAIN held \subseteq ReqNames(new)
  <2>1. gone = None
    BY <1>2, <1>6 DEF First
  <2>2. QED
    BY <1>1, <1>3, <1>6, <2>1 DEF held
<1>7. CASE ~(DOMAIN held \subseteq ReqNames(new))
  <2>1. gone \in DOMAIN held \ ReqNames(new)
    BY <1>2, <1>7 DEF First
  <2>2. \A n \in DOMAIN held : n = gone \/ n \in ReqNames(new)
    BY <1>5, <2>1
  <2>3. QED
    BY <1>1, <1>3, <2>1, <2>2 DEF held
<1>8. QED
  BY <1>6, <1>7

\* A name that stays keeps its offset, one that leaves frees its own, and the first
\* that comes is given what its window has free.
Made(old, new, m, first, granted) ==
    LET staying == DOMAIN Existing(old) \cap ReqNames(new)
        taken   == {Existing(old)[n] : n \in staying}
    IN  /\ granted = Granted(new, first, taken)
        /\ m.request = new.request
        /\ m.node = LockAfter(new)
        /\ m.status.bitmap = taken \cup granted
        /\ DOMAIN m.status.allocation = staying \cup (IF granted = {} THEN {} ELSE {first})
        /\ \A n \in staying : m.status.allocation[n] = Existing(old)[n]
        /\ granted # {} => first \notin DOMAIN Existing(old) /\ m.status.allocation[first] \in granted

LEMMA OutcomeIs ==
    ASSUME NEW old \in Object \cup {Absent}, Sound(old), NEW new \in Submitted,
           NEW m \in Outcomes(old, new),
           Cardinality(DOMAIN Existing(old) \ ReqNames(new)) <= 1
    PROVE  /\ m \in Object
           /\ m.status \in Status
           /\ \E first, granted :
                 first \in First(ReqNames(new) \ DOMAIN Existing(old)) /\ Made(old, new, m, first, granted)
<1>1. PICK first \in First(Pending(old, new)), gone \in First(Removed(old, new)) :
          m = Mutate(old, new, first, gone)
  BY DEF Outcomes
<1>2. first \in First(ReqNames(new) \ DOMAIN Existing(old))
  BY <1>1, PendingIs
<1>3. ClearedBitmap(old, gone) = {Existing(old)[n] : n \in DOMAIN Existing(old) \cap ReqNames(new)}
  BY <1>1, ClearedOf
<1> DEFINE granted == Granted(new, first, ClearedBitmap(old, gone))
<1>4. m \in Object /\ m.status \in Status
  BY <1>1, MutateType
<1>5. granted # {} => first \notin DOMAIN Existing(old)
  BY <1>1, <1>2, GrantedIs, SubmittedType DEF First
<1>6. granted = Granted(new, first, ClearedBitmap(old, gone))
  OBVIOUS
<1> HIDE DEF granted
<1>7. /\ m.request = new.request
      /\ m.node = LockAfter(new)
      /\ m.status.bitmap = ClearedBitmap(old, gone) \cup granted
      /\ DOMAIN m.status.allocation
           = (DOMAIN Existing(old) \cap ReqNames(new)) \cup (IF granted = {} THEN {} ELSE {first})
      /\ \A n \in DOMAIN Existing(old) \cap ReqNames(new) :
             m.status.allocation[n] = Existing(old)[n]
      /\ granted # {} /\ first \notin DOMAIN Existing(old)
           => m.status.allocation[first] \in granted
      /\ m.status = [allocation |-> m.status.allocation, bitmap |-> m.status.bitmap]
      /\ m.status.allocation = [n \in DOMAIN m.status.allocation |-> m.status.allocation[n]]
      /\ m = [request |-> m.request, node |-> m.node, status |-> m.status]
  BY <1>1, <1>6, MutateIs
<1>8. Made(old, new, m, first, granted)
  BY <1>3, <1>5, <1>6, <1>7 DEF Made
<1>9. QED
  BY <1>2, <1>4, <1>8

\* The mutating policy has something to say about every body.
LEMMA SomeOutcome ==
    ASSUME NEW old, NEW new \in Submitted
    PROVE  Outcomes(old, new) # {}
<1>1. First(Pending(old, new)) # {} /\ First(Removed(old, new)) # {}
  BY DEF First
<1>2. QED
  BY <1>1 DEF Outcomes

LEMMA OutcomeType ==
    ASSUME NEW old \in Object \cup {Absent}, NEW new \in Submitted, NEW m \in Outcomes(old, new)
    PROVE  /\ m \in Object
           /\ m.status \in Status
           /\ m.request = new.request
           /\ m.node = LockAfter(new)
<1>1. PICK first \in First(Pending(old, new)), gone \in First(Removed(old, new)) :
          m = Mutate(old, new, first, gone)
  BY DEF Outcomes
<1>2. m \in Object /\ m.status \in Status
  BY <1>1, MutateType
<1>3. m.request = new.request /\ m.node = LockAfter(new)
  BY <1>1 DEF Mutate
<1>4. QED
  BY <1>2, <1>3

\* What is admitted over a sound object is sound.
LEMMA SoundStep ==
    ASSUME NEW old \in Object \cup {Absent}, Sound(old), NEW new \in Submitted,
           NEW m \in Outcomes(old, new), Admitted(old, m)
    PROVE  m \in Object /\ m # Absent /\ Sound(m)
<1>1. m.request = new.request /\ m \in Object /\ m.status \in Status
  BY OutcomeType
<1>2. Cardinality(DOMAIN Existing(old) \ ReqNames(new)) <= 1
  <2>1. CASE old = Absent
    <3>1. DOMAIN Existing(old) \ ReqNames(new) = {}
      BY <2>1 DEF Existing
    <3>2. QED
      BY <3>1, FS_EmptySet
  <2>2. CASE old # Absent
    BY <1>1, <2>2, SoundIs DEF Admitted, VAPValid, AtMostOneRemoved, ReqNames, Wanted
  <2>3. QED
    BY <2>1, <2>2
<1>3. PICK first, granted :
          first \in First(ReqNames(new) \ DOMAIN Existing(old)) /\ Made(old, new, m, first, granted)
  BY <1>2, OutcomeIs
<1>4. WellFormed(m)
  BY <1>1, AdmittedIs
<1>5. m.status.bitmap = {m.status.allocation[n] : n \in DOMAIN m.status.allocation}
  <2> DEFINE staying == DOMAIN Existing(old) \cap ReqNames(new)
             alloc == m.status.allocation
  <2>1. \A o1, o2 \in granted : o1 = o2
    BY <1>3, GrantedIs DEF Made
  <2>2. /\ DOMAIN alloc = staying \cup (IF granted = {} THEN {} ELSE {first})
        /\ m.status.bitmap = {Existing(old)[n] : n \in staying} \cup granted
        /\ \A n \in staying : alloc[n] = Existing(old)[n]
        /\ granted # {} => first \notin staying /\ alloc[first] \in granted
    BY <1>3 DEF Made
  <2> HIDE DEF staying, alloc
  <2>3. {Existing(old)[n] : n \in staying} = {alloc[n] : n \in staying}
    BY <2>2
  <2>4. granted = {alloc[n] : n \in (IF granted = {} THEN {} ELSE {first})}
    BY <2>1, <2>2
  <2>5. m.status.bitmap = {alloc[n] : n \in DOMAIN alloc}
    BY <2>2, <2>3, <2>4
  <2>6. QED
    BY <2>5 DEF alloc
<1>6. m.node # None => DOMAIN m.request # {}
  BY <1>1, <1>3 DEF Made, LockAfter, ReqNames
<1>7. QED
  BY <1>1, <1>4, <1>5, <1>6, AbsentAssumption DEF Sound

(***************************************************************************)
(* Writing an object back.                                                 *)
(***************************************************************************)

LEMMA SameStatus ==
    ASSUME NEW s1 \in Status, NEW s2 \in Status,
           s1.allocation = s2.allocation, s1.bitmap = s2.bitmap
    PROVE  s1 = s2
  BY DEF Status

\* A body that asks for what is stored changes nothing, whatever status is in it.
LEMMA RewriteIs ==
    ASSUME NEW old \in Object, old # Absent, Sound(old), NEW new \in Submitted,
           new.request = old.request, new.node = old.node, NEW m \in Outcomes(old, new)
    PROVE  Admitted(old, m) /\ m = old
<1>1. /\ old.status \in Status
      /\ WellFormed(old)
      /\ old.status.bitmap = {old.status.allocation[n] : n \in DOMAIN old.status.allocation}
      /\ old.node # None => DOMAIN old.request # {}
  BY DEF Sound
<1>2. Existing(old) = old.status.allocation /\ ReqNames(new) = DOMAIN Existing(old)
  BY SoundIs DEF ReqNames, Wanted
<1>3. DOMAIN Existing(old) \ ReqNames(new) = {} /\ ReqNames(new) \ DOMAIN Existing(old) = {}
  BY <1>2
<1>4. Cardinality(DOMAIN Existing(old) \ ReqNames(new)) <= 1
  BY <1>3, FS_EmptySet
<1>5. /\ m \in Object
      /\ m.status \in Status
      /\ \E first, granted :
            first \in First(ReqNames(new) \ DOMAIN Existing(old)) /\ Made(old, new, m, first, granted)
  BY <1>4, OutcomeIs
<1>6. PICK first, granted :
          first \in First(ReqNames(new) \ DOMAIN Existing(old)) /\ Made(old, new, m, first, granted)
  BY <1>5
<1>7. granted = {}
  <2>1. first = None
    BY <1>3, <1>6 DEF First
  <2>2. {first} \cap ReqNames(new) = {}
    BY <2>1, SubmittedType
  <2>3. QED
    BY <1>6, <2>2 DEF Granted, Made
<1>8. m.node = old.node
  BY <1>1, <1>6 DEF Made, LockAfter, ReqNames
<1>9. m.status = old.status
  <2>1. m.status.allocation \in ListMap(Names, Offsets) /\ old.status.allocation \in ListMap(Names, Offsets)
    BY <1>1, <1>5 DEF Status
  <2>2. DOMAIN m.status.allocation = DOMAIN old.status.allocation
    BY <1>2, <1>6, <1>7 DEF Made
  <2>3. \A n \in DOMAIN m.status.allocation : m.status.allocation[n] = old.status.allocation[n]
    BY <1>2, <1>6, <1>7 DEF Made
  <2>4. m.status.allocation = old.status.allocation
    BY <2>1, <2>2, <2>3, ListMapType
  <2>5. m.status.bitmap = old.status.bitmap
    BY <1>1, <1>2, <1>6, <1>7 DEF Made
  <2>6. QED
    BY <1>1, <1>5, <2>4, <2>5, SameStatus
<1>10. m = old
  BY <1>5, <1>6, <1>8, <1>9 DEF Object, Made
<1>11. Succeeds(old, old)
  <2>1. FieldsImmutable(old, old)
    BY DEF FieldsImmutable, Unchanged
  <2>2. OffsetsFixed(old, old)
    BY <1>1, <1>2 DEF OffsetsFixed, WellFormed
  <2>3. DOMAIN old.request \ DOMAIN old.request = {}
    OBVIOUS
  <2>4. AtMostOneRemoved(old, old)
    BY <2>3, FS_EmptySet DEF AtMostOneRemoved
  <2>5. QED
    BY <2>1, <2>2, <2>4 DEF Succeeds, LockKept
<1>12. QED
  BY <1>1, <1>10, <1>11, AdmittedIs

(***************************************************************************)
(* Room.                                                                   *)
(***************************************************************************)

LEMMA LowestOf ==
    ASSUME NEW S \in SUBSET Nat, S # {}
    PROVE  \E x \in S : \A y \in S : x <= y
<1>1. PICK x \in S : \A y \in S : ~(<<y, x>> \in OpToRel(<, Nat))
  BY NatLessThanWellFounded, WFMin, Zenon
<1>2. \A y \in S : ~(y < x)
  BY <1>1 DEF OpToRel
<1>3. QED
  BY <1>2

OffsetsOf(old) == {Existing(old)[n] : n \in DOMAIN Existing(old)}

\* While an address is free, there is room in the list for one more request.
LEMMA RoomInList ==
    ASSUME NEW old \in Object \cup {Absent}, Sound(old), NEW free \in Offsets \ OffsetsOf(old)
    PROVE  /\ IsFiniteSet(DOMAIN Existing(old))
           /\ Cardinality(DOMAIN Existing(old)) \in Nat
           /\ Cardinality(DOMAIN Existing(old)) + 1 <= Hosts
<1> DEFINE others == Offsets \ {free}
           f == [n \in DOMAIN Existing(old) |-> Existing(old)[n]]
<1>1. IsFiniteSet(Offsets) /\ Cardinality(Offsets) = Hosts
  BY HostsAssumption, FS_Interval DEF Offsets
<1>2. IsFiniteSet(others) /\ Cardinality(others) = Hosts - 1
  BY <1>1, FS_RemoveElement
<1>3. f \in Injection(DOMAIN Existing(old), others)
  BY SoundIs DEF Injection, IsInjective, OffsetsOf
<1>4. /\ IsFiniteSet(DOMAIN Existing(old))
      /\ Cardinality(DOMAIN Existing(old)) <= Cardinality(others)
  <2> HIDE DEF f, others
  <2>1. QED
    BY <1>2, <1>3, FS_Injection
<1>5. Cardinality(DOMAIN Existing(old)) \in Nat
  BY <1>4, FS_CardinalityType
<1>6. QED
  BY <1>2, <1>4, <1>5, HostsAssumption

\* The search finds the lowest free address of the window if there is one.
LEMMA GrantedIfRoom ==
    ASSUME NEW new \in Submitted, NEW n \in ReqNames(new), NEW taken
    PROVE  (\E o \in Offsets \ taken : Wlo(new.request[n]) <= o /\ o <= Whi(new.request[n]))
              <=> Granted(new, n, taken) # {}
<1> DEFINE r == new.request[n]
           Free == {o \in Offsets \ taken : Wlo(r) <= o}
<1>1. r \in Request
  BY SubmittedType
<1>2. Wlo(r) \in Int /\ Whi(r) \in Int
  BY <1>1, WindowsAssumption, HostsAssumption DEF Wlo, Whi, Request, Offsets
<1>3. Granted(new, n, taken) = {o \in Pick(taken, Wlo(r)) : o <= Whi(r)}
  BY DEF Granted
<1>4. ASSUME NEW o \in Offsets \ taken, Wlo(r) <= o, o <= Whi(r)
      PROVE  Granted(new, n, taken) # {}
  <2>1. Free \in SUBSET Nat /\ Free # {} /\ o \in Free
    BY <1>4, HostsAssumption DEF Offsets
  <2>2. PICK x \in Free : \A y \in Free : x <= y
    <3> HIDE DEF Free
    <3>1. QED
      BY <2>1, LowestOf
  <2>3. x \in Pick(taken, Wlo(r))
    BY <1>2, <2>2, HostsAssumption DEF Pick, Offsets
  <2>4. x <= Whi(r)
    BY <1>2, <1>4, <2>1, <2>2, HostsAssumption DEF Offsets
  <2>5. QED
    BY <1>3, <2>3, <2>4
<1>5. ASSUME NEW o \in Granted(new, n, taken)
      PROVE  o \in Offsets \ taken /\ Wlo(r) <= o /\ o <= Whi(r)
  <2>1. o \in Pick(taken, Wlo(r)) /\ o <= Whi(r)
    BY <1>3, <1>5
  <2>2. QED
    BY <1>2, <2>1, HostsAssumption DEF Pick, Offsets
<1>6. QED
  BY <1>4, <1>5
=============================================================================
