---------------------------- MODULE IPSlice_proofs ----------------------------
(***************************************************************************)
(* Proofs about the life of one IPSlice, for every slice size, every       *)
(* finite set of names and every set of windows, nodes, devices and client *)
(* statuses.  What holds of one write is in Admission_proofs.              *)
(***************************************************************************)
EXTENDS IPSlice, Admission_proofs

(***************************************************************************)
(* One admitted write.                                                     *)
(***************************************************************************)

\* What is stored is an outcome of the mutating policy that was admitted.
LEMMA StoredIs ==
    ASSUME TypeOK, NEW new \in Proposal, Store(new)
    PROVE  /\ new \in Submitted
           /\ slice' \in Outcomes(slice, new)
           /\ Admitted(slice, slice')
           /\ slice'.request = new.request
           /\ slice' \in Object
           /\ slice' # Absent
           /\ slice'.status \in Status
           /\ Held' = slice'.status.allocation
           /\ RawOldBitmap(slice)' = slice'.status.bitmap
           /\ Requests' = slice'.request
<1>1. slice' \in Outcomes(slice, new) /\ Admitted(slice, slice')
  BY DEF Store
<1>2. new \in Submitted
  BY ProposalsAreSubmitted
<1>3. slice' \in Object /\ slice'.status \in Status /\ slice'.request = new.request
  BY <1>1, <1>2, OutcomeType DEF TypeOK
<1>4. slice' # Absent
  BY <1>3, AbsentAssumption
<1>5. slice'.status # None
  BY <1>3, OptionalAssumption
<1>6. QED
  BY <1>1, <1>2, <1>3, <1>4, <1>5 DEF Held, Requests, Existing, RawOldBitmap

\* What an admitted write does to the table of holders: at most one name leaves,
\* at most one enters, with the lowest offset of its window that is then free.
LEMMA StoreStep ==
    ASSUME TypeOK, Sound(slice), NEW new \in Proposal, Store(new)
    PROVE  \E first, granted :
               /\ DOMAIN Held' = (DOMAIN Held \cap DOMAIN Requests')
                                 \cup (IF granted = {} THEN {} ELSE {first})
               /\ DOMAIN Held' = DOMAIN Requests'
               /\ \A n \in DOMAIN Held \cap DOMAIN Requests' : Held'[n] = Held[n]
               /\ IsFiniteSet(DOMAIN Held \ DOMAIN Requests')
               /\ Cardinality(DOMAIN Held \ DOMAIN Requests') <= 1
               /\ granted # {} =>
                      /\ first \in Names
                      /\ first \notin DOMAIN Held
                      /\ \A o \in Offsets :
                            Wlo(Requests'[first]) <= o /\ o < Held'[first]
                                => o \in {Held[n] : n \in DOMAIN Held \cap DOMAIN Requests'}
<1>1. /\ new \in Submitted
      /\ slice'.request = new.request
      /\ slice' \in Outcomes(slice, new)
      /\ Admitted(slice, slice')
      /\ slice' \in Object
      /\ slice'.status \in Status
      /\ Held' = slice'.status.allocation
      /\ Requests' = slice'.request
      /\ slice \in Object \cup {Absent}
  BY StoredIs DEF TypeOK
<1>2. ReqNames(new) = DOMAIN Requests'
  BY <1>1 DEF ReqNames
<1>3. DOMAIN Held = DOMAIN Wanted(slice) /\ IsFiniteSet(DOMAIN Held)
  BY <1>1, SoundIs DEF Held
<1>4. IsFiniteSet(DOMAIN Held \ ReqNames(new))
  BY <1>3, FS_Subset
<1>5. Cardinality(DOMAIN Held \ ReqNames(new)) <= 1
  <2>1. CASE slice = Absent
    <3>1. DOMAIN Held \ ReqNames(new) = {}
      BY <2>1 DEF Held, Existing
    <3>2. QED
      BY <3>1, FS_EmptySet
  <2>2. CASE slice # Absent
    <3>1. Cardinality(DOMAIN slice.request \ DOMAIN slice'.request) <= 1
      BY <1>1, <2>2 DEF Admitted, VAPValid, AtMostOneRemoved
    <3>2. QED
      BY <1>2, <1>1, <1>3, <2>2, <3>1 DEF Wanted
  <2>3. QED
    BY <2>1, <2>2
<1>6. PICK first, granted :
          first \in First(ReqNames(new) \ DOMAIN Held) /\ Made(slice, new, slice', first, granted)
  BY <1>1, <1>5, OutcomeIs DEF Held
<1>7. DOMAIN Held' = DOMAIN Requests'
  BY <1>1, AdmittedIs DEF WellFormed
<1>8. /\ DOMAIN Held' = (DOMAIN Held \cap DOMAIN Requests')
                         \cup (IF granted = {} THEN {} ELSE {first})
      /\ \A n \in DOMAIN Held \cap DOMAIN Requests' : Held'[n] = Held[n]
      /\ granted # {} => first \notin DOMAIN Held /\ Held'[first] \in granted
      /\ granted = Granted(new, first, {Held[n] : n \in DOMAIN Held \cap DOMAIN Requests'})
  BY <1>1, <1>2, <1>6 DEF Made, Held
<1>9. granted # {} =>
          /\ first \in Names
          /\ \A o \in Offsets :
                Wlo(Requests'[first]) <= o /\ o < Held'[first]
                    => o \in {Held[n] : n \in DOMAIN Held \cap DOMAIN Requests'}
  <2>1. granted # {} => first \in ReqNames(new)
    BY <1>1, <1>8, GrantedIs
  <2>2. \A g \in granted : \A o \in Offsets :
            Wlo(new.request[first]) <= o /\ o < g
                => o \in {Held[n] : n \in DOMAIN Held \cap DOMAIN Requests'}
    BY <1>1, <1>8, GrantedIs
  <2>3. QED
    BY <1>1, <1>2, <1>8, <2>1, <2>2, SubmittedType
<1>10. QED
  BY <1>2, <1>4, <1>5, <1>7, <1>8, <1>9

(***************************************************************************)
(* Every state.                                                            *)
(***************************************************************************)

\* Only objects of the declared shape are ever stored: one entry for every request
\* name, offsets within the slice, a bitmap no longer than the slice.
THEOREM TypeCorrect == Spec => []TypeOK
<1>1. Init => TypeOK
  BY DEF Init, TypeOK
<1>2. TypeOK /\ [Next]_slice => TypeOK'
  <2> SUFFICES ASSUME TypeOK, [Next]_slice
               PROVE  TypeOK'
    OBVIOUS
  <2>1. ASSUME NEW new \in Proposal, Create(new)
        PROVE  TypeOK'
    BY <2>1, StoredIs DEF Create, TypeOK
  <2>2. ASSUME NEW new \in Proposal, Update(new)
        PROVE  TypeOK'
    BY <2>2, StoredIs DEF Update, TypeOK
  <2>3. CASE Delete
    BY <2>3 DEF Delete, TypeOK
  <2>4. CASE UNCHANGED slice
    BY <2>4 DEF TypeOK
  <2>5. QED
    BY <2>1, <2>2, <2>3, <2>4 DEF Next
<1>3. QED
  BY <1>1, <1>2, PTL DEF Spec

\* The inductive invariant: whatever is stored passes every rule about an object by
\* itself, its bitmap is its list's, and a lock locks something.
THEOREM Soundness == Spec => []Sound(slice)
<1>1. Init => Sound(slice)
  BY DEF Init, Sound
<1>2. TypeOK /\ Sound(slice) /\ [Next]_slice => Sound(slice)'
  <2> SUFFICES ASSUME TypeOK, Sound(slice), [Next]_slice
               PROVE  Sound(slice')
    BY DEF Sound, WellFormed, RequestsWithinCap, WindowWellFormed, NodesMatchLock,
           NoDuplicateOffset, AllocatedInWindow, NamesMatchDevices
  <2>1. ASSUME NEW new \in Proposal, Store(new)
        PROVE  Sound(slice')
    BY <2>1, StoredIs, SoundStep DEF TypeOK
  <2>2. CASE Delete
    BY <2>2 DEF Delete, Sound
  <2>3. CASE UNCHANGED slice
    BY <2>3
  <2>4. QED
    BY <2>1, <2>2, <2>3 DEF Next, Create, Update
<1>3. QED
  BY <1>1, <1>2, TypeCorrect, PTL DEF Spec

LEMMA SoundIsSafe ==
    ASSUME TypeOK, Sound(slice)
    PROVE  SafetyInv
<1>1. /\ DOMAIN Held = DOMAIN Requests
      /\ \A n \in DOMAIN Held : Held[n] \in Offsets
      /\ \A a, b \in DOMAIN Held : Held[a] = Held[b] => a = b
      /\ RawOldBitmap(slice) = {Held[n] : n \in DOMAIN Held}
      /\ slice # Absent => Held = slice.status.allocation
      /\ \A n \in DOMAIN Requests : Requests[n] \in Request
  BY SoundIs DEF TypeOK, Held, Requests, Wanted
<1>2. BitmapAgrees /\ OneHolderPerOffset /\ AllocatedExactly
  BY <1>1 DEF BitmapAgrees, TakenOffsets, OneHolderPerOffset, AllocatedExactly
<1>3. WithinWindow
  <2> SUFFICES ASSUME NEW n \in DOMAIN Held, n \in DOMAIN Requests
               PROVE  Wlo(Requests[n]) <= Held[n] /\ Held[n] <= Whi(Requests[n])
    BY DEF WithinWindow
  <2>1. slice # Absent
    BY DEF Requests
  <2>2. Requests[n].window # None =>
            /\ Held[n] >= Requests[n].window.offset
            /\ Held[n] < Requests[n].window.offset + Requests[n].window.length
    BY <1>1, <2>1 DEF Sound, WellFormed, AllocatedInWindow, Requests
  <2>3. Held[n] \in Offsets /\ Requests[n].window \in Windows \cup {None}
    BY <1>1 DEF Request
  <2>4. CASE Requests[n].window = None
    BY <2>3, <2>4, HostsAssumption DEF Wlo, Whi, Offsets
  <2>5. CASE Requests[n].window # None
    <3>1. Requests[n].window \in [offset : Offsets, length : 1 .. Hosts]
      BY <2>3, <2>5, WindowsAssumption
    <3>2. QED
      BY <2>2, <2>3, <2>5, <3>1, HostsAssumption DEF Wlo, Whi, Offsets
  <2>6. QED
    BY <2>4, <2>5
<1>4. LockMeansOneNode
  BY DEF Sound, WellFormed, NodesMatchLock, LockMeansOneNode
<1>5. QED
  BY <1>2, <1>3, <1>4 DEF SafetyInv

\* No two requests of a slice ever hold the same address, requests and allocations
\* pair up, addresses lie in their windows, a lock never outlives its requests, and
\* the bitmap that the allocator searches is exactly the list's offsets.
THEOREM Safety == Spec => []SafetyInv
  BY TypeCorrect, Soundness, SoundIsSafe, PTL

\* A locked slice serves one node, and a lock never outlives its requests.
THEOREM OneNode == Spec => []LockMeansOneNode
<1>1. SafetyInv => LockMeansOneNode
  BY DEF SafetyInv
<1>2. QED
  BY <1>1, Safety, PTL

(***************************************************************************)
(* Every step.                                                             *)
(***************************************************************************)

\* An address in use is never moved.
THEOREM NeverMoves == Spec => OffsetNeverMoves
<1> DEFINE Still == InPlace => \A n \in DOMAIN Held \cap DOMAIN Held' : Held'[n] = Held[n]
<1>1. TypeOK /\ Sound(slice) /\ [Next]_slice => [Still]_slice
  <2> SUFFICES ASSUME TypeOK, Sound(slice), Next, InPlace
               PROVE  Still
    OBVIOUS
  <2>1. PICK new \in Proposal : Store(new)
    BY DEF Next, Create, Update, Delete, InPlace
  <2>2. QED
    BY <2>1, StoreStep
<1>2. QED
  BY <1>1, TypeCorrect, Soundness, PTL DEF Spec, OffsetNeverMoves

\* A grant takes the lowest offset of the window that nobody who stays holds.
THEOREM LowestFree == Spec => LowestFreeGranted
<1> DEFINE Lowest ==
      InPlace =>
        \A n \in DOMAIN Held' \ DOMAIN Held :
            LET r == slice'.request[n]
                staying == {Held[k] : k \in DOMAIN Held \cap DOMAIN Held'}
            IN  \A o \in Offsets : (Wlo(r) <= o /\ o < Held'[n]) => o \in staying
<1>1. TypeOK /\ Sound(slice) /\ [Next]_slice => [Lowest]_slice
  <2> SUFFICES ASSUME TypeOK, Sound(slice), Next, InPlace
               PROVE  Lowest
    OBVIOUS
  <2>1. PICK new \in Proposal : Store(new)
    BY DEF Next, Create, Update, Delete, InPlace
  <2>2. PICK first, granted :
          /\ DOMAIN Held' = (DOMAIN Held \cap DOMAIN Requests')
                            \cup (IF granted = {} THEN {} ELSE {first})
          /\ DOMAIN Held' = DOMAIN Requests'
          /\ granted # {} =>
                 \A o \in Offsets :
                     Wlo(Requests'[first]) <= o /\ o < Held'[first]
                         => o \in {Held[n] : n \in DOMAIN Held \cap DOMAIN Requests'}
    BY <2>1, StoreStep
  <2>3. Requests' = slice'.request
    BY <2>1, StoredIs
  <2>4. QED
    BY <2>2, <2>3
<1>2. QED
  BY <1>1, TypeCorrect, Soundness, PTL DEF Spec, LowestFreeGranted

(***************************************************************************)
(* The slice implements the address table.                                 *)
(***************************************************************************)

\* Whatever clients write, the slice behaves as the table: every admitted write is
\* an exchange of at most one holding against at most one, and only the deletion
\* of the object empties the table.
THEOREM Refinement == Spec => ImplementsTable
<1>1. Init => Table!Init
  <2> SUFFICES ASSUME slice = Absent
               PROVE  Held = [n \in {} |-> n]
    BY DEF Init, Table!Init
  <2>1. QED
    BY DEF Held, Existing
<1>2. TypeOK /\ Sound(slice) /\ [Next]_slice => [Table!Next]_Held
  <2> SUFFICES ASSUME TypeOK, Sound(slice), [Next]_slice
               PROVE  [Table!Next]_Held
    OBVIOUS
  <2>1. ASSUME NEW new \in Proposal, Store(new)
        PROVE  Table!Change
    <3> DEFINE out == DOMAIN Held \ DOMAIN Requests'
    <3>1. PICK first, granted :
            /\ DOMAIN Held' = (DOMAIN Held \cap DOMAIN Requests')
                              \cup (IF granted = {} THEN {} ELSE {first})
            /\ DOMAIN Held' = DOMAIN Requests'
            /\ \A n \in DOMAIN Held \cap DOMAIN Requests' : Held'[n] = Held[n]
            /\ IsFiniteSet(out)
            /\ Cardinality(out) <= 1
            /\ granted # {} => first \in Names /\ first \notin DOMAIN Held
      BY <2>1, StoreStep
    <3> DEFINE in == IF granted = {} THEN {} ELSE {first}
    <3>2. out \in Table!AtMostOne(DOMAIN Held)
      <4>1. \A x, y \in out : x = y
        BY <3>1, AtMostOneElement
      <4>2. out \subseteq DOMAIN Held
        OBVIOUS
      <4>3. QED
        BY <4>1, <4>2 DEF Table!AtMostOne
    <3>3. in \in Table!AtMostOne(Names \ DOMAIN Held)
      BY <3>1 DEF Table!AtMostOne
    <3>4. DOMAIN Held \ out = DOMAIN Held \cap DOMAIN Requests'
      OBVIOUS
    <3>5. Held' \in [(DOMAIN Held \ out) \cup in -> Offsets]
      <4>1. slice' \in Object \cup {Absent}
        BY <2>1, StoredIs
      <4>2. Existing(slice') \in [DOMAIN Existing(slice') -> Offsets]
        BY <4>1, ExistingType
      <4>3. Held' \in [DOMAIN Held' -> Offsets]
        BY <4>2 DEF Held
      <4>4. QED
        BY <3>1, <3>4, <4>3
    <3>6. \A n \in DOMAIN Held \ out : Held'[n] = Held[n]
      BY <3>1
    <3>7. \A n \in in : \A other \in DOMAIN Held \ out : Held'[n] # Held[other]
      <4>1. OneHolderPerOffset'
        BY <2>1, StoredIs DEF Admitted, VAPValid, NoDuplicateOffset, OneHolderPerOffset
      <4>2. QED
        BY <3>1, <3>6, <4>1 DEF OneHolderPerOffset
    <3>8. Table!Exchange(out, in)
      BY <3>5, <3>6, <3>7 DEF Table!Exchange
    <3>9. QED
      BY <3>2, <3>3, <3>8 DEF Table!Change
  <2>2. CASE \E new \in Proposal : Create(new) \/ Update(new)
    BY <2>1, <2>2 DEF Create, Update, Table!Next
  <2>3. CASE Delete
    <3>1. Held' = [n \in {} |-> n]
      BY <2>3 DEF Delete, Held, Existing
    <3>2. Held \in [DOMAIN Held -> Offsets]
      BY ExistingType DEF TypeOK, Held
    <3>3. {m \in DOMAIN Held : Held[m] \notin Offsets} = {}
      BY <3>2
    <3>4. Table!Delete(Offsets)
      BY <3>1, <3>3 DEF Table!Delete
    <3>5. QED
      BY <3>4 DEF Table!Next
  <2>4. CASE UNCHANGED slice
    BY <2>4 DEF Held
  <2>5. QED
    BY <2>2, <2>3, <2>4 DEF Next
<1>3. QED
  BY <1>1, <1>2, TypeCorrect, Soundness, PTL DEF Spec, ImplementsTable, Table!Spec
=============================================================================
