-------------------------- MODULE IPSliceRoom_proofs --------------------------
(***************************************************************************)
(* Proofs about what a stored object will accept: writing it back, taking  *)
(* a request away, adding one.  Each is about every reachable object: they *)
(* rest on Soundness, that what is stored would be admitted again.         *)
(***************************************************************************)
EXTENDS IPSlice_proofs

LEMMA HoldersAre ==
    ASSUME TypeOK, Sound(slice)
    PROVE  /\ slice \in Object \cup {Absent}
           /\ DOMAIN Held = DOMAIN Requests
           /\ DOMAIN Held \subseteq Names
           /\ IsFiniteSet(DOMAIN Held)
           /\ \A n \in DOMAIN Held : Held[n] \in Offsets
           /\ \A a, b \in DOMAIN Held : Held[a] = Held[b] => a = b
           /\ OffsetsOf(slice) = TakenOffsets
           /\ slice # Absent => Held = slice.status.allocation
           /\ \A n \in DOMAIN Requests : Requests[n] \in Request
  BY SoundIs DEF TypeOK, Held, Requests, Wanted, OffsetsOf, TakenOffsets

(***************************************************************************)
(* Writing the object back.                                                *)
(***************************************************************************)

\* Every stored object is accepted again as it is, and no status that a client sends
\* along makes a difference: for every size, every set of names and windows.
THEOREM Idempotent == Spec => []RewriteChangesNothing
<1>1. TypeOK /\ Sound(slice) => RewriteChangesNothing
  <2> SUFFICES ASSUME TypeOK, Sound(slice), slice # Absent, NEW s \in ClientStatuses,
                      NEW m \in Outcomes(slice, [slice EXCEPT !.status = s])
               PROVE  Admitted(slice, m) /\ m = slice
    BY DEF RewriteChangesNothing
  <2> DEFINE new == [slice EXCEPT !.status = s]
  <2>1. slice \in Object
    BY DEF TypeOK
  <2>2. new \in Submitted /\ new.request = slice.request /\ new.node = slice.node
    BY <2>1, ClientStatusAssumption DEF Object, Submitted
  <2> HIDE DEF new
  <2>3. QED
    BY <2>1, <2>2, RewriteIs DEF new
<1>2. QED
  BY <1>1, TypeCorrect, Soundness, PTL

(***************************************************************************)
(* Taking one request away.                                                *)
(***************************************************************************)

LEMMA ReleaseIsAccepted ==
    ASSUME TypeOK, Sound(slice), slice # Absent, NEW n \in DOMAIN slice.request
    PROVE  Accepts(slice, [slice EXCEPT !.request = WithoutRequest(n)])
<1> DEFINE new == [slice EXCEPT !.request = WithoutRequest(n)]
<1>1. /\ slice \in Object
      /\ slice.status \in Status
      /\ WellFormed(slice)
  BY DEF TypeOK, Sound
<1>2. slice.request \in ListMap(Names, Request)
  BY <1>1 DEF Object
<1>3. /\ DOMAIN WithoutRequest(n) = DOMAIN slice.request \ {n}
      /\ \A k \in DOMAIN slice.request \ {n} : WithoutRequest(n)[k] = slice.request[k]
      /\ WithoutRequest(n) \in ListMap(Names, Request)
  BY <1>2, ListMapType DEF WithoutRequest
<1>4. /\ new \in Submitted
      /\ new.request = WithoutRequest(n)
      /\ new.node = slice.node
  BY <1>1, <1>3 DEF Object, Submitted
<1> HIDE DEF new
<1>5. PICK m \in Outcomes(slice, new) : TRUE
  BY <1>4, SomeOutcome
<1>6. /\ DOMAIN Held = DOMAIN slice.request
      /\ Held = slice.status.allocation
      /\ ReqNames(new) = DOMAIN slice.request \ {n}
      /\ IsFiniteSet(DOMAIN slice.request)
  BY <1>3, <1>4, HoldersAre DEF ReqNames, Requests
<1>7. Cardinality(DOMAIN Held \ ReqNames(new)) <= 1
  <2>1. DOMAIN Held \ ReqNames(new) = {n}
    BY <1>6
  <2>2. QED
    BY <2>1, FS_Singleton
<1>8. /\ m \in Object
      /\ m.status \in Status
      /\ \E first, granted :
            first \in First(ReqNames(new) \ DOMAIN Held) /\ Made(slice, new, m, first, granted)
  BY <1>4, <1>5, <1>7, HoldersAre, OutcomeIs DEF Held
<1>9. PICK first, granted :
            first \in First(ReqNames(new) \ DOMAIN Held) /\ Made(slice, new, m, first, granted)
  BY <1>8
<1>10. granted = {}
  <2>1. first = None
    BY <1>6, <1>9 DEF First
  <2>2. {first} \cap ReqNames(new) = {}
    BY <1>4, <2>1, SubmittedType
  <2>3. QED
    BY <1>9, <2>2 DEF Granted, Made
<1>11. /\ m.request = WithoutRequest(n)
       /\ m.node = LockAfter(new)
       /\ DOMAIN m.status.allocation = DOMAIN slice.request \ {n}
       /\ \A k \in DOMAIN slice.request \ {n} : m.status.allocation[k] = Held[k]
  BY <1>4, <1>6, <1>9, <1>10 DEF Made, Held
<1>12. WellFormed(m)
  <2>1. RequestsWithinCap(m)
    <3>1. Cardinality(DOMAIN slice.request) <= Hosts
      BY <1>1 DEF WellFormed, RequestsWithinCap
    <3>2. /\ IsFiniteSet(DOMAIN m.request)
          /\ Cardinality(DOMAIN m.request) <= Cardinality(DOMAIN slice.request)
      BY <1>3, <1>6, <1>11, FS_Subset
    <3>3. Cardinality(DOMAIN m.request) \in Nat /\ Cardinality(DOMAIN slice.request) \in Nat
      BY <1>6, <3>2, FS_CardinalityType
    <3>4. QED
      BY <3>1, <3>2, <3>3, HostsAssumption DEF RequestsWithinCap
  <2>2. \A k \in DOMAIN m.request : WindowWellFormed(m.request[k])
    BY <1>1, <1>3, <1>11 DEF WellFormed
  <2>3. NodesMatchLock(m)
    BY <1>1, <1>3, <1>4, <1>11 DEF WellFormed, NodesMatchLock, LockAfter
  <2>4. NoDuplicateOffset(m)
    BY <1>6, <1>11, HoldersAre DEF NoDuplicateOffset
  <2>5. AllocatedInWindow(m)
    BY <1>1, <1>3, <1>6, <1>11 DEF WellFormed, AllocatedInWindow
  <2>6. NamesMatchDevices(m)
    BY <1>1, <1>3, <1>11 DEF WellFormed, NamesMatchDevices
  <2>7. QED
    BY <1>3, <1>11, <2>1, <2>2, <2>3, <2>4, <2>5, <2>6 DEF WellFormed
<1>13. Succeeds(slice, m)
  <2>1. FieldsImmutable(slice, m)
    BY <1>3, <1>11 DEF FieldsImmutable, Unchanged
  <2>2. OffsetsFixed(slice, m)
    BY <1>3, <1>6, <1>11 DEF OffsetsFixed, Held
  <2>3. AtMostOneRemoved(slice, m)
    <3>1. DOMAIN slice.request \ DOMAIN m.request = {n}
      BY <1>3, <1>11
    <3>2. Cardinality({n}) = 1
      BY FS_Singleton
    <3>3. QED
      BY <3>1, <3>2 DEF AtMostOneRemoved
  <2>4. LockKept(slice, m)
    BY <1>3, <1>4, <1>11 DEF LockKept, LockAfter, ReqNames
  <2>5. QED
    BY <2>1, <2>2, <2>3, <2>4 DEF Succeeds
<1>14. Admitted(slice, m)
  BY <1>8, <1>12, <1>13, AdmittedIs
<1>15. QED
  BY <1>5, <1>14 DEF Accepts, new

\* No reachable object traps an address: whoever removes one request and changes
\* nothing else is accepted.
THEOREM ReleaseAccepted == Spec => []ReleaseNeverRefused
<1>1. TypeOK /\ Sound(slice) => ReleaseNeverRefused
  BY ReleaseIsAccepted DEF ReleaseNeverRefused
<1>2. QED
  BY <1>1, TypeCorrect, Soundness, PTL

(***************************************************************************)
(* Adding one request.                                                     *)
(***************************************************************************)

\* The body that asks for one more request, and what the policy makes of it.
LEMMA AdditionIs ==
    ASSUME TypeOK, Sound(slice), NEW n \in Names, NEW r \in Request, n \notin DOMAIN Requests,
           NEW m \in Outcomes(slice, WithRequest(n, r))
    PROVE  LET granted == Granted(WithRequest(n, r), n, TakenOffsets)
           IN  /\ m \in Object
               /\ m.status \in Status
               /\ m.request = WithRequest(n, r).request
               /\ m.node = (IF slice = Absent THEN None ELSE slice.node)
               /\ DOMAIN m.status.allocation = DOMAIN Held \cup (IF granted = {} THEN {} ELSE {n})
               /\ \A k \in DOMAIN Held : m.status.allocation[k] = Held[k]
               /\ granted # {} => m.status.allocation[n] \in granted
<1> DEFINE new == WithRequest(n, r)
<1>1. /\ DOMAIN Requests \subseteq Names
      /\ \A k \in DOMAIN Requests : Requests[k] \in Request
  <2>1. CASE slice = Absent
    BY <2>1 DEF Requests
  <2>2. CASE slice # Absent
    BY <2>2, ListMapType DEF Requests, TypeOK, Object
  <2>3. QED
    BY <2>1, <2>2
<1>2. /\ ReqNames(new) = DOMAIN Requests \cup {n}
      /\ new.request \in ListMap(Names, Request)
      /\ new.node = (IF slice = Absent THEN None ELSE slice.node)
      /\ new = [request |-> new.request, node |-> new.node, status |-> None]
  BY <1>1, ListMapType DEF WithRequest, ReqNames
<1>3. new.node \in Nodes \cup {None}
  BY <1>2 DEF TypeOK, Object
<1>4. new \in Submitted
  BY <1>2, <1>3 DEF Submitted
<1>5. m \in Outcomes(slice, new)
  OBVIOUS
<1> HIDE DEF new
<1>6. DOMAIN Held = DOMAIN Requests
  BY HoldersAre
<1>7. Cardinality(DOMAIN Held \ ReqNames(new)) <= 1
  <2>1. DOMAIN Held \ ReqNames(new) = {}
    BY <1>2, <1>6
  <2>2. QED
    BY <2>1, FS_EmptySet
<1>8. /\ m \in Object
      /\ m.status \in Status
      /\ \E first, granted :
            first \in First(ReqNames(new) \ DOMAIN Held) /\ Made(slice, new, m, first, granted)
  BY <1>4, <1>5, <1>7, HoldersAre, OutcomeIs DEF Held
<1>9. PICK first, granted :
            first \in First(ReqNames(new) \ DOMAIN Held) /\ Made(slice, new, m, first, granted)
  BY <1>8
<1>10. first = n
  BY <1>2, <1>6, <1>9 DEF First
<1>11. DOMAIN Held \cap ReqNames(new) = DOMAIN Held
  BY <1>2, <1>6
<1>12. granted = Granted(new, n, TakenOffsets)
  BY <1>9, <1>10, <1>11 DEF Made, Held, TakenOffsets
<1>13. m.node = new.node
  BY <1>2, <1>9 DEF Made, LockAfter
<1>14. QED
  BY <1>2, <1>8, <1>9, <1>10, <1>11, <1>12, <1>13 DEF Made, Held, new

LEMMA AdditionIsAccepted ==
    ASSUME TypeOK, Sound(slice), NEW n \in Names, NEW r \in Request, Eligible(n, r),
           NEW free \in Offsets \ TakenOffsets,
           NEW m \in Outcomes(slice, WithRequest(n, r)),
           Granted(WithRequest(n, r), n, TakenOffsets) # {}
    PROVE  Admitted(slice, m)
<1> DEFINE new == WithRequest(n, r)
           granted == Granted(new, n, TakenOffsets)
<1>1. n \notin DOMAIN Requests /\ WindowWellFormed(r)
  BY DEF Eligible
<1>2. /\ m \in Object
      /\ m.status \in Status
      /\ m.request = new.request
      /\ m.node = (IF slice = Absent THEN None ELSE slice.node)
      /\ DOMAIN m.status.allocation = DOMAIN Held \cup {n}
      /\ \A k \in DOMAIN Held : m.status.allocation[k] = Held[k]
      /\ m.status.allocation[n] \in granted
  BY <1>1, AdditionIs
<1>3. /\ DOMAIN m.request = DOMAIN Requests \cup {n}
      /\ \A k \in DOMAIN Requests : m.request[k] = Requests[k]
      /\ m.request[n] = r
  BY <1>1, <1>2 DEF WithRequest
<1>4. /\ DOMAIN Held = DOMAIN Requests
      /\ \A a, b \in DOMAIN Held : Held[a] = Held[b] => a = b
  BY HoldersAre
<1>5. /\ m.status.allocation[n] \in Offsets \ TakenOffsets
      /\ Wlo(r) <= m.status.allocation[n]
      /\ m.status.allocation[n] <= Whi(r)
  <2>1. /\ m.status.allocation[n] \in Pick(TakenOffsets, Wlo(new.request[n]))
        /\ m.status.allocation[n] <= Whi(new.request[n])
    BY <1>2 DEF Granted
  <2>2. new.request[n] = r
    BY <1>2, <1>3
  <2>3. Wlo(r) \in Int
    BY WindowsAssumption, HostsAssumption DEF Wlo, Request, Offsets
  <2>4. QED
    BY <2>1, <2>2, <2>3, HostsAssumption DEF Pick, Offsets
<1> HIDE DEF new, granted
<1>6. WellFormed(m)
  <2>1. RequestsWithinCap(m)
    <3>1. IsFiniteSet(DOMAIN Held) /\ Cardinality(DOMAIN Held) + 1 <= Hosts
      BY HoldersAre, RoomInList DEF Held
    <3>2. Cardinality(DOMAIN m.request) = Cardinality(DOMAIN Held) + 1
      BY <1>1, <1>3, <1>4, <3>1, FS_AddElement
    <3>3. QED
      BY <3>1, <3>2 DEF RequestsWithinCap
  <2>2. \A k \in DOMAIN m.request : WindowWellFormed(m.request[k])
    BY <1>1, <1>3 DEF Sound, WellFormed, Requests
  <2>3. NodesMatchLock(m)
    <3>1. CASE slice = Absent
      BY <1>2, <3>1 DEF NodesMatchLock
    <3>2. CASE slice # Absent
      <4>1. slice.node # None => r.node = slice.node
        BY <3>2 DEF Eligible
      <4>2. slice.node # None => \A k \in DOMAIN Requests : Requests[k].node = slice.node
        BY <3>2 DEF Sound, WellFormed, NodesMatchLock, Requests
      <4>3. QED
        BY <1>2, <1>3, <3>2, <4>1, <4>2 DEF NodesMatchLock
    <3>3. QED
      BY <3>1, <3>2
  <2>4. NoDuplicateOffset(m)
    BY <1>2, <1>4, <1>5 DEF NoDuplicateOffset, TakenOffsets
  <2>5. AllocatedInWindow(m)
    <3>1. \A k \in DOMAIN Held : Requests[k].window # None =>
              /\ Held[k] >= Requests[k].window.offset
              /\ Held[k] < Requests[k].window.offset + Requests[k].window.length
      BY <1>4, OptionalAssumption
         DEF Sound, WellFormed, AllocatedInWindow, Requests, Held, Existing
    <3>2. r.window # None =>
              /\ m.status.allocation[n] >= r.window.offset
              /\ m.status.allocation[n] < r.window.offset + r.window.length
      <4>1. SUFFICES ASSUME r.window # None
                     PROVE  /\ m.status.allocation[n] >= r.window.offset
                            /\ m.status.allocation[n] < r.window.offset + r.window.length
        OBVIOUS
      <4>2. r.window \in [offset : Offsets, length : 1 .. Hosts]
        BY <4>1, WindowsAssumption DEF Request
      <4>3. QED
        BY <1>5, <4>1, <4>2, HostsAssumption DEF Wlo, Whi, Offsets
    <3>3. QED
      BY <1>1, <1>2, <1>3, <1>4, <3>1, <3>2 DEF AllocatedInWindow
  <2>6. NamesMatchDevices(m)
    BY <1>1, <1>3 DEF Sound, WellFormed, NamesMatchDevices, Requests, Eligible
  <2>7. QED
    BY <1>2, <1>3, <1>4, <2>1, <2>2, <2>3, <2>4, <2>5, <2>6 DEF WellFormed
<1>7. Succeeds(slice, m)
  <2>1. FieldsImmutable(slice, m)
    BY <1>3 DEF FieldsImmutable, Unchanged, Requests
  <2>2. OffsetsFixed(slice, m)
    BY <1>2 DEF OffsetsFixed, Held
  <2>3. AtMostOneRemoved(slice, m)
    <3>1. slice # Absent => DOMAIN slice.request \ DOMAIN m.request = {}
      BY <1>3 DEF Requests
    <3>2. QED
      BY <3>1, FS_EmptySet DEF AtMostOneRemoved
  <2>4. LockKept(slice, m)
    BY <1>2 DEF LockKept
  <2>5. QED
    BY <2>1, <2>2, <2>3, <2>4 DEF Succeeds
<1>8. QED
  BY <1>2, <1>6, <1>7, AdmittedIs

LEMMA RoomIsTruth ==
    ASSUME TypeOK, Sound(slice), NEW n \in Names, NEW r \in Request, Eligible(n, r)
    PROVE  Accepts(slice, WithRequest(n, r))
             <=> \E o \in Offsets \ TakenOffsets : Wlo(r) <= o /\ o <= Whi(r)
<1> DEFINE new == WithRequest(n, r)
           granted == Granted(new, n, TakenOffsets)
<1>1. n \notin DOMAIN Requests
  BY DEF Eligible
<1>2. new.request[n] = r /\ n \in ReqNames(new)
  BY <1>1 DEF WithRequest, ReqNames
<1>3. new \in Submitted
  <2>1. /\ DOMAIN Requests \subseteq Names
        /\ \A k \in DOMAIN Requests : Requests[k] \in Request
    <3>1. CASE slice = Absent
      BY <3>1 DEF Requests
    <3>2. CASE slice # Absent
      BY <3>2, ListMapType DEF Requests, TypeOK, Object
    <3>3. QED
      BY <3>1, <3>2
  <2>2. new.request \in ListMap(Names, Request)
    BY <2>1, ListMapType DEF WithRequest
  <2>3. new.node \in Nodes \cup {None}
    BY DEF TypeOK, Object, WithRequest
  <2>4. QED
    BY <2>2, <2>3 DEF WithRequest, Submitted
<1>4. (\E o \in Offsets \ TakenOffsets : Wlo(r) <= o /\ o <= Whi(r)) <=> granted # {}
  <2> HIDE DEF new
  <2>1. QED
    BY <1>2, <1>3, GrantedIfRoom
<1>5. ASSUME NEW m \in Outcomes(slice, new), Admitted(slice, m)
      PROVE  granted # {}
  <2>1. /\ m.request = new.request
        /\ DOMAIN m.status.allocation = DOMAIN Held \cup (IF granted = {} THEN {} ELSE {n})
    BY <1>1, <1>5, AdditionIs
  <2>2. n \in DOMAIN m.status.allocation
    BY <1>2, <1>5, <2>1 DEF Admitted, VAPValid, EveryRequestAllocated, ReqNames
  <2>3. n \notin DOMAIN Held
    BY <1>1, HoldersAre
  <2>4. QED
    BY <2>1, <2>2, <2>3
<1>6. ASSUME granted # {}
      PROVE  Accepts(slice, new)
  <2>1. PICK free \in Offsets \ TakenOffsets : TRUE
    BY <1>4, <1>6
  <2>2. PICK m \in Outcomes(slice, new) : TRUE
    BY <1>3, SomeOutcome
  <2>3. Admitted(slice, m)
    BY <1>6, <2>1, <2>2, AdditionIsAccepted
  <2>4. QED
    BY <2>2, <2>3 DEF Accepts
<1>7. QED
  BY <1>4, <1>5, <1>6 DEF Accepts

\* "Full" is the truth: whatever was written before, one more eligible request is
\* accepted exactly when its window has an address nobody holds.
THEOREM RoomIsGranted == Spec => []AllocatesIffRoom
<1>1. TypeOK /\ Sound(slice) => AllocatesIffRoom
  BY RoomIsTruth DEF AllocatesIffRoom
<1>2. QED
  BY <1>1, TypeCorrect, Soundness, PTL
=============================================================================
