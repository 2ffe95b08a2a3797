------------------------------ MODULE Walk_proofs ------------------------------
(***************************************************************************)
(* Proofs about Walk, for all numbers of slices, addresses and callers, all *)
(* nodes, any number of attempts, with and without lost answers.            *)
(***************************************************************************)
EXTENDS Walk, FiniteSetTheorems, TLAPS

Record ==
    [pc : {"idle", "walking"}, left : SUBSET Slices, fullSlices : SUBSET Slices,
     at : Slices \cup {None}, tries : 1 .. LocalTries, lastRetryableErr : BOOLEAN,
     err : {None, "full", "timeout"}]

\* A step that changes one walk to a record leaves walks records.
LEMMA OneWalk ==
    ASSUME walk \in [Walkers -> Record], NEW w \in Walkers, NEW r \in Record,
           walk' = [walk EXCEPT ![w] = r]
    PROVE  walk' \in [Walkers -> Record]
  OBVIOUS

LEMMA ReturnType ==
    ASSUME TypeOK, NEW w \in Walkers,
           NEW err \in {None, "full", "timeout"}, Return(w, err)
    PROVE  walk' \in [Walkers -> Record]
<1> DEFINE r == [walk[w] EXCEPT !.pc = "idle", !.left = {}, !.fullSlices = {}, !.at = None,
                  !.tries = LocalTries, !.lastRetryableErr = FALSE, !.err = err]
<1>1. walk \in [Walkers -> Record] /\ LocalTries \in 1 .. LocalTries
  BY WalkAssumption DEF TypeOK, Record
<1>2. r \in Record
  BY <1>1 DEF Record
<1>3. walk' = [walk EXCEPT ![w] = r]
  BY DEF Return
<1> HIDE DEF r
<1> QED
  BY <1>1, <1>2, <1>3, OneWalk

LEMMA LeaveType ==
    ASSUME TypeOK, NEW w \in Walkers, NEW i \in Slices, NEW full \in BOOLEAN, Leave(w, i, full)
    PROVE  walk' \in [Walkers -> Record]
<1> DEFINE r == [walk[w] EXCEPT !.left = @ \ {i}, !.at = None, !.tries = LocalTries,
                  !.fullSlices = IF full THEN @ \cup {i} ELSE @]
<1>1. walk \in [Walkers -> Record] /\ LocalTries \in 1 .. LocalTries
  BY WalkAssumption DEF TypeOK, Record
<1>2. r \in Record
  BY <1>1 DEF Record
<1>3. walk' = [walk EXCEPT ![w] = r]
  BY <1>1 DEF Leave, Record
<1> HIDE DEF r
<1> QED
  BY <1>1, <1>2, <1>3, OneWalk

LEMMA GrantedType ==
    ASSUME TypeOK, NEW w \in Walkers, NEW i \in Slices, Granted(w, i)
    PROVE  holders' \in [Slices -> SUBSET Walkers] /\ lock' \in [Slices -> Nodes \cup {None}]
  BY WalkAssumption DEF TypeOK, Granted

LEMMA ObserveType ==
    ASSUME TypeOK, Observe
    PROVE  wasFull' \in [Walkers -> SUBSET Slices]
  BY DEF TypeOK, Observe, FullNow

\* The walks are walks, and what was full is slices.
THEOREM TypeCorrect == Spec => []TypeOK
<1>1. Init => TypeOK
  BY WalkAssumption DEF Init, TypeOK
<1>2. TypeOK /\ [Next]_vars => TypeOK'
  <2> SUFFICES ASSUME TypeOK, [Next]_vars
               PROVE  TypeOK'
    OBVIOUS
  <2>0. /\ walk' \in [Walkers -> Record]
        /\ holders' \in [Slices -> SUBSET Walkers] /\ lock' \in [Slices -> Nodes \cup {None}]
        /\ got' \in [Walkers -> SUBSET Slices]
        /\ wasFull' \in [Walkers -> SUBSET Slices]
        => TypeOK'
    BY DEF TypeOK, Record
  <2>1. ASSUME NEW w \in Walkers, Allocate(w)
        PROVE  TypeOK'
    <3> DEFINE r == [pc |-> "walking", left |-> Slices, fullSlices |-> {}, at |-> None,
                     tries |-> LocalTries, lastRetryableErr |-> FALSE, err |-> None]
    <3>1. walk \in [Walkers -> Record]
      BY DEF TypeOK, Record
    <3>2. r \in Record
      BY WalkAssumption DEF Record
    <3>3. walk' = [walk EXCEPT ![w] = r]
      BY <2>1 DEF Allocate
    <3> HIDE DEF r
    <3>4. walk' \in [Walkers -> Record]
      BY <3>1, <3>2, <3>3, OneWalk
    <3>5. UNCHANGED <<holders, lock, got>> /\ Observe
      BY <2>1 DEF Allocate
    <3> QED
      BY <2>0, <3>4, <3>5, ObserveType DEF TypeOK
  <2>2. ASSUME NEW w \in Walkers, NEW i \in Slices, Succeed(w, i)
        PROVE  TypeOK'
    BY <2>0, <2>2, ReturnType, GrantedType, ObserveType DEF Succeed, TypeOK
  <2>3. ASSUME NEW w \in Walkers, NEW i \in Slices, FoundFull(w, i)
        PROVE  TypeOK'
    BY <2>0, <2>3, LeaveType, ObserveType DEF FoundFull, TypeOK
  <2>4. ASSUME NEW w \in Walkers, NEW i \in Slices, Hop(w, i)
        PROVE  TypeOK'
    BY <2>0, <2>4, LeaveType, ObserveType DEF Hop, TypeOK
  <2>5. ASSUME NEW w \in Walkers, NEW i \in Slices, Timeout(w, i)
        PROVE  TypeOK'
    <3> DEFINE again == [walk[w] EXCEPT !.at = i, !.tries = @ - 1]
               hop   == [walk[w] EXCEPT !.at = None, !.tries = LocalTries,
                                        !.left = @ \ {i}, !.lastRetryableErr = TRUE]
    <3>1. walk \in [Walkers -> Record]
      BY DEF TypeOK, Record
    <3>2. hop \in Record
      <4>1. LocalTries \in 1 .. LocalTries
        BY WalkAssumption
      <4> QED
        BY <3>1, <4>1 DEF Record
    <3>3. ASSUME walk[w].tries > 1
          PROVE  again \in Record
      <4>1. walk[w].tries \in 1 .. LocalTries
        BY <3>1 DEF Record
      <4>2. walk[w].tries - 1 \in 1 .. LocalTries
        BY <3>3, <4>1, WalkAssumption
      <4> QED
        BY <3>1, <4>2 DEF Record
    <3>4. /\ walk[w].tries > 1 => walk' = [walk EXCEPT ![w] = again]
          /\ ~(walk[w].tries > 1) => walk' = [walk EXCEPT ![w] = hop]
      BY <2>5, <3>1 DEF Timeout, Record
    <3> HIDE DEF again, hop
    <3>5. walk' \in [Walkers -> Record]
      <4>1. CASE walk[w].tries > 1
        <5>1. walk' = [walk EXCEPT ![w] = again]
          BY <3>4, <4>1
        <5> QED
          BY <3>1, <3>3, <4>1, <5>1, OneWalk
      <4>2. CASE ~(walk[w].tries > 1)
        <5>1. walk' = [walk EXCEPT ![w] = hop]
          BY <3>4, <4>2
        <5> QED
          BY <3>1, <3>2, <5>1, OneWalk
      <4> QED
        BY <4>1, <4>2
    <3>6. holders' \in [Slices -> SUBSET Walkers] /\ lock' \in [Slices -> Nodes \cup {None}]
      BY <2>5, GrantedType DEF Timeout, WrittenUnanswered, TypeOK
    <3>7. got' = got /\ Observe
      BY <2>5 DEF Timeout
    <3> QED
      BY <2>0, <3>5, <3>6, <3>7, ObserveType DEF TypeOK
  <2>6. ASSUME NEW w \in Walkers, EndPass(w)
        PROVE  TypeOK'
    <3> DEFINE r == [walk[w] EXCEPT !.left = Slices \ walk[w].fullSlices,
                                    !.lastRetryableErr = FALSE]
    <3>1. walk \in [Walkers -> Record] /\ r \in Record
      BY DEF TypeOK, Record
    <3>2. ASSUME walk' = [walk EXCEPT ![w] = r]
          PROVE  walk' \in [Walkers -> Record]
      <4> HIDE DEF r
      <4> QED
        BY <3>1, <3>2, OneWalk
    <3>3. \/ Return(w, "full") \/ Return(w, "timeout") \/ walk' = [walk EXCEPT ![w] = r]
      BY <2>6, <3>1 DEF EndPass, Record
    <3>4. walk' \in [Walkers -> Record]
      BY <3>2, <3>3, ReturnType
    <3>5. UNCHANGED <<holders, lock, got>> /\ Observe
      BY <2>6 DEF EndPass
    <3> QED
      BY <2>0, <3>4, <3>5, ObserveType DEF TypeOK
  <2>7. ASSUME NEW w \in Walkers, Canceled(w)
        PROVE  TypeOK'
    <3>1. holders' \in [Slices -> SUBSET Walkers] /\ lock' \in [Slices -> Nodes \cup {None}]
      BY <2>7, GrantedType DEF Canceled, WrittenUnanswered, TypeOK
    <3>2. walk' \in [Walkers -> Record]
      BY <2>7, ReturnType DEF Canceled
    <3>3. got' = got /\ Observe
      BY <2>7 DEF Canceled
    <3> QED
      BY <2>0, <3>1, <3>2, <3>3, ObserveType DEF TypeOK
  <2>8. ASSUME NEW w \in Walkers, NEW i \in Slices, Release(w, i)
        PROVE  TypeOK'
    <3>1. walk' \in [Walkers -> Record]
      BY <2>8 DEF Release, TypeOK, Record
    <3>2. /\ holders' \in [Slices -> SUBSET Walkers]
          /\ got' \in [Walkers -> SUBSET Slices]
      BY <2>8 DEF Release, TypeOK
    <3>3. lock' \in [Slices -> Nodes \cup {None}]
      BY <2>8 DEF Release, TypeOK
    <3>4. Observe
      BY <2>8 DEF Release
    <3> QED
      BY <2>0, <3>1, <3>2, <3>3, <3>4, ObserveType
  <2>9. CASE UNCHANGED vars
    BY <2>9 DEF vars, TypeOK
  <2> QED
    BY <2>1, <2>2, <2>3, <2>4, <2>5, <2>6, <2>7, <2>8, <2>9, Zenon DEF Next, Step
<1> QED
  BY <1>1, <1>2, PTL DEF Spec

-----------------------------------------------------------------------------
(* With retries, "full" means that each slice was. *)

\* What a walk remembers as full, and what is full now, was full during the call; it has
\* no error yet.
Remembered ==
    \A w \in Walkers : Walking(w) =>
        /\ walk[w].err = None
        /\ walk[w].fullSlices \subseteq wasFull[w]
        /\ {i \in Slices : Cardinality(holders[i]) >= Hosts} \subseteq wasFull[w]

\* A step in which no walk remembers what is not full.
LEMMA RememberedKept ==
    ASSUME TypeOK, Remembered, Observe,
           \A v \in Walkers : Walking(v)' =>
               \/ walk'[v].fullSlices = {} /\ walk'[v].err = None
               \/ /\ Walking(v) /\ walk'[v].err = walk[v].err
                  /\ walk'[v].fullSlices \subseteq walk[v].fullSlices \cup FullNow
    PROVE  Remembered'
<1> SUFFICES ASSUME NEW v \in Walkers, Walking(v)'
             PROVE  /\ walk'[v].err = None
                    /\ walk'[v].fullSlices \subseteq wasFull'[v]
                    /\ {i \in Slices : Cardinality(holders'[i]) >= Hosts} \subseteq wasFull'[v]
  BY DEF Remembered
<1>1. wasFull'[v] = wasFull[v] \cup FullNow
  BY DEF Observe
<1>2. Walking(v) => walk[v].err = None /\ walk[v].fullSlices \subseteq wasFull[v]
  BY DEF Remembered
<1> QED
  BY <1>1, <1>2 DEF FullNow

\* A step of one caller after which it does not walk, or remembers nothing new.
LEMMA OneRemembers ==
    ASSUME TypeOK, Remembered, Observe, NEW w \in Walkers,
           \A v \in Walkers \ {w} : walk'[v] = walk[v],
           Walking(w)' =>
               \/ walk'[w].fullSlices = {} /\ walk'[w].err = None
               \/ /\ Walking(w) /\ walk'[w].err = walk[w].err
                  /\ walk'[w].fullSlices \subseteq walk[w].fullSlices \cup FullNow
    PROVE  Remembered'
<1>1. ASSUME NEW v \in Walkers, Walking(v)'
      PROVE  \/ walk'[v].fullSlices = {} /\ walk'[v].err = None
             \/ /\ Walking(v) /\ walk'[v].err = walk[v].err
                /\ walk'[v].fullSlices \subseteq walk[v].fullSlices \cup FullNow
  <2>1. CASE v = w
    BY <1>1, <2>1
  <2>2. CASE v # w
    BY <1>1, <2>2 DEF Walking
  <2> QED
    BY <2>1, <2>2
<1> QED
  BY <1>1, RememberedKept

LEMMA RememberedInvariant == TypeOK /\ Remembered /\ [Next]_vars => Remembered'
<1> SUFFICES ASSUME TypeOK, Remembered, [Next]_vars
             PROVE  Remembered'
  OBVIOUS
<1>0. \A w \in Walkers : walk[w] \in Record
  BY DEF TypeOK, Record
<1>1. ASSUME NEW w \in Walkers, Allocate(w)
      PROVE  Remembered'
  <2>1. /\ walk'[w].fullSlices = {} /\ walk'[w].err = None
        /\ \A v \in Walkers \ {w} : walk'[v] = walk[v]
    BY <1>1 DEF Allocate, TypeOK
  <2> QED
    BY <1>1, <2>1, OneRemembers DEF Allocate
<1>2. ASSUME NEW w \in Walkers, NEW i \in Slices, Succeed(w, i)
      PROVE  Remembered'
  <2>1. ~Walking(w)' /\ \A v \in Walkers \ {w} : walk'[v] = walk[v]
    BY <1>0, <1>2 DEF Succeed, Return, Walking, TypeOK, Record
  <2> QED
    BY <1>2, <2>1, OneRemembers DEF Succeed
<1>3. ASSUME NEW w \in Walkers, NEW i \in Slices, FoundFull(w, i)
      PROVE  Remembered'
  <2>1. i \in FullNow
    BY <1>3 DEF FoundFull, IsFull, FullNow
  <2>2. /\ walk'[w].fullSlices = walk[w].fullSlices \cup {i}
        /\ walk'[w].err = walk[w].err
        /\ \A v \in Walkers \ {w} : walk'[v] = walk[v]
    BY <1>0, <1>3 DEF FoundFull, Leave, TypeOK, Record
  <2> QED
    BY <1>3, <2>1, <2>2, OneRemembers DEF FoundFull
<1>4. ASSUME NEW w \in Walkers, NEW i \in Slices, Hop(w, i)
      PROVE  Remembered'
  <2>1. /\ walk'[w].fullSlices = walk[w].fullSlices
        /\ walk'[w].err = walk[w].err
        /\ \A v \in Walkers \ {w} : walk'[v] = walk[v]
    BY <1>0, <1>4 DEF Hop, Leave, TypeOK, Record
  <2> QED
    BY <1>4, <2>1, OneRemembers DEF Hop
<1>5. ASSUME NEW w \in Walkers, NEW i \in Slices, Timeout(w, i)
      PROVE  Remembered'
  <2>1. /\ walk'[w].fullSlices = walk[w].fullSlices
        /\ walk'[w].err = walk[w].err
        /\ \A v \in Walkers \ {w} : walk'[v] = walk[v]
    BY <1>0, <1>5 DEF Timeout, TypeOK, Record
  <2> QED
    BY <1>5, <2>1, OneRemembers DEF Timeout
<1>6. ASSUME NEW w \in Walkers, EndPass(w)
      PROVE  Remembered'
  <2>1. \A v \in Walkers \ {w} : walk'[v] = walk[v]
    BY <1>6 DEF EndPass, Return, TypeOK
  <2>2. \/ Return(w, "full") \/ Return(w, "timeout")
        \/ walk' = [walk EXCEPT ![w].left = Slices \ walk[w].fullSlices,
                                ![w].lastRetryableErr = FALSE]
    BY <1>6 DEF EndPass
  <2>3. \/ ~Walking(w)'
        \/ walk'[w].fullSlices = walk[w].fullSlices /\ walk'[w].err = walk[w].err
    <3>1. ASSUME NEW err, Return(w, err)
          PROVE  ~Walking(w)'
      BY <1>0, <3>1 DEF Return, Walking, TypeOK, Record
    <3>2. CASE walk' = [walk EXCEPT ![w].left = Slices \ walk[w].fullSlices,
                                    ![w].lastRetryableErr = FALSE]
      BY <1>0, <3>2 DEF TypeOK, Record
    <3> QED
      BY <2>2, <3>1, <3>2
  <2> QED
    BY <1>6, <2>1, <2>3, OneRemembers DEF EndPass
<1>7. ASSUME NEW w \in Walkers, Canceled(w)
      PROVE  Remembered'
  <2>1. ~Walking(w)' /\ \A v \in Walkers \ {w} : walk'[v] = walk[v]
    BY <1>0, <1>7 DEF Canceled, Return, Walking, TypeOK, Record
  <2> QED
    BY <1>7, <2>1, OneRemembers DEF Canceled
<1>8. ASSUME NEW w \in Walkers, NEW i \in Slices, Release(w, i)
      PROVE  Remembered'
  <2>1. walk' = walk /\ Observe
    BY <1>8 DEF Release
  <2> QED
    BY <2>1, RememberedKept DEF Walking
<1>9. CASE UNCHANGED vars
  BY <1>9 DEF vars, Remembered, Walking
<1> QED
  BY <1>1, <1>2, <1>3, <1>4, <1>5, <1>6, <1>7, <1>8, <1>9, Zenon DEF Next, Step

\* Only the end of a pass returns ErrSliceFull.
LEMMA FullIsEndPass ==
    ASSUME TypeOK, Remembered, Next, NEW w \in Walkers, Walking(w), walk'[w].err = "full"
    PROVE  EndPass(w)
<1>0. walk \in [Walkers -> Record]
  BY DEF TypeOK, Record
<1>1. walk[w].err = None /\ walk[w].err # "full"
  BY WalkAssumption DEF Remembered
<1>2. ASSUME NEW v \in Walkers,
             \/ Allocate(v) \/ Step(v) \/ Canceled(v) \/ \E i \in Slices : Release(v, i)
      PROVE  v = w
  <2> SUFFICES ASSUME v # w
               PROVE  walk'[w] = walk[w]
    BY <1>1
  <2>1. CASE Allocate(v)
    BY <1>0, <2>1 DEF Allocate
  <2>2. ASSUME NEW i \in Slices, Succeed(v, i) \/ FoundFull(v, i) \/ Hop(v, i)
        PROVE  walk'[w] = walk[w]
    BY <1>0, <2>2 DEF Succeed, FoundFull, Hop, Leave, Return
  <2>3. ASSUME NEW i \in Slices, Timeout(v, i)
        PROVE  walk'[w] = walk[w]
    BY <1>0, <2>3 DEF Timeout
  <2>4. CASE EndPass(v)
    BY <1>0, <2>4 DEF EndPass, Return
  <2>5. CASE Canceled(v)
    BY <1>0, <2>5 DEF Canceled, Return
  <2>6. ASSUME NEW i \in Slices, Release(v, i)
        PROVE  walk'[w] = walk[w]
    BY <2>6 DEF Release
  <2> QED
    BY <1>2, <2>1, <2>2, <2>3, <2>4, <2>5, <2>6, Zenon DEF Step
<1>3. ~Allocate(w)
  BY DEF Allocate, Walking
<1>4. ASSUME NEW i \in Slices, Succeed(w, i)
      PROVE  FALSE
  <2>1. walk'[w].err = None
    BY <1>0, <1>4 DEF Succeed, Return, Record
  <2> QED
    BY <2>1, WalkAssumption
<1>5. ASSUME NEW i \in Slices, FoundFull(w, i) \/ Hop(w, i)
      PROVE  FALSE
  BY <1>0, <1>1, <1>5 DEF FoundFull, Hop, Leave, Record
<1>6. ASSUME NEW i \in Slices, Timeout(w, i)
      PROVE  FALSE
  BY <1>0, <1>1, <1>6 DEF Timeout, Record
<1>7. ~Canceled(w)
  <2> SUFFICES ASSUME Return(w, None)
               PROVE  FALSE
    BY DEF Canceled
  <2>1. walk'[w].err = None
    BY <1>0 DEF Return, Record
  <2> QED
    BY <2>1, WalkAssumption
<1>8. \A i \in Slices : ~Release(w, i)
  BY DEF Release, Walking
<1> QED
  BY <1>2, <1>3, <1>4, <1>5, <1>6, <1>7, <1>8, Zenon DEF Next, Step

\* pkg/allocator/allocator.go:169: a call with retries that returns ErrSliceFull has seen
\* every slice of the subnet full, whichever it hopped past.
THEOREM FullMeansFull ==
    ASSUME Retry = TRUE
    PROVE  Spec => FullMeansEachWasFull
<1>1. Init => Remembered
  BY DEF Init, Remembered, Walking
<1>2. TypeOK /\ Remembered /\ [Next]_vars =>
        [\A w \in Walkers : Walking(w) /\ walk'[w].err = "full" => wasFull[w] = Slices]_vars
  <2> SUFFICES ASSUME TypeOK, Remembered, Next, NEW w \in Walkers,
                      Walking(w), walk'[w].err = "full"
               PROVE  wasFull[w] = Slices
    BY DEF vars
  <2>1. EndPass(w) /\ walk[w].err # "full" /\ walk \in [Walkers -> Record]
    BY FullIsEndPass, WalkAssumption DEF Remembered, TypeOK, Record
  <2>2. walk[w].fullSlices = Slices
    BY <2>1 DEF EndPass, Return, Record
  <2>3. walk[w].fullSlices \subseteq wasFull[w] /\ wasFull[w] \subseteq Slices
    BY DEF Remembered, TypeOK
  <2> QED
    BY <2>2, <2>3
<1> QED
  BY <1>1, <1>2, RememberedInvariant, TypeCorrect, PTL DEF Spec, FullMeansEachWasFull

-----------------------------------------------------------------------------
(* A name that holds an address is never told that the subnet is full. *)

\* The holders of a slice are of the node that locked it.
Placed == \A i \in Slices : \A w \in holders[i] : lock[i] = Node[w]

\* A slice that holds an address of its visitor is not passed as a full one, nor hopped
\* for its node: it is still to visit, or timeouts made the walk leave it.
NotPassed(w) ==
    /\ walk[w].left \cap walk[w].fullSlices = {}
    /\ \A i \in Slices : w \in holders[i] =>
           i \notin walk[w].fullSlices /\ (i \in walk[w].left \/ walk[w].lastRetryableErr)

Unpassed == \A w \in Walkers : Walking(w) => NotPassed(w)

LEMMA OwnSliceFits ==
    ASSUME Placed, NEW i \in Slices, NEW w \in holders[i]
    PROVE  ~IsFull(w, i) /\ ~IsNodeMismatch(w, i)
  BY DEF Placed, IsFull, IsNodeMismatch

LEMMA GrantedIsPlaced ==
    ASSUME TypeOK, Placed, NEW w \in Walkers, NEW i \in Slices,
           ~IsNodeMismatch(w, i), Granted(w, i)
    PROVE  /\ Placed'
           /\ \A j \in Slices : holders'[j] = IF j = i THEN holders[j] \cup {w} ELSE holders[j]
<1>1. /\ holders' = [holders EXCEPT ![i] = @ \cup {w}]
      /\ lock' = [lock EXCEPT ![i] = IF Node[w] = None THEN @ ELSE Node[w]]
      /\ holders \in [Slices -> SUBSET Walkers] /\ lock \in [Slices -> Nodes \cup {None}]
  BY DEF Granted, TypeOK
<1>2. \A j \in Slices : holders'[j] = IF j = i THEN holders[j] \cup {w} ELSE holders[j]
  BY <1>1
<1>3. lock'[i] = Node[w] /\ \A j \in Slices \ {i} : lock'[j] = lock[j]
  BY <1>1 DEF IsNodeMismatch
<1>4. \A v \in holders[i] : Node[v] = Node[w]
  BY DEF Placed, IsNodeMismatch
<1>5. QED
  BY <1>2, <1>3, <1>4 DEF Placed

\* A step of one caller, in which the others neither walk nor gain addresses.
LEMMA OnePasses ==
    ASSUME Unpassed, NEW w \in Walkers,
           \A v \in Walkers \ {w} :
               walk'[v] = walk[v] /\ \A i \in Slices : v \in holders'[i] => v \in holders[i],
           Walking(w)' => NotPassed(w)'
    PROVE  Unpassed'
  BY DEF Unpassed, NotPassed, Walking

LEMMA UnpassedInvariant ==
    ASSUME TypeOK, Placed, Unpassed, [Next]_vars
    PROVE  Placed' /\ Unpassed'
<1>0. /\ walk \in [Walkers -> Record]
      /\ holders \in [Slices -> SUBSET Walkers]
      /\ lock \in [Slices -> Nodes \cup {None}]
  BY DEF TypeOK, Record
<1>1. ASSUME NEW w \in Walkers, Allocate(w)
      PROVE  Placed' /\ Unpassed'
  <2>1. NotPassed(w)' /\ \A v \in Walkers \ {w} : walk'[v] = walk[v]
    BY <1>0, <1>1 DEF Allocate, NotPassed
  <2>2. holders' = holders /\ lock' = lock
    BY <1>1 DEF Allocate
  <2>3. QED
    BY <2>1, <2>2, OnePasses DEF Placed
<1>2. ASSUME NEW w \in Walkers, NEW i \in Slices, Succeed(w, i)
      PROVE  Placed' /\ Unpassed'
  <2>1. ~Walking(w)' /\ \A v \in Walkers \ {w} : walk'[v] = walk[v]
    BY <1>0, <1>2 DEF Succeed, Return, Walking, Record
  <2>2. /\ Placed'
        /\ \A j \in Slices : holders'[j] = IF j = i THEN holders[j] \cup {w} ELSE holders[j]
    BY <1>2, GrantedIsPlaced DEF Succeed
  <2>3. QED
    BY <2>1, <2>2, OnePasses
<1>3. ASSUME NEW w \in Walkers, NEW i \in Slices, FoundFull(w, i) \/ Hop(w, i)
      PROVE  Placed' /\ Unpassed'
  <2>1. Walking(w) /\ i \in walk[w].left /\ w \notin holders[i]
    BY <1>3, OwnSliceFits DEF FoundFull, Hop, Visits
  <2>2. holders' = holders /\ lock' = lock
    BY <1>3 DEF FoundFull, Hop
  <2>3. /\ walk'[w].left = walk[w].left \ {i}
        /\ walk'[w].fullSlices \subseteq walk[w].fullSlices \cup {i}
        /\ walk'[w].lastRetryableErr = walk[w].lastRetryableErr
        /\ \A v \in Walkers \ {w} : walk'[v] = walk[v]
    BY <1>0, <1>3 DEF FoundFull, Hop, Leave, Record
  <2>4. NotPassed(w)'
    BY <2>1, <2>2, <2>3 DEF NotPassed, Unpassed
  <2>5. QED
    BY <2>2, <2>3, <2>4, OnePasses DEF Placed
<1>4. ASSUME NEW w \in Walkers, NEW i \in Slices, Timeout(w, i)
      PROVE  Placed' /\ Unpassed'
  <2>1. Walking(w) /\ i \in walk[w].left
    BY <1>4 DEF Timeout, Visits
  <2>2. /\ Placed'
        /\ \A j \in Slices : \/ holders'[j] = holders[j]
                             \/ j = i /\ holders'[j] = holders[j] \cup {w}
    <3>1. CASE UNCHANGED <<holders, lock>>
      BY <3>1 DEF Placed
    <3>2. CASE WrittenUnanswered(w, i)
      BY <3>2, GrantedIsPlaced DEF WrittenUnanswered
    <3>3. QED
      BY <1>4, <3>1, <3>2 DEF Timeout
  <2>3. /\ walk'[w].fullSlices = walk[w].fullSlices
        /\ \/ /\ walk'[w].left = walk[w].left
              /\ walk'[w].lastRetryableErr = walk[w].lastRetryableErr
           \/ walk'[w].left = walk[w].left \ {i} /\ walk'[w].lastRetryableErr = TRUE
        /\ \A v \in Walkers \ {w} : walk'[v] = walk[v]
    BY <1>0, <1>4 DEF Timeout, Record
  <2>4. NotPassed(w)'
    BY <2>1, <2>2, <2>3 DEF NotPassed, Unpassed
  <2>5. QED
    BY <2>2, <2>3, <2>4, OnePasses
<1>5. ASSUME NEW w \in Walkers, EndPass(w)
      PROVE  Placed' /\ Unpassed'
  <2>1. holders' = holders /\ lock' = lock
    BY <1>5 DEF EndPass
  <2>2. \A v \in Walkers \ {w} : walk'[v] = walk[v]
    BY <1>0, <1>5 DEF EndPass, Return
  <2>3. Walking(w)' => NotPassed(w)'
    <3>1. ASSUME NEW err, Return(w, err)
          PROVE  ~Walking(w)'
      BY <1>0, <3>1 DEF Return, Walking, Record
    <3>2. CASE walk' = [walk EXCEPT ![w].left = Slices \ walk[w].fullSlices,
                                    ![w].lastRetryableErr = FALSE]
      <4>1. /\ walk'[w].left = Slices \ walk[w].fullSlices
            /\ walk'[w].fullSlices = walk[w].fullSlices
        BY <1>0, <3>2 DEF Record
      <4>2. \A i \in Slices : w \in holders[i] => i \notin walk[w].fullSlices
        BY <1>5 DEF EndPass, Unpassed, NotPassed
      <4>3. QED
        BY <2>1, <4>1, <4>2 DEF NotPassed
    <3>3. QED
      BY <1>5, <3>1, <3>2 DEF EndPass
  <2>4. QED
    BY <2>1, <2>2, <2>3, OnePasses DEF Placed
<1>6. ASSUME NEW w \in Walkers, Canceled(w)
      PROVE  Placed' /\ Unpassed'
  <2>1. ~Walking(w)' /\ \A v \in Walkers \ {w} : walk'[v] = walk[v]
    BY <1>0, <1>6 DEF Canceled, Return, Walking, Record
  <2>2. /\ Placed'
        /\ \A j \in Slices : holders'[j] \subseteq holders[j] \cup {w}
    <3>1. CASE UNCHANGED <<holders, lock>>
      BY <3>1 DEF Placed
    <3>2. ASSUME NEW i \in Slices, WrittenUnanswered(w, i)
          PROVE  Placed' /\ \A j \in Slices : holders'[j] \subseteq holders[j] \cup {w}
      BY <3>2, GrantedIsPlaced DEF WrittenUnanswered
    <3>3. QED
      BY <1>6, <3>1, <3>2 DEF Canceled
  <2>3. QED
    BY <2>1, <2>2, OnePasses
<1>7. ASSUME NEW w \in Walkers, NEW i \in Slices, Release(w, i)
      PROVE  Placed' /\ Unpassed'
  <2>1. walk' = walk /\ ~Walking(w)'
    BY <1>7 DEF Release, Walking
  <2>2. \A j \in Slices : /\ holders'[j] \subseteq holders[j]
                          /\ lock'[j] = lock[j] \/ holders'[j] = {}
    BY <1>0, <1>7 DEF Release
  <2>3. QED
    BY <2>1, <2>2, OnePasses DEF Placed
<1>8. CASE UNCHANGED vars
  BY <1>8 DEF vars, Placed, Unpassed, NotPassed, Walking
<1>9. QED
  BY <1>1, <1>2, <1>3, <1>4, <1>5, <1>6, <1>7, <1>8, Zenon DEF Next, Step

\* pkg/allocator/allocator.go:118-121, 161-166: whether its address is from an earlier call
\* or was written by an attempt that got no answer, with and without retries, a call ends
\* in ErrSliceFull only if its name holds no address in the subnet.
THEOREM HoldersServed == Spec => HoldersAreServed
<1>1. Init => Placed /\ Unpassed
  BY DEF Init, Placed, Unpassed, Walking
<1>2. TypeOK /\ Placed /\ Unpassed /\ [Next]_vars => Placed' /\ Unpassed'
  BY UnpassedInvariant
<1>3. TypeOK /\ Remembered /\ Unpassed /\ [Next]_vars =>
        [\A w \in Walkers : Walking(w) /\ walk'[w].err = "full"
                                => \A i \in Slices : w \notin holders[i]]_vars
  <2> SUFFICES ASSUME TypeOK, Remembered, Unpassed, Next, NEW w \in Walkers, Walking(w),
                      walk'[w].err = "full", NEW i \in Slices, w \in holders[i]
               PROVE  FALSE
    BY DEF vars
  <2>1. EndPass(w) /\ walk[w].err = None /\ walk \in [Walkers -> Record]
    BY FullIsEndPass DEF Remembered, TypeOK, Record
  <2>2. i \notin walk[w].fullSlices /\ (i \in walk[w].left \/ walk[w].lastRetryableErr)
    BY DEF Unpassed, NotPassed
  <2>3. walk[w].left = {} /\ walk[w].fullSlices # Slices
    BY <2>1, <2>2 DEF EndPass
  <2>4. ~Retry => Return(w, "timeout")
    BY <2>1, <2>2, <2>3 DEF EndPass
  <2>5. Retry => walk'[w].err = walk[w].err
    BY <2>1, <2>3 DEF EndPass, Record
  <2>6. ~Retry => walk'[w].err = "timeout"
    BY <2>1, <2>4 DEF Return, Record
  <2>7. QED
    BY <2>1, <2>5, <2>6, WalkAssumption
<1>4. Init => Remembered
  BY DEF Init, Remembered, Walking
<1>5. QED
  BY <1>1, <1>2, <1>3, <1>4, RememberedInvariant, TypeCorrect, PTL DEF Spec, HoldersAreServed

-----------------------------------------------------------------------------
(* Each slice of the subnet is shared. *)

Fits(S) == IsFiniteSet(S) /\ Cardinality(S) <= Hosts

\* What a caller was given it holds, whether or not answers were lost.
Kept ==
    /\ \A i \in Slices : Fits(holders[i])
    /\ \A w \in Walkers : \A i \in got[w] : w \in holders[i]

SharedStep(i) == Shared(i)!Next \/ UNCHANGED <<holders[i], lock[i]>>

\* An address that is granted is one that a shared slice may give.
LEMMA GrantedIsTake ==
    ASSUME TypeOK, Kept, NEW w \in Walkers, NEW i \in Slices,
           ~IsFull(w, i), ~IsNodeMismatch(w, i), Granted(w, i)
    PROVE  /\ \A j \in Slices : SharedStep(j)
           /\ \A j \in Slices : Fits(holders'[j]) /\ holders[j] \subseteq holders'[j]
           /\ w \in holders'[i]
<1>1. /\ holders' = [holders EXCEPT ![i] = @ \cup {w}]
      /\ lock' = [lock EXCEPT ![i] = IF Node[w] = None THEN @ ELSE Node[w]]
      /\ holders \in [Slices -> SUBSET Walkers] /\ lock \in [Slices -> Nodes \cup {None}]
  BY DEF Granted, TypeOK
<1>2. \A j \in Slices : j # i => holders'[j] = holders[j] /\ lock'[j] = lock[j]
  BY <1>1
<1>3. holders'[i] = holders[i] \cup {w} /\ lock'[i] = IF Node[w] = None THEN lock[i] ELSE Node[w]
  BY <1>1
<1>4. /\ IsFiniteSet(holders[i]) /\ Cardinality(holders[i]) \in Nat
      /\ Cardinality(holders[i]) <= Hosts
  BY FS_CardinalityType DEF Kept, Fits
<1>5. Fits(holders[i] \cup {w})
  <2>1. CASE w \in holders[i]
    <3>1. holders[i] \cup {w} = holders[i]
      BY <2>1
    <3>2. QED
      BY <1>4, <3>1 DEF Fits
  <2>2. CASE w \notin holders[i]
    <3>1. Cardinality(holders[i]) + 1 <= Hosts
      BY <1>4, <2>2, WalkAssumption DEF IsFull
    <3>2. /\ IsFiniteSet(holders[i] \cup {w})
          /\ Cardinality(holders[i] \cup {w}) = Cardinality(holders[i]) + 1
      BY <1>4, <2>2, FS_AddElement, Zenon
    <3>3. QED
      BY <3>1, <3>2 DEF Fits
  <2>3. QED
    BY <2>1, <2>2
<1> DEFINE held == [v \in holders[i] |-> Node[v]]
<1>6. Shared(i)!Take(w, Node[w])
  <2>1. w \in DOMAIN held => held[w] = Node[w]
    OBVIOUS
  <2>2. DOMAIN held \cup {w} \in {S \in SUBSET Walkers : Cardinality(S) <= Hosts}
    <3>1. DOMAIN held = holders[i]
      OBVIOUS
    <3>2. Cardinality(holders[i] \cup {w}) <= Hosts
      BY <1>5 DEF Fits
    <3>3. holders[i] \cup {w} \in SUBSET Walkers
      BY <1>1
    <3>4. QED
      BY <3>1, <3>2, <3>3
  <2>3. lock[i] \in {None, Node[w]}
    BY DEF IsNodeMismatch
  <2>4. Node[w] # None => \A v \in DOMAIN held : held[v] = Node[w]
    BY DEF IsNodeMismatch
  <2>5. [v \in holders'[i] |-> Node[v]]
          = [v \in DOMAIN held \cup {w} |-> IF v = w THEN Node[w] ELSE held[v]]
    BY <1>3
  <2>6. lock'[i] = Node[w]
    BY <1>3, <2>3
  <2>7. QED
    BY <2>1, <2>2, <2>3, <2>4, <2>5, <2>6, Zenon DEF Shared!Take
<1>7. SharedStep(i)
  <2>1. Node[w] \in Nodes \cup {None}
    BY WalkAssumption
  <2>2. QED
    BY <1>6, <2>1 DEF SharedStep, Shared!Next
<1>8. \A j \in Slices : SharedStep(j)
  BY <1>2, <1>7 DEF SharedStep
<1>9. QED
  BY <1>2, <1>3, <1>5, <1>8 DEF Kept

\* The last one to release takes the lock along.
LEMMA ReleaseIsGive ==
    ASSUME TypeOK, Kept, NEW w \in Walkers, NEW i \in Slices, Release(w, i)
    PROVE  Kept' /\ \A j \in Slices : SharedStep(j)
<1> DEFINE held == [v \in holders[i] |-> Node[v]]
<1>1. /\ w \in holders[i]
      /\ holders' = [holders EXCEPT ![i] = @ \ {w}]
      /\ lock' = [lock EXCEPT ![i] = IF holders'[i] = {} THEN None ELSE @]
      /\ got' = [got EXCEPT ![w] = @ \ {i}]
      /\ holders \in [Slices -> SUBSET Walkers] /\ lock \in [Slices -> Nodes \cup {None}]
      /\ got \in [Walkers -> SUBSET Slices]
  BY DEF Release, TypeOK, Kept
<1>2. \A j \in Slices : j # i => holders'[j] = holders[j] /\ lock'[j] = lock[j]
  BY <1>1
<1>3. holders'[i] = holders[i] \ {w} /\ lock'[i] = IF holders'[i] = {} THEN None ELSE lock[i]
  BY <1>1
<1>4. Kept'
  <2>1. Fits(holders[i] \ {w})
    <3>1. IsFiniteSet(holders[i]) /\ Cardinality(holders[i]) <= Hosts
      BY DEF Kept, Fits
    <3>2. /\ IsFiniteSet(holders[i] \ {w})
          /\ Cardinality(holders[i] \ {w}) = Cardinality(holders[i]) - 1
      BY <1>1, <3>1, FS_RemoveElement, Zenon
    <3>3. Cardinality(holders[i]) \in Nat
      BY <3>1, FS_CardinalityType
    <3>4. QED
      BY <3>1, <3>2, <3>3, WalkAssumption DEF Fits
  <2>2. ASSUME NEW v \in Walkers, NEW j \in got'[v]
        PROVE  v \in holders'[j]
    <3>1. j \in got[v] /\ j \in Slices /\ v \in holders[j] /\ (v # w \/ j # i)
      BY <1>1, <2>2 DEF Kept
    <3>2. QED
      BY <1>2, <1>3, <3>1
  <2>3. QED
    BY <1>2, <1>3, <2>1, <2>2 DEF Kept
<1>5. SharedStep(i)
  <2>1. [v \in holders'[i] |-> Node[v]] = [v \in DOMAIN held \ {w} |-> held[v]]
    BY <1>3
  <2>2. DOMAIN [v \in holders'[i] |-> Node[v]] = holders'[i]
    OBVIOUS
  <2>3. Shared(i)!Give(w)
    BY <1>3, <2>1, <2>2, Zenon DEF Shared!Give
  <2>4. w \in DOMAIN held
    BY <1>1
  <2>5. QED
    BY <2>3, <2>4 DEF SharedStep, Shared!Next
<1>6. QED
  BY <1>2, <1>4, <1>5 DEF SharedStep

LEMMA SharedAndKept ==
    ASSUME TypeOK, Kept, [Next]_vars
    PROVE  Kept' /\ \A j \in Slices : SharedStep(j)
<1>1. ASSUME UNCHANGED <<holders, lock, got>>
      PROVE  Kept' /\ \A j \in Slices : SharedStep(j)
  BY <1>1 DEF Kept, SharedStep
<1>2. ASSUME NEW w \in Walkers, NEW i \in Slices, Succeed(w, i)
      PROVE  Kept' /\ \A j \in Slices : SharedStep(j)
  <2>1. /\ ~IsFull(w, i) /\ ~IsNodeMismatch(w, i) /\ Granted(w, i)
        /\ got' = [got EXCEPT ![w] = @ \cup {i}]
    BY <1>2 DEF Succeed
  <2>2. /\ \A j \in Slices : SharedStep(j)
        /\ \A j \in Slices : Fits(holders'[j]) /\ holders[j] \subseteq holders'[j]
        /\ w \in holders'[i]
    BY <2>1, GrantedIsTake
  <2>3. got \in [Walkers -> SUBSET Slices]
    BY DEF TypeOK
  <2>4. \A v \in Walkers : \A j \in got'[v] : v \in holders'[j]
    BY <2>1, <2>2, <2>3 DEF Kept
  <2>5. QED
    BY <2>2, <2>4 DEF Kept
<1>3. ASSUME NEW w \in Walkers, NEW i \in Slices, WrittenUnanswered(w, i), UNCHANGED got
      PROVE  Kept' /\ \A j \in Slices : SharedStep(j)
  <2>1. /\ \A j \in Slices : SharedStep(j)
        /\ \A j \in Slices : Fits(holders'[j]) /\ holders[j] \subseteq holders'[j]
    BY <1>3, GrantedIsTake DEF WrittenUnanswered
  <2>2. got \in [Walkers -> SUBSET Slices]
    BY DEF TypeOK
  <2>3. QED
    BY <1>3, <2>1, <2>2 DEF Kept
<1>4. ASSUME NEW w \in Walkers, NEW i \in Slices, Release(w, i)
      PROVE  Kept' /\ \A j \in Slices : SharedStep(j)
  BY <1>4, ReleaseIsGive
<1>5. ASSUME NEW w \in Walkers, Allocate(w) \/ EndPass(w)
      PROVE  UNCHANGED <<holders, lock, got>>
  BY <1>5 DEF Allocate, EndPass
<1>6. ASSUME NEW w \in Walkers, NEW i \in Slices, FoundFull(w, i) \/ Hop(w, i)
      PROVE  UNCHANGED <<holders, lock, got>>
  BY <1>6 DEF FoundFull, Hop
<1>7. ASSUME NEW w \in Walkers, Canceled(w) \/ \E i \in Slices : Timeout(w, i)
      PROVE  \/ UNCHANGED <<holders, lock, got>>
             \/ UNCHANGED got /\ \E i \in Slices : WrittenUnanswered(w, i)
  BY <1>7 DEF Canceled, Timeout
<1>8. CASE UNCHANGED vars
  BY <1>1, <1>8 DEF vars
<1>9. QED
  BY <1>1, <1>2, <1>3, <1>4, <1>5, <1>6, <1>7, <1>8, Zenon DEF Next, Step

\* Every slice of a subnet implements the shared slice, for any number of callers that walk
\* it, hop over it, time out on it and release: it changes hands between nodes only when
\* it is empty, whatever was hopped past or remembered.
THEOREM SharesSlices == Spec => SlicesAreShared
<1>1. Init => Kept /\ \A i \in Slices : Shared(i)!Init
  BY FS_EmptySet, WalkAssumption DEF Init, Kept, Fits, Shared!Init
<1>2. TypeOK /\ Kept /\ [Next]_vars => Kept' /\ \A j \in Slices : SharedStep(j)
  BY SharedAndKept
<1>3. (\A j \in Slices : SharedStep(j))
         => [\A i \in Slices : Shared(i)!Next \/ UNCHANGED <<holders[i], lock[i]>>]_<<holders, lock>>
  BY DEF SharedStep
<1>4. QED
  BY <1>1, <1>2, <1>3, TypeCorrect, PTL DEF Spec, SlicesAreShared
=============================================================================
