--------------------------------- MODULE Walk ---------------------------------
(***************************************************************************)
(* Allocate over a subnet of several slices (pkg/allocator/allocator.go):  *)
(* callers walk the slices, each in an order of its own, remember the full *)
(* ones, hop past contended ones and past those of other nodes, and start  *)
(* over until every slice was found full or their context is done.         *)
(*                                                                         *)
(* A slice is what IPSlice shows it to be for requests without a window:   *)
(* the set of the names that hold an address in it, with room while fewer  *)
(* than Hosts do, and the node that locked it.                             *)
(***************************************************************************)
EXTENDS Naturals, FiniteSets

CONSTANTS NumSlices,  \* slices in the subnet
          Hosts,      \* addresses per slice
          Walkers,    \* callers; each one is also its request name
          Nodes,
          Node,       \* the node that each caller locks slices for, or None
          Preferred,  \* the slice that the hash of each node picks
          Retry,      \* WithRetry
          LocalTries, \* attempts on a slice before hopping
          LostAnswers,\* callers whose applies may be written without an answer
          Deadline,   \* whether a caller's context may be done
          None

Slices == 0 .. NumSlices - 1

ASSUME WalkAssumption ==
    /\ NumSlices \in Nat \ {0} /\ Hosts \in Nat \ {0} /\ LocalTries \in Nat \ {0}
    /\ None \notin Nodes \cup Slices /\ None # "full"
    /\ Node \in [Walkers -> Nodes \cup {None}]
    /\ Preferred \in [Nodes -> Slices]
    /\ Retry \in BOOLEAN /\ LostAnswers \subseteq Walkers /\ Deadline \in BOOLEAN

VARIABLES holders,  \* the names that hold an address, for each slice
          lock,     \* the node that locked each slice, or None
          walk,     \* each caller's walk
          got,      \* the slices of the addresses that each caller was given
          wasFull   \* the slices that were full at some moment of each call

vars == <<holders, lock, walk, got, wasFull>>

TypeOK ==
    /\ holders \in [Slices -> SUBSET Walkers]
    /\ lock \in [Slices -> Nodes \cup {None}]
    /\ walk \in [Walkers -> [pc : {"idle", "walking"},
                             left : SUBSET Slices,        \* to visit in this pass
                             fullSlices : SUBSET Slices,
                             at : Slices \cup {None},     \* the slice to try again
                             tries : 1 .. LocalTries,     \* left on this slice
                             lastRetryableErr : BOOLEAN,
                             err : {None, "full", "timeout"}]]  \* of the last call
    /\ got \in [Walkers -> SUBSET Slices]
    /\ wasFull \in [Walkers -> SUBSET Slices]

Init ==
    /\ holders = [i \in Slices |-> {}]
    /\ lock = [i \in Slices |-> None]
    /\ walk = [w \in Walkers |->
                 [pc |-> "idle", left |-> {}, fullSlices |-> {}, at |-> None, tries |-> LocalTries,
                  lastRetryableErr |-> FALSE, err |-> None]]
    /\ got = [w \in Walkers |-> {}]
    /\ wasFull = [w \in Walkers |-> {}]

-----------------------------------------------------------------------------
(* One slice. *)

\* allocateSlice is told "full" even if another node has the slice as well.
IsFull(w, i) == w \notin holders[i] /\ Cardinality(holders[i]) >= Hosts

\* Slip: the lock is all that counts.
IsNodeMismatchSlip(w, i) == lock[i] \notin {None, Node[w]}

IsNodeMismatch(w, i) ==
    \/ lock[i] \notin {None, Node[w]}
    \/ Node[w] # None /\ \E v \in holders[i] : Node[v] # Node[w]

Granted(w, i) ==
    /\ holders' = [holders EXCEPT ![i] = @ \cup {w}]
    /\ lock' = [lock EXCEPT ![i] = IF Node[w] = None THEN @ ELSE Node[w]]

\* An apply that gets no answer may be written all the same.
WrittenUnanswered(w, i) ==
    w \in LostAnswers /\ ~IsFull(w, i) /\ ~IsNodeMismatch(w, i) /\ Granted(w, i)

FullNow == {i \in Slices : Cardinality(holders'[i]) >= Hosts}

Walking(w) == walk[w].pc = "walking"

\* A ghost: what was full while each call was on.
Observe ==
    wasFull' = [w \in Walkers |->
        IF Walking(w)' THEN wasFull[w] \cup FullNow ELSE {}]

-----------------------------------------------------------------------------
(* The walk. *)

\* A caller may ask again, whatever it holds: the walk does not look for that.
Allocate(w) ==
    /\ walk[w].pc = "idle"
    /\ walk' = [walk EXCEPT ![w] =
           [pc |-> "walking", left |-> Slices, fullSlices |-> {}, at |-> None, tries |-> LocalTries,
            lastRetryableErr |-> FALSE, err |-> None]]
    /\ UNCHANGED <<holders, lock, got>>
    /\ Observe

\* An address, ErrSliceFull or the last retryable error is returned; the error of a context
\* that is done is not told apart from an address that nobody was given.
Return(w, err) ==
    walk' = [walk EXCEPT ![w] =
        [@ EXCEPT !.pc = "idle", !.left = {}, !.fullSlices = {}, !.at = None,
                  !.tries = LocalTries, !.lastRetryableErr = FALSE, !.err = err]]

\* visitOrder: round from the preferred slice of the request's node, otherwise
\* shuffled.  A slice on which an attempt failed is finished first.
Distance(w, i) == (i + NumSlices - Preferred[Node[w]]) % NumSlices

Visits(w, i) ==
    /\ i \in walk[w].left
    /\ walk[w].at \in {None, i}
    /\ Node[w] # None => \A j \in walk[w].left : Distance(w, i) <= Distance(w, j)

Leave(w, i, full) ==
    walk' = [walk EXCEPT ![w].left = @ \ {i}, ![w].at = None, ![w].tries = LocalTries,
                         ![w].fullSlices = IF full THEN @ \cup {i} ELSE @]

Succeed(w, i) ==
    /\ Walking(w) /\ Visits(w, i) /\ ~IsFull(w, i) /\ ~IsNodeMismatch(w, i)
    /\ Granted(w, i)
    /\ got' = [got EXCEPT ![w] = @ \cup {i}]
    /\ Return(w, None)
    /\ Observe

\* Slip: the full slice is not remembered.
FoundFullSlip(w, i) ==
    /\ Walking(w) /\ Visits(w, i) /\ IsFull(w, i)
    /\ Leave(w, i, FALSE)
    /\ UNCHANGED <<holders, lock, got>>
    /\ Observe

FoundFull(w, i) ==
    /\ Walking(w) /\ Visits(w, i) /\ IsFull(w, i)
    /\ Leave(w, i, TRUE)
    /\ UNCHANGED <<holders, lock, got>>
    /\ Observe

\* Slip: a slice of another node counts as a full one.
HopSlip(w, i) ==
    /\ Walking(w) /\ Visits(w, i) /\ ~IsFull(w, i) /\ IsNodeMismatch(w, i)
    /\ Leave(w, i, TRUE)
    /\ UNCHANGED <<holders, lock, got>>
    /\ Observe

Hop(w, i) ==
    /\ Walking(w) /\ Visits(w, i) /\ ~IsFull(w, i) /\ IsNodeMismatch(w, i)
    /\ Leave(w, i, FALSE)
    /\ UNCHANGED <<holders, lock, got>>
    /\ Observe

\* Slip: one attempt too many.
TimeoutSlip(w, i) ==
    /\ Walking(w) /\ Visits(w, i)
    /\ walk' = [walk EXCEPT ![w].at = i, ![w].tries = @ - 1]
    /\ UNCHANGED <<holders, lock, got>>
    /\ Observe

\* Slip: a slice on which no attempt was answered counts as a full one.
TimeoutFullSlip(w, i) ==
    /\ Walking(w) /\ Visits(w, i)
    /\ UNCHANGED <<holders, lock>> \/ WrittenUnanswered(w, i)
    /\ IF walk[w].tries > 1
       THEN walk' = [walk EXCEPT ![w].at = i, ![w].tries = @ - 1]
       ELSE Leave(w, i, TRUE)
    /\ UNCHANGED got
    /\ Observe

\* An attempt times out, or another retryable error answers it.  The last attempt on the
\* slice makes the walk hop; nothing bounds how often that happens in a call.
Timeout(w, i) ==
    /\ Walking(w) /\ Visits(w, i)
    /\ UNCHANGED <<holders, lock>> \/ WrittenUnanswered(w, i)
    /\ IF walk[w].tries > 1
       THEN walk' = [walk EXCEPT ![w].at = i, ![w].tries = @ - 1]
       ELSE walk' = [walk EXCEPT ![w].at = None, ![w].tries = LocalTries,
                                 ![w].left = @ \ {i}, ![w].lastRetryableErr = TRUE]
    /\ UNCHANGED got
    /\ Observe

\* The end of a pass; the next one skips the slices that were full.
EndPass(w) ==
    /\ Walking(w) /\ walk[w].left = {}
    /\ IF walk[w].fullSlices = Slices THEN Return(w, "full")
       ELSE IF ~Retry THEN Return(w, IF walk[w].lastRetryableErr THEN "timeout" ELSE "full")
       ELSE walk' = [walk EXCEPT ![w].left = Slices \ walk[w].fullSlices,
                                      ![w].lastRetryableErr = FALSE]
    /\ UNCHANGED <<holders, lock, got>>
    /\ Observe

\* The context is done: the apply, or the wait between two passes, returns its error.
Canceled(w) ==
    /\ Deadline /\ Walking(w)
    /\ \/ UNCHANGED <<holders, lock>>
       \/ \E i \in Slices : Visits(w, i) /\ WrittenUnanswered(w, i)
    /\ Return(w, None)
    /\ UNCHANGED got
    /\ Observe

\* Release of an address that the caller was given.
Release(w, i) ==
    /\ walk[w].pc = "idle" /\ i \in got[w]
    /\ holders' = [holders EXCEPT ![i] = @ \ {w}]
    /\ lock' = [lock EXCEPT ![i] = IF holders'[i] = {} THEN None ELSE @]
    /\ got' = [got EXCEPT ![w] = @ \ {i}]
    /\ UNCHANGED walk
    /\ Observe

Step(w) ==
    \/ \E i \in Slices : \/ Succeed(w, i) \/ FoundFull(w, i) \/ Hop(w, i) \/ Timeout(w, i)
    \/ EndPass(w)

Next == \E w \in Walkers : \/ Allocate(w) \/ Step(w) \/ Canceled(w)
                           \/ \E i \in Slices : Release(w, i)

Spec == Init /\ [][Next]_vars

\* A caller's walk goes on; nothing says that a context is ever done, or that anybody
\* ever releases.
FairSpec == Spec /\ \A w \in Walkers : WF_vars(Step(w))

-----------------------------------------------------------------------------

\* pkg/allocator/allocator.go:118-121, 161-166: a call may walk past an address that its
\* name has already -- from an earlier call, or from an apply that was written without an
\* answer -- but it is never told that the subnet is full: the slice of that address grants
\* it again, as soon as the walk visits it.
HoldersAreServed ==
    [][\A w \in Walkers : Walking(w) /\ walk'[w].err = "full"
                              => \A i \in Slices : w \notin holders[i]]_vars

\* pkg/allocator/allocator.go:169: "ErrSliceFull (wrapped) if no slice in subnet has a
\* free address" -- each slice at some moment of the call, at least.  Slices of other
\* nodes and contended ones are not counted.  True with retries (Walk), not
\* true with WithRetry(false) (WalkNoRetry).
FullMeansEachWasFull ==
    [][\A w \in Walkers : Walking(w) /\ walk'[w].err = "full" => wasFull[w] = Slices]_vars

\* pkg/allocator/allocator.go:243-290: however the others come and go, a walk ends by
\* itself, unless it finds, again and again, room that only other nodes may use, or slices
\* on which every attempt of the visit times out.  Single timeouts do not keep it going.
WalkEndsUnlessBlocked ==
    \A w \in Walkers :
        \/ []<>(~Walking(w))
        \/ []<><<\E i \in Slices : Hop(w, i) \/ (walk[w].tries = 1 /\ Timeout(w, i))>>_vars

-----------------------------------------------------------------------------

Shared(i) == INSTANCE SharedSlice
                 WITH Names   <- Walkers,
                      Crowds  <- {S \in SUBSET Walkers : Cardinality(S) <= Hosts},
                      holders <- [w \in holders[i] |-> Node[w]],
                      lock    <- lock[i]

\* What this module takes a slice to be is what SliceClients shows an object behind an API
\* server to be: however walks cross each other in the subnet, each slice of it is shared
\* by callers of one node at a time, and goes to another one only when it is empty.
SlicesAreShared ==
    /\ \A i \in Slices : Shared(i)!Init
    /\ [][\A i \in Slices : Shared(i)!Next \/ UNCHANGED <<holders[i], lock[i]>>]_<<holders, lock>>

-----------------------------------------------------------------------------
(* What the sources say and the code does not do. *)

\* pkg/allocator/allocator.go:118-121: the retry of an apply that timed out "either finds
\* our allocation already present or makes it, and never double-allocates".  So a caller
\* whose calls all came to their end (no context was done) holds nothing but the addresses
\* that it was given.
NeverDoubleAllocates ==
    \A w \in Walkers : ~Walking(w) => \A i \in Slices : w \in holders[i] => i \in got[w]
=============================================================================
