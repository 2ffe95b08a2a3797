------------------------------- MODULE IPSlice -------------------------------
(***************************************************************************)
(* The life of one IPSlice object: everything that any client, well behaved *)
(* or not, can make of it through the API server.  The storage layer runs  *)
(* the policies and the compare-and-swap again until nothing was written   *)
(* in between, so an admitted write takes effect in one step; a rejected   *)
(* write changes nothing and is no step.                                   *)
(***************************************************************************)
EXTENDS Admission

VARIABLE slice   \* the stored object, or Absent

TypeOK == slice \in Object \cup {Absent}

Init == slice = Absent

\* Slip: the policies see an update as if nothing had been stored.
StoreSlip(new) == slice' \in {m \in Outcomes(Absent, new) : Admitted(Absent, m)}

Store(new) == slice' \in {m \in Outcomes(slice, new) : Admitted(slice, m)}

\* POST, or an apply to a name under which nothing is stored.
Create(new) == slice = Absent /\ Store(new)

\* PUT, PATCH, or an apply to the stored object.
Update(new) == slice # Absent /\ Store(new)

\* No policy matches DELETE: it is never refused.
Delete == slice # Absent /\ slice' = Absent

Next == \/ \E new \in Proposal : Create(new)
        \/ \E new \in Proposal : Update(new)
        \/ Delete

Spec == Init /\ [][Next]_slice

-----------------------------------------------------------------------------

Requests == IF slice = Absent THEN [n \in {} |-> None] ELSE slice.request

\* The offset of every name that holds one.
Held == Existing(slice)

TakenOffsets == {Held[n] : n \in DOMAIN Held}

\* The bitmap is a cache of the allocation list that no policy ever recomputes:
\* mutating-policy.yaml carries it from write to write, a bit at a time.
\* It never drifts from the list.
BitmapAgrees == RawOldBitmap(slice) = TakenOffsets

\* No two requests of a slice hold the same address.
OneHolderPerOffset == \A a, b \in DOMAIN Held : Held[a] = Held[b] => a = b

\* Requests and allocations pair up one to one by name: nobody waits for an
\* address in a stored object, and no address is kept for nobody.
AllocatedExactly == DOMAIN Held = DOMAIN Requests

\* A request's address lies in the window that the stored object shows for it.
WithinWindow ==
    \A n \in DOMAIN Held \cap DOMAIN Requests :
        Wlo(Requests[n]) <= Held[n] /\ Held[n] <= Whi(Requests[n])

\* A locked slice serves one node only (apis/v1alpha1/types.go:83-89), and an empty slice is
\* not locked (deployment/mutating-policy.yaml:165): a lock never outlives its requests.
LockMeansOneNode ==
    slice # Absent /\ slice.node # None =>
        /\ DOMAIN slice.request # {}
        /\ \A n \in DOMAIN slice.request : slice.request[n].node = slice.node

\* What the policies keep true together; BitmapAgrees alone is not inductive.
SafetyInv ==
    /\ BitmapAgrees
    /\ OneHolderPerOffset
    /\ AllocatedExactly
    /\ WithinWindow
    /\ LockMeansOneNode

-----------------------------------------------------------------------------

\* Every stored object, written back by any client with any status in it, is
\* accepted and comes out as it was: admission is idempotent (docs/readme.md
\* rule 8) and a client's status never gets in (anti-tamper).
RewriteChangesNothing ==
    slice # Absent =>
        \A s \in ClientStatuses :
            \A m \in Outcomes(slice, [slice EXCEPT !.status = s]) :
                Admitted(slice, m) /\ m = slice

WithoutRequest(n) == [k \in DOMAIN slice.request \ {n} |-> slice.request[k]]

\* No reachable object traps an address: removing any single request and changing
\* nothing else is always accepted.
ReleaseNeverRefused ==
    slice # Absent =>
        \A n \in DOMAIN slice.request :
            Accepts(slice, [slice EXCEPT !.request = WithoutRequest(n)])

\* A request that may be added to this slice as far as its own fields go.
Eligible(n, r) ==
    /\ n \notin DOMAIN Requests
    /\ WindowWellFormed(r)
    /\ slice # Absent /\ slice.node # None => r.node = slice.node
    /\ r.deviceRef # None => n = DeviceName[r.deviceRef]

WithRequest(n, r) ==
    [request |-> [k \in DOMAIN Requests \cup {n} |-> IF k = n THEN r ELSE Requests[k]],
     node    |-> IF slice = Absent THEN None ELSE slice.node,
     status  |-> None]

\* "Full" is the truth: one more eligible request is accepted exactly when its
\* window still has an address nobody holds.
AllocatesIffRoom ==
    \A n \in Names : \A r \in Request :
        Eligible(n, r) =>
            (Accepts(slice, WithRequest(n, r))
                <=> \E o \in Offsets \ TakenOffsets : Wlo(r) <= o /\ o <= Whi(r))

-----------------------------------------------------------------------------
(* Steps.  Within the life of one object: *)

InPlace == slice # Absent /\ slice' # Absent

\* An address in use is never moved: a request present before and after any
\* number of other changes keeps its offset.
OffsetNeverMoves ==
    [][InPlace => \A n \in DOMAIN Held \cap DOMAIN Held' : Held'[n] = Held[n]]_slice

\* A write that grants an address takes the lowest one of the window that nobody
\* who stays holds: an address freed by the same write is free for it.
LowestFreeGranted ==
    [][InPlace =>
        \A n \in DOMAIN Held' \ DOMAIN Held :
            LET r == slice'.request[n]
                staying == {Held[k] : k \in DOMAIN Held \cap DOMAIN Held'}
            IN  \A o \in Offsets : (Wlo(r) <= o /\ o < Held'[n]) => o \in staying]_slice

-----------------------------------------------------------------------------
(* What the sources say and the code does not do. *)

\* apis/v1alpha1/types.go:198,206,215,224: "Immutable once set" -- as long as the
\* request is there, a field that is set stays set, and to the same value.
ImmutableOnceSet ==
    [][InPlace =>
        \A n \in DOMAIN slice.request \cap DOMAIN slice'.request :
            slice.request[n].window # None
                => slice'.request[n].window = slice.request[n].window]_slice

-----------------------------------------------------------------------------
(* The slice implements the address table. *)

Table == INSTANCE AddressTable WITH held <- Held, Slices <- {Offsets}

ImplementsTable == Table!Spec
=============================================================================
