----------------------------- MODULE SliceClients -----------------------------
(***************************************************************************)
(* Callers of pkg/allocator sharing one slice.  A call is one of           *)
(* allocateSlice -- one visit of Allocate's walk, which may well call it   *)
(* again: Walk models that loop -- or one of Release.  Both retry          *)
(* server-side applies; the API server answers each by reading a snapshot  *)
(* (at first from a cache that lags), merging the body into it, running    *)
(* the policies and storing the outcome if nothing was written since       *)
(* (GuaranteedUpdate: docs/how-it-works.md, section 4), else it reads      *)
(* again.  An apply may time out: its caller is not told whether it was    *)
(* written, and retries.                                                   *)
(*                                                                         *)
(* Versions are compared by content: an outcome depends on nothing else.   *)
(***************************************************************************)
EXTENDS Admission

CONSTANTS Clients,     \* callers: each allocates and releases for one request name
          NameOf,      \* the request name, also the field manager, of each caller
          Entry,       \* the request each caller's Request builds (ApplyToRequest)
          Lock,        \* the node each caller passes to WithNode, or None
          CacheLags,   \* whether the first read of an apply is served from a cache
          MaxTries,    \* attempts of one call: the steps of the retry backoff
          MaxLate      \* applies that may still be written after they timed out

\* Allocate refuses WithNode for a request of another node before any API call.
ASSUME CallersAssumption ==
    /\ NameOf \in [Clients -> Names]
    /\ Entry \in [Clients -> Request]
    /\ Lock \in [Clients -> Nodes \cup {None}]
    /\ \A c \in Clients : Lock[c] # None => Entry[c].node = Lock[c]
    /\ CacheLags \in BOOLEAN
    /\ MaxTries \in Nat \ {0} /\ MaxLate \in Nat
    /\ None \in ClientStatuses   \* the bodies of pkg/allocator have no status

VARIABLES db,       \* the stored object and the managers that own its spec.node
          cache,    \* what the API server's cache shows of it
          call,     \* each caller's call in progress, or None
          attempt,  \* the apply the server works on for it, or None
          late,     \* applies that timed out and are still being worked on
          caller,   \* what each caller believes to hold
          truths    \* which refusals have been true since each caller's call began

vars == <<db, cache, call, attempt, late, caller, truths>>

Slice == db.slice
Holding(d) == Existing(d.slice)

Op == {"allocate", "release"}
Outcome == {"ok", "full", "mismatch", "invalid", "timeout", "error"}
Stored == [slice : Object \cup {Absent}, owners : SUBSET Names]
Call == [op : Op \cup {"lookup"}, byAddress : BOOLEAN, target : Names, tries : 1 .. MaxTries]
\* None stands for no call in progress and for a caller told nothing yet.
ASSUME CallAssumption == None \notin Call /\ None \notin Outcome

Apply == [op : Op, target : Names, client : Clients, snapshot : Stored, fresh : BOOLEAN]

TypeOK ==
    /\ db \in Stored /\ cache \in Stored
    /\ call \in [Clients -> Call \cup {None}]
    /\ attempt \in [Clients -> Apply \cup {None}]
    /\ late \subseteq Apply
    /\ caller \in [Clients -> [status : {"idle", "holding", "unsure"},
                               addr : Offsets \cup {None}, outcome : Outcome \cup {None}]]
    /\ truths \in [Clients -> SUBSET {"full", "mismatch"}]

Nothing == [slice |-> Absent, owners |-> {}]

Init ==
    /\ db = Nothing /\ cache = Nothing /\ late = {}
    /\ call = [c \in Clients |-> None]
    /\ attempt = [c \in Clients |-> None]
    /\ caller = [c \in Clients |-> [status |-> "idle", addr |-> None, outcome |-> None]]
    /\ truths = [c \in Clients |-> {}]

-----------------------------------------------------------------------------
(* Server-side apply. *)

\* The entry that Named(name) builds, associated with a node by ForNode or not.
Named(node) == [window |-> None, node |-> node, deviceRef |-> None]

LiveNode(d) == IF d.slice = Absent THEN None ELSE d.slice.node
LiveRequests(d) == IF d.slice = Absent THEN [n \in {} |-> None] ELSE d.slice.request

\* Slip: the body of an allocation has no lock.
MergedNodeSlip(a) ==
    IF a.snapshot.owners = {a.target} THEN None ELSE LiveNode(a.snapshot)

\* A manager's body replaces what it applied before: what it leaves out now is
\* removed unless another manager owns it too.  Force takes the lock over.
MergedNode(a) ==
    IF a.op = "allocate" /\ Lock[a.client] # None THEN Lock[a.client]
    ELSE IF a.snapshot.owners = {a.target} THEN None
    ELSE LiveNode(a.snapshot)

MergedOwners(a) ==
    IF a.op = "allocate" /\ Lock[a.client] # None
    THEN {a.target} \cup (IF LiveNode(a.snapshot) = Lock[a.client]
                          THEN a.snapshot.owners ELSE {})
    ELSE a.snapshot.owners \ {a.target}

\* Slip: the body of a release still has the request.
MergedRequestsSlip(a) ==
    LET live == LiveRequests(a.snapshot)
    IN  [n \in DOMAIN live \cup {a.target} |->
            IF n = a.target THEN Entry[a.client] ELSE live[n]]

MergedRequests(a) ==
    LET live  == LiveRequests(a.snapshot)
        names == (DOMAIN live \ {a.target}) \cup (IF a.op = "allocate" THEN {a.target} ELSE {})
    IN  [n \in names |-> IF n = a.target THEN Entry[a.client] ELSE live[n]]

Merged(a) == [request |-> MergedRequests(a), node |-> MergedNode(a), status |-> None]

\* What the policies make of the apply on its snapshot.
Result(a) == CHOOSE m \in Outcomes(a.snapshot.slice, Merged(a)) : TRUE
Passes(a) == Accepts(a.snapshot.slice, Merged(a))

\* How the caller reads a rejection: isSliceFull is asked before isNodeMismatch.
\* A rejection by the schema never gets to the validating policy.
Refusal(a) ==
    LET m == Result(a)
    IN  IF a.op = "release" THEN "invalid"
        ELSE IF ~RequestsWithinCap(m) \/ ~AllRequestsCounted(m) THEN "full"
        ELSE IF ~NodesMatchLock(m) \/ (CRDValid(a.snapshot.slice, m)
                                        /\ ~LockKept(a.snapshot.slice, m)) THEN "mismatch"
        ELSE "invalid"

-----------------------------------------------------------------------------
(* What is true of the stored object, for a caller that asks for an address. *)

NoRoomFor(c, d) ==
    /\ NameOf[c] \notin DOMAIN Holding(d)
    /\ \A o \in Offsets : Wlo(Entry[c]) <= o /\ o <= Whi(Entry[c])
                            => \E n \in DOMAIN Holding(d) : Holding(d)[n] = o

OtherNodesSlice(c, d) ==
    \E n \in DOMAIN LiveRequests(d) \ {NameOf[c]} :
        \/ LiveNode(d) \notin {None, Entry[c].node}
        \/ Lock[c] # None /\ LiveRequests(d)[n].node # Lock[c]

Observe ==
    truths' = [c \in Clients |->
        IF call'[c] = None THEN truths[c]
        ELSE (IF call[c] = None THEN {} ELSE truths[c])
                \cup (IF NoRoomFor(c, db') THEN {"full"} ELSE {})
                \cup (IF OtherNodesSlice(c, db') THEN {"mismatch"} ELSE {})]

-----------------------------------------------------------------------------
(* Calls. *)

Begin(c, op) ==
    /\ call[c] = None
    /\ call' = [call EXCEPT ![c] =
           [op |-> op, byAddress |-> op = "lookup", target |-> NameOf[c], tries |-> MaxTries]]
    /\ UNCHANGED <<db, cache, attempt, late, caller>>
    /\ Observe

AllocateSlice(c) == Begin(c, "allocate")

\* Release with the request given.
Release(c) == Begin(c, "release")

\* Release with the address only.
ReleaseAddress(c) == caller[c].status = "holding" /\ Begin(c, "lookup")

Finish(c, status, addr, outcome) ==
    /\ call' = [call EXCEPT ![c] = None]
    /\ caller' = [caller EXCEPT ![c] = [status |-> status, addr |-> addr, outcome |-> outcome]]

\* The GET that resolves the address to a request; it may fail.
Lookup(c) ==
    /\ call[c] # None /\ call[c].op = "lookup"
    /\ LET holders == {n \in DOMAIN Holding(db) : Holding(db)[n] = caller[c].addr}
       IN  \/ /\ holders = {}
              /\ Finish(c, "idle", None, "ok")
           \/ \E n \in holders :
                  /\ call' = [call EXCEPT ![c].op = "release", ![c].target = n]
                  /\ UNCHANGED caller
           \/ Finish(c, caller[c].status, caller[c].addr, "error")
    /\ UNCHANGED <<db, cache, attempt, late>>
    /\ Observe

Send(c) ==
    /\ call[c] # None /\ call[c].op \in Op /\ attempt[c] = None
    /\ attempt' = [attempt EXCEPT ![c] =
           [op |-> call[c].op, target |-> call[c].target, client |-> c,
            snapshot |-> IF CacheLags THEN cache ELSE db, fresh |-> ~CacheLags]]
    /\ UNCHANGED <<db, cache, call, late, caller>>
    /\ Observe

CatchUp ==
    /\ CacheLags /\ cache # db
    /\ cache' = db
    /\ UNCHANGED <<db, call, attempt, late, caller>>
    /\ Observe

\* Slip: a rejection on a stale snapshot is final.
MustReadAgainSlip(a) == a.snapshot # db /\ Passes(a)

\* A lost race reads again, and so does a rejection on what the cache showed.
MustReadAgain(a) == IF Passes(a) THEN a.snapshot # db ELSE ~a.fresh

ReadAgain(c) ==
    /\ attempt[c] # None
    /\ MustReadAgain(attempt[c]) = TRUE
    /\ attempt' = [attempt EXCEPT ![c].snapshot = db, ![c].fresh = TRUE]
    /\ UNCHANGED <<db, cache, call, late, caller>>
    /\ Observe

\* Slip: the write does not compare before it swaps.
WriteSlip(a) ==
    /\ Passes(a) = TRUE
    /\ db' = [slice |-> Result(a), owners |-> MergedOwners(a)]

\* (A condition compared with TRUE or FALSE is one condition to TLC, not a choice.)
Write(a) ==
    /\ a.snapshot = db
    /\ Passes(a) = TRUE
    /\ db' = [slice |-> Result(a), owners |-> MergedOwners(a)]

\* Slip: the attempts are not counted.
NoAnswerSlip(c) ==
    /\ attempt' = [attempt EXCEPT ![c] = None]
    /\ UNCHANGED <<call, caller>>

\* The attempt is over for its caller without an answer: retry.OnError tries again, or
\* gives up after the last one or when the context is done.  Release returns the error;
\* Allocate, if it retries, hops to another slice or begins anew with this one
\* (Walk's Timeout).
NoAnswer(c) ==
    /\ attempt' = [attempt EXCEPT ![c] = None]
    /\ \/ /\ call[c].tries > 1
          /\ call' = [call EXCEPT ![c].tries = call[c].tries - 1]
          /\ UNCHANGED caller
       \/ Finish(c, "unsure", None, "timeout")

\* Stored and answered: Allocate reads its offset out of the response.
Commit(c) ==
    /\ attempt[c] # None /\ Write(attempt[c])
    /\ attempt' = [attempt EXCEPT ![c] = None]
    /\ IF call[c].op = "allocate"
       THEN Finish(c, "holding", Result(attempt[c]).status.allocation[NameOf[c]], "ok")
       ELSE Finish(c, "idle", None, "ok")
    /\ UNCHANGED <<cache, late>>
    /\ Observe

\* Stored, but the caller gets a timeout.
CommitUnanswered(c) ==
    /\ attempt[c] # None /\ Write(attempt[c])
    /\ NoAnswer(c)
    /\ UNCHANGED <<cache, late>>
    /\ Observe

\* What Walk's FoundFull and Hop go by, when it is allocateSlice that is refused.
Refuse(c) ==
    /\ attempt[c] # None
    /\ (Passes(attempt[c]) \/ MustReadAgain(attempt[c])) = FALSE
    /\ attempt' = [attempt EXCEPT ![c] = None]
    /\ Finish(c, caller[c].status, caller[c].addr, Refusal(attempt[c]))
    /\ UNCHANGED <<db, cache, late>>
    /\ Observe

\* The deadline passes before the apply is stored; it may or may not be dropped.
Timeout(c) ==
    /\ attempt[c] # None
    /\ NoAnswer(c)
    /\ \/ UNCHANGED late
       \/ Cardinality(late) < MaxLate /\ late' = late \cup {attempt[c]}
    /\ UNCHANGED <<db, cache>>
    /\ Observe

LateReadAgain(a) ==
    /\ MustReadAgain(a) = TRUE
    /\ late' = (late \ {a}) \cup {[a EXCEPT !.snapshot = db, !.fresh = TRUE]}
    /\ UNCHANGED <<db, cache, call, attempt, caller>>
    /\ Observe

LateEnd(a) ==
    /\ late' = late \ {a}
    /\ \/ Write(a)
       \/ UNCHANGED db
    /\ UNCHANGED <<cache, call, attempt, caller>>
    /\ Observe

ClientNext(c) ==
    \/ AllocateSlice(c) \/ Release(c) \/ ReleaseAddress(c)
    \/ Lookup(c) \/ Send(c) \/ ReadAgain(c) \/ Commit(c) \/ CommitUnanswered(c)
    \/ Refuse(c) \/ Timeout(c)

Next == \/ \E c \in Clients : ClientNext(c)
        \/ \E a \in late : LateReadAgain(a) \/ LateEnd(a)
        \/ CatchUp

Spec == Init /\ [][Next]_vars

\* A caller goes on with its call, and the deadline of every request passes
\* (Kubernetes' request timeout, or the caller's context).
Fairness == \A c \in Clients : /\ WF_vars(Lookup(c))
                               /\ WF_vars(Send(c))
                               /\ WF_vars(Timeout(c))

FairSpec == Spec /\ Fairness

-----------------------------------------------------------------------------
(* Names that only one caller uses, and no apply written after its timeout: *)

\* An address that allocateSlice returned stays the caller's, whatever the others do,
\* until it asks for its release -- through lost races, timeouts that wrote and
\* timeouts that did not, and retries.  Two holders never share an address.
HolderHolds ==
    \A c \in Clients :
        caller[c].status = "holding" /\ (call[c] # None => call[c].op # "release") =>
            /\ NameOf[c] \in DOMAIN Holding(db)
            /\ Holding(db)[NameOf[c]] = caller[c].addr

\* No address stays taken for a caller that was refused or that has released: an
\* attempt that was written without an answer is found by its retry.
NothingLeaked ==
    \A c \in Clients :
        caller[c].status = "idle" /\ call[c] = None => NameOf[c] \notin DOMAIN Holding(db)

\* allocateSlice reports a full slice, or a slice of another node, only if it was one at
\* some moment of the visit: the lagging cache makes no walk remember or hop past a slice.
RefusalsAreTrue ==
    \A c \in Clients :
        call[c] = None /\ caller[c].outcome \in {"full", "mismatch"}
            => caller[c].outcome \in truths[c]

\* pkg/allocator/allocator.go:97-102, 382-386, 465-469: the retry loops of allocateSlice and of
\* Release end, with an answer or with the last error, although others may win every race
\* for the object.  (Allocate's own loop need not: see Walk.)
RetryLoopsEnd == \A c \in Clients : call[c] # None ~> call[c] = None

-----------------------------------------------------------------------------
(* All these applies are writes that the life of one slice allows. *)

Block == INSTANCE IPSlice WITH slice <- Slice

ImplementsSlice == Block!Spec

Shared == INSTANCE SharedSlice
              WITH Crowds  <- {S \in SUBSET Names : Cardinality(S) <= Hosts},
                   holders <- [n \in DOMAIN Holding(db) |-> LiveRequests(db)[n].node],
                   lock    <- LiveNode(db)

\* What Walk takes a slice to be.  For callers that lock a slice for the node of their
\* request, and names that are used for one node: lost races, managers that own the lock
\* together, and applies that are written after their callers gave up, never show.
ImplementsShared == Shared!Spec

-----------------------------------------------------------------------------
(* What the sources say and the code does not do. *)

\* docs/how-it-works.md:67: a release removes the caller's own request and nothing
\* else, so nothing stands against it.
ReleaseNeverDenied ==
    [][\A c \in Clients :
          call[c] # None /\ call[c].op = "release" /\ call'[c] = None
              => caller'[c].outcome # "invalid"]_vars

\* pkg/allocator/allocator.go:293-298: "Release frees an allocated IP address from its
\* IPSlice"; without a request it looks up "which request owns the IP's offset before
\* releasing it".  So a release by address frees no other address.
ReleaseFreesThatAddress ==
    [][\A c \in Clients :
          attempt[c] # None /\ attempt'[c] = None /\ call[c].op = "release" /\ call[c].byAddress
          /\ caller[c].status = "holding" =>
              \A n \in DOMAIN Holding(db) \ DOMAIN Holding(db') :
                  Holding(db)[n] = caller[c].addr]_vars
=============================================================================
