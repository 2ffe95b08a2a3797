# PizzIPAM: a TLA+ model, checked and proved

PizzIPAM hands out pod IP addresses without a controller. A block of 64 addresses is
one cluster-scoped `IPSlice` object; a client asks for an address by a server-side
apply that adds an entry to `spec.request`, and CEL policies inside the API server fill
`status.allocation` in the same write. This directory models that write, the life of
one slice under all possible writes, the Go clients that share a slice, their walk over
a subnet of many slices, all the slices of a cluster with their names and addresses, and
the factory of shared informers that the project gives to other programs.

Run TLC on a row of the table in section 3 with `tlc -config <cfg> <module>` (`MC<module>`
where there is one), the proofs with `tlapm <module>_proofs.tla`.

## 1. Inventory

| component | source | state | operations |
|---|---|---|---|
| allocator policy | `deployment/mutating-policy.yaml` | none of its own; reads the stored object, rewrites `status`, may remove `spec.node` | runs on every CREATE and UPDATE |
| schema (CRD) | `apis/v1alpha1/types.go` | the object: `spec.request`, `spec.node`, `status.allocation`, `status.bitmap` | validates the mutated object |
| validating policy | `deployment/validating-policy.yaml` | none | nine rules on the mutated object and the stored one |
| `Allocate`, `Release` | `pkg/allocator/allocator.go` | one call's: slices found full, retry steps | server-side apply, GET, retry, reading of rejections |
| walk | `pkg/allocator/allocator.go`, `options.go` | `fullSlices`, the pass, back-offs | visit order, hop, repeat |
| address arithmetic | `allocator.go` `addAddr`, `offsetForAddr`; rule 2 | none | place a slice in its subnet, an offset in its slice, and back |
| requests and options | `request.go`, `options.go` | none | `Named`, `DeviceRef`, `WithNode`, `WithRetry` |
| naming | `pkg/naming`; rule 1 | none | `Name`, `RequestNameForDevice`, and the policy's own derivation |
| API server, etcd | external | the objects, a watch cache, `managedFields` | merge, admission, `GuaranteedUpdate` |
| informer factory | `externalversions/factory.go`, `.../apis/v1alpha1/ipslice.go` | `lock`, `informers`, `startedInformers`, `shuttingDown`, `wg` | `InformerFor`, `Start`, `Shutdown`, `WaitForCacheSync` |
| other generated code: clients, listers, deepcopy | `pkg/client`, `zz_generated*` | | no logic of the project |
| `hack`, `test`, `docs` | | | tooling, drivers, promises |

**How they interact.** A call of `Allocate` is one or more applies. For each one the API
server reads the object, merges the body (a field manager per request name), runs the
mutating policy, the schema and the validating policy, and swaps the object in if its
version is still the one that was read; otherwise all of it runs again. The response
holds the offset, or the error text from which the client tells "full", "another node's"
and "anything else" apart. Nothing else is shared. Slices are never listed: a client
computes the name of the slice it wants from the subnet, and the policy recomputes the
name from the identity in the body, so all that ties clients, slices and addresses of a
cluster together is `pkg/naming` and address arithmetic. The informer factory is apart
from all this: goroutines of a program that watches slices share it.

**What is hard.** Optimistic races (two writers decide on one snapshot); rejections
decided on a cached object; the bitmap, a cache of the allocation list that is patched a
bit at a time and never recomputed; ambiguous timeouts, on one slice and across slices;
ownership of `spec.node`, a field that several managers apply; the walk's memory of full
slices; the end of walks and calls; names derived twice, in two languages; bytes that
carry; a factory used by several goroutines at once. `PROJECT.json` lists them line by line ("hazards").

**What makes each part correct.**
- *A slice*: one holder for an address, an address for every request, in its window;
  bitmap and list agree; addresses never move; a grant takes the lowest free address;
  "full" is the truth; every release is possible; a node lock means one node and goes
  with the last request; nothing that a client writes into `status` matters.
- *Callers*: what `Allocate` returned stays the caller's; nothing stays taken for
  somebody who was refused or has released; a refusal was true; every retry loop ends.
- *A walk*: "full" is only said if every slice was, and to no name that holds an address of
  the subnet; a walk ends unless it hops again and again, past other nodes or past slices
  that do not answer.
- *A cluster*: no address is in two slices; nobody can take another block's name, so
  nobody is denied for a valid identity; an answer is what the status shows, nobody
  else's, and of the subnet asked for; two devices have two request names.
- *The factory*: one informer for a type, run once, none after a `Shutdown` has returned;
  the result of a wait means what it says; every call returns.

## 2. The modules

```
 AddressTable ◁── IPSlice ◁── SliceClients ──▷ SharedSlice ◁── Walk
              ◁── Blocks                                               Informers

 Admission ── IPSlice, SliceClients            Address ── Blocks

 Admission_proofs ── IPSlice_proofs ── IPSliceRoom_proofs     Walk_proofs
                  └─ SliceClients_proofs                      Informers_proofs
 Address_proofs ── Blocks_proofs
```

`◁──` and `──▷` point from a specification to the one that it implements (INSTANCE with a
mapping, checked as a PROPERTY and proved); `──` is EXTENDS, the extended module on the
left of the ones that extend it. Every `X_proofs` extends `X` as well
(`IPSliceRoom_proofs` through `IPSlice_proofs`). `Walk` and
`Blocks` do not extend `IPSlice`; what they take a slice to be is what the two abstract
specifications say, which the detailed ones implement too.

**Admission** (operators, no state) is one write: `Mutate(old, new, first, gone)` follows
the variables of the mutating policy by name (`Existing`, `Kept`, `Removed`, `Pending`,
`Wlo`, `Whi`, `RawOldBitmap`, `ClearedBitmap`, `Pick`), `CRDValid` and `VAPValid` are the
rules. An object is `[request, node, status]`. The list fields are list-maps, so a list
is a function from its keys; the order of a list matters only to `pending[0]` and
`removed[0]`, and `Outcomes` has a result for every choice of them. The bitmap is the set
of its ones. The size comparisons that the policy uses as shortcuts are kept as such.
Not in it: the identity fields, the canonical name and the rendered address (in Blocks),
string patterns. `WithNode("")` and `node: ""` do not
occur: the pattern excludes the empty string.

**IPSlice** is the life of one object: `Create`, `Update` with any proposal whatever
(well behaved or not, with any status in it), and `Delete`, which no policy matches.
Admission and compare-and-swap make a write atomic at this level; SliceClients shows
why they do. A rejected write changes nothing and is left out.

**AddressTable** is what slices promise, without objects: who holds which offset; a step
gives up at most one and takes at most one free offset (`Change`); only the deletion of a
slice ends several holdings, those of its own offsets (`Delete`). One object under any
writes implements `Spec`: a write may take one request away and add another. A cluster
implements `SpecApart`, where nobody takes in the step in which somebody gives up; its
"offsets" are the addresses of all networks and families, and a "slice" is the block of a
prefix.

**SharedSlice** is what a slice is to callers who lock it for their nodes: who holds an
address in it and for which node, and the lock. `Take` needs room, and no lock or requests
of another node; `Give` takes the lock along with the last holder. `Crowds` are the sets of
holders that a slice has room for. It is between two levels: Walk, where each slice of a
subnet is just that, and SliceClients, where it comes out of objects, snapshots, policies
and jointly owned fields.

**SliceClients** takes the write apart. Callers have a call in progress (`AllocateSlice`,
`Release` with a request, `Release` with an address, which looks the holder up first),
and an attempt at the server with the snapshot it was decided on. A call is one
`allocateSlice` or one `Release`, with its `retry.OnError`; the loop of `Allocate` around
`allocateSlice` is Walk's, and here it is a caller that may call again whatever it was told:
a timeout, "full" and "mismatch" are what `allocateSlice` returns to that loop, and
`Allocate` returns the first two only under the conditions that Walk gives. `Merged*` is
server-side apply: each request name is a field manager; only the ownership of
`spec.node` can be shared. `ReadAgain`, `Commit`, `Refuse` are `GuaranteedUpdate`: a lost
race reads again, and so does a rejection on what the cache showed; `CatchUp` is the
cache. A call times out before the write (`Timeout`), after it (`CommitUnanswered`), or
the server goes on without it (`late`); `NoAnswer` tries again or gives up, because the attempts
are used up or the context is done. The GET of a `Lookup` may fail. Versions are compared by content, because an
outcome depends on nothing else. `truths` is a ghost. `ImplementsSlice` maps it to IPSlice,
`ImplementsShared` to SharedSlice.

**Walk** is `Allocate` on a subnet, with releases. A slice is what IPSlice shows it to be
for requests without windows: the names that hold an address, and the lock. `left`,
`fullSlices`, `at`/`tries` are the rest of the pass, the remembered slices and the
attempts on the present one; `Succeed`, `FoundFull`, `Hop`, `Timeout`, `EndPass` are the
branches of the loop, `Canceled` its context. A caller may call again while it holds an
address: `got` is the set of slices whose addresses it was given. Nothing bounds how often
the attempts of a call time out. An attempt of a caller in `LostAnswers` may be written
when it times out or when the context ends; a write that comes later than that is in
SliceClients only. Callers with a node visit slices round from
the one that their node hashes to (`Preferred`, any function), others in any order.
`wasFull` is a ghost. `SlicesAreShared` says that each slice is a SharedSlice.

**Address** (operators, no state): `AddAddr` is the carry loop, with `Carries` as a
recursive function; `Masked`, `OffsetForAddr` (a subtraction of bytes) and `Rendered` (the
policy's addition to the last octet) are the rest of the arithmetic. `Value` is the number
that the bytes spell (`Prefixes`: that the first bytes spell) and `Capacity` the size of the
address space: the reference for the loop. Bytes have `Byte` values and addresses `Width`
bytes.

**Blocks** is a cluster. An object is known by its name, the sequence of the labels
between the dots, and has an identity (network, family, prefix, length) and the holder of
each offset. `Name` is `pkg/naming`, `CanonicalName` rule 1 of the validating policy,
`CRDIdentity` the schema's rules on an identity, `Admits` all that decides whether a write
may have this name and identity. A prefix is a text: an address of a family in canonical
spelling or not, or no address. Callers have a network, a family, a subnet and a device;
they `Allocate` in a slice of the subnet, `Release`, or `ReleaseByAddress`. Anybody may
`Write` any identity under any name, and `Delete` an object, once. An allocation is the
lowest free offset (IPSlice proves it), retries and timeouts are in SliceClients. `denied`
and `deleted` are ghosts. `Held` maps the statuses of all objects to an AddressTable.

**Informers** is the factory. Each section of code under its lock is one step; only making
an informer is apart from finding that there is none, because `newFunc` is called with the
lock held and calls back into the factory. `Start` and `Shutdown` are the methods of those
names; `WaitForCacheSync` is a snapshot under the lock, a wait (`Wait`), one `HasSynced`
an informer (`Read`), and the result. The informer of a type is the number of times one
was made for it, so that a second one can be told from the first. Informers themselves are
external: they `Sync` if they like and `Stop` when their context is done. `handed` (what
`InformerFor` returned) and `down` (a `Shutdown` has returned) are ghosts.

MC modules extend the specifications with functions that a cfg cannot write. Definitions
whose name ends in `Slip` are plausible mistakes in the definition that follows; for
every property of a passing run `PROJECT.json` names one that the run must notice.

## 3. The runs

| cfg | bounds | shows |
|---|---|---|
| IPSliceWindows | 4 addresses, 3 names, 4 windows (overlapping, disjoint, misaligned), a forged status | type, `SafetyInv` (bitmap, uniqueness, pairing, windows), idempotence and anti-tamper, full is the truth, offsets fixed, lowest free, IPSlice implements AddressTable |
| IPSliceLocks | 2 addresses, 3 names, 2 nodes, a device | lock means one node and goes with the last request; every release is possible; at the cap the schema and the bitmap agree |
| IPSliceImmutable | as IPSliceWindows | **violated**, finding 1 |
| ClientsRaces | 2 callers on 2 nodes, 2 addresses, one caller confined to the first; 2 attempts; lagging cache | holders keep, nothing leaks, refusals are true (both "full" and "another node's" occur), every retry loop ends, SliceClients implements SharedSlice: the lock goes from node to node |
| ClientsLate | 2 callers of one node that both lock, 2 addresses, one apply that outlives its caller | SliceClients implements IPSlice, and SharedSlice: the lock is owned jointly, and one owner leaves before the other |
| ClientsRelease | 2 callers of a node, one locks | **violated**, finding 2 |
| ClientsAddress | 3 callers, two of them of one name | **violated**, finding 3 |
| Walk | 3 callers (two on a node, one on none), 2 slices of 2 addresses, 2 attempts on a slice, any number of timeouts and of calls, answers of one caller get lost, deadlines | "full" is true and said to no holder, a walk ends unless it goes on hopping, every slice implements SharedSlice |
| WalkNoRetry | 3 callers on 2 nodes, one attempt, `WithRetry(false)` | **violated**, finding 4 |
| WalkTwice | 3 callers of no node, 2 slices of 1 address, answers get lost | **violated**, finding 5 |
| Blocks | 3 bytes of 4 values, slices of 2; 5 callers, four of a network on subnets of 4, 2, 1 and 1 slices, nested and across a byte, and one of another network; identities that are misaligned, of the wrong family or length, not canonical, no address, dotted | blocks are disjoint, valid identities are admitted whatever was written before, nobody is denied, answers are in the status and unique, the slices of a walk are the subnet, the loop adds, Blocks implements AddressTable |
| Informers | 2 types, 2 contexts, 2 goroutines | one informer a type, run once, nothing after a shutdown, waits that tell the truth, every call returns |

**Why the bounds are enough.** A policy looks at one stored object and one proposal and
treats names, nodes and devices alike; two holders and one newcomer meet every
rule (a duplicate, a removal beside an addition, a second removal). Four offsets have
windows that overlap, adjoin and are full while the slice is not. Two callers make every
race for one object; a third adds only the choice of who loses. Two slices give a walk
something to hop between and to remember, and two names of one node fill one while a third
caller is kept out of it. In Blocks slices are found by their names, so the interesting
cases are in the identities: every label position of a network is dotted once, every field
of an identity is wrong once; 4-valued bytes make `LoopAdds` cross two carries and the end
of the address space. Two goroutines and two contexts make every race of two calls of the
factory. No run has joint owners of a lock, late writes and a caller of another node at once
(three callers with a late write are too many states); `SharedByCallers` covers them
together. ClientsLate has a view (`LateView`) that leaves out what callers were told and the
ghost: nothing that it checks depends on them. One caller that loses answers in Walk meets two that do not, of its own node and
of none. `MaxTries`, `LocalTries`, `MaxLate`, `MaxMade` and the single
deletion in Blocks are bounds of the models; the code has 60 attempts and no bound on late
writes; `MaxMade` is never met, because an informer is made once (`LockIsKept` proves it). What the
bounds leave open, section 4 proves for all the safety properties.

**Fairness.** `RetryLoopsEnd` assumes that a caller goes on with its call (`Lookup`,
`Send`) and that a request's deadline passes (`Timeout`): the API server limits every
request, and callers pass a context. Nothing is assumed about who wins a race.
`WalkEndsUnlessBlocked` assumes that a caller's walk goes on (`Step`); nothing makes a
context be done (`Canceled`) or anybody release. Its exceptions are what the code does: a
walk whose remaining slices have room that is locked for other nodes, or time out on every
attempt of a visit, goes on until its context ends it. In Informers, `Lockers` are strongly fair: Go's mutex hands over to a
waiter that has waited long, so a lock that is free again and again is got; goroutines go on
(`Others`) and informers whose context is done stop (`Stop`). No fairness is on `Sync`,
`Cancel` and `Begin`: an informer may never sync, and `EveryCallReturns` is stated for the
case that all contexts are done.

**Conditions.** `HolderHolds`, `NothingLeaked` and `RefusalsAreTrue` are stated for names
that one caller uses, the contract in `pkg/allocator/request.go:25`, and without writes
that outlive their call: such a write can leak an address, or take one back, and no code
here could prevent it. `ImplementsShared` is for callers that lock a slice for the node of
their request (`WithNode` and `ForNode` agree) and names that are used for one node; there a
name may have several users and a write may outlive its call.
`StatusShowsAnswers` and `AnswersAreUnique` are stated as long as no slice was deleted,
because no policy matches DELETE: the holders of a deleted slice are forgotten. Devices
are DNS labels in Blocks, as the API they come from (`resource.k8s.io`) requires; the
schema here would allow dots, and then two devices could derive one request name.

### Findings

1. **`Immutable once set` can be undone.** `self == oldSelf` runs only if both objects
   have the field: a window can be taken off a live request and another one set.
2. **A release can be denied.** The release body has no `spec.node`. If its manager was
   the only one that applied the lock, server-side apply drops the lock, and rule 8 denies
   the write as long as other requests are in the slice.
3. **Release by address** resolves a name and then removes it, with no precondition: if
   the name was released and allocated again between the GET and the apply, another
   address is freed. It takes two users of a name, one that releases by address and one
   that moves it (names of one user cannot move under their own release).
4. **`WithRetry(false)` reports full** when the pass only met slices of other nodes.
5. **An ambiguous timeout and a hop** leave a name with addresses in two slices; the
   first is known to nobody. The comment on `isRetryable` excludes it, the comment on
   `Allocate` concedes only that repeated calls are not idempotent across slices.

Remarks on the documentation, without a run: the mutating policy's header promises batch
allocation, but `pending[0]` alone is served and a batch is rejected
(`docs/how-it-works.md:160` says the same); `docs/how-it-works.md:156` lets the validating
policy run after the commit, but admission comes before the swap and runs again with it;
`ErrSliceFull` says that each slice was full at some moment of the call, not all at one.

## 4. The proofs

Everything in this section is proved for every value of the constants that meets the
assumptions named in the modules; those are about what constants are (a positive size, a
finite set of names, windows within the ranges of their fields, `None` and `Absent`
distinct from values), and TLC evaluates them in every run.

| module | theorem | statement | under |
|---|---|---|---|
| IPSlice_proofs | `TypeCorrect`, `Soundness` | `[]TypeOK`, `[]Sound(slice)` | |
| | `Safety`, `OneNode` | `[]SafetyInv`, `[]LockMeansOneNode` | |
| | `NeverMoves`, `LowestFree` | the action properties of the runs | |
| | `Refinement` | `ImplementsTable` | |
| IPSliceRoom_proofs | `Idempotent` | `[]RewriteChangesNothing` | |
| | `ReleaseAccepted` | `[]ReleaseNeverRefused` | |
| | `RoomIsGranted` | `[]AllocatesIffRoom` | |
| SliceClients_proofs | `TypeCorrect`, `Invariance` | `[]TypeOK`, `[]IInv` | |
| | `Implementation` | `ImplementsSlice` | |
| | `SharedByCallers` | `ImplementsShared` | `Uniform` |
| | `HoldersHold`, `NothingLeaks`, `RefusalsTrue` | `[]HolderHolds`, `[]NothingLeaked`, `[]RefusalsAreTrue` | `Separate` |
| Walk_proofs | `TypeCorrect` | `[]TypeOK` | |
| | `HoldersServed` | `HoldersAreServed` | |
| | `FullMeansFull` | `FullMeansEachWasFull` | `Retry = TRUE` |
| | `SharesSlices` | `SlicesAreShared` | |
| Address_proofs | `AddAddrAdds` | the carry loop adds, modulo `Capacity` | |
| Blocks_proofs | `AlwaysIdentified` | `[]Identified` | |
| | `ValidAdmission`, `Disjointness` | `[]ValidIsAdmitted`, `[]DisjointBlocks` | |
| | `RequestNamesDiffer` | two callers, two request names | |
| | `TypeCorrect`, `AlwaysInv` | `[]TypeOK`, `[]Inv` | |
| | `NeverDenied`, `StatusAgrees`, `UniqueAnswers` | `[]NoClientDenied`, `[]StatusShowsAnswers`, `[]AnswersAreUnique` | |
| | `SubnetCovered`, `LoopAddsAlways` | `[]SlicesCoverSubnet`, `[]LoopAdds` | |
| | `Refinement` | `ImplementsTable` | |
| Informers_proofs | `TypeCorrect` | `[]TypeOK` | |
| | `SharedInformers`, `ShutdownIsFinal`, `StartIsIdempotent` | `[]OneInformerPerType`, `[]NothingRunsAfterShutdown`, `RunsOnce` | |
| | `LockIsKept` | `[]LockIsForMaking` | |
| | `FailuresHaveCauses`, `SuccessMeansSynced` | `FailureHasACause`, `SuccessIsSynced` | |

**One slice.** `Admission_proofs` has the lemmas about one write; it knows no states.
`KeptIs`, `RemovedIs`, `PendingIs` show that the policy's size shortcuts mean what the
filters say, `GrantedIs` and `MutateIs` what a mutation does, `Made` and `OutcomeIs` what
comes out of it in terms of who held, who goes and who comes. The invariant is
`Sound(slice)`: what the rules keep (`WellFormed`), the bitmap's agreement with the
allocations, which no rule looks at, and that no lock is left on an empty slice. The
agreement is not inductive alone: clearing the bit of the one removed name is right only
if no other name had the bit (`OneHolderPerOffset`) and if no second request goes in the
same write; the rule that forbids that (`AtMostOneRemoved`, rule 7) speaks of *requests*,
so `AllocatedExactly` is needed to make it a statement about allocations. `SoundStep` puts
this together, without `AtMostOneRemoved` it has no proof and TLC finds the drift.
IPSlice's theorems, and everything that SliceClients says of stored objects and snapshots,
follow from it. `IPSliceRoom_proofs` adds that nothing is refused that should not be: with
a sound slice as the old object every rule of `WellFormed` is established by the mutation,
and the search finds an offset exactly if the window has a free one (`GrantedIfRoom`).

**Its callers.** `IInv` is `TypeOK`, the soundness of everything that was ever read, and
the agreement of an attempt with its call. A commit writes what the policies make of a
snapshot that is still the stored object, so `IInv` gives `Implementation`. What a caller
is told needs `Sole`, under `Separate` (names are not shared, nothing is written late):
a caller's attempt is the only writer of its name, so a refusal decided on a fresh
snapshot cannot hide an earlier attempt of the call that was written. `Holds`,
`Releasing`, `Idle` say that of the three situations of a caller; `Seen` and `ToldTruth`
carry the ghost `truths` from the snapshot to the answer; `AllPlaced` says who can own
`spec.node`, which is why an attempt of a release that was already written is not denied.

`SharedByCallers` has its own invariant, `OneNode(db)`, under `Uniform` (`Lock[c]` is the
node of `Entry[c]`, and one for a name): all requests of the stored slice are for the node of
its lock, and the managers that own the lock are exactly those of its requests. The second
half is what makes the first inductive. A release body has no lock, so the merge removes
the lock exactly when its sole owner releases, and then the slice is empty; without the
equality a lock could go too early (the denied release of finding 2, which `Uniform`
excludes) or too late. `AllocateIsTake` and `ReleaseIsGive` map one written apply; an apply
that timed out is as good as any other, because what is written is decided on what is stored.

**Walks.** For `FullMeansFull` what is remembered as full was full during the call
(`Remembered`). For `HoldersServed` all holders of a slice are of the node that locked it
(`Placed`), so a visitor that holds an address there is neither told full nor hops for its
node; a walk has not passed such a slice except for timeouts (`Unpassed`), and after a
timeout a pass is repeated or ends in that error. For `SharesSlices`
no slice has more holders than addresses, and who has got a slice is a holder in it
(`Kept`): a release then is a `Give`, and hops, passes and memories are stutters.

**Bytes.** `Address_proofs` reasons about recursive functions over the bytes. The library's
induction theorems take an operator, so the induction is over the *set* of positions where
a claim holds: `NatLessThanWellFounded` and `WFMin` give the first position outside of it
(`Upwards`). That a recursive definition defines a function at all is proved
the same way, by extending a partial one by one byte (`RecursionUp`, `RecursionDown`). Then
each byte and its carry (`CarriesAre`) account for the sum of the prefixes, and what is
carried out of the first byte is a multiple of `Capacity`: the loop adds modulo
`Capacity`. For slices: stepping by `i * Hosts` from a masked base never carries out of an
offset, so masking gives the slice back, and the byte subtraction the offset.

**Blocks.** `Identified`: every stored object has a valid identity and the name of it.
Names are sequences of labels, and a valid network has one label for the name, one for the
kind and at most one for the namespace; so equal names have equal lengths, and then equal
parts. The client's name is the policy's because a valid prefix is canonical. Disjointness
is arithmetic on one byte: aligned prefixes with a common address are equal.

`Inv` is about the callers. `Placed` ties an answer to a slice of the caller's subnet and an
offset in it, so that name and offset can be computed back from the address alone
(`SliceOf`, `OffsetOf`), as `Release` does. `OnlyAnswer` and `HoldsAnswer` are the two
directions of "holds its answer and nothing else". The first survives any deletion; the
second is what a deletion ends, so it is stated as long as there was none.
`NoClientDenied` follows from `Identified`: a caller's identity is valid, and whoever wrote
to that name before can only have written that identity. For `Refinement` the table is
written with the callers that keep their answer (`HeldIsKept`); that two of them never have
one address is `Placed` and `OnlyAnswer` again.

**The factory.** `Typed` adds to `TypeOK` the parameters of the calls; `Made` that who
makes an informer has the lock; `Owned` that nobody else has it, and that the map has every
informer ever made; `Ended` that what runs was started and asked for, and that
who waits for the end has set `shuttingDown`; `Awaiting` what holds at each stage of a wait.

**Only model-checked.** Liveness (`RetryLoopsEnd`, `WalkEndsUnlessBlocked`,
`EveryCallReturns`, `WaitsForStartedOnly`), which is out of the prover's reach. Of
`EveryCallReturns` the safety half is proved: who has the factory's lock can go on
(`LockIsKept`). All other properties of passing runs are proved.

## 5. Not modelled

- *Managers.* Of `managedFields` only the owners of `spec.node` are kept, because nothing
  else changes an answer; so its growth with every name ever used is not in a model. Field
  managers other than `pkg/allocator`, and writers that use PUT or DELETE, are in IPSlice
  as writes without an author, not in SliceClients.
- *Resources and time.* The array of `visitOrder` (one entry per slice of the subnet, up to
  2^32), back-off times, transport errors other than timeouts.
- *Strings.* Lengths and patterns, except where a property tells labels, dots, canonical
  spellings or families apart. The request name of a device over 63 characters is refused
  by the schema.
- *The factory's options* (tweaks, namespaces, transforms, resync), which fill fields
  before the factory is shared, and list and watch functions; the release of the informer's
  metrics name when a `Shutdown` has waited (`factory.go:171`), which nothing here reads.
- *Generated code* without logic of the project (client set, listers, apply
  configurations, deepcopy, registration), `hack`, `test`, `docs`. Promises in comments
  and docs that the code does not keep are the findings above.

Walk and Blocks abstract a slice and an apply to one step. What justifies it: Walk and
SliceClients implement the same SharedSlice, Blocks and IPSlice the same AddressTable, all
four proved. That is agreement on what a slice is, not a refinement of Walk by several
SliceClients: what the applies in flight of one caller on two slices do together is not
modelled (`Timeout` in Walk stands for it).

## 6. Plan

All components with state of their own are modelled. What would add most from here:

1. **Walk over SliceClients**: a specification of several slices with an apply in flight
   on each, mapped to Walk (`holders` from the stored objects, `got` from the callers).
2. **Managers outside the protocol** in SliceClients: PUT, a second manager of an entry,
   deletion while calls are in progress.
