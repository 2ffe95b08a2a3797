-------------------------- MODULE SliceClients_proofs --------------------------
(***************************************************************************)
(* Proofs about callers that share one slice, for any number of callers,   *)
(* attempts, names, nodes and windows, with or without the cache.          *)
(***************************************************************************)
EXTENDS SliceClients, Admission_proofs

(***************************************************************************)
(* One apply.                                                              *)
(***************************************************************************)

LEMMA LiveIs ==
    ASSUME NEW d
    PROVE  LiveRequests(d) = Wanted(d.slice)
  BY DEF LiveRequests, Wanted

\* The body of an apply differs from its snapshot in the target's request only.
LEMMA MergedIs ==
    ASSUME NEW a \in Apply, Sound(a.snapshot.slice)
    PROVE  /\ a.snapshot.slice \in Object \cup {Absent}
           /\ Merged(a) \in Submitted
           /\ Merged(a) \in Proposal
           /\ Merged(a).request = MergedRequests(a)
           /\ Merged(a).node = MergedNode(a)
           /\ ReqNames(Merged(a)) = (DOMAIN Wanted(a.snapshot.slice) \ {a.target})
                                      \cup (IF a.op = "allocate" THEN {a.target} ELSE {})
           /\ \A n \in DOMAIN Wanted(a.snapshot.slice) \ {a.target} :
                  Merged(a).request[n] = Wanted(a.snapshot.slice)[n]
           /\ a.op = "allocate" => Merged(a).request[a.target] = Entry[a.client]
<1> DEFINE live == Wanted(a.snapshot.slice)
<1>1. /\ a.op \in Op
      /\ a.target \in Names
      /\ a.client \in Clients
      /\ a.snapshot.slice \in Object \cup {Absent}
      /\ a.snapshot.owners \in SUBSET Names
  BY DEF Apply, Stored
<1>2. /\ DOMAIN live \subseteq Names
      /\ \A n \in DOMAIN live : live[n] \in Request
  BY <1>1, SoundIs
<1>3. LiveRequests(a.snapshot) = live
  BY LiveIs
<1>4. /\ DOMAIN MergedRequests(a)
           = (DOMAIN live \ {a.target}) \cup (IF a.op = "allocate" THEN {a.target} ELSE {})
      /\ \A n \in DOMAIN live \ {a.target} : MergedRequests(a)[n] = live[n]
      /\ a.op = "allocate" => MergedRequests(a)[a.target] = Entry[a.client]
      /\ MergedRequests(a) = [n \in DOMAIN MergedRequests(a) |-> MergedRequests(a)[n]]
  BY <1>3 DEF MergedRequests
<1> HIDE DEF live
<1>5. Entry[a.client] \in Request /\ Lock[a.client] \in Nodes \cup {None}
  BY <1>1, CallersAssumption
<1>6. \A n \in DOMAIN MergedRequests(a) : MergedRequests(a)[n] \in Request
  BY <1>2, <1>4, <1>5
<1>7. MergedRequests(a) \in ListMap(Names, Request)
  BY <1>1, <1>2, <1>4, <1>6, ListMapType
<1>8. MergedNode(a) \in Nodes \cup {None}
  BY <1>1, <1>5 DEF MergedNode, LiveNode, Object
<1>9. Merged(a) \in Submitted /\ Merged(a) \in Proposal
  BY <1>7, <1>8, CallersAssumption DEF Merged, Submitted, Proposal
<1>10. QED
  BY <1>1, <1>4, <1>9 DEF Merged, ReqNames, live

\* With one request added or removed the policies have nothing to choose: the order
\* of the lists does not reach the outcome.
LEMMA OneOutcome ==
    ASSUME NEW a \in Apply, Sound(a.snapshot.slice)
    PROVE  /\ Result(a) \in Outcomes(a.snapshot.slice, Merged(a))
           /\ \A m \in Outcomes(a.snapshot.slice, Merged(a)) : m = Result(a)
           /\ Passes(a) <=> Admitted(a.snapshot.slice, Result(a))
<1> DEFINE old == a.snapshot.slice
           new == Merged(a)
<1>1. /\ old \in Object \cup {Absent}
      /\ new \in Submitted
      /\ ReqNames(new) = (DOMAIN Wanted(old) \ {a.target})
                            \cup (IF a.op = "allocate" THEN {a.target} ELSE {})
  BY MergedIs
<1>2. DOMAIN Existing(old) = DOMAIN Wanted(old)
  BY <1>1, SoundIs
<1> HIDE DEF old, new
<1>3. Pending(old, new) \subseteq {a.target} /\ Removed(old, new) \subseteq {a.target}
  BY <1>1, <1>2, PendingIs, RemovedIs
<1>4. PICK first, gone : First(Pending(old, new)) = {first} /\ First(Removed(old, new)) = {gone}
  <2>1. \A S : S \subseteq {a.target} => \E x : First(S) = {x}
    BY DEF First
  <2>2. QED
    BY <1>3, <2>1
<1>5. Outcomes(old, new) = {Mutate(old, new, first, gone)}
  BY <1>4 DEF Outcomes
<1>6. QED
  BY <1>5 DEF Result, Passes, Accepts, old, new

\* What is written: the outcome of the apply over the stored object.
LEMMA WriteIs ==
    ASSUME NEW a \in Apply, Sound(a.snapshot.slice), Write(a)
    PROVE  /\ a.snapshot = db
           /\ db' = [slice |-> Result(a), owners |-> MergedOwners(a)]
           /\ Admitted(db.slice, Result(a))
           /\ Result(a) \in Outcomes(db.slice, Merged(a))
           /\ Result(a) \in Object
           /\ Result(a) # Absent
           /\ Sound(Result(a))
           /\ MergedOwners(a) \subseteq Names
           /\ Existing(Result(a)) = Result(a).status.allocation
           /\ DOMAIN Existing(Result(a)) = ReqNames(Merged(a))
           /\ Wanted(Result(a)) = Merged(a).request
           /\ \A n \in DOMAIN Existing(db.slice) \cap ReqNames(Merged(a)) :
                  Existing(Result(a))[n] = Existing(db.slice)[n]
<1>1. a.snapshot = db /\ Passes(a) /\ db' = [slice |-> Result(a), owners |-> MergedOwners(a)]
  BY DEF Write
<1>2. db.slice \in Object \cup {Absent} /\ Merged(a) \in Submitted
  BY <1>1, MergedIs
<1>3. /\ Admitted(db.slice, Result(a))
      /\ Result(a) \in Outcomes(db.slice, Merged(a))
  BY <1>1, OneOutcome
<1>4. Result(a) \in Object /\ Result(a) # Absent /\ Sound(Result(a))
  BY <1>1, <1>2, <1>3, SoundStep
<1>5. Result(a).request = Merged(a).request
  BY <1>2, <1>3, OutcomeType
<1>6. MergedOwners(a) \subseteq Names
  BY DEF MergedOwners, Apply, Stored
<1>7. /\ Existing(Result(a)) = Result(a).status.allocation
      /\ Wanted(Result(a)) = Merged(a).request
      /\ DOMAIN Existing(Result(a)) = ReqNames(Merged(a))
  BY <1>4, <1>5, SoundIs DEF Wanted, ReqNames
<1>8. \A n \in DOMAIN Existing(db.slice) \cap ReqNames(Merged(a)) :
          Existing(Result(a))[n] = Existing(db.slice)[n]
  BY <1>3, <1>5, <1>7 DEF Admitted, VAPValid, OffsetsFixed, ReqNames
<1>9. QED
  BY <1>1, <1>3, <1>4, <1>6, <1>7, <1>8

(***************************************************************************)
(* The inductive invariant.                                                *)
(***************************************************************************)

\* Everything that was ever read was admitted when it was written.
SnapshotsSound ==
    /\ Sound(db.slice)
    /\ Sound(cache.slice)
    /\ \A c \in Clients : attempt[c] # None => Sound(attempt[c].snapshot.slice)
    /\ \A a \in late : Sound(a.snapshot.slice)

\* An apply is in progress for a call and does what the call asks.
Agrees ==
    \A c \in Clients :
        /\ attempt[c] # None =>
               /\ call[c] # None
               /\ attempt[c].op = call[c].op
               /\ attempt[c].target = call[c].target
               /\ attempt[c].client = c
        /\ call[c] # None /\ call[c].op = "allocate" => call[c].target = NameOf[c]

IInv == TypeOK /\ SnapshotsSound /\ Agrees

LEMMA ObserveType ==
    ASSUME TypeOK, Observe
    PROVE  truths' \in [Clients -> SUBSET {"full", "mismatch"}]
  BY DEF TypeOK, Observe

LEMMA RefusalType ==
    ASSUME NEW a
    PROVE  Refusal(a) \in {"full", "mismatch", "invalid"}
  BY DEF Refusal

LEMMA AttemptType ==
    ASSUME IInv, NEW c \in Clients, attempt[c] # None
    PROVE  /\ attempt[c] \in Apply
           /\ call[c] \in Call
           /\ Sound(attempt[c].snapshot.slice)
           /\ attempt[c].op = call[c].op
           /\ attempt[c].target = call[c].target
           /\ attempt[c].client = c
           /\ call[c].op = "allocate" => call[c].target = NameOf[c]
  BY DEF IInv, TypeOK, SnapshotsSound, Agrees

LEMMA BeginKeeps ==
    ASSUME IInv, NEW c \in Clients, NEW op \in Op \cup {"lookup"}, Begin(c, op)
    PROVE  IInv'
<1>1. [op |-> op, byAddress |-> op = "lookup", target |-> NameOf[c], tries |-> MaxTries] \in Call
  BY CallersAssumption DEF Call
<1>2. TypeOK'
  BY <1>1, ObserveType DEF IInv, Begin, TypeOK
<1>3. SnapshotsSound'
  BY DEF IInv, Begin, SnapshotsSound
<1>4. Agrees'
  BY <1>1 DEF IInv, Begin, Agrees, TypeOK, Call
<1>5. QED
  BY <1>2, <1>3, <1>4 DEF IInv

LEMMA LookupKeeps ==
    ASSUME IInv, NEW c \in Clients, Lookup(c)
    PROVE  IInv'
<1>1. attempt[c] = None
  BY AttemptType DEF Lookup, Apply, Op
<1>2. call[c] \in Call
  BY DEF IInv, TypeOK, Lookup
<1>3. DOMAIN Holding(db) \subseteq Names
  BY ExistingType DEF IInv, TypeOK, Stored, Holding
<1>4. SnapshotsSound'
  BY DEF IInv, Lookup, SnapshotsSound
<1>5. CASE Finish(c, "idle", None, "ok")
  <2>1. TypeOK'
    BY <1>5, ObserveType DEF IInv, Lookup, TypeOK, Finish, Outcome
  <2>2. Agrees'
    BY <1>1, <1>5 DEF IInv, Lookup, Agrees, Finish, TypeOK
  <2>3. QED
    BY <1>4, <2>1, <2>2 DEF IInv
<1>6. ASSUME NEW n \in DOMAIN Holding(db),
             call' = [call EXCEPT ![c].op = "release", ![c].target = n], UNCHANGED caller
      PROVE  IInv'
  <2>1. /\ call'[c] \in Call
        /\ call'[c].op = "release"
        /\ \A d \in Clients \ {c} : call'[d] = call[d]
        /\ call' \in [Clients -> Call \cup {None}]
    BY <1>2, <1>3, <1>6 DEF IInv, TypeOK, Call, Op
  <2>2. TypeOK'
    BY <1>6, <2>1, ObserveType DEF IInv, Lookup, TypeOK
  <2>3. Agrees'
    BY <1>1, <2>1 DEF IInv, Lookup, Agrees
  <2>4. QED
    BY <1>4, <2>2, <2>3 DEF IInv
<1>7. CASE Finish(c, caller[c].status, caller[c].addr, "error")
  <2>1. TypeOK'
    BY <1>7, ObserveType DEF IInv, Lookup, TypeOK, Finish, Outcome
  <2>2. Agrees'
    BY <1>1, <1>7 DEF IInv, Lookup, Agrees, Finish, TypeOK
  <2>3. QED
    BY <1>4, <2>1, <2>2 DEF IInv
<1>8. QED
  BY <1>5, <1>6, <1>7 DEF Lookup

LEMMA SendKeeps ==
    ASSUME IInv, NEW c \in Clients, Send(c)
    PROVE  IInv'
<1> DEFINE a == [op |-> call[c].op, target |-> call[c].target, client |-> c,
                 snapshot |-> IF CacheLags THEN cache ELSE db, fresh |-> ~CacheLags]
<1>1. a \in Apply
  BY CallersAssumption DEF IInv, TypeOK, Send, Apply, Call
<1>2. attempt' = [attempt EXCEPT ![c] = a]
  BY DEF Send
<1>3. Sound(a.snapshot.slice) /\ a.op = call[c].op /\ a.target = call[c].target /\ a.client = c
  BY DEF IInv, SnapshotsSound
<1> HIDE DEF a
<1>4. TypeOK'
  BY <1>1, <1>2, ObserveType DEF IInv, TypeOK, Send
<1>5. SnapshotsSound'
  BY <1>2, <1>3 DEF IInv, TypeOK, Send, SnapshotsSound
<1>6. Agrees'
  BY <1>2, <1>3 DEF IInv, TypeOK, Send, Agrees
<1>7. QED
  BY <1>4, <1>5, <1>6 DEF IInv

LEMMA CatchUpKeeps ==
    ASSUME IInv, CatchUp
    PROVE  IInv'
<1>1. TypeOK'
  BY ObserveType DEF IInv, TypeOK, CatchUp
<1>2. SnapshotsSound' /\ Agrees'
  BY DEF IInv, CatchUp, SnapshotsSound, Agrees
<1>3. QED
  BY <1>1, <1>2 DEF IInv

LEMMA ReadAgainKeeps ==
    ASSUME IInv, NEW c \in Clients, ReadAgain(c)
    PROVE  IInv'
<1>1. attempt[c] # None /\ attempt[c] \in Apply
  BY AttemptType DEF ReadAgain
<1> DEFINE a == [attempt[c] EXCEPT !.snapshot = db, !.fresh = TRUE]
<1>2. /\ a \in Apply
      /\ a.snapshot = db
      /\ a.op = attempt[c].op /\ a.target = attempt[c].target /\ a.client = attempt[c].client
  BY <1>1 DEF IInv, TypeOK, Apply
<1>3. attempt' = [attempt EXCEPT ![c] = a]
  BY <1>1 DEF ReadAgain, IInv, TypeOK
<1> HIDE DEF a
<1>4. TypeOK'
  BY <1>2, <1>3, ObserveType DEF IInv, TypeOK, ReadAgain
<1>5. SnapshotsSound'
  BY <1>2, <1>3 DEF IInv, TypeOK, ReadAgain, SnapshotsSound
<1>6. Agrees'
  BY <1>1, <1>2, <1>3 DEF IInv, TypeOK, ReadAgain, Agrees
<1>7. QED
  BY <1>4, <1>5, <1>6 DEF IInv

\* A write stores an object of the schema that was admitted.
LEMMA WriteKeeps ==
    ASSUME IInv, NEW a \in Apply, Sound(a.snapshot.slice), Write(a)
    PROVE  db' \in Stored /\ Sound(db'.slice)
  BY WriteIs DEF Stored

\* However an attempt ends for its caller, the others do not notice.
LEMMA EndKeeps ==
    ASSUME IInv, NEW c \in Clients, attempt[c] # None,
           attempt' = [attempt EXCEPT ![c] = None],
           \A d \in Clients \ {c} : call'[d] = call[d],
           call' \in [Clients -> Call \cup {None}],
           call'[c] = None \/ (call'[c].op = call[c].op /\ call'[c].target = call[c].target),
           db' \in Stored, Sound(db'.slice), UNCHANGED cache,
           late' \subseteq late \cup {attempt[c]},
           caller' \in [Clients -> [status : {"idle", "holding", "unsure"},
                                    addr : Offsets \cup {None}, outcome : Outcome \cup {None}]],
           Observe
    PROVE  IInv'
<1>1. attempt[c] \in Apply /\ Sound(attempt[c].snapshot.slice)
  BY AttemptType
<1>2. TypeOK'
  BY <1>1, ObserveType DEF IInv, TypeOK
<1>3. SnapshotsSound'
  BY <1>1 DEF IInv, TypeOK, SnapshotsSound
<1>4. Agrees'
  BY AttemptType DEF IInv, TypeOK, Agrees
<1>5. QED
  BY <1>2, <1>3, <1>4 DEF IInv

LEMMA FinishType ==
    ASSUME IInv, NEW c \in Clients, NEW status \in {"idle", "holding", "unsure"},
           NEW addr \in Offsets \cup {None}, NEW outcome \in Outcome,
           Finish(c, status, addr, outcome)
    PROVE  /\ \A d \in Clients \ {c} : call'[d] = call[d] /\ caller'[d] = caller[d]
           /\ call'[c] = None
           /\ caller'[c] = [status |-> status, addr |-> addr, outcome |-> outcome]
           /\ call' \in [Clients -> Call \cup {None}]
           /\ caller' \in [Clients -> [status : {"idle", "holding", "unsure"},
                                       addr : Offsets \cup {None}, outcome : Outcome \cup {None}]]
  BY DEF IInv, TypeOK, Finish

LEMMA NoAnswerType ==
    ASSUME IInv, NEW c \in Clients, attempt[c] # None, NoAnswer(c)
    PROVE  /\ \A d \in Clients \ {c} : call'[d] = call[d] /\ caller'[d] = caller[d]
           /\ call'[c] = None \/ (call'[c].op = call[c].op /\ call'[c].target = call[c].target)
           /\ caller'[c] = caller[c] \/ (caller'[c].status = "unsure" /\ caller'[c].outcome = "timeout")
           /\ call'[c] # None => caller'[c] = caller[c]
           /\ call'[c] = None => caller'[c].status = "unsure" /\ caller'[c].outcome = "timeout"
           /\ call' \in [Clients -> Call \cup {None}]
           /\ caller' \in [Clients -> [status : {"idle", "holding", "unsure"},
                                       addr : Offsets \cup {None}, outcome : Outcome \cup {None}]]
<1>1. call[c] \in Call /\ call \in [Clients -> Call \cup {None}]
  BY AttemptType DEF IInv, TypeOK
<1>2. CASE call[c].tries > 1 /\ UNCHANGED caller
           /\ call' = [call EXCEPT ![c].tries = call[c].tries - 1]
  <2>1. call'[c] \in Call /\ call'[c].op = call[c].op /\ call'[c].target = call[c].target
    BY <1>1, <1>2, CallersAssumption DEF Call
  <2>2. QED
    BY <1>1, <1>2, <2>1, CallAssumption DEF IInv, TypeOK
<1>3. CASE Finish(c, "unsure", None, "timeout")
  <2>1. /\ \A d \in Clients \ {c} : call'[d] = call[d] /\ caller'[d] = caller[d]
        /\ call'[c] = None
        /\ caller'[c] = [status |-> "unsure", addr |-> None, outcome |-> "timeout"]
        /\ call' \in [Clients -> Call \cup {None}]
        /\ caller' \in [Clients -> [status : {"idle", "holding", "unsure"},
                                    addr : Offsets \cup {None}, outcome : Outcome \cup {None}]]
    BY <1>3 DEF IInv, TypeOK, Finish, Outcome
  <2>2. QED
    BY <2>1
<1>4. QED
  BY <1>2, <1>3 DEF NoAnswer

LEMMA CommitIs ==
    ASSUME IInv, NEW c \in Clients, Commit(c)
    PROVE  /\ attempt[c] \in Apply /\ Sound(attempt[c].snapshot.slice)
           /\ Write(attempt[c])
           /\ attempt' = [attempt EXCEPT ![c] = None]
           /\ \/ /\ call[c].op = "allocate"
                 /\ Existing(db'.slice)[NameOf[c]] \in Offsets
                 /\ NameOf[c] \in DOMAIN Existing(db'.slice)
                 /\ Finish(c, "holding", Existing(db'.slice)[NameOf[c]], "ok")
              \/ /\ call[c].op # "allocate"
                 /\ Finish(c, "idle", None, "ok")
<1> DEFINE a == attempt[c]
           m == Result(a)
<1>1. /\ a \in Apply
      /\ Sound(a.snapshot.slice)
      /\ a.op = call[c].op
      /\ a.target = call[c].target
      /\ call[c].op = "allocate" => call[c].target = NameOf[c]
  BY AttemptType DEF Commit
<1>2. Write(a) /\ attempt' = [attempt EXCEPT ![c] = None]
  BY DEF Commit
<1> HIDE DEF a
<1>3. /\ db'.slice = m
      /\ m \in Object
      /\ Sound(m)
      /\ Existing(m) = m.status.allocation
      /\ DOMAIN Existing(m) = ReqNames(Merged(a))
  BY <1>1, <1>2, WriteIs
<1>4. call[c].op = "allocate" => NameOf[c] \in DOMAIN Existing(m)
  BY <1>1, <1>3, MergedIs
<1>5. call[c].op = "allocate" => Existing(m)[NameOf[c]] \in Offsets
  BY <1>3, <1>4, SoundIs
<1>6. QED
  BY <1>1, <1>2, <1>3, <1>4, <1>5 DEF Commit, a

LEMMA CommitKeeps ==
    ASSUME IInv, NEW c \in Clients, Commit(c)
    PROVE  IInv'
<1>1. /\ attempt[c] \in Apply /\ Sound(attempt[c].snapshot.slice)
      /\ Write(attempt[c])
      /\ attempt' = [attempt EXCEPT ![c] = None]
  BY CommitIs
<1>2. db' \in Stored /\ Sound(db'.slice)
  BY <1>1, WriteKeeps
<1>3. /\ \A d \in Clients \ {c} : call'[d] = call[d]
      /\ call'[c] = None
      /\ call' \in [Clients -> Call \cup {None}]
      /\ caller' \in [Clients -> [status : {"idle", "holding", "unsure"},
                                  addr : Offsets \cup {None}, outcome : Outcome \cup {None}]]
  <2>1. "ok" \in Outcome
    BY DEF Outcome
  <2>2. QED
    BY <2>1, CommitIs, FinishType
<1>4. QED
  BY <1>1, <1>2, <1>3, EndKeeps DEF Commit

LEMMA CommitUnansweredKeeps ==
    ASSUME IInv, NEW c \in Clients, CommitUnanswered(c)
    PROVE  IInv'
<1>1. attempt[c] \in Apply /\ Sound(attempt[c].snapshot.slice)
  BY AttemptType DEF CommitUnanswered
<1>2. db' \in Stored /\ Sound(db'.slice)
  BY <1>1, WriteKeeps DEF CommitUnanswered
<1>3. QED
  BY <1>2, NoAnswerType, EndKeeps DEF CommitUnanswered, NoAnswer

LEMMA RefuseIs ==
    ASSUME IInv, NEW c \in Clients, Refuse(c)
    PROVE  /\ \A d \in Clients \ {c} : call'[d] = call[d] /\ caller'[d] = caller[d]
           /\ call'[c] = None
           /\ caller'[c] = [status |-> caller[c].status, addr |-> caller[c].addr,
                            outcome |-> Refusal(attempt[c])]
           /\ call' \in [Clients -> Call \cup {None}]
           /\ caller' \in [Clients -> [status : {"idle", "holding", "unsure"},
                                       addr : Offsets \cup {None}, outcome : Outcome \cup {None}]]
<1>1. Refusal(attempt[c]) \in Outcome
  BY RefusalType DEF Outcome
<1>2. caller[c].status \in {"idle", "holding", "unsure"} /\ caller[c].addr \in Offsets \cup {None}
  BY DEF IInv, TypeOK
<1>3. QED
  BY <1>1, <1>2, FinishType DEF Refuse

LEMMA RefuseKeeps ==
    ASSUME IInv, NEW c \in Clients, Refuse(c)
    PROVE  IInv'
<1>1. db' \in Stored /\ Sound(db'.slice)
  BY DEF Refuse, IInv, TypeOK, SnapshotsSound
<1>2. QED
  BY <1>1, RefuseIs, EndKeeps DEF Refuse

LEMMA TimeoutKeeps ==
    ASSUME IInv, NEW c \in Clients, Timeout(c)
    PROVE  IInv'
<1>1. db' \in Stored /\ Sound(db'.slice)
  BY DEF Timeout, IInv, TypeOK, SnapshotsSound
<1>2. late' \subseteq late \cup {attempt[c]}
  BY DEF Timeout
<1>3. QED
  BY <1>1, <1>2, NoAnswerType, EndKeeps DEF Timeout, NoAnswer

LEMMA LateKeeps ==
    ASSUME IInv, NEW a \in late, LateReadAgain(a) \/ LateEnd(a)
    PROVE  IInv'
<1>1. a \in Apply /\ Sound(a.snapshot.slice)
  BY DEF IInv, TypeOK, SnapshotsSound
<1> DEFINE b == [a EXCEPT !.snapshot = db, !.fresh = TRUE]
<1>2. b \in Apply /\ Sound(b.snapshot.slice)
  BY <1>1 DEF IInv, TypeOK, SnapshotsSound, Apply
<1> HIDE DEF b
<1>3. db' \in Stored /\ Sound(db'.slice)
  <2>1. CASE Write(a)
    BY <1>1, <2>1, WriteKeeps
  <2>2. CASE UNCHANGED db
    BY <2>2 DEF IInv, TypeOK, SnapshotsSound
  <2>3. QED
    BY <2>1, <2>2 DEF LateReadAgain, LateEnd
<1>4. late' \subseteq late \cup {b} /\ UNCHANGED <<cache, call, attempt, caller>> /\ Observe
  BY DEF LateReadAgain, LateEnd, b
<1>5. TypeOK'
  BY <1>2, <1>3, <1>4, ObserveType DEF IInv, TypeOK
<1>6. SnapshotsSound'
  BY <1>2, <1>3, <1>4 DEF IInv, SnapshotsSound
<1>7. Agrees'
  BY <1>4 DEF IInv, Agrees
<1>8. QED
  BY <1>5, <1>6, <1>7 DEF IInv

LEMMA NextKeeps ==
    ASSUME IInv, [Next]_vars
    PROVE  IInv'
<1>1. ASSUME NEW c \in Clients, ClientNext(c)
      PROVE  IInv'
  <2>1. CASE AllocateSlice(c) \/ Release(c) \/ ReleaseAddress(c)
    BY <2>1, BeginKeeps DEF AllocateSlice, Release, ReleaseAddress, Op
  <2>2. QED
    BY <1>1, <2>1, LookupKeeps, SendKeeps, ReadAgainKeeps, CommitKeeps, CommitUnansweredKeeps,
       RefuseKeeps, TimeoutKeeps DEF ClientNext
<1>2. CASE UNCHANGED vars
  BY <1>2 DEF vars, IInv, TypeOK, SnapshotsSound, Agrees
<1>3. QED
  BY <1>1, <1>2, LateKeeps, CatchUpKeeps DEF Next

LEMMA InitHolds ==
    ASSUME Init
    PROVE  IInv
<1>1. TypeOK
  BY DEF Init, TypeOK, Nothing, Stored
<1>2. SnapshotsSound /\ Agrees
  BY DEF Init, SnapshotsSound, Agrees, Nothing, Sound
<1>3. QED
  BY <1>1, <1>2 DEF IInv

THEOREM Invariance == Spec => []IInv
  BY InitHolds, NextKeeps, PTL DEF Spec

\* Whatever is retried, lost or late, every apply has the fields of a request, every
\* answer an offset of the slice, and only objects of the schema are stored.
THEOREM TypeCorrect == Spec => []TypeOK
<1>1. IInv => TypeOK
  BY DEF IInv
<1>2. QED
  BY <1>1, Invariance, PTL

(***************************************************************************)
(* The callers make only writes that the life of the slice allows.         *)
(***************************************************************************)

\* Block instantiates the operators of Admission that this module has too.
LEMMA SameCardinality ==
    ASSUME NEW S
    PROVE  Block!Cardinality(S) = Cardinality(S)
  BY DEF Block!Cardinality, Cardinality

LEMMA SameProposal == Block!Proposal = Proposal
  BY DEF Block!Proposal, Proposal, Block!ListMap, ListMap, Block!Request, Request

LEMMA SameRules ==
    ASSUME NEW old, NEW m
    PROVE  Block!Admitted(old, m) <=> Admitted(old, m)
<1>1. Block!CRDValid(old, m) <=> CRDValid(old, m)
  BY SameCardinality
     DEF Block!CRDValid, CRDValid, Block!RequestsWithinCap, RequestsWithinCap,
         Block!WindowWellFormed, WindowWellFormed, Block!AllRequestsCounted, AllRequestsCounted,
         Block!NoOrphanCounted, NoOrphanCounted, Block!NodesMatchLock, NodesMatchLock,
         Block!FieldsImmutable, FieldsImmutable, Block!Unchanged, Unchanged,
         Block!Offsets, Offsets
<1>2. Block!VAPValid(old, m) <=> VAPValid(old, m)
  BY SameCardinality
     DEF Block!VAPValid, VAPValid, Block!NoDuplicateOffset, NoDuplicateOffset,
         Block!OffsetsFixed, OffsetsFixed, Block!AllocatedInWindow, AllocatedInWindow,
         Block!EveryRequestAllocated, EveryRequestAllocated,
         Block!AtMostOneRemoved, AtMostOneRemoved, Block!LockKept, LockKept,
         Block!NamesMatchDevices, NamesMatchDevices, Block!Existing, Existing
<1>3. QED
  BY <1>1, <1>2 DEF Block!Admitted, Admitted

LEMMA SameOutcomes ==
    ASSUME NEW old, NEW new
    PROVE  Block!Outcomes(old, new) = Outcomes(old, new)
<1>1. /\ Block!Existing(old) = Existing(old)
      /\ Block!RawOldBitmap(old) = RawOldBitmap(old)
      /\ Block!ReqNames(new) = ReqNames(new)
      /\ Block!Offsets = Offsets
  BY DEF Block!Existing, Existing, Block!RawOldBitmap, RawOldBitmap, Block!ReqNames, ReqNames,
         Block!Offsets, Offsets
<1>2. Block!Kept(old, new) = Kept(old, new)
  BY <1>1 DEF Block!Kept, Kept
<1>3. Block!Pending(old, new) = Pending(old, new) /\ Block!Removed(old, new) = Removed(old, new)
  BY <1>1, <1>2, SameCardinality DEF Block!Pending, Pending, Block!Removed, Removed
<1>4. \A S : Block!First(S) = First(S)
  BY DEF Block!First, First
<1>5. \A gone : Block!ClearedBitmap(old, gone) = ClearedBitmap(old, gone)
  BY <1>1 DEF Block!ClearedBitmap, ClearedBitmap
<1>6. \A first, bitmap : Block!Granted(new, first, bitmap) = Granted(new, first, bitmap)
  BY <1>1 DEF Block!Granted, Granted, Block!Pick, Pick, Block!Wlo, Wlo, Block!Whi, Whi
<1>7. Block!LockAfter(new) = LockAfter(new)
  BY <1>1 DEF Block!LockAfter, LockAfter
<1>8. \A first, gone : Block!Mutate(old, new, first, gone) = Mutate(old, new, first, gone)
  BY <1>2, <1>5, <1>6, <1>7 DEF Block!Mutate, Mutate
<1>9. QED
  BY <1>3, <1>4, <1>8 DEF Block!Outcomes, Outcomes

LEMMA WriteIsStore ==
    ASSUME NEW a \in Apply, Sound(a.snapshot.slice), Write(a)
    PROVE  Block!Next
<1>1. /\ Admitted(db.slice, Result(a))
      /\ Result(a) \in Outcomes(db.slice, Merged(a))
      /\ db'.slice = Result(a)
      /\ Merged(a) \in Proposal
  BY WriteIs, MergedIs
<1>2. Block!Store(Merged(a))
  BY <1>1, SameOutcomes, SameRules DEF Block!Store, Slice
<1>3. Merged(a) \in Block!Proposal
  BY <1>1, SameProposal
<1>4. Block!Create(Merged(a)) \/ Block!Update(Merged(a))
  BY <1>2 DEF Block!Create, Block!Update
<1>5. QED
  BY <1>3, <1>4 DEF Block!Next

\* Every apply that takes effect, retried, unanswered or late, is one admitted write
\* of the slice, and nothing else changes it: all that is proved of IPSlice holds here.
THEOREM Implementation == Spec => ImplementsSlice
<1>1. Init => Block!Init
  BY DEF Init, Nothing, Block!Init, Slice
<1>2. IInv /\ [Next]_vars => [Block!Next]_Slice
  <2> SUFFICES ASSUME IInv, [Next]_vars
               PROVE  Block!Next \/ UNCHANGED Slice
    OBVIOUS
  <2>1. ASSUME NEW c \in Clients, Commit(c) \/ CommitUnanswered(c)
        PROVE  Block!Next
    BY <2>1, AttemptType, WriteIsStore DEF Commit, CommitUnanswered
  <2>2. ASSUME NEW a \in late, LateEnd(a)
        PROVE  Block!Next \/ UNCHANGED db
    BY <2>2, WriteIsStore DEF LateEnd, IInv, TypeOK, SnapshotsSound
  <2>3. ASSUME NEW c \in Clients, ClientNext(c), ~(Commit(c) \/ CommitUnanswered(c))
        PROVE  UNCHANGED db
    BY <2>3 DEF ClientNext, AllocateSlice, Release, ReleaseAddress, Begin, Lookup, Send, ReadAgain,
                Refuse, Timeout
  <2>4. ASSUME CatchUp \/ UNCHANGED vars \/ (\E a \in late : LateReadAgain(a))
        PROVE  UNCHANGED db
    BY <2>4 DEF CatchUp, vars, LateReadAgain
  <2>5. Block!Next \/ UNCHANGED db
    BY <2>1, <2>2, <2>3, <2>4 DEF Next
  <2>6. QED
    BY <2>5 DEF Slice
<1>3. QED
  BY <1>1, <1>2, Invariance, PTL DEF Spec, ImplementsSlice, Block!Spec

(***************************************************************************)
(* What a caller is told.  Here no two callers use one name, and an apply  *)
(* that timed out is not written later.                                    *)
(***************************************************************************)

Separate ==
    /\ \A c, d \in Clients : NameOf[c] = NameOf[d] => c = d
    /\ MaxLate = 0

\* A caller's request is what it asks for, on the node that it locks, and only
\* callers that lock own the lock.
Placed(d) ==
    \A c \in Clients :
        /\ NameOf[c] \in DOMAIN Wanted(d.slice) =>
               /\ Wanted(d.slice)[NameOf[c]] = Entry[c]
               /\ Lock[c] # None => d.slice.node = Lock[c]
        /\ NameOf[c] \in d.owners => Lock[c] # None

AllPlaced ==
    /\ Placed(db) /\ Placed(cache)
    /\ \A c \in Clients : attempt[c] # None => Placed(attempt[c].snapshot)

HeldBy(c) == /\ NameOf[c] \in DOMAIN Holding(db)
             /\ Holding(db)[NameOf[c]] = caller[c].addr

\* A release of c has been written: no retry of it can be refused.
GoneIn(c, d) == /\ d.slice # Absent
                /\ NameOf[c] \notin DOMAIN Wanted(d.slice)
                /\ NameOf[c] \notin d.owners

Own(c) ==
    call[c] # None =>
        /\ call[c].target = NameOf[c]
        /\ call[c].op = "lookup" => caller[c].status = "holding"

Holds(c) ==
    caller[c].status = "holding" /\ (call[c] # None => call[c].op # "release") => HeldBy(c)

\* What a release may be refused on still has the address.
Releasing(c) ==
    caller[c].status = "holding" /\ call[c] # None /\ call[c].op = "release" =>
        /\ HeldBy(c) \/ GoneIn(c, db)
        /\ attempt[c] # None /\ attempt[c].fresh =>
               HeldBy(c) \/ GoneIn(c, attempt[c].snapshot)

\* What an allocation may be refused on does not hide an attempt that was written.
Idle(c) ==
    caller[c].status = "idle" =>
        /\ (call[c] # None => call[c].op # "allocate") => NameOf[c] \notin DOMAIN Holding(db)
        /\ call[c] # None /\ call[c].op = "allocate" /\ attempt[c] # None /\ attempt[c].fresh =>
               \/ NameOf[c] \notin DOMAIN Holding(db)
               \/ NameOf[c] \in DOMAIN Wanted(attempt[c].snapshot.slice)

Seen(c) ==
    attempt[c] # None /\ attempt[c].fresh =>
        /\ NoRoomFor(c, attempt[c].snapshot) => "full" \in truths[c]
        /\ OtherNodesSlice(c, attempt[c].snapshot) => "mismatch" \in truths[c]

ToldTruth(c) ==
    call[c] = None /\ caller[c].outcome \in {"full", "mismatch"} => caller[c].outcome \in truths[c]

Fine(c) == Own(c) /\ Holds(c) /\ Releasing(c) /\ Idle(c) /\ Seen(c) /\ ToldTruth(c)

Sole == late = {} /\ AllPlaced /\ \A c \in Clients : Fine(c)

\* A retry of what was already written asks for what is stored, and passes.
LEMMA RetryPasses ==
    ASSUME NEW a \in Apply, Sound(a.snapshot.slice), Placed(a.snapshot), NEW c \in Clients,
           a.client = c, a.target = NameOf[c],
           \/ a.op = "release" /\ GoneIn(c, a.snapshot)
           \/ a.op = "allocate" /\ NameOf[c] \in DOMAIN Wanted(a.snapshot.slice)
    PROVE  Passes(a)
<1> DEFINE old == a.snapshot.slice
           new == Merged(a)
<1>1. old # Absent
  BY DEF GoneIn, Wanted
<1>2. /\ old \in Object \cup {Absent}
      /\ new \in Submitted
      /\ new.node = MergedNode(a)
      /\ DOMAIN new.request
           = (DOMAIN Wanted(old) \ {a.target}) \cup (IF a.op = "allocate" THEN {a.target} ELSE {})
      /\ \A n \in DOMAIN Wanted(old) \ {a.target} : new.request[n] = Wanted(old)[n]
      /\ a.op = "allocate" => new.request[a.target] = Entry[a.client]
  BY MergedIs DEF ReqNames
<1>3. Wanted(old) = old.request /\ LiveNode(a.snapshot) = old.node
  BY <1>1 DEF Wanted, LiveNode
<1>4. new.request = old.request
  <2>1. DOMAIN new.request = DOMAIN old.request
    BY <1>2, <1>3 DEF GoneIn
  <2>2. \A n \in DOMAIN new.request : new.request[n] = old.request[n]
    <3>1. a.op = "allocate" => Wanted(old)[NameOf[c]] = Entry[c]
      BY DEF Placed, GoneIn
    <3>2. QED
      BY <1>2, <1>3, <2>1, <3>1
  <2>3. old.request \in ListMap(Names, Request) /\ new.request \in ListMap(Names, Request)
    BY <1>1, <1>2 DEF Object, Submitted
  <2>4. QED
    BY <2>1, <2>2, <2>3, ListMapType
<1>5. new.node = old.node
  BY <1>2, <1>3 DEF MergedNode, Placed, GoneIn
<1>6. Admitted(old, Result(a))
  BY <1>1, <1>2, <1>4, <1>5, OneOutcome, RewriteIs
<1>7. QED
  BY <1>6, OneOutcome

\* What a write of c does to the others, and to c.
LEMMA WriteEffect ==
    ASSUME Separate, NEW a \in Apply, Sound(a.snapshot.slice), db \in Stored, Sound(db.slice),
           Placed(db), Write(a),
           NEW c \in Clients, a.client = c, a.target = NameOf[c]
    PROVE  /\ Placed(db')
           /\ \A d \in Clients \ {c} :
                 /\ NameOf[d] \in DOMAIN Holding(db') <=> NameOf[d] \in DOMAIN Holding(db)
                 /\ NameOf[d] \in DOMAIN Holding(db) =>
                        Holding(db')[NameOf[d]] = Holding(db)[NameOf[d]]
                 /\ GoneIn(d, db) => GoneIn(d, db')
           /\ a.op = "release" => GoneIn(c, db') /\ NameOf[c] \notin DOMAIN Holding(db')
           /\ a.op = "allocate" =>
                 /\ NameOf[c] \in DOMAIN Holding(db')
                 /\ NameOf[c] \in DOMAIN Holding(db) =>
                        Holding(db')[NameOf[c]] = Holding(db)[NameOf[c]]
<1> DEFINE m == Result(a)
           new == Merged(a)
<1>1. /\ a.snapshot = db
      /\ db'.slice = m
      /\ db'.owners = MergedOwners(a)
      /\ Admitted(db.slice, m)
      /\ m \in Outcomes(db.slice, new)
      /\ m # Absent
      /\ DOMAIN Existing(m) = ReqNames(new)
      /\ Wanted(m) = new.request
      /\ \A n \in DOMAIN Existing(db.slice) \cap ReqNames(new) : Existing(m)[n] = Existing(db.slice)[n]
  BY WriteIs
<1>2. /\ new \in Submitted
      /\ db.slice \in Object \cup {Absent}
      /\ new.node = MergedNode(a)
      /\ ReqNames(new) = (DOMAIN Wanted(db.slice) \ {NameOf[c]})
                           \cup (IF a.op = "allocate" THEN {NameOf[c]} ELSE {})
      /\ \A n \in DOMAIN Wanted(db.slice) \ {NameOf[c]} : new.request[n] = Wanted(db.slice)[n]
      /\ a.op = "allocate" => new.request[NameOf[c]] = Entry[c]
  BY <1>1, MergedIs
<1>3. a.op \in {"allocate", "release"}
  BY DEF Apply, Op
<1>4. DOMAIN Existing(db.slice) = DOMAIN Wanted(db.slice)
  BY <1>2, SoundIs
<1>5. m.node = LockAfter(new) /\ m.request = new.request
  BY <1>1, <1>2, OutcomeType
<1> HIDE DEF m, new
<1>6. \A d \in Clients \ {c} : NameOf[d] # NameOf[c]
  BY DEF Separate
<1>7. ASSUME NEW d \in Clients \ {c}
      PROVE  /\ NameOf[d] \in DOMAIN Holding(db') <=> NameOf[d] \in DOMAIN Holding(db)
             /\ NameOf[d] \in DOMAIN Holding(db) =>
                    Holding(db')[NameOf[d]] = Holding(db)[NameOf[d]]
             /\ NameOf[d] \in db'.owners => NameOf[d] \in db.owners
             /\ GoneIn(d, db) => GoneIn(d, db')
  <2>1. NameOf[d] \in DOMAIN Wanted(m) <=> NameOf[d] \in DOMAIN Wanted(db.slice)
    BY <1>1, <1>2, <1>6 DEF ReqNames
  <2>2. NameOf[d] \in db'.owners => NameOf[d] \in db.owners
    BY <1>1, <1>6 DEF MergedOwners
  <2>3. QED
    BY <1>1, <1>2, <1>4, <1>6, <2>1, <2>2 DEF Holding, GoneIn, ReqNames
<1>8. a.op = "release" => GoneIn(c, db') /\ NameOf[c] \notin DOMAIN Holding(db')
  BY <1>1, <1>2 DEF GoneIn, Holding, MergedOwners, ReqNames
<1>9. a.op = "allocate" =>
         /\ NameOf[c] \in DOMAIN Holding(db')
         /\ NameOf[c] \in DOMAIN Holding(db) =>
                Holding(db')[NameOf[c]] = Holding(db)[NameOf[c]]
  BY <1>1, <1>2 DEF Holding
<1>10. Placed(db')
  <2> SUFFICES ASSUME NEW d \in Clients
               PROVE  /\ NameOf[d] \in DOMAIN Wanted(m) =>
                             /\ Wanted(m)[NameOf[d]] = Entry[d]
                             /\ Lock[d] # None => m.node = Lock[d]
                      /\ NameOf[d] \in db'.owners => Lock[d] # None
    BY <1>1 DEF Placed
  <2>1. CASE d = c
    <3>1. NameOf[c] \in DOMAIN Wanted(m) => a.op = "allocate" /\ Wanted(m)[NameOf[c]] = Entry[c]
      BY <1>1, <1>2 DEF ReqNames
    <3>2. a.op = "allocate" /\ Lock[c] # None => m.node = Lock[c]
      BY <1>2, <1>5 DEF MergedNode, LockAfter
    <3>3. NameOf[c] \in db'.owners => Lock[c] # None
      BY <1>1 DEF MergedOwners
    <3>4. QED
      BY <2>1, <3>1, <3>2, <3>3
  <2>2. CASE d # c
    <3>1. NameOf[d] \in DOMAIN Wanted(m) => NameOf[d] \in DOMAIN Wanted(db.slice)
      BY <1>1, <1>2, <1>6, <2>2 DEF ReqNames
    <3>2. NameOf[d] \in DOMAIN Wanted(m) => Wanted(m)[NameOf[d]] = Entry[d]
      BY <1>1, <1>2, <1>6, <2>2, <3>1 DEF Placed
    <3>3. NameOf[d] \in DOMAIN Wanted(m) /\ Lock[d] # None => m.node = Lock[d]
      <4>1. SUFFICES ASSUME NameOf[d] \in DOMAIN Wanted(m), Lock[d] # None
                     PROVE  m.node = Lock[d]
        OBVIOUS
      <4>2. db.slice # Absent /\ db.slice.node = Lock[d]
        BY <3>1, <4>1 DEF Placed, Wanted
      <4>3. DOMAIN m.request # {}
        BY <1>1, <1>5, <4>1
      <4>4. QED
        BY <1>1, <4>1, <4>2, <4>3 DEF Admitted, VAPValid, LockKept
    <3>4. QED
      BY <1>7, <2>2, <3>2, <3>3 DEF Placed
  <2>3. QED
    BY <2>1, <2>2
<1>11. QED
  BY <1>7, <1>8, <1>9, <1>10

\* A rejection that the caller reads as full, or as another node's, was one of the
\* snapshot that the policies judged.
LEMMA RefusalMeans ==
    ASSUME NEW a \in Apply, Sound(a.snapshot.slice), Placed(a.snapshot), NEW c \in Clients,
           a.client = c, a.target = NameOf[c], ~Passes(a)
    PROVE  /\ Refusal(a) = "full" => NoRoomFor(c, a.snapshot)
           /\ Refusal(a) = "mismatch" => OtherNodesSlice(c, a.snapshot)
<1> DEFINE old == a.snapshot.slice
           new == Merged(a)
           m   == Result(a)
<1>1. CASE a.op # "allocate"
  <2>1. Refusal(a) = "invalid"
    BY <1>1 DEF Refusal, Apply, Op
  <2>2. QED
    BY <2>1
<1>2. CASE a.op = "allocate"
  <2>1. NameOf[c] \notin DOMAIN Wanted(old)
    BY <1>2, RetryPasses
  <2>2. /\ old \in Object \cup {Absent}
        /\ new \in Submitted
        /\ new.node = MergedNode(a)
        /\ ReqNames(new) = DOMAIN Wanted(old) \cup {NameOf[c]}
        /\ \A n \in DOMAIN Wanted(old) : new.request[n] = Wanted(old)[n]
        /\ new.request[NameOf[c]] = Entry[c]
    BY <1>2, <2>1, MergedIs
  <2>3. /\ DOMAIN Existing(old) = DOMAIN Wanted(old)
        /\ IsFiniteSet(DOMAIN Existing(old))
        /\ m \in Outcomes(old, new)
        /\ Entry[c] \in Request
    BY <2>2, SoundIs, OneOutcome, CallersAssumption
  <2>4. m.request = new.request /\ m.node = new.node /\ m \in Object /\ m.status \in Status
    BY <2>2, <2>3, OutcomeType DEF LockAfter
  <2> HIDE DEF old, new, m
  <2>5. DOMAIN m.status.allocation # DOMAIN m.request
           => Granted(new, NameOf[c], OffsetsOf(old)) = {}
    <3>1. DOMAIN Existing(old) \ ReqNames(new) = {}
      BY <2>2, <2>3
    <3>2. Cardinality(DOMAIN Existing(old) \ ReqNames(new)) <= 1
      BY <3>1, FS_EmptySet
    <3>3. PICK first, granted :
              first \in First(ReqNames(new) \ DOMAIN Existing(old)) /\ Made(old, new, m, first, granted)
      BY <2>2, <2>3, <3>2, OutcomeIs DEF old
    <3>4. first = NameOf[c]
      BY <2>1, <2>2, <2>3, <3>3 DEF First
    <3>5. DOMAIN Existing(old) \cap ReqNames(new) = DOMAIN Existing(old)
      BY <2>2, <2>3
    <3>6. granted = Granted(new, NameOf[c], OffsetsOf(old))
      BY <3>3, <3>4, <3>5 DEF Made, OffsetsOf
    <3>7. granted # {} => DOMAIN m.status.allocation = DOMAIN m.request
      BY <2>2, <2>3, <2>4, <3>3, <3>4, <3>5 DEF Made, ReqNames
    <3>8. QED
      BY <3>6, <3>7
  <2>6. ASSUME Refusal(a) = "full"
        PROVE  NoRoomFor(c, a.snapshot)
    <3>1. ~RequestsWithinCap(m) \/ ~AllRequestsCounted(m)
      BY <1>2, <2>6 DEF Refusal, m
    <3>2. ASSUME NEW o \in Offsets \ OffsetsOf(old), Wlo(Entry[c]) <= o, o <= Whi(Entry[c])
          PROVE  FALSE
      <4>1. RequestsWithinCap(m)
        <5>1. /\ Cardinality(DOMAIN Existing(old)) \in Nat
              /\ Cardinality(DOMAIN Existing(old)) + 1 <= Hosts
          BY <2>2, RoomInList DEF old
        <5>2. Cardinality(DOMAIN m.request) = Cardinality(DOMAIN Existing(old)) + 1
          BY <2>1, <2>2, <2>3, <2>4, FS_AddElement DEF ReqNames
        <5>3. QED
          BY <5>1, <5>2 DEF RequestsWithinCap
      <4>2. DOMAIN m.status.allocation # DOMAIN m.request
        BY <3>1, <4>1 DEF AllRequestsCounted
      <4>3. Granted(new, NameOf[c], OffsetsOf(old)) # {}
        BY <2>2, <3>2, GrantedIfRoom
      <4>4. QED
        BY <2>5, <4>2, <4>3
    <3>3. QED
      BY <2>1, <2>3, <3>2 DEF NoRoomFor, Holding, OffsetsOf, old
  <2>7. ASSUME Refusal(a) = "mismatch"
        PROVE  OtherNodesSlice(c, a.snapshot)
    <3>1. ~NodesMatchLock(m) \/ ~LockKept(old, m)
      BY <1>2, <2>7 DEF Refusal, m, old
    <3>2. m.node = IF Lock[c] # None THEN Lock[c] ELSE LiveNode(a.snapshot)
      BY <1>2, <2>2, <2>4 DEF MergedNode, Placed
    <3>3. /\ LiveNode(a.snapshot) # None =>
                 /\ old # Absent
                 /\ old.node = LiveNode(a.snapshot)
                 /\ DOMAIN Wanted(old) # {}
                 /\ \A n \in DOMAIN Wanted(old) : Wanted(old)[n].node = LiveNode(a.snapshot)
      BY DEF Sound, WellFormed, NodesMatchLock, LiveNode, Wanted, old
    <3>4. OtherNodesSlice(c, a.snapshot)
             <=> \E n \in DOMAIN Wanted(old) :
                     \/ LiveNode(a.snapshot) \notin {None, Entry[c].node}
                     \/ Lock[c] # None /\ Wanted(old)[n].node # Lock[c]
      BY <2>1, LiveIs DEF OtherNodesSlice, old
    <3>5. CASE ~NodesMatchLock(m)
      <4>1. PICK n \in DOMAIN m.request : m.node # None /\ m.request[n].node # m.node
        BY <3>5 DEF NodesMatchLock
      <4>2. Lock[c] # None => Entry[c].node = Lock[c]
        BY CallersAssumption
      <4>3. n = NameOf[c] \/ (n \in DOMAIN Wanted(old) /\ m.request[n] = Wanted(old)[n])
        BY <2>2, <2>4 DEF ReqNames
      <4>4. QED
        BY <2>2, <2>4, <3>2, <3>3, <3>4, <4>1, <4>2, <4>3
    <3>6. CASE ~LockKept(old, m)
      <4>1. old # Absent /\ old.node # None /\ m.node # old.node
        BY <3>6 DEF LockKept
      <4>2. LiveNode(a.snapshot) = old.node
        BY <4>1 DEF LiveNode, old
      <4>3. QED
        BY <3>2, <3>3, <3>4, <4>1, <4>2
    <3>7. QED
      BY <3>1, <3>5, <3>6
  <2>8. QED
    BY <2>6, <2>7
<1>3. QED
  BY <1>1, <1>2

LEMMA ObserveIs ==
    ASSUME Observe, NEW c \in Clients
    PROVE  /\ call'[c] = None => truths'[c] = truths[c]
           /\ call[c] # None => truths[c] \subseteq truths'[c]
           /\ call'[c] # None /\ NoRoomFor(c, db') => "full" \in truths'[c]
           /\ call'[c] # None /\ OtherNodesSlice(c, db') => "mismatch" \in truths'[c]
<1>1. truths'[c] = IF call'[c] = None THEN truths[c]
                   ELSE (IF call[c] = None THEN {} ELSE truths[c])
                           \cup (IF NoRoomFor(c, db') THEN {"full"} ELSE {})
                           \cup (IF OtherNodesSlice(c, db') THEN {"mismatch"} ELSE {})
  BY DEF Observe
<1>2. QED
  BY <1>1

\* A step leaves the address of d, or the release of d, as it was.
Untouched(d) ==
    /\ NameOf[d] \in DOMAIN Holding(db') <=> NameOf[d] \in DOMAIN Holding(db)
    /\ NameOf[d] \in DOMAIN Holding(db) => Holding(db')[NameOf[d]] = Holding(db)[NameOf[d]]
    /\ GoneIn(d, db) => GoneIn(d, db')

LEMMA OtherKeeps ==
    ASSUME IInv, NEW d \in Clients, Fine(d), Observe, Untouched(d),
           call'[d] = call[d], attempt'[d] = attempt[d], caller'[d] = caller[d]
    PROVE  Fine(d)'
<1>1. Own(d)' /\ Holds(d)'
  BY DEF Fine, Own, Holds, HeldBy, Untouched
<1>2. Releasing(d)'
  BY DEF Fine, Releasing, HeldBy, Untouched
<1>3. Idle(d)'
  BY DEF Fine, Idle, Untouched
<1>4. Seen(d)'
  <2>1. attempt[d] # None => call[d] # None
    BY DEF IInv, Agrees
  <2>2. attempt[d] # None => truths[d] \subseteq truths'[d]
    BY <2>1, ObserveIs
  <2>3. QED
    BY <2>2 DEF Fine, Seen
<1>5. ToldTruth(d)'
  BY ObserveIs DEF Fine, ToldTruth
<1>6. QED
  BY <1>1, <1>2, <1>3, <1>4, <1>5 DEF Fine

LEMMA SameObject ==
    ASSUME UNCHANGED db, NEW d \in Clients
    PROVE  Untouched(d)
  BY DEF Untouched

LEMMA BeginTells ==
    ASSUME IInv, Sole, NEW c \in Clients, NEW op \in Op \cup {"lookup"}, Begin(c, op),
           op = "lookup" => caller[c].status = "holding"
    PROVE  Sole'
<1>1. /\ call[c] = None /\ attempt[c] = None
      /\ UNCHANGED <<db, cache, attempt, late, caller>>
      /\ Observe
      /\ \A d \in Clients \ {c} : call'[d] = call[d]
      /\ call'[c].op = op /\ call'[c].target = NameOf[c]
  BY DEF Begin, IInv, TypeOK, Agrees
<1>2. Fine(c)'
  <2>1. Own(c)' /\ Holds(c)' /\ Releasing(c)'
    BY <1>1 DEF Sole, Fine, Own, Holds, Releasing, HeldBy
  <2>2. Idle(c)' /\ Seen(c)'
    BY <1>1 DEF Sole, Fine, Idle, Seen
  <2>3. ToldTruth(c)'
    BY <1>1, ObserveIs DEF Sole, Fine, ToldTruth
  <2>4. QED
    BY <2>1, <2>2, <2>3 DEF Fine
<1>3. \A d \in Clients \ {c} : Fine(d)'
  BY <1>1, OtherKeeps, SameObject DEF Sole
<1>4. AllPlaced' /\ late' = {}
  BY <1>1 DEF Sole, AllPlaced
<1>5. QED
  BY <1>2, <1>3, <1>4 DEF Sole

LEMMA LookupTells ==
    ASSUME IInv, Sole, NEW c \in Clients, Lookup(c)
    PROVE  Sole'
<1>1. /\ call[c] # None /\ call[c].op = "lookup"
      /\ UNCHANGED <<db, cache, attempt, late>>
      /\ Observe
      /\ attempt[c] = None
      /\ call[c] \in Call
  BY AttemptType DEF Lookup, Apply, Op, IInv, TypeOK
<1>2. caller[c].status = "holding" /\ HeldBy(c)
  BY <1>1 DEF Sole, Fine, Own, Holds
<1>3. \A n \in DOMAIN Holding(db) : Holding(db)[n] = caller[c].addr => n = NameOf[c]
  BY <1>2, SoundIs DEF HeldBy, Holding, IInv, TypeOK, Stored, SnapshotsSound
<1>4. ASSUME Fine(c)', \A d \in Clients \ {c} : call'[d] = call[d] /\ caller'[d] = caller[d]
      PROVE  Sole'
  <2>1. \A d \in Clients \ {c} : Fine(d)'
    BY <1>1, <1>4, OtherKeeps, SameObject DEF Sole
  <2>2. AllPlaced' /\ late' = {}
    BY <1>1 DEF Sole, AllPlaced
  <2>3. QED
    BY <1>4, <2>1, <2>2 DEF Sole
<1>5. CASE /\ call' = [call EXCEPT ![c].op = "release", ![c].target = NameOf[c]]
           /\ UNCHANGED caller
  <2>1. /\ call'[c] \in Call
        /\ call'[c].op = "release" /\ call'[c].target = NameOf[c]
        /\ \A d \in Clients \ {c} : call'[d] = call[d]
    BY <1>1, <1>5, CallersAssumption DEF IInv, TypeOK, Call, Op
  <2>2. HeldBy(c)'
    BY <1>1, <1>2, <1>5 DEF HeldBy
  <2>3. Own(c)' /\ Holds(c)' /\ Releasing(c)' /\ Idle(c)' /\ Seen(c)'
    BY <1>1, <1>2, <1>5, <2>1, <2>2 DEF Own, Holds, Releasing, Idle, Seen
  <2>4. ToldTruth(c)'
    BY <2>1, CallAssumption DEF ToldTruth
  <2>5. QED
    BY <1>4, <1>5, <2>1, <2>3, <2>4 DEF Fine
<1>6. CASE Finish(c, caller[c].status, caller[c].addr, "error")
  <2>1. /\ call'[c] = None
        /\ caller'[c].status = "holding"
        /\ caller'[c].addr = caller[c].addr
        /\ caller'[c].outcome = "error"
        /\ \A d \in Clients \ {c} : call'[d] = call[d] /\ caller'[d] = caller[d]
    BY <1>2, <1>6 DEF Finish, IInv, TypeOK
  <2>2. HeldBy(c)'
    BY <1>1, <1>2, <2>1 DEF HeldBy
  <2>3. Own(c)' /\ Holds(c)' /\ Releasing(c)' /\ Idle(c)' /\ Seen(c)' /\ ToldTruth(c)'
    BY <1>1, <2>1, <2>2 DEF Own, Holds, Releasing, Idle, Seen, ToldTruth
  <2>4. QED
    BY <1>4, <2>1, <2>3 DEF Fine
<1>7. QED
  BY <1>2, <1>3, <1>5, <1>6 DEF Lookup, HeldBy

\* A snapshot taken now shows what is stored now.
LEMMA FreshRead ==
    ASSUME IInv, Sole, NEW c \in Clients, Observe, UNCHANGED <<db, call, caller>>,
           call[c] # None, call[c].op \in Op,
           attempt'[c].fresh => attempt'[c].snapshot = db,
           call[c].op = "release" /\ caller[c].status = "holding" => HeldBy(c) \/ GoneIn(c, db)
    PROVE  Fine(c)'
<1>1. Own(c)' /\ Holds(c)' /\ ToldTruth(c)'
  BY DEF Sole, Fine, Own, Holds, HeldBy, ToldTruth
<1>2. Releasing(c)'
  BY DEF Releasing, HeldBy
<1>3. DOMAIN Holding(db) = DOMAIN Wanted(db.slice)
  BY SoundIs DEF IInv, TypeOK, Stored, SnapshotsSound, Holding
<1>4. Idle(c)'
  BY <1>3 DEF Sole, Fine, Idle
<1>5. Seen(c)'
  BY ObserveIs DEF Seen
<1>6. QED
  BY <1>1, <1>2, <1>4, <1>5 DEF Fine

LEMMA SendTells ==
    ASSUME IInv, Sole, NEW c \in Clients, Send(c)
    PROVE  Sole'
<1>1. /\ call[c] # None /\ call[c].op \in Op
      /\ UNCHANGED <<db, cache, call, late, caller>>
      /\ Observe
      /\ \A d \in Clients \ {c} : attempt'[d] = attempt[d]
      /\ attempt'[c].snapshot = IF CacheLags THEN cache ELSE db
      /\ attempt'[c].fresh = ~CacheLags
  BY DEF Send, IInv, TypeOK
<1>2. attempt'[c].fresh => attempt'[c].snapshot = db
  BY <1>1
<1>3. call[c].op = "release" /\ caller[c].status = "holding" => HeldBy(c) \/ GoneIn(c, db)
  BY <1>1 DEF Sole, Fine, Releasing
<1>4. Fine(c)'
  BY <1>1, <1>2, <1>3, FreshRead
<1>5. \A d \in Clients \ {c} : Fine(d)'
  BY <1>1, OtherKeeps, SameObject DEF Sole
<1>6. AllPlaced' /\ late' = {}
  BY <1>1 DEF Sole, AllPlaced
<1>7. QED
  BY <1>4, <1>5, <1>6 DEF Sole

LEMMA ReadAgainTells ==
    ASSUME IInv, Sole, NEW c \in Clients, ReadAgain(c)
    PROVE  Sole'
<1>1. attempt[c] \in Apply /\ call[c] # None /\ call[c].op \in Op
  BY AttemptType DEF ReadAgain, IInv, Agrees, Apply
<1>2. /\ UNCHANGED <<db, cache, call, late, caller>>
      /\ Observe
      /\ \A d \in Clients \ {c} : attempt'[d] = attempt[d]
      /\ attempt'[c].snapshot = db
  BY <1>1 DEF ReadAgain, IInv, TypeOK, Apply
<1>3. call[c].op = "release" /\ caller[c].status = "holding" => HeldBy(c) \/ GoneIn(c, db)
  BY <1>1 DEF Sole, Fine, Releasing
<1>4. Fine(c)'
  BY <1>1, <1>2, <1>3, FreshRead
<1>5. \A d \in Clients \ {c} : Fine(d)'
  BY <1>2, OtherKeeps, SameObject DEF Sole
<1>6. AllPlaced' /\ late' = {}
  BY <1>2 DEF Sole, AllPlaced
<1>7. QED
  BY <1>4, <1>5, <1>6 DEF Sole

LEMMA CatchUpTells ==
    ASSUME IInv, Sole, CatchUp
    PROVE  Sole'
<1>1. cache' = db /\ UNCHANGED <<db, call, attempt, late, caller>> /\ Observe
  BY DEF CatchUp
<1>2. \A d \in Clients : Fine(d)'
  BY <1>1, OtherKeeps, SameObject DEF Sole
<1>3. AllPlaced' /\ late' = {}
  BY <1>1 DEF Sole, AllPlaced
<1>4. QED
  BY <1>2, <1>3 DEF Sole

\* The acting caller's apply, with what the invariants say of it.
LEMMA ActingIs ==
    ASSUME IInv, Sole, NEW c \in Clients, attempt[c] # None
    PROVE  /\ attempt[c] \in Apply
           /\ Sound(attempt[c].snapshot.slice)
           /\ Placed(attempt[c].snapshot)
           /\ attempt[c].client = c
           /\ attempt[c].target = NameOf[c]
           /\ attempt[c].op = call[c].op
           /\ call[c] # None
           /\ call[c].op \in {"allocate", "release"}
           /\ db \in Stored /\ Sound(db.slice) /\ Placed(db)
<1>1. call[c] # None
  BY DEF IInv, Agrees
<1>2. call[c].target = NameOf[c]
  BY <1>1 DEF Sole, Fine, Own
<1>3. Placed(attempt[c].snapshot) /\ Placed(db) /\ db \in Stored /\ Sound(db.slice)
  BY DEF Sole, AllPlaced, IInv, TypeOK, SnapshotsSound
<1>4. attempt[c].op \in {"allocate", "release"}
  BY AttemptType DEF Apply, Op
<1>5. QED
  BY <1>1, <1>2, <1>3, <1>4, AttemptType

LEMMA WriteTells ==
    ASSUME Separate, IInv, Sole, NEW c \in Clients, attempt[c] # None, Write(attempt[c]),
           Observe, UNCHANGED <<cache, late>>,
           attempt' = [attempt EXCEPT ![c] = None],
           \A d \in Clients \ {c} : call'[d] = call[d] /\ caller'[d] = caller[d]
    PROVE  /\ AllPlaced' /\ late' = {}
           /\ \A d \in Clients \ {c} : Fine(d)'
           /\ attempt'[c] = None
           /\ call[c].op = "release" => GoneIn(c, db') /\ NameOf[c] \notin DOMAIN Holding(db')
           /\ call[c].op = "allocate" =>
                 /\ NameOf[c] \in DOMAIN Holding(db')
                 /\ NameOf[c] \in DOMAIN Holding(db) =>
                        Holding(db')[NameOf[c]] = Holding(db)[NameOf[c]]
<1>1. /\ Placed(db')
      /\ \A d \in Clients \ {c} : Untouched(d)
      /\ call[c].op = "release" => GoneIn(c, db') /\ NameOf[c] \notin DOMAIN Holding(db')
      /\ call[c].op = "allocate" =>
            /\ NameOf[c] \in DOMAIN Holding(db')
            /\ NameOf[c] \in DOMAIN Holding(db) =>
                   Holding(db')[NameOf[c]] = Holding(db)[NameOf[c]]
  BY ActingIs, WriteEffect DEF Untouched
<1>2. /\ \A d \in Clients \ {c} : attempt'[d] = attempt[d]
      /\ attempt'[c] = None
  BY DEF IInv, TypeOK
<1>3. \A d \in Clients \ {c} : Fine(d)'
  BY <1>1, <1>2, OtherKeeps DEF Sole
<1>4. AllPlaced' /\ late' = {}
  BY <1>1, <1>2 DEF Sole, AllPlaced
<1>5. QED
  BY <1>1, <1>2, <1>3, <1>4

LEMMA CommitTells ==
    ASSUME Separate, IInv, Sole, NEW c \in Clients, Commit(c)
    PROVE  Sole'
<1>1. /\ attempt[c] # None /\ Write(attempt[c]) /\ Observe /\ UNCHANGED <<cache, late>>
      /\ attempt' = [attempt EXCEPT ![c] = None]
  BY DEF Commit
<1>2. CASE /\ call[c].op = "allocate"
           /\ Existing(db'.slice)[NameOf[c]] \in Offsets
           /\ NameOf[c] \in DOMAIN Existing(db'.slice)
           /\ Finish(c, "holding", Existing(db'.slice)[NameOf[c]], "ok")
  <2>1. /\ \A d \in Clients \ {c} : call'[d] = call[d] /\ caller'[d] = caller[d]
        /\ call'[c] = None
        /\ caller'[c] = [status |-> "holding", addr |-> Existing(db'.slice)[NameOf[c]],
                         outcome |-> "ok"]
    BY <1>2 DEF Finish, IInv, TypeOK
  <2>2. AllPlaced' /\ late' = {} /\ attempt'[c] = None /\ \A d \in Clients \ {c} : Fine(d)'
    BY <1>1, <2>1, WriteTells
  <2>3. Fine(c)'
    BY <1>2, <2>1, <2>2 DEF Fine, Own, Holds, Releasing, Idle, Seen, ToldTruth, HeldBy, Holding
  <2>4. QED
    BY <2>2, <2>3 DEF Sole
<1>3. CASE call[c].op # "allocate" /\ Finish(c, "idle", None, "ok")
  <2>1. /\ \A d \in Clients \ {c} : call'[d] = call[d] /\ caller'[d] = caller[d]
        /\ call'[c] = None
        /\ caller'[c] = [status |-> "idle", addr |-> None, outcome |-> "ok"]
    BY <1>3 DEF Finish, IInv, TypeOK
  <2>2. /\ AllPlaced' /\ late' = {} /\ attempt'[c] = None
        /\ \A d \in Clients \ {c} : Fine(d)'
        /\ call[c].op = "release" => NameOf[c] \notin DOMAIN Holding(db')
    BY <1>1, <2>1, WriteTells
  <2>3. call[c].op = "release"
    BY <1>1, <1>3, ActingIs
  <2>4. Fine(c)'
    BY <2>1, <2>2, <2>3 DEF Fine, Own, Holds, Releasing, Idle, Seen, ToldTruth
  <2>5. QED
    BY <2>2, <2>4 DEF Sole
<1>4. QED
  BY <1>2, <1>3, CommitIs

LEMMA CommitUnansweredTells ==
    ASSUME Separate, IInv, Sole, NEW c \in Clients, CommitUnanswered(c)
    PROVE  Sole'
<1>1. /\ attempt[c] # None /\ Write(attempt[c]) /\ Observe /\ UNCHANGED <<cache, late>>
      /\ attempt' = [attempt EXCEPT ![c] = None]
      /\ NoAnswer(c)
  BY DEF CommitUnanswered, NoAnswer
<1>2. /\ \A d \in Clients \ {c} : call'[d] = call[d] /\ caller'[d] = caller[d]
      /\ call'[c] # None => /\ call'[c].op = call[c].op
                            /\ call'[c].target = call[c].target
                            /\ caller'[c] = caller[c]
      /\ call'[c] = None => caller'[c].status = "unsure" /\ caller'[c].outcome = "timeout"
  BY <1>1, NoAnswerType
<1>3. /\ AllPlaced' /\ late' = {} /\ attempt'[c] = None
      /\ \A d \in Clients \ {c} : Fine(d)'
      /\ call[c].op = "release" => GoneIn(c, db') /\ NameOf[c] \notin DOMAIN Holding(db')
      /\ call[c].op = "allocate" =>
            /\ NameOf[c] \in DOMAIN Holding(db')
            /\ NameOf[c] \in DOMAIN Holding(db) =>
                   Holding(db')[NameOf[c]] = Holding(db)[NameOf[c]]
  BY <1>1, <1>2, WriteTells
<1>4. call[c] # None /\ call[c].op \in {"allocate", "release"} /\ Fine(c)
  BY <1>1, ActingIs DEF Sole
<1>5. Fine(c)'
  <2>1. Own(c)' /\ Seen(c)' /\ ToldTruth(c)'
    BY <1>2, <1>3, <1>4 DEF Fine, Own, Seen, ToldTruth
  <2>2. Holds(c)'
    BY <1>2, <1>3, <1>4 DEF Fine, Holds, HeldBy
  <2>3. Releasing(c)'
    BY <1>2, <1>3, <1>4 DEF Releasing
  <2>4. Idle(c)'
    BY <1>2, <1>3, <1>4 DEF Idle
  <2>5. QED
    BY <2>1, <2>2, <2>3, <2>4 DEF Fine
<1>6. QED
  BY <1>3, <1>5 DEF Sole

LEMMA RefuseTells ==
    ASSUME IInv, Sole, NEW c \in Clients, Refuse(c)
    PROVE  Sole'
<1>1. /\ attempt[c] # None
      /\ ~Passes(attempt[c])
      /\ attempt[c].fresh
      /\ UNCHANGED <<db, cache, late>>
      /\ Observe
      /\ attempt' = [attempt EXCEPT ![c] = None]
  BY DEF Refuse, MustReadAgain
<1>2. /\ \A d \in Clients \ {c} : call'[d] = call[d] /\ caller'[d] = caller[d]
      /\ call'[c] = None
      /\ caller'[c] = [status |-> caller[c].status, addr |-> caller[c].addr,
                       outcome |-> Refusal(attempt[c])]
  BY RefuseIs
<1>3. /\ \A d \in Clients \ {c} : attempt'[d] = attempt[d]
      /\ attempt'[c] = None
  BY <1>1 DEF IInv, TypeOK
<1>4. call[c] # None /\ call[c].op \in {"allocate", "release"} /\ Fine(c)
  BY <1>1, ActingIs DEF Sole
<1>5. /\ call[c].op = "release" => ~GoneIn(c, attempt[c].snapshot)
      /\ call[c].op = "allocate" => NameOf[c] \notin DOMAIN Wanted(attempt[c].snapshot.slice)
  BY <1>1, ActingIs, RetryPasses
<1>6. Fine(c)'
  <2>1. Own(c)' /\ Seen(c)' /\ Releasing(c)'
    BY <1>2, <1>3 DEF Own, Seen, Releasing
  <2>2. Holds(c)'
    BY <1>1, <1>2, <1>4, <1>5 DEF Fine, Holds, Releasing, HeldBy
  <2>3. Idle(c)'
    BY <1>1, <1>2, <1>4, <1>5 DEF Fine, Idle
  <2>4. ToldTruth(c)'
    <3>1. /\ Refusal(attempt[c]) = "full" => NoRoomFor(c, attempt[c].snapshot)
          /\ Refusal(attempt[c]) = "mismatch" => OtherNodesSlice(c, attempt[c].snapshot)
      BY <1>1, ActingIs, RefusalMeans
    <3>2. truths'[c] = truths[c]
      BY <1>1, <1>2, ObserveIs
    <3>3. QED
      BY <1>1, <1>2, <1>4, <3>1, <3>2 DEF Fine, Seen, ToldTruth
  <2>5. QED
    BY <2>1, <2>2, <2>3, <2>4 DEF Fine
<1>7. \A d \in Clients \ {c} : Fine(d)'
  BY <1>1, <1>2, <1>3, OtherKeeps, SameObject DEF Sole
<1>8. AllPlaced' /\ late' = {}
  BY <1>1, <1>3 DEF Sole, AllPlaced
<1>9. QED
  BY <1>6, <1>7, <1>8 DEF Sole

LEMMA TimeoutTells ==
    ASSUME Separate, IInv, Sole, NEW c \in Clients, Timeout(c)
    PROVE  Sole'
<1>1. /\ attempt[c] # None
      /\ UNCHANGED <<db, cache>>
      /\ Observe
      /\ attempt' = [attempt EXCEPT ![c] = None]
      /\ NoAnswer(c)
  BY DEF Timeout, NoAnswer
<1>2. late' = {}
  <2>1. ~(Cardinality(late) < MaxLate)
    BY FS_EmptySet DEF Sole, Separate
  <2>2. QED
    BY <2>1 DEF Timeout, Sole
<1>3. /\ \A d \in Clients \ {c} : call'[d] = call[d] /\ caller'[d] = caller[d]
      /\ call'[c] # None => /\ call'[c].op = call[c].op
                            /\ call'[c].target = call[c].target
                            /\ caller'[c] = caller[c]
      /\ call'[c] = None => caller'[c].status = "unsure" /\ caller'[c].outcome = "timeout"
  BY <1>1, NoAnswerType
<1>4. /\ \A d \in Clients \ {c} : attempt'[d] = attempt[d]
      /\ attempt'[c] = None
  BY <1>1 DEF IInv, TypeOK
<1>5. call[c] # None /\ Fine(c)
  BY <1>1, ActingIs DEF Sole
<1>6. Fine(c)'
  <2>1. Own(c)' /\ Seen(c)' /\ ToldTruth(c)'
    BY <1>3, <1>4, <1>5 DEF Fine, Own, Seen, ToldTruth
  <2>2. Holds(c)' /\ Releasing(c)' /\ Idle(c)'
    BY <1>1, <1>3, <1>4, <1>5 DEF Fine, Holds, Releasing, Idle, HeldBy
  <2>3. QED
    BY <2>1, <2>2 DEF Fine
<1>7. \A d \in Clients \ {c} : Fine(d)'
  BY <1>1, <1>3, <1>4, OtherKeeps, SameObject DEF Sole
<1>8. AllPlaced'
  BY <1>1, <1>4 DEF Sole, AllPlaced
<1>9. QED
  BY <1>2, <1>6, <1>7, <1>8 DEF Sole

LEMMA SoleInvariant ==
    ASSUME Separate
    PROVE  Spec => []Sole
<1>1. Init => Sole
  <2> SUFFICES ASSUME Init
               PROVE  Sole
    OBVIOUS
  <2>1. AllPlaced
    BY DEF Init, AllPlaced, Placed, Nothing, Wanted
  <2>2. \A c \in Clients : Fine(c)
    <3> SUFFICES ASSUME NEW c \in Clients
                 PROVE  Fine(c)
      OBVIOUS
    <3>1. call[c] = None /\ attempt[c] = None
      BY DEF Init
    <3>2. caller[c].status = "idle" /\ caller[c].outcome \notin {"full", "mismatch"}
      BY CallAssumption DEF Init, Outcome
    <3>3. DOMAIN Holding(db) = {}
      BY DEF Init, Nothing, Holding, Existing
    <3>4. Own(c) /\ Holds(c) /\ Releasing(c) /\ Seen(c)
      BY <3>1, <3>2 DEF Own, Holds, Releasing, Seen
    <3>5. Idle(c)
      BY <3>1, <3>3 DEF Idle
    <3>6. ToldTruth(c)
      BY <3>2 DEF ToldTruth
    <3>7. QED
      BY <3>4, <3>5, <3>6 DEF Fine
  <2>3. QED
    BY <2>1, <2>2 DEF Init, Sole
<1>2. IInv /\ Sole /\ [Next]_vars => Sole'
  <2> SUFFICES ASSUME IInv, Sole, [Next]_vars
               PROVE  Sole'
    OBVIOUS
  <2>1. ASSUME NEW c \in Clients, ClientNext(c)
        PROVE  Sole'
    <3>1. CASE AllocateSlice(c) \/ Release(c) \/ ReleaseAddress(c)
      BY <3>1, BeginTells DEF AllocateSlice, Release, ReleaseAddress, Op
    <3>2. QED
      BY <2>1, <3>1, LookupTells, SendTells, ReadAgainTells, CommitTells, CommitUnansweredTells,
         RefuseTells, TimeoutTells DEF ClientNext
  <2>2. CASE UNCHANGED vars
    <3>1. UNCHANGED <<db, cache, call, attempt, late, caller, truths>>
      BY <2>2 DEF vars
    <3>2. \A c \in Clients : Fine(c)'
      BY <3>1 DEF Sole, Fine, Own, Holds, Releasing, Idle, Seen, ToldTruth, HeldBy
    <3>3. AllPlaced' /\ late' = {}
      BY <3>1 DEF Sole, AllPlaced
    <3>4. QED
      BY <3>2, <3>3 DEF Sole
  <2>3. ~\E a \in late : LateReadAgain(a) \/ LateEnd(a)
    BY DEF Sole
  <2>4. QED
    BY <2>1, <2>2, <2>3, CatchUpTells DEF Next
<1>3. QED
  BY <1>1, <1>2, Invariance, PTL DEF Spec

\* An address that Allocate returned stays the caller's until it asks for its release,
\* through lost races, timeouts that wrote and timeouts that did not, and retries.
THEOREM HoldersHold ==
    ASSUME Separate
    PROVE  Spec => []HolderHolds
<1>1. Sole => HolderHolds
  BY DEF Sole, Fine, Holds, HeldBy, HolderHolds
<1>2. QED
  BY <1>1, SoleInvariant, PTL

\* No address stays taken for a caller that was refused or that has released.
THEOREM NothingLeaks ==
    ASSUME Separate
    PROVE  Spec => []NothingLeaked
<1>1. Sole => NothingLeaked
  BY DEF Sole, Fine, Idle, NothingLeaked
<1>2. QED
  BY <1>1, SoleInvariant, PTL

\* Allocate reports a full slice, or a slice of another node, only if it was one at
\* some moment of the call.
THEOREM RefusalsTrue ==
    ASSUME Separate
    PROVE  Spec => []RefusalsAreTrue
<1>1. Sole => RefusalsAreTrue
  BY DEF Sole, Fine, ToldTruth, RefusalsAreTrue
<1>2. QED
  BY <1>1, SoleInvariant, PTL

(***************************************************************************)
(* The slice that callers share, when they lock it for the node of their   *)
(* request and a name is used for one node.  Names may have several users  *)
(* here, and applies may be written after they timed out.                  *)
(***************************************************************************)

Uniform ==
    \A c, d \in Clients : /\ Lock[c] = Entry[c].node
                          /\ NameOf[c] = NameOf[d] => Lock[c] = Lock[d]

\* The requests of a slice are all for the node that it is locked for, and it is
\* their managers that own the lock together.
OneNode(d) ==
    /\ \A n \in DOMAIN Wanted(d.slice) :
           /\ Wanted(d.slice)[n].node = LiveNode(d)
           /\ \A c \in Clients : NameOf[c] = n => Lock[c] = LiveNode(d)
    /\ d.owners = IF LiveNode(d) = None THEN {} ELSE DOMAIN Wanted(d.slice)

\* An apply that outlived its call allocates for the name of its caller.
LateAgrees == \A a \in late : a.op = "allocate" => a.target = NameOf[a.client]

\* What was written, as a function from names to nodes.
LEMMA WrittenIs ==
    ASSUME NEW a \in Apply, Sound(a.snapshot.slice), Write(a)
    PROVE  /\ a.target \in Names /\ a.client \in Clients /\ a.op \in Op
           /\ Sound(db.slice) /\ Sound(db'.slice)
           /\ db \in Stored /\ db' \in Stored
           /\ DOMAIN Wanted(db'.slice) = (DOMAIN Wanted(db.slice) \ {a.target})
                                            \cup (IF a.op = "allocate" THEN {a.target} ELSE {})
           /\ \A n \in DOMAIN Wanted(db.slice) \ {a.target} :
                  Wanted(db'.slice)[n] = Wanted(db.slice)[n]
           /\ a.op = "allocate" => Wanted(db'.slice)[a.target] = Entry[a.client]
           /\ LiveNode(db') = IF DOMAIN Wanted(db'.slice) = {} THEN None ELSE MergedNode(a)
           /\ db'.owners = MergedOwners(a)
           /\ Cardinality(DOMAIN Wanted(db'.slice)) <= Hosts
           /\ LiveNode(db') # None => \A n \in DOMAIN Wanted(db'.slice) :
                                          Wanted(db'.slice)[n].node = LiveNode(db')
           /\ LiveNode(db) # None /\ DOMAIN Wanted(db'.slice) # {} => LiveNode(db') = LiveNode(db)
<1> DEFINE m == Result(a)
<1>1. /\ a.snapshot = db /\ db' = [slice |-> m, owners |-> MergedOwners(a)]
      /\ Admitted(db.slice, m) /\ m \in Outcomes(db.slice, Merged(a))
      /\ m \in Object /\ m # Absent /\ Sound(m)
      /\ MergedOwners(a) \subseteq Names
      /\ Wanted(m) = Merged(a).request
  BY WriteIs
<1>2. /\ db.slice \in Object \cup {Absent} /\ Merged(a) \in Submitted
      /\ Merged(a).node = MergedNode(a)
      /\ ReqNames(Merged(a)) = (DOMAIN Wanted(db.slice) \ {a.target})
                                  \cup (IF a.op = "allocate" THEN {a.target} ELSE {})
      /\ \A n \in DOMAIN Wanted(db.slice) \ {a.target} :
             Merged(a).request[n] = Wanted(db.slice)[n]
      /\ a.op = "allocate" => Merged(a).request[a.target] = Entry[a.client]
  BY <1>1, MergedIs
<1> HIDE DEF m
<1>3. m.node = LockAfter(Merged(a)) /\ m.request = Merged(a).request
  BY <1>1, <1>2, OutcomeType
<1>4. a.target \in Names /\ a.client \in Clients /\ a.op \in Op /\ db \in Stored
  BY <1>1 DEF Apply
<1>5. db'.slice = m /\ db'.owners = MergedOwners(a) /\ db' \in Stored
  BY <1>1 DEF Stored
<1>6. DOMAIN Wanted(m) = ReqNames(Merged(a))
  BY <1>1 DEF ReqNames
<1>7. LiveNode(db') = m.node /\ m.node = IF DOMAIN Wanted(m) = {} THEN None ELSE MergedNode(a)
  BY <1>1, <1>2, <1>3, <1>5, <1>6 DEF LiveNode, LockAfter
<1>8. Cardinality(DOMAIN m.request) <= Hosts /\ NodesMatchLock(m) /\ LockKept(db.slice, m)
  BY <1>1 DEF Admitted, CRDValid, VAPValid, RequestsWithinCap
<1>9. m.request = Wanted(m)
  BY <1>1 DEF Wanted
<1>10. LiveNode(db) # None /\ DOMAIN Wanted(m) # {} => m.node = LiveNode(db)
  BY <1>8, <1>9 DEF LockKept, LiveNode
<1>11. m.node # None => \A n \in DOMAIN Wanted(m) : Wanted(m)[n].node = m.node
  BY <1>8, <1>9 DEF NodesMatchLock
<1>12. Sound(db.slice)
  BY <1>1
<1>13. /\ \A n \in DOMAIN Wanted(db.slice) \ {a.target} : Wanted(m)[n] = Wanted(db.slice)[n]
       /\ a.op = "allocate" => Wanted(m)[a.target] = Entry[a.client]
  BY <1>1, <1>2
<1>14. Cardinality(DOMAIN Wanted(m)) <= Hosts
  BY <1>8, <1>9
<1>15. QED
  BY <1>1, <1>2, <1>4, <1>5, <1>6, <1>7, <1>10, <1>11, <1>12, <1>13, <1>14

\* Nodes of the requests: what Shared sees of the stored object.
NodesIn(d) == [n \in DOMAIN Holding(d) |-> LiveRequests(d)[n].node]

LEMMA NodesInIs ==
    ASSUME NEW d \in Stored, Sound(d.slice)
    PROVE  /\ NodesIn(d) = [n \in DOMAIN Wanted(d.slice) |-> Wanted(d.slice)[n].node]
           /\ DOMAIN NodesIn(d) = DOMAIN Wanted(d.slice)
           /\ DOMAIN NodesIn(d) \subseteq Names
           /\ LiveNode(d) # None => DOMAIN NodesIn(d) # {}
<1>1. d.slice \in Object \cup {Absent}
  BY DEF Stored
<1>2. DOMAIN Holding(d) = DOMAIN Wanted(d.slice) /\ DOMAIN Holding(d) \subseteq Names
  BY <1>1, SoundIs DEF Holding
<1>3. LiveNode(d) # None => DOMAIN Wanted(d.slice) # {}
  BY DEF LiveNode, Sound, Wanted
<1>4. QED
  BY <1>2, <1>3, LiveIs DEF NodesIn

SharedStep == Shared!Next \/ (UNCHANGED <<NodesIn(db), LiveNode(db)>>)

\* An apply of Allocate that is written takes an address for the node of its caller.
LEMMA AllocateIsTake ==
    ASSUME Uniform, OneNode(db), NEW a \in Apply, Sound(a.snapshot.slice), Write(a),
           a.op = "allocate", a.target = NameOf[a.client]
    PROVE  OneNode(db)' /\ SharedStep
<1> DEFINE live == Wanted(db.slice)
           next == Wanted(db'.slice)
           n == a.target
           node == Lock[a.client]
<1>1. /\ n \in Names /\ a.client \in Clients /\ a.snapshot = db
      /\ node \in Nodes \cup {None}
      /\ Entry[a.client].node = node
      /\ \A c \in Clients : NameOf[c] = n => Lock[c] = node
  <2>1. a.snapshot = db
    BY DEF Write
  <2>2. n \in Names /\ a.client \in Clients
    BY WrittenIs
  <2>3. /\ node \in Nodes \cup {None}
        /\ Entry[a.client].node = node
        /\ \A c \in Clients : NameOf[c] = NameOf[a.client] => Lock[c] = node
    BY <2>2, CallersAssumption DEF Uniform
  <2>4. QED
    BY <2>1, <2>2, <2>3
<1>2. /\ DOMAIN next = DOMAIN live \cup {n}
      /\ \A x \in DOMAIN live \ {n} : next[x] = live[x]
      /\ next[n].node = node
      /\ LiveNode(db') = MergedNode(a)
      /\ db'.owners = MergedOwners(a)
      /\ Cardinality(DOMAIN next) <= Hosts
      /\ LiveNode(db') # None => \A x \in DOMAIN next : next[x].node = LiveNode(db')
      /\ LiveNode(db) # None => LiveNode(db') = LiveNode(db)
  BY <1>1, WrittenIs
<1>3. /\ MergedNode(a) = IF node # None THEN node
                         ELSE IF db.owners = {n} THEN None ELSE LiveNode(db)
      /\ MergedOwners(a) = IF node # None
                           THEN {n} \cup (IF LiveNode(db) = node THEN db.owners ELSE {})
                           ELSE db.owners \ {n}
  BY <1>1 DEF MergedNode, MergedOwners
<1>4. /\ \A x \in DOMAIN live : /\ live[x].node = LiveNode(db)
                                /\ \A c \in Clients : NameOf[c] = x => Lock[c] = LiveNode(db)
      /\ db.owners = IF LiveNode(db) = None THEN {} ELSE DOMAIN live
  BY DEF OneNode
<1> HIDE DEF live, next, n, node
<1>5. n \in DOMAIN live => LiveNode(db) = node
  BY <1>1, <1>4 DEF n, node
<1>6. LiveNode(db) \in {None, node}
  <2>1. CASE node # None
    BY <1>2, <1>3, <2>1
  <2>2. CASE node = None /\ LiveNode(db) # None
    <3>1. n \notin DOMAIN live /\ n \notin db.owners
      BY <1>4, <1>5, <2>2
    <3>2. LiveNode(db') = LiveNode(db)
      BY <1>2, <2>2
    <3>3. next[n].node = LiveNode(db')
      BY <1>2, <2>2, <3>2
    <3>4. QED
      BY <1>2, <2>2, <3>2, <3>3
  <2>3. QED
    BY <2>1, <2>2
<1>7. node # None => \A x \in DOMAIN live : live[x].node = node
  <2>1. CASE LiveNode(db) = node
    BY <1>4, <2>1
  <2>2. CASE LiveNode(db) # node /\ node # None
    <3>1. LiveNode(db) = None /\ n \notin DOMAIN live
      BY <1>5, <1>6, <2>2
    <3>2. \A x \in DOMAIN live : next[x].node = node
      BY <1>2, <1>3, <2>2
    <3>3. \A x \in DOMAIN live : next[x] = live[x]
      BY <1>2, <3>1
    <3>4. QED
      BY <3>2, <3>3
  <2>3. QED
    BY <2>1, <2>2
<1>8. LiveNode(db') = node
  BY <1>2, <1>3, <1>4, <1>6
<1>9. \A x \in DOMAIN live : live[x].node = node
  BY <1>4, <1>6, <1>7
<1>10. LiveNode(db) = None /\ node # None => DOMAIN live = {}
  BY <1>4, <1>9
<1>11. OneNode(db)'
  <2>1. \A x \in DOMAIN next : next[x].node = node
    BY <1>2, <1>9
  <2>2. \A x \in DOMAIN next : \A c \in Clients : NameOf[c] = x => Lock[c] = node
    <3>1. \A x \in DOMAIN live : \A c \in Clients : NameOf[c] = x => Lock[c] = node
      BY <1>4, <1>6, <1>10
    <3>2. QED
      BY <1>1, <1>2, <3>1 DEF n, node
  <2>3. db'.owners = IF node = None THEN {} ELSE DOMAIN next
    BY <1>2, <1>3, <1>4, <1>6, <1>10
  <2>4. QED
    BY <1>8, <2>1, <2>2, <2>3 DEF OneNode, next
<1>12. /\ DOMAIN NodesIn(db) = DOMAIN live
       /\ NodesIn(db) = [x \in DOMAIN live |-> live[x].node]
       /\ NodesIn(db') = [x \in DOMAIN next |-> next[x].node]
       /\ DOMAIN next \subseteq Names
  BY WrittenIs, NodesInIs DEF live, next
<1>13. Shared!Take(n, node)
  <2>1. n \in DOMAIN NodesIn(db) => NodesIn(db)[n] = node
    BY <1>9, <1>12
  <2>2. DOMAIN NodesIn(db) \cup {n} \in {S \in SUBSET Names : Cardinality(S) <= Hosts}
    BY <1>2, <1>12
  <2>3. node # None => \A x \in DOMAIN NodesIn(db) : NodesIn(db)[x] = node
    BY <1>9, <1>12
  <2>4. NodesIn(db') = [x \in DOMAIN NodesIn(db) \cup {n} |->
                            IF x = n THEN node ELSE NodesIn(db)[x]]
    BY <1>2, <1>12
  <2>5. QED
    BY <1>6, <1>8, <2>1, <2>2, <2>3, <2>4, Zenon DEF Shared!Take, NodesIn
<1>14. QED
  <2>1. n \in Names /\ node \in Nodes \cup {None}
    BY <1>1 DEF n, node
  <2>2. QED
    BY <1>11, <1>13, <2>1 DEF SharedStep, Shared!Next

\* An apply of Release that is written gives the address of its request up, or changes
\* nothing; the last one takes the lock along.
LEMMA ReleaseIsGive ==
    ASSUME OneNode(db), NEW a \in Apply, Sound(a.snapshot.slice), Write(a), a.op = "release"
    PROVE  OneNode(db)' /\ SharedStep
<1> DEFINE live == Wanted(db.slice)
           next == Wanted(db'.slice)
           n == a.target
<1>1. a.snapshot = db
  BY DEF Write
<1>2. /\ DOMAIN next = DOMAIN live \ {n}
      /\ \A x \in DOMAIN live \ {n} : next[x] = live[x]
      /\ LiveNode(db') = IF DOMAIN next = {} THEN None ELSE MergedNode(a)
      /\ db'.owners = MergedOwners(a)
  BY WrittenIs
<1>3. /\ MergedNode(a) = IF db.owners = {n} THEN None ELSE LiveNode(db)
      /\ MergedOwners(a) = db.owners \ {n}
  BY <1>1 DEF MergedNode, MergedOwners
<1>4. /\ \A x \in DOMAIN live : /\ live[x].node = LiveNode(db)
                                /\ \A c \in Clients : NameOf[c] = x => Lock[c] = LiveNode(db)
      /\ db.owners = IF LiveNode(db) = None THEN {} ELSE DOMAIN live
  BY DEF OneNode
<1>5. /\ NodesIn(db) = [x \in DOMAIN live |-> live[x].node]
      /\ DOMAIN NodesIn(db) = DOMAIN live
      /\ NodesIn(db') = [x \in DOMAIN next |-> next[x].node]
      /\ DOMAIN NodesIn(db') = DOMAIN next
      /\ LiveNode(db) # None => DOMAIN live # {}
  BY WrittenIs, NodesInIs
<1> HIDE DEF live, next, n
<1>6. LiveNode(db') = IF DOMAIN next = {} THEN None ELSE LiveNode(db)
  BY <1>2, <1>3, <1>4
<1>7. OneNode(db)'
  <2>1. \A x \in DOMAIN next : /\ next[x].node = LiveNode(db')
                               /\ \A c \in Clients : NameOf[c] = x => Lock[c] = LiveNode(db')
    BY <1>2, <1>4, <1>6
  <2>2. db'.owners = IF LiveNode(db') = None THEN {} ELSE DOMAIN next
    BY <1>2, <1>3, <1>4, <1>6
  <2>3. QED
    BY <2>1, <2>2 DEF OneNode, next
<1>8. NodesIn(db') = [x \in DOMAIN NodesIn(db) \ {n} |-> NodesIn(db)[x]]
  BY <1>2, <1>5
<1>9. CASE n \in DOMAIN live
  <2>1. LiveNode(db') = IF DOMAIN NodesIn(db') = {} THEN None ELSE LiveNode(db)
    BY <1>5, <1>6
  <2>2. Shared!Give(n)
    BY <1>8, <2>1, Zenon DEF Shared!Give, NodesIn
  <2>3. QED
    BY <1>5, <1>7, <1>9, <2>2 DEF SharedStep, Shared!Next, NodesIn
<1>10. CASE n \notin DOMAIN live
  <2>1. NodesIn(db') = NodesIn(db)
    BY <1>2, <1>5, <1>10
  <2>2. LiveNode(db') = LiveNode(db)
    BY <1>2, <1>5, <1>6, <1>10
  <2>3. QED
    BY <1>7, <2>1, <2>2 DEF SharedStep
<1>11. QED
  BY <1>9, <1>10

LEMMA LateAgreesKept ==
    ASSUME IInv, LateAgrees, [Next]_vars
    PROVE  LateAgrees'
<1>1. ASSUME NEW c \in Clients, Timeout(c)
      PROVE  LateAgrees'
  BY <1>1, AttemptType DEF Timeout, LateAgrees
<1>2. ASSUME NEW a \in late, LateReadAgain(a)
      PROVE  LateAgrees'
  <2>1. a \in Apply
    BY DEF IInv, TypeOK
  <2> DEFINE b == [a EXCEPT !.snapshot = db, !.fresh = TRUE]
  <2>2. b.op = a.op /\ b.target = a.target /\ b.client = a.client
    BY <2>1 DEF Apply
  <2>3. late' = (late \ {a}) \cup {b}
    BY <1>2 DEF LateReadAgain
  <2> HIDE DEF b
  <2>4. QED
    BY <2>2, <2>3 DEF LateAgrees
<1>3. ASSUME NEW a \in late, LateEnd(a)
      PROVE  LateAgrees'
  BY <1>3 DEF LateEnd, LateAgrees
<1>4. ASSUME NEW c \in Clients, ClientNext(c), ~Timeout(c)
      PROVE  UNCHANGED late
  BY <1>4 DEF ClientNext, AllocateSlice, Release, ReleaseAddress, Begin, Lookup, Send, ReadAgain,
              Refuse, Commit, CommitUnanswered
<1>5. CASE CatchUp \/ UNCHANGED vars
  BY <1>5 DEF CatchUp, vars, LateAgrees
<1>6. QED
  BY <1>1, <1>2, <1>3, <1>4, <1>5 DEF Next, LateAgrees

LEMMA NextShares ==
    ASSUME Uniform, IInv, LateAgrees, OneNode(db), [Next]_vars
    PROVE  OneNode(db)' /\ SharedStep
<1>1. ASSUME NEW a \in Apply, Sound(a.snapshot.slice), Write(a),
             a.op = "allocate" => a.target = NameOf[a.client]
      PROVE  OneNode(db)' /\ SharedStep
  <2>1. a.op = "allocate" \/ a.op = "release"
    BY DEF Apply, Op
  <2>2. QED
    BY <1>1, <2>1, AllocateIsTake, ReleaseIsGive
<1>2. ASSUME NEW c \in Clients, Commit(c) \/ CommitUnanswered(c)
      PROVE  OneNode(db)' /\ SharedStep
  BY <1>1, <1>2, AttemptType DEF Commit, CommitUnanswered
<1>3. ASSUME UNCHANGED db
      PROVE  OneNode(db)' /\ SharedStep
  BY <1>3 DEF OneNode, SharedStep
<1>4. ASSUME NEW a \in late, LateEnd(a)
      PROVE  OneNode(db)' /\ SharedStep
  <2>1. /\ a \in Apply /\ Sound(a.snapshot.slice)
        /\ a.op = "allocate" => a.target = NameOf[a.client]
    BY DEF IInv, TypeOK, SnapshotsSound, LateAgrees
  <2>2. QED
    BY <1>1, <1>3, <1>4, <2>1 DEF LateEnd
<1>5. ASSUME NEW c \in Clients, ClientNext(c), ~(Commit(c) \/ CommitUnanswered(c))
      PROVE  UNCHANGED db
  BY <1>5 DEF ClientNext, AllocateSlice, Release, ReleaseAddress, Begin, Lookup, Send, ReadAgain,
              Refuse, Timeout
<1>6. ASSUME CatchUp \/ UNCHANGED vars \/ (\E a \in late : LateReadAgain(a))
      PROVE  UNCHANGED db
  BY <1>6 DEF CatchUp, vars, LateReadAgain
<1>7. QED
  BY <1>2, <1>3, <1>4, <1>5, <1>6 DEF Next

\* Applies on stale snapshots, retries, managers that own the lock together and writes
\* after the timeout: a slice is still one that callers of one node share, and the last
\* of them to release takes the lock along.
THEOREM SharedByCallers ==
    ASSUME Uniform
    PROVE  Spec => ImplementsShared
<1>1. Init => OneNode(db) /\ LateAgrees /\ Shared!Init
  <2> SUFFICES ASSUME Init
               PROVE  OneNode(db) /\ LateAgrees /\ Shared!Init
    OBVIOUS
  <2>1. db.slice = Absent /\ db.owners = {} /\ late = {}
    BY DEF Init, Nothing
  <2>2. DOMAIN Wanted(db.slice) = {} /\ LiveNode(db) = None /\ DOMAIN Holding(db) = {}
    BY <2>1 DEF Wanted, LiveNode, Holding, Existing
  <2>3. QED
    BY <2>1, <2>2 DEF OneNode, LateAgrees, Shared!Init
<1>2. IInv /\ LateAgrees /\ OneNode(db) /\ [Next]_vars
         => LateAgrees' /\ OneNode(db)' /\ SharedStep
  BY LateAgreesKept, NextShares
<1>3. SharedStep => [Shared!Next]_<<NodesIn(db), LiveNode(db)>>
  BY DEF SharedStep
<1>4. QED
  BY <1>1, <1>2, <1>3, Invariance, PTL DEF Spec, ImplementsShared, Shared!Spec, NodesIn
=============================================================================
