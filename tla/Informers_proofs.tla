---------------------------- MODULE Informers_proofs ----------------------------
(***************************************************************************)
(* Proofs about Informers, for all types, contexts and goroutines.         *)
(***************************************************************************)
EXTENDS Informers, TLAPS

-----------------------------------------------------------------------------
(* Types. *)

\* What a goroutine does next concerns itself only.
LEMMA OneCall ==
    ASSUME call \in [Procs -> Calls], NEW p \in Procs, NEW state \in Calls, Becomes(p, state)
    PROVE  /\ call' \in [Procs -> Calls] /\ call'[p] = state
           /\ \A q \in Procs \ {p} : call'[q] = call[q]
  BY DEF Becomes

LEMMA IdleType == Idle \in Calls
  BY DEF Idle, Calls

\* A call that goes on.
LEMMA GoesTo ==
    ASSUME call \in [Procs -> Calls], NEW p \in Procs, NEW place \in {"make", "terminate"},
           Goes(p, place)
    PROVE  /\ call' \in [Procs -> Calls] /\ At(p, place)' /\ call'[p].type = call[p].type
           /\ \A q \in Procs \ {p} : call'[q] = call[q]
<1> DEFINE r == [call[p] EXCEPT !.at = place]
<1>1. r \in Calls /\ r.at = place /\ r.type = call[p].type
  BY DEF Calls
<1>2. Becomes(p, r)
  BY DEF Goes
<1> HIDE DEF r
<1> QED
  BY <1>1, <1>2, OneCall DEF At

\* A call that returns.
LEMMA ReturnsIdle ==
    ASSUME call \in [Procs -> Calls], NEW p \in Procs, Returns(p)
    PROVE  /\ call' \in [Procs -> Calls] /\ call'[p] = Idle
           /\ \A q \in Procs \ {p} : call'[q] = call[q]
  BY IdleType, OneCall DEF Returns

\* What a call is when it begins.
LEMMA Beginning ==
    ASSUME call \in [Procs -> Calls], started \subseteq Types, NEW p \in Procs, Begin(p)
    PROVE  /\ call' \in [Procs -> Calls]
           /\ call'[p].at \in {"find", "start", "snapshot", "shutdown"}
           /\ At(p, "find")' => call'[p].type \in Types
           /\ At(p, "snapshot")' => /\ call'[p].ctx \in Contexts /\ call'[p].due = started
                                    /\ ~call'[p].failed
           /\ At(p, "start")' => call'[p].ctx \in Contexts
           /\ \A q \in Procs \ {p} : call'[q] = call[q]
<1>1. ASSUME NEW t \in Types, Becomes(p, [Idle EXCEPT !.at = "find", !.type = t])
      PROVE  /\ call' \in [Procs -> Calls]
             /\ At(p, "find")' /\ call'[p].type \in Types
             /\ \A q \in Procs \ {p} : call'[q] = call[q]
  <2> DEFINE r == [Idle EXCEPT !.at = "find", !.type = t]
  <2>1. r \in Calls /\ r.at = "find" /\ r.type = t
    BY DEF Idle, Calls
  <2> HIDE DEF r
  <2> QED
    BY <1>1, <2>1, OneCall DEF At, r
<1>2. ASSUME NEW ctx \in Contexts, Becomes(p, [Idle EXCEPT !.at = "start", !.ctx = ctx])
      PROVE  /\ call' \in [Procs -> Calls]
             /\ At(p, "start")' /\ call'[p].ctx \in Contexts
             /\ \A q \in Procs \ {p} : call'[q] = call[q]
  <2> DEFINE r == [Idle EXCEPT !.at = "start", !.ctx = ctx]
  <2>1. r \in Calls /\ r.at = "start" /\ r.ctx = ctx
    BY DEF Idle, Calls
  <2> HIDE DEF r
  <2> QED
    BY <1>2, <2>1, OneCall DEF At, r
<1>3. ASSUME NEW ctx \in Contexts,
             Becomes(p, [Idle EXCEPT !.at = "snapshot", !.ctx = ctx, !.due = started])
      PROVE  /\ call' \in [Procs -> Calls]
             /\ At(p, "snapshot")' /\ call'[p].ctx \in Contexts /\ call'[p].due = started
             /\ ~call'[p].failed
             /\ \A q \in Procs \ {p} : call'[q] = call[q]
  <2> DEFINE r == [Idle EXCEPT !.at = "snapshot", !.ctx = ctx, !.due = started]
  <2>1. r \in Calls /\ r.at = "snapshot" /\ r.ctx = ctx /\ r.due = started /\ ~r.failed
    BY DEF Idle, Calls
  <2> HIDE DEF r
  <2> QED
    BY <1>3, <2>1, OneCall DEF At, r
<1>4. ASSUME Becomes(p, [Idle EXCEPT !.at = "shutdown"])
      PROVE  /\ call' \in [Procs -> Calls]
             /\ At(p, "shutdown")'
             /\ \A q \in Procs \ {p} : call'[q] = call[q]
  <2> DEFINE r == [Idle EXCEPT !.at = "shutdown"]
  <2>1. r \in Calls /\ r.at = "shutdown"
    BY DEF Idle, Calls
  <2> HIDE DEF r
  <2> QED
    BY <1>4, <2>1, OneCall DEF At, r
<1>5. \/ \E t \in Types : Becomes(p, [Idle EXCEPT !.at = "find", !.type = t])
      \/ \E ctx \in Contexts : Becomes(p, [Idle EXCEPT !.at = "start", !.ctx = ctx])
      \/ \E ctx \in Contexts :
            Becomes(p, [Idle EXCEPT !.at = "snapshot", !.ctx = ctx, !.due = started])
      \/ Becomes(p, [Idle EXCEPT !.at = "shutdown"])
  BY Zenon DEF Begin
<1> QED
  BY <1>1, <1>2, <1>3, <1>4, <1>5 DEF At

\* A wait that goes on.
LEMMA SnapshotStep ==
    ASSUME TypeOK, NEW p \in Procs, Snapshot(p)
    PROVE  /\ call' \in [Procs -> Calls] /\ At(p, "wait")' /\ call'[p].waits = Awaited
           /\ call'[p].ctx = call[p].ctx /\ call'[p].due = call[p].due
           /\ call'[p].failed = call[p].failed
           /\ \A q \in Procs \ {p} : call'[q] = call[q]
<1> DEFINE r == [call[p] EXCEPT !.at = "wait", !.waits = Awaited]
<1>1. call \in [Procs -> Calls] /\ Awaited \subseteq Types
  BY DEF TypeOK, Awaited, Requested
<1>2. /\ r \in Calls /\ r.at = "wait" /\ r.waits = Awaited
      /\ r.ctx = call[p].ctx /\ r.due = call[p].due /\ r.failed = call[p].failed
  BY <1>1 DEF Calls
<1>3. Becomes(p, r)
  BY DEF Snapshot
<1> HIDE DEF r
<1> QED
  BY <1>1, <1>2, <1>3, OneCall DEF At

LEMMA WaitStep ==
    ASSUME TypeOK, NEW p \in Procs, Wait(p)
    PROVE  /\ call' \in [Procs -> Calls] /\ At(p, "read")' /\ call'[p].waits = call[p].waits
           /\ call'[p].ctx = call[p].ctx /\ call'[p].due = call[p].due
           /\ call'[p].failed = call[p].failed
           /\ \A q \in Procs \ {p} : call'[q] = call[q]
<1> DEFINE r == [call[p] EXCEPT !.at = "read", !.waits = ToRead(p)]
<1>1. call \in [Procs -> Calls] /\ ToRead(p) = call[p].waits
  BY DEF TypeOK, ToRead
<1>2. /\ r \in Calls /\ r.at = "read" /\ r.waits = call[p].waits
      /\ r.ctx = call[p].ctx /\ r.due = call[p].due /\ r.failed = call[p].failed
  BY <1>1 DEF Calls
<1>3. Becomes(p, r)
  BY DEF Wait
<1> HIDE DEF r
<1> QED
  BY <1>1, <1>2, <1>3, OneCall DEF At

LEMMA ReadStep ==
    ASSUME TypeOK, NEW p \in Procs, NEW t \in Types, Read(p, t)
    PROVE  /\ call' \in [Procs -> Calls] /\ At(p, "read")'
           /\ call'[p].waits = call[p].waits \ {t}
           /\ call'[p].ctx = call[p].ctx /\ call'[p].due = call[p].due
           /\ call'[p].failed = (call[p].failed \/ t \notin synced)
           /\ \A q \in Procs \ {p} : call'[q] = call[q]
<1> DEFINE r == [call[p] EXCEPT !.waits = call[p].waits \ {t}, !.failed = Failed(p, t)]
<1>1. /\ call \in [Procs -> Calls] /\ Failed(p, t) \in BOOLEAN
      /\ Failed(p, t) = (call[p].failed \/ t \notin synced)
  BY DEF TypeOK, Failed, Calls
<1>2. /\ r \in Calls /\ r.at = call[p].at /\ r.waits = call[p].waits \ {t}
      /\ r.ctx = call[p].ctx /\ r.due = call[p].due /\ r.failed = Failed(p, t)
  BY <1>1 DEF Calls
<1>3. Becomes(p, r) /\ call[p].at = "read"
  BY DEF Read, At
<1> HIDE DEF r
<1> QED
  BY <1>1, <1>2, <1>3, OneCall DEF At

\* The parameters of the calls.
Typed ==
    /\ TypeOK
    /\ \A p \in Procs : /\ At(p, "find") \/ At(p, "make") => call[p].type \in Types
                        /\ At(p, "start") => call[p].ctx \in Contexts

\* A step that leaves the factory typed and begins or changes one call.
LEMMA OneTyped ==
    ASSUME Typed, TypeOK', NEW p \in Procs, \A q \in Procs \ {p} : call'[q] = call[q],
           At(p, "find")' \/ At(p, "make")' => call'[p].type \in Types,
           At(p, "start")' => call'[p].ctx \in Contexts
    PROVE  Typed'
<1> SUFFICES ASSUME NEW q \in Procs
             PROVE  /\ At(q, "find")' \/ At(q, "make")' => call'[q].type \in Types
                    /\ At(q, "start")' => call'[q].ctx \in Contexts
  BY DEF Typed
<1>1. CASE q = p
  BY <1>1
<1>2. CASE q # p
  BY <1>2 DEF Typed, At
<1> QED
  BY <1>1, <1>2

LEMMA TypedInit == Init => Typed
<1> SUFFICES ASSUME Init
             PROVE  Typed
  OBVIOUS
<1>1. call \in [Procs -> Calls] /\ \A p \in Procs : call[p].at = "idle"
  BY IdleType DEF Init, Idle
<1>2. TypeOK
  <2>1. /\ informers \in [Types -> 0 .. MaxMade] /\ made \in [Types -> 0 .. MaxMade]
        /\ run \in [Types -> Contexts \cup {"no", "stopped"}]
    BY InformersAssumption DEF Init
  <2>2. /\ lock \in Procs \cup {None} /\ started \subseteq Types /\ shuttingDown \in BOOLEAN
        /\ synced \subseteq Types /\ canceled \subseteq Contexts /\ down \in BOOLEAN
    BY DEF Init
  <2>3. handed \subseteq Types \X (1 .. MaxMade)
    BY DEF Init
  <2> QED
    BY <1>1, <2>1, <2>2, <2>3 DEF TypeOK
<1> QED
  BY <1>1, <1>2 DEF Typed, At

LEMMA TypedStep == Typed /\ [Next]_vars => Typed'
<1> SUFFICES ASSUME Typed, [Next]_vars
             PROVE  Typed'
  OBVIOUS
<1>0. TypeOK
  BY DEF Typed
<1>1. ASSUME NEW p \in Procs, Begin(p)
      PROVE  Typed'
  <2>1. UNCHANGED <<factory, world, ghosts>>
    BY <1>1 DEF Begin
  <2>2. TypeOK'
    BY <1>0, <1>1, <2>1, Beginning DEF TypeOK, factory, world, ghosts
  <2> QED
    BY <1>0, <1>1, <2>2, Beginning, OneTyped DEF At, TypeOK
<1>2. ASSUME NEW p \in Procs, Find(p)
      PROVE  Typed'
  <2>1. call[p].type \in Types
    BY <1>2 DEF Find, Typed
  <2>2. CASE informers[call[p].type] # 0
    <3>1. /\ Returns(p) /\ handed' = handed \cup {<<call[p].type, informers[call[p].type]>>}
          /\ UNCHANGED <<factory, world, down>>
      BY <1>2, <2>2 DEF Find, Hand, factory
    <3>2. informers[call[p].type] \in 1 .. MaxMade
      BY <1>0, <2>1, <2>2, InformersAssumption DEF TypeOK
    <3>3. handed' \subseteq Types \X (1 .. MaxMade)
      BY <1>0, <2>1, <3>1, <3>2 DEF TypeOK
    <3>4. TypeOK'
      BY <1>0, <3>1, <3>3, ReturnsIdle DEF TypeOK, factory, world
    <3> QED
      BY <1>0, <3>1, <3>4, ReturnsIdle, OneTyped DEF At, TypeOK, Idle
  <2>3. CASE informers[call[p].type] = 0
    <3>1. /\ Goes(p, "make") /\ lock' = p
          /\ UNCHANGED <<informers, started, shuttingDown, world, down, handed>>
      BY <1>2, <2>3 DEF Find
    <3>2. TypeOK'
      BY <1>0, <3>1, GoesTo DEF TypeOK, world
    <3> QED
      BY <1>0, <2>1, <3>1, <3>2, GoesTo, OneTyped DEF At, TypeOK
  <2> QED
    BY <2>2, <2>3
<1>3. ASSUME NEW p \in Procs, Make(p)
      PROVE  Typed'
  <2> DEFINE t == call[p].type
  <2>1. t \in Types
    BY <1>3 DEF Make, Typed
  <2>2. made[t] + 1 \in 1 .. MaxMade
    BY <1>0, <1>3, <2>1, InformersAssumption DEF Make, TypeOK
  <2>3. /\ made' = [made EXCEPT ![t] = made[t] + 1]
        /\ informers' = [informers EXCEPT ![t] = made[t] + 1]
        /\ Returns(p) /\ handed' = handed \cup {<<t, made[t] + 1>>}
        /\ lock' = None
        /\ UNCHANGED <<started, shuttingDown, run, synced, canceled, down>>
    BY <1>3 DEF Make, Hand
  <2> HIDE DEF t
  <2>4. made' \in [Types -> 0 .. MaxMade] /\ informers' \in [Types -> 0 .. MaxMade]
    BY <1>0, <2>1, <2>2, <2>3 DEF TypeOK
  <2>5. handed' \subseteq Types \X (1 .. MaxMade)
    BY <1>0, <2>1, <2>2, <2>3 DEF TypeOK
  <2>6. TypeOK'
    BY <1>0, <2>3, <2>4, <2>5, ReturnsIdle DEF TypeOK
  <2> QED
    BY <1>0, <2>3, <2>6, ReturnsIdle, OneTyped DEF At, TypeOK, Idle
<1>4. ASSUME NEW p \in Procs, Start(p)
      PROVE  Typed'
  <2>1. call[p].ctx \in Contexts
    BY <1>4 DEF Start, Typed
  <2>2. Returns(p) /\ UNCHANGED <<lock, informers, shuttingDown, made, synced, canceled, ghosts>>
    BY <1>4 DEF Start
  <2>3. run' \in [Types -> Contexts \cup {"no", "stopped"}] /\ started' \subseteq Types
    BY <1>0, <1>4, <2>1 DEF Start, Context, RecordStarted, Requested, TypeOK
  <2>4. TypeOK'
    BY <1>0, <2>2, <2>3, ReturnsIdle DEF TypeOK, ghosts
  <2> QED
    BY <1>0, <2>2, <2>4, ReturnsIdle, OneTyped DEF At, TypeOK, Idle
<1>5. ASSUME NEW p \in Procs, Shutdown(p)
      PROVE  Typed'
  <2>1. Goes(p, "terminate") /\ shuttingDown' = TRUE
        /\ UNCHANGED <<lock, informers, started, world, ghosts>>
    BY <1>5 DEF Shutdown
  <2>2. TypeOK'
    BY <1>0, <2>1, GoesTo DEF TypeOK, world, ghosts
  <2> QED
    BY <1>0, <2>1, <2>2, GoesTo, OneTyped DEF At, TypeOK
<1>6. ASSUME NEW p \in Procs, Terminated(p)
      PROVE  Typed'
  <2>1. Returns(p) /\ down' = TRUE /\ UNCHANGED <<factory, world, handed>>
    BY <1>6 DEF Terminated
  <2>2. TypeOK'
    BY <1>0, <2>1, ReturnsIdle DEF TypeOK, factory, world
  <2> QED
    BY <1>0, <2>1, <2>2, ReturnsIdle, OneTyped DEF At, TypeOK, Idle
<1>7. ASSUME NEW p \in Procs, Snapshot(p)
      PROVE  Typed'
  <2>1. UNCHANGED <<factory, world, ghosts>>
    BY <1>7 DEF Snapshot
  <2>2. TypeOK'
    BY <1>0, <1>7, <2>1, SnapshotStep DEF TypeOK, factory, world, ghosts
  <2> QED
    BY <1>0, <1>7, <2>2, SnapshotStep, OneTyped DEF At
<1>8. ASSUME NEW p \in Procs, Wait(p)
      PROVE  Typed'
  <2>1. UNCHANGED <<factory, world, ghosts>>
    BY <1>8 DEF Wait
  <2>2. TypeOK'
    BY <1>0, <1>8, <2>1, WaitStep DEF TypeOK, factory, world, ghosts
  <2> QED
    BY <1>0, <1>8, <2>2, WaitStep, OneTyped DEF At
<1>9. ASSUME NEW p \in Procs, NEW t \in Types, Read(p, t)
      PROVE  Typed'
  <2>1. UNCHANGED <<factory, world, ghosts>>
    BY <1>9 DEF Read
  <2>2. TypeOK'
    BY <1>0, <1>9, <2>1, ReadStep DEF TypeOK, factory, world, ghosts
  <2> QED
    BY <1>0, <1>9, <2>2, ReadStep, OneTyped DEF At
<1>10. ASSUME NEW p \in Procs, Result(p)
       PROVE  Typed'
  <2>1. Returns(p) /\ UNCHANGED <<factory, world, ghosts>>
    BY <1>10 DEF Result
  <2>2. TypeOK'
    BY <1>0, <2>1, ReturnsIdle DEF TypeOK, factory, world, ghosts
  <2> QED
    BY <1>0, <2>1, <2>2, ReturnsIdle, OneTyped DEF At, TypeOK, Idle
<1>11. ASSUME NEW t \in Types, Sync(t)
       PROVE  Typed'
  BY <1>11 DEF Sync, Typed, TypeOK, At, factory, ghosts
<1>12. ASSUME NEW t \in Types, Stop(t)
       PROVE  Typed'
  BY <1>12 DEF Stop, Typed, TypeOK, At, factory, ghosts
<1>13. ASSUME NEW ctx \in Contexts, Cancel(ctx)
       PROVE  Typed'
  BY <1>13 DEF Cancel, Typed, TypeOK, At, factory, ghosts
<1>14. CASE UNCHANGED vars
  BY <1>14 DEF vars, Typed, TypeOK, At, factory, world, ghosts
<1> QED
  BY <1>1, <1>2, <1>3, <1>4, <1>5, <1>6, <1>7, <1>8, <1>9, <1>10, <1>11, <1>12, <1>13, <1>14,
     Zenon DEF Next, Lockers, Others

\* The factory, its calls and its informers are what they are declared to be.
THEOREM TypeCorrect == Spec => []TypeOK
<1>1. Typed => TypeOK
  BY DEF Typed
<1> QED
  BY <1>1, TypedInit, TypedStep, PTL DEF Spec

-----------------------------------------------------------------------------
(* One informer for each type. *)

\* Who makes an informer has the lock, and there is none yet; what was handed out is what
\* the map has.
Made ==
    /\ \A p \in Procs : At(p, "make") => lock = p /\ informers[call[p].type] = 0
    /\ OneInformerPerType

\* A step that leaves the informers alone, after which nobody new makes one.
LEMMA MadeKept ==
    ASSUME Made, UNCHANGED <<lock, informers, handed>>,
           \A q \in Procs : At(q, "make")' => call'[q] = call[q]
    PROVE  Made'
  BY DEF Made, OneInformerPerType, At

LEMMA MadeStep == Typed /\ Made /\ [Next]_vars => Made'
<1> SUFFICES ASSUME Typed, Made, [Next]_vars
             PROVE  Made'
  OBVIOUS
<1>0. TypeOK /\ call \in [Procs -> Calls]
  BY DEF Typed, TypeOK
<1>1. ASSUME NEW p \in Procs, Begin(p)
      PROVE  Made'
  <2>1. UNCHANGED <<lock, informers, handed>>
    BY <1>1 DEF Begin, factory, ghosts
  <2>2. \A q \in Procs : At(q, "make")' => call'[q] = call[q]
    BY <1>0, <1>1, Beginning DEF At, TypeOK
  <2> QED
    BY <2>1, <2>2, MadeKept
<1>2. ASSUME NEW p \in Procs, Returns(p), UNCHANGED <<lock, informers, handed>>
      PROVE  Made'
  <2>1. \A q \in Procs : At(q, "make")' => call'[q] = call[q]
    BY <1>0, <1>2, ReturnsIdle DEF At, Idle
  <2> QED
    BY <1>2, <2>1, MadeKept
<1>3. ASSUME NEW p \in Procs, Find(p)
      PROVE  Made'
  <2>1. call[p].type \in Types /\ lock = None
    BY <1>3 DEF Find, Typed, Locked
  <2>2. \A q \in Procs : ~At(q, "make")
    BY <2>1, InformersAssumption DEF Made
  <2>3. CASE informers[call[p].type] # 0
    <3>1. /\ Returns(p) /\ handed' = handed \cup {<<call[p].type, informers[call[p].type]>>}
          /\ UNCHANGED <<lock, informers>>
      BY <1>3, <2>3 DEF Find, Hand
    <3>2. OneInformerPerType'
      BY <3>1 DEF Made, OneInformerPerType
    <3>3. \A q \in Procs : ~At(q, "make")'
      BY <1>0, <2>2, <3>1, ReturnsIdle DEF At, Idle
    <3> QED
      BY <3>2, <3>3 DEF Made
  <2>4. CASE informers[call[p].type] = 0
    <3>1. Goes(p, "make") /\ lock' = p /\ UNCHANGED <<informers, handed>>
      BY <1>3, <2>4 DEF Find
    <3>2. OneInformerPerType'
      BY <3>1 DEF Made, OneInformerPerType
    <3>3. ASSUME NEW q \in Procs, At(q, "make")'
          PROVE  lock' = q /\ informers'[call'[q].type] = 0
      BY <1>0, <2>2, <2>4, <3>1, <3>3, GoesTo DEF At
    <3> QED
      BY <3>2, <3>3 DEF Made
  <2> QED
    BY <2>3, <2>4
<1>4. ASSUME NEW p \in Procs, Make(p)
      PROVE  Made'
  <2> DEFINE t == call[p].type
  <2>1. At(p, "make") /\ t \in Types
    BY <1>4 DEF Make, Typed
  <2>2. lock = p /\ informers[t] = 0
    BY <2>1 DEF Made
  <2>3. /\ informers' = [informers EXCEPT ![t] = made[t] + 1]
        /\ Returns(p) /\ handed' = handed \cup {<<t, made[t] + 1>>}
    BY <1>4 DEF Make, Hand
  <2> HIDE DEF t
  <2>4. \A q \in Procs : ~At(q, "make")'
    BY <1>0, <2>2, <2>3, ReturnsIdle DEF At, Idle, Made
  <2>5. ASSUME NEW h \in handed
        PROVE  h[1] # t /\ h[1] \in Types /\ informers[h[1]] = h[2]
    <3>1. informers[h[1]] = h[2] /\ h[2] \in 1 .. MaxMade /\ h[1] \in Types
      BY <1>0 DEF Made, OneInformerPerType, TypeOK
    <3> QED
      BY <2>2, <3>1, InformersAssumption
  <2>6. informers'[t] = made[t] + 1 /\ \A u \in Types \ {t} : informers'[u] = informers[u]
    BY <1>0, <2>1, <2>3 DEF TypeOK
  <2>7. OneInformerPerType'
    BY <2>3, <2>5, <2>6 DEF OneInformerPerType
  <2> QED
    BY <2>4, <2>7 DEF Made
<1>5. ASSUME NEW p \in Procs, Start(p) \/ Terminated(p) \/ Result(p)
      PROVE  Made'
  BY <1>2, <1>5 DEF Start, Terminated, Result, factory, ghosts
<1>6. ASSUME NEW p \in Procs, Shutdown(p)
      PROVE  Made'
  <2>1. Goes(p, "terminate") /\ UNCHANGED <<lock, informers, handed>>
    BY <1>6 DEF Shutdown, ghosts
  <2>2. \A q \in Procs : At(q, "make")' => call'[q] = call[q]
    BY <1>0, <2>1, GoesTo DEF At
  <2> QED
    BY <2>1, <2>2, MadeKept
<1>7. ASSUME NEW p \in Procs, Snapshot(p)
      PROVE  Made'
  <2>1. UNCHANGED <<lock, informers, handed>>
    BY <1>7 DEF Snapshot, factory, ghosts
  <2>2. \A q \in Procs : At(q, "make")' => call'[q] = call[q]
    BY <1>0, <1>7, SnapshotStep DEF At
  <2> QED
    BY <2>1, <2>2, MadeKept
<1>8. ASSUME NEW p \in Procs, Wait(p)
      PROVE  Made'
  <2>1. UNCHANGED <<lock, informers, handed>>
    BY <1>8 DEF Wait, factory, ghosts
  <2>2. \A q \in Procs : At(q, "make")' => call'[q] = call[q]
    BY <1>0, <1>8, WaitStep DEF At
  <2> QED
    BY <2>1, <2>2, MadeKept
<1>9. ASSUME NEW p \in Procs, NEW t \in Types, Read(p, t)
      PROVE  Made'
  <2>1. UNCHANGED <<lock, informers, handed>>
    BY <1>9 DEF Read, factory, ghosts
  <2>2. \A q \in Procs : At(q, "make")' => call'[q] = call[q]
    BY <1>0, <1>9, ReadStep DEF At
  <2> QED
    BY <2>1, <2>2, MadeKept
<1>10. CASE UNCHANGED <<lock, informers, handed, call>>
  BY <1>10, MadeKept
<1>11. ASSUME NEW t \in Types, Sync(t) \/ Stop(t)
       PROVE  Made'
  BY <1>10, <1>11 DEF Sync, Stop, factory, ghosts
<1>12. ASSUME NEW ctx \in Contexts, Cancel(ctx)
       PROVE  Made'
  BY <1>10, <1>12 DEF Cancel, factory, ghosts
<1>13. CASE UNCHANGED vars
  BY <1>10, <1>13 DEF vars, factory, ghosts
<1> QED
  BY <1>1, <1>3, <1>4, <1>5, <1>6, <1>7, <1>8, <1>9, <1>11, <1>12, <1>13,
     Zenon DEF Next, Lockers, Others

\* factory.go:223-245: however many goroutines ask for the informer of a type, they share
\* the one that the factory starts.
THEOREM SharedInformers == Spec => []OneInformerPerType
<1>1. Init => Made
  BY DEF Init, Made, OneInformerPerType, At, Idle
<1>2. Made => OneInformerPerType
  BY DEF Made
<1> QED
  BY <1>1, <1>2, TypedInit, TypedStep, MadeStep, PTL DEF Spec

\* The lock has an owner only while an informer is made; the map has every informer made.
Owned == informers = made /\ \A p \in Procs : lock = p => At(p, "make")

\* A call that goes on elsewhere does not give the lock away.
LEMMA OwnedKept ==
    ASSUME Typed, Owned, NEW p \in Procs, ~At(p, "make"), NEW state, Becomes(p, state),
           UNCHANGED <<lock, informers, made>>
    PROVE  Owned'
<1>1. \A q \in Procs \ {p} : call'[q] = call[q]
  BY DEF Becomes, Typed, TypeOK
<1> QED
  BY <1>1 DEF Owned, At

LEMMA OwnedStep == Typed /\ Made /\ Owned /\ [Next]_vars => Owned'
<1> SUFFICES ASSUME Typed, Made, Owned, [Next]_vars
             PROVE  Owned'
  OBVIOUS
<1>0. call \in [Procs -> Calls] /\ made \in [Types -> 0 .. MaxMade]
  BY DEF Typed, TypeOK
<1>1. ASSUME NEW p \in Procs, Find(p)
      PROVE  Owned'
  <2>1. At(p, "find") /\ UNCHANGED <<informers, made>>
    BY <1>1 DEF Find, world
  <2>2. ~At(p, "make")
    BY <2>1 DEF At
  <2>3. CASE Returns(p) /\ UNCHANGED lock
    BY <2>1, <2>2, <2>3, OwnedKept DEF Returns
  <2>4. CASE Goes(p, "make") /\ lock' = p
    <3>1. At(p, "make")'
      BY <1>0, <2>4, GoesTo
    <3> QED
      BY <2>1, <2>4, <3>1 DEF Owned
  <2> QED
    BY <1>1, <2>3, <2>4 DEF Find, Hand
<1>2. ASSUME NEW p \in Procs, Make(p)
      PROVE  Owned'
  <2>1. informers = made
    BY DEF Owned
  <2>2. made' = informers'
    BY <1>2, <2>1 DEF Make
  <2>3. lock' = None
    BY <1>2 DEF Make
  <2> QED
    BY <2>2, <2>3, InformersAssumption DEF Owned
<1>3. ASSUME NEW p \in Procs, Begin(p)
      PROVE  Owned'
  <2>1. ~At(p, "make") /\ UNCHANGED <<lock, informers, made>>
    BY <1>3 DEF Begin, At, factory, world
  <2>2. \E state : Becomes(p, state)
    BY <1>3, Zenon DEF Begin
  <2> QED
    BY <2>1, <2>2, OwnedKept
<1>4. ASSUME NEW p \in Procs, Start(p) \/ Terminated(p) \/ Result(p)
      PROVE  Owned'
  <2>1. /\ ~At(p, "make") /\ UNCHANGED <<lock, informers, made>>
        /\ Becomes(p, Idle)
    BY <1>4 DEF Start, Terminated, Result, At, Returns, factory, world
  <2> QED
    BY <2>1, OwnedKept
<1>5. ASSUME NEW p \in Procs, Shutdown(p)
      PROVE  Owned'
  <2>1. ~At(p, "make") /\ UNCHANGED <<lock, informers, made>>
    BY <1>5 DEF Shutdown, At, world
  <2>2. \E state : Becomes(p, state)
    BY <1>5, Zenon DEF Shutdown, Goes
  <2> QED
    BY <2>1, <2>2, OwnedKept
<1>6. ASSUME NEW p \in Procs, Snapshot(p) \/ Wait(p) \/ \E t \in Types : Read(p, t)
      PROVE  Owned'
  <2>1. ~At(p, "make") /\ UNCHANGED <<lock, informers, made>>
    BY <1>6 DEF Snapshot, Wait, Read, At, factory, world
  <2>2. \E state : Becomes(p, state)
    BY <1>6, Zenon DEF Snapshot, Wait, Read
  <2> QED
    BY <2>1, <2>2, OwnedKept
<1>7. CASE UNCHANGED <<lock, informers, made, call>>
  BY <1>7 DEF Owned, At
<1>8. ASSUME NEW t \in Types, Sync(t) \/ Stop(t)
      PROVE  Owned'
  BY <1>7, <1>8 DEF Sync, Stop, factory
<1>9. ASSUME NEW ctx \in Contexts, Cancel(ctx)
      PROVE  Owned'
  BY <1>7, <1>9 DEF Cancel, factory
<1>10. CASE UNCHANGED vars
  BY <1>7, <1>10 DEF vars, factory, world
<1> QED
  BY <1>1, <1>2, <1>3, <1>4, <1>5, <1>6, <1>8, <1>9, <1>10, Zenon DEF Next, Lockers, Others

\* The lock is kept while an informer is made and at no other moment,
\* and who has it needs nothing to go on -- so nobody waits for a lock that will not come
\* free, although the constructor calls back into the factory.
LockIsForMaking ==
    \A p \in Procs :
        /\ lock = p <=> At(p, "make")
        /\ At(p, "make") => made[call[p].type] < MaxMade

\* factory.go:223-242: so nobody waits for ever for the lock, which is the safety half of
\* EveryCallReturns, and the bound MaxMade never stops a constructor.
THEOREM LockIsKept == Spec => []LockIsForMaking
<1>1. Init => Made /\ Owned
  BY InformersAssumption DEF Init, Made, Owned, OneInformerPerType, At, Idle
<1>2. Typed /\ Made /\ Owned => LockIsForMaking
  BY InformersAssumption DEF Made, Owned, LockIsForMaking
<1> QED
  BY <1>1, <1>2, TypedInit, TypedStep, MadeStep, OwnedStep, PTL DEF Spec

-----------------------------------------------------------------------------
(* Starting and shutting down. *)

\* What runs was started, what was started was asked for; who waits for the end has said
\* so, and after the end nothing runs.
Ended ==
    /\ \A t \in Types : run[t] # "no" => t \in started
    /\ started \subseteq Requested
    /\ \A p \in Procs : At(p, "terminate") => shuttingDown
    /\ down => shuttingDown /\ Running = {}

\* A step that stops or starts nothing, after which nobody new waits for the end.
LEMMA EndedKept ==
    ASSUME Ended, UNCHANGED <<run, started, shuttingDown, down>>, Requested \subseteq Requested',
           \A q \in Procs : At(q, "terminate")' => call'[q] = call[q]
    PROVE  Ended'
  BY DEF Ended, Running, At

LEMMA EndedStep == Typed /\ Ended /\ [Next]_vars => Ended'
<1> SUFFICES ASSUME Typed, Ended, [Next]_vars
             PROVE  Ended'
  OBVIOUS
<1>0. TypeOK /\ call \in [Procs -> Calls]
  BY DEF Typed, TypeOK
<1>1. ASSUME NEW p \in Procs, Begin(p)
      PROVE  Ended'
  <2>1. UNCHANGED <<run, started, shuttingDown, down, informers>>
    BY <1>1 DEF Begin, factory, ghosts, world
  <2>2. \A q \in Procs : At(q, "terminate")' => call'[q] = call[q]
    BY <1>0, <1>1, Beginning DEF At, TypeOK
  <2> QED
    BY <2>1, <2>2, EndedKept DEF Requested
<1>2. ASSUME NEW p \in Procs, Returns(p),
             UNCHANGED <<run, started, shuttingDown, down>>, Requested \subseteq Requested'
      PROVE  Ended'
  <2>1. \A q \in Procs : At(q, "terminate")' => call'[q] = call[q]
    BY <1>0, <1>2, ReturnsIdle DEF At, Idle
  <2> QED
    BY <1>2, <2>1, EndedKept
<1>3. ASSUME NEW p \in Procs, Find(p)
      PROVE  Ended'
  <2>1. /\ UNCHANGED <<run, started, shuttingDown, down, informers>>
        /\ Returns(p) \/ Goes(p, "make")
    BY <1>3 DEF Find, Hand, world
  <2>2. CASE Returns(p)
    BY <1>2, <2>1, <2>2 DEF Requested
  <2>3. CASE Goes(p, "make")
    <3>1. \A q \in Procs : At(q, "terminate")' => call'[q] = call[q]
      BY <1>0, <2>3, GoesTo DEF At
    <3> QED
      BY <2>1, <3>1, EndedKept DEF Requested
  <2> QED
    BY <2>1, <2>2, <2>3
<1>4. ASSUME NEW p \in Procs, Make(p)
      PROVE  Ended'
  <2> DEFINE t == call[p].type
  <2>1. /\ informers' = [informers EXCEPT ![t] = made[t] + 1]
        /\ Returns(p) /\ UNCHANGED <<run, started, shuttingDown, down>>
        /\ t \in Types
    BY <1>4 DEF Make, Hand, Typed
  <2> HIDE DEF t
  <2>2. made[t] + 1 # 0
    BY <1>0, <2>1, InformersAssumption DEF TypeOK
  <2>3. Requested \subseteq Requested'
    BY <1>0, <2>1, <2>2 DEF Requested, TypeOK
  <2> QED
    BY <1>2, <2>1, <2>3
<1>5. ASSUME NEW p \in Procs, Start(p)
      PROVE  Ended'
  <2>1. Returns(p) /\ UNCHANGED <<informers, shuttingDown, down>>
    BY <1>5 DEF Start, ghosts
  <2>2. CASE shuttingDown
    BY <1>2, <1>5, <2>1, <2>2 DEF Start, MayStart, Requested
  <2>3. CASE ~shuttingDown
    <3>1. /\ run' = [t \in Types |-> IF t \in Requested \ started THEN Context(p) ELSE run[t]]
          /\ started' = started \cup Requested
      BY <1>5, <2>3 DEF Start, MayStart, RecordStarted
    <3>2. ~down
      BY <2>3 DEF Ended
    <3>3. \A t \in Types : run'[t] # "no" => t \in started'
      BY <3>1 DEF Ended
    <3>4. started' \subseteq Requested'
      BY <2>1, <3>1 DEF Ended, Requested
    <3>5. \A q \in Procs : ~At(q, "terminate")'
      BY <1>0, <2>1, <2>3, ReturnsIdle DEF At, Idle, Ended
    <3> QED
      BY <2>1, <3>2, <3>3, <3>4, <3>5 DEF Ended
  <2> QED
    BY <2>2, <2>3
<1>6. ASSUME NEW p \in Procs, Shutdown(p)
      PROVE  Ended'
  BY <1>6 DEF Shutdown, Ended, Requested, Running, world, ghosts
<1>7. ASSUME NEW p \in Procs, Terminated(p)
      PROVE  Ended'
  <2>1. /\ Returns(p) /\ down' = TRUE /\ Running = {} /\ At(p, "terminate")
        /\ UNCHANGED <<run, started, shuttingDown, informers>>
    BY <1>7 DEF Terminated, factory, world
  <2>2. shuttingDown
    BY <2>1 DEF Ended
  <2> QED
    BY <2>1, <2>2 DEF Ended, Running, Requested
<1>8. ASSUME NEW p \in Procs, Result(p)
      PROVE  Ended'
  BY <1>2, <1>8 DEF Result, factory, world, ghosts, Requested
<1>9. ASSUME NEW p \in Procs, Snapshot(p)
      PROVE  Ended'
  <2>1. UNCHANGED <<run, started, shuttingDown, down, informers>>
    BY <1>9 DEF Snapshot, factory, world, ghosts
  <2>2. \A q \in Procs : At(q, "terminate")' => call'[q] = call[q]
    BY <1>0, <1>9, SnapshotStep DEF At
  <2> QED
    BY <2>1, <2>2, EndedKept DEF Requested
<1>10. ASSUME NEW p \in Procs, Wait(p)
       PROVE  Ended'
  <2>1. UNCHANGED <<run, started, shuttingDown, down, informers>>
    BY <1>10 DEF Wait, factory, world, ghosts
  <2>2. \A q \in Procs : At(q, "terminate")' => call'[q] = call[q]
    BY <1>0, <1>10, WaitStep DEF At
  <2> QED
    BY <2>1, <2>2, EndedKept DEF Requested
<1>11. ASSUME NEW p \in Procs, NEW t \in Types, Read(p, t)
       PROVE  Ended'
  <2>1. UNCHANGED <<run, started, shuttingDown, down, informers>>
    BY <1>11 DEF Read, factory, world, ghosts
  <2>2. \A q \in Procs : At(q, "terminate")' => call'[q] = call[q]
    BY <1>0, <1>11, ReadStep DEF At
  <2> QED
    BY <2>1, <2>2, EndedKept DEF Requested
<1>12. CASE UNCHANGED <<run, started, shuttingDown, down, informers, call>>
  BY <1>12, EndedKept DEF Requested
<1>13. ASSUME NEW t \in Types, Sync(t)
       PROVE  Ended'
  BY <1>12, <1>13 DEF Sync, factory, ghosts
<1>14. ASSUME NEW t \in Types, Stop(t)
       PROVE  Ended'
  <2>1. /\ run' = [run EXCEPT ![t] = "stopped"] /\ run[t] \in canceled
        /\ UNCHANGED <<started, shuttingDown, down, informers, call>>
    BY <1>14 DEF Stop, factory, ghosts
  <2>2. run[t] # "no"
    BY <1>0, <2>1, InformersAssumption DEF TypeOK
  <2>3. \A u \in Types : run'[u] # "no" => u \in started
    BY <1>0, <2>1, <2>2 DEF Ended, TypeOK
  <2>4. Running' \subseteq Running
    BY <1>0, <2>1 DEF Running, TypeOK
  <2> QED
    BY <2>1, <2>3, <2>4 DEF Ended, Requested, At
<1>15. ASSUME NEW ctx \in Contexts, Cancel(ctx)
       PROVE  Ended'
  BY <1>12, <1>15 DEF Cancel, factory, ghosts
<1>16. CASE UNCHANGED vars
  BY <1>12, <1>16 DEF vars, factory, world, ghosts
<1> QED
  BY <1>1, <1>3, <1>4, <1>5, <1>6, <1>7, <1>8, <1>9, <1>10, <1>11, <1>13, <1>14, <1>15, <1>16,
     Zenon DEF Next, Lockers, Others

LEMMA EndedInit == Init => Ended
  BY DEF Init, Ended, Requested, Running, At, Idle

\* factory.go:298-307: nothing runs after a Shutdown has returned.
THEOREM ShutdownIsFinal == Spec => []NothingRunsAfterShutdown
<1>1. Ended => NothingRunsAfterShutdown
  BY DEF Ended, NothingRunsAfterShutdown
<1> QED
  BY <1>1, TypedInit, TypedStep, EndedInit, EndedStep, PTL DEF Spec

\* factory.go:50-51: whoever starts the factory, and how often, an informer runs once.
THEOREM StartIsIdempotent == Spec => RunsOnce
<1>1. Typed /\ Ended /\ [Next]_vars =>
        [\A t \in Types : run[t] # "no" => run'[t] \in {run[t], "stopped"}]_run
  <2> SUFFICES ASSUME Typed, Ended, [Next]_vars, run' # run,
                      NEW t \in Types, run[t] # "no"
               PROVE  run'[t] \in {run[t], "stopped"}
    OBVIOUS
  <2>0. TypeOK
    BY DEF Typed
  <2>1. ASSUME NEW p \in Procs, Start(p)
        PROVE  run'[t] = run[t]
    BY <2>1 DEF Start, Ended
  <2>2. ASSUME NEW u \in Types, Stop(u)
        PROVE  run'[t] \in {run[t], "stopped"}
    BY <2>0, <2>2 DEF Stop, TypeOK
  <2>3. ASSUME NEW p \in Procs,
               \/ Begin(p) \/ Find(p) \/ Make(p) \/ Shutdown(p) \/ Terminated(p)
               \/ Snapshot(p) \/ Wait(p) \/ Result(p) \/ \E u \in Types : Read(p, u)
        PROVE  run' = run
    BY <2>3 DEF Begin, Find, Make, Shutdown, Terminated, Snapshot, Wait, Result, Read, world
  <2>4. ASSUME NEW u \in Types, Sync(u)
        PROVE  run' = run
    BY <2>4 DEF Sync
  <2>5. ASSUME NEW ctx \in Contexts, Cancel(ctx)
        PROVE  run' = run
    BY <2>5 DEF Cancel
  <2>6. CASE UNCHANGED vars
    BY <2>6 DEF vars, world
  <2> QED
    BY <2>1, <2>2, <2>3, <2>4, <2>5, <2>6, Zenon DEF Next, Lockers, Others
<1> QED
  BY <1>1, TypedInit, TypedStep, EndedInit, EndedStep, PTL DEF Spec, RunsOnce

-----------------------------------------------------------------------------
(* Waiting for caches. *)

\* What was started before a wait is waited for, or has synced; a failure was seen after
\* the context was done.
Awaits(p) ==
    /\ At(p, "snapshot") => call[p].due \subseteq started /\ ~call[p].failed
    /\ At(p, "wait") => call[p].due \subseteq call[p].waits /\ ~call[p].failed
    /\ At(p, "read") =>
          /\ call[p].ctx \in canceled \/ call[p].waits \subseteq synced
          /\ call[p].failed => call[p].ctx \in canceled
          /\ ~call[p].failed => call[p].due \ call[p].waits \subseteq synced

Awaiting == \A p \in Procs : Awaits(p)

\* What starts, syncs and is done stays so: calls that do not move go on awaiting.
LEMMA AwaitsKept ==
    ASSUME NEW p \in Procs, Awaits(p), call'[p] = call[p],
           started \subseteq started', synced \subseteq synced', canceled \subseteq canceled'
    PROVE  Awaits(p)'
  BY DEF Awaits, At

\* A step of one call.
LEMMA OneAwaits ==
    ASSUME Awaiting, NEW p \in Procs, \A q \in Procs \ {p} : call'[q] = call[q], Awaits(p)',
           started \subseteq started', synced \subseteq synced', canceled \subseteq canceled'
    PROVE  Awaiting'
<1> SUFFICES ASSUME NEW q \in Procs
             PROVE  Awaits(q)'
  BY DEF Awaiting
<1>1. CASE q = p
  BY <1>1
<1>2. CASE q # p
  <2>1. call'[q] = call[q] /\ Awaits(q)
    BY <1>2 DEF Awaiting
  <2> QED
    BY <2>1, AwaitsKept
<1> QED
  BY <1>1, <1>2

LEMMA AwaitingStep == Typed /\ Ended /\ Awaiting /\ [Next]_vars => Awaiting'
<1> SUFFICES ASSUME Typed, Ended, Awaiting, [Next]_vars
             PROVE  Awaiting'
  OBVIOUS
<1>0. TypeOK /\ call \in [Procs -> Calls]
  BY DEF Typed, TypeOK
<1>1. ASSUME NEW p \in Procs, Begin(p)
      PROVE  Awaiting'
  <2>1. UNCHANGED <<started, synced, canceled>>
    BY <1>1 DEF Begin, factory, world
  <2>2. Awaits(p)'
    BY <1>0, <1>1, <2>1, Beginning DEF Awaits, At, TypeOK
  <2> QED
    BY <1>0, <1>1, <2>1, <2>2, Beginning, OneAwaits DEF TypeOK
<1>2. ASSUME NEW p \in Procs, Returns(p), started \subseteq started',
             UNCHANGED <<synced, canceled>>
      PROVE  Awaiting'
  <2>1. Awaits(p)'
    BY <1>0, <1>2, ReturnsIdle DEF Awaits, At, Idle
  <2> QED
    BY <1>0, <1>2, <2>1, ReturnsIdle, OneAwaits
<1>3. ASSUME NEW p \in Procs, NEW place \in {"make", "terminate"}, Goes(p, place),
             UNCHANGED <<started, synced, canceled>>
      PROVE  Awaiting'
  <2>1. Awaits(p)'
    BY <1>0, <1>3, GoesTo DEF Awaits, At
  <2> QED
    BY <1>0, <1>3, <2>1, GoesTo, OneAwaits
<1>4. ASSUME NEW p \in Procs, Find(p)
      PROVE  Awaiting'
  <2>1. /\ UNCHANGED <<started, synced, canceled>>
        /\ Returns(p) \/ Goes(p, "make")
    BY <1>4 DEF Find, Hand, world
  <2> QED
    BY <1>2, <1>3, <2>1
<1>5. ASSUME NEW p \in Procs, Make(p)
      PROVE  Awaiting'
  BY <1>2, <1>5 DEF Make, Hand
<1>6. ASSUME NEW p \in Procs, Start(p)
      PROVE  Awaiting'
  <2>1. started \subseteq started' /\ Returns(p) /\ UNCHANGED <<synced, canceled>>
    BY <1>6 DEF Start, RecordStarted
  <2> QED
    BY <1>2, <2>1
<1>7. ASSUME NEW p \in Procs, Shutdown(p)
      PROVE  Awaiting'
  BY <1>3, <1>7 DEF Shutdown, world
<1>8. ASSUME NEW p \in Procs, Terminated(p) \/ Result(p)
      PROVE  Awaiting'
  BY <1>2, <1>8 DEF Terminated, Result, factory, world
<1>9. ASSUME NEW p \in Procs, Snapshot(p)
      PROVE  Awaiting'
  <2>1. UNCHANGED <<started, synced, canceled>> /\ At(p, "snapshot")
    BY <1>9 DEF Snapshot, factory, world
  <2>2. call[p].due \subseteq Awaited /\ ~call[p].failed
    BY <2>1 DEF Awaiting, Awaits, Ended, Awaited
  <2>3. Awaits(p)'
    BY <1>0, <1>9, <2>2, SnapshotStep DEF Awaits, At
  <2> QED
    BY <1>0, <1>9, <2>1, <2>3, SnapshotStep, OneAwaits
<1>10. ASSUME NEW p \in Procs, Wait(p)
       PROVE  Awaiting'
  <2>1. /\ UNCHANGED <<started, synced, canceled>> /\ At(p, "wait")
        /\ call[p].waits \subseteq synced \/ call[p].ctx \in canceled
    BY <1>10 DEF Wait, factory, world
  <2>2. call[p].due \subseteq call[p].waits /\ ~call[p].failed
    BY <2>1 DEF Awaiting, Awaits
  <2>3. Awaits(p)'
    BY <1>0, <1>10, <2>1, <2>2, WaitStep DEF Awaits, At
  <2> QED
    BY <1>0, <1>10, <2>1, <2>3, WaitStep, OneAwaits
<1>11. ASSUME NEW p \in Procs, NEW t \in Types, Read(p, t)
       PROVE  Awaiting'
  <2>1. /\ UNCHANGED <<started, synced, canceled>> /\ At(p, "read")
        /\ t \in call[p].waits
    BY <1>11 DEF Read, factory, world
  <2>2. /\ call[p].ctx \in canceled \/ call[p].waits \subseteq synced
        /\ call[p].failed => call[p].ctx \in canceled
        /\ ~call[p].failed => call[p].due \ call[p].waits \subseteq synced
    BY <2>1 DEF Awaiting, Awaits
  <2>3. /\ call'[p].waits = call[p].waits \ {t} /\ At(p, "read")'
        /\ call'[p].ctx = call[p].ctx /\ call'[p].due = call[p].due
        /\ call'[p].failed = (call[p].failed \/ t \notin synced)
        /\ \A q \in Procs \ {p} : call'[q] = call[q]
    BY <1>0, <1>11, ReadStep
  <2>4. Awaits(p)'
    <3>1. call'[p].ctx \in canceled' \/ call'[p].waits \subseteq synced'
      BY <2>1, <2>2, <2>3
    <3>2. call'[p].failed => call'[p].ctx \in canceled'
      BY <2>1, <2>2, <2>3
    <3>3. ~call'[p].failed => call'[p].due \ call'[p].waits \subseteq synced'
      BY <2>1, <2>2, <2>3
    <3> QED
      BY <2>3, <3>1, <3>2, <3>3 DEF Awaits, At
  <2> QED
    BY <2>1, <2>3, <2>4, OneAwaits
<1>12. ASSUME call' = call,
              started \subseteq started', synced \subseteq synced', canceled \subseteq canceled'
       PROVE  Awaiting'
  BY <1>12, AwaitsKept DEF Awaiting
<1>13. ASSUME NEW t \in Types, Sync(t) \/ Stop(t)
       PROVE  Awaiting'
  BY <1>12, <1>13 DEF Sync, Stop, factory
<1>14. ASSUME NEW ctx \in Contexts, Cancel(ctx)
       PROVE  Awaiting'
  BY <1>12, <1>14 DEF Cancel, factory
<1>15. CASE UNCHANGED vars
  BY <1>12, <1>15 DEF vars, factory, world
<1> QED
  BY <1>1, <1>4, <1>5, <1>6, <1>7, <1>8, <1>9, <1>10, <1>11, <1>13, <1>14, <1>15,
     Zenon DEF Next, Lockers, Others

LEMMA AwaitingInit == Init => Awaiting
  BY DEF Init, Awaiting, Awaits, At, Idle

\* Only the last step of a wait returns from it.
LEMMA ReturnsWithAllRead ==
    ASSUME Typed, [Next]_vars, NEW p \in Procs, At(p, "read"), At(p, "idle")'
    PROVE  call[p].waits = {}
<1>0. TypeOK /\ call \in [Procs -> Calls] /\ call[p].at = "read" /\ call'[p].at = "idle"
  BY DEF Typed, TypeOK, At
<1>1. call' # call /\ call'[p] # call[p]
  BY <1>0
<1>2. ASSUME NEW q \in Procs, q # p, \A r \in Procs \ {q} : call'[r] = call[r]
      PROVE  FALSE
  BY <1>1, <1>2
<1>3. ASSUME NEW q \in Procs, Begin(q)
      PROVE  FALSE
  <2>1. q = p
    BY <1>0, <1>2, <1>3, Beginning DEF TypeOK
  <2> QED
    BY <1>0, <1>3, <2>1 DEF Begin, At
<1>4. ASSUME NEW q \in Procs, Find(q) \/ Make(q) \/ Start(q) \/ Terminated(q) \/ Shutdown(q)
      PROVE  FALSE
  <2>1. q # p
    BY <1>0, <1>4 DEF Find, Make, Start, Terminated, Shutdown, At
  <2>2. Returns(q) \/ Goes(q, "make") \/ Goes(q, "terminate")
    BY <1>4 DEF Find, Make, Start, Terminated, Shutdown, Hand
  <2>3. \A r \in Procs \ {q} : call'[r] = call[r]
    BY <1>0, <2>2, ReturnsIdle, GoesTo
  <2> QED
    BY <1>2, <2>1, <2>3
<1>5. ASSUME NEW q \in Procs, Snapshot(q)
      PROVE  FALSE
  BY <1>0, <1>2, <1>5, SnapshotStep DEF At
<1>6. ASSUME NEW q \in Procs, Wait(q)
      PROVE  FALSE
  BY <1>0, <1>2, <1>6, WaitStep DEF At
<1>7. ASSUME NEW q \in Procs, NEW t \in Types, Read(q, t)
      PROVE  FALSE
  BY <1>0, <1>2, <1>7, ReadStep DEF At
<1>8. ASSUME NEW q \in Procs, Result(q)
      PROVE  call[p].waits = {}
  <2>1. CASE q = p
    BY <1>8, <2>1 DEF Result
  <2>2. CASE q # p
    BY <1>0, <1>2, <1>8, <2>2, ReturnsIdle DEF Result
  <2> QED
    BY <2>1, <2>2
<1>9. ASSUME NEW t \in Types, Sync(t) \/ Stop(t)
      PROVE  FALSE
  BY <1>1, <1>9 DEF Sync, Stop
<1>10. ASSUME NEW ctx \in Contexts, Cancel(ctx)
       PROVE  FALSE
  BY <1>1, <1>10 DEF Cancel
<1>11. ~UNCHANGED vars
  BY <1>1 DEF vars
<1> QED
  BY <1>3, <1>4, <1>5, <1>6, <1>7, <1>8, <1>9, <1>10, <1>11, Zenon DEF Next, Lockers, Others

\* factory.go:212-214: the error of a failed wait is never nil.
THEOREM FailuresHaveCauses == Spec => FailureHasACause
<1>1. Awaiting /\ [Next]_vars =>
        [\A p \in Procs : WaitReturns(p) /\ call[p].failed => call[p].ctx \in canceled]_call
  BY DEF Awaiting, Awaits, WaitReturns
<1> QED
  BY <1>1, TypedInit, TypedStep, EndedInit, EndedStep, AwaitingInit, AwaitingStep, PTL
     DEF Spec, FailureHasACause

\* factory.go:310: a wait without an error has waited for all that was started before it.
THEOREM SuccessMeansSynced == Spec => SuccessIsSynced
<1>1. Typed /\ Awaiting /\ [Next]_vars =>
        [\A p \in Procs :
            WaitReturns(p) /\ ~call[p].failed => call[p].due \subseteq synced]_call
  <2> SUFFICES ASSUME Typed, Awaiting, [Next]_vars, NEW p \in Procs,
                      At(p, "read"), At(p, "idle")', ~call[p].failed
               PROVE  call[p].due \subseteq synced
    BY DEF WaitReturns
  <2>1. call[p].waits = {}
    BY ReturnsWithAllRead
  <2> QED
    BY <2>1 DEF Awaiting, Awaits
<1> QED
  BY <1>1, TypedInit, TypedStep, EndedInit, EndedStep, AwaitingInit, AwaitingStep, PTL
     DEF Spec, SuccessIsSynced
=============================================================================
