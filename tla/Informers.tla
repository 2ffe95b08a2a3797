------------------------------- MODULE Informers -------------------------------
(***************************************************************************)
(* The factory of shared informers                                         *)
(* (pkg/client/informers/externalversions/factory.go): goroutines ask it   *)
(* for informers, start those that were asked for, wait until they have    *)
(* synced and shut it down, all at the same time.                          *)
(*                                                                         *)
(* What happens under the factory's lock is one step, except for making an *)
(* informer, which calls back into the factory.  An informer itself is     *)
(* external: it runs until the context it was started with is done, and    *)
(* may sync while it runs.                                                 *)
(***************************************************************************)
EXTENDS Naturals

CONSTANTS Types,     \* of objects, one shared informer each
          Contexts,
          Procs,     \* goroutines that use the factory
          MaxMade,   \* informers made for a type, a bound of the model
          None

ASSUME InformersAssumption ==
    /\ MaxMade \in Nat \ {0}
    /\ None \notin Contexts \cup Types \cup Procs
    /\ Contexts \cap {"no", "stopped"} = {}

VARIABLES lock,         \* the goroutine that holds the factory's lock, or None
          informers,    \* the informer of each type in the factory's map, or 0
          started,      \* startedInformers
          shuttingDown,
          made,         \* informers made so far, for each type
          run,          \* each informer's goroutine: "no", the context it runs under, "stopped"
          synced,       \* the types whose informer has synced
          canceled,     \* the contexts that are done
          call,         \* what each goroutine is doing
          handed,       \* ghost: the informers that InformerFor returned
          down          \* ghost: whether a Shutdown has returned

factory == <<lock, informers, started, shuttingDown>>
world == <<made, run, synced, canceled>>
ghosts == <<handed, down>>
vars == <<factory, world, call, ghosts>>

Idle == [at |-> "idle", type |-> None, ctx |-> None, due |-> {}, waits |-> {}, failed |-> FALSE]

Requested == {t \in Types : informers[t] # 0}

Calls == [at : {"idle", "find", "make", "start", "shutdown", "terminate",
                "snapshot", "wait", "read"},
          type : Types \cup {None}, ctx : Contexts \cup {None},
          due : SUBSET Types,    \* started when a wait began
          waits : SUBSET Types,  \* awaited, then to be asked HasSynced
          failed : BOOLEAN]

TypeOK ==
    /\ lock \in Procs \cup {None}
    /\ informers \in [Types -> 0 .. MaxMade] /\ made \in [Types -> 0 .. MaxMade]
    /\ started \subseteq Types /\ shuttingDown \in BOOLEAN
    /\ run \in [Types -> Contexts \cup {"no", "stopped"}]
    /\ synced \subseteq Types /\ canceled \subseteq Contexts
    /\ call \in [Procs -> Calls]
    /\ handed \subseteq Types \X (1 .. MaxMade) /\ down \in BOOLEAN

Init ==
    /\ lock = None /\ shuttingDown = FALSE
    /\ informers = [t \in Types |-> 0] /\ started = {}
    /\ made = [t \in Types |-> 0]
    /\ run = [t \in Types |-> "no"]
    /\ synced = {} /\ canceled = {}
    /\ call = [p \in Procs |-> Idle]
    /\ handed = {} /\ down = FALSE

At(p, place) == call[p].at = place

Locked == lock # None

Becomes(p, state) == call' = [call EXCEPT ![p] = state]

Goes(p, place) == Becomes(p, [call[p] EXCEPT !.at = place])

Returns(p) == Becomes(p, Idle)

Begin(p) ==
    /\ At(p, "idle")
    /\ \/ \E t \in Types : Becomes(p, [Idle EXCEPT !.at = "find", !.type = t])
       \/ \E ctx \in Contexts : \/ Becomes(p, [Idle EXCEPT !.at = "start", !.ctx = ctx])
                                \/ Becomes(p, [Idle EXCEPT !.at = "snapshot", !.ctx = ctx,
                                                           !.due = started])
       \/ Becomes(p, [Idle EXCEPT !.at = "shutdown"])
    /\ UNCHANGED <<factory, world, ghosts>>

-----------------------------------------------------------------------------
(* InformerFor *)

Hand(p, informer) ==
    /\ handed' = handed \cup {<<call[p].type, informer>>}
    /\ Returns(p)

\* Slip: the lock is not kept.
FindSlip(p) ==
    /\ At(p, "find") /\ ~Locked
    /\ IF informers[call[p].type] # 0
       THEN Hand(p, informers[call[p].type]) /\ UNCHANGED factory
       ELSE Goes(p, "make") /\ UNCHANGED <<factory, handed>>
    /\ UNCHANGED <<world, down>>

Find(p) ==
    /\ At(p, "find") /\ ~Locked
    /\ IF informers[call[p].type] # 0
       THEN Hand(p, informers[call[p].type]) /\ UNCHANGED lock
       ELSE Goes(p, "make") /\ lock' = p /\ UNCHANGED handed
    /\ UNCHANGED <<informers, started, shuttingDown, world, down>>

\* newFunc, which asks the factory for its InformerName: the lock is not reentrant, so
\* that cannot take it.  The bound is never met: an informer is made once.
Make(p) ==
    LET t == call[p].type IN
    /\ At(p, "make") /\ made[t] < MaxMade
    /\ made' = [made EXCEPT ![t] = @ + 1]
    /\ informers' = [informers EXCEPT ![t] = made[t] + 1]
    /\ Hand(p, made[t] + 1)
    /\ lock' = None
    /\ UNCHANGED <<started, shuttingDown, run, synced, canceled, down>>

-----------------------------------------------------------------------------
(* Start and Shutdown *)

\* Slip: started informers are not remembered.
RecordStartedSlip(ts) == UNCHANGED started

RecordStarted(ts) == started' = started \cup ts

\* Slip: whatever Shutdown did.
MayStartSlip == TRUE

MayStart == ~shuttingDown

\* Slip: context.Background.
ContextSlip(p) == None

Context(p) == call[p].ctx

Start(p) ==
    /\ At(p, "start") /\ ~Locked
    /\ IF MayStart
       THEN /\ run' = [t \in Types |-> IF t \in Requested \ started THEN Context(p) ELSE run[t]]
            /\ RecordStarted(Requested)
       ELSE UNCHANGED <<run, started>>
    /\ Returns(p)
    /\ UNCHANGED <<lock, informers, shuttingDown, made, synced, canceled, ghosts>>

Shutdown(p) ==
    /\ At(p, "shutdown") /\ ~Locked
    /\ shuttingDown' = TRUE
    /\ Goes(p, "terminate")
    /\ UNCHANGED <<lock, informers, started, world, ghosts>>

Running == {t \in Types : run[t] \notin {"no", "stopped"}}

\* wg.Wait; the release of the metrics name (informerName) after it is left out.
Terminated(p) ==
    /\ At(p, "terminate") /\ Running = {}
    /\ down' = TRUE
    /\ Returns(p)
    /\ UNCHANGED <<factory, world, handed>>

-----------------------------------------------------------------------------
(* WaitForCacheSync *)

\* Slip: the informers that nobody has started, too.
AwaitedSlip == Requested

Awaited == Requested \cap started

Snapshot(p) ==
    /\ At(p, "snapshot") /\ ~Locked
    /\ Becomes(p, [call[p] EXCEPT !.at = "wait", !.waits = Awaited])
    /\ UNCHANGED <<factory, world, ghosts>>

\* Slip: the map is read again.
ToReadSlip(p) == Requested

ToRead(p) == call[p].waits

\* cache.WaitFor
Wait(p) ==
    /\ At(p, "wait") /\ (call[p].waits \subseteq synced \/ call[p].ctx \in canceled)
    /\ Becomes(p, [call[p] EXCEPT !.at = "read", !.waits = ToRead(p)])
    /\ UNCHANGED <<factory, world, ghosts>>

\* Slip: the last informer decides.
FailedSlip(p, t) == t \notin synced

Failed(p, t) == call[p].failed \/ t \notin synced

Read(p, t) ==
    /\ At(p, "read") /\ t \in call[p].waits
    /\ Becomes(p, [call[p] EXCEPT !.waits = call[p].waits \ {t}, !.failed = Failed(p, t)])
    /\ UNCHANGED <<factory, world, ghosts>>

\* What a wait returns: whether it failed, and with an error if its context is done.
Result(p) ==
    /\ At(p, "read") /\ call[p].waits = {}
    /\ Returns(p)
    /\ UNCHANGED <<factory, world, ghosts>>

-----------------------------------------------------------------------------
(* Informers and contexts. *)

Sync(t) ==
    /\ t \in Running \ synced
    /\ synced' = synced \cup {t}
    /\ UNCHANGED <<factory, made, run, canceled, call, ghosts>>

Stop(t) ==
    /\ run[t] \in canceled
    /\ run' = [run EXCEPT ![t] = "stopped"]
    /\ UNCHANGED <<factory, made, synced, canceled, call, ghosts>>

Cancel(ctx) ==
    /\ ctx \notin canceled
    /\ canceled' = canceled \cup {ctx}
    /\ UNCHANGED <<factory, made, run, synced, call, ghosts>>

Lockers(p) == Find(p) \/ Start(p) \/ Shutdown(p) \/ Snapshot(p)

Others(p) == Make(p) \/ Terminated(p) \/ Wait(p) \/ Result(p) \/ \E t \in Types : Read(p, t)

Next ==
    \/ \E p \in Procs : Begin(p) \/ Lockers(p) \/ Others(p)
    \/ \E t \in Types : Sync(t) \/ Stop(t)
    \/ \E ctx \in Contexts : Cancel(ctx)

Spec == Init /\ [][Next]_vars

\* A goroutine goes on, and gets a lock that is free again and again; an informer whose
\* context is done stops.  Nothing makes an informer sync or a context be done.
FairSpec ==
    /\ Spec
    /\ \A p \in Procs : SF_vars(Lockers(p)) /\ WF_vars(Others(p))
    /\ \A t \in Types : WF_vars(Stop(t))

-----------------------------------------------------------------------------

\* factory.go:298-307: once a Shutdown has returned nothing runs and nothing ever will,
\* although Start, InformerFor and other Shutdowns go on meanwhile.
NothingRunsAfterShutdown == down => Running = {}

\* factory.go:50-51, "This allows Start() to be called multiple times safely": whoever
\* starts the factory, and with whatever context, an informer runs once.
RunsOnce ==
    [][\A t \in Types : run[t] # "no" => run'[t] \in {run[t], "stopped"}]_run

\* Everybody who asks for the informer of a type has the same one, the one that Start runs.
OneInformerPerType ==
    \A h \in handed : informers[h[1]] = h[2]

WaitReturns(p) == At(p, "read") /\ At(p, "idle")'

\* factory.go:212-214, of the cause of the context: "This must be non-nil, otherwise
\* WaitFor wouldn't have stopped prematurely" -- although informers are made, started
\* and sync while results are read.
FailureHasACause ==
    [][\A p \in Procs : WaitReturns(p) /\ call[p].failed => call[p].ctx \in canceled]_call

\* A wait that reports no error has waited for every informer started before it.
SuccessIsSynced ==
    [][\A p \in Procs : WaitReturns(p) /\ ~call[p].failed => call[p].due \subseteq synced]_call

\* With all contexts done every call returns: no goroutine waits for itself in a
\* constructor, and nobody shuts down for ever.
EveryCallReturns ==
    \A p \in Procs : (~At(p, "idle") /\ canceled = Contexts) ~> At(p, "idle")

\* factory.go:310: it "blocks until all started informers' caches were synced", and not
\* for informers that nobody has started.
Waiting(p) == At(p, "snapshot") \/ At(p, "wait") \/ At(p, "read")

WaitsForStartedOnly ==
    \A p \in Procs :
        (Waiting(p) /\ started \subseteq synced) ~> (~Waiting(p) \/ ~(started \subseteq synced))
=============================================================================
