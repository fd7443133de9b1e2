-------------------------- MODULE CapabilityBroker --------------------------
(***************************************************************************)
(* The capability invocation broker of packages/runtime/src/kernel: every  *)
(* host call a guest makes passes through a chain of middleware frames to   *)
(* one provider.  The caller gets the first terminal; what was started goes *)
(* on behind it, and the frame lease keeps the invocation's middleware      *)
(* graph, its storage slot and its resources until the last frame is over.  *)
(*                                                                          *)
(* An invocation's frames are numbered 0..depth: a frame below depth is a   *)
(* middleware, the frame at depth is the provider.  A frame is              *)
(*   none, queued            not reached; start() waits for its microtask   *)
(*   dropped                 refused by dispatch, its code never ran        *)
(*   open                    middleware running, its race undecided         *)
(*   checkpoint              the provider waits for its host task           *)
(*   preflight, started      its preflight runs; its I/O runs               *)
(*   returned, answered      the race is won, its continuation is queued    *)
(*   late, checkpointLate, preflightLate, startedLate                       *)
(*                           the frame lost its race but the work goes on   *)
(*   done                    nothing of the frame is left                   *)
(* A value is "own" (made by a middleware), "inner" (the provider's result, *)
(* as it is or as a facade of it) or "fail".                                *)
(***************************************************************************)
EXTENDS Naturals, FiniteSets, Sequences, SequencesExt

CONSTANTS
    Invocations,   \* the host calls of the instance
    Bindings,      \* the binding ids providers mint
    Grants,        \* sequences of bindings one provider terminal may carry
    CallScenarios, \* what the calls are and what happens around them
    MaxRevision,   \* bound on the plugin graph revisions
    MaxDepth,      \* bound on the middleware an invocation matches
    MaxPending     \* sandboxPolicy.storage.limits.maxPendingOperations

\* kind: what each call does to the resource registry; mode: how it is made;
\* planned: its provider's preflight returns a plan; chain: how many middleware
\* match under each graph revision; timed: those that have a timeoutMs; events:
\* what the runtime and the host do meanwhile.
Plans ==
    [kind    : [Invocations -> {"open", "share", "close", "storage"}],
     mode    : [Invocations -> {"async", "sync", "syncLate"}],
     planned : [Invocations -> BOOLEAN],
     chain   : [0 .. MaxRevision -> 0 .. MaxDepth],
     timed   : SUBSET (0 .. MaxDepth),
     events  : SUBSET {"cancel", "close", "release", "graph"}]

ASSUME BrokerAssumption ==
    /\ IsFiniteSet(Invocations) /\ CallScenarios \subseteq Plans
    /\ MaxRevision \in Nat /\ MaxPending \in Nat /\ MaxDepth \in Nat
    /\ Grants \subseteq Seq(Bindings)

None == "none"

\* What the registry holds for a binding that is not registered.
Absent == [owner |-> None, references |-> 0]

Revisions == 0 .. MaxRevision

FrameIds == 0 .. MaxDepth

Settling == {"late", "checkpointLate", "preflightLate", "startedLate"}
Racing   == {"open", "checkpoint", "preflight", "started"}
InFlight == {"queued", "returned", "answered"} \cup Racing \cup Settling

VARIABLES
    plan,            \* the scenario of the behaviour
    closed,          \* #controller.signal.aborted
    inv,             \* the executions, with their leases
    registry,        \* the resource registry: binding -> record or Absent
    closes,          \* how often each granted resource's close() was called
    storagePending,  \* #storagePending
    revision,        \* #pluginGraphRevision
    inflight,        \* #inflight: revision -> unreleased snapshots
    drain            \* the promise of drainPluginGraph(r)

brokerVars ==
    <<plan, closed, inv, registry, closes, storagePending, revision, inflight, drain>>

Fresh ==
    [status |-> "idle", kind |-> None, mode |-> None, rev |-> 0, depth |-> 0,
     target |-> None, aborted |-> FALSE, poisoned |-> FALSE,
     frame |-> [k \in FrameIds |-> "none"], out |-> [k \in FrameIds |-> None],
     called |-> {}, entered |-> 0, io |-> 0, completed |-> FALSE, grant |-> <<>>, owned |-> FALSE,
     published |-> FALSE, result |-> None]

BrokerInit ==
    /\ plan \in CallScenarios
    /\ closed = FALSE
    /\ inv = [i \in Invocations |-> Fresh]
    /\ registry = [b \in Bindings |-> Absent]
    /\ closes = [r \in Invocations \X Bindings |-> 0]
    /\ storagePending = 0
    /\ revision = 0
    /\ inflight = [r \in Revisions |-> 0]
    /\ drain = [r \in Revisions |-> "none"]

-----------------------------------------------------------------------------
(* The resource registry                                                    *)

Resources(i, bs) == {<<i, b>> : b \in bs}

\* The bindings of a grant that publish() enters before it meets one that is
\* taken: all of them when none is.
Entered(grant) ==
    LET taken == {n \in DOMAIN grant : registry[grant[n]] # Absent}
    IN  {grant[n] : n \in {m \in DOMAIN grant : \A t \in taken : m < t}}

Publishable(grant) == \A n \in DOMAIN grant : registry[grant[n]] = Absent

WithPublished(i, grant) ==
    [b \in Bindings |-> IF b \in Entered(grant)
                        THEN [owner |-> i, references |-> 1] ELSE registry[b]]

\* release(): the record goes, and its resource is closed, with the last
\* reference.
Released(b) ==
    IF registry[b].references > 1 THEN [registry EXCEPT ![b].references = @ - 1]
                                  ELSE [registry EXCEPT ![b] = Absent]

ReleasedResource(b) ==
    IF registry[b].references > 1 THEN {} ELSE {<<registry[b].owner, b>>}

ClosedOnce(rs) == closes' = [r \in DOMAIN closes |->
                                IF r \in rs THEN closes[r] + 1 ELSE closes[r]]

-----------------------------------------------------------------------------
(* Helpers on one execution                                                 *)

LeaseClosed(i) == inv[i].status \notin {"idle", "running"}

LeasePending(e) == \E k \in FrameIds : e.frame[k] \in InFlight

\* The invocations whose linked signal still listens to the runtime's.
Linked(i) == inv[i].status \in {"running", "returned", "closing"}

Update(i, e) == inv' = [inv EXCEPT ![i] = e]

Fails(e, k, f) == [e EXCEPT !.frame[k] = f, !.out[k] = "fail"]

Abort(e) == [e EXCEPT !.aborted = TRUE]

Detached(f) == CASE f = "open"       -> "late"
                 [] f = "checkpoint" -> "checkpointLate"
                 [] f = "preflight"  -> "preflightLate"
                 [] f = "started"    -> "startedLate"

Broker == <<plan, closed, registry, closes, storagePending, revision, inflight, drain>>

-----------------------------------------------------------------------------
(* Invocations begin                                                        *)

Prepared(kind, target) ==
    /\ ~closed
    /\ IF kind \in {"close", "share"} THEN target \in Bindings ELSE target = None
    /\ kind = "close" => registry[target] # Absent

Execution(kind, mode, target) ==
    [Fresh EXCEPT !.status = "running", !.kind = kind, !.mode = mode, !.rev = revision,
                  !.depth = IF kind = "close" THEN 0 ELSE plan.chain[revision],
                  !.target = target]

InvokeTracked(i, kind, target) ==
    /\ plan.mode[i] = "async"
    /\ inv[i].status = "idle"
    /\ Prepared(kind, target)
    /\ kind = "storage" => storagePending < MaxPending
    /\ Update(i, [Execution(kind, "async", target) EXCEPT !.frame[0] = "queued"])
    /\ inflight' = [inflight EXCEPT ![revision] = @ + 1]
    /\ storagePending' = IF kind = "storage" THEN storagePending + 1 ELSE storagePending
    /\ UNCHANGED <<plan, closed, registry, closes, revision, drain>>

\* prepare() throws, or the storage slots are taken and the snapshot is
\* released on the spot.
Refused(i, kind) ==
    /\ inv[i].status = "idle"
    /\ closed \/ (kind = "storage" /\ storagePending >= MaxPending)
    /\ Update(i, [Fresh EXCEPT !.status = "settled", !.kind = kind, !.result = "fail"])
    /\ UNCHANGED Broker

-----------------------------------------------------------------------------
(* executeCapabilityAsyncV1: the middleware frames                          *)

Dispatch(i, k) ==
    LET e == inv[i] IN
    /\ e.frame[k] = "queued"
    /\ Update(i, IF LeaseClosed(i) \/ e.aborted
                 THEN Fails(e, k, "dropped")
                 ELSE [e EXCEPT !.frame[k] = IF k < e.depth THEN "open" ELSE "checkpoint"])
    /\ UNCHANGED Broker

(* Mutant: a second next() runs the rest of the chain again *)
CallNextAgain(i, k) ==
    LET e == inv[i] IN
    /\ k < e.depth
    /\ e.frame[k] \in {"open", "returned", "late", "done"}
    /\ Update(i, IF e.frame[k] \in {"late", "done"} \/ LeaseClosed(i)
                 THEN [Abort(e) EXCEPT !.poisoned = TRUE]
                 ELSE [e EXCEPT !.called = @ \cup {k}, !.frame[k + 1] = "queued"])
    /\ UNCHANGED Broker

\* next(): once per frame, while the frame and the lease are open; any other
\* call poisons the invocation.
CallNext(i, k) ==
    LET e == inv[i] IN
    /\ k < e.depth
    /\ e.frame[k] \in {"open", "returned", "late", "done"}
    /\ Update(i, IF k \in e.called \/ e.frame[k] \in {"late", "done"} \/ LeaseClosed(i)
                 THEN [Abort(e) EXCEPT !.poisoned = TRUE]
                 ELSE [e EXCEPT !.called = @ \cup {k}, !.frame[k + 1] = "queued"])
    /\ UNCHANGED Broker

MiddlewareReturns(i, k, v) ==
    LET e == inv[i] IN
    /\ k < e.depth
    /\ v = "inner" => e.frame[k + 1] = "done" /\ e.out[k + 1] = "inner"
    /\ \/ /\ e.frame[k] = "open"
          /\ ~e.aborted
          /\ Update(i, [e EXCEPT !.frame[k] = "returned", !.out[k] = v])
       \/ /\ e.frame[k] = "late"
          /\ v = "own"
          /\ Update(i, [e EXCEPT !.frame[k] = "done"])
    /\ UNCHANGED Broker

\* The continuation of a won race.  The signal is not looked at again.
FrameContinues(i, k) ==
    LET e == inv[i]
        v == IF e.poisoned THEN "fail" ELSE e.out[k]
    IN  /\ e.frame[k] = "returned"
        /\ Update(i, [e EXCEPT !.frame[k] = "done", !.out[k] = v,
                               !.aborted = @ \/ v = "fail"])
        /\ UNCHANGED Broker

\* The abort listener of race() rejects the frame; its work goes on.
FrameAborts(i, k) ==
    LET e == inv[i] IN
    /\ e.frame[k] \in Racing
    /\ e.aborted
    /\ Update(i, Fails(e, k, Detached(e.frame[k])))
    /\ UNCHANGED Broker

(* Mutant: the provider's race has no deadline *)
FrameTimesOutMiddleware(i, k) ==
    LET e == inv[i] IN
    /\ e.frame[k] = "open" /\ k \in plan.timed
    /\ ~e.aborted
    /\ Update(i, Abort(Fails(e, k, Detached(e.frame[k]))))
    /\ UNCHANGED Broker

\* The timer of race(): a provider always has one, a middleware only with a
\* timeoutMs of its own.
FrameTimesOut(i, k) ==
    LET e == inv[i] IN
    /\ e.frame[k] \in Racing
    /\ e.frame[k] = "open" => k \in plan.timed
    /\ ~e.aborted
    /\ Update(i, Abort(Fails(e, k, Detached(e.frame[k]))))
    /\ UNCHANGED Broker

-----------------------------------------------------------------------------
(* asyncProvider                                                            *)

\* setTimeout(0): same-turn middleware reactions are over before the provider
\* is entered, at its preflight.
Checkpoint(i, k) ==
    LET e == inv[i] IN
    /\ \/ /\ e.frame[k] = "checkpoint"
          /\ ~e.aborted
          /\ Update(i, [e EXCEPT !.frame[k] = "preflight", !.entered = @ + 1])
       \/ /\ e.frame[k] = "checkpointLate"
          /\ Update(i, [e EXCEPT !.frame[k] = "done"])
    /\ UNCHANGED Broker

\* The preflight has resolved.  Without a plan invoke() follows, and nobody
\* looks at the signal again; with one, consume() does just before execute().
StartIo(i, k) ==
    LET e == inv[i] IN
    /\ e.frame[k] \in {"preflight", "preflightLate"}
    /\ plan.planned[i] => ~e.aborted
    /\ Update(i, [e EXCEPT !.io = @ + 1,
                           !.frame[k] = IF @ = "preflight" THEN "started" ELSE "startedLate"])
    /\ UNCHANGED Broker

\* authority.complete(): refused after an abort and the second time.
Complete(i, k, grant) ==
    LET e == inv[i] IN
    /\ e.frame[k] = "started"
    /\ ~e.aborted /\ ~e.completed
    /\ grant # <<>> <=> e.kind = "open"
    /\ Update(i, [e EXCEPT !.completed = TRUE, !.grant = grant])
    /\ UNCHANGED Broker

\* The provider's promise resolves: ownsTerminal runs although the race is
\* lost, and before the lease settles.
ProviderAnswers(i, k) ==
    LET e == inv[i] IN
    /\ e.frame[k] \in {"started", "startedLate"}
    /\ e.completed
    /\ e.frame[k] = "started" => ~e.aborted
    /\ Update(i, [e EXCEPT !.owned = TRUE,
                           !.frame[k] = IF @ = "started" THEN "answered" ELSE "done"])
    /\ UNCHANGED Broker

\* The provider's promise rejects, from its preflight, its plan or its I/O;
\* what it granted is still its own.
ProviderFails(i, k) ==
    LET e == inv[i] IN
    /\ \/ /\ e.frame[k] \in {"preflight", "started"} /\ ~e.aborted
          /\ Update(i, Fails(e, k, "done"))
       \/ /\ e.frame[k] \in {"preflightLate", "startedLate"}
          /\ Update(i, [e EXCEPT !.frame[k] = "done"])
    /\ UNCHANGED Broker

ProviderContinues(i, k) ==
    LET e == inv[i] IN
    /\ e.frame[k] = "answered"
    /\ Update(i, IF e.aborted THEN Fails(e, k, "done")
                 ELSE [e EXCEPT !.frame[k] = "done", !.out[k] = "inner"])
    /\ UNCHANGED Broker

-----------------------------------------------------------------------------
(* The result, and what settles behind it                                   *)

\* executeCapabilityAsyncV1 has an outcome for its caller.
Concluded(e) == e.status = "running" /\ e.out[0] # None /\ e.frame[0] # "returned"

\* The finally block: whatever still runs is aborted, the lease is closed.
Returned(e, result, published) ==
    [e EXCEPT !.status = "returned", !.result = result, !.published = published,
              !.aborted = @ \/ LeasePending(e)]

\* validate() refuses the value, or execute threw.
DeliverFailure(i) ==
    LET e == inv[i] IN
    /\ Concluded(e)
    /\ Update(i, Returned(e, "fail", FALSE))
    /\ UNCHANGED Broker

DeliverOwn(i) ==
    LET e == inv[i] IN
    /\ Concluded(e)
    /\ e.out[0] = "own"
    /\ Update(i, Returned(e, "ok", FALSE))
    /\ UNCHANGED Broker

\* The provider's value is validated and its resources are published; a
\* taken binding throws after the bindings before it were entered.
DeliverInner(i) ==
    LET e == inv[i] IN
    /\ Concluded(e)
    /\ e.out[0] = "inner"
    /\ e.kind \in {"open", "storage"}
    /\ registry' = WithPublished(i, e.grant)
    /\ Update(i, Returned(e, IF Publishable(e.grant) THEN "ok" ELSE "fail",
                             Publishable(e.grant)))
    /\ UNCHANGED <<plan, closed, closes, storagePending, revision, inflight, drain>>

\* The result is a facade of a binding that is already registered.
DeliverShared(i) ==
    LET e == inv[i] IN
    /\ Concluded(e)
    /\ e.out[0] = "inner"
    /\ e.kind = "share"
    /\ IF registry[e.target] = Absent
       THEN Update(i, Returned(e, "fail", FALSE)) /\ UNCHANGED registry
       ELSE /\ Update(i, Returned(e, "ok", TRUE))
            /\ registry' = [registry EXCEPT ![e.target].references = @ + 1]
    /\ UNCHANGED <<plan, closed, closes, storagePending, revision, inflight, drain>>

\* A close operation gives its binding back once the provider has answered.
DeliverClose(i) ==
    LET e == inv[i] IN
    /\ Concluded(e)
    /\ e.out[0] = "inner"
    /\ e.kind = "close"
    /\ IF registry[e.target] = Absent
       THEN Update(i, Returned(e, "fail", FALSE)) /\ UNCHANGED <<registry, closes>>
       ELSE /\ Update(i, Returned(e, "ok", TRUE))
            /\ ClosedOnce(ReleasedResource(e.target))
            /\ registry' = Released(e.target)
    /\ UNCHANGED <<plan, closed, storagePending, revision, inflight, drain>>

Settled(e) ==
    [Fresh EXCEPT !.status = "settled", !.mode = e.mode, !.rev = e.rev,
                  !.grant = e.grant, !.owned = e.owned]

(* Mutant: the settlement closes resources only of calls that failed *)
UnpublishedOnFailure(e) ==
    IF e.owned /\ ~e.published /\ e.result = "fail" THEN ToSet(e.grant) ELSE {}

\* The resources the settlement closes.  invokeSync decides before a late
\* promise has resolved, so it never sees that terminal.
Unpublished(e) ==
    IF e.owned /\ ~e.published /\ e.mode # "syncLate" THEN ToSet(e.grant) ELSE {}

SettleInvocation(i) ==
    LET e == inv[i] IN
    /\ e.status = "returned"
    /\ ~LeasePending(e)
    /\ ClosedOnce(Resources(i, Unpublished(e)))
    /\ Update(i, [e EXCEPT !.status = "closing"])
    /\ UNCHANGED <<plan, closed, registry, storagePending, revision, inflight, drain>>

(* Mutant: releasing the last snapshot wakes nobody *)
CleanupUnnoticed(i) ==
    LET e == inv[i] IN
    /\ e.status = "closing"
    /\ Update(i, Settled(e))
    /\ inflight' = [inflight EXCEPT ![e.rev] = @ - 1]
    /\ storagePending' = IF e.kind = "storage" /\ e.mode = "async"
                         THEN storagePending - 1 ELSE storagePending
    /\ UNCHANGED <<plan, closed, registry, closes, revision, drain>>

\* execution.cleanup() and the storage slot, after every close() has resolved.
\* Of the execution only what happened to its resources is kept.
Cleanup(i) ==
    LET e == inv[i] IN
    /\ e.status = "closing"
    /\ Update(i, Settled(e))
    /\ inflight' = [inflight EXCEPT ![e.rev] = @ - 1]
    /\ drain' = [drain EXCEPT ![e.rev] = IF inflight[e.rev] = 1 /\ @ = "waiting"
                                         THEN "resolved" ELSE @]
    /\ storagePending' = IF e.kind = "storage" /\ e.mode = "async"
                         THEN storagePending - 1 ELSE storagePending
    /\ UNCHANGED <<plan, closed, registry, closes, revision>>

-----------------------------------------------------------------------------
(* invokeSync: one turn, with what a misbehaving sync provider leaves        *)

\* Middleware and provider return in the turn.  An unpublished resource is
\* closed by a tracked microtask, so the snapshot stays until it has run.
InvokeSync(i, kind, target, grant, v) ==
    LET e == [Execution(kind, "sync", target) EXCEPT
                  !.entered = 1, !.io = 1, !.completed = TRUE, !.grant = grant,
                  !.owned = TRUE]
        ok == v = "inner" /\ Publishable(grant)
        settledNow == grant = <<>> \/ ok
    IN  /\ plan.mode[i] = "sync"
        /\ inv[i].status = "idle"
        /\ kind \in {"open", "storage"}
        /\ Prepared(kind, target)
        /\ grant # <<>> <=> kind = "open"
        /\ v = "own" => e.depth > 0
        /\ registry' = IF v = "inner" THEN WithPublished(i, grant) ELSE registry
        /\ Update(i, [e EXCEPT !.status = IF settledNow THEN "settled" ELSE "returned",
                               !.result = IF ok \/ v = "own" THEN "ok" ELSE "fail",
                               !.published = ok, !.aborted = ~settledNow])
        /\ inflight' = IF settledNow THEN inflight
                       ELSE [inflight EXCEPT ![revision] = @ + 1]
        /\ UNCHANGED <<plan, closed, closes, storagePending, revision, drain>>

\* A provider registered as sync completed its authority and returned a
\* promise: the call throws runtime.async_required and the promise is tracked.
InvokeSyncLate(i, grant) ==
    LET e == Execution("open", "syncLate", None) IN
    /\ plan.mode[i] = "syncLate"
    /\ inv[i].status = "idle"
    /\ Prepared("open", None)
    /\ grant # <<>>
    /\ Update(i, [e EXCEPT !.status = "returned", !.result = "fail", !.aborted = TRUE,
                           !.entered = 1, !.io = 1, !.completed = TRUE, !.grant = grant,
                           !.frame[e.depth] = "startedLate"])
    /\ inflight' = [inflight EXCEPT ![revision] = @ + 1]
    /\ UNCHANGED <<plan, closed, registry, closes, storagePending, revision, drain>>

-----------------------------------------------------------------------------
(* The runtime around the invocations                                       *)

\* invocation.signal: the caller gives up.
Cancel(i) ==
    /\ "cancel" \in plan.events
    /\ inv[i].status = "running"
    /\ ~inv[i].aborted
    /\ Update(i, Abort(inv[i]))
    /\ UNCHANGED Broker

\* close(): every linked signal aborts and every registered resource closes.
Close ==
    /\ "close" \in plan.events
    /\ ~closed
    /\ closed' = TRUE
    /\ inv' = [i \in Invocations |-> IF Linked(i) THEN Abort(inv[i]) ELSE inv[i]]
    /\ ClosedOnce({<<registry[b].owner, b>> : b \in {c \in Bindings : registry[c] # Absent}})
    /\ registry' = [b \in Bindings |-> Absent]
    /\ UNCHANGED <<plan, storagePending, revision, inflight, drain>>

ReleaseResource(b) ==
    /\ "release" \in plan.events
    /\ registry[b] # Absent
    /\ ClosedOnce(ReleasedResource(b))
    /\ registry' = Released(b)
    /\ UNCHANGED <<plan, closed, inv, storagePending, revision, inflight, drain>>

PublishPluginGraph ==
    /\ "graph" \in plan.events
    /\ revision < MaxRevision
    /\ revision' = revision + 1
    /\ UNCHANGED <<plan, closed, inv, registry, closes, storagePending, inflight, drain>>

DrainPluginGraph(r) ==
    /\ r < revision
    /\ drain[r] = "none"
    /\ drain' = [drain EXCEPT ![r] = IF inflight[r] = 0 THEN "resolved" ELSE "waiting"]
    /\ UNCHANGED <<plan, closed, inv, registry, closes, storagePending, revision, inflight>>

-----------------------------------------------------------------------------

Microtask(i) ==
    \/ \E k \in FrameIds : Dispatch(i, k) \/ FrameContinues(i, k) \/ FrameAborts(i, k)
                           \/ ProviderContinues(i, k)
    \/ DeliverFailure(i) \/ DeliverOwn(i) \/ DeliverInner(i) \/ DeliverShared(i)
    \/ DeliverClose(i) \/ SettleInvocation(i) \/ Cleanup(i)

Timer(i) == \E k \in FrameIds : FrameTimesOut(i, k) \/ Checkpoint(i, k)

Host(i) ==
    \E k \in FrameIds :
        \/ CallNext(i, k)
        \/ \E v \in {"own", "inner", "fail"} : MiddlewareReturns(i, k, v)
        \/ \E grant \in Grants \cup {<<>>} : Complete(i, k, grant)
        \/ StartIo(i, k)
        \/ ProviderAnswers(i, k)
        \/ ProviderFails(i, k)

Begin(i) ==
    LET kind == plan.kind[i] IN
        \/ Refused(i, kind)
        \/ \E target \in Bindings \cup {None} : InvokeTracked(i, kind, target)
        \/ \E grant \in Grants \cup {<<>>}, v \in {"own", "inner"} :
               InvokeSync(i, kind, None, grant, v)
        \/ \E grant \in Grants : InvokeSyncLate(i, grant)

\* Nothing runs and nobody waits for a drain: the broker rests.
Rest ==
    /\ \A i \in Invocations : ~Linked(i)
    /\ \A r \in Revisions : drain[r] # "waiting"
    /\ UNCHANGED brokerVars

BrokerNext ==
    \/ \E i \in Invocations : Begin(i) \/ Microtask(i) \/ Timer(i) \/ Host(i) \/ Cancel(i)
    \/ \E b \in Bindings : ReleaseResource(b)
    \/ \E r \in Revisions : DrainPluginGraph(r)
    \/ PublishPluginGraph
    \/ Close
    \/ Rest

\* Promise reactions and expired timers run.  Nothing makes a middleware or
\* a provider return: their promises are the host's.
BrokerFairness ==
    \A i \in Invocations : WF_brokerVars(Microtask(i)) /\ WF_brokerVars(Timer(i))

BrokerSpec == BrokerInit /\ [][BrokerNext]_brokerVars /\ BrokerFairness

-----------------------------------------------------------------------------
(* Properties                                                               *)

Registered(i, b) == registry[b] # Absent /\ registry[b].owner = i

(* A resource that a provider handed over is closed at most once and never *)
(* while it is registered, and when its invocation has settled it is one   *)
(* or the other: short circuits, late answers, refused values, taken       *)
(* bindings and cancellations all end in the settlement of invokeTracked.  *)
(* A provider that is registered as sync and answers with a promise is the *)
(* exception: invokeSync never looks at what that promise brings.          *)
ResourcesAccounted ==
    \A i \in Invocations : \A b \in ToSet(inv[i].grant) :
        inv[i].owned /\ inv[i].mode # "syncLate" =>
            /\ closes[<<i, b>>] <= IF Registered(i, b) THEN 0 ELSE 1
            /\ inv[i].status = "settled" => Registered(i, b) \/ closes[<<i, b>>] = 1

(* The lease retains what running work needs until that work is over, the   *)
(* frames nobody waits for included: the drain of a plugin graph resolves   *)
(* only when no frame of its invocations is left, for the host disposes the *)
(* graph next, and waits for nothing else; and the storage limit bounds the *)
(* work that is running, not the results that are awaited (rfcs/0001,       *)
(* middleware.md:124).                                                      *)
LeaseRetains ==
    /\ \A i \in Invocations :
          /\ LeasePending(inv[i]) => Linked(i)
          /\ Linked(i) => drain[inv[i].rev] # "resolved"
    /\ \A r \in Revisions :
          drain[r] = "waiting" => \E i \in Invocations : Linked(i) /\ inv[i].rev = r
    /\ storagePending = Cardinality({i \in Invocations : /\ Linked(i)
                                                         /\ inv[i].kind = "storage"
                                                         /\ inv[i].mode = "async"})
    /\ storagePending <= MaxPending

(* A provider is entered at most once for an invocation, and never after   *)
(* its result, an abort or the close of the broker, whatever middleware do *)
(* with next().  Its I/O starts at most once; with a plan it never starts  *)
(* after those either.  Without one it may: nothing looks at the signal    *)
(* again when the preflight has resolved.                                  *)
IoIsFenced ==
    [][\A i \in Invocations :
          LET e == inv[i]
              fenced == e.result = None /\ ~e.aborted /\ ~closed
          IN  /\ inv'[i].entered > e.entered => e.entered = 0 /\ fenced
              /\ inv'[i].io > e.io => e.io = 0 /\ (plan.planned[i] => fenced)]_brokerVars

\* Nothing of the call is left to do but by a middleware that has no timeout.
WaitsForMiddleware(e) ==
    /\ ~e.aborted /\ e.frame[0] = "open"
    /\ \A k \in FrameIds : e.frame[k] \in InFlight => e.frame[k] = "open" /\ k \notin plan.timed

(* Every call gets a result although nothing makes middleware or providers *)
(* return: the timers and the abort listeners end each race.  What remains *)
(* is a call that nobody aborts and that waits only for middleware without *)
(* a timeout.  (A call begins once, and a frame is reached once.)          *)
ResultArrives ==
    []<>(\A i \in Invocations : inv[i].status = "running" => WaitsForMiddleware(inv[i]))

(* Neither a leak nor a loss: every resource is closed or registered once  *)
(* its invocation has settled, and the lease keeps what running work needs.*)
ResourcesKept == ResourcesAccounted /\ LeaseRetains
=============================================================================
