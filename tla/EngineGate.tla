----------------------------- MODULE EngineGate ------------------------------
(***************************************************************************)
(* The engine gates of packages/runtime/src/kernel: the handlers of the    *)
(* plugin graph decide whether the engine may compile or run something.    *)
(* A handler that forgets to await next() must not let an allow escape     *)
(* before its downstream has decided.                                      *)
(*                                                                         *)
(* Frame k runs handler k of the snapshot; the frame after the last handler*)
(* denies.  A frame is none, queued (its microtask is pending), open (the  *)
(* handler runs), returned (its promise has settled, the frame has not     *)
(* gone on), waiting (for the downstream frame) or done.                   *)
(***************************************************************************)
EXTENDS Naturals, FiniteSets

CONSTANTS
    Gates,        \* the requests of the instance
    Handlers,     \* the handlers of the first graph; later graphs have none
    MaxGates,     \* limit on the controllers in use (32 in the code)
    MaxGraph      \* bound on the graph revisions

ASSUME GateAssumption ==
    /\ IsFiniteSet(Gates)
    /\ Handlers \in Nat /\ MaxGates \in Nat /\ MaxGraph \in Nat

VARIABLES
    gates,        \* the executions of dispatchEngineGateV1
    graph,        \* #revision
    leases,       \* #inflight
    drained,      \* the promise of drainPluginGraph(r)
    gatesClosed   \* #closed

gateVars == <<gates, graph, leases, drained, gatesClosed>>

GateFrames == 0 .. Handlers

NoGate ==
    [status |-> "idle", rev |-> 0, aborted |-> FALSE, closed |-> FALSE, denial |-> FALSE,
     frame |-> [k \in GateFrames |-> "none"], called |-> {},
     raw |-> [k \in GateFrames |-> "none"], decision |-> "none"]

GateInit ==
    /\ gates = [g \in Gates |-> NoGate]
    /\ graph = 0
    /\ leases = [r \in 0 .. MaxGraph |-> 0]
    /\ drained = [r \in 0 .. MaxGraph |-> "none"]
    /\ gatesClosed = FALSE

HandlersOf(r) == IF r = 0 THEN Handlers ELSE 0

GateInUse == {g \in Gates : gates[g].status = "leased"}

Stopped(e) == e.closed \/ e.aborted

FramesActive(e) == \E k \in GateFrames : e.frame[k] \in {"queued", "open", "returned", "waiting"}

UpdateGate(g, e) ==
    gates' = [gates EXCEPT ![g] = e] /\ UNCHANGED <<graph, leases, drained, gatesClosed>>

FrameEnds(e, k, decision) ==
    [e EXCEPT !.frame[k] = "done", !.raw[k] = decision,
              !.denial = @ \/ decision = "deny"]

-----------------------------------------------------------------------------
\* decide(): the snapshot and its lease are taken in the caller's turn.
GateOpens(g) ==
    /\ gates[g].status = "idle"
    /\ ~gatesClosed
    /\ Cardinality(GateInUse) < MaxGates
    /\ gates' = [gates EXCEPT ![g] = [NoGate EXCEPT !.status = "leased", !.rev = graph,
                                                    !.frame[0] = "queued"]]
    /\ leases' = [leases EXCEPT ![graph] = @ + 1]
    /\ UNCHANGED <<graph, drained, gatesClosed>>

GateRefused(g) ==
    /\ gates[g].status = "idle"
    /\ gatesClosed \/ Cardinality(GateInUse) >= MaxGates
    /\ UpdateGate(g, [NoGate EXCEPT !.status = "released", !.decision = "deny"])

FrameRuns(g, k) ==
    LET e == gates[g] IN
    /\ e.frame[k] = "queued"
    /\ UpdateGate(g, IF Stopped(e) \/ k >= HandlersOf(e.rev)
                     THEN FrameEnds(e, k, "deny")
                     ELSE [e EXCEPT !.frame[k] = "open"])

\* next(): once, while the frame is open; anything else denies.
GateNext(g, k) ==
    LET e == gates[g] IN
    /\ k < HandlersOf(e.rev)
    /\ e.frame[k] \in {"open", "returned", "waiting", "done"}
    /\ UpdateGate(g, IF Stopped(e) \/ e.frame[k] = "done" \/ k \in e.called
                     THEN [e EXCEPT !.denial = TRUE]
                     ELSE [e EXCEPT !.called = @ \cup {k}, !.frame[k + 1] = "queued"])

\* The handler's promise settles; "deny" also stands for a throw and for a
\* value that is no decision.
HandlerReturns(g, k, decision) ==
    LET e == gates[g] IN
    /\ e.frame[k] = "open"
    /\ UpdateGate(g, [e EXCEPT !.frame[k] = "returned", !.raw[k] = decision])

(* Mutant: an allow does not wait for a next() the handler forgot *)
FrameResumesAtOnce(g, k) ==
    LET e == gates[g] IN
    /\ e.frame[k] = "returned"
    /\ UpdateGate(g, FrameEnds(e, k, IF Stopped(e) \/ e.raw[k] = "deny" \/ e.denial
                                     THEN "deny" ELSE "allow"))

FrameResumes(g, k) ==
    LET e == gates[g] IN
    /\ e.frame[k] = "returned"
    /\ UpdateGate(g, IF Stopped(e) \/ e.raw[k] = "deny" \/ e.denial
                     THEN FrameEnds(e, k, "deny")
                     ELSE IF k \in e.called THEN [e EXCEPT !.frame[k] = "waiting"]
                     ELSE FrameEnds(e, k, "allow"))

FrameJoins(g, k) ==
    LET e == gates[g] IN
    /\ e.frame[k] = "waiting"
    /\ e.frame[k + 1] = "done"
    /\ UpdateGate(g, FrameEnds(e, k, IF Stopped(e) \/ e.denial THEN "deny" ELSE "allow"))

\* The race of the first frame and the cancellation; a denial aborts what
\* still runs.
Decide(g) ==
    LET e == gates[g] IN
    /\ e.status # "idle" /\ e.decision = "none"
    /\ e.frame[0] = "done" \/ e.aborted
    /\ LET decision == IF e.frame[0] = "done" THEN e.raw[0] ELSE "deny"
       IN  UpdateGate(g, [e EXCEPT !.decision = decision, !.closed = TRUE,
                                   !.aborted = @ \/ decision = "deny"])

\* The lease settles when every frame that was started is over.
GateSettles(g) ==
    LET e == gates[g] IN
    /\ e.status = "leased"
    /\ e.closed
    /\ ~FramesActive(e)
    /\ gates' = [gates EXCEPT ![g].status = "released"]
    /\ leases' = [leases EXCEPT ![e.rev] = @ - 1]
    /\ drained' = [drained EXCEPT ![e.rev] = IF leases[e.rev] = 1 /\ @ = "waiting"
                                             THEN "resolved" ELSE @]
    /\ UNCHANGED <<graph, gatesClosed>>

\* The abort listener: the lease closes before the decision is delivered.
Cancelled(e) == [e EXCEPT !.aborted = TRUE, !.closed = TRUE, !.denial = TRUE]

CancelGate(g) ==
    /\ gates[g].status = "leased" /\ gates[g].decision = "none"
    /\ ~gates[g].aborted
    /\ UpdateGate(g, Cancelled(gates[g]))

CloseGates ==
    /\ ~gatesClosed
    /\ gatesClosed' = TRUE
    /\ gates' = [g \in Gates |->
                    IF g \notin GateInUse THEN gates[g]
                    ELSE IF gates[g].decision = "none" THEN Cancelled(gates[g])
                    ELSE [gates[g] EXCEPT !.aborted = TRUE]]
    /\ UNCHANGED <<graph, leases, drained>>

PublishGraph ==
    /\ ~gatesClosed
    /\ graph < MaxGraph
    /\ graph' = graph + 1
    /\ UNCHANGED <<gates, leases, drained, gatesClosed>>

DrainGraph(r) ==
    /\ r < graph
    /\ drained[r] = "none"
    /\ drained' = [drained EXCEPT ![r] = IF leases[r] = 0 THEN "resolved" ELSE "waiting"]
    /\ UNCHANGED <<gates, graph, leases, gatesClosed>>

GateStep(g) ==
    \/ GateOpens(g) \/ GateRefused(g) \/ Decide(g) \/ GateSettles(g) \/ CancelGate(g)
    \/ \E k \in GateFrames :
          \/ FrameRuns(g, k) \/ GateNext(g, k) \/ FrameResumes(g, k) \/ FrameJoins(g, k)
          \/ \E decision \in {"allow", "deny"} : HandlerReturns(g, k, decision)

\* No lease is held and nobody waits for a drain.
GateRest ==
    /\ GateInUse = {}
    /\ \A g \in Gates : gates[g].status # "idle" => gates[g].decision # "none"
    /\ \A r \in 0 .. MaxGraph : drained[r] # "waiting"
    /\ UNCHANGED gateVars

GateMove ==
    \/ \E g \in Gates : GateStep(g)
    \/ \E r \in 0 .. MaxGraph : DrainGraph(r)
    \/ PublishGraph
    \/ CloseGates
    \/ GateRest

GateSpec == GateInit /\ [][GateMove]_gateVars

-----------------------------------------------------------------------------
(* A gate allows only what every handler that was reached allowed, the ones*)
(* behind a next() that nobody awaited included, and a graph is drained    *)
(* only when none of its frames is left ("its downstream denial still      *)
(* participates before any allow can escape the boundary").                *)
GateFailsClosed ==
    \A g \in Gates :
        /\ gates[g].decision = "allow" =>
              /\ gates[g].frame[0] = "done"
              /\ \A k \in GateFrames :
                    \/ gates[g].frame[k] = "none"
                    \/ gates[g].frame[k] = "done" /\ gates[g].raw[k] = "allow"
        /\ FramesActive(gates[g]) => drained[gates[g].rev] # "resolved"
=============================================================================
