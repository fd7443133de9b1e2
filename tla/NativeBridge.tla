----------------------------- MODULE NativeBridge -----------------------------
(***************************************************************************)
(* NativeBridgeController (packages/runtime/src/native-port/               *)
(* native-bridge.ts): requests and streams of the guest, dispatched to a   *)
(* platform provider through a NativePort, settled by tasks of the event   *)
(* loop.                                                                   *)
(*                                                                         *)
(* A call is named by its call token, a number.  The loop appears as what  *)
(* the bridge uses of it: a first-in first-out queue of macrotasks and     *)
(* native completions (EventLoop!ReadyTasksFifo) and deadline timers.  A   *)
(* provider token names one resource for ever: the provider numbers them   *)
(* in the order it grants them, and never grants one again once it was     *)
(* closed or revoked; it may wrongly list one that is in use.  Binaries    *)
(* weigh one handle of one byte.                                           *)
(*                                                                         *)
(* Operators on a state s, a record of all the variables, are the private  *)
(* methods; an action computes the state that a whole handler leaves.  Two *)
(* handlers call the provider in the middle of their work, where it may    *)
(* call back: failProviderWithUndelivered and terminateBridge.  They are   *)
(* frames on a stack, and take one step per provider call.                 *)
(***************************************************************************)
EXTENDS Integers, Sequences, FiniteSets

CONSTANTS
    Ids,                    \* request ids of the guest
    MaxCalls,               \* bound: call tokens
    MaxTokens,              \* bound: provider tokens
    MaxReads,               \* bound: next() calls on a stream
    MaxPendingRequests,     \* limits.maxPendingRequests
    MaxHandles,             \* limits.maxHandles
    MaxOpenResources,       \* limits.maxOpenResources
    MaxInFlight,            \* limits.maxInFlightBinaryHandles (and bytes)
    MaxCreditsPerStream,    \* limits.maxCreditsPerStream
    MaxOutstandingCredits,  \* limits.maxOutstandingCredits
    Modes,                  \* modes the guest uses: "result", "stream"
    Binaries,               \* binaries of one message: a subset of 0..1
    Deadlines               \* whether a call has a deadline: a subset of BOOLEAN

ASSUME LimitAssumption ==
    /\ MaxCalls \in Nat /\ MaxTokens \in Nat /\ MaxReads \in Nat
    /\ \A n \in {MaxPendingRequests, MaxHandles, MaxOpenResources, MaxInFlight,
                 MaxCreditsPerStream, MaxOutstandingCredits} : n \in Nat \ {0}
    /\ MaxCreditsPerStream <= MaxOutstandingCredits
    /\ Modes \subseteq {"result", "stream"}
    /\ Binaries \subseteq 0..1 /\ Deadlines \subseteq BOOLEAN

Calls == 1..MaxCalls
Tokens == 1..MaxTokens

VARIABLES
    calls,          \* PendingRequest of each call token
    nextCall,       \* callGeneration
    resources,      \* ResourceReservation, then ResourceRecord, of each token
    byToken,        \* keys of resourceByProviderToken
    inFlight,       \* inFlightBinaryHandles, inFlightBinaryBytes
    openHandles,    \* openHandles
    openResources,  \* openResources
    credits,        \* outstandingCredits
    queue,          \* the loop's queue of this bridge's tasks
    stack,          \* handlers that wait for a provider call to return
    disposed,       \* disposed
    held,           \* provider: who holds the resource behind each token
    strayClose      \* provider: a resource was closed that it did not hold

vars == <<calls, nextCall, resources, byToken, inFlight, openHandles, openResources,
          credits, queue, stack, disposed, held, strayClose>>

(* The variables as a state that the methods below transform *)
State == [calls |-> calls, resources |-> resources, byToken |-> byToken,
          inFlight |-> inFlight, openHandles |-> openHandles,
          openResources |-> openResources, credits |-> credits, queue |-> queue,
          stack |-> stack, held |-> held, strayClose |-> strayClose]

Becomes(s) ==
    /\ calls' = s.calls /\ resources' = s.resources /\ byToken' = s.byToken
    /\ inFlight' = s.inFlight /\ openHandles' = s.openHandles
    /\ openResources' = s.openResources /\ credits' = s.credits
    /\ queue' = s.queue /\ stack' = s.stack
    /\ held' = s.held /\ strayClose' = s.strayClose

(* The provider's view of a token; a positive number is the owning call.   *)
Fresh == 0
Closed == -1
Revoked == -2

NoCompletion == [kind |-> "none", binary |-> 0, grants |-> {}]
ErrorCompletion == [kind |-> "error", binary |-> 0, grants |-> {}]      \* of the provider
FailureCompletion == [kind |-> "failure", binary |-> 0, grants |-> {}]  \* of the bridge

UnusedCall ==
    [id           |-> "none",
     mode         |-> "result",
     state        |-> "unused",
     input        |-> 0,             \* inputBinaryHandles
     completion   |-> NoCompletion,
     deliveries   |-> {},
     nextSequence |-> 0,
     credits      |-> 0,
     readers      |-> <<>>,          \* what became of each next()
     registered   |-> FALSE,         \* loopRegistered
     deadline     |-> FALSE,         \* deadlineTimer
     cancelIssued |-> FALSE,         \* providerCancelIssued
     closedTokens |-> {},            \* undeliveredCleanup.closedTokens
     todo         |-> {},            \* undeliveredCleanup.queue
     outcome      |-> "none"]

NoResource == [status |-> "none", call |-> 0, revokeQueued |-> FALSE]

Init ==
    /\ calls = [c \in Calls |-> UnusedCall]
    /\ nextCall = 1
    /\ resources = [t \in Tokens |-> NoResource]
    /\ byToken = {}
    /\ inFlight = 0 /\ openHandles = 0 /\ openResources = 0 /\ credits = 0
    /\ queue = <<>>
    /\ stack = <<>>
    /\ disposed = FALSE
    /\ held = [t \in Tokens |-> Fresh]
    /\ strayClose = FALSE

-----------------------------------------------------------------------------
(* Tasks of the loop *)

Terminal(c) == [kind |-> "terminal", call |-> c, arg |-> 0]
Chunk(c, k) == [kind |-> "chunk", call |-> c, arg |-> k]
Revocation(c, t) == [kind |-> "revoke", call |-> c, arg |-> t]

InQueue(q, task) == \E i \in 1..Len(q) : q[i] = task

(* The queue once the tasks at these positions were cancelled *)
Cleared(q, gone) ==
    LET kept == DOMAIN q \ gone
    IN [n \in 1..Cardinality(kept) |->
           q[CHOOSE i \in kept : Cardinality({j \in kept : j < i}) = n - 1]]

(* Frames of the stack: terminateBridge, or the cleanup of a call *)
Termination == 0
OnStack(s, f) == \E i \in 1..Len(s.stack) : s.stack[i] = f
Push(s, f) == [s EXCEPT !.stack = Append(@, f)]
Pop(s) == [s EXCEPT !.stack = SubSeq(@, 1, Len(@) - 1)]
Top == stack[Len(stack)]

-----------------------------------------------------------------------------
(* Resources *)

IsCurrent(s, c) == s.calls[c].state = "active"
Locked(s, c) == s.calls[c].completion # NoCompletion

(* port.closeResource(c, t) for every t of T *)
CloseProviderResource(s, c, T) ==
    [s EXCEPT !.held = [t \in Tokens |-> IF t \in T /\ @[t] = c THEN Closed ELSE @[t]],
              !.strayClose = @ \/ \E t \in T :
                  /\ s.held[t] # c
                  /\ s.held[t] = Revoked => s.resources[t].revokeQueued]

(* The resources T leave the bridge with this status *)
Drop(s, T, status) ==
    [s EXCEPT !.resources = [t \in Tokens |->
                  IF t \in T THEN [@[t] EXCEPT !.status = status] ELSE @[t]],
              !.byToken = @ \ T,
              !.openHandles = @ - Cardinality(T),
              !.openResources = @ - Cardinality(T)]

HardCap == IF MaxHandles < MaxOpenResources THEN MaxHandles ELSE MaxOpenResources

(* Those of T that enqueueUndeliveredClose admits, in order *)
Admitted(closed, T) ==
    {t \in T \ closed :
        Cardinality(closed) + Cardinality({u \in T \ closed : u < t}) < HardCap}

(* closeUndeliveredGrants: a token that another call owns is left alone,   *)
(* one that this call owns is invalidated.  While the call is being        *)
(* cleaned the closes wait in its cleanup queue.                           *)
CloseUndeliveredGrants(s, c, T) ==
    LET mine == {t \in T : t \in s.byToken => s.resources[t].call = c}
        new == Admitted(s.calls[c].closedTokens, mine)
        s1 == [Drop(s, mine \cap s.byToken, "closed")
                  EXCEPT !.calls[c].closedTokens = @ \cup new]
    IN IF OnStack(s, c)
       THEN [s1 EXCEPT !.calls[c].todo = @ \cup new]
       ELSE CloseProviderResource(s1, c, new)

(* Mutant: a grant that was withdrawn is released again *)
ReleaseOutputAll(s, c, grants, binaries) ==
    LET s1 == [Drop(s, grants, "closed") EXCEPT !.inFlight = @ - binaries,
                                                !.openHandles = @ - binaries]
    IN CloseUndeliveredGrants(s1, c, {t \in grants : ~s.resources[t].revokeQueued})

(* Mutant: the provider is not told *)
ReleaseOutputQuietly(s, c, grants, binaries) ==
    [Drop(s, {t \in grants : s.resources[t].status = "reserved"}, "closed")
        EXCEPT !.inFlight = @ - binaries, !.openHandles = @ - binaries]

(* releaseOutput of all the outputs of call c that carry together these    *)
(* grants and binaries                                                     *)
ReleaseOutput(s, c, grants, binaries) ==
    LET reserved == {t \in grants : s.resources[t].status = "reserved"}
        s1 == [Drop(s, reserved, "closed") EXCEPT !.inFlight = @ - binaries,
                                                  !.openHandles = @ - binaries]
    IN CloseUndeliveredGrants(s1, c, {t \in reserved : ~s.resources[t].revokeQueued})

(* closeResource *)
CloseResource(s, t, notifyProvider) ==
    IF s.resources[t].status # "open" THEN s
    ELSE IF notifyProvider /\ ~s.resources[t].revokeQueued
         THEN CloseProviderResource(Drop(s, {t}, "closed"), s.resources[t].call, {t})
         ELSE Drop(s, {t}, "closed")

-----------------------------------------------------------------------------
(* Calls *)

(* Every next() in one of these states is answered *)
Answer(readers, states, answer) ==
    [i \in 1..Len(readers) |-> IF readers[i] \in states THEN answer ELSE readers[i]]

(* The undelivered outputs of a call *)
QueuedGrants(call) ==
    call.completion.grants \cup UNION {d.grants : d \in call.deliveries}
QueuedBinaries(call) ==
    call.completion.binary + Cardinality({d \in call.deliveries : d.binary = 1})

StreamHandle(call) == IF call.mode = "stream" THEN 1 ELSE 0

(* settleError, settleUnaryResult and settleStreamEnd, by way of           *)
(* releasePending; only an error answers the reader of a queued chunk.     *)
Settle(s, c, outcome) ==
    LET call == s.calls[c]
        settled == [call EXCEPT
            !.state = "settled", !.completion = NoCompletion, !.deliveries = {},
            !.credits = 0, !.registered = FALSE, !.deadline = FALSE,
            !.outcome = outcome,
            !.readers = IF outcome \in {"error", "failure"}
                        THEN Answer(@, {"waiting", "assigned"}, "error")
                        ELSE Answer(@, {"waiting"}, "end")]
        s1 == [s EXCEPT
            !.calls[c] = settled,
            !.queue = Cleared(@, {i \in DOMAIN @ : @[i].kind # "revoke" /\ @[i].call = c})]
        s2 == ReleaseOutput(s1, c, QueuedGrants(call), QueuedBinaries(call))
    IN [s2 EXCEPT !.inFlight = @ - call.input,
                  !.openHandles = @ - call.input - StreamHandle(call),
                  !.credits = @ - call.credits]

(* cancelPendingProvider *)
CancelProvider(s, c) == [s EXCEPT !.calls[c].cancelIssued = TRUE]

(* settleError followed by cancelPendingProvider *)
Abort(s, c) == CancelProvider(Settle(s, c, "failure"), c)

(* lockTerminal of a call that is current and not locked *)
LockTerminal(s, c, completion) ==
    [s EXCEPT !.calls[c].completion = completion,
              !.calls[c].credits = 0,
              !.credits = @ - s.calls[c].credits]

(* Mutant: the terminal overtakes queued chunks *)
ScheduleTerminalFirst(s, c) ==
    IF IsCurrent(s, c) /\ Locked(s, c)
    THEN [s EXCEPT !.calls[c].registered = FALSE, !.queue = <<Terminal(c)>> \o @]
    ELSE s

(* scheduleTerminal *)
ScheduleTerminal(s, c) ==
    IF IsCurrent(s, c) /\ Locked(s, c)
    THEN [s EXCEPT !.calls[c].registered = FALSE, !.queue = Append(@, Terminal(c))]
    ELSE s

(* Mutant: the failure is locked but never scheduled *)
FailProviderSilently(s, c) ==
    IF IsCurrent(s, c) /\ ~Locked(s, c)
    THEN CancelProvider(LockTerminal(s, c, FailureCompletion), c)
    ELSE s

(* failProvider *)
FailProvider(s, c) ==
    IF IsCurrent(s, c) /\ ~Locked(s, c)
    THEN ScheduleTerminal(CancelProvider(LockTerminal(s, c, FailureCompletion), c), c)
    ELSE s

(* failProviderWithUndelivered up to its first provider call *)
FailProviderWithUndelivered(s, c, grants) ==
    CloseUndeliveredGrants(Push(LockTerminal(s, c, FailureCompletion), c), c, grants)

(* reserveOutput: the quotas allow these grants and this binary *)
Fits(s, grants, binary) ==
    /\ s.inFlight + binary <= MaxInFlight
    /\ s.openResources + Cardinality(grants) <= MaxOpenResources
    /\ s.openHandles + binary + Cardinality(grants) <= MaxHandles

ReserveOutput(s, c, grants, binary) ==
    [s EXCEPT !.inFlight = @ + binary,
              !.openHandles = @ + binary + Cardinality(grants),
              !.openResources = @ + Cardinality(grants),
              !.byToken = @ \cup grants,
              !.resources = [t \in Tokens |->
                  IF t \in grants
                  THEN [status |-> "reserved", call |-> c, revokeQueued |-> FALSE]
                  ELSE @[t]]]

(* deliverOutput succeeds unless a grant was withdrawn in the meantime *)
Deliverable(s, grants) == \A t \in grants : s.resources[t].status = "reserved"

DeliverOutput(s, grants, binary) ==
    [s EXCEPT !.inFlight = @ - binary,
              !.openHandles = @ - binary,
              !.resources = [t \in Tokens |->
                  IF t \in grants THEN [@[t] EXCEPT !.status = "open"] ELSE @[t]]]

-----------------------------------------------------------------------------
(* Operations of the guest *)

GuestRuns == stack = <<>>

(* assertAdmissible of a call that needs these handles *)
Admissible(id, input, handles) ==
    LET pending == {c \in Calls : calls[c].state = "active"}
    IN /\ ~disposed
       /\ \A c \in pending : calls[c].id # id
       /\ Cardinality(pending) < MaxPendingRequests
       /\ inFlight + input <= MaxInFlight
       /\ openHandles + handles <= MaxHandles

(* request and stream: an admitted call is dispatched.  A call that is not *)
(* admissible, or whose admission the guest re-enters, leaves no trace.    *)
Admit(id, mode, input, deadline) ==
    /\ GuestRuns
    /\ nextCall <= MaxCalls
    /\ LET call == [UnusedCall EXCEPT !.id = id, !.mode = mode, !.state = "active",
                                      !.input = input, !.registered = TRUE,
                                      !.deadline = deadline]
           handles == input + StreamHandle(call)
       IN /\ Admissible(id, input, handles)
          /\ Becomes([State EXCEPT !.calls[nextCall] = call,
                                   !.inFlight = @ + input,
                                   !.openHandles = @ + handles])
    /\ nextCall' = nextCall + 1
    /\ UNCHANGED disposed

(* readStream: next() asks the provider for one more chunk, unless the end *)
(* of the stream is already queued.  Over the limits it is rejected.       *)
ReadStream(c) ==
    /\ GuestRuns
    /\ calls[c].mode = "stream" /\ IsCurrent(State, c)
    /\ Len(calls[c].readers) < MaxReads
    /\ LET s == [State EXCEPT !.calls[c].readers = Append(@, "waiting")]
       IN IF Locked(State, c)
          THEN Becomes(s)
          ELSE /\ calls[c].credits < MaxCreditsPerStream
               /\ credits < MaxOutstandingCredits
               /\ Becomes([s EXCEPT !.calls[c].credits = @ + 1, !.credits = @ + 1])
    /\ UNCHANGED <<nextCall, disposed>>

(* Mutant: a settled call is cancelled too *)
CancelPendingLate(c) ==
    /\ calls[c].state # "unused"
    /\ Becomes(IF IsCurrent(State, c) THEN Abort(State, c)
               ELSE [State EXCEPT !.calls[c].outcome = "failure",
                                  !.calls[c].cancelIssued = TRUE])
    /\ UNCHANGED <<nextCall, disposed>>

(* cancelPending: cancel(), an abort signal, close() of a stream *)
CancelPending(c) ==
    /\ IsCurrent(State, c)
    /\ Becomes(Abort(State, c))
    /\ UNCHANGED <<nextCall, disposed>>

(* close() of a resource handle, revokeResource *)
CloseHandle(t) ==
    /\ GuestRuns
    /\ resources[t].status = "open"
    /\ Becomes(CloseResource(State, t, TRUE))
    /\ UNCHANGED <<nextCall, disposed>>

-----------------------------------------------------------------------------
(* Events of the provider: handleProviderEvent *)

(* Tokens an event may list: the next fresh ones, or, wrongly, used ones.  *)
(* Of a list longer than the limits the bridge reads none.                 *)
Unused == {t \in Tokens : held[t] = Fresh}
Listed(used) ==
    {T \in SUBSET (Unused \cup used) :
        /\ Cardinality(T) <= HardCap
        /\ \A t \in T \cap Unused : \A u \in Unused : u < t => u \in T}
InUse == {t \in byToken : held[t] \in Calls}

(* The provider holds for call c what it lists afresh *)
Grant(s, c, T) ==
    [s EXCEPT !.held = [t \in Tokens |->
                            IF t \in T /\ @[t] = Fresh THEN c ELSE @[t]]]

Accepting(c) == IsCurrent(State, c) /\ ~Locked(State, c)

(* An event that fails its call: malformed, of the wrong mode, a chunk out *)
(* of sequence or without credit, an error that lists resources, an event  *)
(* that lists a resource in use, or an output beyond the quotas.           *)
FailingEvent(c, T) ==
    /\ Accepting(c)
    /\ Becomes(FailProviderWithUndelivered(Grant(State, c, T), c, T))
    /\ UNCHANGED <<nextCall, disposed>>

ErrorEvent(c) ==
    /\ Accepting(c)
    /\ Becomes(ScheduleTerminal(LockTerminal(State, c, ErrorCompletion), c))
    /\ UNCHANGED <<nextCall, disposed>>

(* result of a request, end of a stream *)
TerminalEvent(c, T, binary) ==
    /\ Accepting(c)
    /\ T \cap byToken = {}
    /\ Fits(State, T, binary)
    /\ LET s == ReserveOutput(Grant(State, c, T), c, T, binary)
           completion == [kind |-> "output", binary |-> binary, grants |-> T]
       IN Becomes(ScheduleTerminal(LockTerminal(s, c, completion), c))
    /\ UNCHANGED <<nextCall, disposed>>

Waiting(c) == {i \in 1..Len(calls[c].readers) : calls[c].readers[i] = "waiting"}

(* Mutant: the last reader first *)
ChunkEventLastReader(c, T, binary) ==
    /\ Accepting(c)
    /\ calls[c].mode = "stream"
    /\ calls[c].credits > 0 /\ Waiting(c) # {}
    /\ T \cap byToken = {}
    /\ Fits(State, T, binary)
    /\ LET i == CHOOSE i \in Waiting(c) : \A j \in Waiting(c) : j <= i
           k == calls[c].nextSequence
           delivery == [sequence |-> k, reader |-> i, binary |-> binary, grants |-> T]
           s == ReserveOutput(Grant(State, c, T), c, T, binary)
           call == [s.calls[c] EXCEPT !.readers[i] = "assigned",
                                      !.credits = @ - 1,
                                      !.nextSequence = k + 1,
                                      !.deliveries = @ \cup {delivery}]
       IN Becomes([s EXCEPT !.calls[c] = call,
                            !.credits = @ - 1,
                            !.queue = Append(@, Chunk(c, k))])
    /\ UNCHANGED <<nextCall, disposed>>

ChunkEvent(c, T, binary) ==
    /\ Accepting(c)
    /\ calls[c].mode = "stream"
    /\ calls[c].credits > 0 /\ Waiting(c) # {}
    /\ T \cap byToken = {}
    /\ Fits(State, T, binary)
    /\ LET i == CHOOSE i \in Waiting(c) : \A j \in Waiting(c) : i <= j
           k == calls[c].nextSequence
           delivery == [sequence |-> k, reader |-> i, binary |-> binary, grants |-> T]
           s == ReserveOutput(Grant(State, c, T), c, T, binary)
           call == [s.calls[c] EXCEPT !.readers[i] = "assigned",
                                      !.credits = @ - 1,
                                      !.nextSequence = k + 1,
                                      !.deliveries = @ \cup {delivery}]
       IN Becomes([s EXCEPT !.calls[c] = call,
                            !.credits = @ - 1,
                            !.queue = Append(@, Chunk(c, k))])
    /\ UNCHANGED <<nextCall, disposed>>

(* The promise of dispatch or of grantCredits is rejected *)
PortRejects(c) ==
    /\ Accepting(c)
    /\ Becomes(FailProvider(State, c))
    /\ UNCHANGED <<nextCall, disposed>>

(* An event that the provider emits while its call is being cleaned: its   *)
(* resources are closed too.                                               *)
ReentrantEvent(c, T) ==
    /\ OnStack(State, c) /\ IsCurrent(State, c)
    /\ Becomes(CloseUndeliveredGrants(Grant(State, c, T), c, T))
    /\ UNCHANGED <<nextCall, disposed>>

(* handleProviderResourceEvent: the provider takes a resource back         *)
RevokeEvent(t) ==
    /\ held[t] \in Calls
    /\ LET c == held[t]
           s == [State EXCEPT !.held[t] = Revoked]
       IN Becomes(IF t \in byToken /\ resources[t].call = c /\ ~resources[t].revokeQueued
                  THEN [s EXCEPT !.resources[t].revokeQueued = TRUE,
                                 !.queue = Append(@, Revocation(c, t))]
                  ELSE s)
    /\ UNCHANGED <<nextCall, disposed>>

-----------------------------------------------------------------------------
(* The cleanup of a call: the rest of failProviderWithUndelivered *)

CloseNext ==
    /\ stack # <<>> /\ Top # Termination
    /\ calls[Top].todo # {}
    /\ LET t == CHOOSE t \in calls[Top].todo : \A u \in calls[Top].todo : t <= u
       IN Becomes(CloseProviderResource([State EXCEPT !.calls[Top].todo = @ \ {t}],
                                        Top, {t}))
    /\ UNCHANGED <<nextCall, disposed>>

CancelCleaned ==
    /\ stack # <<>> /\ Top # Termination
    /\ calls[Top].todo = {} /\ ~calls[Top].cancelIssued
    /\ Becomes(CancelProvider(State, Top))
    /\ UNCHANGED <<nextCall, disposed>>

(* Mutant: the terminal is not scheduled *)
FinishCleanupSilently ==
    /\ stack # <<>> /\ Top # Termination
    /\ calls[Top].todo = {} /\ calls[Top].cancelIssued
    /\ Becomes(Pop(State))
    /\ UNCHANGED <<nextCall, disposed>>

FinishCleanup ==
    /\ stack # <<>> /\ Top # Termination
    /\ calls[Top].todo = {} /\ calls[Top].cancelIssued
    /\ Becomes(ScheduleTerminal(Pop(State), Top))
    /\ UNCHANGED <<nextCall, disposed>>

-----------------------------------------------------------------------------
(* Tasks of the loop *)

Due(task) == stack = <<>> /\ queue # <<>> /\ Head(queue) = task
Dequeued == [State EXCEPT !.queue = Tail(@)]

(* deliverTerminal *)
DeliverTerminal(c) ==
    /\ Due(Terminal(c))
    /\ LET done == calls[c].completion
           s == [Dequeued EXCEPT !.calls[c].completion = NoCompletion]
           end == IF calls[c].mode = "stream" THEN "end" ELSE "result"
       IN \/ /\ done.kind \in {"error", "failure"}
             /\ Becomes(Settle(s, c, done.kind))
          \/ /\ done.kind = "output" /\ Deliverable(s, done.grants)
             /\ Becomes(Settle(DeliverOutput(s, done.grants, done.binary), c, end))
          \/ /\ done.kind = "output" /\ ~Deliverable(s, done.grants)
             /\ Becomes(Abort(ReleaseOutput(s, c, done.grants, done.binary), c))
    /\ UNCHANGED <<nextCall, disposed>>

(* deliverChunk *)
DeliverChunk(c, k) ==
    /\ Due(Chunk(c, k))
    /\ \E d \in calls[c].deliveries :
        /\ d.sequence = k
        /\ LET s == [Dequeued EXCEPT !.calls[c].deliveries = @ \ {d}]
           IN \/ /\ Deliverable(s, d.grants)
                 /\ Becomes([DeliverOutput(s, d.grants, d.binary)
                                EXCEPT !.calls[c].readers[d.reader] = "chunk"])
              \/ /\ ~Deliverable(s, d.grants)
                 /\ LET s1 == ReleaseOutput(s, c, d.grants, d.binary)
                    IN Becomes(FailProvider(
                          [s1 EXCEPT !.calls[c].readers[d.reader] = "error"], c))
    /\ UNCHANGED <<nextCall, disposed>>

(* applyProviderResourceRevoke *)
ApplyRevoke(c, t) ==
    /\ Due(Revocation(c, t))
    /\ Becomes(IF t \in byToken /\ resources[t].call = c
               THEN Drop(Dequeued, {t}, "closed")
               ELSE Dequeued)
    /\ UNCHANGED <<nextCall, disposed>>

(* handleDeadline once the deadline has passed *)
DeadlinePasses(c) ==
    /\ stack = <<>>
    /\ calls[c].deadline /\ IsCurrent(State, c)
    /\ Becomes(Abort(State, c))
    /\ UNCHANGED <<nextCall, disposed>>

-----------------------------------------------------------------------------
(* terminateBridge: dispose(), or the loop has terminated *)

Terminate ==
    /\ ~disposed
    /\ disposed' = TRUE
    /\ Becomes(Push(State, Termination))
    /\ UNCHANGED nextCall

Terminating == stack # <<>> /\ Top = Termination
Pending == {c \in Calls : calls[c].state = "active"}
OpenRecords == {t \in Tokens : resources[t].status = "open"}

TerminatePending ==
    /\ Terminating
    /\ Pending # {}
    /\ LET c == CHOOSE c \in Pending : \A e \in Pending : c <= e
       IN Becomes(Abort(State, c))
    /\ UNCHANGED <<nextCall, disposed>>

TerminateResource ==
    /\ Terminating
    /\ Pending = {} /\ OpenRecords # {}
    /\ LET t == CHOOSE t \in OpenRecords : \A u \in OpenRecords : t <= u
       IN Becomes(CloseResource(State, t, TRUE))
    /\ UNCHANGED <<nextCall, disposed>>

(* the queued revocations are cancelled, and port.dispose() is called *)
FinishTermination ==
    /\ Terminating
    /\ Pending = {} /\ OpenRecords = {}
    /\ Becomes([Pop(State) EXCEPT !.queue =
                   Cleared(@, {i \in DOMAIN @ : @[i].kind = "revoke"})])
    /\ UNCHANGED <<nextCall, disposed>>

-----------------------------------------------------------------------------
GuestStep ==
    \/ \E id \in Ids, mode \in Modes, input \in Binaries, deadline \in Deadlines :
          Admit(id, mode, input, deadline)
    \/ \E c \in Calls : ReadStream(c) \/ CancelPending(c)
    \/ \E t \in Tokens : CloseHandle(t)
    \/ Terminate

ProviderStep ==
    \/ \E c \in Calls :
        \/ \E T \in Listed(InUse) : FailingEvent(c, T)
        \/ \E T \in Listed({}), binary \in Binaries :
              TerminalEvent(c, T, binary) \/ ChunkEvent(c, T, binary)
        \/ \E T \in Listed(InUse \cup calls[c].closedTokens) : ReentrantEvent(c, T)
        \/ ErrorEvent(c)
        \/ PortRejects(c)
    \/ \E t \in Tokens : RevokeEvent(t)

CleanupStep == CloseNext \/ CancelCleaned \/ FinishCleanup
TerminationStep == TerminatePending \/ TerminateResource \/ FinishTermination

LoopStep ==
    \/ \E c \in Calls :
        \/ DeliverTerminal(c)
        \/ \E k \in 0..MaxReads : DeliverChunk(c, k)
        \/ \E t \in Tokens : ApplyRevoke(c, t)
        \/ DeadlinePasses(c)

Next == GuestStep \/ ProviderStep \/ CleanupStep \/ TerminationStep \/ LoopStep

Spec == Init /\ [][Next]_vars

(* The loop runs its tasks and a handler returns; a provider ends every    *)
(* call that it was not told to cancel ("must eventually emit exactly one  *)
(* mode-appropriate terminal unless the bridge cancels it", types.ts).     *)
ProviderTerminal(c) ==
    \/ ErrorEvent(c)
    \/ \E T \in Listed({}), binary \in Binaries : TerminalEvent(c, T, binary)

FairSpec ==
    /\ Spec
    /\ WF_vars(LoopStep)
    /\ WF_vars(CleanupStep)
    /\ WF_vars(TerminationStep)
    /\ \A c \in Calls : WF_vars(ProviderTerminal(c))

-----------------------------------------------------------------------------
(* Properties *)

(* The counters of getSnapshot are what the bridge really retains: input   *)
(* binaries of pending calls, binaries and resources of undelivered        *)
(* outputs, open resources, stream handles, and one credit per reader that *)
(* waits for a chunk.  Each is taken in one handler and given back in one  *)
(* of many, in the order of the race, and none exceeds its limit.          *)
QuotaConserved ==
    LET inputs == {c \in Pending : calls[c].input = 1}
        outputs == {c \in Pending : calls[c].completion.binary = 1}
        chunks == {x \in Pending \X (0..MaxReads) :
                      \E d \in calls[x[1]].deliveries : d.sequence = x[2] /\ d.binary = 1}
        streams == {c \in Pending : calls[c].mode = "stream"}
        live == {t \in Tokens : resources[t].status \in {"reserved", "open"}}
        waiting == {x \in Pending \X (1..MaxReads) :
                      ~Locked(State, x[1]) /\ x[2] \in Waiting(x[1])}
    IN /\ inFlight = Cardinality(inputs) + Cardinality(outputs) + Cardinality(chunks)
       /\ openResources = Cardinality(live)
       /\ openHandles = inFlight + Cardinality(streams) + openResources
       /\ credits = Cardinality(waiting)
       /\ inFlight <= MaxInFlight /\ openHandles <= MaxHandles
       /\ openResources <= MaxOpenResources /\ credits <= MaxOutstandingCredits

Capped(c) == Cardinality(calls[c].closedTokens) >= HardCap

(* A resource of the provider is never forgotten: for as long as it holds  *)
(* one for a call, the bridge will hand it to the guest, the guest has it  *)
(* open, or its close is under way; unless the cleanup of that call has    *)
(* reached its cap.  Conversely what the guest may use the provider holds, *)
(* or has asked back, and no resource is closed twice, in the name of a    *)
(* call that does not own it, or after the provider has taken it back.     *)
(* A disposed bridge holds nothing at all.                                 *)
NothingOrphaned ==
    /\ ~strayClose
    /\ \A t \in Tokens :
           /\ held[t] \in Calls =>
                \/ t \in byToken /\ resources[t].call = held[t]
                \/ t \in calls[held[t]].todo
                \/ Capped(held[t])
           /\ t \in byToken =>
                /\ resources[t].status \in {"reserved", "open"}
                /\ resources[t].status = "reserved" =>
                       t \in QueuedGrants(calls[resources[t].call])
                /\ held[t] = resources[t].call \/ resources[t].revokeQueued
    /\ disposed /\ ~OnStack(State, Termination) =>
           /\ Pending = {} /\ byToken = {} /\ queue = <<>>
           /\ inFlight = 0 /\ openHandles = 0 /\ openResources = 0 /\ credits = 0

(* "releases reserved resources if disposal wins before loop delivery"     *)
(* (native-port-conformance.spec.ts): a resource that the bridge accepted  *)
(* and has dropped is not left with the provider, even when the cleanup of *)
(* its call has reached the cap.                                           *)
UndeliveredIsClosed ==
    \A t \in Tokens :
        resources[t].status = "closed" /\ stack = <<>> => held[t] \notin Calls

(* A settled call leaves nothing behind: no task and no deadline in the    *)
(* loop, no credit, no undelivered output, no next() without an answer,    *)
(* and no provider that was not told of an end that it did not choose.     *)
SettledIsQuiet ==
    \A c \in Calls : calls[c].state = "settled" =>
        /\ ~calls[c].registered /\ ~calls[c].deadline
        /\ calls[c].credits = 0
        /\ calls[c].outcome = "failure" => calls[c].cancelIssued
        /\ \A i \in 1..Len(queue) : queue[i].call = c => queue[i].kind = "revoke"
        /\ \A t \in byToken : resources[t].call = c => resources[t].status = "open"
        /\ \A i \in 1..Len(calls[c].readers) :
               calls[c].readers[i] \in {"chunk", "end", "error"}

(* A pending call keeps the loop alive: it is registered as a native       *)
(* request until its terminal is queued, and a locked terminal is queued   *)
(* once the handler that locked it has returned.                           *)
PendingIsAwaited ==
    \A c \in Pending :
        /\ ~Locked(State, c) => calls[c].registered /\ ~InQueue(queue, Terminal(c))
        /\ Locked(State, c) => InQueue(queue, Terminal(c)) \/ OnStack(State, c)

(* Chunks reach the readers of a stream in order: the i-th next() is the   *)
(* only one that chunk i - 1 can answer, and none is answered before the   *)
(* ones before it.                                                         *)
ReadersInOrder ==
    \A c \in Calls :
        LET readers == calls[c].readers
        IN /\ \A d \in calls[c].deliveries :
                 d.reader = d.sequence + 1 /\ readers[d.reader] = "assigned"
           /\ \A i, j \in 1..Len(readers) :
                 i < j /\ readers[j] \in {"assigned", "chunk", "end"} =>
                     readers[i] # "waiting" /\ (readers[i] = "assigned" =>
                                                   readers[j] = "assigned")

(* Every admitted call settles: whichever of the provider, a deadline, a   *)
(* cancellation, a failure or the end of the loop comes first, the terminal*)
(* it locks is delivered; and every next() is answered, by a chunk, by the *)
(* end, or by the error.                                                   *)
EveryCallSettles ==
    \A c \in Calls :
        /\ calls[c].state = "active" ~> calls[c].state = "settled"
        /\ \A i \in 1..MaxReads :
              Len(calls[c].readers) >= i ~> /\ Len(calls[c].readers) >= i
                                            /\ calls[c].readers[i] \in {"chunk", "end", "error"}

(* The first terminal wins: what a call was settled with never changes,    *)
(* nor do the answers its readers got.                                     *)
FirstTerminalWins ==
    [][\A c \in Calls :
          /\ calls[c].state = "settled" =>
                calls'[c].state = "settled" /\ calls'[c].outcome = calls[c].outcome
          /\ \A i \in 1..Len(calls[c].readers) :
                calls[c].readers[i] \in {"chunk", "end", "error"} =>
                    calls'[c].readers[i] = calls[c].readers[i]]_vars

(* A settled call is settled for everybody: nothing of it is left in the   *)
(* bridge or in the loop's queue but revocations, and its readers were     *)
(* answered in the order of their next() calls (finishCall, pushChunk).    *)
SettledInOrder == SettledIsQuiet /\ ReadersInOrder

(* Both sides of a call are accounted for: the provider's resources and    *)
(* the guest's promises each have somebody left who will end them          *)
(* (closeProviderResource, lockTerminal).                                  *)
CallsAccounted == NothingOrphaned /\ PendingIsAwaited
=============================================================================
