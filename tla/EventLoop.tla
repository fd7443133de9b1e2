------------------------------ MODULE EventLoop ------------------------------
(***************************************************************************)
(* RuntimeEventLoop (packages/runtime/src/event-loop/runtime-event-loop.ts)*)
(* driven by a HostEventLoopPort.  The loop owns four queues, a timer      *)
(* table and a native request table; the host owns the clock, calls        *)
(* runTurn and runNextTickCheckpoint, and keeps at most one wakeup armed   *)
(* for the loop.                                                           *)
(*                                                                         *)
(* Ids and sequence numbers come from two counters that only grow          *)
(* together, so both are represented by the id.  Arrays hold tasks in      *)
(* admission order, which is id order, so they are sets of records.  One   *)
(* unit of time is a tick, a fraction of a millisecond: the host's clock   *)
(* need not be integral although delays are rounded up to milliseconds.    *)
(*                                                                         *)
(* JavaScript is single threaded: an operation of the loop is atomic, and  *)
(* guest code runs only while a callback or a microtask checkpoint does,   *)
(* or between turns.  The phase variable is the place in runActiveTurn.    *)
(***************************************************************************)
EXTENDS Integers, FiniteSets

CONSTANTS
    RequestIds,          \* native request identifiers
    NoRequest,           \* the requestId of a task that completes no request
    Observers,           \* lifecycle observers
    MaxCallbacksPerTurn, \* options.maxCallbacksPerTurn
    MinimumInterval,     \* options.minimumIntervalMs, in ticks
    MaxTimerDelay,       \* options.maxTimerDelayMs, in ticks
    TicksPerMs,          \* clock resolution
    Delays,              \* delays the guest asks for, in ticks
    Refs,                \* values of the ref option the guest uses
    Kinds,               \* operation families the guest uses
    Faults,              \* what may fail: "clock", "port", "callback", "checkpoint"
    MaxNow,              \* bound: the last instant of the model
    MaxId                \* bound: the last id of the model

ASSUME OptionAssumption ==
    /\ MaxCallbacksPerTurn \in Nat \ {0}
    /\ TicksPerMs \in Nat \ {0}
    /\ MinimumInterval \in Nat \ {0}
    /\ MaxTimerDelay \in Nat
    /\ MinimumInterval <= MaxTimerDelay

ASSUME InputAssumption ==
    /\ Delays \subseteq Nat
    /\ Refs \subseteq BOOLEAN
    /\ NoRequest \notin RequestIds

ASSUME BoundAssumption == MaxNow \in Nat /\ MaxId \in Nat

VARIABLES
    clock,         \* host: port.now()
    armed,         \* host: the wakeup the host will deliver
    lastNow,       \* lastNow
    nextId,        \* nextId, nextSequence
    work,          \* all that clearPendingWork resets
    scheduled,     \* scheduledWakeupAt, scheduledWakeupPhase
    phase,         \* where runActiveTurn is; "none" iff ~runningTurn
    selectedTimer, \* id of selectedTask when it is a timer, else 0
    callbacks,     \* counter.callbacks
    running,       \* id of the callback being executed, 0 if none
    disposed,      \* disposed
    observers,     \* lifecycleObservers
    notified,      \* times each observer was called
    terminations   \* times port.terminate was called

turn == <<phase, selectedTimer, callbacks, running>>
lifecycle == <<disposed, observers, notified, terminations>>
vars == <<clock, armed, lastNow, nextId, work, scheduled, turn, lifecycle>>

-----------------------------------------------------------------------------
(* The work of the loop and the wakeup it needs.                           *)

NoCutoff == -1

(* A wakeup: the deadline and the phase passed to port.requestWakeup.      *)
NoWakeup == [at |-> -1, phase |-> "null"]      \* null
Unset == [at |-> -2, phase |-> "undefined"]    \* undefined: consumed by a turn

(* clearPendingWork *)
NoWork ==
    [immediates      |-> {},
     nextTicks       |-> {},
     readyTasks      |-> {},
     timers          |-> {},
     nativeRequests  |-> [r \in RequestIds |-> "absent"],
     tasksById       |-> {},
     immediateCutoff |-> NoCutoff,
     ioCutoff        |-> NoCutoff]

Ids(S) == {t.id : t \in S}

Oldest(S) == CHOOSE t \in S : \A u \in S : t.id <= u.id
Newest(S) == CHOOSE t \in S : \A u \in S : u.id <= t.id

(* The comparison of takeOrdinaryReadyTask: readyAt or dueAt, then sequence *)
Earlier(t, u) == t.at < u.at \/ (t.at = u.at /\ t.id <= u.id)
First(S) == CHOOSE t \in S : \A u \in S : Earlier(t, u)

(* activeImmediates, activeNextTicks, activeReadyTasks *)
Active(w, S) == {t \in S : t.id \in w.tasksById}

IsAlive(w) ==
    \/ \E t \in Active(w, w.immediates) \cup Active(w, w.nextTicks)
                \cup Active(w, w.readyTasks) \cup w.timers : t.ref
    \/ \E r \in RequestIds : w.nativeRequests[r] = "ref"

HasReadyWork(w) ==
    \/ Active(w, w.immediates) # {}
    \/ Active(w, w.nextTicks) # {}
    \/ Active(w, w.readyTasks) # {}

HasRunnableNextTick(w) == Active(w, w.nextTicks) # {}

(* nextWakeupAt of createSnapshot and the phase requestWakeup derives      *)
NextWakeup(now, w) ==
    IF ~IsAlive(w) \/ (~HasReadyWork(w) /\ w.timers = {})
    THEN NoWakeup
    ELSE [at    |-> IF HasReadyWork(w) \/ First(w.timers).at < now
                    THEN now ELSE First(w.timers).at,
          phase |-> IF HasRunnableNextTick(w) THEN "next-tick" ELSE "event-loop"]

-----------------------------------------------------------------------------
(* Delays.                                                                 *)

CeilMs(v) == ((v + TicksPerMs - 1) \div TicksPerMs) * TicksPerMs

NormalizeDelay(v, minimum) ==
    LET d == IF CeilMs(v) < minimum THEN minimum ELSE CeilMs(v)
    IN IF MaxTimerDelay < d THEN MaxTimerDelay ELSE d

(* Mutant: the next deadline counted from now *)
AdvancedFromNow(t, now) ==
    IF t.every = 0 \/ t.at > now THEN t ELSE [t EXCEPT !.at = now + t.every]

(* advanceIntervalDeadline of the timer with this id; every = 0 stands for *)
(* intervalMs = null.                                                      *)
Advanced(t, now) ==
    IF t.every = 0 \/ t.at > now
    THEN t
    ELSE [t EXCEPT !.at = @ + ((now - @) \div t.every + 1) * t.every]

AdvanceIntervalDeadline(w, id, now) ==
    [w EXCEPT !.timers = {IF t.id = id THEN Advanced(t, now) ELSE t : t \in @}]

-----------------------------------------------------------------------------
(* Termination, the clock and the wakeup.                                  *)

(* Mutant: finalizeTermination without its disposed check *)
FinalizeTerminationAgain ==
    /\ disposed' = TRUE
    /\ work' = NoWork
    /\ scheduled' = NoWakeup
    /\ armed' = NoWakeup
    /\ notified' = [o \in Observers |-> notified[o] + IF o \in observers THEN 1 ELSE 0]
    /\ observers' = {}
    /\ terminations' = terminations + 1

(* finalizeTermination: a step of fail() and shutdown().  The port may     *)
(* refuse to cancel the armed wakeup; the loop ignores that.               *)
FinalizeTermination ==
    IF disposed
    THEN UNCHANGED <<work, scheduled, armed, lifecycle>>
    ELSE /\ disposed' = TRUE
         /\ work' = NoWork
         /\ scheduled' = NoWakeup
         /\ \/ armed' = IF scheduled = NoWakeup THEN armed ELSE NoWakeup
            \/ "port" \in Faults /\ scheduled # NoWakeup /\ armed' = armed
         /\ notified' = [o \in Observers |->
                            notified[o] + IF o \in observers THEN 1 ELSE 0]
         /\ observers' = {}
         /\ terminations' = terminations + 1

(* Mutant: readNow without the monotonicity check *)
ClockUnchecked == TRUE

(* readNow accepts the clock unless it went backwards *)
ClockOk == clock >= lastNow

(* readNow fails: the loop terminates *)
ReadNowFails == /\ ~ClockOk
                /\ FinalizeTermination
                /\ UNCHANGED lastNow

(* reconcileWakeupAt(readNow()) once the queues are w: nothing is asked of *)
(* the port when the wakeup is the one already scheduled; when the port    *)
(* throws, the change is rolled back and the loop terminates.              *)
RequestWakeup(w) ==
    LET wakeup == NextWakeup(clock, w)
    IN /\ ClockOk
       /\ lastNow' = clock
       /\ \/ /\ work' = w
             /\ scheduled' = wakeup
             /\ armed' = IF wakeup = scheduled THEN armed ELSE wakeup
             /\ UNCHANGED lifecycle
          \/ /\ "port" \in Faults
             /\ wakeup # scheduled
             /\ FinalizeTermination

-----------------------------------------------------------------------------
(* Operations of the guest and of the native side.                         *)

(* Guest code runs between turns, in a callback, or in a checkpoint.       *)
GuestRuns == phase \in {"none", "task", "tick", "checkpoint"} /\ ~disposed

(* commitWakeupAdmission of the queues w, which hold the task nextId       *)
Admit(w) ==
    /\ GuestRuns
    /\ nextId <= MaxId
    /\ \/ ReadNowFails /\ UNCHANGED nextId
       \/ RequestWakeup(w) /\ nextId' = nextId + 1
    /\ UNCHANGED <<clock, turn>>

(* reconcileWakeupIfActive once the queues are w                           *)
Reconcile(w) ==
    /\ GuestRuns
    /\ ReadNowFails \/ RequestWakeup(w)
    /\ UNCHANGED <<clock, nextId, turn>>

(* enqueueReadyTaskAt, with the request this task completes               *)
WithReadyTask(w, ref, io, request) ==
    [w EXCEPT !.readyTasks = @ \cup {[id |-> nextId, at |-> clock, ref |-> ref,
                                      io |-> io, request |-> request]},
              !.tasksById = @ \cup {nextId}]

EnqueueMacrotask(ref) ==
    /\ "macrotask" \in Kinds
    /\ Admit(WithReadyTask(work, ref, FALSE, NoRequest))

EnqueueIoCallback(ref) ==
    /\ "io" \in Kinds
    /\ Admit(WithReadyTask(work, ref, TRUE, NoRequest))

EnqueueImmediate(ref) ==
    /\ "immediate" \in Kinds
    /\ Admit([work EXCEPT !.immediates = @ \cup {[id |-> nextId, ref |-> ref]},
                          !.tasksById = @ \cup {nextId}])

EnqueueNextTick(ref) ==
    /\ "nextTick" \in Kinds
    /\ Admit([work EXCEPT !.nextTicks = @ \cup {[id |-> nextId, ref |-> ref]},
                          !.tasksById = @ \cup {nextId}])

SetTimer(delay, every, ref) ==
    Admit([work EXCEPT !.timers = @ \cup
             {[id |-> nextId, at |-> clock + NormalizeDelay(delay, 0),
               every |-> every, ref |-> ref]}])

SetTimeout(delay, ref) == "timeout" \in Kinds /\ SetTimer(delay, 0, ref)

SetInterval(delay, ref) ==
    /\ "interval" \in Kinds
    /\ SetTimer(delay, NormalizeDelay(delay, MinimumInterval), ref)

(* Mutant: the task stays in its array *)
CancelTaskIndexOnly(id) ==
    /\ id \in work.tasksById
    /\ Reconcile([work EXCEPT !.tasksById = @ \ {id}])

CancelTask(id) ==
    LET Without(S) == {t \in S : t.id # id}
    IN /\ id \in work.tasksById
       /\ Reconcile([work EXCEPT !.tasksById = @ \ {id},
                                 !.immediates = Without(@),
                                 !.readyTasks = Without(@),
                                 !.nextTicks = Without(@)])

ClearTimer(id) ==
    /\ id \in Ids(work.timers)
    /\ Reconcile([work EXCEPT !.timers = {t \in @ : t.id # id}])

(* refTimer, unrefTimer, refImmediate, unrefImmediate: nothing happens     *)
(* unless the flag changes.                                                *)
SetRef(S, id, ref) == {IF t.id = id THEN [t EXCEPT !.ref = ref] ELSE t : t \in S}

(* Mutant: ref() and unref() do not reconcile the wakeup *)
SetTimerRefQuietly(id, ref) ==
    /\ GuestRuns
    /\ \E t \in work.timers : t.id = id /\ t.ref # ref
    /\ work' = [work EXCEPT !.timers = SetRef(@, id, ref)]
    /\ UNCHANGED <<clock, armed, lastNow, nextId, scheduled, turn, lifecycle>>

SetTimerRef(id, ref) ==
    /\ \E t \in work.timers : t.id = id /\ t.ref # ref
    /\ Reconcile([work EXCEPT !.timers = SetRef(@, id, ref)])

SetImmediateRef(id, ref) ==
    /\ id \in work.tasksById
    /\ \E t \in work.immediates : t.id = id /\ t.ref # ref
    /\ Reconcile([work EXCEPT !.immediates = SetRef(@, id, ref)])

RefName(ref) == IF ref THEN "ref" ELSE "unref"

RegisterNativeRequest(r, ref) ==
    /\ "native" \in Kinds
    /\ work.nativeRequests[r] = "absent"
    /\ Reconcile([work EXCEPT !.nativeRequests[r] = RefName(ref)])

CompleteNativeRequest(r, ref) ==
    /\ work.nativeRequests[r] # "absent"
    /\ Admit([WithReadyTask(work, ref, FALSE, r)
                EXCEPT !.nativeRequests[r] = "absent"])

(* cancelNativeRequest also withdraws completions that are still queued    *)
CancelNativeRequest(r) ==
    LET dropped == {t \in Active(work, work.readyTasks) : t.request = r}
    IN /\ work.nativeRequests[r] # "absent" \/ dropped # {}
       /\ Reconcile([work EXCEPT !.nativeRequests[r] = "absent",
                                 !.readyTasks = @ \ dropped,
                                 !.tasksById = @ \ Ids(dropped)])

SetNativeRequestRef(r, ref) ==
    /\ work.nativeRequests[r] \notin {"absent", RefName(ref)}
    /\ Reconcile([work EXCEPT !.nativeRequests[r] = RefName(ref)])

(* getCurrentTime, getSnapshot, and a rejected delay: the clock is read    *)
ReadClock ==
    /\ GuestRuns
    /\ \/ ReadNowFails
       \/ /\ ClockOk
          /\ lastNow' = clock
          /\ UNCHANGED <<work, scheduled, armed, lifecycle>>
    /\ UNCHANGED <<clock, nextId, turn>>

(* addLifecycleObserver; the subscription it returns detaches at any time  *)
AddLifecycleObserver(o) ==
    /\ GuestRuns
    /\ observers' = observers \cup {o}
    /\ UNCHANGED <<clock, armed, lastNow, nextId, work, scheduled, turn,
                   disposed, notified, terminations>>

DetachLifecycleObserver(o) ==
    /\ GuestRuns
    /\ observers' = observers \ {o}
    /\ UNCHANGED <<clock, armed, lastNow, nextId, work, scheduled, turn,
                   disposed, notified, terminations>>

Shutdown ==
    /\ GuestRuns
    /\ FinalizeTermination
    /\ UNCHANGED <<clock, lastNow, nextId, turn>>

-----------------------------------------------------------------------------
(* Selection of a task: takeReadyTask.                                     *)

(* the check phase in progress: immediates no newer than its cutoff        *)
ImmediateBatch(w) ==
    {t \in w.immediates : w.immediateCutoff # NoCutoff /\ t.id <= w.immediateCutoff}

(* the poll phase in progress: I/O callbacks no newer than its cutoff      *)
IoBatch(w) ==
    {t \in Active(w, w.readyTasks) :
        t.io /\ w.ioCutoff # NoCutoff /\ t.id <= w.ioCutoff}

(* Mutant: no beforeSequence limit *)
EligibleAlways(w, now) ==
    Active(w, w.readyTasks) \cup {u \in w.timers : u.at <= now}

(* Mutant: timers only when no ready task waits *)
EligibleReadyFirst(w, now) ==
    LET ready == Active(w, w.readyTasks)
    IN {t \in IF ready # {} THEN ready ELSE {u \in w.timers : u.at <= now} :
            \A i \in w.immediates : t.id < i.id}

(* what takeOrdinaryReadyTask may return: no later than the oldest         *)
(* immediate                                                               *)
Eligible(w, now) ==
    {t \in Active(w, w.readyTasks) \cup {u \in w.timers : u.at <= now} :
        \A i \in w.immediates : t.id < i.id}

InCheck(w) == ImmediateBatch(w) # {}
InPoll(w) == ~InCheck(w) /\ IoBatch(w) # {}

(* Mutant: the end of a poll batch does not open the check phase *)
CheckDueLate(w, now) ==
    /\ ~InCheck(w) /\ ~InPoll(w)
    /\ w.immediates # {} /\ Eligible(w, now) = {}

CheckDue(w, now) ==
    /\ ~InCheck(w) /\ ~InPoll(w)
    /\ w.immediates # {}
    /\ w.ioCutoff # NoCutoff \/ Eligible(w, now) = {}
OrdinaryDue(w, now) ==
    /\ ~InCheck(w) /\ ~InPoll(w) /\ ~CheckDue(w, now)
    /\ Eligible(w, now) # {}

(* executeCallback of the first task of a turn                             *)
Execute(id, timer, w) ==
    /\ work' = w
    /\ running' = id
    /\ selectedTimer' = timer
    /\ callbacks' = 1
    /\ phase' = "task"

(* Mutant: the immediate stays in the array *)
TakeImmediateIndexOnly(w, t) == [w EXCEPT !.tasksById = @ \ {t.id}]

TakeImmediate(w, t) ==
    [w EXCEPT !.immediates = @ \ {t}, !.tasksById = @ \ {t.id}]

TakeReady(w, t) ==
    [w EXCEPT !.readyTasks = @ \ {t}, !.tasksById = @ \ {t.id}]

(* An immediate of the batch under way *)
ContinueCheck ==
    /\ InCheck(work)
    /\ LET t == Oldest(ImmediateBatch(work))
       IN Execute(t.id, 0, TakeImmediate(work, t))

(* Mutant: the last I/O callback of the batch first *)
ContinuePollBackwards ==
    /\ InPoll(work)
    /\ LET t == Newest(IoBatch(work))
       IN Execute(t.id, 0, [TakeReady(work, t) EXCEPT !.immediateCutoff = NoCutoff])

(* An I/O callback of the batch under way *)
ContinuePoll ==
    /\ InPoll(work)
    /\ LET t == Oldest(IoBatch(work))
       IN Execute(t.id, 0, [TakeReady(work, t) EXCEPT !.immediateCutoff = NoCutoff])

(* The oldest immediate opens a batch of all the immediates there are *)
BeginCheck ==
    /\ CheckDue(work, clock)
    /\ LET t == Oldest(work.immediates)
       IN Execute(t.id, 0, [TakeImmediate(work, t) EXCEPT
                                !.immediateCutoff = Newest(work.immediates).id,
                                !.ioCutoff = NoCutoff])

(* A macrotask or native completion, or an I/O callback, which opens a     *)
(* batch of all the I/O callbacks there are                                *)
RunReadyTask ==
    /\ OrdinaryDue(work, clock)
    /\ LET t == First(Eligible(work, clock))
       IN /\ t \in work.readyTasks
          /\ Execute(t.id, 0, [TakeReady(work, t) EXCEPT
                                 !.immediateCutoff = NoCutoff,
                                 !.ioCutoff = IF t.io THEN nextId - 1 ELSE NoCutoff])

(* Mutant: a one-shot timer is not deleted *)
RunTimerKept ==
    /\ OrdinaryDue(work, clock)
    /\ LET t == First(Eligible(work, clock))
       IN /\ t \in work.timers
          /\ Execute(t.id, t.id, [work EXCEPT !.immediateCutoff = NoCutoff,
                                             !.ioCutoff = NoCutoff])

(* A due timer; an interval stays in the table *)
RunTimer ==
    /\ OrdinaryDue(work, clock)
    /\ LET t == First(Eligible(work, clock))
       IN /\ t \in work.timers
          /\ Execute(t.id, t.id,
                     [work EXCEPT !.timers = IF t.every = 0 THEN @ \ {t} ELSE @,
                                  !.immediateCutoff = NoCutoff,
                                  !.ioCutoff = NoCutoff])

NothingReady ==
    /\ ~InCheck(work) /\ ~InPoll(work)
    /\ ~CheckDue(work, clock) /\ ~OrdinaryDue(work, clock)
    /\ work' = [work EXCEPT !.immediateCutoff = NoCutoff, !.ioCutoff = NoCutoff]
    /\ phase' = "finish"
    /\ callbacks' = 0
    /\ selectedTimer' = 0
    /\ running' = 0

TakeReadyTask ==
    \/ ContinueCheck
    \/ ContinuePoll
    \/ BeginCheck
    \/ RunReadyTask
    \/ RunTimer
    \/ NothingReady

-----------------------------------------------------------------------------
(* The turn: runActiveTurn.                                                *)

NoTurn == /\ phase' = "none"
          /\ selectedTimer' = 0
          /\ callbacks' = 0
          /\ running' = 0

(* A turn that fails leaves runTurn with the error. *)
TurnFails == FinalizeTermination /\ NoTurn

Drain == /\ phase' = "drain"
         /\ running' = 0

(* The entry of runActiveTurn when ticks are runnable *)
EnterDrain == /\ Drain
              /\ callbacks' = 0
              /\ selectedTimer' = 0
              /\ UNCHANGED work

(* The host calls runTurn: for the armed wakeup once it is due, or early.  *)
WakeupDue == armed.at >= 0 /\ armed.at <= clock

(* Mutant: the consumed wakeup still counts as scheduled *)
RunTurnKeepsSchedule ==
    /\ phase = "none" /\ ~disposed /\ ClockOk
    /\ lastNow' = clock
    /\ armed' = IF WakeupDue THEN NoWakeup ELSE armed
    /\ IF HasRunnableNextTick(work) THEN EnterDrain ELSE TakeReadyTask
    /\ UNCHANGED <<clock, nextId, scheduled, lifecycle>>

RunTurn ==
    /\ phase = "none" /\ ~disposed
    /\ \/ ReadNowFails /\ NoTurn
       \/ /\ ClockOk
          /\ lastNow' = clock
          /\ scheduled' = Unset
          /\ armed' = IF WakeupDue THEN NoWakeup ELSE armed
          /\ IF HasRunnableNextTick(work) THEN EnterDrain ELSE TakeReadyTask
          /\ UNCHANGED lifecycle
    /\ UNCHANGED <<clock, nextId>>

(* The host calls runNextTickCheckpoint at a callback boundary of its own. *)
RunNextTickCheckpoint ==
    /\ phase = "none" /\ ~disposed
    /\ \/ ReadNowFails /\ NoTurn
       \/ /\ ClockOk
          /\ lastNow' = clock
          /\ IF HasRunnableNextTick(work)
             THEN scheduled' = Unset /\ EnterDrain
             ELSE UNCHANGED <<scheduled, work, turn>>
          /\ UNCHANGED <<armed, lifecycle>>
    /\ UNCHANGED <<clock, nextId>>

(* The first callback returns; a timer's deadline moves on. *)
EndTask ==
    /\ phase = "task"
    /\ \/ /\ disposed
          /\ NoTurn
          /\ UNCHANGED <<armed, lastNow, work, scheduled, lifecycle>>
       \/ /\ ~disposed /\ selectedTimer = 0
          /\ Drain
          /\ UNCHANGED <<armed, lastNow, work, scheduled, lifecycle,
                         selectedTimer, callbacks>>
       \/ /\ ~disposed /\ selectedTimer # 0
          /\ \/ ReadNowFails /\ NoTurn
             \/ /\ ClockOk
                /\ lastNow' = clock
                /\ work' = AdvanceIntervalDeadline(work, selectedTimer, clock)
                /\ Drain
                /\ UNCHANGED <<armed, scheduled, lifecycle, selectedTimer, callbacks>>
    /\ UNCHANGED <<clock, nextId>>

(* Takes the oldest tick and counts n callbacks *)
TakeNextTick(n) ==
    LET t == Oldest(Active(work, work.nextTicks))
    IN /\ work' = [work EXCEPT !.nextTicks = {u \in @ : u.id > t.id},
                               !.tasksById = @ \ {t.id}]
       /\ callbacks' = n
       /\ phase' = "tick"
       /\ running' = t.id
       /\ UNCHANGED <<armed, scheduled, lifecycle, selectedTimer>>

(* Mutant: the budget is checked one callback late *)
DrainNextTickOverBudget ==
    /\ phase = "drain" /\ ~disposed
    /\ HasRunnableNextTick(work)
    /\ IF callbacks > MaxCallbacksPerTurn THEN TurnFails ELSE TakeNextTick(callbacks + 1)
    /\ UNCHANGED <<clock, lastNow, nextId>>

(* Mutant: ticks are not counted *)
DrainNextTickUncounted ==
    /\ phase = "drain" /\ ~disposed
    /\ HasRunnableNextTick(work)
    /\ TakeNextTick(callbacks)
    /\ UNCHANGED <<clock, lastNow, nextId>>

(* drainNextTicks takes the next tick; the turn's budget may be spent. *)
DrainNextTick ==
    /\ phase = "drain" /\ ~disposed
    /\ HasRunnableNextTick(work)
    /\ \/ callbacks >= MaxCallbacksPerTurn /\ TurnFails
       \/ callbacks < MaxCallbacksPerTurn /\ TakeNextTick(callbacks + 1)
    /\ UNCHANGED <<clock, lastNow, nextId>>

EndTick ==
    /\ phase = "tick"
    /\ Drain
    /\ UNCHANGED <<clock, armed, lastNow, nextId, work, scheduled, lifecycle,
                   selectedTimer, callbacks>>

(* executeCallback catches what a callback throws. *)
CallbackThrows ==
    /\ "callback" \in Faults
    /\ phase \in {"task", "tick"}
    /\ IF disposed
       THEN NoTurn /\ UNCHANGED <<armed, work, scheduled, lifecycle>>
       ELSE TurnFails
    /\ UNCHANGED <<clock, lastNow, nextId>>

(* No tick is left, or the loop was disposed by one. *)
DrainDone ==
    /\ phase = "drain"
    /\ \/ /\ disposed
          /\ NoTurn
          /\ UNCHANGED work
       \/ /\ ~disposed /\ ~HasRunnableNextTick(work)
          /\ work' = [work EXCEPT !.nextTicks = {}]
          /\ phase' = "checkpoint"
          /\ UNCHANGED <<selectedTimer, callbacks, running>>
    /\ UNCHANGED <<clock, armed, lastNow, nextId, scheduled, lifecycle>>

(* port.checkpointMicrotasks throws, possibly after a microtask has        *)
(* already shut the loop down.                                             *)
CheckpointThrows ==
    /\ "checkpoint" \in Faults
    /\ phase = "checkpoint"
    /\ TurnFails
    /\ UNCHANGED <<clock, lastNow, nextId>>

(* The end of runActiveTurn: the wakeup is armed again. *)
FinishTurn ==
    /\ phase \in {"checkpoint", "finish"}
    /\ IF disposed
       THEN UNCHANGED <<armed, lastNow, work, scheduled, lifecycle>>
       ELSE \/ ReadNowFails
            \/ RequestWakeup(AdvanceIntervalDeadline(work, selectedTimer, clock))
    /\ NoTurn
    /\ UNCHANGED <<clock, nextId>>

-----------------------------------------------------------------------------
(* The host.                                                               *)

(* A wakeup that reaches a disposed loop is answered "shutdown". *)
LateWakeup ==
    /\ disposed /\ phase = "none" /\ WakeupDue
    /\ armed' = NoWakeup
    /\ UNCHANGED <<clock, lastNow, nextId, work, scheduled, turn, lifecycle>>

ClockAdvances ==
    /\ clock < MaxNow
    /\ clock' = clock + 1
    /\ UNCHANGED <<armed, lastNow, nextId, work, scheduled, turn, lifecycle>>

ClockRegresses ==
    /\ "clock" \in Faults
    /\ clock > 0
    /\ clock' = clock - 1
    /\ UNCHANGED <<armed, lastNow, nextId, work, scheduled, turn, lifecycle>>

-----------------------------------------------------------------------------
Init ==
    /\ clock \in 0..MaxNow
    /\ armed = NoWakeup
    /\ lastNow = 0
    /\ nextId = 1
    /\ work = NoWork
    /\ scheduled = Unset
    /\ phase = "none" /\ selectedTimer = 0 /\ callbacks = 0 /\ running = 0
    /\ disposed = FALSE
    /\ observers = {}
    /\ notified = [o \in Observers |-> 0]
    /\ terminations = 0

EnqueueStep ==
    \E ref \in Refs :
        \/ EnqueueMacrotask(ref)
        \/ EnqueueIoCallback(ref)
        \/ EnqueueImmediate(ref)
        \/ EnqueueNextTick(ref)
        \/ \E d \in Delays : SetTimeout(d, ref) \/ SetInterval(d, ref)

WithdrawStep == \E id \in 1..MaxId : CancelTask(id) \/ ClearTimer(id)

RefStep ==
    \E ref \in Refs :
        \/ \E id \in 1..MaxId : SetTimerRef(id, ref) \/ SetImmediateRef(id, ref)
        \/ \E r \in RequestIds : SetNativeRequestRef(r, ref)

NativeStep ==
    \E r \in RequestIds :
        \/ \E ref \in Refs : RegisterNativeRequest(r, ref) \/ CompleteNativeRequest(r, ref)
        \/ CancelNativeRequest(r)

LifecycleStep ==
    \/ ReadClock
    \/ \E o \in Observers : AddLifecycleObserver(o) \/ DetachLifecycleObserver(o)
    \/ Shutdown

TurnStep ==
    \/ EndTask
    \/ DrainNextTick
    \/ EndTick
    \/ CallbackThrows
    \/ DrainDone
    \/ CheckpointThrows
    \/ FinishTurn

HostStep ==
    \/ RunTurn
    \/ RunNextTickCheckpoint
    \/ LateWakeup
    \/ ClockAdvances
    \/ ClockRegresses

Next ==
    \/ EnqueueStep
    \/ WithdrawStep
    \/ RefStep
    \/ NativeStep
    \/ LifecycleStep
    \/ TurnStep
    \/ HostStep

Spec == Init /\ [][Next]_vars

(* The host delivers a wakeup that is due, callbacks and checkpoints       *)
(* return, and time passes.                                                *)
TurnReturns == EndTask \/ DrainNextTick \/ EndTick \/ DrainDone \/ FinishTurn

Fairness ==
    /\ WF_vars(RunTurn /\ WakeupDue)
    /\ WF_vars(TurnReturns)
    /\ WF_vars(ClockAdvances)

-----------------------------------------------------------------------------
(* Properties.                                                             *)

Wakeups == [at : Nat \cup {-1, -2},
            phase : {"null", "undefined", "next-tick", "event-loop"}]

WorkType ==
    [immediates      : SUBSET [id : Nat, ref : BOOLEAN],
     nextTicks       : SUBSET [id : Nat, ref : BOOLEAN],
     readyTasks      : SUBSET [id : Nat, at : Nat, ref : BOOLEAN, io : BOOLEAN,
                               request : RequestIds \cup {NoRequest}],
     timers          : SUBSET [id : Nat, at : Nat, every : Nat, ref : BOOLEAN],
     nativeRequests  : [RequestIds -> {"absent", "ref", "unref"}],
     tasksById       : SUBSET Nat,
     immediateCutoff : Nat \cup {NoCutoff},
     ioCutoff        : Nat \cup {NoCutoff}]

(* Type invariant; counter.callbacks never passes maxCallbacksPerTurn. *)
TypeOK ==
    /\ clock \in Nat
    /\ lastNow \in Nat
    /\ nextId \in Nat
    /\ work \in WorkType
    /\ armed \in Wakeups /\ scheduled \in Wakeups
    /\ phase \in {"none", "task", "drain", "tick", "checkpoint", "finish"}
    /\ selectedTimer \in Nat
    /\ callbacks \in 0..MaxCallbacksPerTurn
    /\ running \in Nat
    /\ disposed \in BOOLEAN
    /\ observers \subseteq Observers
    /\ notified \in [Observers -> Nat]
    /\ terminations \in Nat

Queued(w) == w.immediates \cup w.nextTicks \cup w.readyTasks

Distinct(S) == \A t, u \in S : t.id = u.id => t = u
Apart(S, T) == \A t \in S, u \in T : t.id # u.id

WellIndexed(w, n) ==
    /\ w.tasksById = Ids(Queued(w))
    /\ Distinct(w.immediates) /\ Distinct(w.nextTicks)
    /\ Distinct(w.readyTasks) /\ Distinct(w.timers)
    /\ Apart(w.immediates, w.nextTicks) /\ Apart(w.immediates, w.readyTasks)
    /\ Apart(w.nextTicks, w.readyTasks) /\ Apart(Queued(w), w.timers)
    /\ \A t \in Queued(w) \cup w.timers : 0 < t.id /\ t.id < n

(* tasksById indexes exactly the tasks in the three queues, no id is in    *)
(* two places, and the callback being executed has left its queue.  Every  *)
(* enqueue, cancel, take and rollback updates the map and an array         *)
(* separately.                                                             *)
IndexAgreement ==
    /\ WellIndexed(work, nextId)
    /\ running \notin work.tasksById

(* The wakeup a serves the queues w, whose deadlines were last compared    *)
(* with the clock at now.                                                  *)
Covers(a, w, now) ==
    /\ IsAlive(w) /\ HasReadyWork(w) =>
           /\ 0 <= a.at /\ a.at <= now
           /\ a.phase = "next-tick" <=> HasRunnableNextTick(w)
    /\ IsAlive(w) => \A t \in w.timers :
           0 <= a.at /\ (a.at <= t.at \/ a.at <= now)
    /\ 0 <= a.at => /\ IsAlive(w)
                    /\ HasReadyWork(w) \/ \E t \in w.timers : t.at <= a.at

(* No wakeup is lost and none is left behind.  Between turns the loop's    *)
(* idea of the scheduled wakeup is what the host has armed; work that      *)
(* keeps the loop alive has a wakeup no later than its deadline, in the    *)
(* phase the host must run; a loop that nothing keeps alive has none; and  *)
(* the host is never woken before there is something to run.               *)
WakeupCoversWork ==
    phase = "none" /\ ~disposed =>
        scheduled \in {armed, Unset} /\ Covers(armed, work, lastNow)

(* finalizeTermination takes effect once however many of a callback, a     *)
(* microtask checkpoint, the clock and the port fail: an active loop has   *)
(* told nobody, a disposed one has told the host once, each observer at    *)
(* most once, holds no work and asks for no wakeup.                        *)
TerminatesOnce ==
    /\ terminations = IF disposed THEN 1 ELSE 0
    /\ \A o \in Observers : notified[o] <= terminations
    /\ disposed => work = NoWork /\ observers = {} /\ scheduled = NoWakeup

(* A callback starts in this step *)
Starts(id) == running = 0 /\ running' = id

(* Ready tasks run in the order they were admitted, except that the I/O    *)
(* callbacks of a poll batch may pass macrotasks and native completions.   *)
(* takeOrdinaryReadyTask compares readyAt before the sequence, so this     *)
(* rests on the clock check of readNow.                                    *)
ReadyTasksFifo ==
    [][\A t, u \in work.readyTasks :
          Starts(t.id) /\ u.id < t.id => t.io /\ ~u.io]_vars

(* An interval's deadline moves along the grid of its period, to the first *)
(* point the clock has not reached: no drift and no burst of missed runs.  *)
IntervalCadence ==
    [][\A t \in work.timers, u \in work'.timers :
          t.id = u.id /\ t.at # u.at =>
              /\ t.every > 0 /\ u.every = t.every
              /\ (u.at - t.at) % t.every = 0
              /\ u.at - t.every <= lastNow' /\ lastNow' < u.at]_vars

(* The loop keeps the promises of TaskLedger.                              *)
Ledger == INSTANCE TaskLedger WITH
    admitted <- nextId - 1,
    pending  <- work.tasksById \cup Ids(work.timers),
    periodic <- Ids({t \in work.timers : t.every > 0}),
    running  <- running,
    closed   <- disposed

LedgerSpec == Ledger!Spec
=============================================================================
