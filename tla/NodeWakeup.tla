------------------------------ MODULE NodeWakeup ------------------------------
(***************************************************************************)
(* The wakeups of NodeRuntimeHostController                                *)
(* (adapters/node/src/runtime-host-controller.mjs): one wakeup of the      *)
(* guest's event loop, kept in one of three queues of Node, of which the   *)
(* first cannot be taken back.                                             *)
(*                                                                         *)
(* The guest has registered its turn.  Ticks, immediates and timers are    *)
(* Node's: process.nextTick runs before anything else of the loop, and     *)
(* timers count whole milliseconds.                                        *)
(***************************************************************************)
EXTENDS Integers, Sequences

CONSTANTS
    Deadlines,     \* deadlines the loop may ask for
    TicksPerMs,    \* ticks of the clock in a millisecond
    MaxNow,        \* bound on the clock
    MaxTickets     \* bound on the wakeups

ASSUME WakeupBounds ==
    /\ Deadlines \subseteq Nat /\ TicksPerMs \in Nat \ {0}
    /\ MaxNow \in Nat /\ MaxTickets \in Nat

VARIABLES
    now,
    wanted,      \* the wakeup that the guest asked for last, until its turn
    turns,      \* the lanes in which turns have run
    ticket, immediate, immediatePhase, terminated,
    ticks,      \* process.nextTick: the tickets of the callbacks
    check,      \* setImmediate: a ticket, 0 for none
    timer       \* setTimeout: a ticket and the instant it waits for

queueVars == <<ticket, immediate, immediatePhase, terminated, ticks, check, timer>>
wakeupVars == <<now, wanted, turns, queueVars>>

\* A host that has terminated holds no wakeup.
Port == INSTANCE WakeupPort
            WITH armed <- IF terminated THEN [at |-> -1, phase |-> "none"] ELSE wanted

NoWakeup == Port!NoWakeup

NoTimer == [ticket |-> 0, at |-> 0]

WakeupInit ==
    /\ now = 0 /\ wanted = NoWakeup /\ turns = <<>>
    /\ ticket = 0 /\ immediate = FALSE /\ immediatePhase = "none" /\ terminated = FALSE
    /\ ticks = <<>> /\ check = 0 /\ timer = NoTimer

-----------------------------------------------------------------------------
(* Mutant: rounded down *)
DelayRoundedDown(deadline) ==
    IF deadline <= now THEN 0 ELSE ((deadline - now) \div TicksPerMs) * TicksPerMs

\* Math.max(0, Math.ceil(deadline - performance.now())), in ticks
Delay(deadline) ==
    IF deadline <= now THEN 0
    ELSE ((deadline - now + TicksPerMs - 1) \div TicksPerMs) * TicksPerMs

AlreadyQueued(wakeup) ==
    /\ wakeup # NoWakeup /\ wakeup.at <= now
    /\ immediate /\ immediatePhase = wakeup.phase /\ ~terminated

RequestWakeup(wakeup) ==
    /\ ticket < MaxTickets
    /\ wanted' = wakeup
    /\ IF AlreadyQueued(wakeup)
       THEN UNCHANGED queueVars
       ELSE LET real == wakeup # NoWakeup /\ ~terminated
                soon == real /\ Delay(wakeup.at) = 0
                later == real /\ Delay(wakeup.at) > 0
                tick == soon /\ wakeup.phase = "next-tick"
            IN  /\ ticket' = ticket + 1
                /\ immediate' = soon
                /\ immediatePhase' = IF soon THEN wakeup.phase ELSE "none"
                /\ ticks' = IF tick THEN Append(ticks, ticket') ELSE ticks
                /\ check' = IF soon /\ ~tick THEN ticket' ELSE 0
                /\ timer' = IF later THEN [ticket |-> ticket', at |-> now + Delay(wakeup.at)]
                            ELSE NoTimer
                /\ UNCHANGED terminated
    /\ UNCHANGED <<now, turns>>

(* Mutant: the belief outlives the callback *)
FiredBelieving(id, lane) ==
    IF id # ticket \/ terminated
    THEN UNCHANGED <<wanted, turns, immediate, immediatePhase>>
    ELSE /\ wanted' = NoWakeup /\ turns' = Append(turns, lane)
         /\ UNCHANGED <<immediate, immediatePhase>>

\* fire, the callback of every lane; left is the state of the lane after it
Fired(id, lane) ==
    IF id # ticket \/ terminated
    THEN UNCHANGED <<wanted, turns, immediate, immediatePhase>>
    ELSE /\ immediate' = FALSE /\ immediatePhase' = "none"
         /\ wanted' = NoWakeup /\ turns' = Append(turns, lane)

FireTick ==
    /\ ticks # <<>>
    /\ ticks' = Tail(ticks)
    /\ Fired(Head(ticks), "tick")
    /\ UNCHANGED <<now, ticket, terminated, check, timer>>

FireCheck ==
    /\ ticks = <<>> /\ check # 0
    /\ check' = 0
    /\ Fired(check, "check")
    /\ UNCHANGED <<now, ticket, terminated, ticks, timer>>

FireTimer ==
    /\ ticks = <<>> /\ timer # NoTimer /\ timer.at < now + TicksPerMs
    /\ timer' = NoTimer
    /\ Fired(timer.ticket, "timer")
    /\ UNCHANGED <<now, ticket, terminated, ticks, check>>

\* dispose; it may be called again, and the guest may still ask for wakeups
DisposeWakeups ==
    /\ ticket < MaxTickets
    /\ ticket' = ticket + 1 /\ immediate' = FALSE
    /\ check' = 0 /\ timer' = NoTimer /\ wanted' = NoWakeup
    /\ UNCHANGED <<now, turns, immediatePhase, terminated, ticks>>

\* Callbacks that are queued stay where they are.
Terminate ==
    /\ ~terminated
    /\ terminated' = TRUE
    /\ UNCHANGED <<now, wanted, turns, ticket, immediate, immediatePhase, ticks, check, timer>>

Clock ==
    /\ now < MaxNow
    /\ now' = now + 1
    /\ UNCHANGED <<wanted, turns, queueVars>>

WakeupNext ==
    \/ \E wakeup \in Port!Wakeups : RequestWakeup(wakeup)
    \/ FireTick \/ FireCheck \/ FireTimer
    \/ DisposeWakeups \/ Terminate \/ Clock

\* Node runs its queues, and time passes.
WakeupSpec ==
    /\ WakeupInit /\ [][WakeupNext]_wakeupVars
    /\ WF_wakeupVars(FireTick) /\ WF_wakeupVars(FireCheck) /\ WF_wakeupVars(FireTimer)
    /\ WF_wakeupVars(Clock)

-----------------------------------------------------------------------------
(* The host keeps the promise of the port: every turn is for the wakeup    *)
(* that was asked for last, in the lane of its phase and not early, and a  *)
(* wakeup that is due gets its turn.  Callbacks of process.nextTick cannot *)
(* be taken back, so a request, a disposal or the end of the host may meet *)
(* any number of old ones.                                                 *)
PortKept == Port!PortSpec

(* immediate, by which a request is recognised as already queued, is true  *)
(* only while a callback with the current ticket waits in the lane of      *)
(* its phase; a belief that outlives the callback loses the wakeup.        *)
QueuedIsReal ==
    immediate /\ ~terminated =>
        IF immediatePhase = "next-tick" THEN \E i \in DOMAIN ticks : ticks[i] = ticket
        ELSE check = ticket
=============================================================================
