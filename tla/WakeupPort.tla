------------------------------ MODULE WakeupPort ------------------------------
(***************************************************************************)
(* What HostEventLoopPort promises of requestWakeup: the host holds the    *)
(* last wakeup it was asked for, runs one turn for it when it is due, and  *)
(* runs no other turn.  EventLoop assumes this of its variable armed.      *)
(***************************************************************************)
EXTENDS Integers, Sequences

CONSTANTS
    Deadlines,    \* deadlines the loop may ask for
    TicksPerMs    \* ticks of the clock in a millisecond

VARIABLES
    now,
    armed,
    turns    \* the lanes in which the host has run its turns

portVars == <<now, armed, turns>>

Phases == {"next-tick", "event-loop"}
Lanes == {"tick", "check", "timer"}
NoWakeup == [at |-> -1, phase |-> "none"]
Wakeups == [at : Deadlines, phase : Phases] \cup {NoWakeup}

PortInit == now = 0 /\ armed = NoWakeup /\ turns = <<>>

PortClock == now' > now /\ UNCHANGED <<armed, turns>>

\* requestWakeup; null, disposal and termination leave nothing armed
Request == armed' \in Wakeups /\ UNCHANGED <<now, turns>>

\* Host timers count whole milliseconds, so a turn may be less than one early.
Turn ==
    \E lane \in Lanes :
        /\ armed # NoWakeup /\ armed.at < now + TicksPerMs
        /\ lane = "tick" => armed.phase = "next-tick"
        /\ lane = "check" => armed.phase = "event-loop"
        /\ turns' = Append(turns, lane)
        /\ armed' = NoWakeup /\ UNCHANGED now

PortNext == PortClock \/ Request \/ Turn

PortSpec ==
    /\ PortInit /\ [][PortNext]_portVars
    /\ WF_portVars(armed.at <= now /\ Turn)
=============================================================================
