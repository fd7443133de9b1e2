---------------------------- MODULE MCEventLoop -----------------------------
(***************************************************************************)
(* Three programs on one event loop, and two history variables that record *)
(* what a program can observe of the poll and check phases.  "tasks" and   *)
(* "failures" live in the first tick and use every operation: in "tasks"   *)
(* nothing fails, and in "failures", where everything may, no task is      *)
(* unreferenced and there is an observer.  "phases" lives longer, with     *)
(* several timers, and nothing fails.                                      *)
(***************************************************************************)
EXTENDS EventLoop

VARIABLES
    program, \* the program that runs
    ioTurn,  \* the turn under way runs an I/O callback
    owed     \* immediates admitted by an I/O turn that have not started

MCvars == <<vars, program, ioTurn, owed>>

Tasks == INSTANCE EventLoop WITH
    Delays <- {1},
    MaxNow <- 1,
    Faults <- {}

Failures == INSTANCE EventLoop WITH
    Delays <- {1},
    MaxNow <- 1,
    Refs <- {TRUE}

Phases == INSTANCE EventLoop WITH
    Refs <- {TRUE},
    Kinds <- Kinds \ {"nextTick", "native"},
    Faults <- {}

MCInit ==
    /\ \/ program = "tasks" /\ Tasks!Init
       \/ program = "failures" /\ Failures!Init
       \/ program = "phases" /\ Phases!Init
    /\ ioTurn = FALSE
    /\ owed = {}

WatchPoll ==
    /\ ioTurn' = IF phase = "none" /\ phase' = "task"
                 THEN \E t \in work.readyTasks : t.io /\ t.id = running'
                 ELSE phase' # "none" /\ ioTurn
    /\ owed' = (owed \cup IF ioTurn THEN Ids(work'.immediates) \ Ids(work.immediates)
                                    ELSE {}) \cap Ids(work'.immediates)

MCNext ==
    /\ UNCHANGED program
    /\ \/ program = "tasks" /\ Tasks!Next /\ UNCHANGED <<ioTurn, owed, observers>>
       \/ program = "failures" /\ Failures!Next /\ UNCHANGED <<ioTurn, owed>>
       \/ program = "phases" /\ Phases!Next /\ WatchPoll /\ UNCHANGED observers

MCSpec == MCInit /\ [][MCNext]_MCvars

(* An immediate queued by an I/O callback, by a tick it queued or by its   *)
(* microtasks runs before any timer and before any macrotask that is not   *)
(* part of the poll batch ("its bounded poll batch reaches check before    *)
(* new timers", enqueueIoCallback).                                        *)
PollReachesCheck ==
    [][owed # {} /\ phase = "none" /\ phase' = "task" =>
          \/ running' \in Ids(work.immediates)
          \/ \E t \in work.readyTasks : t.io /\ t.id = running']_MCvars

(* The phases of a turn and the grid of an interval keep the order in which*)
(* their work was admitted, however late a turn is (takeReadyTask,         *)
(* advanceIntervalDeadline).                                               *)
PhasesKeepOrder == PollReachesCheck /\ IntervalCadence
=============================================================================
