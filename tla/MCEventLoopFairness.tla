------------------------ MODULE MCEventLoopFairness -------------------------
(***************************************************************************)
(* EventLoop with unbounded time and unbounded ids in a finite model.      *)
(* Only the order of ids and the differences between instants matter to    *)
(* the loop, so when a bound is reached the whole state is renamed: the    *)
(* ids in use are numbered again from 1 in their own order, and every      *)
(* instant moves one tick down.  A behaviour can therefore admit work and  *)
(* read the clock forever while an old task waits, which is what           *)
(* starvation needs.                                                       *)
(***************************************************************************)
EXTENDS EventLoop, FiniteSetsExt

VARIABLE watched   \* history: a task picked when it was admitted, 0 if none

MCvars == <<vars, watched>>

OneShots(w) == w.tasksById \cup Ids({t \in w.timers : t.every = 0})

UsedIds == (work.tasksById \cup Ids(work.timers) \cup {running, selectedTimer}) \ {0}

(* the new number of n: a cutoff keeps the tasks it covers                 *)
Rank(n) == IF n < 1 THEN n ELSE Cardinality({i \in UsedIds : i <= n})

Moments == {t.at : t \in work.readyTasks \cup work.timers} \cup {lastNow}

Shift(n, by) == IF n < 1 THEN n ELSE Max({0, n - by})

RenumberIds ==
    LET Moved(S) == {[t EXCEPT !.id = Rank(@)] : t \in S}
    IN /\ nextId > MaxId /\ Cardinality(UsedIds) < MaxId
       /\ nextId' = Cardinality(UsedIds) + 1
       /\ work' = [work EXCEPT !.immediates = Moved(@),
                               !.nextTicks = Moved(@),
                               !.readyTasks = Moved(@),
                               !.timers = Moved(@),
                               !.tasksById = {Rank(i) : i \in @},
                               !.immediateCutoff = Rank(@),
                               !.ioCutoff = Rank(@)]
       /\ running' = Rank(running)
       /\ selectedTimer' = Rank(selectedTimer)
       /\ UNCHANGED <<clock, armed, lastNow, scheduled, phase, callbacks, lifecycle>>

TranslateTime ==
    LET Moved(S) == {[t EXCEPT !.at = @ - 1] : t \in S}
    IN /\ clock = MaxNow
       /\ \A m \in Moments : m > 0
       /\ clock' = clock - 1
       /\ lastNow' = lastNow - 1
       /\ work' = [work EXCEPT !.readyTasks = Moved(@), !.timers = Moved(@)]
       /\ armed' = [armed EXCEPT !.at = Shift(@, 1)]
       /\ scheduled' = [scheduled EXCEPT !.at = Shift(@, 1)]
       /\ UNCHANGED <<nextId, turn, lifecycle>>

(* A watched task is watched until it starts, is withdrawn, or the loop    *)
(* terminates.                                                             *)
Watch ==
    IF watched = 0
    THEN watched' \in {0} \cup (OneShots(work') \ OneShots(work))
    ELSE watched' = IF watched \in OneShots(work') THEN watched ELSE 0

MCNext ==
    \/ Next /\ Watch
    \/ RenumberIds /\ watched' = Rank(watched)
    \/ TranslateTime /\ UNCHANGED watched

MCInit == Init /\ watched = 0

MCSpec ==
    /\ MCInit /\ [][MCNext]_MCvars
    /\ Fairness
    /\ WF_vars(RenumberIds)
    /\ WF_vars(TranslateTime)

(* Every turn ends, although ticks may queue ticks forever: the callback   *)
(* budget of executeCallback stops them.                                   *)
TurnsEnd == phase # "none" ~> phase = "none"

(* A turn that finds ticks runs only ticks, so a program whose microtasks  *)
(* queue a tick in every turn holds everything else off, as in Node.js.    *)
TicksKeepComing == []<>(phase = "none" /\ HasRunnableNextTick(work))

(* Every immediate starts or is withdrawn, unless ticks keep coming, while *)
(* macrotasks, timers and immediates are admitted for ever (takeReadyTask, *)
(* "Work admitted afterwards cannot starve the check phase").              *)
CheckPhaseServed ==
    TicksKeepComing \/ (watched \in Ids(work.immediates) ~> watched = 0)

(* Every ready task starts, and every one-shot timer fires, unless they    *)
(* are withdrawn or ticks keep coming, although immediates queue immediates*)
(* and macrotasks macrotasks for ever: a check batch is closed by its      *)
(* cutoff, and a due timer is compared with the oldest ready task.         *)
OrdinaryWorkServed ==
    TicksKeepComing
    \/ (watched \in Ids(work.readyTasks) \cup Ids(work.timers) ~> watched = 0)

(* The loop serves its work: every turn ends, and ordinary work is not held*)
(* off by other ordinary work for ever (executeCallback, takeReadyTask).   *)
WorkServed == TurnsEnd /\ OrdinaryWorkServed
=============================================================================
