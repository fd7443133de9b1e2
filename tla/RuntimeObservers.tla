-------------------------- MODULE RuntimeObservers --------------------------
(***************************************************************************)
(* A subscription of the runtime observer registry (kernel/runtime-        *)
(* observer-*.ts): a bounded queue in front of a callback that may be slow,*)
(* fail or never return, and one overflow event that stands for all that   *)
(* was dropped.  The producer never waits.                                 *)
(***************************************************************************)
EXTENDS Naturals, Sequences, SequencesExt

CONSTANTS
    MaxQueuedEvents,  \* admission.maxQueuedEvents
    MaxSequence       \* bound on the sequence numbers of the registry

ASSUME ObserverAssumption == MaxQueuedEvents \in Nat \ {0} /\ MaxSequence \in Nat

VARIABLES
    sequence,   \* #sequence of the registry
    active,     \* #active
    waiting,    \* #queue
    overflow,   \* #overflow, with the events that #dropped counts
    delivering, \* the event in the callback, 0 when there is none: #inflight
    draining,   \* #running: a drain is scheduled or under way
    accepted,   \* history: sequences of the events that were accepted
    told,       \* history: the accepted events the callback was told of
    lastTold    \* history: the sequence of the last event it was given

observerVars ==
    <<sequence, active, waiting, overflow, delivering, draining, accepted, told, lastTold>>

\* optional and required are support levels; runtime.terminated is terminal
EventKinds == {"optional", "required", "terminal"}

NoOverflow == [seq |-> 0, events |-> {}]

ObserverInit ==
    /\ sequence = 0 /\ active = TRUE /\ waiting = <<>> /\ overflow = NoOverflow
    /\ delivering = 0 /\ draining = FALSE
    /\ accepted = {} /\ told = {} /\ lastTold = 0

-----------------------------------------------------------------------------
Occupied == Len(waiting) + (IF delivering # 0 THEN 1 ELSE 0)

\* the oldest event in the queue of one of the kinds, 0 when there is none
Oldest(kinds) ==
    SelectInSeq(waiting, LAMBDA e : e.kind \in kinds)

\* what a full queue gives up: its oldest optional event, or its oldest one
\* that is not terminal; 0 for the new event
Victim == IF Oldest({"optional"}) # 0 THEN Oldest({"optional"})
          ELSE Oldest({"optional", "required"})

\* Mutant: a later drop replaces what the overflow event counts
OverflowReplaced(dropped, at) == [seq |-> at, events |-> {dropped}]

\* #recordDrop: the first drop makes an overflow event, later ones add to it
WithDropped(dropped, at) ==
    [seq |-> IF overflow = NoOverflow THEN at ELSE overflow.seq,
     events |-> overflow.events \cup {dropped}]

\* publish and enqueue
PublishEvent(kind) ==
    LET e == [seq |-> sequence + 1, kind |-> kind]
        full == Occupied >= MaxQueuedEvents
        dropped == IF Victim # 0 THEN waiting[Victim].seq ELSE e.seq
    IN  /\ active /\ sequence + 2 <= MaxSequence
        /\ accepted' = accepted \cup {e.seq}
        /\ overflow' = IF full THEN WithDropped(dropped, e.seq + 1) ELSE overflow
        /\ sequence' = IF full /\ overflow = NoOverflow THEN e.seq + 1 ELSE e.seq
        /\ waiting' = CASE ~full -> Append(waiting, e)
                        [] full /\ Victim # 0 -> Append(RemoveAt(waiting, Victim), e)
                        [] OTHER -> waiting
        /\ draining' = TRUE
        /\ UNCHANGED <<active, delivering, told, lastTold>>

\* the next turn of the loop in #drain: the overflow event has its place in
\* the order of sequences
TakeNext ==
    IF ~active \/ (waiting = <<>> /\ overflow = NoOverflow)
    THEN /\ delivering' = 0 /\ draining' = FALSE
         /\ UNCHANGED <<waiting, overflow, told, lastTold>>
    ELSE IF overflow # NoOverflow /\ (waiting = <<>> \/ overflow.seq < Head(waiting).seq)
    THEN /\ delivering' = overflow.seq /\ lastTold' = overflow.seq
         /\ told' = told \cup overflow.events
         /\ overflow' = NoOverflow
         /\ UNCHANGED <<waiting, draining>>
    ELSE /\ delivering' = Head(waiting).seq /\ lastTold' = Head(waiting).seq
         /\ told' = told \cup {Head(waiting).seq}
         /\ waiting' = Tail(waiting)
         /\ UNCHANGED <<overflow, draining>>

\* the microtask of #schedule
DrainBegins ==
    /\ draining /\ delivering = 0
    /\ TakeNext
    /\ UNCHANGED <<sequence, active, accepted>>

\* the callback settles, rejects, runs out of time or is disposed of
CallbackEnds ==
    /\ delivering # 0
    /\ TakeNext
    /\ UNCHANGED <<sequence, active, accepted>>

DisposeObserver ==
    /\ active /\ active' = FALSE
    /\ waiting' = <<>> /\ overflow' = NoOverflow
    /\ UNCHANGED <<sequence, delivering, draining, accepted, told, lastTold>>

ObserverRest ==
    /\ ~draining
    /\ UNCHANGED observerVars

ObserverNext ==
    \/ \E kind \in EventKinds : PublishEvent(kind)
    \/ DrainBegins \/ CallbackEnds \/ DisposeObserver \/ ObserverRest

ObserverSpec == ObserverInit /\ [][ObserverNext]_observerVars

-----------------------------------------------------------------------------
(* A slow observer loses events but never track of them: while it is       *)
(* subscribed every event it accepts was given to it, is in the queue, or  *)
(* is counted by exactly one overflow event; sequences only go up, queue   *)
(* and callback keep within the limit, for which the overflow event does   *)
(* not count, and what waits has a drain coming.                           *)
ObserverKeepsTrack ==
    LET queued == {waiting[i].seq : i \in DOMAIN waiting}
        next == queued \cup (IF overflow = NoOverflow THEN {} ELSE {overflow.seq})
    IN  active =>
          /\ accepted = told \cup queued \cup overflow.events
          /\ told \cap queued = {} /\ overflow.events \cap (told \cup queued) = {}
          /\ \A s \in next : lastTold < s
          /\ Len(waiting) <= MaxQueuedEvents
          /\ delivering \in accepted => Occupied <= MaxQueuedEvents
          /\ next # {} => draining
=============================================================================
