----------------------------- MODULE WebWritable -----------------------------
(***************************************************************************)
(* RuntimeWritableStream (packages/runtime/src/streams/web-writable.ts): a *)
(* queue of writes and a close in front of a sink, which takes one at a    *)
(* time, and an abort or an error that may come at any moment.             *)
(*                                                                         *)
(* The operations are operators on the record writable, so that            *)
(* TransformStream can use them.  Requests are writes, closes and aborts,  *)
(* numbered in the order in which they come; answer[i] is the state of the *)
(* promise of request i.                                                   *)
(***************************************************************************)
EXTENDS Integers, Sequences, FiniteSets

CONSTANTS
    WritableHighWaterMark,
    WritableSizes,   \* what the size() of the strategy may return
    MaxWrites        \* bound on the requests

ASSUME WritableAssumption ==
    WritableHighWaterMark \in Nat /\ WritableSizes \subseteq Nat /\ MaxWrites \in Nat

VARIABLE writable

NoWrite == [kind |-> "none", id |-> 0, size |-> 0]

\* The strategy's mark decides whether there is room at first.
NewWritable ==
    LET full == WritableHighWaterMark <= 0 IN
    [state |-> "writable", queue |-> <<>>, active |-> NoWrite, start |-> "pending",
     \* advanceQueue: not running, waiting for the start, or for the sink
     advancing |-> "no",
     closeRequested |-> FALSE, abortStarted |-> FALSE,
     \* requests that share the promise of the abort, of the error, of the
     \* active close
     aborts |-> {}, errors |-> {}, closes |-> {},
     total |-> 0, backpressure |-> full, ready |-> IF full THEN "pending" ELSE "resolved",
     answer |-> <<>>,
     \* history: calls of the sink, those that are running, the requests the
     \* sink has fulfilled
     calls |-> <<>>, running |-> {}, done |-> {}]

WritableInit == writable = NewWritable

-----------------------------------------------------------------------------
Answered(w, ids, result) ==
    [w EXCEPT !.answer = [i \in DOMAIN w.answer |-> IF i \in ids THEN result ELSE w.answer[i]]]

Terminating(w) == w.state \in {"aborting", "erroring"}

UpdateBackpressure(w) ==
    LET next == WritableHighWaterMark - w.total <= 0
    IN  IF w.state # "writable" \/ next = w.backpressure THEN w
        ELSE [w EXCEPT !.backpressure = next,
                       !.ready = IF next THEN "pending" ELSE "resolved"]

(* Mutant: an end forgets the size of what the sink has *)
RejectedToNothing(w) ==
    LET ids == {w.queue[i].id : i \in DOMAIN w.queue}
    IN  [Answered(w, ids, "failed") EXCEPT !.queue = <<>>, !.total = 0, !.ready = "rejected"]

\* the queue, closed and ready are rejected; what the sink has stays
Rejected(w) ==
    LET ids == {w.queue[i].id : i \in DOMAIN w.queue}
    IN  [Answered(w, ids, "failed") EXCEPT !.queue = <<>>, !.total = w.active.size,
                                           !.ready = "rejected"]

FinishError(w) ==
    IF w.state # "erroring" THEN w
    ELSE [Answered(w, w.errors, "failed") EXCEPT !.state = "errored", !.errors = {}]

(* Mutant: an error does not wait for the sink *)
ErrorAtOnce(w) ==
    IF w.state # "writable" THEN w
    ELSE FinishError([Rejected(w) EXCEPT !.state = "erroring"])

\* errorInternal
ErrorWritable(w) ==
    LET e == [Rejected(w) EXCEPT !.state = "erroring"]
    IN  IF w.state # "writable" THEN w
        ELSE IF w.advancing = "no" THEN FinishError(e) ELSE e

CallSink(w, kind, id) ==
    [w EXCEPT !.calls = Append(@, [kind |-> kind, id |-> id]), !.running = @ \cup {kind}]

FinishAbort(w) ==
    IF w.abortStarted \/ w.state # "aborting" THEN w
    ELSE CallSink([w EXCEPT !.abortStarted = TRUE], "abort", 0)

\* advanceQueue ends
AdvanceEnds(w) ==
    LET e == [w EXCEPT !.active = NoWrite, !.advancing = "no"]
    IN  IF w.state = "aborting" THEN FinishAbort(e) ELSE FinishError(e)

\* the loop of advanceQueue
AdvanceLoop(w) ==
    IF w.state = "writable" /\ w.queue # <<>>
    THEN LET next == Head(w.queue)
         IN  CallSink([w EXCEPT !.queue = Tail(@), !.active = next, !.advancing = "sink"],
                      next.kind, next.id)
    ELSE AdvanceEnds(w)

Advanced(w) == IF w.advancing = "no" THEN [w EXCEPT !.advancing = "start"] ELSE w

\* advanceQueue goes on when the start has settled
AdvanceResumed(w) ==
    IF w.start = "ok" THEN AdvanceLoop(w) ELSE AdvanceEnds(ErrorWritable(w))

(* Mutant: a write that succeeds after an abort goes on with the queue *)
SinkReturnedUnaware(w, ok) ==
    LET w1 == [w EXCEPT !.running = @ \ {w.active.kind}, !.total = @ - w.active.size]
    IN  IF ok THEN AdvanceLoop([Answered(w1, {w.active.id} \cup w.closes, "ok") EXCEPT
                                   !.done = @ \cup {w.active.id}])
        ELSE AdvanceEnds(ErrorWritable(Answered(w1, {w.active.id} \cup w.closes, "failed")))

CloseReturned(w, ok) ==
    LET ids == {w.active.id} \cup w.closes
        w1 == [w EXCEPT !.running = @ \ {"close"},
                        !.done = IF ok THEN @ \cup {w.active.id} ELSE @]
    IN  IF ~ok THEN AdvanceEnds(ErrorWritable(Answered(w1, ids, "failed")))
        ELSE IF Terminating(w) THEN AdvanceEnds(Answered(w1, ids, "failed"))
        ELSE AdvanceEnds([Answered(w1, ids, "ok") EXCEPT !.state = "closed"])

WriteReturned(w, ok) ==
    LET w1 == [w EXCEPT !.running = @ \ {"write"}, !.total = @ - w.active.size,
                        !.done = IF ok THEN @ \cup {w.active.id} ELSE @]
    IN  IF ~ok THEN AdvanceEnds(ErrorWritable(Answered(w1, {w.active.id}, "failed")))
        ELSE IF Terminating(w) THEN AdvanceEnds(Answered(w1, {w.active.id}, "ok"))
        ELSE AdvanceLoop(UpdateBackpressure([Answered(w1, {w.active.id}, "ok") EXCEPT
                                                !.active = NoWrite]))

\* the promise of sink.write or sink.close settles
SinkReturned(w, ok) ==
    IF w.active.kind = "close" THEN CloseReturned(w, ok) ELSE WriteReturned(w, ok)

\* the promise of sink.abort settles
AbortReturned(w, ok) ==
    [Answered(w, w.aborts, IF ok THEN "ok" ELSE "failed") EXCEPT
        !.state = "errored", !.aborts = {}, !.running = @ \ {"abort"}]

\* writeFromWriter
WriteAsked(w, size) ==
    LET id == Len(w.answer) + 1
        record == [kind |-> "write", id |-> id, size |-> size]
    IN  IF w.state # "writable" \/ w.closeRequested
        THEN [w EXCEPT !.answer = Append(@, "failed")]
        ELSE Advanced(UpdateBackpressure(
                 [w EXCEPT !.answer = Append(@, "pending"), !.queue = Append(@, record),
                           !.total = @ + size]))

\* closeInternal
CloseAsked(w) ==
    LET id == Len(w.answer) + 1
        record == [kind |-> "close", id |-> id, size |-> 0]
    IN  IF w.state # "writable" \/ w.closeRequested
        THEN [w EXCEPT !.answer = Append(@, "failed")]
        ELSE Advanced([w EXCEPT !.answer = Append(@, "pending"), !.queue = Append(@, record),
                                !.closeRequested = TRUE])

\* abortInternal, with ids the request that waits for it, if any
AbortFor(w, ids) ==
    CASE w.state \in {"closed", "errored"} -> Answered(w, ids, "ok")
      [] w.state = "aborting" -> [w EXCEPT !.aborts = @ \cup ids]
      [] w.state \in {"erroring", "writable"} /\ w.closes # {} -> [w EXCEPT !.closes = @ \cup ids]
      [] w.state = "erroring" /\ w.closes = {} -> [w EXCEPT !.errors = @ \cup ids]
      [] w.state = "writable" /\ w.closes = {} /\ w.active.kind = "close" ->
            [w EXCEPT !.closes = @ \cup ids]
      [] OTHER -> Advanced([Rejected(w) EXCEPT !.state = "aborting", !.closeRequested = TRUE,
                                               !.aborts = ids])

AbortAsked(w) == AbortFor([w EXCEPT !.answer = Append(@, "pending")], {Len(w.answer) + 1})

-----------------------------------------------------------------------------
\* Who asks holds the writer, or the stream when no writer is held; the lock
\* itself changes nothing here.
CanAsk == Len(writable.answer) < MaxWrites

SinkStarts(ok) ==
    /\ writable.start = "pending"
    /\ writable' = IF ok THEN [writable EXCEPT !.start = "ok"]
                   ELSE ErrorWritable([writable EXCEPT !.start = "failed"])

AdvanceResumes ==
    /\ writable.advancing = "start" /\ writable.start # "pending"
    /\ writable' = AdvanceResumed(writable)

SinkSettles(ok) ==
    /\ writable.advancing = "sink"
    /\ writable' = SinkReturned(writable, ok)

SinkAbortSettles(ok) ==
    /\ "abort" \in writable.running
    /\ writable' = AbortReturned(writable, ok)

Write(size) == CanAsk /\ writable' = WriteAsked(writable, size)

WriteSizeFails ==
    /\ CanAsk /\ writable.state = "writable" /\ ~writable.closeRequested
    /\ writable' = [ErrorWritable(writable) EXCEPT !.answer = Append(@, "failed")]

CloseWritable == CanAsk /\ writable' = CloseAsked(writable)

AbortWritable == CanAsk /\ writable' = AbortAsked(writable)

\* controller.error, which the sink may call whenever it likes
SinkErrors ==
    /\ writable.state = "writable"
    /\ writable' = ErrorWritable(writable)

WritableNext ==
    \/ \E ok \in BOOLEAN : SinkStarts(ok) \/ SinkSettles(ok) \/ SinkAbortSettles(ok)
    \/ AdvanceResumes
    \/ \E size \in WritableSizes : Write(size)
    \/ WriteSizeFails \/ CloseWritable \/ AbortWritable \/ SinkErrors

\* The promises of the sink settle; promise reactions run.
WritableFairness ==
    /\ WF_writable(\E ok \in BOOLEAN : SinkStarts(ok))
    /\ WF_writable(AdvanceResumes)
    /\ WF_writable(\E ok \in BOOLEAN : SinkSettles(ok))
    /\ WF_writable(\E ok \in BOOLEAN : SinkAbortSettles(ok))

WritableSpec == WritableInit /\ [][WritableNext]_writable /\ WritableFairness

-----------------------------------------------------------------------------
KindsCalled(w) == {w.calls[i].kind : i \in DOMAIN w.calls}

(* The sink works on one thing at a time: its writes come in the order of  *)
(* the requests and nothing comes after a close or an abort, whatever is   *)
(* asked while it works.                                                   *)
SinkInOrder ==
    LET w == writable IN
    /\ Cardinality(w.running) <= 1
    /\ \A i, j \in DOMAIN w.calls : i < j =>
          /\ w.calls[i].kind = "write"
          /\ w.calls[j].kind = "write" => w.calls[i].id < w.calls[j].id

(* Promises tell the truth: a write or close that is reported as done was  *)
(* fulfilled by the sink and one that was rejected while the sink had it   *)
(* was not, unless the stream failed during its close; when the stream has *)
(* ended, nobody waits any more.                                           *)
AnswersAreTrue ==
    LET w == writable
        asked == {w.calls[i].id : i \in DOMAIN w.calls} \ {0}
    IN  /\ \A id \in asked : w.answer[id] = "ok" => id \in w.done
        /\ \A id \in w.done : w.answer[id] = "failed" => \E i \in DOMAIN w.calls : w.calls[i] = [kind |-> "close", id |-> id]
        /\ w.active # NoWrite => w.answer[w.active.id] = "pending"
        /\ w.state \in {"closed", "errored"} =>
              /\ \A i \in DOMAIN w.answer : w.answer[i] # "pending"
              /\ w.ready # "pending" \/ WritableHighWaterMark = 0
              /\ w.advancing = "no"

\* what the queue holds
QueueSize(queue) ==
    LET sums[k \in 0 .. Len(queue)] == IF k = 0 THEN 0 ELSE sums[k - 1] + queue[k].size
    IN  sums[Len(queue)]

(* ready and desiredSize tell a writer how much the queue and the sink     *)
(* hold, through writes, failures and an abort that keeps the active one.  *)
BackpressureIsCounted ==
    LET w == writable
        held == QueueSize(w.queue) + w.active.size
    IN  /\ w.state # "errored" => w.total = held
        /\ w.state = "writable" =>
              w.ready = IF held >= WritableHighWaterMark THEN "pending" ELSE "resolved"
        /\ w.state \in {"aborting", "erroring", "errored"} => w.ready = "rejected"

(* Every write, close and abort is answered when the sink settles its own  *)
(* promises: after the last request there comes a time when none waits.    *)
RequestsSettle == []<>(\A i \in DOMAIN writable.answer : writable.answer[i] # "pending")

(* The sink, the promises and the backpressure of a writable agree         *)
(* (advanceQueue, abortInternal, errorInternal).                           *)
WritableAgrees == SinkInOrder /\ AnswersAreTrue /\ BackpressureIsCounted
=============================================================================
