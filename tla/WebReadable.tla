----------------------------- MODULE WebReadable -----------------------------
(***************************************************************************)
(* RuntimeReadableStream (packages/runtime/src/streams/web-readable.ts): a *)
(* queue between a source, which is pulled, and a reader, whose reads may  *)
(* come before the chunks.                                                 *)
(*                                                                         *)
(* The operations are operators on the record readable, so that            *)
(* TransformStream can use them.  Reads and chunks are numbered in the     *)
(* order in which they come; answer[i] is what read i was answered.        *)
(***************************************************************************)
EXTENDS Integers, Sequences, SequencesExt

CONSTANTS
    ReadableHighWaterMark,
    ReadableSizes,   \* what the size() of the strategy may return
    MaxChunks,       \* bound on the chunks of the source
    MaxReads         \* bound on the reads

ASSUME ReadableAssumption ==
    /\ ReadableHighWaterMark \in Nat /\ ReadableSizes \subseteq Nat
    /\ MaxChunks \in Nat /\ MaxReads \in Nat

VARIABLE readable

\* what a read is answered, other than a chunk
Waits == 0
AtEnd == -1
Failed == -2

NewReadable ==
    [state |-> "readable", queue |-> <<>>, reads |-> <<>>, locked |-> FALSE,
     closeRequested |-> FALSE, start |-> "pending", pulling |-> FALSE, pullAgain |-> FALSE,
     \* history: the answers, the chunks that were enqueued, the reads no
     \* pull has been made for since, calls of source.cancel, and whether
     \* the operation called source.pull
     answer |-> <<>>, chunks |-> 0, unasked |-> {}, canceled |-> 0, called |-> FALSE]

ReadableInit == readable = NewReadable

-----------------------------------------------------------------------------
QueueTotalSize(r) == FoldSeq(LAMBDA c, sum : c.size + sum, 0, r.queue)

Desired(r) ==
    IF r.state = "readable" THEN ReadableHighWaterMark - QueueTotalSize(r) ELSE 0

\* every read that waits gets the same answer
EndReads(r, result) ==
    [r EXCEPT !.reads = <<>>, !.unasked = {},
              !.answer = [i \in DOMAIN r.answer |->
                             IF r.answer[i] = Waits THEN result ELSE r.answer[i]]]

FinishClose(r) ==
    IF r.state # "readable" THEN r ELSE [EndReads(r, AtEnd) EXCEPT !.state = "closed"]

ErrorReadable(r) ==
    IF r.state # "readable" THEN r
    ELSE [EndReads(r, Failed) EXCEPT !.state = "errored", !.queue = <<>>]

Wanted(r) ==
    /\ r.start = "ok" /\ r.state = "readable" /\ ~r.closeRequested
    /\ r.reads # <<>> \/ Desired(r) > 0

(* Mutant: a demand that comes during a pull is forgotten *)
CallPullForgetful(r) ==
    IF ~Wanted(r) \/ r.pulling THEN r
    ELSE [r EXCEPT !.pulling = TRUE, !.called = TRUE, !.unasked = {}]

CallPullIfNeeded(r) ==
    IF ~Wanted(r) THEN r
    ELSE IF r.pulling THEN [r EXCEPT !.pullAgain = TRUE]
    ELSE [r EXCEPT !.pulling = TRUE, !.called = TRUE, !.unasked = {}]

CanEnqueue(r) == r.state = "readable" /\ ~r.closeRequested

\* controllerEnqueue, where the state allows it
Enqueued(r, size) ==
    LET n == r.chunks + 1
        s == [r EXCEPT !.chunks = n, !.called = FALSE]
    IN  CallPullIfNeeded(
            IF r.reads # <<>>
            THEN [s EXCEPT !.answer[Head(r.reads)] = n, !.reads = Tail(@),
                           !.unasked = @ \ {Head(r.reads)}]
            ELSE [s EXCEPT !.queue = Append(@, [chunk |-> n, size |-> size])])

(* Mutant: what is queued is dropped when the source closes *)
ClosedAtOnce(r) == FinishClose([r EXCEPT !.closeRequested = TRUE, !.queue = <<>>])

\* controllerClose, where the state allows it
ClosedReadable(r) ==
    LET s == [r EXCEPT !.closeRequested = TRUE]
    IN  IF r.queue = <<>> THEN FinishClose(s) ELSE s

\* readFromReader
ReadFrom(r) ==
    LET s == [r EXCEPT !.called = FALSE] IN
    CASE r.queue # <<>> ->
            LET t == [s EXCEPT !.queue = Tail(@), !.answer = Append(@, Head(r.queue).chunk)]
            IN  IF r.closeRequested /\ t.queue = <<>> THEN FinishClose(t)
                ELSE CallPullIfNeeded(t)
      [] r.queue = <<>> /\ r.state = "closed" -> [s EXCEPT !.answer = Append(@, AtEnd)]
      [] r.queue = <<>> /\ r.state = "errored" -> [s EXCEPT !.answer = Append(@, Failed)]
      [] OTHER ->
            LET id == Len(r.answer) + 1
            IN  CallPullIfNeeded([s EXCEPT !.answer = Append(@, Waits),
                                           !.reads = Append(@, id), !.unasked = @ \cup {id}])

\* cancelInternal; source.cancel is called when the state is readable
CanceledStream(r) ==
    IF r.state # "readable" THEN r
    ELSE FinishClose([r EXCEPT !.queue = <<>>, !.closeRequested = TRUE, !.canceled = @ + 1])

\* the promise of source.start settles, or start throws
Started(r, ok) ==
    IF ok THEN CallPullIfNeeded([r EXCEPT !.start = "ok", !.called = FALSE])
    ELSE ErrorReadable([r EXCEPT !.start = "failed", !.called = FALSE])

\* the promise of source.pull settles
Pulled(r, ok) ==
    LET s == [r EXCEPT !.pulling = FALSE, !.called = FALSE]
    IN  IF ~ok THEN ErrorReadable(s)
        ELSE IF r.pullAgain THEN CallPullIfNeeded([s EXCEPT !.pullAgain = FALSE]) ELSE s

-----------------------------------------------------------------------------
SourceStarts(ok) ==
    /\ readable.start = "pending"
    /\ readable' = Started(readable, ok)

GetReader ==
    /\ ~readable.locked
    /\ readable' = [readable EXCEPT !.locked = TRUE]

ReleaseReader ==
    /\ readable.locked /\ readable.reads = <<>>
    /\ readable' = [readable EXCEPT !.locked = FALSE]

ReadChunk ==
    /\ readable.locked /\ Len(readable.answer) < MaxReads
    /\ readable' = ReadFrom(readable)

\* of the stream when it is not locked, of its reader otherwise
CancelReadable ==
    /\ readable.state = "readable"
    /\ readable' = CanceledStream(readable)

\* The source uses its controller whenever it likes, during a pull or not.
SourceEnqueues(size) ==
    /\ CanEnqueue(readable) /\ readable.chunks < MaxChunks
    /\ readable' = Enqueued(readable, size)

\* size() throws; it is asked only when no read waits
SizeFails ==
    /\ CanEnqueue(readable) /\ readable.reads = <<>>
    /\ readable' = ErrorReadable(readable)

SourceCloses ==
    /\ CanEnqueue(readable)
    /\ readable' = ClosedReadable(readable)

SourceErrors ==
    /\ readable.state = "readable"
    /\ readable' = ErrorReadable(readable)

PullSettles(ok) ==
    /\ readable.pulling
    /\ readable' = Pulled(readable, ok)

ReadableNext ==
    \/ \E ok \in BOOLEAN : SourceStarts(ok) \/ PullSettles(ok)
    \/ GetReader \/ ReleaseReader \/ ReadChunk \/ CancelReadable
    \/ \E size \in ReadableSizes : SourceEnqueues(size)
    \/ SizeFails \/ SourceCloses \/ SourceErrors

ReadableSpec == ReadableInit /\ [][ReadableNext]_readable

-----------------------------------------------------------------------------
Served(r, i) == r.answer[i] > 0

(* Chunks go to reads in the order of both: no read is served before an    *)
(* earlier one, none is lost while the stream is readable, and a source    *)
(* that closes has everything read first that it enqueued.                 *)
ChunksInOrder ==
    LET r == readable
        taken == {r.answer[i] : i \in {j \in DOMAIN r.answer : Served(r, j)}}
        held == {r.queue[i].chunk : i \in DOMAIN r.queue}
    IN  /\ \A i, j \in DOMAIN r.answer :
              i < j /\ Served(r, j) => Served(r, i) /\ r.answer[i] < r.answer[j]
        /\ r.state = "readable" \/ (r.state = "closed" /\ r.canceled = 0)
              => taken \cup held = 1 .. r.chunks
        /\ r.canceled <= 1

(* A read that waits was heard: nothing is queued, the stream has not      *)
(* ended, and the source was or will be pulled for it (pullAgain           *)
(* remembers what comes during a pull).                                    *)
ReadsAreHeard ==
    readable.reads # <<>> =>
        /\ readable.state = "readable" /\ readable.queue = <<>> /\ ~readable.closeRequested
        /\ readable.start = "ok" /\ readable.unasked # {} => readable.pulling /\ readable.pullAgain

(* Reads and chunks meet in order, and none waits for the other unheard    *)
(* (readFromReader, controllerEnqueue, callPullIfNeeded).                  *)
ReadableDelivers == ChunksInOrder /\ ReadsAreHeard
=============================================================================
