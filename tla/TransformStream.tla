--------------------------- MODULE TransformStream ---------------------------
(***************************************************************************)
(* RuntimeTransformStream (packages/runtime/src/streams/web-transform.ts): *)
(* the sink of a writable runs a transformer, whose output is the source   *)
(* of a readable.  A write waits until the readable has room, and an end   *)
(* of either side reaches the other.                                       *)
(*                                                                         *)
(* One reader is held for the whole run.  The transformer enqueues only    *)
(* while start, transform or flush of it run; it may call error and        *)
(* terminate at any time.  A size() of the readable's strategy that throws *)
(* errors the readable alone: the transform stays active until the         *)
(* transformer throws on, ends it or flushes.                              *)
(***************************************************************************)
EXTENDS WebReadable, WebWritable

CONSTANT Emits   \* how many chunks the transformer may emit for one call

ASSUME TransformAssumption == Emits \subseteq Nat

VARIABLE transform

transformVars == <<readable, writable, transform>>

\* start: the promise of transformer.start; step: what the sink's write or
\* close is doing; left: what the transformer emits before it settles;
\* history: size() threw, and a terminate that threw told nobody
NewTransform ==
    [state |-> "active", start |-> "pending", step |-> "idle", left |-> 0, credits |-> 0,
     threw |-> FALSE, untold |-> FALSE]

TransformInit ==
    /\ readable = [NewReadable EXCEPT !.locked = TRUE]
    /\ writable = NewWritable
    /\ transform = NewTransform

-----------------------------------------------------------------------------
Active(t) == t.state = "active"

\* resolveCapacity, and its counterpart that rejects who waits
CapacityResolved(t, step) == IF t.step = "capacity" THEN [t EXCEPT !.step = step] ELSE t

(* Mutants: a write does not look at the room there is *)
CapacityAlwaysWaits(t, r) == [t EXCEPT !.step = "capacity"]
CapacityAlwaysGranted(t, r) == [t EXCEPT !.step = "granted"]

\* waitForCapacity, where the transform is active
CapacityFor(t, r) ==
    IF Desired(r) > 0 THEN [t EXCEPT !.step = "granted"]
    ELSE IF ReadableHighWaterMark = 0 /\ t.credits > 0
    THEN [t EXCEPT !.step = "granted", !.credits = @ - 1]
    ELSE [t EXCEPT !.step = "capacity"]

\* signalCapacity, which source.pull calls
Signalled(t) ==
    IF ReadableHighWaterMark = 0 /\ t.step # "capacity" THEN [t EXCEPT !.credits = @ + 1]
    ELSE CapacityResolved(t, "granted")

\* the readable changed to r, and perhaps called source.pull
AfterReadable(t, r) == IF r.called THEN Signalled(t) ELSE t

AbortPeer(w) == AbortFor(w, {0})

\* what the transformer does when it is first called comes before the
\* writable exists
AbortsPeer ==
    \/ writable' = AbortPeer(writable)
    \/ transform.start = "pending" /\ writable = NewWritable /\ UNCHANGED writable

\* errorTransform, as far as the transform goes
ErrorTransform(t) == CapacityResolved([t EXCEPT !.state = "errored"], "refused")

\* The writable changed from writable to w and may have called its sink.
SinkCalled(t, r, w) ==
    LET call == Last(w.calls) IN
    IF Len(w.calls) = Len(writable.calls) THEN t
    ELSE CASE ~Active(t) -> IF call.kind = "abort" THEN t ELSE [t EXCEPT !.step = "failed"]
           [] Active(t) /\ call.kind = "abort" -> ErrorTransform(t)
           [] Active(t) /\ call.kind = "write" -> CapacityFor(t, r)
           [] OTHER -> [t EXCEPT !.step = "flush"]

\* The sink's abort errors the readable of an active transform.
SinkCalledReadable(t, w) ==
    IF Active(t) /\ Len(w.calls) > Len(writable.calls) /\ Last(w.calls).kind = "abort"
    THEN ErrorReadable(readable) ELSE readable

MovesTo(w, t) ==
    /\ writable' = w
    /\ transform' = SinkCalled(t, readable, w)
    /\ readable' = SinkCalledReadable(t, w)

-----------------------------------------------------------------------------
\* transformer.start settles, or throws; what it returns too late is a failure
TransformerStarts(ok) ==
    /\ transform.start = "pending"
    /\ IF ok \/ ~Active(transform)
       THEN /\ transform' = [transform EXCEPT !.start = IF ok /\ Active(transform)
                                                        THEN "ok" ELSE "failed"]
            /\ UNCHANGED <<readable, writable>>
       ELSE /\ transform' = [ErrorTransform(transform) EXCEPT !.start = "failed"]
            /\ readable' = ErrorReadable(readable)
            /\ AbortsPeer

\* the readable, and after it the writable, hear how the start has settled
ReadableStarts ==
    /\ transform.start # "pending" /\ readable.start = "pending"
    /\ readable' = Started(readable, transform.start = "ok")
    /\ transform' = AfterReadable(transform, readable')
    /\ UNCHANGED writable

WritableStarts ==
    /\ readable.start # "pending"
    /\ SinkStarts(transform.start = "ok")
    /\ UNCHANGED <<readable, transform>>

WritableAdvances ==
    /\ writable.advancing = "start" /\ writable.start # "pending"
    /\ MovesTo(AdvanceResumed(writable), transform)

WriteInput ==
    /\ \E size \in WritableSizes : Write(size)
    /\ UNCHANGED <<readable, transform>>

CloseInput == CloseWritable /\ UNCHANGED <<readable, transform>>

AbortInput == AbortWritable /\ UNCHANGED <<readable, transform>>

ReadOutput ==
    /\ ReadChunk
    /\ transform' = AfterReadable(transform, readable')
    /\ UNCHANGED writable

(* Mutant: a cancel leaves the write that waits for room to itself *)
CancelOutputOnly ==
    /\ CancelReadable
    /\ transform' = IF Active(transform) THEN [transform EXCEPT !.state = "terminated"] ELSE transform
    /\ writable' = IF Active(transform) THEN AbortPeer(writable) ELSE writable

CancelOutput ==
    /\ CancelReadable
    /\ IF Active(transform)
       THEN /\ transform' = CapacityResolved([transform EXCEPT !.state = "terminated"], "granted")
            /\ writable' = AbortPeer(writable)
       ELSE UNCHANGED <<writable, transform>>

PullReturns ==
    /\ readable.pulling
    /\ readable' = Pulled(readable, TRUE)
    /\ transform' = AfterReadable(transform, readable')
    /\ UNCHANGED writable

\* A write goes on after waitForCapacity.
TransformBegins ==
    /\ transform.step \in {"granted", "refused"}
    /\ IF Active(transform)
       THEN \E n \in Emits : transform' = [transform EXCEPT !.step = "user", !.left = n]
       ELSE transform' = [transform EXCEPT !.step = "failed"]
    /\ UNCHANGED <<readable, writable>>

\* transform, flush or start of the transformer calls controller.enqueue
Emitting ==
    /\ Active(transform)
    /\ \/ transform.step = "user" /\ transform.left > 0
       \/ /\ transform.step = "flush" \/ transform.start = "pending"
          /\ readable.chunks < MaxChunks

Emit ==
    /\ Emitting /\ CanEnqueue(readable)
    /\ \E size \in ReadableSizes : readable' = Enqueued(readable, size)
    /\ transform' = AfterReadable([transform EXCEPT !.left = IF @ > 0 THEN @ - 1 ELSE 0], readable')
    /\ UNCHANGED writable

\* size() throws in it, which errors the readable and leaves the transform
\* active; a transformer that does not catch it settles with the failure
EmitThrows ==
    /\ Emitting /\ SizeFails
    /\ transform' = [transform EXCEPT !.left = 0, !.threw = TRUE]
    /\ UNCHANGED writable

\* transformer.transform settles
TransformSettles(ok) ==
    /\ transform.step = "user"
    /\ ok /\ Active(transform) /\ CanEnqueue(readable) => transform.left = 0
    /\ IF ok \/ ~Active(transform)
       THEN /\ transform' = [transform EXCEPT !.left = 0,
                                !.step = IF ok /\ Active(transform) THEN "done" ELSE "failed"]
            /\ UNCHANGED <<readable, writable>>
       ELSE /\ transform' = [ErrorTransform(transform) EXCEPT !.left = 0, !.step = "failed"]
            /\ readable' = ErrorReadable(readable)
            /\ writable' = AbortPeer(writable)

(* Mutant: the end of the flush does not close the readable *)
FlushForgetsReadable(ok) ==
    /\ transform.step = "flush"
    /\ transform' = [transform EXCEPT !.state = "terminated", !.step = IF ok THEN "done" ELSE "failed"]
    /\ UNCHANGED <<readable, writable>>

\* transformer.flush settles; that it has ended the stream itself is no failure,
\* but the close of a readable that has failed is
FlushSettles(ok) ==
    /\ transform.step = "flush"
    /\ CASE ~Active(transform) ->
              /\ transform' = [transform EXCEPT !.step = IF ok THEN "done" ELSE "failed"]
              /\ UNCHANGED <<readable, writable>>
         [] Active(transform) /\ ok /\ CanEnqueue(readable) ->
              /\ transform' = [transform EXCEPT !.state = "terminated", !.step = "done"]
              /\ readable' = ClosedReadable(readable)
              /\ UNCHANGED writable
         [] Active(transform) /\ ok /\ ~CanEnqueue(readable) ->
              /\ transform' = [transform EXCEPT !.state = "terminated", !.step = "failed"]
              /\ UNCHANGED <<readable, writable>>
         [] OTHER ->
              /\ transform' = [ErrorTransform(transform) EXCEPT !.step = "failed"]
              /\ readable' = ErrorReadable(readable)
              /\ writable' = AbortPeer(writable)

\* the promise of the sink's write or close reaches the writable
SinkReturns ==
    /\ transform.step \in {"done", "failed"}
    /\ MovesTo(SinkReturned(writable, transform.step = "done"), [transform EXCEPT !.step = "idle"])

AbortReturns ==
    /\ SinkAbortSettles(TRUE)
    /\ UNCHANGED <<readable, transform>>

\* controller.error and controller.terminate
TransformerErrors ==
    /\ Active(transform)
    /\ transform' = ErrorTransform(transform)
    /\ readable' = ErrorReadable(readable)
    /\ AbortsPeer

TransformerTerminates ==
    /\ Active(transform) /\ CanEnqueue(readable)
    /\ transform' = CapacityResolved([transform EXCEPT !.state = "terminated"], "granted")
    /\ readable' = ClosedReadable(readable)
    /\ AbortsPeer

\* terminate of a transform whose readable has failed: readableController.close
\* throws, and neither a write that waits nor the writable is told
TerminateThrows ==
    /\ Active(transform) /\ ~CanEnqueue(readable)
    /\ transform' = [transform EXCEPT !.state = "terminated", !.untold = TRUE]
    /\ UNCHANGED <<readable, writable>>

Reactions ==
    \/ \E ok \in BOOLEAN : TransformerStarts(ok) \/ TransformSettles(ok) \/ FlushSettles(ok)
    \/ ReadableStarts \/ WritableStarts \/ WritableAdvances
    \/ PullReturns \/ TransformBegins \/ Emit \/ EmitThrows \/ SinkReturns \/ AbortReturns

TransformNext ==
    \/ Reactions
    \/ WriteInput \/ CloseInput \/ AbortInput \/ ReadOutput \/ CancelOutput
    \/ TransformerErrors \/ TransformerTerminates \/ TerminateThrows

\* Promise reactions run, and the promises of the transformer settle.
TransformSpec == TransformInit /\ [][TransformNext]_transformVars /\ WF_transformVars(Reactions)

-----------------------------------------------------------------------------
(* Both sides tell the same story: while the transform is active the       *)
(* writable has not closed and the readable takes chunks, unless size()    *)
(* threw, which fails the readable alone; so a writable that closes does   *)
(* so behind the last chunk of its readable.  Once the transform is not    *)
(* active nothing more is taken, and an error is seen by the reader.  It   *)
(* holds whatever raced with a write or the flush.                         *)
PeersAgree ==
    /\ Active(transform) =>
          /\ writable.state # "closed"
          /\ CanEnqueue(readable) \/ (transform.threw /\ readable.state = "errored")
    /\ ~Active(transform) => ~CanEnqueue(readable)
    /\ transform.state = "errored" /\ readable.canceled = 0 => readable.state = "errored"
    /\ transform.step = "idle" <=> writable.advancing # "sink"

\* The transformer is called for a chunk only when its output is wanted.  With
\* room in the readable, a read waits or the room is there.  Without, a call
\* spends one source.pull, and there is one for each read and one for each
\* chunk that leaves another read waiting: a call may come behind the last
\* read that waits, and n reads bring 2n - 1 calls at most.
CalledOnDemand ==
    transform.step # "user" /\ transform'.step = "user" =>
        IF ReadableHighWaterMark > 0 THEN readable.reads # <<>> \/ Desired(readable) > 0
        ELSE Cardinality({n \in DOMAIN writable.calls : writable.calls[n].kind = "write"})
                 < 2 * Len(readable.answer)

(* A write that waits for room goes on when a read comes, also when the    *)
(* transformer has emitted nothing for the chunks before it: the two do not*)
(* wait for each other for ever.                                           *)
WritesFollowReads == []<>(~(transform.step = "capacity" /\ readable.reads # <<>>))

(* When the transform has ended, by whichever side, which is for good, the *)
(* writable ends and everybody who asked it something is answered; but for *)
(* a terminate that threw because the readable had failed before.          *)
EndReachesWriter ==
    []<>(Active(transform) \/ transform.untold
         \/ /\ writable.state \in {"closed", "errored"}
            /\ \A i \in DOMAIN writable.answer : writable.answer[i] # "pending")

(* A transform does not get stuck: a write goes on when its output is      *)
(* wanted, and the end reaches whoever asked the writable (signalCapacity, *)
(* resolveCapacity, terminateTransform).                                   *)
TransformMoves == WritesFollowReads /\ EndReachesWriter
=============================================================================
