---------------------------- MODULE Streams_proofs ----------------------------
(***************************************************************************)
(* Theorems about the streams of the runtime, for every mark, every size of*)
(* a chunk and every number of chunks and requests, alone or with a        *)
(* transformer: a readable delivers in order and leaves no read unheard;   *)
(* the sink, the promises and the backpressure of a writable agree; and the*)
(* two sides of a transform agree about its end.                           *)
(***************************************************************************)
EXTENDS TransformStream, SequenceTheorems, FiniteSetTheorems, WellFoundedInduction, TLAPS

-----------------------------------------------------------------------------
(* The readable: read i is served with chunk i.                            *)

Readables ==
    [state : {"readable", "closed", "errored"}, queue : Seq([chunk : Nat, size : Nat]),
     reads : Seq(Nat), locked : BOOLEAN, closeRequested : BOOLEAN,
     start : {"pending", "ok", "failed"}, pulling : BOOLEAN, pullAgain : BOOLEAN,
     answer : Seq(Int), chunks : Nat, unasked : SUBSET Nat, canceled : {0, 1},
     called : BOOLEAN]

\* The first T reads are served, in the order of the chunks.
ServedTo(answer, T) ==
    /\ T \in Nat /\ T <= Len(answer)
    /\ \A i \in 1 .. T : answer[i] = i
    /\ \A i \in 1 .. Len(answer) : i > T => answer[i] <= 0

\* The queue goes on where the reads have stopped.
QueuedFrom(r, T) ==
    /\ r.state = "readable" \/ (r.state = "closed" /\ r.canceled = 0)
          => T + Len(r.queue) = r.chunks
    /\ \A k \in 1 .. Len(r.queue) : r.queue[k].chunk = T + k
    /\ r.queue # <<>> => r.state = "readable"

\* The reads that wait are those behind the served ones.
WaitingFrom(r, T) ==
    /\ r.state = "readable" =>
          /\ T + Len(r.reads) = Len(r.answer)
          /\ \A k \in 1 .. Len(r.reads) : r.reads[k] = T + k
    /\ r.reads # <<>> => r.state = "readable" /\ ~r.closeRequested /\ r.queue = <<>>
    /\ \A u \in r.unasked : T < u /\ u <= T + Len(r.reads)

\* A stream that was asked to close closes when nothing is queued.
ClosesEmpty(r) ==
    /\ r.state = "readable" /\ r.closeRequested => r.queue # <<>>
    /\ r.canceled = 1 => r.state # "readable"

Delivering(r, T) ==
    r \in Readables /\ ServedTo(r.answer, T) /\ QueuedFrom(r, T) /\ WaitingFrom(r, T) /\ ClosesEmpty(r)

Heard(r) == r.start = "ok" /\ r.unasked # {} => r.pulling /\ r.pullAgain

ReadableInv(r) == Heard(r) /\ \E T \in Nat : Delivering(r, T)

\* What an operation that neither ends nor closes the stream keeps.
StaysOpen(y, r) ==
    /\ CanEnqueue(y) <=> CanEnqueue(r)
    /\ y.canceled = r.canceled /\ y.start = r.start
    /\ r.state = "errored" => y.state = "errored"

\* y differs from r in what the source was told only.
SameFlow(y, r) ==
    /\ y \in Readables /\ y.unasked \subseteq r.unasked
    /\ y.state = r.state /\ y.queue = r.queue /\ y.reads = r.reads
    /\ y.closeRequested = r.closeRequested /\ y.answer = r.answer /\ y.chunks = r.chunks
    /\ y.canceled = r.canceled

LEMMA FlowDelivers ==
    ASSUME NEW r, NEW T, NEW y, Delivering(r, T), SameFlow(y, r)
    PROVE  /\ Delivering(y, T) /\ y.canceled = r.canceled
           /\ CanEnqueue(y) <=> CanEnqueue(r)
           /\ r.state = "errored" => y.state = "errored"
<1>1. ServedTo(y.answer, T)
  BY DEF SameFlow, Delivering, ServedTo
<1>2. QueuedFrom(y, T)
  BY DEF SameFlow, Delivering, QueuedFrom
<1>3. WaitingFrom(y, T)
  BY DEF SameFlow, Delivering, WaitingFrom
<1>4. ClosesEmpty(y)
  BY DEF SameFlow, Delivering, ClosesEmpty
<1>. QED BY <1>1, <1>2, <1>3, <1>4 DEF SameFlow, Delivering, CanEnqueue

LEMMA CallPullDelivers ==
    ASSUME NEW r, NEW T, Delivering(r, T)
    PROVE  /\ Delivering(CallPullIfNeeded(r), T) /\ Heard(CallPullIfNeeded(r))
           /\ StaysOpen(CallPullIfNeeded(r), r)
<1>. DEFINE y == CallPullIfNeeded(r)
<1>. SUFFICES Delivering(y, T) /\ Heard(y) /\ StaysOpen(y, r)
  OBVIOUS
<1>0. r \in Readables
  BY DEF Delivering
<1>1. CASE ~Wanted(r)
  <2>1. y = r
    BY <1>1 DEF CallPullIfNeeded
  <2>2. r.start = "ok" => r.unasked = {}
    <3>1. SUFFICES ASSUME r.start = "ok", NEW u \in r.unasked PROVE FALSE
      OBVIOUS
    <3>2. r.reads \in Seq(Nat) /\ T \in Nat /\ u \in Nat /\ T < u /\ u <= T + Len(r.reads)
      BY <1>0, <3>1 DEF Readables, Delivering, ServedTo, WaitingFrom
    <3>3. r.reads # <<>>
      BY <3>2
    <3>. QED BY <1>1, <3>1, <3>3 DEF Wanted, Delivering, WaitingFrom
  <2>. QED BY <2>1, <2>2 DEF Heard, StaysOpen
<1>2. CASE Wanted(r) /\ r.pulling
  <2>1. y = [r EXCEPT !.pullAgain = TRUE]
    BY <1>2 DEF CallPullIfNeeded
  <2>2. SameFlow(y, r) /\ y.pulling /\ y.pullAgain /\ y.start = r.start
    BY <1>0, <1>2, <2>1 DEF Readables, SameFlow
  <2>. HIDE DEF y
  <2>. QED BY <2>2, FlowDelivers DEF Heard, StaysOpen
<1>3. CASE Wanted(r) /\ ~r.pulling
  <2>1. y = [r EXCEPT !.pulling = TRUE, !.called = TRUE, !.unasked = {}]
    BY <1>3 DEF CallPullIfNeeded
  <2>2. SameFlow(y, r) /\ y.unasked = {} /\ y.start = r.start
    BY <1>0, <2>1 DEF Readables, SameFlow
  <2>. HIDE DEF y
  <2>. QED BY <2>2, FlowDelivers DEF Heard, StaysOpen
<1>. QED BY <1>1, <1>2, <1>3

\* y is r after its end as st, where the reads that waited heard result.
EndedAs(y, r, st, result) ==
    /\ y \in Readables /\ y.state = st /\ y.queue = <<>> /\ y.reads = <<>> /\ y.unasked = {}
    /\ Len(y.answer) = Len(r.answer)
    /\ \A i \in 1 .. Len(r.answer) :
          y.answer[i] = IF r.answer[i] = Waits THEN result ELSE r.answer[i]
    /\ y.chunks = r.chunks /\ y.canceled = r.canceled /\ y.start = r.start

LEMMA EndReadsFields ==
    ASSUME NEW r \in Readables, NEW result \in Int
    PROVE  /\ EndReads(r, result) \in Readables
           /\ EndReads(r, result).reads = <<>> /\ EndReads(r, result).unasked = {}
           /\ Len(EndReads(r, result).answer) = Len(r.answer)
           /\ \A i \in 1 .. Len(r.answer) :
                 EndReads(r, result).answer[i]
                     = IF r.answer[i] = Waits THEN result ELSE r.answer[i]
           /\ EndReads(r, result).chunks = r.chunks
           /\ EndReads(r, result).canceled = r.canceled
           /\ EndReads(r, result).start = r.start
           /\ EndReads(r, result).queue = r.queue
<1>. DEFINE a == [i \in DOMAIN r.answer |-> IF r.answer[i] = Waits THEN result ELSE r.answer[i]]
            y == [r EXCEPT !.reads = <<>>, !.unasked = {}, !.answer = a]
<1>1. r.answer \in Seq(Int) /\ DOMAIN r.answer = 1 .. Len(r.answer)
  BY DEF Readables
<1>2. /\ a \in Seq(Int) /\ Len(a) = Len(r.answer)
      /\ \A i \in 1 .. Len(r.answer) :
            a[i] = IF r.answer[i] = Waits THEN result ELSE r.answer[i]
  BY <1>1
<1>3. EndReads(r, result) = y
  BY DEF EndReads
<1>. HIDE DEF a
<1>4. <<>> \in Seq(Nat)
  OBVIOUS
<1>5. /\ y \in Readables /\ y.reads = <<>> /\ y.unasked = {} /\ y.answer = a
      /\ y.chunks = r.chunks /\ y.canceled = r.canceled /\ y.start = r.start
      /\ y.queue = r.queue
  BY <1>2, <1>4 DEF Readables
<1>. HIDE DEF y
<1>. QED BY <1>2, <1>3, <1>5

LEMMA FinishCloseEnds ==
    ASSUME NEW r \in Readables, r.state = "readable", r.queue = <<>>
    PROVE  EndedAs(FinishClose(r), r, "closed", AtEnd)
<1>. DEFINE e == EndReads(r, AtEnd)
            y == [e EXCEPT !.state = "closed"]
<1>1. FinishClose(r) = y
  BY DEF FinishClose
<1>2. /\ e \in Readables /\ e.reads = <<>> /\ e.unasked = {}
      /\ Len(e.answer) = Len(r.answer)
      /\ \A i \in 1 .. Len(r.answer) :
            e.answer[i] = IF r.answer[i] = Waits THEN AtEnd ELSE r.answer[i]
      /\ e.chunks = r.chunks /\ e.canceled = r.canceled /\ e.start = r.start /\ e.queue = r.queue
  <2>1. AtEnd \in Int
    BY DEF AtEnd
  <2>. QED BY <2>1, EndReadsFields
<1>. HIDE DEF e
<1>3. /\ y \in Readables /\ y.state = "closed" /\ y.reads = e.reads /\ y.unasked = e.unasked
      /\ y.answer = e.answer /\ y.chunks = e.chunks /\ y.canceled = e.canceled
      /\ y.start = e.start /\ y.queue = e.queue
  BY <1>2 DEF Readables
<1>. HIDE DEF y
<1>. QED BY <1>1, <1>2, <1>3 DEF EndedAs

LEMMA ErrorEnds ==
    ASSUME NEW r \in Readables, r.state = "readable"
    PROVE  EndedAs(ErrorReadable(r), r, "errored", Failed)
<1>. DEFINE e == EndReads(r, Failed)
            y == [e EXCEPT !.state = "errored", !.queue = <<>>]
<1>1. ErrorReadable(r) = y
  BY DEF ErrorReadable
<1>2. /\ e \in Readables /\ e.reads = <<>> /\ e.unasked = {}
      /\ Len(e.answer) = Len(r.answer)
      /\ \A i \in 1 .. Len(r.answer) :
            e.answer[i] = IF r.answer[i] = Waits THEN Failed ELSE r.answer[i]
      /\ e.chunks = r.chunks /\ e.canceled = r.canceled /\ e.start = r.start
  <2>1. Failed \in Int
    BY DEF Failed
  <2>. QED BY <2>1, EndReadsFields
<1>. HIDE DEF e
<1>3. <<>> \in Seq([chunk : Nat, size : Nat])
  OBVIOUS
<1>4. /\ y \in Readables /\ y.state = "errored" /\ y.reads = e.reads /\ y.unasked = e.unasked
      /\ y.answer = e.answer /\ y.chunks = e.chunks /\ y.canceled = e.canceled
      /\ y.start = e.start /\ y.queue = <<>>
  BY <1>2, <1>3 DEF Readables
<1>. HIDE DEF y
<1>. QED BY <1>1, <1>2, <1>4 DEF EndedAs

LEMMA EndedDelivers ==
    ASSUME NEW r \in Readables, NEW y, NEW T, NEW st \in {"closed", "errored"},
           NEW result \in {AtEnd, Failed}, EndedAs(y, r, st, result), ServedTo(r.answer, T),
           st = "closed" /\ r.canceled = 0 => T = r.chunks
    PROVE  ReadableInv(y)
<1>1. ServedTo(y.answer, T)
  <2>1. result <= 0 /\ result # Waits /\ Waits = 0
    BY DEF AtEnd, Failed, Waits
  <2>2. r.answer \in Seq(Int) /\ T \in Nat /\ T <= Len(r.answer)
    BY DEF Readables, ServedTo
  <2>3. \A i \in 1 .. T : i \in 1 .. Len(r.answer) /\ r.answer[i] = i /\ i # 0
    BY <2>2 DEF ServedTo
  <2>4. \A i \in 1 .. T : y.answer[i] = i
    BY <2>1, <2>3 DEF EndedAs
  <2>5. \A i \in 1 .. Len(r.answer) : i > T => y.answer[i] <= 0
    BY <2>1, <2>2 DEF EndedAs, ServedTo
  <2>. QED BY <2>2, <2>4, <2>5 DEF EndedAs, ServedTo
<1>2. Len(y.queue) = 0 /\ Len(y.reads) = 0 /\ T \in Nat /\ r.chunks \in Nat
  BY DEF EndedAs, ServedTo, Readables
<1>3. QueuedFrom(y, T)
  BY <1>2 DEF EndedAs, QueuedFrom
<1>4. WaitingFrom(y, T)
  BY <1>2 DEF EndedAs, WaitingFrom
<1>. QED BY <1>1, <1>2, <1>3, <1>4 DEF Delivering, EndedAs, ReadableInv, Heard, ClosesEmpty

-----------------------------------------------------------------------------
\* The operations of the readable, one lemma each.

LEMMA NewReadableInv ==
    ASSUME NEW y, y = NewReadable \/ y = [NewReadable EXCEPT !.locked = TRUE]
    PROVE  ReadableInv(y) /\ y.state = "readable" /\ ~y.closeRequested /\ y.start = "pending"
<1>1. /\ <<>> \in Seq(Nat) /\ <<>> \in Seq(Int) /\ <<>> \in Seq([chunk : Nat, size : Nat])
      /\ Len(<<>>) = 0
  OBVIOUS
<1>2. /\ y \in Readables /\ y.state = "readable" /\ y.queue = <<>> /\ y.reads = <<>>
      /\ ~y.closeRequested /\ y.answer = <<>> /\ y.chunks = 0 /\ y.unasked = {}
      /\ y.canceled = 0 /\ y.start = "pending"
  <2>1. CASE y = NewReadable
    BY <1>1, <2>1 DEF Readables, NewReadable
  <2>2. CASE y = [NewReadable EXCEPT !.locked = TRUE]
    BY <1>1, <2>2 DEF Readables, NewReadable
  <2>. QED BY <2>1, <2>2
<1>3. Delivering(y, 0)
  BY <1>1, <1>2 DEF Delivering, ServedTo, QueuedFrom, WaitingFrom, ClosesEmpty
<1>4. Heard(y)
  BY <1>2 DEF Heard
<1>. QED BY <1>2, <1>3, <1>4 DEF ReadableInv

LEMMA FlowKept ==
    ASSUME NEW r, NEW y, ReadableInv(r), SameFlow(y, r),
           r.start = y.start, r.pulling = y.pulling, r.pullAgain = y.pullAgain
    PROVE  ReadableInv(y)
<1>1. PICK T \in Nat : Delivering(r, T)
  BY DEF ReadableInv
<1>2. Delivering(y, T)
  BY <1>1, FlowDelivers
<1>3. Heard(y)
  BY DEF ReadableInv, Heard, SameFlow
<1>. QED BY <1>2, <1>3 DEF ReadableInv

LEMMA PullWhere ==
    ASSUME NEW r, NEW y, ReadableInv(r), SameFlow(y, r)
    PROVE  /\ ReadableInv(CallPullIfNeeded(y))
           /\ CallPullIfNeeded(y).canceled = r.canceled
           /\ CallPullIfNeeded(y).start = y.start
           /\ CanEnqueue(CallPullIfNeeded(y)) <=> CanEnqueue(r)
           /\ r.state = "errored" => CallPullIfNeeded(y).state = "errored"
<1>1. PICK T \in Nat : Delivering(r, T)
  BY DEF ReadableInv
<1>2. Delivering(y, T) /\ y.canceled = r.canceled /\ (CanEnqueue(y) <=> CanEnqueue(r))
      /\ (r.state = "errored" => y.state = "errored")
  BY <1>1, FlowDelivers
<1>3. /\ Delivering(CallPullIfNeeded(y), T) /\ Heard(CallPullIfNeeded(y))
      /\ StaysOpen(CallPullIfNeeded(y), y)
  BY <1>2, CallPullDelivers
<1>. QED BY <1>2, <1>3 DEF ReadableInv, StaysOpen

LEMMA ErrorReadableInv ==
    ASSUME NEW r, ReadableInv(r)
    PROVE  /\ ReadableInv(ErrorReadable(r)) /\ ~CanEnqueue(ErrorReadable(r))
           /\ ErrorReadable(r).canceled = r.canceled /\ ErrorReadable(r).start = r.start
           /\ r.state \in {"readable", "errored"} => ErrorReadable(r).state = "errored"
<1>1. PICK T \in Nat : Delivering(r, T)
  BY DEF ReadableInv
<1>2. CASE r.state # "readable"
  BY <1>2 DEF ErrorReadable, CanEnqueue
<1>3. CASE r.state = "readable"
  <2>1. EndedAs(ErrorReadable(r), r, "errored", Failed)
    BY <1>1, <1>3, ErrorEnds DEF Delivering
  <2>2. ReadableInv(ErrorReadable(r))
    BY <1>1, <2>1, EndedDelivers DEF Delivering
  <2>. QED BY <2>1, <2>2 DEF EndedAs, CanEnqueue
<1>. QED BY <1>2, <1>3

LEMMA StartedInv ==
    ASSUME NEW r, ReadableInv(r), NEW ok \in BOOLEAN
    PROVE  /\ ReadableInv(Started(r, ok)) /\ Started(r, ok).canceled = r.canceled
           /\ r.state = "errored" => Started(r, ok).state = "errored"
           /\ ok => (CanEnqueue(Started(r, ok)) <=> CanEnqueue(r))
           /\ ~ok => ~CanEnqueue(Started(r, ok))
<1>1. PICK T \in Nat : Delivering(r, T)
  BY DEF ReadableInv
<1>0. r \in Readables
  BY <1>1 DEF Delivering
<1>2. CASE ok
  <2> DEFINE y == [r EXCEPT !.start = "ok", !.called = FALSE]
  <2>1. Started(r, ok) = CallPullIfNeeded(y)
    BY <1>2 DEF Started
  <2>2. SameFlow(y, r)
    BY <1>0 DEF Readables, SameFlow
  <2>. HIDE DEF y
  <2>3. /\ ReadableInv(CallPullIfNeeded(y))
        /\ CallPullIfNeeded(y).canceled = r.canceled
        /\ CanEnqueue(CallPullIfNeeded(y)) <=> CanEnqueue(r)
        /\ r.state = "errored" => CallPullIfNeeded(y).state = "errored"
    BY <2>2, PullWhere
  <2>. QED BY <1>2, <2>1, <2>3
<1>3. CASE ~ok
  <2> DEFINE y == [r EXCEPT !.start = "failed", !.called = FALSE]
  <2>1. Started(r, ok) = ErrorReadable(y)
    BY <1>3 DEF Started
  <2>2. SameFlow(y, r) /\ y.start = "failed"
    BY <1>0 DEF Readables, SameFlow
  <2>. HIDE DEF y
  <2>3. ReadableInv(y) /\ y.canceled = r.canceled /\ (r.state = "errored" => y.state = "errored")
    BY <1>1, <2>2, FlowDelivers DEF ReadableInv, Heard
  <2>. QED BY <1>3, <2>1, <2>3, ErrorReadableInv
<1>. QED BY <1>2, <1>3

LEMMA PulledInv ==
    ASSUME NEW r, ReadableInv(r), NEW ok \in BOOLEAN
    PROVE  /\ ReadableInv(Pulled(r, ok))
           /\ ok => StaysOpen(Pulled(r, ok), r)
<1>1. PICK T \in Nat : Delivering(r, T)
  BY DEF ReadableInv
<1>0. r \in Readables
  BY <1>1 DEF Delivering
<1> DEFINE s == [r EXCEPT !.pulling = FALSE, !.called = FALSE]
<1>2. SameFlow(s, r) /\ s.start = r.start
  BY <1>0 DEF Readables, SameFlow
<1>3. CASE ~ok
  <2>1. Pulled(r, ok) = ErrorReadable(s)
    BY <1>3 DEF Pulled
  <2>. HIDE DEF s
  <2>2. s \in Readables /\ Delivering(s, T)
    BY <1>1, <1>2, FlowDelivers DEF SameFlow
  <2>3. CASE s.state = "readable"
    <3>1. EndedAs(ErrorReadable(s), s, "errored", Failed)
      BY <2>2, <2>3, ErrorEnds
    <3>. QED BY <1>3, <2>1, <2>2, <3>1, EndedDelivers DEF Delivering
  <2>4. CASE s.state # "readable"
    <3>1. s.unasked = {}
      <4>1. SUFFICES ASSUME NEW u \in s.unasked PROVE FALSE
        OBVIOUS
      <4>2. s.reads = <<>> /\ T \in Nat /\ u \in Nat /\ T < u /\ u <= T + Len(s.reads)
        BY <2>2, <2>4 DEF Readables, Delivering, ServedTo, WaitingFrom
      <4>. QED BY <4>2
    <3>2. Heard(s)
      BY <3>1 DEF Heard
    <3>3. ErrorReadable(s) = s
      BY <2>4 DEF ErrorReadable
    <3>. QED BY <1>3, <2>1, <2>2, <3>2, <3>3 DEF ReadableInv
  <2>. QED BY <2>3, <2>4
<1>4. CASE ok /\ r.pullAgain
  <2> DEFINE y == [s EXCEPT !.pullAgain = FALSE]
  <2>1. Pulled(r, ok) = CallPullIfNeeded(y)
    BY <1>0, <1>4 DEF Pulled, Readables
  <2>2. SameFlow(y, r) /\ y.start = r.start
    BY <1>2 DEF SameFlow, Readables
  <2>. HIDE DEF y
  <2>. QED BY <2>1, <2>2, PullWhere DEF StaysOpen
<1>5. CASE ok /\ ~r.pullAgain
  <2>1. Pulled(r, ok) = s
    BY <1>0, <1>5 DEF Pulled, Readables
  <2>2. r.start = "ok" => r.unasked = {}
    BY <1>5 DEF ReadableInv, Heard
  <2>. HIDE DEF s
  <2>3. Delivering(s, T) /\ Heard(s)
    BY <1>1, <1>2, <2>2, FlowDelivers DEF SameFlow, Heard
  <2>. QED BY <1>1, <1>2, <2>1, <2>3, FlowDelivers DEF ReadableInv, StaysOpen
<1>. QED BY <1>3, <1>4, <1>5

LEMMA ClosedReadableInv ==
    ASSUME NEW r, ReadableInv(r), CanEnqueue(r)
    PROVE  /\ ReadableInv(ClosedReadable(r)) /\ ~CanEnqueue(ClosedReadable(r))
           /\ ClosedReadable(r).canceled = r.canceled
<1>1. PICK T \in Nat : Delivering(r, T)
  BY DEF ReadableInv
<1>0. r \in Readables
  BY <1>1 DEF Delivering
<1> DEFINE s == [r EXCEPT !.closeRequested = TRUE]
<1>2. /\ s \in Readables /\ s.closeRequested /\ s.state = "readable"
      /\ s.queue = r.queue /\ s.reads = r.reads /\ s.answer = r.answer /\ s.chunks = r.chunks
      /\ s.canceled = r.canceled /\ s.unasked = r.unasked /\ s.start = r.start
      /\ s.pulling = r.pulling /\ s.pullAgain = r.pullAgain
  BY <1>0 DEF Readables, CanEnqueue
<1>3. ClosedReadable(r) = IF r.queue = <<>> THEN FinishClose(s) ELSE s
  BY DEF ClosedReadable
<1>. HIDE DEF s
<1>4. CASE r.queue = <<>>
  <2>1. EndedAs(FinishClose(s), s, "closed", AtEnd)
    BY <1>2, <1>4, FinishCloseEnds
  <2>2. ServedTo(s.answer, T) /\ T = s.chunks
    <3>1. T \in Nat /\ Len(r.queue) = 0 /\ r.chunks \in Nat
      BY <1>0, <1>1, <1>4 DEF Delivering, ServedTo, Readables
    <3>2. T + Len(r.queue) = r.chunks
      BY <1>1 DEF Delivering, QueuedFrom, CanEnqueue
    <3>3. ServedTo(s.answer, T)
      BY <1>1, <1>2 DEF Delivering, ServedTo
    <3>. QED BY <1>2, <3>1, <3>2, <3>3
  <2>3. ReadableInv(FinishClose(s))
    BY <1>2, <2>1, <2>2, EndedDelivers
  <2>. QED BY <1>2, <1>3, <1>4, <2>1, <2>3 DEF EndedAs, CanEnqueue
<1>5. CASE r.queue # <<>>
  <2>1. r.reads = <<>>
    BY <1>1, <1>5 DEF Delivering, WaitingFrom
  <2>2. Delivering(s, T)
    <3>1. ServedTo(s.answer, T) /\ QueuedFrom(s, T)
      BY <1>1, <1>2 DEF Delivering, ServedTo, QueuedFrom, CanEnqueue
    <3>2. WaitingFrom(s, T) /\ ClosesEmpty(s)
      BY <1>1, <1>2, <1>5, <2>1 DEF Delivering, WaitingFrom, ClosesEmpty, CanEnqueue
    <3>. QED BY <1>2, <3>1, <3>2 DEF Delivering
  <2>3. Heard(s)
    BY <1>2 DEF ReadableInv, Heard
  <2>. QED BY <1>2, <1>3, <1>5, <2>2, <2>3 DEF ReadableInv, CanEnqueue
<1>. QED BY <1>4, <1>5

LEMMA CanceledInv ==
    ASSUME NEW r, ReadableInv(r), r.state = "readable"
    PROVE  /\ ReadableInv(CanceledStream(r)) /\ ~CanEnqueue(CanceledStream(r))
           /\ CanceledStream(r).canceled = 1
<1>1. PICK T \in Nat : Delivering(r, T)
  BY DEF ReadableInv
<1>0. r \in Readables /\ r.canceled = 0
  BY <1>1 DEF Delivering, ClosesEmpty, Readables
<1> DEFINE s == [r EXCEPT !.queue = <<>>, !.closeRequested = TRUE, !.canceled = @ + 1]
<1>2. <<>> \in Seq([chunk : Nat, size : Nat])
  OBVIOUS
<1>3. /\ s \in Readables /\ s.closeRequested /\ s.state = "readable"
      /\ s.queue = <<>> /\ s.answer = r.answer /\ s.canceled = 1
  <2>1. s = [r EXCEPT !.queue = <<>>, !.closeRequested = TRUE, !.canceled = 1]
    BY <1>0
  <2>. HIDE DEF s
  <2>. QED BY <1>0, <1>2, <2>1 DEF Readables
<1>4. CanceledStream(r) = FinishClose(s)
  BY DEF CanceledStream
<1>. HIDE DEF s
<1>5. EndedAs(FinishClose(s), s, "closed", AtEnd)
  BY <1>3, FinishCloseEnds
<1>6. ServedTo(s.answer, T)
  BY <1>1, <1>3 DEF Delivering, ServedTo
<1>7. ReadableInv(FinishClose(s))
  BY <1>3, <1>5, <1>6, EndedDelivers
<1>. QED BY <1>3, <1>4, <1>5, <1>7 DEF EndedAs, CanEnqueue

\* What an operation makes of the answers.
LEMMA AnswersServed ==
    ASSUME NEW p \in Seq(Int), NEW T, ServedTo(p, T)
    PROVE  /\ \A v \in Int : v <= 0 => ServedTo(Append(p, v), T)
           /\ T = Len(p) => ServedTo(Append(p, T + 1), T + 1)
<1>. DEFINE m == Len(p)
<1>0. /\ T \in Nat /\ m \in Nat /\ T <= m
      /\ \A i \in 1 .. T : p[i] = i
      /\ \A i \in 1 .. m : i > T => p[i] <= 0
  BY DEF ServedTo
<1>1. ASSUME NEW v \in Int
      PROVE  /\ Append(p, v) \in Seq(Int) /\ Len(Append(p, v)) = m + 1
             /\ Append(p, v)[m + 1] = v /\ \A i \in 1 .. m : Append(p, v)[i] = p[i]
  BY AppendProperties
<1>. HIDE DEF m
<1>2. ASSUME NEW v \in Int, v <= 0 PROVE ServedTo(Append(p, v), T)
  <2> DEFINE a == Append(p, v)
  <2>1. Len(a) = m + 1 /\ a[m + 1] = v /\ \A i \in 1 .. m : a[i] = p[i]
    BY <1>1
  <2>. HIDE DEF a
  <2>2. \A i \in 1 .. T : a[i] = i
    BY <1>0, <2>1
  <2>3. \A i \in 1 .. m + 1 : i > T => a[i] <= 0
    BY <1>0, <1>2, <2>1
  <2>4. ServedTo(a, T)
    BY <1>0, <2>1, <2>2, <2>3 DEF ServedTo
  <2>. QED BY <2>4 DEF a
<1>3. ASSUME T = m PROVE ServedTo(Append(p, T + 1), T + 1)
  <2> DEFINE a == Append(p, T + 1)
  <2>1. Len(a) = m + 1 /\ a[m + 1] = T + 1 /\ \A i \in 1 .. m : a[i] = p[i]
    BY <1>0, <1>1
  <2>. HIDE DEF a
  <2>2. \A i \in 1 .. T + 1 : a[i] = i
    BY <1>0, <1>3, <2>1
  <2>3. ServedTo(a, T + 1)
    BY <1>0, <1>3, <2>1, <2>2 DEF ServedTo
  <2>. QED BY <2>3 DEF a
<1>. QED BY <1>2, <1>3 DEF m

LEMMA WaitingServed ==
    ASSUME NEW p \in Seq(Int), NEW T, ServedTo(p, T), T + 1 <= Len(p),
           NEW a, a = [p EXCEPT ![T + 1] = T + 1]
    PROVE  ServedTo(a, T + 1)
<1>. DEFINE m == Len(p)
<1>0. /\ T \in Nat /\ m \in Nat /\ T + 1 \in 1 .. m
      /\ \A i \in 1 .. T : p[i] = i
      /\ \A i \in 1 .. m : i > T => p[i] <= 0
  BY DEF ServedTo
<1>1. Len(a) = m /\ a[T + 1] = T + 1 /\ \A i \in 1 .. m : i # T + 1 => a[i] = p[i]
  BY <1>0
<1>. HIDE DEF m
<1>2. \A i \in 1 .. T + 1 : a[i] = i
  BY <1>0, <1>1
<1>3. \A i \in 1 .. m : i > T + 1 => a[i] <= 0
  BY <1>0, <1>1
<1>. QED BY <1>0, <1>1, <1>2, <1>3 DEF ServedTo

LEMMA EnqueuedInv ==
    ASSUME NEW r, ReadableInv(r), CanEnqueue(r), NEW size \in Nat
    PROVE  /\ ReadableInv(Enqueued(r, size)) /\ CanEnqueue(Enqueued(r, size))
           /\ Enqueued(r, size).canceled = r.canceled
<1>1. PICK T \in Nat : Delivering(r, T)
  BY DEF ReadableInv
<1>. DEFINE n == r.chunks + 1
            s == [r EXCEPT !.chunks = n, !.called = FALSE]
            R == Len(r.reads)
            Q == Len(r.queue)
            m == Len(r.answer)
<1>0. /\ R \in Nat /\ Q \in Nat /\ m \in Nat
      /\ r \in Readables /\ r.state = "readable" /\ ~r.closeRequested
      /\ r.queue \in Seq([chunk : Nat, size : Nat]) /\ r.reads \in Seq(Nat)
      /\ r.answer \in Seq(Int) /\ r.chunks \in Nat /\ n \in Nat /\ n = T + Q + 1
      /\ T <= m /\ T + Q = r.chunks
      /\ T + R = m
  <2>1. /\ r \in Readables /\ r.state = "readable" /\ ~r.closeRequested /\ T <= m
        /\ T + Q = r.chunks /\ T + R = m
    BY <1>1 DEF Delivering, ServedTo, QueuedFrom, WaitingFrom, CanEnqueue
  <2>2. /\ r.queue \in Seq([chunk : Nat, size : Nat]) /\ r.reads \in Seq(Nat)
        /\ r.answer \in Seq(Int) /\ r.chunks \in Nat
    BY <2>1 DEF Readables
  <2>3. R \in Nat /\ Q \in Nat /\ m \in Nat
    BY <2>2, LenProperties
  <2>. QED BY <2>1, <2>2, <2>3
<1>. HIDE DEF R, Q, m, n
<1>2. /\ s \in Readables /\ s.state = "readable" /\ ~s.closeRequested
      /\ s.queue = r.queue /\ s.reads = r.reads /\ s.answer = r.answer /\ s.chunks = n
      /\ s.canceled = r.canceled /\ s.unasked = r.unasked
  BY <1>0 DEF Readables
<1>. HIDE DEF s
<1>3. ASSUME NEW y, NEW U \in Nat, Delivering(y, U), Enqueued(r, size) = CallPullIfNeeded(y),
             CanEnqueue(y), y.canceled = r.canceled
      PROVE  /\ ReadableInv(Enqueued(r, size)) /\ CanEnqueue(Enqueued(r, size))
             /\ Enqueued(r, size).canceled = r.canceled
  BY <1>3, CallPullDelivers DEF ReadableInv, StaysOpen
<1>4. CASE r.reads # <<>>
  <2> DEFINE a == [r.answer EXCEPT ![Head(r.reads)] = n]
             q == Tail(r.reads)
             y == [s EXCEPT !.answer = a, !.reads = q, !.unasked = @ \ {Head(r.reads)}]
  <2>1. Enqueued(r, size) = CallPullIfNeeded(y)
    BY <1>2, <1>4 DEF Enqueued, s, n
  <2>2. Head(r.reads) = T + 1 /\ r.queue = <<>> /\ n = T + 1 /\ T + 1 \in 1 .. m
    <3>1. Head(r.reads) = r.reads[1] /\ 1 \in 1 .. R /\ R \in Nat
      BY <1>0, <1>4, HeadTailProperties DEF R, Q, m
    <3>2. r.reads[1] = T + 1 /\ r.queue = <<>>
      BY <1>0, <1>1, <1>4, <3>1 DEF Delivering, WaitingFrom, R, Q, m
    <3>. QED BY <1>0, <3>1, <3>2 DEF Q
  <2>3. /\ q \in Seq(Nat) /\ Len(q) = R - 1
        /\ \A k \in 1 .. Len(q) : q[k] = r.reads[k + 1]
    BY <1>0, <1>4, HeadTailProperties DEF R, Q, m
  <2>4. /\ a \in Seq(Int) /\ Len(a) = m
    <3>1. a = [r.answer EXCEPT ![T + 1] = T + 1] /\ T + 1 \in 1 .. Len(r.answer)
      BY <2>2 DEF m
    <3>. HIDE DEF a
    <3>2. a \in Seq(Int) /\ Len(a) = Len(r.answer) /\ a[T + 1] = T + 1
      BY <1>0, <3>1
    <3>. QED BY <3>1, <3>2 DEF m
  <2>. HIDE DEF a, q
  <2>5. /\ y \in Readables /\ y.answer = a /\ y.reads = q /\ y.unasked = r.unasked \ {T + 1}
        /\ y.state = "readable" /\ ~y.closeRequested /\ y.queue = r.queue /\ y.chunks = n
        /\ y.canceled = r.canceled
    <3>1. y = [s EXCEPT !.answer = a, !.reads = q, !.unasked = s.unasked \ {T + 1}]
      BY <2>2
    <3>. HIDE DEF y
    <3>2. s.unasked \ {T + 1} \in SUBSET Nat
      BY <1>2 DEF Readables
    <3>. QED BY <1>2, <2>3, <2>4, <3>1, <3>2 DEF Readables
  <2>. HIDE DEF y
  <2>6. ServedTo(y.answer, T + 1)
    <3>1. ServedTo(r.answer, T) /\ T + 1 <= Len(r.answer)
      BY <1>0, <1>1, <2>2 DEF Delivering, m
    <3>2. a = [r.answer EXCEPT ![T + 1] = T + 1]
      BY <2>2 DEF a
    <3>. HIDE DEF a
    <3>. QED BY <1>0, <2>5, <3>1, <3>2, WaitingServed
  <2>7. QueuedFrom(y, T + 1)
    <3>1. Q = 0
      BY <2>2 DEF Q
    <3>. QED BY <2>2, <2>5, <3>1 DEF QueuedFrom, R, Q, m
  <2>8. WaitingFrom(y, T + 1)
    <3>1. T + 1 + Len(q) = Len(a)
      BY <1>0, <2>3, <2>4
    <3>2. ASSUME NEW k \in 1 .. Len(q) PROVE q[k] = T + 1 + k
      <4>1. k + 1 \in 1 .. R
        BY <1>0, <2>3
      <4>2. r.reads[k + 1] = T + (k + 1)
        BY <1>0, <1>1, <4>1 DEF Delivering, WaitingFrom, R, Q, m
      <4>. QED BY <2>3, <4>2
    <3>3. ASSUME NEW u \in r.unasked, u # T + 1 PROVE T + 1 < u /\ u <= T + 1 + Len(q)
      <4>1. T < u /\ u <= T + R /\ u \in Nat
        BY <1>0, <1>1 DEF Delivering, WaitingFrom, Readables, R, Q, m
      <4>. QED BY <1>0, <2>3, <3>3, <4>1
    <3>. QED BY <2>2, <2>5, <3>1, <3>2, <3>3 DEF WaitingFrom, R, Q, m
  <2>9. ClosesEmpty(y)
    BY <1>0, <1>1, <2>5 DEF Delivering, ClosesEmpty, R, Q, m
  <2>10. Delivering(y, T + 1)
    BY <2>5, <2>6, <2>7, <2>8, <2>9 DEF Delivering
  <2>. QED BY <1>3, <2>1, <2>5, <2>10 DEF CanEnqueue
<1>5. CASE r.reads = <<>>
  <2> DEFINE c == [chunk |-> n, size |-> size]
             q == Append(r.queue, c)
             y == [s EXCEPT !.queue = Append(@, c)]
  <2>1. Enqueued(r, size) = CallPullIfNeeded(y)
    BY <1>2, <1>5 DEF Enqueued, s, n
  <2>2. c \in [chunk : Nat, size : Nat] /\ c.chunk = n
    BY <1>0
  <2>. HIDE DEF c
  <2>3. /\ q \in Seq([chunk : Nat, size : Nat]) /\ Len(q) = Q + 1
        /\ q[Q + 1] = c /\ \A k \in 1 .. Q : q[k] = r.queue[k]
    BY <1>0, <2>2, AppendProperties DEF R, Q, m
  <2>4. y = [s EXCEPT !.queue = q]
    BY <1>2
  <2>. HIDE DEF q, y
  <2>5. /\ y \in Readables /\ y.answer = r.answer /\ y.reads = <<>> /\ y.unasked = r.unasked
        /\ y.state = "readable" /\ ~y.closeRequested /\ y.queue = q /\ y.chunks = n
        /\ y.canceled = r.canceled
    BY <1>2, <1>5, <2>3, <2>4 DEF Readables
  <2>6. ServedTo(y.answer, T)
    BY <1>1, <2>5 DEF Delivering, ServedTo, R, Q, m
  <2>7. QueuedFrom(y, T)
    <3>1. T + Len(q) = n
      BY <1>0, <2>3
    <3>2. ASSUME NEW k \in 1 .. Len(q) PROVE q[k].chunk = T + k
      <4>1. CASE k \in 1 .. Q
        BY <1>1, <2>3, <4>1 DEF Delivering, QueuedFrom, R, Q, m
      <4>2. CASE k = Q + 1
        BY <1>0, <2>2, <2>3, <4>2, <3>1
      <4>. QED BY <1>0, <2>3, <4>1, <4>2
    <3>. QED BY <2>5, <3>1, <3>2 DEF QueuedFrom, R, Q, m
  <2>8. WaitingFrom(y, T)
    BY <1>0, <1>1, <1>5, <2>5 DEF Delivering, WaitingFrom, R, Q, m
  <2>9. ClosesEmpty(y)
    BY <1>0, <1>1, <2>5 DEF Delivering, ClosesEmpty, R, Q, m
  <2>10. Delivering(y, T)
    BY <2>5, <2>6, <2>7, <2>8, <2>9 DEF Delivering
  <2>. QED BY <1>3, <2>1, <2>5, <2>10 DEF CanEnqueue
<1>. QED BY <1>4, <1>5

\* A read that finds neither a chunk nor an end waits; the others are
\* answered on the spot.
LEMMA ReadFromInv ==
    ASSUME NEW r, ReadableInv(r)
    PROVE  /\ ReadableInv(ReadFrom(r)) /\ ReadFrom(r).canceled = r.canceled
           /\ CanEnqueue(ReadFrom(r)) <=> CanEnqueue(r)
           /\ r.state = "errored" => ReadFrom(r).state = "errored"
<1>1. PICK T \in Nat : Delivering(r, T)
  BY DEF ReadableInv
<1>. DEFINE s == [r EXCEPT !.called = FALSE]
            R == Len(r.reads)
            Q == Len(r.queue)
            m == Len(r.answer)
<1>0. /\ R \in Nat /\ Q \in Nat
      /\ r \in Readables /\ r.state \in {"readable", "closed", "errored"}
      /\ r.queue \in Seq([chunk : Nat, size : Nat]) /\ r.reads \in Seq(Nat)
      /\ r.answer \in Seq(Int) /\ r.chunks \in Nat /\ m \in Nat /\ T <= m
      /\ \A i \in 1 .. T : r.answer[i] = i
      /\ \A i \in 1 .. m : i > T => r.answer[i] <= 0
  BY <1>1 DEF Delivering, ServedTo, Readables
<1>. HIDE DEF R, Q, m
<1>2. SameFlow(s, r) /\ s.unasked = r.unasked /\ s.pulling = r.pulling
      /\ s.pullAgain = r.pullAgain /\ s.start = r.start
  BY <1>0 DEF Readables, SameFlow
<1>3. CASE r.queue # <<>>
  <2> DEFINE q == Tail(r.queue)
             a == Append(r.answer, Head(r.queue).chunk)
             t == [s EXCEPT !.queue = Tail(@), !.answer = Append(@, Head(r.queue).chunk)]
  <2>1. ReadFrom(r) = IF r.closeRequested /\ t.queue = <<>> THEN FinishClose(t)
                      ELSE CallPullIfNeeded(t)
    BY <1>3 DEF ReadFrom
  <2>2. /\ r.state = "readable" /\ r.reads = <<>> /\ T + Q = r.chunks
        /\ T = m /\ R = 0
    BY <1>0, <1>1, <1>3 DEF Delivering, QueuedFrom, WaitingFrom, R, Q, m
  <2>3. /\ q \in Seq([chunk : Nat, size : Nat]) /\ Len(q) = Q - 1
        /\ \A k \in 1 .. Len(q) : q[k] = r.queue[k + 1]
        /\ Head(r.queue) = r.queue[1] /\ 1 \in 1 .. Q /\ Q \in Nat
    BY <1>0, <1>3, HeadTailProperties DEF R, Q, m
  <2>4. Head(r.queue).chunk = T + 1
    BY <1>1, <2>3 DEF Delivering, QueuedFrom, R, Q, m
  <2>5. /\ a \in Seq(Int) /\ Len(a) = m + 1 /\ a[m + 1] = T + 1
        /\ \A i \in 1 .. m : a[i] = r.answer[i]
    BY <1>0, <2>4, AppendProperties DEF R, Q, m
  <2>6. t = [s EXCEPT !.queue = q, !.answer = a]
    BY <1>2 DEF SameFlow
  <2>. HIDE DEF q, a, t
  <2>7. /\ t \in Readables /\ t.queue = q /\ t.answer = a /\ t.reads = <<>>
        /\ t.unasked = r.unasked /\ t.state = "readable" /\ t.closeRequested = r.closeRequested
        /\ t.chunks = r.chunks /\ t.canceled = r.canceled /\ t.start = r.start
    BY <1>2, <2>2, <2>3, <2>5, <2>6 DEF SameFlow, Readables
  <2>. HIDE DEF s
  <2>8. ServedTo(t.answer, T + 1)
    <3>1. ServedTo(r.answer, T) /\ a = Append(r.answer, T + 1) /\ T = Len(r.answer)
      BY <1>1, <2>2, <2>4 DEF Delivering, a, m
    <3>. QED BY <1>0, <2>7, <3>1, AnswersServed
  <2>9. T + 1 + Len(q) = r.chunks
    BY <1>0, <2>2, <2>3
  <2>10. CASE r.closeRequested /\ t.queue = <<>>
    <3>1. EndedAs(FinishClose(t), t, "closed", AtEnd)
      BY <2>7, <2>10, FinishCloseEnds
    <3>2. T + 1 = t.chunks
      BY <2>7, <2>9, <2>10
    <3>3. ReadableInv(FinishClose(t))
      BY <2>7, <2>8, <3>1, <3>2, EndedDelivers
    <3>. QED BY <2>1, <2>2, <2>7, <2>10, <3>1, <3>3 DEF EndedAs, CanEnqueue
  <2>11. CASE ~(r.closeRequested /\ t.queue = <<>>)
    <3>1. QueuedFrom(t, T + 1)
      <4>1. ASSUME NEW k \in 1 .. Len(q) PROVE q[k].chunk = T + 1 + k
        <5>1. k + 1 \in 1 .. Q
          BY <2>3
        <5>2. r.queue[k + 1].chunk = T + (k + 1)
          BY <1>1, <5>1 DEF Delivering, QueuedFrom, R, Q, m
        <5>. QED BY <2>3, <5>2
      <4>. QED BY <2>7, <2>9, <4>1 DEF QueuedFrom, R, Q, m
    <3>2. WaitingFrom(t, T + 1)
      <4>1. t.unasked = {}
        <5>1. \A u \in r.unasked : u \in Nat /\ T < u /\ u <= T + R
          BY <1>0, <1>1 DEF Delivering, WaitingFrom, Readables, R, Q, m
        <5>. QED BY <2>2, <2>7, <5>1
      <4>. QED BY <2>2, <2>5, <2>7, <4>1 DEF WaitingFrom, R, Q, m
    <3>3. ClosesEmpty(t)
      BY <1>1, <2>2, <2>7, <2>11 DEF Delivering, ClosesEmpty, R, Q, m
    <3>4. Delivering(t, T + 1)
      BY <2>7, <2>8, <3>1, <3>2, <3>3 DEF Delivering
    <3>5. /\ Delivering(CallPullIfNeeded(t), T + 1) /\ Heard(CallPullIfNeeded(t))
          /\ StaysOpen(CallPullIfNeeded(t), t)
      BY <3>4, CallPullDelivers
    <3>. QED BY <2>1, <2>2, <2>7, <2>11, <3>5 DEF ReadableInv, StaysOpen, CanEnqueue
  <2>. QED BY <2>10, <2>11
<1>4. CASE r.queue = <<>> /\ r.state \in {"closed", "errored"}
  <2>1. PICK end \in {AtEnd, Failed} : ReadFrom(r) = [s EXCEPT !.answer = Append(@, end)]
    BY <1>4 DEF ReadFrom
  <2> DEFINE a == Append(r.answer, end)
             y == [s EXCEPT !.answer = Append(@, end)]
  <2>2. end \in Int /\ end <= 0
    BY DEF AtEnd, Failed
  <2>3. /\ a \in Seq(Int) /\ Len(a) = m + 1 /\ a[m + 1] = end
        /\ \A i \in 1 .. m : a[i] = r.answer[i]
    BY <1>0, <2>2, AppendProperties DEF R, Q, m
  <2>4. y = [s EXCEPT !.answer = a]
    BY <1>2 DEF SameFlow
  <2>. HIDE DEF a, y
  <2>5. /\ y \in Readables /\ y.queue = <<>> /\ y.answer = a /\ y.reads = r.reads
        /\ y.unasked = r.unasked /\ y.state = r.state /\ y.closeRequested = r.closeRequested
        /\ y.chunks = r.chunks /\ y.canceled = r.canceled /\ y.start = r.start
        /\ y.pulling = r.pulling /\ y.pullAgain = r.pullAgain
    BY <1>2, <1>4, <2>3, <2>4 DEF SameFlow, Readables
  <2>. HIDE DEF s
  <2>6. ServedTo(y.answer, T)
    BY <1>0, <1>1, <2>2, <2>5, AnswersServed DEF Delivering, a
  <2>7. QueuedFrom(y, T) /\ ClosesEmpty(y)
    BY <1>1, <1>4, <2>5 DEF Delivering, QueuedFrom, ClosesEmpty, R, Q, m
  <2>8. WaitingFrom(y, T)
    BY <1>1, <1>4, <2>5 DEF Delivering, WaitingFrom, R, Q, m
  <2>9. Heard(y)
    BY <2>5 DEF ReadableInv, Heard
  <2>10. ReadFrom(r) = y
    BY <2>1 DEF y
  <2>. QED BY <2>5, <2>6, <2>7, <2>8, <2>9, <2>10 DEF ReadableInv, Delivering, CanEnqueue
<1>5. CASE r.queue = <<>> /\ r.state = "readable"
  <2> DEFINE id == m + 1
             a == Append(r.answer, Waits)
             q == Append(r.reads, id)
             y == [s EXCEPT !.answer = Append(@, Waits), !.reads = Append(@, id),
                            !.unasked = @ \cup {id}]
  <2>1. ReadFrom(r) = CallPullIfNeeded(y)
    BY <1>5 DEF ReadFrom, m
  <2>2. ~r.closeRequested /\ T + R = m /\ \A k \in 1 .. R : r.reads[k] = T + k
    BY <1>1, <1>5 DEF Delivering, ClosesEmpty, WaitingFrom, R, Q, m
  <2>3. /\ a \in Seq(Int) /\ Len(a) = m + 1 /\ a[m + 1] = 0
        /\ \A i \in 1 .. m : a[i] = r.answer[i]
    BY <1>0, AppendProperties DEF Waits, R, Q, m
  <2>4. /\ q \in Seq(Nat) /\ Len(q) = R + 1 /\ q[R + 1] = id
        /\ \A k \in 1 .. R : q[k] = r.reads[k]
    BY <1>0, AppendProperties DEF R, Q, m
  <2>5. y = [s EXCEPT !.answer = a, !.reads = q, !.unasked = r.unasked \cup {id}]
    BY <1>2 DEF SameFlow
  <2>6. r.unasked \cup {id} \in SUBSET Nat
    BY <1>0 DEF Readables
  <2>. HIDE DEF a, q, y
  <2>7. /\ y \in Readables /\ y.queue = <<>> /\ y.answer = a /\ y.reads = q
        /\ y.unasked = r.unasked \cup {id} /\ y.state = "readable" /\ ~y.closeRequested
        /\ y.chunks = r.chunks /\ y.canceled = r.canceled
    BY <1>2, <1>5, <2>2, <2>3, <2>4, <2>5, <2>6 DEF SameFlow, Readables
  <2>. HIDE DEF s
  <2>8. ServedTo(y.answer, T)
    <3>1. Waits \in Int /\ Waits <= 0 /\ ServedTo(r.answer, T)
      BY <1>1 DEF Waits, Delivering
    <3>. QED BY <1>0, <2>7, <3>1, AnswersServed DEF a
  <2>9. QueuedFrom(y, T) /\ ClosesEmpty(y)
    BY <1>1, <1>5, <2>7 DEF Delivering, QueuedFrom, ClosesEmpty, R, Q, m
  <2>10. WaitingFrom(y, T)
    <3>1. T + Len(q) = Len(a)
      BY <1>0, <2>2, <2>3, <2>4
    <3>2. ASSUME NEW k \in 1 .. Len(q) PROVE q[k] = T + k
      <4>1. CASE k \in 1 .. R
        BY <2>2, <2>4, <4>1
      <4>2. CASE k = R + 1
        BY <1>0, <2>2, <2>4, <4>2
      <4>. QED BY <1>0, <2>4, <4>1, <4>2
    <3>3. ASSUME NEW u \in r.unasked \cup {id} PROVE T < u /\ u <= T + Len(q)
      <4>1. CASE u \in r.unasked
        <5>1. T < u /\ u <= T + R /\ u \in Nat
          BY <1>0, <1>1, <4>1 DEF Delivering, WaitingFrom, Readables, R, Q, m
        <5>. QED BY <1>0, <2>4, <5>1
      <4>2. CASE u = id
        BY <1>0, <2>2, <2>4, <4>2
      <4>. QED BY <4>1, <4>2
    <3>. QED BY <2>7, <3>1, <3>2, <3>3 DEF WaitingFrom, R, Q, m
  <2>11. Delivering(y, T)
    BY <2>7, <2>8, <2>9, <2>10 DEF Delivering
  <2>12. /\ Delivering(CallPullIfNeeded(y), T) /\ Heard(CallPullIfNeeded(y))
         /\ StaysOpen(CallPullIfNeeded(y), y)
    BY <2>11, CallPullDelivers
  <2>. QED BY <1>5, <2>1, <2>2, <2>7, <2>12 DEF ReadableInv, StaysOpen, CanEnqueue
<1>. QED BY <1>0, <1>3, <1>4, <1>5

LEMMA LockedInv ==
    ASSUME NEW r, ReadableInv(r), NEW b \in BOOLEAN
    PROVE  ReadableInv([r EXCEPT !.locked = b])
<1>1. r \in Readables
  BY DEF ReadableInv, Delivering
<1>. DEFINE y == [r EXCEPT !.locked = b]
<1>2. SameFlow(y, r) /\ y.start = r.start /\ y.pulling = r.pulling /\ y.pullAgain = r.pullAgain
  BY <1>1 DEF Readables, SameFlow
<1>. HIDE DEF y
<1>3. ReadableInv(y)
  BY <1>2, FlowKept
<1>. QED BY <1>3 DEF y

LEMMA ReadableStepInv ==
    ASSUME ReadableInv(readable), [ReadableNext]_readable
    PROVE  ReadableInv(readable')
<1>1. CASE \E ok \in BOOLEAN : SourceStarts(ok) \/ PullSettles(ok)
  BY <1>1, StartedInv, PulledInv DEF SourceStarts, PullSettles
<1>2. CASE GetReader \/ ReleaseReader
  BY <1>2, LockedInv DEF GetReader, ReleaseReader
<1>3. CASE ReadChunk
  BY <1>3, ReadFromInv DEF ReadChunk
<1>4. CASE CancelReadable
  BY <1>4, CanceledInv DEF CancelReadable
<1>5. ASSUME NEW size \in ReadableSizes, SourceEnqueues(size) PROVE ReadableInv(readable')
  <2>1. size \in Nat
    BY ReadableAssumption DEF ReadableAssumption
  <2>. QED BY <1>5, <2>1, EnqueuedInv DEF SourceEnqueues
<1>6. CASE SizeFails \/ SourceErrors
  BY <1>6, ErrorReadableInv DEF SizeFails, SourceErrors
<1>7. CASE SourceCloses
  BY <1>7, ClosedReadableInv DEF SourceCloses
<1>. QED BY <1>1, <1>2, <1>3, <1>4, <1>5, <1>6, <1>7 DEF ReadableNext

\* What the reads have taken and what is held for them are the chunks.
LEMMA DeliveryOrder ==
    ASSUME ReadableInv(readable) PROVE ReadableDelivers
<1>1. PICK T \in Nat : Delivering(readable, T)
  BY DEF ReadableInv
<1>. DEFINE r == readable
            taken == {r.answer[i] : i \in {j \in DOMAIN r.answer : Served(r, j)}}
            held == {r.queue[i].chunk : i \in DOMAIN r.queue}
            m == Len(r.answer)
            Q == Len(r.queue)
<1>2. /\ r \in Readables /\ m \in Nat /\ Q \in Nat /\ T <= m
      /\ DOMAIN r.answer = 1 .. m /\ DOMAIN r.queue = 1 .. Q
      /\ \A i \in 1 .. m : r.answer[i] \in Int
      /\ r.chunks \in Nat
  BY <1>1 DEF Delivering, ServedTo, Readables
<1>3. /\ \A i \in 1 .. T : r.answer[i] = i
      /\ \A i \in 1 .. m : i > T => r.answer[i] <= 0
  BY <1>1 DEF Delivering, ServedTo
<1>4. \A k \in 1 .. Q : r.queue[k].chunk = T + k
  BY <1>1 DEF Delivering, QueuedFrom
<1>5. r.state = "readable" \/ (r.state = "closed" /\ r.canceled = 0) => T + Q = r.chunks
  BY <1>1 DEF Delivering, QueuedFrom
<1>. HIDE DEF m, Q
<1>6. \A i \in 1 .. m : Served(r, i) <=> i \in 1 .. T
  <2>1. SUFFICES ASSUME NEW i \in 1 .. m PROVE r.answer[i] > 0 <=> i \in 1 .. T
    BY DEF Served
  <2>2. CASE i \in 1 .. T
    BY <1>3, <2>2
  <2>3. CASE ~(i \in 1 .. T)
    <3>1. i > T
      BY <1>2, <2>3
    <3>2. r.answer[i] <= 0 /\ r.answer[i] \in Int
      BY <1>2, <1>3, <3>1
    <3>. QED BY <2>3, <3>2
  <2>. QED BY <2>2, <2>3
<1>7. ChunksInOrder
  <2>1. ASSUME NEW i \in 1 .. m, NEW j \in 1 .. m, i < j, Served(r, j)
        PROVE  Served(r, i) /\ r.answer[i] < r.answer[j]
    <3>1. j \in 1 .. T
      BY <1>6, <2>1
    <3>2. i \in 1 .. T
      BY <1>2, <2>1, <3>1
    <3>3. r.answer[i] = i /\ r.answer[j] = j
      BY <1>3, <3>1, <3>2
    <3>. QED BY <1>6, <2>1, <3>2, <3>3
  <2>2. taken = 1 .. T
    <3>1. ASSUME NEW c \in 1 .. T PROVE c \in taken
      <4>1. c \in 1 .. m
        BY <1>2
      <4>2. Served(r, c) /\ r.answer[c] = c
        BY <1>3, <1>6, <4>1
      <4>. QED BY <1>2, <4>1, <4>2
    <3>2. ASSUME NEW c \in taken PROVE c \in 1 .. T
      <4>1. PICK i \in 1 .. m : Served(r, i) /\ c = r.answer[i]
        BY <1>2, <3>2
      <4>2. i \in 1 .. T
        BY <1>6, <4>1
      <4>. QED BY <1>3, <4>1, <4>2
    <3>. QED BY <3>1, <3>2
  <2>3. held = {T + k : k \in 1 .. Q}
    BY <1>2, <1>4
  <2>. HIDE DEF taken, held
  <2>4. ASSUME r.state = "readable" \/ (r.state = "closed" /\ r.canceled = 0)
        PROVE  taken \cup held = 1 .. r.chunks
    <3>. DEFINE C == r.chunks
    <3>1. T + Q = C /\ C \in Nat
      BY <1>2, <1>5, <2>4
    <3>. HIDE DEF C
    <3>2. ASSUME NEW c \in 1 .. C PROVE c \in taken \cup held
      <4>1. CASE c <= T
        BY <2>2, <4>1
      <4>2. CASE c > T
        <5>1. c - T \in 1 .. Q /\ c = T + (c - T)
          BY <1>2, <3>1, <4>2
        <5>. QED BY <2>3, <5>1
      <4>. QED BY <4>1, <4>2
    <3>3. ASSUME NEW c \in taken \cup held PROVE c \in 1 .. C
      <4>1. CASE c \in taken
        BY <1>2, <2>2, <3>1, <4>1
      <4>2. CASE c \in held
        <5>1. PICK k \in 1 .. Q : c = T + k
          BY <2>3, <4>2
        <5>. QED BY <1>2, <3>1, <5>1
      <4>. QED BY <3>3, <4>1, <4>2
    <3>. QED BY <3>2, <3>3 DEF C
  <2>5. r.canceled <= 1
    BY <1>2 DEF Readables
  <2>. QED BY <1>2, <2>1, <2>4, <2>5 DEF ChunksInOrder, taken, held
<1>8. ReadsAreHeard
  BY <1>1 DEF ReadableInv, Delivering, WaitingFrom, Heard, ReadsAreHeard
<1>. QED BY <1>7, <1>8 DEF ReadableDelivers

(* A readable of any mark and any chunk sizes, however its source and its  *)
(* reader use it, serves its reads with its chunks one by one, and hears   *)
(* every read that waits (web-readable.ts).                                *)
THEOREM ReadableDelivery == ReadableSpec => []ReadableDelivers
<1>1. ReadableInit => ReadableInv(readable)
  BY NewReadableInv DEF ReadableInit
<1>2. ReadableInv(readable) /\ [ReadableNext]_readable => ReadableInv(readable)'
  BY ReadableStepInv
<1>3. ReadableInv(readable) => ReadableDelivers
  BY DeliveryOrder
<1>. QED BY <1>1, <1>2, <1>3, PTL DEF ReadableSpec
-----------------------------------------------------------------------------
(* The writable: its sink, its promises and its backpressure.  The         *)
(* invariant WritableInv says what each request is doing: it waits in the  *)
(* queue, the sink has it, it waits for an end, or it was answered; whether*)
(* advanceQueue is under way and with what; and what the gauge counts.     *)
(*                                                                         *)
(* What a queue adds up to is proved of the sums QueueSize is defined with,*)
(* from the least request at which they would differ.                      *)

\* what a queue of requests adds up to, request by request
SumsOf(queue, n, sums) ==
    sums = [k \in 0 .. n |-> IF k = 0 THEN 0 ELSE sums[k - 1] + queue[k].size]

Below == {pair \in Nat \X Nat : pair[1] < pair[2]}

\* A set of numbers that is not empty has a least one.
LEMMA LeastNumber ==
    ASSUME NEW T, T \subseteq Nat, T # {} PROVE \E x \in T : \A y \in T : x <= y
<1>1. IsWellFoundedOn(Below, Nat)
  BY NatLessThanWellFounded DEF OpToRel, Below
<1>2. PICK x \in T : \A y \in T : ~ (<<y, x>> \in Below)
  BY <1>1, WFMin
<1>3. ASSUME NEW y \in T PROVE x <= y
  <2>1. x \in Nat /\ y \in Nat
    OBVIOUS
  <2>2. ~ (<<y, x>> \in Below)
    BY <1>2
  <2>. QED BY <2>1, <2>2 DEF Below
<1>. QED BY <1>3

\* Every queue has such sums.
LEMMA SumsExist ==
    ASSUME NEW queue, NEW n \in Nat PROVE \E sums : SumsOf(queue, n, sums)
<1>. DEFINE T == {m \in Nat : ~ \E sums : SumsOf(queue, m, sums)}
<1>1. ASSUME T # {} PROVE FALSE
  <2>0. T \subseteq Nat
    OBVIOUS
  <2>1. PICK m \in T : \A y \in T : m <= y
    BY <1>1, <2>0, LeastNumber
  <2>2. m # 0
    <3>1. SumsOf(queue, 0, [k \in 0 .. 0 |-> 0])
      BY DEF SumsOf
    <3>. QED BY <3>1
  <2>3. m \in Nat /\ m - 1 \in Nat /\ m - 1 \notin T
    BY <2>1, <2>2
  <2>4. PICK f : SumsOf(queue, m - 1, f)
    BY <2>3
  <2>. DEFINE g == [k \in 0 .. m |-> IF k = m THEN f[m - 1] + queue[m].size ELSE f[k]]
  <2>5. SumsOf(queue, m, g)
    BY <2>2, <2>3, <2>4 DEF SumsOf
  <2>. QED BY <2>5
<1>. QED BY <1>1

SameSizes(p, q, m) == \A k \in 1 .. m : p[k].size = q[k].size
SameSums(f, g, m) == \A k \in 0 .. m : f[k] = g[k]

\* Two that add up the same agree as far as both go.
LEMMA SumsAgree ==
    ASSUME NEW p, NEW q, NEW m \in Nat, NEW n \in Nat, m <= n,
           NEW f, NEW g, SumsOf(p, m, f), SumsOf(q, n, g),
           SameSizes(p, q, m)
    PROVE  SameSums(f, g, m)
<1>. DEFINE T == {k \in 0 .. m : f[k] # g[k]}
<1>1. ASSUME T # {} PROVE FALSE
  <2>0. T \subseteq Nat
    OBVIOUS
  <2>1. PICK k \in T : \A y \in T : k <= y
    BY <1>1, <2>0, LeastNumber
  <2>2. k # 0
    BY DEF SumsOf
  <2>3. k \in 1 .. m /\ k - 1 \in 0 .. m /\ k - 1 \notin T
    BY <2>1, <2>2
  <2>4. f[k - 1] = g[k - 1]
    BY <2>3
  <2>. QED BY <2>3, <2>4 DEF SumsOf, SameSizes
<1>. QED BY <1>1 DEF SameSums

\* What QueueSize chooses is the last of them.
LEMMA SumIs ==
    ASSUME NEW queue, Len(queue) \in Nat, NEW f, SumsOf(queue, Len(queue), f)
    PROVE  QueueSize(queue) = f[Len(queue)]
<1>. DEFINE h == CHOOSE h : SumsOf(queue, Len(queue), h)
<1>1. SumsOf(queue, Len(queue), h)
  OBVIOUS
<1>2. QueueSize(queue) = h[Len(queue)]
  BY DEF QueueSize, SumsOf
<1>. HIDE DEF h
<1>3. SameSizes(queue, queue, Len(queue))
  BY DEF SameSizes
<1>4. SameSums(h, f, Len(queue))
  BY <1>1, <1>3, SumsAgree
<1>. QED BY <1>2, <1>4 DEF SameSums

\* an empty queue
LEMMA EmptySize == QueueSize(<<>>) = 0
<1>1. PICK f : SumsOf(<<>>, 0, f)
  BY SumsExist
<1>2. QueueSize(<<>>) = f[0]
  BY <1>1, SumIs
<1>. QED BY <1>1, <1>2 DEF SumsOf

\* No queue holds less than nothing.
LEMMA SizeIsNat ==
    ASSUME NEW S, NEW q \in Seq(S), \A x \in S : x.size \in Nat
    PROVE  QueueSize(q) \in Nat
<1>. DEFINE n == Len(q)
<1>1. n \in Nat /\ \A k \in 1 .. n : q[k].size \in Nat
  BY LenProperties, ElementOfSeq
<1>2. PICK f : SumsOf(q, n, f)
  BY <1>1, SumsExist
<1>3. QueueSize(q) = f[n]
  BY <1>1, <1>2, SumIs
<1>. HIDE DEF n
<1>. DEFINE T == {k \in 0 .. n : f[k] \notin Nat}
<1>4. ASSUME T # {} PROVE FALSE
  <2>0. T \subseteq Nat
    BY <1>1
  <2>1. PICK k \in T : \A y \in T : k <= y
    BY <1>4, <2>0, LeastNumber
  <2>2. k # 0
    BY <1>1, <1>2 DEF SumsOf
  <2>3. k \in 1 .. n /\ k - 1 \in 0 .. n /\ k - 1 \notin T
    BY <1>1, <2>1, <2>2
  <2>4. f[k - 1] \in Nat /\ f[k] = f[k - 1] + q[k].size /\ q[k].size \in Nat
    BY <1>1, <1>2, <2>3 DEF SumsOf
  <2>. QED BY <2>4
<1>. QED BY <1>1, <1>3, <1>4

\* a request more
LEMMA AppendSize ==
    ASSUME NEW S, NEW q \in Seq(S), NEW e \in S
    PROVE  QueueSize(Append(q, e)) = QueueSize(q) + e.size
<1>. DEFINE n == Len(q)
            m == n + 1
            a == Append(q, e)
<1>1. /\ n \in Nat /\ m \in Nat /\ n <= m /\ Len(a) = m /\ a[m] = e
      /\ \A k \in 1 .. n : a[k].size = q[k].size
  BY AppendProperties, LenProperties
<1>2. PICK f : SumsOf(q, n, f)
  BY <1>1, SumsExist
<1>. HIDE DEF a, m
<1>3. PICK g : SumsOf(a, m, g)
  BY <1>1, SumsExist
<1>4. QueueSize(q) = f[n]
  BY <1>1, <1>2, SumIs
<1>5. QueueSize(a) = g[m]
  BY <1>1, <1>3, SumIs
<1>. HIDE DEF n
<1>6. SameSums(f, g, n)
  <2>1. SameSizes(q, a, n)
    BY <1>1 DEF SameSizes
  <2>. QED BY <1>1, <1>2, <1>3, <2>1, SumsAgree
<1>7. f[n] = g[n]
  BY <1>1, <1>6 DEF SameSums
<1>8. m = n + 1
  BY DEF m
<1>9. g[m] = g[n] + e.size
  BY <1>1, <1>3, <1>8 DEF SumsOf
<1>. QED BY <1>4, <1>5, <1>7, <1>9 DEF a

\* a request less
LEMMA HeadSize ==
    ASSUME NEW S, NEW q \in Seq(S), q # <<>>, \A x \in S : x.size \in Nat
    PROVE  QueueSize(q) = QueueSize(Tail(q)) + Head(q).size
<1>. DEFINE n == Len(q)
            m == n - 1
            t == Tail(q)
<1>1. /\ n \in Nat /\ m \in Nat /\ Len(t) = m /\ Head(q) = q[1]
      /\ \A k \in 1 .. m : t[k] = q[k + 1]
      /\ \A k \in 1 .. n : q[k].size \in Nat
  BY HeadTailProperties, EmptySeq, LenProperties, ElementOfSeq
<1>2. PICK f : SumsOf(q, n, f)
  BY <1>1, SumsExist
<1>4. QueueSize(q) = f[n]
  BY <1>1, <1>2, SumIs
<1>0. n = m + 1
  BY <1>1
<1>. HIDE DEF t, m
<1>3. PICK g : SumsOf(t, m, g)
  BY <1>1, SumsExist
<1>5. QueueSize(t) = g[m]
  BY <1>1, <1>3, SumIs
<1>. HIDE DEF n
<1>. DEFINE T == {k \in 0 .. m : ~ (g[k] \in Nat /\ f[k + 1] = g[k] + q[1].size)}
<1>6. ASSUME T # {} PROVE FALSE
  <2>0. T \subseteq Nat
    BY <1>1
  <2>1. PICK k \in T : \A y \in T : k <= y
    BY <1>6, <2>0, LeastNumber
  <2>2. g[0] = 0 /\ f[0] = 0
    BY <1>0, <1>1, <1>2, <1>3 DEF SumsOf
  <2>3. f[1] = f[0] + q[1].size /\ q[1].size \in Nat
    BY <1>0, <1>1, <1>2 DEF SumsOf
  <2>4. k # 0
    BY <1>1, <2>2, <2>3
  <2>5. k \in 1 .. m /\ k - 1 \in 0 .. m /\ k - 1 \notin T
    BY <1>1, <2>1, <2>4
  <2>6. g[k - 1] \in Nat /\ f[(k - 1) + 1] = g[k - 1] + q[1].size
    BY <1>1, <2>5
  <2>7. g[k] = g[k - 1] + t[k].size /\ t[k] = q[k + 1]
    BY <1>1, <1>3, <2>5 DEF SumsOf
  <2>8. k + 1 \in 0 .. n /\ k + 1 # 0 /\ (k + 1) - 1 = k /\ (k - 1) + 1 = k
    BY <1>0, <1>1, <2>5
  <2>9. f[k + 1] = f[k] + q[k + 1].size /\ q[k + 1].size \in Nat
    BY <1>1, <1>2, <2>8 DEF SumsOf
  <2>10. g[k] \in Nat /\ f[k + 1] = g[k] + q[1].size
    BY <2>3, <2>6, <2>7, <2>8, <2>9
  <2>. QED BY <2>10
<1>7. m \in 0 .. m /\ f[m + 1] = g[m] + q[1].size
  BY <1>1, <1>6
<1>. QED BY <1>0, <1>1, <1>4, <1>5, <1>7 DEF t

-----------------------------------------------------------------------------
\* the records of a writable
Requests == [kind : {"write", "close"}, id : Nat, size : Nat]
Answers == {"pending", "ok", "failed"}
Calls == [kind : {"write", "close", "abort"}, id : Nat]

Writables ==
    [state : {"writable", "closed", "errored", "aborting", "erroring"},
     queue : Seq(Requests), active : {NoWrite} \cup Requests,
     start : {"pending", "ok", "failed"}, advancing : {"no", "start", "sink"},
     closeRequested : BOOLEAN, abortStarted : BOOLEAN,
     aborts : SUBSET Nat, errors : SUBSET Nat, closes : SUBSET Nat,
     total : Int, backpressure : BOOLEAN, ready : {"pending", "resolved", "rejected"},
     answer : Seq(Answers), calls : Seq(Calls),
     running : SUBSET {"write", "close", "abort"}, done : SUBSET Nat]

Over(w) == w.state \in {"closed", "errored"}
Waiters(w) == w.aborts \cup w.errors \cup w.closes

\* The queue holds some of the first n requests, in order, and a close at
\* its end only.
QueueOrder(queue, n, asked) ==
    /\ \A k \in 1 .. Len(queue) :
          /\ queue[k].id \in 1 .. n
          /\ queue[k].kind = "close" => queue[k].size = 0 /\ asked
    /\ \A j, k \in 1 .. Len(queue) :
          j < k => queue[j].kind = "write" /\ queue[j].id < queue[k].id

\* The sink was called for requests before those of the queue, in order; a
\* close or an abort was the last call.
CallOrder(calls, queue, n) ==
    /\ \A i \in 1 .. Len(calls) :
          IF calls[i].kind = "abort" THEN calls[i].id = 0 ELSE calls[i].id \in 1 .. n
    /\ \A i, j \in 1 .. Len(calls) :
          i < j => /\ calls[i].kind = "write"
                   /\ calls[j].kind # "abort" => calls[i].id < calls[j].id
    /\ \A i \in 1 .. Len(calls) : \A k \in 1 .. Len(queue) : calls[i].id < queue[k].id

\* Who is in the queue waits, what the sink has done is told, and who waits
\* for an end is neither in the queue nor with the sink.
Told(answer, queue, calls, done, waiters) ==
    /\ \A k \in 1 .. Len(queue) : answer[queue[k].id] = "pending"
    /\ \A i \in 1 .. Len(calls) :
          calls[i].id # 0 /\ answer[calls[i].id] = "ok" => calls[i].id \in done
    /\ \A id \in done : \E i \in 1 .. Len(calls) :
          /\ calls[i].id = id /\ id # 0 /\ answer[id] # "pending"
          /\ answer[id] = "failed" => calls[i].kind = "close"
    /\ \A x \in waiters :
          /\ x <= Len(answer)
          /\ \A k \in 1 .. Len(queue) : queue[k].id # x
          /\ \A i \in 1 .. Len(calls) : calls[i].id = x => x = 0

\* what holds whether or not the sink works
Kept(w) ==
    /\ w \in Writables
    /\ QueueOrder(w.queue, Len(w.answer), w.closeRequested)
    /\ CallOrder(w.calls, w.queue, Len(w.answer))
    /\ Told(w.answer, w.queue, w.calls, w.done, Waiters(w))
    /\ w.state # "writable" => w.queue = <<>>
    /\ w.aborts # {} => w.state = "aborting"
    /\ w.errors # {} => w.state = "erroring"
    /\ w.state \in {"aborting", "erroring", "errored"} => w.ready = "rejected"
    /\ w.state = "closed" /\ w.ready = "pending" => WritableHighWaterMark = 0

Gauged(w) ==
    w.state = "writable" =>
       /\ w.backpressure = (WritableHighWaterMark - w.total <= 0)
       /\ w.ready = IF w.total >= WritableHighWaterMark THEN "pending" ELSE "resolved"

\* who waits is in the queue, with the sink, or waits for an end
Owed(w, ids) ==
    \A i \in 1 .. Len(w.answer) : w.answer[i] = "pending" =>
       i \in ids \cup Waiters(w) \/ \E k \in 1 .. Len(w.queue) : w.queue[k].id = i

\* when the stream has ended, nobody else waits
EndAnswers(w, ids) ==
    Over(w) => \A i \in 1 .. Len(w.answer) : w.answer[i] = "pending" => i \in ids

\* what the sink works on, and what it has left to do
Works(w) ==
    /\ w.advancing = "sink" <=> w.active # NoWrite
    /\ w.advancing = "sink" =>
          /\ w.running = {w.active.kind} /\ w.calls # <<>>
          /\ w.calls[Len(w.calls)] = [kind |-> w.active.kind, id |-> w.active.id]
          /\ w.active.id # 0 /\ w.answer[w.active.id] = "pending"
    /\ w.advancing # "sink" => w.running \subseteq {"abort"}
    /\ "abort" \in w.running => w.state = "aborting" /\ w.abortStarted
    /\ w.abortStarted => w.state \in {"aborting", "errored"} /\ w.advancing = "no"
    /\ w.state = "aborting" =>
          w.active.kind # "close" /\ (w.advancing = "no" => w.abortStarted)
    /\ w.state = "erroring" => w.advancing # "no"
    /\ Over(w) => w.advancing = "no"
    /\ w.active.kind = "close" => w.queue = <<>> /\ w.active.size = 0 /\ w.closeRequested
    /\ w.closes # {} => w.active.kind = "close" \/ Over(w)
    /\ \A i \in 1 .. Len(w.calls) :
          /\ w.calls[i].kind = "abort" => w.abortStarted
          /\ w.calls[i].kind = "close" => w.active.kind = "close" \/ Over(w)
    /\ w.state # "errored" => w.total = QueueSize(w.queue) + w.active.size

\* The requests of ids wait for what is being done for them.
Asking(w, ids) ==
    Kept(w) /\ Gauged(w) /\ Works(w) /\ Owed(w, {w.active.id} \cup ids) /\ EndAnswers(w, ids)

WritableInv(w) == Asking(w, {})

\* The sink has returned, or there was nothing yet: advanceQueue goes on, or
\* records an error before it ends.
Freed(w) ==
    /\ Kept(w) /\ w.running = {} /\ ~w.abortStarted /\ w.advancing # "no"
    /\ w.state # "errored"
    /\ \A i \in 1 .. Len(w.answer) : w.answer[i] = "pending" =>
          i \in w.aborts \cup w.errors \/ \E k \in 1 .. Len(w.queue) : w.queue[k].id = i
    /\ \A i \in 1 .. Len(w.calls) :
          /\ w.calls[i].kind # "abort"
          /\ w.calls[i].kind = "close" => w.state # "aborting"
    /\ w.closes # {} => w.state # "aborting"
    /\ w.state \in {"aborting", "closed"} => w.total = 0

GoesOn(w) ==
    /\ Freed(w) /\ Gauged(w)
    /\ w.state = "writable" =>
          /\ w.total = QueueSize(w.queue) /\ w.closes = {}
          /\ \A i \in 1 .. Len(w.calls) : w.calls[i].kind # "close"

\* the requests of a queue
Queued(queue) == {queue[k].id : k \in 1 .. Len(queue)}

\* y says of the requests in ids the result, and of the others what w says.
Tells(y, w, ids, result) ==
    /\ Len(y.answer) = Len(w.answer)
    /\ \A i \in 1 .. Len(w.answer) :
          y.answer[i] = IF i \in ids THEN result ELSE w.answer[i]

\* what the fields of a writable are, one by one
LEMMA WritableTypes ==
    ASSUME NEW w \in Writables
    PROVE  /\ w.queue \in Seq(Requests) /\ Len(w.queue) \in Nat
           /\ DOMAIN w.queue = 1 .. Len(w.queue)
           /\ \A k \in 1 .. Len(w.queue) : /\ w.queue[k].kind \in {"write", "close"}
                                           /\ w.queue[k].id \in Nat /\ w.queue[k].size \in Nat
           /\ w.calls \in Seq(Calls) /\ Len(w.calls) \in Nat
           /\ \A i \in 1 .. Len(w.calls) :
                 w.calls[i].kind \in {"write", "close", "abort"} /\ w.calls[i].id \in Nat
           /\ w.answer \in Seq(Answers) /\ Len(w.answer) \in Nat
           /\ DOMAIN w.answer = 1 .. Len(w.answer)
           /\ \A i \in 1 .. Len(w.answer) : w.answer[i] \in Answers
           /\ w.active.id \in Nat /\ w.active.size \in Nat
           /\ w.active.kind \in {"none", "write", "close"}
           /\ w.active.kind = "none" => w.active = NoWrite
<1>1. w.queue \in Seq(Requests) /\ w.calls \in Seq(Calls) /\ w.answer \in Seq(Answers)
  BY DEF Writables
<1>2. \A k \in 1 .. Len(w.queue) : w.queue[k] \in Requests
  BY <1>1, ElementOfSeq
<1>3. \A i \in 1 .. Len(w.calls) : w.calls[i] \in Calls
  BY <1>1, ElementOfSeq
<1>4. \A i \in 1 .. Len(w.answer) : w.answer[i] \in Answers
  BY <1>1, ElementOfSeq
<1>5. /\ w.active.id \in Nat /\ w.active.size \in Nat
      /\ w.active.kind \in {"none", "write", "close"}
      /\ w.active.kind = "none" => w.active = NoWrite
  BY DEF Writables, Requests, NoWrite
<1>6. /\ Len(w.queue) \in Nat /\ DOMAIN w.queue = 1 .. Len(w.queue)
      /\ Len(w.answer) \in Nat /\ DOMAIN w.answer = 1 .. Len(w.answer)
      /\ Len(w.calls) \in Nat
  BY <1>1, LenProperties
<1>7. \A k \in 1 .. Len(w.queue) : /\ w.queue[k].kind \in {"write", "close"}
                                   /\ w.queue[k].id \in Nat /\ w.queue[k].size \in Nat
  BY <1>2 DEF Requests
<1>8. \A i \in 1 .. Len(w.calls) :
         w.calls[i].kind \in {"write", "close", "abort"} /\ w.calls[i].id \in Nat
  BY <1>3 DEF Calls
<1>. QED BY <1>1, <1>4, <1>5, <1>6, <1>7, <1>8

\* what a queue is when nothing is in it
LEMMA EmptyQueue == <<>> \in Seq(Requests) /\ Len(<<>>) = 0
BY EmptySeq

\* Answering touches nothing but the answers.
LEMMA AnsweredTells ==
    ASSUME NEW w \in Writables, NEW ids, NEW result \in Answers
    PROVE  LET y == Answered(w, ids, result)
           IN  y \in Writables /\ Tells(y, w, ids, result) /\ y = [w EXCEPT !.answer = y.answer]
<1>. DEFINE y == Answered(w, ids, result)
            a == [i \in DOMAIN w.answer |-> IF i \in ids THEN result ELSE w.answer[i]]
<1>1. w.answer \in Seq(Answers)
  BY DEF Writables
<1>2. /\ a \in Seq(Answers) /\ Len(a) = Len(w.answer)
      /\ \A i \in 1 .. Len(w.answer) : a[i] = IF i \in ids THEN result ELSE w.answer[i]
  <2>1. DOMAIN w.answer = 1 .. Len(w.answer) /\ Len(w.answer) \in Nat
    BY <1>1, LenProperties
  <2>2. \A i \in 1 .. Len(w.answer) : w.answer[i] \in Answers
    BY <1>1, ElementOfSeq
  <2>3. a \in [1 .. Len(w.answer) -> Answers]
    BY <2>1, <2>2
  <2>. QED BY <2>1, <2>2, <2>3, IsASeq
<1>3. y = [w EXCEPT !.answer = a]
  BY DEF Answered
<1>. HIDE DEF a
<1>4. y \in Writables /\ y.answer = a
  BY <1>2, <1>3 DEF Writables
<1>. QED BY <1>2, <1>3, <1>4 DEF Tells

\* The queue is rejected and emptied.
LEMMA RejectedTells ==
    ASSUME NEW w \in Writables
    PROVE  LET y == Rejected(w)
           IN  /\ y \in Writables /\ Tells(y, w, Queued(w.queue), "failed")
               /\ y = [w EXCEPT !.answer = y.answer, !.queue = <<>>, !.total = w.active.size,
                                !.ready = "rejected"]
<1>. DEFINE ids == {w.queue[i].id : i \in DOMAIN w.queue}
            a == Answered(w, ids, "failed")
            y == [a EXCEPT !.queue = <<>>, !.total = w.active.size, !.ready = "rejected"]
<1>1. Rejected(w) = y
  BY DEF Rejected
<1>2. ids = Queued(w.queue)
  BY WritableTypes DEF Queued
<1>. HIDE DEF ids
<1>3. a \in Writables /\ Tells(a, w, ids, "failed") /\ a = [w EXCEPT !.answer = a.answer]
  BY AnsweredTells DEF Answers
<1>. HIDE DEF a
<1>4. w.active.size \in Int
  BY WritableTypes
<1>5. /\ y \in Writables /\ y.answer = a.answer
      /\ y = [w EXCEPT !.answer = a.answer, !.queue = <<>>, !.total = w.active.size,
                       !.ready = "rejected"]
  <2>0. a \in Writables /\ <<>> \in Seq(Requests) /\ w.active.size \in Int
    BY <1>3, <1>4, EmptyQueue
  <2>1. y \in Writables
    BY ONLY <2>0 DEF Writables, y
  <2>2. y.answer = a.answer
    BY ONLY <2>0 DEF Writables, y
  <2>3. y = [w EXCEPT !.answer = a.answer, !.queue = <<>>, !.total = w.active.size,
                      !.ready = "rejected"]
    BY ONLY <1>3, w \in Writables DEF Writables, y
  <2>. QED BY <2>1, <2>2, <2>3
<1>. HIDE DEF y
<1>. QED BY <1>1, <1>2, <1>3, <1>5 DEF Tells

\* errorInternal, on a stream that was writable
ErrorTells(y, w) ==
    /\ y \in Writables /\ Tells(y, w, Queued(w.queue), "failed")
    /\ y = [w EXCEPT !.answer = y.answer, !.queue = <<>>, !.total = w.active.size,
                     !.ready = "rejected",
                     !.state = IF w.advancing = "no" THEN "errored" ELSE "erroring"]

\* errorInternal, from a stream that is writable
LEMMA ErrorWritableTells ==
    ASSUME NEW w \in Writables, w.state = "writable", w.errors = {}
    PROVE  ErrorTells(ErrorWritable(w), w)
<1>. DEFINE r == Rejected(w)
            e == [r EXCEPT !.state = "erroring"]
            f == Answered(e, e.errors, "failed")
            g == [f EXCEPT !.state = "errored", !.errors = {}]
<1>1. /\ r \in Writables /\ Tells(r, w, Queued(w.queue), "failed")
      /\ r = [w EXCEPT !.answer = r.answer, !.queue = <<>>, !.total = w.active.size,
                       !.ready = "rejected"]
  BY RejectedTells
<1>2. ErrorWritable(w) = IF w.advancing = "no" THEN FinishError(e) ELSE e
  BY DEF ErrorWritable
<1>. HIDE DEF r
<1>3. /\ e \in Writables /\ e.answer = r.answer /\ e.state = "erroring" /\ e.errors = {}
      /\ e = [w EXCEPT !.answer = r.answer, !.queue = <<>>, !.total = w.active.size,
                       !.ready = "rejected", !.state = "erroring"]
  BY <1>1 DEF Writables
<1>4. FinishError(e) = g
  BY <1>3 DEF FinishError
<1>. HIDE DEF e
<1>5. f \in Writables /\ Tells(f, e, e.errors, "failed") /\ f = [e EXCEPT !.answer = f.answer]
  BY <1>3, AnsweredTells DEF Answers
<1>. HIDE DEF f
<1>6. /\ g \in Writables /\ g.answer = f.answer
      /\ g = [w EXCEPT !.answer = g.answer, !.queue = <<>>, !.total = w.active.size,
                       !.ready = "rejected", !.state = "errored"]
  <2>1. /\ f = [w EXCEPT !.answer = f.answer, !.queue = <<>>, !.total = w.active.size,
                         !.ready = "rejected", !.state = "erroring"]
        /\ f \in Writables /\ f.errors = {}
    <3>1. f \in Writables /\ f = [e EXCEPT !.answer = f.answer] /\ e \in Writables
      BY <1>3, <1>5
    <3>2. f.errors = e.errors
      BY ONLY <3>1 DEF Writables
    <3>3. f = [w EXCEPT !.answer = f.answer, !.queue = <<>>, !.total = w.active.size,
                        !.ready = "rejected", !.state = "erroring"]
      <4>1. e = [w EXCEPT !.answer = r.answer, !.queue = <<>>, !.total = w.active.size,
                          !.ready = "rejected", !.state = "erroring"]
        BY <1>3
      <4>. QED BY ONLY <3>1, <4>1, w \in Writables DEF Writables
    <3>. QED BY <1>3, <3>1, <3>2, <3>3
  <2>2. g \in Writables /\ g.answer = f.answer
    BY <2>1 DEF Writables
  <2>3. g = [f EXCEPT !.state = "errored"]
    BY <2>1 DEF Writables
  <2>. HIDE DEF g
  <2>4. g = [w EXCEPT !.answer = g.answer, !.queue = <<>>, !.total = w.active.size,
                      !.ready = "rejected", !.state = "errored"]
    <3>1. f = [w EXCEPT !.answer = f.answer, !.queue = <<>>, !.total = w.active.size,
                        !.ready = "rejected", !.state = "erroring"]
      BY <2>1
    <3>. QED BY ONLY <2>2, <2>3, <3>1, w \in Writables DEF Writables
  <2>. QED BY <2>2, <2>4
<1>7. Tells(g, w, Queued(w.queue), "failed") /\ Tells(e, w, Queued(w.queue), "failed")
  BY <1>1, <1>3, <1>5, <1>6 DEF Tells
<1>. HIDE DEF g
<1>. QED BY <1>2, <1>3, <1>4, <1>6, <1>7 DEF ErrorTells

\* The queue is rejected: what the sink has is told as before.
LEMMA DroppedTold ==
    ASSUME NEW w, Kept(w), NEW y, Tells(y, w, Queued(w.queue), "failed"), NEW asked
    PROVE  /\ Told(y.answer, <<>>, w.calls, w.done, Waiters(w))
           /\ CallOrder(w.calls, <<>>, Len(y.answer)) /\ QueueOrder(<<>>, Len(y.answer), asked)
           /\ \A i \in 1 .. Len(y.answer) : y.answer[i] = "pending" =>
                 w.answer[i] = "pending" /\ ~ \E k \in 1 .. Len(w.queue) : w.queue[k].id = i
<1>. DEFINE n == Len(w.answer)
            q == w.queue
            c == w.calls
            a == w.answer
            b == y.answer
            d == w.done
<1>0. w \in Writables
  BY DEF Kept
<1>1. /\ Len(q) \in Nat /\ Len(c) \in Nat /\ n \in Nat
      /\ \A i \in 1 .. Len(c) : c[i].kind \in {"write", "close", "abort"} /\ c[i].id \in Nat
      /\ \A k \in 1 .. Len(q) : q[k].id \in Nat
  BY <1>0, WritableTypes
<1>2. CallOrder(c, q, n) /\ Told(a, q, c, d, Waiters(w))
  BY DEF Kept
<1>3. Len(b) = n /\ \A i \in 1 .. n : b[i] = IF i \in Queued(q) THEN "failed" ELSE a[i]
  BY DEF Tells
<1>4. Len(<<>>) = 0
  BY EmptyQueue
<1>. HIDE DEF n, q, c, a, b, d
<1>5. CallOrder(c, <<>>, n) /\ QueueOrder(<<>>, n, asked)
  BY <1>1, <1>2, <1>4 DEF CallOrder, QueueOrder
<1>6. \A i \in 1 .. Len(c) : c[i].id # 0 => c[i].id \in 1 .. n /\ b[c[i].id] = a[c[i].id]
  <2>. SUFFICES ASSUME NEW i \in 1 .. Len(c), c[i].id # 0
                PROVE  c[i].id \in 1 .. n /\ b[c[i].id] = a[c[i].id]
    OBVIOUS
  <2>1. c[i].id \in 1 .. n
    BY <1>1, <1>2 DEF CallOrder
  <2>2. \A k \in 1 .. Len(q) : c[i].id < q[k].id
    BY <1>2 DEF CallOrder
  <2>3. c[i].id \notin Queued(q)
    BY <1>1, <2>1, <2>2 DEF Queued
  <2>. QED BY <1>3, <2>1, <2>3
<1>7. Told(b, <<>>, c, d, Waiters(w))
  <2>1. \A i \in 1 .. Len(c) : c[i].id # 0 /\ b[c[i].id] = "ok" => c[i].id \in d
    BY <1>2, <1>6 DEF Told
  <2>2. ASSUME NEW id \in d
        PROVE  \E i \in 1 .. Len(c) :
                  c[i].id = id /\ id # 0 /\ b[id] # "pending" /\ (b[id] = "failed" => c[i].kind = "close")
    <3>1. PICK i \in 1 .. Len(c) :
             c[i].id = id /\ id # 0 /\ a[id] # "pending" /\ (a[id] = "failed" => c[i].kind = "close")
      BY <1>2 DEF Told
    <3>. QED BY <1>6, <3>1
  <2>3. \A x \in Waiters(w) : x <= Len(b) /\ \A i \in 1 .. Len(c) : c[i].id = x => x = 0
    <3>1. Len(b) = Len(a)
      BY <1>3 DEF n, a
    <3>. QED BY <1>2, <3>1 DEF Told
  <2>. QED BY <1>4, <2>1, <2>2, <2>3 DEF Told
<1>8. \A i \in 1 .. n : b[i] = "pending" =>
         a[i] = "pending" /\ ~ \E k \in 1 .. Len(q) : q[k].id = i
  BY <1>3 DEF Queued
<1>. QED BY <1>3, <1>5, <1>7, <1>8 DEF n, q, c, a, b, d

\* A failure of the sink or of the start: advanceQueue records it and ends.
LEMMA ErrorGoesOn ==
    ASSUME NEW w, Freed(w) PROVE GoesOn(ErrorWritable(w))
<1>1. CASE w.state # "writable"
  BY <1>1 DEF ErrorWritable, GoesOn, Gauged
<1>2. CASE w.state = "writable"
  <2>. DEFINE y == ErrorWritable(w)
  <2>1. w \in Writables /\ Kept(w) /\ w.errors = {} /\ w.aborts = {} /\ w.advancing # "no"
    BY <1>2 DEF Freed, Kept
  <2>2. ErrorTells(y, w)
    BY <1>2, <2>1, ErrorWritableTells
  <2>. HIDE DEF y
  <2>3. /\ y \in Writables /\ y.queue = <<>> /\ y.state = "erroring" /\ y.ready = "rejected"
        /\ y.calls = w.calls /\ y.done = w.done /\ y.aborts = {} /\ y.errors = {}
        /\ y.closes = w.closes /\ y.running = w.running /\ y.abortStarted = w.abortStarted
        /\ y.advancing = w.advancing /\ y.closeRequested = w.closeRequested
    BY <2>1, <2>2 DEF ErrorTells, Writables
  <2>4. Waiters(y) = Waiters(w)
    BY <2>1, <2>3 DEF Waiters
  <2>5. /\ Told(y.answer, <<>>, w.calls, w.done, Waiters(w))
        /\ CallOrder(w.calls, <<>>, Len(y.answer))
        /\ QueueOrder(<<>>, Len(y.answer), y.closeRequested)
        /\ \A i \in 1 .. Len(y.answer) : y.answer[i] = "pending" =>
              w.answer[i] = "pending" /\ ~ \E k \in 1 .. Len(w.queue) : w.queue[k].id = i
        /\ Len(y.answer) = Len(w.answer)
    <3>1. Tells(y, w, Queued(w.queue), "failed")
      BY <2>2 DEF ErrorTells
    <3>2. Len(y.answer) = Len(w.answer)
      BY <3>1 DEF Tells
    <3>. QED BY <2>1, <3>1, <3>2, DroppedTold
  <2>6. Kept(y)
    BY <2>3, <2>4, <2>5 DEF Kept
  <2>7. \A i \in 1 .. Len(y.answer) : y.answer[i] # "pending"
    BY <2>1, <2>5 DEF Freed
  <2>8. Freed(y)
    BY <2>3, <2>6, <2>7 DEF Freed
  <2>9. GoesOn(y)
    BY <2>3, <2>8 DEF GoesOn, Gauged
  <2>. QED BY <2>9 DEF y
<1>. QED BY <1>1, <1>2

\* The sink has been called for the request id.
CalledSink(y, w, kind, id) ==
    /\ y \in Writables
    /\ y = [w EXCEPT !.calls = y.calls, !.running = w.running \cup {kind}]
    /\ Len(y.calls) = Len(w.calls) + 1
    /\ y.calls[Len(w.calls) + 1] = [kind |-> kind, id |-> id]
    /\ \A i \in 1 .. Len(w.calls) : y.calls[i] = w.calls[i]

\* The sink is called once more.
LEMMA Called ==
    ASSUME NEW w \in Writables, NEW kind, kind \in {"write", "close", "abort"}, NEW id, id \in Nat
    PROVE  CalledSink(CallSink(w, kind, id), w, kind, id)
<1>. DEFINE call == [kind |-> kind, id |-> id]
            c == Append(w.calls, call)
            run == w.running \cup {kind}
            y == CallSink(w, kind, id)
<1>1. /\ c \in Seq(Calls) /\ Len(c) = Len(w.calls) + 1 /\ c[Len(w.calls) + 1] = call
      /\ \A i \in 1 .. Len(w.calls) : c[i] = w.calls[i]
  <2>1. w.calls \in Seq(Calls) /\ call \in Calls
    BY WritableTypes DEF Calls
  <2>. QED BY <2>1, AppendProperties
<1>2. y = [w EXCEPT !.calls = c, !.running = run]
  BY DEF CallSink
<1>3. run \in SUBSET {"write", "close", "abort"}
  BY DEF Writables
<1>. HIDE DEF c, run
<1>4. y \in Writables /\ y.calls = c
  <2>1. c \in Seq(Calls)
    BY <1>1
  <2>. DEFINE z == [w EXCEPT !.calls = c, !.running = run]
  <2>2. z \in Writables
    BY ONLY <1>3, <2>1, w \in Writables DEF Writables
  <2>3. z.calls = c
    BY ONLY w \in Writables DEF Writables
  <2>. QED BY <1>2, <2>2, <2>3
<1>. QED BY <1>1, <1>2, <1>4 DEF c, run, CalledSink

\* advanceQueue ends without another call.
LEMMA EndsQuiet ==
    ASSUME NEW w, GoesOn(w), w.state \in {"writable", "closed"},
           NEW e, e = [w EXCEPT !.active = NoWrite, !.advancing = "no"]
    PROVE  WritableInv(e)
<1>0. w \in Writables /\ Kept(w) /\ Freed(w)
  BY DEF GoesOn, Freed, Kept
<1>1. NoWrite.id = 0 /\ NoWrite.size = 0 /\ NoWrite.kind = "none"
  BY DEF NoWrite
<1>2. /\ e \in Writables /\ e.active = NoWrite /\ e.advancing = "no" /\ e.state = w.state
      /\ e.queue = w.queue /\ e.calls = w.calls /\ e.answer = w.answer /\ e.done = w.done
      /\ e.aborts = w.aborts /\ e.errors = w.errors /\ e.closes = w.closes
      /\ e.running = w.running /\ e.abortStarted = w.abortStarted /\ e.total = w.total
      /\ e.closeRequested = w.closeRequested /\ e.backpressure = w.backpressure
      /\ e.ready = w.ready
  BY <1>0 DEF Writables
<1>. HIDE DEF NoWrite
<1>3. Waiters(e) = Waiters(w)
  BY <1>2 DEF Waiters
<1>4. Kept(e)
  BY <1>0, <1>2, <1>3 DEF Kept
<1>5. Gauged(e)
  BY <1>2 DEF GoesOn, Gauged
<1>6. w.aborts = {} /\ w.errors = {} /\ (w.state = "closed" => w.queue = <<>>)
  BY <1>0 DEF Kept
<1>7. e.total = QueueSize(e.queue) + e.active.size
  <2>1. w.state = "closed" => QueueSize(w.queue) = 0 /\ w.total = 0
    BY <1>0, <1>6, EmptySize DEF Freed
  <2>2. w.state = "writable" => w.total = QueueSize(w.queue)
    BY DEF GoesOn
  <2>3. w.total \in Int
    BY <1>0 DEF Writables
  <2>. QED BY <1>1, <1>2, <2>1, <2>2, <2>3
<1>8. \A i \in 1 .. Len(e.answer) : e.answer[i] = "pending" =>
         \E k \in 1 .. Len(w.queue) : w.queue[k].id = i
  BY <1>0, <1>2, <1>6 DEF Freed
<1>9. Owed(e, {e.active.id} \cup {})
  BY <1>2, <1>8 DEF Owed
<1>10. EndAnswers(e, {})
  <2>1. w.state = "closed" => Len(w.queue) = 0
    BY <1>6, EmptyQueue
  <2>. QED BY <1>2, <1>8, <2>1 DEF EndAnswers, Over
<1>11. Works(e)
  BY <1>0, <1>1, <1>2, <1>7 DEF Works, Over, Freed, GoesOn
<1>. QED BY <1>4, <1>5, <1>9, <1>10, <1>11 DEF WritableInv, Asking

\* It ends with the error that was recorded.
LEMMA EndsErrored ==
    ASSUME NEW w, GoesOn(w), w.state = "erroring",
           NEW e, e = [w EXCEPT !.active = NoWrite, !.advancing = "no"]
    PROVE  WritableInv(FinishError(e))
<1>. DEFINE a == Answered(e, e.errors, "failed")
            y == [a EXCEPT !.state = "errored", !.errors = {}]
<1>0. w \in Writables /\ Kept(w) /\ Freed(w)
  BY DEF GoesOn, Freed, Kept
<1>1. NoWrite.id = 0 /\ NoWrite.size = 0 /\ NoWrite.kind = "none"
  BY DEF NoWrite
<1>2. /\ e \in Writables /\ e.state = "erroring" /\ e.errors = w.errors
      /\ e = [w EXCEPT !.active = NoWrite, !.advancing = "no"]
  BY <1>0 DEF Writables
<1>3. FinishError(e) = y
  BY <1>2 DEF FinishError
<1>4. a \in Writables /\ Tells(a, e, e.errors, "failed") /\ a = [e EXCEPT !.answer = a.answer]
  BY <1>2, AnsweredTells DEF Answers
<1>. HIDE DEF a
<1>5. Tells(a, w, w.errors, "failed")
  <2>1. e.answer = w.answer
    BY <1>0, <1>2 DEF Writables
  <2>. QED BY <1>2, <1>4, <2>1 DEF Tells
<1>6. /\ y \in Writables /\ y.active = NoWrite /\ y.advancing = "no" /\ y.state = "errored"
      /\ y.queue = w.queue /\ y.calls = w.calls /\ y.answer = a.answer /\ y.done = w.done
      /\ y.aborts = w.aborts /\ y.errors = {} /\ y.closes = w.closes
      /\ y.running = w.running /\ y.abortStarted = w.abortStarted
      /\ y.closeRequested = w.closeRequested /\ y.ready = w.ready
  <2>1. /\ y \in Writables /\ y.active = a.active /\ y.advancing = a.advancing
        /\ y.state = "errored" /\ y.errors = {}
        /\ y.queue = a.queue /\ y.calls = a.calls /\ y.answer = a.answer /\ y.done = a.done
        /\ y.aborts = a.aborts /\ y.closes = a.closes /\ y.running = a.running
        /\ y.abortStarted = a.abortStarted /\ y.closeRequested = a.closeRequested
        /\ y.ready = a.ready
    BY <1>4 DEF Writables
  <2>. HIDE DEF y
  <2>2. /\ a.active = e.active /\ a.advancing = e.advancing
        /\ a.queue = e.queue /\ a.calls = e.calls /\ a.done = e.done
        /\ a.aborts = e.aborts /\ a.closes = e.closes /\ a.running = e.running
        /\ a.abortStarted = e.abortStarted /\ a.closeRequested = e.closeRequested
        /\ a.ready = e.ready
    BY <1>2, <1>4 DEF Writables
  <2>3. /\ e.active = NoWrite /\ e.advancing = "no"
        /\ e.queue = w.queue /\ e.calls = w.calls /\ e.done = w.done
        /\ e.aborts = w.aborts /\ e.closes = w.closes /\ e.running = w.running
        /\ e.abortStarted = w.abortStarted /\ e.closeRequested = w.closeRequested
        /\ e.ready = w.ready
    BY <1>0, <1>2 DEF Writables
  <2>. QED BY <2>1, <2>2, <2>3
<1>. HIDE DEF NoWrite, y
<1>7. w.aborts = {} /\ w.queue = <<>> /\ w.ready = "rejected" /\ Len(<<>>) = 0
  BY <1>0, EmptyQueue DEF Kept
<1>8. Len(y.answer) = Len(w.answer)
      /\ \A i \in 1 .. Len(w.answer) : y.answer[i] = IF i \in w.errors THEN "failed" ELSE w.answer[i]
  BY <1>5, <1>6 DEF Tells
<1>9. Told(y.answer, y.queue, y.calls, y.done, Waiters(y))
  <2>1. Told(w.answer, <<>>, w.calls, w.done, Waiters(w)) /\ CallOrder(w.calls, <<>>, Len(w.answer))
    BY <1>0, <1>7 DEF Kept
  <2>2. /\ Len(w.calls) \in Nat
        /\ \A i \in 1 .. Len(w.calls) :
              w.calls[i].kind \in {"write", "close", "abort"} /\ w.calls[i].id \in Nat
    BY <1>0, WritableTypes
  <2>3. \A i \in 1 .. Len(w.calls) : w.calls[i].id # 0 =>
           w.calls[i].id \in 1 .. Len(w.answer) /\ w.calls[i].id \notin w.errors
    BY <2>1, <2>2 DEF CallOrder, Told, Waiters
  <2>4. \A i \in 1 .. Len(w.calls) : w.calls[i].id # 0 =>
           y.answer[w.calls[i].id] = w.answer[w.calls[i].id]
    BY <1>8, <2>3
  <2>5. \A x \in Waiters(y) : x \in Waiters(w)
    BY <1>6 DEF Waiters
  <2>6. ASSUME NEW id \in w.done
        PROVE  \E i \in 1 .. Len(w.calls) : /\ w.calls[i].id = id /\ id # 0 /\ y.answer[id] # "pending"
                                            /\ y.answer[id] = "failed" => w.calls[i].kind = "close"
    <3>1. PICK i \in 1 .. Len(w.calls) : /\ w.calls[i].id = id /\ id # 0 /\ w.answer[id] # "pending"
                                         /\ w.answer[id] = "failed" => w.calls[i].kind = "close"
      BY <2>1 DEF Told
    <3>. QED BY <2>4, <3>1
  <2>7. \A x \in Waiters(y) :
           x <= Len(y.answer) /\ \A i \in 1 .. Len(w.calls) : w.calls[i].id = x => x = 0
    BY <1>8, <2>1, <2>5 DEF Told
  <2>8. \A i \in 1 .. Len(w.calls) :
           w.calls[i].id # 0 /\ y.answer[w.calls[i].id] = "ok" => w.calls[i].id \in w.done
    BY <2>1, <2>4 DEF Told
  <2>. QED BY <1>6, <1>7, <2>6, <2>7, <2>8 DEF Told
<1>10. Kept(y)
  BY <1>0, <1>6, <1>7, <1>8, <1>9 DEF Kept
<1>11. \A i \in 1 .. Len(y.answer) : y.answer[i] # "pending"
  <2>1. \A i \in 1 .. Len(w.answer) : w.answer[i] = "pending" => i \in w.errors
    BY <1>0, <1>7 DEF Freed
  <2>. QED BY <1>8, <2>1
<1>12. Gauged(y) /\ Owed(y, {y.active.id} \cup {}) /\ EndAnswers(y, {})
  BY <1>6, <1>11 DEF Gauged, Owed, EndAnswers
<1>13. Works(y)
  BY <1>0, <1>1, <1>6, <1>11 DEF Works, Over, Freed
<1>14. WritableInv(y)
  BY <1>10, <1>12, <1>13 DEF WritableInv, Asking
<1>. QED BY <1>3, <1>14

\* It ends with the call of the sink's abort.
LEMMA EndsAborting ==
    ASSUME NEW w, GoesOn(w), w.state = "aborting",
           NEW e, e = [w EXCEPT !.active = NoWrite, !.advancing = "no"]
    PROVE  WritableInv(FinishAbort(e))
<1>. DEFINE f == [e EXCEPT !.abortStarted = TRUE]
            y == CallSink(f, "abort", 0)
<1>0. w \in Writables /\ Kept(w) /\ Freed(w)
  BY DEF GoesOn, Freed, Kept
<1>1. NoWrite.id = 0 /\ NoWrite.size = 0 /\ NoWrite.kind = "none"
  BY DEF NoWrite
<1>2. /\ f \in Writables /\ f.active = NoWrite /\ f.advancing = "no" /\ f.state = "aborting"
      /\ f.queue = w.queue /\ f.calls = w.calls /\ f.answer = w.answer /\ f.done = w.done
      /\ f.aborts = w.aborts /\ f.errors = w.errors /\ f.closes = w.closes
      /\ f.running = w.running /\ f.abortStarted = TRUE /\ f.total = w.total
      /\ f.closeRequested = w.closeRequested /\ f.ready = w.ready
      /\ e.abortStarted = FALSE /\ e.state = "aborting"
  BY <1>0 DEF Writables, Freed
<1>3. FinishAbort(e) = y
  BY <1>2 DEF FinishAbort
<1>. HIDE DEF f
<1>4. /\ y \in Writables /\ y = [f EXCEPT !.calls = y.calls, !.running = f.running \cup {"abort"}]
      /\ Len(y.calls) = Len(w.calls) + 1
      /\ y.calls[Len(w.calls) + 1] = [kind |-> "abort", id |-> 0]
      /\ \A i \in 1 .. Len(w.calls) : y.calls[i] = w.calls[i]
  <2>1. CalledSink(y, f, "abort", 0)
    <3>1. f \in Writables
      BY <1>2
    <3>2. "abort" \in {"write", "close", "abort"} /\ 0 \in Nat
      OBVIOUS
    <3>. QED BY ONLY <3>1, <3>2, Called
  <2>. HIDE DEF y
  <2>2. /\ y \in Writables /\ y = [f EXCEPT !.calls = y.calls, !.running = f.running \cup {"abort"}]
        /\ Len(y.calls) = Len(f.calls) + 1
        /\ y.calls[Len(f.calls) + 1] = [kind |-> "abort", id |-> 0]
        /\ \A i \in 1 .. Len(f.calls) : y.calls[i] = f.calls[i]
    BY <2>1 DEF CalledSink
  <2>. QED BY <1>2, <2>2
<1>. HIDE DEF y, NoWrite
<1>5. /\ y.active = NoWrite /\ y.advancing = "no" /\ y.state = "aborting"
      /\ y.queue = w.queue /\ y.answer = w.answer /\ y.done = w.done
      /\ y.aborts = w.aborts /\ y.errors = w.errors /\ y.closes = w.closes
      /\ y.running = w.running \cup {"abort"} /\ y.abortStarted = TRUE /\ y.total = w.total
      /\ y.closeRequested = w.closeRequested /\ y.ready = w.ready
  <2>1. /\ y.active = f.active /\ y.advancing = f.advancing /\ y.state = f.state
        /\ y.queue = f.queue /\ y.answer = f.answer /\ y.done = f.done
        /\ y.aborts = f.aborts /\ y.errors = f.errors /\ y.closes = f.closes
        /\ y.running = f.running \cup {"abort"} /\ y.abortStarted = f.abortStarted
        /\ y.total = f.total /\ y.closeRequested = f.closeRequested /\ y.ready = f.ready
    <3>1. y = [f EXCEPT !.calls = y.calls, !.running = f.running \cup {"abort"}] /\ f \in Writables
      BY <1>2, <1>4
    <3>. QED BY ONLY <3>1 DEF Writables
  <2>. QED BY <1>2, <2>1
<1>6. /\ w.queue = <<>> /\ w.errors = {} /\ w.ready = "rejected" /\ Len(<<>>) = 0
      /\ w.closes = {} /\ w.running = {}
  BY <1>0, EmptyQueue DEF Kept, Freed
<1>7. /\ Len(w.calls) \in Nat /\ Len(w.answer) \in Nat
      /\ \A i \in 1 .. Len(w.calls) : w.calls[i].kind = "write" /\ w.calls[i].id \in Nat
  BY <1>0, WritableTypes DEF Freed
<1>8. Waiters(y) = Waiters(w)
  BY <1>5 DEF Waiters
<1>9. CallOrder(y.calls, <<>>, Len(w.answer))
  <2>1. CallOrder(w.calls, <<>>, Len(w.answer))
    BY <1>0, <1>6 DEF Kept
  <2>2. ASSUME NEW i \in 1 .. Len(y.calls)
        PROVE  \/ i \in 1 .. Len(w.calls) /\ y.calls[i] = w.calls[i]
               \/ i = Len(w.calls) + 1 /\ y.calls[i].kind = "abort" /\ y.calls[i].id = 0
    BY <1>4, <1>7
  <2>3. \A i \in 1 .. Len(y.calls) :
           IF y.calls[i].kind = "abort" THEN y.calls[i].id = 0 ELSE y.calls[i].id \in 1 .. Len(w.answer)
    BY <2>1, <2>2 DEF CallOrder
  <2>4. \A i, j \in 1 .. Len(y.calls) :
          i < j => /\ y.calls[i].kind = "write"
                   /\ y.calls[j].kind # "abort" => y.calls[i].id < y.calls[j].id
    <3>. SUFFICES ASSUME NEW i \in 1 .. Len(y.calls), NEW j \in 1 .. Len(y.calls), i < j
                  PROVE  /\ y.calls[i].kind = "write"
                         /\ y.calls[j].kind # "abort" => y.calls[i].id < y.calls[j].id
      OBVIOUS
    <3>1. i \in 1 .. Len(w.calls) /\ y.calls[i] = w.calls[i]
      BY <1>4, <1>7
    <3>2. CASE j \in 1 .. Len(w.calls)
      BY <1>4, <2>1, <3>1, <3>2 DEF CallOrder
    <3>3. CASE j \notin 1 .. Len(w.calls)
      BY <1>7, <2>2, <3>1, <3>3
    <3>. QED BY <3>2, <3>3
  <2>. QED BY <1>6, <2>3, <2>4 DEF CallOrder
<1>10. Told(y.answer, y.queue, y.calls, y.done, Waiters(y))
  <2>1. Told(w.answer, w.queue, w.calls, w.done, Waiters(w))
    BY <1>0 DEF Kept
  <2>2. ASSUME NEW i \in 1 .. Len(y.calls)
        PROVE  \/ i \in 1 .. Len(w.calls) /\ y.calls[i] = w.calls[i]
               \/ y.calls[i].id = 0
    BY <1>4, <1>7
  <2>3. \A i \in 1 .. Len(w.calls) : i \in 1 .. Len(y.calls)
    BY <1>4, <1>7
  <2>4. ASSUME NEW id \in y.done
        PROVE  \E i \in 1 .. Len(y.calls) : /\ y.calls[i].id = id /\ id # 0 /\ y.answer[id] # "pending"
                                            /\ y.answer[id] = "failed" => y.calls[i].kind = "close"
    <3>1. PICK i \in 1 .. Len(w.calls) : /\ w.calls[i].id = id /\ id # 0 /\ w.answer[id] # "pending"
                                         /\ w.answer[id] = "failed" => w.calls[i].kind = "close"
      BY <1>5, <2>1 DEF Told
    <3>. QED BY <1>4, <1>5, <2>3, <3>1
  <2>5. \A x \in Waiters(y) :
           x <= Len(y.answer) /\ \A i \in 1 .. Len(y.calls) : y.calls[i].id = x => x = 0
    BY <1>5, <1>8, <2>1, <2>2 DEF Told
  <2>6. \A i \in 1 .. Len(y.calls) :
           y.calls[i].id # 0 /\ y.answer[y.calls[i].id] = "ok" => y.calls[i].id \in y.done
    BY <1>5, <2>1, <2>2 DEF Told
  <2>. QED BY <1>5, <1>6, <2>4, <2>5, <2>6 DEF Told
<1>11. Kept(y)
  <2>1. QueueOrder(y.queue, Len(y.answer), y.closeRequested)
    BY <1>0, <1>5 DEF Kept
  <2>. QED BY <1>4, <1>5, <1>6, <1>9, <1>10, <2>1 DEF Kept
<1>12. Gauged(y) /\ EndAnswers(y, {})
  BY <1>5 DEF Gauged, EndAnswers, Over
<1>13. Owed(y, {y.active.id} \cup {})
  BY <1>0, <1>5, <1>6 DEF Freed, Owed, Waiters
<1>14. Works(y)
  <2>1. \A i \in 1 .. Len(y.calls) : y.calls[i].kind = "write" \/ y.calls[i].kind = "abort"
    BY <1>4, <1>7
  <2>2. y.total = QueueSize(y.queue) + y.active.size
    BY <1>0, <1>1, <1>5, <1>6, EmptySize DEF Freed
  <2>. QED BY <1>1, <1>5, <1>6, <2>1, <2>2 DEF Works, Over
<1>. QED BY <1>3, <1>11, <1>12, <1>13, <1>14 DEF WritableInv, Asking

\* advanceQueue ends, in whatever state.
LEMMA EndsInv ==
    ASSUME NEW w, GoesOn(w) PROVE WritableInv(AdvanceEnds(w))
<1>. DEFINE e == [w EXCEPT !.active = NoWrite, !.advancing = "no"]
<1>1. /\ w \in Writables /\ w.state # "errored"
      /\ w.state \in {"writable", "closed", "errored", "aborting", "erroring"}
  BY DEF GoesOn, Freed, Kept, Writables
<1>2. e.state = w.state
  BY <1>1 DEF Writables
<1>3. AdvanceEnds(w) = IF w.state = "aborting" THEN FinishAbort(e) ELSE FinishError(e)
  BY DEF AdvanceEnds
<1>4. w.state \in {"writable", "closed"} => FinishError(e) = e
  BY <1>2 DEF FinishError
<1>5. w.state \in {"writable", "closed"} => WritableInv(e)
  BY EndsQuiet
<1>6. w.state = "erroring" => WritableInv(FinishError(e))
  BY EndsErrored
<1>7. w.state = "aborting" => WritableInv(FinishAbort(e))
  BY EndsAborting
<1>. HIDE DEF e
<1>. QED BY <1>1, <1>3, <1>4, <1>5, <1>6, <1>7

\* advanceQueue gives the next request to the sink.
LEMMA NextInv ==
    ASSUME NEW w, GoesOn(w), w.state = "writable", w.queue # <<>>
    PROVE  WritableInv(AdvanceLoop(w))
<1>. DEFINE next == Head(w.queue)
            q == Tail(w.queue)
            e == [w EXCEPT !.queue = q, !.active = next, !.advancing = "sink"]
            y == CallSink(e, next.kind, next.id)
            n == Len(w.calls) + 1
<1>0. w \in Writables /\ Kept(w) /\ Freed(w)
  BY DEF GoesOn, Freed, Kept
<1>1. /\ Len(w.queue) \in Nat \ {0} /\ next = w.queue[1] /\ q \in Seq(Requests)
      /\ Len(q) = Len(w.queue) - 1 /\ \A k \in 1 .. Len(q) : q[k] = w.queue[k + 1]
      /\ next \in Requests
  BY <1>0, WritableTypes, HeadTailProperties, EmptySeq, LenProperties, ElementOfSeq
<1>2. QueueSize(w.queue) = QueueSize(q) + next.size
  <2>1. w.queue \in Seq(Requests) /\ \A x \in Requests : x.size \in Nat
    BY <1>0, WritableTypes DEF Requests
  <2>. QED BY <2>1, HeadSize
<1>3. AdvanceLoop(w) = y
  BY DEF AdvanceLoop
<1>4. /\ Len(w.calls) \in Nat /\ Len(w.answer) \in Nat
      /\ \A i \in 1 .. Len(w.calls) : w.calls[i].kind \in {"write", "close", "abort"}
                                      /\ w.calls[i].id \in Nat
      /\ \A k \in 1 .. Len(w.queue) : w.queue[k].id \in Nat
  BY <1>0, WritableTypes
<1>. HIDE DEF next, q
<1>5. /\ next.kind \in {"write", "close"} /\ next.id \in Nat /\ next.size \in Nat
      /\ next # NoWrite
  BY <1>1 DEF Requests, NoWrite
<1>6. /\ e \in Writables /\ e.queue = q /\ e.active = next /\ e.advancing = "sink"
      /\ e.state = "writable" /\ e.calls = w.calls /\ e.answer = w.answer /\ e.done = w.done
      /\ e.aborts = w.aborts /\ e.errors = w.errors /\ e.closes = w.closes
      /\ e.running = {} /\ e.abortStarted = w.abortStarted /\ e.total = w.total
      /\ e.closeRequested = w.closeRequested /\ e.backpressure = w.backpressure
      /\ e.ready = w.ready
  BY <1>0, <1>1 DEF Writables, Freed
<1>. HIDE DEF e
<1>7. /\ y \in Writables /\ y = [e EXCEPT !.calls = y.calls, !.running = e.running \cup {next.kind}]
      /\ Len(y.calls) = n /\ y.calls[n] = [kind |-> next.kind, id |-> next.id]
      /\ \A i \in 1 .. Len(w.calls) : y.calls[i] = w.calls[i]
  <2>1. CalledSink(y, e, next.kind, next.id)
    <3>1. e \in Writables /\ next.kind \in {"write", "close", "abort"} /\ next.id \in Nat
      BY <1>5, <1>6
    <3>. QED BY ONLY <3>1, Called
  <2>. HIDE DEF y
  <2>. QED BY <1>6, <2>1 DEF CalledSink
<1>. HIDE DEF y
<1>8. /\ y.queue = q /\ y.active = next /\ y.advancing = "sink"
      /\ y.state = "writable" /\ y.answer = w.answer /\ y.done = w.done
      /\ y.aborts = w.aborts /\ y.errors = w.errors /\ y.closes = w.closes
      /\ y.running = {next.kind} /\ y.abortStarted = w.abortStarted /\ y.total = w.total
      /\ y.closeRequested = w.closeRequested /\ y.backpressure = w.backpressure
      /\ y.ready = w.ready
  <2>1. /\ y.queue = e.queue /\ y.active = e.active /\ y.advancing = e.advancing
        /\ y.state = e.state /\ y.answer = e.answer /\ y.done = e.done
        /\ y.aborts = e.aborts /\ y.errors = e.errors /\ y.closes = e.closes
        /\ y.running = e.running \cup {next.kind} /\ y.abortStarted = e.abortStarted
        /\ y.total = e.total /\ y.closeRequested = e.closeRequested
        /\ y.backpressure = e.backpressure /\ y.ready = e.ready
    <3>1. y = [e EXCEPT !.calls = y.calls, !.running = e.running \cup {next.kind}] /\ e \in Writables
      BY <1>6, <1>7
    <3>. QED BY ONLY <3>1 DEF Writables
  <2>. QED BY <1>6, <2>1
<1>. HIDE DEF NoWrite
<1>9. w.aborts = {} /\ w.errors = {} /\ w.closes = {} /\ Waiters(y) = Waiters(w) /\ w.abortStarted = FALSE
  BY <1>0, <1>8 DEF Kept, GoesOn, Freed, Waiters, Writables
<1>10. \A i \in 1 .. Len(w.calls) : w.calls[i].kind = "write"
  BY <1>4 DEF GoesOn, Freed
<1>11. /\ QueueOrder(w.queue, Len(w.answer), w.closeRequested)
       /\ CallOrder(w.calls, w.queue, Len(w.answer))
       /\ Told(w.answer, w.queue, w.calls, w.done, Waiters(w))
  BY <1>0 DEF Kept
<1>12. 1 \in 1 .. Len(w.queue) /\ \A k \in 1 .. Len(q) : k + 1 \in 1 .. Len(w.queue) /\ 1 < k + 1
  BY <1>1
<1>13. /\ next.id \in 1 .. Len(w.answer) /\ w.answer[next.id] = "pending"
       /\ next.kind = "close" => next.size = 0 /\ w.closeRequested /\ Len(q) = 0
       /\ \A k \in 1 .. Len(q) : next.id < q[k].id
       /\ \A i \in 1 .. Len(w.calls) : w.calls[i].id < next.id
  <2>1. next.id \in 1 .. Len(w.answer) /\ (next.kind = "close" => next.size = 0 /\ w.closeRequested)
    BY <1>1, <1>11, <1>12 DEF QueueOrder
  <2>2. w.answer[next.id] = "pending"
    BY <1>1, <1>11, <1>12 DEF Told
  <2>3. \A k \in 1 .. Len(q) : next.kind = "write" /\ next.id < q[k].id
    BY <1>1, <1>11, <1>12 DEF QueueOrder
  <2>4. \A i \in 1 .. Len(w.calls) : w.calls[i].id < next.id
    BY <1>1, <1>11, <1>12 DEF CallOrder
  <2>5. next.kind = "close" => Len(q) = 0
    <3>1. Len(q) \in Nat
      BY <1>1, LenProperties
    <3>2. ASSUME Len(q) # 0, next.kind = "close" PROVE FALSE
      <4>1. 1 \in 1 .. Len(q)
        BY <3>1, <3>2
      <4>. QED BY <2>3, <3>2, <4>1
    <3>. QED BY <3>2
  <2>. QED BY <2>1, <2>2, <2>3, <2>4, <2>5
<1>14. QueueOrder(q, Len(w.answer), w.closeRequested)
  <2>1. \A j, k \in 1 .. Len(q) : j < k => j + 1 < k + 1
    BY <1>1
  <2>2. ASSUME NEW k \in 1 .. Len(q)
        PROVE  /\ q[k].id \in 1 .. Len(w.answer)
               /\ q[k].kind = "close" => q[k].size = 0 /\ w.closeRequested
    <3>1. q[k] = w.queue[k + 1] /\ k + 1 \in 1 .. Len(w.queue)
      BY <1>1, <1>12
    <3>. QED BY <1>11, <3>1 DEF QueueOrder
  <2>3. ASSUME NEW j \in 1 .. Len(q), NEW k \in 1 .. Len(q), j < k
        PROVE  q[j].kind = "write" /\ q[j].id < q[k].id
    <3>1. /\ q[j] = w.queue[j + 1] /\ j + 1 \in 1 .. Len(w.queue)
          /\ q[k] = w.queue[k + 1] /\ k + 1 \in 1 .. Len(w.queue)
      BY <1>1, <1>12
    <3>2. j + 1 < k + 1
      BY <2>1, <2>3
    <3>. QED BY <1>11, <3>1, <3>2 DEF QueueOrder
  <2>. QED BY <2>2, <2>3 DEF QueueOrder
<1>15. ASSUME NEW i \in 1 .. Len(y.calls)
       PROVE  \/ i \in 1 .. Len(w.calls) /\ y.calls[i] = w.calls[i]
              \/ i = n /\ y.calls[i].kind = next.kind /\ y.calls[i].id = next.id
  BY <1>4, <1>7
<1>16. CallOrder(y.calls, q, Len(w.answer))
  <2>1. \A i \in 1 .. Len(y.calls) :
           IF y.calls[i].kind = "abort" THEN y.calls[i].id = 0 ELSE y.calls[i].id \in 1 .. Len(w.answer)
    BY <1>5, <1>11, <1>13, <1>15 DEF CallOrder
  <2>2. \A i, j \in 1 .. Len(y.calls) :
          i < j => /\ y.calls[i].kind = "write"
                   /\ y.calls[j].kind # "abort" => y.calls[i].id < y.calls[j].id
    <3>. SUFFICES ASSUME NEW i \in 1 .. Len(y.calls), NEW j \in 1 .. Len(y.calls), i < j
                  PROVE  y.calls[i].kind = "write" /\ y.calls[i].id < y.calls[j].id
      OBVIOUS
    <3>1. i \in 1 .. Len(w.calls) /\ y.calls[i] = w.calls[i]
      BY <1>4, <1>7
    <3>2. CASE j \in 1 .. Len(w.calls)
      <4>1. y.calls[j] = w.calls[j] /\ w.calls[j].kind # "abort" /\ w.calls[i].kind = "write"
        BY <1>7, <1>10, <3>1, <3>2
      <4>. QED BY <1>11, <3>1, <3>2, <4>1 DEF CallOrder
    <3>3. CASE j \notin 1 .. Len(w.calls)
      BY <1>10, <1>13, <1>15, <3>1, <3>3
    <3>. QED BY <3>2, <3>3
  <2>3. ASSUME NEW i \in 1 .. Len(y.calls), NEW k \in 1 .. Len(q) PROVE y.calls[i].id < q[k].id
    <3>1. q[k] = w.queue[k + 1] /\ k + 1 \in 1 .. Len(w.queue)
      BY <1>1, <1>12
    <3>2. CASE i \in 1 .. Len(w.calls) /\ y.calls[i] = w.calls[i]
      BY <1>11, <3>1, <3>2 DEF CallOrder
    <3>3. CASE i = n /\ y.calls[i].id = next.id
      BY <1>13, <3>3
    <3>. QED BY <1>15, <3>2, <3>3
  <2>. QED BY <2>1, <2>2, <2>3 DEF CallOrder
<1>17. Told(w.answer, q, y.calls, w.done, Waiters(w))
  <2>1. ASSUME NEW k \in 1 .. Len(q) PROVE w.answer[q[k].id] = "pending"
    <3>1. q[k] = w.queue[k + 1] /\ k + 1 \in 1 .. Len(w.queue)
      BY <1>1, <1>12
    <3>. QED BY <1>11, <3>1 DEF Told
  <2>2. \A i \in 1 .. Len(y.calls) :
           y.calls[i].id # 0 /\ w.answer[y.calls[i].id] = "ok" => y.calls[i].id \in w.done
    BY <1>11, <1>13, <1>15 DEF Told
  <2>3. ASSUME NEW id \in w.done
        PROVE  \E i \in 1 .. Len(y.calls) : /\ y.calls[i].id = id /\ id # 0 /\ w.answer[id] # "pending"
                                            /\ w.answer[id] = "failed" => y.calls[i].kind = "close"
    <3>1. PICK i \in 1 .. Len(w.calls) : /\ w.calls[i].id = id /\ id # 0 /\ w.answer[id] # "pending"
                                         /\ w.answer[id] = "failed" => w.calls[i].kind = "close"
      BY <1>11 DEF Told
    <3>2. i \in 1 .. Len(y.calls) /\ y.calls[i] = w.calls[i]
      BY <1>4, <1>7
    <3>. QED BY <3>1, <3>2
  <2>4. Waiters(w) = {}
    BY <1>9 DEF Waiters
  <2>. QED BY <2>1, <2>2, <2>3, <2>4 DEF Told
<1>18. Kept(y) /\ Gauged(y) /\ EndAnswers(y, {})
  BY <1>7, <1>8, <1>9, <1>14, <1>16, <1>17 DEF Kept, GoesOn, Gauged, EndAnswers, Over
<1>19. Owed(y, {y.active.id} \cup {})
  <2>. SUFFICES ASSUME NEW i \in 1 .. Len(w.answer), w.answer[i] = "pending", i # next.id
                PROVE  \E k \in 1 .. Len(q) : q[k].id = i
    BY <1>8 DEF Owed
  <2>1. PICK k \in 1 .. Len(w.queue) : w.queue[k].id = i
    BY <1>0, <1>9 DEF Freed
  <2>2. k # 1 /\ k - 1 \in 1 .. Len(q) /\ q[k - 1] = w.queue[k]
    <3>1. k # 1
      BY <1>1, <2>1
    <3>2. k - 1 \in 1 .. Len(q) /\ (k - 1) + 1 = k
      BY <1>1, <3>1
    <3>. QED BY <1>1, <3>1, <3>2
  <2>. QED BY <2>1, <2>2
<1>20. Works(y)
  <2>1. y.calls # <<>> /\ y.calls[Len(y.calls)] = [kind |-> y.active.kind, id |-> y.active.id]
    BY <1>4, <1>7, <1>8, EmptyQueue
  <2>2. y.active.id # 0 /\ y.answer[y.active.id] = "pending"
    BY <1>8, <1>13
  <2>3. y.active.kind = "close" => y.queue = <<>> /\ y.active.size = 0 /\ y.closeRequested
    BY <1>1, <1>8, <1>13, EmptySeq
  <2>4. \A i \in 1 .. Len(y.calls) :
          y.calls[i].kind # "abort" /\ (y.calls[i].kind = "close" => y.active.kind = "close")
    BY <1>5, <1>8, <1>10, <1>15
  <2>5. w.total = QueueSize(q) + next.size
    BY <1>2 DEF GoesOn
  <2>6. "abort" \notin y.running /\ y.running = {y.active.kind}
    BY <1>5, <1>8
  <2>. QED BY <1>5, <1>8, <1>9, <2>1, <2>2, <2>3, <2>4, <2>5, <2>6 DEF Works, Over
<1>. QED BY <1>3, <1>18, <1>19, <1>20 DEF WritableInv, Asking

\* advanceQueue calls the sink or ends.
LEMMA LoopInv ==
    ASSUME NEW w, GoesOn(w) PROVE WritableInv(AdvanceLoop(w))
<1>1. CASE w.state = "writable" /\ w.queue # <<>>
  BY <1>1, NextInv
<1>2. CASE ~(w.state = "writable" /\ w.queue # <<>>)
  BY <1>2, EndsInv DEF AdvanceLoop
<1>. QED BY <1>1, <1>2

\* advanceQueue goes on behind the start.
LEMMA ResumedInv ==
    ASSUME NEW w, WritableInv(w), w.advancing = "start" PROVE WritableInv(AdvanceResumed(w))
<1>1. w \in Writables /\ Kept(w) /\ Works(w) /\ Gauged(w) /\ w.active = NoWrite
  BY DEF WritableInv, Asking, Kept, Works
<1>2. NoWrite.id = 0 /\ NoWrite.size = 0 /\ NoWrite.kind = "none"
  BY DEF NoWrite
<1>3. ~w.abortStarted /\ "abort" \notin w.running /\ ~Over(w)
  BY <1>1 DEF Works
<1>4. w.running = {} /\ w.closes = {}
  BY <1>1, <1>2, <1>3 DEF Works
<1>5. \A i \in 1 .. Len(w.calls) : w.calls[i].kind # "abort" /\ w.calls[i].kind # "close"
  BY <1>1, <1>2, <1>3 DEF Works
<1>6. \A i \in 1 .. Len(w.answer) : w.answer[i] = "pending" =>
         i \in w.aborts \cup w.errors \/ \E k \in 1 .. Len(w.queue) : w.queue[k].id = i
  BY <1>1, <1>2, <1>4 DEF WritableInv, Asking, Owed, Waiters
<1>7. w.total = QueueSize(w.queue)
  <2>1. w.total = QueueSize(w.queue) + w.active.size
    BY <1>1, <1>3 DEF Works, Over
  <2>2. QueueSize(w.queue) \in Nat
    <3>1. w.queue \in Seq(Requests) /\ \A x \in Requests : x.size \in Nat
      BY <1>1, WritableTypes DEF Requests
    <3>. QED BY <3>1, SizeIsNat
  <2>. QED BY <1>1, <1>2, <2>1, <2>2
<1>8. w.state = "aborting" => w.total = 0
  BY <1>1, <1>7, EmptySize DEF Kept
<1>9. Freed(w)
  BY <1>1, <1>3, <1>4, <1>5, <1>6, <1>8 DEF Freed, Over
<1>10. GoesOn(w)
  BY <1>1, <1>4, <1>5, <1>7, <1>9 DEF GoesOn
<1>11. CASE w.start = "ok"
  BY <1>10, <1>11, LoopInv DEF AdvanceResumed
<1>12. CASE w.start # "ok"
  <2>1. WritableInv(AdvanceEnds(ErrorWritable(w)))
    BY <1>9, ErrorGoesOn, EndsInv
  <2>. QED BY <1>12, <2>1 DEF AdvanceResumed
<1>. QED BY <1>11, <1>12

\* The sink is done with the active request, and its promise is answered.
SinkDone(z, w, result) ==
    /\ z \in Writables /\ Tells(z, w, {w.active.id} \cup w.closes, result)
    /\ z = [w EXCEPT !.answer = z.answer, !.running = {}, !.done = z.done,
                     !.total = w.total - w.active.size]
    /\ z.done \in {w.done, w.done \cup {w.active.id}}
    /\ result = "ok" => w.active.id \in z.done
    /\ result = "failed" /\ w.active.kind # "close" => z.done = w.done

\* The sink has told how its work ended.
LEMMA DoneIsFreed ==
    ASSUME NEW w, WritableInv(w), w.advancing = "sink",
           NEW result \in {"ok", "failed"}, NEW z, SinkDone(z, w, result)
    PROVE  /\ Freed(z) /\ z.total = QueueSize(w.queue)
           /\ w.active.kind = "write" =>
                 w.closes = {} /\ \A i \in 1 .. Len(w.calls) : w.calls[i].kind # "close"
<1>. DEFINE id == w.active.id
            c == w.calls
            n == Len(w.answer)
<1>1. w \in Writables /\ Kept(w) /\ Works(w) /\ w.active # NoWrite
  BY DEF WritableInv, Asking, Kept, Works
<1>2. w.active.kind \in {"write", "close"} /\ w.active.size \in Nat /\ id \in Nat
  BY <1>1, WritableTypes
<1>3. /\ z.queue = w.queue /\ z.calls = w.calls /\ z.state = w.state /\ z.aborts = w.aborts
      /\ z.errors = w.errors /\ z.closes = w.closes /\ z.running = {} /\ z.advancing = "sink"
      /\ z.abortStarted = w.abortStarted /\ z.closeRequested = w.closeRequested
      /\ z.ready = w.ready /\ z.total = w.total - w.active.size
  BY <1>1 DEF SinkDone, Writables
<1>4. ~w.abortStarted /\ ~Over(w) /\ id # 0 /\ w.answer[id] = "pending" /\ Len(c) \in Nat \ {0}
  <2>1. w.calls # <<>>
    BY <1>1 DEF Works
  <2>2. w.calls \in Seq(Calls)
    BY <1>1, WritableTypes
  <2>3. Len(c) \in Nat \ {0}
    BY <2>1, <2>2, EmptySeq, LenProperties
  <2>. QED BY <1>1, <2>3 DEF Works
<1>5. c[Len(c)].kind = w.active.kind /\ c[Len(c)].id = id /\ Len(c) \in 1 .. Len(c)
  BY <1>1, <1>4 DEF Works
<1>6. /\ CallOrder(c, w.queue, n) /\ Told(w.answer, w.queue, c, w.done, Waiters(w))
      /\ QueueOrder(w.queue, n, w.closeRequested)
  BY <1>1 DEF Kept
<1>7. /\ n \in Nat /\ \A i \in 1 .. Len(c) : c[i].kind \in {"write", "close", "abort"} /\ c[i].id \in Nat
      /\ Len(w.queue) \in Nat /\ \A k \in 1 .. Len(w.queue) : w.queue[k].id \in Nat
  BY <1>1, WritableTypes
<1>8. Len(z.answer) = n
      /\ \A i \in 1 .. n : z.answer[i] = IF i \in {id} \cup w.closes THEN result ELSE w.answer[i]
  BY DEF SinkDone, Tells
<1>9. id \in 1 .. n
  BY <1>2, <1>5, <1>6 DEF CallOrder
<1>10. w.closes \subseteq Waiters(w) /\ Waiters(z) = Waiters(w)
  BY <1>3 DEF Waiters
<1>11. ASSUME NEW i \in 1 .. Len(c), c[i].id # 0
       PROVE  /\ c[i].id \in 1 .. n
              /\ c[i].id # id => z.answer[c[i].id] = w.answer[c[i].id]
              /\ c[i].id = id => z.answer[id] = result
  <2>1. c[i].id \in 1 .. n
    BY <1>6, <1>7, <1>11 DEF CallOrder
  <2>2. c[i].id \notin w.closes
    BY <1>6, <1>10, <1>11 DEF Told
  <2>. QED BY <1>8, <1>9, <2>1, <2>2
<1>12. ASSUME NEW k \in 1 .. Len(w.queue) PROVE z.answer[w.queue[k].id] = "pending"
  <2>1. w.queue[k].id \in 1 .. n /\ w.answer[w.queue[k].id] = "pending"
    BY <1>6 DEF QueueOrder, Told
  <2>2. w.queue[k].id \notin w.closes
    BY <1>6, <1>10 DEF Told
  <2>3. w.queue[k].id # id
    BY <1>2, <1>5, <1>6, <1>7 DEF CallOrder
  <2>. QED BY <1>8, <2>1, <2>2, <2>3
<1>13. Told(z.answer, w.queue, c, z.done, Waiters(w))
  <2>1. ASSUME NEW i \in 1 .. Len(c), c[i].id # 0, z.answer[c[i].id] = "ok" PROVE c[i].id \in z.done
    <3>1. CASE c[i].id = id
      BY <1>11, <2>1, <3>1 DEF SinkDone
    <3>2. CASE c[i].id # id
      <4>1. c[i].id \in w.done
        BY <1>6, <1>11, <2>1, <3>2 DEF Told
      <4>. QED BY <4>1 DEF SinkDone
    <3>. QED BY <3>1, <3>2
  <2>2. ASSUME NEW x \in z.done
        PROVE  \E i \in 1 .. Len(c) : /\ c[i].id = x /\ x # 0 /\ z.answer[x] # "pending"
                                      /\ z.answer[x] = "failed" => c[i].kind = "close"
    <3>1. CASE x \in w.done
      <4>1. PICK i \in 1 .. Len(c) : /\ c[i].id = x /\ x # 0 /\ w.answer[x] # "pending"
                                     /\ w.answer[x] = "failed" => c[i].kind = "close"
        BY <1>6, <3>1 DEF Told
      <4>2. x # id
        BY <1>4, <4>1
      <4>. QED BY <1>11, <4>1, <4>2
    <3>2. CASE x \notin w.done
      <4>1. x = id /\ (result = "failed" => w.active.kind = "close")
        BY <2>2, <3>2 DEF SinkDone
      <4>. QED BY <1>4, <1>5, <1>11, <4>1
    <3>. QED BY <3>1, <3>2
  <2>3. \A x \in Waiters(w) :
          /\ x <= Len(z.answer)
          /\ \A k \in 1 .. Len(w.queue) : w.queue[k].id # x
          /\ \A i \in 1 .. Len(c) : c[i].id = x => x = 0
    BY <1>6, <1>8 DEF Told
  <2>. QED BY <1>12, <2>1, <2>2, <2>3 DEF Told
<1>14. Kept(z)
  <2>1. z \in Writables
    BY DEF SinkDone
  <2>. QED BY <1>1, <1>3, <1>6, <1>8, <1>10, <1>13, <2>1 DEF Kept
<1>15. w.total = QueueSize(w.queue) + w.active.size /\ z.total = QueueSize(w.queue)
  <2>1. w.total = QueueSize(w.queue) + w.active.size
    BY <1>1, <1>4 DEF Works, Over
  <2>2. QueueSize(w.queue) \in Nat
    <3>1. w.queue \in Seq(Requests) /\ \A x \in Requests : x.size \in Nat
      BY <1>1, WritableTypes DEF Requests
    <3>. QED BY <3>1, SizeIsNat
  <2>. QED BY <1>2, <1>3, <2>1, <2>2
<1>16. ASSUME NEW i \in 1 .. n, z.answer[i] = "pending"
       PROVE  i \in w.aborts \cup w.errors \/ \E k \in 1 .. Len(w.queue) : w.queue[k].id = i
  <2>1. w.answer[i] = "pending" /\ i # id /\ i \notin w.closes
    BY <1>8, <1>16
  <2>. QED BY <2>1 DEF WritableInv, Asking, Owed, Waiters
<1>17. z.state \in {"aborting", "closed"} => z.total = 0
  BY <1>1, <1>3, <1>4, <1>15, EmptySize DEF Kept, Over
<1>18. \A i \in 1 .. Len(c) : c[i].kind # "abort" /\ (c[i].kind = "close" => w.active.kind = "close")
  BY <1>1, <1>4 DEF Works
<1>19. w.state = "aborting" => w.active.kind # "close" /\ w.closes = {}
  BY <1>1, <1>4 DEF Works
<1>20. Freed(z)
  BY <1>3, <1>4, <1>8, <1>14, <1>16, <1>17, <1>18, <1>19 DEF Freed, Over
<1>21. w.active.kind = "write" => w.closes = {}
  BY <1>1, <1>4 DEF Works
<1>. QED BY <1>15, <1>18, <1>20, <1>21

\* The gauge is set where it differs from what the total says.
LEMMA UpdatedGoesOn ==
    ASSUME NEW w, Freed(w), w.state = "writable", w.total = QueueSize(w.queue), w.closes = {},
           \A i \in 1 .. Len(w.calls) : w.calls[i].kind # "close",
           w.ready = IF w.backpressure THEN "pending" ELSE "resolved"
    PROVE  GoesOn(UpdateBackpressure(w))
<1>. DEFINE next == WritableHighWaterMark - w.total <= 0
            ready == IF next THEN "pending" ELSE "resolved"
            y == [w EXCEPT !.backpressure = next, !.ready = ready]
<1>1. w \in Writables /\ Kept(w) /\ w.total \in Int /\ WritableHighWaterMark \in Nat
  BY WritableAssumption DEF Freed, Kept, Writables
<1>2. UpdateBackpressure(w) = IF next = w.backpressure THEN w ELSE y
  BY DEF UpdateBackpressure
<1>3. next \in BOOLEAN /\ ready \in {"pending", "resolved", "rejected"}
  OBVIOUS
<1>4. next <=> w.total >= WritableHighWaterMark
  BY <1>1
<1>5. CASE next = w.backpressure
  <2>1. Gauged(w)
    BY <1>4, <1>5 DEF Gauged
  <2>. QED BY <1>2, <1>5, <2>1 DEF GoesOn
<1>6. CASE next # w.backpressure
  <2>. HIDE DEF next, ready
  <2>1. /\ y \in Writables /\ y.backpressure = next /\ y.ready = ready
        /\ y.state = w.state /\ y.queue = w.queue /\ y.calls = w.calls /\ y.answer = w.answer
        /\ y.aborts = w.aborts /\ y.errors = w.errors /\ y.closes = w.closes
        /\ y.done = w.done /\ y.running = w.running /\ y.abortStarted = w.abortStarted
        /\ y.total = w.total /\ y.advancing = w.advancing
        /\ y.closeRequested = w.closeRequested
    BY <1>1, <1>3 DEF Writables
  <2>. HIDE DEF y
  <2>2. Kept(y)
    <3>1. Waiters(y) = Waiters(w)
      BY <2>1 DEF Waiters
    <3>. QED BY <1>1, <2>1, <3>1 DEF Kept
  <2>3. Freed(y)
    BY <2>1, <2>2 DEF Freed
  <2>4. Gauged(y)
    BY <1>4, <2>1 DEF Gauged, next, ready
  <2>5. GoesOn(y)
    BY <2>1, <2>3, <2>4 DEF GoesOn
  <2>. QED BY <1>2, <1>6, <2>5
<1>. QED BY <1>5, <1>6

\* sink.write settles.
LEMMA WriteReturnedInv ==
    ASSUME NEW w, WritableInv(w), w.advancing = "sink", w.active.kind # "close",
           NEW ok \in BOOLEAN
    PROVE  WritableInv(WriteReturned(w, ok))
<1>. DEFINE id == w.active.id
            run == w.running \ {"write"}
            tot == w.total - w.active.size
            did == IF ok THEN w.done \cup {id} ELSE w.done
            w1 == [w EXCEPT !.running = run, !.total = tot, !.done = did]
            done == Answered(w1, {id}, "ok")
            failed == Answered(w1, {id}, "failed")
            free == [done EXCEPT !.active = NoWrite]
<1>1. w \in Writables /\ Works(w) /\ Gauged(w) /\ w.active # NoWrite
  BY DEF WritableInv, Asking, Kept, Works
<1>2. w.active.kind = "write" /\ w.active.size \in Nat /\ id \in Nat /\ w.total \in Int
  BY <1>1, WritableTypes DEF Writables
<1>3. run = {} /\ w.closes = {} /\ tot \in Int /\ did \in SUBSET Nat
  BY <1>1, <1>2 DEF Works, Over, Writables
<1>4. WriteReturned(w, ok) =
        IF ~ok THEN AdvanceEnds(ErrorWritable(failed))
        ELSE IF Terminating(w) THEN AdvanceEnds(done)
        ELSE AdvanceLoop(UpdateBackpressure(free))
  BY DEF WriteReturned
<1>5. {id} = {w.active.id} \cup w.closes
  BY <1>3
<1>. HIDE DEF run, tot
<1>6. /\ w1 \in Writables /\ w1.answer = w.answer
      /\ w1 = [w EXCEPT !.running = {}, !.total = tot, !.done = did] /\ w1.done = did
  <2>. HIDE DEF did
  <2>. QED BY <1>1, <1>3 DEF Writables
<1>. HIDE DEF w1, did
<1>7. /\ done \in Writables /\ Tells(done, w1, {id}, "ok") /\ done = [w1 EXCEPT !.answer = done.answer]
      /\ failed \in Writables /\ Tells(failed, w1, {id}, "failed")
      /\ failed = [w1 EXCEPT !.answer = failed.answer]
  <2>0. w1 \in Writables /\ "ok" \in Answers /\ "failed" \in Answers
    BY <1>6 DEF Answers
  <2>1. done \in Writables /\ Tells(done, w1, {id}, "ok") /\ done = [w1 EXCEPT !.answer = done.answer]
    BY ONLY <2>0, AnsweredTells
  <2>2. /\ failed \in Writables /\ Tells(failed, w1, {id}, "failed")
        /\ failed = [w1 EXCEPT !.answer = failed.answer]
    BY ONLY <2>0, AnsweredTells
  <2>. QED BY <2>1, <2>2
<1>. HIDE DEF done, failed, id
<1>8. ASSUME NEW z, NEW result, z \in Writables, Tells(z, w1, {id}, result),
             z = [w1 EXCEPT !.answer = z.answer],
             result = IF ok THEN "ok" ELSE "failed"
      PROVE  SinkDone(z, w, result)
  <2>1. Tells(z, w, {w.active.id} \cup w.closes, result)
    BY <1>5, <1>6, <1>8 DEF Tells
  <2>2. z.done = did
    BY <1>6, <1>8 DEF Writables
  <2>3. /\ z = [w EXCEPT !.answer = z.answer, !.running = {}, !.done = z.done,
                         !.total = w.total - w.active.size]
    BY <1>1, <1>6, <1>8, <2>2 DEF Writables, tot
  <2>4. /\ z.done \in {w.done, w.done \cup {w.active.id}}
        /\ result = "ok" => w.active.id \in z.done
        /\ result = "failed" => z.done = w.done
    BY <1>8, <2>2 DEF did, id
  <2>. QED BY <1>8, <2>1, <2>3, <2>4 DEF SinkDone
<1>9. CASE ~ok
  <2>1. SinkDone(failed, w, "failed")
    <3>1. "failed" = IF ok THEN "ok" ELSE "failed"
      BY <1>9
    <3>. QED BY ONLY <1>7, <1>8, <3>1
  <2>2. Freed(failed)
    BY <2>1, DoneIsFreed
  <2>. QED BY <1>4, <1>9, <2>2, ErrorGoesOn, EndsInv
<1>10. CASE ok
  <2>1. SinkDone(done, w, "ok")
    <3>1. "ok" = IF ok THEN "ok" ELSE "failed"
      BY <1>10
    <3>. QED BY ONLY <1>7, <1>8, <3>1
  <2>2. /\ Freed(done) /\ done.total = QueueSize(w.queue)
        /\ \A i \in 1 .. Len(w.calls) : w.calls[i].kind # "close"
    BY <1>2, <2>1, DoneIsFreed
  <2>3. /\ done.state = w.state /\ done.queue = w.queue /\ done.calls = w.calls
        /\ done.closes = w.closes /\ done.backpressure = w.backpressure /\ done.ready = w.ready
    BY <1>1, <2>1 DEF SinkDone, Writables
  <2>4. CASE Terminating(w)
    <3>1. GoesOn(done)
      BY <2>2, <2>3, <2>4 DEF GoesOn, Gauged, Terminating
    <3>. QED BY <1>4, <1>10, <2>4, <3>1, EndsInv
  <2>5. CASE ~Terminating(w)
    <3>1. w.state = "writable"
      BY <1>1, <2>5 DEF Terminating, Works, Over, Writables
    <3>2. /\ free \in Writables /\ free.state = "writable" /\ free.queue = done.queue
          /\ free.calls = done.calls /\ free.answer = done.answer /\ free.done = done.done
          /\ free.aborts = done.aborts /\ free.errors = done.errors
          /\ free.closes = done.closes /\ free.running = done.running
          /\ free.abortStarted = done.abortStarted /\ free.total = done.total
          /\ free.advancing = done.advancing /\ free.closeRequested = done.closeRequested
          /\ free.backpressure = done.backpressure /\ free.ready = done.ready
      BY <1>7, <2>3, <3>1 DEF Writables
    <3>. HIDE DEF free
    <3>3. Freed(free)
      <4>1. Waiters(free) = Waiters(done)
        BY <3>2 DEF Waiters
      <4>2. Kept(free)
        BY <2>2, <2>3, <3>1, <3>2, <4>1 DEF Freed, Kept
      <4>. QED BY <2>2, <2>3, <3>1, <3>2, <4>2 DEF Freed
    <3>4. free.ready = IF free.backpressure THEN "pending" ELSE "resolved"
      <4>1. WritableHighWaterMark \in Nat
        BY WritableAssumption
      <4>2. /\ w.backpressure = (WritableHighWaterMark - w.total <= 0)
            /\ w.ready = IF w.total >= WritableHighWaterMark THEN "pending" ELSE "resolved"
        BY <1>1, <3>1 DEF Gauged
      <4>3. WritableHighWaterMark - w.total <= 0 <=> w.total >= WritableHighWaterMark
        BY <1>2, <4>1
      <4>4. w.ready = IF w.backpressure THEN "pending" ELSE "resolved"
        BY <4>2, <4>3
      <4>. QED BY <2>3, <3>2, <4>4
    <3>5. GoesOn(UpdateBackpressure(free))
      BY <1>3, <2>2, <2>3, <3>2, <3>3, <3>4, UpdatedGoesOn
    <3>. QED BY <1>4, <1>10, <2>5, <3>5, LoopInv
  <2>. QED BY <2>4, <2>5
<1>. QED BY <1>9, <1>10

\* sink.close settles.
LEMMA CloseReturnedInv ==
    ASSUME NEW w, WritableInv(w), w.advancing = "sink", w.active.kind = "close",
           NEW ok \in BOOLEAN
    PROVE  WritableInv(CloseReturned(w, ok))
<1>. DEFINE ids == {w.active.id} \cup w.closes
            run == w.running \ {"close"}
            did == IF ok THEN w.done \cup {w.active.id} ELSE w.done
            w1 == [w EXCEPT !.running = run, !.done = did]
            done == Answered(w1, ids, "ok")
            failed == Answered(w1, ids, "failed")
            end == [done EXCEPT !.state = "closed"]
<1>1. w \in Writables /\ Kept(w) /\ Works(w) /\ Gauged(w) /\ w.active # NoWrite
  BY DEF WritableInv, Asking, Kept, Works
<1>2. w.active.size = 0 /\ w.queue = <<>> /\ w.active.id \in Nat /\ w.total \in Int
  BY <1>1, WritableTypes DEF Works, Writables
<1>3. run = {} /\ did \in SUBSET Nat /\ w.total = w.total - w.active.size
  BY <1>1, <1>2 DEF Works, Writables
<1>4. CloseReturned(w, ok) =
        IF ~ok THEN AdvanceEnds(ErrorWritable(failed))
        ELSE IF Terminating(w) THEN AdvanceEnds(failed)
        ELSE AdvanceEnds(end)
  BY DEF CloseReturned
<1>. HIDE DEF run
<1>6. /\ w1 \in Writables /\ w1.answer = w.answer
      /\ w1 = [w EXCEPT !.running = {}, !.done = did] /\ w1.done = did
  <2>. HIDE DEF did
  <2>. QED BY <1>1, <1>3 DEF Writables
<1>. HIDE DEF w1, did, ids
<1>7. /\ done \in Writables /\ Tells(done, w1, ids, "ok") /\ done = [w1 EXCEPT !.answer = done.answer]
      /\ failed \in Writables /\ Tells(failed, w1, ids, "failed")
      /\ failed = [w1 EXCEPT !.answer = failed.answer]
  <2>0. w1 \in Writables /\ "ok" \in Answers /\ "failed" \in Answers
    BY <1>6 DEF Answers
  <2>1. done \in Writables /\ Tells(done, w1, ids, "ok") /\ done = [w1 EXCEPT !.answer = done.answer]
    BY ONLY <2>0, AnsweredTells
  <2>2. /\ failed \in Writables /\ Tells(failed, w1, ids, "failed")
        /\ failed = [w1 EXCEPT !.answer = failed.answer]
    BY ONLY <2>0, AnsweredTells
  <2>. QED BY <2>1, <2>2
<1>. HIDE DEF done, failed
<1>8. ASSUME NEW z, NEW result, z \in Writables, Tells(z, w1, ids, result),
             z = [w1 EXCEPT !.answer = z.answer],
             result = "ok" => ok
      PROVE  SinkDone(z, w, result)
  <2>1. Tells(z, w, {w.active.id} \cup w.closes, result)
    BY <1>6, <1>8 DEF Tells, ids
  <2>2. z.done = did
    BY <1>6, <1>8 DEF Writables
  <2>3. /\ z = [w EXCEPT !.answer = z.answer, !.running = {}, !.done = z.done,
                         !.total = w.total]
    <3>1. z = [w EXCEPT !.answer = z.answer, !.running = {}, !.done = z.done]
      BY <1>1, <1>6, <1>8, <2>2 DEF Writables
    <3>2. w = [w EXCEPT !.total = w.total]
      BY <1>1 DEF Writables
    <3>3. [w EXCEPT !.answer = z.answer, !.running = {}, !.done = z.done, !.total = w.total]
            = [w EXCEPT !.answer = z.answer, !.running = {}, !.done = z.done]
      BY <1>1, <3>2 DEF Writables
    <3>. QED BY <3>1, <3>3
  <2>4. /\ z = [w EXCEPT !.answer = z.answer, !.running = {}, !.done = z.done,
                         !.total = w.total - w.active.size]
    BY <1>3, <2>3
  <2>5. /\ z.done \in {w.done, w.done \cup {w.active.id}}
        /\ result = "ok" => w.active.id \in z.done
    BY <1>8, <2>2 DEF did
  <2>. QED BY <1>8, <2>1, <2>4, <2>5 DEF SinkDone
<1>9. SinkDone(failed, w, "failed")
  BY <1>7, <1>8
<1>10. Freed(failed)
  BY <1>9, DoneIsFreed
<1>11. CASE ~ok
  BY <1>4, <1>10, <1>11, ErrorGoesOn, EndsInv
<1>12. CASE ok /\ Terminating(w)
  <2>1. failed.state = w.state
    BY <1>1, <1>9 DEF SinkDone, Writables
  <2>2. GoesOn(failed)
    BY <1>10, <1>12, <2>1 DEF GoesOn, Gauged, Terminating
  <2>. QED BY <1>4, <1>12, <2>2, EndsInv
<1>13. CASE ok /\ ~Terminating(w)
  <2>1. SinkDone(done, w, "ok")
    BY ONLY <1>7, <1>8, <1>13
  <2>2. Freed(done) /\ done.total = QueueSize(w.queue) /\ w.state = "writable"
    BY <1>1, <1>13, <2>1, DoneIsFreed DEF Terminating, Works, Over, Writables
  <2>3. /\ done.state = w.state /\ done.queue = w.queue /\ done.calls = w.calls
        /\ done.closes = w.closes /\ done.ready = w.ready
    BY <1>1, <2>1 DEF SinkDone, Writables
  <2>4. /\ end \in Writables /\ end.state = "closed" /\ end.queue = done.queue
        /\ end.calls = done.calls /\ end.answer = done.answer /\ end.done = done.done
        /\ end.aborts = done.aborts /\ end.errors = done.errors
        /\ end.closes = done.closes /\ end.running = done.running
        /\ end.abortStarted = done.abortStarted /\ end.total = done.total
        /\ end.advancing = done.advancing /\ end.closeRequested = done.closeRequested
        /\ end.ready = done.ready
    BY <1>7 DEF Writables
  <2>. HIDE DEF end
  <2>5. w.total = 0 /\ QueueSize(w.queue) = 0
    BY <1>1, <1>2, <2>2, EmptySize DEF Works
  <2>6. w.ready = "pending" => WritableHighWaterMark = 0
    <3>1. WritableHighWaterMark \in Nat
      BY WritableAssumption
    <3>. QED BY <1>1, <2>2, <2>5, <3>1 DEF Gauged
  <2>7. Kept(end)
    <3>1. Waiters(end) = Waiters(done)
      BY <2>4 DEF Waiters
    <3>. QED BY <1>2, <2>2, <2>3, <2>4, <2>6, <3>1 DEF Freed, Kept
  <2>8. GoesOn(end)
    BY <2>2, <2>4, <2>5, <2>7 DEF GoesOn, Freed, Gauged
  <2>. QED BY <1>4, <1>13, <2>8, EndsInv
<1>. QED BY <1>11, <1>12, <1>13

\* either of them
LEMMA SinkReturnedInv ==
    ASSUME NEW w, WritableInv(w), w.advancing = "sink", NEW ok \in BOOLEAN
    PROVE  WritableInv(SinkReturned(w, ok))
BY WriteReturnedInv, CloseReturnedInv DEF SinkReturned

\* what the sink works on was asked, waits, and is not in the queue
LEMMA ActiveWaits ==
    ASSUME NEW w, Kept(w), Works(w), w.advancing = "sink"
    PROVE  /\ w.active.id \in 1 .. Len(w.answer) /\ w.answer[w.active.id] = "pending"
           /\ w.active.id \notin Queued(w.queue)
<1>1. w \in Writables
  BY DEF Kept
<1>2. w.active.kind \in {"none", "write", "close"} /\ w.active.id \in Nat
  BY <1>1, WritableTypes
<1>3. w.answer[w.active.id] = "pending" /\ w.calls # <<>> /\ w.active.id # 0
      /\ w.calls[Len(w.calls)].id = w.active.id /\ w.calls[Len(w.calls)].kind = w.active.kind
  BY DEF Works
<1>4. /\ w.calls \in Seq(Calls) /\ Len(w.queue) \in Nat
      /\ \A k \in 1 .. Len(w.queue) : w.queue[k].id \in Nat
  BY <1>1, WritableTypes
<1>5. Len(w.calls) \in 1 .. Len(w.calls) /\ w.active.kind # "abort"
  <2>1. Len(w.calls) \in Nat \ {0}
    BY <1>3, <1>4, EmptySeq, LenProperties
  <2>. QED BY <1>2, <2>1
<1>6. \A k \in 1 .. Len(w.queue) : w.active.id < w.queue[k].id
  BY <1>3, <1>5 DEF Kept, CallOrder
<1>7. w.active.id \notin Queued(w.queue)
  BY <1>2, <1>4, <1>6 DEF Queued
<1>8. w.active.id \in 1 .. Len(w.answer)
  <2>1. CallOrder(w.calls, w.queue, Len(w.answer)) /\ w.calls[Len(w.calls)].kind # "abort"
    BY <1>3, <1>5 DEF Kept
  <2>. QED BY <1>3, <1>5, <2>1 DEF CallOrder
<1>. QED BY <1>3, <1>7, <1>8

\* errorInternal may come at any time.
LEMMA ErrorInv ==
    ASSUME NEW w, WritableInv(w) PROVE WritableInv(ErrorWritable(w))
<1>1. CASE w.state # "writable"
  BY <1>1 DEF ErrorWritable
<1>2. CASE w.state = "writable"
  <2>. DEFINE y == ErrorWritable(w)
  <2>1. w \in Writables /\ Kept(w) /\ Works(w) /\ w.errors = {} /\ w.aborts = {}
    BY <1>2 DEF WritableInv, Asking, Kept
  <2>2. ErrorTells(y, w)
    BY <1>2, <2>1, ErrorWritableTells
  <2>. HIDE DEF y
  <2>3. /\ y \in Writables /\ y.queue = <<>> /\ y.ready = "rejected"
        /\ y.state = IF w.advancing = "no" THEN "errored" ELSE "erroring"
        /\ y.calls = w.calls /\ y.done = w.done /\ y.aborts = {} /\ y.errors = {}
        /\ y.closes = w.closes /\ y.running = w.running /\ y.abortStarted = w.abortStarted
        /\ y.advancing = w.advancing /\ y.closeRequested = w.closeRequested
        /\ y.active = w.active /\ y.total = w.active.size
    <3>. DEFINE state == IF w.advancing = "no" THEN "errored" ELSE "erroring"
                size == w.active.size
    <3>1. /\ y \in Writables /\ w \in Writables /\ w.errors = {} /\ w.aborts = {}
          /\ y = [w EXCEPT !.answer = y.answer, !.queue = <<>>, !.total = size,
                           !.ready = "rejected", !.state = state]
      BY <2>1, <2>2 DEF ErrorTells
    <3>. HIDE DEF state, size
    <3>2. /\ y.queue = <<>> /\ y.ready = "rejected" /\ y.state = state /\ y.total = size
          /\ y.calls = w.calls /\ y.done = w.done /\ y.aborts = {} /\ y.errors = {}
      BY ONLY <3>1 DEF Writables
    <3>3. /\ y.closes = w.closes /\ y.running = w.running /\ y.abortStarted = w.abortStarted
          /\ y.advancing = w.advancing /\ y.closeRequested = w.closeRequested
          /\ y.active = w.active
      BY ONLY <3>1 DEF Writables
    <3>. QED BY <3>1, <3>2, <3>3 DEF state, size
  <2>4. Waiters(y) = Waiters(w)
    BY <2>1, <2>3 DEF Waiters
  <2>0. Tells(y, w, Queued(w.queue), "failed") /\ Len(y.answer) = Len(w.answer)
    BY <2>2 DEF ErrorTells, Tells
  <2>5. /\ Told(y.answer, <<>>, w.calls, w.done, Waiters(w))
        /\ CallOrder(w.calls, <<>>, Len(y.answer))
        /\ QueueOrder(<<>>, Len(y.answer), y.closeRequested)
        /\ \A i \in 1 .. Len(y.answer) : y.answer[i] = "pending" =>
              w.answer[i] = "pending" /\ ~ \E k \in 1 .. Len(w.queue) : w.queue[k].id = i
    BY <2>0, <2>1, DroppedTold
  <2>6. Kept(y)
    BY <2>3, <2>4, <2>5 DEF Kept
  <2>7. ASSUME NEW i \in 1 .. Len(y.answer), y.answer[i] = "pending"
        PROVE  i \in {w.active.id} \cup Waiters(w)
    BY <2>0, <2>5, <2>7 DEF WritableInv, Asking, Owed
  <2>8. Owed(y, {y.active.id} \cup {}) /\ Gauged(y)
    BY <2>3, <2>4, <2>7 DEF Owed, Gauged
  <2>9. w.active.kind \in {"none", "write", "close"} /\ w.active.id \in Nat /\ w.active.size \in Nat
    BY <2>1, WritableTypes
  <2>10. EndAnswers(y, {})
    <3>. SUFFICES ASSUME w.advancing = "no", NEW i \in 1 .. Len(y.answer), y.answer[i] = "pending"
                  PROVE  FALSE
      BY <2>3 DEF EndAnswers, Over
    <3>1. w.active = NoWrite /\ w.closes = {}
      BY <1>2, <2>1 DEF Works, Over, NoWrite
    <3>2. i \in 1 .. Len(y.answer) /\ i # 0
      BY <2>3, WritableTypes
    <3>3. i \notin {w.active.id} \cup Waiters(w)
      BY <2>1, <3>1, <3>2 DEF Waiters, NoWrite
    <3>. QED BY <2>7, <3>3
  <2>11. Works(y)
    <3>1. w.advancing = "sink" => y.answer[w.active.id] = "pending"
      <4>. SUFFICES ASSUME w.advancing = "sink" PROVE y.answer[w.active.id] = "pending"
        OBVIOUS
      <4>1. w.active.id \in 1 .. Len(w.answer) /\ w.answer[w.active.id] = "pending"
            /\ w.active.id \notin Queued(w.queue)
        BY <2>1, ActiveWaits
      <4>. QED BY <2>0, <4>1 DEF Tells
    <3>2. y.total = QueueSize(y.queue) + y.active.size
      BY <2>3, <2>9, EmptySize
    <3>. QED BY <1>2, <2>1, <2>3, <3>1, <3>2 DEF Works, Over
  <2>12. WritableInv(y)
    BY <2>6, <2>8, <2>10, <2>11 DEF WritableInv, Asking
  <2>. QED BY <2>12 DEF y
<1>. QED BY <1>1, <1>2

\* nobody in ids is in the queue, and the sink was not called for them
Strangers(w, ids) ==
    \A x \in ids : /\ \A k \in 1 .. Len(w.queue) : w.queue[k].id # x
                   /\ \A i \in 1 .. Len(w.calls) : w.calls[i].id = x => x = 0

\* Strangers are answered: what is told of the others stays.
LEMMA StrangersTold ==
    ASSUME NEW w, Kept(w), NEW ids, Strangers(w, ids), NEW result,
           NEW y, Tells(y, w, ids, result), NEW waiters, waiters \subseteq Waiters(w)
    PROVE  Told(y.answer, w.queue, w.calls, w.done, waiters)
<1>. DEFINE n == Len(w.answer)
            c == w.calls
            q == w.queue
<1>1. /\ n \in Nat
      /\ \A i \in 1 .. Len(c) : c[i].kind \in {"write", "close", "abort"} /\ c[i].id \in Nat
  BY WritableTypes DEF Kept
<1>2. /\ Told(w.answer, q, c, w.done, Waiters(w)) /\ CallOrder(c, q, n)
      /\ QueueOrder(q, n, w.closeRequested)
  BY DEF Kept
<1>3. /\ Len(y.answer) = n
      /\ \A i \in 1 .. n : y.answer[i] = IF i \in ids THEN result ELSE w.answer[i]
  BY DEF Tells
<1>4. ASSUME NEW i \in 1 .. Len(c), c[i].id # 0 PROVE y.answer[c[i].id] = w.answer[c[i].id]
  <2>1. c[i].id \in 1 .. n /\ c[i].id \notin ids
    BY <1>1, <1>2, <1>4 DEF CallOrder, Strangers
  <2>. QED BY <1>3, <2>1
<1>5. ASSUME NEW k \in 1 .. Len(q) PROVE y.answer[q[k].id] = "pending"
  <2>1. q[k].id \in 1 .. n /\ q[k].id \notin ids /\ w.answer[q[k].id] = "pending"
    BY <1>2 DEF QueueOrder, Strangers, Told
  <2>. QED BY <1>3, <2>1
<1>6. ASSUME NEW i \in 1 .. Len(c), c[i].id # 0, y.answer[c[i].id] = "ok" PROVE c[i].id \in w.done
  BY <1>2, <1>4, <1>6 DEF Told
<1>7. ASSUME NEW id \in w.done
      PROVE  \E i \in 1 .. Len(c) : /\ c[i].id = id /\ id # 0 /\ y.answer[id] # "pending"
                                    /\ y.answer[id] = "failed" => c[i].kind = "close"
  <2>1. PICK i \in 1 .. Len(c) : /\ c[i].id = id /\ id # 0 /\ w.answer[id] # "pending"
                                 /\ w.answer[id] = "failed" => c[i].kind = "close"
    BY <1>2 DEF Told
  <2>. QED BY <1>4, <2>1
<1>8. \A x \in waiters :
         /\ x <= Len(y.answer)
         /\ \A k \in 1 .. Len(q) : q[k].id # x
         /\ \A i \in 1 .. Len(c) : c[i].id = x => x = 0
  BY <1>2, <1>3 DEF Told
<1>. QED BY <1>5, <1>6, <1>7, <1>8 DEF Told

\* who waits for an end is no request the sink knows
LEMMA WaitersAreStrangers ==
    ASSUME NEW w, NEW ids, NEW waiters, ids \subseteq waiters,
           Told(w.answer, w.queue, w.calls, w.done, waiters)
    PROVE  Strangers(w, ids)
BY DEF Told, Strangers

\* sink.abort settles.
LEMMA AbortReturnedInv ==
    ASSUME NEW w, WritableInv(w), "abort" \in w.running, NEW ok \in BOOLEAN
    PROVE  WritableInv(AbortReturned(w, ok))
<1>. DEFINE result == IF ok THEN "ok" ELSE "failed"
            run == w.running \ {"abort"}
            a == Answered(w, w.aborts, result)
            y == [a EXCEPT !.state = "errored", !.aborts = {}, !.running = run]
<1>1. w \in Writables /\ Kept(w) /\ Works(w)
  BY DEF WritableInv, Asking, Kept
<1>2. /\ w.state = "aborting" /\ w.abortStarted /\ w.advancing = "no" /\ w.active = NoWrite
      /\ w.queue = <<>> /\ w.errors = {} /\ w.ready = "rejected" /\ Len(<<>>) = 0
      /\ NoWrite.kind = "none" /\ NoWrite.id = 0
  BY <1>1, EmptyQueue DEF Works, Kept, NoWrite
<1>3. w.closes = {}
  BY <1>1, <1>2 DEF Works, Over
<1>4. a \in Writables /\ Tells(a, w, w.aborts, result) /\ a = [w EXCEPT !.answer = a.answer]
  <2>1. result \in Answers
    BY DEF Answers
  <2>. HIDE DEF result
  <2>. QED BY ONLY <1>1, <2>1, AnsweredTells
<1>. HIDE DEF result
<1>5. run = {}
  BY <1>1, <1>2 DEF Works
<1>6. AbortReturned(w, ok) = y
  <2>1. a.running = w.running
    BY <1>1, <1>4 DEF Writables
  <2>. QED BY <2>1 DEF AbortReturned, result
<1>. HIDE DEF a, run
<1>7. /\ y \in Writables /\ y.answer = a.answer /\ y.state = "errored" /\ y.aborts = {}
      /\ y.running = {} /\ y.active = a.active /\ y.advancing = a.advancing
      /\ y.queue = a.queue /\ y.calls = a.calls /\ y.done = a.done /\ y.errors = a.errors
      /\ y.closes = a.closes /\ y.abortStarted = a.abortStarted
      /\ y.closeRequested = a.closeRequested /\ y.ready = a.ready
  BY <1>4, <1>5 DEF Writables
<1>. HIDE DEF y, NoWrite
<1>8. /\ a.active = w.active /\ a.advancing = w.advancing
      /\ a.queue = w.queue /\ a.calls = w.calls /\ a.done = w.done /\ a.errors = w.errors
      /\ a.closes = w.closes /\ a.abortStarted = w.abortStarted
      /\ a.closeRequested = w.closeRequested /\ a.ready = w.ready
  BY <1>1, <1>4 DEF Writables
<1>9. Waiters(y) = {} /\ w.aborts \subseteq Waiters(w)
  BY <1>2, <1>3, <1>7, <1>8 DEF Waiters
<1>10. Told(y.answer, y.queue, y.calls, y.done, Waiters(y)) /\ Len(y.answer) = Len(w.answer)
  <2>1. Strangers(w, w.aborts)
    BY <1>1, <1>9, WaitersAreStrangers DEF Kept
  <2>2. Tells(y, w, w.aborts, result)
    BY <1>4, <1>7 DEF Tells
  <2>3. Waiters(y) \subseteq Waiters(w)
    BY <1>9
  <2>4. Told(y.answer, w.queue, w.calls, w.done, Waiters(y))
    BY <1>1, <2>1, <2>2, <2>3, StrangersTold
  <2>. QED BY <1>7, <1>8, <2>2, <2>4 DEF Tells
<1>11. Kept(y)
  BY <1>1, <1>2, <1>7, <1>8, <1>10 DEF Kept
<1>12. \A i \in 1 .. Len(y.answer) : y.answer[i] # "pending"
  <2>. SUFFICES ASSUME NEW i \in 1 .. Len(w.answer), y.answer[i] = "pending" PROVE FALSE
    BY <1>10
  <2>1. i \notin w.aborts /\ w.answer[i] = "pending"
    BY <1>4, <1>7 DEF Tells, result
  <2>2. i # 0
    BY <1>1, WritableTypes
  <2>. QED BY <1>2, <1>3, <2>1, <2>2 DEF WritableInv, Asking, Owed, Waiters
<1>13. Gauged(y) /\ Owed(y, {y.active.id} \cup {}) /\ EndAnswers(y, {})
  BY <1>7, <1>12 DEF Gauged, Owed, EndAnswers
<1>14. Works(y)
  BY <1>1, <1>2, <1>7, <1>8 DEF Works, Over
<1>. QED BY <1>6, <1>11, <1>13, <1>14 DEF WritableInv, Asking

\* The start settles.
LEMMA StartedWritableInv ==
    ASSUME NEW w, WritableInv(w), NEW start \in {"pending", "ok", "failed"}
    PROVE  WritableInv([w EXCEPT !.start = start])
<1>. DEFINE y == [w EXCEPT !.start = start]
<1>1. w \in Writables
  BY DEF WritableInv, Asking, Kept
<1>2. /\ y \in Writables /\ y.answer = w.answer /\ y.state = w.state /\ y.aborts = w.aborts
      /\ y.running = w.running /\ y.active = w.active /\ y.advancing = w.advancing
      /\ y.queue = w.queue /\ y.calls = w.calls /\ y.done = w.done /\ y.errors = w.errors
      /\ y.closes = w.closes /\ y.abortStarted = w.abortStarted /\ y.total = w.total
      /\ y.closeRequested = w.closeRequested /\ y.ready = w.ready
      /\ y.backpressure = w.backpressure
  BY <1>1 DEF Writables
<1>. HIDE DEF y
<1>3. Waiters(y) = Waiters(w)
  BY <1>2 DEF Waiters
<1>4. Kept(y)
  BY <1>2, <1>3 DEF WritableInv, Asking, Kept
<1>5. Works(y)
  BY <1>2 DEF WritableInv, Asking, Works, Over
<1>6. Gauged(y) /\ Owed(y, {y.active.id} \cup {}) /\ EndAnswers(y, {})
  BY <1>2, <1>3 DEF WritableInv, Asking, Gauged, Owed, EndAnswers, Over
<1>7. WritableInv(y)
  BY <1>4, <1>5, <1>6 DEF WritableInv, Asking
<1>. QED BY <1>7 DEF y

\* Who asks something is a stranger at first.
Newcomers(w, ids) == Told(w.answer, w.queue, w.calls, w.done, Waiters(w) \cup ids)

\* an answer more
LEMMA AppendedAnswer ==
    ASSUME NEW w, w \in Writables, NEW result, result \in Answers
    PROVE  LET b == Append(w.answer, result)
           IN  /\ b \in Seq(Answers) /\ Len(b) = Len(w.answer) + 1
               /\ b[Len(w.answer) + 1] = result
               /\ \A i \in 1 .. Len(w.answer) : b[i] = w.answer[i]
<1>1. w.answer \in Seq(Answers)
  BY WritableTypes
<1>. QED BY <1>1, AppendProperties

\* One more request, whatever becomes of it.
LEMMA AnotherTold ==
    ASSUME NEW w, Kept(w), NEW b, Len(b) = Len(w.answer) + 1,
           \A i \in 1 .. Len(w.answer) : b[i] = w.answer[i]
    PROVE  /\ QueueOrder(w.queue, Len(b), w.closeRequested)
           /\ CallOrder(w.calls, w.queue, Len(b))
           /\ Told(b, w.queue, w.calls, w.done, Waiters(w) \cup {Len(b)})
<1>. DEFINE n == Len(w.answer)
            c == w.calls
            q == w.queue
<1>1. /\ n \in Nat
      /\ \A i \in 1 .. Len(c) : c[i].kind \in {"write", "close", "abort"} /\ c[i].id \in Nat
      /\ \A k \in 1 .. Len(q) : q[k].id \in Nat
  BY WritableTypes DEF Kept
<1>2. /\ Told(w.answer, q, c, w.done, Waiters(w)) /\ CallOrder(c, q, n)
      /\ QueueOrder(q, n, w.closeRequested)
  BY DEF Kept
<1>. HIDE DEF n
<1>3. Len(b) = n + 1 /\ \A i \in 1 .. n : b[i] = w.answer[i]
  BY DEF n
<1>4. QueueOrder(q, Len(b), w.closeRequested) /\ CallOrder(c, q, Len(b))
  BY <1>1, <1>2, <1>3 DEF QueueOrder, CallOrder
<1>5. ASSUME NEW i \in 1 .. Len(c), c[i].id # 0
      PROVE  c[i].id \in 1 .. n /\ b[c[i].id] = w.answer[c[i].id]
  BY <1>1, <1>2, <1>3, <1>5 DEF CallOrder
<1>6. ASSUME NEW k \in 1 .. Len(q) PROVE q[k].id \in 1 .. n /\ b[q[k].id] = "pending"
  BY <1>2, <1>3 DEF QueueOrder, Told
<1>7. ASSUME NEW id \in w.done
      PROVE  \E i \in 1 .. Len(c) : /\ c[i].id = id /\ id # 0 /\ b[id] # "pending"
                                    /\ b[id] = "failed" => c[i].kind = "close"
  <2>1. PICK i \in 1 .. Len(c) : /\ c[i].id = id /\ id # 0 /\ w.answer[id] # "pending"
                                 /\ w.answer[id] = "failed" => c[i].kind = "close"
    BY <1>2 DEF Told
  <2>. QED BY <1>5, <2>1
<1>8. ASSUME NEW x \in Waiters(w) \cup {Len(b)}
      PROVE  /\ x <= Len(b)
             /\ \A k \in 1 .. Len(q) : q[k].id # x
             /\ \A i \in 1 .. Len(c) : c[i].id = x => x = 0
  <2>1. CASE x \in Waiters(w)
    <3>1. Waiters(w) \subseteq Nat
      BY DEF Waiters, Kept, Writables
    <3>. QED BY <1>1, <1>2, <1>3, <2>1, <3>1 DEF Told, n
  <2>2. CASE x = Len(b)
    <3>1. \A k \in 1 .. Len(q) : q[k].id # x
      BY <1>1, <1>3, <1>6, <2>2
    <3>2. \A i \in 1 .. Len(c) : c[i].id = x => x = 0
      BY <1>1, <1>3, <1>5, <2>2
    <3>. QED BY <1>1, <1>3, <2>2, <3>1, <3>2
  <2>. QED BY <2>1, <2>2
<1>9. \A i \in 1 .. Len(c) : c[i].id # 0 /\ b[c[i].id] = "ok" => c[i].id \in w.done
  BY <1>2, <1>5 DEF Told
<1>10. Told(b, q, c, w.done, Waiters(w) \cup {Len(b)})
  BY <1>6, <1>7, <1>8, <1>9 DEF Told
<1>. QED BY <1>4, <1>10

\* Fewer may wait for an end.
LEMMA FewerTold ==
    ASSUME NEW a, NEW q, NEW c, NEW d, NEW more, Told(a, q, c, d, more), NEW few, few \subseteq more
    PROVE  Told(a, q, c, d, few)
BY DEF Told

\* A request that waits, or is refused at once.
LEMMA AskedInv ==
    ASSUME NEW w, WritableInv(w), NEW result, result \in {"pending", "failed"}, NEW v,
           v = [w EXCEPT !.answer = Append(@, result)]
    PROVE  LET n == Len(w.answer) + 1
           IN  /\ Asking(v, {n}) /\ Newcomers(v, {n}) /\ n \in Nat
               /\ result = "failed" => WritableInv(v)
<1>. DEFINE n == Len(w.answer) + 1
            b == Append(w.answer, result)
<1>1. w \in Writables /\ Kept(w) /\ Works(w) /\ result \in Answers
  BY DEF WritableInv, Asking, Kept, Answers
<1>2. /\ b \in Seq(Answers) /\ Len(b) = n /\ b[n] = result
      /\ \A i \in 1 .. Len(w.answer) : b[i] = w.answer[i]
  BY ONLY <1>1, AppendedAnswer
<1>3. n \in Nat /\ Len(w.answer) \in Nat
  BY <1>1, WritableTypes
<1>4. v = [w EXCEPT !.answer = b]
  BY <1>1 DEF Writables
<1>. HIDE DEF b
<1>5. /\ v \in Writables /\ v.answer = b /\ v.state = w.state /\ v.aborts = w.aborts
      /\ v.running = w.running /\ v.active = w.active /\ v.advancing = w.advancing
      /\ v.queue = w.queue /\ v.calls = w.calls /\ v.done = w.done /\ v.errors = w.errors
      /\ v.closes = w.closes /\ v.abortStarted = w.abortStarted /\ v.total = w.total
      /\ v.closeRequested = w.closeRequested /\ v.ready = w.ready
      /\ v.backpressure = w.backpressure
  <2>1. w \in Writables /\ b \in Seq(Answers) /\ v = [w EXCEPT !.answer = b]
    BY <1>1, <1>2, <1>4
  <2>. QED BY ONLY <2>1 DEF Writables
<1>6. Waiters(v) = Waiters(w)
  BY <1>5 DEF Waiters
<1>7. /\ QueueOrder(w.queue, n, w.closeRequested) /\ CallOrder(w.calls, w.queue, n)
      /\ Told(b, w.queue, w.calls, w.done, Waiters(w) \cup {n})
  BY <1>1, <1>2, AnotherTold
<1>8. Newcomers(v, {n})
  BY <1>5, <1>6, <1>7 DEF Newcomers
<1>9. Told(b, w.queue, w.calls, w.done, Waiters(w))
  BY <1>7, FewerTold
<1>. HIDE DEF n
<1>10. Kept(v)
  BY <1>1, <1>2, <1>5, <1>6, <1>7, <1>9 DEF Kept
<1>11. Gauged(v)
  BY <1>5 DEF WritableInv, Asking, Gauged
<1>12. Works(v)
  <2>1. w.advancing = "sink" => v.answer[w.active.id] = "pending"
    BY <1>1, <1>2, <1>5, ActiveWaits
  <2>2. Over(v) <=> Over(w)
    BY <1>5 DEF Over
  <2>3. w.state # "errored" => v.total = QueueSize(v.queue) + v.active.size
    BY <1>1, <1>5 DEF Works
  <2>4. v.advancing = "sink" <=> v.active # NoWrite
    BY <1>1, <1>5 DEF Works
  <2>5. v.advancing = "sink" =>
          /\ v.running = {v.active.kind} /\ v.calls # <<>>
          /\ v.calls[Len(v.calls)] = [kind |-> v.active.kind, id |-> v.active.id]
          /\ v.active.id # 0
    BY <1>1, <1>5 DEF Works
  <2>6. \A i \in 1 .. Len(v.calls) :
          /\ v.calls[i].kind = "abort" => v.abortStarted
          /\ v.calls[i].kind = "close" => v.active.kind = "close" \/ Over(w)
    BY <1>1, <1>5 DEF Works
  <2>. HIDE DEF NoWrite
  <2>7. /\ v.advancing # "sink" => v.running \subseteq {"abort"}
        /\ "abort" \in v.running => v.state = "aborting" /\ v.abortStarted
        /\ v.abortStarted => v.state \in {"aborting", "errored"} /\ v.advancing = "no"
        /\ v.state = "aborting" =>
              v.active.kind # "close" /\ (v.advancing = "no" => v.abortStarted)
        /\ v.state = "erroring" => v.advancing # "no"
        /\ Over(w) => v.advancing = "no"
        /\ v.active.kind = "close" => v.queue = <<>> /\ v.active.size = 0 /\ v.closeRequested
        /\ v.closes # {} => v.active.kind = "close" \/ Over(w)
    BY <1>1, <1>5 DEF Works
  <2>. QED BY <1>5, <2>1, <2>2, <2>3, <2>4, <2>5, <2>6, <2>7 DEF Works
<1>13. ASSUME NEW i \in 1 .. n, b[i] = "pending"
       PROVE  \/ i \in 1 .. Len(w.answer) /\ w.answer[i] = "pending"
              \/ i = n /\ result = "pending"
  BY <1>2, <1>3, <1>13 DEF n
<1>14. Owed(v, {v.active.id} \cup {n}) /\ EndAnswers(v, {n})
  BY <1>2, <1>5, <1>6, <1>13 DEF WritableInv, Asking, Owed, EndAnswers, Over
<1>15. result = "failed" => Owed(v, {v.active.id} \cup {}) /\ EndAnswers(v, {})
  BY <1>2, <1>5, <1>6, <1>13 DEF WritableInv, Asking, Owed, EndAnswers, Over
<1>. QED BY <1>3, <1>8, <1>10, <1>11, <1>12, <1>14, <1>15 DEF WritableInv, Asking, n

\* Somebody joins those who wait for the abort, the error or the close.
LEMMA JoinedInv ==
    ASSUME NEW v, NEW ids, ids \subseteq Nat, Asking(v, ids), Newcomers(v, ids), ~Over(v),
           NEW y, y \in Writables,
           /\ y.answer = v.answer /\ y.state = v.state
           /\ y.running = v.running /\ y.active = v.active /\ y.advancing = v.advancing
           /\ y.queue = v.queue /\ y.calls = v.calls /\ y.done = v.done
           /\ y.abortStarted = v.abortStarted /\ y.total = v.total
           /\ y.closeRequested = v.closeRequested /\ y.ready = v.ready
           /\ y.backpressure = v.backpressure,
           Waiters(y) = Waiters(v) \cup ids,
           y.aborts # {} => y.state = "aborting", y.errors # {} => y.state = "erroring",
           y.closes # {} => y.active.kind = "close"
    PROVE  WritableInv(y)
<1>1. Kept(v) /\ Works(v) /\ Owed(v, {v.active.id} \cup ids) /\ Gauged(v)
  BY DEF Asking
<1>2. Kept(y)
  <2>1. Told(y.answer, y.queue, y.calls, y.done, Waiters(y))
    BY DEF Newcomers
  <2>. QED BY <1>1, <2>1 DEF Kept
<1>3. Works(y)
  BY <1>1 DEF Works, Over
<1>4. Gauged(y) /\ EndAnswers(y, {})
  BY <1>1 DEF Gauged, EndAnswers, Over
<1>5. Owed(y, {y.active.id} \cup {})
  BY <1>1 DEF Owed
<1>. QED BY <1>2, <1>3, <1>4, <1>5 DEF WritableInv, Asking

\* who asks after the end is answered at once
LEMMA LateInv ==
    ASSUME NEW v, NEW ids, ids \subseteq Nat, Asking(v, ids), Newcomers(v, ids), Over(v)
    PROVE  WritableInv(Answered(v, ids, "ok"))
<1>. DEFINE y == Answered(v, ids, "ok")
<1>1. v \in Writables /\ Kept(v) /\ Works(v)
  BY DEF Asking, Kept
<1>2. y \in Writables /\ Tells(y, v, ids, "ok") /\ y = [v EXCEPT !.answer = y.answer]
  <2>1. "ok" \in Answers
    BY DEF Answers
  <2>. QED BY ONLY <1>1, <2>1, AnsweredTells
<1>. HIDE DEF y
<1>3. /\ y.state = v.state /\ y.aborts = v.aborts
      /\ y.running = v.running /\ y.active = v.active /\ y.advancing = v.advancing
      /\ y.queue = v.queue /\ y.calls = v.calls /\ y.done = v.done /\ y.errors = v.errors
      /\ y.closes = v.closes /\ y.abortStarted = v.abortStarted /\ y.total = v.total
      /\ y.closeRequested = v.closeRequested /\ y.ready = v.ready
  BY <1>1, <1>2 DEF Writables
<1>4. Waiters(y) = Waiters(v)
  BY <1>3 DEF Waiters
<1>5. Told(y.answer, y.queue, y.calls, y.done, Waiters(y)) /\ Len(y.answer) = Len(v.answer)
  <2>1. Strangers(v, ids)
    BY WaitersAreStrangers DEF Newcomers
  <2>2. Told(y.answer, v.queue, v.calls, v.done, Waiters(v))
    BY <1>1, <1>2, <2>1, StrangersTold
  <2>. QED BY <1>2, <1>3, <1>4, <2>2 DEF Tells
<1>6. Kept(y)
  BY <1>1, <1>2, <1>3, <1>4, <1>5 DEF Kept
<1>7. \A i \in 1 .. Len(y.answer) : y.answer[i] # "pending"
  <2>1. \A i \in 1 .. Len(v.answer) : v.answer[i] = "pending" => i \in ids
    BY DEF Asking, EndAnswers
  <2>. QED BY <1>2, <1>5, <2>1 DEF Tells
<1>8. Gauged(y) /\ Owed(y, {y.active.id} \cup {}) /\ EndAnswers(y, {})
  BY <1>3, <1>7 DEF Gauged, Owed, EndAnswers, Over
<1>9. Works(y)
  BY <1>1, <1>3 DEF Works, Over
<1>10. WritableInv(y)
  BY <1>6, <1>8, <1>9 DEF WritableInv, Asking
<1>. QED BY <1>10 DEF y

\* the first abort of a writable stream: what the sink has goes on
LEMMA AbortingInv ==
    ASSUME NEW v, NEW ids, ids \subseteq Nat, Asking(v, ids), Newcomers(v, ids),
           v.state = "writable", v.closes = {}, v.active.kind # "close"
    PROVE  WritableInv(Advanced([Rejected(v) EXCEPT !.state = "aborting", !.closeRequested = TRUE,
                                                    !.aborts = ids]))
<1>. DEFINE r == Rejected(v)
            e == [r EXCEPT !.state = "aborting", !.closeRequested = TRUE, !.aborts = ids]
            y == Advanced(e)
<1>1. v \in Writables /\ Kept(v) /\ Works(v)
  BY DEF Asking, Kept
<1>2. /\ r \in Writables /\ Tells(r, v, Queued(v.queue), "failed")
      /\ r = [v EXCEPT !.answer = r.answer, !.queue = <<>>, !.total = v.active.size,
                       !.ready = "rejected"]
  BY <1>1, RejectedTells
<1>. HIDE DEF r
<1>3. /\ r.running = v.running /\ r.active = v.active /\ r.advancing = v.advancing
      /\ r.queue = <<>> /\ r.calls = v.calls /\ r.done = v.done /\ r.errors = v.errors
      /\ r.closes = v.closes /\ r.abortStarted = v.abortStarted /\ r.total = v.active.size
      /\ r.ready = "rejected"
  BY <1>1, <1>2 DEF Writables
<1>4. /\ e \in Writables /\ e.answer = r.answer /\ e.state = "aborting" /\ e.aborts = ids
      /\ e.running = r.running /\ e.active = r.active /\ e.advancing = r.advancing
      /\ e.queue = r.queue /\ e.calls = r.calls /\ e.done = r.done /\ e.errors = r.errors
      /\ e.closes = r.closes /\ e.abortStarted = r.abortStarted /\ e.total = r.total
      /\ e.closeRequested = TRUE /\ e.ready = r.ready
  BY <1>2 DEF Writables
<1>. HIDE DEF e
<1>5. /\ y \in Writables /\ y.answer = e.answer /\ y.state = e.state /\ y.aborts = e.aborts
      /\ y.running = e.running /\ y.active = e.active
      /\ y.advancing = IF e.advancing = "no" THEN "start" ELSE e.advancing
      /\ y.queue = e.queue /\ y.calls = e.calls /\ y.done = e.done /\ y.errors = e.errors
      /\ y.closes = e.closes /\ y.abortStarted = e.abortStarted /\ y.total = e.total
      /\ y.closeRequested = e.closeRequested /\ y.ready = e.ready
  BY <1>4 DEF Advanced, Writables
<1>. HIDE DEF y
<1>6. v.errors = {} /\ v.aborts = {} /\ Waiters(v) = {} /\ Waiters(y) = ids
  BY <1>1, <1>3, <1>4, <1>5 DEF Kept, Waiters
<1>7. Tells(y, v, Queued(v.queue), "failed") /\ Len(y.answer) = Len(v.answer)
  BY <1>2, <1>4, <1>5 DEF Tells
<1>8. /\ Told(y.answer, <<>>, v.calls, v.done, Waiters(v))
      /\ CallOrder(v.calls, <<>>, Len(y.answer))
      /\ QueueOrder(<<>>, Len(y.answer), y.closeRequested)
      /\ \A i \in 1 .. Len(y.answer) : y.answer[i] = "pending" =>
            v.answer[i] = "pending" /\ ~ \E k \in 1 .. Len(v.queue) : v.queue[k].id = i
  BY <1>1, <1>7, DroppedTold
<1>9. Told(y.answer, <<>>, v.calls, v.done, ids)
  BY <1>7, <1>8, EmptyQueue DEF Newcomers, Told
<1>10. Kept(y)
  BY <1>3, <1>4, <1>5, <1>6, <1>8, <1>9 DEF Kept
<1>11. Gauged(y) /\ EndAnswers(y, {})
  BY <1>4, <1>5 DEF Gauged, EndAnswers, Over
<1>12. Owed(y, {y.active.id} \cup {})
  <2>1. \A i \in 1 .. Len(v.answer) : v.answer[i] = "pending" =>
           i \in {v.active.id} \cup ids \/ \E k \in 1 .. Len(v.queue) : v.queue[k].id = i
    BY <1>6 DEF Asking, Owed
  <2>. QED BY <1>3, <1>4, <1>5, <1>6, <1>7, <1>8, <2>1 DEF Owed
<1>13. Works(y)
  <2>1. v.advancing = "sink" => y.answer[v.active.id] = "pending"
    BY <1>1, <1>7, ActiveWaits DEF Tells
  <2>2. y.total = QueueSize(y.queue) + y.active.size
    BY <1>1, <1>3, <1>4, <1>5, EmptySize, WritableTypes
  <2>3. y.queue = <<>> /\ y.closes = {} /\ y.calls = v.calls /\ y.running = v.running
        /\ y.active = v.active /\ y.abortStarted = v.abortStarted /\ y.state = "aborting"
        /\ y.advancing = IF v.advancing = "no" THEN "start" ELSE v.advancing
    BY <1>3, <1>4, <1>5
  <2>. QED BY <1>1, <2>1, <2>2, <2>3 DEF Works, Over
<1>14. WritableInv(y)
  BY <1>10, <1>11, <1>12, <1>13 DEF WritableInv, Asking
<1>. QED BY <1>14 DEF y, e, r

\* abortInternal, in each of its cases
LEMMA AbortForInv ==
    ASSUME NEW v, NEW ids, ids \subseteq Nat, Asking(v, ids), Newcomers(v, ids)
    PROVE  WritableInv(AbortFor(v, ids))
<1>1. /\ v \in Writables /\ Kept(v) /\ Works(v)
      /\ v.state \in {"writable", "closed", "errored", "aborting", "erroring"}
  BY DEF Asking, Kept, Writables
<1>2. CASE Over(v)
  BY <1>2, LateInv DEF AbortFor, Over
<1>3. CASE v.state = "aborting"
  <2>. DEFINE y == [v EXCEPT !.aborts = @ \cup ids]
  <2>1. /\ y \in Writables /\ y.answer = v.answer /\ y.state = v.state
        /\ y.running = v.running /\ y.active = v.active /\ y.advancing = v.advancing
        /\ y.queue = v.queue /\ y.calls = v.calls /\ y.done = v.done
        /\ y.abortStarted = v.abortStarted /\ y.total = v.total
        /\ y.closeRequested = v.closeRequested /\ y.ready = v.ready
        /\ y.backpressure = v.backpressure
        /\ y.aborts = v.aborts \cup ids /\ y.errors = v.errors /\ y.closes = v.closes
    BY <1>1 DEF Writables
  <2>2. AbortFor(v, ids) = y
    BY <1>3 DEF AbortFor
  <2>. HIDE DEF y
  <2>3. Waiters(y) = Waiters(v) \cup ids
    BY <2>1 DEF Waiters
  <2>4. /\ ~Over(v) /\ (y.aborts # {} => y.state = "aborting") /\ (y.errors # {} => y.state = "erroring")
        /\ (y.closes # {} => y.active.kind = "close")
    BY <1>1, <1>3, <2>1 DEF Kept, Works, Over
  <2>. QED BY <2>1, <2>2, <2>3, <2>4, JoinedInv
<1>4. CASE v.state \in {"writable", "erroring"} /\ (v.closes # {} \/ (v.state = "writable" /\ v.active.kind = "close"))
  <2>. DEFINE y == [v EXCEPT !.closes = @ \cup ids]
  <2>1. /\ y \in Writables /\ y.answer = v.answer /\ y.state = v.state
        /\ y.running = v.running /\ y.active = v.active /\ y.advancing = v.advancing
        /\ y.queue = v.queue /\ y.calls = v.calls /\ y.done = v.done
        /\ y.abortStarted = v.abortStarted /\ y.total = v.total
        /\ y.closeRequested = v.closeRequested /\ y.ready = v.ready
        /\ y.backpressure = v.backpressure
        /\ y.aborts = v.aborts /\ y.errors = v.errors /\ y.closes = v.closes \cup ids
    BY <1>1 DEF Writables
  <2>2. AbortFor(v, ids) = y
    BY <1>4 DEF AbortFor
  <2>. HIDE DEF y
  <2>3. Waiters(y) = Waiters(v) \cup ids
    BY <2>1 DEF Waiters
  <2>4. /\ ~Over(v) /\ (y.aborts # {} => y.state = "aborting") /\ (y.errors # {} => y.state = "erroring")
        /\ (y.closes # {} => y.active.kind = "close")
    BY <1>1, <1>4, <2>1 DEF Kept, Works, Over
  <2>. QED BY <2>1, <2>2, <2>3, <2>4, JoinedInv
<1>5. CASE v.state = "erroring" /\ v.closes = {}
  <2>. DEFINE y == [v EXCEPT !.errors = @ \cup ids]
  <2>1. /\ y \in Writables /\ y.answer = v.answer /\ y.state = v.state
        /\ y.running = v.running /\ y.active = v.active /\ y.advancing = v.advancing
        /\ y.queue = v.queue /\ y.calls = v.calls /\ y.done = v.done
        /\ y.abortStarted = v.abortStarted /\ y.total = v.total
        /\ y.closeRequested = v.closeRequested /\ y.ready = v.ready
        /\ y.backpressure = v.backpressure
        /\ y.aborts = v.aborts /\ y.errors = v.errors \cup ids /\ y.closes = v.closes
    BY <1>1 DEF Writables
  <2>2. AbortFor(v, ids) = y
    BY <1>5 DEF AbortFor
  <2>. HIDE DEF y
  <2>3. Waiters(y) = Waiters(v) \cup ids
    BY <2>1 DEF Waiters
  <2>4. /\ ~Over(v) /\ (y.aborts # {} => y.state = "aborting") /\ (y.errors # {} => y.state = "erroring")
        /\ (y.closes # {} => y.active.kind = "close")
    BY <1>1, <1>5, <2>1 DEF Kept, Works, Over
  <2>. QED BY <2>1, <2>2, <2>3, <2>4, JoinedInv
<1>6. CASE v.state = "writable" /\ v.closes = {} /\ v.active.kind # "close"
  <2>1. AbortFor(v, ids) = Advanced([Rejected(v) EXCEPT !.state = "aborting", !.closeRequested = TRUE,
                                                        !.aborts = ids])
    BY <1>6 DEF AbortFor
  <2>. QED BY <1>6, <2>1, AbortingInv
<1>. QED BY <1>1, <1>2, <1>3, <1>4, <1>5, <1>6 DEF Over

\* y has one request more, which waits at the end of the queue
Enqueues(y, w, record) ==
    /\ record \in Requests /\ record.id = Len(w.answer) + 1
    /\ record.kind = "close" => record.size = 0 /\ y.closeRequested
    /\ y.answer = Append(w.answer, "pending") /\ y.queue = Append(w.queue, record)

\* A write or a close joins the queue, whose gauge is not set yet.
LEMMA QueuedTold ==
    ASSUME NEW w, WritableInv(w), w.state = "writable", ~w.closeRequested,
           NEW y, NEW record, Enqueues(y, w, record)
    PROVE  /\ Len(y.answer) = Len(w.answer) + 1
           /\ QueueOrder(y.queue, Len(y.answer), y.closeRequested)
           /\ CallOrder(w.calls, y.queue, Len(y.answer))
           /\ Told(y.answer, y.queue, w.calls, w.done, Waiters(w))
           /\ QueueSize(y.queue) = QueueSize(w.queue) + record.size
           /\ \A i \in 1 .. Len(w.answer) : y.answer[i] = w.answer[i]
           /\ \A k \in 1 .. Len(w.queue) : \E j \in 1 .. Len(y.queue) : y.queue[j] = w.queue[k]
           /\ \E j \in 1 .. Len(y.queue) : y.queue[j].id = Len(y.answer)
<1>. DEFINE asked == y.closeRequested
            b == y.answer
            q == y.queue
<1>0. /\ record.kind = "close" => record.size = 0 /\ asked
      /\ b = Append(w.answer, "pending") /\ q = Append(w.queue, record)
      /\ record \in Requests /\ record.id = Len(w.answer) + 1
  BY DEF Enqueues
<1>. HIDE DEF asked, b, q
<1>. DEFINE n == Len(w.answer)
            m == Len(w.queue)
            c == w.calls
<1>1. w \in Writables /\ Kept(w)
  BY DEF WritableInv, Asking, Kept
<1>2. /\ w.queue \in Seq(Requests) /\ m \in Nat /\ n \in Nat
      /\ \A k \in 1 .. m : /\ w.queue[k].kind \in {"write", "close"}
                           /\ w.queue[k].id \in Nat /\ w.queue[k].size \in Nat
      /\ \A i \in 1 .. Len(c) : c[i].kind \in {"write", "close", "abort"} /\ c[i].id \in Nat
  BY <1>1, WritableTypes
<1>3. /\ b \in Seq(Answers) /\ Len(b) = n + 1 /\ b[n + 1] = "pending"
      /\ \A i \in 1 .. n : b[i] = w.answer[i]
  <2>1. "pending" \in Answers
    BY DEF Answers
  <2>. QED BY <1>0, <1>1, <2>1, AppendedAnswer
<1>4. /\ q \in Seq(Requests) /\ Len(q) = m + 1 /\ q[m + 1] = record
      /\ \A k \in 1 .. m : q[k] = w.queue[k]
  BY <1>0, <1>2, AppendProperties
<1>5. QueueSize(q) = QueueSize(w.queue) + record.size
  BY <1>0, <1>2, AppendSize
<1>6. /\ QueueOrder(w.queue, n + 1, w.closeRequested) /\ CallOrder(c, w.queue, n + 1)
      /\ Told(b, w.queue, c, w.done, Waiters(w) \cup {n + 1})
  BY <1>1, <1>3, AnotherTold
<1>7. /\ QueueOrder(w.queue, n, w.closeRequested) /\ CallOrder(c, w.queue, n)
  BY <1>1 DEF Kept
<1>8. record.id = n + 1 /\ record.kind \in {"write", "close"}
  BY <1>0 DEF Requests
<1>. HIDE DEF n, m
<1>9. ASSUME NEW k \in 1 .. Len(q)
      PROVE  (k \in 1 .. m /\ q[k] = w.queue[k]) \/ (k = m + 1 /\ q[k] = record)
  BY <1>2, <1>4
<1>10. \A k \in 1 .. m : w.queue[k].kind = "write" /\ w.queue[k].id < n + 1 /\ w.queue[k].id \in 1 .. n
  BY <1>2, <1>7 DEF QueueOrder, m
<1>11. QueueOrder(q, n + 1, asked)
  <2>1. ASSUME NEW k \in 1 .. Len(q)
        PROVE  q[k].id \in 1 .. n + 1 /\ (q[k].kind = "close" => q[k].size = 0 /\ asked)
    <3>1. CASE k \in 1 .. m /\ q[k] = w.queue[k]
      <4>1. q[k].id \in 1 .. n /\ q[k].kind = "write"
        BY <1>10, <3>1
      <4>. QED BY <1>2, <4>1
    <3>2. CASE k = m + 1 /\ q[k] = record
      BY <1>0, <1>2, <1>8, <3>2
    <3>. QED BY <1>9, <3>1, <3>2
  <2>2. ASSUME NEW j \in 1 .. Len(q), NEW k \in 1 .. Len(q), j < k
        PROVE  q[j].kind = "write" /\ q[j].id < q[k].id
    <3>1. j \in 1 .. m /\ q[j] = w.queue[j]
      BY <1>2, <1>4, <2>2
    <3>2. CASE k \in 1 .. m
      BY <1>4, <1>7, <1>10, <2>2, <3>1, <3>2 DEF QueueOrder, m
    <3>3. CASE k = m + 1
      BY <1>4, <1>8, <1>10, <3>1, <3>3
    <3>. QED BY <1>9, <3>2, <3>3
  <2>. QED BY <2>1, <2>2 DEF QueueOrder
<1>12. \A i \in 1 .. Len(c) : c[i].id < n + 1
  <2>1. \A i \in 1 .. Len(c) : c[i].id = 0 \/ c[i].id \in 1 .. n
    BY <1>7 DEF CallOrder
  <2>2. ASSUME NEW i \in 1 .. Len(c) PROVE c[i].id < n + 1
    <3>1. n \in Nat /\ (c[i].id = 0 \/ c[i].id \in 1 .. n)
      BY <1>2, <2>1
    <3>. QED BY ONLY <3>1
  <2>. QED BY ONLY <2>2
<1>13. CallOrder(c, q, n + 1)
  <2>1. \A i \in 1 .. Len(c) : \A k \in 1 .. Len(q) : c[i].id < q[k].id
    BY <1>6, <1>8, <1>9, <1>12 DEF CallOrder, m
  <2>. QED BY <1>6, <2>1 DEF CallOrder
<1>14. Told(b, q, c, w.done, Waiters(w))
  <2>0. \A k \in 1 .. m : b[w.queue[k].id] = "pending"
    BY <1>6 DEF Told, m
  <2>1. ASSUME NEW k \in 1 .. Len(q) PROVE b[q[k].id] = "pending"
    <3>1. CASE k \in 1 .. m /\ q[k] = w.queue[k]
      BY <2>0, <3>1
    <3>2. CASE k = m + 1 /\ q[k] = record
      BY <1>3, <1>8, <3>2
    <3>. QED BY <1>9, <3>1, <3>2
  <2>2. \A x \in Waiters(w) : x <= n /\ \A k \in 1 .. Len(w.queue) : w.queue[k].id # x
    BY <1>1 DEF Kept, Told, n
  <2>3. Waiters(w) \subseteq Nat
    BY <1>1 DEF Waiters, Writables
  <2>4. ASSUME NEW x \in Waiters(w), NEW k \in 1 .. Len(q) PROVE q[k].id # x
    <3>1. CASE k \in 1 .. m /\ q[k] = w.queue[k]
      BY <2>2, <3>1 DEF m
    <3>2. CASE k = m + 1 /\ q[k] = record
      BY <1>2, <1>8, <2>2, <2>3, <3>2
    <3>. QED BY <1>9, <3>1, <3>2
  <2>. QED BY <1>6, <2>1, <2>4 DEF Told
<1>15. \A k \in 1 .. m : k \in 1 .. Len(q) /\ q[k] = w.queue[k]
  BY <1>2, <1>4
<1>16. m + 1 \in 1 .. Len(q) /\ q[m + 1].id = Len(b)
  BY <1>2, <1>3, <1>4, <1>8
<1>. QED BY <1>3, <1>4, <1>5, <1>11, <1>13, <1>14, <1>15, <1>16 DEF n, m, asked, b, q

\* advanceQueue is under way, at the latest now.
LEMMA AdvancedInv ==
    ASSUME NEW w, WritableInv(w), w.state = "writable" PROVE WritableInv(Advanced(w))
<1>1. CASE w.advancing # "no"
  BY <1>1 DEF Advanced
<1>2. CASE w.advancing = "no"
  <2>. DEFINE y == [w EXCEPT !.advancing = "start"]
  <2>1. w \in Writables /\ Kept(w) /\ Works(w)
    BY DEF WritableInv, Asking, Kept
  <2>2. /\ y \in Writables /\ y.advancing = "start" /\ y.answer = w.answer /\ y.state = w.state
        /\ y.aborts = w.aborts /\ y.running = w.running /\ y.active = w.active
        /\ y.queue = w.queue /\ y.calls = w.calls /\ y.done = w.done /\ y.errors = w.errors
        /\ y.closes = w.closes /\ y.abortStarted = w.abortStarted /\ y.total = w.total
        /\ y.closeRequested = w.closeRequested /\ y.ready = w.ready
        /\ y.backpressure = w.backpressure
    BY <2>1 DEF Writables
  <2>3. Advanced(w) = y
    BY <1>2 DEF Advanced
  <2>. HIDE DEF y
  <2>4. Waiters(y) = Waiters(w)
    BY <2>2 DEF Waiters
  <2>5. Kept(y)
    BY <2>1, <2>2, <2>4 DEF Kept
  <2>6. Gauged(y) /\ Owed(y, {y.active.id} \cup {}) /\ EndAnswers(y, {})
    BY <2>2, <2>4 DEF WritableInv, Asking, Gauged, Owed, EndAnswers, Over
  <2>7. Works(y)
    BY <1>2, <2>1, <2>2 DEF Works, Over
  <2>. QED BY <2>3, <2>5, <2>6, <2>7 DEF WritableInv, Asking
<1>. QED BY <1>1, <1>2

\* The gauge is set when the rest is right.
LEMMA GaugeInv ==
    ASSUME NEW w, Kept(w), Works(w), Owed(w, {w.active.id}), w.state = "writable",
           w.ready = IF w.backpressure THEN "pending" ELSE "resolved"
    PROVE  /\ WritableInv(UpdateBackpressure(w)) /\ UpdateBackpressure(w).state = "writable"
<1>. DEFINE next == WritableHighWaterMark - w.total <= 0
            ready == IF next THEN "pending" ELSE "resolved"
            y == [w EXCEPT !.backpressure = next, !.ready = ready]
<1>1. w \in Writables /\ w.total \in Int /\ WritableHighWaterMark \in Nat
  BY WritableAssumption DEF Kept, Writables
<1>2. UpdateBackpressure(w) = IF next = w.backpressure THEN w ELSE y
  BY DEF UpdateBackpressure
<1>3. next \in BOOLEAN /\ ready \in {"pending", "resolved", "rejected"}
  OBVIOUS
<1>4. next <=> w.total >= WritableHighWaterMark
  BY <1>1
<1>0. Owed(w, {w.active.id} \cup {}) /\ EndAnswers(w, {})
  BY DEF Owed, EndAnswers, Over
<1>5. CASE next = w.backpressure
  <2>1. Gauged(w)
    BY <1>4, <1>5 DEF Gauged
  <2>. QED BY <1>0, <1>2, <1>5, <2>1 DEF WritableInv, Asking
<1>6. CASE next # w.backpressure
  <2>. HIDE DEF next, ready
  <2>1. /\ y \in Writables /\ y.backpressure = next /\ y.ready = ready
        /\ y.state = w.state /\ y.queue = w.queue /\ y.calls = w.calls /\ y.answer = w.answer
        /\ y.aborts = w.aborts /\ y.errors = w.errors /\ y.closes = w.closes
        /\ y.done = w.done /\ y.running = w.running /\ y.abortStarted = w.abortStarted
        /\ y.total = w.total /\ y.advancing = w.advancing /\ y.active = w.active
        /\ y.closeRequested = w.closeRequested
    BY <1>1, <1>3 DEF Writables
  <2>. HIDE DEF y
  <2>2. Waiters(y) = Waiters(w)
    BY <2>1 DEF Waiters
  <2>3. Kept(y)
    BY <2>1, <2>2 DEF Kept
  <2>4. Gauged(y)
    BY <1>4, <2>1 DEF Gauged, next, ready
  <2>5. Owed(y, {y.active.id} \cup {}) /\ EndAnswers(y, {})
    BY <1>0, <2>1, <2>2 DEF Owed, EndAnswers, Over
  <2>6. Works(y)
    BY <2>1 DEF Works, Over
  <2>. QED BY <1>2, <1>6, <2>1, <2>3, <2>4, <2>5, <2>6 DEF WritableInv, Asking
<1>. QED BY <1>5, <1>6

\* ready and backpressure say the same.
LEMMA ReadySays ==
    ASSUME NEW w, w \in Writables, Gauged(w), w.state = "writable"
    PROVE  w.ready = IF w.backpressure THEN "pending" ELSE "resolved"
<1>1. w.total \in Int /\ WritableHighWaterMark \in Nat
  BY WritableAssumption DEF Writables
<1>2. /\ w.backpressure = (WritableHighWaterMark - w.total <= 0)
      /\ w.ready = IF w.total >= WritableHighWaterMark THEN "pending" ELSE "resolved"
  BY DEF Gauged
<1>3. WritableHighWaterMark - w.total <= 0 <=> w.total >= WritableHighWaterMark
  BY <1>1
<1>. QED BY <1>2, <1>3

\* What a write or a close adds to the queue leaves the rest as it was.
LEMMA EnqueuedRequest ==
    ASSUME NEW w, WritableInv(w), w.state = "writable", ~w.closeRequested,
           NEW y, y \in Writables, NEW record, Enqueues(y, w, record),
           y.total = w.total + record.size,
           /\ y.state = "writable" /\ y.aborts = w.aborts
           /\ y.running = w.running /\ y.active = w.active /\ y.advancing = w.advancing
           /\ y.calls = w.calls /\ y.done = w.done /\ y.errors = w.errors
           /\ y.closes = w.closes /\ y.abortStarted = w.abortStarted
           /\ y.ready = w.ready /\ y.backpressure = w.backpressure
    PROVE  Kept(y) /\ Works(y) /\ Owed(y, {y.active.id})
<1>1. w \in Writables /\ Kept(w) /\ Works(w)
  BY DEF WritableInv, Asking, Kept
<1>2. /\ Len(y.answer) = Len(w.answer) + 1
      /\ QueueOrder(y.queue, Len(y.answer), y.closeRequested)
      /\ CallOrder(w.calls, y.queue, Len(y.answer))
      /\ Told(y.answer, y.queue, w.calls, w.done, Waiters(w))
      /\ QueueSize(y.queue) = QueueSize(w.queue) + record.size
      /\ \A i \in 1 .. Len(w.answer) : y.answer[i] = w.answer[i]
      /\ \A k \in 1 .. Len(w.queue) : \E j \in 1 .. Len(y.queue) : y.queue[j] = w.queue[k]
      /\ \E j \in 1 .. Len(y.queue) : y.queue[j].id = Len(y.answer)
  BY QueuedTold
<1>3. Waiters(y) = Waiters(w)
  BY DEF Waiters
<1>4. Kept(y)
  BY <1>1, <1>2, <1>3 DEF Kept
<1>5. Owed(y, {y.active.id})
  <2>. SUFFICES ASSUME NEW i \in 1 .. Len(y.answer), y.answer[i] = "pending",
                       i \notin {w.active.id} \cup Waiters(w)
                PROVE  \E k \in 1 .. Len(y.queue) : y.queue[k].id = i
    BY <1>3 DEF Owed
  <2>1. CASE i = Len(y.answer)
    BY <1>2, <2>1
  <2>2. CASE i # Len(y.answer)
    <3>1. i \in 1 .. Len(w.answer) /\ w.answer[i] = "pending"
      BY <1>1, <1>2, <2>2, WritableTypes
    <3>2. PICK k \in 1 .. Len(w.queue) : w.queue[k].id = i
      BY <3>1 DEF WritableInv, Asking, Owed
    <3>. QED BY <1>2, <3>2
  <2>. QED BY <2>1, <2>2
<1>6. w.active.kind # "close" /\ w.active.size \in Nat /\ record.size \in Nat /\ w.total \in Int
  BY <1>1, WritableTypes DEF Works, Requests, Writables, Enqueues
<1>7. y.total = QueueSize(y.queue) + y.active.size
  <2>1. QueueSize(w.queue) \in Nat
    <3>1. w.queue \in Seq(Requests) /\ \A x \in Requests : x.size \in Nat
      BY <1>1, WritableTypes DEF Requests
    <3>. QED BY <3>1, SizeIsNat
  <2>2. w.total = QueueSize(w.queue) + w.active.size
    BY <1>1 DEF Works
  <2>. QED BY <1>2, <1>6, <2>1, <2>2
<1>8. y.advancing = "sink" => y.answer[y.active.id] = "pending"
  <2>1. w.advancing = "sink" => w.active.id \in 1 .. Len(w.answer) /\ w.answer[w.active.id] = "pending"
    BY <1>1, ActiveWaits DEF Works
  <2>. QED BY <1>2, <2>1
<1>9. Works(y)
  BY <1>1, <1>6, <1>7, <1>8 DEF Works, Over
<1>. QED BY <1>4, <1>5, <1>9

\* what an operation may ask before it says whether it was refused
Refuses(w) == w.state # "writable" \/ w.closeRequested

\* writeFromWriter
LEMMA WriteAskedInv ==
    ASSUME NEW w, WritableInv(w), NEW size \in Nat PROVE WritableInv(WriteAsked(w, size))
<1>. DEFINE record == [kind |-> "write", id |-> Len(w.answer) + 1, size |-> size]
            b == Append(w.answer, "pending")
            q == Append(w.queue, record)
            total == w.total + size
            y == [w EXCEPT !.answer = b, !.queue = q, !.total = total]
            u == UpdateBackpressure(y)
<1>1. w \in Writables /\ Kept(w) /\ Works(w)
  BY DEF WritableInv, Asking, Kept
<1>2. CASE Refuses(w)
  <2>. DEFINE v == [w EXCEPT !.answer = Append(@, "failed")]
  <2>1. WriteAsked(w, size) = v
    BY <1>2 DEF WriteAsked, Refuses
  <2>2. WritableInv(v)
    BY AskedInv
  <2>. QED BY <2>1, <2>2
<1>3. CASE ~Refuses(w)
  <2>1. WriteAsked(w, size) = Advanced(u)
    BY <1>3 DEF WriteAsked, Refuses
  <2>2. Len(w.answer) \in Nat /\ w.answer \in Seq(Answers) /\ w.queue \in Seq(Requests)
        /\ w.total \in Int
    BY <1>1, WritableTypes DEF Writables
  <2>3. record \in Requests
    BY <2>2 DEF Requests
  <2>4. record.id = Len(w.answer) + 1 /\ record.kind = "write" /\ record.size = size
    OBVIOUS
  <2>. HIDE DEF record
  <2>5. b \in Seq(Answers) /\ q \in Seq(Requests)
    <3>1. "pending" \in Answers
      BY DEF Answers
    <3>. QED BY <2>2, <2>3, <3>1, AppendProperties
  <2>6. total \in Int
    BY <2>2
  <2>. HIDE DEF b, q, total
  <2>7. /\ y \in Writables /\ y.answer = b /\ y.queue = q /\ y.total = total
        /\ y.state = w.state /\ y.aborts = w.aborts
        /\ y.running = w.running /\ y.active = w.active /\ y.advancing = w.advancing
        /\ y.calls = w.calls /\ y.done = w.done /\ y.errors = w.errors
        /\ y.closes = w.closes /\ y.abortStarted = w.abortStarted
        /\ y.ready = w.ready /\ y.backpressure = w.backpressure
    BY <1>1, <2>6, <2>5 DEF Writables
  <2>8. y.total = w.total + record.size /\ b = Append(w.answer, "pending") /\ q = Append(w.queue, record)
    BY <2>2, <2>4, <2>7 DEF b, q, total
  <2>9. Enqueues(y, w, record)
    BY <2>3, <2>4, <2>7, <2>8 DEF Enqueues
  <2>10. w.state = "writable" /\ ~w.closeRequested
    BY <1>3 DEF Refuses
  <2>. HIDE DEF y
  <2>11. Kept(y) /\ Works(y) /\ Owed(y, {y.active.id})
    BY <2>7, <2>8, <2>9, <2>10, EnqueuedRequest
  <2>12. w.ready = IF w.backpressure THEN "pending" ELSE "resolved"
    BY <1>1, <2>10, ReadySays DEF WritableInv, Asking
  <2>13. y.ready = IF y.backpressure THEN "pending" ELSE "resolved"
    BY <2>7, <2>12
  <2>14. WritableInv(u) /\ u.state = "writable"
    BY <2>7, <2>10, <2>11, <2>13, GaugeInv
  <2>. QED BY <2>1, <2>14, AdvancedInv
<1>. QED BY <1>2, <1>3

\* closeInternal
LEMMA CloseAskedInv ==
    ASSUME NEW w, WritableInv(w) PROVE WritableInv(CloseAsked(w))
<1>. DEFINE record == [kind |-> "close", id |-> Len(w.answer) + 1, size |-> 0]
            b == Append(w.answer, "pending")
            q == Append(w.queue, record)
            y == [w EXCEPT !.answer = b, !.queue = q, !.closeRequested = TRUE]
<1>1. w \in Writables /\ Kept(w) /\ Works(w)
  BY DEF WritableInv, Asking, Kept
<1>2. CASE Refuses(w)
  <2>. DEFINE v == [w EXCEPT !.answer = Append(@, "failed")]
  <2>1. CloseAsked(w) = v
    BY <1>2 DEF CloseAsked, Refuses
  <2>2. WritableInv(v)
    BY AskedInv
  <2>. QED BY <2>1, <2>2
<1>3. CASE ~Refuses(w)
  <2>1. CloseAsked(w) = Advanced(y)
    BY <1>3 DEF CloseAsked, Refuses
  <2>2. Len(w.answer) \in Nat /\ w.answer \in Seq(Answers) /\ w.queue \in Seq(Requests)
        /\ w.total \in Int
    BY <1>1, WritableTypes DEF Writables
  <2>3. record \in Requests
    BY <2>2 DEF Requests
  <2>4. record.id = Len(w.answer) + 1 /\ record.kind = "close" /\ record.size = 0
    OBVIOUS
  <2>. HIDE DEF record
  <2>5. b \in Seq(Answers) /\ q \in Seq(Requests)
    <3>1. "pending" \in Answers
      BY DEF Answers
    <3>. QED BY <2>2, <2>3, <3>1, AppendProperties
  <2>6. w.total \in Int
    BY <2>2
  <2>. HIDE DEF b, q
  <2>7. /\ y \in Writables /\ y.answer = b /\ y.queue = q
        /\ y.state = w.state /\ y.aborts = w.aborts /\ y.closeRequested
        /\ y.running = w.running /\ y.active = w.active /\ y.advancing = w.advancing
        /\ y.calls = w.calls /\ y.done = w.done /\ y.errors = w.errors
        /\ y.closes = w.closes /\ y.abortStarted = w.abortStarted
        /\ y.ready = w.ready /\ y.backpressure = w.backpressure
    BY <1>1, <2>6, <2>5 DEF Writables
  <2>8. y.total = w.total + record.size /\ b = Append(w.answer, "pending") /\ q = Append(w.queue, record)
    BY <2>2, <2>4, <2>7 DEF b, q
  <2>9. Enqueues(y, w, record)
    BY <2>3, <2>4, <2>7, <2>8 DEF Enqueues
  <2>10. w.state = "writable" /\ ~w.closeRequested
    BY <1>3 DEF Refuses
  <2>. HIDE DEF y
  <2>11. Kept(y) /\ Works(y) /\ Owed(y, {y.active.id})
    BY <2>7, <2>8, <2>9, <2>10, EnqueuedRequest
  <2>12. Gauged(y) /\ Owed(y, {y.active.id} \cup {}) /\ EndAnswers(y, {}) /\ y.state = "writable"
    <3>1. Gauged(w)
      BY DEF WritableInv, Asking
    <3>0. y.total = w.total /\ y.state = "writable"
      BY <2>2, <2>4, <2>7, <2>8, <2>10
    <3>2. Gauged(y) /\ y.state = "writable"
      BY <2>7, <2>10, <3>0, <3>1 DEF Gauged
    <3>3. Owed(y, {y.active.id} \cup {}) /\ EndAnswers(y, {})
      BY <2>11, <3>2 DEF Owed, EndAnswers, Over
    <3>. QED BY <3>2, <3>3
  <2>13. WritableInv(y)
    BY <2>11, <2>12 DEF WritableInv, Asking
  <2>. QED BY <2>1, <2>12, <2>13, AdvancedInv
<1>. QED BY <1>2, <1>3

\* abortInternal, for a request
LEMMA AbortAskedInv ==
    ASSUME NEW w, WritableInv(w) PROVE WritableInv(AbortAsked(w))
<1>. DEFINE n == Len(w.answer) + 1
            v == [w EXCEPT !.answer = Append(@, "pending")]
<1>1. Asking(v, {n}) /\ Newcomers(v, {n}) /\ n \in Nat
  BY AskedInv
<1>. HIDE DEF v, n
<1>2. WritableInv(AbortFor(v, {n}))
  BY <1>1, AbortForInv
<1>. QED BY <1>2 DEF AbortAsked, v, n

\* An abort that nobody waits for: no request has the number 0.
LEMMA UnaskedAbortInv ==
    ASSUME NEW w, WritableInv(w) PROVE WritableInv(AbortFor(w, {0}))
<1>1. w \in Writables /\ Kept(w)
  BY DEF WritableInv, Asking, Kept
<1>2. Asking(w, {0})
  BY DEF WritableInv, Asking, Owed, EndAnswers
<1>3. 0 <= Len(w.answer) /\ \A k \in 1 .. Len(w.queue) : w.queue[k].id # 0
  <2>1. \A k \in 1 .. Len(w.queue) : w.queue[k].id \in 1 .. Len(w.answer)
    BY <1>1 DEF Kept, QueueOrder
  <2>. QED BY <1>1, <2>1, WritableTypes
<1>4. Told(w.answer, w.queue, w.calls, w.done, Waiters(w))
  BY <1>1 DEF Kept
<1>5. Newcomers(w, {0})
  BY <1>3, <1>4 DEF Newcomers, Told
<1>. QED BY <1>2, <1>5, AbortForInv

\* size() throws: the stream fails and the write with it.
LEMMA FailedSizeInv ==
    ASSUME NEW w, WritableInv(w)
    PROVE  WritableInv([ErrorWritable(w) EXCEPT !.answer = Append(@, "failed")])
<1>. DEFINE e == ErrorWritable(w)
            v == [e EXCEPT !.answer = Append(@, "failed")]
<1>1. WritableInv(e)
  BY ErrorInv
<1>. HIDE DEF e
<1>2. WritableInv(v)
  BY <1>1, AskedInv
<1>. QED BY <1>2 DEF e

\* a writable that was just made
LEMMA FirstWritable == WritableInv(NewWritable)
<1>. DEFINE w == NewWritable
            full == WritableHighWaterMark <= 0
<1>1. WritableHighWaterMark \in Nat /\ full \in BOOLEAN /\ (full <=> WritableHighWaterMark = 0)
  BY WritableAssumption
<1>2. Len(<<>>) = 0 /\ <<>> \in Seq(Requests) /\ <<>> \in Seq(Answers) /\ <<>> \in Seq(Calls)
  BY EmptySeq
<1>3. /\ w.state = "writable" /\ w.queue = <<>> /\ w.active = NoWrite /\ w.advancing = "no"
      /\ w.closeRequested = FALSE /\ w.abortStarted = FALSE /\ w.aborts = {} /\ w.errors = {}
      /\ w.closes = {} /\ w.total = 0 /\ w.backpressure = full
      /\ w.ready = (IF full THEN "pending" ELSE "resolved") /\ w.answer = <<>>
      /\ w.calls = <<>> /\ w.running = {} /\ w.done = {}
  BY DEF NewWritable
<1>4. w \in Writables
  <2>. HIDE DEF full
  <2>1. NoWrite \in {NoWrite} \cup Requests
    OBVIOUS
  <2>. QED BY <1>1, <1>2, <2>1 DEF NewWritable, Writables, full
<1>. HIDE DEF w
<1>5. Waiters(w) = {}
  BY <1>3 DEF Waiters
<1>6. Kept(w)
  BY <1>2, <1>3, <1>4, <1>5 DEF Kept, QueueOrder, CallOrder, Told
<1>7. Gauged(w)
  BY <1>1, <1>3 DEF Gauged
<1>8. Works(w)
  <2>1. NoWrite.size = 0 /\ NoWrite.kind = "none"
    BY DEF NoWrite
  <2>. QED BY <1>2, <1>3, <2>1, EmptySize DEF Works, Over
<1>9. Owed(w, {w.active.id} \cup {}) /\ EndAnswers(w, {})
  BY <1>2, <1>3 DEF Owed, EndAnswers, Over
<1>. QED BY <1>6, <1>7, <1>8, <1>9 DEF WritableInv, Asking, w

\* every step of a writable alone
LEMMA WritableStepInv ==
    ASSUME WritableInv(writable), WritableNext PROVE WritableInv(writable')
<1>1. CASE \E ok \in BOOLEAN : SinkStarts(ok) \/ SinkSettles(ok) \/ SinkAbortSettles(ok)
  <2>. SUFFICES ASSUME NEW ok \in BOOLEAN, SinkStarts(ok) \/ SinkSettles(ok) \/ SinkAbortSettles(ok)
                PROVE  WritableInv(writable')
    BY <1>1
  <2>1. CASE SinkStarts(ok)
    <3>1. WritableInv([writable EXCEPT !.start = "ok"])
      BY StartedWritableInv
    <3>2. WritableInv([writable EXCEPT !.start = "failed"])
      BY StartedWritableInv
    <3>. QED BY <2>1, <3>1, <3>2, ErrorInv DEF SinkStarts
  <2>2. CASE SinkSettles(ok)
    BY <2>2, SinkReturnedInv DEF SinkSettles
  <2>3. CASE SinkAbortSettles(ok)
    BY <2>3, AbortReturnedInv DEF SinkAbortSettles
  <2>. QED BY <2>1, <2>2, <2>3
<1>2. CASE AdvanceResumes
  BY <1>2, ResumedInv DEF AdvanceResumes
<1>3. CASE \E size \in WritableSizes : Write(size)
  BY <1>3, WriteAskedInv, WritableAssumption DEF Write
<1>4. CASE WriteSizeFails
  BY <1>4, FailedSizeInv DEF WriteSizeFails
<1>5. CASE CloseWritable
  BY <1>5, CloseAskedInv DEF CloseWritable
<1>6. CASE AbortWritable
  BY <1>6, AbortAskedInv DEF AbortWritable
<1>7. CASE SinkErrors
  BY <1>7, ErrorInv DEF SinkErrors
<1>. QED BY <1>1, <1>2, <1>3, <1>4, <1>5, <1>6, <1>7 DEF WritableNext

\* What WritableAgrees says of the writable follows from the invariant.
LEMMA WritableSays ==
    ASSUME WritableInv(writable) PROVE WritableAgrees
<1>. DEFINE w == writable
<1>1. w \in Writables /\ Kept(w) /\ Works(w) /\ Gauged(w) /\ EndAnswers(w, {})
  BY DEF WritableInv, Asking, Kept
<1>2. /\ DOMAIN w.calls = 1 .. Len(w.calls) /\ DOMAIN w.answer = 1 .. Len(w.answer)
      /\ DOMAIN w.queue = 1 .. Len(w.queue)
      /\ w.calls \in Seq(Calls)
      /\ \A i \in 1 .. Len(w.calls) : w.calls[i].kind \in {"write", "close", "abort"} /\ w.calls[i].id \in Nat
  BY <1>1, WritableTypes
<1>3. SinkInOrder
  <2>1. Cardinality(w.running) <= 1
    <3>1. w.running = {} \/ \E x : w.running = {x}
      BY <1>1 DEF Works
    <3>2. CASE w.running = {}
      <4>1. Cardinality(w.running) = 0
        BY <3>2, FS_EmptySet
      <4>. QED BY <4>1
    <3>3. CASE \E x : w.running = {x}
      <4>1. Cardinality(w.running) = 1
        BY <3>3, FS_Singleton
      <4>. QED BY <4>1
    <3>. QED BY <3>1, <3>2, <3>3
  <2>2. CallOrder(w.calls, w.queue, Len(w.answer))
    BY <1>1 DEF Kept
  <2>. QED BY <1>2, <2>1, <2>2 DEF SinkInOrder, CallOrder
<1>4. AnswersAreTrue
  <2>0. Told(w.answer, w.queue, w.calls, w.done, Waiters(w))
    BY <1>1 DEF Kept
  <2>1. \A i \in 1 .. Len(w.calls) :
           w.calls[i].id # 0 /\ w.answer[w.calls[i].id] = "ok" => w.calls[i].id \in w.done
    BY <2>0 DEF Told
  <2>2. ASSUME NEW id \in w.done, w.answer[id] = "failed"
        PROVE  \E i \in DOMAIN w.calls : w.calls[i] = [kind |-> "close", id |-> id]
    <3>1. PICK i \in 1 .. Len(w.calls) : w.calls[i].id = id /\ w.calls[i].kind = "close"
      BY <2>0, <2>2 DEF Told
    <3>2. w.calls[i] \in Calls
      BY <1>2, ElementOfSeq
    <3>. QED BY <1>2, <3>1, <3>2 DEF Calls
  <2>3. w.active # NoWrite => w.answer[w.active.id] = "pending"
    BY <1>1 DEF Works
  <2>4. ASSUME w.state \in {"closed", "errored"}
        PROVE  /\ \A i \in 1 .. Len(w.answer) : w.answer[i] # "pending"
               /\ w.ready # "pending" \/ WritableHighWaterMark = 0
               /\ w.advancing = "no"
    BY <1>1, <2>4 DEF EndAnswers, Over, Kept, Works
  <2>. QED BY <1>2, <2>1, <2>2, <2>3, <2>4 DEF AnswersAreTrue
<1>5. BackpressureIsCounted
  <2>1. w.state # "errored" => w.total = QueueSize(w.queue) + w.active.size
    BY <1>1 DEF Works
  <2>2. w.state \in {"aborting", "erroring", "errored"} => w.ready = "rejected"
    BY <1>1 DEF Kept
  <2>3. w.state = "writable" =>
           w.ready = IF w.total >= WritableHighWaterMark THEN "pending" ELSE "resolved"
    BY <1>1 DEF Gauged
  <2>. QED BY <2>1, <2>2, <2>3 DEF BackpressureIsCounted
<1>. QED BY <1>3, <1>4, <1>5 DEF WritableAgrees

(* A writable of any mark and any sizes, whatever its writer and its sink  *)
(* do: the sink has one thing at a time and in order, promises tell what   *)
(* it did, and ready counts what queue and sink hold (web-writable.ts).    *)
THEOREM WritableAgreement == WritableSpec => []WritableAgrees
<1>1. WritableInit => WritableInv(writable)
  BY FirstWritable DEF WritableInit
<1>2. WritableInv(writable) /\ [WritableNext]_writable => WritableInv(writable)'
  BY WritableStepInv
<1>3. WritableInv(writable) => WritableAgrees
  BY WritableSays
<1>. QED BY <1>1, <1>2, <1>3, PTL DEF WritableSpec

-----------------------------------------------------------------------------
(* The writable, as far as it moves the transform.                         *)

WritableNames ==
    {"state", "queue", "active", "start", "advancing", "closeRequested", "abortStarted",
     "aborts", "errors", "closes", "total", "backpressure", "ready", "answer", "calls",
     "running", "done"}

IsWritable(w) ==
    /\ w = [n \in WritableNames |-> w[n]]
    /\ \A k \in 1 .. Len(w.queue) : w.queue[k].kind \in {"write", "close"}
    /\ \E S : w.queue \in Seq(S)
    /\ \E S : w.calls \in Seq(S)

\* The sink has been called for the last of the calls.
CalledFor(y, w, call) == y.calls = Append(w.calls, call)

\* What advanceQueue leaves when it goes on: it waits for nothing, or the
\* sink works on the active request, or the sink aborts.
AdvancedFrom(y, w) ==
    \/ y.calls = w.calls /\ y.advancing = "no" /\ y.active.kind = "none"
    \/ \E call : /\ CalledFor(y, w, call) /\ call.kind = y.active.kind
                 /\ call.kind \in {"write", "close"} /\ y.advancing = "sink"
    \/ \E call : /\ CalledFor(y, w, call) /\ call.kind = "abort"
                 /\ y.advancing = "no" /\ y.active.kind = "none"

\* The sink hears nothing of what made y of w.
Unheard(y, w) ==
    /\ IsWritable(y) /\ y.calls = w.calls /\ y.active = w.active
    /\ y.advancing = w.advancing \/ (w.advancing = "no" /\ y.advancing = "start")
    /\ y.state = "closed" => w.state = "closed"

Transforms ==
    [state : {"active", "errored", "terminated"}, start : {"pending", "ok", "failed"},
     step : {"idle", "capacity", "granted", "refused", "user", "flush", "done", "failed"},
     left : Nat, credits : Nat, threw : BOOLEAN, untold : BOOLEAN]

\* An active transform has a readable that takes chunks, or failed in size().
OpenFor(r, t) == CanEnqueue(r) \/ (t.threw /\ r.state = "errored")

\* What the readable r and the writable w are while the transform is t.
Sides(r, w, t) ==
    /\ ReadableInv(r) /\ IsWritable(w) /\ t \in Transforms
    /\ Active(t) =>
          /\ OpenFor(r, t) /\ w.state # "closed"
          /\ t.step # "failed" /\ t.start # "failed"
          /\ w.active.kind = "close" => t.step = "flush"
    /\ ~Active(t) => ~CanEnqueue(r)
    /\ t.state = "errored" /\ r.canceled = 0 => r.state = "errored"
    /\ t.step = "idle" <=> w.advancing # "sink"
    /\ w.active.kind = "close" => w.advancing = "sink"

StreamsInv == Sides(readable, writable, transform)


\* y is w but for what the sink does not hear; its state is st, its queue q.
WritableAs(y, w, st, q) ==
    /\ y = [n \in WritableNames |-> y[n]] /\ y.state = st /\ y.queue = q
    /\ y.calls = w.calls /\ y.active = w.active /\ y.advancing = w.advancing

LEMMA AnsweredAs ==
    ASSUME NEW w, IsWritable(w), NEW ids, NEW result
    PROVE  WritableAs(Answered(w, ids, result), w, w.state, w.queue)
BY DEF IsWritable, WritableNames, WritableAs, Answered

LEMMA RejectedAs ==
    ASSUME NEW w, IsWritable(w) PROVE WritableAs(Rejected(w), w, w.state, <<>>)
<1>. DEFINE a == Answered(w, {w.queue[i].id : i \in DOMAIN w.queue}, "failed")
            y == [a EXCEPT !.queue = <<>>, !.total = w.active.size, !.ready = "rejected"]
<1>1. WritableAs(a, w, w.state, w.queue)
  BY AnsweredAs
<1>2. Rejected(w) = y
  BY DEF Rejected
<1>. HIDE DEF a
<1>3. WritableAs(y, w, w.state, <<>>)
  BY <1>1 DEF WritableAs, WritableNames
<1>. QED BY <1>2, <1>3

LEMMA UnheardAs ==
    ASSUME NEW w, IsWritable(w), NEW y, NEW st, NEW q, WritableAs(y, w, st, q),
           q = w.queue \/ q = <<>>, st = "closed" => w.state = "closed"
    PROVE  Unheard(y, w)
<1>1. /\ \A k \in 1 .. Len(q) : q[k].kind \in {"write", "close"}
      /\ \E S : q \in Seq(S)
  <2>1. CASE q = <<>>
    <3>1. Len(q) = 0 /\ q \in Seq({})
      BY <2>1
    <3>. QED BY <3>1
  <2>2. CASE q = w.queue
    BY <2>2 DEF IsWritable
  <2>. QED BY <2>1, <2>2
<1>2. IsWritable(y)
  BY <1>1 DEF IsWritable, WritableAs
<1>. QED BY <1>2 DEF WritableAs, Unheard

LEMMA UnheardTwice ==
    ASSUME NEW w, NEW y, NEW z, Unheard(y, w), Unheard(z, y)
    PROVE  Unheard(z, w)
BY DEF Unheard

LEMMA UpdateUnheard ==
    ASSUME NEW w, IsWritable(w)
    PROVE  Unheard(UpdateBackpressure(w), w) /\ UpdateBackpressure(w).state = w.state
<1>1. WritableAs(UpdateBackpressure(w), w, w.state, w.queue)
  BY DEF UpdateBackpressure, WritableAs, IsWritable, WritableNames
<1>. QED BY <1>1, UnheardAs DEF WritableAs

LEMMA FinishErrorUnheard ==
    ASSUME NEW w, IsWritable(w)
    PROVE  /\ Unheard(FinishError(w), w) /\ FinishError(w).advancing = w.advancing
           /\ FinishError(w).state = "closed" <=> w.state = "closed"
<1>1. CASE w.state # "erroring"
  BY <1>1 DEF FinishError, Unheard
<1>2. CASE w.state = "erroring"
  <2> DEFINE a == Answered(w, w.errors, "failed")
             y == [a EXCEPT !.state = "errored", !.errors = {}]
  <2>1. WritableAs(a, w, w.state, w.queue)
    BY AnsweredAs
  <2>2. FinishError(w) = y
    BY <1>2 DEF FinishError
  <2>. HIDE DEF a
  <2>3. WritableAs(y, w, "errored", w.queue)
    BY <2>1 DEF WritableAs, WritableNames
  <2>4. Unheard(y, w)
    BY <2>3, UnheardAs
  <2>. QED BY <1>2, <2>2, <2>3, <2>4 DEF WritableAs
<1>. QED BY <1>1, <1>2

LEMMA ErrorUnheard ==
    ASSUME NEW w, IsWritable(w)
    PROVE  /\ Unheard(ErrorWritable(w), w) /\ ErrorWritable(w).advancing = w.advancing
           /\ ErrorWritable(w).state = "closed" => w.state = "closed"
<1>1. CASE w.state # "writable"
  BY <1>1 DEF ErrorWritable, Unheard
<1>2. CASE w.state = "writable"
  <2> DEFINE a == Rejected(w)
             e == [a EXCEPT !.state = "erroring"]
  <2>1. WritableAs(a, w, w.state, <<>>)
    BY RejectedAs
  <2>2. ErrorWritable(w) = IF w.advancing = "no" THEN FinishError(e) ELSE e
    BY <1>2 DEF ErrorWritable
  <2>. HIDE DEF a
  <2>3. WritableAs(e, w, "erroring", <<>>)
    BY <2>1 DEF WritableAs, WritableNames
  <2>. HIDE DEF e
  <2>4. Unheard(e, w) /\ e.state = "erroring" /\ e.advancing = w.advancing
    BY <2>3, UnheardAs DEF WritableAs
  <2>5. Unheard(FinishError(e), e) /\ FinishError(e).advancing = e.advancing
    BY <2>4, FinishErrorUnheard DEF Unheard
  <2>. QED BY <2>2, <2>4, <2>5, UnheardTwice DEF Unheard
<1>. QED BY <1>1, <1>2

LEMMA AdvancedUnheard ==
    ASSUME NEW w, IsWritable(w) PROVE Unheard(Advanced(w), w)
<1>1. CASE w.advancing = "no"
  <2> DEFINE y == [w EXCEPT !.advancing = "start"]
  <2>1. /\ y = [n \in WritableNames |-> y[n]] /\ y.state = w.state /\ y.queue = w.queue
        /\ y.calls = w.calls /\ y.active = w.active /\ y.advancing = "start"
    BY DEF IsWritable, WritableNames
  <2>2. Advanced(w) = y
    BY <1>1 DEF Advanced
  <2>. HIDE DEF y
  <2>3. IsWritable(y)
    BY <2>1 DEF IsWritable
  <2>. QED BY <1>1, <2>1, <2>2, <2>3 DEF Unheard
<1>2. CASE w.advancing # "no"
  BY <1>2 DEF Advanced, Unheard
<1>. QED BY <1>1, <1>2

LEMMA AbortForUnheard ==
    ASSUME NEW w, IsWritable(w), NEW ids PROVE Unheard(AbortFor(w, ids), w)
<1>1. ASSUME NEW y, WritableAs(y, w, w.state, w.queue) PROVE Unheard(y, w)
  BY <1>1, UnheardAs
<1>2. WritableAs(Answered(w, ids, "ok"), w, w.state, w.queue)
  BY AnsweredAs
<1>3. /\ WritableAs([w EXCEPT !.aborts = @ \cup ids], w, w.state, w.queue)
      /\ WritableAs([w EXCEPT !.closes = @ \cup ids], w, w.state, w.queue)
      /\ WritableAs([w EXCEPT !.errors = @ \cup ids], w, w.state, w.queue)
  BY DEF IsWritable, WritableAs, WritableNames
<1> DEFINE a == Rejected(w)
           e == [a EXCEPT !.state = "aborting", !.closeRequested = TRUE, !.aborts = ids]
<1>4. Unheard(Advanced(e), w)
  <2>1. WritableAs(a, w, w.state, <<>>)
    BY RejectedAs
  <2>. HIDE DEF a
  <2>2. WritableAs(e, w, "aborting", <<>>)
    BY <2>1 DEF WritableAs, WritableNames
  <2>. HIDE DEF e
  <2>3. Unheard(e, w)
    BY <2>2, UnheardAs
  <2>4. Unheard(Advanced(e), e)
    BY <2>3, AdvancedUnheard DEF Unheard
  <2>. QED BY <2>3, <2>4, UnheardTwice
<1>. QED
  <2>1. \/ AbortFor(w, ids) = Answered(w, ids, "ok")
        \/ AbortFor(w, ids) = [w EXCEPT !.aborts = @ \cup ids]
        \/ AbortFor(w, ids) = [w EXCEPT !.closes = @ \cup ids]
        \/ AbortFor(w, ids) = [w EXCEPT !.errors = @ \cup ids]
        \/ AbortFor(w, ids) = Advanced(e)
    BY DEF AbortFor
  <2>. HIDE DEF e
  <2>. QED BY <1>1, <1>2, <1>3, <1>4, <2>1

LEMMA AskedUnheard ==
    ASSUME NEW w, IsWritable(w), NEW size
    PROVE  /\ Unheard(WriteAsked(w, size), w) /\ Unheard(CloseAsked(w), w)
           /\ Unheard(AbortAsked(w), w)
<1>0. ASSUME NEW y, NEW c, c.kind \in {"write", "close"},
             WritableAs(y, w, w.state, Append(w.queue, c))
      PROVE  Unheard(y, w)
  <2>1. PICK S : w.queue \in Seq(S)
    BY DEF IsWritable
  <2>2. w.queue \in Seq(S \cup {c})
    BY <2>1
  <2>3. /\ Append(w.queue, c) \in Seq(S \cup {c}) /\ Len(w.queue) \in Nat
        /\ Len(Append(w.queue, c)) = Len(w.queue) + 1
        /\ Append(w.queue, c)[Len(w.queue) + 1] = c
        /\ \A k \in 1 .. Len(w.queue) : Append(w.queue, c)[k] = w.queue[k]
    BY <2>2, AppendProperties
  <2>4. \A k \in 1 .. Len(w.queue) + 1 : Append(w.queue, c)[k].kind \in {"write", "close"}
    <3> DEFINE m == Len(w.queue)
               a == Append(w.queue, c)
    <3>1. /\ m \in Nat /\ a[m + 1] = c /\ \A k \in 1 .. m : a[k].kind \in {"write", "close"}
      BY <2>3 DEF IsWritable
    <3>. HIDE DEF m, a
    <3>2. \A k \in 1 .. m + 1 : a[k].kind \in {"write", "close"}
      BY <1>0, <3>1
    <3>. QED BY <3>2 DEF m, a
  <2>5. IsWritable(y)
    BY <1>0, <2>3, <2>4 DEF IsWritable, WritableAs
  <2>. QED BY <1>0, <2>5 DEF Unheard, WritableAs
<1>1. ASSUME NEW a PROVE WritableAs([w EXCEPT !.answer = a], w, w.state, w.queue)
  BY DEF IsWritable, WritableAs, WritableNames
<1>2. ASSUME NEW a PROVE Unheard([w EXCEPT !.answer = a], w)
  BY <1>1, UnheardAs
<1>3. Unheard(WriteAsked(w, size), w)
  <2> DEFINE c == [kind |-> "write", id |-> Len(w.answer) + 1, size |-> size]
             a == Append(w.answer, "pending")
             q == Append(w.queue, c)
             t == w.total + size
             y == [w EXCEPT !.answer = a, !.queue = q, !.total = t]
  <2>1. WriteAsked(w, size) = IF w.state # "writable" \/ w.closeRequested
                              THEN [w EXCEPT !.answer = Append(@, "failed")]
                              ELSE Advanced(UpdateBackpressure(y))
    BY DEF WriteAsked
  <2>2. c.kind \in {"write", "close"}
    OBVIOUS
  <2>. HIDE DEF c, a, t
  <2>q. q = Append(w.queue, c)
    OBVIOUS
  <2>. HIDE DEF q
  <2>3. WritableAs(y, w, w.state, q)
    BY DEF IsWritable, WritableNames, WritableAs
  <2>. HIDE DEF y
  <2>4. Unheard(y, w)
    BY <1>0, <2>q, <2>2, <2>3
  <2>5. Unheard(UpdateBackpressure(y), y)
    BY <2>4, UpdateUnheard DEF Unheard
  <2>6. Unheard(Advanced(UpdateBackpressure(y)), UpdateBackpressure(y))
    BY <2>5, AdvancedUnheard DEF Unheard
  <2>. QED BY <1>2, <2>1, <2>4, <2>5, <2>6, UnheardTwice
<1>4. Unheard(CloseAsked(w), w)
  <2> DEFINE c == [kind |-> "close", id |-> Len(w.answer) + 1, size |-> 0]
             a == Append(w.answer, "pending")
             q == Append(w.queue, c)
             y == [w EXCEPT !.answer = a, !.queue = q, !.closeRequested = TRUE]
  <2>1. CloseAsked(w) = IF w.state # "writable" \/ w.closeRequested
                        THEN [w EXCEPT !.answer = Append(@, "failed")]
                        ELSE Advanced(y)
    BY DEF CloseAsked
  <2>2. c.kind \in {"write", "close"}
    OBVIOUS
  <2>. HIDE DEF c, a
  <2>q. q = Append(w.queue, c)
    OBVIOUS
  <2>. HIDE DEF q
  <2>3. WritableAs(y, w, w.state, q)
    BY DEF IsWritable, WritableNames, WritableAs
  <2>. HIDE DEF y
  <2>4. Unheard(y, w)
    BY <1>0, <2>q, <2>2, <2>3
  <2>5. Unheard(Advanced(y), y)
    BY <2>4, AdvancedUnheard DEF Unheard
  <2>. QED BY <1>2, <2>1, <2>4, <2>5, UnheardTwice
<1>5. Unheard(AbortAsked(w), w)
  <2> DEFINE y == [w EXCEPT !.answer = Append(@, "pending")]
  <2>1. Unheard(y, w)
    BY <1>2
  <2>2. AbortAsked(w) = AbortFor(y, {Len(w.answer) + 1})
    BY DEF AbortAsked
  <2>. HIDE DEF y
  <2>3. Unheard(AbortAsked(w), y)
    BY <2>1, <2>2, AbortForUnheard DEF Unheard
  <2>. QED BY <2>1, <2>3, UnheardTwice
<1>. QED BY <1>3, <1>4, <1>5

-----------------------------------------------------------------------------
(* advanceQueue goes on.                                                   *)

LEMMA CallSinkAs ==
    ASSUME NEW w, IsWritable(w), NEW kind, NEW id
    PROVE  /\ IsWritable(CallSink(w, kind, id))
           /\ CalledFor(CallSink(w, kind, id), w, [kind |-> kind, id |-> id])
           /\ CallSink(w, kind, id).active = w.active
           /\ CallSink(w, kind, id).advancing = w.advancing
           /\ CallSink(w, kind, id).state = w.state
<1>. DEFINE call == [kind |-> kind, id |-> id]
            c == Append(w.calls, call)
            n == w.running \cup {kind}
            y == [w EXCEPT !.calls = c, !.running = n]
<1>1. CallSink(w, kind, id) = y
  BY DEF CallSink
<1>2. \E S : c \in Seq(S)
  <2>1. PICK S : w.calls \in Seq(S)
    BY DEF IsWritable
  <2>2. w.calls \in Seq(S \cup {call}) /\ call \in S \cup {call}
    BY <2>1
  <2>3. c \in Seq(S \cup {call})
    BY <2>2, AppendProperties
  <2>. QED BY <2>3
<1>0. c = Append(w.calls, call)
  OBVIOUS
<1>. HIDE DEF c, n, call
<1>3. /\ y = [m \in WritableNames |-> y[m]] /\ y.calls = c /\ y.queue = w.queue
      /\ y.active = w.active /\ y.advancing = w.advancing /\ y.state = w.state
  BY DEF IsWritable, WritableNames
<1>. HIDE DEF y
<1>4. IsWritable(y) /\ CalledFor(y, w, call)
  BY <1>0, <1>2, <1>3 DEF IsWritable, CalledFor
<1>. QED BY <1>1, <1>3, <1>4 DEF call

LEMMA EndsFrom ==
    ASSUME NEW w, IsWritable(w)
    PROVE  /\ IsWritable(AdvanceEnds(w)) /\ AdvancedFrom(AdvanceEnds(w), w)
           /\ AdvanceEnds(w).state = "closed" => w.state = "closed"
<1>. DEFINE e == [w EXCEPT !.active = NoWrite, !.advancing = "no"]
            f == [e EXCEPT !.abortStarted = TRUE]
<1>1. /\ e = [n \in WritableNames |-> e[n]] /\ e.calls = w.calls /\ e.queue = w.queue
      /\ e.active = NoWrite /\ e.advancing = "no" /\ e.state = w.state
  BY DEF IsWritable, WritableNames
<1>2. AdvanceEnds(w) = IF w.state = "aborting" THEN FinishAbort(e) ELSE FinishError(e)
  BY DEF AdvanceEnds
<1>3. NoWrite.kind = "none"
  BY DEF NoWrite
<1>4. FinishAbort(e) = IF e.abortStarted \/ e.state # "aborting" THEN e
                       ELSE CallSink(f, "abort", 0)
  BY DEF FinishAbort
<1>. HIDE DEF e
<1>5. IsWritable(e)
  BY <1>1 DEF IsWritable
<1>6. CASE AdvanceEnds(w) = e
  BY <1>1, <1>3, <1>5, <1>6 DEF AdvancedFrom
<1>7. CASE AdvanceEnds(w) = CallSink(f, "abort", 0)
  <2>1. /\ f = [n \in WritableNames |-> f[n]] /\ f.calls = e.calls /\ f.queue = e.queue
        /\ f.active = e.active /\ f.advancing = e.advancing /\ f.state = e.state
    BY <1>1 DEF WritableNames
  <2>. HIDE DEF f
  <2>2. IsWritable(f)
    BY <1>5, <2>1 DEF IsWritable
  <2>. DEFINE y == CallSink(f, "abort", 0)
              call == [kind |-> "abort", id |-> 0]
  <2>3. /\ IsWritable(y) /\ CalledFor(y, f, call) /\ y.active = f.active
        /\ y.advancing = f.advancing /\ y.state = f.state
    BY <2>2, CallSinkAs
  <2>4. call.kind = "abort"
    OBVIOUS
  <2>5. y = AdvanceEnds(w)
    BY <1>7
  <2>. HIDE DEF y, call
  <2>6. CalledFor(y, w, call)
    BY <1>1, <2>1, <2>3 DEF CalledFor
  <2>7. y.advancing = "no" /\ y.active.kind = "none" /\ y.state = w.state
    BY <1>1, <1>3, <2>1, <2>3
  <2>8. AdvancedFrom(y, w)
    BY <2>4, <2>6, <2>7 DEF AdvancedFrom
  <2>. QED BY <2>3, <2>5, <2>7, <2>8
<1>8. CASE AdvanceEnds(w) = FinishError(e)
  <2>. DEFINE y == FinishError(e)
  <2>1. /\ Unheard(y, e) /\ y.advancing = e.advancing
        /\ y.state = "closed" <=> e.state = "closed"
    BY <1>5, FinishErrorUnheard
  <2>2. y = AdvanceEnds(w)
    BY <1>8
  <2>. HIDE DEF y
  <2>3. IsWritable(y) /\ AdvancedFrom(y, w)
    BY <1>1, <1>3, <2>1 DEF Unheard, AdvancedFrom
  <2>. QED BY <1>1, <2>1, <2>2, <2>3
<1>. QED BY <1>2, <1>4, <1>6, <1>7, <1>8

LEMMA LoopFrom ==
    ASSUME NEW w, IsWritable(w)
    PROVE  /\ IsWritable(AdvanceLoop(w)) /\ AdvancedFrom(AdvanceLoop(w), w)
           /\ AdvanceLoop(w).state = "closed" => w.state = "closed"
<1>1. CASE ~(w.state = "writable" /\ w.queue # <<>>)
  BY <1>1, EndsFrom DEF AdvanceLoop
<1>2. CASE w.state = "writable" /\ w.queue # <<>>
  <2>. DEFINE next == Head(w.queue)
              q == Tail(w.queue)
              e == [w EXCEPT !.queue = q, !.active = next, !.advancing = "sink"]
              call == [kind |-> next.kind, id |-> next.id]
              y == CallSink(e, next.kind, next.id)
  <2>1. AdvanceLoop(w) = y
    BY <1>2 DEF AdvanceLoop
  <2>2. /\ next.kind \in {"write", "close"}
        /\ \A k \in 1 .. Len(q) : q[k].kind \in {"write", "close"}
        /\ \E S : q \in Seq(S)
    <3>1. PICK S : w.queue \in Seq(S)
      BY DEF IsWritable
    <3>2. /\ Len(w.queue) \in Nat \ {0} /\ next = w.queue[1] /\ q \in Seq(S)
          /\ Len(q) = Len(w.queue) - 1
          /\ \A k \in 1 .. Len(q) : q[k] = w.queue[k + 1]
      BY <1>2, <3>1, HeadTailProperties, EmptySeq, LenProperties
    <3>. DEFINE m == Len(w.queue)
                l == Len(q)
    <3>3. /\ m \in Nat \ {0} /\ next = w.queue[1] /\ l = m - 1
          /\ \A k \in 1 .. l : q[k] = w.queue[k + 1]
          /\ \A k \in 1 .. m : w.queue[k].kind \in {"write", "close"}
      BY <3>2 DEF IsWritable
    <3>. HIDE DEF m, l, next, q
    <3>4. next.kind \in {"write", "close"} /\ \A k \in 1 .. l : q[k].kind \in {"write", "close"}
      BY <3>3
    <3>. QED BY <3>2, <3>4 DEF l
  <2>3. call.kind = next.kind
    OBVIOUS
  <2>. HIDE DEF next, q
  <2>4. /\ e = [n \in WritableNames |-> e[n]] /\ e.calls = w.calls /\ e.queue = q
        /\ e.active = next /\ e.advancing = "sink" /\ e.state = w.state
    BY DEF IsWritable, WritableNames
  <2>. HIDE DEF e
  <2>5. IsWritable(e)
    BY <2>2, <2>4 DEF IsWritable
  <2>6. /\ IsWritable(y) /\ CalledFor(y, e, call) /\ y.active = e.active
        /\ y.advancing = e.advancing /\ y.state = e.state
    BY <2>5, CallSinkAs
  <2>. HIDE DEF y, call
  <2>7. CalledFor(y, w, call)
    BY <2>4, <2>6 DEF CalledFor
  <2>8. AdvancedFrom(y, w)
    BY <2>2, <2>3, <2>4, <2>6, <2>7 DEF AdvancedFrom
  <2>. QED BY <2>1, <2>4, <2>6, <2>8
<1>. QED BY <1>1, <1>2

\* It goes on from z, which w has become without a call of the sink.
LEMMA FromThere ==
    ASSUME NEW w, NEW z, NEW y, AdvancedFrom(y, z), z.calls = w.calls
    PROVE  AdvancedFrom(y, w)
BY DEF AdvancedFrom, CalledFor

LEMMA ErrorFrom ==
    ASSUME NEW w, NEW z, IsWritable(z), z.calls = w.calls
    PROVE  /\ IsWritable(AdvanceEnds(ErrorWritable(z)))
           /\ AdvancedFrom(AdvanceEnds(ErrorWritable(z)), w)
           /\ AdvanceEnds(ErrorWritable(z)).state = "closed" => z.state = "closed"
<1>1. Unheard(ErrorWritable(z), z)
  BY ErrorUnheard
<1>2. IsWritable(ErrorWritable(z)) /\ ErrorWritable(z).calls = w.calls
  BY <1>1 DEF Unheard
<1>3. /\ IsWritable(AdvanceEnds(ErrorWritable(z)))
      /\ AdvancedFrom(AdvanceEnds(ErrorWritable(z)), ErrorWritable(z))
      /\ AdvanceEnds(ErrorWritable(z)).state = "closed" => ErrorWritable(z).state = "closed"
  BY <1>2, EndsFrom
<1>. QED BY <1>1, <1>2, <1>3, FromThere DEF Unheard

LEMMA ResumedFrom ==
    ASSUME NEW w, IsWritable(w)
    PROVE  /\ IsWritable(AdvanceResumed(w)) /\ AdvancedFrom(AdvanceResumed(w), w)
           /\ AdvanceResumed(w).state = "closed" => w.state = "closed"
<1>1. CASE w.start = "ok"
  BY <1>1, LoopFrom DEF AdvanceResumed
<1>2. CASE w.start # "ok"
  BY <1>2, ErrorFrom DEF AdvanceResumed
<1>. QED BY <1>1, <1>2

\* What settles in the sink is one of the writes, or the close.
LEMMA ReturnedFrom ==
    ASSUME NEW w, IsWritable(w), NEW ok \in BOOLEAN
    PROVE  /\ IsWritable(SinkReturned(w, ok)) /\ AdvancedFrom(SinkReturned(w, ok), w)
           /\ SinkReturned(w, ok).state = "closed" =>
                 w.state = "closed" \/ (w.active.kind = "close" /\ ok)
<1>. DEFINE Settled(z) == WritableAs(z, w, w.state, w.queue)
<1>0. ASSUME NEW z, Settled(z) PROVE IsWritable(z) /\ z.calls = w.calls /\ z.state = w.state
  <2>1. Unheard(z, w)
    BY <1>0, UnheardAs
  <2>. QED BY <1>0, <2>1 DEF Unheard, WritableAs
<1>1. ASSUME NEW z, Settled(z), NEW ids, NEW result PROVE Settled(Answered(z, ids, result))
  <2>1. WritableAs(Answered(z, ids, result), z, z.state, z.queue)
    BY <1>0, <1>1, AnsweredAs
  <2>. QED BY <1>1, <2>1 DEF WritableAs
<1>2. ASSUME NEW z, Settled(z)
      PROVE  /\ IsWritable(AdvanceEnds(z)) /\ AdvancedFrom(AdvanceEnds(z), w)
             /\ AdvanceEnds(z).state = "closed" => w.state = "closed"
  <2>1. /\ IsWritable(AdvanceEnds(z)) /\ AdvancedFrom(AdvanceEnds(z), z)
        /\ AdvanceEnds(z).state = "closed" => z.state = "closed"
    BY <1>0, <1>2, EndsFrom
  <2>. QED BY <1>0, <1>2, <2>1, FromThere
<1>3. ASSUME NEW z, Settled(z)
      PROVE  /\ IsWritable(AdvanceEnds(ErrorWritable(z)))
             /\ AdvancedFrom(AdvanceEnds(ErrorWritable(z)), w)
             /\ AdvanceEnds(ErrorWritable(z)).state = "closed" => w.state = "closed"
  BY <1>0, <1>3, ErrorFrom
<1>. HIDE DEF Settled
<1>4. CASE w.active.kind = "close"
  <2>. DEFINE ids == {w.active.id} \cup w.closes
              run == w.running \ {"close"}
              did == IF ok THEN w.done \cup {w.active.id} ELSE w.done
              w1 == [w EXCEPT !.running = run, !.done = did]
              a == Answered(w1, ids, "ok")
              e == [a EXCEPT !.state = "closed"]
  <2>1. SinkReturned(w, ok) =
            IF ~ok THEN AdvanceEnds(ErrorWritable(Answered(w1, ids, "failed")))
            ELSE IF Terminating(w) THEN AdvanceEnds(Answered(w1, ids, "failed"))
            ELSE AdvanceEnds(e)
    BY <1>4 DEF SinkReturned, CloseReturned
  <2>. HIDE DEF run, did
  <2>2. Settled(w1)
    BY DEF Settled, WritableAs, IsWritable, WritableNames
  <2>. HIDE DEF w1, ids
  <2>3. Settled(a)
    BY <1>1, <2>2
  <2>. HIDE DEF a
  <2>4. WritableAs(e, w, "closed", w.queue)
    BY <2>3 DEF Settled, WritableAs, WritableNames
  <2>. HIDE DEF e
  <2>5. IsWritable(e) /\ e.calls = w.calls
    BY <2>4 DEF WritableAs, IsWritable
  <2>6. IsWritable(AdvanceEnds(e)) /\ AdvancedFrom(AdvanceEnds(e), e)
    BY <2>5, EndsFrom
  <2>7. AdvancedFrom(AdvanceEnds(e), w)
    BY <2>5, <2>6, FromThere
  <2>8. Settled(Answered(w1, ids, "failed"))
    BY <1>1, <2>2
  <2>9. /\ IsWritable(AdvanceEnds(Answered(w1, ids, "failed")))
        /\ AdvancedFrom(AdvanceEnds(Answered(w1, ids, "failed")), w)
        /\ AdvanceEnds(Answered(w1, ids, "failed")).state = "closed" => w.state = "closed"
    BY <1>2, <2>8
  <2>10. /\ IsWritable(AdvanceEnds(ErrorWritable(Answered(w1, ids, "failed"))))
         /\ AdvancedFrom(AdvanceEnds(ErrorWritable(Answered(w1, ids, "failed"))), w)
         /\ AdvanceEnds(ErrorWritable(Answered(w1, ids, "failed"))).state = "closed"
               => w.state = "closed"
    BY <1>3, <2>8
  <2>. QED BY <1>4, <2>1, <2>6, <2>7, <2>9, <2>10
<1>5. CASE w.active.kind # "close"
  <2>. DEFINE ids == {w.active.id}
              run == w.running \ {"write"}
              tot == w.total - w.active.size
              did == IF ok THEN w.done \cup {w.active.id} ELSE w.done
              w1 == [w EXCEPT !.running = run, !.total = tot, !.done = did]
              a == Answered(w1, ids, "ok")
              e == [a EXCEPT !.active = NoWrite]
              u == UpdateBackpressure(e)
  <2>1. SinkReturned(w, ok) =
            IF ~ok THEN AdvanceEnds(ErrorWritable(Answered(w1, ids, "failed")))
            ELSE IF Terminating(w) THEN AdvanceEnds(Answered(w1, ids, "ok"))
            ELSE AdvanceLoop(u)
    BY <1>5 DEF SinkReturned, WriteReturned
  <2>. HIDE DEF run, did, tot
  <2>2. Settled(w1)
    BY DEF Settled, WritableAs, IsWritable, WritableNames
  <2>. HIDE DEF w1, ids
  <2>3. Settled(a) /\ Settled(Answered(w1, ids, "failed"))
    BY <1>1, <2>2
  <2>4. /\ IsWritable(AdvanceEnds(a)) /\ AdvancedFrom(AdvanceEnds(a), w)
        /\ AdvanceEnds(a).state = "closed" => w.state = "closed"
    BY <1>2, <2>3
  <2>5. /\ IsWritable(AdvanceEnds(ErrorWritable(Answered(w1, ids, "failed"))))
        /\ AdvancedFrom(AdvanceEnds(ErrorWritable(Answered(w1, ids, "failed"))), w)
        /\ AdvanceEnds(ErrorWritable(Answered(w1, ids, "failed"))).state = "closed"
              => w.state = "closed"
    BY <1>3, <2>3
  <2>6. IsWritable(a) /\ a.calls = w.calls /\ a.state = w.state
    BY <1>0, <2>3
  <2>a. a = Answered(w1, ids, "ok")
    OBVIOUS
  <2>. HIDE DEF a
  <2>7. /\ e = [n \in WritableNames |-> e[n]] /\ e.queue = a.queue /\ e.calls = a.calls
        /\ e.state = a.state
    BY <2>6 DEF IsWritable, WritableNames
  <2>. HIDE DEF e
  <2>8. IsWritable(e)
    BY <2>6, <2>7 DEF IsWritable
  <2>9. Unheard(u, e) /\ u.state = e.state
    BY <2>8, UpdateUnheard
  <2>. HIDE DEF u
  <2>10. IsWritable(u) /\ u.calls = w.calls /\ u.state = w.state
    BY <2>6, <2>7, <2>9 DEF Unheard
  <2>11. /\ IsWritable(AdvanceLoop(u)) /\ AdvancedFrom(AdvanceLoop(u), u)
         /\ AdvanceLoop(u).state = "closed" => u.state = "closed"
    BY <2>10, LoopFrom
  <2>12. AdvancedFrom(AdvanceLoop(u), w)
    BY <2>10, <2>11, FromThere
  <2>. QED BY <2>1, <2>4, <2>5, <2>a, <2>10, <2>11, <2>12
<1>. QED BY <1>4, <1>5

LEMMA AbortReturnedUnheard ==
    ASSUME NEW w, IsWritable(w), NEW ok \in BOOLEAN PROVE Unheard(AbortReturned(w, ok), w)
<1>. DEFINE a == Answered(w, w.aborts, IF ok THEN "ok" ELSE "failed")
            run == a.running \ {"abort"}
            y == [a EXCEPT !.state = "errored", !.aborts = {}, !.running = run]
<1>1. WritableAs(a, w, w.state, w.queue)
  BY AnsweredAs
<1>2. AbortReturned(w, ok) = y
  BY DEF AbortReturned
<1>. HIDE DEF a, run
<1>3. WritableAs(y, w, "errored", w.queue)
  BY <1>1 DEF WritableAs, WritableNames
<1>. QED BY <1>2, <1>3, UnheardAs

LEMMA StartUnheard ==
    ASSUME NEW w, IsWritable(w)
    PROVE  /\ Unheard([w EXCEPT !.start = "ok"], w)
           /\ Unheard(ErrorWritable([w EXCEPT !.start = "failed"]), w)
<1>1. ASSUME NEW s PROVE Unheard([w EXCEPT !.start = s], w)
  <2>1. WritableAs([w EXCEPT !.start = s], w, w.state, w.queue)
    BY DEF IsWritable, WritableAs, WritableNames
  <2>. QED BY <2>1, UnheardAs
<1>. DEFINE y == [w EXCEPT !.start = "failed"]
<1>2. Unheard(y, w)
  BY <1>1
<1>. HIDE DEF y
<1>3. Unheard(ErrorWritable(y), y)
  BY <1>2, ErrorUnheard DEF Unheard
<1>4. Unheard(ErrorWritable(y), w)
  BY <1>2, <1>3, UnheardTwice
<1>. QED BY <1>1, <1>4 DEF y

-----------------------------------------------------------------------------
(* What one side does leaves the two sides in agreement.                   *)

LEMMA SidesUnheard ==
    ASSUME NEW r, NEW w, NEW t, NEW y, Sides(r, w, t), Unheard(y, w)
    PROVE  Sides(r, y, t)
BY DEF Sides, Unheard

LEMMA SidesRead ==
    ASSUME NEW r, NEW w, NEW t, NEW y, Sides(r, w, t), ReadableInv(y),
           CanEnqueue(y) <=> CanEnqueue(r), y.canceled = r.canceled,
           r.state = "errored" => y.state = "errored"
    PROVE  Sides(y, w, t)
BY DEF Sides, OpenFor

\* A transform that has got on, with its end, which the write may wait for.
Ended(y, t, st) ==
    /\ y \in Transforms /\ y.state = st /\ y.start = t.start
    /\ y.step = t.step \/ (t.step = "capacity" /\ y.step \in {"granted", "refused"})

LEMMA ErrorEnded ==
    ASSUME NEW t \in Transforms PROVE Ended(ErrorTransform(t), t, "errored")
<1>1. /\ [t EXCEPT !.state = "errored"] \in Transforms
      /\ [t EXCEPT !.state = "errored"].state = "errored"
      /\ [t EXCEPT !.state = "errored"].start = t.start
      /\ [t EXCEPT !.state = "errored"].step = t.step
  BY DEF Transforms
<1>. DEFINE e == [t EXCEPT !.state = "errored"]
<1>2. ErrorTransform(t) = IF e.step = "capacity" THEN [e EXCEPT !.step = "refused"] ELSE e
  BY DEF ErrorTransform, CapacityResolved
<1>. HIDE DEF e
<1>3. /\ e \in Transforms /\ e.state = "errored" /\ e.start = t.start /\ e.step = t.step
  BY <1>1 DEF e
<1>4. CASE e.step = "capacity"
  BY <1>2, <1>3, <1>4 DEF Ended, Transforms
<1>5. CASE e.step # "capacity"
  BY <1>2, <1>3, <1>5 DEF Ended
<1>. QED BY <1>4, <1>5

LEMMA TerminatedEnded ==
    ASSUME NEW t \in Transforms
    PROVE  Ended(CapacityResolved([t EXCEPT !.state = "terminated"], "granted"), t, "terminated")
<1>. DEFINE e == [t EXCEPT !.state = "terminated"]
<1>. SUFFICES Ended(CapacityResolved(e, "granted"), t, "terminated")
  OBVIOUS
<1>1. e \in Transforms /\ e.state = "terminated" /\ e.start = t.start /\ e.step = t.step
  BY DEF Transforms
<1>. HIDE DEF e
<1>2. CASE e.step = "capacity"
  BY <1>1, <1>2 DEF Ended, Transforms, CapacityResolved
<1>3. CASE e.step # "capacity"
  BY <1>1, <1>3 DEF Ended, CapacityResolved
<1>. QED BY <1>2, <1>3

LEMMA SidesEnded ==
    ASSUME NEW r, NEW w, NEW t, NEW y, NEW z, NEW st \in {"errored", "terminated"},
           Sides(r, w, t), Ended(z, t, st), ReadableInv(y), ~CanEnqueue(y),
           st = "errored" /\ y.canceled = 0 => y.state = "errored"
    PROVE  Sides(y, w, z)
BY DEF Sides, Ended, Active

LEMMA SidesErrored ==
    ASSUME NEW r, NEW w, NEW t, Sides(r, w, t), Active(t)
    PROVE  Sides(ErrorReadable(r), w, ErrorTransform(t))
<1>1. /\ ReadableInv(ErrorReadable(r)) /\ ~CanEnqueue(ErrorReadable(r))
      /\ r.state \in {"readable", "errored"} => ErrorReadable(r).state = "errored"
  BY ErrorReadableInv DEF Sides
<1>2. r.state \in {"readable", "errored"}
  BY DEF Sides, OpenFor, CanEnqueue
<1>3. Ended(ErrorTransform(t), t, "errored")
  BY ErrorEnded DEF Sides
<1>. QED BY <1>1, <1>2, <1>3, SidesEnded

\* A step of the sink's write or close that neither begins nor ends it.
LEMMA SidesStep ==
    ASSUME NEW r, NEW w, NEW t, NEW z, Sides(r, w, t), z \in Transforms, z.state = t.state,
           z.start = t.start, z.threw = t.threw, z.step # "idle", t.step # "idle",
           Active(t) => z.step # "failed" /\ t.step # "flush"
    PROVE  Sides(r, w, z)
BY DEF Sides, OpenFor, Active

LEMMA SidesSignalled ==
    ASSUME NEW r, NEW w, NEW t, NEW q, Sides(r, w, t)
    PROVE  Sides(r, w, AfterReadable(t, q))
<1>. DEFINE z == AfterReadable(t, q)
<1>1. t \in Transforms
  BY DEF Sides
<1>2. CASE z = t
  BY <1>2
<1>3. CASE z = [t EXCEPT !.credits = t.credits + 1]
  <2>1. /\ z \in Transforms /\ z.state = t.state /\ z.start = t.start /\ z.step = t.step
        /\ z.threw = t.threw
    BY <1>1, <1>3 DEF Transforms
  <2>. HIDE DEF z
  <2>2. Sides(r, w, z)
    BY <2>1 DEF Sides, OpenFor, Active
  <2>. QED BY <2>2 DEF z
<1>4. CASE t.step = "capacity" /\ z = [t EXCEPT !.step = "granted"]
  <2>1. /\ z \in Transforms /\ z.state = t.state /\ z.start = t.start /\ z.step = "granted"
        /\ z.threw = t.threw
    BY <1>1, <1>4 DEF Transforms
  <2>. HIDE DEF z
  <2>2. Sides(r, w, z)
    BY <1>4, <2>1, SidesStep
  <2>. QED BY <2>2 DEF z
<1>. QED BY <1>2, <1>3, <1>4 DEF AfterReadable, Signalled, CapacityResolved

-----------------------------------------------------------------------------
(* The writable calls its sink.                                            *)

LEMMA LastCalled ==
    ASSUME NEW w, IsWritable(w), NEW y, NEW call, CalledFor(y, w, call)
    PROVE  Last(y.calls) = call /\ Len(y.calls) # Len(w.calls) /\ Len(y.calls) > Len(w.calls)
<1>1. PICK S : w.calls \in Seq(S)
  BY DEF IsWritable
<1>2. w.calls \in Seq(S \cup {call}) /\ call \in S \cup {call}
  BY <1>1
<1>3. /\ Len(y.calls) = Len(w.calls) + 1 /\ Len(w.calls) \in Nat
      /\ y.calls[Len(w.calls) + 1] = call
  BY <1>2, AppendProperties, LenProperties DEF CalledFor
<1>. QED BY <1>3 DEF Last

LEMMA CapacityAsked ==
    ASSUME NEW t \in Transforms, NEW r
    PROVE  /\ CapacityFor(t, r) \in Transforms /\ CapacityFor(t, r).state = t.state
           /\ CapacityFor(t, r).start = t.start /\ CapacityFor(t, r).threw = t.threw
           /\ CapacityFor(t, r).step \in {"capacity", "granted"}
<1>1. CASE CapacityFor(t, r) = [t EXCEPT !.step = "granted"]
  BY <1>1 DEF Transforms
<1>2. CASE CapacityFor(t, r) = [t EXCEPT !.step = "capacity"]
  BY <1>2 DEF Transforms
<1>3. CASE t.credits > 0 /\ CapacityFor(t, r) = [t EXCEPT !.step = "granted", !.credits = @ - 1]
  <2>1. t.credits \in Nat /\ t.credits - 1 \in Nat
    BY <1>3 DEF Transforms
  <2>. DEFINE c == t.credits - 1
  <2>2. c \in Nat /\ CapacityFor(t, r) = [t EXCEPT !.step = "granted", !.credits = c]
    BY <1>3, <2>1
  <2>. HIDE DEF c
  <2>. QED BY <2>2 DEF Transforms
<1>. QED BY <1>1, <1>2, <1>3 DEF CapacityFor

\* t is idle, and the writable goes on from the old one to w.
LEMMA MovesInv ==
    ASSUME NEW w, NEW t, MovesTo(w, t), IsWritable(w), AdvancedFrom(w, writable),
           IsWritable(writable), ReadableInv(readable), t \in Transforms, t.step = "idle",
           Active(t) => OpenFor(readable, t) /\ w.state # "closed" /\ t.start # "failed",
           ~Active(t) => ~CanEnqueue(readable),
           t.state = "errored" /\ readable.canceled = 0 => readable.state = "errored"
    PROVE  StreamsInv'
<1>1. /\ writable' = w /\ transform' = SinkCalled(t, readable, w)
      /\ readable' = SinkCalledReadable(t, w)
  BY DEF MovesTo
<1>2. CASE w.calls = writable.calls /\ w.advancing = "no" /\ w.active.kind = "none"
  <2>1. Len(w.calls) = Len(writable.calls) /\ Len(w.calls) \in Nat
    BY <1>2, LenProperties DEF IsWritable
  <2>2. transform' = t /\ readable' = readable
    BY <1>1, <2>1 DEF SinkCalled, SinkCalledReadable
  <2>. QED BY <1>1, <1>2, <2>2 DEF StreamsInv, Sides
<1>3. CASE \E call : /\ CalledFor(w, writable, call) /\ call.kind = w.active.kind
                     /\ call.kind \in {"write", "close"} /\ w.advancing = "sink"
  <2>1. PICK call : /\ CalledFor(w, writable, call) /\ call.kind = w.active.kind
                    /\ call.kind \in {"write", "close"} /\ w.advancing = "sink"
    BY <1>3
  <2>2. Last(w.calls) = call /\ Len(w.calls) # Len(writable.calls)
    BY <2>1, LastCalled
  <2>3. readable' = readable
    BY <1>1, <2>1, <2>2 DEF SinkCalledReadable
  <2>4. CASE ~Active(t)
    <3>1. transform' = [t EXCEPT !.step = "failed"]
      BY <1>1, <2>1, <2>2, <2>4 DEF SinkCalled
    <3>2. /\ transform' \in Transforms /\ transform'.state = t.state
          /\ transform'.step = "failed"
      BY <3>1 DEF Transforms
    <3>. QED BY <1>1, <2>1, <2>3, <2>4, <3>2 DEF StreamsInv, Sides, Active
  <2>5. CASE Active(t) /\ call.kind = "write"
    <3>1. transform' = CapacityFor(t, readable)
      BY <1>1, <2>1, <2>2, <2>5 DEF SinkCalled
    <3>2. /\ transform' \in Transforms /\ transform'.state = t.state
          /\ transform'.start = t.start /\ transform'.step \in {"capacity", "granted"}
          /\ transform'.threw = t.threw
      BY <3>1, CapacityAsked
    <3>. QED BY <1>1, <2>1, <2>3, <2>5, <3>2 DEF StreamsInv, Sides, OpenFor, Active
  <2>6. CASE Active(t) /\ call.kind = "close"
    <3>1. transform' = [t EXCEPT !.step = "flush"]
      BY <1>1, <2>1, <2>2, <2>6 DEF SinkCalled
    <3>2. /\ transform' \in Transforms /\ transform'.state = t.state
          /\ transform'.start = t.start /\ transform'.step = "flush"
          /\ transform'.threw = t.threw
      BY <3>1 DEF Transforms
    <3>. QED BY <1>1, <2>1, <2>3, <2>6, <3>2 DEF StreamsInv, Sides, OpenFor, Active
  <2>. QED BY <2>1, <2>4, <2>5, <2>6
<1>4. CASE \E call : /\ CalledFor(w, writable, call) /\ call.kind = "abort"
                     /\ w.advancing = "no" /\ w.active.kind = "none"
  <2>1. PICK call : /\ CalledFor(w, writable, call) /\ call.kind = "abort"
                    /\ w.advancing = "no" /\ w.active.kind = "none"
    BY <1>4
  <2>2. /\ Last(w.calls) = call /\ Len(w.calls) # Len(writable.calls)
        /\ Len(w.calls) > Len(writable.calls)
    BY <2>1, LastCalled
  <2>3. CASE ~Active(t)
    <3>1. transform' = t /\ readable' = readable
      BY <1>1, <2>1, <2>2, <2>3 DEF SinkCalled, SinkCalledReadable
    <3>. QED BY <1>1, <2>1, <2>3, <3>1 DEF StreamsInv, Sides
  <2>4. CASE Active(t)
    <3>1. transform' = ErrorTransform(t) /\ readable' = ErrorReadable(readable)
      BY <1>1, <2>1, <2>2, <2>4 DEF SinkCalled, SinkCalledReadable
    <3>2. Sides(readable, w, t)
      BY <2>1, <2>4 DEF Sides
    <3>. QED BY <1>1, <2>4, <3>1, <3>2, SidesErrored DEF StreamsInv
  <2>. QED BY <2>3, <2>4
<1>. QED BY <1>2, <1>3, <1>4 DEF AdvancedFrom

-----------------------------------------------------------------------------
(* The steps of a transform.                                               *)

LEMMA PeerAborted ==
    ASSUME NEW r, NEW t, Sides(r, writable, t), AbortsPeer
    PROVE  Sides(r, writable', t)
<1>1. Unheard(AbortPeer(writable), writable)
  BY AbortForUnheard DEF AbortPeer, Sides
<1>. QED BY <1>1, SidesUnheard DEF AbortsPeer

LEMMA PeerAbortedFor ==
    ASSUME NEW r, NEW t, Sides(r, writable, t)
    PROVE  Sides(r, AbortPeer(writable), t)
<1>1. Unheard(AbortPeer(writable), writable)
  BY AbortForUnheard DEF AbortPeer, Sides
<1>. QED BY <1>1, SidesUnheard

LEMMA StartInv ==
    ASSUME StreamsInv, NEW ok \in BOOLEAN, TransformerStarts(ok)
    PROVE  StreamsInv'
<1>1. Sides(readable, writable, transform) /\ transform \in Transforms
  BY DEF StreamsInv, Sides
<1>2. CASE ok \/ ~Active(transform)
  <2>. DEFINE s == IF ok /\ Active(transform) THEN "ok" ELSE "failed"
  <2>1. transform' = [transform EXCEPT !.start = s] /\ UNCHANGED <<readable, writable>>
    BY <1>2 DEF TransformerStarts
  <2>2. s \in {"ok", "failed"} /\ (Active(transform) => s = "ok")
    BY <1>2
  <2>. HIDE DEF s
  <2>3. /\ transform' \in Transforms /\ transform'.state = transform.state
        /\ transform'.start = s /\ transform'.step = transform.step
        /\ transform'.threw = transform.threw
    BY <1>1, <2>1, <2>2 DEF Transforms
  <2>. QED BY <1>1, <2>1, <2>2, <2>3 DEF StreamsInv, Sides, OpenFor, Active
<1>3. CASE ~ok /\ Active(transform)
  <2>. DEFINE e == ErrorTransform(transform)
  <2>1. Sides(ErrorReadable(readable), writable, e)
    BY <1>1, <1>3, SidesErrored
  <2>2. /\ transform' = [e EXCEPT !.start = "failed"] /\ readable' = ErrorReadable(readable)
        /\ AbortsPeer
    BY <1>3 DEF TransformerStarts
  <2>3. e.state = "errored"
    BY <1>1, ErrorEnded DEF Ended
  <2>. HIDE DEF e
  <2>4. Sides(readable', writable', e)
    BY <2>1, <2>2, PeerAborted
  <2>5. e \in Transforms
    BY <2>4 DEF Sides
  <2>6. /\ transform' \in Transforms /\ transform'.state = "errored"
        /\ transform'.step = e.step
    BY <2>2, <2>3, <2>5 DEF Transforms
  <2>. QED BY <2>3, <2>4, <2>6 DEF StreamsInv, Sides, Active
<1>. QED BY <1>2, <1>3

LEMMA StartsHeard ==
    ASSUME StreamsInv, ReadableStarts \/ WritableStarts PROVE StreamsInv'
<1>1. Sides(readable, writable, transform) /\ transform \in Transforms
  BY DEF StreamsInv, Sides
<1>2. CASE ReadableStarts
  <2>. DEFINE ok == transform.start = "ok"
              y == Started(readable, ok)
  <2>1. /\ transform.start = "ok" \/ transform.start = "failed"
        /\ readable' = y /\ transform' = AfterReadable(transform, readable')
        /\ UNCHANGED writable
    BY <1>1, <1>2 DEF ReadableStarts, Transforms
  <2>2. ok \in BOOLEAN
    OBVIOUS
  <2>3. ~ok => ~CanEnqueue(readable)
    BY <1>1, <2>1 DEF Sides
  <2>. HIDE DEF ok
  <2>4. /\ ReadableInv(y) /\ y.canceled = readable.canceled
        /\ readable.state = "errored" => y.state = "errored"
        /\ ok => (CanEnqueue(y) <=> CanEnqueue(readable))
        /\ ~ok => ~CanEnqueue(y)
    BY <1>1, <2>2, StartedInv DEF Sides
  <2>. HIDE DEF y
  <2>5. Sides(y, writable, transform)
    BY <1>1, <2>3, <2>4, SidesRead
  <2>. QED BY <2>1, <2>5, SidesSignalled DEF StreamsInv
<1>3. CASE WritableStarts
  <2>1. Unheard(writable', writable)
    BY <1>1, <1>3, StartUnheard DEF WritableStarts, SinkStarts, Sides
  <2>2. UNCHANGED <<readable, transform>>
    BY <1>3 DEF WritableStarts
  <2>. QED BY <1>1, <2>1, <2>2, SidesUnheard DEF StreamsInv
<1>. QED BY <1>2, <1>3

LEMMA InputInv ==
    ASSUME StreamsInv, WriteInput \/ CloseInput \/ AbortInput \/ AbortReturns PROVE StreamsInv'
<1>1. Sides(readable, writable, transform) /\ IsWritable(writable)
  BY DEF StreamsInv, Sides
<1>2. UNCHANGED <<readable, transform>>
  BY DEF WriteInput, CloseInput, AbortInput, AbortReturns
<1>3. Unheard(writable', writable)
  <2>1. CASE WriteInput
    BY <1>1, <2>1, AskedUnheard DEF WriteInput, Write
  <2>2. CASE CloseInput
    BY <1>1, <2>2, AskedUnheard DEF CloseInput, CloseWritable
  <2>3. CASE AbortInput
    BY <1>1, <2>3, AskedUnheard DEF AbortInput, AbortWritable
  <2>4. CASE AbortReturns
    BY <1>1, <2>4, AbortReturnedUnheard DEF AbortReturns, SinkAbortSettles
  <2>. QED BY <2>1, <2>2, <2>3, <2>4
<1>. QED BY <1>1, <1>2, <1>3, SidesUnheard DEF StreamsInv

LEMMA WritableAdvancesInv ==
    ASSUME StreamsInv, WritableAdvances PROVE StreamsInv'
<1>. DEFINE w == AdvanceResumed(writable)
<1>1. Sides(readable, writable, transform)
  BY DEF StreamsInv
<1>2. MovesTo(w, transform) /\ writable.advancing = "start"
  BY DEF WritableAdvances
<1>3. /\ IsWritable(w) /\ AdvancedFrom(w, writable)
      /\ w.state = "closed" => writable.state = "closed"
  BY <1>1, ResumedFrom DEF Sides
<1>. HIDE DEF w
<1>. QED BY <1>1, <1>2, <1>3, MovesInv DEF Sides

LEMMA SinkReturnsInv ==
    ASSUME StreamsInv, SinkReturns PROVE StreamsInv'
<1>. DEFINE ok == transform.step = "done"
            w == SinkReturned(writable, ok)
            t == [transform EXCEPT !.step = "idle"]
<1>1. Sides(readable, writable, transform) /\ transform \in Transforms
  BY DEF StreamsInv, Sides
<1>2. MovesTo(w, t) /\ transform.step \in {"done", "failed"}
  BY DEF SinkReturns
<1>3. /\ IsWritable(w) /\ AdvancedFrom(w, writable)
      /\ w.state = "closed" => writable.state = "closed" \/ (writable.active.kind = "close" /\ ok)
  BY <1>1, ReturnedFrom DEF Sides
<1>4. /\ t \in Transforms /\ t.state = transform.state /\ t.start = transform.start
      /\ t.step = "idle" /\ t.threw = transform.threw
  BY <1>1 DEF Transforms
<1>5. Active(transform) => w.state # "closed"
  BY <1>1, <1>2, <1>3 DEF Sides
<1>. HIDE DEF w, t, ok
<1>6. Active(t) <=> Active(transform)
  BY <1>4 DEF Active
<1>7. Active(transform) => OpenFor(readable, t)
  BY <1>1, <1>4 DEF Sides, OpenFor
<1>. QED BY <1>1, <1>2, <1>3, <1>4, <1>5, <1>6, <1>7, MovesInv DEF Sides

LEMMA OutputInv ==
    ASSUME StreamsInv, ReadOutput \/ PullReturns PROVE StreamsInv'
<1>1. Sides(readable, writable, transform) /\ ReadableInv(readable)
  BY DEF StreamsInv, Sides
<1>2. UNCHANGED writable /\ transform' = AfterReadable(transform, readable')
  BY DEF ReadOutput, PullReturns
<1>3. Sides(readable', writable, transform)
  <2>1. CASE ReadOutput
    <3>1. readable' = ReadFrom(readable)
      BY <2>1 DEF ReadOutput, ReadChunk
    <3>. QED BY <1>1, <3>1, ReadFromInv, SidesRead
  <2>2. CASE PullReturns
    <3>1. readable' = Pulled(readable, TRUE)
      BY <2>2 DEF PullReturns
    <3>2. ReadableInv(readable') /\ StaysOpen(readable', readable)
      BY <1>1, <3>1, PulledInv
    <3>. QED BY <1>1, <3>2, SidesRead DEF StaysOpen
  <2>. QED BY <2>1, <2>2
<1>. QED BY <1>2, <1>3, SidesSignalled DEF StreamsInv

LEMMA CancelInv ==
    ASSUME StreamsInv, CancelOutput PROVE StreamsInv'
<1>1. Sides(readable, writable, transform) /\ ReadableInv(readable) /\ transform \in Transforms
  BY DEF StreamsInv, Sides
<1>2. ReadableInv(readable') /\ ~CanEnqueue(readable') /\ readable'.canceled = 1
  BY <1>1, CanceledInv DEF CancelOutput, CancelReadable
<1>3. CASE Active(transform)
  <2>1. /\ transform' = CapacityResolved([transform EXCEPT !.state = "terminated"], "granted")
        /\ writable' = AbortPeer(writable)
    BY <1>3 DEF CancelOutput
  <2>2. Ended(transform', transform, "terminated")
    BY <1>1, <2>1, TerminatedEnded
  <2>3. Sides(readable', writable, transform')
    BY <1>1, <1>2, <2>2, SidesEnded
  <2>. QED BY <2>1, <2>3, PeerAbortedFor DEF StreamsInv
<1>4. CASE ~Active(transform)
  <2>1. UNCHANGED <<writable, transform>>
    BY <1>4 DEF CancelOutput
  <2>. QED BY <1>1, <1>2, <1>4, <2>1 DEF StreamsInv, Sides
<1>. QED BY <1>3, <1>4

LEMMA EmitInv ==
    ASSUME StreamsInv, Emit PROVE StreamsInv'
<1>. DEFINE l == IF transform.left > 0 THEN transform.left - 1 ELSE 0
            t == [transform EXCEPT !.left = l]
<1>1. Sides(readable, writable, transform) /\ transform \in Transforms
  BY DEF StreamsInv, Sides
<1>2. /\ CanEnqueue(readable) /\ UNCHANGED writable
      /\ transform' = AfterReadable(t, readable')
  BY DEF Emit
<1>3. l \in Nat
  BY <1>1 DEF Transforms
<1>. HIDE DEF l
<1>4. /\ t \in Transforms /\ t.state = transform.state /\ t.start = transform.start
      /\ t.step = transform.step /\ t.threw = transform.threw
  BY <1>1, <1>3 DEF Transforms
<1>. HIDE DEF t
<1>5. Sides(readable, writable, t)
  BY <1>1, <1>4 DEF Sides, OpenFor, Active
<1>6. PICK size \in ReadableSizes : readable' = Enqueued(readable, size)
  BY DEF Emit
<1>7. size \in Nat
  BY ReadableAssumption
<1>8. /\ ReadableInv(readable') /\ CanEnqueue(readable')
      /\ readable'.canceled = readable.canceled
  BY <1>1, <1>2, <1>6, <1>7, EnqueuedInv DEF Sides
<1>9. readable.state # "errored"
  BY <1>2 DEF CanEnqueue
<1>10. Sides(readable', writable, t)
  BY <1>2, <1>5, <1>8, <1>9, SidesRead
<1>. QED BY <1>2, <1>10, SidesSignalled DEF StreamsInv

\* The readable of an active transform fails alone, and size() is what did it.
LEMMA EmitThrowsInv ==
    ASSUME StreamsInv, EmitThrows PROVE StreamsInv'
<1>1. /\ Sides(readable, writable, transform) /\ transform \in Transforms
      /\ Active(transform) /\ ReadableInv(readable)
  BY DEF StreamsInv, Sides, EmitThrows, Emitting
<1>2. /\ readable' = ErrorReadable(readable) /\ readable.state = "readable"
      /\ transform' = [transform EXCEPT !.left = 0, !.threw = TRUE] /\ UNCHANGED writable
  BY DEF EmitThrows, SizeFails, CanEnqueue
<1>3. /\ ReadableInv(readable') /\ ~CanEnqueue(readable') /\ readable'.state = "errored"
  BY <1>1, <1>2, ErrorReadableInv
<1>4. /\ transform' \in Transforms /\ transform'.state = transform.state
      /\ transform'.start = transform.start /\ transform'.step = transform.step
      /\ transform'.threw
  BY <1>1, <1>2 DEF Transforms
<1>. QED BY <1>1, <1>2, <1>3, <1>4 DEF StreamsInv, Sides, OpenFor, Active

LEMMA BeginsInv ==
    ASSUME StreamsInv, TransformBegins PROVE StreamsInv'
<1>1. Sides(readable, writable, transform) /\ transform \in Transforms
  BY DEF StreamsInv, Sides
<1>2. UNCHANGED <<readable, writable>> /\ transform.step \in {"granted", "refused"}
  BY DEF TransformBegins
<1>3. CASE Active(transform)
  <2>1. PICK n \in Emits : transform' = [transform EXCEPT !.step = "user", !.left = n]
    BY <1>3 DEF TransformBegins
  <2>2. n \in Nat
    BY TransformAssumption
  <2>3. /\ transform' \in Transforms /\ transform'.state = transform.state
        /\ transform'.start = transform.start /\ transform'.step = "user"
        /\ transform'.threw = transform.threw
    BY <1>1, <2>1, <2>2 DEF Transforms
  <2>. QED BY <1>1, <1>2, <2>3, SidesStep DEF StreamsInv
<1>4. CASE ~Active(transform)
  <2>1. transform' = [transform EXCEPT !.step = "failed"]
    BY <1>4 DEF TransformBegins
  <2>2. /\ transform' \in Transforms /\ transform'.state = transform.state
        /\ transform'.start = transform.start /\ transform'.step = "failed"
        /\ transform'.threw = transform.threw
    BY <1>1, <2>1 DEF Transforms
  <2>. QED BY <1>1, <1>2, <1>4, <2>2, SidesStep DEF StreamsInv
<1>. QED BY <1>3, <1>4

LEMMA SettlesInv ==
    ASSUME StreamsInv, NEW ok \in BOOLEAN, TransformSettles(ok) PROVE StreamsInv'
<1>1. /\ Sides(readable, writable, transform) /\ transform \in Transforms
      /\ transform.step = "user"
  BY DEF StreamsInv, Sides, TransformSettles
<1>2. CASE ok \/ ~Active(transform)
  <2>. DEFINE s == IF ok /\ Active(transform) THEN "done" ELSE "failed"
  <2>1. /\ transform' = [transform EXCEPT !.left = 0, !.step = s]
        /\ UNCHANGED <<readable, writable>>
    BY <1>2 DEF TransformSettles
  <2>2. s \in {"done", "failed"} /\ (Active(transform) => s = "done")
    BY <1>2
  <2>. HIDE DEF s
  <2>3. /\ transform' \in Transforms /\ transform'.state = transform.state
        /\ transform'.start = transform.start /\ transform'.step = s
        /\ transform'.threw = transform.threw
    BY <1>1, <2>1, <2>2 DEF Transforms
  <2>4. /\ transform'.step # "idle" /\ transform.step # "idle"
        /\ Active(transform) => transform'.step # "failed" /\ transform.step # "flush"
    BY <1>1, <2>2, <2>3
  <2>5. Sides(readable, writable, transform')
    BY ONLY <1>1, <2>3, <2>4, SidesStep
  <2>. QED BY <2>1, <2>5 DEF StreamsInv
<1>3. CASE ~ok /\ Active(transform)
  <2>. DEFINE e == ErrorTransform(transform)
              y == ErrorReadable(readable)
  <2>1. Sides(y, writable, e)
    BY <1>1, <1>3, SidesErrored
  <2>2. Ended(e, transform, "errored")
    BY <1>1, ErrorEnded
  <2>3. /\ transform' = [e EXCEPT !.left = 0, !.step = "failed"] /\ readable' = y
        /\ writable' = AbortPeer(writable)
    BY <1>3 DEF TransformSettles
  <2>. HIDE DEF e, y
  <2>4. /\ transform' \in Transforms /\ transform'.state = e.state
        /\ transform'.start = e.start /\ transform'.step = "failed"
        /\ transform'.threw = e.threw
    BY <2>2, <2>3 DEF Ended, Transforms
  <2>5. ~Active(e) /\ e.step # "idle"
    BY <1>1, <2>2 DEF Ended, Active
  <2>6. Sides(y, writable, transform')
    BY <2>1, <2>4, <2>5, SidesStep
  <2>. QED BY <2>3, <2>6, PeerAbortedFor DEF StreamsInv
<1>. QED BY <1>2, <1>3

LEMMA FlushInv ==
    ASSUME StreamsInv, NEW ok \in BOOLEAN, FlushSettles(ok) PROVE StreamsInv'
<1>1. /\ Sides(readable, writable, transform) /\ transform \in Transforms
      /\ transform.step = "flush" /\ ReadableInv(readable)
  BY DEF StreamsInv, Sides, FlushSettles
<1>2. CASE ~Active(transform)
  <2>. DEFINE s == IF ok THEN "done" ELSE "failed"
  <2>1. transform' = [transform EXCEPT !.step = s] /\ UNCHANGED <<readable, writable>>
    BY <1>2 DEF FlushSettles
  <2>2. s \in {"done", "failed"}
    OBVIOUS
  <2>. HIDE DEF s
  <2>3. /\ transform' \in Transforms /\ transform'.state = transform.state
        /\ transform'.start = transform.start /\ transform'.step = s
        /\ transform'.threw = transform.threw
    BY <1>1, <2>1, <2>2 DEF Transforms
  <2>. QED BY <1>1, <1>2, <2>1, <2>2, <2>3, SidesStep DEF StreamsInv
<1>3. CASE Active(transform) /\ ok /\ CanEnqueue(readable)
  <2>1. /\ transform' = [transform EXCEPT !.state = "terminated", !.step = "done"]
        /\ readable' = ClosedReadable(readable) /\ UNCHANGED writable
    BY <1>3 DEF FlushSettles
  <2>2. ReadableInv(readable') /\ ~CanEnqueue(readable')
    BY <1>1, <1>3, <2>1, ClosedReadableInv
  <2>3. /\ transform' \in Transforms /\ transform'.state = "terminated"
        /\ transform'.step = "done"
    BY <1>1, <2>1 DEF Transforms
  <2>. QED BY <1>1, <2>1, <2>2, <2>3 DEF StreamsInv, Sides, Active
<1>5. CASE Active(transform) /\ ok /\ ~CanEnqueue(readable)
  <2>1. /\ transform' = [transform EXCEPT !.state = "terminated", !.step = "failed"]
        /\ UNCHANGED <<readable, writable>>
    BY <1>5 DEF FlushSettles
  <2>2. /\ transform' \in Transforms /\ transform'.state = "terminated"
        /\ transform'.step = "failed"
    BY <1>1, <2>1 DEF Transforms
  <2>. QED BY <1>1, <1>5, <2>1, <2>2 DEF StreamsInv, Sides, Active
<1>4. CASE Active(transform) /\ ~ok
  <2>. DEFINE e == ErrorTransform(transform)
              y == ErrorReadable(readable)
  <2>1. Sides(y, writable, e)
    BY <1>1, <1>4, SidesErrored
  <2>2. Ended(e, transform, "errored")
    BY <1>1, ErrorEnded
  <2>3. /\ transform' = [e EXCEPT !.step = "failed"] /\ readable' = y
        /\ writable' = AbortPeer(writable)
    BY <1>4 DEF FlushSettles
  <2>. HIDE DEF e, y
  <2>4. /\ transform' \in Transforms /\ transform'.state = e.state
        /\ transform'.start = e.start /\ transform'.step = "failed"
        /\ transform'.threw = e.threw
    BY <2>2, <2>3 DEF Ended, Transforms
  <2>5. ~Active(e) /\ e.step # "idle"
    BY <1>1, <2>2 DEF Ended, Active
  <2>6. Sides(y, writable, transform')
    BY <2>1, <2>4, <2>5, SidesStep
  <2>. QED BY <2>3, <2>6, PeerAbortedFor DEF StreamsInv
<1>. QED BY <1>2, <1>3, <1>4, <1>5

LEMMA UserEndsInv ==
    ASSUME StreamsInv, TransformerErrors \/ TransformerTerminates \/ TerminateThrows
    PROVE  StreamsInv'
<1>1. /\ Sides(readable, writable, transform) /\ transform \in Transforms
      /\ ReadableInv(readable) /\ Active(transform)
  BY DEF StreamsInv, Sides, TransformerErrors, TransformerTerminates, TerminateThrows
<1>2. CASE TransformerErrors
  <2>1. Sides(readable', writable, transform') /\ AbortsPeer
    BY <1>1, <1>2, SidesErrored DEF TransformerErrors
  <2>. QED BY <2>1, PeerAborted DEF StreamsInv
<1>3. CASE TransformerTerminates
  <2>1. /\ transform' = CapacityResolved([transform EXCEPT !.state = "terminated"], "granted")
        /\ readable' = ClosedReadable(readable) /\ AbortsPeer
    BY <1>3 DEF TransformerTerminates
  <2>2. CanEnqueue(readable)
    BY <1>3 DEF TransformerTerminates
  <2>3. ReadableInv(readable') /\ ~CanEnqueue(readable')
    BY <1>1, <2>1, <2>2, ClosedReadableInv
  <2>4. Ended(transform', transform, "terminated")
    BY <1>1, <2>1, TerminatedEnded
  <2>5. Sides(readable', writable, transform')
    BY <1>1, <2>3, <2>4, SidesEnded
  <2>. QED BY <2>1, <2>5, PeerAborted DEF StreamsInv
<1>4. CASE TerminateThrows
  <2>1. /\ transform' = [transform EXCEPT !.state = "terminated", !.untold = TRUE]
        /\ ~CanEnqueue(readable) /\ UNCHANGED <<readable, writable>>
    BY <1>4 DEF TerminateThrows
  <2>2. Ended(transform', transform, "terminated")
    BY <1>1, <2>1 DEF Ended, Transforms
  <2>3. Sides(readable, writable, transform')
    BY <1>1, <2>1, <2>2, SidesEnded
  <2>. QED BY <2>1, <2>3 DEF StreamsInv
<1>. QED BY <1>2, <1>3, <1>4

LEMMA StreamsStepInv ==
    ASSUME StreamsInv, [TransformNext]_transformVars PROVE StreamsInv'
<1>1. CASE Reactions
  <2>1. CASE \E ok \in BOOLEAN : TransformerStarts(ok) \/ TransformSettles(ok) \/ FlushSettles(ok)
    BY <2>1, StartInv, SettlesInv, FlushInv
  <2>2. CASE ReadableStarts \/ WritableStarts
    BY <2>2, StartsHeard
  <2>3. CASE WritableAdvances
    BY <2>3, WritableAdvancesInv
  <2>4. CASE PullReturns
    BY <2>4, OutputInv
  <2>5. CASE TransformBegins
    BY <2>5, BeginsInv
  <2>6. CASE Emit \/ EmitThrows
    BY <2>6, EmitInv, EmitThrowsInv
  <2>7. CASE SinkReturns
    BY <2>7, SinkReturnsInv
  <2>8. CASE AbortReturns
    BY <2>8, InputInv
  <2>. QED BY <1>1, <2>1, <2>2, <2>3, <2>4, <2>5, <2>6, <2>7, <2>8 DEF Reactions
<1>2. CASE WriteInput \/ CloseInput \/ AbortInput
  BY <1>2, InputInv
<1>3. CASE ReadOutput
  BY <1>3, OutputInv
<1>4. CASE CancelOutput
  BY <1>4, CancelInv
<1>5. CASE TransformerErrors \/ TransformerTerminates \/ TerminateThrows
  BY <1>5, UserEndsInv
<1>6. CASE UNCHANGED transformVars
  BY <1>6 DEF transformVars, StreamsInv
<1>. QED BY <1>1, <1>2, <1>3, <1>4, <1>5, <1>6 DEF TransformNext

LEMMA StreamsInitInv ==
    ASSUME TransformInit PROVE StreamsInv
<1>1. /\ ReadableInv(readable) /\ CanEnqueue(readable)
  BY NewReadableInv DEF TransformInit, CanEnqueue
<1>2. IsWritable(writable) /\ writable.state = "writable" /\ writable.advancing = "no"
      /\ writable.active.kind = "none"
  <2>1. Len(<<>>) = 0 /\ <<>> \in Seq({})
    OBVIOUS
  <2>2. writable = NewWritable
    BY DEF TransformInit
  <2>3. /\ writable = [n \in WritableNames |-> writable[n]] /\ writable.queue = <<>>
        /\ writable.calls = <<>> /\ writable.state = "writable" /\ writable.advancing = "no"
        /\ writable.active = NoWrite
    BY <2>2 DEF NewWritable, WritableNames
  <2>7. Len(writable.queue) = 0 /\ writable.queue \in Seq({}) /\ writable.calls \in Seq({})
    BY <2>1, <2>3
  <2>4. \A k \in 1 .. Len(writable.queue) : writable.queue[k].kind \in {"write", "close"}
    BY <2>7
  <2>5. NoWrite.kind = "none"
    BY DEF NoWrite
  <2>6. IsWritable(writable)
    BY <2>3, <2>4, <2>7 DEF IsWritable
  <2>. QED BY <2>3, <2>5, <2>6
<1>3. /\ transform \in Transforms /\ transform.state = "active" /\ transform.step = "idle"
      /\ transform.start = "pending"
  BY DEF TransformInit, NewTransform, Transforms
<1>. QED BY <1>1, <1>2, <1>3 DEF StreamsInv, Sides, OpenFor, Active

-----------------------------------------------------------------------------
(* The two sides of a transform agree about its end, whatever raced with a *)
(* write, a flush, a cancel or an abort (errorTransform,                   *)
(* terminateTransform); only a size() that throws fails the readable while *)
(* the transform stays active.                                             *)
THEOREM TransformAgreement == TransformSpec => []PeersAgree
<1>1. TransformInit => StreamsInv
  BY StreamsInitInv
<1>2. StreamsInv /\ [TransformNext]_transformVars => StreamsInv'
  BY StreamsStepInv
<1>3. StreamsInv => PeersAgree
  BY DEF StreamsInv, Sides, OpenFor, PeersAgree
<1>. QED BY <1>1, <1>2, <1>3, PTL DEF TransformSpec

(* What a transformer emits reaches the reads of its readable in order, and*)
(* no read waits unheard.                                                  *)
THEOREM TransformDelivery == TransformSpec => []ReadableDelivers
<1>1. TransformInit => StreamsInv
  BY StreamsInitInv
<1>2. StreamsInv /\ [TransformNext]_transformVars => StreamsInv'
  BY StreamsStepInv
<1>3. StreamsInv => ReadableDelivers
  BY DeliveryOrder DEF StreamsInv, Sides
<1>. QED BY <1>1, <1>2, <1>3, PTL DEF TransformSpec

-----------------------------------------------------------------------------
\* A transformer does to its writable what a sink and a writer may do, and
\* aborts it for nobody; it returns from its sink only when it was called.
LEMMA TransformedWritableInv ==
    ASSUME WritableInv(writable), PeersAgree, [TransformNext]_transformVars
    PROVE  WritableInv(writable')
<1>1. WritableInv(AbortPeer(writable))
  BY UnaskedAbortInv DEF AbortPeer
<1>2. CASE \E ok \in BOOLEAN : TransformerStarts(ok) \/ TransformSettles(ok) \/ FlushSettles(ok)
  BY <1>1, <1>2 DEF TransformerStarts, TransformSettles, FlushSettles, AbortsPeer
<1>3. CASE ReadableStarts \/ PullReturns \/ TransformBegins \/ Emit \/ EmitThrows \/ ReadOutput
  BY <1>3 DEF ReadableStarts, PullReturns, TransformBegins, Emit, EmitThrows, ReadOutput
<1>4. CASE WritableStarts
  <2>1. SinkStarts(transform.start = "ok") /\ (transform.start = "ok") \in BOOLEAN
    BY <1>4 DEF WritableStarts
  <2>2. WritableNext
    BY <2>1 DEF WritableNext
  <2>. QED BY <2>2, WritableStepInv
<1>5. CASE WritableAdvances
  BY <1>5, ResumedInv DEF WritableAdvances, MovesTo
<1>6. CASE SinkReturns
  <2>1. writable.advancing = "sink"
    BY <1>6 DEF SinkReturns, PeersAgree
  <2>2. writable' = SinkReturned(writable, transform.step = "done")
    BY <1>6 DEF SinkReturns, MovesTo
  <2>3. (transform.step = "done") \in BOOLEAN
    OBVIOUS
  <2>. QED BY <2>1, <2>2, <2>3, SinkReturnedInv
<1>7. CASE AbortReturns
  <2>1. WritableNext
    BY <1>7 DEF AbortReturns, WritableNext
  <2>. QED BY <2>1, WritableStepInv
<1>8. CASE WriteInput \/ CloseInput \/ AbortInput
  <2>1. WritableNext
    BY <1>8 DEF WriteInput, CloseInput, AbortInput, WritableNext
  <2>. QED BY <2>1, WritableStepInv
<1>9. CASE CancelOutput
  BY <1>1, <1>9 DEF CancelOutput
<1>10. CASE TransformerErrors \/ TransformerTerminates \/ TerminateThrows
  BY <1>1, <1>10 DEF TransformerErrors, TransformerTerminates, TerminateThrows, AbortsPeer
<1>11. CASE UNCHANGED transformVars
  BY <1>11 DEF transformVars
<1>. QED BY <1>2, <1>3, <1>4, <1>5, <1>6, <1>7, <1>8, <1>9, <1>10, <1>11
         DEF TransformNext, Reactions

(* The same of a writable in front of a transformer, which a cancel or an  *)
(* error of the readable side aborts at any moment.                        *)
THEOREM TransformWritableAgreement == TransformSpec => []WritableAgrees
<1>1. TransformInit => WritableInv(writable)
  BY FirstWritable DEF TransformInit
<1>2. WritableInv(writable) /\ PeersAgree /\ [TransformNext]_transformVars => WritableInv(writable)'
  BY TransformedWritableInv
<1>3. WritableInv(writable) => WritableAgrees
  BY WritableSays
<1>. QED BY <1>1, <1>2, <1>3, TransformAgreement, PTL DEF TransformSpec
================================================================================
