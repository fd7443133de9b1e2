----------------------------- MODULE EventStream -----------------------------
(***************************************************************************)
(* serveEvents (tools/service/router-read.mjs) over the state store: a     *)
(* client of the Service's event stream, GET /v1/events.  It connects,     *)
(* is disconnected by a slow network, by the Service's end or at will, and *)
(* connects again with the last cursor it was sent.                        *)
(*                                                                         *)
(* The stream subscribes to the store, replays the journal through         *)
(* readEvents, which is not one of the store's queued operations, and then *)
(* forwards what the store publishes.  All the events interest the client. *)
(***************************************************************************)
EXTENDS StateStore, SequencesExt

CONSTANTS
    MaxEventsPerRead,  \* options.maxEventsPerRead
    SlowClient         \* TRUE when response.write may answer false

ASSUME StreamAssumption == MaxEventsPerRead \in Nat \ {0} /\ SlowClient \in BOOLEAN

VARIABLES
    stream,    \* the request being served
    base,      \* client: the cursor it started from
    received,  \* client: the events it was sent, by cursor
    cut        \* history: a replay left out events of the journal

client == <<base, received, cut>>
streamVars == <<vars, stream, client>>

(* phases: closed; reading (readEvents has checked the floor); listed (it  *)
(* has listed the journal directory); live; ended (response.end())         *)
Closed == [phase |-> "closed", after |-> 0, listed |-> {}, buffered |-> <<>>]

StreamInit ==
    /\ Init
    /\ stream = Closed
    /\ base = 0
    /\ received = <<>>
    /\ cut = FALSE

LastOf(default, s) == IF s = <<>> THEN default ELSE Last(s)

(* where a request without a cursor starts *)
Start == state.eventFloor

-----------------------------------------------------------------------------
(* The request: subscribe, and the checks of readEvents before its await.  *)
(* A client that reconnects sends the last cursor it has; without one it   *)
(* is served from the floor.  A cursor below the floor is refused, which   *)
(* leaves no trace.                                                        *)
Connect ==
    /\ stream.phase = "closed" /\ Ready
    /\ \/ /\ LastOf(base, received) >= state.eventFloor
          /\ stream' = [Closed EXCEPT !.phase = "reading", !.after = LastOf(base, received)]
          /\ UNCHANGED client
       \/ /\ stream' = [Closed EXCEPT !.phase = "reading", !.after = Start]
          /\ base' = Start
          /\ received' = <<>>
          /\ cut' = FALSE
    /\ UNCHANGED vars

(* Mutant: the stream subscribes once it has the replay *)
SubscribedWhenLive(phase) == phase = "live"

(* a published event reaches the stream's listener *)
Subscribed(phase) == phase \in {"reading", "listed", "live"}

(* Mutant: the temporary file of a record being written is listed too *)
ListJournalTemporary ==
    /\ stream.phase = "reading"
    /\ stream' = [stream EXCEPT !.phase = "listed",
                      !.listed = Cursors(IF op.kind = "journal" THEN WithRecord ELSE journal)]
    /\ cut' = (cut \/ stream.after < state.eventFloor)
    /\ UNCHANGED <<vars, base, received>>

(* readdir; files may have been pruned since the floor was checked *)
ListJournal ==
    /\ stream.phase = "reading"
    /\ stream' = [stream EXCEPT !.phase = "listed", !.listed = Cursors(journal)]
    /\ cut' = (cut \/ stream.after < state.eventFloor)
    /\ UNCHANGED <<vars, base, received>>

(* a file was deleted after it was listed and before it was read *)
ReadFails ==
    /\ stream.phase = "listed"
    /\ \E cursor \in stream.listed : cursor \notin Cursors(journal)
    /\ stream' = Closed
    /\ UNCHANGED <<vars, client>>

InOrder(numbers) ==
    CHOOSE s \in [1..Cardinality(numbers) -> numbers] : \A i, j \in DOMAIN s : i < j => s[i] < s[j]

FirstOf(s, n) == SubSeq(s, 1, Min({n, Len(s)}))

(* What a loop writes of s: all, or up to a write that answers false. *)
Written(s) ==
    {s} \cup IF SlowClient THEN Prefixes(s) \ {<<>>} ELSE {}

(* the buffered events that are newer than what the replay sent *)
Unsent(buffered, cursor) ==
    LET newer == InOrder({i \in DOMAIN buffered : buffered[i] > cursor})
    IN [i \in DOMAIN newer |-> buffered[newer[i]]]

Replay ==
    /\ stream.phase = "listed"
    /\ LET newer == InOrder({c \in stream.listed : c > stream.after})
           replay == FirstOf(newer, MaxEventsPerRead)
       IN \E sent \in Written(replay) :
             LET unsent == Unsent(stream.buffered, LastOf(stream.after, sent))
             IN \E late \in Written(unsent) :
                   /\ received' = received \o sent \o late
                   /\ cut' = (cut \/ sent # newer \/ late # unsent)
    /\ stream' = [Closed EXCEPT !.phase = "live"]
    /\ UNCHANGED <<vars, base>>

(* The subscriber, called by transact *)
Publish(cursor) ==
    \/ /\ ~Subscribed(stream.phase)
       /\ UNCHANGED <<stream, received>>
    \/ /\ Subscribed(stream.phase) /\ stream.phase # "live"
       /\ stream' = [stream EXCEPT !.buffered = Append(@, cursor)]
       /\ UNCHANGED received
    \/ /\ Subscribed(stream.phase) /\ stream.phase = "live"
       /\ received' = Append(received, cursor)
       /\ \/ UNCHANGED stream
          \/ SlowClient /\ stream' = [Closed EXCEPT !.phase = "ended"]

CommitAndPublish ==
    /\ Commit
    /\ Publish(op.next.cursor)
    /\ UNCHANGED <<base, cut>>

(* the client goes away, or the ended response is flushed *)
Disconnect ==
    /\ stream.phase # "closed"
    /\ stream' = Closed
    /\ UNCHANGED <<vars, client>>

ServiceEnds == Crash /\ stream' = Closed /\ UNCHANGED client

StreamNext ==
    \/ QuietStep /\ UNCHANGED <<stream, client>>
    \/ CommitAndPublish
    \/ ServiceEnds
    \/ Connect
    \/ ListJournal
    \/ ReadFails
    \/ Replay
    \/ Disconnect

StreamSpec == StreamInit /\ [][StreamNext]_streamVars

-----------------------------------------------------------------------------
(* Properties *)

(* An event is sent only for a transaction that no crash can undo, even    *)
(* when the replay reads its journal file before the store has committed   *)
(* it: the transaction may fail after that, but a restart recovers it.     *)
(* And cursors never go back, through reconnections and restarts ("SSE use *)
(* monotonic cursors", docs/en/openapi/index.md).                          *)
SentIsDurable ==
    /\ \A i \in 1..Len(received) : received[i] <= Recovered.cursor
    /\ \A i \in 1..(Len(received) - 1) : received[i] <= received[i + 1]

(* A client that reconnects with the last cursor it has misses no event    *)
(* between the first and the last it was sent.                             *)
NoEventMissed ==
    \A cursor \in (base + 1)..LastOf(base, received) :
        \E i \in 1..Len(received) : received[i] = cursor

(* Events are missed for no other reason than a replay that was cut: by    *)
(* maxEventsPerRead, by a slow client, or by pruning between the check of  *)
(* the floor and the listing.  None falls between the replay and the       *)
(* subscription, or between the journal and a transaction under way.       *)
OnlyCutsMiss == cut \/ NoEventMissed

(* What a client is sent is true: nothing that a crash can undo, with      *)
(* cursors that never go back but may repeat, and with no gap but those of *)
(* a replay that was cut, of which the client is not told (serveEvents).   *)
EventsAreTrue == SentIsDurable /\ OnlyCutsMiss
=============================================================================
