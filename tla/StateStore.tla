----------------------------- MODULE StateStore -----------------------------
(***************************************************************************)
(* AtomicServiceStateStore (tools/service/state-store.mjs): the Service's  *)
(* state in one file, state.json, with a write-ahead journal of one file   *)
(* per transaction, each holding the event and the whole next state.       *)
(*                                                                         *)
(* Operations run one at a time (#enqueue) and await every file they       *)
(* write, so an operation is a sequence of steps.  The Service may crash   *)
(* between any two, and a write may fail; atomicWriteJson renames a        *)
(* complete temporary file, so that a failed write left the old file or    *)
(* the new one.  The wall clock may jump.                                  *)
(*                                                                         *)
(* The contents of a state are the transactions that made it.              *)
(***************************************************************************)
EXTENDS Integers, Sequences, FiniteSetsExt

CONSTANTS
    MaxTransactions,  \* bound: calls of transact
    Times,            \* bound: readings of the wall clock
    RetentionMs,      \* options.retentionMs
    Sizes,            \* sizes a state may reach, see Fits
    Faults            \* TRUE when a write may fail

ASSUME StoreAssumption ==
    /\ MaxTransactions \in Nat
    /\ Times \subseteq Nat /\ Times # {}
    /\ RetentionMs \in Nat \ {0}
    /\ Sizes \subseteq {"small", "large", "huge"} /\ "small" \in Sizes
    /\ Faults \in BOOLEAN

VARIABLES
    journal,    \* disk: the journal records
    stateFile,  \* disk: state.json
    opened,     \* #opened
    poisoned,   \* #poisoned
    state,      \* #state
    op,         \* the operation at the head of #tail
    unlinking,  \* the journal files being deleted, by cursor
    clock,      \* Date.now()
    attempts,   \* history: calls of transact
    acked       \* history: those whose caller has its result

disk == <<journal, stateFile>>
history == <<attempts, acked>>
vars == <<disk, opened, poisoned, state, op, unlinking, clock, history>>

-----------------------------------------------------------------------------
(* createInitialServiceState *)
InitialState == [cursor |-> 0, eventFloor |-> 0, log |-> <<>>, size |-> "small"]

NoFile == [cursor |-> -1, eventFloor |-> 0, log |-> <<>>, size |-> "small"]

(* a journal file may be larger than state.json, by maxEventBytes *)
FitsStateFile(s) == s.size = "small"
FitsJournal(s) == s.size # "huge"

Idle == [kind |-> "idle", next |-> InitialState, at |-> 0, expired |-> {}]

Init ==
    /\ journal = {}
    /\ stateFile = NoFile
    /\ opened = FALSE /\ poisoned = FALSE
    /\ state = InitialState
    /\ op = Idle
    /\ unlinking = {}
    /\ clock \in Times
    /\ attempts = 0
    /\ acked = {}

Ready == opened /\ ~poisoned

Cursors(records) == {r.cursor : r \in records}

-----------------------------------------------------------------------------
(* open *)

Persisted == IF stateFile = NoFile THEN InitialState ELSE stateFile

(* the journal records that state.json does not have yet *)
Newer == {r \in journal : r.cursor > Persisted.cursor}

(* Mutant: every record must be the next one *)
CursorGapStrict == \E r \in journal : r.cursor # Persisted.cursor + 1

(* "journal has a cursor gap" *)
CursorGap ==
    \E r \in Newer : r.cursor - 1 \notin {Persisted.cursor} \cup Cursors(Newer)

(* the state that open() reaches by replaying the journal *)
Recovered ==
    IF Newer = {} THEN Persisted
    ELSE (CHOOSE r \in Newer : \A q \in Newer : q.cursor <= r.cursor).nextState

ValidState(s) == s.cursor >= 0 /\ s.eventFloor \in 0..s.cursor

ValidJournal == \A r \in journal : ValidState(r.nextState) /\ r.nextState.cursor = r.cursor

(* what is on the disk can be opened *)
CanOpen ==
    /\ ValidState(Persisted) /\ ValidJournal
    /\ ~CursorGap
    /\ Newer # {} => FitsStateFile(Recovered)

Open ==
    /\ ~opened
    /\ CanOpen
    /\ stateFile' = Recovered
    /\ state' = Recovered
    /\ opened' = TRUE
    /\ UNCHANGED <<journal, poisoned, op, unlinking, clock, history>>

(* the write fails: the Service does not start, and may be started again *)
OpenFails ==
    /\ ~opened /\ Faults
    /\ CanOpen
    /\ stateFile' \in {stateFile, Recovered}
    /\ UNCHANGED <<journal, opened, poisoned, state, op, unlinking, clock, history>>

-----------------------------------------------------------------------------
(* transact; a mutation that throws leaves no trace *)

Transact(size) ==
    /\ Ready /\ op = Idle
    /\ attempts < MaxTransactions
    /\ attempts' = attempts + 1
    /\ op' = [Idle EXCEPT
                 !.kind = "journal",
                 !.at = clock,
                 !.next = [state EXCEPT !.cursor = @ + 1,
                                        !.log = Append(@, attempts + 1),
                                        !.size = size]]
    /\ UNCHANGED <<disk, opened, poisoned, state, unlinking, clock, acked>>

WithRecord ==
    {r \in journal : r.cursor # op.next.cursor}
        \cup {[cursor |-> op.next.cursor, at |-> op.at, nextState |-> op.next]}

WriteJournal ==
    /\ op.kind = "journal"
    /\ FitsJournal(op.next)
    /\ journal' = WithRecord
    /\ op' = [op EXCEPT !.kind = "snapshot"]
    /\ UNCHANGED <<stateFile, opened, poisoned, state, unlinking, clock, history>>

(* Mutant: the store stays usable *)
JournalFailsUnnoticed ==
    /\ op.kind = "journal"
    /\ \/ ~FitsJournal(op.next) /\ UNCHANGED journal
       \/ FitsJournal(op.next) /\ Faults /\ journal' \in {journal, WithRecord}
    /\ op' = Idle
    /\ UNCHANGED <<stateFile, opened, poisoned, state, unlinking, clock, history>>

JournalFails ==
    /\ op.kind = "journal"
    /\ \/ ~FitsJournal(op.next) /\ UNCHANGED journal
       \/ FitsJournal(op.next) /\ Faults /\ journal' \in {journal, WithRecord}
    /\ poisoned' = TRUE
    /\ op' = Idle
    /\ UNCHANGED <<stateFile, opened, state, unlinking, clock, history>>

(* state.json is written, the subscribers are called, the caller answered *)
Commit ==
    /\ op.kind = "snapshot"
    /\ FitsStateFile(op.next)
    /\ stateFile' = op.next
    /\ state' = op.next
    /\ acked' = acked \cup {op.next.log[op.next.cursor]}
    /\ op' = Idle
    /\ UNCHANGED <<journal, opened, poisoned, unlinking, clock, attempts>>

SnapshotFails ==
    /\ op.kind = "snapshot"
    /\ \/ ~FitsStateFile(op.next) /\ UNCHANGED stateFile
       \/ FitsStateFile(op.next) /\ Faults /\ stateFile' \in {stateFile, op.next}
    /\ poisoned' = TRUE
    /\ op' = Idle
    /\ UNCHANGED <<journal, opened, state, unlinking, clock, history>>

-----------------------------------------------------------------------------
(* pruneEvents *)

Expired == {r.cursor : r \in {q \in journal : q.at < clock - RetentionMs
                                              /\ q.cursor <= state.cursor}}

(* Mutant: the floor is the first cursor that expires *)
FloorFirst(floor) == Max({floor, Min(Expired)})

Floor(floor) == Max({floor} \cup Expired)

PruneEvents ==
    /\ Ready /\ op = Idle
    /\ Expired # {}
    /\ op' = [Idle EXCEPT !.kind = "floor",
                          !.expired = Expired,
                          !.next = [state EXCEPT !.eventFloor = Floor(@)]]
    /\ UNCHANGED <<disk, opened, poisoned, state, unlinking, clock, history>>

(* Promise.all: every expired file is being deleted *)
WriteFloor ==
    /\ op.kind = "floor"
    /\ stateFile' = op.next
    /\ state' = op.next
    /\ op' = [op EXCEPT !.kind = "unlink"]
    /\ unlinking' = unlinking \cup op.expired
    /\ UNCHANGED <<journal, opened, poisoned, clock, history>>

FloorFails ==
    /\ op.kind = "floor" /\ Faults
    /\ stateFile' \in {stateFile, op.next}
    /\ op' = Idle
    /\ UNCHANGED <<journal, opened, poisoned, state, unlinking, clock, history>>

(* The files are deleted in any order. *)
Unlink(cursor) ==
    /\ cursor \in unlinking
    /\ unlinking' = unlinking \ {cursor}
    /\ journal' = {r \in journal : r.cursor # cursor}
    /\ op' = IF op.kind = "unlink" /\ unlinking = {cursor} THEN Idle ELSE op
    /\ UNCHANGED <<stateFile, opened, poisoned, state, clock, history>>

(* One is not: the operation rejects at once, the other deletions go on. *)
UnlinkFails(cursor) ==
    /\ cursor \in unlinking /\ Faults
    /\ unlinking' = unlinking \ {cursor}
    /\ op' = IF op.kind = "unlink" THEN Idle ELSE op
    /\ UNCHANGED <<disk, opened, poisoned, state, clock, history>>

-----------------------------------------------------------------------------
(* The Service ends, by a crash or a restart. *)
Crash ==
    /\ opened
    /\ opened' = FALSE /\ poisoned' = FALSE
    /\ state' = InitialState
    /\ op' = Idle
    /\ unlinking' = {}
    /\ UNCHANGED <<disk, clock, history>>

ClockMoves ==
    /\ clock' \in Times \ {clock}
    /\ UNCHANGED <<disk, opened, poisoned, state, op, unlinking, history>>

(* every step but the ones that subscribers and readers take part in *)
QuietStep ==
    \/ Open
    \/ OpenFails
    \/ \E size \in Sizes : Transact(size)
    \/ WriteJournal
    \/ JournalFails
    \/ SnapshotFails
    \/ PruneEvents
    \/ WriteFloor
    \/ FloorFails
    \/ \E cursor \in unlinking : Unlink(cursor) \/ UnlinkFails(cursor)
    \/ ClockMoves

Next == QuietStep \/ Commit \/ Crash

Spec == Init /\ [][Next]_vars

-----------------------------------------------------------------------------
(* Properties *)

Times1(tx, s) == Cardinality({i \in 1..Len(s.log) : s.log[i] = tx}) = 1

(* A transaction whose caller has its result is in the state of the        *)
(* running Service and in what a restart recovers, once; and the journal   *)
(* holds every event that readEvents may be asked for, those above the     *)
(* floor, although expired files are deleted in any order and the clock    *)
(* that dates them is not monotonic.                                       *)
AckedSurvives ==
    /\ \A tx \in acked : Times1(tx, Recovered) /\ (opened => Times1(tx, state))
    /\ opened => \A cursor \in (state.eventFloor + 1)..state.cursor :
                    cursor \in Cursors(journal)

(* The disk can be opened again after every crash and every failed write.  *)
Reopens == ~opened => CanOpen

(* What a restart would recover is an append-only log, through crashes,    *)
(* failed writes, recoveries and pruning.                                  *)
DurableLog == INSTANCE EventLog WITH log <- Recovered.log

LogSpec == DurableLog!Spec
=============================================================================
