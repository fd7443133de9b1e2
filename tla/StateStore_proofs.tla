--------------------------- MODULE StateStore_proofs ---------------------------
(***************************************************************************)
(* The state store keeps acknowledged transactions, can be opened again    *)
(* and is an append-only log, for every number of transactions, reading of *)
(* the clock and failing write; and what a client of the event stream over *)
(* it is sent is true.                                                     *)
(***************************************************************************)
EXTENDS EventStream, FiniteSetTheorems, SequenceTheorems, WellFoundedInduction, TLAPS

-----------------------------------------------------------------------------
(* States and what is on the disk, as operators of the journal J and the   *)
(* state file F, so that the lemmas hold before and after a step.          *)

StateType == [cursor : Nat, eventFloor : Nat, log : Seq(Nat), size : Sizes]

RecordType == [cursor : Nat, at : Nat, nextState : StateType]

\* the log of a state holds transactions up to n, each once and in order
WellFormed(s, n) ==
    /\ s \in StateType
    /\ s.cursor = Len(s.log) /\ s.eventFloor <= s.cursor
    /\ \A i \in 1..Len(s.log) : s.log[i] \in 1..n
    /\ \A i, j \in 1..Len(s.log) : i < j => s.log[i] < s.log[j]

OneMore(s, t) ==
    /\ t.cursor = s.cursor + 1
    /\ \E tx \in Nat : t.log = Append(s.log, tx)

Holds(s, tx) == \E i \in 1..Len(s.log) : s.log[i] = tx

PersistedOf(F) == IF F = NoFile THEN InitialState ELSE F

NewerOf(J, F) == {r \in J : r.cursor > PersistedOf(F).cursor}

RecoveredOf(J, F) ==
    IF NewerOf(J, F) = {} THEN PersistedOf(F)
    ELSE (CHOOSE r \in NewerOf(J, F) : \A q \in NewerOf(J, F) : q.cursor <= r.cursor).nextState

\* what every crash leaves: the journal is at most one transaction ahead
Disk(J, F, n) ==
    /\ J \subseteq RecordType
    /\ F # NoFile => WellFormed(F, n)
    /\ \A r \in J : /\ WellFormed(r.nextState, n) /\ r.nextState.cursor = r.cursor
                    /\ r.nextState.size # "huge"
    /\ \A r, q \in J : r.cursor = q.cursor => r = q
    /\ \A r \in NewerOf(J, F) : OneMore(PersistedOf(F), r.nextState)

Retained(J, s) == \A c \in (s.eventFloor + 1)..s.cursor : c \in Cursors(J)

\* what a restart recovers
OnDisk == RecoveredOf(journal, stateFile)

-----------------------------------------------------------------------------
(* The inductive invariant.                                                *)

OpTypes == [kind : {"idle", "journal", "snapshot", "floor", "unlink"},
            next : StateType, at : Nat, expired : SUBSET Nat]

Types ==
    /\ opened \in BOOLEAN /\ poisoned \in BOOLEAN
    /\ clock \in Times /\ attempts \in Nat
    /\ op \in OpTypes
    /\ state \in StateType

ClosedStore ==
    ~opened => op = Idle /\ ~poisoned /\ unlinking = {}

\* the running store and its disk: the state in memory is on the disk, or is
\* one transaction behind a snapshot whose write was reported as failed
Running ==
    opened =>
        /\ stateFile # NoFile
        /\ WellFormed(state, attempts)
        /\ Retained(journal, state)
        /\ state.eventFloor <= OnDisk.eventFloor
        /\ \/ state.log = stateFile.log
           \/ OneMore(state, stateFile) /\ NewerOf(journal, stateFile) = {}
        /\ ~poisoned => state.log = stateFile.log
        /\ ~poisoned /\ op.kind # "snapshot" => NewerOf(journal, stateFile) = {}

Operation ==
    /\ op.kind # "idle" => opened /\ ~poisoned
    /\ op.kind \in {"journal", "snapshot"} =>
          /\ WellFormed(op.next, attempts)
          /\ OneMore(state, op.next) /\ op.next.eventFloor = state.eventFloor
    /\ op.kind = "snapshot" =>
          \E r \in journal : NewerOf(journal, stateFile) = {r} /\ r.nextState = op.next
    /\ op.kind = "floor" =>
          /\ WellFormed(op.next, attempts)
          /\ op.next.log = state.log /\ state.eventFloor <= op.next.eventFloor
          /\ \A c \in op.expired : c <= op.next.eventFloor
    /\ \A c \in unlinking : c \in Nat /\ c <= state.eventFloor

Acked ==
    \A tx \in acked : Holds(OnDisk, tx) /\ (opened => Holds(state, tx))

Inv ==
    /\ Types
    /\ Disk(journal, stateFile, attempts)
    /\ Retained(journal, OnDisk)
    /\ ClosedStore /\ Running /\ Operation /\ Acked

-----------------------------------------------------------------------------
(* States and their logs.                                                  *)

LEMMA InitialWellFormed ==
    ASSUME NEW n \in Nat PROVE WellFormed(InitialState, n)
BY StoreAssumption DEF WellFormed, InitialState, StateType

LEMMA LaterWellFormed ==
    ASSUME NEW n \in Nat, NEW s, WellFormed(s, n) PROVE WellFormed(s, n + 1)
BY DEF WellFormed, StateType

(* transact appends the next transaction. *)
LEMMA AppendWellFormed ==
    ASSUME NEW n \in Nat, NEW s, WellFormed(s, n), NEW size \in Sizes, NEW t,
           t = [cursor |-> s.cursor + 1, eventFloor |-> s.eventFloor,
                log |-> Append(s.log, n + 1), size |-> size]
    PROVE  WellFormed(t, n + 1) /\ OneMore(s, t) /\ t.eventFloor = s.eventFloor
<1>1. s \in StateType /\ s.log \in Seq(Nat) /\ n + 1 \in Nat
    BY DEF WellFormed, StateType
<1>2. /\ Append(s.log, n + 1) \in Seq(Nat)
      /\ Len(Append(s.log, n + 1)) = Len(s.log) + 1
      /\ \A i \in 1..Len(s.log) : Append(s.log, n + 1)[i] = s.log[i]
      /\ Append(s.log, n + 1)[Len(s.log) + 1] = n + 1
    BY <1>1, AppendProperties
<1>3. /\ t \in StateType /\ t.cursor = s.cursor + 1 /\ t.eventFloor = s.eventFloor
      /\ t.log = Append(s.log, n + 1)
    <2>1. s.cursor + 1 \in Nat /\ s.eventFloor \in Nat
        BY <1>1 DEF StateType
    <2> QED BY <1>2, <2>1 DEF StateType
<1>4. Len(s.log) \in Nat
    BY <1>1
<1>5. \A i \in 1..Len(t.log) : i \in 1..Len(s.log) \/ i = Len(s.log) + 1
    BY <1>2, <1>3, <1>4
<1>6. \A i \in 1..Len(t.log) : t.log[i] \in 1..(n + 1)
    BY <1>2, <1>3, <1>5 DEF WellFormed
<1>7. \A i, j \in 1..Len(t.log) : i < j => t.log[i] < t.log[j]
    <2> SUFFICES ASSUME NEW i \in 1..Len(t.log), NEW j \in 1..Len(t.log), i < j
                 PROVE  t.log[i] < t.log[j]
        OBVIOUS
    <2>1. i \in 1..Len(s.log)
        BY <1>2, <1>3, <1>4, <1>5
    <2>2. s.log[i] \in 1..n
        BY <2>1 DEF WellFormed
    <2>3. CASE j \in 1..Len(s.log)
        BY <2>1, <2>3, <1>2, <1>3 DEF WellFormed
    <2>4. CASE j = Len(s.log) + 1
        BY <2>1, <2>2, <2>4, <1>2, <1>3
    <2> QED BY <2>3, <2>4, <1>5
<1>8. t.cursor = Len(t.log) /\ t.eventFloor <= t.cursor
    BY <1>1, <1>2, <1>3 DEF WellFormed, StateType
<1> QED BY <1>1, <1>3, <1>6, <1>7, <1>8 DEF WellFormed, OneMore

(* A transaction that a log holds is still there when one is appended. *)
LEMMA OneMoreHolds ==
    ASSUME NEW s \in StateType, NEW t, OneMore(s, t), NEW tx, Holds(s, tx)
    PROVE  Holds(t, tx)
<1>1. PICK ty \in Nat : t.log = Append(s.log, ty)
    BY DEF OneMore
<1>2. s.log \in Seq(Nat)
    BY DEF StateType
<1>3. PICK i \in 1..Len(s.log) : s.log[i] = tx
    BY DEF Holds
<1>4. Len(t.log) = Len(s.log) + 1 /\ t.log[i] = s.log[i]
    BY <1>1, <1>2, AppendProperties
<1>5. i \in 1..Len(t.log)
    BY <1>2, <1>4
<1> QED BY <1>3, <1>4, <1>5 DEF Holds

(* In a log that is in order a transaction occurs once. *)
LEMMA HeldOnce ==
    ASSUME NEW n \in Nat, NEW s, WellFormed(s, n), NEW tx, Holds(s, tx)
    PROVE  Times1(tx, s)
<1>1. PICK i \in 1..Len(s.log) : s.log[i] = tx
    BY DEF Holds
<1>2. \A j \in 1..Len(s.log) : s.log[j] = tx => j = i
    <2> SUFFICES ASSUME NEW j \in 1..Len(s.log), s.log[j] = tx PROVE j = i
        OBVIOUS
    <2>1. s.log[j] \in Nat /\ s.log[i] \in Nat /\ ~(i < j) /\ ~(j < i)
        BY <1>1 DEF WellFormed
    <2> QED BY <2>1
<1>3. {j \in 1..Len(s.log) : s.log[j] = tx} = {i}
    BY <1>1, <1>2
<1> QED BY <1>3, FS_Singleton DEF Times1

(* A log that is longer by one is a step of EventLog. *)
LEMMA OneMoreAppends ==
    ASSUME NEW s \in StateType, NEW t, OneMore(s, t)
    PROVE  Len(t.log) = Len(s.log) + 1 /\ SubSeq(t.log, 1, Len(s.log)) = s.log
<1>1. PICK tx \in Nat : t.log = Append(s.log, tx)
    BY DEF OneMore
<1>2. s.log \in Seq(Nat)
    BY DEF StateType
<1>3. Append(s.log, tx) = s.log \o <<tx>> /\ <<tx>> \in Seq(Nat)
    BY <1>2, AppendIsConcat
<1>4. Len(t.log) = Len(s.log) + 1
    BY <1>1, <1>2, AppendProperties
<1>5. SubSeq(s.log \o <<tx>>, 1, Len(s.log)) = SubSeq(s.log, 1, Len(s.log))
    BY <1>2, <1>3, SubSeqOfConcat1
<1>6. SubSeq(s.log, 1, Len(s.log)) = s.log
    BY <1>2, SubSeqFull
<1> QED BY <1>1, <1>3, <1>4, <1>5, <1>6

-----------------------------------------------------------------------------
(* The disk.                                                               *)

LEMMA PersistedWellFormed ==
    ASSUME NEW J, NEW F, NEW n \in Nat, Disk(J, F, n)
    PROVE  WellFormed(PersistedOf(F), n)
BY InitialWellFormed DEF Disk, PersistedOf

(* open() replays at most one record. *)
LEMMA DiskCases ==
    ASSUME NEW J, NEW F, NEW n \in Nat, Disk(J, F, n)
    PROVE  \/ NewerOf(J, F) = {} /\ RecoveredOf(J, F) = PersistedOf(F)
           \/ \E r \in J : /\ NewerOf(J, F) = {r} /\ RecoveredOf(J, F) = r.nextState
                           /\ OneMore(PersistedOf(F), r.nextState)
                           /\ r.cursor = PersistedOf(F).cursor + 1
<1>1. CASE NewerOf(J, F) = {}
    BY <1>1 DEF RecoveredOf
<1>2. CASE NewerOf(J, F) # {}
    <2>1. PICK r \in NewerOf(J, F) : TRUE
        BY <1>2
    <2>2. \A q \in NewerOf(J, F) : q.cursor = PersistedOf(F).cursor + 1
        BY DEF Disk, OneMore, NewerOf
    <2>3. \A q \in NewerOf(J, F) : q \in J /\ q = r
        BY <2>1, <2>2 DEF Disk, NewerOf
    <2>4. NewerOf(J, F) = {r}
        BY <2>1, <2>3
    <2>5. r \in RecordType /\ r.cursor <= r.cursor
        BY <2>3 DEF Disk, RecordType
    <2>6. (CHOOSE x \in {r} : \A q \in {r} : q.cursor <= x.cursor) = r
        BY <2>5
    <2>7. RecoveredOf(J, F) = r.nextState
        BY <2>4, <2>6 DEF RecoveredOf
    <2> QED BY <2>1, <2>2, <2>3, <2>4, <2>7 DEF Disk
<1> QED BY <1>1, <1>2

LEMMA RecoveredWellFormed ==
    ASSUME NEW J, NEW F, NEW n \in Nat, Disk(J, F, n)
    PROVE  WellFormed(RecoveredOf(J, F), n)
<1>1. RecoveredOf(J, F) = PersistedOf(F) \/ \E r \in J : RecoveredOf(J, F) = r.nextState
    BY DiskCases
<1>2. \A r \in J : WellFormed(r.nextState, n)
    BY DEF Disk
<1> QED BY <1>1, <1>2, PersistedWellFormed

(* Another transaction is attempted. *)
LEMMA DiskLater ==
    ASSUME NEW J, NEW F, NEW n \in Nat, Disk(J, F, n)
    PROVE  Disk(J, F, n + 1)
BY LaterWellFormed DEF Disk

(* What open() writes: the state it recovered, which nothing is newer than.*)
LEMMA DiskOpened ==
    ASSUME NEW J, NEW F, NEW n \in Nat, Disk(J, F, n), NEW s, s = RecoveredOf(J, F)
    PROVE  /\ s # NoFile /\ WellFormed(s, n) /\ Disk(J, s, n)
           /\ NewerOf(J, s) = {} /\ RecoveredOf(J, s) = s
<1>1. WellFormed(s, n)
    BY RecoveredWellFormed
<1>2. s # NoFile
    BY <1>1 DEF WellFormed, StateType, NoFile
<1>3. PersistedOf(s) = s
    BY <1>2 DEF PersistedOf
<1>4. NewerOf(J, s) = {}
    <2> SUFFICES ASSUME NEW q \in J, q.cursor > s.cursor PROVE FALSE
        BY <1>3 DEF NewerOf
    <2>1. q.cursor \in Nat /\ s.cursor \in Nat /\ PersistedOf(F).cursor \in Nat
        <3>1. q \in RecordType
            BY DEF Disk
        <3>2. s \in StateType /\ PersistedOf(F) \in StateType
            BY <1>1, PersistedWellFormed DEF WellFormed
        <3> QED BY <3>1, <3>2 DEF RecordType, StateType
    <2>2. CASE NewerOf(J, F) = {} /\ s = PersistedOf(F)
        BY <2>1, <2>2 DEF NewerOf
    <2>3. CASE \E r \in J : NewerOf(J, F) = {r} /\ s = r.nextState
                            /\ r.cursor = PersistedOf(F).cursor + 1
        <3>1. PICK r \in J : NewerOf(J, F) = {r} /\ s = r.nextState
                             /\ r.cursor = PersistedOf(F).cursor + 1
            BY <2>3
        <3>2. s.cursor = PersistedOf(F).cursor + 1
            BY <3>1 DEF Disk
        <3>3. q \in NewerOf(J, F)
            BY <2>1, <3>2 DEF NewerOf
        <3> QED BY <2>1, <3>1, <3>2, <3>3
    <2> QED BY <2>2, <2>3, DiskCases
<1>5. Disk(J, s, n)
    BY <1>1, <1>4 DEF Disk
<1> QED BY <1>1, <1>2, <1>3, <1>4, <1>5 DEF RecoveredOf

(* pruneEvents writes the state it has with a higher floor.                *)
LEMMA DiskRewritten ==
    ASSUME NEW J, NEW F, NEW n \in Nat, Disk(J, F, n), NewerOf(J, F) = {}, F # NoFile,
           NEW s, WellFormed(s, n), s.log = F.log
    PROVE  s # NoFile /\ Disk(J, s, n) /\ NewerOf(J, s) = {} /\ RecoveredOf(J, s) = s
<1>1. s # NoFile
    BY DEF WellFormed, StateType, NoFile
<1>2. PersistedOf(s) = s /\ PersistedOf(F) = F /\ s.cursor = F.cursor
    BY <1>1 DEF PersistedOf, Disk, WellFormed
<1>3. NewerOf(J, s) = {}
    BY <1>2 DEF NewerOf
<1>4. Disk(J, s, n)
    BY <1>3 DEF Disk
<1> QED BY <1>1, <1>2, <1>3, <1>4 DEF RecoveredOf

(* The journal record of a transaction is written ahead of its state.      *)
LEMMA DiskWritten ==
    ASSUME NEW J, NEW F, NEW n \in Nat, Disk(J, F, n), NewerOf(J, F) = {},
           NEW s, WellFormed(s, n), s.size # "huge", OneMore(PersistedOf(F), s),
           NEW at \in Nat, NEW r, r = [cursor |-> s.cursor, at |-> at, nextState |-> s],
           NEW K, K = {q \in J : q.cursor # s.cursor} \cup {r}
    PROVE  /\ Disk(K, F, n) /\ NewerOf(K, F) = {r} /\ RecoveredOf(K, F) = s
           /\ Cursors(K) = Cursors(J) \cup {s.cursor}
<1>1. /\ s \in StateType /\ s.cursor \in Nat
      /\ PersistedOf(F).cursor \in Nat /\ s.cursor = PersistedOf(F).cursor + 1
    BY PersistedWellFormed DEF WellFormed, StateType, OneMore
<1>2. r \in RecordType /\ r.cursor = s.cursor /\ r.nextState = s
    BY <1>1 DEF RecordType
<1>3. NewerOf(K, F) = {r}
    BY <1>1, <1>2 DEF NewerOf
<1>4. Disk(K, F, n)
    BY <1>1, <1>2, <1>3 DEF Disk
<1>5. RecoveredOf(K, F) = s
    BY <1>2, <1>3, <1>4, DiskCases
<1>6. Cursors(K) = Cursors(J) \cup {s.cursor}
    BY <1>2 DEF Cursors
<1> QED BY <1>3, <1>4, <1>5, <1>6

(* A record is deleted that state.json has overtaken.                      *)
LEMMA DiskUnlinked ==
    ASSUME NEW J, NEW F, NEW n \in Nat, Disk(J, F, n),
           NEW c \in Nat, c <= PersistedOf(F).cursor,
           NEW K, K = {q \in J : q.cursor # c}
    PROVE  /\ Disk(K, F, n) /\ NewerOf(K, F) = NewerOf(J, F)
           /\ RecoveredOf(K, F) = RecoveredOf(J, F)
           /\ Cursors(K) = Cursors(J) \ {c}
<1>1. PersistedOf(F).cursor \in Nat
    BY PersistedWellFormed DEF WellFormed, StateType
<1>2. NewerOf(K, F) = NewerOf(J, F)
    BY <1>1 DEF NewerOf, Disk, RecordType
<1>3. Disk(K, F, n)
    BY <1>2 DEF Disk
<1>4. RecoveredOf(K, F) = RecoveredOf(J, F)
    BY <1>2, <1>3, DiskCases
<1>5. Cursors(K) = Cursors(J) \ {c}
    BY DEF Cursors
<1> QED BY <1>2, <1>3, <1>4, <1>5

-----------------------------------------------------------------------------
(* The invariant.                                                          *)

\* The operators of StateStore on the disk there is.
LEMMA Links ==
    /\ Persisted = PersistedOf(stateFile) /\ Newer = NewerOf(journal, stateFile)
    /\ Recovered = OnDisk
BY DEF Persisted, PersistedOf, Newer, NewerOf, Recovered, RecoveredOf, OnDisk

LEMMA IdleTyped == Idle \in OpTypes
BY StoreAssumption DEF Idle, OpTypes, InitialState, StateType

LEMMA InitInv == Init => Inv
<1> SUFFICES ASSUME Init PROVE Inv
    OBVIOUS
<1> USE DEF Init
<1>1. Types
    <2>1. InitialState \in StateType
        BY StoreAssumption DEF InitialState, StateType
    <2> QED BY <2>1, IdleTyped DEF Types
<1>2. NewerOf(journal, stateFile) = {} /\ OnDisk = InitialState
    BY DEF NewerOf, OnDisk, RecoveredOf, PersistedOf
<1>3. Disk(journal, stateFile, attempts)
    BY <1>2 DEF Disk
<1>4. Retained(journal, OnDisk)
    BY <1>2 DEF Retained, InitialState
<1>5. ClosedStore /\ Running /\ Acked
    BY DEF ClosedStore, Running, Acked
<1>6. Operation
    BY DEF Operation, Idle
<1> QED BY <1>1, <1>3, <1>4, <1>5, <1>6 DEF Inv

LEMMA OpenInv ==
    ASSUME Inv, Open PROVE Inv' /\ OnDisk' = OnDisk
<1> USE DEF Inv
<1>1. /\ stateFile' = OnDisk /\ state' = OnDisk /\ opened'
      /\ UNCHANGED <<journal, poisoned, op, unlinking, clock, attempts, acked>>
      /\ op = Idle /\ ~poisoned /\ unlinking = {}
    BY Links DEF Open, ClosedStore, history
<1>2. attempts \in Nat /\ RecoveredOf(journal, stateFile) = OnDisk
    BY DEF Types, OnDisk
<1>3. /\ OnDisk # NoFile /\ WellFormed(OnDisk, attempts) /\ Disk(journal, OnDisk, attempts)
      /\ NewerOf(journal, OnDisk) = {} /\ RecoveredOf(journal, OnDisk) = OnDisk
    BY <1>2, DiskOpened
<1>4. OnDisk' = OnDisk
    BY <1>1, <1>3 DEF OnDisk
<1>5. Types'
    BY <1>1, <1>3 DEF Types, WellFormed, Open
<1>6. Disk(journal, stateFile, attempts)' /\ Retained(journal, OnDisk)'
    BY <1>1, <1>3, <1>4
<1>7. ClosedStore'
    BY <1>1 DEF ClosedStore
<1>8. Running'
    <2>1. OnDisk.eventFloor <= OnDisk.eventFloor
        BY <1>3 DEF WellFormed, StateType
    <2> QED BY <1>1, <1>3, <1>4, <2>1 DEF Running
<1>9. Operation'
    BY <1>1 DEF Operation, Idle
<1>10. Acked'
    BY <1>1, <1>4 DEF Acked
<1> QED BY <1>4, <1>5, <1>6, <1>7, <1>8, <1>9, <1>10

LEMMA OpenFailsInv ==
    ASSUME Inv, OpenFails PROVE Inv' /\ OnDisk' = OnDisk
<1> USE DEF Inv
<1>1. /\ ~opened /\ stateFile' \in {stateFile, OnDisk}
      /\ UNCHANGED <<journal, opened, poisoned, state, op, unlinking, clock, attempts, acked>>
    BY Links DEF OpenFails, history
<1>2. attempts \in Nat /\ RecoveredOf(journal, stateFile) = OnDisk
    BY DEF Types, OnDisk
<1>3. Disk(journal, OnDisk, attempts) /\ RecoveredOf(journal, OnDisk) = OnDisk
    BY <1>2, DiskOpened
<1>4. OnDisk' = OnDisk
    BY <1>1, <1>3 DEF OnDisk
<1>5. Types' /\ ClosedStore'
    BY <1>1 DEF Types, ClosedStore
<1>6. Disk(journal, stateFile, attempts)' /\ Retained(journal, OnDisk)'
    BY <1>1, <1>3, <1>4
<1>7. Running' /\ Acked'
    BY <1>1, <1>4 DEF Running, Acked
<1>8. Operation'
    BY <1>1 DEF Operation, ClosedStore, Idle
<1> QED BY <1>4, <1>5, <1>6, <1>7, <1>8

LEMMA TransactInv ==
    ASSUME Inv, NEW size \in Sizes, Transact(size) PROVE Inv' /\ OnDisk' = OnDisk
<1> USE DEF Inv
<1> DEFINE next == [state EXCEPT !.cursor = @ + 1, !.log = Append(@, attempts + 1), !.size = size]
<1>1. /\ opened /\ ~poisoned /\ op = Idle /\ attempts' = attempts + 1
      /\ op' = [Idle EXCEPT !.kind = "journal", !.at = clock, !.next = next]
      /\ UNCHANGED <<journal, stateFile, opened, poisoned, state, unlinking, clock, acked>>
    BY DEF Transact, Ready, disk
<1>2. attempts \in Nat /\ attempts' \in Nat /\ clock \in Nat /\ WellFormed(state, attempts)
    BY <1>1, StoreAssumption DEF Types, Running
<1>3. WellFormed(next, attempts') /\ OneMore(state, next) /\ next.eventFloor = state.eventFloor
    <2> HIDE DEF next
    <2>1. next = [cursor |-> state.cursor + 1, eventFloor |-> state.eventFloor,
                  log |-> Append(state.log, attempts + 1), size |-> size]
        <3>1. state \in [cursor : Nat, eventFloor : Nat, log : Seq(Nat), size : Sizes]
            BY <1>2 DEF WellFormed, StateType
        <3>2. /\ next.cursor = state.cursor + 1 /\ next.eventFloor = state.eventFloor
              /\ next.log = Append(state.log, attempts + 1) /\ next.size = size
            BY <3>1 DEF next
        <3>3. state.cursor + 1 \in Nat /\ Append(state.log, attempts + 1) \in Seq(Nat)
            BY <1>2, <3>1, AppendProperties
        <3>4. next \in [cursor : Nat, eventFloor : Nat, log : Seq(Nat), size : Sizes]
            BY <3>1, <3>3 DEF next
        <3>5. next = [cursor |-> next.cursor, eventFloor |-> next.eventFloor,
                      log |-> next.log, size |-> next.size]
            BY <3>4
        <3> QED BY <3>2, <3>5
    <2>2. WellFormed(next, attempts + 1) /\ OneMore(state, next)
          /\ next.eventFloor = state.eventFloor
        BY <1>2, <2>1, AppendWellFormed
    <2> QED BY <1>1, <2>2
<1> HIDE DEF next
<1>4. op' = [kind |-> "journal", next |-> next, at |-> clock, expired |-> {}]
    BY <1>1 DEF Idle
<1>5. OnDisk' = OnDisk
    BY <1>1 DEF OnDisk
<1>6. Types'
    BY <1>1, <1>2, <1>3, <1>4 DEF Types, OpTypes, WellFormed
<1>7. Disk(journal, stateFile, attempts)' /\ Retained(journal, OnDisk)'
    BY <1>1, <1>2, <1>5, DiskLater
<1>8. WellFormed(state, attempts)'
    BY <1>1, <1>2, LaterWellFormed
<1>9. ClosedStore' /\ Acked'
    BY <1>1, <1>5 DEF ClosedStore, Acked
<1>10. Running'
    BY <1>1, <1>4, <1>5, <1>8 DEF Running, Idle
<1>11. Operation'
    BY <1>1, <1>3, <1>4 DEF Operation
<1> QED BY <1>5, <1>6, <1>7, <1>9, <1>10, <1>11

\* Between transactions the disk and the memory hold the same log.
LEMMA Quiet ==
    ASSUME Inv, opened, ~poisoned, op.kind # "snapshot"
    PROVE  /\ stateFile # NoFile /\ PersistedOf(stateFile) = stateFile /\ OnDisk = stateFile
           /\ WellFormed(stateFile, attempts) /\ WellFormed(state, attempts)
           /\ NewerOf(journal, stateFile) = {}
           /\ stateFile.log = state.log /\ stateFile.cursor = state.cursor
<1>1. /\ stateFile # NoFile /\ NewerOf(journal, stateFile) = {} /\ state.log = stateFile.log
      /\ WellFormed(state, attempts)
    BY DEF Inv, Running
<1>2. WellFormed(stateFile, attempts)
    BY <1>1 DEF Inv, Disk
<1>3. stateFile.cursor = state.cursor
    BY <1>1, <1>2 DEF WellFormed
<1>4. PersistedOf(stateFile) = stateFile
    BY <1>1 DEF PersistedOf
<1> QED BY <1>1, <1>2, <1>3, <1>4 DEF OnDisk, RecoveredOf

\* The record that transact writes.
LEMMA RecordWritten ==
    ASSUME Inv, op.kind = "journal", FitsJournal(op.next)
    PROVE  \E r \in WithRecord :
              /\ r.nextState = op.next
              /\ Disk(WithRecord, stateFile, attempts) /\ NewerOf(WithRecord, stateFile) = {r}
              /\ RecoveredOf(WithRecord, stateFile) = op.next
              /\ Cursors(WithRecord) = Cursors(journal) \cup {op.next.cursor}
              /\ OneMore(OnDisk, op.next)
              /\ Retained(WithRecord, op.next) /\ Retained(WithRecord, state)
<1> USE DEF Inv
<1>1. opened /\ ~poisoned /\ op.kind # "snapshot"
    BY DEF Operation
<1>2. /\ WellFormed(op.next, attempts) /\ OneMore(state, op.next)
      /\ op.next.eventFloor = state.eventFloor
    BY DEF Operation
<1>3. /\ stateFile # NoFile /\ PersistedOf(stateFile) = stateFile /\ OnDisk = stateFile
      /\ NewerOf(journal, stateFile) = {} /\ WellFormed(state, attempts)
      /\ stateFile.log = state.log /\ stateFile.cursor = state.cursor
    BY <1>1, Quiet
<1>4. OneMore(stateFile, op.next)
    BY <1>2, <1>3 DEF OneMore
<1> DEFINE r == [cursor |-> op.next.cursor, at |-> op.at, nextState |-> op.next]
<1>5. op.at \in Nat /\ attempts \in Nat /\ op.next.size # "huge"
    BY DEF Types, OpTypes, FitsJournal
<1>6. WithRecord = {q \in journal : q.cursor # op.next.cursor} \cup {r}
    BY DEF WithRecord
<1>7. /\ Disk(WithRecord, stateFile, attempts) /\ NewerOf(WithRecord, stateFile) = {r}
      /\ RecoveredOf(WithRecord, stateFile) = op.next
      /\ Cursors(WithRecord) = Cursors(journal) \cup {op.next.cursor}
    <2> HIDE DEF Inv
    <2>1. r = [cursor |-> op.next.cursor, at |-> op.at, nextState |-> op.next]
        OBVIOUS
    <2>2. Disk(journal, stateFile, attempts)
        BY DEF Inv
    <2> HIDE DEF r
    <2> QED BY <1>2, <1>3, <1>4, <1>5, <1>6, <2>1, <2>2, DiskWritten
<1>8. Retained(journal, state)
    BY <1>1 DEF Running
<1>9. /\ op.next.cursor = state.cursor + 1
      /\ state.cursor \in Nat /\ state.eventFloor \in Nat
    BY <1>2, <1>3 DEF OneMore, WellFormed, StateType
<1>10. Retained(WithRecord, op.next) /\ Retained(WithRecord, state)
    BY <1>2, <1>7, <1>8, <1>9 DEF Retained
<1>11. r \in WithRecord /\ r.nextState = op.next
    BY <1>6
<1> HIDE DEF r
<1> QED BY <1>3, <1>4, <1>7, <1>10, <1>11

\* What was acknowledged stays when the recovered log grows by one.
LEMMA AckedGrows ==
    ASSUME Inv, OneMore(OnDisk, OnDisk'), UNCHANGED <<acked, opened, state>>
    PROVE  Acked'
<1>1. attempts \in Nat /\ Disk(journal, stateFile, attempts)
    BY DEF Inv, Types
<1>2. OnDisk \in StateType
    BY <1>1, RecoveredWellFormed DEF OnDisk, WellFormed
<1>3. \A tx \in acked : Holds(OnDisk, tx) /\ (opened => Holds(state, tx))
    BY DEF Inv, Acked
<1>4. \A tx \in acked : Holds(OnDisk', tx)
    BY <1>2, <1>3, OneMoreHolds
<1> QED BY <1>3, <1>4 DEF Acked

LEMMA WriteJournalInv ==
    ASSUME Inv, WriteJournal PROVE Inv' /\ OneMore(OnDisk, OnDisk')
<1> USE DEF Inv
<1>1. /\ op.kind = "journal" /\ FitsJournal(op.next) /\ journal' = WithRecord
      /\ op' = [op EXCEPT !.kind = "snapshot"]
      /\ UNCHANGED <<stateFile, opened, poisoned, state, unlinking, clock, attempts, acked>>
    BY DEF WriteJournal, history
<1>2. PICK r \in WithRecord :
              /\ r.nextState = op.next
              /\ Disk(WithRecord, stateFile, attempts) /\ NewerOf(WithRecord, stateFile) = {r}
              /\ RecoveredOf(WithRecord, stateFile) = op.next
              /\ OneMore(OnDisk, op.next)
              /\ Retained(WithRecord, op.next) /\ Retained(WithRecord, state)
    BY <1>1, RecordWritten
<1>3. OnDisk' = op.next
    BY <1>1, <1>2 DEF OnDisk
<1>4. op' \in OpTypes /\ op'.kind = "snapshot" /\ op'.next = op.next
    BY <1>1 DEF Types, OpTypes
<1>5. Types'
    BY <1>1, <1>4 DEF Types
<1>6. Disk(journal, stateFile, attempts)' /\ Retained(journal, OnDisk)'
    BY <1>1, <1>2, <1>3
<1>7. opened /\ ~poisoned
    BY <1>1 DEF Operation
<1>8. ClosedStore'
    BY <1>1, <1>7 DEF ClosedStore
<1>9. Running'
    <2>1. op.next.eventFloor = state.eventFloor /\ state.eventFloor <= state.eventFloor
        BY <1>1, <1>7 DEF Operation, Types, StateType
    <2> QED BY <1>1, <1>2, <1>3, <1>4, <1>7, <2>1 DEF Running
<1>10. Operation'
    BY <1>1, <1>2, <1>4 DEF Operation
<1>11. Acked'
    BY <1>1, <1>2, <1>3, AckedGrows
<1> QED BY <1>2, <1>3, <1>5, <1>6, <1>8, <1>9, <1>10, <1>11

LEMMA JournalFailsInv ==
    ASSUME Inv, JournalFails PROVE Inv' /\ (OnDisk' = OnDisk \/ OneMore(OnDisk, OnDisk'))
<1> USE DEF Inv
<1>1. /\ op.kind = "journal" /\ op' = Idle /\ poisoned' = TRUE
      /\ journal' = journal \/ (FitsJournal(op.next) /\ journal' = WithRecord)
      /\ UNCHANGED <<stateFile, opened, state, unlinking, clock, attempts, acked>>
    BY DEF JournalFails, history
<1>2. opened /\ ~poisoned /\ op.next.eventFloor = state.eventFloor
    BY <1>1 DEF Operation
<1>3. /\ state.log = stateFile.log /\ stateFile # NoFile /\ WellFormed(state, attempts)
      /\ Retained(journal, state) /\ state.eventFloor <= OnDisk.eventFloor
    BY <1>1, <1>2 DEF Running
<1>4. Types' /\ ClosedStore'
    BY <1>1, <1>2, IdleTyped DEF Types, ClosedStore
<1>5. Operation'
    BY <1>1 DEF Operation, Idle
<1>6. CASE journal' = journal
    <2>1. OnDisk' = OnDisk
        BY <1>1, <1>6 DEF OnDisk
    <2>2. Disk(journal, stateFile, attempts)' /\ Retained(journal, OnDisk)'
        BY <1>1, <1>6, <2>1
    <2>3. Running' /\ Acked'
        BY <1>1, <1>2, <1>3, <1>6, <2>1 DEF Running, Acked
    <2> QED BY <1>4, <1>5, <2>1, <2>2, <2>3
<1>7. CASE FitsJournal(op.next) /\ journal' = WithRecord
    <2>1. /\ Disk(journal', stateFile, attempts) /\ RecoveredOf(journal', stateFile) = op.next
          /\ OneMore(OnDisk, op.next)
          /\ Retained(journal', op.next) /\ Retained(journal', state)
        BY <1>1, <1>7, RecordWritten
    <2>2. OnDisk' = op.next
        BY <1>1, <2>1 DEF OnDisk
    <2>3. Disk(journal, stateFile, attempts)' /\ Retained(journal, OnDisk)'
        BY <1>1, <2>1, <2>2
    <2>4. Running'
        <3>1. state.eventFloor <= op.next.eventFloor
            BY <1>2 DEF Types, StateType
        <3> QED BY <1>1, <1>2, <1>3, <2>1, <2>2, <3>1 DEF Running
    <2>5. Acked'
        BY <1>1, <2>1, <2>2, AckedGrows
    <2> QED BY <1>4, <1>5, <2>1, <2>2, <2>3, <2>4, <2>5
<1> QED BY <1>1, <1>6, <1>7

\* While state.json is being written a restart recovers the transaction.
LEMMA RecordAhead ==
    ASSUME Inv, op.kind = "snapshot"
    PROVE  /\ opened /\ ~poisoned /\ OnDisk = op.next /\ attempts \in Nat
           /\ WellFormed(op.next, attempts) /\ OneMore(state, op.next)
           /\ op.next.eventFloor = state.eventFloor /\ op.next # NoFile
           /\ Disk(journal, op.next, attempts) /\ NewerOf(journal, op.next) = {}
           /\ RecoveredOf(journal, op.next) = op.next
           /\ stateFile # NoFile /\ state.log = stateFile.log
           /\ Retained(journal, op.next) /\ Retained(journal, state)
<1> USE DEF Inv
<1>1. /\ opened /\ ~poisoned /\ WellFormed(op.next, attempts) /\ OneMore(state, op.next)
      /\ op.next.eventFloor = state.eventFloor
    BY DEF Operation
<1>2. PICK r \in journal : NewerOf(journal, stateFile) = {r} /\ r.nextState = op.next
    BY DEF Operation
<1>3. attempts \in Nat
    BY DEF Types
<1>4. OnDisk = op.next
    BY <1>2, <1>3, DiskCases DEF OnDisk
<1>5. /\ op.next # NoFile /\ Disk(journal, op.next, attempts)
      /\ NewerOf(journal, op.next) = {} /\ RecoveredOf(journal, op.next) = op.next
    BY <1>3, <1>4, DiskOpened DEF OnDisk
<1>6. stateFile # NoFile /\ state.log = stateFile.log /\ Retained(journal, state)
    BY <1>1 DEF Running
<1> QED BY <1>1, <1>3, <1>4, <1>5, <1>6

LEMMA CommitInv ==
    ASSUME Inv, Commit PROVE Inv' /\ OnDisk' = OnDisk
<1> USE DEF Inv
<1>1. /\ op.kind = "snapshot" /\ op' = Idle /\ stateFile' = op.next /\ state' = op.next
      /\ acked' = acked \cup {op.next.log[op.next.cursor]}
      /\ UNCHANGED <<journal, opened, poisoned, unlinking, clock, attempts>>
    BY DEF Commit
<1>2. /\ opened /\ ~poisoned /\ OnDisk = op.next
      /\ WellFormed(op.next, attempts) /\ OneMore(state, op.next)
      /\ op.next.eventFloor = state.eventFloor /\ op.next # NoFile
      /\ Disk(journal, op.next, attempts) /\ NewerOf(journal, op.next) = {}
      /\ RecoveredOf(journal, op.next) = op.next /\ Retained(journal, op.next)
    BY <1>1, RecordAhead
<1>3. OnDisk' = OnDisk
    BY <1>1, <1>2 DEF OnDisk
<1>4. Types' /\ ClosedStore'
    BY <1>1, <1>2, IdleTyped DEF Types, ClosedStore, WellFormed
<1>5. Disk(journal, stateFile, attempts)' /\ Retained(journal, OnDisk)'
    BY <1>1, <1>2, <1>3
<1>6. Running'
    <2>1. op.next.eventFloor <= op.next.eventFloor
        BY <1>2 DEF WellFormed, StateType
    <2> QED BY <1>1, <1>2, <1>3, <2>1 DEF Running
<1>7. Operation'
    BY <1>1, <1>2 DEF Operation, Idle
<1>8. Acked'
    <2>1. op.next.cursor \in 1..Len(op.next.log)
        <3>1. state.cursor \in Nat
            BY DEF Types, StateType
        <3>2. op.next.cursor = Len(op.next.log) /\ op.next.cursor = state.cursor + 1
            BY <1>2 DEF WellFormed, OneMore
        <3> QED BY <3>1, <3>2
    <2>2. Holds(op.next, op.next.log[op.next.cursor])
        BY <2>1 DEF Holds
    <2>3. \A tx \in acked : Holds(op.next, tx)
        BY <1>2 DEF Acked
    <2> QED BY <1>1, <1>2, <1>3, <2>2, <2>3 DEF Acked
<1> QED BY <1>3, <1>4, <1>5, <1>6, <1>7, <1>8

LEMMA SnapshotFailsInv ==
    ASSUME Inv, SnapshotFails PROVE Inv' /\ OnDisk' = OnDisk
<1> USE DEF Inv
<1>1. /\ op.kind = "snapshot" /\ op' = Idle /\ poisoned' = TRUE
      /\ stateFile' \in {stateFile, op.next}
      /\ UNCHANGED <<journal, opened, state, unlinking, clock, attempts, acked>>
    BY DEF SnapshotFails, history
<1>2. /\ opened /\ ~poisoned /\ OnDisk = op.next /\ OneMore(state, op.next)
      /\ op.next # NoFile /\ Disk(journal, op.next, attempts)
      /\ NewerOf(journal, op.next) = {} /\ RecoveredOf(journal, op.next) = op.next
      /\ stateFile # NoFile /\ state.log = stateFile.log
    BY <1>1, RecordAhead
<1>3. OnDisk' = OnDisk
    BY <1>1, <1>2 DEF OnDisk
<1>4. Types' /\ ClosedStore'
    BY <1>1, <1>2, IdleTyped DEF Types, ClosedStore
<1>5. Disk(journal, stateFile, attempts)' /\ Retained(journal, OnDisk)'
    BY <1>1, <1>2, <1>3
<1>6. Running'
    BY <1>1, <1>2, <1>3 DEF Running
<1>7. Operation'
    BY <1>1 DEF Operation, Idle
<1>8. Acked'
    BY <1>1, <1>3 DEF Acked
<1> QED BY <1>3, <1>4, <1>5, <1>6, <1>7, <1>8

(* A non-empty set of naturals has a least element. *)
LEMMA SmallestExists ==
    ASSUME NEW T \in SUBSET Nat, T # {}
    PROVE  \E m \in T : \A k \in T : m <= k
<1> DEFINE less == {ss \in Nat \X Nat : ss[1] < ss[2]}
<1>1. IsWellFoundedOn(less, Nat)
    BY NatLessThanWellFounded DEF OpToRel
<1>2. PICK m \in T : \A k \in T : ~ (<<k, m>> \in less)
    <2> HIDE DEF less
    <2> QED BY <1>1, WFMin
<1>3. \A k \in T : ~(k < m)
    BY <1>2
<1> QED BY <1>3

(* The floor of pruneEvents is the greatest of a bounded set. *)
LEMMA GreatestIsMax ==
    ASSUME NEW T \in SUBSET Nat, T # {}, NEW n \in Nat, \A k \in T : k <= n
    PROVE  Max(T) \in T /\ \A k \in T : k <= Max(T)
<1> DEFINE D == {n - k : k \in T}
<1>1. D \in SUBSET Nat /\ D # {}
    <2>1. \A k \in T : n - k \in Nat
        OBVIOUS
    <2> QED BY <2>1
<1>2. PICK d \in D : \A e \in D : d <= e
    <2> HIDE DEF D
    <2> QED BY <1>1, SmallestExists
<1>3. PICK m \in T : d = n - m
    OBVIOUS
<1>4. \A k \in T : n - m <= n - k
    BY <1>2, <1>3
<1>5. \A k \in T : m >= k
    BY <1>4
<1>6. Max(T) \in T /\ \A k \in T : Max(T) >= k
    BY <1>5 DEF Max
<1> QED BY <1>6

LEMMA PruneEventsInv ==
    ASSUME Inv, PruneEvents PROVE Inv' /\ OnDisk' = OnDisk
<1> USE DEF Inv
<1> DEFINE next == [state EXCEPT !.eventFloor = Floor(@)]
<1>1. /\ opened /\ ~poisoned /\ op = Idle
      /\ op' = [Idle EXCEPT !.kind = "floor", !.expired = Expired, !.next = next]
      /\ UNCHANGED <<journal, stateFile, opened, poisoned, state, unlinking, clock, attempts, acked>>
    BY DEF PruneEvents, Ready, disk, history
<1>2. WellFormed(state, attempts) /\ state \in StateType
    BY <1>1 DEF Running, WellFormed
<1>3. state.cursor \in Nat /\ state.eventFloor \in Nat /\ state.eventFloor <= state.cursor
    BY <1>2 DEF WellFormed, StateType
<1>4. Expired \in SUBSET Nat /\ \A c \in Expired : c <= state.cursor
    BY DEF Expired, Disk, RecordType
<1>5. /\ Floor(state.eventFloor) \in Nat /\ Floor(state.eventFloor) <= state.cursor
      /\ state.eventFloor <= Floor(state.eventFloor)
      /\ \A c \in Expired : c <= Floor(state.eventFloor)
    <2> DEFINE T == {state.eventFloor} \cup Expired
    <2>1. T \in SUBSET Nat /\ T # {} /\ \A k \in T : k <= state.cursor
        BY <1>3, <1>4
    <2>2. Floor(state.eventFloor) = Max(T)
        BY DEF Floor
    <2> HIDE DEF T
    <2>3. Max(T) \in T /\ \A k \in T : k <= Max(T)
        BY <1>3, <2>1, GreatestIsMax
    <2> USE DEF T
    <2> QED BY <2>1, <2>2, <2>3
<1>6. /\ next \in StateType /\ next.log = state.log /\ next.cursor = state.cursor
      /\ next.eventFloor = Floor(state.eventFloor)
    BY <1>2, <1>5 DEF StateType
<1>7. WellFormed(next, attempts)
    BY <1>2, <1>5, <1>6 DEF WellFormed
<1> HIDE DEF next
<1>8. op' = [kind |-> "floor", next |-> next, at |-> 0, expired |-> Expired]
    BY <1>1 DEF Idle
<1>9. OnDisk' = OnDisk
    BY <1>1 DEF OnDisk
<1>10. Types' /\ ClosedStore'
    BY <1>1, <1>4, <1>6, <1>8 DEF Types, OpTypes, ClosedStore
<1>11. Disk(journal, stateFile, attempts)' /\ Retained(journal, OnDisk)'
    BY <1>1, <1>9
<1>12. Running' /\ Acked'
    BY <1>1, <1>8, <1>9 DEF Running, Acked, Idle
<1>13. Operation'
    BY <1>1, <1>5, <1>6, <1>7, <1>8 DEF Operation
<1> QED BY <1>9, <1>10, <1>11, <1>12, <1>13

\* pruneEvents keeps the log.
LEMMA FloorRaised ==
    ASSUME Inv, op.kind = "floor"
    PROVE  /\ opened /\ ~poisoned /\ op.next # NoFile /\ OnDisk = stateFile
           /\ WellFormed(op.next, attempts) /\ WellFormed(state, attempts)
           /\ op.next.log = state.log /\ op.next.log = OnDisk.log
           /\ state.eventFloor <= op.next.eventFloor
           /\ \A c \in op.expired : c \in Nat /\ c <= op.next.eventFloor
           /\ Disk(journal, op.next, attempts) /\ NewerOf(journal, op.next) = {}
           /\ RecoveredOf(journal, op.next) = op.next
           /\ Retained(journal, op.next)
<1> USE DEF Inv
<1>1. /\ opened /\ ~poisoned /\ WellFormed(op.next, attempts) /\ op.next.log = state.log
      /\ state.eventFloor <= op.next.eventFloor
      /\ \A c \in op.expired : c \in Nat /\ c <= op.next.eventFloor
    BY DEF Operation, Types, OpTypes
<1>2. /\ stateFile # NoFile /\ OnDisk = stateFile /\ NewerOf(journal, stateFile) = {}
      /\ WellFormed(state, attempts) /\ stateFile.log = state.log
    BY <1>1, Quiet
<1>3. attempts \in Nat /\ Retained(journal, state)
    BY <1>1 DEF Types, Running
<1>4. /\ op.next # NoFile /\ Disk(journal, op.next, attempts)
      /\ NewerOf(journal, op.next) = {} /\ RecoveredOf(journal, op.next) = op.next
    BY <1>1, <1>2, <1>3, DiskRewritten
<1>5. /\ op.next.cursor = state.cursor /\ state.eventFloor \in Nat
      /\ op.next.eventFloor \in Nat /\ state.cursor \in Nat
    BY <1>1, <1>2 DEF WellFormed, StateType
<1>6. Retained(journal, op.next)
    BY <1>1, <1>3, <1>5 DEF Retained
<1> QED BY <1>1, <1>2, <1>4, <1>6

\* Of a state only its log decides what it holds.
LEMMA SameLogHolds ==
    ASSUME NEW s, NEW t, s.log = t.log, NEW tx, Holds(s, tx) PROVE Holds(t, tx)
BY DEF Holds

LEMMA WriteFloorInv ==
    ASSUME Inv, WriteFloor PROVE Inv' /\ OnDisk'.log = OnDisk.log
<1> USE DEF Inv
<1>1. /\ op.kind = "floor" /\ op' = [op EXCEPT !.kind = "unlink"]
      /\ stateFile' = op.next /\ state' = op.next /\ unlinking' = unlinking \cup op.expired
      /\ UNCHANGED <<journal, opened, poisoned, clock, attempts, acked>>
    BY DEF WriteFloor, history
<1>2. /\ opened /\ ~poisoned /\ op.next # NoFile
      /\ WellFormed(op.next, attempts) /\ WellFormed(state, attempts)
      /\ op.next.log = state.log /\ op.next.log = OnDisk.log
      /\ state.eventFloor <= op.next.eventFloor
      /\ \A c \in op.expired : c \in Nat /\ c <= op.next.eventFloor
      /\ Disk(journal, op.next, attempts) /\ NewerOf(journal, op.next) = {}
      /\ RecoveredOf(journal, op.next) = op.next /\ Retained(journal, op.next)
    BY <1>1, FloorRaised
<1>3. OnDisk' = op.next
    BY <1>1, <1>2 DEF OnDisk
<1>4. op' \in OpTypes /\ op'.kind = "unlink"
    BY <1>1 DEF Types, OpTypes
<1>5. Types' /\ ClosedStore'
    BY <1>1, <1>2, <1>4 DEF Types, ClosedStore, WellFormed
<1>6. Disk(journal, stateFile, attempts)' /\ Retained(journal, OnDisk)'
    BY <1>1, <1>2, <1>3
<1>7. state.eventFloor \in Nat /\ op.next.eventFloor \in Nat
    BY <1>2 DEF WellFormed, StateType
<1>8. Running'
    BY <1>1, <1>2, <1>3, <1>7 DEF Running
<1>9. Operation'
    <2>1. \A c \in unlinking : c \in Nat /\ c <= op.next.eventFloor
        BY <1>2, <1>7 DEF Operation
    <2> QED BY <1>1, <1>2, <1>4, <2>1 DEF Operation
<1>10. Acked'
    <2>1. \A tx \in acked : Holds(op.next, tx)
        BY <1>2, SameLogHolds DEF Acked
    <2> QED BY <1>1, <1>3, <2>1 DEF Acked
<1> QED BY <1>2, <1>3, <1>5, <1>6, <1>8, <1>9, <1>10

LEMMA FloorFailsInv ==
    ASSUME Inv, FloorFails PROVE Inv' /\ OnDisk'.log = OnDisk.log
<1> USE DEF Inv
<1>1. /\ op.kind = "floor" /\ op' = Idle /\ stateFile' \in {stateFile, op.next}
      /\ UNCHANGED <<journal, opened, poisoned, state, unlinking, clock, attempts, acked>>
    BY DEF FloorFails, history
<1>2. /\ opened /\ ~poisoned /\ op.next # NoFile /\ OnDisk = stateFile
      /\ op.next.log = state.log /\ op.next.log = OnDisk.log
      /\ state.eventFloor <= op.next.eventFloor
      /\ Disk(journal, op.next, attempts) /\ NewerOf(journal, op.next) = {}
      /\ RecoveredOf(journal, op.next) = op.next /\ Retained(journal, op.next)
    BY <1>1, FloorRaised
<1>3. Types' /\ ClosedStore'
    BY <1>1, <1>2, IdleTyped DEF Types, ClosedStore
<1>4. Operation'
    BY <1>1 DEF Operation, Idle
<1>5. CASE stateFile' = stateFile
    <2>1. OnDisk' = OnDisk
        BY <1>1, <1>5 DEF OnDisk
    <2>2. Disk(journal, stateFile, attempts)' /\ Retained(journal, OnDisk)'
        BY <1>1, <1>5, <2>1
    <2>3. Running'
        BY <1>1, <1>2, <1>5, <2>1 DEF Running
    <2>4. Acked'
        BY <1>1, <2>1 DEF Acked
    <2> QED BY <1>3, <1>4, <2>1, <2>2, <2>3, <2>4
<1>6. CASE stateFile' = op.next
    <2>1. OnDisk' = op.next
        BY <1>1, <1>2, <1>6 DEF OnDisk
    <2>2. Disk(journal, stateFile, attempts)' /\ Retained(journal, OnDisk)'
        BY <1>1, <1>2, <1>6, <2>1
    <2>3. Running'
        BY <1>1, <1>2, <1>6, <2>1 DEF Running
    <2>4. Acked'
        <3>1. \A tx \in acked : Holds(op.next, tx)
            BY <1>2, SameLogHolds DEF Acked
        <3> QED BY <1>1, <2>1, <3>1 DEF Acked
    <2> QED BY <1>2, <1>3, <1>4, <2>1, <2>2, <2>3, <2>4
<1> QED BY <1>1, <1>5, <1>6

LEMMA UnlinkInv ==
    ASSUME Inv, NEW c \in unlinking, Unlink(c) PROVE Inv' /\ OnDisk' = OnDisk
<1> USE DEF Inv
<1>1. /\ unlinking' = unlinking \ {c} /\ journal' = {r \in journal : r.cursor # c}
      /\ (op' = Idle /\ op.kind = "unlink") \/ op' = op
      /\ UNCHANGED <<stateFile, opened, poisoned, state, clock, attempts, acked>>
    BY DEF Unlink, history
<1>2. opened
    BY DEF ClosedStore
<1>3. /\ stateFile # NoFile /\ WellFormed(state, attempts) /\ Retained(journal, state)
      /\ state.eventFloor <= OnDisk.eventFloor
      /\ state.log = stateFile.log \/ OneMore(state, stateFile)
    BY <1>2 DEF Running
<1>4. c \in Nat /\ c <= state.eventFloor
    BY DEF Operation
<1>5. attempts \in Nat /\ WellFormed(stateFile, attempts) /\ WellFormed(OnDisk, attempts)
    BY <1>3, RecoveredWellFormed DEF Types, Disk, OnDisk
<1>6. /\ state.cursor \in Nat /\ state.eventFloor \in Nat /\ OnDisk.eventFloor \in Nat
      /\ state.eventFloor <= state.cursor /\ OnDisk.cursor \in Nat
    BY <1>3, <1>5 DEF WellFormed, StateType
<1>7. c <= PersistedOf(stateFile).cursor
    <2>1. PersistedOf(stateFile) = stateFile
        BY <1>3 DEF PersistedOf
    <2>2. stateFile.cursor = state.cursor \/ stateFile.cursor = state.cursor + 1
        BY <1>3, <1>5 DEF WellFormed, OneMore
    <2> QED BY <1>4, <1>6, <2>1, <2>2
<1>8. /\ Disk(journal', stateFile, attempts)
      /\ NewerOf(journal', stateFile) = NewerOf(journal, stateFile)
      /\ RecoveredOf(journal', stateFile) = RecoveredOf(journal, stateFile)
      /\ Cursors(journal') = Cursors(journal) \ {c}
    BY <1>1, <1>4, <1>5, <1>7, DiskUnlinked
<1>9. OnDisk' = OnDisk
    BY <1>1, <1>8 DEF OnDisk
<1>10. Retained(journal', state) /\ Retained(journal', OnDisk)
    BY <1>3, <1>4, <1>6, <1>8 DEF Retained
<1>11. Types' /\ ClosedStore'
    BY <1>1, <1>2, IdleTyped DEF Types, ClosedStore
<1>12. Disk(journal, stateFile, attempts)' /\ Retained(journal, OnDisk)'
    BY <1>1, <1>8, <1>9, <1>10
<1>13. Running'
    BY <1>1, <1>3, <1>8, <1>9, <1>10 DEF Running, Idle
<1>14. Operation'
    <2>1. \A d \in unlinking' : d \in Nat /\ d <= state'.eventFloor
        BY <1>1 DEF Operation
    <2>2. CASE op' = Idle
        BY <2>1, <2>2 DEF Operation, Idle
    <2>3. CASE op' = op
        <3>1. op.kind = "snapshot" =>
                  \E r \in journal' : NewerOf(journal', stateFile') = {r} /\ r.nextState = op.next
            <4> SUFFICES ASSUME op.kind = "snapshot"
                         PROVE  \E r \in journal' : /\ NewerOf(journal', stateFile') = {r}
                                                    /\ r.nextState = op.next
                OBVIOUS
            <4>1. PICK r \in journal : NewerOf(journal, stateFile) = {r} /\ r.nextState = op.next
                BY DEF Operation
            <4>2. r \in NewerOf(journal', stateFile)
                BY <1>8, <4>1
            <4> QED BY <1>1, <1>8, <4>1, <4>2 DEF NewerOf
        <3> QED BY <1>1, <2>1, <2>3, <3>1 DEF Operation
    <2> QED BY <1>1, <2>2, <2>3
<1>15. Acked'
    BY <1>1, <1>9 DEF Acked
<1> QED BY <1>9, <1>11, <1>12, <1>13, <1>14, <1>15

LEMMA UnlinkFailsInv ==
    ASSUME Inv, NEW c \in unlinking, UnlinkFails(c) PROVE Inv' /\ OnDisk' = OnDisk
<1> USE DEF Inv
<1>1. /\ unlinking' = unlinking \ {c}
      /\ (op' = Idle /\ op.kind = "unlink") \/ op' = op
      /\ UNCHANGED <<journal, stateFile, opened, poisoned, state, clock, attempts, acked>>
    BY DEF UnlinkFails, disk, history
<1>2. OnDisk' = OnDisk
    BY <1>1 DEF OnDisk
<1>3. opened
    BY DEF ClosedStore
<1>4. Types' /\ ClosedStore'
    BY <1>1, <1>3, IdleTyped DEF Types, ClosedStore
<1>5. Disk(journal, stateFile, attempts)' /\ Retained(journal, OnDisk)'
    BY <1>1, <1>2
<1>6. Running' /\ Acked'
    BY <1>1, <1>2 DEF Running, Acked, Idle
<1>7. Operation'
    <2>1. CASE op' = Idle
        BY <1>1, <2>1 DEF Operation, Idle
    <2>2. CASE op' = op
        BY <1>1, <2>2 DEF Operation
    <2> QED BY <1>1, <2>1, <2>2
<1> QED BY <1>2, <1>4, <1>5, <1>6, <1>7

LEMMA CrashInv ==
    ASSUME Inv, Crash PROVE Inv' /\ OnDisk' = OnDisk
<1> USE DEF Inv
<1>1. /\ ~opened' /\ opened' = FALSE /\ poisoned' = FALSE /\ state' = InitialState
      /\ op' = Idle /\ unlinking' = {}
      /\ UNCHANGED <<journal, stateFile, clock, attempts, acked>>
    BY DEF Crash, disk, history
<1>2. OnDisk' = OnDisk
    BY <1>1 DEF OnDisk
<1>3. Types' /\ ClosedStore'
    <2>1. InitialState \in StateType
        BY StoreAssumption DEF InitialState, StateType
    <2> QED BY <1>1, <2>1, IdleTyped DEF Types, ClosedStore
<1>4. Disk(journal, stateFile, attempts)' /\ Retained(journal, OnDisk)'
    BY <1>1, <1>2
<1>5. Running' /\ Acked'
    BY <1>1, <1>2 DEF Running, Acked
<1>6. Operation'
    BY <1>1 DEF Operation, Idle
<1> QED BY <1>2, <1>3, <1>4, <1>5, <1>6

\* The clock moves, or nothing does.
LEMMA UnchangedInv ==
    ASSUME Inv, clock' \in Times,
           UNCHANGED <<journal, stateFile, opened, poisoned, state, op, unlinking, attempts, acked>>
    PROVE  Inv' /\ OnDisk' = OnDisk
<1>1. OnDisk' = OnDisk
    BY DEF OnDisk
<1> QED BY <1>1 DEF Inv, Types, Disk, Retained, ClosedStore, Running, Operation, Acked

LEMMA StepInv ==
    ASSUME Inv, [Next]_vars
    PROVE  Inv' /\ (OnDisk'.log = OnDisk.log \/ OneMore(OnDisk, OnDisk'))
<1>1. CASE Open BY <1>1, OpenInv
<1>2. CASE OpenFails BY <1>2, OpenFailsInv
<1>3. CASE \E size \in Sizes : Transact(size) BY <1>3, TransactInv
<1>4. CASE WriteJournal BY <1>4, WriteJournalInv
<1>5. CASE JournalFails BY <1>5, JournalFailsInv
<1>6. CASE SnapshotFails BY <1>6, SnapshotFailsInv
<1>7. CASE PruneEvents BY <1>7, PruneEventsInv
<1>8. CASE WriteFloor BY <1>8, WriteFloorInv
<1>9. CASE FloorFails BY <1>9, FloorFailsInv
<1>10. CASE \E c \in unlinking : Unlink(c) \/ UnlinkFails(c)
    BY <1>10, UnlinkInv, UnlinkFailsInv
<1>11. CASE ClockMoves
    BY <1>11, UnchangedInv DEF ClockMoves, disk, history
<1>12. CASE Commit BY <1>12, CommitInv
<1>13. CASE Crash BY <1>13, CrashInv
<1>14. CASE UNCHANGED vars
    <2>1. clock \in Times
        BY DEF Inv, Types
    <2> QED BY <1>14, <2>1, UnchangedInv DEF vars, disk, history
<1> QED
    BY <1>1, <1>2, <1>3, <1>4, <1>5, <1>6, <1>7, <1>8, <1>9, <1>10, <1>11, <1>12, <1>13, <1>14
    DEF Next, QuietStep

-----------------------------------------------------------------------------
(* The theorems.                                                           *)

(* The invariant of the store: its types, a disk whose journal is at most  *)
(* one transaction ahead, and what the running store knows of that disk.   *)
THEOREM StoreInvariant == Spec => []Inv
<1>1. Init => Inv BY InitInv
<1>2. Inv /\ [Next]_vars => Inv' BY StepInv
<1> QED BY <1>1, <1>2, PTL DEF Spec

(* A transaction whose caller was answered is never lost or doubled by a   *)
(* crash, a failed write or a recovery, and the journal keeps every event  *)
(* above the floor (transact and pruneEvents of state-store.mjs).          *)
THEOREM AckedTransactionsSurvive == Spec => []AckedSurvives
<1>1. Inv => AckedSurvives
    <2> SUFFICES ASSUME Inv PROVE AckedSurvives
        OBVIOUS
    <2>1. attempts \in Nat /\ WellFormed(OnDisk, attempts)
        BY RecoveredWellFormed DEF Inv, Types, OnDisk
    <2>2. opened => WellFormed(state, attempts) /\ Retained(journal, state)
        BY DEF Inv, Running
    <2>3. \A tx \in acked : Times1(tx, OnDisk) /\ (opened => Times1(tx, state))
        BY <2>1, <2>2, HeldOnce DEF Inv, Acked
    <2> QED BY <2>2, <2>3, Links DEF AckedSurvives, Retained
<1> QED BY <1>1, StoreInvariant, PTL

(* Without states between the limit of a journal record and the limit of   *)
(* state.json the store can always be opened again.  The condition is      *)
(* needed: transact checks the two limits one after the other, and such a  *)
(* state passes the first (state-store.mjs:118).                           *)
THEOREM StoreReopens == "large" \notin Sizes => (Spec => []Reopens)
<1> SUFFICES ASSUME "large" \notin Sizes PROVE Spec => []Reopens
    OBVIOUS
<1>1. Inv => Reopens
    <2> SUFFICES ASSUME Inv PROVE CanOpen
        BY DEF Reopens
    <2>1. attempts \in Nat /\ Disk(journal, stateFile, attempts)
        BY DEF Inv, Types
    <2>2. ValidState(Persisted)
        BY <2>1, PersistedWellFormed, Links DEF ValidState, WellFormed, StateType
    <2>3. ValidJournal
        BY <2>1 DEF ValidJournal, ValidState, Disk, WellFormed, StateType
    <2>4. CASE Newer = {}
        BY <2>2, <2>3, <2>4 DEF CanOpen, CursorGap
    <2>5. CASE Newer # {}
        <3>1. PICK r \in journal : /\ Newer = {r} /\ Recovered = r.nextState
                                   /\ r.cursor = Persisted.cursor + 1
            BY <2>1, <2>5, DiskCases, Links DEF OnDisk
        <3>2. Persisted.cursor \in Nat
            BY <2>1, PersistedWellFormed, Links DEF WellFormed, StateType
        <3>3. ~CursorGap
            BY <3>1, <3>2 DEF CursorGap
        <3>4. r.nextState.size \in Sizes /\ r.nextState.size # "huge"
            BY <2>1 DEF Disk, WellFormed, StateType
        <3>5. FitsStateFile(Recovered)
            BY <3>1, <3>4, StoreAssumption DEF FitsStateFile
        <3> QED BY <2>2, <2>3, <3>3, <3>5 DEF CanOpen
    <2> QED BY <2>4, <2>5
<1> QED BY <1>1, StoreInvariant, PTL

(* What a restart would recover is an append-only log: the store with its  *)
(* two kinds of files, its failures and its pruning implements EventLog.   *)
THEOREM StoreIsLog == Spec => LogSpec
<1>1. Init => DurableLog!Init
    <2> SUFFICES ASSUME Init PROVE DurableLog!Init
        OBVIOUS
    <2>1. Newer = {} /\ Persisted = InitialState
        BY DEF Init, Newer, Persisted
    <2>2. Recovered.log = <<>>
        BY <2>1 DEF Recovered, InitialState
    <2> QED BY <2>2 DEF DurableLog!Init
<1>2. Inv /\ [Next]_vars => [DurableLog!Next]_(Recovered.log)
    <2> SUFFICES ASSUME Inv, [Next]_vars PROVE [DurableLog!Next]_(Recovered.log)
        OBVIOUS
    <2>1. OnDisk'.log = OnDisk.log \/ OneMore(OnDisk, OnDisk')
        BY StepInv
    <2>2. OnDisk \in StateType
        BY RecoveredWellFormed DEF Inv, Types, OnDisk, WellFormed
    <2>3. Recovered = OnDisk /\ Recovered' = OnDisk'
        BY DEF Recovered, OnDisk, RecoveredOf, Newer, NewerOf, Persisted, PersistedOf
    <2>4. CASE OnDisk'.log = OnDisk.log
        BY <2>3, <2>4
    <2>5. CASE OneMore(OnDisk, OnDisk')
        <3>1. Len(OnDisk'.log) = Len(OnDisk.log) + 1
              /\ SubSeq(OnDisk'.log, 1, Len(OnDisk.log)) = OnDisk.log
            BY <2>2, <2>5, OneMoreAppends
        <3> QED BY <2>3, <3>1 DEF DurableLog!Next
    <2> QED BY <2>1, <2>4, <2>5
<1> QED BY <1>1, <1>2, StoreInvariant, PTL DEF Spec, LogSpec, DurableLog!Spec

-----------------------------------------------------------------------------
(* Ascending sequences of cursors.                                         *)

Ascending(s) == \A i, j \in 1..Len(s) : i < j => s[i] < s[j]

Elements(s) == {s[i] : i \in 1..Len(s)}

(* A finite set of numbers has one ascending enumeration, and InOrder is   *)
(* it: the number of smaller elements is the place of an element.          *)
LEMMA Enumeration ==
    ASSUME NEW S \in SUBSET Nat, IsFiniteSet(S)
    PROVE  /\ InOrder(S) \in Seq(Nat) /\ Ascending(InOrder(S))
           /\ Elements(InOrder(S)) = S
<1> DEFINE n == Cardinality(S)
           Upto(c) == {d \in S : d <= c}
           g == [c \in S |-> Cardinality(Upto(c))]
<1>0. \A c \in S : c \in Nat
    OBVIOUS
<1>1. n \in Nat /\ IsFiniteSet(1..n) /\ Cardinality(1..n) = n
    <2>1. n \in Nat
        BY FS_CardinalityType
    <2> QED BY <2>1, FS_Interval
<1>2. \A c \in S : /\ IsFiniteSet(Upto(c)) /\ Cardinality(Upto(c)) \in Nat
                   /\ Cardinality(Upto(c)) <= n
    <2> SUFFICES ASSUME NEW c \in S
                 PROVE  /\ IsFiniteSet(Upto(c)) /\ Cardinality(Upto(c)) \in Nat
                        /\ Cardinality(Upto(c)) <= n
        OBVIOUS
    <2>1. Upto(c) \in SUBSET S
        OBVIOUS
    <2>2. IsFiniteSet(Upto(c)) /\ Cardinality(Upto(c)) <= n
        BY <2>1, FS_Subset
    <2> QED BY <2>2, FS_CardinalityType
<1>3. \A c \in S : Cardinality(Upto(c)) # 0
    <2> SUFFICES ASSUME NEW c \in S, Cardinality(Upto(c)) = 0 PROVE FALSE
        OBVIOUS
    <2>1. Upto(c) = {}
        BY <1>2, FS_EmptySet
    <2>2. c \in Upto(c)
        OBVIOUS
    <2> QED BY <2>1, <2>2
<1>4. \A c, d \in S : c < d => Cardinality(Upto(c)) < Cardinality(Upto(d))
    <2> SUFFICES ASSUME NEW c \in S, NEW d \in S, c < d
                 PROVE  Cardinality(Upto(c)) < Cardinality(Upto(d))
        OBVIOUS
    <2>1. Upto(c) \in SUBSET Upto(d)
        <3> SUFFICES ASSUME NEW x \in S, x <= c PROVE x <= d
            OBVIOUS
        <3>1. x \in Nat /\ c \in Nat /\ d \in Nat
            BY <1>0
        <3> QED BY <3>1
    <2>2. d \in Upto(d) /\ d \notin Upto(c)
        <3>1. c \in Nat /\ d \in Nat
            BY <1>0
        <3> QED BY <3>1
    <2>3. /\ Cardinality(Upto(c)) <= Cardinality(Upto(d))
          /\ Cardinality(Upto(d)) # Cardinality(Upto(c))
        BY <1>2, <2>1, <2>2, FS_Subset
    <2> QED BY <1>2, <2>3
<1> HIDE DEF Upto
<1>5. g \in Injection(S, 1..n)
    <2>1. g \in [S -> 1..n]
        <3>1. \A c \in S : Cardinality(Upto(c)) \in 1..n
            BY <1>1, <1>2, <1>3
        <3> QED BY <3>1
    <2>2. \A c, d \in S : g[c] = g[d] => c = d
        <3> SUFFICES ASSUME NEW c \in S, NEW d \in S, g[c] = g[d] PROVE c = d
            OBVIOUS
        <3>1. ~(c < d) /\ ~(d < c)
            BY <1>2, <1>4
        <3> QED BY <3>1
    <2> QED BY <2>1, <2>2 DEF Injection, IsInjective
<1>6. \A k \in 1..n : \E c \in S : g[c] = k
    <2>1. g \in Surjection(S, 1..n)
        BY <1>1, <1>5, FS_Injection
    <2> QED BY <2>1 DEF Surjection
<1> DEFINE e == [k \in 1..n |-> CHOOSE c \in S : g[c] = k]
<1>7. \A k \in 1..n : e[k] \in S /\ Cardinality(Upto(e[k])) = k
    <2> SUFFICES ASSUME NEW k \in 1..n PROVE e[k] \in S /\ g[e[k]] = k
        OBVIOUS
    <2>1. e[k] = CHOOSE c \in S : g[c] = k
        OBVIOUS
    <2> HIDE DEF e, g
    <2> QED BY <2>1, <1>6
<1>8. e \in [1..n -> S]
    <2>1. e = [k \in 1..n |-> e[k]]
        OBVIOUS
    <2> HIDE DEF e
    <2> QED BY <2>1, <1>7
<1>9. \A i, j \in DOMAIN e : i < j => e[i] < e[j]
    <2> HIDE DEF e
    <2> SUFFICES ASSUME NEW i \in 1..n, NEW j \in 1..n, i < j PROVE e[i] < e[j]
        BY <1>8
    <2>1. e[i] \in S /\ e[j] \in S /\ Cardinality(Upto(e[i])) = i /\ Cardinality(Upto(e[j])) = j
        BY <1>7
    <2>2. e[i] \in Nat /\ e[j] \in Nat
        BY <1>0, <2>1
    <2>5. i \in Nat /\ j \in Nat
        BY <1>1
    <2>3. e[i] # e[j]
        BY <2>1, <2>2
    <2>4. ~(e[j] < e[i])
        <3> SUFFICES ASSUME e[j] < e[i] PROVE FALSE
            OBVIOUS
        <3>1. j < i
            BY <1>4, <2>1
        <3> QED BY <2>5, <3>1
    <2> QED BY <2>2, <2>3, <2>4
<1> HIDE DEF e, g, n
<1>10. /\ InOrder(S) \in [1..n -> S]
       /\ \A i, j \in DOMAIN InOrder(S) : i < j => InOrder(S)[i] < InOrder(S)[j]
    BY <1>8, <1>9 DEF InOrder, n
<1> DEFINE s == InOrder(S)
<1> HIDE DEF s
<1>11. s \in [1..n -> S] /\ \A i, j \in 1..n : i < j => s[i] < s[j]
    BY <1>10 DEF s
<1>12. s \in Seq(Nat) /\ Len(s) = n
    <2>1. s \in [1..n -> Nat]
        BY <1>11
    <2> QED BY <1>1, <2>1
<1>13. s \in Injection(1..n, S)
    <2>1. \A i, j \in 1..n : s[i] = s[j] => i = j
        <3> SUFFICES ASSUME NEW i \in 1..n, NEW j \in 1..n, s[i] = s[j] PROVE i = j
            OBVIOUS
        <3>0. s[i] \in S
            BY <1>11
        <3>1. s[i] \in Nat
            BY <1>0, <3>0
        <3>4. i \in Int /\ j \in Int
            BY <1>1
        <3>2. ~(s[i] < s[j]) /\ ~(s[j] < s[i])
            BY <3>1
        <3>3. ~(i < j) /\ ~(j < i)
            BY <1>11, <3>2
        <3> QED BY <3>3, <3>4
    <2> QED BY <1>11, <2>1 DEF Injection, IsInjective
<1>14. \A c \in S : \E i \in 1..n : s[i] = c
    <2>1. Cardinality(1..n) = Cardinality(S)
        BY <1>1 DEF n
    <2>2. s \in Surjection(1..n, S)
        BY <2>1, <1>13, FS_Injection
    <2> QED BY <2>2 DEF Surjection
<1>15. Elements(s) = S
    BY <1>11, <1>12, <1>14 DEF Elements
<1>16. Ascending(s)
    BY <1>11, <1>12 DEF Ascending
<1> QED BY <1>12, <1>15, <1>16 DEF s

(* The buffered events that are newer than a cursor, in the order they     *)
(* were published in.                                                      *)
LEMMA UnsentAscends ==
    ASSUME NEW b \in Seq(Nat), Ascending(b), NEW n \in Nat
    PROVE  /\ Unsent(b, n) \in Seq(Nat) /\ Ascending(Unsent(b, n))
           /\ Elements(Unsent(b, n)) = {c \in Elements(b) : c > n}
<1> DEFINE I == {i \in DOMAIN b : b[i] > n}
           o == InOrder(I)
           u == [i \in DOMAIN o |-> b[o[i]]]
<1>1. /\ Len(b) \in Nat /\ DOMAIN b = 1..Len(b) /\ IsFiniteSet(1..Len(b))
      /\ \A i \in 1..Len(b) : b[i] \in Nat
    <2>1. /\ Len(b) \in Nat /\ DOMAIN b = 1..Len(b)
          /\ \A i \in 1..Len(b) : b[i] \in Nat
        OBVIOUS
    <2> QED BY <2>1, FS_Interval
<1>2. I \in SUBSET (1..Len(b)) /\ I \in SUBSET Nat
    BY <1>1
<1>3. IsFiniteSet(I)
    BY <1>1, <1>2, FS_Subset
<1>4. /\ o \in Seq(Nat) /\ Ascending(o) /\ Elements(o) = I
    BY <1>2, <1>3, Enumeration
<1>5. Unsent(b, n) = u
    BY DEF Unsent
<1> DEFINE m == Len(o)
<1> HIDE DEF o, I
<1>6. m \in Nat /\ DOMAIN o = 1..m /\ \A i \in 1..m : o[i] \in I
    BY <1>4 DEF Elements
<1>7. \A i \in 1..m : o[i] \in 1..Len(b) /\ b[o[i]] \in Nat /\ b[o[i]] > n
    BY <1>1, <1>2, <1>6 DEF I
<1>8. u \in Seq(Nat) /\ Len(u) = m /\ \A i \in 1..m : u[i] = b[o[i]]
    <2>1. u \in [1..m -> Nat]
        BY <1>6, <1>7
    <2> QED BY <2>1, <1>6
<1>9. Ascending(u)
    <2> SUFFICES ASSUME NEW i \in 1..m, NEW j \in 1..m, i < j PROVE u[i] < u[j]
        BY <1>8 DEF Ascending
    <2>1. o[i] < o[j] /\ o[i] \in 1..Len(b) /\ o[j] \in 1..Len(b)
        BY <1>4, <1>7 DEF Ascending
    <2> QED BY <2>1, <1>8 DEF Ascending
<1>10. Elements(u) = {c \in Elements(b) : c > n}
    <2>1. \A c \in Elements(u) : c \in Elements(b) /\ c > n
        BY <1>7, <1>8 DEF Elements
    <2>2. ASSUME NEW c \in Elements(b), c > n PROVE c \in Elements(u)
        <3>1. PICK i \in 1..Len(b) : c = b[i]
            BY DEF Elements
        <3>2. i \in I
            BY <2>2, <3>1, <1>1 DEF I
        <3>3. PICK k \in 1..m : o[k] = i
            BY <3>2, <1>4 DEF Elements
        <3> QED BY <3>1, <3>3, <1>8 DEF Elements
    <2> QED BY <2>1, <2>2
<1> QED BY <1>5, <1>8, <1>9, <1>10

(* What is written before the first write that answers false.              *)
LEMMA PrefixAscends ==
    ASSUME NEW s \in Seq(Nat), Ascending(s), NEW k \in 0..Len(s)
    PROVE  /\ SubSeq(s, 1, k) \in Seq(Nat) /\ Ascending(SubSeq(s, 1, k))
           /\ Elements(SubSeq(s, 1, k)) \subseteq Elements(s)
<1>1. Len(s) \in Nat /\ k \in Nat /\ k <= Len(s) /\ \A i \in 1..Len(s) : s[i] \in Nat
    OBVIOUS
<1>2. SubSeq(s, 1, k) \in Seq(Nat) /\ Len(SubSeq(s, 1, k)) = k
      /\ \A i \in 1..k : SubSeq(s, 1, k)[i] = s[i]
    BY <1>1
<1>3. \A i \in 1..k : i \in 1..Len(s)
    BY <1>1
<1> DEFINE p == SubSeq(s, 1, k)
<1> HIDE DEF p
<1>4. Len(p) = k /\ \A i \in 1..k : p[i] = s[i]
    BY <1>2 DEF p
<1>5. Ascending(p)
    BY <1>3, <1>4 DEF Ascending
<1>6. Elements(p) \subseteq Elements(s)
    BY <1>3, <1>4 DEF Elements
<1> QED BY <1>2, <1>5, <1>6 DEF p

LEMMA WrittenAscends ==
    ASSUME NEW s \in Seq(Nat), Ascending(s), NEW w \in Written(s)
    PROVE  w \in Seq(Nat) /\ Ascending(w) /\ Elements(w) \subseteq Elements(s)
<1>1. w = s \/ w \in Prefixes(s)
    BY DEF Written
<1>2. CASE w \in Prefixes(s)
    <2>1. PICK k \in 0..Len(s) : w = SubSeq(s, 1, k)
        BY <1>2 DEF Prefixes
    <2> QED BY <2>1, PrefixAscends
<1> QED BY <1>1, <1>2

LEMMA FirstAscends ==
    ASSUME NEW s \in Seq(Nat), Ascending(s), NEW n \in Nat
    PROVE  /\ FirstOf(s, n) \in Seq(Nat) /\ Ascending(FirstOf(s, n))
           /\ Elements(FirstOf(s, n)) \subseteq Elements(s)
<1>1. Len(s) \in Nat
    OBVIOUS
<1>2. Min({n, Len(s)}) \in {n, Len(s)} /\ Min({n, Len(s)}) <= Len(s)
    <2>1. \E m \in {n, Len(s)} : \A y \in {n, Len(s)} : m <= y
        <3>1. CASE n <= Len(s) BY <1>1, <3>1
        <3>2. CASE Len(s) <= n BY <1>1, <3>2
        <3> QED BY <1>1, <3>1, <3>2
    <2>2. /\ Min({n, Len(s)}) \in {n, Len(s)}
          /\ \A y \in {n, Len(s)} : Min({n, Len(s)}) <= y
        BY <2>1 DEF Min
    <2> QED BY <2>2
<1>3. Min({n, Len(s)}) \in 0..Len(s)
    BY <1>1, <1>2
<1> QED BY <1>3, PrefixAscends DEF FirstOf

LEMMA LastGreatest ==
    ASSUME NEW s \in Seq(Nat), Ascending(s), NEW d \in Nat
    PROVE  /\ LastOf(d, s) \in Nat
           /\ s # <<>> => LastOf(d, s) \in Elements(s)
           /\ s = <<>> => LastOf(d, s) = d
           /\ \A c \in Elements(s) : c <= LastOf(d, s)
<1>1. CASE s = <<>>
    BY <1>1 DEF LastOf, Elements
<1>2. CASE s # <<>>
    <2>1. Len(s) \in Nat /\ Len(s) \in 1..Len(s) /\ \A i \in 1..Len(s) : s[i] \in Nat
        BY <1>2
    <2>2. LastOf(d, s) = s[Len(s)]
        BY <1>2 DEF LastOf, Last
    <2>3. \A i \in 1..Len(s) : s[i] <= s[Len(s)]
        <3> SUFFICES ASSUME NEW i \in 1..Len(s) PROVE s[i] <= s[Len(s)]
            OBVIOUS
        <3>1. CASE i = Len(s) BY <2>1, <3>1
        <3>2. CASE i < Len(s)
            <4>1. s[i] < s[Len(s)]
                BY <2>1, <3>2 DEF Ascending
            <4> QED BY <2>1, <4>1
        <3> QED BY <2>1, <3>1, <3>2
    <2> QED BY <1>2, <2>1, <2>2, <2>3 DEF Elements
<1> QED BY <1>1, <1>2

-----------------------------------------------------------------------------
(* What a client was sent.                                                 *)

\* the cursors never go back
Steady(s) == \A i \in 1..(Len(s) - 1) : s[i] <= s[i + 1]

(* Newer events are sent after the others.                                 *)
LEMMA SentLater ==
    ASSUME NEW s \in Seq(Nat), Steady(s), NEW d \in Nat,
           NEW t \in Seq(Nat), Ascending(t),
           \A c \in Elements(t) : LastOf(d, s) <= c
    PROVE  /\ s \o t \in Seq(Nat) /\ Steady(s \o t)
           /\ Elements(s \o t) = Elements(s) \cup Elements(t)
           /\ LastOf(d, s \o t) = LastOf(LastOf(d, s), t)
<1> DEFINE m == Len(s)
           n == Len(t)
           u == s \o t
<1>1. /\ m \in Nat /\ n \in Nat
      /\ \A i \in 1..m : s[i] \in Nat
      /\ \A i \in 1..n : t[i] \in Nat
    OBVIOUS
<1>2. /\ u \in Seq(Nat) /\ Len(u) = m + n
      /\ \A i \in 1..m : u[i] = s[i]
      /\ \A i \in 1..n : u[m + i] = t[i]
    <2>1. u \in Seq(Nat) /\ Len(u) = m + n
          /\ \A i \in 1..(m + n) : u[i] = IF i <= m THEN s[i] ELSE t[i - m]
        BY ConcatProperties
    <2>2. \A i \in 1..m : i \in 1..(m + n) /\ i <= m
        BY <1>1
    <2>3. \A i \in 1..n : m + i \in 1..(m + n) /\ ~(m + i <= m) /\ (m + i) - m = i
        BY <1>1
    <2> HIDE DEF u, m, n
    <2> QED BY <2>1, <2>2, <2>3
<1> HIDE DEF u
<1>3. Elements(u) = Elements(s) \cup Elements(t)
    <2>1. \A i \in 1..(m + n) : i \in 1..m \/ (i - m \in 1..n /\ i = m + (i - m))
        BY <1>1
    <2>2. \A i \in 1..m : i \in 1..(m + n)
        BY <1>1
    <2>3. \A i \in 1..n : m + i \in 1..(m + n)
        BY <1>1
    <2>4. Elements(u) \subseteq Elements(s) \cup Elements(t)
        <3> SUFFICES ASSUME NEW i \in 1..(m + n)
                     PROVE  u[i] \in Elements(s) \cup Elements(t)
            BY <1>2 DEF Elements
        <3>1. CASE i \in 1..m
            BY <3>1, <1>2 DEF Elements
        <3>2. CASE i - m \in 1..n /\ i = m + (i - m)
            <4>1. PICK k \in 1..n : i = m + k
                BY <3>2
            <4> QED BY <4>1, <1>2 DEF Elements
        <3> QED BY <3>1, <3>2, <2>1
    <2>5. Elements(s) \subseteq Elements(u)
        BY <1>2, <2>2 DEF Elements
    <2>6. Elements(t) \subseteq Elements(u)
        <3> SUFFICES ASSUME NEW i \in 1..n PROVE t[i] \in Elements(u)
            BY DEF Elements
        <3> QED BY <1>2, <2>3 DEF Elements
    <2> QED BY <2>4, <2>5, <2>6
<1>4. LastOf(d, u) = LastOf(LastOf(d, s), t)
    <2>1. CASE t = <<>>
        <3>1. u = s
            BY <2>1 DEF u
        <3> QED BY <2>1, <3>1 DEF LastOf
    <2>2. CASE t # <<>>
        <3>1. n \in 1..n /\ m + n # 0
            BY <2>2, <1>1
        <3>2. u # <<>>
            BY <3>1, <1>2
        <3> QED BY <2>2, <3>1, <3>2, <1>2 DEF LastOf, Last
    <2> QED BY <2>1, <2>2
<1>5. Steady(u)
    <2> SUFFICES ASSUME NEW i \in 1..((m + n) - 1) PROVE u[i] <= u[i + 1]
        BY <1>2 DEF Steady
    <2>1. CASE i < m
        <3>1. i \in 1..m /\ i + 1 \in 1..m /\ i \in 1..(m - 1)
            BY <1>1, <2>1
        <3> QED BY <3>1, <1>2 DEF Steady
    <2>2. CASE i = m
        <3>1. m \in 1..m /\ 1 \in 1..n /\ i + 1 = m + 1 /\ s # <<>>
            BY <1>1, <2>2
        <3>2. LastOf(d, s) = s[m] /\ t[1] \in Elements(t)
            BY <3>1 DEF LastOf, Last, Elements
        <3> QED BY <2>2, <3>1, <3>2, <1>2
    <2>3. CASE i > m
        <3>1. PICK k \in 1..n : k + 1 \in 1..n /\ i = m + k /\ i + 1 = m + (k + 1) /\ k < k + 1
            <4>1. i - m \in 1..n /\ (i - m) + 1 \in 1..n /\ i = m + (i - m)
                  /\ i + 1 = m + ((i - m) + 1) /\ i - m < (i - m) + 1
                BY <1>1, <2>3
            <4> QED BY <4>1
        <3>2. t[k] < t[k + 1] /\ t[k] \in Nat /\ t[k + 1] \in Nat
            BY <3>1, <1>1 DEF Ascending
        <3>3. u[i] = t[k] /\ u[i + 1] = t[k + 1]
            BY <3>1, <1>2
        <3> QED BY <3>2, <3>3
    <2> QED BY <1>1, <2>1, <2>2, <2>3
<1> QED BY <1>2, <1>3, <1>4, <1>5 DEF u

LEMMA OneAscends ==
    ASSUME NEW c \in Nat
    PROVE  /\ <<c>> \in Seq(Nat) /\ Ascending(<<c>>) /\ Elements(<<c>>) = {c}
           /\ \A d : LastOf(d, <<c>>) = c
<1>1. <<c>> \in Seq(Nat) /\ Len(<<c>>) = 1 /\ <<c>>[1] = c /\ <<c>> # <<>>
    OBVIOUS
<1>2. \A i \in 1..1 : i = 1
    OBVIOUS
<1>3. Ascending(<<c>>) /\ Elements(<<c>>) = {c}
    BY <1>1, <1>2 DEF Ascending, Elements
<1> QED BY <1>1, <1>3 DEF LastOf, Last

-----------------------------------------------------------------------------
(* The store under a stream.                                               *)

(* The journal is at most one event ahead of the running store, and a      *)
(* commit publishes the event that the disk has already.                   *)
LEMMA StoreBounds ==
    ASSUME Inv
    PROVE  /\ OnDisk.cursor \in Nat /\ state.cursor \in Nat /\ state.eventFloor \in Nat
           /\ \A c \in Cursors(journal) : c \in Nat /\ c <= OnDisk.cursor
           /\ opened => /\ state.cursor <= OnDisk.cursor /\ OnDisk.cursor <= state.cursor + 1
                        /\ state.eventFloor <= OnDisk.cursor
                        /\ \A c \in (state.eventFloor + 1)..state.cursor : c \in Cursors(journal)
<1>1. /\ attempts \in Nat /\ state \in StateType /\ Disk(journal, stateFile, attempts)
    BY DEF Inv, Types
<1>2. /\ WellFormed(OnDisk, attempts) /\ WellFormed(PersistedOf(stateFile), attempts)
    BY <1>1, RecoveredWellFormed, PersistedWellFormed DEF OnDisk
<1>3. /\ OnDisk.cursor \in Nat /\ PersistedOf(stateFile).cursor \in Nat
      /\ state.cursor \in Nat /\ state.eventFloor \in Nat
      /\ \A r \in journal : r.cursor \in Nat
    <2>1. \A r \in journal : r \in RecordType
        BY <1>1 DEF Disk
    <2> QED BY <1>1, <1>2, <2>1 DEF WellFormed, StateType, RecordType
<1> DEFINE P == PersistedOf(stateFile)
<1>4. \/ Newer = {} /\ OnDisk.cursor = P.cursor
      \/ \E r \in journal : Newer = {r} /\ OnDisk.cursor = P.cursor + 1
                            /\ r.cursor = P.cursor + 1
    <2>1. \A r \in journal : r.nextState.cursor = r.cursor
        BY <1>1 DEF Disk
    <2> QED BY <1>1, <2>1, DiskCases, Links DEF OnDisk
<1>5. \A r \in journal : r.cursor <= OnDisk.cursor
    <2> SUFFICES ASSUME NEW r \in journal PROVE r.cursor <= OnDisk.cursor
        OBVIOUS
    <2>1. r \in Newer \/ r.cursor <= P.cursor
        BY <1>3, Links DEF NewerOf
    <2> QED BY <1>3, <1>4, <2>1
<1>6. ASSUME opened
      PROVE  /\ state.cursor <= OnDisk.cursor /\ OnDisk.cursor <= state.cursor + 1
             /\ state.eventFloor <= OnDisk.cursor
             /\ \A c \in (state.eventFloor + 1)..state.cursor : c \in Cursors(journal)
    <2>1. /\ stateFile # NoFile /\ WellFormed(state, attempts) /\ Retained(journal, state)
          /\ \/ state.log = stateFile.log
             \/ OneMore(state, stateFile) /\ NewerOf(journal, stateFile) = {}
        BY <1>6 DEF Inv, Running
    <2>2. P = stateFile /\ Newer = NewerOf(journal, stateFile)
        BY <2>1, Links DEF PersistedOf
    <2>3. \/ state.cursor = P.cursor
          \/ P.cursor = state.cursor + 1 /\ Newer = {}
        BY <1>2, <2>1, <2>2 DEF WellFormed, OneMore
    <2>4. state.cursor <= OnDisk.cursor /\ OnDisk.cursor <= state.cursor + 1
        BY <1>3, <1>4, <2>3
    <2>5. state.eventFloor <= state.cursor
        BY <2>1 DEF WellFormed
    <2>6. state.eventFloor <= OnDisk.cursor
        BY <1>3, <2>4, <2>5
    <2> QED BY <2>1, <2>4, <2>6 DEF Retained
<1> QED BY <1>3, <1>5, <1>6 DEF Cursors

(* The disk never loses an event.                                          *)
LEMMA StoreGrows ==
    ASSUME Inv, [Next]_vars
    PROVE  Inv' /\ OnDisk'.cursor \in Nat /\ OnDisk.cursor <= OnDisk'.cursor
<1>1. Inv' /\ (OnDisk'.log = OnDisk.log \/ OneMore(OnDisk, OnDisk'))
    BY StepInv
<1>2. WellFormed(OnDisk, attempts) /\ OnDisk.cursor \in Nat
    BY RecoveredWellFormed, StoreBounds DEF Inv, Types, OnDisk
<1>3. WellFormed(OnDisk', attempts')
    <2>1. Disk(journal', stateFile', attempts') /\ attempts' \in Nat
        BY <1>1 DEF Inv, Types
    <2>2. OnDisk' = RecoveredOf(journal', stateFile')
        BY DEF OnDisk, RecoveredOf, NewerOf, PersistedOf
    <2> QED BY <2>1, <2>2, RecoveredWellFormed
<1>4. OnDisk'.cursor = OnDisk.cursor \/ OnDisk'.cursor = OnDisk.cursor + 1
    BY <1>1, <1>2, <1>3 DEF WellFormed, OneMore
<1> QED BY <1>1, <1>2, <1>4

(* Nothing but a commit moves the cursor of the running store.             *)
LEMMA QuietKeepsCursor ==
    ASSUME Inv, QuietStep, opened
    PROVE  opened' /\ state'.cursor = state.cursor
<1>1. CASE WriteFloor
    <2>1. /\ WellFormed(op.next, attempts) /\ op.next.log = state.log
          /\ WellFormed(state, attempts)
        BY <1>1 DEF WriteFloor, Inv, Operation, Running
    <2>2. op.next.cursor = state.cursor
        BY <2>1 DEF WellFormed
    <2> QED BY <1>1, <2>2 DEF WriteFloor
<1>2. CASE ~WriteFloor
    BY <1>2 DEF QuietStep, Open, OpenFails, Transact, WriteJournal, JournalFails, SnapshotFails,
                PruneEvents, FloorFails, Unlink, UnlinkFails, ClockMoves, history, disk
<1> QED BY <1>1, <1>2

LEMMA CommitBounds ==
    ASSUME Inv, Commit
    PROVE  /\ opened /\ opened' /\ op.next.cursor = state.cursor + 1
           /\ op.next.cursor = OnDisk.cursor /\ state'.cursor = op.next.cursor
<1>1. /\ opened /\ op.next \in StateType /\ OneMore(state, op.next)
    BY DEF Commit, Inv, Operation, Types, OpTypes
<1>2. PICK r \in journal : NewerOf(journal, stateFile) = {r} /\ r.nextState = op.next
    BY DEF Commit, Inv, Operation
<1>3. OnDisk = op.next
    <2>1. Disk(journal, stateFile, attempts) /\ attempts \in Nat
        BY DEF Inv, Types
    <2> QED BY <1>2, <2>1, DiskCases DEF OnDisk
<1> QED BY <1>1, <1>3 DEF Commit, OneMore

-----------------------------------------------------------------------------
(* The inductive invariant of the stream.                                  *)

StreamPhases == {"closed", "reading", "listed", "live", "ended"}

StreamTypes ==
    /\ stream \in [phase : StreamPhases, after : Nat, listed : SUBSET Nat, buffered : Seq(Nat)]
    /\ base \in Nat /\ received \in Seq(Nat) /\ cut \in BOOLEAN

\* what the client was sent is on the disk, and in order
SentInv ==
    /\ base <= OnDisk.cursor /\ Steady(received)
    /\ \A c \in Elements(received) : c <= OnDisk.cursor

\* a request that has its replay ahead of it
Pending ==
    /\ stream.phase # "closed" => opened
    /\ stream.phase \in {"reading", "listed"} =>
          /\ stream.after = LastOf(base, received)
          /\ Ascending(stream.buffered)
          /\ \A c \in Elements(stream.buffered) : c <= state.cursor
    /\ stream.phase = "listed" => \A c \in stream.listed : c <= OnDisk.cursor

NoneMissed ==
    \A c \in (base + 1)..LastOf(base, received) : c \in Elements(received)

\* What the listing or the buffer has: every event since the last one that
\* the client has.  An event that the listing leaves out is newer than all
\* those it has, so that none is skipped when the buffer follows the replay.
Covered ==
    /\ \A c \in (stream.after + 1)..state.cursor :
            c \in stream.listed \/ c \in Elements(stream.buffered)
    /\ \A c \in stream.listed : \A e \in (stream.after + 1)..c : e \in stream.listed

Complete ==
    ~cut => /\ NoneMissed
            /\ stream.phase = "listed" => Covered
            /\ stream.phase = "live" => state.cursor <= LastOf(base, received)

StreamInv == StreamTypes /\ SentInv /\ Pending /\ Complete

LEMMA LastSent ==
    ASSUME StreamTypes
    PROVE  /\ LastOf(base, received) \in Nat
           /\ LastOf(base, received) = base \/ LastOf(base, received) \in Elements(received)
<1>1. CASE received = <<>>
    BY <1>1 DEF LastOf, StreamTypes
<1>2. CASE received # <<>>
    <2>1. /\ Len(received) \in 1..Len(received) /\ received[Len(received)] \in Nat
        BY <1>2 DEF StreamTypes
    <2> QED BY <1>2, <2>1 DEF LastOf, Last, Elements
<1> QED BY <1>1, <1>2

LEMMA LastOnDisk ==
    ASSUME StreamTypes, SentInv
    PROVE  LastOf(base, received) <= OnDisk.cursor
BY LastSent DEF SentInv

LEMMA ClosedTyped ==
    Closed \in [phase : StreamPhases, after : Nat, listed : SUBSET Nat, buffered : Seq(Nat)]
<1>1. <<>> \in Seq(Nat)
    OBVIOUS
<1> QED BY <1>1 DEF Closed, StreamPhases

LEMMA EmptySent ==
    /\ <<>> \in Seq(Nat) /\ Elements(<<>>) = {} /\ Ascending(<<>>) /\ Steady(<<>>)
    /\ \A d : LastOf(d, <<>>) = d
<1>1. <<>> \in Seq(Nat) /\ Len(<<>>) = 0
    OBVIOUS
<1> QED BY <1>1 DEF Elements, Ascending, Steady, LastOf

LEMMA StreamInitInv == StreamInit => StreamInv
<1> SUFFICES ASSUME StreamInit PROVE StreamInv
    OBVIOUS
<1>1. Inv
    BY InitInv DEF StreamInit
<1>2. OnDisk.cursor \in Nat
    BY <1>1, StoreBounds
<1>3. StreamTypes
    BY ClosedTyped, EmptySent DEF StreamInit, StreamTypes
<1>4. stream.phase = "closed"
    BY DEF StreamInit, Closed
<1>5. SentInv
    BY <1>2, EmptySent DEF SentInv, StreamInit
<1>6. NoneMissed
    BY EmptySent DEF NoneMissed, StreamInit
<1> QED BY <1>3, <1>4, <1>5, <1>6 DEF StreamInv, Pending, Complete

(* What was sent stays on a disk that only grows.                          *)
LEMMA SentStays ==
    ASSUME StreamTypes, SentInv, base' = base, received' = received,
           OnDisk.cursor \in Nat, OnDisk'.cursor \in Nat, OnDisk.cursor <= OnDisk'.cursor
    PROVE  SentInv'
<1>1. \A c \in Elements(received) : c \in Nat /\ c <= OnDisk.cursor
    BY DEF StreamTypes, SentInv, Elements
<1>2. \A c \in Elements(received) : c <= OnDisk'.cursor
    <2> SUFFICES ASSUME NEW c \in Elements(received) PROVE c <= OnDisk'.cursor
        OBVIOUS
    <2>1. c \in Nat /\ c <= OnDisk.cursor
        BY <1>1
    <2> QED BY <2>1
<1>3. base <= OnDisk'.cursor
    BY DEF StreamTypes, SentInv
<1>4. Elements(received') = Elements(received) /\ Steady(received')
    BY DEF SentInv
<1> QED BY <1>2, <1>3, <1>4 DEF SentInv, Elements, Steady

(* A step that leaves the stream alone.                                    *)
LEMMA QuietStream ==
    ASSUME Inv, StreamInv, [QuietStep]_vars, UNCHANGED <<stream, client>>
    PROVE  StreamInv'
<1>1. /\ UNCHANGED stream /\ UNCHANGED base /\ UNCHANGED received /\ UNCHANGED cut
    BY DEF client
<1>2. /\ OnDisk'.cursor \in Nat /\ OnDisk.cursor \in Nat /\ OnDisk.cursor <= OnDisk'.cursor
    BY StoreGrows, StoreBounds DEF Next
<1>3. opened => opened' /\ state'.cursor = state.cursor
    <2>1. CASE UNCHANGED vars
        BY <2>1 DEF vars
    <2> QED BY <2>1, QuietKeepsCursor
<1>4. StreamTypes'
    BY <1>1 DEF StreamInv, StreamTypes
<1>5. SentInv'
    BY <1>1, <1>2, SentStays DEF StreamInv
<1>6. Pending'
    <2>1. \A c \in stream.listed : c \in Nat
        BY DEF StreamInv, StreamTypes
    <2> QED BY <1>1, <1>2, <1>3, <2>1 DEF StreamInv, Pending, Ascending, Elements, LastOf
<1>7. Complete'
    BY <1>1, <1>3 DEF StreamInv, Pending, Complete, NoneMissed, Covered, Elements, LastOf
<1> QED BY <1>4, <1>5, <1>6, <1>7 DEF StreamInv

(* The stream is closed: the client disconnects, a file is gone when it is *)
(* read, or the Service ends.                                              *)
LEMMA ClosedStream ==
    ASSUME Inv, StreamInv, [Next]_vars, stream' = Closed, UNCHANGED client
    PROVE  StreamInv'
<1>1. UNCHANGED base /\ UNCHANGED received /\ UNCHANGED cut
    BY DEF client
<1>2. /\ OnDisk'.cursor \in Nat /\ OnDisk.cursor \in Nat /\ OnDisk.cursor <= OnDisk'.cursor
    BY StoreGrows, StoreBounds
<1>3. StreamTypes'
    BY <1>1, ClosedTyped DEF StreamInv, StreamTypes
<1>4. SentInv'
    BY <1>1, <1>2, SentStays DEF StreamInv
<1>5. stream'.phase = "closed"
    BY DEF Closed
<1>6. Complete'
    BY <1>1, <1>5 DEF StreamInv, Complete, NoneMissed, Elements, LastOf
<1> QED BY <1>3, <1>4, <1>5, <1>6 DEF StreamInv, Pending

(* The store is not involved.                                              *)
LEMMA SameStore ==
    ASSUME Inv, UNCHANGED vars
    PROVE  /\ Inv' /\ OnDisk' = OnDisk /\ OnDisk.cursor \in Nat /\ state' = state
           /\ opened' = opened
<1>1. Inv'
    BY StepInv
<1>2. OnDisk' = OnDisk /\ state' = state /\ opened' = opened
    BY DEF vars, disk, OnDisk
<1> QED BY <1>1, <1>2, StoreBounds

LEMMA ConnectInv ==
    ASSUME Inv, StreamInv, Connect
    PROVE  StreamInv'
<1>1. /\ OnDisk' = OnDisk /\ OnDisk.cursor \in Nat /\ state' = state /\ opened' = opened
      /\ opened
    BY SameStore DEF Connect, Ready
<1>2. LastOf(base, received) \in Nat /\ <<>> \in Seq(Nat)
    BY LastSent, EmptySent DEF StreamInv
<1>3. CASE stream' = [Closed EXCEPT !.phase = "reading", !.after = LastOf(base, received)]
           /\ UNCHANGED client
    <2>1. UNCHANGED base /\ UNCHANGED received /\ UNCHANGED cut
        BY <1>3 DEF client
    <2>2. /\ stream' \in [phase : StreamPhases, after : Nat, listed : SUBSET Nat, buffered : Seq(Nat)]
          /\ stream'.phase = "reading" /\ stream'.buffered = <<>>
          /\ stream'.after = LastOf(base, received)
        BY <1>2, <1>3 DEF Closed, StreamPhases
    <2>3. StreamTypes'
        BY <2>1, <2>2 DEF StreamInv, StreamTypes
    <2>4. SentInv'
        BY <1>1, <2>1, SentStays DEF StreamInv
    <2>5. Pending'
        BY <1>1, <2>1, <2>2, EmptySent DEF Pending, Ascending, Elements, LastOf
    <2>6. Complete'
        BY <2>1, <2>2 DEF StreamInv, Complete, NoneMissed, Elements, LastOf
    <2> QED BY <2>3, <2>4, <2>5, <2>6 DEF StreamInv
<1>4. CASE /\ stream' = [Closed EXCEPT !.phase = "reading", !.after = Start]
           /\ base' = Start /\ received' = <<>> /\ cut' = FALSE
    <2>1. Start \in Nat /\ Start <= OnDisk.cursor
        BY <1>1, StoreBounds DEF Start
    <2>2. /\ stream' \in [phase : StreamPhases, after : Nat, listed : SUBSET Nat, buffered : Seq(Nat)]
          /\ stream'.phase = "reading" /\ stream'.buffered = <<>> /\ stream'.after = Start
        BY <1>2, <1>4, <2>1 DEF Closed, StreamPhases
    <2>3. StreamTypes'
        BY <1>2, <1>4, <2>1, <2>2 DEF StreamTypes
    <2>4. SentInv'
        BY <1>1, <1>4, <2>1, EmptySent DEF SentInv, Steady, Elements
    <2>5. Pending'
        BY <1>1, <1>4, <2>2, EmptySent DEF Pending, Ascending, Elements, LastOf
    <2>6. NoneMissed'
        <3>1. LastOf(base', received') = base'
            BY <1>4, EmptySent
        <3>2. \A c : c \notin (base' + 1)..base'
            BY <1>4, <2>1
        <3> QED BY <3>1, <3>2 DEF NoneMissed, LastOf
    <2>7. Complete'
        BY <2>2, <2>6 DEF Complete
    <2> QED BY <2>3, <2>4, <2>5, <2>7 DEF StreamInv
<1> QED BY <1>3, <1>4 DEF Connect

LEMMA ListJournalInv ==
    ASSUME Inv, StreamInv, ListJournal
    PROVE  StreamInv'
<1>1. /\ OnDisk' = OnDisk /\ OnDisk.cursor \in Nat /\ state' = state /\ opened' = opened
      /\ base' = base /\ received' = received
    BY SameStore DEF ListJournal
<1>2. /\ stream.phase = "reading" /\ opened /\ stream.after = LastOf(base, received)
      /\ stream.after \in Nat /\ Ascending(stream.buffered)
      /\ \A c \in Elements(stream.buffered) : c <= state.cursor
    BY DEF ListJournal, StreamInv, StreamTypes, Pending
<1>3. /\ Cursors(journal) \in SUBSET Nat /\ \A c \in Cursors(journal) : c <= OnDisk.cursor
    BY StoreBounds
<1>4. /\ stream'.phase = "listed" /\ stream'.after = stream.after
      /\ stream'.listed = Cursors(journal) /\ stream'.buffered = stream.buffered
      /\ stream' \in [phase : StreamPhases, after : Nat, listed : SUBSET Nat, buffered : Seq(Nat)]
    BY <1>3 DEF ListJournal, StreamInv, StreamTypes, StreamPhases
<1>5. cut' \in BOOLEAN /\ (~cut' => ~cut /\ state.eventFloor <= stream.after)
    <2>1. cut' <=> (cut \/ stream.after < state.eventFloor)
        BY DEF ListJournal
    <2>2. cut' \in BOOLEAN
        BY DEF ListJournal
    <2>3. state.eventFloor \in Nat
        BY StoreBounds
    <2> QED BY <1>2, <2>1, <2>2, <2>3
<1>6. StreamTypes'
    BY <1>1, <1>4, <1>5 DEF StreamInv, StreamTypes
<1>7. SentInv'
    BY <1>1, SentStays DEF StreamInv
<1>8. Pending'
    BY <1>1, <1>2, <1>3, <1>4 DEF Pending, Ascending, Elements, LastOf
<1>9. ASSUME ~cut' PROVE Covered'
    <2>1. \A c \in (state.eventFloor + 1)..state.cursor : c \in Cursors(journal)
        BY <1>2, StoreBounds
    <2>2. /\ state.eventFloor \in Nat /\ state.cursor \in Nat /\ state.eventFloor <= stream.after
          /\ OnDisk.cursor <= state.cursor + 1
        BY <1>2, <1>5, <1>9, StoreBounds
    <2>3. \A c \in (stream.after + 1)..state.cursor : c \in Cursors(journal)
        <3> SUFFICES ASSUME NEW c \in (stream.after + 1)..state.cursor PROVE c \in Cursors(journal)
            OBVIOUS
        <3>1. c \in (state.eventFloor + 1)..state.cursor
            BY <1>2, <2>2
        <3> QED BY <2>1, <3>1
    <2>4. \A c \in Cursors(journal) : \A e \in (stream.after + 1)..c : e \in Cursors(journal)
        <3> SUFFICES ASSUME NEW c \in Cursors(journal), NEW e \in (stream.after + 1)..c
                     PROVE  e \in Cursors(journal)
            OBVIOUS
        <3>1. c \in Nat /\ c <= state.cursor + 1 /\ e \in Int /\ stream.after + 1 <= e /\ e <= c
            <4>1. c \in Nat /\ c <= OnDisk.cursor
                BY <1>3
            <4> QED BY <4>1, <1>1, <1>2, <2>2
        <3>2. CASE e <= state.cursor
            <4>1. e \in (stream.after + 1)..state.cursor
                BY <3>1, <3>2, <1>2, <2>2
            <4> QED BY <4>1, <2>3
        <3>3. CASE e = c
            BY <3>3
        <3> QED BY <3>1, <3>2, <3>3, <2>2
    <2> QED BY <1>1, <1>4, <2>3, <2>4 DEF Covered
<1>10. NoneMissed' \/ cut'
    BY <1>1, <1>5 DEF StreamInv, Complete, NoneMissed, Elements, LastOf
<1>11. Complete'
    BY <1>4, <1>9, <1>10 DEF Complete
<1> QED BY <1>6, <1>7, <1>8, <1>11 DEF StreamInv

(* The replay, and then the events that were published during it: without  *)
(* a cut it joins what the client has to the cursor of the store.          *)
LEMMA ReplayInv ==
    ASSUME Inv, StreamInv, Replay
    PROVE  StreamInv'
<1> DEFINE after == stream.after
           newer == InOrder({c \in stream.listed : c > after})
           replay == FirstOf(newer, MaxEventsPerRead)
<1>1. /\ OnDisk' = OnDisk /\ OnDisk.cursor \in Nat /\ state' = state /\ opened' = opened
      /\ base' = base /\ state.cursor \in Nat
    BY SameStore, StoreBounds DEF Replay
<1>2. /\ stream.phase = "listed" /\ opened /\ after = LastOf(base, received) /\ after \in Nat
      /\ base \in Nat /\ received \in Seq(Nat) /\ Steady(received)
      /\ stream.listed \in SUBSET Nat /\ \A c \in stream.listed : c <= OnDisk.cursor
      /\ stream.buffered \in Seq(Nat) /\ Ascending(stream.buffered)
      /\ \A c \in Elements(stream.buffered) : c <= state.cursor
    BY DEF Replay, StreamInv, StreamTypes, Pending, SentInv
<1>3. state.cursor <= OnDisk.cursor /\ OnDisk.cursor <= state.cursor + 1
    BY <1>2, StoreBounds
<1>4. /\ newer \in Seq(Nat) /\ Ascending(newer)
      /\ Elements(newer) = {c \in stream.listed : c > after}
    <2>1. {c \in stream.listed : c > after} \in SUBSET Nat
        BY <1>2
    <2>2. IsFiniteSet({c \in stream.listed : c > after})
        BY <1>1, <1>2, <2>1, FS_BoundedSetOfNaturals
    <2> QED BY <2>1, <2>2, Enumeration
<1> HIDE DEF newer
<1>5. replay \in Seq(Nat) /\ Ascending(replay) /\ Elements(replay) \subseteq Elements(newer)
    BY <1>4, FirstAscends, StreamAssumption
<1> HIDE DEF replay
<1>6. PICK sent \in Written(replay) :
         \E late \in Written(Unsent(stream.buffered, LastOf(after, sent))) :
            /\ received' = received \o sent \o late
            /\ cut' = (cut \/ sent # newer
                       \/ late # Unsent(stream.buffered, LastOf(after, sent)))
    BY DEF Replay, replay, newer
<1>7. sent \in Seq(Nat) /\ Ascending(sent) /\ Elements(sent) \subseteq Elements(newer)
    BY <1>5, <1>6, WrittenAscends
<1> DEFINE last == LastOf(after, sent)
           unsent == Unsent(stream.buffered, last)
<1>8. /\ last \in Nat
      /\ sent # <<>> => last \in Elements(sent)
      /\ sent = <<>> => last = after
      /\ \A c \in Elements(sent) : c <= last
    BY <1>2, <1>7, LastGreatest
<1> HIDE DEF last
<1>9. /\ unsent \in Seq(Nat) /\ Ascending(unsent)
      /\ Elements(unsent) = {c \in Elements(stream.buffered) : c > last}
    BY <1>2, <1>8, UnsentAscends
<1> HIDE DEF unsent
<1>10. PICK late \in Written(unsent) :
          /\ received' = received \o sent \o late
          /\ cut' = (cut \/ sent # newer \/ late # unsent)
    BY <1>6 DEF unsent, last
<1>11. late \in Seq(Nat) /\ Ascending(late) /\ Elements(late) \subseteq Elements(unsent)
    BY <1>9, <1>10, WrittenAscends
<1>12. /\ \A c \in Elements(sent) : c \in Nat /\ c > after /\ c \in stream.listed
       /\ \A c \in Elements(late) : c \in Nat /\ c > last /\ c <= state.cursor
    <2>1. \A c \in Elements(sent) : c \in Nat
        BY <1>7 DEF Elements
    <2>2. \A c \in Elements(late) : c \in Nat
        BY <1>11 DEF Elements
    <2> QED BY <1>2, <1>4, <1>7, <1>9, <1>11, <2>1, <2>2
<1> DEFINE r == received \o sent
<1>13. /\ r \in Seq(Nat) /\ Steady(r) /\ Elements(r) = Elements(received) \cup Elements(sent)
       /\ LastOf(base, r) = last
    <2>1. \A c \in Elements(sent) : LastOf(base, received) <= c
        BY <1>2, <1>12
    <2> QED BY <1>2, <1>7, <2>1, SentLater DEF last
<1> HIDE DEF r
<1>14. /\ received' \in Seq(Nat) /\ Steady(received')
       /\ Elements(received') = Elements(received) \cup Elements(sent) \cup Elements(late)
       /\ LastOf(base, received') = LastOf(last, late)
    <2>1. \A c \in Elements(late) : LastOf(base, r) <= c
        BY <1>8, <1>12, <1>13
    <2>2. received' = r \o late
        BY <1>10 DEF r
    <2> QED BY <1>2, <1>11, <1>13, <2>1, <2>2, SentLater
<1>15. stream' = [Closed EXCEPT !.phase = "live"]
    BY DEF Replay
<1>16. stream'.phase = "live" /\ StreamTypes'
    <2>1. /\ stream'.phase = "live"
          /\ stream' \in [phase : StreamPhases, after : Nat, listed : SUBSET Nat, buffered : Seq(Nat)]
        BY <1>15, EmptySent DEF Closed, StreamPhases
    <2>2. cut' \in BOOLEAN
        BY <1>10
    <2> QED BY <1>1, <1>2, <1>14, <2>1, <2>2 DEF StreamTypes
<1>17. SentInv'
    <2>1. \A c \in Elements(received) : c <= OnDisk.cursor
        BY DEF StreamInv, SentInv
    <2>2. \A c \in Elements(sent) : c <= OnDisk.cursor
        BY <1>2, <1>12
    <2>3. \A c \in Elements(late) : c <= OnDisk.cursor
        BY <1>1, <1>3, <1>12
    <2>4. base <= OnDisk.cursor
        BY DEF StreamInv, SentInv
    <2>5. \A c \in Elements(received') : c <= OnDisk'.cursor
        BY <1>1, <1>14, <2>1, <2>2, <2>3
    <2> QED BY <1>1, <1>14, <2>4, <2>5 DEF SentInv, Steady, Elements
<1>18. Pending'
    BY <1>1, <1>2, <1>16 DEF Pending
<1>19. ASSUME ~cut' PROVE NoneMissed' /\ state.cursor <= LastOf(base, received')
    <2> DEFINE final == LastOf(last, late)
               cursor == state.cursor
    <2>1. ~cut /\ sent = newer /\ late = unsent
        BY <1>10, <1>19
    <2>2. NoneMissed /\ Covered
        BY <1>2, <2>1 DEF StreamInv, Complete
    <2>3. /\ final \in Nat
          /\ late # <<>> => final \in Elements(late)
          /\ late = <<>> => final = last
          /\ \A c \in Elements(late) : c <= final
        BY <1>8, <1>11, LastGreatest
    <2> HIDE DEF after, final, cursor
    <2>4. after \in Nat /\ last \in Nat /\ final \in Nat /\ cursor \in Nat /\ base \in Nat
        BY <1>1, <1>2, <1>8, <2>3 DEF cursor
    <2>5. \A c \in stream.listed : c > after => c \in Elements(sent) /\ c <= last
        BY <1>4, <1>8, <2>1
    <2>6. \A c \in Elements(stream.buffered) : c > last => c \in Elements(late) /\ c <= final
        BY <1>9, <2>1, <2>3
    <2>7. /\ \A c \in (base + 1)..after : c \in Elements(received)
          /\ \A c \in (after + 1)..cursor : c \in stream.listed \/ c \in Elements(stream.buffered)
          /\ \A c \in stream.listed : \A e \in (after + 1)..c : e \in stream.listed
        BY <1>2, <2>2 DEF NoneMissed, Covered, after, cursor
    <2>8. after <= last /\ (sent # <<>> => last \in stream.listed)
        <3>1. CASE sent = <<>> BY <1>8, <2>4, <3>1
        <3>2. CASE sent # <<>>
            <4>1. last \in Elements(sent)
                BY <1>8, <3>2
            <4>2. last > after /\ last \in stream.listed
                BY <1>12, <4>1
            <4> QED BY <2>4, <4>2
        <3> QED BY <3>1, <3>2
    <2>9. last <= final /\ (late # <<>> => final <= cursor)
        <3>1. CASE late = <<>> BY <2>3, <2>4, <3>1
        <3>2. CASE late # <<>>
            <4>1. final \in Elements(late)
                BY <2>3, <3>2
            <4>2. final > last /\ final <= cursor
                BY <1>12, <4>1 DEF cursor
            <4> QED BY <2>4, <4>2
        <3> QED BY <3>1, <3>2
    <2>10. ASSUME NEW c \in (base + 1)..final
           PROVE  c \in Elements(received')
        <3>1. c \in Int /\ base + 1 <= c /\ c <= final
            BY <2>4, <2>10
        <3>2. CASE c <= after
            <4>1. c \in (base + 1)..after
                BY <2>4, <3>1, <3>2
            <4> QED BY <1>14, <2>7, <4>1
        <3>3. CASE c > after /\ c <= last
            <4>1. sent # <<>>
                BY <1>8, <2>4, <3>1, <3>3
            <4>2. c \in (after + 1)..last
                BY <2>4, <3>1, <3>3
            <4>3. c \in stream.listed
                BY <2>7, <2>8, <4>1, <4>2
            <4>4. c \in Elements(sent)
                BY <2>5, <3>3, <4>3
            <4> QED BY <1>14, <4>4
        <3>4. CASE c > last
            <4>1. late # <<>>
                BY <2>3, <2>4, <3>1, <3>4
            <4>2. c <= cursor /\ c > after
                BY <2>4, <2>8, <2>9, <3>1, <3>4, <4>1
            <4>3. c \in (after + 1)..cursor
                BY <2>4, <3>1, <4>2
            <4>4. c \notin stream.listed
                <5> SUFFICES ASSUME c \in stream.listed PROVE FALSE
                    OBVIOUS
                <5>1. c <= last
                    BY <2>5, <4>2
                <5> QED BY <2>4, <3>1, <3>4, <5>1
            <4>5. c \in Elements(stream.buffered)
                BY <2>7, <4>3, <4>4
            <4>6. c \in Elements(late)
                BY <2>6, <3>4, <4>5
            <4> QED BY <1>14, <4>6
        <3> QED BY <2>4, <3>1, <3>2, <3>3, <3>4
    <2>11. NoneMissed'
        <3>1. LastOf(base', received') = final
            BY <1>1, <1>14 DEF final
        <3> QED BY <1>1, <2>10, <3>1 DEF NoneMissed, Elements, LastOf
    <2>12. cursor <= final
        <3>1. CASE cursor <= after
            BY <2>4, <2>8, <2>9, <3>1
        <3>2. CASE cursor > after
            <4>1. cursor \in (after + 1)..cursor
                BY <2>4, <3>2
            <4>2. cursor \in stream.listed \/ cursor \in Elements(stream.buffered)
                BY <2>7, <4>1
            <4>3. CASE cursor \in stream.listed
                <5>1. cursor <= last
                    BY <2>5, <3>2, <4>3
                <5> QED BY <2>4, <2>9, <5>1
            <4>4. CASE cursor \in Elements(stream.buffered) /\ cursor > last
                BY <2>6, <4>4
            <4>5. CASE ~(cursor > last)
                BY <2>4, <2>9, <4>5
            <4> QED BY <4>2, <4>3, <4>4, <4>5
        <3> QED BY <2>4, <3>1, <3>2
    <2> QED BY <1>14, <2>11, <2>12 DEF cursor, final
<1>20. Complete'
    BY <1>1, <1>16, <1>19 DEF Complete, LastOf
<1> QED BY <1>16, <1>17, <1>18, <1>20 DEF StreamInv

(* A commit reaches the buffer of a replay under way, or the client.       *)
LEMMA CommitAndPublishInv ==
    ASSUME Inv, StreamInv, CommitAndPublish
    PROVE  StreamInv'
<1> DEFINE cursor == op.next.cursor
<1>1. /\ opened /\ opened' /\ cursor = state.cursor + 1 /\ cursor = OnDisk.cursor
      /\ state'.cursor = cursor
    BY CommitBounds DEF CommitAndPublish
<1>2. /\ OnDisk'.cursor \in Nat /\ OnDisk.cursor \in Nat /\ OnDisk.cursor <= OnDisk'.cursor
      /\ cursor \in Nat /\ state.cursor \in Nat
    BY <1>1, StoreGrows, StoreBounds DEF CommitAndPublish, Next
<1>3. base' = base /\ cut' = cut /\ Publish(cursor)
    BY DEF CommitAndPublish
<1> HIDE DEF cursor
<1>4. CASE ~Subscribed(stream.phase) /\ UNCHANGED <<stream, received>>
    <2>1. stream.phase \in {"closed", "ended"} /\ stream' = stream /\ received' = received
        BY <1>4 DEF Subscribed, StreamInv, StreamTypes, StreamPhases
    <2>2. SentInv'
        BY <1>2, <1>3, <2>1, SentStays DEF StreamInv
    <2>3. StreamTypes' /\ Pending'
        BY <1>1, <1>3, <2>1 DEF StreamInv, StreamTypes, Pending
    <2>4. Complete'
        BY <1>3, <2>1 DEF StreamInv, Complete, NoneMissed, Elements, LastOf
    <2> QED BY <2>2, <2>3, <2>4 DEF StreamInv
<1>5. CASE /\ stream.phase \in {"reading", "listed"} /\ received' = received
           /\ stream' = [stream EXCEPT !.buffered = Append(@, cursor)]
    <2> DEFINE b == stream.buffered
               t == <<cursor>>
    <2>1. /\ b \in Seq(Nat) /\ Ascending(b) /\ \A c \in Elements(b) : c <= state.cursor
          /\ stream \in [phase : StreamPhases, after : Nat, listed : SUBSET Nat, buffered : Seq(Nat)]
        BY <1>5 DEF StreamInv, StreamTypes, Pending
    <2>2. /\ Append(b, cursor) \in Seq(Nat) /\ Len(Append(b, cursor)) = Len(b) + 1
          /\ \A i \in 1..Len(b) : Append(b, cursor)[i] = b[i]
          /\ Append(b, cursor)[Len(b) + 1] = cursor
          /\ Len(b) \in Nat /\ \A i \in 1..Len(b) : b[i] \in Nat
        BY <1>2, <2>1
    <2>3. \A i \in 1..(Len(b) + 1) : i \in 1..Len(b) \/ i = Len(b) + 1
        BY <2>2
    <2>4. Elements(Append(b, cursor)) = Elements(b) \cup {cursor}
        <3>1. Elements(Append(b, cursor)) \subseteq Elements(b) \cup {cursor}
            BY <2>2, <2>3 DEF Elements
        <3>2. \A i \in 1..Len(b) : i \in 1..(Len(b) + 1)
            BY <2>2
        <3>3. Len(b) + 1 \in 1..(Len(b) + 1)
            BY <2>2
        <3>4. Elements(b) \subseteq Elements(Append(b, cursor))
            BY <2>2, <3>2 DEF Elements
        <3>5. cursor \in Elements(Append(b, cursor))
            BY <2>2, <3>3 DEF Elements
        <3> QED BY <3>1, <3>4, <3>5
    <2>5. Ascending(Append(b, cursor))
        <3> SUFFICES ASSUME NEW i \in 1..(Len(b) + 1), NEW j \in 1..(Len(b) + 1), i < j
                     PROVE  Append(b, cursor)[i] < Append(b, cursor)[j]
            BY <2>2 DEF Ascending
        <3>1. i \in 1..Len(b)
            BY <2>2
        <3>2. CASE j \in 1..Len(b)
            BY <2>1, <2>2, <3>1, <3>2 DEF Ascending
        <3>3. CASE j = Len(b) + 1
            <4>1. b[i] \in Nat /\ b[i] <= state.cursor
                BY <2>1, <2>2, <3>1 DEF Elements
            <4> QED BY <1>1, <1>2, <2>2, <3>1, <3>3, <4>1
        <3> QED BY <2>3, <3>2, <3>3
    <2>6. /\ stream' \in [phase : StreamPhases, after : Nat, listed : SUBSET Nat, buffered : Seq(Nat)]
          /\ stream'.phase = stream.phase /\ stream'.after = stream.after
          /\ stream'.listed = stream.listed /\ stream'.buffered = Append(b, cursor)
        BY <1>5, <2>1, <2>2
    <2>7. StreamTypes'
        BY <1>3, <1>5, <2>6 DEF StreamInv, StreamTypes
    <2>8. SentInv'
        BY <1>2, <1>3, <1>5, SentStays DEF StreamInv
    <2>9. \A c \in Elements(b) \cup {cursor} : c <= state'.cursor
        <3>1. \A c \in Elements(b) : c \in Nat /\ c <= state.cursor
            BY <2>1, <2>2 DEF Elements
        <3> QED BY <1>1, <1>2, <3>1
    <2>10. stream.phase = "listed" => \A c \in stream.listed : c <= OnDisk'.cursor
        <3>1. \A c \in stream.listed : c \in Nat
            BY <2>1
        <3> QED BY <1>2, <3>1 DEF StreamInv, Pending
    <2>11. Pending'
        <3>1. stream.after = LastOf(base, received)
            BY <1>5 DEF StreamInv, Pending
        <3> QED BY <1>1, <1>3, <1>5, <2>4, <2>5, <2>6, <2>9, <2>10, <3>1
            DEF Pending, Ascending, Elements, LastOf
    <2>12. ASSUME stream.phase = "listed", ~cut PROVE Covered'
        <3>1. Covered
            BY <2>12 DEF StreamInv, Complete
        <3>2. \A c \in (stream.after + 1)..cursor :
                 c \in (stream.after + 1)..state.cursor \/ c = cursor
            BY <1>1, <1>2, <2>1
        <3>3. \A c \in (stream.after + 1)..cursor :
                 c \in stream.listed \/ c \in Elements(Append(b, cursor))
            BY <2>4, <3>1, <3>2 DEF Covered
        <3>4. Elements(stream'.buffered) = Elements(Append(b, cursor))
            BY <2>6
        <3> QED BY <1>1, <2>6, <3>1, <3>3, <3>4 DEF Covered, Elements
    <2>13. Complete'
        BY <1>3, <1>5, <2>6, <2>12 DEF StreamInv, Complete, NoneMissed, Elements, LastOf
    <2> QED BY <2>7, <2>8, <2>11, <2>13 DEF StreamInv
<1>6. CASE /\ stream.phase = "live" /\ received' = Append(received, cursor)
           /\ \/ UNCHANGED stream
              \/ stream' = [Closed EXCEPT !.phase = "ended"]
    <2>1. /\ received \in Seq(Nat) /\ Steady(received) /\ base \in Nat /\ base <= OnDisk.cursor
          /\ LastOf(base, received) \in Nat /\ LastOf(base, received) <= cursor
        BY <1>1, LastSent, LastOnDisk DEF StreamInv, StreamTypes, SentInv
    <2>2. /\ <<cursor>> \in Seq(Nat) /\ Ascending(<<cursor>>) /\ Elements(<<cursor>>) = {cursor}
          /\ \A d : LastOf(d, <<cursor>>) = cursor
        BY <1>2, OneAscends
    <2>3. received' = received \o <<cursor>>
        BY <1>2, <1>6, <2>1, AppendIsConcat
    <2>4. /\ received' \in Seq(Nat) /\ Steady(received')
          /\ Elements(received') = Elements(received) \cup {cursor}
          /\ LastOf(base, received') = cursor
        <3>1. \A c \in Elements(<<cursor>>) : LastOf(base, received) <= c
            BY <2>1, <2>2
        <3> DEFINE t == <<cursor>>
        <3>2. t \in Seq(Nat) /\ Ascending(t) /\ \A c \in Elements(t) : LastOf(base, received) <= c
            BY <2>2, <3>1
        <3>3. /\ received \o t \in Seq(Nat) /\ Steady(received \o t)
              /\ Elements(received \o t) = Elements(received) \cup Elements(t)
              /\ LastOf(base, received \o t) = LastOf(LastOf(base, received), t)
            <4> HIDE DEF t
            <4> QED BY <2>1, <3>2, SentLater
        <3> QED BY <2>2, <2>3, <3>3
    <2>5. /\ stream' \in [phase : StreamPhases, after : Nat, listed : SUBSET Nat, buffered : Seq(Nat)]
          /\ stream'.phase \in {"live", "ended"}
        <3>1. CASE UNCHANGED stream
            BY <1>6, <3>1 DEF StreamInv, StreamTypes
        <3>2. CASE stream' = [Closed EXCEPT !.phase = "ended"]
            BY <3>2, EmptySent DEF StreamPhases, Closed
        <3> QED BY <1>6, <3>1, <3>2
    <2>6. StreamTypes'
        BY <1>3, <2>1, <2>4, <2>5 DEF StreamInv, StreamTypes
    <2>7. SentInv'
        <3>1. \A c \in Elements(received) : c \in Nat /\ c <= OnDisk.cursor
            BY <2>1 DEF StreamInv, SentInv, Elements
        <3>2. \A c \in Elements(received') : c <= OnDisk'.cursor
            BY <1>1, <1>2, <2>4, <3>1
        <3>3. base <= OnDisk'.cursor
            BY <1>2, <2>1
        <3> QED BY <1>3, <2>4, <3>2, <3>3 DEF SentInv, Steady, Elements
    <2>8. Pending'
        BY <1>1, <2>5 DEF Pending
    <2>9. ASSUME ~cut PROVE NoneMissed'
        <3>1. NoneMissed /\ state.cursor <= LastOf(base, received)
            BY <1>6, <2>9 DEF StreamInv, Complete
        <3>2. \A c \in (base + 1)..cursor : c \in (base + 1)..LastOf(base, received) \/ c = cursor
            BY <1>1, <1>2, <2>1, <3>1
        <3>3. \A c \in (base + 1)..cursor : c \in Elements(received')
            BY <2>4, <3>1, <3>2 DEF NoneMissed
        <3>4. LastOf(base', received') = cursor
            BY <1>3, <2>4
        <3> QED BY <1>3, <3>3, <3>4 DEF NoneMissed, Elements, LastOf
    <2>10. LastOf(base', received') = state'.cursor
        BY <1>1, <1>3, <2>4
    <2>11. Complete'
        <3>1. state'.cursor <= LastOf(base', received')
            BY <1>1, <1>2, <2>10
        <3> QED BY <1>3, <2>5, <2>9, <3>1 DEF Complete, LastOf
    <2> QED BY <2>6, <2>7, <2>8, <2>11 DEF StreamInv
<1> QED BY <1>3, <1>4, <1>5, <1>6 DEF Publish, Subscribed

LEMMA StreamStep ==
    ASSUME [StreamNext]_streamVars PROVE [Next]_vars
BY DEF StreamNext, streamVars, CommitAndPublish, ServiceEnds, Connect, ListJournal, ReadFails,
       Replay, Disconnect, Next

LEMMA StreamStepInv ==
    ASSUME Inv, StreamInv, [StreamNext]_streamVars
    PROVE  StreamInv'
<1>1. CASE QuietStep /\ UNCHANGED <<stream, client>>
    BY <1>1, QuietStream
<1>2. CASE CommitAndPublish
    BY <1>2, CommitAndPublishInv
<1>3. CASE ServiceEnds
    BY <1>3, ClosedStream DEF ServiceEnds, Next
<1>4. CASE Connect
    BY <1>4, ConnectInv
<1>5. CASE ListJournal
    BY <1>5, ListJournalInv
<1>6. CASE ReadFails \/ Disconnect
    BY <1>6, ClosedStream DEF ReadFails, Disconnect
<1>7. CASE Replay
    BY <1>7, ReplayInv
<1>8. CASE UNCHANGED streamVars
    BY <1>8, QuietStream DEF streamVars
<1> QED
    BY <1>1, <1>2, <1>3, <1>4, <1>5, <1>6, <1>7, <1>8 DEF StreamNext

(* The event stream does not disturb the store: it reads the journal next  *)
(* to the queue of operations and is called by transact (serveEvents and   *)
(* readEvents), and every behaviour with a client is one of the store.     *)
THEOREM StreamOnlyReads == StreamSpec => Spec
<1>1. StreamInit => Init
    BY DEF StreamInit
<1>2. [StreamNext]_streamVars => [Next]_vars
    BY StreamStep
<1> QED BY <1>1, <1>2, PTL DEF StreamSpec, Spec

(* What a client is sent is true, whatever it does and whatever happens to *)
(* the Service: every event is of a transaction that no crash can undo,    *)
(* cursors never go back, though one may be sent twice, and none is missing*)
(* when no replay was cut, which the model remembers and the server tells  *)
(* nobody (serveEvents of router-read.mjs).                                *)
THEOREM ClientIsToldTheTruth == StreamSpec => []EventsAreTrue
<1>1. StreamInit => StreamInv
    BY StreamInitInv
<1>2. Inv /\ StreamInv /\ [StreamNext]_streamVars => StreamInv'
    BY StreamStepInv
<1>3. Inv /\ StreamInv => EventsAreTrue
    <2> SUFFICES ASSUME Inv, StreamInv PROVE EventsAreTrue
        OBVIOUS
    <2>1. Recovered = OnDisk
        BY Links
    <2>2. SentIsDurable
        <3>1. \A i \in 1..Len(received) : received[i] \in Elements(received)
            BY DEF Elements
        <3> QED BY <2>1, <3>1 DEF StreamInv, SentInv, Steady, SentIsDurable
    <2>3. ~cut => NoEventMissed
        <3>1. \A c \in Elements(received) : \E i \in 1..Len(received) : received[i] = c
            BY DEF Elements
        <3> QED BY <3>1 DEF StreamInv, Complete, NoneMissed, NoEventMissed
    <2> QED BY <2>2, <2>3 DEF EventsAreTrue, OnlyCutsMiss
<1> QED BY <1>1, <1>2, <1>3, StreamOnlyReads, StoreInvariant, PTL DEF StreamSpec
=============================================================================
