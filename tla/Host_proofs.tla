------------------------------ MODULE Host_proofs ------------------------------
(***************************************************************************)
(* Theorems about parts of the Service and of the hosts of the runtime: the*)
(* mutation history keeps its two promises for every set of keys, every    *)
(* limit and every number of restarts and failing writes, a connection to  *)
(* the supervisor of an environment ends clean for every number of         *)
(* requests and processes, every turn the Node host runs is one that was   *)
(* asked for, and the invocation broker fences the I/O of its calls and    *)
(* retains what they need, for every number of them.                       *)
(***************************************************************************)
EXTENDS MutationCoordinator, HolouvSupervisor, NodeWakeup, CapabilityBroker,
        FiniteSetTheorems, SequenceTheorems, WellFoundedInduction, TLAPS

-----------------------------------------------------------------------------
(* The mutation history.                                                   *)

TaskSteps == {"none", "check", "intent", "work", "outcome", "failure"}

HistoryTypes ==
    /\ records \in [Keys -> RecordStates]
    /\ disk \in [Keys -> RecordStates]
    /\ loaded \in BOOLEAN
    /\ worked \in [Keys -> Nat]
    /\ reply \in [Keys -> RecordStates]
    /\ task \in [key : Keys \cup {"none"}, pc : TaskSteps]
    /\ task.pc = "none" => task = NoTask
    /\ task.pc # "none" => task.key \in Keys /\ loaded

\* work that began is on the disk, whatever became of it, and in memory once
\* the history is loaded
Remembered ==
    \A k \in Keys : worked[k] # 0 => disk[k] # "none" /\ (loaded => records[k] # "none")

\* a success that was answered is on the disk, and so is one in memory
\* except while its own outcome is being written
Durable ==
    \A k \in Keys :
        /\ reply[k] = "succeeded" => disk[k] = "succeeded" /\ (loaded => records[k] = "succeeded")
        /\ loaded /\ records[k] = "succeeded" /\ ~(task.pc = "outcome" /\ task.key = k)
              => disk[k] = "succeeded"

\* what the task knows about its key at each of its steps
Underway ==
    /\ task.pc \in {"intent", "work"} => worked[task.key] = 0 /\ records[task.key] = "pending"
    /\ task.pc = "work" => disk[task.key] # "none"
    /\ task.pc = "outcome" => records[task.key] = "succeeded" /\ disk[task.key] # "none"
    /\ task.pc = "failure" => records[task.key] = "failed"
    /\ task.pc \in {"intent", "work", "outcome", "failure"} => reply[task.key] # "succeeded"

HistoryInv == HistoryTypes /\ WorkOnce /\ Remembered /\ Durable /\ Underway

-----------------------------------------------------------------------------
LEMMA HistoryInitInv == MutationInit => HistoryInv
<1> SUFFICES ASSUME MutationInit PROVE HistoryInv
    OBVIOUS
<1>1. /\ task = [key |-> "none", pc |-> "none"]
      /\ \A k \in Keys : disk[k] = "none" /\ worked[k] = 0 /\ reply[k] = "none"
    BY DEF MutationInit, NoTask
<1>0. ~loaded
    BY DEF MutationInit
<1>2. HistoryTypes
    BY DEF MutationInit, HistoryTypes, RecordStates, NoTask, TaskSteps
<1>3. WorkOnce
    BY <1>1 DEF WorkOnce
<1>4. Remembered
    BY <1>1 DEF Remembered
<1>5. Durable
    <2>1. \A k \in Keys : reply[k] # "succeeded"
        BY <1>1
    <2> QED BY <1>0, <2>1 DEF Durable
<1>6. Underway
    BY <1>1 DEF Underway
<1> QED BY <1>2, <1>3, <1>4, <1>5, <1>6 DEF HistoryInv

LEMMA ExecuteInv ==
    ASSUME HistoryInv, NEW k \in Keys, ExecuteBegins(k) PROVE HistoryInv'
BY DEF HistoryInv, HistoryTypes, WorkOnce, Remembered, Durable, Underway, ExecuteBegins,
       history, RecordStates, NoTask, TaskSteps

LEMMA ReplayInv ==
    ASSUME HistoryInv, Replay PROVE HistoryInv'
BY DEF HistoryInv, HistoryTypes, WorkOnce, Remembered, Durable, Underway, Replay, TaskAt, Reply,
       RecordStates, NoTask, TaskSteps

LEMMA LimitInv ==
    ASSUME HistoryInv, LimitExceeded PROVE HistoryInv'
BY DEF HistoryInv, HistoryTypes, WorkOnce, Remembered, Durable, Underway, LimitExceeded, TaskAt,
       history, RecordStates, NoTask, TaskSteps

LEMMA AdmittedInv ==
    ASSUME HistoryInv, Admitted PROVE HistoryInv'
BY DEF HistoryInv, HistoryTypes, WorkOnce, Remembered, Durable, Underway, Admitted, TaskAt, TaskGoes,
       Record, history, RecordStates, NoTask, TaskSteps

\* What a write may leave on the disk, whichever task writes.
LEMMA PersistedDisk ==
    ASSUME HistoryInv, task.pc # "none", PersistOk \/ PersistFails
    PROVE  /\ disk' \in [Keys -> RecordStates]
           /\ \A k \in Keys : disk'[k] = disk[k] \/ disk'[k] = records[k]
BY DEF HistoryInv, HistoryTypes, PersistOk, PersistFails

LEMMA IntentInv ==
    ASSUME HistoryInv, PersistIntent PROVE HistoryInv'
BY PersistedDisk DEF HistoryInv, HistoryTypes, WorkOnce, Remembered, Durable, Underway, PersistIntent,
       PersistOk, TaskAt, TaskGoes, history, RecordStates, NoTask, TaskSteps

LEMMA WorkInv ==
    ASSUME HistoryInv, Work PROVE HistoryInv'
BY DEF HistoryInv, HistoryTypes, WorkOnce, Remembered, Durable, Underway, Work, TaskAt, TaskGoes,
       Record, RecordStates, NoTask, TaskSteps

LEMMA OutcomeInv ==
    ASSUME HistoryInv, PersistOutcome PROVE HistoryInv'
BY PersistedDisk DEF HistoryInv, HistoryTypes, WorkOnce, Remembered, Durable, Underway, PersistOutcome,
       PersistOk, TaskAt, TaskGoes, Record, Reply, RecordStates, NoTask, TaskSteps

LEMMA FailureInv ==
    ASSUME HistoryInv, PersistFailure PROVE HistoryInv'
BY PersistedDisk DEF HistoryInv, HistoryTypes, WorkOnce, Remembered, Durable, Underway, PersistFailure,
       TaskAt, Reply, RecordStates, NoTask, TaskSteps

LEMMA ExpireInv ==
    ASSUME HistoryInv, NEW k \in Keys, Expire(k) PROVE HistoryInv'
BY DEF HistoryInv, HistoryTypes, WorkOnce, Remembered, Durable, Underway, Expire, Record, Reply,
       RecordStates, NoTask, TaskSteps

LEMMA RestartInv ==
    ASSUME HistoryInv, MutationRestart PROVE HistoryInv'
BY DEF HistoryInv, HistoryTypes, WorkOnce, Remembered, Durable, Underway, MutationRestart,
       history, RecordStates, NoTask, TaskSteps

LEMMA HistoryStutterInv ==
    ASSUME HistoryInv, UNCHANGED mutationVars PROVE HistoryInv'
BY DEF HistoryInv, HistoryTypes, WorkOnce, Remembered, Durable, Underway, mutationVars, history

LEMMA HistoryStepInv == HistoryInv /\ [MutationNext]_mutationVars => HistoryInv'
<1> SUFFICES ASSUME HistoryInv, [MutationNext]_mutationVars PROVE HistoryInv'
    OBVIOUS
<1>1. CASE \E k \in Keys : ExecuteBegins(k) \/ Expire(k)
    BY <1>1, ExecuteInv, ExpireInv
<1>2. CASE Replay BY <1>2, ReplayInv
<1>3. CASE LimitExceeded BY <1>3, LimitInv
<1>4. CASE Admitted BY <1>4, AdmittedInv
<1>5. CASE PersistIntent BY <1>5, IntentInv
<1>6. CASE Work BY <1>6, WorkInv
<1>7. CASE PersistOutcome BY <1>7, OutcomeInv
<1>8. CASE PersistFailure BY <1>8, FailureInv
<1>9. CASE MutationRestart BY <1>9, RestartInv
<1>10. CASE UNCHANGED mutationVars BY <1>10, HistoryStutterInv
<1> QED
    BY <1>1, <1>2, <1>3, <1>4, <1>5, <1>6, <1>7, <1>8, <1>9, <1>10 DEF MutationNext

(* The invariant from which both promises follow: what the coordinator     *)
(* knows of a key in memory, on the disk and in its current task.          *)
THEOREM HistoryInvariant == MutationSpec => []HistoryInv
<1>1. MutationInit => HistoryInv BY HistoryInitInv
<1>2. HistoryInv /\ [MutationNext]_mutationVars => HistoryInv' BY HistoryStepInv
<1> QED BY <1>1, <1>2, PTL DEF MutationSpec

(* The work of an idempotency key begins at most once while its record     *)
(* lives, whatever is retried, restarted and not written                   *)
(* (mutation-coordinator.mjs writes the record before it calls work).      *)
THEOREM WorkAtMostOnce == MutationSpec => []WorkOnce
<1>1. HistoryInv => WorkOnce BY DEF HistoryInv
<1> QED BY <1>1, HistoryInvariant, PTL

\* No step takes an answered success back.
LEMMA SuccessStep ==
    HistoryInv /\ [MutationNext]_mutationVars
        => [\A k \in Keys : reply[k] = "succeeded" => reply'[k] \in {"succeeded", "none"}]_mutationVars
<1> SUFFICES ASSUME HistoryInv, MutationNext, NEW k \in Keys, reply[k] = "succeeded"
             PROVE  reply'[k] \in {"succeeded", "none"}
    OBVIOUS
<1>1. CASE \E j \in Keys : ExecuteBegins(j)
    BY <1>1 DEF ExecuteBegins, history
<1>2. CASE \E j \in Keys : Expire(j)
    BY <1>2 DEF Expire, Reply, HistoryInv, HistoryTypes
<1>3. CASE Replay
    BY <1>3 DEF Replay, Reply, TaskAt, HistoryInv, HistoryTypes, Durable
<1>4. CASE PersistOutcome
    BY <1>4 DEF PersistOutcome, Reply, TaskAt, HistoryInv, HistoryTypes
<1>5. CASE PersistFailure
    BY <1>5 DEF PersistFailure, Reply, TaskAt, HistoryInv, HistoryTypes, Underway
<1>6. CASE LimitExceeded \/ Admitted \/ PersistIntent \/ Work \/ MutationRestart
    BY <1>6 DEF LimitExceeded, Admitted, PersistIntent, Work, MutationRestart, history
<1> QED
    BY <1>1, <1>2, <1>3, <1>4, <1>5, <1>6 DEF MutationNext

(* A mutation that was answered as succeeded is answered so until it       *)
(* expires: its record reached the disk first, and a failing write of      *)
(* another outcome cannot change it.                                       *)
THEOREM SuccessStays == MutationSpec => SuccessIsReplayed
<1>1. HistoryInv /\ [MutationNext]_mutationVars
        => [\A k \in Keys : reply[k] = "succeeded" => reply'[k] \in {"succeeded", "none"}]_mutationVars
    BY SuccessStep
<1> QED BY <1>1, HistoryInvariant, PTL DEF MutationSpec, SuccessIsReplayed

-----------------------------------------------------------------------------
(* The connection to the supervisor.                                       *)

States == {"none", "pending", "ok", "failed"}
Kinds == {"none", "spawn", "command", "configuration"}

ConnectionTypes ==
    /\ link \in [closed : BOOLEAN, ready : BOOLEAN, transport : {"none", "attached", "closed"}]
    /\ requests \in [RequestIds -> [kind : Kinds, state : States, sent : BOOLEAN]]
    /\ owner \in [Pids -> 0 .. MaxRequests]
    /\ sinks \in [RequestIds -> [exits : {0, 1}, closes : {0, 1}]]

Spawned(r) == requests[r].kind = "spawn" /\ requests[r].state = "ok"

\* A process that runs came from one spawn request, whose sink waits for it.
ProcessesOwned ==
    /\ \A p \in Pids : owner[p] # 0 => Spawned(owner[p]) /\ sinks[owner[p]].closes = 0
    /\ \A p, q \in Pids : owner[p] # 0 /\ owner[p] = owner[q] => p = q

\* A spawn that succeeded has its process, or its sink was told the end.
SpawnsAccounted ==
    \A r \in RequestIds :
        /\ sinks[r].closes <= sinks[r].exits
        /\ Spawned(r) => sinks[r].closes = 1 \/ \E p \in Pids : owner[p] = r
        /\ ~Spawned(r) => sinks[r].closes = 0

\* Of a connection that has failed nothing is left.
FailedIsEmpty ==
    link.closed =>
        /\ link.transport # "attached"
        /\ \A r \in RequestIds : ~Pending(r)
        /\ \A p \in Pids : owner[p] = 0

ConnectionInv == ConnectionTypes /\ ProcessesOwned /\ SpawnsAccounted /\ FailedIsEmpty

HolouvInv == ConnectionInv /\ (opening = "rejected" => link.closed)

LEMMA HolouvInitInv == HolouvAssumption /\ HolouvInit => HolouvInv
<1>. SUFFICES ASSUME HolouvAssumption, HolouvInit PROVE HolouvInv
  OBVIOUS
<1>1. ConnectionTypes
  BY DEF HolouvAssumption, HolouvInit, ConnectionTypes, NoRequest, Kinds, States, RequestIds
<1>2. ProcessesOwned
  BY DEF HolouvInit, ProcessesOwned
<1>3. SpawnsAccounted
  BY DEF HolouvInit, SpawnsAccounted, Spawned, NoRequest
<1>4. FailedIsEmpty /\ (opening = "rejected" => link.closed)
  BY DEF HolouvInit, FailedIsEmpty
<1>. QED BY <1>1, <1>2, <1>3, <1>4 DEF HolouvInv, ConnectionInv

\* What an end, told or not, makes of a sink.
LEMMA SinkEnds ==
    ASSUME NEW s \in [exits : {0, 1}, closes : {0, 1}]
    PROVE  /\ Exited(s) = [exits |-> 1, closes |-> s.closes]
           /\ Ended(s) = [exits |-> 1, closes |-> s.closes + 1]
<1>1. Exited(s) = [exits |-> 1, closes |-> s.closes]
  BY DEF Exited
<1>. QED BY <1>1 DEF Ended

\* A step that leaves the link, the requests, the processes and the sinks.
LEMMA ConnectionKept ==
    ASSUME ConnectionInv, UNCHANGED <<link, requests, owner, sinks>>
    PROVE  ConnectionInv' /\ link'.closed = link.closed
BY DEF ConnectionInv, ConnectionTypes, ProcessesOwned, SpawnsAccounted, FailedIsEmpty,
       Spawned, Pending

LEMMA ConnectionFails ==
    ASSUME HolouvAssumption, ConnectionInv, FailConnection
    PROVE  ConnectionInv' /\ link'.closed
<1>1. CASE link.closed
  BY <1>1, ConnectionKept DEF FailConnection, connection
<1>2. CASE ~link.closed
  <2>1. /\ link' = [link EXCEPT !.closed = TRUE,
                                !.transport = IF @ = "attached" THEN "closed" ELSE @]
        /\ requests' = [r \in RequestIds |-> IF Pending(r)
                           THEN [requests[r] EXCEPT !.state = "failed"] ELSE requests[r]]
        /\ sinks' = [r \in RequestIds |-> IF \E p \in Pids : owner[p] = r
                        THEN Ended(sinks[r]) ELSE sinks[r]]
        /\ owner' = [p \in Pids |-> 0]
    BY <1>2 DEF FailConnection
  <2>2. /\ link' \in [closed : BOOLEAN, ready : BOOLEAN,
                      transport : {"none", "attached", "closed"}]
        /\ link'.closed /\ link'.transport # "attached"
    BY <2>1 DEF ConnectionInv, ConnectionTypes
  <2>3. /\ requests' \in [RequestIds -> [kind : Kinds, state : States, sent : BOOLEAN]]
        /\ \A r \in RequestIds : requests'[r].state # "pending"
        /\ \A r \in RequestIds : Spawned(r)' <=> Spawned(r)
    BY <2>1 DEF ConnectionInv, ConnectionTypes, Pending, States, Spawned
  <2>4. ASSUME NEW r \in RequestIds
        PROVE  /\ sinks'[r] \in [exits : {0, 1}, closes : {0, 1}]
               /\ sinks'[r].closes <= sinks'[r].exits
               /\ Spawned(r) => sinks'[r].closes = 1
               /\ ~Spawned(r) => sinks'[r].closes = 0
    <3>1. /\ sinks[r] \in [exits : {0, 1}, closes : {0, 1}]
          /\ sinks[r].closes <= sinks[r].exits
          /\ Spawned(r) => sinks[r].closes = 1 \/ \E p \in Pids : owner[p] = r
          /\ ~Spawned(r) => sinks[r].closes = 0
      BY DEF ConnectionInv, ConnectionTypes, SpawnsAccounted
    <3>2. CASE \E p \in Pids : owner[p] = r
      <4>1. Spawned(r) /\ sinks[r].closes = 0
        BY <3>2 DEF ConnectionInv, ProcessesOwned, RequestIds, HolouvAssumption
      <4>2. sinks'[r] = Ended(sinks[r])
        BY <2>1, <3>2
      <4>. QED BY <3>1, <4>1, <4>2, SinkEnds
    <3>3. CASE ~\E p \in Pids : owner[p] = r
      BY <2>1, <3>1, <3>3
    <3>. QED BY <3>2, <3>3
  <2>5. /\ sinks' \in [RequestIds -> [exits : {0, 1}, closes : {0, 1}]]
        /\ owner' \in [Pids -> 0 .. MaxRequests] /\ \A p \in Pids : owner'[p] = 0
    BY <2>1, <2>4 DEF HolouvAssumption
  <2>6. SpawnsAccounted'
    BY <2>3, <2>4 DEF SpawnsAccounted
  <2>7. ProcessesOwned' /\ FailedIsEmpty'
    BY <2>2, <2>3, <2>5 DEF ProcessesOwned, FailedIsEmpty, Pending
  <2>. QED BY <2>2, <2>3, <2>5, <2>6, <2>7 DEF ConnectionInv, ConnectionTypes
<1>. QED BY <1>1, <1>2

\* A request whose state changes, but not to or from a success of a spawn.
LEMMA RequestChanges ==
    ASSUME ConnectionInv, NEW r \in RequestIds, NEW q,
           q \in [kind : Kinds, state : States, sent : BOOLEAN],
           requests' = [requests EXCEPT ![r] = q],
           ~Spawned(r), ~(q.kind = "spawn" /\ q.state = "ok"),
           q.state = "pending" => ~link.closed,
           UNCHANGED <<link, owner, sinks>>
    PROVE  ConnectionInv' /\ link'.closed = link.closed
<1>1. /\ requests' \in [RequestIds -> [kind : Kinds, state : States, sent : BOOLEAN]]
      /\ \A x \in RequestIds : Spawned(x)' <=> Spawned(x)
      /\ \A x \in RequestIds : x # r => requests'[x] = requests[x]
      /\ requests'[r] = q
  BY DEF ConnectionInv, ConnectionTypes, Spawned
<1>2. ConnectionTypes'
  BY <1>1 DEF ConnectionInv, ConnectionTypes
<1>3. ProcessesOwned'
  <2>1. \A p \in Pids : owner[p] # 0 => owner[p] \in RequestIds
    BY DEF ConnectionInv, ConnectionTypes, RequestIds
  <2>. QED BY <1>1, <2>1 DEF ConnectionInv, ProcessesOwned
<1>4. SpawnsAccounted'
  BY <1>1 DEF ConnectionInv, SpawnsAccounted
<1>5. FailedIsEmpty'
  <2>1. \A x \in RequestIds : Pending(x)' => Pending(x) \/ ~link.closed
    BY <1>1 DEF Pending
  <2>. QED BY <2>1 DEF ConnectionInv, FailedIsEmpty
<1>. QED BY <1>2, <1>3, <1>4, <1>5 DEF ConnectionInv

\* A non-empty set of request ids has a least one.
LEMMA LeastRequest ==
    ASSUME HolouvAssumption, NEW T \in SUBSET RequestIds, T # {}
    PROVE  \E r \in T : \A s \in T : r <= s
<1>. DEFINE less == {ss \in Nat \X Nat : ss[1] < ss[2]}
<1>1. IsWellFoundedOn(less, Nat)
  BY NatLessThanWellFounded DEF OpToRel
<1>2. T \in SUBSET Nat
  BY DEF RequestIds, HolouvAssumption
<1>3. PICK r \in T : \A s \in T : ~ (<<s, r>> \in less)
  <2>. HIDE DEF less
  <2>. QED BY <1>1, <1>2, WFMin
<1>4. \A s \in T : ~(s < r)
  BY <1>2, <1>3
<1>. QED BY <1>2, <1>4

LEMMA RequestMade ==
    ASSUME HolouvAssumption, ConnectionInv, NEW kind \in Kinds, NEW sent \in BOOLEAN,
           NewRequest(kind, sent), ~link.closed, UNCHANGED <<link, owner, sinks>>
    PROVE  ConnectionInv' /\ link'.closed = link.closed
<1>. DEFINE r == CHOOSE r \in FreeRequests : \A s \in FreeRequests : r <= s
            q == [kind |-> kind, state |-> "pending", sent |-> sent]
<1>1. r \in FreeRequests
  <2>1. FreeRequests \in SUBSET RequestIds /\ FreeRequests # {}
    BY DEF FreeRequests, NewRequest
  <2>. QED BY <2>1, LeastRequest
<1>2. requests' = [requests EXCEPT ![r] = q]
  BY DEF NewRequest
<1>3. q \in [kind : Kinds, state : States, sent : BOOLEAN] /\ q.state = "pending"
  BY DEF States
<1>. HIDE DEF r, q
<1>4. r \in RequestIds /\ ~Spawned(r)
  BY <1>1 DEF FreeRequests, Spawned, NoRequest
<1>. QED BY <1>2, <1>3, <1>4, RequestChanges

\* A request that waits is answered, but a spawn only with a failure.
LEMMA RequestAnswered ==
    ASSUME ConnectionInv, NEW r \in RequestIds, Pending(r), NEW state \in {"ok", "failed"},
           requests[r].kind = "spawn" => state = "failed",
           SetRequest(r, state), UNCHANGED <<link, owner, sinks>>
    PROVE  ConnectionInv' /\ link'.closed = link.closed
<1>. DEFINE q == [requests[r] EXCEPT !.state = state]
<1>1. /\ q \in [kind : Kinds, state : States, sent : BOOLEAN]
      /\ q.kind = requests[r].kind /\ q.state = state
      /\ requests' = [requests EXCEPT ![r] = q]
  BY DEF ConnectionInv, ConnectionTypes, SetRequest, States
<1>. HIDE DEF q
<1>2. ~Spawned(r)
  BY DEF Pending, Spawned
<1>. QED BY <1>1, <1>2, RequestChanges

LEMMA ProcessStarts ==
    ASSUME HolouvAssumption, ConnectionInv, NEW r \in RequestIds, NEW p \in Pids, Pending(r),
           requests[r].kind = "spawn", owner[p] = 0, SetRequest(r, "ok"),
           owner' = [owner EXCEPT ![p] = r], ~link.closed, UNCHANGED <<link, sinks>>
    PROVE  ConnectionInv' /\ link'.closed = link.closed
<1>1. /\ requests' \in [RequestIds -> [kind : Kinds, state : States, sent : BOOLEAN]]
      /\ \A x \in RequestIds : x # r => requests'[x] = requests[x]
      /\ requests'[r].kind = "spawn" /\ requests'[r].state = "ok"
      /\ \A x \in RequestIds : Spawned(x)' <=> Spawned(x) \/ x = r
      /\ ~Spawned(r)
  BY DEF ConnectionInv, ConnectionTypes, Spawned, SetRequest, States, Pending
<1>2. /\ owner' \in [Pids -> 0 .. MaxRequests] /\ owner'[p] = r
      /\ \A x \in Pids : x # p => owner'[x] = owner[x]
      /\ r # 0
  BY DEF ConnectionInv, ConnectionTypes, RequestIds, HolouvAssumption
<1>3. \A x \in Pids : owner[x] # r
  BY <1>1, <1>2 DEF ConnectionInv, ProcessesOwned
<1>4. sinks[r].closes = 0
  BY <1>1 DEF ConnectionInv, SpawnsAccounted
<1>5. ConnectionTypes' /\ FailedIsEmpty'
  BY <1>1, <1>2 DEF ConnectionInv, ConnectionTypes, FailedIsEmpty
<1>6. ProcessesOwned'
  <2>1. \A x \in Pids : owner[x] # 0 => owner[x] \in RequestIds
    BY DEF ConnectionInv, ConnectionTypes, RequestIds
  <2>2. ASSUME NEW x \in Pids, owner'[x] # 0
        PROVE  Spawned(owner[x])' /\ sinks'[owner'[x]].closes = 0
    BY <1>1, <1>2, <1>4, <2>1, <2>2 DEF ConnectionInv, ProcessesOwned, Spawned
  <2>3. ASSUME NEW x \in Pids, NEW y \in Pids, owner'[x] # 0, owner'[x] = owner'[y]
        PROVE  x = y
    BY <1>2, <1>3, <2>3 DEF ConnectionInv, ProcessesOwned
  <2>. QED BY <2>2, <2>3 DEF ProcessesOwned
<1>7. SpawnsAccounted'
  <2>1. ASSUME NEW x \in RequestIds
        PROVE  (\E y \in Pids : owner[y] = x) => \E y \in Pids : owner'[y] = x
    BY <1>2, <2>1 DEF RequestIds
  <2>. QED BY <1>1, <1>2, <1>4, <2>1 DEF ConnectionInv, SpawnsAccounted
<1>. QED BY <1>5, <1>6, <1>7 DEF ConnectionInv

\* The end of a process is told to the sink that waits for it.
LEMMA ProcessEnds ==
    ASSUME HolouvAssumption, ConnectionInv, NEW p \in Pids, owner[p] # 0,
           sinks' = [sinks EXCEPT ![owner[p]] = Ended(@)],
           owner' = [owner EXCEPT ![p] = 0], UNCHANGED <<link, requests>>
    PROVE  ConnectionInv' /\ link'.closed = link.closed
<1>. DEFINE r == owner[p]
<1>1. /\ r \in RequestIds /\ Spawned(r) /\ sinks[r].closes = 0
      /\ \A x \in Pids : x # p => owner[x] # r
  BY DEF ConnectionInv, ConnectionTypes, ProcessesOwned, RequestIds, HolouvAssumption
<1>2. /\ sinks' \in [RequestIds -> [exits : {0, 1}, closes : {0, 1}]]
      /\ sinks'[r].closes = 1 /\ sinks'[r].exits = 1
      /\ \A x \in RequestIds : x # r => sinks'[x] = sinks[x]
  <2>1. sinks[r] \in [exits : {0, 1}, closes : {0, 1}]
    BY <1>1 DEF ConnectionInv, ConnectionTypes
  <2>2. /\ Ended(sinks[r]) \in [exits : {0, 1}, closes : {0, 1}]
        /\ Ended(sinks[r]).closes = 1 /\ Ended(sinks[r]).exits = 1
    BY <1>1, <2>1, SinkEnds
  <2>. QED BY <1>1, <2>2 DEF ConnectionInv, ConnectionTypes
<1>3. /\ owner' \in [Pids -> 0 .. MaxRequests] /\ owner'[p] = 0
      /\ \A x \in Pids : x # p => owner'[x] = owner[x]
  BY DEF ConnectionInv, ConnectionTypes, HolouvAssumption
<1>4. \A x \in RequestIds : Spawned(x)' <=> Spawned(x)
  BY DEF Spawned
<1>. HIDE DEF r
<1>5. ConnectionTypes' /\ FailedIsEmpty'
  BY <1>2, <1>3 DEF ConnectionInv, ConnectionTypes, FailedIsEmpty, Pending
<1>6. ProcessesOwned'
  <2>1. \A x \in Pids : owner[x] # 0 => owner[x] \in RequestIds
    BY DEF ConnectionInv, ConnectionTypes, RequestIds
  <2>. QED BY <1>1, <1>2, <1>3, <1>4, <2>1 DEF ConnectionInv, ProcessesOwned, Spawned
<1>7. SpawnsAccounted'
  <2>1. \A x \in RequestIds : x # r =>
            ((\E y \in Pids : owner[y] = x) => \E y \in Pids : owner'[y] = x)
    BY <1>3 DEF r
  <2>. QED BY <1>1, <1>2, <1>4, <2>1 DEF ConnectionInv, SpawnsAccounted
<1>. QED BY <1>5, <1>6, <1>7 DEF ConnectionInv

LEMMA ProcessExits ==
    ASSUME HolouvAssumption, ConnectionInv, NEW p \in Pids, owner[p] # 0,
           sinks' = [sinks EXCEPT ![owner[p]] = Exited(@)], UNCHANGED <<link, requests, owner>>
    PROVE  ConnectionInv' /\ link'.closed = link.closed
<1>. DEFINE r == owner[p]
<1>1. r \in RequestIds
  BY DEF ConnectionInv, ConnectionTypes, RequestIds, HolouvAssumption
<1>2. /\ sinks' \in [RequestIds -> [exits : {0, 1}, closes : {0, 1}]]
      /\ \A x \in RequestIds : /\ sinks'[x].closes = sinks[x].closes
                               /\ sinks[x].exits <= sinks'[x].exits
  <2>1. \A x \in RequestIds : sinks[x] \in [exits : {0, 1}, closes : {0, 1}]
    BY DEF ConnectionInv, ConnectionTypes
  <2>2. Exited(sinks[r]) = [exits |-> 1, closes |-> sinks[r].closes]
    BY <1>1, <2>1, SinkEnds
  <2>3. sinks' = [sinks EXCEPT ![r] = [exits |-> 1, closes |-> sinks[r].closes]]
    BY <2>2
  <2>. HIDE DEF r
  <2>4. /\ sinks \in [RequestIds -> [exits : {0, 1}, closes : {0, 1}]]
        /\ sinks[r].exits <= 1 /\ sinks[r].closes \in {0, 1}
    BY <1>1, <2>1 DEF ConnectionInv, ConnectionTypes
  <2>5. \A x \in RequestIds : sinks[x].exits <= sinks[x].exits
    BY <2>1
  <2> DEFINE s == [exits |-> 1, closes |-> sinks[r].closes]
  <2>6. s \in [exits : {0, 1}, closes : {0, 1}] /\ s.exits = 1 /\ s.closes = sinks[r].closes
    BY <2>4
  <2>7. sinks' = [sinks EXCEPT ![r] = s]
    BY <2>3
  <2>. HIDE DEF s
  <2>8. /\ sinks' \in [RequestIds -> [exits : {0, 1}, closes : {0, 1}]]
        /\ sinks'[r] = s /\ \A x \in RequestIds : x # r => sinks'[x] = sinks[x]
    BY <1>1, <2>4, <2>6, <2>7
  <2>. QED BY <2>4, <2>5, <2>6, <2>8
<1>3. \A x \in RequestIds : Spawned(x)' <=> Spawned(x)
  BY DEF Spawned
<1>. HIDE DEF r
<1>4. ConnectionTypes' /\ FailedIsEmpty'
  BY <1>2 DEF ConnectionInv, ConnectionTypes, FailedIsEmpty, Pending
<1>5. ProcessesOwned'
  <2>1. \A x \in Pids : owner[x] # 0 => owner[x] \in RequestIds
    BY DEF ConnectionInv, ConnectionTypes, RequestIds
  <2>. QED BY <1>2, <1>3, <2>1 DEF ConnectionInv, ProcessesOwned, Spawned
<1>6. SpawnsAccounted'
  <2>1. \A x \in RequestIds : sinks'[x].closes <= sinks'[x].exits
    <3>1. \A x \in RequestIds : /\ sinks[x] \in [exits : {0, 1}, closes : {0, 1}]
                                /\ sinks'[x] \in [exits : {0, 1}, closes : {0, 1}]
                                /\ sinks[x].closes <= sinks[x].exits
      BY <1>2 DEF ConnectionInv, ConnectionTypes, SpawnsAccounted
    <3>. QED BY <1>2, <3>1
  <2>. QED BY <1>2, <1>3, <2>1 DEF ConnectionInv, SpawnsAccounted
<1>. QED BY <1>4, <1>5, <1>6 DEF ConnectionInv

-----------------------------------------------------------------------------
\* The parts of the next-state relation.

LEMMA LeaseSteps ==
    ASSUME HolouvAssumption, HolouvInv,
           Acquire \/ CloseRecord \/ CloseEnvironment \/ \E written \in BOOLEAN : ShutdownEnds(written)
    PROVE  HolouvInv'
<1>1. CASE Acquire
  BY <1>1, ConnectionKept DEF Acquire, HolouvInv, connection
<1>2. CASE CloseRecord
  BY <1>2, ConnectionKept, ConnectionFails DEF CloseRecord, HolouvInv, connection
<1>3. CASE CloseEnvironment
  BY <1>3, ConnectionKept DEF CloseEnvironment, HolouvInv, connection
<1>4. CASE \E written \in BOOLEAN : ShutdownEnds(written)
  BY <1>4, ConnectionFails DEF ShutdownEnds, HolouvInv
<1>. QED BY <1>1, <1>2, <1>3, <1>4

LEMMA AttachInv == ASSUME ConnectionInv, Attach PROVE ConnectionInv' /\ link'.closed = link.closed
<1>1. /\ link' \in [closed : BOOLEAN, ready : BOOLEAN, transport : {"none", "attached", "closed"}]
      /\ link'.closed = link.closed /\ (link'.closed => link'.transport # "attached")
  BY DEF Attach, ConnectionInv, ConnectionTypes
<1>. QED BY <1>1 DEF Attach, ConnectionInv, ConnectionTypes, ProcessesOwned, SpawnsAccounted,
                     FailedIsEmpty, Spawned, Pending

LEMMA OpenSteps == ASSUME HolouvAssumption, HolouvInv, OpenStep PROVE HolouvInv'
<1>0. ConnectionInv
  BY DEF HolouvInv
<1>1. ASSUME OpenRejects PROVE HolouvInv'
  BY <1>0, <1>1, ConnectionFails DEF OpenRejects, HolouvInv
<1>2. ASSUME UNCHANGED connection, opening' # "rejected" PROVE HolouvInv'
  BY <1>0, <1>2, ConnectionKept DEF HolouvInv, connection
<1>3. CASE OpenBegins \/ Validated
  BY <1>2, <1>3 DEF OpenBegins, Validated, OpenGoes
<1>4. CASE Attach
  BY <1>0, <1>4, AttachInv DEF HolouvInv, Attach, OpenGoes
<1>5. CASE AwaitReady
  BY <1>0, <1>2, <1>5, ConnectionFails DEF AwaitReady, OpenGoes, HolouvInv
<1>6. CASE ReadyEnds
  BY <1>1, <1>2, <1>6 DEF ReadyEnds, OpenGoes
<1>7. CASE Configure
  <2>1. CASE link.closed \/ SignalAborted
    BY <1>1, <1>7, <2>1 DEF Configure
  <2>2. CASE ~(link.closed \/ SignalAborted)
    <3>1. /\ NewRequest("configuration", TRUE) /\ UNCHANGED <<link, owner, sinks>>
          /\ opening' = "configure"
      BY <1>7, <2>2 DEF Configure, OpenGoes
    <3>2. ConnectionInv'
      BY <1>0, <2>2, <3>1, RequestMade DEF Kinds
    <3>. QED BY <3>1, <3>2 DEF HolouvInv
  <2>. QED BY <2>1, <2>2
<1>8. CASE ConfigureEnds
  BY <1>1, <1>2, <1>8 DEF ConfigureEnds, OpenGoes
<1>9. CASE OpenFails
  BY <1>1, <1>9 DEF OpenFails
<1>. QED BY <1>3, <1>4, <1>5, <1>6, <1>7, <1>8, <1>9 DEF OpenStep

LEMMA TransportSteps ==
    ASSUME HolouvAssumption, HolouvInv,
           \/ ReadyTimesOut \/ ConfigurationTimesOut \/ TransportBreaks
           \/ \E r \in RequestIds : WriteFails(r)
    PROVE  HolouvInv'
<1>1. CASE ReadyTimesOut \/ ConfigurationTimesOut \/ TransportBreaks
  BY <1>1, ConnectionFails DEF ReadyTimesOut, ConfigurationTimesOut, TransportBreaks, HolouvInv
<1>2. ASSUME NEW r \in RequestIds, WriteFails(r) PROVE HolouvInv'
  <2>1. Pending(r) /\ SetRequest(r, "failed") /\ UNCHANGED <<link, owner, sinks, opening>>
    BY <1>2 DEF WriteFails, around
  <2>2. ConnectionInv'
    BY <2>1, RequestAnswered DEF HolouvInv
  <2>. QED BY <2>1, <2>2 DEF HolouvInv
<1>. QED BY <1>1, <1>2

LEMMA HostRequestSteps ==
    ASSUME HolouvAssumption, HolouvInv,
           \/ \E sent \in BOOLEAN : SpawnRequest(sent) \/ Command(sent)
           \/ \E h \in admissions : AdmissionLeaves(h)
    PROVE  HolouvInv'
<1>1. ASSUME NEW sent \in BOOLEAN, NEW kind \in {"spawn", "command"}, NewRequest(kind, sent),
             Usable, UNCHANGED <<link, owner, sinks, opening>>
      PROVE  HolouvInv'
  <2>1. ConnectionInv'
    BY <1>1, RequestMade DEF HolouvInv, Usable, Kinds
  <2>. QED BY <1>1, <2>1 DEF HolouvInv
<1>2. CASE \E h \in admissions : AdmissionLeaves(h)
  BY <1>2, ConnectionKept DEF AdmissionLeaves, around, HolouvInv
<1>3. ASSUME NEW sent \in BOOLEAN, SpawnRequest(sent) PROVE HolouvInv'
  BY <1>1, <1>3 DEF SpawnRequest, around
<1>4. ASSUME NEW sent \in BOOLEAN, Command(sent) PROVE HolouvInv'
  BY <1>1, <1>4 DEF Command, around
<1>. QED BY <1>2, <1>3, <1>4

LEMMA FrameSteps == ASSUME HolouvAssumption, HolouvInv, Frames PROVE HolouvInv'
<1>0. ConnectionInv
  BY DEF HolouvInv
<1>1. ASSUME FailConnection PROVE HolouvInv'
  BY <1>0, <1>1, ConnectionFails DEF HolouvInv
<1>2. ASSUME UNCHANGED <<link, requests, owner, sinks, opening>> PROVE HolouvInv'
  BY <1>0, <1>2, ConnectionKept DEF HolouvInv
<1>3. ASSUME ConnectionInv', link'.closed = link.closed, opening' = opening PROVE HolouvInv'
  BY <1>3 DEF HolouvInv
<1>4. CASE FrameRefused
  BY <1>1, <1>4 DEF FrameRefused
<1>5. CASE FrameReady
  <2>1. /\ link' \in [closed : BOOLEAN, ready : BOOLEAN, transport : {"none", "attached", "closed"}]
        /\ link'.closed = link.closed /\ link'.transport = link.transport
        /\ UNCHANGED <<requests, owner, sinks, opening>>
    BY <1>0, <1>5 DEF FrameReady, ConnectionInv, ConnectionTypes, around
  <2>2. ConnectionInv'
    BY <1>0, <2>1 DEF ConnectionInv, ConnectionTypes, ProcessesOwned, SpawnsAccounted,
                      FailedIsEmpty, Spawned, Pending
  <2>. QED BY <1>3, <2>1, <2>2
<1>6. ASSUME NEW r \in RequestIds, FrameAck(r) PROVE HolouvInv'
  <2>1. CASE Pending(r) /\ requests[r].kind # "spawn"
    BY <1>0, <1>3, <1>6, <2>1, RequestAnswered DEF FrameAck, around
  <2>2. CASE ~(Pending(r) /\ requests[r].kind # "spawn")
    BY <1>1, <1>6, <2>2 DEF FrameAck
  <2>. QED BY <2>1, <2>2
<1>7. ASSUME NEW r \in RequestIds, FrameError(r) PROVE HolouvInv'
  BY <1>0, <1>3, <1>7, RequestAnswered DEF FrameError, around
<1>8. ASSUME NEW r \in RequestIds, NEW p \in Pids, FrameSpawned(r, p) PROVE HolouvInv'
  <2>1. CASE Pending(r) /\ owner[p] = 0
    BY <1>0, <1>3, <1>8, <2>1, ProcessStarts DEF FrameSpawned, Receiving, around
  <2>2. CASE ~(Pending(r) /\ owner[p] = 0)
    BY <1>1, <1>8, <2>2 DEF FrameSpawned
  <2>. QED BY <2>1, <2>2
<1>9. ASSUME NEW p \in Pids, FrameExit(p) PROVE HolouvInv'
  BY <1>0, <1>3, <1>9, ProcessExits DEF FrameExit, Known, around
<1>10. ASSUME NEW p \in Pids, FrameClose(p) PROVE HolouvInv'
  BY <1>0, <1>3, <1>10, ProcessEnds DEF FrameClose, Known, around
<1>11. ASSUME NEW p \in Pids, NEW kind, FrameRequest(kind, p) PROVE HolouvInv'
  BY <1>2, <1>11 DEF FrameRequest, connection
<1>12. ASSUME NEW i, NEW committed, FrameExecResult(i, committed) PROVE HolouvInv'
  BY <1>1, <1>2, <1>12 DEF FrameExecResult, around
<1>. QED BY <1>4, <1>5, <1>6, <1>7, <1>8, <1>9, <1>10, <1>11, <1>12 DEF Frames

LEMMA HandlerSteps == ASSUME HolouvAssumption, HolouvInv, Handled PROVE HolouvInv'
<1>0. ConnectionInv
  BY DEF HolouvInv
<1>1. ASSUME FailConnection PROVE HolouvInv'
  BY <1>0, <1>1, ConnectionFails DEF HolouvInv
<1>2. ASSUME UNCHANGED <<link, requests, owner, sinks, opening>> PROVE HolouvInv'
  BY <1>0, <1>2, ConnectionKept DEF HolouvInv
<1>3. PICK h \in handlers :
          HandlerAnswered(h) \/ HandlerBreaks(h) \/ ExecAllowed(h) \/ NetworkAllowed(h)
  BY DEF Handled
<1>4. CASE HandlerAnswered(h) \/ ExecAllowed(h)
  BY <1>2, <1>4 DEF HandlerAnswered, ExecAllowed, HandlerEnds, connection
<1>5. CASE HandlerBreaks(h)
  BY <1>1, <1>5 DEF HandlerBreaks
<1>6. CASE NetworkAllowed(h)
  BY <1>1, <1>2, <1>6 DEF NetworkAllowed, HandlerEnds
<1>. QED BY <1>3, <1>4, <1>5, <1>6

LEMMA HolouvStepInv ==
    HolouvAssumption /\ HolouvInv /\ [HolouvNext]_holouvVars => HolouvInv'
<1>. SUFFICES ASSUME HolouvAssumption, HolouvInv, [HolouvNext]_holouvVars PROVE HolouvInv'
  OBVIOUS
<1>1. CASE HolouvRest \/ UNCHANGED holouvVars
  BY <1>1, ConnectionKept DEF HolouvRest, holouvVars, connection, HolouvInv
<1>. QED BY <1>1, LeaseSteps, OpenSteps, TransportSteps, HostRequestSteps, FrameSteps, HandlerSteps
         DEF HolouvNext

(* What an environment knows of its connection: a process that runs has    *)
(* one spawn request and one sink that waits, and a connection that failed *)
(* (fail of supervisor-environment.ts) keeps nothing.                      *)
THEOREM HolouvInvariant == HolouvSpec => []HolouvInv
<1>1. HolouvInit => HolouvInv
  BY HolouvAssumption, HolouvInitInv
<1>2. HolouvInv /\ [HolouvNext]_holouvVars => HolouvInv'
  BY HolouvAssumption, HolouvStepInv
<1>. QED BY <1>1, <1>2, PTL DEF HolouvSpec

(* When the connection has ended, however it did, no request of the host is*)
(* pending, the sink of every process it had spawned was told one exit and *)
(* one close, and a transport, one that arrives late too, is closed.  A    *)
(* shutdown whose write throws does not end it (fail, #close).             *)
THEOREM EndsClean == HolouvSpec => []ConnectionEndsClean
<1>1. HolouvInv => ConnectionEndsClean
  <2>. SUFFICES ASSUME HolouvInv PROVE ConnectionEndsClean
    OBVIOUS
  <2>1. \A r \in RequestIds : sinks[r].exits <= 1 /\ sinks[r].closes <= sinks[r].exits
    BY DEF HolouvInv, ConnectionInv, ConnectionTypes, SpawnsAccounted
  <2>2. ASSUME link.closed, NEW r \in RequestIds, Spawned(r) PROVE sinks[r].closes = 1
    <3>1. r # 0
      BY HolouvAssumption DEF HolouvAssumption, RequestIds
    <3>. QED BY <2>2, <3>1 DEF HolouvInv, ConnectionInv, SpawnsAccounted, FailedIsEmpty
  <2>. QED BY <2>1, <2>2 DEF HolouvInv, ConnectionInv, FailedIsEmpty, Spawned, ConnectionEndsClean
<1>. QED BY <1>1, HolouvInvariant, PTL

-----------------------------------------------------------------------------
(* The wakeup of the Node host.                                            *)


WakeupTypes ==
    /\ now \in Nat /\ ticket \in Nat /\ check \in Nat
    /\ wanted \in Port!Wakeups
    /\ turns \in Seq({"tick", "check", "timer"})
    /\ immediate \in BOOLEAN /\ terminated \in BOOLEAN
    /\ immediatePhase \in {"none", "next-tick", "event-loop"}
    /\ ticks \in Seq(Nat)
    /\ timer \in [ticket : Nat, at : Nat]

\* Callbacks carry tickets that were given out, in that order.
TicketsGiven ==
    /\ \A i \in DOMAIN ticks : ticks[i] \in 1 .. ticket
    /\ \A i, j \in DOMAIN ticks : i < j => ticks[i] < ticks[j]
    /\ check <= ticket /\ timer.ticket <= ticket
    /\ timer # NoTimer => timer.ticket # 0

\* A callback with the current ticket is the wakeup that was asked for.
CurrentIsAsked ==
    ~terminated =>
        /\ \A i \in DOMAIN ticks :
              ticks[i] = ticket => wanted # NoWakeup /\ wanted.at <= now /\ wanted.phase = "next-tick"
        /\ check = ticket /\ check # 0
              => wanted # NoWakeup /\ wanted.at <= now /\ wanted.phase = "event-loop"
        /\ timer.ticket = ticket /\ timer.ticket # 0
              => wanted # NoWakeup /\ wanted.at <= timer.at /\ ~immediate
                 /\ check # ticket /\ \A i \in DOMAIN ticks : ticks[i] # ticket
        /\ immediate => ticket # 0

WakeupInv == WakeupTypes /\ TicketsGiven /\ CurrentIsAsked /\ QueuedIsReal

LEMMA DivMod ==
    ASSUME NEW a \in Nat, NEW b \in Nat \ {0}
    PROVE  (a \div b) \in Nat /\ a - b < (a \div b) * b
  OBVIOUS

\* Rounding up never makes a delay shorter than what is left.
LEMMA DelayIsEnough ==
    ASSUME WakeupBounds, NEW deadline \in Nat, now \in Nat
    PROVE  Delay(deadline) \in Nat /\ now + Delay(deadline) >= deadline
<1>1. CASE deadline <= now
  BY <1>1 DEF Delay
<1>2. CASE ~(deadline <= now)
  <2> DEFINE y == deadline - now + TicksPerMs - 1
             q == y \div TicksPerMs
  <2>1. y \in Nat /\ TicksPerMs \in Nat \ {0}
    BY <1>2 DEF WakeupBounds
  <2>4. Delay(deadline) = q * TicksPerMs
    BY <1>2 DEF Delay
  <2>5. y - TicksPerMs = deadline - now - 1
    BY <2>1
  <2> HIDE DEF y
  <2>2. q \in Nat /\ y - TicksPerMs < q * TicksPerMs
    BY <2>1, DivMod
  <2>3. q * TicksPerMs \in Nat
    BY <2>1, <2>2
  <2> HIDE DEF q
  <2> DEFINE m == q * TicksPerMs
  <2>6. m \in Nat /\ deadline - now - 1 < m /\ Delay(deadline) = m
    BY <2>2, <2>3, <2>4, <2>5
  <2> HIDE DEF m
  <2> QED
    BY <2>6
<1> QED
  BY <1>1, <1>2

LEMMA WakeupInitInv == WakeupInit => WakeupInv
<1> SUFFICES ASSUME WakeupInit PROVE WakeupInv
  OBVIOUS
<1>1. wanted \in Port!Wakeups
  BY DEF WakeupInit, NoWakeup, Port!Wakeups
<1>2. WakeupTypes
  <2>1. turns \in Seq({"tick", "check", "timer"}) /\ ticks \in Seq(Nat)
    BY DEF WakeupInit
  <2>2. timer \in [ticket : Nat, at : Nat]
    BY DEF WakeupInit, NoTimer
  <2> QED
    BY <1>1, <2>1, <2>2 DEF WakeupInit, WakeupTypes
<1>3. TicketsGiven /\ CurrentIsAsked /\ QueuedIsReal
  BY DEF WakeupInit, TicketsGiven, CurrentIsAsked, QueuedIsReal, NoTimer
<1> QED
  BY <1>2, <1>3 DEF WakeupInv

LEMMA RequestInv ==
    ASSUME WakeupBounds, WakeupInv, NEW wakeup \in Port!Wakeups, RequestWakeup(wakeup)
    PROVE  WakeupInv'
<1> USE DEF WakeupInv
<1>1. wakeup # NoWakeup => wakeup.at \in Nat /\ wakeup.phase \in {"next-tick", "event-loop"}
  BY DEF WakeupBounds, NoWakeup, Port!NoWakeup, Port!Wakeups, Port!Phases
<1>2. CASE AlreadyQueued(wakeup)
  <2>1. wanted' = wakeup /\ UNCHANGED <<now, turns, queueVars>>
    BY <1>2 DEF RequestWakeup
  <2>2. WakeupTypes' /\ TicketsGiven' /\ QueuedIsReal'
    BY <2>1 DEF WakeupTypes, TicketsGiven, QueuedIsReal, queueVars
  <2>3. /\ wakeup # NoWakeup /\ wakeup.at <= now /\ immediatePhase = wakeup.phase
        /\ immediatePhase \in {"next-tick", "event-loop"} /\ immediate /\ ~terminated
    BY <1>1, <1>2 DEF AlreadyQueued
  <2>4. wanted.phase = immediatePhase
    <3>1. CASE immediatePhase = "next-tick"
      BY <2>3, <3>1 DEF QueuedIsReal, CurrentIsAsked
    <3>2. CASE immediatePhase = "event-loop"
      BY <2>3, <3>2 DEF QueuedIsReal, CurrentIsAsked, WakeupTypes
    <3> QED
      BY <2>3, <3>1, <3>2
  <2>5. CurrentIsAsked'
    BY <2>1, <2>3, <2>4 DEF CurrentIsAsked, queueVars
  <2> QED
    BY <2>2, <2>5
<1>3. CASE ~AlreadyQueued(wakeup)
  <2> DEFINE real == wakeup # NoWakeup /\ ~terminated
             soon == real /\ Delay(wakeup.at) = 0
             later == real /\ Delay(wakeup.at) > 0
             tick == soon /\ wakeup.phase = "next-tick"
  <2>1. /\ wanted' = wakeup /\ ticket' = ticket + 1 /\ immediate' = soon
        /\ immediatePhase' = IF soon THEN wakeup.phase ELSE "none"
        /\ ticks' = IF tick THEN Append(ticks, ticket') ELSE ticks
        /\ check' = IF soon /\ ~tick THEN ticket' ELSE 0
        /\ timer' = IF later THEN [ticket |-> ticket', at |-> now + Delay(wakeup.at)]
                    ELSE NoTimer
        /\ UNCHANGED <<terminated, now, turns>>
    BY <1>3 DEF RequestWakeup
  <2>2. real => Delay(wakeup.at) \in Nat /\ now + Delay(wakeup.at) >= wakeup.at
    BY <1>1, DelayIsEnough DEF WakeupTypes
  <2>3. soon => wakeup.at <= now
    BY <1>1, <2>2 DEF WakeupTypes
  <2>4. WakeupTypes'
    BY <1>1, <2>1, <2>2 DEF WakeupTypes, NoTimer
  <2>5. \A i \in DOMAIN ticks' :
           \/ i \in DOMAIN ticks /\ ticks'[i] = ticks[i] /\ ticks[i] \in 1 .. ticket
           \/ tick /\ i = Len(ticks) + 1 /\ ticks'[i] = ticket + 1
    BY <2>1 DEF WakeupTypes, TicketsGiven
  <2>6. TicketsGiven'
    <3>1. \A i \in DOMAIN ticks' : ticks'[i] \in 1 .. ticket'
      BY <2>1, <2>5 DEF WakeupTypes
    <3>2. check' <= ticket' /\ timer'.ticket <= ticket'
      BY <2>1 DEF WakeupTypes, NoTimer
    <3>3. \A i, j \in DOMAIN ticks' : i < j => ticks'[i] < ticks'[j]
      BY <2>1, <2>5 DEF WakeupTypes, TicketsGiven
    <3>4. timer' # NoTimer => timer'.ticket # 0
      BY <2>1 DEF WakeupTypes
    <3> QED
      BY <3>1, <3>2, <3>3, <3>4 DEF TicketsGiven
  <2>7. CurrentIsAsked'
    <3>1. \A i \in DOMAIN ticks' : ticks'[i] = ticket' => tick
      BY <2>1, <2>5 DEF WakeupTypes
    <3>2. check' = ticket' /\ check' # 0 => soon /\ wakeup.phase = "event-loop"
      BY <1>1, <2>1 DEF WakeupTypes
    <3>3. timer'.ticket = ticket' /\ timer'.ticket # 0
             => real /\ timer'.at = now + Delay(wakeup.at)
      BY <2>1 DEF NoTimer
    <3>4. ticket' # 0 /\ (timer'.ticket = ticket' => ~soon)
      BY <2>1, <2>2 DEF WakeupTypes, NoTimer
    <3>5. timer'.ticket = ticket' /\ timer'.ticket # 0 => wakeup.at <= timer'.at /\ ~immediate'
                 /\ check' # ticket' /\ \A i \in DOMAIN ticks' : ticks'[i] # ticket'
      BY <2>1, <2>2, <3>1, <3>3, <3>4
    <3> QED
      BY <2>1, <2>3, <3>1, <3>2, <3>3, <3>4, <3>5 DEF CurrentIsAsked
  <2>8. QueuedIsReal'
    <3>1. CASE tick
      <4>1. Len(ticks) + 1 \in DOMAIN ticks' /\ ticks'[Len(ticks) + 1] = ticket'
        BY <2>1, <3>1 DEF WakeupTypes
      <4> QED
        BY <2>1, <3>1, <4>1 DEF QueuedIsReal
    <3>2. CASE ~tick
      BY <1>1, <2>1, <3>2 DEF QueuedIsReal
    <3> QED
      BY <3>1, <3>2
  <2> QED
    BY <2>4, <2>6, <2>7, <2>8
<1> QED
  BY <1>2, <1>3

\* What a callback leaves behind in the three lanes.
LEMMA FiredInv ==
    ASSUME WakeupTypes, CurrentIsAsked, NEW id \in Nat, NEW lane \in {"tick", "check", "timer"},
           Fired(id, lane), UNCHANGED <<now, ticket, terminated>>
    PROVE  /\ wanted' \in Port!Wakeups /\ turns' \in Seq({"tick", "check", "timer"})
           /\ immediate' \in BOOLEAN /\ immediatePhase' \in {"none", "next-tick", "event-loop"}
           /\ immediate' => immediate
           /\ immediate' => immediatePhase' = immediatePhase
           /\ id # ticket /\ ~terminated => UNCHANGED <<wanted, immediate, immediatePhase>>
           /\ id = ticket /\ ~terminated => ~immediate'
<1>1. CASE id # ticket \/ terminated
  BY <1>1 DEF Fired, WakeupTypes
<1>2. CASE id = ticket /\ ~terminated
  <2>1. /\ immediate' = FALSE /\ immediatePhase' = "none"
        /\ wanted' = NoWakeup /\ turns' = Append(turns, lane)
    BY <1>2 DEF Fired
  <2>2. wanted' \in Port!Wakeups
    BY <2>1 DEF NoWakeup, Port!Wakeups
  <2>3. turns' \in Seq({"tick", "check", "timer"})
    BY <2>1 DEF WakeupTypes
  <2> QED
    BY <1>2, <2>1, <2>2, <2>3
<1> QED
  BY <1>1, <1>2
LEMMA FireTickInv == ASSUME WakeupInv, FireTick PROVE WakeupInv'
<1> USE DEF WakeupInv
<1>1. /\ ticks \in Seq(Nat) /\ ticks # <<>> /\ ticks' = Tail(ticks)
      /\ Head(ticks) = ticks[1] /\ Head(ticks) \in Nat /\ Fired(Head(ticks), "tick")
      /\ UNCHANGED <<now, ticket, terminated, check, timer>>
  BY DEF FireTick, WakeupTypes
<1>2. ticks' \in Seq(Nat) /\ \A i \in DOMAIN ticks' : i + 1 \in DOMAIN ticks /\ ticks'[i] = ticks[i + 1]
  BY <1>1
<1>3. WakeupTypes' /\ TicketsGiven'
  <2>1. /\ wanted' \in Port!Wakeups /\ turns' \in Seq({"tick", "check", "timer"})
        /\ immediate' \in BOOLEAN /\ immediatePhase' \in {"none", "next-tick", "event-loop"}
    BY <1>1, FiredInv
  <2>2. WakeupTypes'
    BY <1>1, <1>2, <2>1 DEF WakeupTypes
  <2>3. TicketsGiven'
    BY <1>1, <1>2, SMTT(30) DEF WakeupTypes, TicketsGiven
  <2>. QED BY <2>2, <2>3
<1>4. CASE Head(ticks) # ticket \/ terminated
  <2>1. UNCHANGED <<wanted, turns, immediate, immediatePhase>>
    BY <1>1, <1>4 DEF Fired
  <2>2. ~terminated => \A i \in DOMAIN ticks : ticks[i] = ticket => i # 1
    BY <1>1, <1>4
  <2>3. \A i \in 1 .. Len(ticks) :
           i # 1 => i - 1 \in 1 .. Len(ticks') /\ ticks'[i - 1] = ticks[(i - 1) + 1]
    BY <1>1
  <2>4. QueuedIsReal'
    <3> SUFFICES ASSUME immediate, ~terminated, immediatePhase = "next-tick"
                 PROVE  \E i \in DOMAIN ticks' : ticks'[i] = ticket
      BY <1>1, <2>1 DEF QueuedIsReal
    <3>1. PICK i \in 1 .. Len(ticks) : ticks[i] = ticket
      BY <1>1 DEF QueuedIsReal
    <3>2. i # 1 /\ i - 1 \in 1 .. Len(ticks') /\ ticks'[i - 1] = ticket
      BY <1>1, <2>2, <2>3, <3>1
    <3> QED
      BY <1>2, <3>2
  <2>5. CurrentIsAsked'
    BY <1>1, <1>2, <2>1 DEF CurrentIsAsked
  <2> QED
    BY <1>3, <2>4, <2>5
<1>5. CASE Head(ticks) = ticket /\ ~terminated
  <2>1. ~immediate'
    BY <1>1, <1>5 DEF Fired
  <2>2. \A i \in DOMAIN ticks' : ticks'[i] # ticket
    <3> SUFFICES ASSUME NEW i \in 1 .. Len(ticks') PROVE ticks'[i] # ticket
      BY <1>2
    <3>1. i + 1 \in 1 .. Len(ticks) /\ 1 \in 1 .. Len(ticks) /\ 1 < i + 1
      BY <1>1, <1>2
    <3>2. ticks[1] < ticks[i + 1]
      BY <1>1, <3>1 DEF TicketsGiven
    <3> QED
      BY <1>1, <1>2, <1>5, <3>1, <3>2
  <2>3. 1 \in DOMAIN ticks /\ ticks[1] = ticket
    BY <1>1, <1>5
  <2>4. (check = ticket => check = 0) /\ (timer.ticket = ticket => timer.ticket = 0)
    BY <1>5, <2>3 DEF CurrentIsAsked
  <2> QED
    BY <1>1, <1>3, <2>1, <2>2, <2>4 DEF QueuedIsReal, CurrentIsAsked
<1> QED
  BY <1>4, <1>5

LEMMA FireCheckInv == ASSUME WakeupInv, FireCheck PROVE WakeupInv'
<1> USE DEF WakeupInv
<1>1. /\ ticks = <<>> /\ check # 0 /\ check \in Nat /\ check' = 0 /\ Fired(check, "check")
      /\ UNCHANGED <<now, ticket, terminated, ticks, timer>>
  BY DEF FireCheck, WakeupTypes
<1>2. WakeupTypes' /\ TicketsGiven'
  BY <1>1, FiredInv DEF WakeupTypes, TicketsGiven
<1>3. CASE check # ticket \/ terminated
  BY <1>1, <1>2, <1>3 DEF Fired, QueuedIsReal, CurrentIsAsked
<1>4. CASE check = ticket /\ ~terminated
  BY <1>1, <1>2, <1>4 DEF Fired, QueuedIsReal, CurrentIsAsked
<1> QED
  BY <1>3, <1>4

LEMMA FireTimerInv == ASSUME WakeupInv, FireTimer PROVE WakeupInv'
<1> USE DEF WakeupInv
<1>1. /\ ticks = <<>> /\ timer' = NoTimer /\ timer.ticket \in Nat /\ Fired(timer.ticket, "timer")
      /\ UNCHANGED <<now, ticket, terminated, ticks, check>>
  BY DEF FireTimer, WakeupTypes
<1>2. WakeupTypes' /\ TicketsGiven'
  BY <1>1, FiredInv DEF WakeupTypes, TicketsGiven, NoTimer
<1>3. CASE timer.ticket # ticket \/ terminated
  BY <1>1, <1>2, <1>3 DEF Fired, QueuedIsReal, CurrentIsAsked, NoTimer
<1>4. CASE timer.ticket = ticket /\ ~terminated
  <2>1. check = ticket => check = 0
    BY <1>4 DEF CurrentIsAsked
  <2> QED
    BY <1>1, <1>2, <1>4, <2>1 DEF Fired, QueuedIsReal, CurrentIsAsked, NoTimer
<1> QED
  BY <1>3, <1>4

LEMMA WakeupNextInv == ASSUME WakeupBounds, WakeupInv, [WakeupNext]_wakeupVars PROVE WakeupInv'
<1> USE DEF WakeupInv
<1>1. ASSUME NEW wakeup \in Port!Wakeups, RequestWakeup(wakeup) PROVE WakeupInv'
  BY <1>1, RequestInv
<1>2. CASE FireTick
  BY <1>2, FireTickInv
<1>3. CASE FireCheck
  BY <1>3, FireCheckInv
<1>4. CASE FireTimer
  BY <1>4, FireTimerInv
<1>5. CASE DisposeWakeups
  <2>0. wanted' \in Port!Wakeups /\ timer' \in [ticket : Nat, at : Nat]
    BY <1>5 DEF DisposeWakeups, NoTimer, NoWakeup, Port!Wakeups
  <2>1. WakeupTypes'
    <3>1. /\ ticket' = ticket + 1 /\ immediate' = FALSE /\ check' = 0
          /\ UNCHANGED <<now, turns, immediatePhase, terminated, ticks>>
      BY <1>5 DEF DisposeWakeups
    <3>2. ticket' \in Nat /\ check' \in Nat
      BY <3>1 DEF WakeupTypes
    <3>3. immediate' \in BOOLEAN
      BY <3>1
    <3>4. now' \in Nat /\ turns' \in Seq({"tick", "check", "timer"}) /\ ticks' \in Seq(Nat)
      BY <3>1 DEF WakeupTypes
    <3>5. immediatePhase' \in {"none", "next-tick", "event-loop"} /\ terminated' \in BOOLEAN
      BY <3>1, Zenon DEF WakeupTypes
    <3> QED
      BY <2>0, <3>2, <3>3, <3>4, <3>5, Zenon DEF WakeupTypes
  <2>2. TicketsGiven'
    BY <1>5 DEF DisposeWakeups, TicketsGiven, WakeupTypes, NoTimer
  <2>3. \A i \in DOMAIN ticks' : ticks'[i] # ticket'
    BY <1>5 DEF DisposeWakeups, TicketsGiven, WakeupTypes
  <2>4. CurrentIsAsked' /\ QueuedIsReal'
    BY <1>5, <2>3 DEF DisposeWakeups, CurrentIsAsked, QueuedIsReal, NoTimer
  <2> QED
    BY <2>1, <2>2, <2>4
<1>6. CASE Terminate
  BY <1>6 DEF Terminate, WakeupTypes, TicketsGiven, CurrentIsAsked, QueuedIsReal
<1>7. CASE Clock
  <2>1. now' = now + 1 /\ UNCHANGED <<wanted, turns, queueVars>>
    BY <1>7 DEF Clock
  <2>2. wanted # NoWakeup => wanted.at \in Nat
    BY DEF WakeupTypes, WakeupBounds, NoWakeup, Port!Wakeups
  <2> QED
    BY <2>1, <2>2 DEF WakeupTypes, TicketsGiven, CurrentIsAsked, QueuedIsReal, queueVars
<1>8. CASE UNCHANGED wakeupVars
  BY <1>8 DEF wakeupVars, queueVars, WakeupTypes, TicketsGiven, CurrentIsAsked, QueuedIsReal
<1> QED
  BY <1>1, <1>2, <1>3, <1>4, <1>5, <1>6, <1>7, <1>8 DEF WakeupNext

THEOREM WakeupInvariant == WakeupSpec => []WakeupInv
<1> USE WakeupBounds
<1>1. WakeupInv /\ [WakeupNext]_wakeupVars => WakeupInv'
  BY WakeupNextInv
<1> QED
  BY WakeupInitInv, <1>1, PTL DEF WakeupSpec

\* The belief of the host that a callback is queued is true, through every
\* request, disposal and turn (runtime-host-controller.mjs).
THEOREM BeliefHolds == WakeupSpec => []QueuedIsReal
  BY WakeupInvariant, PTL DEF WakeupInv

-----------------------------------------------------------------------------
\* The steps of the port, without its liveness.
PortSteps == Port!PortInit /\ [][Port!PortNext]_(Port!portVars)

\* A callback runs a turn of the port, or nothing.
LEMMA FiredIsTurn ==
    ASSUME WakeupInv, NEW id \in Nat, NEW lane \in Port!Lanes,
           Fired(id, lane), UNCHANGED <<now, ticket, terminated>>,
           id = ticket /\ ~terminated =>
              /\ wanted # NoWakeup /\ wanted.at < now + TicksPerMs
              /\ lane = "tick" => wanted.phase = "next-tick"
              /\ lane = "check" => wanted.phase = "event-loop"
    PROVE  Port!Turn \/ UNCHANGED Port!portVars
<1>1. CASE id # ticket \/ terminated
  BY <1>1 DEF Fired, Port!portVars
<1>2. CASE id = ticket /\ ~terminated
  <2>1. /\ wanted' = NoWakeup /\ turns' = Append(turns, lane)
    BY <1>2 DEF Fired
  <2> QED
    BY <1>2, <2>1 DEF Port!Turn, NoWakeup
<1> QED
  BY <1>1, <1>2

LEMMA StepIsPortStep ==
    ASSUME WakeupBounds, WakeupInv, [WakeupNext]_wakeupVars
    PROVE  [Port!PortNext]_(Port!portVars)
<1> USE DEF WakeupInv
<1> SUFFICES Port!PortNext \/ UNCHANGED Port!portVars
  OBVIOUS
<1>0. /\ ticks \in Seq(Nat) /\ check \in Nat /\ timer.ticket \in Nat /\ timer.at \in Nat
      /\ now \in Nat /\ TicksPerMs \in Nat \ {0}
      /\ wanted # NoWakeup => wanted.at \in Nat
  BY DEF WakeupTypes, WakeupBounds, NoWakeup, Port!Wakeups
<1>1. ASSUME NEW wakeup \in Port!Wakeups, RequestWakeup(wakeup)
      PROVE  Port!PortNext \/ UNCHANGED Port!portVars
  <2>1. wanted' = wakeup /\ UNCHANGED <<now, turns, terminated>>
    BY <1>1 DEF RequestWakeup, queueVars
  <2>2. Port!Request
    BY <2>1 DEF Port!Request, Port!Wakeups, Port!NoWakeup
  <2> QED
    BY <2>2 DEF Port!PortNext
<1>2. CASE FireTick
  <2>1. /\ ticks # <<>> /\ Head(ticks) = ticks[1] /\ 1 \in DOMAIN ticks /\ Head(ticks) \in Nat
        /\ Fired(Head(ticks), "tick") /\ UNCHANGED <<now, ticket, terminated>>
    BY <1>0, <1>2 DEF FireTick
  <2>2. Head(ticks) = ticket /\ ~terminated
           => wanted # NoWakeup /\ wanted.at < now + TicksPerMs /\ wanted.phase = "next-tick"
    BY <1>0, <2>1 DEF CurrentIsAsked
  <2> QED
    BY <2>1, <2>2, FiredIsTurn DEF Port!PortNext, Port!Lanes
<1>3. CASE FireCheck
  <2>1. check # 0 /\ Fired(check, "check") /\ UNCHANGED <<now, ticket, terminated>>
    BY <1>3 DEF FireCheck
  <2>2. check = ticket /\ ~terminated
           => wanted # NoWakeup /\ wanted.at < now + TicksPerMs /\ wanted.phase = "event-loop"
    BY <1>0, <2>1 DEF CurrentIsAsked
  <2> QED
    BY <1>0, <2>1, <2>2, FiredIsTurn DEF Port!PortNext, Port!Lanes
<1>4. CASE FireTimer
  <2>1. /\ timer # NoTimer /\ timer.at < now + TicksPerMs
        /\ Fired(timer.ticket, "timer") /\ UNCHANGED <<now, ticket, terminated>>
    BY <1>4 DEF FireTimer
  <2>2. timer.ticket = ticket /\ ~terminated
           => wanted # NoWakeup /\ wanted.at < now + TicksPerMs
    BY <1>0, <2>1 DEF CurrentIsAsked, TicketsGiven
  <2> QED
    BY <1>0, <2>1, <2>2, FiredIsTurn DEF Port!PortNext, Port!Lanes
<1>5. CASE DisposeWakeups
  <2>1. Port!Request
    BY <1>5 DEF DisposeWakeups, Port!Request, Port!Wakeups, Port!NoWakeup, NoWakeup
  <2> QED
    BY <2>1 DEF Port!PortNext
<1>6. CASE Terminate
  <2>1. Port!Request
    BY <1>6 DEF Terminate, Port!Request, Port!Wakeups, Port!NoWakeup
  <2> QED
    BY <2>1 DEF Port!PortNext
<1>7. CASE Clock
  <2>1. Port!PortClock
    BY <1>0, <1>7 DEF Clock, queueVars, Port!PortClock
  <2> QED
    BY <2>1 DEF Port!PortNext
<1>8. CASE UNCHANGED wakeupVars
  BY <1>8 DEF wakeupVars, queueVars, Port!portVars
<1> QED
  BY <1>1, <1>2, <1>3, <1>4, <1>5, <1>6, <1>7, <1>8 DEF WakeupNext

\* Every turn that the host runs was asked for, in that phase and not early:
\* runtime-host-controller.mjs takes only steps of the port.
THEOREM HostIsPort == WakeupSpec => PortSteps
<1> USE WakeupBounds
<1>1. WakeupInit => Port!PortInit
  BY DEF WakeupInit, Port!PortInit, NoWakeup, Port!NoWakeup
<1>2. WakeupInv /\ [WakeupNext]_wakeupVars => [Port!PortNext]_(Port!portVars)
  BY StepIsPortStep
<1> QED
  BY <1>1, <1>2, WakeupInvariant, PTL DEF WakeupSpec, PortSteps

-----------------------------------------------------------------------------
(* The invocation broker: what one execution may look like.                *)

FrameStates == {"none", "dropped", "done"} \cup InFlight

Execs ==
    [status : {"idle", "running", "returned", "closing", "settled"},
     kind : {"open", "share", "close", "storage", None},
     mode : {"async", "sync", "syncLate", None}, rev : Revisions, depth : FrameIds,
     target : Bindings \cup {None}, aborted : BOOLEAN, poisoned : BOOLEAN,
     frame : [FrameIds -> FrameStates], out : [FrameIds -> {"own", "inner", "fail", None}],
     called : SUBSET FrameIds, entered : Nat, io : Nat, completed : BOOLEAN,
     grant : Grants \cup {<<>>}, owned : BOOLEAN, published : BOOLEAN,
     result : {"ok", "fail", None}]

Before == {"queued", "checkpoint"}
Preflight == {"preflight", "preflightLate"}

\* next() of a frame is what queues the one behind it, and only the frame of
\* the provider enters it and does any I/O.
Chained(e) ==
    /\ \A k \in FrameIds : k > e.depth => e.frame[k] = "none"
    /\ \A k \in FrameIds : k < e.depth =>
          /\ e.frame[k + 1] # "none" => k \in e.called \/ e.mode # "async"
          /\ e.frame[k] # "none" => e.mode = "async"
          /\ e.frame[k] \notin {"checkpoint"} \cup Preflight
    /\ e.entered > 0 => /\ e.frame[e.depth] \notin Before
                        /\ e.frame[e.depth] = "none" => \A k \in FrameIds : e.frame[k] = "none"
    /\ e.io > 0 => /\ e.frame[e.depth] \notin Before \cup Preflight
                   /\ e.frame[e.depth] = "none" => \A k \in FrameIds : e.frame[k] = "none"

\* How far the call is, and what its frames may still do.
Phase(e) ==
    /\ e.status = "idle" => e = Fresh
    /\ e.status = "running" => e.result = None /\ ~e.published
    /\ e.status = "running" /\ e.kind \in {"share", "close"} => e.target \in Bindings
    /\ e.status = "running" /\ e.kind # "open" => e.grant = <<>>
    /\ e.status \in {"running", "returned"} /\ ~e.completed => e.grant = <<>>
    /\ LeasePending(e) => e.status = "running" \/ (e.status = "returned" /\ e.aborted)

ExecOk(e) == e \in Execs /\ Chained(e) /\ Phase(e)

\* The calls whose snapshot of graph r is not released, and those that hold a
\* slot of the storage.
LinkedIn(V, i) == V[i].status \in {"running", "returned", "closing"}
Users(V, r) == {i \in Invocations : LinkedIn(V, i) /\ V[i].rev = r}
Storing(V) ==
    {i \in Invocations : LinkedIn(V, i) /\ V[i].kind = "storage" /\ V[i].mode = "async"}

LeasesCounted ==
    /\ inflight = [r \in Revisions |-> Cardinality(Users(inv, r))]
    /\ drain \in [Revisions -> {"none", "waiting", "resolved"}]
    /\ \A r \in Revisions :
          /\ drain[r] # "none" => r < revision
          /\ drain[r] = "waiting" => inflight[r] # 0
          /\ drain[r] = "resolved" => inflight[r] = 0
    /\ storagePending = Cardinality(Storing(inv)) /\ storagePending <= MaxPending

BrokerInv ==
    /\ plan \in CallScenarios /\ closed \in BOOLEAN /\ revision \in Revisions
    /\ DOMAIN inv = Invocations /\ inv = [i \in Invocations |-> inv[i]]
    /\ \A i \in Invocations : ExecOk(inv[i]) /\ (closed /\ Linked(i) => inv[i].aborted)
    /\ LeasesCounted

\* A binding that was granted is registered once, or closed once, from its
\* publication on.
Account(i, b) ==
    LET e == inv[i]
        granted == b \in ToSet(e.grant)
        n == closes[<<i, b>>]
    IN  /\ n \in {0, 1}
        /\ Registered(i, b) => n = 0 /\ granted /\ (e.published \/ e.status = "settled")
        /\ n = 1 => granted /\ (e.published \/ e.status \in {"closing", "settled"})
        /\ granted /\ e.published => Registered(i, b) \/ n = 1
        /\ granted /\ e.status = "closing" /\ ~e.published /\ e.owned /\ e.mode # "syncLate" => n = 1
        /\ granted /\ e.status = "settled" /\ e.owned /\ e.mode # "syncLate"
              => Registered(i, b) \/ n = 1

Records == {Absent} \cup [owner : Invocations, references : Nat \ {0}]

AccountsInv ==
    /\ registry \in [Bindings -> Records]
    /\ DOMAIN closes = Invocations \X Bindings
    /\ \A i \in Invocations, b \in Bindings : Account(i, b)

-----------------------------------------------------------------------------
(* One execution.                                                          *)

LEMMA FreshExec ==
    /\ Fresh \in Execs /\ \A k \in FrameIds : Fresh.frame[k] = "none"
    /\ Fresh.status = "idle" /\ Fresh.entered = 0 /\ Fresh.io = 0 /\ Fresh.result = None /\ ~Fresh.aborted
    /\ Fresh.grant = <<>> /\ ~Fresh.published /\ ~Fresh.owned /\ Fresh.depth = 0
<1>1. 0 \in FrameIds /\ 0 \in Revisions
  BY BrokerAssumption DEF BrokerAssumption, FrameIds, Revisions
<1>2. /\ [k \in FrameIds |-> "none"] \in [FrameIds -> FrameStates]
      /\ [k \in FrameIds |-> None] \in [FrameIds -> {"own", "inner", "fail", None}]
  BY DEF FrameStates, None
<1>. QED BY <1>1, <1>2 DEF Fresh, Execs

SameIo(y, e) == y.entered = e.entered /\ y.io = e.io

\* Frame k of e becomes f; what else may change is not looked at here.
Moves(y, e, k, f) ==
    /\ y \in Execs /\ y.frame = [e.frame EXCEPT ![k] = f]
    /\ y.status = e.status /\ y.kind = e.kind /\ y.mode = e.mode /\ y.rev = e.rev
    /\ y.depth = e.depth /\ y.target = e.target /\ y.called = e.called
    /\ y.published = e.published /\ y.result = e.result /\ (e.aborted => y.aborted)
    /\ y.completed = e.completed /\ y.grant = e.grant

\* What other calls and the leases see of an execution stays as it is.
Own(y, e) ==
    /\ ExecOk(y) /\ y.status = e.status /\ y.kind = e.kind /\ y.mode = e.mode
    /\ y.rev = e.rev /\ y.published = e.published
    /\ y.grant = e.grant \/ (e.status = "running" /\ ~e.published)
    /\ e.aborted => y.aborted
    /\ y.owned = e.owned \/ e.status \in {"running", "returned"}

LEMMA FrameMoved ==
    ASSUME NEW e, NEW y, NEW k \in FrameIds, NEW f \in FrameStates, ExecOk(e),
           e.frame[k] \in InFlight, f \notin {"none", "queued"}, Moves(y, e, k, f),
           f = "checkpoint" => e.frame[k] = "queued" /\ k = e.depth,
           f \in Preflight => e.frame[k] \in {"checkpoint", "preflight"},
           f = "returned" => k < e.depth,
           y.entered = e.entered
              \/ (e.frame[k] = "checkpoint" /\ y.entered = e.entered + 1 /\ f = "preflight"),
           y.io = e.io
              \/ (e.frame[k] \in Preflight /\ y.io = e.io + 1 /\ f \in {"started", "startedLate"})
    PROVE  Own(y, e)
<1>0. /\ e \in Execs /\ y \in Execs /\ e.frame \in [FrameIds -> FrameStates] /\ e.depth \in FrameIds
      /\ e.io \in Nat /\ e.entered \in Nat /\ MaxDepth \in Nat
  BY BrokerAssumption DEF ExecOk, Execs, Moves, BrokerAssumption
<1>1. /\ k <= e.depth /\ k \in Nat /\ e.depth \in Nat
      /\ "none" \notin InFlight
  BY <1>0 DEF ExecOk, Chained, FrameIds, InFlight, Racing, Settling
<1>2. Chained(y)
  <2>1. \A j \in FrameIds : y.frame[j] = IF j = k THEN f ELSE e.frame[j]
    BY <1>0 DEF Moves
  <2>2. \A j \in FrameIds : j > y.depth => y.frame[j] = "none"
    BY <1>0, <1>1, <2>1 DEF ExecOk, Chained, Moves, FrameIds
  <2>0. e.frame[k] \in {"checkpoint"} \cup Preflight => k = e.depth
    <3>1. k < e.depth => e.frame[k] \notin {"checkpoint"} \cup Preflight
      BY DEF ExecOk, Chained
    <3>. QED BY <1>1, <3>1
  <2>3. ASSUME NEW j \in FrameIds, j < y.depth
        PROVE  /\ y.frame[j + 1] # "none" => j \in y.called \/ y.mode # "async"
               /\ y.frame[j] # "none" => y.mode = "async"
               /\ y.frame[j] \notin {"checkpoint"} \cup Preflight
    <3>1. j < e.depth /\ j + 1 \in FrameIds /\ j # e.depth
      BY <1>0, <1>1, <2>3 DEF Moves, FrameIds
    <3>2. /\ e.frame[j + 1] # "none" => j \in e.called \/ e.mode # "async"
          /\ e.frame[j] # "none" => e.mode = "async"
          /\ e.frame[j] \notin {"checkpoint"} \cup Preflight
      BY <3>1 DEF ExecOk, Chained
    <3>3. j = k => f \notin {"checkpoint"} \cup Preflight
      BY <2>0, <3>1 DEF Preflight
    <3>. QED BY <1>1, <2>1, <3>1, <3>2, <3>3 DEF Moves
  <2>4. y.depth = e.depth /\ (e.frame[e.depth] = "none" => e.frame[k] # "none")
    BY <1>1 DEF Moves
  <2>5. ASSUME y.entered > 0
        PROVE  /\ y.frame[y.depth] \notin Before
               /\ y.frame[y.depth] = "none" => \A j \in FrameIds : y.frame[j] = "none"
    <3>1. CASE y.entered = e.entered
      <4>1. /\ e.frame[e.depth] \notin Before
            /\ e.frame[e.depth] = "none" => e.frame[k] = "none"
        BY <2>5, <3>1 DEF ExecOk, Chained
      <4>. QED BY <1>0, <1>1, <2>1, <2>4, <4>1 DEF Before
    <3>2. CASE e.frame[k] = "checkpoint" /\ f = "preflight"
      BY <1>0, <2>0, <2>1, <2>4, <3>2 DEF Before
    <3>. QED BY <3>1, <3>2
  <2>6. ASSUME y.io > 0
        PROVE  /\ y.frame[y.depth] \notin Before \cup Preflight
               /\ y.frame[y.depth] = "none" => \A j \in FrameIds : y.frame[j] = "none"
    <3>1. CASE y.io = e.io
      <4>1. /\ e.frame[e.depth] \notin Before \cup Preflight
            /\ e.frame[e.depth] = "none" => e.frame[k] = "none"
        BY <2>6, <3>1 DEF ExecOk, Chained
      <4>2. f \notin Preflight
        BY <2>0, <4>1 DEF Before, Preflight
      <4>. QED BY <1>0, <1>1, <2>1, <2>4, <4>1, <4>2 DEF Before
    <3>2. CASE e.frame[k] \in Preflight /\ f \in {"started", "startedLate"}
      BY <1>0, <2>0, <2>1, <2>4, <3>2 DEF Before, Preflight
    <3>. QED BY <3>1, <3>2
  <2>. QED BY <2>2, <2>3, <2>5, <2>6 DEF Chained
<1>3. Phase(y)
  <2>1. LeasePending(e)
    BY DEF LeasePending
  <2>2. e.status = "running" \/ (e.status = "returned" /\ e.aborted)
    BY <2>1 DEF ExecOk, Phase
  <2>. QED BY <2>2 DEF ExecOk, Phase, Moves
<1>4. e.status \in {"running", "returned"}
  <2>1. LeasePending(e)
    BY DEF LeasePending
  <2>. QED BY <2>1 DEF ExecOk, Phase
<1>. QED BY <1>0, <1>2, <1>3, <1>4 DEF ExecOk, Own, Moves

\* A step of one frame that starts no I/O.
FrameStep(y, e) ==
    \E k \in FrameIds, f \in FrameStates :
        /\ e.frame[k] \in InFlight /\ f \notin {"none", "queued"} /\ Moves(y, e, k, f)
        /\ f = "checkpoint" => e.frame[k] = "queued" /\ k = e.depth
        /\ f \in Preflight => e.frame[k] = "preflight"
        /\ f = "returned" => k < e.depth
        /\ SameIo(y, e)

LEMMA FrameStepOwned ==
    ASSUME NEW e, NEW y, ExecOk(e), FrameStep(y, e) PROVE Own(y, e) /\ SameIo(y, e)
BY FrameMoved DEF FrameStep, SameIo

\* Records of executions with a few fields replaced.
LEMMA FrameOnly ==
    ASSUME NEW e \in Execs, NEW k \in FrameIds, NEW f \in FrameStates
    PROVE  /\ Moves([e EXCEPT !.frame = [e.frame EXCEPT ![k] = f]], e, k, f)
           /\ SameIo([e EXCEPT !.frame = [e.frame EXCEPT ![k] = f]], e)
<1>. DEFINE fs == [e.frame EXCEPT ![k] = f]
<1>1. fs \in [FrameIds -> FrameStates] /\ fs = [e.frame EXCEPT ![k] = f]
  BY DEF Execs
<1>. HIDE DEF fs
<1>2. /\ Moves([e EXCEPT !.frame = fs], e, k, f) /\ SameIo([e EXCEPT !.frame = fs], e)
  BY <1>1 DEF Moves, SameIo, Execs
<1>. QED BY <1>2 DEF fs

Won(e, k, f, v, b) ==
    [e EXCEPT !.frame = [e.frame EXCEPT ![k] = f], !.out = [e.out EXCEPT ![k] = v],
              !.aborted = b]

LEMMA FrameOut ==
    ASSUME NEW e \in Execs, NEW k \in FrameIds, NEW f \in FrameStates,
           NEW v \in {"own", "inner", "fail", None}, NEW b \in {TRUE, e.aborted}
    PROVE  Moves(Won(e, k, f, v, b), e, k, f) /\ SameIo(Won(e, k, f, v, b), e)
<1>. DEFINE fs == [e.frame EXCEPT ![k] = f]
            os == [e.out EXCEPT ![k] = v]
            y  == [e EXCEPT !.frame = fs, !.out = os, !.aborted = b]
<1>1. /\ fs \in [FrameIds -> FrameStates] /\ os \in [FrameIds -> {"own", "inner", "fail", None}]
      /\ fs = [e.frame EXCEPT ![k] = f] /\ y = Won(e, k, f, v, b)
  BY DEF Execs, Won
<1>. HIDE DEF fs, os
<1>2. Moves(y, e, k, f) /\ SameIo(y, e)
  BY <1>1 DEF Moves, SameIo, Execs
<1>. QED BY <1>1, <1>2

LEMMA FrameOwned ==
    ASSUME NEW e \in Execs, NEW k \in FrameIds, NEW f \in FrameStates, NEW w \in BOOLEAN
    PROVE  /\ Moves([e EXCEPT !.owned = w, !.frame = [e.frame EXCEPT ![k] = f]], e, k, f)
           /\ SameIo([e EXCEPT !.owned = w, !.frame = [e.frame EXCEPT ![k] = f]], e)
<1>. DEFINE fs == [e.frame EXCEPT ![k] = f]
<1>1. fs \in [FrameIds -> FrameStates] /\ fs = [e.frame EXCEPT ![k] = f]
  BY DEF Execs
<1>. HIDE DEF fs
<1>2. /\ Moves([e EXCEPT !.owned = w, !.frame = fs], e, k, f)
      /\ SameIo([e EXCEPT !.owned = w, !.frame = fs], e)
  BY <1>1 DEF Moves, SameIo, Execs
<1>. QED BY <1>2 DEF fs

LEMMA FrameFails ==
    ASSUME NEW e \in Execs, NEW k \in FrameIds, NEW f \in FrameStates
    PROVE  /\ Moves(Fails(e, k, f), e, k, f) /\ SameIo(Fails(e, k, f), e)
           /\ Moves(Abort(Fails(e, k, f)), e, k, f) /\ SameIo(Abort(Fails(e, k, f)), e)
<1>1. e.aborted \in BOOLEAN
  BY DEF Execs
<1>2. /\ Moves(Won(e, k, f, "fail", TRUE), e, k, f)
      /\ SameIo(Won(e, k, f, "fail", TRUE), e)
  BY FrameOut
<1>3. /\ Moves(Won(e, k, f, "fail", e.aborted), e, k, f)
      /\ SameIo(Won(e, k, f, "fail", e.aborted), e)
  BY <1>1, FrameOut
<1>4. Fails(e, k, f) = Won(e, k, f, "fail", e.aborted)
  BY DEF Fails, Execs, Won
<1>5. Abort(Fails(e, k, f)) = Won(e, k, f, "fail", TRUE)
  BY DEF Fails, Abort, Execs, Won
<1>. QED BY <1>2, <1>3, <1>4, <1>5

\* A provider is entered once, and only for a call that is still wanted; its
\* I/O begins once, and with a plan only for such a call.
Wanted(e) == e.result = None /\ ~e.aborted /\ e.status = "running"

Fenced(y, e, planned) ==
    /\ y.entered > e.entered => e.entered = 0 /\ Wanted(e)
    /\ y.io > e.io => e.io = 0 /\ (planned => Wanted(e))

\* A step that concerns no other call and no lease.
Stepped(i) ==
    \E y : inv' = [inv EXCEPT ![i] = y] /\ Own(y, inv[i]) /\ Fenced(y, inv[i], plan.planned[i]) /\ UNCHANGED Broker

LEMMA ExecAt ==
    ASSUME BrokerInv, NEW i \in Invocations
    PROVE  ExecOk(inv[i]) /\ inv[i] \in Execs /\ inv[i].entered \in Nat /\ inv[i].io \in Nat
BY DEF BrokerInv, ExecOk, Execs

LEMMA Stepping ==
    ASSUME BrokerInv, NEW i \in Invocations, NEW k \in FrameIds, NEW f \in FrameStates, NEW y,
           inv[i].frame[k] \in InFlight, f \notin {"none", "queued"},
           f = "checkpoint" => inv[i].frame[k] = "queued" /\ k = inv[i].depth,
           f \in Preflight => inv[i].frame[k] = "preflight",
           f = "returned" => k < inv[i].depth,
           Moves(y, inv[i], k, f) /\ SameIo(y, inv[i]), Update(i, y), UNCHANGED Broker
    PROVE  Stepped(i)
<1>1. FrameStep(y, inv[i])
  BY DEF FrameStep
<1>2. Own(y, inv[i]) /\ SameIo(y, inv[i]) /\ inv[i].entered \in Nat /\ inv[i].io \in Nat
  BY <1>1, ExecAt, FrameStepOwned
<1>3. Fenced(y, inv[i], plan.planned[i])
  BY <1>2 DEF Fenced, SameIo
<1>. QED BY <1>2, <1>3 DEF Stepped, Update

LEMMA DepthBounds ==
    ASSUME BrokerInv, NEW i \in Invocations, NEW k \in FrameIds
    PROVE  /\ inv[i].frame[k] # "none" => k <= inv[i].depth
           /\ k \in Nat /\ inv[i].depth \in Nat
BY ExecAt, BrokerAssumption DEF ExecOk, Execs, Chained, FrameIds, BrokerAssumption

LEMMA DispatchSteps ==
    ASSUME BrokerInv, NEW i \in Invocations, NEW k \in FrameIds, Dispatch(i, k)
    PROVE  Stepped(i)
<1>. DEFINE e == inv[i]
<1>0. e \in Execs /\ e.frame[k] = "queued" /\ k <= e.depth /\ k \in Nat /\ e.depth \in Nat
      /\ UNCHANGED Broker
  BY ExecAt, DepthBounds DEF Dispatch
<1>1. CASE LeaseClosed(i) \/ e.aborted
  <2>1. Update(i, Fails(e, k, "dropped"))
    BY <1>1 DEF Dispatch
  <2>. QED BY <1>0, <2>1, FrameFails, Stepping DEF FrameStates, InFlight, Preflight
<1>2. CASE ~(LeaseClosed(i) \/ e.aborted)
  <2>. DEFINE f == IF k < e.depth THEN "open" ELSE "checkpoint"
  <2>1. Update(i, [e EXCEPT !.frame[k] = f])
    BY <1>2 DEF Dispatch
  <2>2. f \in FrameStates /\ f \notin {"none", "queued", "returned"} \cup Preflight /\ (f = "checkpoint" => k = e.depth)
    BY <1>0 DEF FrameStates, InFlight, Racing, Preflight
  <2>. HIDE DEF f
  <2>3. e.aborted \in BOOLEAN
    BY <1>0 DEF Execs
  <2>4. Moves([e EXCEPT !.frame = [e.frame EXCEPT ![k] = f]], e, k, f)
        /\ SameIo([e EXCEPT !.frame = [e.frame EXCEPT ![k] = f]], e)
    BY <1>0, <2>2, FrameOnly
  <2>5. Update(i, [e EXCEPT !.frame = [e.frame EXCEPT ![k] = f]])
    BY <2>1
  <2>. QED BY <1>0, <2>2, <2>4, <2>5, Stepping DEF InFlight
<1>. QED BY <1>1, <1>2

LEMMA ContinueSteps ==
    ASSUME BrokerInv, NEW i \in Invocations, NEW k \in FrameIds,
           FrameContinues(i, k) \/ ProviderContinues(i, k)
    PROVE  Stepped(i)
<1>. DEFINE e == inv[i]
<1>0. e \in Execs /\ UNCHANGED Broker /\ "done" \in FrameStates /\ e.aborted \in BOOLEAN
  BY ExecAt DEF FrameContinues, ProviderContinues, FrameStates, Execs
<1>1. CASE FrameContinues(i, k)
  <2>. DEFINE v == IF e.poisoned THEN "fail" ELSE e.out[k]
              b == e.aborted \/ v = "fail"
              y == Won(e, k, "done", v, b)
  <2>1. v \in {"own", "inner", "fail", None} /\ b \in {TRUE, e.aborted}
    BY <1>0 DEF Execs
  <2>2. Update(i, y) /\ e.frame[k] = "returned"
    BY <1>0, <1>1 DEF FrameContinues, Execs, Won
  <2>3. Moves(y, e, k, "done") /\ SameIo(y, e)
    <3>. HIDE DEF v, b, e
    <3>. QED BY <1>0, <2>1, FrameOut
  <2>. HIDE DEF y
  <2>. QED BY <1>0, <2>2, <2>3, Stepping DEF InFlight, Preflight
<1>2. CASE ProviderContinues(i, k) /\ e.aborted
  <2>1. Update(i, Fails(e, k, "done")) /\ e.frame[k] = "answered"
    BY <1>2 DEF ProviderContinues
  <2>. QED BY <1>0, <2>1, FrameFails, Stepping DEF InFlight, Preflight
<1>3. CASE ProviderContinues(i, k) /\ ~e.aborted
  <2>. DEFINE y == Won(e, k, "done", "inner", e.aborted)
  <2>1. Update(i, y) /\ e.frame[k] = "answered"
    BY <1>0, <1>3 DEF ProviderContinues, Execs, Won
  <2>2. Moves(y, e, k, "done") /\ SameIo(y, e)
    BY <1>0, FrameOut
  <2>. HIDE DEF y
  <2>. QED BY <1>0, <2>1, <2>2, Stepping DEF InFlight, Preflight
<1>. QED BY <1>1, <1>2, <1>3

LEMMA RaceSteps ==
    ASSUME BrokerInv, NEW i \in Invocations, NEW k \in FrameIds,
           FrameAborts(i, k) \/ FrameTimesOut(i, k)
    PROVE  Stepped(i)
<1>. DEFINE e == inv[i]
            f == Detached(e.frame[k])
<1>0. e \in Execs /\ UNCHANGED Broker /\ e.frame[k] \in Racing
  BY ExecAt DEF FrameAborts, FrameTimesOut
<1>1. f \in Settling
  BY <1>0 DEF Racing, Detached, Settling
<1>2. /\ f \in FrameStates /\ f \notin {"none", "queued", "checkpoint", "returned"} /\ e.frame[k] \in InFlight
      /\ f \in Preflight => e.frame[k] = "preflight"
  BY <1>0, <1>1 DEF Settling, FrameStates, InFlight, Racing, Detached, Preflight
<1>3. CASE FrameAborts(i, k)
  <2>1. Update(i, Fails(e, k, f))
    BY <1>3 DEF FrameAborts
  <2>. HIDE DEF f
  <2>. QED BY <1>0, <1>2, <2>1, FrameFails, Stepping
<1>4. CASE FrameTimesOut(i, k)
  <2>1. Update(i, Abort(Fails(e, k, f)))
    BY <1>4 DEF FrameTimesOut
  <2>. HIDE DEF f
  <2>. QED BY <1>0, <1>2, <2>1, FrameFails, Stepping
<1>. QED BY <1>3, <1>4

LEMMA ReturnSteps ==
    ASSUME BrokerInv, NEW i \in Invocations, NEW k \in FrameIds,
           NEW v \in {"own", "inner", "fail"}, MiddlewareReturns(i, k, v)
    PROVE  Stepped(i)
<1>. DEFINE e == inv[i]
<1>0. e \in Execs /\ UNCHANGED Broker /\ k < e.depth /\ e.aborted \in BOOLEAN
  BY ExecAt DEF MiddlewareReturns, Execs
<1>1. CASE e.frame[k] = "open" /\ Update(i, [e EXCEPT !.frame[k] = "returned", !.out[k] = v])
  <2>. DEFINE y == Won(e, k, "returned", v, e.aborted)
  <2>0. "returned" \in FrameStates /\ e.frame[k] \in InFlight
    BY <1>1 DEF FrameStates, InFlight, Racing
  <2>1. Update(i, y)
    BY <1>0, <1>1 DEF Execs, Won
  <2>2. Moves(y, e, k, "returned") /\ SameIo(y, e)
    <3>1. v \in {"own", "inner", "fail", None} /\ e.aborted \in {TRUE, e.aborted}
      OBVIOUS
    <3>. HIDE DEF e
    <3>. QED BY <1>0, <2>0, <3>1, FrameOut
  <2>. HIDE DEF y
  <2>. QED BY <1>0, <2>0, <2>1, <2>2, Stepping DEF Preflight
<1>2. CASE e.frame[k] = "late" /\ Update(i, [e EXCEPT !.frame[k] = "done"])
  <2>. DEFINE y == [e EXCEPT !.frame = [e.frame EXCEPT ![k] = "done"]]
  <2>0. "done" \in FrameStates /\ e.frame[k] \in InFlight
    BY <1>2 DEF FrameStates, InFlight, Settling
  <2>1. Update(i, y)
    BY <1>2
  <2>2. Moves(y, e, k, "done") /\ SameIo(y, e)
    BY <1>0, <2>0, FrameOnly
  <2>. HIDE DEF y
  <2>. QED BY <1>0, <2>0, <2>1, <2>2, Stepping DEF Preflight
<1>. QED BY <1>1, <1>2 DEF MiddlewareReturns

LEMMA AnswerSteps ==
    ASSUME BrokerInv, NEW i \in Invocations, NEW k \in FrameIds,
           ProviderAnswers(i, k) \/ ProviderFails(i, k)
    PROVE  Stepped(i)
<1>. DEFINE e == inv[i]
<1>0. /\ e \in Execs /\ UNCHANGED Broker /\ e.aborted \in BOOLEAN
      /\ e.frame[k] \in InFlight /\ {"done", "answered"} \subseteq FrameStates
  BY ExecAt DEF ProviderAnswers, ProviderFails, Execs, InFlight, Racing, Settling, FrameStates
<1>1. CASE ProviderAnswers(i, k)
  <2>. DEFINE f == IF e.frame[k] = "started" THEN "answered" ELSE "done"
              y == [e EXCEPT !.owned = TRUE, !.frame = [e.frame EXCEPT ![k] = f]]
  <2>1. Update(i, y)
    BY <1>1 DEF ProviderAnswers
  <2>2. f \in {"done", "answered"} /\ f \in FrameStates
    BY <1>0
  <2>. HIDE DEF f, e
  <2>3. Moves(y, e, k, f) /\ SameIo(y, e)
    BY <1>0, <2>2, FrameOwned
  <2>. HIDE DEF y
  <2>. QED BY <1>0, <2>1, <2>2, <2>3, Stepping DEF e, Preflight
<1>2. CASE Update(i, Fails(e, k, "done"))
  BY <1>0, <1>2, FrameFails, Stepping DEF Preflight
<1>3. CASE Update(i, [e EXCEPT !.frame[k] = "done"])
  <2>. DEFINE y == [e EXCEPT !.frame = [e.frame EXCEPT ![k] = "done"]]
  <2>1. Update(i, y)
    BY <1>3
  <2>2. Moves(y, e, k, "done") /\ SameIo(y, e)
    BY <1>0, FrameOnly
  <2>. HIDE DEF y
  <2>. QED BY <1>0, <2>1, <2>2, Stepping DEF Preflight
<1>. QED BY <1>1, <1>2, <1>3 DEF ProviderFails

LEMMA CheckpointSteps ==
    ASSUME BrokerInv, NEW i \in Invocations, NEW k \in FrameIds, Checkpoint(i, k)
    PROVE  Stepped(i)
<1>. DEFINE e == inv[i]
<1>0. e \in Execs /\ ExecOk(e) /\ e.entered \in Nat /\ e.io \in Nat /\ UNCHANGED Broker
  BY ExecAt DEF Checkpoint
<1>1. CASE /\ e.frame[k] = "checkpoint" /\ ~e.aborted
           /\ Update(i, [e EXCEPT !.frame[k] = "preflight", !.entered = @ + 1])
  <2>. DEFINE fs == [e.frame EXCEPT ![k] = "preflight"]
              n  == e.entered + 1
              y  == [e EXCEPT !.frame = fs, !.entered = n]
  <2>1. Update(i, y)
    BY <1>1
  <2>2. fs \in [FrameIds -> FrameStates] /\ fs = [e.frame EXCEPT ![k] = "preflight"]
        /\ "preflight" \in FrameStates /\ e.frame[k] \in InFlight
    BY <1>0, <1>1 DEF Execs, FrameStates, InFlight, Racing
  <2>3. k = e.depth
    BY <1>0, <1>1, DepthBounds DEF ExecOk, Chained
  <2>4. e.entered = 0
    BY <1>0, <1>1, <2>3 DEF ExecOk, Chained, Before
  <2>5. LeasePending(e)
    BY <2>2 DEF LeasePending
  <2>6. Wanted(e)
    BY <1>0, <1>1, <2>5 DEF ExecOk, Phase, Wanted
  <2>7. n \in Nat
    BY <1>0
  <2>. HIDE DEF fs, n
  <2>8. Moves(y, e, k, "preflight") /\ y.entered = n /\ y.io = e.io
    BY <1>0, <2>2, <2>7 DEF Moves, Execs
  <2>. HIDE DEF y
  <2>9. Own(y, e)
    BY <1>0, <1>1, <2>2, <2>8, FrameMoved DEF n
  <2>10. Fenced(y, e, plan.planned[i])
    BY <1>0, <2>4, <2>6, <2>8 DEF Fenced
  <2>. QED BY <1>0, <2>1, <2>9, <2>10 DEF Stepped, Update
<1>2. CASE /\ e.frame[k] = "checkpointLate"
           /\ Update(i, [e EXCEPT !.frame[k] = "done"])
  <2>. DEFINE y == [e EXCEPT !.frame = [e.frame EXCEPT ![k] = "done"]]
  <2>1. Update(i, y)
    BY <1>2
  <2>2. "done" \in FrameStates /\ e.frame[k] \in InFlight
    BY <1>2 DEF FrameStates, InFlight, Settling
  <2>3. Moves(y, e, k, "done") /\ SameIo(y, e)
    BY <1>0, <2>2, FrameOnly
  <2>. HIDE DEF y
  <2>. QED BY <1>0, <2>1, <2>2, <2>3, Stepping DEF Preflight
<1>. QED BY <1>1, <1>2 DEF Checkpoint

\* The I/O starts after the preflight of the provider that was entered.
LEMMA StartIoSteps ==
    ASSUME BrokerInv, NEW i \in Invocations, NEW k \in FrameIds, StartIo(i, k)
    PROVE  Stepped(i)
<1>. DEFINE e  == inv[i]
            f  == IF e.frame[k] = "preflight" THEN "started" ELSE "startedLate"
            fs == [e.frame EXCEPT ![k] = f]
            n  == e.io + 1
            y  == [e EXCEPT !.io = n, !.frame = fs]
<1>0. /\ e \in Execs /\ ExecOk(e) /\ e.entered \in Nat /\ e.io \in Nat /\ UNCHANGED Broker
      /\ e.frame[k] \in Preflight /\ (plan.planned[i] => ~e.aborted)
  BY ExecAt DEF StartIo, Preflight
<1>1. Update(i, y)
  BY DEF StartIo
<1>2. /\ fs \in [FrameIds -> FrameStates] /\ fs = [e.frame EXCEPT ![k] = f]
      /\ f \in FrameStates /\ f \in {"started", "startedLate"} /\ e.frame[k] \in InFlight
  BY <1>0 DEF Execs, FrameStates, InFlight, Racing, Settling, Preflight
<1>3. k = e.depth
  BY <1>0, DepthBounds DEF ExecOk, Chained, Preflight
<1>4. e.io = 0
  BY <1>0, <1>3 DEF ExecOk, Chained
<1>5. LeasePending(e)
  BY <1>2 DEF LeasePending
<1>6. plan.planned[i] => Wanted(e)
  BY <1>0, <1>5 DEF ExecOk, Phase, Wanted
<1>7. n \in Nat
  BY <1>0
<1>. HIDE DEF f, fs, n
<1>8. Moves(y, e, k, f) /\ y.io = n /\ y.entered = e.entered
  BY <1>0, <1>2, <1>7 DEF Moves, Execs
<1>. HIDE DEF y
<1>9. f \notin Preflight /\ f \notin {"none", "queued", "checkpoint", "returned"}
  BY <1>2 DEF Preflight
<1>10. Own(y, e)
  BY <1>0, <1>2, <1>8, <1>9, FrameMoved DEF n
<1>11. Fenced(y, e, plan.planned[i])
  BY <1>0, <1>4, <1>6, <1>8 DEF Fenced
<1>. QED BY <1>0, <1>1, <1>10, <1>11 DEF Stepped, Update

\* A step that leaves the frames of a call alone.
Marks(y, e) ==
    /\ y \in Execs /\ y.frame = e.frame /\ y.called = e.called /\ SameIo(y, e)
    /\ y.status = e.status /\ y.kind = e.kind /\ y.mode = e.mode /\ y.rev = e.rev
    /\ y.depth = e.depth /\ y.target = e.target
    /\ y.published = e.published /\ y.result = e.result /\ (e.aborted => y.aborted)
    /\ y.owned = e.owned
    /\ \/ y.completed = e.completed /\ y.grant = e.grant
       \/ y.completed /\ e.status = "running" /\ (y.grant # <<>> => e.kind = "open")

LEMMA Marked ==
    ASSUME BrokerInv, NEW i \in Invocations, NEW y, Marks(y, inv[i]),
           inv[i].status # "idle", Update(i, y), UNCHANGED Broker
    PROVE  Stepped(i)
<1>. DEFINE e == inv[i]
<1>0. e \in Execs /\ ExecOk(e) /\ e.entered \in Nat /\ e.io \in Nat
  BY ExecAt
<1>1. Chained(y)
  BY <1>0 DEF ExecOk, Chained, Marks, SameIo
<1>2. Phase(y)
  BY <1>0 DEF ExecOk, Phase, Marks, LeasePending
<1>3. Own(y, e)
  BY <1>0, <1>1, <1>2 DEF Own, ExecOk, Marks, Phase
<1>4. Fenced(y, e, plan.planned[i])
  BY <1>0 DEF Fenced, Marks, SameIo
<1>. QED BY <1>3, <1>4 DEF Stepped, Update

LEMMA BeganFrames ==
    ASSUME BrokerInv, NEW i \in Invocations, NEW k \in FrameIds, inv[i].frame[k] # "none"
    PROVE  inv[i].status # "idle"
BY ExecAt, FreshExec DEF ExecOk, Phase

LEMMA CancelSteps ==
    ASSUME BrokerInv, NEW i \in Invocations, Cancel(i)
    PROVE  Stepped(i)
<1>. DEFINE e == inv[i]
            y == [e EXCEPT !.aborted = TRUE]
<1>0. e \in Execs /\ Abort(e) = y
  BY ExecAt DEF Abort
<1>1. y \in Execs
  BY <1>0 DEF Execs
<1>2. /\ y.frame = e.frame /\ y.called = e.called /\ SameIo(y, e)
      /\ y.status = e.status /\ y.kind = e.kind /\ y.mode = e.mode /\ y.rev = e.rev
      /\ y.depth = e.depth /\ y.target = e.target /\ y.published = e.published
      /\ y.result = e.result /\ y.aborted /\ y.owned = e.owned
      /\ y.completed = e.completed /\ y.grant = e.grant
  BY <1>0 DEF Execs, SameIo
<1>. HIDE DEF y
<1>3. Marks(y, e)
  BY <1>1, <1>2 DEF Marks
<1>. QED BY <1>0, <1>3, Marked DEF Cancel

LEMMA CompleteSteps ==
    ASSUME BrokerInv, NEW i \in Invocations, NEW k \in FrameIds,
           NEW grant \in Grants \cup {<<>>}, Complete(i, k, grant)
    PROVE  Stepped(i)
<1>. DEFINE e == inv[i]
            y == [e EXCEPT !.completed = TRUE, !.grant = grant]
<1>0. /\ e \in Execs /\ ExecOk(e) /\ UNCHANGED Broker /\ Update(i, y)
      /\ e.frame[k] \in InFlight /\ ~e.aborted /\ (grant # <<>> => e.kind = "open")
  BY ExecAt DEF Complete, InFlight, Racing
<1>1. LeasePending(e)
  BY <1>0 DEF LeasePending
<1>2. e.status = "running"
  BY <1>0, <1>1 DEF ExecOk, Phase
<1>3. Marks(y, e)
  BY <1>0, <1>2 DEF Marks, SameIo, Execs
<1>. HIDE DEF y
<1>. QED BY <1>0, <1>2, <1>3, Marked

LEMMA CallNextSteps ==
    ASSUME BrokerInv, NEW i \in Invocations, NEW k \in FrameIds, CallNext(i, k)
    PROVE  Stepped(i)
<1>. DEFINE e == inv[i]
<1>0. /\ e \in Execs /\ ExecOk(e) /\ UNCHANGED Broker /\ k < e.depth /\ e.entered \in Nat /\ e.io \in Nat
      /\ e.frame[k] \in {"open", "returned", "late", "done"} /\ e.frame[k] # "none"
      /\ e.status # "idle"
  BY ExecAt, BeganFrames DEF CallNext
<1>1. CASE k \in e.called \/ e.frame[k] \in {"late", "done"} \/ LeaseClosed(i)
  <2>. DEFINE y == [e EXCEPT !.aborted = TRUE, !.poisoned = TRUE]
  <2>1. Update(i, y)
    BY <1>0, <1>1 DEF CallNext, Abort, Execs
  <2>2. Marks(y, e)
    BY <1>0 DEF Marks, SameIo, Execs
  <2>. HIDE DEF y
  <2>. QED BY <1>0, <2>1, <2>2, Marked
<1>2. CASE ~(k \in e.called \/ e.frame[k] \in {"late", "done"} \/ LeaseClosed(i))
  <2>. DEFINE fs == [e.frame EXCEPT ![k + 1] = "queued"]
              cs == e.called \cup {k}
              y  == [e EXCEPT !.called = cs, !.frame = fs]
  <2>1. Update(i, y)
    BY <1>0, <1>2 DEF CallNext
  <2>2. k \in Nat /\ e.depth \in Nat /\ k + 1 <= e.depth /\ k + 1 \in FrameIds
        /\ e.depth \in FrameIds /\ MaxDepth \in Nat
    BY <1>0, BrokerAssumption DEF Execs, FrameIds, BrokerAssumption
  <2>3. e.mode = "async" /\ e.frame[k + 1] = "none" /\ e.status = "running"
    BY <1>0, <1>2 DEF ExecOk, Chained, LeaseClosed
  <2>4. /\ fs \in [FrameIds -> FrameStates] /\ cs \in SUBSET FrameIds
        /\ \A j \in FrameIds : fs[j] = IF j = k + 1 THEN "queued" ELSE e.frame[j]
    BY <1>0, <2>2 DEF Execs, FrameStates, InFlight
  <2>5. k \in cs /\ e.called \subseteq cs
    OBVIOUS
  <2>. HIDE DEF fs, cs
  <2>6. /\ y \in Execs /\ y.frame = fs /\ y.called = cs /\ SameIo(y, e)
        /\ y.status = e.status /\ y.kind = e.kind /\ y.mode = e.mode /\ y.rev = e.rev
        /\ y.depth = e.depth /\ y.target = e.target /\ y.aborted = e.aborted
        /\ y.published = e.published /\ y.result = e.result /\ y.owned = e.owned
        /\ y.completed = e.completed /\ y.grant = e.grant
    BY <1>0, <2>4 DEF Execs, SameIo
  <2>. HIDE DEF y
  <2>7. ASSUME NEW j \in FrameIds, j < e.depth
        PROVE  /\ fs[j + 1] # "none" => j \in cs \/ e.mode # "async"
               /\ fs[j] # "none" => e.mode = "async"
               /\ fs[j] \notin {"checkpoint"} \cup Preflight
    <3>1. j + 1 \in FrameIds /\ (j + 1 = k + 1 => j = k)
      BY <2>2, <2>7 DEF FrameIds
    <3>2. /\ e.frame[j + 1] # "none" => j \in e.called \/ e.mode # "async"
          /\ e.frame[j] # "none" => e.mode = "async"
          /\ e.frame[j] \notin {"checkpoint"} \cup Preflight
      BY <1>0, <2>7 DEF ExecOk, Chained
    <3>. QED BY <2>3, <2>4, <2>5, <3>1, <3>2 DEF Preflight
  <2>8. /\ e.entered > 0 => k + 1 # e.depth /\ e.frame[e.depth] # "none"
                            /\ e.frame[e.depth] \notin Before
        /\ e.io > 0 => k + 1 # e.depth /\ e.frame[e.depth] # "none"
                       /\ e.frame[e.depth] \notin Before \cup Preflight
    BY <1>0, <2>3 DEF ExecOk, Chained
  <2>9. \A j \in FrameIds : j > e.depth => fs[j] = "none"
    <3>1. \A j \in FrameIds : j > e.depth => e.frame[j] = "none"
      BY <1>0 DEF ExecOk, Chained
    <3>2. \A j \in FrameIds : j > e.depth => j # k + 1
      BY <2>2 DEF FrameIds
    <3>. QED BY <2>4, <3>1, <3>2
  <2>10. /\ e.entered > 0 => fs[e.depth] # "none" /\ fs[e.depth] \notin Before
         /\ e.io > 0 => fs[e.depth] # "none" /\ fs[e.depth] \notin Before \cup Preflight
    BY <2>2, <2>4, <2>8
  <2>11. Chained(y)
    BY <2>6, <2>7, <2>9, <2>10 DEF Chained, SameIo
  <2>12. Phase(y)
    BY <1>0, <2>3, <2>6 DEF ExecOk, Phase
  <2>13. Own(y, e) /\ Fenced(y, e, plan.planned[i])
    BY <1>0, <2>6, <2>11, <2>12 DEF Own, ExecOk, Fenced, SameIo
  <2>. QED BY <1>0, <2>1, <2>13 DEF Stepped, Update
<1>. QED BY <1>1, <1>2

-----------------------------------------------------------------------------
(* What all calls hold together.                                           *)

LEMMA CallChanged ==
    ASSUME BrokerInv, NEW i \in Invocations, NEW y, inv' = [inv EXCEPT ![i] = y]
    PROVE  /\ DOMAIN inv' = Invocations /\ inv' = [j \in Invocations |-> inv'[j]]
           /\ inv'[i] = y /\ \A j \in Invocations : j # i => inv'[j] = inv[j]
BY DEF BrokerInv

LEMMA CallsInv ==
    ASSUME BrokerInv, NEW i \in Invocations, NEW y, inv' = [inv EXCEPT ![i] = y],
           ExecOk(y), closed /\ y.status \in {"running", "returned", "closing"} => y.aborted,
           LeasesCounted', plan' = plan, closed' = closed, revision' = revision
    PROVE  BrokerInv'
<1>1. /\ DOMAIN inv' = Invocations /\ inv' = [j \in Invocations |-> inv'[j]]
      /\ inv'[i] = y /\ \A j \in Invocations : j # i => inv'[j] = inv[j]
  BY CallChanged
<1>2. ASSUME NEW j \in Invocations
      PROVE  ExecOk(inv[j])' /\ (closed' /\ Linked(j)' => inv'[j].aborted)
  <2>1. ExecOk(inv[j]) /\ (closed /\ Linked(j) => inv[j].aborted)
    BY DEF BrokerInv
  <2>2. ExecOk(inv'[j]) /\ (closed' /\ Linked(j)' => inv'[j].aborted)
    BY <1>1, <2>1 DEF Linked
  <2>. QED BY <2>2 DEF ExecOk, Execs, Chained, Phase, LeasePending, Fresh
<1>. QED BY <1>1, <1>2 DEF BrokerInv

LEMMA LeasesKept ==
    ASSUME BrokerInv, NEW i \in Invocations, NEW y, inv' = [inv EXCEPT ![i] = y],
           LinkedIn(inv, i) <=> y.status \in {"running", "returned", "closing"},
           LinkedIn(inv, i) => /\ y.rev = inv[i].rev /\ y.kind = inv[i].kind
                               /\ y.mode = inv[i].mode,
           UNCHANGED <<storagePending, revision, inflight, drain>>
    PROVE  LeasesCounted'
<1>1. inv'[i] = y /\ \A j \in Invocations : j # i => inv'[j] = inv[j]
  BY CallChanged
<1>2. \A j \in Invocations :
          /\ LinkedIn(inv', j) <=> LinkedIn(inv, j)
          /\ LinkedIn(inv, j) => /\ inv'[j].rev = inv[j].rev /\ inv'[j].kind = inv[j].kind
                                 /\ inv'[j].mode = inv[j].mode
  BY <1>1 DEF LinkedIn
<1>3. (\A r \in Revisions : Users(inv', r) = Users(inv, r)) /\ Storing(inv') = Storing(inv)
  BY <1>2 DEF Users, Storing
<1>4. LeasesCounted /\ Storing(inv)' = Storing(inv) /\ \A r \in Revisions : Users(inv, r)' = Users(inv, r)
  BY <1>3 DEF BrokerInv
<1>. QED BY <1>4 DEF LeasesCounted

\* A registration and the calls of close() for a resource, across a step.
Flows(i, b) ==
    \/ (Registered(i, b)' <=> Registered(i, b)) /\ closes'[<<i, b>>] = closes[<<i, b>>]
    \/ Registered(i, b) /\ ~Registered(i, b)' /\ closes'[<<i, b>>] = closes[<<i, b>>] + 1

LEMMA AccountFlows ==
    ASSUME NEW i \in Invocations, NEW b \in Bindings, Account(i, b), Flows(i, b),
           inv'[i].grant = inv[i].grant, inv'[i].status = inv[i].status,
           inv'[i].published = inv[i].published, inv'[i].owned = inv[i].owned,
           inv'[i].mode = inv[i].mode
    PROVE  Account(i, b)'
<1>. DEFINE n == closes[<<i, b>>]
            m == closes'[<<i, b>>]
            u == Registered(i, b)
            v == Registered(i, b)'
<1>1. Account(i, b)' <=>
        LET e == inv'[i]
            granted == b \in ToSet(e.grant)
        IN  /\ m \in {0, 1}
            /\ v => m = 0 /\ granted /\ (e.published \/ e.status = "settled")
            /\ m = 1 => granted /\ (e.published \/ e.status \in {"closing", "settled"})
            /\ granted /\ e.published => v \/ m = 1
            /\ granted /\ e.status = "closing" /\ ~e.published /\ e.owned /\ e.mode # "syncLate" => m = 1
            /\ granted /\ e.status = "settled" /\ e.owned /\ e.mode # "syncLate" => v \/ m = 1
  BY DEF Account
<1>2. Account(i, b) <=>
        LET e == inv[i]
            granted == b \in ToSet(e.grant)
        IN  /\ n \in {0, 1}
            /\ u => n = 0 /\ granted /\ (e.published \/ e.status = "settled")
            /\ n = 1 => granted /\ (e.published \/ e.status \in {"closing", "settled"})
            /\ granted /\ e.published => u \/ n = 1
            /\ granted /\ e.status = "closing" /\ ~e.published /\ e.owned /\ e.mode # "syncLate" => n = 1
            /\ granted /\ e.status = "settled" /\ e.owned /\ e.mode # "syncLate" => u \/ n = 1
  BY DEF Account
<1>3. \/ (v <=> u) /\ m = n
      \/ u /\ ~v /\ m = n + 1
  BY DEF Flows
<1>. HIDE DEF n, m, u, v
<1>. QED BY <1>1, <1>2, <1>3

\* No provider hands over more than one resource at a time.
SingleGrants == \A g \in Grants : Len(g) <= 1

\* A step keeps the leases, and the accounts when grants are single.
BrokerKept == BrokerInv' /\ (SingleGrants /\ AccountsInv => AccountsInv')

\* A step of one call that keeps its lease.
LEMMA OwnKept ==
    ASSUME BrokerInv, NEW i \in Invocations, Stepped(i)
    PROVE  BrokerKept
<1>1. PICK y : inv' = [inv EXCEPT ![i] = y] /\ Own(y, inv[i]) /\ UNCHANGED Broker
  BY DEF Stepped
<1>2. inv'[i] = y /\ \A j \in Invocations : j # i => inv'[j] = inv[j]
  BY <1>1, CallChanged
<1>3. /\ plan' = plan /\ closed' = closed /\ registry' = registry /\ closes' = closes
      /\ storagePending' = storagePending /\ revision' = revision
      /\ inflight' = inflight /\ drain' = drain
  BY <1>1 DEF Broker
<1>4. LeasesCounted'
  BY <1>1, <1>3, LeasesKept DEF Own, LinkedIn
<1>5. closed /\ y.status \in {"running", "returned", "closing"} => y.aborted
  BY <1>1 DEF Own, BrokerInv, Linked
<1>6. BrokerInv'
  BY <1>1, <1>3, <1>4, <1>5, CallsInv DEF Own
<1>7. ASSUME AccountsInv PROVE AccountsInv'
  <2>1. ASSUME NEW j \in Invocations, NEW b \in Bindings PROVE Account(j, b)'
    <3>1. Account(j, b) /\ Flows(j, b)
      BY <1>3, <1>7 DEF AccountsInv, Registered, Flows
    <3>2. CASE j # i
      BY <1>2, <3>1, <3>2, AccountFlows
    <3>3. CASE j = i
      <4>1. /\ inv'[j].status = inv[j].status /\ inv'[j].mode = inv[j].mode
            /\ inv'[j].published = inv[j].published
            /\ inv'[j].owned = inv[j].owned \/ inv[j].status \in {"running", "returned"}
            /\ inv'[j].grant = inv[j].grant \/ (inv[j].status = "running" /\ ~inv[j].published)
        BY <1>1, <1>2, <3>3 DEF Own
      <4>2. Registered(j, b)' <=> Registered(j, b)
        BY <1>3 DEF Registered
      <4>3. CASE inv'[j].grant = inv[j].grant
        BY <1>3, <3>1, <4>1, <4>2, <4>3 DEF Account
      <4>4. CASE inv[j].status = "running" /\ ~inv[j].published
        BY <1>3, <3>1, <4>1, <4>2, <4>4 DEF Account
      <4>. QED BY <4>1, <4>3, <4>4
    <3>. QED BY <3>2, <3>3
  <2>2. registry' \in [Bindings -> Records] /\ DOMAIN closes' = Invocations \X Bindings
    BY <1>3, <1>7 DEF AccountsInv
  <2>. QED BY <2>1, <2>2 DEF AccountsInv, Records, Absent, None
<1>. QED BY <1>6, <1>7 DEF BrokerKept

-----------------------------------------------------------------------------
(* The result of a call.                                                   *)

LEMMA ReturnedIs ==
    ASSUME NEW e \in Execs, NEW result \in {"ok", "fail"}, NEW p \in BOOLEAN
    PROVE  LET y == Returned(e, result, p)
           IN  /\ y \in Execs /\ y.status = "returned" /\ y.published = p /\ y.frame = e.frame
               /\ y.kind = e.kind /\ y.mode = e.mode /\ y.rev = e.rev /\ y.depth = e.depth
               /\ SameIo(y, e) /\ y.called = e.called /\ y.completed = e.completed
               /\ y.grant = e.grant /\ y.owned = e.owned
               /\ (y.aborted <=> e.aborted \/ LeasePending(e))
<1>. DEFINE a == e.aborted \/ LeasePending(e)
            y == [e EXCEPT !.status = "returned", !.result = result, !.published = p,
                           !.aborted = a]
<1>1. a \in BOOLEAN /\ Returned(e, result, p) = y
  BY DEF Returned, Execs
<1>. HIDE DEF a
<1>b. y \in Execs
  BY <1>1 DEF Execs
<1>2. /\ y \in Execs /\ y.status = "returned" /\ y.published = p /\ y.frame = e.frame
      /\ y.kind = e.kind /\ y.mode = e.mode /\ y.rev = e.rev /\ y.depth = e.depth
      /\ SameIo(y, e) /\ y.called = e.called /\ y.completed = e.completed
      /\ y.grant = e.grant /\ y.owned = e.owned /\ y.aborted = a
  BY <1>b DEF Execs, SameIo
<1>. HIDE DEF y
<1>. QED BY <1>1, <1>2 DEF a

LEMMA DeliveredInv ==
    ASSUME BrokerInv, NEW i \in Invocations, NEW result \in {"ok", "fail"}, NEW p \in BOOLEAN,
           Concluded(inv[i]), Update(i, Returned(inv[i], result, p)),
           UNCHANGED <<plan, closed, storagePending, revision, inflight, drain>>
    PROVE  BrokerInv'
<1>. DEFINE e == inv[i]
            y == Returned(e, result, p)
<1>1. e \in Execs /\ ExecOk(e) /\ e.status = "running"
  BY ExecAt DEF Concluded
<1>2. /\ y \in Execs /\ y.status = "returned" /\ y.published = p /\ y.frame = e.frame
      /\ y.kind = e.kind /\ y.mode = e.mode /\ y.rev = e.rev /\ y.depth = e.depth
      /\ SameIo(y, e) /\ y.called = e.called /\ y.completed = e.completed
      /\ y.grant = e.grant /\ (y.aborted <=> e.aborted \/ LeasePending(e))
  BY <1>1, ReturnedIs
<1>. HIDE DEF y
<1>3. Chained(y)
  BY <1>1, <1>2 DEF ExecOk, Chained, SameIo
<1>4. Phase(y)
  BY <1>1, <1>2 DEF ExecOk, Phase, LeasePending
<1>5. inv' = [inv EXCEPT ![i] = y]
  BY DEF Update, y
<1>6. LeasesCounted'
  BY <1>1, <1>2, <1>5, LeasesKept DEF LinkedIn
<1>7. closed => y.aborted
  BY <1>1, <1>2 DEF BrokerInv, Linked
<1>. QED BY <1>2, <1>3, <1>4, <1>5, <1>6, <1>7, CallsInv DEF ExecOk

\* The accounts after a result: those of the call itself are looked at.
LEMMA DeliveredAccounts ==
    ASSUME BrokerInv, AccountsInv, NEW i \in Invocations, NEW y, inv' = [inv EXCEPT ![i] = y],
           registry' \in [Bindings -> Records], DOMAIN closes' = Invocations \X Bindings,
           \A j \in Invocations \ {i}, b \in Bindings : Flows(j, b),
           \A b \in Bindings : Account(i, b)'
    PROVE  AccountsInv'
<1>1. inv'[i] = y /\ \A j \in Invocations : j # i => inv'[j] = inv[j]
  BY CallChanged
<1>2. ASSUME NEW j \in Invocations, NEW b \in Bindings PROVE Account(j, b)'
  <2>1. CASE j = i
    BY <2>1
  <2>2. CASE j # i
    <3>1. Account(j, b) /\ Flows(j, b) /\ inv'[j] = inv[j]
      BY <1>1, <2>2 DEF AccountsInv
    <3>. QED BY <3>1, AccountFlows
  <2>. QED BY <2>1, <2>2
<1>. QED BY <1>2 DEF AccountsInv, Records, Absent, None

\* A running call has nothing registered and nothing closed.
LEMMA RunningAccount ==
    ASSUME BrokerInv, AccountsInv, NEW i \in Invocations, NEW b \in Bindings,
           inv[i].status \in {"running", "returned"}, ~inv[i].published
    PROVE  ~Registered(i, b) /\ closes[<<i, b>>] = 0
<1>1. Account(i, b)
  BY DEF AccountsInv
<1>. QED BY <1>1 DEF Account

LEMMA RunningUnpublished ==
    ASSUME BrokerInv, NEW i \in Invocations, Concluded(inv[i])
    PROVE  /\ inv[i].status = "running" /\ ~inv[i].published
           /\ inv[i].kind # "open" => inv[i].grant = <<>>
           /\ inv[i].kind \in {"share", "close"} => inv[i].target \in Bindings
BY ExecAt DEF ExecOk, Phase, Concluded

LEMMA FlowsUnchanged ==
    ASSUME UNCHANGED <<registry, closes>>
    PROVE  \A j \in Invocations, b \in Bindings : Flows(j, b)
BY DEF Flows, Registered

LEMMA DeliverOutcome ==
    ASSUME BrokerInv, NEW i \in Invocations, DeliverFailure(i) \/ DeliverOwn(i)
    PROVE  BrokerKept
<1>. DEFINE e == inv[i]
<1>1. PICK result \in {"ok", "fail"} : Update(i, Returned(e, result, FALSE))
  BY DEF DeliverFailure, DeliverOwn
<1>. DEFINE y == Returned(e, result, FALSE)
<1>2. /\ Concluded(e) /\ UNCHANGED Broker /\ e \in Execs
      /\ UNCHANGED <<plan, closed, storagePending, revision, inflight, drain>>
  BY ExecAt DEF DeliverFailure, DeliverOwn, Broker
<1>3. BrokerInv'
  BY <1>1, <1>2, DeliveredInv
<1>4. ASSUME AccountsInv PROVE AccountsInv'
  <2>1. UNCHANGED <<registry, closes>>
    BY <1>2 DEF Broker
  <2>2. inv' = [inv EXCEPT ![i] = y]
    BY <1>1 DEF Update
  <2>3. inv'[i] = y /\ y.status = "returned" /\ ~y.published
    BY <1>2, <2>2, ReturnedIs, CallChanged
  <2>. HIDE DEF y
  <2>4. ASSUME NEW b \in Bindings PROVE Account(i, b)'
    <3>1. ~Registered(i, b)' /\ closes'[<<i, b>>] = 0
      BY <1>2, <1>4, <2>1, RunningUnpublished, RunningAccount DEF Registered
    <3>. QED BY <2>3, <3>1 DEF Account
  <2>5. registry' \in [Bindings -> Records] /\ DOMAIN closes' = Invocations \X Bindings
    BY <1>4, <2>1 DEF AccountsInv
  <2>. QED BY <1>4, <2>1, <2>2, <2>4, <2>5, FlowsUnchanged, DeliveredAccounts
<1>. QED BY <1>3, <1>4 DEF BrokerKept

LEMMA GrantIsSeq ==
    ASSUME BrokerInv, NEW i \in Invocations
    PROVE  inv[i].grant \in Seq(Bindings) /\ inv[i].grant \in Grants \cup {<<>>}
BY ExecAt, BrokerAssumption, EmptySeq DEF Execs, BrokerAssumption

\* One binding is entered, or it is taken and none is.
LEMMA SinglePublished ==
    ASSUME AccountsInv, NEW i \in Invocations, NEW grant \in Seq(Bindings), Len(grant) <= 1
    PROVE  /\ Publishable(grant) =>
                /\ \A b \in ToSet(grant) : registry[b] = Absent
                /\ WithPublished(i, grant) =
                     [b \in Bindings |-> IF b \in ToSet(grant)
                                         THEN [owner |-> i, references |-> 1] ELSE registry[b]]
           /\ ~Publishable(grant) => WithPublished(i, grant) = registry
<1>1. registry = [b \in Bindings |-> registry[b]]
  BY DEF AccountsInv
<1>2. CASE grant = <<>>
  <2>1. DOMAIN grant = {}
    BY <1>2, LenProperties
  <2>2. Entered(grant) = {} /\ ToSet(grant) = {} /\ Publishable(grant)
    BY <2>1 DEF Entered, ToSet, Publishable
  <2>. QED BY <1>1, <2>2 DEF WithPublished
<1>3. CASE grant # <<>>
  <2>1. DOMAIN grant = {1} /\ grant[1] \in Bindings
    <3>1. Len(grant) = 1
      <4>. DEFINE n == Len(grant)
      <4>1. n # 0
        BY <1>3, EmptySeq
      <4>2. n \in Nat /\ n <= 1
        BY LenProperties
      <4>. HIDE DEF n
      <4>3. n = 1
        BY <4>1, <4>2
      <4>. QED BY <4>3 DEF n
    <3>. QED BY <3>1, LenProperties, ElementOfSeq
  <2>2. ToSet(grant) = {grant[1]}
    BY <2>1 DEF ToSet
  <2>3. Publishable(grant) <=> registry[grant[1]] = Absent
    BY <2>1 DEF Publishable
  <2>4. CASE registry[grant[1]] = Absent
    <3>1. {n \in DOMAIN grant : registry[grant[n]] # Absent} = {}
      BY <2>1, <2>4
    <3>2. Entered(grant) = {grant[1]}
      BY <2>1, <3>1 DEF Entered
    <3>. QED BY <2>2, <2>3, <2>4, <3>2 DEF WithPublished
  <2>5. CASE registry[grant[1]] # Absent
    <3>1. {n \in DOMAIN grant : registry[grant[n]] # Absent} = {1}
      BY <2>1, <2>5
    <3>2. {m \in DOMAIN grant : \A t \in {1} : m < t} = {}
      BY <2>1
    <3>3. Entered(grant) = {}
      BY <3>1, <3>2 DEF Entered
    <3>. QED BY <1>1, <2>3, <2>5, <3>3 DEF WithPublished
  <2>. QED BY <2>4, <2>5
<1>. QED BY <1>2, <1>3

LEMMA AbsentRecord ==
    /\ Absent \in Records
    /\ \A i \in Invocations :
          /\ [owner |-> i, references |-> 1] \in Records
          /\ [owner |-> i, references |-> 1] # Absent
          /\ [owner |-> i, references |-> 1].owner = i
<1>1. \A i \in Invocations : [owner |-> i, references |-> 1].references # Absent.references
  BY DEF Absent
<1>. QED BY <1>1 DEF Records

\* What a single grant, published or not, makes of the registry.
LEMMA GrantEntered ==
    ASSUME AccountsInv, NEW i \in Invocations, NEW grant \in Seq(Bindings), Len(grant) <= 1,
           registry' = WithPublished(i, grant), closes' = closes
    PROVE  /\ registry' \in [Bindings -> Records]
           /\ \A j \in Invocations \ {i}, b \in Bindings : Flows(j, b)
           /\ \A b \in Bindings : Registered(i, b)' <=>
                 Registered(i, b) \/ (Publishable(grant) /\ b \in ToSet(grant))
<1>1. registry \in [Bindings -> Records]
  BY DEF AccountsInv
<1>2. CASE ~Publishable(grant)
  <2>1. registry' = registry
    BY <1>2, SinglePublished
  <2>. QED BY <1>1, <1>2, <2>1, FlowsUnchanged DEF Registered
<1>3. CASE Publishable(grant)
  <2>. DEFINE r == [owner |-> i, references |-> 1]
  <2>1. /\ registry' = [b \in Bindings |-> IF b \in ToSet(grant) THEN r ELSE registry[b]]
        /\ \A b \in ToSet(grant) : registry[b] = Absent
    BY <1>3, SinglePublished
  <2>2. r \in Records /\ r # Absent /\ r.owner = i
    BY AbsentRecord
  <2>. HIDE DEF r
  <2>3. registry' \in [Bindings -> Records]
    BY <1>1, <2>1, <2>2
  <2>4. ASSUME NEW j \in Invocations, NEW b \in Bindings
        PROVE  /\ j # i => (Registered(j, b)' <=> Registered(j, b))
               /\ Registered(i, b)' <=> Registered(i, b) \/ b \in ToSet(grant)
    <3>1. CASE b \in ToSet(grant)
      BY <2>1, <2>2, <3>1 DEF Registered, Absent
    <3>2. CASE b \notin ToSet(grant)
      BY <2>1, <3>2 DEF Registered, Absent
    <3>. QED BY <3>1, <3>2
  <2>5. \A j \in Invocations \ {i}, b \in Bindings : Flows(j, b)
    BY <2>4 DEF Flows
  <2>. QED BY <1>3, <2>3, <2>4, <2>5
<1>. QED BY <1>2, <1>3

LEMMA DeliverInnerKept ==
    ASSUME BrokerInv, NEW i \in Invocations, DeliverInner(i)
    PROVE  BrokerKept
<1>. DEFINE e == inv[i]
            p == Publishable(e.grant)
            result == IF p THEN "ok" ELSE "fail"
            y == Returned(e, result, p)
<1>1. /\ Concluded(e) /\ e \in Execs /\ Update(i, y) /\ closes' = closes
      /\ registry' = WithPublished(i, e.grant)
      /\ UNCHANGED <<plan, closed, storagePending, revision, inflight, drain>>
  BY ExecAt DEF DeliverInner
<1>2. result \in {"ok", "fail"} /\ p \in BOOLEAN
  BY DEF Publishable
<1>3. BrokerInv'
  <2>. HIDE DEF result, p
  <2>. QED BY <1>1, <1>2, DeliveredInv
<1>4. ASSUME SingleGrants, AccountsInv PROVE AccountsInv'
  <2>1. e.grant \in Seq(Bindings) /\ Len(e.grant) <= 1
    BY <1>4, GrantIsSeq, EmptySeq DEF SingleGrants
  <2>2. inv' = [inv EXCEPT ![i] = y] /\ inv'[i] = y
    BY <1>1, CallChanged DEF Update
  <2>3. y.status = "returned" /\ (y.published <=> p) /\ y.grant = e.grant
    <3>. HIDE DEF result, p
    <3>. QED BY <1>1, <1>2, ReturnedIs
  <2>. HIDE DEF y
  <2>4. /\ registry' \in [Bindings -> Records]
        /\ \A j \in Invocations \ {i}, b \in Bindings : Flows(j, b)
        /\ \A b \in Bindings : Registered(i, b)' <=>
              Registered(i, b) \/ (p /\ b \in ToSet(e.grant))
    BY <1>1, <1>4, <2>1, GrantEntered
  <2>. HIDE DEF p
  <2>5. ASSUME NEW b \in Bindings PROVE Account(i, b)'
    <3>1. ~Registered(i, b) /\ closes'[<<i, b>>] = 0
      BY <1>1, <1>4, RunningUnpublished, RunningAccount
    <3>2. Registered(i, b)' <=> p /\ b \in ToSet(e.grant)
      BY <2>4, <3>1
    <3>. QED BY <2>2, <2>3, <3>1, <3>2 DEF Account
  <2>6. DOMAIN closes' = Invocations \X Bindings
    BY <1>1, <1>4 DEF AccountsInv
  <2>. QED BY <1>4, <2>2, <2>4, <2>5, <2>6, DeliveredAccounts
<1>. QED BY <1>3, <1>4 DEF BrokerKept

\* Giving back a reference: the last one closes the resource.
LEMMA ReleaseFlows ==
    ASSUME AccountsInv, NEW b \in Bindings, registry[b] # Absent,
           registry' = Released(b), ClosedOnce(ReleasedResource(b))
    PROVE  /\ registry' \in [Bindings -> Records]
           /\ DOMAIN closes' = Invocations \X Bindings
           /\ \A j \in Invocations, c \in Bindings : Flows(j, c)
<1>1. registry \in [Bindings -> Records] /\ DOMAIN closes = Invocations \X Bindings
  BY DEF AccountsInv
<1>2. registry[b] \in [owner : Invocations, references : Nat \ {0}]
  BY <1>1 DEF Records
<1>3. DOMAIN closes' = Invocations \X Bindings
  BY <1>1 DEF ClosedOnce
<1>4. CASE registry[b].references > 1
  <2>. DEFINE n == registry[b].references - 1
              r == [registry[b] EXCEPT !.references = n]
  <2>1. registry' = [registry EXCEPT ![b] = r]
    BY <1>4 DEF Released
  <2>2. /\ r \in [owner : Invocations, references : Nat \ {0}] /\ r.owner = registry[b].owner
        /\ r.references \in Nat \ {0}
    <3>1. n \in Nat \ {0}
      BY <1>2, <1>4
    <3>. HIDE DEF n
    <3>. QED BY <1>2, <3>1
  <2>3. r # Absent
    BY <2>2 DEF Absent
  <2>. HIDE DEF r
  <2>4. ReleasedResource(b) = {}
    BY <1>4 DEF ReleasedResource
  <2>5. \A j \in Invocations, c \in Bindings : closes'[<<j, c>>] = closes[<<j, c>>]
    BY <1>1, <2>4 DEF ClosedOnce
  <2>6. \A j \in Invocations, c \in Bindings : Registered(j, c)' <=> Registered(j, c)
    BY <1>1, <1>2, <2>1, <2>2, <2>3 DEF Registered, Absent
  <2>. QED BY <1>1, <1>3, <2>1, <2>2, <2>5, <2>6 DEF Flows, Records
<1>5. CASE ~(registry[b].references > 1)
  <2>. DEFINE o == registry[b].owner
  <2>1. registry' = [registry EXCEPT ![b] = Absent]
    BY <1>5 DEF Released
  <2>2. ReleasedResource(b) = {<<o, b>>}
    BY <1>5 DEF ReleasedResource
  <2>3. \A j \in Invocations, c \in Bindings :
           closes'[<<j, c>>] = IF j = o /\ c = b THEN closes[<<j, c>>] + 1 ELSE closes[<<j, c>>]
    BY <1>1, <2>2 DEF ClosedOnce
  <2>4. \A j \in Invocations, c \in Bindings :
           Registered(j, c)' <=> Registered(j, c) /\ c # b
    BY <1>1, <2>1 DEF Registered, Absent
  <2>5. \A j \in Invocations : Registered(j, b) <=> j = o
    BY DEF Registered, Absent
  <2>6. \A j \in Invocations, c \in Bindings : Flows(j, c)
    BY <2>3, <2>4, <2>5 DEF Flows
  <2>. QED BY <1>1, <1>3, <2>1, <2>6, AbsentRecord
<1>. QED BY <1>4, <1>5

LEMMA DeliverSharedKept ==
    ASSUME BrokerInv, NEW i \in Invocations, DeliverShared(i) \/ DeliverClose(i)
    PROVE  BrokerKept
<1>. DEFINE e == inv[i]
            t == e.target
            fails == Returned(e, "fail", FALSE)
            y == Returned(e, "ok", TRUE)
<1>1. /\ Concluded(e) /\ e \in Execs /\ e.kind \in {"share", "close"}
      /\ UNCHANGED <<plan, closed, storagePending, revision, inflight, drain>>
  BY ExecAt DEF DeliverShared, DeliverClose
<1>2. e.status = "running" /\ ~e.published /\ e.grant = <<>> /\ t \in Bindings
  BY <1>1, RunningUnpublished
<1>3. CASE registry[t] = Absent
  <2>1. Update(i, fails) /\ UNCHANGED <<registry, closes>>
    BY <1>3 DEF DeliverShared, DeliverClose
  <2>2. BrokerInv'
    BY <1>1, <2>1, DeliveredInv
  <2>3. inv' = [inv EXCEPT ![i] = fails] /\ inv'[i] = fails
    BY <2>1, CallChanged DEF Update
  <2>4. fails.status = "returned" /\ ~fails.published
    BY <1>1, ReturnedIs
  <2>. HIDE DEF fails
  <2>5. ASSUME AccountsInv PROVE AccountsInv'
    <3>1. ASSUME NEW b \in Bindings PROVE Account(i, b)'
      <4>1. ~Registered(i, b)' /\ closes'[<<i, b>>] = 0
        BY <1>2, <2>1, <2>5, RunningAccount DEF Registered
      <4>. QED BY <2>3, <2>4, <4>1 DEF Account
    <3>2. registry' \in [Bindings -> Records] /\ DOMAIN closes' = Invocations \X Bindings
      BY <2>1, <2>5 DEF AccountsInv
    <3>. QED BY <2>1, <2>3, <2>5, <3>1, <3>2, FlowsUnchanged, DeliveredAccounts
  <2>. QED BY <2>2, <2>5 DEF BrokerKept
<1>4. CASE registry[t] # Absent
  <2>1. Update(i, y)
    BY <1>4 DEF DeliverShared, DeliverClose
  <2>2. BrokerInv'
    BY <1>1, <2>1, DeliveredInv
  <2>3. inv' = [inv EXCEPT ![i] = y] /\ inv'[i] = y
    BY <2>1, CallChanged DEF Update
  <2>4. y.status = "returned" /\ y.grant = <<>>
    BY <1>1, <1>2, ReturnedIs
  <2>. HIDE DEF y
  <2>5. ASSUME AccountsInv
        PROVE  /\ registry' \in [Bindings -> Records]
               /\ DOMAIN closes' = Invocations \X Bindings
               /\ \A j \in Invocations, c \in Bindings : Flows(j, c)
    <3>1. CASE DeliverClose(i)
      <4>1. registry' = Released(t) /\ ClosedOnce(ReleasedResource(t))
        BY <1>4, <3>1 DEF DeliverClose
      <4>. HIDE DEF t
      <4>. QED BY <1>2, <1>4, <2>5, <4>1, ReleaseFlows
    <3>2. CASE DeliverShared(i)
      <4>. DEFINE n == registry[t].references + 1
                  r == [registry[t] EXCEPT !.references = n]
      <4>1. closes' = closes /\ registry' = [registry EXCEPT ![t] = r]
        BY <1>4, <3>2 DEF DeliverShared
      <4>2. /\ registry \in [Bindings -> Records] /\ DOMAIN closes = Invocations \X Bindings
            /\ registry[t] \in [owner : Invocations, references : Nat \ {0}]
        BY <1>2, <1>4, <2>5 DEF AccountsInv, Records
      <4>3. n \in Nat \ {0}
        BY <4>2
      <4>. HIDE DEF n, t
      <4>4. r \in [owner : Invocations, references : Nat \ {0}] /\ r.owner = registry[t].owner
        BY <4>2, <4>3
      <4>5. r # Absent /\ r \in Records
        BY <4>4 DEF Absent, Records
      <4>. HIDE DEF r
      <4>6. \A j \in Invocations, c \in Bindings : Registered(j, c)' <=> Registered(j, c)
        BY <1>4, <4>1, <4>2, <4>4, <4>5 DEF Registered
      <4>. QED BY <4>1, <4>2, <4>5, <4>6 DEF Flows
    <3>. QED BY <3>1, <3>2
  <2>6. ASSUME AccountsInv PROVE AccountsInv'
    <3>1. ASSUME NEW b \in Bindings PROVE Account(i, b)'
      <4>1. ~Registered(i, b) /\ closes[<<i, b>>] = 0 /\ Flows(i, b)
        BY <1>2, <2>5, <2>6, RunningAccount
      <4>2. ~Registered(i, b)' /\ closes'[<<i, b>>] = 0
        BY <4>1 DEF Flows
      <4>3. ToSet(y.grant) = {}
        BY <2>4, LenProperties, EmptySeq DEF ToSet
      <4>. QED BY <2>3, <4>2, <4>3 DEF Account
    <3>. QED BY <2>3, <2>5, <2>6, <3>1, DeliveredAccounts
  <2>. QED BY <2>2, <2>6 DEF BrokerKept
<1>. QED BY <1>3, <1>4

-----------------------------------------------------------------------------
(* What settles behind the result.                                         *)

LEMMA SettleKept ==
    ASSUME BrokerInv, NEW i \in Invocations, SettleInvocation(i)
    PROVE  BrokerKept
<1>. DEFINE e == inv[i]
            y == [e EXCEPT !.status = "closing"]
            rs == Resources(i, Unpublished(e))
<1>1. /\ e \in Execs /\ ExecOk(e) /\ e.status = "returned" /\ ~LeasePending(e)
      /\ Update(i, y) /\ ClosedOnce(rs) /\ registry' = registry
      /\ UNCHANGED <<plan, closed, storagePending, revision, inflight, drain>>
  BY ExecAt DEF SettleInvocation
<1>2. /\ y \in Execs /\ y.status = "closing" /\ y.published = e.published /\ y.frame = e.frame
      /\ y.kind = e.kind /\ y.mode = e.mode /\ y.rev = e.rev /\ y.depth = e.depth
      /\ SameIo(y, e) /\ y.called = e.called /\ y.grant = e.grant /\ y.owned = e.owned
      /\ y.aborted = e.aborted
  BY <1>1 DEF Execs, SameIo
<1>3. inv' = [inv EXCEPT ![i] = y]
  BY <1>1 DEF Update
<1>. HIDE DEF y
<1>4. ExecOk(y)
  BY <1>1, <1>2 DEF ExecOk, Chained, Phase, LeasePending, SameIo
<1>5. LeasesCounted'
  BY <1>1, <1>2, <1>3, LeasesKept DEF LinkedIn
<1>6. closed => y.aborted
  BY <1>1, <1>2 DEF BrokerInv, Linked
<1>7. BrokerInv'
  BY <1>1, <1>3, <1>4, <1>5, <1>6, CallsInv
<1>8. ASSUME AccountsInv PROVE AccountsInv'
  <2>1. /\ inv'[i] = y /\ DOMAIN closes = Invocations \X Bindings
        /\ registry' \in [Bindings -> Records]
    BY <1>1, <1>3, <1>8, CallChanged DEF AccountsInv
  <2>2. /\ DOMAIN closes' = Invocations \X Bindings
        /\ \A j \in Invocations, b \in Bindings :
              closes'[<<j, b>>] = IF j = i /\ b \in Unpublished(e) THEN closes[<<j, b>>] + 1
                                  ELSE closes[<<j, b>>]
    BY <1>1, <2>1 DEF ClosedOnce, Resources
  <2>3. \A j \in Invocations, b \in Bindings : Registered(j, b)' <=> Registered(j, b)
    BY <1>1 DEF Registered
  <2>4. \A j \in Invocations \ {i}, b \in Bindings : Flows(j, b)
    BY <2>2, <2>3 DEF Flows
  <2>5. ASSUME NEW b \in Bindings PROVE Account(i, b)'
    <3>1. Account(i, b)
      BY <1>8 DEF AccountsInv
    <3>2. CASE b \in Unpublished(e)
      <4>1. b \in ToSet(e.grant) /\ e.owned /\ ~e.published
        BY <3>2 DEF Unpublished
      <4>2. ~Registered(i, b)' /\ closes'[<<i, b>>] = 1
        BY <1>1, <1>8, <2>2, <2>3, <3>2, <4>1, RunningAccount
      <4>. QED BY <1>2, <2>1, <4>1, <4>2 DEF Account
    <3>3. CASE b \notin Unpublished(e)
      <4>1. closes'[<<i, b>>] = closes[<<i, b>>] /\ (Registered(i, b)' <=> Registered(i, b))
        BY <2>2, <2>3, <3>3
      <4>2. b \in ToSet(e.grant) => ~(e.owned /\ ~e.published /\ e.mode # "syncLate")
        BY <3>3 DEF Unpublished
      <4>. QED BY <1>1, <1>2, <2>1, <3>1, <4>1, <4>2 DEF Account
    <3>. QED BY <3>2, <3>3
  <2>. QED BY <1>3, <1>8, <2>1, <2>2, <2>4, <2>5, DeliveredAccounts
<1>. QED BY <1>7, <1>8 DEF BrokerKept

LEMMA CallsFinite ==
    ASSUME NEW V
    PROVE  /\ IsFiniteSet(Storing(V)) /\ Cardinality(Storing(V)) \in Nat
           /\ \A r \in Revisions : IsFiniteSet(Users(V, r)) /\ Cardinality(Users(V, r)) \in Nat
<1>1. IsFiniteSet(Invocations)
  BY BrokerAssumption DEF BrokerAssumption
<1>2. Storing(V) \subseteq Invocations /\ \A r \in Revisions : Users(V, r) \subseteq Invocations
  BY DEF Storing, Users
<1>. QED BY <1>1, <1>2, FS_Subset, FS_CardinalityType

LEMMA CountAdded ==
    ASSUME NEW S, NEW T, NEW x, IsFiniteSet(S), x \notin S, T = S \cup {x}
    PROVE  Cardinality(T) = Cardinality(S) + 1
BY FS_AddElement

LEMMA CountRemoved ==
    ASSUME NEW S, NEW T, NEW x, IsFiniteSet(S), x \in S, T = S \ {x}
    PROVE  Cardinality(T) = Cardinality(S) - 1 /\ Cardinality(S) # 0
<1>1. Cardinality(S) # 0
  BY FS_EmptySet
<1>. QED BY <1>1, FS_RemoveElement

\* A call takes its snapshot of the graph, and perhaps a storage slot.
LEMMA LeaseTaken ==
    ASSUME BrokerInv, NEW i \in Invocations, NEW y, inv' = [inv EXCEPT ![i] = y],
           ~LinkedIn(inv, i), y.status \in {"running", "returned", "closing"},
           y.rev = revision, inflight' = [inflight EXCEPT ![revision] = @ + 1],
           IF y.kind = "storage" /\ y.mode = "async"
           THEN storagePending < MaxPending /\ storagePending' = storagePending + 1
           ELSE storagePending' = storagePending,
           UNCHANGED <<revision, drain>>
    PROVE  LeasesCounted'
<1>1. inv'[i] = y /\ \A j \in Invocations : j # i => inv'[j] = inv[j]
  BY CallChanged
<1>2. LeasesCounted /\ revision \in Revisions /\ MaxPending \in Nat
  BY BrokerAssumption DEF BrokerInv, BrokerAssumption
<1>3. /\ \A j \in Invocations : j # i => (LinkedIn(inv', j) <=> LinkedIn(inv, j))
      /\ LinkedIn(inv', i)
  BY <1>1 DEF LinkedIn
<1>4. i \notin Storing(inv) /\ \A r \in Revisions : i \notin Users(inv, r)
  BY DEF Storing, Users
<1>5. \A r \in Revisions : r # revision => Users(inv', r) = Users(inv, r)
  BY <1>1, <1>3, <1>4 DEF Users
<1>6. Users(inv', revision) = Users(inv, revision) \cup {i}
  BY <1>1, <1>3 DEF Users
<1>7. Cardinality(Users(inv', revision)) = Cardinality(Users(inv, revision)) + 1
  BY <1>2, <1>4, <1>6, CountAdded, CallsFinite
<1>8. inflight' = [r \in Revisions |-> Cardinality(Users(inv', r))]
  BY <1>2, <1>5, <1>7 DEF LeasesCounted
<1>9. storagePending' = Cardinality(Storing(inv')) /\ storagePending' <= MaxPending
  <2>1. CASE y.kind = "storage" /\ y.mode = "async"
    <3>1. Storing(inv') = Storing(inv) \cup {i}
      BY <1>1, <1>3, <2>1 DEF Storing
    <3>2. Cardinality(Storing(inv')) = Cardinality(Storing(inv)) + 1
      BY <1>4, <3>1, CountAdded, CallsFinite
    <3>. QED BY <1>2, <2>1, <3>2, CallsFinite DEF LeasesCounted
  <2>2. CASE ~(y.kind = "storage" /\ y.mode = "async")
    <3>1. Storing(inv') = Storing(inv)
      BY <1>1, <1>3, <1>4, <2>2 DEF Storing
    <3>. QED BY <1>2, <2>2, <3>1 DEF LeasesCounted
  <2>. QED BY <2>1, <2>2
<1>10. ASSUME NEW r \in Revisions
       PROVE  /\ drain'[r] # "none" => r < revision'
              /\ drain'[r] = "waiting" => inflight'[r] # 0
              /\ drain'[r] = "resolved" => inflight'[r] = 0
  <2>1. /\ drain[r] # "none" => r < revision
        /\ drain[r] = "waiting" => inflight[r] # 0
        /\ drain[r] = "resolved" => inflight[r] = 0
    BY <1>2 DEF LeasesCounted
  <2>2. ~(revision < revision)
    BY <1>2, BrokerAssumption DEF Revisions, BrokerAssumption
  <2>3. r # revision => inflight'[r] = inflight[r]
    BY <1>2 DEF LeasesCounted
  <2>. QED BY <2>1, <2>2, <2>3
<1>. QED BY <1>2, <1>8, <1>9, <1>10 DEF LeasesCounted

LEMMA LeaseReleased ==
    ASSUME BrokerInv, NEW i \in Invocations, NEW y, inv' = [inv EXCEPT ![i] = y],
           LinkedIn(inv, i), y.status = "settled",
           inflight' = [inflight EXCEPT ![inv[i].rev] = @ - 1],
           drain' = [drain EXCEPT ![inv[i].rev] =
                        IF inflight[inv[i].rev] = 1 /\ @ = "waiting" THEN "resolved" ELSE @],
           storagePending' = IF inv[i].kind = "storage" /\ inv[i].mode = "async"
                             THEN storagePending - 1 ELSE storagePending,
           revision' = revision
    PROVE  LeasesCounted'
<1>. DEFINE e == inv[i]
            q == e.rev
<1>1. inv'[i] = y /\ \A j \in Invocations : j # i => inv'[j] = inv[j]
  BY CallChanged
<1>2. LeasesCounted /\ q \in Revisions /\ MaxPending \in Nat
  BY BrokerAssumption, ExecAt DEF BrokerInv, BrokerAssumption, Execs
<1>3. /\ \A j \in Invocations : j # i => (LinkedIn(inv', j) <=> LinkedIn(inv, j))
      /\ ~LinkedIn(inv', i)
  BY <1>1 DEF LinkedIn
<1>4. \A r \in Revisions : r # q => Users(inv', r) = Users(inv, r)
  BY <1>1, <1>3 DEF Users
<1>5. i \in Users(inv, q) /\ Users(inv', q) = Users(inv, q) \ {i}
  BY <1>1, <1>3 DEF Users
<1>6. /\ Cardinality(Users(inv', q)) = Cardinality(Users(inv, q)) - 1
      /\ Cardinality(Users(inv, q)) # 0
  BY <1>2, <1>5, CountRemoved, CallsFinite
<1>7. /\ inflight = [r \in Revisions |-> Cardinality(Users(inv, r))]
      /\ drain \in [Revisions -> {"none", "waiting", "resolved"}]
  BY <1>2 DEF LeasesCounted
<1>. HIDE DEF q
<1>8. inflight' = [r \in Revisions |-> Cardinality(Users(inv', r))]
  <2>1. inflight' = [inflight EXCEPT ![q] = inflight[q] - 1]
    BY DEF q
  <2>. QED BY <1>2, <1>4, <1>6, <1>7, <2>1
<1>9. storagePending' = Cardinality(Storing(inv')) /\ storagePending' <= MaxPending
  <2>0. /\ storagePending = Cardinality(Storing(inv)) /\ storagePending <= MaxPending
        /\ storagePending \in Nat
    BY <1>2, CallsFinite DEF LeasesCounted
  <2>1. CASE e.kind = "storage" /\ e.mode = "async"
    <3>1. i \in Storing(inv) /\ Storing(inv') = Storing(inv) \ {i}
      BY <1>1, <1>3, <2>1 DEF Storing
    <3>2. Cardinality(Storing(inv')) = Cardinality(Storing(inv)) - 1
      BY <3>1, CountRemoved, CallsFinite
    <3>. QED BY <1>2, <2>0, <2>1, <3>2
  <2>2. CASE ~(e.kind = "storage" /\ e.mode = "async")
    <3>1. Storing(inv') = Storing(inv)
      BY <1>1, <1>3, <2>2 DEF Storing
    <3>. QED BY <2>0, <2>2, <3>1
  <2>. QED BY <2>1, <2>2
<1>10. ASSUME NEW r \in Revisions
       PROVE  /\ drain'[r] \in {"none", "waiting", "resolved"}
              /\ drain'[r] # "none" => r < revision'
              /\ drain'[r] = "waiting" => inflight'[r] # 0
              /\ drain'[r] = "resolved" => inflight'[r] = 0
  <2>1. /\ drain[r] # "none" => r < revision
        /\ drain[r] = "waiting" => inflight[r] # 0
        /\ drain[r] = "resolved" => inflight[r] = 0
    BY <1>2 DEF LeasesCounted
  <2>2. drain' = [drain EXCEPT ![q] =
                     IF inflight[q] = 1 /\ drain[q] = "waiting" THEN "resolved" ELSE drain[q]]
    BY DEF q
  <2>3. CASE r # q
    <3>1. inflight'[r] = inflight[r]
      BY <1>4, <1>7, <1>8, <2>3
    <3>2. drain'[r] = drain[r]
      BY <1>7, <2>2, <2>3
    <3>. QED BY <1>7, <2>1, <3>1, <3>2
  <2>4. CASE r = q
    <3>1. inflight[q] \in Nat /\ inflight[q] # 0 /\ inflight'[q] = inflight[q] - 1
      BY <1>2, <1>6, <1>7, <1>8, CallsFinite
    <3>. QED BY <1>7, <2>1, <2>2, <2>4, <3>1
  <2>. QED BY <2>3, <2>4
<1>11. DOMAIN drain' = Revisions /\ drain' = [r \in Revisions |-> drain'[r]]
  BY <1>7
<1>. QED BY <1>8, <1>9, <1>10, <1>11 DEF LeasesCounted

LEMMA SettledIs ==
    ASSUME NEW e \in Execs
    PROVE  /\ ExecOk(Settled(e)) /\ Settled(e).status = "settled"
           /\ Settled(e).grant = e.grant /\ Settled(e).owned = e.owned
           /\ Settled(e).mode = e.mode /\ ~Settled(e).published /\ Settled(e).entered = 0 /\ Settled(e).io = 0
<1>. DEFINE y == Settled(e)
<1>1. /\ y \in Execs /\ y.status = "settled" /\ y.grant = e.grant /\ y.owned = e.owned
      /\ y.mode = e.mode /\ ~y.published /\ y.entered = 0 /\ y.io = 0 /\ y.frame = Fresh.frame /\ y.depth = 0
  BY FreshExec DEF Settled, Execs
<1>2. \A k \in FrameIds : y.frame[k] = "none"
  BY <1>1, FreshExec
<1>. HIDE DEF y
<1>3. 0 \in FrameIds /\ \A k \in FrameIds : ~(k < 0)
  BY BrokerAssumption DEF BrokerAssumption, FrameIds
<1>4. Chained(y)
  BY <1>1, <1>2, <1>3 DEF Chained, Before, Preflight
<1>5. Phase(y)
  BY <1>1, <1>2 DEF Phase, LeasePending, InFlight, Racing, Settling
<1>. QED BY <1>1, <1>4, <1>5 DEF ExecOk, y

LEMMA CleanupKept ==
    ASSUME BrokerInv, NEW i \in Invocations, Cleanup(i)
    PROVE  BrokerKept
<1>. DEFINE e == inv[i]
            y == Settled(e)
<1>1. /\ e \in Execs /\ e.status = "closing" /\ inv' = [inv EXCEPT ![i] = y]
      /\ UNCHANGED <<plan, closed, registry, closes, revision>>
  BY ExecAt DEF Cleanup, Update
<1>2. /\ ExecOk(y) /\ y.status = "settled" /\ y.grant = e.grant /\ y.owned = e.owned
      /\ y.mode = e.mode /\ ~y.published
  BY <1>1, SettledIs
<1>. HIDE DEF y
<1>3. LeasesCounted'
  BY <1>1, <1>2, LeaseReleased DEF LinkedIn, Cleanup
<1>4. BrokerInv'
  BY <1>1, <1>2, <1>3, CallsInv
<1>5. ASSUME AccountsInv PROVE AccountsInv'
  <2>1. inv'[i] = y /\ UNCHANGED <<registry, closes>>
    BY <1>1, CallChanged
  <2>2. ASSUME NEW b \in Bindings PROVE Account(i, b)'
    <3>1. Account(i, b) /\ (Registered(i, b)' <=> Registered(i, b)) /\ closes' = closes
      BY <1>5, <2>1 DEF AccountsInv, Registered
    <3>. QED BY <1>1, <1>2, <2>1, <3>1 DEF Account
  <2>3. registry' \in [Bindings -> Records] /\ DOMAIN closes' = Invocations \X Bindings
    BY <1>5, <2>1 DEF AccountsInv
  <2>. QED BY <1>1, <1>5, <2>1, <2>2, <2>3, FlowsUnchanged, DeliveredAccounts
<1>. QED BY <1>4, <1>5 DEF BrokerKept

-----------------------------------------------------------------------------
(* Calls begin.                                                            *)

\* A call that begins had nothing before.
LEMMA IdleIs ==
    ASSUME BrokerInv, NEW i \in Invocations, inv[i].status = "idle"
    PROVE  inv[i] = Fresh /\ ~LinkedIn(inv, i) /\ inv[i].entered = 0 /\ inv[i].io = 0 /\ inv[i].result = None
           /\ ~inv[i].aborted
BY ExecAt, FreshExec DEF ExecOk, Phase, LinkedIn

LEMMA IdleAccount ==
    ASSUME BrokerInv, AccountsInv, NEW i \in Invocations, NEW b \in Bindings,
           inv[i].status = "idle"
    PROVE  ~Registered(i, b) /\ closes[<<i, b>>] = 0
<1>1. Account(i, b) /\ ~inv[i].published
  BY IdleIs, FreshExec DEF AccountsInv
<1>. QED BY <1>1 DEF Account

\* The scenarios a behaviour may have.
LEMMA PlanIs ==
    ASSUME BrokerInv, NEW i \in Invocations
    PROVE  /\ plan.kind[i] \in {"open", "share", "close", "storage"}
           /\ revision \in Revisions /\ plan.chain[revision] \in FrameIds /\ 0 \in FrameIds
           /\ \A k \in FrameIds : k \in Nat
<1>1. plan \in Plans /\ revision \in Revisions /\ MaxDepth \in Nat
  BY BrokerAssumption DEF BrokerInv, BrokerAssumption
<1>2. plan.kind \in [Invocations -> {"open", "share", "close", "storage"}]
      /\ plan.chain \in [0 .. MaxRevision -> 0 .. MaxDepth]
  BY <1>1 DEF Plans
<1>3. plan.kind[i] \in {"open", "share", "close", "storage"}
  BY <1>2
<1>4. plan.chain[revision] \in FrameIds
  BY <1>1, <1>2 DEF Revisions, FrameIds
<1>5. 0 \in FrameIds /\ \A k \in FrameIds : k \in Nat
  BY <1>1 DEF FrameIds
<1>. QED BY <1>1, <1>3, <1>4, <1>5

\* One field of an execution is filled in.
LEMMA FilledIs ==
    ASSUME NEW z \in Execs
    PROVE  /\ \A st \in {"running", "settled"} : [z EXCEPT !.status = st] \in Execs
           /\ \A k \in {"open", "share", "close", "storage"} : [z EXCEPT !.kind = k] \in Execs
           /\ \A m \in {"async", "sync", "syncLate"} : [z EXCEPT !.mode = m] \in Execs
           /\ \A r \in Revisions : [z EXCEPT !.rev = r] \in Execs
           /\ \A d \in FrameIds : [z EXCEPT !.depth = d] \in Execs
           /\ \A t \in Bindings \cup {None} : [z EXCEPT !.target = t] \in Execs
           /\ [z EXCEPT !.result = "fail"] \in Execs
<1>1. \A st \in {"running", "settled"} : [z EXCEPT !.status = st] \in Execs
  BY DEF Execs
<1>2. \A k \in {"open", "share", "close", "storage"} : [z EXCEPT !.kind = k] \in Execs
  BY DEF Execs
<1>3. \A m \in {"async", "sync", "syncLate"} : [z EXCEPT !.mode = m] \in Execs
  BY DEF Execs
<1>4. \A r \in Revisions : [z EXCEPT !.rev = r] \in Execs
  BY DEF Execs
<1>5. \A d \in FrameIds : [z EXCEPT !.depth = d] \in Execs
  BY DEF Execs
<1>6. \A t \in Bindings \cup {None} : [z EXCEPT !.target = t] \in Execs
  BY DEF Execs
<1>7. [z EXCEPT !.result = "fail"] \in Execs
  BY DEF Execs
<1>. QED BY <1>1, <1>2, <1>3, <1>4, <1>5, <1>6, <1>7

LEMMA ExecutionIs ==
    ASSUME BrokerInv, NEW kind \in {"open", "share", "close", "storage"},
           NEW mode \in {"async", "sync", "syncLate"}, NEW target \in Bindings \cup {None},
           plan.chain[revision] \in FrameIds, 0 \in FrameIds
    PROVE  LET e == Execution(kind, mode, target)
           IN  /\ e \in Execs /\ e.status = "running" /\ e.kind = kind /\ e.mode = mode
               /\ e.rev = revision /\ e.depth \in FrameIds /\ e.target = target
               /\ ~e.aborted /\ e.entered = 0 /\ e.io = 0 /\ e.grant = <<>> /\ ~e.owned /\ ~e.published
               /\ e.result = None /\ e.frame = [k \in FrameIds |-> "none"]
<1>. DEFINE d == IF kind = "close" THEN 0 ELSE plan.chain[revision]
            e == [Fresh EXCEPT !.status = "running", !.kind = kind, !.mode = mode,
                               !.rev = revision, !.depth = d, !.target = target]
<1>1. d \in FrameIds /\ revision \in Revisions /\ e = Execution(kind, mode, target)
  BY DEF Execution, BrokerInv
<1>. HIDE DEF d
<1>0. e \in Execs
  <2>. DEFINE a == [Fresh EXCEPT !.status = "running"]
              b == [a EXCEPT !.kind = kind]
              c == [b EXCEPT !.mode = mode]
              f == [c EXCEPT !.rev = revision]
              g == [f EXCEPT !.depth = d]
              h == [g EXCEPT !.target = target]
  <2>1. a \in Execs
    BY FreshExec, FilledIs
  <2>2. b \in Execs
    <3>. HIDE DEF a
    <3>. QED BY <2>1, FilledIs
  <2>3. c \in Execs
    <3>. HIDE DEF b
    <3>. QED BY <2>2, FilledIs
  <2>4. f \in Execs
    <3>. HIDE DEF c
    <3>. QED BY <1>1, <2>3, FilledIs
  <2>5. g \in Execs
    <3>. HIDE DEF f
    <3>. QED BY <1>1, <2>4, FilledIs
  <2>6. h \in Execs
    <3>. HIDE DEF g
    <3>. QED BY <2>5, FilledIs
  <2>7. h = e
    OBVIOUS
  <2>. QED BY <2>6, <2>7
<1>2. /\ e \in Execs /\ e.status = "running" /\ e.kind = kind /\ e.mode = mode
      /\ e.rev = revision /\ e.depth \in FrameIds /\ e.target = target
      /\ e.aborted = Fresh.aborted /\ e.entered = Fresh.entered /\ e.io = Fresh.io /\ e.grant = Fresh.grant
      /\ e.owned = Fresh.owned /\ e.published = Fresh.published
      /\ e.result = Fresh.result /\ e.frame = Fresh.frame
  BY <1>0, <1>1, FreshExec DEF Execs
<1>3. Fresh.frame = [k \in FrameIds |-> "none"]
  BY DEF Fresh
<1>. HIDE DEF e
<1>. QED BY <1>1, <1>2, <1>3, FreshExec

LEMMA InvokeTrackedKept ==
    ASSUME BrokerInv, NEW i \in Invocations, NEW target \in Bindings \cup {None},
           InvokeTracked(i, plan.kind[i], target)
    PROVE  BrokerKept
<1>. DEFINE kind == plan.kind[i]
            x == Execution(kind, "async", target)
            fs == [x.frame EXCEPT ![0] = "queued"]
            y == [x EXCEPT !.frame = fs]
<1>1. kind \in {"open", "share", "close", "storage"} /\ 0 \in FrameIds
      /\ plan.chain[revision] \in FrameIds /\ \A k \in FrameIds : k \in Nat
  BY PlanIs
<1>2. /\ inv[i].status = "idle" /\ Prepared(kind, target)
      /\ kind = "storage" => storagePending < MaxPending
      /\ inv' = [inv EXCEPT ![i] = y]
      /\ inflight' = [inflight EXCEPT ![revision] = @ + 1]
      /\ storagePending' = IF kind = "storage" THEN storagePending + 1 ELSE storagePending
      /\ UNCHANGED <<plan, closed, registry, closes, revision, drain>>
  BY DEF InvokeTracked, Update
<1>. HIDE DEF kind
<1>3. /\ x \in Execs /\ x.status = "running" /\ x.kind = kind /\ x.mode = "async"
      /\ x.rev = revision /\ x.depth \in FrameIds /\ x.target = target
      /\ ~x.aborted /\ x.entered = 0 /\ x.io = 0 /\ x.grant = <<>> /\ ~x.owned /\ ~x.published
      /\ x.result = None /\ x.frame = [k \in FrameIds |-> "none"]
  BY <1>1, ExecutionIs
<1>. HIDE DEF x
<1>4. /\ fs \in [FrameIds -> FrameStates]
      /\ \A k \in FrameIds : fs[k] = IF k = 0 THEN "queued" ELSE "none"
  BY <1>1, <1>3 DEF FrameStates, InFlight
<1>. HIDE DEF fs
<1>5. /\ y \in Execs /\ y.status = "running" /\ y.kind = kind /\ y.mode = "async"
      /\ y.rev = revision /\ y.depth \in FrameIds /\ y.target = target
      /\ y.entered = 0 /\ y.io = 0 /\ y.grant = <<>> /\ ~y.published /\ y.result = None /\ y.frame = fs
  BY <1>3, <1>4 DEF Execs
<1>. HIDE DEF y
<1>6. Chained(y)
  <2>1. \A k \in FrameIds : k > y.depth => k # 0
    BY <1>1, <1>5
  <2>2. \A k \in FrameIds : k < y.depth => k + 1 \in FrameIds /\ k + 1 # 0
    BY <1>1, <1>5, BrokerAssumption DEF FrameIds, BrokerAssumption
  <2>. QED BY <1>4, <1>5, <2>1, <2>2 DEF Chained, Preflight
<1>7. Phase(y)
  BY <1>2, <1>5 DEF Phase, Prepared
<1>8. ~LinkedIn(inv, i) /\ ~closed
  BY <1>2, IdleIs DEF Prepared
<1>9. LeasesCounted'
  BY <1>2, <1>5, <1>8, LeaseTaken
<1>10. BrokerInv'
  BY <1>2, <1>5, <1>6, <1>7, <1>8, <1>9, CallsInv DEF ExecOk
<1>11. ASSUME AccountsInv PROVE AccountsInv'
  <2>1. inv'[i] = y /\ UNCHANGED <<registry, closes>>
    BY <1>2, CallChanged
  <2>2. ASSUME NEW b \in Bindings PROVE Account(i, b)'
    <3>1. ~Registered(i, b)' /\ closes'[<<i, b>>] = 0
      BY <1>2, <1>11, <2>1, IdleAccount DEF Registered
    <3>. QED BY <1>5, <2>1, <3>1 DEF Account
  <2>3. registry' \in [Bindings -> Records] /\ DOMAIN closes' = Invocations \X Bindings
    BY <1>11, <2>1 DEF AccountsInv
  <2>. QED BY <1>2, <1>11, <2>1, <2>2, <2>3, FlowsUnchanged, DeliveredAccounts
<1>. QED BY <1>10, <1>11 DEF BrokerKept

LEMMA RefusedKept ==
    ASSUME BrokerInv, NEW i \in Invocations, Refused(i, plan.kind[i])
    PROVE  BrokerKept
<1>. DEFINE kind == plan.kind[i]
            y == [Fresh EXCEPT !.status = "settled", !.kind = kind, !.result = "fail"]
<1>1. kind \in {"open", "share", "close", "storage"}
  BY PlanIs
<1>2. inv[i].status = "idle" /\ inv' = [inv EXCEPT ![i] = y] /\ UNCHANGED Broker
  BY DEF Refused, Update
<1>. HIDE DEF kind
<1>a. y \in Execs
  <2>. DEFINE a == [Fresh EXCEPT !.status = "settled"]
              b == [a EXCEPT !.kind = kind]
              c == [b EXCEPT !.result = "fail"]
  <2>1. a \in Execs
    BY FreshExec, FilledIs
  <2>2. b \in Execs
    <3>. HIDE DEF a
    <3>. QED BY <1>1, <2>1, FilledIs
  <2>3. c \in Execs
    <3>. HIDE DEF b
    <3>. QED BY <2>2, FilledIs
  <2>4. c = y
    OBVIOUS
  <2>. QED BY <2>3, <2>4
<1>b. /\ y.status = "settled" /\ y.grant = Fresh.grant /\ y.published = Fresh.published
      /\ y.frame = Fresh.frame /\ y.entered = Fresh.entered /\ y.io = Fresh.io /\ y.depth = Fresh.depth
  BY FreshExec DEF Execs
<1>3. /\ y \in Execs /\ y.status = "settled" /\ y.grant = <<>> /\ ~y.published
      /\ y.frame = Fresh.frame /\ y.entered = 0 /\ y.io = 0 /\ y.depth = 0
  BY <1>a, <1>b, FreshExec
<1>. HIDE DEF y
<1>4. 0 \in FrameIds /\ \A k \in FrameIds : ~(k < 0)
  BY BrokerAssumption DEF BrokerAssumption, FrameIds
<1>5. Chained(y)
  BY <1>3, <1>4, FreshExec DEF Chained, Before, Preflight
<1>6. Phase(y)
  BY <1>3, FreshExec DEF Phase, LeasePending, InFlight, Racing, Settling
<1>7. LeasesCounted'
  BY <1>2, <1>3, IdleIs, LeasesKept DEF Broker
<1>8. BrokerInv'
  BY <1>2, <1>3, <1>5, <1>6, <1>7, CallsInv DEF Broker, ExecOk
<1>9. ASSUME AccountsInv PROVE AccountsInv'
  <2>1. inv'[i] = y /\ UNCHANGED <<registry, closes>>
    BY <1>2, CallChanged DEF Broker
  <2>2. ASSUME NEW b \in Bindings PROVE Account(i, b)'
    <3>1. ~Registered(i, b)' /\ closes'[<<i, b>>] = 0
      BY <1>2, <1>9, <2>1, IdleAccount DEF Registered
    <3>2. ToSet(y.grant) = {}
      BY <1>3, LenProperties, EmptySeq DEF ToSet
    <3>. QED BY <1>3, <2>1, <3>1, <3>2 DEF Account
  <2>3. registry' \in [Bindings -> Records] /\ DOMAIN closes' = Invocations \X Bindings
    BY <1>9, <2>1 DEF AccountsInv
  <2>. QED BY <1>2, <1>9, <2>1, <2>2, <2>3, FlowsUnchanged, DeliveredAccounts
<1>. QED BY <1>8, <1>9 DEF BrokerKept

\* A call whose frames never ran in a chain.
LEMMA SyncExec ==
    ASSUME NEW y \in Execs, y.status \in {"returned", "settled"}, y.completed,
           \A k \in FrameIds : y.frame[k] = "none"
    PROVE  ExecOk(y)
<1>1. \A k \in FrameIds : k < y.depth => k + 1 \in FrameIds
  BY BrokerAssumption DEF Execs, FrameIds, BrokerAssumption
<1>2. y.depth \in FrameIds
  BY DEF Execs
<1>3. Chained(y)
  BY <1>1, <1>2 DEF Chained, Before, Preflight
<1>4. Phase(y)
  BY DEF Phase, LeasePending, InFlight, Racing, Settling
<1>. QED BY <1>3, <1>4 DEF ExecOk

Endings == {"returned", "settled"}
Results == {"ok", "fail"}

EndsAs(z, st, result, p, a) ==
    [z EXCEPT !.status = st, !.result = result, !.published = p, !.aborted = a]

LEMMA EndsAsIs ==
    ASSUME NEW z \in Execs, NEW st \in Endings, NEW result \in Results,
           NEW p \in BOOLEAN, NEW a \in BOOLEAN
    PROVE  LET y == EndsAs(z, st, result, p, a)
           IN  /\ y \in Execs /\ y.kind = z.kind /\ y.mode = z.mode /\ y.rev = z.rev
               /\ y.frame = z.frame /\ SameIo(y, z) /\ (y.completed <=> z.completed)
               /\ y.grant = z.grant /\ (y.owned <=> z.owned) /\ y.status = st
               /\ (y.published <=> p)
<1>. DEFINE y == EndsAs(z, st, result, p, a)
<1>0. y \in Execs
  BY DEF EndsAs, Execs, Endings, Results
<1>1. /\ y.kind = z.kind /\ y.mode = z.mode /\ y.rev = z.rev
      /\ y.frame = z.frame /\ SameIo(y, z) /\ y.completed = z.completed
      /\ y.grant = z.grant /\ y.owned = z.owned /\ y.status = st /\ y.published = p
  BY DEF EndsAs, Execs, SameIo
<1>. HIDE DEF y
<1>2. /\ y \in Execs /\ y.kind = z.kind /\ y.mode = z.mode /\ y.rev = z.rev
      /\ y.frame = z.frame /\ SameIo(y, z) /\ (y.completed <=> z.completed)
      /\ y.grant = z.grant /\ (y.owned <=> z.owned) /\ y.status = st /\ (y.published <=> p)
  BY <1>0, <1>1
<1>. QED BY <1>2 DEF y

LEMMA InvokeSyncKept ==
    ASSUME BrokerInv, NEW i \in Invocations, NEW grant \in Grants \cup {<<>>},
           NEW v \in {"own", "inner"}, InvokeSync(i, plan.kind[i], None, grant, v)
    PROVE  BrokerKept
<1>. DEFINE kind == plan.kind[i]
            x == Execution(kind, "sync", None)
            ok == v = "inner" /\ Publishable(grant)
            settledNow == grant = <<>> \/ ok
            st == IF settledNow THEN "settled" ELSE "returned"
            result == IF ok \/ v = "own" THEN "ok" ELSE "fail"
            late == ~settledNow
            z == [x EXCEPT !.entered = 1, !.io = 1, !.completed = TRUE, !.grant = grant, !.owned = TRUE]
            y == EndsAs(z, st, result, ok, late)
<1>1. kind \in {"open", "share", "close", "storage"} /\ 0 \in FrameIds
      /\ plan.chain[revision] \in FrameIds
  BY PlanIs
<1>2. /\ inv[i].status = "idle" /\ ~closed
      /\ inv' = [inv EXCEPT ![i] = y]
      /\ registry' = IF v = "inner" THEN WithPublished(i, grant) ELSE registry
      /\ inflight' = IF settledNow THEN inflight ELSE [inflight EXCEPT ![revision] = @ + 1]
      /\ UNCHANGED <<plan, closed, closes, storagePending, revision, drain>>
  BY DEF InvokeSync, Update, Prepared, EndsAs
<1>3. /\ st \in Endings /\ (st = "settled" <=> settledNow)
      /\ result \in Results /\ ok \in BOOLEAN /\ late \in BOOLEAN
  BY DEF Publishable, Endings, Results
<1>4. grant = <<>> => settledNow
  OBVIOUS
<1>5. ok => settledNow
  OBVIOUS
<1>6. ok <=> v = "inner" /\ Publishable(grant)
  OBVIOUS
<1>. HIDE DEF kind, ok, settledNow, st, result, late
<1>7. /\ x \in Execs /\ x.kind = kind /\ x.mode = "sync" /\ x.rev = revision
      /\ x.frame = [k \in FrameIds |-> "none"]
  BY <1>1, ExecutionIs
<1>. HIDE DEF x
<1>8. /\ z \in Execs /\ z.kind = kind /\ z.mode = "sync" /\ z.rev = revision
      /\ z.frame = x.frame /\ z.entered = 1 /\ z.io = 1 /\ z.completed /\ z.grant = grant /\ z.owned
  BY <1>7 DEF Execs
<1>. HIDE DEF z
<1>a. PICK p \in BOOLEAN, a \in BOOLEAN : (p <=> ok) /\ p = ok /\ a = late
  BY <1>3
<1>b. LET w == EndsAs(z, st, result, p, a)
       IN  /\ w \in Execs /\ w.kind = z.kind /\ w.mode = z.mode /\ w.rev = z.rev
           /\ w.frame = z.frame /\ SameIo(w, z) /\ (w.completed <=> z.completed)
           /\ w.grant = z.grant /\ (w.owned <=> z.owned) /\ w.status = st
           /\ (w.published <=> p)
  BY <1>3, <1>8, EndsAsIs
<1>c. y = EndsAs(z, st, result, p, a)
  BY <1>a
<1>. HIDE DEF y
<1>9. /\ y \in Execs /\ y.kind = kind /\ y.mode = "sync" /\ y.rev = revision
      /\ y.frame = x.frame /\ y.entered = 1 /\ y.io = 1 /\ y.completed /\ y.grant = grant /\ y.owned
      /\ y.status = st /\ (y.published <=> ok)
  BY <1>8, <1>a, <1>b, <1>c DEF SameIo
<1>10. ExecOk(y)
  BY <1>3, <1>7, <1>9, SyncExec DEF Endings
<1>11. ~LinkedIn(inv, i)
  BY <1>2, IdleIs
<1>12. LeasesCounted'
  <2>1. CASE settledNow
    BY <1>2, <1>3, <1>9, <1>11, <2>1, LeasesKept
  <2>2. CASE ~settledNow
    BY <1>2, <1>3, <1>9, <1>11, <2>2, LeaseTaken DEF Endings
  <2>. QED BY <2>1, <2>2
<1>13. BrokerInv'
  BY <1>2, <1>10, <1>12, CallsInv
<1>14. ASSUME SingleGrants, AccountsInv PROVE AccountsInv'
  <2>1. grant \in Seq(Bindings) /\ Len(grant) <= 1
    <3>1. CASE grant = <<>>
      BY <3>1, EmptySeq
    <3>2. CASE grant \in Grants
      BY <1>14, <3>2, BrokerAssumption DEF SingleGrants, BrokerAssumption
    <3>. QED BY <3>1, <3>2
  <2>2. inv'[i] = y
    BY <1>2, CallChanged
  <2>3. /\ registry' \in [Bindings -> Records]
        /\ \A j \in Invocations \ {i}, b \in Bindings : Flows(j, b)
        /\ \A b \in Bindings : Registered(i, b)' <=>
              Registered(i, b) \/ (ok /\ b \in ToSet(grant))
    <3>1. CASE v = "inner"
      BY <1>2, <1>6, <1>14, <2>1, <3>1, GrantEntered
    <3>2. CASE v # "inner"
      <4>1. UNCHANGED <<registry, closes>> /\ ~ok
        BY <1>2, <1>6, <3>2
      <4>. QED BY <1>14, <4>1, FlowsUnchanged DEF AccountsInv, Registered
    <3>. QED BY <3>1, <3>2
  <2>4. ASSUME NEW b \in Bindings PROVE Account(i, b)'
    <3>1. ~Registered(i, b) /\ closes'[<<i, b>>] = 0
      BY <1>2, <1>14, IdleAccount
    <3>2. Registered(i, b)' <=> ok /\ b \in ToSet(grant)
      BY <2>3, <3>1
    <3>3. settledNow /\ b \in ToSet(grant) => ok
      <4>1. ToSet(<<>>) = {}
        BY LenProperties, EmptySeq DEF ToSet
      <4>. QED BY <4>1 DEF settledNow
    <3>. QED BY <1>3, <1>5, <1>9, <2>2, <3>1, <3>2, <3>3 DEF Account, Endings
  <2>5. DOMAIN closes' = Invocations \X Bindings
    BY <1>2, <1>14 DEF AccountsInv
  <2>. QED BY <1>2, <1>14, <2>3, <2>4, <2>5, DeliveredAccounts
<1>. QED BY <1>13, <1>14 DEF BrokerKept

LEMMA InvokeSyncLateKept ==
    ASSUME BrokerInv, NEW i \in Invocations, NEW grant \in Grants, InvokeSyncLate(i, grant)
    PROVE  BrokerKept
<1>. DEFINE x == Execution("open", "syncLate", None)
            d == x.depth
            fs == [x.frame EXCEPT ![d] = "startedLate"]
            y == [x EXCEPT !.status = "returned", !.result = "fail", !.aborted = TRUE,
                           !.entered = 1, !.io = 1, !.completed = TRUE, !.grant = grant, !.frame = fs]
<1>1. 0 \in FrameIds /\ plan.chain[revision] \in FrameIds /\ \A k \in FrameIds : k \in Nat
  BY PlanIs
<1>2. /\ inv[i].status = "idle" /\ ~closed
      /\ inv' = [inv EXCEPT ![i] = y]
      /\ inflight' = [inflight EXCEPT ![revision] = @ + 1]
      /\ UNCHANGED <<plan, closed, registry, closes, storagePending, revision, drain>>
  BY DEF InvokeSyncLate, Update, Prepared
<1>3. /\ x \in Execs /\ x.kind = "open" /\ x.mode = "syncLate" /\ x.rev = revision
      /\ d \in FrameIds /\ ~x.owned /\ ~x.published /\ x.frame = [k \in FrameIds |-> "none"]
  BY <1>1, ExecutionIs
<1>. HIDE DEF x
<1>4. /\ fs \in [FrameIds -> FrameStates]
      /\ \A k \in FrameIds : fs[k] = IF k = d THEN "startedLate" ELSE "none"
  BY <1>3 DEF FrameStates, InFlight, Settling
<1>. HIDE DEF fs
<1>5. /\ y \in Execs /\ y.kind = "open" /\ y.mode = "syncLate" /\ y.rev = revision
      /\ y.depth = d /\ y.frame = fs /\ y.entered = 1 /\ y.io = 1 /\ y.completed /\ y.grant = grant
      /\ y.owned = x.owned /\ y.published = x.published /\ y.status = "returned" /\ y.aborted
  BY <1>3, <1>4 DEF Execs
<1>. HIDE DEF y, d
<1>6. Chained(y)
  <2>1. \A k \in FrameIds : k > d \/ k < d => k # d
    BY <1>1, <1>3
  <2>. QED BY <1>3, <1>4, <1>5, <2>1 DEF Chained, Before, Preflight
<1>7. Phase(y)
  BY <1>5 DEF Phase
<1>8. ~LinkedIn(inv, i)
  BY <1>2, IdleIs
<1>9. LeasesCounted'
  BY <1>2, <1>5, <1>8, LeaseTaken
<1>10. BrokerInv'
  BY <1>2, <1>5, <1>6, <1>7, <1>9, CallsInv DEF ExecOk
<1>11. ASSUME AccountsInv PROVE AccountsInv'
  <2>1. inv'[i] = y /\ UNCHANGED <<registry, closes>>
    BY <1>2, CallChanged
  <2>2. ASSUME NEW b \in Bindings PROVE Account(i, b)'
    <3>1. ~Registered(i, b)' /\ closes'[<<i, b>>] = 0
      BY <1>2, <1>11, <2>1, IdleAccount DEF Registered
    <3>. QED BY <1>3, <1>5, <2>1, <3>1 DEF Account
  <2>3. registry' \in [Bindings -> Records] /\ DOMAIN closes' = Invocations \X Bindings
    BY <1>11, <2>1 DEF AccountsInv
  <2>. QED BY <1>2, <1>11, <2>1, <2>2, <2>3, FlowsUnchanged, DeliveredAccounts
<1>. QED BY <1>10, <1>11 DEF BrokerKept

-----------------------------------------------------------------------------
(* The runtime around the calls.                                           *)

LEMMA FlowsAccounts ==
    ASSUME AccountsInv, \A j \in Invocations, b \in Bindings : Flows(j, b),
           registry' \in [Bindings -> Records], DOMAIN closes' = Invocations \X Bindings,
           \A j \in Invocations :
               /\ inv'[j].grant = inv[j].grant /\ inv'[j].status = inv[j].status
               /\ inv'[j].published = inv[j].published /\ inv'[j].owned = inv[j].owned
               /\ inv'[j].mode = inv[j].mode
    PROVE  AccountsInv'
<1>1. ASSUME NEW j \in Invocations, NEW b \in Bindings PROVE Account(j, b)'
  BY AccountFlows DEF AccountsInv
<1>. QED BY <1>1 DEF AccountsInv, Records, Absent, None

LEMMA CallsUnchanged ==
    ASSUME BrokerInv, UNCHANGED <<plan, closed, inv>>, revision' \in Revisions, LeasesCounted'
    PROVE  BrokerInv'
<1>1. ASSUME NEW i \in Invocations
      PROVE  ExecOk(inv[i])' /\ (closed' /\ Linked(i)' => inv'[i].aborted)
  <2>1. ExecOk(inv[i]) /\ (closed /\ Linked(i) => inv[i].aborted)
    BY DEF BrokerInv
  <2>2. ExecOk(inv'[i]) /\ (closed' /\ Linked(i)' => inv'[i].aborted)
    BY <2>1 DEF Linked
  <2>. QED BY <2>2 DEF ExecOk, Execs, Chained, Phase, LeasePending, Fresh
<1>. QED BY <1>1 DEF BrokerInv

LEMMA SameUsers ==
    ASSUME inv' = inv
    PROVE  Storing(inv)' = Storing(inv) /\ \A r \in Revisions : Users(inv, r)' = Users(inv, r)
BY DEF Storing, Users, LinkedIn

LEMMA ReleaseKept ==
    ASSUME BrokerInv, NEW b \in Bindings, ReleaseResource(b)
    PROVE  BrokerKept
<1>1. LeasesCounted'
  BY SameUsers DEF ReleaseResource, BrokerInv, LeasesCounted
<1>2. BrokerInv'
  BY <1>1, CallsUnchanged DEF ReleaseResource, BrokerInv
<1>3. ASSUME AccountsInv PROVE AccountsInv'
  <2>1. /\ registry' \in [Bindings -> Records] /\ DOMAIN closes' = Invocations \X Bindings
        /\ \A j \in Invocations, c \in Bindings : Flows(j, c)
    BY <1>3, ReleaseFlows DEF ReleaseResource
  <2>. QED BY <1>3, <2>1, FlowsAccounts DEF ReleaseResource
<1>. QED BY <1>2, <1>3 DEF BrokerKept

LEMMA GraphKept ==
    ASSUME BrokerInv, PublishPluginGraph \/ \E r \in Revisions : DrainPluginGraph(r)
    PROVE  BrokerKept
<1>1. UNCHANGED <<plan, closed, inv, registry, closes, storagePending, inflight>>
  BY DEF PublishPluginGraph, DrainPluginGraph
<1>2. /\ LeasesCounted /\ revision \in Nat /\ \A r \in Revisions : r \in Nat
      /\ MaxRevision \in Nat
  BY BrokerAssumption DEF BrokerInv, Revisions, BrokerAssumption
<1>3. revision' \in Revisions /\ LeasesCounted'
  <2>1. CASE PublishPluginGraph
    <3>1. revision' = revision + 1 /\ revision < MaxRevision /\ drain' = drain
      BY <2>1 DEF PublishPluginGraph
    <3>2. revision' \in Revisions /\ \A r \in Revisions : r < revision => r < revision'
      BY <1>2, <3>1 DEF Revisions
    <3>. QED BY <1>1, <1>2, <3>1, <3>2, SameUsers DEF LeasesCounted
  <2>2. ASSUME NEW r \in Revisions, DrainPluginGraph(r) PROVE revision' \in Revisions /\ LeasesCounted'
    <3>1. /\ r < revision /\ revision' = revision
          /\ drain' = [drain EXCEPT ![r] = IF inflight[r] = 0 THEN "resolved" ELSE "waiting"]
      BY <2>2 DEF DrainPluginGraph
    <3>. QED BY <1>1, <1>2, <3>1, SameUsers DEF LeasesCounted, BrokerInv
  <2>. QED BY <2>1, <2>2
<1>4. BrokerInv'
  BY <1>1, <1>3, CallsUnchanged
<1>5. ASSUME AccountsInv PROVE AccountsInv'
  BY <1>1, <1>5, FlowsUnchanged, FlowsAccounts DEF AccountsInv
<1>. QED BY <1>4, <1>5 DEF BrokerKept

LEMMA StutterKept ==
    ASSUME BrokerInv, UNCHANGED brokerVars
    PROVE  BrokerKept
<1>1. LeasesCounted'
  BY SameUsers DEF brokerVars, BrokerInv, LeasesCounted
<1>2. BrokerInv'
  BY <1>1, CallsUnchanged DEF brokerVars, BrokerInv
<1>3. ASSUME AccountsInv PROVE AccountsInv'
  BY <1>3, FlowsUnchanged, FlowsAccounts DEF AccountsInv, brokerVars
<1>. QED BY <1>2, <1>3 DEF BrokerKept

LEMMA AbortIs ==
    ASSUME NEW e, ExecOk(e), e.status # "idle"
    PROVE  /\ ExecOk(Abort(e)) /\ Abort(e).aborted /\ SameIo(Abort(e), e)
           /\ Abort(e).grant = e.grant /\ Abort(e).status = e.status
           /\ Abort(e).published = e.published /\ Abort(e).owned = e.owned
           /\ Abort(e).mode = e.mode /\ Abort(e).rev = e.rev /\ Abort(e).kind = e.kind
<1>. DEFINE y == Abort(e)
<1>1. /\ y \in Execs /\ y.aborted /\ SameIo(y, e) /\ y.grant = e.grant /\ y.status = e.status
      /\ y.published = e.published /\ y.owned = e.owned /\ y.mode = e.mode /\ y.rev = e.rev
      /\ y.kind = e.kind /\ y.frame = e.frame /\ y.called = e.called /\ y.depth = e.depth
      /\ y.target = e.target /\ y.result = e.result /\ y.completed = e.completed
  BY DEF ExecOk, Execs, Abort, SameIo
<1>. HIDE DEF y
<1>2. Chained(y)
  BY <1>1 DEF ExecOk, Chained, SameIo
<1>3. Phase(y)
  BY <1>1 DEF ExecOk, Phase, LeasePending
<1>. QED BY <1>1, <1>2, <1>3 DEF ExecOk, y

LEMMA CloseKept == ASSUME BrokerInv, Close PROVE BrokerKept
<1>1. /\ inv' = [i \in Invocations |-> IF Linked(i) THEN Abort(inv[i]) ELSE inv[i]]
      /\ UNCHANGED <<plan, storagePending, revision, inflight, drain>> /\ closed'
      /\ closed' \in BOOLEAN
  BY DEF Close
<1>2. ASSUME NEW i \in Invocations
      PROVE  /\ ExecOk(inv'[i]) /\ SameIo(inv'[i], inv[i])
             /\ inv'[i].grant = inv[i].grant /\ inv'[i].status = inv[i].status
             /\ inv'[i].published = inv[i].published /\ inv'[i].owned = inv[i].owned
             /\ inv'[i].mode = inv[i].mode /\ inv'[i].rev = inv[i].rev
             /\ inv'[i].kind = inv[i].kind /\ (Linked(i) => inv'[i].aborted)
  <2>1. CASE Linked(i)
    BY <1>1, <2>1, ExecAt, AbortIs DEF Linked
  <2>2. CASE ~Linked(i)
    BY <1>1, <2>2, ExecAt DEF SameIo
  <2>. QED BY <2>1, <2>2
<1>3. /\ \A i \in Invocations : LinkedIn(inv', i) <=> LinkedIn(inv, i)
      /\ \A i \in Invocations : Linked(i)' <=> Linked(i)
  BY <1>2 DEF LinkedIn, Linked
<1>4. Storing(inv)' = Storing(inv) /\ \A r \in Revisions : Users(inv, r)' = Users(inv, r)
  BY <1>2, <1>3 DEF Storing, Users
<1>5. LeasesCounted'
  BY <1>1, <1>4 DEF BrokerInv, LeasesCounted
<1>6. BrokerInv'
  <2>1. ASSUME NEW i \in Invocations PROVE ExecOk(inv[i])' /\ (closed' /\ Linked(i)' => inv'[i].aborted)
    BY <1>2, <1>3 DEF ExecOk, Execs, Chained, Phase, LeasePending, Fresh
  <2>. QED BY <1>1, <1>5, <2>1 DEF BrokerInv
<1>7. ASSUME AccountsInv PROVE AccountsInv'
  <2>1. registry \in [Bindings -> Records] /\ DOMAIN closes = Invocations \X Bindings
    BY <1>7 DEF AccountsInv
  <2>2. registry' \in [Bindings -> Records] /\ \A b \in Bindings : registry'[b] = Absent
    BY AbsentRecord DEF Close
  <2>. DEFINE rs == {<<registry[c].owner, c>> : c \in {c \in Bindings : registry[c] # Absent}}
  <2>3. closes' = [r \in DOMAIN closes |-> IF r \in rs THEN closes[r] + 1 ELSE closes[r]]
    BY DEF Close, ClosedOnce
  <2>4. \A j \in Invocations, b \in Bindings : <<j, b>> \in rs <=> Registered(j, b)
    BY DEF Registered
  <2>. HIDE DEF rs
  <2>5. \A j \in Invocations, b \in Bindings : Flows(j, b)
    BY <2>1, <2>2, <2>3, <2>4 DEF Flows, Registered
  <2>. QED BY <1>2, <1>7, <2>1, <2>2, <2>3, <2>5, FlowsAccounts
<1>. QED BY <1>6, <1>7 DEF BrokerKept

-----------------------------------------------------------------------------
(* The theorems.                                                           *)

Outcomes(i) ==
    \/ DeliverFailure(i) \/ DeliverOwn(i) \/ DeliverInner(i) \/ DeliverShared(i)
    \/ DeliverClose(i) \/ SettleInvocation(i) \/ Cleanup(i)

LEMMA CallSteps ==
    ASSUME BrokerInv, NEW i \in Invocations, Microtask(i) \/ Timer(i) \/ Host(i) \/ Cancel(i)
    PROVE  Stepped(i) \/ Outcomes(i)
<1>1. CASE Microtask(i)
  <2>1. ASSUME NEW k \in FrameIds,
               Dispatch(i, k) \/ FrameContinues(i, k) \/ FrameAborts(i, k) \/ ProviderContinues(i, k)
        PROVE  Stepped(i)
    BY <2>1, DispatchSteps, ContinueSteps, RaceSteps
  <2>. QED BY <1>1, <2>1 DEF Microtask, Outcomes
<1>2. CASE Timer(i)
  <2>1. ASSUME NEW k \in FrameIds, FrameTimesOut(i, k) \/ Checkpoint(i, k)
        PROVE  Stepped(i)
    BY <2>1, RaceSteps, CheckpointSteps
  <2>. QED BY <1>2, <2>1 DEF Timer
<1>3. CASE Host(i)
  <2>1. PICK k \in FrameIds :
           \/ CallNext(i, k)
           \/ \E v \in {"own", "inner", "fail"} : MiddlewareReturns(i, k, v)
           \/ \E grant \in Grants \cup {<<>>} : Complete(i, k, grant)
           \/ StartIo(i, k)
           \/ ProviderAnswers(i, k)
           \/ ProviderFails(i, k)
    BY <1>3 DEF Host
  <2>2. CASE CallNext(i, k)
    BY <2>2, CallNextSteps
  <2>3. ASSUME NEW v \in {"own", "inner", "fail"}, MiddlewareReturns(i, k, v) PROVE Stepped(i)
    BY <2>3, ReturnSteps
  <2>4. ASSUME NEW grant \in Grants \cup {<<>>}, Complete(i, k, grant) PROVE Stepped(i)
    BY <2>4, CompleteSteps
  <2>5. CASE ProviderAnswers(i, k) \/ ProviderFails(i, k)
    BY <2>5, AnswerSteps
  <2>6. CASE StartIo(i, k)
    BY <2>6, StartIoSteps
  <2>. QED BY <2>1, <2>2, <2>3, <2>4, <2>5, <2>6
<1>4. CASE Cancel(i)
  BY <1>4, CancelSteps
<1>. QED BY <1>1, <1>2, <1>3, <1>4

LEMMA ResultsKept ==
    ASSUME BrokerInv, NEW i \in Invocations, Outcomes(i)
    PROVE  BrokerKept
BY DeliverOutcome, DeliverInnerKept, DeliverSharedKept, SettleKept, CleanupKept DEF Outcomes

LEMMA BeginKept ==
    ASSUME BrokerInv, NEW i \in Invocations, Begin(i)
    PROVE  BrokerKept
<1>1. ASSUME NEW target \in Bindings \cup {None}, InvokeTracked(i, plan.kind[i], target)
      PROVE  BrokerKept
  BY <1>1, InvokeTrackedKept
<1>2. ASSUME NEW grant \in Grants \cup {<<>>}, NEW v \in {"own", "inner"},
             InvokeSync(i, plan.kind[i], None, grant, v)
      PROVE  BrokerKept
  BY <1>2, InvokeSyncKept
<1>3. ASSUME NEW grant \in Grants, InvokeSyncLate(i, grant) PROVE BrokerKept
  BY <1>3, InvokeSyncLateKept
<1>. QED BY <1>1, <1>2, <1>3, RefusedKept DEF Begin

LEMMA BrokerStepKept ==
    ASSUME BrokerInv, [BrokerNext]_brokerVars
    PROVE  BrokerKept
<1>1. ASSUME NEW i \in Invocations, Microtask(i) \/ Timer(i) \/ Host(i) \/ Cancel(i)
      PROVE  BrokerKept
  BY <1>1, CallSteps, OwnKept, ResultsKept
<1>2. ASSUME NEW i \in Invocations, Begin(i) PROVE BrokerKept
  BY <1>2, BeginKept
<1>3. ASSUME NEW b \in Bindings, ReleaseResource(b) PROVE BrokerKept
  BY <1>3, ReleaseKept
<1>4. CASE PublishPluginGraph \/ \E r \in Revisions : DrainPluginGraph(r)
  BY <1>4, GraphKept
<1>5. CASE Close
  BY <1>5, CloseKept
<1>6. CASE Rest \/ UNCHANGED brokerVars
  BY <1>6, StutterKept DEF Rest
<1>. QED BY <1>1, <1>2, <1>3, <1>4, <1>5, <1>6 DEF BrokerNext

LEMMA BrokerInitInv == BrokerInit => BrokerInv /\ AccountsInv
<1>. SUFFICES ASSUME BrokerInit PROVE BrokerInv /\ AccountsInv
  OBVIOUS
<1>1. /\ plan \in CallScenarios /\ closed = FALSE /\ inv = [i \in Invocations |-> Fresh]
      /\ registry = [b \in Bindings |-> Absent]
      /\ closes = [r \in Invocations \X Bindings |-> 0] /\ storagePending = 0
      /\ revision = 0 /\ inflight = [r \in Revisions |-> 0]
      /\ drain = [r \in Revisions |-> "none"]
  BY DEF BrokerInit
<1>2. \A i \in Invocations : inv[i] = Fresh /\ inv[i].status = "idle"
  BY <1>1, FreshExec
<1>3. 0 \in Revisions /\ MaxPending \in Nat /\ ~(Fresh.entered > 0) /\ ~(Fresh.io > 0)
  BY FreshExec, BrokerAssumption DEF Revisions, BrokerAssumption
<1>4. ExecOk(Fresh)
  <2>1. \A k \in FrameIds : k < Fresh.depth => k + 1 \in FrameIds
    BY FreshExec, BrokerAssumption DEF FrameIds, BrokerAssumption
  <2>2. Chained(Fresh)
    BY <2>1, FreshExec DEF Chained, Before, Preflight
  <2>3. Phase(Fresh)
    BY FreshExec DEF Phase, LeasePending, InFlight, Racing, Settling
  <2>. QED BY <2>2, <2>3, FreshExec DEF ExecOk
<1>5. LeasesCounted
  <2>1. Storing(inv) = {} /\ \A r \in Revisions : Users(inv, r) = {}
    BY <1>2 DEF Storing, Users, LinkedIn
  <2>2. Cardinality(Storing(inv)) = 0 /\ \A r \in Revisions : Cardinality(Users(inv, r)) = 0
    BY <2>1, FS_EmptySet
  <2>. QED BY <1>1, <1>3, <2>2 DEF LeasesCounted
<1>6. BrokerInv
  BY <1>1, <1>2, <1>3, <1>4, <1>5 DEF BrokerInv
<1>7. AccountsInv
  <2>1. ASSUME NEW i \in Invocations, NEW b \in Bindings PROVE Account(i, b)
    <3>1. ~Registered(i, b) /\ closes[<<i, b>>] = 0 /\ ~inv[i].published
      BY <1>1, <1>2, FreshExec DEF Registered
    <3>. QED BY <1>2, <3>1 DEF Account
  <2>. QED BY <1>1, <2>1, AbsentRecord DEF AccountsInv
<1>. QED BY <1>6, <1>7

LEMMA RetainsFromInv == BrokerInv => LeaseRetains
<1>. SUFFICES ASSUME BrokerInv PROVE LeaseRetains
  OBVIOUS
<1>1. LeasesCounted
  BY DEF BrokerInv
<1>2. ASSUME NEW i \in Invocations
      PROVE  /\ LeasePending(inv[i]) => Linked(i)
             /\ Linked(i) => drain[inv[i].rev] # "resolved"
  <2>1. LeasePending(inv[i]) => Linked(i)
    BY ExecAt DEF ExecOk, Phase, Linked
  <2>2. ASSUME Linked(i) PROVE drain[inv[i].rev] # "resolved"
    <3>. DEFINE q == inv[i].rev
    <3>1. q \in Revisions
      BY ExecAt DEF Execs
    <3>2. i \in Users(inv, q)
      BY <2>2 DEF Users, Linked, LinkedIn
    <3>3. Cardinality(Users(inv, q)) # 0
      BY <3>1, <3>2, CallsFinite, FS_EmptySet
    <3>. QED BY <1>1, <3>1, <3>3 DEF LeasesCounted
  <2>. QED BY <2>1, <2>2
<1>3. ASSUME NEW r \in Revisions, drain[r] = "waiting"
      PROVE  \E i \in Invocations : Linked(i) /\ inv[i].rev = r
  <2>1. Cardinality(Users(inv, r)) # 0
    BY <1>1, <1>3 DEF LeasesCounted
  <2>2. Users(inv, r) # {}
    BY <2>1, FS_EmptySet
  <2>. QED BY <2>2 DEF Users, Linked, LinkedIn
<1>4. Storing(inv) = {i \in Invocations : /\ Linked(i) /\ inv[i].kind = "storage"
                                          /\ inv[i].mode = "async"}
  BY DEF Storing, Linked, LinkedIn
<1>. QED BY <1>1, <1>2, <1>3, <1>4 DEF LeaseRetains, LeasesCounted

LEMMA AccountedFromInv == BrokerInv /\ AccountsInv => ResourcesAccounted
<1>. SUFFICES ASSUME BrokerInv, AccountsInv, NEW i \in Invocations, NEW b \in ToSet(inv[i].grant),
                     inv[i].owned, inv[i].mode # "syncLate"
              PROVE  /\ closes[<<i, b>>] <= IF Registered(i, b) THEN 0 ELSE 1
                     /\ inv[i].status = "settled" => Registered(i, b) \/ closes[<<i, b>>] = 1
  BY DEF ResourcesAccounted
<1>1. b \in Bindings
  BY GrantIsSeq, LenProperties, ElementOfSeq DEF ToSet
<1>2. Account(i, b)
  BY <1>1 DEF AccountsInv
<1>. QED BY <1>2 DEF Account

\* The lease retains what running work needs until that work is over: a
\* graph is not drained, nor a storage slot given back, before the last frame
\* of each invocation that uses it (invokeTracked, drainPluginGraph).
THEOREM LeasesRetain == BrokerSpec => []LeaseRetains
<1>1. BrokerInit => BrokerInv
  BY BrokerInitInv
<1>2. BrokerInv /\ [BrokerNext]_brokerVars => BrokerInv'
  BY BrokerStepKept DEF BrokerKept
<1>. QED BY <1>1, <1>2, RetainsFromInv, PTL DEF BrokerSpec

\* When no provider hands over two resources at once, none is leaked and
\* none lost: each is closed or registered once its invocation has settled.
THEOREM ResourcesNeverLeak == SingleGrants => (BrokerSpec => []ResourcesKept)
<1>. DEFINE I == BrokerInv /\ AccountsInv
<1>1. BrokerInit => I
  BY BrokerInitInv
<1>2. SingleGrants /\ I /\ [BrokerNext]_brokerVars => I'
  BY BrokerStepKept DEF BrokerKept
<1>3. I => ResourcesKept
  BY RetainsFromInv, AccountedFromInv DEF ResourcesKept
<1>. HIDE DEF I
<1>4. ASSUME SingleGrants PROVE BrokerSpec => []ResourcesKept
  <2>1. I /\ [BrokerNext]_brokerVars => I'
    BY <1>2, <1>4
  <2>. QED BY <1>1, <1>3, <2>1, PTL DEF BrokerSpec
<1>. QED BY <1>4

-----------------------------------------------------------------------------

\* What IoIsFenced says of a step.
FencedStep ==
    \A i \in Invocations :
        LET e == inv[i]
            fenced == e.result = None /\ ~e.aborted /\ ~closed
        IN  /\ inv'[i].entered > e.entered => e.entered = 0 /\ fenced
            /\ inv'[i].io > e.io => e.io = 0 /\ (plan.planned[i] => fenced)

\* A call whose counters do not grow.
Still(y, e) == ~(y.entered > e.entered) /\ ~(y.io > e.io)

LEMMA OneFenced ==
    ASSUME BrokerInv, NEW i \in Invocations, NEW y, inv' = [inv EXCEPT ![i] = y],
           \/ SameIo(y, inv[i]) \/ (y.entered = 0 /\ y.io = 0)
           \/ (inv[i].status = "idle" /\ ~closed) \/ Fenced(y, inv[i], plan.planned[i])
    PROVE  FencedStep
<1>1. inv'[i] = y /\ \A j \in Invocations : j # i => inv'[j] = inv[j]
  BY CallChanged
<1>2. inv[i].status = "running" /\ ~inv[i].aborted => ~closed
  BY DEF BrokerInv, Linked
<1>3. inv[i].status = "idle" =>
        inv[i].entered = 0 /\ inv[i].io = 0 /\ inv[i].result = None /\ ~inv[i].aborted
  BY IdleIs
<1>4. inv[i].entered \in Nat /\ inv[i].io \in Nat
  BY ExecAt
<1>5. LET e == inv[i]
          fenced == e.result = None /\ ~e.aborted /\ ~closed
      IN  /\ y.entered > e.entered => e.entered = 0 /\ fenced
          /\ y.io > e.io => e.io = 0 /\ (plan.planned[i] => fenced)
  <2>1. CASE SameIo(y, inv[i])
    BY <1>4, <2>1 DEF SameIo
  <2>2. CASE y.entered = 0 /\ y.io = 0
    BY <1>4, <2>2
  <2>3. CASE inv[i].status = "idle" /\ ~closed
    BY <1>3, <2>3
  <2>4. CASE Fenced(y, inv[i], plan.planned[i])
    BY <1>2, <2>4 DEF Fenced, Wanted
  <2>. QED BY <2>1, <2>2, <2>3, <2>4
<1>6. \A j \in Invocations : Still(inv[j], inv[j])
  BY ExecAt DEF Still
<1>. QED BY <1>1, <1>5, <1>6 DEF FencedStep, Still

LEMMA ResultsFenced ==
    ASSUME BrokerInv, NEW i \in Invocations, Outcomes(i)
    PROVE  FencedStep
<1>. DEFINE e == inv[i]
<1>1. e \in Execs
  BY ExecAt
<1>2. ASSUME NEW result \in {"ok", "fail"}, NEW p \in BOOLEAN, Update(i, Returned(e, result, p))
      PROVE  FencedStep
  BY <1>1, <1>2, ReturnedIs, OneFenced DEF Update
<1>3. CASE DeliverFailure(i) \/ DeliverOwn(i) \/ DeliverShared(i) \/ DeliverClose(i)
  BY <1>2, <1>3 DEF DeliverFailure, DeliverOwn, DeliverShared, DeliverClose
<1>4. CASE DeliverInner(i)
  <2>. DEFINE p == Publishable(e.grant)
              result == IF p THEN "ok" ELSE "fail"
  <2>1. Update(i, Returned(e, result, p)) /\ p \in BOOLEAN /\ result \in {"ok", "fail"}
    BY <1>4 DEF DeliverInner, Publishable
  <2>. HIDE DEF p, result
  <2>. QED BY <1>2, <2>1
<1>5. CASE SettleInvocation(i)
  <2>1. inv' = [inv EXCEPT ![i] = [e EXCEPT !.status = "closing"]]
    BY <1>5 DEF SettleInvocation, Update
  <2>2. SameIo([e EXCEPT !.status = "closing"], e)
    BY <1>1 DEF Execs, SameIo
  <2>. QED BY <2>1, <2>2, OneFenced
<1>6. CASE Cleanup(i)
  BY <1>1, <1>6, SettledIs, OneFenced DEF Cleanup, Update
<1>. QED BY <1>3, <1>4, <1>5, <1>6 DEF Outcomes

LEMMA BeginFenced ==
    ASSUME BrokerInv, NEW i \in Invocations, Begin(i)
    PROVE  FencedStep
<1>1. ASSUME NEW y, Update(i, y), inv[i].status = "idle", ~closed PROVE FencedStep
  BY <1>1, OneFenced DEF Update
<1>2. ASSUME NEW target \in Bindings \cup {None}, InvokeTracked(i, plan.kind[i], target)
      PROVE  FencedStep
  BY <1>1, <1>2 DEF InvokeTracked, Prepared
<1>3. ASSUME NEW grant \in Grants \cup {<<>>}, NEW v \in {"own", "inner"},
             InvokeSync(i, plan.kind[i], None, grant, v)
      PROVE  FencedStep
  BY <1>1, <1>3 DEF InvokeSync, Prepared
<1>4. ASSUME NEW grant \in Grants, InvokeSyncLate(i, grant) PROVE FencedStep
  BY <1>1, <1>4 DEF InvokeSyncLate, Prepared
<1>5. CASE Refused(i, plan.kind[i])
  <2>. DEFINE y == [Fresh EXCEPT !.status = "settled", !.kind = plan.kind[i], !.result = "fail"]
  <2>1. inv' = [inv EXCEPT ![i] = y]
    BY <1>5 DEF Refused, Update
  <2>2. y.entered = 0 /\ y.io = 0
    BY DEF Fresh
  <2>. HIDE DEF y
  <2>. QED BY <2>1, <2>2, OneFenced
<1>. QED BY <1>2, <1>3, <1>4, <1>5 DEF Begin

LEMMA SameFenced ==
    ASSUME BrokerInv, \A i \in Invocations : SameIo(inv'[i], inv[i])
    PROVE  FencedStep
<1>1. \A i \in Invocations : Still(inv[i], inv[i])
  BY ExecAt DEF Still
<1>. QED BY <1>1 DEF FencedStep, SameIo, Still

LEMMA BrokerStepFenced ==
    ASSUME BrokerInv, [BrokerNext]_brokerVars
    PROVE  FencedStep
<1>1. ASSUME NEW i \in Invocations, Microtask(i) \/ Timer(i) \/ Host(i) \/ Cancel(i)
      PROVE  FencedStep
  <2>1. CASE Stepped(i)
    BY <2>1, OneFenced DEF Stepped
  <2>2. CASE Outcomes(i)
    BY <2>2, ResultsFenced
  <2>. QED BY <1>1, <2>1, <2>2, CallSteps
<1>2. ASSUME NEW i \in Invocations, Begin(i) PROVE FencedStep
  BY <1>2, BeginFenced
<1>3. CASE Close
  <2>1. \A i \in Invocations : Linked(i) => SameIo(Abort(inv[i]), inv[i])
    BY ExecAt, AbortIs DEF Linked
  <2>. QED BY <1>3, <2>1, SameFenced DEF Close, SameIo
<1>4. CASE inv' = inv
  BY <1>4, SameFenced DEF SameIo
<1>5. (\E b \in Bindings : ReleaseResource(b)) \/ PublishPluginGraph
      \/ (\E r \in Revisions : DrainPluginGraph(r)) \/ Rest \/ UNCHANGED brokerVars => inv' = inv
  BY DEF ReleaseResource, PublishPluginGraph, DrainPluginGraph, Rest, brokerVars
<1>. QED BY <1>1, <1>2, <1>3, <1>4, <1>5 DEF BrokerNext

\* A provider is entered at most once for an invocation, and never after its
\* result, an abort or the close of the broker, whatever middleware do with
\* next(); its I/O starts at most once, and with a plan never after those
\* (asyncProvider, invokeCapabilityProviderAsyncV1).
THEOREM IoFenced == BrokerSpec => IoIsFenced
<1>1. BrokerInit => BrokerInv
  BY BrokerInitInv
<1>2. BrokerInv /\ [BrokerNext]_brokerVars => BrokerInv'
  BY BrokerStepKept DEF BrokerKept
<1>3. BrokerInv /\ [BrokerNext]_brokerVars =>
        [\A i \in Invocations :
            LET e == inv[i]
                fenced == e.result = None /\ ~e.aborted /\ ~closed
            IN  /\ inv'[i].entered > e.entered => e.entered = 0 /\ fenced
                /\ inv'[i].io > e.io => e.io = 0 /\ (plan.planned[i] => fenced)]_brokerVars
  BY BrokerStepFenced DEF FencedStep
<1>. QED BY <1>1, <1>2, <1>3, PTL DEF BrokerSpec, IoIsFenced

================================================================================
