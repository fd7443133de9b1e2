------------------------- MODULE MutationCoordinator -------------------------
(***************************************************************************)
(* DurableMutationCoordinator (tools/service/mutation-coordinator.mjs):    *)
(* the direct mutations of the Service run one at a time, each under an    *)
(* idempotency key whose record is on the disk before the work begins.  A  *)
(* key stands for a scope, a key and an input: the same key with another   *)
(* input is refused and changes nothing.                                   *)
(***************************************************************************)
EXTENDS Naturals, FiniteSets

CONSTANTS
    Keys,           \* idempotency keys that clients use
    MaxRecords,     \* MAX_RECORDS
    MaxRestarts,    \* restarts of the Service
    MaxWriteFaults  \* writes of the history that fail

ASSUME MutationAssumption ==
    /\ IsFiniteSet(Keys) /\ MaxRecords \in Nat \ {0}
    /\ MaxRestarts \in Nat /\ MaxWriteFaults \in Nat

VARIABLES
    records,  \* #records: the state of each key's record
    disk,     \* the records in mutations.json
    loaded,   \* #loaded
    task,     \* the key at the head of #tail and what it does next
    worked,   \* history: how often the work of a key began since it expired
    reply,    \* history: the last reply to a request with the key
    restarts, writeFaults

history == <<worked, reply>>
mutationVars == <<records, disk, loaded, task, history, restarts, writeFaults>>

NoTask == [key |-> "none", pc |-> "none"]
RecordStates == {"none", "pending", "succeeded", "failed"}

MutationInit ==
    /\ records = [k \in Keys |-> "none"] /\ disk = records /\ loaded = FALSE
    /\ task = NoTask
    /\ worked = [k \in Keys |-> 0] /\ reply = records
    /\ restarts = 0 /\ writeFaults = 0

Record(k, state) == records' = [records EXCEPT ![k] = state]
Reply(k, answer) == reply' = [reply EXCEPT ![k] = answer]
TaskAt(pc) == task.pc = pc
TaskGoes(pc) == task' = [task EXCEPT !.pc = pc]

\* #persist: it may fail before the file is replaced, or after
PersistOk == disk' = records /\ UNCHANGED writeFaults
PersistFails ==
    /\ writeFaults < MaxWriteFaults /\ writeFaults' = writeFaults + 1
    /\ disk' \in {disk, records}

-----------------------------------------------------------------------------
\* a request reaches the head of #tail; #load the first time
ExecuteBegins(k) ==
    /\ task = NoTask
    /\ task' = [key |-> k, pc |-> "check"]
    /\ records' = IF loaded THEN records ELSE disk
    /\ loaded' = TRUE
    /\ UNCHANGED <<disk, history, restarts, writeFaults>>

\* a record that has not expired answers the request
Replay ==
    /\ TaskAt("check") /\ records[task.key] # "none"
    /\ Reply(task.key, records[task.key])
    /\ task' = NoTask
    /\ UNCHANGED <<records, disk, loaded, worked, restarts, writeFaults>>

LimitExceeded ==
    /\ TaskAt("check") /\ records[task.key] = "none"
    /\ Cardinality({k \in Keys : records[k] # "none"}) >= MaxRecords
    /\ task' = NoTask
    /\ UNCHANGED <<records, disk, loaded, history, restarts, writeFaults>>

\* Mutant: the work begins before the record is written
AdmittedUnwritten ==
    /\ TaskAt("check") /\ records[task.key] = "none"
    /\ Cardinality({k \in Keys : records[k] # "none"}) < MaxRecords
    /\ Record(task.key, "pending") /\ TaskGoes("work")
    /\ UNCHANGED <<disk, loaded, history, restarts, writeFaults>>

Admitted ==
    /\ TaskAt("check") /\ records[task.key] = "none"
    /\ Cardinality({k \in Keys : records[k] # "none"}) < MaxRecords
    /\ Record(task.key, "pending") /\ TaskGoes("intent")
    /\ UNCHANGED <<disk, loaded, history, restarts, writeFaults>>

\* the pending record is written before the work, outside the try
PersistIntent ==
    /\ TaskAt("intent")
    /\ \/ PersistOk /\ TaskGoes("work")
       \/ PersistFails /\ task' = NoTask
    /\ UNCHANGED <<records, loaded, history, restarts>>

Work ==
    /\ TaskAt("work")
    /\ worked' = [worked EXCEPT ![task.key] = @ + 1]
    /\ \/ Record(task.key, "succeeded") /\ TaskGoes("outcome")
       \/ Record(task.key, "failed") /\ TaskGoes("failure")
    /\ UNCHANGED <<disk, loaded, reply, restarts, writeFaults>>

\* Mutant: the outcome is answered without a write
PersistOutcomeSkipped ==
    /\ TaskAt("outcome")
    /\ Reply(task.key, "succeeded") /\ task' = NoTask
    /\ UNCHANGED <<records, disk, loaded, worked, restarts, writeFaults>>

\* the outcome is written inside the try: when the write fails the mutation
\* is recorded as failed although its work succeeded
PersistOutcome ==
    /\ TaskAt("outcome")
    /\ \/ PersistOk /\ Reply(task.key, "succeeded") /\ task' = NoTask /\ UNCHANGED records
       \/ PersistFails /\ Record(task.key, "failed") /\ TaskGoes("failure") /\ UNCHANGED reply
    /\ UNCHANGED <<loaded, worked, restarts>>

PersistFailure ==
    /\ TaskAt("failure")
    /\ PersistOk \/ PersistFails
    /\ Reply(task.key, "failed") /\ task' = NoTask
    /\ UNCHANGED <<records, loaded, worked, restarts>>

\* 24 hours after the admission: the record counts as absent everywhere
Expire(k) ==
    /\ records[k] # "none" \/ disk[k] # "none"
    /\ task = NoTask
    /\ Record(k, "none") /\ disk' = [disk EXCEPT ![k] = "none"]
    /\ worked' = [worked EXCEPT ![k] = 0] /\ Reply(k, "none")
    /\ UNCHANGED <<loaded, task, restarts, writeFaults>>

\* the Service dies and starts again with what is on the disk
MutationRestart ==
    /\ restarts < MaxRestarts /\ restarts' = restarts + 1
    /\ records' = [k \in Keys |-> "none"] /\ loaded' = FALSE
    /\ task' = NoTask
    /\ UNCHANGED <<disk, history, writeFaults>>

MutationNext ==
    \/ \E k \in Keys : ExecuteBegins(k) \/ Expire(k)
    \/ Replay \/ LimitExceeded \/ Admitted \/ PersistIntent \/ Work
    \/ PersistOutcome \/ PersistFailure \/ MutationRestart

MutationSpec == MutationInit /\ [][MutationNext]_mutationVars

-----------------------------------------------------------------------------
(* Within its retention the work of an idempotency key begins at most once, *)
(* whatever the client retries, and whenever the Service dies or a write   *)
(* fails.                                                                  *)
WorkOnce == \A k \in Keys : worked[k] <= 1

(* A mutation that a client was told has succeeded is answered with that   *)
(* success until it expires, across restarts of the Service and failed     *)
(* writes of other mutations.                                              *)
SuccessIsReplayed ==
    [][\A k \in Keys : reply[k] = "succeeded" => reply'[k] \in {"succeeded", "none"}]_mutationVars
====
