--------------------------- MODULE ServiceProcess ---------------------------
(***************************************************************************)
(* The life of one runtime process of the Service: its record and the      *)
(* operations on it (registry), the jobs of its device queue (runner), the *)
(* child process that the native adapter owns, removal, retention, and the *)
(* reconciliation after the Service died.                                  *)
(*                                                                         *)
(* A registry transaction is one step; so is what a job does between two   *)
(* of them.  Requests of clients and the exit of the child come anywhere.  *)
(***************************************************************************)
EXTENDS Naturals, Sequences, FiniteSets, SequencesExt

CONSTANTS
    MaxOps,    \* operations that clients may ask for
    MaxGen,    \* generations of the process
    Breaks,    \* whether the process may wait for a debugger (inspectorMode)
    Scenarios  \* what clients ask for and what may go wrong

ActionKinds == {"stop", "restart", "resume", "remove", "prune"}

FaultKinds ==
    {"launch",    \* the child cannot be started
     "unreaped",  \* and is not gone 2 s after its SIGKILL
     "stuck",     \* a stopped child is not gone after 3 s
     "deaf",      \* the acknowledgement of a resume is lost
     "output"}    \* the output of the child cannot be read

ASSUME ServiceAssumption ==
    /\ MaxOps \in Nat \ {0} /\ MaxGen \in Nat \ {0}
    /\ Breaks \subseteq BOOLEAN /\ Breaks # {}
    /\ \A s \in Scenarios : /\ s.actions \subseteq ActionKinds /\ s.faults \subseteq FaultKinds
                           /\ s.downs \in Nat  \* how often the Service may be closed or die

VARIABLES
    proc,      \* the process record of the state store
    ops,       \* the operation records of the state store, by id
    stopSeen,  \* stop requests that read the process and are not yet admitted
    queue,     \* jobs of the device, the first is running
    aborted,   \* operations whose signal is aborted
    removal,   \* the removal under way
    record,    \* the adapter's record of the child it owns
    alive,     \* generations whose child is alive
    identity,  \* generations whose child.json is on the disk
    watched,   \* generations with a lifecycle subscription and an output pump
    unheard,   \* those of them whose subscription a close has ended
    reconciling,  \* generations the reconciler has still to clean up
    phase,     \* the Service is up, closing or down
    downs,     \* how often it was closed or died
    scenario   \* the scenario of the behaviour

store == <<proc, ops>>
runner == <<stopSeen, queue, aborted, removal, watched>>
host == <<record, alive, identity>>
service == <<reconciling, unheard, phase, downs, scenario>>
vars == <<store, runner, host, service>>

Ops == 1..MaxOps
Gens == 1..MaxGen
Terminal == {"cancelled", "exited", "failed", "lost"}
OpTerminal == {"cancelled", "failed", "succeeded"}

NoProcess == [state |-> "none", gen |-> 0, active |-> 0, cleanup |-> FALSE, break |-> FALSE]
NoOp == [kind |-> "none", gen |-> 0, state |-> "none"]
NoRecord == [gen |-> 0, status |-> "none", terminal |-> "none"]
NoRemoval == [kind |-> "none", pc |-> "none", gen |-> 0]

-----------------------------------------------------------------------------
(* The registry.                                                           *)

\* assertProcessTransition
Allowed(from, to) ==
    \/ from = to
    \/ from \in Terminal /\ to = "queued"
    \/ from = "queued" /\ to \in {"cancelled", "failed", "staging", "starting", "stopping"}
    \/ from = "running" /\ to \in {"exited", "failed", "lost", "stopping"}
    \/ from = "staging" /\ to \in {"cancelled", "failed", "starting", "stopping"}
    \/ from = "starting" /\ to \notin {"queued", "staging"}
    \/ from = "stopping" /\ to \in Terminal \cup {"queued"}
    \/ from = "waiting_for_debugger" /\ to \in {"failed", "lost", "running", "stopping"}

Exists == proc.state \notin {"none", "removed"}

\* getResource and requireExpectedGeneration
IsGeneration(g) == Exists /\ proc.gen = g

\* updateProcess may move generation g to state s
CanUpdate(g, s) == IsGeneration(g) /\ Allowed(proc.state, s)

\* updateOperation may move operation o to state s (assertOperationTransition)
CanSet(o, s) ==
    \/ ops[o].state = s
    \/ ops[o].state = "running" /\ s \in OpTerminal
    \/ ops[o].state = "queued"

SetOp(o, s) == ops' = [ops EXCEPT ![o].state = s]

Updated(s, active) == [proc EXCEPT !.state = s, !.active = active]

\* Mutant: the mark is not written
WithCleanupLost(g) == proc

\* updateProcessCleanupPending; it throws when the generation is gone
WithCleanup(g) == IF IsGeneration(g) THEN [proc EXCEPT !.cleanup = TRUE] ELSE proc

FreeOps == {o \in Ops : ops[o] = NoOp}

NextOp == CHOOSE o \in FreeOps : \A p \in FreeOps : o <= p

\* createOperationRecord under the next unused id
NewOp(kind, gen) ==
    [id |-> NextOp,
     ops |-> [ops EXCEPT ![NextOp] = [kind |-> kind, gen |-> gen, state |-> "queued"]]]

-----------------------------------------------------------------------------
(* Requests of clients (control-core.mjs).  A replayed idempotency key and *)
(* a refused request change nothing.                                       *)

\* late: scheduled while the Service closes
Job(kind, o, g, was) ==
    [kind |-> kind, op |-> o, gen |-> g, was |-> was, pc |-> "begin", cleanup |-> FALSE,
     late |-> phase = "closing"]

StartProcess ==
    /\ phase = "up" /\ proc = NoProcess
    /\ \E break \in Breaks :
          LET new == NewOp("start", 1)
          IN  /\ ops' = new.ops
              /\ proc' = [state |-> "queued", gen |-> 1, active |-> new.id,
                          cleanup |-> FALSE, break |-> break]
              /\ queue' = <<Job("start", new.id, 1, "queued")>>
    /\ UNCHANGED <<stopSeen, aborted, removal, watched, host, service>>

\* createProcessAction in the transaction of admitProcessAction.  The runner
\* schedules the job before another transaction can commit, with the process
\* as this one left it
AdmitAction(kind) ==
    /\ phase = "up" /\ FreeOps # {} /\ Exists /\ proc.state # "stopping"
    /\ kind = "resume" => proc.state = "waiting_for_debugger"
    /\ LET new == NewOp(kind, proc.gen)
           moved == kind # "resume" /\ proc.state \notin Terminal
       IN  /\ ops' = new.ops
           /\ proc' = Updated(IF moved THEN "stopping" ELSE proc.state, new.id)
           /\ queue' = Append(queue, Job(kind, new.id, proc.gen, proc'.state))

\* stopProcess reads the process before its transaction, and remembers the
\* operation that it will abort
StopReads ==
    /\ "stop" \in scenario.actions /\ phase = "up" /\ Exists /\ FreeOps # {} /\ stopSeen = {}
    /\ stopSeen' = {IF proc.state \in {"queued", "staging", "starting"} THEN proc.active ELSE 0}
    /\ UNCHANGED <<store, queue, aborted, removal, watched, host, service>>

AdmitStop ==
    /\ stopSeen # {} /\ AdmitAction("stop")
    /\ aborted' = aborted \cup
          {o \in stopSeen \ {0} : \E i \in DOMAIN queue : queue[i].op = o}
    /\ stopSeen' = {}
    /\ UNCHANGED <<removal, watched, host, service>>

StopRefused ==
    /\ stopSeen # {} /\ (~Exists \/ proc.state = "stopping" \/ FreeOps = {})
    /\ stopSeen' = {}
    /\ UNCHANGED <<store, queue, aborted, removal, watched, host, service>>

AdmitRestart ==
    /\ "restart" \in scenario.actions /\ proc.gen < MaxGen /\ AdmitAction("restart")
    /\ UNCHANGED <<stopSeen, aborted, removal, watched, host, service>>

AdmitResume ==
    /\ "resume" \in scenario.actions /\ AdmitAction("resume")
    /\ UNCHANGED <<stopSeen, aborted, removal, watched, host, service>>

-----------------------------------------------------------------------------
(* The native adapter: stopProcess of a generation.  The child closes in   *)
(* time, or the wait ends with cleanupPending and its record stays         *)
(* stopping; a later call shares that outcome until the child closes.      *)

Owns(g) == record.gen = g /\ record.status \in {"live", "stuck"}

StopConfirmed(g) ==
    /\ Owns(g) => record.status = "live"
    /\ IF Owns(g)
       THEN /\ record' = [record EXCEPT !.status = "closed"]
            /\ alive' = alive \ {g}
       ELSE UNCHANGED <<record, alive>>
    /\ UNCHANGED identity

StopTimesOut(g) ==
    /\ "stuck" \in scenario.faults /\ Owns(g)
    /\ record' = [record EXCEPT !.status = "stuck"]
    /\ UNCHANGED <<alive, identity>>

-----------------------------------------------------------------------------
(* The running job.                                                        *)

job == Head(queue)
At(kinds, pc) == queue # <<>> /\ job.kind \in kinds /\ job.pc = pc
Aborted == job.op \in aborted

JobBecomes(j) == queue' = [queue EXCEPT ![1] = j]
Goto(pc) == JobBecomes([job EXCEPT !.pc = pc])
JobEnds == queue' = Tail(queue)
Unwatch(g) == watched' = watched \ {g}

\* an error reaches the catch of the job; a restart reads the process again
Throw(cleanup) ==
    JobBecomes([job EXCEPT !.pc = "caught", !.cleanup = cleanup,
                           !.gen = IF job.kind = "restart" THEN proc.gen ELSE job.gen])

unchangedByJob == <<stopSeen, aborted, removal, service>>

\* updateOperation(running) before the job's try, with the unwatch after it
JobBegins ==
    /\ \E kind \in {"start", "stop", "restart", "resume"} : At({kind}, "begin")
    /\ IF job.kind = "start" /\ Aborted
       THEN SetOp(job.op, "cancelled") /\ JobEnds
       ELSE IF CanSet(job.op, "running")
            THEN SetOp(job.op, "running") /\ Goto("run")
            ELSE JobEnds /\ UNCHANGED ops
    /\ IF job.kind \in {"stop", "restart"} THEN Unwatch(job.gen) ELSE UNCHANGED watched
    /\ UNCHANGED <<proc, host, unchangedByJob>>

\* updateProcess(staging) of a start, before its try
StartStages ==
    /\ At({"start"}, "run")
    /\ IF CanUpdate(job.gen, "staging")
       THEN proc' = Updated("staging", proc.active) /\ Goto("stage")
       ELSE JobEnds /\ UNCHANGED proc
    /\ UNCHANGED <<ops, watched, host, unchangedByJob>>

\* stageSandboxedAdapterProcess: three transactions
Stage ==
    /\ \/ /\ At({"start", "restart"}, "stage")
          /\ IF CanUpdate(job.gen, "staging")
             THEN proc' = Updated("staging", proc.active) /\ Goto("finalize")
             ELSE Throw(FALSE) /\ UNCHANGED proc
       \/ /\ At({"start", "restart"}, "finalize")
          /\ IF IsGeneration(job.gen) /\ proc.state \in {"queued", "staging"}
             THEN Goto("starting") ELSE Throw(FALSE)
          /\ UNCHANGED proc
       \/ /\ At({"start", "restart"}, "starting")
          /\ IF CanUpdate(job.gen, "starting")
             THEN proc' = Updated("starting", proc.active) /\ Goto("launch")
             ELSE Throw(FALSE) /\ UNCHANGED proc
    /\ UNCHANGED <<ops, watched, host, unchangedByJob>>

\* adapter.startProcess up to the spawn: it is refused when aborted, and
\* fails when something it prepares does
LaunchFails ==
    /\ At({"start", "restart"}, "launch") /\ (Aborted \/ "launch" \in scenario.faults)
    /\ Throw(FALSE)
    /\ UNCHANGED <<store, watched, host, unchangedByJob>>

\* it stops the child of the record it will replace
LaunchStopsPrevious ==
    /\ At({"start", "restart"}, "launch") /\ ~Aborted
    /\ Owns(record.gen)
    /\ \/ StopConfirmed(record.gen) /\ UNCHANGED queue
       \/ StopTimesOut(record.gen) /\ Throw(TRUE)
    /\ UNCHANGED <<store, watched, unchangedByJob>>

Spawn ==
    /\ At({"start", "restart"}, "launch") /\ ~Aborted /\ ~Owns(record.gen)
    /\ record' = [gen |-> job.gen, status |-> "live", terminal |-> "none"]
    /\ alive' = alive \cup {job.gen}
    /\ Goto("identity")
    /\ UNCHANGED <<store, watched, identity, unchangedByJob>>

\* child.json is written, whether the child is still alive or not
WriteIdentity ==
    /\ At({"start", "restart"}, "identity")
    /\ identity' = identity \cup {job.gen}
    /\ Goto("handshake")
    /\ UNCHANGED <<store, watched, record, alive, unchangedByJob>>

\* child.json cannot be written, or the private launch fails: the record is
\* dropped and the child killed; the directory of the generation is kept
\* while the child is not reaped
HandshakeFails ==
    /\ \/ At({"start", "restart"}, "identity") /\ "launch" \in scenario.faults
       \/ /\ At({"start", "restart"}, "handshake")
          /\ "launch" \in scenario.faults \/ job.gen \notin alive
    /\ record' = NoRecord
    /\ \/ /\ alive' = alive \ {job.gen} /\ identity' = identity \ {job.gen}
          /\ Throw(FALSE)
       \/ /\ "unreaped" \in scenario.faults /\ job.gen \in alive
          /\ Throw(TRUE)
          /\ UNCHANGED <<alive, identity>>
    /\ UNCHANGED <<store, watched, unchangedByJob>>

\* the child has its launch; a start that was aborted meanwhile is undone
Handshake ==
    /\ At({"start", "restart"}, "handshake")
    /\ \/ ~Aborted /\ Goto("commit") /\ UNCHANGED host
       \/ Aborted /\ StopConfirmed(job.gen) /\ Throw(FALSE)
       \/ Aborted /\ StopTimesOut(job.gen) /\ Throw(TRUE)
    /\ UNCHANGED <<store, watched, unchangedByJob>>

\* #startAdapterProcess after the launch: publish the state
CommitStart ==
    /\ At({"start", "restart"}, "commit")
    /\ LET state == IF proc.break THEN "waiting_for_debugger" ELSE "running"
       IN  IF CanUpdate(job.gen, state)
           THEN proc' = Updated(state, 0) /\ Goto("watch")
           ELSE Goto("undo") /\ UNCHANGED proc
    /\ UNCHANGED <<ops, watched, host, unchangedByJob>>

PendingTerminal(g) ==
    \E i \in DOMAIN queue : queue[i].kind \in {"terminal", "lost"} /\ queue[i].gen = g

\* lifecycle.watch; a terminal that the record already has is delivered
Watch ==
    /\ At({"start", "restart"}, "watch")
    /\ IF record.gen = job.gen
       THEN /\ watched' = watched \cup {job.gen}
            /\ LET moved == [queue EXCEPT ![1] = [job EXCEPT !.pc = "succeed"]]
               IN  queue' = IF record.terminal = "none" \/ PendingTerminal(job.gen) THEN moved
                            ELSE Append(moved, Job("terminal", 0, job.gen, record.terminal))
       ELSE Goto("undo") /\ UNCHANGED watched
    /\ UNCHANGED <<store, host, unchangedByJob>>

JobSucceeds ==
    /\ At({"start", "stop", "restart", "resume"}, "succeed")
    /\ IF CanSet(job.op, "succeeded") THEN SetOp(job.op, "succeeded") /\ JobEnds
       ELSE /\ IF job.kind \in {"start", "restart"} THEN Throw(FALSE) ELSE Goto("fail")
            /\ UNCHANGED ops
    /\ UNCHANGED <<proc, watched, host, unchangedByJob>>

\* the child of a start that could not be published is stopped; when that
\* is not confirmed the process is marked
UndoStart ==
    /\ At({"start", "restart"}, "undo")
    /\ \/ StopConfirmed(job.gen) /\ UNCHANGED proc
       \/ StopTimesOut(job.gen) /\ proc' = WithCleanup(job.gen)
    /\ Throw(FALSE)
    /\ UNCHANGED <<ops, watched, unchangedByJob>>

\* the catch of a start and of a restart; an aborted start leaves the
\* process to the stop that aborted it
CatchAborted ==
    /\ At({"start"}, "caught") /\ Aborted
    /\ IF CanSet(job.op, "cancelled") THEN SetOp(job.op, "cancelled") ELSE UNCHANGED ops
    /\ JobEnds
    /\ UNCHANGED <<proc, watched, host, unchangedByJob>>

\* #failProcess: its first two transactions
FailProcess ==
    /\ At({"start", "restart"}, "caught") /\ ~(job.kind = "start" /\ Aborted)
    /\ IF job.cleanup
       THEN /\ proc' = WithCleanup(job.gen)
            /\ JobBecomes([job EXCEPT !.cleanup = FALSE])
            /\ UNCHANGED watched
       ELSE /\ Unwatch(job.gen)
            /\ IF CanUpdate(job.gen, "failed")
               THEN proc' = Updated("failed", 0) /\ Goto("fail")
               ELSE JobEnds /\ UNCHANGED proc
    /\ UNCHANGED <<ops, host, unchangedByJob>>

JobFails ==
    /\ At({"start", "stop", "restart", "resume"}, "fail")
    /\ IF CanSet(job.op, "failed") THEN SetOp(job.op, "failed") ELSE UNCHANGED ops
    /\ JobEnds
    /\ UNCHANGED <<proc, watched, host, unchangedByJob>>

\* the stop of the old generation in a stop and in a restart; the state is
\* the one that the admission returned
Halt ==
    /\ At({"stop", "restart"}, "run")
    /\ \/ /\ IF job.was \in Terminal THEN UNCHANGED host ELSE StopConfirmed(job.gen)
          /\ Goto("complete")
       \/ /\ job.was \notin Terminal /\ StopTimesOut(job.gen)
          /\ IF job.kind = "restart" THEN Throw(TRUE) ELSE Goto("unconfirmed")
    /\ UNCHANGED <<store, watched, unchangedByJob>>

\* the process as beginRestart leaves it
Restarted == [proc EXCEPT !.gen = proc.gen + 1, !.state = "queued"]

\* beginRestart
BeginRestart ==
    /\ At({"restart"}, "complete")
    /\ IF IsGeneration(job.gen) /\ proc.active = job.op /\ Allowed(proc.state, "queued")
       THEN /\ proc' = Restarted
            /\ JobBecomes([job EXCEPT !.gen = job.gen + 1, !.pc = "stage"])
       ELSE Throw(FALSE) /\ UNCHANGED proc
    /\ UNCHANGED <<ops, watched, host, unchangedByJob>>

\* completeProcessStop of the job may be applied
CanComplete ==
    /\ IsGeneration(job.gen) /\ ops[job.op] # NoOp
    /\ proc.active = job.op \/ (proc.active = 0 /\ proc.state \in Terminal)

\* Mutant: the natural end of the process is overwritten
CompletedAlways(s) == Updated(s, 0)

\* completeProcessStop: a process that ended by itself keeps its state
Completed(s) == Updated(IF proc.state \in Terminal THEN proc.state ELSE s, 0)

\* Mutant: a refused completion leaves the operation as it is
CompleteStopThrows ==
    /\ At({"stop"}, "complete")
    /\ IF CanComplete
       THEN proc' = Completed("cancelled") /\ Goto("succeed")
       ELSE JobEnds /\ UNCHANGED proc
    /\ UNCHANGED <<ops, watched, host, unchangedByJob>>

CompleteStop ==
    /\ At({"stop"}, "complete")
    /\ IF CanComplete
       THEN proc' = Completed("cancelled") /\ Goto("succeed")
       ELSE Goto("failing") /\ UNCHANGED proc
    /\ UNCHANGED <<ops, watched, host, unchangedByJob>>

\* #failStop: its transactions, each of which may be refused
FailStop ==
    /\ \/ /\ At({"stop"}, "unconfirmed")
          /\ proc' = WithCleanup(job.gen)
          /\ Goto("failing")
       \/ /\ At({"stop"}, "failing")
          /\ proc' = IF CanComplete THEN Completed("failed") ELSE proc
          /\ Goto("fail")
    /\ UNCHANGED <<ops, watched, host, unchangedByJob>>

-----------------------------------------------------------------------------
(* Resume: the adapter releases the entry and waits for the acknowledgement; *)
(* without one the generation is stopped, for the entry may have started.  *)

Resume ==
    /\ At({"resume"}, "run")
    /\ \/ /\ record.gen = job.gen /\ record.status = "live"
          /\ JobBecomes([job EXCEPT !.pc = "resumed", !.was = "running"])
          /\ UNCHANGED host
       \/ /\ "deaf" \in scenario.faults \/ record.gen # job.gen \/ record.status # "live"
          /\ \/ /\ StopConfirmed(job.gen)
                /\ JobBecomes([job EXCEPT !.pc = "resumed", !.was = "failed"])
             \/ /\ StopTimesOut(job.gen)
                /\ JobBecomes([job EXCEPT !.pc = "resumed", !.was = "failed", !.cleanup = TRUE])
    /\ UNCHANGED <<store, watched, unchangedByJob>>

\* completeProcessResume: only a resume that is still current is applied
CompleteResume ==
    /\ At({"resume"}, "resumed")
    /\ LET marked == IF job.cleanup THEN WithCleanup(job.gen) ELSE proc
           applied == /\ IsGeneration(job.gen) /\ proc.active = job.op
                      /\ proc.state = "waiting_for_debugger" /\ ops[job.op].state = "running"
       IN  IF ~Exists \/ ops[job.op] = NoOp THEN JobEnds /\ UNCHANGED <<proc, watched>>
           ELSE IF applied
           THEN /\ proc' = [marked EXCEPT !.state = job.was, !.active = 0]
                /\ Goto(IF job.was = "failed" THEN "fail" ELSE "succeed")
                /\ watched' = IF job.was = "failed" THEN watched \ {job.gen} ELSE watched
           ELSE proc' = marked /\ Goto("superseded") /\ UNCHANGED watched
    /\ UNCHANGED <<ops, host, unchangedByJob>>

ResumeSuperseded ==
    /\ At({"resume"}, "superseded")
    /\ IF CanSet(job.op, "cancelled") THEN SetOp(job.op, "cancelled") ELSE UNCHANGED ops
    /\ JobEnds
    /\ UNCHANGED <<proc, watched, host, unchangedByJob>>

-----------------------------------------------------------------------------
(* The end of the child, and the watcher (process-lifecycle-watcher.mjs).  *)

\* the child's close; publishTerminal unless its record is stopping
ChildExits(g) ==
    /\ g \in alive
    /\ alive' = alive \ {g}
    /\ IF record.gen = g /\ record.status # "closed"
       THEN \E end \in {"exited", "failed"} :
              LET terminal == IF record.status = "live" THEN end ELSE "none"
              IN  /\ record' = [record EXCEPT !.status = "closed", !.terminal = terminal]
                  /\ queue' = IF terminal # "none" /\ g \in watched \ unheard /\ ~PendingTerminal(g)
                              THEN Append(queue, Job("terminal", 0, g, terminal)) ELSE queue
       ELSE UNCHANGED <<record, queue>>
    /\ UNCHANGED <<store, stopSeen, aborted, removal, watched, identity, service>>

\* the output pump gives up: lost()
OutputFails(g) ==
    /\ "output" \in scenario.faults /\ g \in watched /\ ~PendingTerminal(g)
    /\ queue' = Append(queue, Job("lost", 0, g, "lost"))
    /\ UNCHANGED <<store, stopSeen, aborted, removal, watched, host, service>>

\* #settle before its await: a process that ended, is stopping or has a new
\* generation is left alone; lost() stops the child first, in vain or not
SettleBegins ==
    /\ At({"terminal", "lost"}, "begin")
    /\ \/ job.kind = "terminal" /\ UNCHANGED host
       \/ job.kind = "lost" /\ (StopConfirmed(job.gen) \/ StopTimesOut(job.gen))
    /\ IF IsGeneration(job.gen) /\ proc.state \notin Terminal \cup {"stopping"}
       THEN Goto("settle") /\ Unwatch(job.gen)
       ELSE JobEnds /\ UNCHANGED watched
    /\ UNCHANGED <<store, unchangedByJob>>

Settle ==
    /\ At({"terminal", "lost"}, "settle")
    /\ proc' = IF CanUpdate(job.gen, job.was) THEN Updated(job.was, 0) ELSE proc
    /\ JobEnds
    /\ UNCHANGED <<ops, watched, host, unchangedByJob>>

-----------------------------------------------------------------------------
(* Removal by a client (control-direct-mutations.mjs) and by retention     *)
(* (retention.mjs); neither is a job of the device queue.                  *)

Removable == Exists /\ proc.state \in Terminal /\ ~proc.cleanup

RemovalBegins(kind) ==
    /\ kind \in scenario.actions /\ phase = "up" /\ removal = NoRemoval /\ Removable
    /\ kind = "prune" => proc.active = 0
    /\ removal' = [kind |-> kind, pc |-> "adapter", gen |-> proc.gen]
    /\ IF kind = "remove" THEN Unwatch(proc.gen) ELSE UNCHANGED watched
    /\ UNCHANGED <<store, stopSeen, queue, aborted, host, service>>

\* Mutant: the generation of the record is not checked
RecordMatchesAny == TRUE

\* there is no record, or it is the one of the removed generation
RecordMatches == record.gen \in {0, removal.gen}

\* adapter.removeProcess: stop the child, drop the record and the directory
AdapterRemoves ==
    /\ removal.pc = "adapter"
    /\ \/ /\ record.gen = removal.gen => record.status # "stuck"
          /\ RecordMatches
          /\ alive' = IF Owns(removal.gen) THEN alive \ {removal.gen} ELSE alive
          /\ record' = NoRecord
          /\ identity' = identity \ {removal.gen}
          /\ removal' = [removal EXCEPT !.pc = "registry"]
       \/ /\ ~RecordMatches /\ removal' = NoRemoval /\ UNCHANGED host
       \/ /\ StopTimesOut(removal.gen) /\ removal' = NoRemoval
    /\ UNCHANGED <<store, stopSeen, queue, aborted, watched, service>>

\* registry.removeProcess and pruneRegistryRetention check again; both
\* delete the process, removal its operations too
RegistryRemoves ==
    /\ removal.pc = "registry"
    /\ IF /\ IsGeneration(removal.gen) /\ Removable
          /\ removal.kind = "prune" => proc.active = 0
       THEN /\ proc' = [proc EXCEPT !.state = "removed", !.active = 0]
            /\ ops' = IF removal.kind = "remove" THEN [o \in Ops |-> NoOp] ELSE ops
       ELSE UNCHANGED store
    /\ removal' = NoRemoval
    /\ UNCHANGED <<stopSeen, queue, aborted, watched, host, service>>

-----------------------------------------------------------------------------
(* The Service is closed or dies, and is opened again.                     *)

\* the requests have ended: core.close ends the subscriptions, aborts every
\* job and waits for it; the output pumps go on
CloseBegins ==
    /\ phase = "up" /\ downs < scenario.downs /\ proc # NoProcess
    /\ stopSeen = {} /\ removal = NoRemoval
    /\ phase' = "closing" /\ downs' = downs + 1
    /\ unheard' = watched /\ reconciling' = {}
    /\ aborted' = aborted \cup ({queue[i].op : i \in DOMAIN queue} \ {0})
    /\ UNCHANGED <<store, stopSeen, queue, removal, watched, host, scenario>>

\* The jobs that scheduler.close waits for are over; what the watcher scheduled
\* behind it may not be.  outputs.close ends the output pumps; adapters.close
\* stops the child, in vain or not, and drops the record with its subscriptions
CloseEnds ==
    /\ phase = "closing" /\ \A i \in DOMAIN queue : queue[i].late
    /\ phase' = "down"
    /\ \E stopped \in {TRUE} \cup {"stuck" \notin scenario.faults} :
          alive' = IF stopped /\ record.status # "stuck" THEN alive \ {record.gen} ELSE alive
    /\ record' = NoRecord /\ queue' = <<>> /\ aborted' = {} /\ watched' = {} /\ unheard' = {}
    /\ UNCHANGED <<store, stopSeen, removal, identity, reconciling, downs, scenario>>

Crash ==
    /\ phase # "down" /\ downs < scenario.downs /\ proc # NoProcess
    /\ phase' = "down" /\ downs' = downs + 1
    /\ stopSeen' = {} /\ queue' = <<>> /\ aborted' = {}
    /\ removal' = NoRemoval /\ watched' = {} /\ unheard' = {} /\ reconciling' = {}
    /\ record' = NoRecord
    /\ UNCHANGED <<store, alive, identity, scenario>>

\* reconcileProcess of the native adapter, which trusts only child.json
ChildIsGone(g) == g \in identity \ alive

\* reconciler.open, then reconcileServiceState
Open ==
    /\ phase = "down" /\ phase' = "up"
    /\ LET live == Exists /\ proc.state \notin Terminal
           unsure == live \/ (Exists /\ proc.cleanup)
           gone == ChildIsGone(proc.gen)
       IN  /\ proc' = [proc EXCEPT !.state = IF live THEN "lost" ELSE @,
                                   !.active = IF live THEN 0 ELSE @,
                                   !.cleanup = IF unsure THEN ~gone ELSE @]
           /\ reconciling' = IF unsure /\ ~gone THEN {proc.gen} ELSE {}
    /\ ops' = [o \in Ops |-> IF ops[o].state \in {"queued", "running"}
                             THEN [ops[o] EXCEPT !.state = "failed"] ELSE ops[o]]
    /\ UNCHANGED <<runner, host, unheard, downs, scenario>>

\* a later attempt of the reconciler, from the device watcher
Reconcile ==
    /\ phase = "up" /\ \E g \in reconciling :
          /\ ChildIsGone(g)
          /\ reconciling' = reconciling \ {g}
          /\ proc' = IF IsGeneration(g) THEN [proc EXCEPT !.cleanup = FALSE] ELSE proc
    /\ UNCHANGED <<ops, runner, host, unheard, phase, downs, scenario>>

-----------------------------------------------------------------------------
Init ==
    /\ proc = NoProcess /\ ops = [o \in Ops |-> NoOp]
    /\ stopSeen = {} /\ queue = <<>> /\ aborted = {}
    /\ removal = NoRemoval /\ watched = {}
    /\ record = NoRecord /\ alive = {} /\ identity = {}
    /\ reconciling = {} /\ unheard = {} /\ phase = "up" /\ downs = 0 /\ scenario \in Scenarios

Requests ==
    \/ StartProcess \/ StopReads \/ AdmitStop \/ StopRefused \/ AdmitRestart \/ AdmitResume
    \/ \E kind \in {"remove", "prune"} : RemovalBegins(kind)

JobStep ==
    \/ JobBegins \/ StartStages \/ Stage
    \/ LaunchFails \/ LaunchStopsPrevious \/ Spawn \/ WriteIdentity \/ HandshakeFails \/ Handshake
    \/ CommitStart \/ Watch \/ JobSucceeds \/ UndoStart
    \/ CatchAborted \/ FailProcess \/ JobFails
    \/ Halt \/ BeginRestart \/ CompleteStop \/ FailStop
    \/ Resume \/ CompleteResume \/ ResumeSuperseded
    \/ SettleBegins \/ Settle

RemovalStep == AdapterRemoves \/ RegistryRemoves

\* the Service waits for requests: a job or a removal never gets stuck
Idle ==
    /\ queue = <<>> /\ stopSeen = {} /\ removal = NoRemoval
    /\ UNCHANGED vars

Next ==
    \/ Requests \/ JobStep \/ RemovalStep
    \/ \E g \in Gens : ChildExits(g) \/ OutputFails(g)
    \/ CloseBegins \/ CloseEnds \/ Crash \/ Open \/ Reconcile
    \/ Idle

(* The Service's event loop runs what it has scheduled, a Service that died *)
(* is opened again and its device watcher polls.                           *)
Fairness ==
    /\ WF_vars(JobStep) /\ WF_vars(RemovalStep)
    /\ WF_vars(StopRefused \/ AdmitStop)
    /\ WF_vars(CloseEnds) /\ WF_vars(Open) /\ WF_vars(Reconcile)

Spec == Init /\ [][Next]_vars /\ Fairness

-----------------------------------------------------------------------------
(* Properties.                                                             *)

(* A process that is published as ended, or removed, has no child of its   *)
(* generation left unless it says so: "Unconfirmed OS cleanup retains      *)
(* cleanupPending" (adapters/desktop/implementation-plan.md).              *)
EndedIsDead ==
    proc.state \in Terminal \cup {"removed"} /\ ~proc.cleanup => proc.gen \notin alive

(* A process that is published as running or waiting is one the Service    *)
(* can still stop: the adapter has the record of that very generation,     *)
(* whatever removals, restarts and late ends of children are under way.    *)
LiveIsOwned ==
    phase = "up" /\ proc.state \in {"running", "waiting_for_debugger"} => record.gen = proc.gen

(* A child that an older generation left behind is not forgotten: while it *)
(* is alive the process says that a cleanup is pending, also behind a      *)
(* restart that spawned another child.                                     *)
LeftoverIsMarked == \A g \in alive : g # proc.gen => proc.cleanup

(* What the registry says of children is so: an ended process has no child *)
(* left, the record that a restart would read owns the one that runs, and  *)
(* what earlier generations left is known.                                 *)
ChildrenAccounted == EndedIsDead /\ LiveIsOwned /\ LeftoverIsMarked

(* The end of a generation is final: no stop, failure or late event        *)
(* rewrites it, and only a restart with a new generation leaves it.        *)
EndIsFinal ==
    [][proc.state \in Terminal =>
          \/ proc'.state = proc.state /\ proc'.gen = proc.gen
          \/ proc'.state = "queued" /\ proc'.gen = proc.gen + 1
          \/ proc'.state = "removed"]_proc

(* Every stop operation ends, whatever the child and other requests do:    *)
(* "finalizer errors select a failed operation rather than leaving it      *)
(* running" (adapters/desktop/implementation-plan.md).                     *)
StopEnds ==
    []<>(\A o \in Ops : ops[o].kind = "stop" => ops[o].state \notin {"queued", "running"})
====
