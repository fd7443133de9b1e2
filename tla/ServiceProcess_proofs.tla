------------------------- MODULE ServiceProcess_proofs -------------------------
(***************************************************************************)
(* Theorems about the life of a process of the Service, for every number   *)
(* of generations, operations and children, and for every scenario of      *)
(* faults: the end of a generation is final, a process published as ended  *)
(* has no child left unless it says so, and no child is forgotten.         *)
(***************************************************************************)
EXTENDS ServiceProcess, FiniteSetTheorems, SequenceTheorems, WellFoundedInduction, TLAPS

-----------------------------------------------------------------------------
(* The life of a process of the Service: its types.                        *)

Steered == {"start", "stop", "restart", "resume"}
Watchers == {"terminal", "lost"}
Starters == {"start", "restart"}
Gone == Terminal \cup {"removed"}
EndOf == {"exited", "failed", "lost"}
ProcessStates == {"none", "removed", "queued", "staging", "starting", "running", "stopping",
                  "waiting_for_debugger", "cancelled", "exited", "failed", "lost"}

\* the steps of a job of each kind
StarterPcs == {"begin", "run", "stage", "finalize", "starting", "launch", "identity", "handshake", "commit",
               "watch", "succeed", "undo", "caught", "fail"}
StopPcs == {"begin", "run", "unconfirmed", "complete", "failing", "succeed", "fail"}
ResumePcs == {"begin", "run", "resumed", "superseded", "succeed", "fail"}
JobPcs == StarterPcs \cup StopPcs \cup ResumePcs \cup {"settle"}

HasPc(kind, pc) ==
    /\ kind = "start" => pc \in StarterPcs
    /\ kind = "restart" => pc \in StarterPcs \cup {"complete"}
    /\ kind = "stop" => pc \in StopPcs
    /\ kind = "resume" => pc \in ResumePcs
    /\ kind \in Watchers => pc \in {"begin", "settle"}

JobRecords == [kind : Steered \cup Watchers, op : Nat, gen : Nat, was : ProcessStates,
               pc : JobPcs, cleanup : BOOLEAN, late : BOOLEAN]

JobOk(j) ==
    /\ HasPc(j.kind, j.pc)
    /\ j.kind \in Steered => j.op \in Ops
    /\ j.kind \in Watchers => j.was \in EndOf
    /\ j.pc = "resumed" => j.was \in {"running", "failed"}
    /\ j.cleanup => j.pc = "caught" \/ (j.kind = "resume" /\ j.pc \notin {"begin", "run"})

Jobs == {j \in JobRecords : JobOk(j)}
Processes == [state : ProcessStates, gen : Nat, active : Nat, cleanup : BOOLEAN, break : BOOLEAN]
Operations == [kind : Steered \cup {"none"}, gen : Nat,
               state : OpTerminal \cup {"none", "queued", "running"}]
ChildRecords == [gen : Nat, status : {"none", "live", "stuck", "closed"},
            terminal : {"none", "exited", "failed"}]
Removals == [kind : {"none", "remove", "prune"}, pc : {"none", "adapter", "registry"}, gen : Nat]

\* nothing happens before the process is started
Untouched ==
    /\ proc = NoProcess /\ ops = [o \in Ops |-> NoOp] /\ stopSeen = {} /\ queue = <<>>
    /\ removal = NoRemoval /\ watched = {} /\ record = NoRecord
    /\ alive = {} /\ identity = {} /\ reconciling = {} /\ phase = "up"

ServiceTypes ==
    /\ proc \in Processes /\ ops \in [Ops -> Operations] /\ queue \in Seq(Jobs)
    /\ record \in ChildRecords /\ removal \in Removals
    /\ alive \subseteq Nat /\ identity \subseteq Nat /\ watched \subseteq Nat
    /\ stopSeen \subseteq Nat /\ reconciling \subseteq Nat
    /\ phase \in {"up", "closing", "down"} /\ downs \in Nat /\ scenario \in Scenarios
    /\ proc.state = "none" => Untouched

-----------------------------------------------------------------------------
LEMMA ServiceInitTypes == Init => ServiceTypes
<1>. SUFFICES ASSUME Init PROVE ServiceTypes
    OBVIOUS
<1>1. proc \in Processes /\ record \in ChildRecords /\ removal \in Removals
    BY DEF Init, NoProcess, NoRecord, NoRemoval, Processes, ProcessStates, ChildRecords, Removals
<1>2. ops \in [Ops -> Operations]
    BY DEF Init, NoOp, Operations
<1>3. queue \in Seq(Jobs)
    BY DEF Init
<1>. QED BY <1>1, <1>2, <1>3 DEF Init, ServiceTypes, Untouched

\* The job that runs.
LEMMA JobIs ==
    ASSUME ServiceTypes, queue # <<>>
    PROVE  /\ job = queue[1] /\ job \in JobRecords /\ JobOk(job) /\ 1 \in DOMAIN queue
           /\ proc.state # "none" /\ job \in Jobs
<1>1. queue[1] \in Jobs /\ Head(queue) = queue[1] /\ 1 \in DOMAIN queue
    BY HeadTailProperties, ElementOfSeq DEF ServiceTypes
<1>2. proc.state # "none"
    BY DEF ServiceTypes, Untouched
<1>. QED BY <1>1, <1>2 DEF Jobs, job

LEMMA JobMoved ==
    ASSUME ServiceTypes, queue # <<>>, NEW j \in Jobs, JobBecomes(j)
    PROVE  /\ queue' \in Seq(Jobs) /\ queue' # <<>> /\ Head(queue') = j /\ queue'[1] = j
           /\ DOMAIN queue' = DOMAIN queue
           /\ \A i \in DOMAIN queue : i # 1 => queue'[i] = queue[i]
<1>1. queue \in Seq(Jobs) /\ 1 \in DOMAIN queue
    BY JobIs DEF ServiceTypes
<1>2. queue' = [queue EXCEPT ![1] = j]
    BY DEF JobBecomes
<1>3. queue' \in Seq(Jobs) /\ Len(queue') = Len(queue)
    BY <1>1, <1>2, ExceptSeq
<1>4. Len(queue) # 0
    BY <1>1
<1>5. queue' # <<>>
    BY <1>3, <1>4
<1>6. Head(queue') = queue'[1] /\ DOMAIN queue' = DOMAIN queue
    BY <1>1, <1>3, <1>5, HeadTailProperties, LenProperties
<1>7. queue'[1] = j /\ \A i \in DOMAIN queue : i # 1 => queue'[i] = queue[i]
    BY <1>1, <1>2
<1>. QED BY <1>3, <1>5, <1>6, <1>7

LEMMA JobEnded ==
    ASSUME ServiceTypes, queue # <<>>, JobEnds
    PROVE  /\ queue' \in Seq(Jobs)
           /\ \A i \in DOMAIN queue' : i + 1 \in DOMAIN queue /\ i + 1 # 1 /\ queue'[i] = queue[i + 1]
<1>1. queue \in Seq(Jobs) /\ queue' = Tail(queue)
    BY DEF ServiceTypes, JobEnds
<1>2. /\ queue' \in Seq(Jobs) /\ Len(queue') = Len(queue) - 1
      /\ \A i \in 1..Len(queue') : queue'[i] = queue[i + 1]
    BY <1>1, HeadTailProperties
<1>3. DOMAIN queue' = 1..Len(queue') /\ DOMAIN queue = 1..Len(queue) /\ Len(queue) \in Nat
    BY <1>1, <1>2, LenProperties
<1>. QED BY <1>2, <1>3

LEMMA JobAdded ==
    ASSUME ServiceTypes, NEW j \in Jobs, queue' = Append(queue, j)
    PROVE  /\ queue' \in Seq(Jobs) /\ queue' # <<>> /\ queue'[Len(queue) + 1] = j
           /\ DOMAIN queue' = DOMAIN queue \cup {Len(queue) + 1} /\ Len(queue) \in Nat
           /\ DOMAIN queue = 1..Len(queue)
           /\ \A i \in DOMAIN queue : queue'[i] = queue[i]
           /\ queue # <<>> => Head(queue') = Head(queue)
<1>1. queue \in Seq(Jobs) /\ Len(queue) \in Nat /\ DOMAIN queue = 1..Len(queue)
    BY LenProperties DEF ServiceTypes
<1>2. /\ queue' \in Seq(Jobs) /\ queue' # <<>> /\ Len(queue') = Len(queue) + 1
      /\ \A i \in 1..Len(queue) : queue'[i] = queue[i]
      /\ queue'[Len(queue) + 1] = j
    BY <1>1, AppendProperties
<1>3. DOMAIN queue' = 1..(Len(queue) + 1)
    BY <1>1, <1>2, LenProperties
<1>4. Head(queue') = queue'[1]
    BY <1>2, HeadTailProperties
<1>5. queue # <<>> => Head(queue) = queue[1] /\ 1 \in DOMAIN queue
    BY <1>1, HeadTailProperties
<1>. QED BY <1>1, <1>2, <1>3, <1>4, <1>5

\* The job after a step: as before but for what the step changes.
SameJob(q, j) == q.kind = j.kind /\ q.op = j.op

LEMMA JobAt ==
    ASSUME NEW j, j \in JobRecords, JobOk(j), NEW pc \in JobPcs \ {"caught", "resumed"},
           HasPc(j.kind, pc), j.cleanup => j.kind = "resume" /\ pc \notin {"begin", "run"}
    PROVE  /\ [j EXCEPT !.pc = pc] \in Jobs /\ SameJob([j EXCEPT !.pc = pc], j)
           /\ [j EXCEPT !.pc = pc].pc = pc /\ [j EXCEPT !.pc = pc].gen = j.gen
           /\ [j EXCEPT !.pc = pc].was = j.was 
           /\ [j EXCEPT !.pc = pc].cleanup = j.cleanup
<1>. DEFINE q == [j EXCEPT !.pc = pc]
<1>1. /\ q \in JobRecords /\ q.pc = pc /\ q.kind = j.kind /\ q.op = j.op /\ q.gen = j.gen
      /\ q.was = j.was /\ q.cleanup = j.cleanup
    BY DEF JobRecords
<1>. HIDE DEF q
<1>3. JobOk(q)
    BY <1>1 DEF JobOk
<1>4. q \in Jobs /\ SameJob(q, j) /\ q.pc = pc /\ q.gen = j.gen /\ q.was = j.was
      /\ q.cleanup = j.cleanup
    BY <1>1, <1>3 DEF Jobs, SameJob
<1>. QED BY <1>4 DEF q

\* what a step of the running job leaves of the queue
Moved(pc, gen, was, cleanup) ==
    /\ queue' \in Seq(Jobs) /\ queue' # <<>> /\ Head(queue') = queue'[1]
    /\ DOMAIN queue' = DOMAIN queue
    /\ \A i \in DOMAIN queue : i # 1 => queue'[i] = queue[i]
    /\ queue'[1] \in Jobs /\ queue'[1].kind = job.kind /\ queue'[1].op = job.op
    /\ queue'[1].pc = pc /\ queue'[1].gen = gen /\ queue'[1].was = was
    /\ queue'[1].cleanup = cleanup

Shortened ==
    /\ queue' \in Seq(Jobs)
    /\ \A i \in DOMAIN queue' : i + 1 \in DOMAIN queue /\ i + 1 # 1 /\ queue'[i] = queue[i + 1]

LEMMA Went ==
    ASSUME ServiceTypes, queue # <<>>, NEW pc \in JobPcs \ {"caught", "resumed"}, Goto(pc),
           HasPc(job.kind, pc), job.cleanup => job.kind = "resume" /\ pc \notin {"begin", "run"}
    PROVE  Moved(pc, job.gen, job.was, job.cleanup)
<1>. DEFINE q == [job EXCEPT !.pc = pc]
<1>1. job \in JobRecords /\ JobOk(job)
    BY JobIs
<1>2. /\ q \in Jobs /\ SameJob(q, job) /\ q.pc = pc /\ q.gen = job.gen
      /\ q.was = job.was /\ q.cleanup = job.cleanup
    BY <1>1, JobAt
<1>3. JobBecomes(q)
    BY DEF Goto
<1>. HIDE DEF q
<1>. QED BY <1>2, <1>3, JobMoved DEF Moved, SameJob

LEMMA Thrown ==
    ASSUME ServiceTypes, queue # <<>>, NEW cleanup \in BOOLEAN, job.kind \in Starters,
           Throw(cleanup)
    PROVE  \E gen \in Nat :
             /\ Moved("caught", gen, job.was, cleanup)
             /\ gen = IF job.kind = "restart" THEN proc.gen ELSE job.gen
<1>. DEFINE gen == IF job.kind = "restart" THEN proc.gen ELSE job.gen
            q == [job EXCEPT !.pc = "caught", !.cleanup = cleanup, !.gen = gen]
<1>1. job \in JobRecords /\ JobOk(job) /\ proc \in Processes
    BY JobIs DEF ServiceTypes
<1>2. gen \in Nat
    BY <1>1 DEF JobRecords, Processes
<1>0. JobBecomes(q)
    BY DEF Throw
<1>. HIDE DEF gen
<1>3. /\ q \in JobRecords /\ q.kind = job.kind /\ q.op = job.op /\ q.pc = "caught"
      /\ q.gen = gen /\ q.was = job.was /\ q.cleanup = cleanup
    BY <1>1, <1>2 DEF JobRecords, JobPcs, StarterPcs
<1>. HIDE DEF q
<1>4. HasPc(q.kind, q.pc)
    BY <1>3 DEF HasPc, Starters, StarterPcs, Watchers
<1>5. JobOk(q)
    BY <1>1, <1>3, <1>4 DEF JobOk
<1>6. q \in Jobs
    BY <1>3, <1>5 DEF Jobs
<1>7. Moved("caught", gen, job.was, cleanup)
    BY <1>0, <1>3, <1>6, JobMoved DEF Moved
<1>. QED BY <1>2, <1>7 DEF gen

LEMMA Left ==
    ASSUME ServiceTypes, queue # <<>>, JobEnds
    PROVE  Shortened
BY JobEnded DEF Shortened

\* what becomes of the process record
LEMMA ProcessUpdated ==
    ASSUME ServiceTypes, NEW s \in ProcessStates, NEW a \in Nat
    PROVE  /\ Updated(s, a) \in Processes /\ Updated(s, a).state = s /\ Updated(s, a).active = a
           /\ Updated(s, a).gen = proc.gen /\ Updated(s, a).cleanup = proc.cleanup
           /\ Updated(s, a).break = proc.break
BY DEF ServiceTypes, Updated, Processes

LEMMA ProcessMarked ==
    ASSUME ServiceTypes, NEW g
    PROVE  /\ WithCleanup(g) \in Processes /\ WithCleanup(g).state = proc.state
           /\ WithCleanup(g).gen = proc.gen /\ WithCleanup(g).active = proc.active
           /\ proc.cleanup \/ IsGeneration(g) => WithCleanup(g).cleanup
BY DEF ServiceTypes, WithCleanup, Processes

LEMMA OperationSet ==
    ASSUME ServiceTypes, NEW o \in Ops, NEW s \in OpTerminal \cup {"queued", "running"}, SetOp(o, s)
    PROVE  /\ ops' \in [Ops -> Operations] /\ ops'[o].state = s
           /\ \A p \in Ops : p # o => ops'[p] = ops[p]
           /\ \A p \in Ops : ops[p] # NoOp => ops'[p] # NoOp
<1>1. ops \in [Ops -> Operations] /\ ops' = [ops EXCEPT ![o] = [ops[o] EXCEPT !.state = s]]
    BY DEF ServiceTypes, SetOp
<1>2. [ops[o] EXCEPT !.state = s] \in Operations /\ [ops[o] EXCEPT !.state = s].state = s
    BY <1>1 DEF Operations
<1>3. [ops[o] EXCEPT !.state = s] # NoOp
    BY <1>2 DEF NoOp, OpTerminal
<1>. QED BY <1>1, <1>2, <1>3

LEMMA ChildStopped ==
    ASSUME ServiceTypes, NEW g, StopConfirmed(g) \/ StopTimesOut(g)
    PROVE  record' \in ChildRecords /\ alive' \subseteq Nat /\ identity' \subseteq Nat
<1>1. record \in ChildRecords /\ alive \subseteq Nat /\ identity \subseteq Nat
    BY DEF ServiceTypes
<1>2. /\ [record EXCEPT !.status = "closed"] \in ChildRecords
      /\ [record EXCEPT !.status = "stuck"] \in ChildRecords
    BY <1>1 DEF ChildRecords
<1>. QED BY <1>1, <1>2 DEF StopConfirmed, StopTimesOut

LEMMA JobTypes ==
    ASSUME ServiceTypes, queue # <<>>, proc' \in Processes, proc'.state # "none",
           ops' \in [Ops -> Operations], queue' \in Seq(Jobs), record' \in ChildRecords,
           alive' \subseteq Nat, identity' \subseteq Nat, watched' \subseteq Nat,
           UNCHANGED unchangedByJob
    PROVE  ServiceTypes'
BY DEF ServiceTypes, unchangedByJob, service

\* the end of a generation is final in this step
EndKept ==
    proc.state \in Terminal =>
       \/ proc'.state = proc.state /\ proc'.gen = proc.gen
       \/ proc'.state = "queued" /\ proc'.gen = proc.gen + 1
       \/ proc'.state = "removed"

\* the guards of the steps of a job
LEMMA JobIsAt ==
    ASSUME ServiceTypes, NEW kinds, NEW pc, At(kinds, pc)
    PROVE  /\ queue # <<>> /\ job = queue[1] /\ job \in Jobs /\ job \in JobRecords /\ JobOk(job)
           /\ 1 \in DOMAIN queue /\ proc.state # "none" /\ job.kind \in kinds /\ job.pc = pc
           /\ pc \in {"begin", "run"} \/ (job.kind # "resume" /\ pc # "caught") => ~job.cleanup
           /\ proc \in Processes /\ ops \in [Ops -> Operations] /\ record \in ChildRecords
           /\ alive \subseteq Nat /\ identity \subseteq Nat /\ watched \subseteq Nat
           /\ job.gen \in Nat
           /\ job.kind \in Steered => job.op \in Ops
<1>1. queue # <<>> /\ job.kind \in kinds /\ job.pc = pc
    BY DEF At
<1>2. job = queue[1] /\ job \in Jobs /\ job \in JobRecords /\ JobOk(job) /\ 1 \in DOMAIN queue
      /\ proc.state # "none"
    BY <1>1, JobIs
<1>3. /\ pc \in {"begin", "run"} \/ (job.kind # "resume" /\ pc # "caught") => ~job.cleanup
      /\ job.kind \in Steered => job.op \in Ops
    BY <1>1, <1>2 DEF JobOk
<1>4. job.gen \in Nat
    BY <1>2 DEF JobRecords
<1>. QED BY <1>1, <1>2, <1>3, <1>4 DEF ServiceTypes


\* the queue after a step of the job
LEMMA QueueStepped ==
    ASSUME ServiceTypes, queue # <<>>, NEW pc \in JobPcs \ {"caught", "resumed"},
           HasPc(job.kind, pc), Goto(pc) \/ JobEnds,
           job.cleanup => job.kind = "resume" /\ pc \notin {"begin", "run"}
    PROVE  queue' \in Seq(Jobs)
BY Went, Left DEF Moved, Shortened

LEMMA QueueThrown ==
    ASSUME ServiceTypes, queue # <<>>, job.kind \in Starters, NEW cleanup \in BOOLEAN, Throw(cleanup)
    PROVE  queue' \in Seq(Jobs)
BY Thrown DEF Moved

-----------------------------------------------------------------------------
LEMMA TypesJobBegins ==
    ASSUME ServiceTypes, JobBegins PROVE ServiceTypes' /\ EndKept
<1>1. At(Steered, "begin")
    BY DEF JobBegins, At, Steered
<1>2. /\ queue # <<>> /\ job.kind \in Steered /\ job.pc = "begin" /\ ~job.cleanup /\ job.op \in Ops
      /\ ops \in [Ops -> Operations] /\ proc \in Processes /\ proc.state # "none"
    BY <1>1, JobIsAt
<1>3. ops' \in [Ops -> Operations]
    <2>1. SetOp(job.op, "cancelled") \/ SetOp(job.op, "running") \/ UNCHANGED ops
        BY DEF JobBegins
    <2>. QED BY <1>2, <2>1, OperationSet DEF OpTerminal
<1>4. queue' \in Seq(Jobs)
    <2>1. HasPc(job.kind, "run") /\ "run" \in JobPcs
        BY <1>2 DEF HasPc, Steered, Watchers, Starters, StarterPcs, StopPcs, ResumePcs, JobPcs
    <2>. QED BY <1>2, <2>1, QueueStepped DEF JobBegins
<1>5. watched' \subseteq Nat
    BY DEF JobBegins, Unwatch, ServiceTypes
<1>6. UNCHANGED <<proc, record, alive, identity>> /\ UNCHANGED unchangedByJob
    BY DEF JobBegins, host
<1>7. record \in ChildRecords /\ alive \subseteq Nat /\ identity \subseteq Nat
    BY DEF ServiceTypes
<1>. QED BY <1>2, <1>3, <1>4, <1>5, <1>6, <1>7, JobTypes DEF EndKept

LEMMA TypesStartStages ==
    ASSUME ServiceTypes, StartStages PROVE ServiceTypes' /\ EndKept
<1>1. At({"start"}, "run")
    BY DEF StartStages
<1>2. queue # <<>> /\ job.kind = "start" /\ ~job.cleanup /\ proc.state # "none" /\ proc \in Processes
    BY <1>1, JobIsAt
<1>3. queue' \in Seq(Jobs)
    <2>1. HasPc(job.kind, "stage") /\ "stage" \in JobPcs
        BY <1>2 DEF HasPc, Steered, Watchers, Starters, StarterPcs, StopPcs, ResumePcs, JobPcs
    <2>. QED BY <1>2, <2>1, QueueStepped DEF StartStages
<1>4. proc' \in Processes /\ proc'.state # "none" /\ EndKept
    <2>1. CASE UNCHANGED proc
        BY <1>2, <2>1 DEF EndKept
    <2>2. CASE CanUpdate(job.gen, "staging") /\ proc' = Updated("staging", proc.active)
        <3>1. proc.active \in Nat
            BY <1>2 DEF Processes
        <3>. QED BY <2>2, <3>1, ProcessUpdated DEF EndKept, CanUpdate, Allowed, Terminal, ProcessStates
    <2>. QED BY <2>1, <2>2 DEF StartStages
<1>5. UNCHANGED <<ops, record, alive, identity, watched>> /\ UNCHANGED unchangedByJob
    BY DEF StartStages, host
<1>. QED BY <1>1, <1>2, <1>3, <1>4, <1>5, JobTypes, JobIsAt

LEMMA TypesStage ==
    ASSUME ServiceTypes, Stage PROVE ServiceTypes' /\ EndKept
<1>1. PICK pc \in {"stage", "finalize", "starting"} : At(Starters, pc)
    BY DEF Stage, Starters
<1>2. queue # <<>> /\ job.kind \in Starters /\ ~job.cleanup /\ proc.state # "none" /\ proc \in Processes
    BY <1>1, JobIsAt DEF Starters
<1>3. queue' \in Seq(Jobs)
    <2>1. /\ HasPc(job.kind, "finalize") /\ HasPc(job.kind, "starting") /\ HasPc(job.kind, "launch")
          /\ {"finalize", "starting", "launch"} \subseteq JobPcs
        BY <1>2 DEF HasPc, Steered, Watchers, Starters, StarterPcs, StopPcs, ResumePcs, JobPcs
    <2>2. Goto("finalize") \/ Goto("starting") \/ Goto("launch") \/ Throw(FALSE)
        BY DEF Stage
    <2>3. CASE Throw(FALSE)
        BY <1>2, <2>3, QueueThrown
    <2>. QED BY <1>2, <2>1, <2>2, <2>3, QueueStepped
<1>4. proc' \in Processes /\ proc'.state # "none" /\ EndKept
    <2>0. proc.active \in Nat
        BY <1>2 DEF Processes
    <2>1. CASE UNCHANGED proc
        BY <1>2, <2>1 DEF EndKept
    <2>2. CASE CanUpdate(job.gen, "staging") /\ proc' = Updated("staging", proc.active)
        BY <2>2, <2>0, ProcessUpdated DEF EndKept, CanUpdate, Allowed, Terminal, ProcessStates
    <2>3. CASE CanUpdate(job.gen, "starting") /\ proc' = Updated("starting", proc.active)
        BY <2>3, <2>0, ProcessUpdated DEF EndKept, CanUpdate, Allowed, Terminal, ProcessStates
    <2>. QED BY <2>1, <2>2, <2>3 DEF Stage
<1>5. UNCHANGED <<ops, record, alive, identity, watched>> /\ UNCHANGED unchangedByJob
    BY DEF Stage, host
<1>. QED BY <1>1, <1>2, <1>3, <1>4, <1>5, JobTypes, JobIsAt

LEMMA TypesLaunch ==
    ASSUME ServiceTypes, LaunchFails \/ LaunchStopsPrevious PROVE ServiceTypes' /\ EndKept
<1>1. At(Starters, "launch")
    BY DEF LaunchFails, LaunchStopsPrevious, Starters
<1>2. queue # <<>> /\ job.kind \in Starters /\ proc.state # "none" /\ proc \in Processes
    BY <1>1, JobIsAt
<1>3. queue' \in Seq(Jobs)
    BY <1>2, QueueThrown DEF LaunchFails, LaunchStopsPrevious, ServiceTypes
<1>4. record' \in ChildRecords /\ alive' \subseteq Nat /\ identity' \subseteq Nat
    BY ChildStopped DEF LaunchFails, LaunchStopsPrevious, host, ServiceTypes
<1>5. UNCHANGED <<proc, ops, watched>> /\ UNCHANGED unchangedByJob
    BY DEF LaunchFails, LaunchStopsPrevious, store
<1>. QED BY <1>1, <1>2, <1>3, <1>4, <1>5, JobTypes, JobIsAt DEF EndKept

LEMMA TypesSpawn ==
    ASSUME ServiceTypes, Spawn \/ WriteIdentity PROVE ServiceTypes' /\ EndKept
<1>1. At(Starters, "launch") \/ At(Starters, "identity")
    BY DEF Spawn, WriteIdentity, Starters
<1>2. /\ queue # <<>> /\ job.kind \in Starters /\ proc.state # "none" /\ proc \in Processes
      /\ job.gen \in Nat /\ ~job.cleanup
    BY <1>1, JobIsAt DEF Starters
<1>3. queue' \in Seq(Jobs)
    <2>1. HasPc(job.kind, "identity") /\ HasPc(job.kind, "handshake") /\ {"identity", "handshake"} \subseteq JobPcs
        BY <1>2 DEF HasPc, Steered, Watchers, Starters, StarterPcs, StopPcs, ResumePcs, JobPcs
    <2>2. Goto("identity") \/ Goto("handshake")
        BY DEF Spawn, WriteIdentity
    <2>. QED BY <1>2, <2>1, <2>2, QueueStepped
<1>4. record' \in ChildRecords /\ alive' \subseteq Nat /\ identity' \subseteq Nat
    <2>1. CASE Spawn
        BY <1>2, <2>1 DEF Spawn, ServiceTypes, ChildRecords
    <2>2. CASE WriteIdentity
        BY <1>2, <2>2 DEF WriteIdentity, ServiceTypes
    <2>. QED BY <2>1, <2>2
<1>5. UNCHANGED <<proc, ops, watched>> /\ UNCHANGED unchangedByJob
    BY DEF Spawn, WriteIdentity, store
<1>. QED BY <1>1, <1>2, <1>3, <1>4, <1>5, JobTypes, JobIsAt DEF EndKept

LEMMA TypesHandshake ==
    ASSUME ServiceTypes, HandshakeFails \/ Handshake PROVE ServiceTypes' /\ EndKept
<1>1. At(Starters, "identity") \/ At(Starters, "handshake")
    BY DEF HandshakeFails, Handshake, Starters
<1>2. /\ queue # <<>> /\ job.kind \in Starters /\ proc.state # "none" /\ proc \in Processes
      /\ ~job.cleanup
    BY <1>1, JobIsAt DEF Starters
<1>3. queue' \in Seq(Jobs)
    <2>1. HasPc(job.kind, "commit") /\ "commit" \in JobPcs
        BY <1>2 DEF HasPc, Steered, Watchers, Starters, StarterPcs, StopPcs, ResumePcs, JobPcs
    <2>2. Goto("commit") \/ Throw(FALSE) \/ Throw(TRUE)
        BY DEF HandshakeFails, Handshake
    <2>. QED BY <1>2, <2>1, <2>2, QueueThrown, QueueStepped
<1>4. record' \in ChildRecords /\ alive' \subseteq Nat /\ identity' \subseteq Nat
    <2>1. CASE HandshakeFails
        BY <2>1 DEF HandshakeFails, NoRecord, ChildRecords, ServiceTypes
    <2>2. CASE Handshake
        BY <2>2, ChildStopped DEF Handshake, host, ServiceTypes
    <2>. QED BY <2>1, <2>2
<1>5. UNCHANGED <<proc, ops, watched>> /\ UNCHANGED unchangedByJob
    BY DEF HandshakeFails, Handshake, store
<1>. QED BY <1>1, <1>2, <1>3, <1>4, <1>5, JobTypes, JobIsAt DEF EndKept

LEMMA TypesCommitStart ==
    ASSUME ServiceTypes, CommitStart PROVE ServiceTypes' /\ EndKept
<1>1. At(Starters, "commit")
    BY DEF CommitStart, Starters
<1>2. /\ queue # <<>> /\ job.kind \in Starters /\ ~job.cleanup /\ proc.state # "none"
      /\ proc \in Processes
    BY <1>1, JobIsAt DEF Starters
<1>3. queue' \in Seq(Jobs)
    <2>1. HasPc(job.kind, "watch") /\ HasPc(job.kind, "undo") /\ {"watch", "undo"} \subseteq JobPcs
        BY <1>2 DEF HasPc, Steered, Watchers, Starters, StarterPcs, StopPcs, ResumePcs, JobPcs
    <2>. QED BY <1>2, <2>1, QueueStepped DEF CommitStart
<1>4. proc' \in Processes /\ proc'.state # "none" /\ EndKept
    <2>1. CASE UNCHANGED proc
        BY <1>2, <2>1 DEF EndKept
    <2>2. ASSUME NEW state \in {"waiting_for_debugger", "running"},
                 CanUpdate(job.gen, state), proc' = Updated(state, 0)
          PROVE  proc' \in Processes /\ proc'.state # "none" /\ EndKept
        <3>1. state \in ProcessStates /\ 0 \in Nat
            BY DEF ProcessStates
        <3>2. proc.state \notin Terminal
            BY <2>2 DEF CanUpdate, Allowed, Terminal
        <3>. QED BY <2>2, <3>1, <3>2, ProcessUpdated DEF EndKept
    <2>. QED BY <2>1, <2>2 DEF CommitStart
<1>5. UNCHANGED <<ops, record, alive, identity, watched>> /\ UNCHANGED unchangedByJob
    BY DEF CommitStart, host
<1>. QED BY <1>1, <1>2, <1>3, <1>4, <1>5, JobTypes, JobIsAt

\* a watcher's job, as the queue gets it
LEMMA WatcherJob ==
    ASSUME NEW kind \in Watchers, NEW g \in Nat, NEW end \in EndOf
    PROVE  /\ Job(kind, 0, g, end) \in Jobs
           /\ Job(kind, 0, g, end) = [kind |-> kind, op |-> 0, gen |-> g, was |-> end,
                                      pc |-> "begin", cleanup |-> FALSE,
                                      late |-> phase = "closing"]
<1>1. Job(kind, 0, g, end) \in JobRecords
    BY DEF Job, JobRecords, EndOf, HasPc, Steered, Watchers, Starters, StarterPcs, StopPcs, ResumePcs, JobPcs, ProcessStates
<1>2. JobOk(Job(kind, 0, g, end))
    BY DEF Job, JobOk, HasPc, Steered, Watchers, Starters, StarterPcs, StopPcs, ResumePcs, JobPcs
<1>. QED BY <1>1, <1>2 DEF Jobs, Job

\* the queue of Watch: the job moves, and the end of its child may follow it
LEMMA WatchMoved ==
    ASSUME ServiceTypes, Watch, record.gen = job.gen
    PROVE  \E moved \in Seq(Jobs) :
              /\ moved = [queue EXCEPT ![1] = [job EXCEPT !.pc = "succeed"]]
              /\ [job EXCEPT !.pc = "succeed"] \in Jobs
              /\ \/ queue' = moved
                 \/ /\ record.terminal # "none" /\ ~PendingTerminal(job.gen)
                    /\ Job("terminal", 0, job.gen, record.terminal) \in Jobs
                    /\ queue' = Append(moved, Job("terminal", 0, job.gen, record.terminal))
<1>1. At(Starters, "watch")
    BY DEF Watch, Starters
<1>2. /\ queue # <<>> /\ job.kind \in Starters /\ ~job.cleanup /\ job \in JobRecords /\ JobOk(job)
      /\ record \in ChildRecords /\ job.gen \in Nat
    BY <1>1, JobIsAt DEF Starters
<1>. DEFINE q == [job EXCEPT !.pc = "succeed"]
            moved == [queue EXCEPT ![1] = q]
<1>3. q \in Jobs
    <2>1. HasPc(job.kind, "succeed") /\ "succeed" \in JobPcs
        BY <1>2 DEF HasPc, Steered, Watchers, Starters, StarterPcs, StopPcs, ResumePcs, JobPcs
    <2>. QED BY <1>2, <2>1, JobAt
<1>4. moved \in Seq(Jobs)
    <2>. HIDE DEF q
    <2>1. queue \in Seq(Jobs) /\ 1 \in DOMAIN queue
        BY <1>2, JobIs DEF ServiceTypes
    <2>. QED BY <1>3, <2>1, ExceptSeq
<1>5. record.terminal # "none" => Job("terminal", 0, job.gen, record.terminal) \in Jobs
    <2>1. record.terminal # "none" => record.terminal \in EndOf
        BY <1>2 DEF ChildRecords, EndOf
    <2>. QED BY <1>2, <2>1, WatcherJob DEF Watchers
<1>6. queue' = IF record.terminal = "none" \/ PendingTerminal(job.gen) THEN moved
               ELSE Append(moved, Job("terminal", 0, job.gen, record.terminal))
    BY DEF Watch
<1>7. \/ queue' = moved
      \/ /\ record.terminal # "none" /\ ~PendingTerminal(job.gen)
         /\ queue' = Append(moved, Job("terminal", 0, job.gen, record.terminal))
    BY <1>6
<1>. HIDE DEF moved, q
<1>8. moved = [queue EXCEPT ![1] = [job EXCEPT !.pc = "succeed"]] /\ [job EXCEPT !.pc = "succeed"] \in Jobs
    BY <1>3 DEF moved, q
<1>. QED BY <1>4, <1>5, <1>7, <1>8

LEMMA TypesWatch ==
    ASSUME ServiceTypes, Watch PROVE ServiceTypes' /\ EndKept
<1>1. At(Starters, "watch")
    BY DEF Watch, Starters
<1>2. /\ queue # <<>> /\ job.kind \in Starters /\ ~job.cleanup /\ proc.state # "none"
      /\ proc \in Processes /\ job.gen \in Nat
    BY <1>1, JobIsAt DEF Starters
<1>3. queue' \in Seq(Jobs)
    <2>1. CASE record.gen = job.gen
        BY <2>1, WatchMoved, AppendProperties
    <2>2. CASE record.gen # job.gen
        <3>1. HasPc(job.kind, "undo") /\ "undo" \in JobPcs
            BY <1>2 DEF HasPc, Steered, Watchers, Starters, StarterPcs, StopPcs, ResumePcs, JobPcs
        <3>. QED BY <1>2, <2>2, <3>1, QueueStepped DEF Watch
    <2>. QED BY <2>1, <2>2
<1>4. watched' \subseteq Nat
    BY <1>2 DEF Watch, ServiceTypes
<1>5. UNCHANGED <<proc, ops, record, alive, identity>> /\ UNCHANGED unchangedByJob
    BY DEF Watch, store, host
<1>. QED BY <1>1, <1>2, <1>3, <1>4, <1>5, JobTypes, JobIsAt DEF EndKept

LEMMA TypesJobSucceeds ==
    ASSUME ServiceTypes, JobSucceeds PROVE ServiceTypes' /\ EndKept
<1>1. At(Steered, "succeed")
    BY DEF JobSucceeds, Steered
<1>2. /\ queue # <<>> /\ job.kind \in Steered /\ proc.state # "none"
      /\ proc \in Processes /\ job.op \in Ops /\ ops \in [Ops -> Operations]
      /\ job.cleanup => job.kind = "resume"
    BY <1>1, JobIsAt
<1>3. queue' \in Seq(Jobs)
    <2>1. job.kind \notin Starters => HasPc(job.kind, "fail")
        BY <1>2 DEF HasPc, Steered, Watchers, Starters, StarterPcs, StopPcs, ResumePcs, JobPcs
    <2>2. "fail" \in JobPcs
        BY DEF HasPc, Steered, Watchers, Starters, StarterPcs, StopPcs, ResumePcs, JobPcs
    <2>3. CASE JobEnds
        BY <1>2, <2>3, Left DEF Shortened
    <2>4. CASE job.kind \in Starters /\ Throw(FALSE)
        BY <1>2, <2>4, QueueThrown
    <2>5. CASE job.kind \notin Starters /\ Goto("fail")
        BY <1>2, <2>1, <2>2, <2>5, QueueStepped
    <2>. QED BY <2>3, <2>4, <2>5 DEF JobSucceeds, Starters
<1>4. ops' \in [Ops -> Operations]
    <2>1. SetOp(job.op, "succeeded") \/ UNCHANGED ops
        BY DEF JobSucceeds
    <2>. QED BY <1>2, <2>1, OperationSet DEF OpTerminal
<1>5. UNCHANGED <<proc, record, alive, identity, watched>> /\ UNCHANGED unchangedByJob
    BY DEF JobSucceeds, host
<1>. QED BY <1>1, <1>2, <1>3, <1>4, <1>5, JobTypes, JobIsAt DEF EndKept

LEMMA TypesUndoStart ==
    ASSUME ServiceTypes, UndoStart PROVE ServiceTypes' /\ EndKept
<1>1. At(Starters, "undo")
    BY DEF UndoStart, Starters
<1>2. queue # <<>> /\ job.kind \in Starters /\ proc.state # "none" /\ proc \in Processes
    BY <1>1, JobIsAt
<1>3. queue' \in Seq(Jobs)
    BY <1>2, QueueThrown DEF UndoStart
<1>4. proc' \in Processes /\ proc'.state # "none" /\ EndKept
    <2>1. UNCHANGED proc \/ proc' = WithCleanup(job.gen)
        BY DEF UndoStart
    <2>. QED BY <1>2, <2>1, ProcessMarked DEF EndKept
<1>5. record' \in ChildRecords /\ alive' \subseteq Nat /\ identity' \subseteq Nat
    BY ChildStopped DEF UndoStart
<1>6. UNCHANGED <<ops, watched>> /\ UNCHANGED unchangedByJob
    BY DEF UndoStart
<1>. QED BY <1>1, <1>2, <1>3, <1>4, <1>5, <1>6, JobTypes, JobIsAt

LEMMA TypesJobEnds ==
    ASSUME ServiceTypes, CatchAborted \/ JobFails \/ ResumeSuperseded PROVE ServiceTypes' /\ EndKept
<1>1. PICK pc \in {"caught", "fail", "superseded"} : At(Steered, pc)
    BY DEF CatchAborted, JobFails, ResumeSuperseded, Steered, At
<1>2. /\ queue # <<>> /\ job.kind \in Steered /\ proc.state # "none" /\ proc \in Processes
      /\ job.op \in Ops /\ ops \in [Ops -> Operations]
    BY <1>1, JobIsAt
<1>3. queue' \in Seq(Jobs)
    <2>1. JobEnds
        BY DEF CatchAborted, JobFails, ResumeSuperseded
    <2>. QED BY <1>2, <2>1, Left DEF Shortened
<1>4. ops' \in [Ops -> Operations]
    <2>1. SetOp(job.op, "cancelled") \/ SetOp(job.op, "failed") \/ UNCHANGED ops
        BY DEF CatchAborted, JobFails, ResumeSuperseded
    <2>. QED BY <1>2, <2>1, OperationSet DEF OpTerminal
<1>5. UNCHANGED <<proc, record, alive, identity, watched>> /\ UNCHANGED unchangedByJob
    BY DEF CatchAborted, JobFails, ResumeSuperseded, host
<1>. QED BY <1>1, <1>2, <1>3, <1>4, <1>5, JobTypes, JobIsAt DEF EndKept

LEMMA Unmarked ==
    ASSUME ServiceTypes, queue # <<>>, JobBecomes([job EXCEPT !.cleanup = FALSE])
    PROVE  Moved(job.pc, job.gen, job.was, FALSE)
<1>. DEFINE q == [job EXCEPT !.cleanup = FALSE]
<1>1. job \in JobRecords /\ JobOk(job)
    BY JobIs
<1>2. /\ q \in JobRecords /\ q.kind = job.kind /\ q.op = job.op /\ q.pc = job.pc
      /\ q.gen = job.gen /\ q.was = job.was /\ q.cleanup = FALSE
    BY <1>1 DEF JobRecords
<1>. HIDE DEF q
<1>3. q \in Jobs
    BY <1>1, <1>2 DEF JobOk, Jobs
<1>4. JobBecomes(q)
    BY DEF q
<1>. QED BY <1>2, <1>3, <1>4, JobMoved DEF Moved

LEMMA TypesFailProcess ==
    ASSUME ServiceTypes, FailProcess PROVE ServiceTypes' /\ EndKept
<1>1. At(Starters, "caught")
    BY DEF FailProcess, Starters
<1>2. /\ queue # <<>> /\ job.kind \in Starters /\ proc.state # "none" /\ proc \in Processes
      /\ watched \subseteq Nat
    BY <1>1, JobIsAt
<1>3. CASE job.cleanup
    <2>1. queue' \in Seq(Jobs)
        BY <1>2, <1>3, Unmarked DEF FailProcess, Moved
    <2>2. proc' \in Processes /\ proc'.state # "none" /\ EndKept
        BY <1>2, <1>3, ProcessMarked DEF FailProcess, EndKept
    <2>3. UNCHANGED <<ops, record, alive, identity, watched>> /\ UNCHANGED unchangedByJob
        BY <1>3 DEF FailProcess, host
    <2>. QED BY <1>1, <1>2, <2>1, <2>2, <2>3, JobTypes, JobIsAt
<1>4. CASE ~job.cleanup
    <2>1. queue' \in Seq(Jobs)
        <3>1. HasPc(job.kind, "fail") /\ "fail" \in JobPcs
            BY <1>2 DEF HasPc, Steered, Watchers, Starters, StarterPcs, StopPcs, ResumePcs, JobPcs
        <3>2. Goto("fail") \/ JobEnds
            BY <1>4 DEF FailProcess
        <3>. QED BY <1>2, <1>4, <3>1, <3>2, QueueStepped
    <2>2. proc' \in Processes /\ proc'.state # "none" /\ EndKept
        <3>1. CASE UNCHANGED proc
            BY <1>2, <3>1 DEF EndKept
        <3>2. CASE CanUpdate(job.gen, "failed") /\ proc' = Updated("failed", 0)
            BY <3>2, ProcessUpdated DEF EndKept, CanUpdate, Allowed, Terminal, ProcessStates
        <3>. QED BY <1>4, <3>1, <3>2 DEF FailProcess
    <2>3. watched' \subseteq Nat
        BY <1>2, <1>4 DEF FailProcess, Unwatch
    <2>4. UNCHANGED <<ops, record, alive, identity>> /\ UNCHANGED unchangedByJob
        BY <1>4 DEF FailProcess, host
    <2>. QED BY <1>1, <1>2, <2>1, <2>2, <2>3, <2>4, JobTypes, JobIsAt
<1>. QED BY <1>3, <1>4

LEMMA TypesHalt ==
    ASSUME ServiceTypes, Halt PROVE ServiceTypes' /\ EndKept
<1>1. At({"stop", "restart"}, "run")
    BY DEF Halt
<1>2. /\ queue # <<>> /\ job.kind \in {"stop", "restart"} /\ proc.state # "none"
      /\ proc \in Processes /\ ~job.cleanup
    BY <1>1, JobIsAt
<1>3. queue' \in Seq(Jobs)
    <2>1. /\ HasPc(job.kind, "complete") /\ {"complete", "unconfirmed"} \subseteq JobPcs
          /\ job.kind = "stop" => HasPc(job.kind, "unconfirmed")
        BY <1>2 DEF HasPc, Steered, Watchers, Starters, StarterPcs, StopPcs, ResumePcs, JobPcs
    <2>2. CASE Goto("complete")
        BY <1>2, <2>1, <2>2, QueueStepped
    <2>3. CASE job.kind = "restart" /\ Throw(TRUE)
        BY <1>2, <2>3, QueueThrown DEF Starters
    <2>4. CASE job.kind = "stop" /\ Goto("unconfirmed")
        BY <1>2, <2>1, <2>4, QueueStepped
    <2>. QED BY <1>2, <2>2, <2>3, <2>4 DEF Halt
<1>4. record' \in ChildRecords /\ alive' \subseteq Nat /\ identity' \subseteq Nat
    BY ChildStopped DEF Halt, host, ServiceTypes
<1>5. UNCHANGED <<proc, ops, watched>> /\ UNCHANGED unchangedByJob
    BY DEF Halt, store
<1>. QED BY <1>1, <1>2, <1>3, <1>4, <1>5, JobTypes, JobIsAt DEF EndKept

\* the job of a restart goes on with the generation it began
LEMMA RestartBegun ==
    ASSUME ServiceTypes, queue # <<>>, job.kind = "restart", ~job.cleanup,
           JobBecomes([job EXCEPT !.gen = job.gen + 1, !.pc = "stage"])
    PROVE  Moved("stage", job.gen + 1, job.was, FALSE)
<1>. DEFINE q == [job EXCEPT !.gen = job.gen + 1, !.pc = "stage"]
<1>1. job \in JobRecords /\ JobOk(job)
    BY JobIs
<1>2. /\ q \in JobRecords /\ q.kind = job.kind /\ q.op = job.op /\ q.pc = "stage"
      /\ q.gen = job.gen + 1 /\ q.was = job.was /\ q.cleanup = FALSE
    <2>1. job.gen + 1 \in Nat /\ "stage" \in JobPcs
        BY <1>1 DEF JobRecords, JobPcs, StarterPcs
    <2>. QED BY <1>1, <2>1 DEF JobRecords
<1>. HIDE DEF q
<1>3. HasPc(q.kind, q.pc)
    BY <1>2 DEF HasPc, Steered, Watchers, Starters, StarterPcs, StopPcs, ResumePcs, JobPcs
<1>4. q \in Jobs
    BY <1>1, <1>2, <1>3 DEF JobOk, Jobs
<1>5. JobBecomes(q)
    BY DEF q
<1>. QED BY <1>2, <1>4, <1>5, JobMoved DEF Moved

LEMMA TypesBeginRestart ==
    ASSUME ServiceTypes, BeginRestart PROVE ServiceTypes' /\ EndKept
<1>1. At({"restart"}, "complete")
    BY DEF BeginRestart
<1>2. /\ queue # <<>> /\ job.kind = "restart" /\ proc.state # "none" /\ proc \in Processes
      /\ ~job.cleanup
    BY <1>1, JobIsAt
<1>3. queue' \in Seq(Jobs)
    BY <1>2, QueueThrown, RestartBegun DEF BeginRestart, Moved, Starters
<1>4. proc' \in Processes /\ proc'.state # "none" /\ EndKept
    <2>1. CASE UNCHANGED proc
        BY <1>2, <2>1 DEF EndKept
    <2>2. CASE proc' = Restarted
        <3>1. Restarted \in Processes /\ Restarted.state = "queued" /\ Restarted.gen = proc.gen + 1
            <4>1. proc.gen + 1 \in Nat /\ "queued" \in ProcessStates
                BY <1>2 DEF Processes, ProcessStates
            <4>. QED BY <1>2, <4>1 DEF Restarted, Processes
        <3>. QED BY <2>2, <3>1 DEF EndKept
    <2>. QED BY <2>1, <2>2 DEF BeginRestart
<1>5. UNCHANGED <<ops, record, alive, identity, watched>> /\ UNCHANGED unchangedByJob
    BY DEF BeginRestart, host
<1>. QED BY <1>1, <1>2, <1>3, <1>4, <1>5, JobTypes, JobIsAt

LEMMA ProcessCompleted ==
    ASSUME ServiceTypes, proc.state # "none", NEW s \in {"cancelled", "failed"}
    PROVE  /\ Completed(s) \in Processes /\ Completed(s).state \in Terminal
           /\ Completed(s).gen = proc.gen /\ Completed(s).cleanup = proc.cleanup
           /\ Completed(s).break = proc.break /\ Completed(s).active = 0
           /\ proc.state \in Terminal => Completed(s).state = proc.state
           /\ proc.state \notin Terminal => Completed(s).state = s
<1>1. proc.state \in ProcessStates /\ s \in ProcessStates /\ 0 \in Nat /\ s \in Terminal
    BY DEF ServiceTypes, Processes, ProcessStates, Terminal
<1>2. CASE proc.state \in Terminal
    BY <1>1, <1>2, ProcessUpdated DEF Completed
<1>3. CASE proc.state \notin Terminal
    BY <1>1, <1>3, ProcessUpdated DEF Completed
<1>. QED BY <1>2, <1>3

LEMMA TypesStop ==
    ASSUME ServiceTypes, CompleteStop \/ FailStop PROVE ServiceTypes' /\ EndKept
<1>1. PICK pc \in {"complete", "unconfirmed", "failing"} : At({"stop"}, pc)
    BY DEF CompleteStop, FailStop
<1>2. /\ queue # <<>> /\ job.kind = "stop" /\ proc.state # "none" /\ proc \in Processes
      /\ ~job.cleanup
    BY <1>1, JobIsAt
<1>3. queue' \in Seq(Jobs)
    <2>1. /\ HasPc(job.kind, "succeed") /\ HasPc(job.kind, "failing") /\ HasPc(job.kind, "fail")
          /\ {"succeed", "failing", "fail"} \subseteq JobPcs
        BY <1>2 DEF HasPc, Steered, Watchers, Starters, StarterPcs, StopPcs, ResumePcs, JobPcs
    <2>2. Goto("succeed") \/ Goto("failing") \/ Goto("fail")
        BY DEF CompleteStop, FailStop
    <2>. QED BY <1>2, <2>1, <2>2, QueueStepped
<1>4. proc' \in Processes /\ proc'.state # "none" /\ EndKept
    <2>1. \/ UNCHANGED proc \/ proc' = WithCleanup(job.gen)
          \/ proc' = Completed("cancelled") \/ proc' = Completed("failed")
        BY DEF CompleteStop, FailStop
    <2>2. CASE UNCHANGED proc \/ proc' = WithCleanup(job.gen)
        BY <1>2, <2>2, ProcessMarked DEF EndKept
    <2>3. CASE proc' = Completed("cancelled") \/ proc' = Completed("failed")
        BY <1>2, <2>3, ProcessCompleted DEF EndKept, Terminal
    <2>. QED BY <2>1, <2>2, <2>3
<1>5. UNCHANGED <<ops, record, alive, identity, watched>> /\ UNCHANGED unchangedByJob
    BY DEF CompleteStop, FailStop, host
<1>. QED BY <1>1, <1>2, <1>3, <1>4, <1>5, JobTypes, JobIsAt

LEMMA ResumeMoved ==
    ASSUME ServiceTypes, queue # <<>>, job.kind = "resume", NEW was \in {"running", "failed"},
           NEW q, q \in JobRecords, q.kind = job.kind, q.op = job.op, q.gen = job.gen,
           q.pc = "resumed", q.was = was, JobBecomes(q)
    PROVE  Moved("resumed", job.gen, was, q.cleanup)
<1>1. JobOk(job)
    BY JobIs
<1>2. HasPc(q.kind, q.pc)
    BY DEF HasPc, Steered, Watchers, Starters, StarterPcs, StopPcs, ResumePcs, JobPcs
<1>3. q \in Jobs
    BY <1>1, <1>2 DEF JobOk, Jobs, Watchers
<1>. QED BY <1>3, JobMoved DEF Moved

\* what Resume does to its job
LEMMA Resumed ==
    ASSUME ServiceTypes, Resume
    PROVE  \/ /\ UNCHANGED host /\ record.gen = job.gen /\ record.status = "live"
              /\ Moved("resumed", job.gen, "running", FALSE)
           \/ StopConfirmed(job.gen) /\ Moved("resumed", job.gen, "failed", FALSE)
           \/ StopTimesOut(job.gen) /\ Moved("resumed", job.gen, "failed", TRUE)
<1>1. At({"resume"}, "run")
    BY DEF Resume
<1>2. /\ queue # <<>> /\ job.kind = "resume" /\ ~job.cleanup /\ job \in JobRecords
    BY <1>1, JobIsAt
<1>. DEFINE q1 == [job EXCEPT !.pc = "resumed", !.was = "running"]
            q2 == [job EXCEPT !.pc = "resumed", !.was = "failed"]
            q3 == [job EXCEPT !.pc = "resumed", !.was = "failed", !.cleanup = TRUE]
<1>3. /\ q1 \in JobRecords /\ q1.kind = job.kind /\ q1.op = job.op /\ q1.gen = job.gen
      /\ q1.pc = "resumed" /\ q1.was = "running" /\ q1.cleanup = FALSE
    BY <1>2 DEF JobRecords, JobPcs, ResumePcs, ProcessStates
<1>4. /\ q2 \in JobRecords /\ q2.kind = job.kind /\ q2.op = job.op /\ q2.gen = job.gen
      /\ q2.pc = "resumed" /\ q2.was = "failed" /\ q2.cleanup = FALSE
    BY <1>2 DEF JobRecords, JobPcs, ResumePcs, ProcessStates
<1>5. /\ q3 \in JobRecords /\ q3.kind = job.kind /\ q3.op = job.op /\ q3.gen = job.gen
      /\ q3.pc = "resumed" /\ q3.was = "failed" /\ q3.cleanup = TRUE
    BY <1>2 DEF JobRecords, JobPcs, ResumePcs, ProcessStates
<1>6. \/ UNCHANGED host /\ record.gen = job.gen /\ record.status = "live" /\ JobBecomes(q1)
      \/ StopConfirmed(job.gen) /\ JobBecomes(q2)
      \/ StopTimesOut(job.gen) /\ JobBecomes(q3)
    BY DEF Resume
<1>. HIDE DEF q1, q2, q3
<1>7. JobBecomes(q1) => Moved("resumed", job.gen, "running", FALSE)
    BY <1>2, <1>3, ResumeMoved
<1>8. JobBecomes(q2) => Moved("resumed", job.gen, "failed", FALSE)
    BY <1>2, <1>4, ResumeMoved
<1>9. JobBecomes(q3) => Moved("resumed", job.gen, "failed", TRUE)
    BY <1>2, <1>5, ResumeMoved
<1>. QED BY <1>6, <1>7, <1>8, <1>9

LEMMA TypesResume ==
    ASSUME ServiceTypes, Resume PROVE ServiceTypes' /\ EndKept
<1>1. At({"resume"}, "run")
    BY DEF Resume
<1>2. /\ queue # <<>> /\ proc.state # "none" /\ proc \in Processes
    BY <1>1, JobIsAt
<1>3. queue' \in Seq(Jobs)
    BY Resumed DEF Moved
<1>4. record' \in ChildRecords /\ alive' \subseteq Nat /\ identity' \subseteq Nat
    BY ChildStopped, Resumed DEF host, ServiceTypes
<1>5. UNCHANGED <<proc, ops, watched>> /\ UNCHANGED unchangedByJob
    BY DEF Resume, store
<1>. QED BY <1>1, <1>2, <1>3, <1>4, <1>5, JobTypes, JobIsAt DEF EndKept

\* what CompleteResume does to the process
ResumeApplied ==
    /\ IsGeneration(job.gen) /\ proc.active = job.op
    /\ proc.state = "waiting_for_debugger" /\ ops[job.op].state = "running"

LEMMA ResumeCompleted ==
    ASSUME ServiceTypes, CompleteResume
    PROVE  /\ proc' \in Processes /\ proc'.gen = proc.gen /\ proc'.break = proc.break
           /\ \/ proc' = proc
              \/ /\ proc'.state = proc.state /\ proc'.active = proc.active
                 /\ proc.cleanup \/ (job.cleanup /\ IsGeneration(job.gen)) => proc'.cleanup
              \/ /\ ResumeApplied /\ proc'.state = job.was /\ proc'.active = 0
                 /\ proc.cleanup \/ job.cleanup => proc'.cleanup
<1>1. At({"resume"}, "resumed")
    BY DEF CompleteResume
<1>2. job \in JobRecords /\ proc \in Processes
    BY <1>1, JobIsAt
<1>. DEFINE marked == IF job.cleanup THEN WithCleanup(job.gen) ELSE proc
<1>3. /\ marked \in Processes /\ marked.state = proc.state /\ marked.gen = proc.gen
      /\ marked.active = proc.active /\ marked.break = proc.break
      /\ proc.cleanup \/ (job.cleanup /\ IsGeneration(job.gen)) => marked.cleanup
    <2>1. WithCleanup(job.gen).break = proc.break
        BY <1>2 DEF WithCleanup, Processes
    <2>. QED BY <1>2, <2>1, ProcessMarked
<1>4. \/ UNCHANGED proc
      \/ ResumeApplied /\ proc' = [marked EXCEPT !.state = job.was, !.active = 0]
      \/ proc' = marked
    BY DEF CompleteResume, ResumeApplied
<1>. HIDE DEF marked
<1>5. LET p == [marked EXCEPT !.state = job.was, !.active = 0] IN
         /\ p \in Processes /\ p.state = job.was /\ p.active = 0 /\ p.gen = marked.gen
         /\ p.break = marked.break /\ p.cleanup = marked.cleanup
    BY <1>2, <1>3 DEF Processes, JobRecords
<1>6. CASE UNCHANGED proc
    BY <1>2, <1>6
<1>7. CASE proc' = marked
    BY <1>3, <1>7
<1>8. CASE ResumeApplied /\ proc' = [marked EXCEPT !.state = job.was, !.active = 0]
    BY <1>3, <1>5, <1>8 DEF ResumeApplied
<1>. QED BY <1>4, <1>6, <1>7, <1>8

LEMMA TypesCompleteResume ==
    ASSUME ServiceTypes, CompleteResume PROVE ServiceTypes' /\ EndKept
<1>1. At({"resume"}, "resumed")
    BY DEF CompleteResume
<1>2. /\ queue # <<>> /\ job.kind = "resume" /\ proc.state # "none" /\ proc \in Processes
      /\ job \in JobRecords /\ JobOk(job) /\ watched \subseteq Nat /\ job.pc = "resumed"
    BY <1>1, JobIsAt
<1>3. ASSUME NEW pc \in {"fail", "succeed", "superseded"}, Goto(pc)
      PROVE  queue' \in Seq(Jobs)
    <2>1. HasPc(job.kind, pc) /\ pc \in JobPcs \ {"caught", "resumed"} /\ pc \notin {"begin", "run"}
        BY <1>2 DEF HasPc, Steered, Watchers, Starters, StarterPcs, StopPcs, ResumePcs, JobPcs
    <2>. QED BY <1>2, <1>3, <2>1, QueueStepped
<1>4. queue' \in Seq(Jobs)
    <2>1. JobEnds \/ Goto("fail") \/ Goto("succeed") \/ Goto("superseded")
        BY DEF CompleteResume
    <2>2. CASE JobEnds
        BY <1>2, <2>2, Left DEF Shortened
    <2>. QED BY <1>3, <2>1, <2>2
<1>5. proc'.state # "none" /\ EndKept /\ proc' \in Processes
    BY <1>2, ResumeCompleted DEF EndKept, ResumeApplied, JobOk, Terminal
<1>6. watched' \subseteq Nat
    BY <1>2 DEF CompleteResume
<1>7. UNCHANGED <<ops, record, alive, identity>> /\ UNCHANGED unchangedByJob
    BY DEF CompleteResume, host
<1>. QED BY <1>1, <1>2, <1>4, <1>5, <1>6, <1>7, JobTypes, JobIsAt

LEMMA TypesSettle ==
    ASSUME ServiceTypes, SettleBegins \/ Settle PROVE ServiceTypes' /\ EndKept
<1>1. PICK pc \in {"begin", "settle"} : At(Watchers, pc)
    BY DEF SettleBegins, Settle, Watchers
<1>2. /\ queue # <<>> /\ job.kind \in Watchers /\ proc.state # "none" /\ proc \in Processes
      /\ ~job.cleanup /\ job.was \in EndOf /\ watched \subseteq Nat
    <2>1. job.kind # "resume"
        BY <1>1, JobIsAt DEF Watchers
    <2>. QED BY <1>1, <2>1, JobIsAt DEF JobOk
<1>3. queue' \in Seq(Jobs)
    <2>1. HasPc(job.kind, "settle") /\ "settle" \in JobPcs
        BY <1>2 DEF HasPc, Steered, Watchers, Starters, StarterPcs, StopPcs, ResumePcs, JobPcs
    <2>2. Goto("settle") \/ JobEnds
        BY DEF SettleBegins, Settle
    <2>. QED BY <1>2, <2>1, <2>2, QueueStepped
<1>4. proc' \in Processes /\ proc'.state # "none" /\ EndKept
    <2>1. CASE UNCHANGED proc
        BY <1>2, <2>1 DEF EndKept
    <2>2. CASE CanUpdate(job.gen, job.was) /\ proc' = Updated(job.was, 0)
        <3>1. job.was \in ProcessStates /\ job.was # "queued" /\ job.was # "none"
            BY <1>2 DEF EndOf, ProcessStates
        <3>. QED BY <2>2, <3>1, ProcessUpdated DEF EndKept, CanUpdate, Allowed, Terminal
    <2>. QED BY <2>1, <2>2 DEF SettleBegins, Settle, store
<1>5. record' \in ChildRecords /\ alive' \subseteq Nat /\ identity' \subseteq Nat
    BY ChildStopped DEF SettleBegins, Settle, host, ServiceTypes
<1>6. watched' \subseteq Nat
    BY <1>2 DEF SettleBegins, Settle, Unwatch
<1>7. UNCHANGED ops /\ UNCHANGED unchangedByJob
    BY DEF SettleBegins, Settle, store
<1>. QED BY <1>1, <1>2, <1>3, <1>4, <1>5, <1>6, <1>7, JobTypes, JobIsAt

-----------------------------------------------------------------------------
(* The requests of clients.                                                *)

LEMMA FreeOpIs ==
    ASSUME ServiceAssumption, FreeOps # {}, NEW kind, NEW gen
    PROVE  /\ NewOp(kind, gen).id \in Ops /\ NewOp(kind, gen).id \in Nat \ {0}
           /\ ops[NewOp(kind, gen).id] = NoOp
           /\ NewOp(kind, gen).ops = [ops EXCEPT ![NewOp(kind, gen).id] =
                                          [kind |-> kind, gen |-> gen, state |-> "queued"]]
<1>. DEFINE less == {ss \in Nat \X Nat : ss[1] < ss[2]}
<1>1. IsWellFoundedOn(less, Nat)
    BY NatLessThanWellFounded DEF OpToRel
<1>2. FreeOps \in SUBSET Nat /\ FreeOps \subseteq Ops
    BY DEF FreeOps, Ops, ServiceAssumption
<1>3. PICK r \in FreeOps : \A s \in FreeOps : ~(<<s, r>> \in less)
    <2>. HIDE DEF less
    <2>. QED BY <1>1, <1>2, WFMin
<1>4. \A s \in FreeOps : r <= s
    <2>1. \A s \in FreeOps : s \in Nat
        BY <1>2
    <2>2. \A s \in FreeOps : ~(s < r)
        BY <1>3, <2>1
    <2>. QED BY <2>1, <2>2
<1>5. NextOp \in FreeOps
    BY <1>4 DEF NextOp
<1>6. NextOp \in Ops /\ ops[NextOp] = NoOp
    BY <1>5 DEF FreeOps
<1>7. NextOp \in Nat \ {0}
    BY <1>6 DEF Ops, ServiceAssumption
<1>. QED BY <1>6, <1>7 DEF NewOp

LEMMA OperationMade ==
    ASSUME ServiceTypes, NEW o \in Ops, NEW kind \in Steered, NEW gen \in Nat,
           NEW next, next = [ops EXCEPT ![o] = [kind |-> kind, gen |-> gen, state |-> "queued"]]
    PROVE  /\ next \in [Ops -> Operations] /\ next[o] # NoOp
           /\ \A p \in Ops : p # o => next[p] = ops[p]
           /\ \A p \in Ops : ops[p] # NoOp => next[p] # NoOp
<1>1. ops \in [Ops -> Operations]
    BY DEF ServiceTypes
<1>2. [kind |-> kind, gen |-> gen, state |-> "queued"] \in Operations
    BY DEF Operations
<1>3. [kind |-> kind, gen |-> gen, state |-> "queued"] # NoOp
    BY DEF NoOp
<1>. QED BY <1>1, <1>2, <1>3

LEMMA SteeredJob ==
    ASSUME NEW kind \in Steered, NEW o \in Ops, o \in Nat, NEW g \in Nat, NEW was \in ProcessStates
    PROVE  /\ Job(kind, o, g, was) \in Jobs
           /\ Job(kind, o, g, was) = [kind |-> kind, op |-> o, gen |-> g, was |-> was,
                                      pc |-> "begin", cleanup |-> FALSE,
                                      late |-> phase = "closing"]
<1>1. Job(kind, o, g, was) \in JobRecords
    BY DEF Job, JobRecords, HasPc, Steered, Watchers, Starters, StarterPcs, StopPcs, ResumePcs, JobPcs
<1>2. JobOk(Job(kind, o, g, was))
    BY DEF Job, JobOk, HasPc, Steered, Watchers, Starters, StarterPcs, StopPcs, ResumePcs, JobPcs
<1>. QED BY <1>1, <1>2 DEF Jobs, Job

\* the process record and the job of a start
LEMMA Started ==
    ASSUME ServiceAssumption, ServiceTypes, StartProcess
    PROVE  \E o \in Ops, break \in BOOLEAN :
              /\ o \in Nat \ {0}
              /\ ops' = [ops EXCEPT ![o] = [kind |-> "start", gen |-> 1, state |-> "queued"]]
              /\ proc' = [state |-> "queued", gen |-> 1, active |-> o, cleanup |-> FALSE, break |-> break]
              /\ proc' \in Processes
              /\ Job("start", o, 1, "queued") \in Jobs
              /\ queue' = <<Job("start", o, 1, "queued")>> /\ queue' \in Seq(Jobs)
              /\ Untouched
<1>1. Untouched
    BY DEF StartProcess, ServiceTypes, NoProcess
<1>2. FreeOps # {}
    BY <1>1 DEF Untouched, FreeOps, Ops, ServiceAssumption
<1>3. PICK break \in Breaks :
          /\ ops' = NewOp("start", 1).ops
          /\ proc' = [state |-> "queued", gen |-> 1, active |-> NewOp("start", 1).id,
                      cleanup |-> FALSE, break |-> break]
          /\ queue' = <<Job("start", NewOp("start", 1).id, 1, "queued")>>
    BY DEF StartProcess
<1>. DEFINE o == NewOp("start", 1).id
<1>4. /\ o \in Ops /\ o \in Nat \ {0}
      /\ ops' = [ops EXCEPT ![o] = [kind |-> "start", gen |-> 1, state |-> "queued"]]
    BY <1>2, <1>3, FreeOpIs
<1>. HIDE DEF o
<1>5. break \in BOOLEAN
    BY DEF ServiceAssumption
<1>6. /\ proc' = [state |-> "queued", gen |-> 1, active |-> o, cleanup |-> FALSE, break |-> break]
      /\ queue' = <<Job("start", o, 1, "queued")>>
    BY <1>3 DEF o
<1>7. proc' \in Processes
    BY <1>4, <1>5, <1>6 DEF Processes, ProcessStates
<1>8. Job("start", o, 1, "queued") \in Jobs
    BY <1>4, SteeredJob DEF Steered, ProcessStates
<1>9. queue' \in Seq(Jobs)
    BY <1>6, <1>8
<1>. QED BY <1>1, <1>4, <1>5, <1>6, <1>7, <1>8, <1>9

LEMMA TypesStartProcess ==
    ASSUME ServiceAssumption, ServiceTypes, StartProcess PROVE ServiceTypes' /\ EndKept
<1>1. PICK o \in Ops, break \in BOOLEAN :
          /\ ops' = [ops EXCEPT ![o] = [kind |-> "start", gen |-> 1, state |-> "queued"]]
          /\ proc' = [state |-> "queued", gen |-> 1, active |-> o, cleanup |-> FALSE, break |-> break]
          /\ proc' \in Processes /\ queue' \in Seq(Jobs)
    BY Started
<1>2. ops' \in [Ops -> Operations]
    BY <1>1, OperationMade DEF Steered
<1>3. proc'.state = "queued"
    BY <1>1
<1>4. proc.state \notin Terminal
    BY DEF StartProcess, NoProcess, Terminal
<1>5. UNCHANGED <<stopSeen, removal, watched, record, alive, identity, reconciling, phase, downs, scenario>>
    BY DEF StartProcess, host, service
<1>. QED BY <1>1, <1>2, <1>3, <1>4, <1>5 DEF ServiceTypes, EndKept

\* what an admitted action does
AdmittedAs(kind, o, was) ==
    /\ ops' = [ops EXCEPT ![o] = [kind |-> kind, gen |-> proc.gen, state |-> "queued"]]
    /\ ops[o] = NoOp
    /\ proc' = Updated(was, o)
    /\ Job(kind, o, proc.gen, was) \in Jobs
    /\ queue' = Append(queue, Job(kind, o, proc.gen, was))
    /\ \/ was = "stopping" /\ kind # "resume" /\ proc.state \notin Gone
       \/ was = proc.state /\ kind # "resume" /\ proc.state \in Terminal
       \/ was = proc.state /\ kind = "resume" /\ proc.state = "waiting_for_debugger"

LEMMA Admitted ==
    ASSUME ServiceAssumption, ServiceTypes, NEW kind \in {"stop", "restart", "resume"}, AdmitAction(kind)
    PROVE  /\ phase = "up" /\ Exists
           /\ \E o \in Ops, was \in ProcessStates \ {"none"} : o \in Nat \ {0} /\ AdmittedAs(kind, o, was)
<1>0. phase = "up" /\ Exists /\ FreeOps # {}
    BY DEF AdmitAction
<1>. DEFINE new == NewOp(kind, proc.gen)
            moved == kind # "resume" /\ proc.state \notin Terminal
            was == IF moved THEN "stopping" ELSE proc.state
<1>1. /\ ops' = new.ops /\ proc' = Updated(was, new.id)
      /\ queue' = Append(queue, Job(kind, new.id, proc.gen, proc'.state))
      /\ kind = "resume" => proc.state = "waiting_for_debugger"
    BY DEF AdmitAction
<1>2. /\ new.id \in Ops /\ new.id \in Nat \ {0} /\ ops[new.id] = NoOp
      /\ ops' = [ops EXCEPT ![new.id] = [kind |-> kind, gen |-> proc.gen, state |-> "queued"]]
    BY <1>0, <1>1, FreeOpIs
<1>3. was \in ProcessStates \ {"none"} /\ proc.gen \in Nat
    BY <1>0 DEF ServiceTypes, Processes, ProcessStates, Exists
<1>4. /\ \/ was = "stopping" /\ kind # "resume" /\ proc.state \notin Gone
         \/ was = proc.state /\ kind # "resume" /\ proc.state \in Terminal
         \/ was = proc.state /\ kind = "resume" /\ proc.state = "waiting_for_debugger"
    BY <1>0, <1>1 DEF Exists, Gone
<1>. HIDE DEF new, was
<1>5. PICK o \in Ops : o = new.id
    BY <1>2
<1>6. proc'.state = was
    BY <1>1, <1>2, <1>3, ProcessUpdated
<1>7. Job(kind, o, proc.gen, was) \in Jobs
    BY <1>2, <1>3, <1>5, SteeredJob DEF Steered
<1>8. AdmittedAs(kind, o, was)
    BY <1>1, <1>2, <1>4, <1>5, <1>6, <1>7 DEF AdmittedAs
<1>. QED BY <1>0, <1>2, <1>3, <1>5, <1>8

LEMMA TypesAdmit ==
    ASSUME ServiceAssumption, ServiceTypes, AdmitStop \/ AdmitRestart \/ AdmitResume
    PROVE  ServiceTypes' /\ EndKept
<1>1. PICK kind \in {"stop", "restart", "resume"} : AdmitAction(kind)
    BY DEF AdmitStop, AdmitRestart, AdmitResume
<1>2. PICK o \in Ops, was \in ProcessStates \ {"none"} : o \in Nat \ {0} /\ AdmittedAs(kind, o, was)
    BY <1>1, Admitted
<1>3. /\ proc' \in Processes /\ proc'.state = was /\ proc'.gen = proc.gen
    BY <1>2, ProcessUpdated DEF AdmittedAs
<1>4. ops' \in [Ops -> Operations]
    <2>1. proc.gen \in Nat /\ kind \in Steered
        BY DEF ServiceTypes, Processes, Steered
    <2>. QED BY <1>2, <2>1, OperationMade DEF AdmittedAs
<1>5. queue' \in Seq(Jobs)
    BY <1>2, JobAdded DEF AdmittedAs
<1>6. stopSeen' \subseteq Nat
    BY DEF AdmitStop, AdmitRestart, AdmitResume, ServiceTypes
<1>7. UNCHANGED <<removal, watched, record, alive, identity, reconciling, phase, downs, scenario>>
    BY DEF AdmitStop, AdmitRestart, AdmitResume, host, service
<1>8. EndKept
    BY <1>2, <1>3 DEF AdmittedAs, EndKept, Gone, Terminal
<1>. QED BY <1>2, <1>3, <1>4, <1>5, <1>6, <1>7, <1>8 DEF ServiceTypes

LEMMA TypesRequests ==
    ASSUME ServiceAssumption, ServiceTypes, Requests PROVE ServiceTypes' /\ EndKept
<1>1. CASE StartProcess
    BY <1>1, TypesStartProcess
<1>2. CASE AdmitStop \/ AdmitRestart \/ AdmitResume
    BY <1>2, TypesAdmit
<1>3. CASE StopReads \/ StopRefused
    <2>1. proc.state # "none"
        BY <1>3 DEF StopReads, StopRefused, Exists, ServiceTypes, Untouched
    <2>2. stopSeen' \subseteq Nat
        BY <1>3 DEF StopReads, StopRefused, ServiceTypes, Processes
    <2>3. UNCHANGED <<proc, ops, queue, removal, watched, record, alive, identity, reconciling,
                      phase, downs, scenario>>
        BY <1>3 DEF StopReads, StopRefused, store, host, service
    <2>. QED BY <2>1, <2>2, <2>3 DEF ServiceTypes, EndKept
<1>4. CASE \E kind \in {"remove", "prune"} : RemovalBegins(kind)
    <2>1. PICK kind \in {"remove", "prune"} : RemovalBegins(kind)
        BY <1>4
    <2>2. proc.state # "none"
        BY <2>1 DEF RemovalBegins, Removable, Exists
    <2>3. removal' \in Removals /\ watched' \subseteq Nat
        <3>1. proc.gen \in Nat /\ watched \subseteq Nat
            BY DEF ServiceTypes, Processes
        <3>. QED BY <2>1, <3>1 DEF RemovalBegins, Removals, Unwatch
    <2>4. UNCHANGED <<proc, ops, stopSeen, queue, record, alive, identity, reconciling,
                      phase, downs, scenario>>
        BY <2>1 DEF RemovalBegins, store, host, service
    <2>. QED BY <2>2, <2>3, <2>4 DEF ServiceTypes, EndKept
<1>. QED BY <1>1, <1>2, <1>3, <1>4 DEF Requests

LEMMA TypesRemoval ==
    ASSUME ServiceTypes, RemovalStep PROVE ServiceTypes' /\ EndKept
<1>1. proc.state # "none" /\ proc \in Processes /\ ops \in [Ops -> Operations] /\ removal \in Removals
      /\ record \in ChildRecords /\ alive \subseteq Nat /\ identity \subseteq Nat
    BY DEF RemovalStep, AdapterRemoves, RegistryRemoves, ServiceTypes, Untouched, NoRemoval
<1>2. CASE AdapterRemoves
    <2>1. removal' \in Removals
        <3>1. [removal EXCEPT !.pc = "registry"] \in Removals /\ NoRemoval \in Removals
            BY <1>1 DEF Removals, NoRemoval
        <3>. QED BY <1>2, <3>1 DEF AdapterRemoves
    <2>2. record' \in ChildRecords /\ alive' \subseteq Nat /\ identity' \subseteq Nat
        <3>1. CASE StopTimesOut(removal.gen)
            BY <3>1, ChildStopped
        <3>2. CASE UNCHANGED host
            BY <1>1, <3>2 DEF host
        <3>3. CASE /\ record' = NoRecord /\ identity' = identity \ {removal.gen}
                   /\ alive' = IF Owns(removal.gen) THEN alive \ {removal.gen} ELSE alive
            <4>1. NoRecord \in ChildRecords
                BY DEF NoRecord, ChildRecords
            <4>. QED BY <1>1, <3>3, <4>1
        <3>. QED BY <1>2, <3>1, <3>2, <3>3 DEF AdapterRemoves
    <2>3. UNCHANGED <<proc, ops, stopSeen, queue, watched, reconciling, phase, downs, scenario>>
        BY <1>2 DEF AdapterRemoves, store, service
    <2>. QED BY <1>1, <2>1, <2>2, <2>3 DEF ServiceTypes, EndKept
<1>3. CASE RegistryRemoves
    <2>1. proc' \in Processes /\ proc'.state # "none" /\ EndKept
        <3>1. LET p == [proc EXCEPT !.state = "removed", !.active = 0] IN
                 p \in Processes /\ p.state = "removed"
            BY <1>1 DEF Processes, ProcessStates
        <3>2. UNCHANGED proc \/ proc' = [proc EXCEPT !.state = "removed", !.active = 0]
            BY <1>3 DEF RegistryRemoves, store
        <3>. QED BY <1>1, <3>1, <3>2 DEF EndKept
    <2>2. ops' \in [Ops -> Operations]
        <3>1. [o \in Ops |-> NoOp] \in [Ops -> Operations]
            BY DEF NoOp, Operations
        <3>. QED BY <1>1, <1>3, <3>1 DEF RegistryRemoves, store
    <2>3. removal' \in Removals
        BY <1>3 DEF RegistryRemoves, NoRemoval, Removals
    <2>4. UNCHANGED <<stopSeen, queue, watched, record, alive, identity, reconciling, phase, downs, scenario>>
        BY <1>3 DEF RegistryRemoves, host, service
    <2>. QED BY <2>1, <2>2, <2>3, <2>4 DEF ServiceTypes
<1>. QED BY <1>2, <1>3 DEF RemovalStep

\* the end of a child, as the queue gets it
ChildEnded(g, terminal) ==
    /\ terminal \in {"none", "exited", "failed"}
    /\ record.gen = g /\ record.status # "closed"
    /\ record' = [record EXCEPT !.status = "closed", !.terminal = terminal]
    /\ record' \in ChildRecords
    /\ \/ /\ terminal # "none" /\ g \in watched \ unheard /\ ~PendingTerminal(g)
          /\ Job("terminal", 0, g, terminal) \in Jobs
          /\ queue' = Append(queue, Job("terminal", 0, g, terminal))
       \/ UNCHANGED queue

LEMMA Exited ==
    ASSUME ServiceTypes, NEW g, ChildExits(g)
    PROVE  /\ g \in alive /\ alive' = alive \ {g} /\ g \in Nat /\ proc.state # "none"
           /\ UNCHANGED <<proc, ops, stopSeen, aborted, removal, watched, identity, service>>
           /\ \/ \E terminal : ChildEnded(g, terminal)
              \/ UNCHANGED <<record, queue>> /\ ~(record.gen = g /\ record.status # "closed")
<1>1. /\ g \in alive /\ alive' = alive \ {g} /\ g \in Nat /\ proc.state # "none"
      /\ UNCHANGED <<proc, ops, stopSeen, aborted, removal, watched, identity, service>>
    BY DEF ChildExits, ServiceTypes, Untouched, store
<1>2. CASE record.gen = g /\ record.status # "closed"
    <2>1. PICK end \in {"exited", "failed"} :
              LET terminal == IF record.status = "live" THEN end ELSE "none"
              IN  /\ record' = [record EXCEPT !.status = "closed", !.terminal = terminal]
                  /\ queue' = IF terminal # "none" /\ g \in watched \ unheard /\ ~PendingTerminal(g)
                              THEN Append(queue, Job("terminal", 0, g, terminal)) ELSE queue
        BY <1>2 DEF ChildExits
    <2>. DEFINE terminal == IF record.status = "live" THEN end ELSE "none"
    <2>2. terminal \in {"none", "exited", "failed"}
        OBVIOUS
    <2>3. /\ record' = [record EXCEPT !.status = "closed", !.terminal = terminal]
          /\ \/ /\ terminal # "none" /\ g \in watched \ unheard /\ ~PendingTerminal(g)
                /\ queue' = Append(queue, Job("terminal", 0, g, terminal))
             \/ UNCHANGED queue
        BY <2>1
    <2>. HIDE DEF terminal
    <2>4. record' \in ChildRecords
        BY <2>2, <2>3 DEF ServiceTypes, ChildRecords
    <2>5. terminal # "none" => Job("terminal", 0, g, terminal) \in Jobs
        <3>1. terminal # "none" => terminal \in EndOf
            BY <2>2 DEF EndOf
        <3>. QED BY <1>1, <3>1, WatcherJob DEF Watchers
    <2>6. ChildEnded(g, terminal)
        BY <1>2, <2>2, <2>3, <2>4, <2>5 DEF ChildEnded
    <2>. QED BY <1>1, <2>6
<1>3. CASE ~(record.gen = g /\ record.status # "closed")
    BY <1>1, <1>3 DEF ChildExits
<1>. QED BY <1>2, <1>3

LEMMA TypesChildExits ==
    ASSUME ServiceTypes, NEW g, ChildExits(g) PROVE ServiceTypes' /\ EndKept
<1>1. record' \in ChildRecords /\ queue' \in Seq(Jobs)
    <2>1. CASE \E terminal : ChildEnded(g, terminal)
        <3>1. PICK terminal : ChildEnded(g, terminal)
            BY <2>1
        <3>. QED BY <3>1, JobAdded DEF ChildEnded, ServiceTypes
    <2>2. CASE UNCHANGED <<record, queue>>
        BY <2>2 DEF ServiceTypes
    <2>. QED BY <2>1, <2>2, Exited
<1>. QED BY <1>1, Exited DEF ServiceTypes, EndKept, service

LEMMA LostAdded ==
    ASSUME ServiceTypes, NEW g, OutputFails(g)
    PROVE  /\ g \in watched /\ "output" \in scenario.faults /\ g \in Nat /\ proc.state # "none"
           /\ Job("lost", 0, g, "lost") \in Jobs /\ queue' = Append(queue, Job("lost", 0, g, "lost"))
<1>1. g \in watched /\ "output" \in scenario.faults /\ g \in Nat /\ proc.state # "none"
    BY DEF OutputFails, ServiceTypes, Untouched
<1>2. Job("lost", 0, g, "lost") \in Jobs
    BY <1>1, WatcherJob DEF Watchers, EndOf
<1>. QED BY <1>1, <1>2 DEF OutputFails

LEMMA TypesOutputFails ==
    ASSUME ServiceTypes, NEW g, OutputFails(g) PROVE ServiceTypes' /\ EndKept
<1>1. queue' \in Seq(Jobs)
    BY LostAdded, JobAdded
<1>2. UNCHANGED <<proc, ops, stopSeen, removal, watched, record, alive, identity, reconciling,
                  phase, downs, scenario>>
    BY DEF OutputFails, store, host, service
<1>. QED BY <1>1, <1>2, LostAdded DEF ServiceTypes, EndKept

LEMMA TypesDown ==
    ASSUME ServiceTypes, CloseBegins \/ CloseEnds \/ Crash PROVE ServiceTypes' /\ EndKept
<1>1. proc.state # "none"
    BY DEF CloseBegins, CloseEnds, Crash, ServiceTypes, Untouched
<1>2. NoRecord \in ChildRecords /\ NoRemoval \in Removals
    BY DEF NoRecord, ChildRecords, NoRemoval, Removals
<1>3. CASE CloseBegins
    BY <1>1, <1>3 DEF CloseBegins, ServiceTypes, EndKept, store, host
<1>4. CASE CloseEnds
    <2>1. alive' \subseteq alive /\ queue' = <<>>
        BY <1>4 DEF CloseEnds
    <2>2. queue' \in Seq(Jobs)
        BY <2>1
    <2>. QED BY <1>1, <1>2, <1>4, <2>1, <2>2 DEF CloseEnds, ServiceTypes, EndKept, store
<1>5. CASE Crash
    BY <1>1, <1>2, <1>5 DEF Crash, ServiceTypes, EndKept, store
<1>. QED BY <1>3, <1>4, <1>5

\* what the reconciliation makes of the process when the Service is opened
Live == Exists /\ proc.state \notin Terminal
Unsure == Live \/ (Exists /\ proc.cleanup)

LEMMA Opened ==
    ASSUME ServiceTypes, Open
    PROVE  /\ proc' \in Processes /\ proc'.gen = proc.gen /\ proc'.break = proc.break
           /\ Live => proc'.state = "lost" /\ proc'.active = 0
           /\ ~Live => proc'.state = proc.state /\ proc'.active = proc.active
           /\ Unsure => proc'.cleanup = ~ChildIsGone(proc.gen)
           /\ ~Unsure => proc'.cleanup = proc.cleanup
           /\ reconciling' = IF Unsure /\ ~ChildIsGone(proc.gen) THEN {proc.gen} ELSE {}
           /\ phase = "down" /\ phase' = "up" /\ proc.state # "none"
           /\ UNCHANGED <<runner, host, unheard, downs, scenario>>
           /\ ops' \in [Ops -> Operations]
           /\ \A o \in Ops : ops[o] # NoOp => ops'[o] # NoOp
<1>1. proc \in Processes /\ proc.state # "none"
    BY DEF Open, ServiceTypes, Untouched
<1>. DEFINE p == [proc EXCEPT !.state = IF Live THEN "lost" ELSE proc.state,
                              !.active = IF Live THEN 0 ELSE proc.active,
                              !.cleanup = IF Unsure THEN ~ChildIsGone(proc.gen) ELSE proc.cleanup]
<1>2. proc' = p /\ reconciling' = IF Unsure /\ ~ChildIsGone(proc.gen) THEN {proc.gen} ELSE {}
    BY DEF Open, Live, Unsure
<1>3. /\ p.state = IF Live THEN "lost" ELSE proc.state
      /\ p.active = IF Live THEN 0 ELSE proc.active
      /\ p.cleanup = IF Unsure THEN ~ChildIsGone(proc.gen) ELSE proc.cleanup
      /\ p.gen = proc.gen /\ p.break = proc.break
    BY <1>1 DEF Processes
<1>4. p \in Processes
    <2>1. (IF Live THEN "lost" ELSE proc.state) \in ProcessStates
        BY <1>1 DEF Processes, ProcessStates
    <2>2. (IF Live THEN 0 ELSE proc.active) \in Nat
        BY <1>1 DEF Processes
    <2>3. (IF Unsure THEN ~ChildIsGone(proc.gen) ELSE proc.cleanup) \in BOOLEAN
        BY <1>1 DEF Processes
    <2>. QED BY <1>1, <2>1, <2>2, <2>3 DEF Processes
<1>. HIDE DEF p
<1>5. /\ ops' \in [Ops -> Operations]
      /\ \A o \in Ops : ops[o] # NoOp => ops'[o] # NoOp
    <2>1. ops \in [Ops -> Operations]
        BY DEF ServiceTypes
    <2>2. ops' = [o \in Ops |-> IF ops[o].state \in {"queued", "running"}
                                THEN [ops[o] EXCEPT !.state = "failed"] ELSE ops[o]]
        BY DEF Open
    <2>3. \A o \in Ops : /\ [ops[o] EXCEPT !.state = "failed"] \in Operations
                         /\ [ops[o] EXCEPT !.state = "failed"].state = "failed"
        BY <2>1 DEF Operations, OpTerminal
    <2>4. \A o \in Ops : [ops[o] EXCEPT !.state = "failed"] # NoOp
        BY <2>3 DEF NoOp
    <2>. QED BY <2>1, <2>2, <2>3, <2>4
<1>6. phase = "down" /\ phase' = "up" /\ UNCHANGED <<runner, host, unheard, downs, scenario>>
    BY DEF Open
<1>. QED BY <1>1, <1>2, <1>3, <1>4, <1>5, <1>6

LEMMA TypesOpen ==
    ASSUME ServiceTypes, Open \/ Reconcile PROVE ServiceTypes' /\ EndKept
<1>1. CASE Open
    <2>1. reconciling' \subseteq Nat
        BY <1>1, Opened DEF ServiceTypes, Processes
    <2>2. UNCHANGED <<stopSeen, queue, removal, watched, record, alive, identity, downs, scenario>>
        BY <1>1, Opened DEF runner, host
    <2>3. proc'.state # "none" /\ EndKept
        BY <1>1, Opened DEF EndKept, Live
    <2>. QED BY <1>1, <2>1, <2>2, <2>3, Opened DEF ServiceTypes
<1>2. CASE Reconcile
    <2>1. proc.state # "none" /\ proc \in Processes
        BY <1>2 DEF Reconcile, ServiceTypes, Untouched
    <2>2. proc' \in Processes /\ proc'.state = proc.state /\ proc'.gen = proc.gen
        <3>1. LET p == [proc EXCEPT !.cleanup = FALSE] IN
                 p \in Processes /\ p.state = proc.state /\ p.gen = proc.gen
            BY <2>1 DEF Processes
        <3>2. proc' = proc \/ proc' = [proc EXCEPT !.cleanup = FALSE]
            BY <1>2 DEF Reconcile
        <3>. QED BY <2>1, <3>1, <3>2
    <2>3. reconciling' \subseteq Nat
        BY <1>2 DEF Reconcile, ServiceTypes
    <2>4. UNCHANGED <<ops, stopSeen, queue, removal, watched, record, alive, identity, phase, downs, scenario>>
        BY <1>2 DEF Reconcile, runner, host
    <2>. QED BY <2>1, <2>2, <2>3, <2>4 DEF ServiceTypes, EndKept
<1>. QED BY <1>1, <1>2

LEMMA TypesJobStep ==
    ASSUME ServiceTypes, JobStep PROVE ServiceTypes' /\ EndKept
BY TypesJobBegins, TypesStartStages, TypesStage, TypesLaunch, TypesSpawn, TypesHandshake,
   TypesCommitStart, TypesWatch, TypesJobSucceeds, TypesUndoStart, TypesJobEnds, TypesFailProcess,
   TypesHalt, TypesBeginRestart, TypesStop, TypesResume, TypesCompleteResume, TypesSettle
   DEF JobStep

LEMMA ServiceTypesStep ==
    ASSUME ServiceAssumption, ServiceTypes, [Next]_vars PROVE ServiceTypes' /\ EndKept
<1>1. CASE UNCHANGED vars
    <2>1. UNCHANGED <<proc, ops, stopSeen, queue, removal, watched, record, alive, identity,
                      reconciling, phase, downs, scenario>>
        BY <1>1 DEF vars, store, runner, host, service
    <2>. QED BY <2>1 DEF ServiceTypes, Untouched, EndKept
<1>2. CASE Idle
    <2>1. UNCHANGED <<proc, ops, stopSeen, queue, removal, watched, record, alive, identity,
                      reconciling, phase, downs, scenario>>
        BY <1>2 DEF Idle, vars, store, runner, host, service
    <2>. QED BY <2>1 DEF ServiceTypes, Untouched, EndKept
<1>3. CASE \E g \in Gens : ChildExits(g) \/ OutputFails(g)
    BY <1>3, TypesChildExits, TypesOutputFails
<1>. QED BY <1>1, <1>2, <1>3, TypesRequests, TypesJobStep, TypesRemoval, TypesDown, TypesOpen DEF Next

\* The records of the Service and of its adapter are well formed in every
\* state, and before the process is started nothing else is there.
THEOREM ProcessIsTyped == Spec => []ServiceTypes
<1>1. Init /\ [][Next]_vars => []ServiceTypes
    BY ServiceAssumption, ServiceInitTypes, ServiceTypesStep, PTL
<1>. QED BY <1>1, PTL DEF Spec

\* No stop, failure or late event rewrites the end of a generation.
THEOREM EndIsKept == Spec => EndIsFinal
<1>1. ServiceTypes /\ [Next]_vars =>
         [proc.state \in Terminal =>
              \/ proc'.state = proc.state /\ proc'.gen = proc.gen
              \/ proc'.state = "queued" /\ proc'.gen = proc.gen + 1
              \/ proc'.state = "removed"]_proc
    BY ServiceAssumption, ServiceTypesStep DEF EndKept
<1>2. Spec => [][Next]_vars
    BY DEF Spec
<1>3. Spec => EndIsFinal
    BY <1>1, <1>2, ProcessIsTyped, PTL DEF EndIsFinal
<1>. QED BY <1>3

-----------------------------------------------------------------------------
(* What is known of the queue, of the running job and of the children.     *)

\* a job that has not begun; the start of a process is never behind another
Waits(j) == j.pc = "begin" /\ ~j.cleanup /\ j.kind # "start"

\* an operation is about the current generation, and it is there; a stop or a
\* restart of a process that had ended has no child to stop
Placed(j, p, o) ==
    /\ j.gen = p.gen
    /\ p.state # "removed" => o[j.op] # NoOp
    /\ j.kind \in {"stop", "restart"} /\ j.pc \in {"begin", "run"} =>
          /\ j.was \in Terminal \cup {"stopping"}
          /\ j.was \in Terminal => p.state \in Gone

\* the end of a child may come late, but then the child is gone
Late(j, p, a, f) ==
    /\ j.gen <= p.gen
    /\ j.kind = "terminal" => j.gen \notin a
    /\ j.kind = "lost" => "output" \in f

\* the queue q agrees with the process p, the operations o and the children a;
\* only the operation admitted last may be the active one
QueueOk(q, p, o, a, f) ==
    /\ \A i \in DOMAIN q : i # 1 => Waits(q[i])
    /\ \A i \in DOMAIN q : q[i].kind \in Steered => Placed(q[i], p, o)
    /\ \A i \in DOMAIN q : q[i].kind \in Watchers => Late(q[i], p, a, f)
    /\ \A i, k \in DOMAIN q :
          i < k /\ q[i].kind \in Steered /\ q[k].kind \in Steered => q[i].op # p.active

QueueInv == QueueOk(queue, proc, ops, alive, scenario.faults)

\* an ended generation may be published: its child is gone or the process is marked
Accounted == proc.gen \in alive => proc.cleanup

\* the current generation has left no trace yet
Unborn ==
    /\ proc.gen \notin alive /\ proc.gen \notin identity /\ proc.gen \notin watched
    /\ record.gen # proc.gen
    /\ \A i \in DOMAIN queue : queue[i].kind \in Watchers => queue[i].gen # proc.gen

PreLaunch == {"stage", "finalize", "starting", "launch"}
Starting == {"queued", "staging", "starting", "stopping"}
Running(j) == ops[j.op].state = "running"

StarterOk(j) ==
    /\ j.pc \in PreLaunch \/ (j.kind = "start" /\ j.pc \in {"begin", "run"}) =>
          Unborn /\ proc.state \in Starting
    /\ j.pc \in PreLaunch \/ (j.kind = "start" /\ j.pc = "run") => Running(j)
    /\ j.pc \in {"identity", "handshake", "commit"} =>
          record.gen = proc.gen /\ proc.state \in Starting /\ Running(j)
    /\ j.pc \in {"watch", "succeed"} =>
          /\ record.gen = proc.gen /\ Running(j)
          /\ proc.state \in {"running", "waiting_for_debugger", "stopping"}
    /\ j.pc = "undo" => record.gen = proc.gen /\ proc.state \notin Gone
    /\ j.pc = "caught" /\ ~j.cleanup => Accounted
    /\ j.pc \in {"run", "complete"} => Running(j) \/ proc.state = "removed"
    /\ j.pc = "complete" => Accounted

StopOk(j) == j.pc \in {"complete", "failing"} => Accounted

ResumeOk(j) == j.pc = "resumed" /\ j.was = "failed" /\ ~j.cleanup => Accounted

HeadOk(j) ==
    /\ j.kind \in Starters => StarterOk(j)
    /\ j.kind = "stop" => StopOk(j)
    /\ j.kind = "resume" => ResumeOk(j)
    /\ j.kind \in Watchers /\ j.pc = "settle" /\ j.gen = proc.gen => Accounted

HeadInv == queue # <<>> => HeadOk(Head(queue))

\* a launch failed and its child is not reaped: the job will mark the process
CaughtMark ==
    /\ queue # <<>> /\ Head(queue).kind \in Starters
    /\ Head(queue).pc = "caught" /\ Head(queue).cleanup
    /\ "unreaped" \in scenario.faults

Bounds ==
    /\ \A g \in alive \cup identity \cup watched : g <= proc.gen
    /\ proc.state # "none" => proc.gen > 0
    /\ record.gen <= proc.gen

ChildInv ==
    /\ proc.gen \in alive /\ ~proc.cleanup =>
          /\ proc.state \notin Gone
          /\ phase = "down" \/ Owns(proc.gen) \/ CaughtMark
    /\ phase # "down" /\ proc.state \in {"running", "waiting_for_debugger"} => record.gen = proc.gen
    /\ record.terminal # "none" => record.status = "closed"
    /\ record.status = "closed" => record.gen \notin alive
    /\ removal # NoRemoval =>
          /\ phase = "up"
          /\ removal.gen < proc.gen \/ (removal.gen = proc.gen /\ proc.state \in Gone)

PhaseInv ==
    /\ phase = "down" => queue = <<>> /\ watched = {} /\ record = NoRecord /\ removal = NoRemoval
    /\ "unreaped" \in scenario.faults => aborted = {} /\ stopSeen = {} /\ phase = "up"

ChildrenInv == Bounds /\ QueueInv /\ HeadInv /\ ChildInv /\ PhaseInv

(* A child that a failed launch could not reap is marked by the catch of   *)
(* the job alone, which an abort or the end of the Service cuts off; and   *)
(* the watcher of a lost output publishes the end without a mark when the  *)
(* stop of the child is not confirmed.                                     *)
FaultsApart ==
    \A s \in Scenarios :
        /\ "unreaped" \in s.faults => "stop" \notin s.actions /\ s.downs = 0
        /\ ~({"output", "stuck"} \subseteq s.faults)

ProcessInv == ServiceTypes /\ ChildrenInv

-----------------------------------------------------------------------------
(* The queue.                                                              *)

LEMMA QueueCalm ==
    ASSUME NEW q \in Seq(Jobs), NEW p, NEW o, NEW a, NEW f, NEW p2, NEW o2, NEW a2,
           QueueOk(q, p, o, a, f), p2.gen = p.gen, p.state \in Gone => p2.state \in Gone,
           p2.state # "removed" => p.state # "removed" /\ \A x \in Ops : o[x] # NoOp => o2[x] # NoOp,
           p2.active = p.active \/ p2.active = 0,
           \A i \in DOMAIN q : q[i].kind = "terminal" /\ q[i].gen \notin a => q[i].gen \notin a2
    PROVE  QueueOk(q, p2, o2, a2, f)
<1>1. \A i \in DOMAIN q : q[i] \in Jobs
    BY ElementOfSeq
<1>2. \A i \in DOMAIN q : q[i].kind \in Steered => q[i].op \in Ops /\ q[i].op # 0
    BY <1>1 DEF Jobs, JobOk, Ops
<1>3. ASSUME NEW i \in DOMAIN q, q[i].kind \in Steered
      PROVE  Placed(q[i], p2, o2)
    BY <1>2, <1>3 DEF QueueOk, Placed
<1>4. ASSUME NEW i \in DOMAIN q, q[i].kind \in Watchers
      PROVE  Late(q[i], p2, a2, f)
    BY <1>4 DEF QueueOk, Late
<1>5. \A i, k \in DOMAIN q :
          i < k /\ q[i].kind \in Steered /\ q[k].kind \in Steered => q[i].op # p2.active
    BY <1>2 DEF QueueOk
<1>6. \A i \in DOMAIN q : i # 1 => Waits(q[i])
    BY DEF QueueOk
<1>. QED BY <1>3, <1>4, <1>5, <1>6 DEF QueueOk

\* a job is replaced by itself at another step
LEMMA QueueReplaced ==
    ASSUME NEW q \in Seq(Jobs), NEW q2 \in Seq(Jobs), NEW p, NEW o, NEW a, NEW f,
           QueueOk(q, p, o, a, f), 1 \in DOMAIN q, DOMAIN q2 = DOMAIN q,
           \A i \in DOMAIN q : i # 1 => q2[i] = q[i],
           q2[1].kind = q[1].kind, q2[1].op = q[1].op,
           q[1].kind \in Steered => Placed(q2[1], p, o),
           q[1].kind \in Watchers => Late(q2[1], p, a, f)
    PROVE  QueueOk(q2, p, o, a, f)
<1>1. \A i \in DOMAIN q : q2[i].kind = q[i].kind /\ q2[i].op = q[i].op
    OBVIOUS
<1>2. ASSUME NEW i \in DOMAIN q2, q2[i].kind \in Steered
      PROVE  Placed(q2[i], p, o)
    BY <1>1, <1>2 DEF QueueOk
<1>3. ASSUME NEW i \in DOMAIN q2, q2[i].kind \in Watchers
      PROVE  Late(q2[i], p, a, f)
    BY <1>1, <1>3 DEF QueueOk
<1>4. \A i \in DOMAIN q2 : i # 1 => Waits(q2[i])
    BY DEF QueueOk
<1>5. \A i, k \in DOMAIN q2 :
          i < k /\ q2[i].kind \in Steered /\ q2[k].kind \in Steered => q2[i].op # p.active
    BY <1>1 DEF QueueOk
<1>. QED BY <1>2, <1>3, <1>4, <1>5 DEF QueueOk

\* the end of a child is added behind another job
LEMMA QueueAppended ==
    ASSUME NEW q \in Seq(Jobs), NEW j \in Jobs, NEW p, NEW o, NEW a, NEW f,
           QueueOk(q, p, o, a, f), Waits(j), j.kind \in Watchers, Late(j, p, a, f)
    PROVE  QueueOk(Append(q, j), p, o, a, f)
<1>1. /\ DOMAIN Append(q, j) = 1..(Len(q) + 1) /\ Len(q) \in Nat /\ DOMAIN q = 1..Len(q)
      /\ \A i \in 1..Len(q) : Append(q, j)[i] = q[i]
      /\ Append(q, j)[Len(q) + 1] = j
    <2>1. Append(q, j) \in Seq(Jobs) /\ Len(Append(q, j)) = Len(q) + 1
        BY AppendProperties
    <2>2. \A i \in 1..Len(q) : Append(q, j)[i] = q[i]
        BY AppendProperties
    <2>. QED BY <2>1, <2>2, AppendProperties, LenProperties
<1>2. \A i \in DOMAIN Append(q, j) : (i \in DOMAIN q /\ Append(q, j)[i] = q[i]) \/ Append(q, j)[i] = j
    BY <1>1
<1>3. j.kind \notin Steered
    BY DEF Steered, Watchers
<1>4. \A i, k \in DOMAIN Append(q, j) :
          i < k /\ Append(q, j)[i].kind \in Steered /\ Append(q, j)[k].kind \in Steered
             => Append(q, j)[i].op # p.active
    BY <1>2, <1>3 DEF QueueOk
<1>5. /\ \A i \in DOMAIN Append(q, j) : Append(q, j)[i].kind \in Steered => Placed(Append(q, j)[i], p, o)
      /\ \A i \in DOMAIN Append(q, j) : Append(q, j)[i].kind \in Watchers => Late(Append(q, j)[i], p, a, f)
      /\ \A i \in DOMAIN Append(q, j) : i # 1 => Waits(Append(q, j)[i])
    BY <1>2, <1>3 DEF QueueOk
<1>. QED BY <1>4, <1>5 DEF QueueOk

\* the queue after a step of the job, before the rest of the step
LEMMA QueueMoved ==
    ASSUME ProcessInv, queue # <<>>, NEW pc, NEW gen, NEW was, NEW cleanup,
           Moved(pc, gen, was, cleanup),
           job.kind \in Steered => gen = proc.gen,
           job.kind \in Watchers => gen = job.gen,
           job.kind \in {"stop", "restart"} => pc \notin {"begin", "run"} \/ (was = job.was /\ job.pc \in {"begin", "run"})
    PROVE  /\ QueueOk(queue', proc, ops, alive, scenario.faults)
           /\ queue' \in Seq(Jobs)
           /\ \A i \in DOMAIN queue' : queue'[i].kind \in Watchers =>
                 i \in DOMAIN queue /\ queue[i].kind = queue'[i].kind /\ queue[i].gen = queue'[i].gen
<1>0. QueueOk(queue, proc, ops, alive, scenario.faults) /\ ServiceTypes
    BY DEF ProcessInv, ChildrenInv, QueueInv
<1>1. /\ job = queue[1] /\ 1 \in DOMAIN queue /\ DOMAIN queue' = DOMAIN queue
      /\ \A i \in DOMAIN queue : i # 1 => queue'[i] = queue[i]
    BY <1>0, JobIs DEF Moved
<1>2. \A i \in DOMAIN queue : queue'[i].kind = queue[i].kind /\ queue'[i].op = queue[i].op
    BY <1>1 DEF Moved
<1>3. job.kind \in Steered => Placed(queue'[1], proc, ops)
    BY <1>0, <1>1 DEF Moved, QueueOk, Placed
<1>4. job.kind \in Watchers => Late(queue'[1], proc, alive, scenario.faults)
    BY <1>0, <1>1 DEF Moved, QueueOk, Late
<1>9. \A i \in DOMAIN queue' : queue'[i].kind \in Watchers =>
          i \in DOMAIN queue /\ queue[i].kind = queue'[i].kind /\ queue[i].gen = queue'[i].gen
    BY <1>1, <1>2 DEF Moved
<1>10. QueueOk(queue', proc, ops, alive, scenario.faults)
    BY <1>0, <1>1, <1>2, <1>3, <1>4, QueueReplaced DEF Moved, ServiceTypes
<1>. QED BY <1>9, <1>10 DEF Moved

LEMMA QueueShortened ==
    ASSUME ProcessInv, queue # <<>>, JobEnds
    PROVE  /\ QueueOk(queue', proc, ops, alive, scenario.faults) /\ queue' \in Seq(Jobs)
           /\ queue' # <<>> => Waits(Head(queue'))
<1>0. QueueOk(queue, proc, ops, alive, scenario.faults) /\ ServiceTypes
    BY DEF ProcessInv, ChildrenInv, QueueInv
<1>1. /\ queue' \in Seq(Jobs)
      /\ \A i \in DOMAIN queue' : i + 1 \in DOMAIN queue /\ i + 1 # 1 /\ queue'[i] = queue[i + 1]
    BY <1>0, Left DEF Shortened
<1>2. DOMAIN queue' = 1..Len(queue') /\ Len(queue') \in Nat
    BY <1>1, LenProperties
<1>3. \A i \in DOMAIN queue' : Waits(queue'[i])
    BY <1>0, <1>1 DEF QueueOk
<1>4. \A i, k \in DOMAIN queue' :
          i < k /\ queue'[i].kind \in Steered /\ queue'[k].kind \in Steered => queue'[i].op # proc.active
    <2>1. \A i, k \in DOMAIN queue' : i < k => i + 1 < k + 1
        BY <1>2
    <2>. QED BY <1>0, <1>1, <2>1 DEF QueueOk
<1>5. /\ \A i \in DOMAIN queue' : queue'[i].kind \in Steered => Placed(queue'[i], proc, ops)
      /\ \A i \in DOMAIN queue' : queue'[i].kind \in Watchers => Late(queue'[i], proc, alive, scenario.faults)
    BY <1>0, <1>1 DEF QueueOk
<1>6. queue' # <<>> => Head(queue') = queue'[1] /\ 1 \in DOMAIN queue'
    BY <1>1, HeadTailProperties
<1>. QED BY <1>1, <1>3, <1>4, <1>5, <1>6 DEF QueueOk

LEMMA HeadWaits ==
    ASSUME queue' # <<>> => Waits(Head(queue')) PROVE HeadInv'
<1>1. ASSUME NEW j, Waits(j) PROVE
        /\ j.pc = "begin" /\ j.kind # "start"
    BY <1>1 DEF Waits
<1>2. SUFFICES ASSUME queue' # <<>> PROVE HeadOk(Head(queue))'
    BY DEF HeadInv
<1>3. Head(queue').pc = "begin" /\ Head(queue').kind # "start"
    BY <1>2 DEF Waits
<1>. QED BY <1>3 DEF HeadOk, StarterOk, StopOk, ResumeOk, PreLaunch

\* the queue after the end of a child is added to it
LEMMA QueueAdded ==
    ASSUME ProcessInv, NEW j \in Jobs, queue' = Append(queue, j), Waits(j), j.kind \in Watchers,
           Late(j, proc, alive, scenario.faults)
    PROVE  /\ QueueOk(queue', proc, ops, alive, scenario.faults) /\ queue' \in Seq(Jobs)
           /\ \A i \in DOMAIN queue' : (i \in DOMAIN queue /\ queue'[i] = queue[i]) \/ queue'[i] = j
           /\ queue # <<>> => Head(queue') = Head(queue)
<1>0. QueueOk(queue, proc, ops, alive, scenario.faults) /\ ServiceTypes
    BY DEF ProcessInv, ChildrenInv, QueueInv
<1>1. /\ queue' \in Seq(Jobs)
      /\ \A i \in DOMAIN queue' : (i \in DOMAIN queue /\ queue'[i] = queue[i]) \/ queue'[i] = j
      /\ queue # <<>> => Head(queue') = Head(queue)
    BY <1>0, JobAdded
<1>2. QueueOk(queue', proc, ops, alive, scenario.faults)
    BY <1>0, QueueAppended DEF ServiceTypes
<1>. QED BY <1>1, <1>2

\* what the steps of a job have in common
LEMMA JobKnown ==
    ASSUME ProcessInv, queue # <<>>
    PROVE  /\ ServiceTypes /\ job = queue[1] /\ job = Head(queue) /\ HeadOk(job) /\ phase # "down"
           /\ job.kind \in Steered =>
                 /\ job.gen = proc.gen
                 /\ proc.state # "removed" => ops[job.op] # NoOp
                 /\ job.kind \in {"stop", "restart"} /\ job.pc \in {"begin", "run"} =>
                       /\ job.was \in Terminal \cup {"stopping"}
                       /\ job.was \in Terminal => proc.state \in Gone
           /\ job.kind \in Watchers => Late(job, proc, alive, scenario.faults)
           /\ proc.gen \in Nat /\ proc.gen > 0 /\ proc.state # "none"
<1>1. ServiceTypes /\ QueueInv /\ HeadInv /\ Bounds /\ PhaseInv
    BY DEF ProcessInv, ChildrenInv
<1>2. job = queue[1] /\ job = Head(queue) /\ 1 \in DOMAIN queue /\ proc.state # "none"
    BY <1>1, JobIs DEF job
<1>3. HeadOk(job) /\ phase # "down"
    BY <1>1, <1>2 DEF HeadInv, PhaseInv
<1>4. proc.gen \in Nat /\ proc.gen > 0
    BY <1>1, <1>2 DEF Bounds, ServiceTypes, Processes
<1>5. job.kind \in Steered => Placed(job, proc, ops)
    BY <1>1, <1>2 DEF QueueInv, QueueOk
<1>6. job.kind \in Watchers => Late(job, proc, alive, scenario.faults)
    BY <1>1, <1>2 DEF QueueInv, QueueOk
<1>. QED BY <1>1, <1>2, <1>3, <1>4, <1>5, <1>6 DEF Placed

\* a job that throws keeps the current generation
LEMMA ThrownOn ==
    ASSUME ProcessInv, queue # <<>>, NEW cleanup \in BOOLEAN, job.kind \in Starters, Throw(cleanup)
    PROVE  Moved("caught", proc.gen, job.was, cleanup)
BY JobKnown, Thrown DEF Starters, Steered

\* the queue, with the store and the children that the step leaves
LEMMA QueueAfter ==
    ASSUME QueueOk(queue', proc, ops, alive, scenario.faults), queue' \in Seq(Jobs),
           scenario' = scenario, proc'.gen = proc.gen, proc.state \in Gone => proc'.state \in Gone,
           proc'.state # "removed" =>
              proc.state # "removed" /\ \A x \in Ops : ops[x] # NoOp => ops'[x] # NoOp,
           proc'.active = proc.active \/ proc'.active = 0, alive' \subseteq alive
    PROVE  QueueInv'
<1>1. \A i \in DOMAIN queue' :
          queue'[i].kind = "terminal" /\ queue'[i].gen \notin alive => queue'[i].gen \notin alive'
    OBVIOUS
<1>2. QueueOk(queue', proc', ops', alive', scenario.faults)
    BY <1>1, QueueCalm
<1>. QED BY <1>2 DEF QueueInv, QueueOk

LEMMA PhaseOfJob ==
    ASSUME ProcessInv, queue # <<>>, UNCHANGED unchangedByJob
    PROVE  PhaseInv'
BY JobKnown DEF ProcessInv, ChildrenInv, PhaseInv, unchangedByJob, service

\* a step of the job that leaves the children alone
LEMMA ChildKept ==
    ASSUME ProcessInv, queue # <<>>, UNCHANGED unchangedByJob, UNCHANGED <<record, alive, identity>>,
           proc'.gen = proc.gen, proc.cleanup => proc'.cleanup, proc'.state # "none",
           proc'.state \in Gone => proc.state \in Gone \/ Accounted \/ Accounted',
           proc.state \in Gone => proc'.state \in Gone,
           proc'.state \in {"running", "waiting_for_debugger"} => proc'.state = proc.state \/ record.gen = proc.gen,
           CaughtMark => CaughtMark' \/ Accounted',
           watched' \subseteq watched \cup {proc.gen}
    PROVE  Bounds' /\ ChildInv'
<1>1. Bounds /\ ChildInv /\ ServiceTypes /\ phase # "down" /\ proc.gen \in Nat /\ proc.gen > 0
    BY JobKnown DEF ProcessInv, ChildrenInv
<1>2. /\ removal' = removal /\ phase' = phase
    BY DEF unchangedByJob, service
<1>3. Bounds'
    BY <1>1 DEF Bounds
<1>4. Owns(proc.gen)' <=> Owns(proc.gen)
    BY DEF Owns
<1>5. ASSUME proc'.gen \in alive', ~proc'.cleanup
      PROVE  proc'.state \notin Gone /\ (Owns(proc.gen)' \/ CaughtMark')
    BY <1>1, <1>4, <1>5 DEF ChildInv, Accounted
<1>6. /\ phase' # "down" /\ proc'.state \in {"running", "waiting_for_debugger"} => record'.gen = proc'.gen
      /\ record'.terminal # "none" => record'.status = "closed"
      /\ record'.status = "closed" => record'.gen \notin alive'
      /\ removal' # NoRemoval =>
            /\ phase' = "up"
            /\ removal'.gen < proc'.gen \/ (removal'.gen = proc'.gen /\ proc'.state \in Gone)
    BY <1>1, <1>2 DEF ChildInv
<1>. QED BY <1>3, <1>5, <1>6 DEF ChildInv

\* the adapter stops a child, in vain or not
LEMMA ChildStops ==
    ASSUME ProcessInv, queue # <<>>, UNCHANGED unchangedByJob, ~CaughtMark,
           NEW g, StopConfirmed(g) \/ StopTimesOut(g),
           proc'.gen = proc.gen, proc'.state = proc.state, proc.cleanup => proc'.cleanup,
           watched' \subseteq watched
    PROVE  /\ Bounds' /\ ChildInv' /\ alive' \subseteq alive /\ identity' = identity
           /\ record'.gen = record.gen
           /\ g = proc.gen /\ StopConfirmed(g) => Accounted'
<1>1. Bounds /\ ChildInv /\ ServiceTypes /\ phase # "down" /\ proc.gen \in Nat /\ proc.gen > 0
    BY JobKnown DEF ProcessInv, ChildrenInv
<1>2. /\ removal' = removal /\ phase' = phase
    BY DEF unchangedByJob, service
<1>3. record \in ChildRecords
    BY <1>1 DEF ServiceTypes
<1>4. /\ alive' \subseteq alive /\ identity' = identity
      /\ \/ record' = record /\ alive' = alive /\ StopConfirmed(g) /\ ~Owns(g)
         \/ /\ record.gen = g /\ record.status = "live" /\ record'.status = "closed" /\ alive' = alive \ {g}
            /\ record'.gen = record.gen /\ record'.terminal = record.terminal
         \/ /\ record.gen = g /\ record.status \in {"live", "stuck"} /\ record'.status = "stuck"
            /\ alive' = alive /\ record'.gen = record.gen /\ record'.terminal = record.terminal
            /\ ~StopConfirmed(g)
    <2>1. CASE StopConfirmed(g) /\ ~Owns(g)
        BY <2>1 DEF StopConfirmed
    <2>2. CASE StopConfirmed(g) /\ Owns(g)
        BY <1>3, <2>2 DEF StopConfirmed, Owns, ChildRecords
    <2>3. CASE StopTimesOut(g)
        <3>1. record'.status = "stuck" /\ record'.gen = record.gen /\ record'.terminal = record.terminal
            BY <1>3, <2>3 DEF StopTimesOut, ChildRecords
        <3>2. ~StopConfirmed(g)
            BY <1>3, <2>3, <3>1 DEF StopTimesOut, StopConfirmed, ChildRecords, Owns
        <3>. QED BY <2>3, <3>1, <3>2 DEF StopTimesOut, Owns
    <2>. QED BY <2>1, <2>2, <2>3
<1>5. record'.gen = record.gen
    BY <1>4
<1>6. Bounds'
    BY <1>1, <1>4, <1>5 DEF Bounds
<1>7. ASSUME proc.gen \in alive', ~proc'.cleanup
      PROVE  proc.state \notin Gone /\ Owns(proc.gen)'
    <2>1. Owns(proc.gen) /\ proc.state \notin Gone
        BY <1>1, <1>4, <1>7 DEF ChildInv
    <2>. QED BY <1>4, <1>7, <2>1 DEF Owns
<1>8. /\ phase' # "down" /\ proc'.state \in {"running", "waiting_for_debugger"} => record'.gen = proc'.gen
      /\ removal' # NoRemoval =>
            /\ phase' = "up"
            /\ removal'.gen < proc'.gen \/ (removal'.gen = proc'.gen /\ proc'.state \in Gone)
    BY <1>1, <1>2, <1>5 DEF ChildInv
<1>9. /\ record'.terminal # "none" => record'.status = "closed"
      /\ record'.status = "closed" => record'.gen \notin alive'
    BY <1>1, <1>4 DEF ChildInv
<1>10. ChildInv'
    BY <1>7, <1>8, <1>9 DEF ChildInv
<1>11. ASSUME g = proc.gen, StopConfirmed(g)
       PROVE  Accounted'
    <2>1. SUFFICES ASSUME proc.gen \in alive', ~proc'.cleanup PROVE FALSE
        BY DEF Accounted
    <2>2. Owns(proc.gen)
        BY <1>1, <1>4, <2>1 DEF ChildInv
    <2>. QED BY <1>4, <1>11, <2>1, <2>2
<1>. QED BY <1>4, <1>5, <1>6, <1>10, <1>11

\* the job is at a step
LEMMA JobAtKnown ==
    ASSUME ProcessInv, NEW kinds, NEW pc, At(kinds, pc)
    PROVE  /\ queue # <<>> /\ job.kind \in kinds /\ job.pc = pc /\ job \in JobRecords /\ JobOk(job)
           /\ (pc \in {"begin", "run"} \/ (job.kind # "resume" /\ pc # "caught")) => ~job.cleanup
           /\ job.kind \in Steered => job.op \in Ops
           /\ proc \in Processes /\ ops \in [Ops -> Operations]
<1>1. ServiceTypes
    BY DEF ProcessInv
<1>. QED BY <1>1, JobIsAt

LEMMA InvJobBegins ==
    ASSUME ProcessInv, JobBegins PROVE ChildrenInv'
<1>1. At(Steered, "begin")
    BY DEF JobBegins, At, Steered
<1>2. /\ queue # <<>> /\ job.kind \in Steered /\ job.pc = "begin" /\ ~job.cleanup /\ job.op \in Ops
    BY <1>1, JobAtKnown
<1>3. ServiceTypes /\ HeadOk(job) /\ job.gen = proc.gen /\ proc.state # "none"
    BY <1>2, JobKnown
<1>4. UNCHANGED <<proc, record, alive, identity>> /\ UNCHANGED unchangedByJob /\ watched' \subseteq watched
    BY DEF JobBegins, host, Unwatch
<1>5. ~CaughtMark
    BY <1>2, JobKnown DEF CaughtMark
<1>6. Bounds' /\ ChildInv' /\ PhaseInv'
    BY <1>2, <1>3, <1>4, <1>5, ChildKept, PhaseOfJob
<1>7. \A x \in Ops : ops[x] # NoOp => ops'[x] # NoOp
    <2>1. SetOp(job.op, "cancelled") \/ SetOp(job.op, "running") \/ UNCHANGED ops
        BY DEF JobBegins
    <2>. QED BY <1>2, <1>3, <2>1, OperationSet DEF OpTerminal
<1>8. CASE JobEnds
    <2>1. QueueInv'
        <3>1. scenario' = scenario
            BY <1>4 DEF unchangedByJob, service
        <3>. QED BY <1>2, <1>4, <1>7, <1>8, <3>1, QueueShortened, QueueAfter
    <2>. QED BY <1>2, <1>6, <1>8, <2>1, QueueShortened, HeadWaits DEF ChildrenInv
<1>9. CASE Goto("run") /\ SetOp(job.op, "running")
    <2>1. HasPc(job.kind, "run") /\ "run" \in JobPcs
        BY <1>2 DEF HasPc, Steered, Watchers, Starters, StarterPcs, StopPcs, ResumePcs, JobPcs
    <2>2. Moved("run", job.gen, job.was, job.cleanup)
        BY <1>2, <1>3, <1>9, <2>1, Went
    <2>3. /\ QueueOk(queue', proc, ops, alive, scenario.faults) /\ queue' \in Seq(Jobs)
          /\ \A i \in DOMAIN queue' : queue'[i].kind \in Watchers =>
                i \in DOMAIN queue /\ queue[i].kind = queue'[i].kind /\ queue[i].gen = queue'[i].gen
        <3>1. job.kind \notin Watchers
            BY <1>2 DEF Steered, Watchers
        <3>. QED BY <1>2, <1>3, <2>2, <3>1, QueueMoved
    <2>4. QueueInv'
        <3>1. scenario' = scenario
            BY <1>4 DEF unchangedByJob, service
        <3>. QED BY <1>4, <1>7, <2>3, <3>1, QueueAfter
    <2>5. ops'[job.op].state = "running"
        BY <1>2, <1>3, <1>9, OperationSet
    <2>6. job.kind = "start" => Unborn /\ proc.state \in Starting
        BY <1>2, <1>3 DEF HeadInv, HeadOk, StarterOk, StopOk, ResumeOk, PreLaunch, Starters, Watchers, Steered
    <2>7. Unborn => Unborn'
        BY <1>4, <2>3 DEF Unborn
    <2>8. /\ Head(queue').kind = job.kind /\ Head(queue').op = job.op /\ Head(queue').pc = "run"
        BY <2>2 DEF Moved
    <2>9. HeadInv'
        BY <1>2, <1>4, <2>5, <2>6, <2>7, <2>8 DEF HeadInv, HeadOk, StarterOk, StopOk, ResumeOk, PreLaunch, Starters, Watchers, Steered, Running
    <2>. QED BY <1>6, <2>4, <2>9 DEF ChildrenInv
<1>. QED BY <1>8, <1>9 DEF JobBegins

\* the rest of the step keeps what the queue says
Calmly ==
    /\ scenario' = scenario /\ proc'.gen = proc.gen
    /\ proc.state \in Gone => proc'.state \in Gone
    /\ proc'.state # "removed" =>
          proc.state # "removed" /\ \A x \in Ops : ops[x] # NoOp => ops'[x] # NoOp
    /\ proc'.active = proc.active \/ proc'.active = 0
    /\ alive' \subseteq alive

SameWatchers ==
    \A i \in DOMAIN queue' : queue'[i].kind \in Watchers =>
       i \in DOMAIN queue /\ queue[i].kind = queue'[i].kind /\ queue[i].gen = queue'[i].gen

LEMMA CalmStore ==
    ASSUME UNCHANGED <<proc, ops>>, UNCHANGED unchangedByJob, alive' \subseteq alive, proc.state # "none"
    PROVE  Calmly
<1>1. scenario' = scenario
    BY DEF unchangedByJob, service
<1>. QED BY <1>1 DEF Calmly

LEMMA CalmUpdate ==
    ASSUME ServiceTypes, NEW s \in ProcessStates \ {"none", "removed"}, NEW a \in {0, proc.active},
           proc' = Updated(s, a), UNCHANGED <<ops, alive>>, UNCHANGED unchangedByJob,
           proc.state \in Gone => s \in Gone, proc.state # "removed"
    PROVE  /\ Calmly /\ proc'.state = s /\ proc'.gen = proc.gen /\ proc'.cleanup = proc.cleanup
           /\ proc'.active = a
<1>1. a \in Nat /\ s \in ProcessStates
    BY DEF ServiceTypes, Processes
<1>2. /\ proc'.state = s /\ proc'.gen = proc.gen /\ proc'.cleanup = proc.cleanup
      /\ proc'.active = a
    BY <1>1, ProcessUpdated
<1>3. scenario' = scenario
    BY DEF unchangedByJob, service
<1>. QED BY <1>2, <1>3 DEF Calmly

LEMMA MovesOn ==
    ASSUME ProcessInv, queue # <<>>, NEW pc, NEW gen, NEW was, NEW cleanup,
           Moved(pc, gen, was, cleanup), gen = job.gen \/ (job.kind \in Steered /\ gen = proc.gen),
           pc \notin {"begin", "run"}, Calmly
    PROVE  QueueInv' /\ SameWatchers
<1>1. job.kind \in Steered => gen = proc.gen
    BY JobKnown
<1>2. job.kind \in Watchers => gen = job.gen
    BY DEF Watchers, Steered
<1>3. /\ QueueOk(queue', proc, ops, alive, scenario.faults) /\ queue' \in Seq(Jobs)
      /\ SameWatchers
    BY <1>1, <1>2, QueueMoved DEF SameWatchers
<1>. QED BY <1>3, QueueAfter DEF Calmly

LEMMA GoesOn ==
    ASSUME ProcessInv, queue # <<>>, NEW pc \in JobPcs \ {"caught", "resumed", "begin", "run"},
           HasPc(job.kind, pc), job.cleanup => job.kind = "resume", Goto(pc), Calmly
    PROVE  QueueInv' /\ SameWatchers /\ Moved(pc, job.gen, job.was, job.cleanup)
<1>1. Moved(pc, job.gen, job.was, job.cleanup)
    BY Went DEF ProcessInv
<1>. QED BY <1>1, MovesOn

LEMMA ThrowsOn ==
    ASSUME ProcessInv, queue # <<>>, job.kind \in Starters, NEW cleanup \in BOOLEAN, Throw(cleanup), Calmly
    PROVE  QueueInv' /\ SameWatchers /\ Moved("caught", proc.gen, job.was, cleanup)
<1>1. Moved("caught", proc.gen, job.was, cleanup) /\ job.kind \in Steered
    BY ThrownOn DEF Starters, Steered
<1>. QED BY <1>1, MovesOn

LEMMA EndsNow ==
    ASSUME ProcessInv, queue # <<>>, JobEnds, Calmly
    PROVE  QueueInv' /\ HeadInv'
<1>1. /\ QueueOk(queue', proc, ops, alive, scenario.faults) /\ queue' \in Seq(Jobs)
      /\ queue' # <<>> => Waits(Head(queue'))
    BY QueueShortened
<1>. QED BY <1>1, HeadWaits, QueueAfter DEF Calmly

\* the catch of a start or a restart, when nothing of its generation is left
LEMMA CaughtOk ==
    ASSUME NEW gen, NEW was, NEW cleanup, Moved("caught", gen, was, cleanup), job.kind \in Starters,
           ~cleanup => Accounted'
    PROVE  HeadInv'
<1>1. Head(queue').kind = job.kind /\ Head(queue').pc = "caught" /\ Head(queue').cleanup = cleanup
    BY DEF Moved
<1>. QED BY <1>1 DEF HeadInv, HeadOk, StarterOk, StopOk, ResumeOk, PreLaunch, Starters, Watchers, Steered

LEMMA UnbornKept ==
    ASSUME Unborn, SameWatchers, UNCHANGED <<alive, identity, record>>, watched' \subseteq watched,
           proc'.gen = proc.gen
    PROVE  Unborn'
BY DEF Unborn, SameWatchers

-----------------------------------------------------------------------------
LEMMA InvStartStages ==
    ASSUME ProcessInv, StartStages PROVE ChildrenInv'
<1>1. At({"start"}, "run")
    BY DEF StartStages
<1>2. queue # <<>> /\ job.kind = "start" /\ job.pc = "run" /\ ~job.cleanup
    BY <1>1, JobAtKnown
<1>3. ServiceTypes /\ HeadOk(job) /\ job.gen = proc.gen /\ proc.state # "none" /\ proc \in Processes
    BY <1>1, <1>2, JobKnown, JobAtKnown DEF Steered
<1>4. UNCHANGED <<ops, record, alive, identity, watched>> /\ UNCHANGED unchangedByJob
    BY DEF StartStages, host
<1>5. ~CaughtMark
    BY <1>2, JobKnown DEF CaughtMark
<1>6. Unborn /\ proc.state \in Starting /\ Running(job)
    BY <1>2, <1>3 DEF HeadInv, HeadOk, StarterOk, StopOk, ResumeOk, PreLaunch, Starters, Watchers, Steered
<1>7. CASE proc' = Updated("staging", proc.active) /\ Goto("stage")
    <2>1. /\ Calmly /\ proc'.state = "staging" /\ proc'.gen = proc.gen /\ proc'.cleanup = proc.cleanup
        BY <1>3, <1>4, <1>6, <1>7, CalmUpdate DEF ProcessStates, Starting, Gone, Terminal
    <2>2. Bounds' /\ ChildInv' /\ PhaseInv'
        BY <1>2, <1>4, <1>5, <1>6, <2>1, ChildKept, PhaseOfJob DEF Starting, Gone, Terminal
    <2>3. HasPc(job.kind, "stage") /\ "stage" \in JobPcs
        BY <1>2 DEF HasPc, Steered, Watchers, Starters, StarterPcs, StopPcs, ResumePcs, JobPcs
    <2>4. QueueInv' /\ SameWatchers /\ Moved("stage", job.gen, job.was, job.cleanup)
        BY <1>2, <1>7, <2>1, <2>3, GoesOn
    <2>5. Unborn'
        BY <1>4, <1>6, <2>1, <2>4, UnbornKept
    <2>6. /\ Head(queue').kind = job.kind /\ Head(queue').op = job.op /\ Head(queue').pc = "stage"
        BY <2>4 DEF Moved
    <2>7. HeadInv'
        BY <1>2, <1>4, <1>6, <2>1, <2>5, <2>6 DEF HeadInv, HeadOk, StarterOk, StopOk, ResumeOk, PreLaunch, Starters, Watchers, Steered, Running, Starting
    <2>. QED BY <2>2, <2>4, <2>7 DEF ChildrenInv
<1>8. CASE UNCHANGED proc /\ JobEnds
    <2>1. Calmly
        BY <1>3, <1>4, <1>8, CalmStore
    <2>2. Bounds' /\ ChildInv' /\ PhaseInv'
        BY <1>2, <1>3, <1>4, <1>5, <1>8, ChildKept, PhaseOfJob
    <2>. QED BY <1>2, <1>8, <2>1, <2>2, EndsNow DEF ChildrenInv
<1>. QED BY <1>7, <1>8 DEF StartStages

LEMMA InvStage ==
    ASSUME ProcessInv, Stage PROVE ChildrenInv'
<1>1. PICK pc \in {"stage", "finalize", "starting"} : At(Starters, pc)
    BY DEF Stage, Starters
<1>2. queue # <<>> /\ job.kind \in Starters /\ job.pc = pc /\ ~job.cleanup
    BY <1>1, JobAtKnown DEF Starters
<1>3. ServiceTypes /\ HeadOk(job) /\ job.gen = proc.gen /\ proc.state # "none" /\ proc \in Processes
    BY <1>1, <1>2, JobKnown, JobAtKnown DEF Starters, Steered
<1>4. UNCHANGED <<ops, record, alive, identity, watched>> /\ UNCHANGED unchangedByJob
    BY DEF Stage, host
<1>5. ~CaughtMark
    BY <1>2, JobKnown DEF CaughtMark
<1>6. Unborn /\ proc.state \in Starting /\ Running(job)
    BY <1>2, <1>3 DEF HeadInv, HeadOk, StarterOk, StopOk, ResumeOk, PreLaunch, Starters, Watchers, Steered
<1>7. ASSUME NEW to \in {"finalize", "starting", "launch"}, Goto(to),
             NEW s \in Starting, proc'.state = s,
             Calmly, proc'.gen = proc.gen, proc'.cleanup = proc.cleanup
      PROVE  ChildrenInv'
    <2>2. Bounds' /\ ChildInv' /\ PhaseInv'
        BY <1>2, <1>4, <1>5, <1>6, <1>7, ChildKept, PhaseOfJob DEF Starting, Gone, Terminal
    <2>3. HasPc(job.kind, to) /\ to \in JobPcs
        BY <1>2 DEF HasPc, Steered, Watchers, Starters, StarterPcs, StopPcs, ResumePcs, JobPcs
    <2>4. QueueInv' /\ SameWatchers /\ Moved(to, job.gen, job.was, job.cleanup)
        BY <1>2, <1>7, <2>3, GoesOn
    <2>5. Unborn'
        BY <1>4, <1>6, <1>7, <2>4, UnbornKept
    <2>6. /\ Head(queue').kind = job.kind /\ Head(queue').op = job.op /\ Head(queue').pc = to
        BY <2>4 DEF Moved
    <2>7. HeadInv'
        BY <1>2, <1>4, <1>6, <1>7, <2>5, <2>6 DEF HeadInv, HeadOk, StarterOk, StopOk, ResumeOk, PreLaunch, Starters, Watchers, Steered, Running, Starting
    <2>. QED BY <2>2, <2>4, <2>7 DEF ChildrenInv
<1>8. CASE UNCHANGED proc /\ Throw(FALSE)
    <2>1. Calmly
        BY <1>3, <1>4, <1>8, CalmStore
    <2>2. Bounds' /\ ChildInv' /\ PhaseInv'
        BY <1>2, <1>3, <1>4, <1>5, <1>8, ChildKept, PhaseOfJob
    <2>3. Accounted'
        BY <1>4, <1>6, <1>8 DEF Accounted, Unborn
    <2>4. QueueInv' /\ SameWatchers /\ Moved("caught", proc.gen, job.was, FALSE)
        BY <1>2, <1>8, <2>1, ThrowsOn
    <2>. QED BY <1>2, <2>2, <2>3, <2>4, CaughtOk DEF ChildrenInv
<1>9. CASE UNCHANGED proc /\ Goto("starting")
    BY <1>3, <1>4, <1>6, <1>7, <1>9, CalmStore
<1>10. ASSUME NEW s \in {"staging", "starting"}, NEW to \in {"finalize", "launch"},
              proc' = Updated(s, proc.active), Goto(to)
       PROVE  ChildrenInv'
    <2>1. /\ Calmly /\ proc'.state = s /\ proc'.gen = proc.gen /\ proc'.cleanup = proc.cleanup
        BY <1>3, <1>4, <1>6, <1>10, CalmUpdate DEF ProcessStates, Starting, Gone, Terminal
    <2>. QED BY <1>7, <1>10, <2>1 DEF Starting
<1>. QED BY <1>8, <1>9, <1>10 DEF Stage

LEMMA InvLaunchFails ==
    ASSUME ProcessInv, LaunchFails PROVE ChildrenInv'
<1>1. At(Starters, "launch")
    BY DEF LaunchFails, Starters
<1>2. queue # <<>> /\ job.kind \in Starters /\ job.pc = "launch" /\ ~job.cleanup
    BY <1>1, JobAtKnown DEF Starters
<1>3. ServiceTypes /\ HeadOk(job) /\ proc.state # "none"
    BY <1>2, JobKnown
<1>4. UNCHANGED <<proc, ops, record, alive, identity, watched>> /\ UNCHANGED unchangedByJob
    BY DEF LaunchFails, host, store
<1>5. ~CaughtMark
    BY <1>2, JobKnown DEF CaughtMark
<1>6. Unborn
    BY <1>2, <1>3 DEF HeadInv, HeadOk, StarterOk, StopOk, ResumeOk, PreLaunch, Starters, Watchers, Steered
<1>7. Calmly
    BY <1>3, <1>4, CalmStore
<1>8. Bounds' /\ ChildInv' /\ PhaseInv'
    BY <1>2, <1>3, <1>4, <1>5, ChildKept, PhaseOfJob
<1>9. Accounted'
    BY <1>4, <1>6 DEF Accounted, Unborn
<1>10. QueueInv' /\ Moved("caught", proc.gen, job.was, FALSE)
    BY <1>2, <1>7, ThrowsOn DEF LaunchFails
<1>. QED BY <1>2, <1>8, <1>9, <1>10, CaughtOk DEF ChildrenInv

LEMMA InvLaunchStopsPrevious ==
    ASSUME ProcessInv, LaunchStopsPrevious PROVE ChildrenInv'
<1>1. At(Starters, "launch")
    BY DEF LaunchStopsPrevious, Starters
<1>2. queue # <<>> /\ job.kind \in Starters /\ job.pc = "launch" /\ ~job.cleanup
    BY <1>1, JobAtKnown DEF Starters
<1>3. ServiceTypes /\ HeadOk(job) /\ proc.state # "none"
    BY <1>2, JobKnown
<1>4. UNCHANGED <<proc, ops, watched>> /\ UNCHANGED unchangedByJob
    BY DEF LaunchStopsPrevious, store
<1>5. ~CaughtMark
    BY <1>2, JobKnown DEF CaughtMark
<1>6. StopConfirmed(record.gen) \/ StopTimesOut(record.gen)
    BY DEF LaunchStopsPrevious
<1>7. /\ Bounds' /\ ChildInv' /\ PhaseInv' /\ alive' \subseteq alive /\ identity' = identity
      /\ record'.gen = record.gen
    BY <1>2, <1>4, <1>5, <1>6, ChildStops, PhaseOfJob
<1>8. Calmly
    BY <1>3, <1>4, <1>7, CalmStore
<1>9. CASE UNCHANGED queue
    <2>1. QueueInv'
        <3>1. QueueOk(queue', proc, ops, alive, scenario.faults) /\ queue' \in Seq(Jobs)
            BY <1>3, <1>9 DEF ProcessInv, ChildrenInv, QueueInv, ServiceTypes
        <3>. QED BY <1>8, <3>1, QueueAfter DEF Calmly
    <2>2. Unborn /\ proc.state \in Starting /\ Running(job)
        BY <1>2, <1>3 DEF HeadInv, HeadOk, StarterOk, StopOk, ResumeOk, PreLaunch, Starters, Watchers, Steered
    <2>3. Unborn'
        BY <1>4, <1>7, <1>9, <2>2 DEF Unborn
    <2>4. Head(queue') = job
        BY <1>9, <1>2, JobKnown
    <2>5. HeadInv'
        BY <1>2, <1>4, <2>2, <2>3, <2>4 DEF HeadInv, HeadOk, StarterOk, StopOk, ResumeOk, PreLaunch, Starters, Watchers, Steered, Running
    <2>. QED BY <1>7, <2>1, <2>5 DEF ChildrenInv
<1>10. CASE Throw(TRUE)
    <2>1. QueueInv' /\ Moved("caught", proc.gen, job.was, TRUE)
        BY <1>2, <1>8, <1>10, ThrowsOn
    <2>. QED BY <1>2, <1>7, <2>1, CaughtOk DEF ChildrenInv
<1>. QED BY <1>9, <1>10 DEF LaunchStopsPrevious

\* all that is known of a job at a step
LEMMA JobHere ==
    ASSUME ProcessInv, NEW kinds, NEW pc, At(kinds, pc)
    PROVE  /\ queue # <<>> /\ job.kind \in kinds /\ job.pc = pc /\ job \in JobRecords /\ JobOk(job)
           /\ (pc \in {"begin", "run"} \/ (job.kind # "resume" /\ pc # "caught")) => ~job.cleanup
           /\ job.kind \in Steered => job.op \in Ops /\ job.gen = proc.gen
           /\ proc \in Processes /\ ops \in [Ops -> Operations] /\ record \in ChildRecords
           /\ ServiceTypes /\ HeadOk(job) /\ phase # "down" /\ proc.state # "none"
           /\ proc.gen \in Nat /\ proc.gen > 0 /\ Bounds /\ ChildInv
           /\ pc # "caught" => ~CaughtMark
<1>1. queue # <<>> /\ job.pc = pc /\ ServiceTypes /\ Bounds /\ ChildInv
    BY JobAtKnown DEF ProcessInv, ChildrenInv
<1>2. pc # "caught" => ~CaughtMark
    BY <1>1, JobKnown DEF CaughtMark
<1>. QED BY <1>1, <1>2, JobAtKnown, JobKnown DEF ServiceTypes

LEMMA InvSpawn ==
    ASSUME ProcessInv, Spawn PROVE ChildrenInv'
<1>1. At(Starters, "launch")
    BY DEF Spawn, Starters
<1>2. /\ queue # <<>> /\ job.kind \in Starters /\ job.pc = "launch" /\ ~job.cleanup /\ HeadOk(job)
      /\ job.gen = proc.gen /\ ServiceTypes /\ proc.state # "none" /\ Bounds /\ ChildInv /\ phase # "down"
      /\ proc.gen \in Nat /\ proc.gen > 0
    BY <1>1, JobHere DEF Starters, Steered
<1>3. /\ UNCHANGED <<proc, ops, watched>> /\ UNCHANGED unchangedByJob
      /\ record' = [gen |-> proc.gen, status |-> "live", terminal |-> "none"]
      /\ alive' = alive \cup {proc.gen} /\ identity' = identity
      /\ Goto("identity")
    BY <1>2 DEF Spawn, store
<1>4. Unborn /\ proc.state \in Starting /\ Running(job)
    BY <1>2 DEF HeadInv, HeadOk, StarterOk, StopOk, ResumeOk, PreLaunch, Starters, Watchers, Steered
<1>5. HasPc(job.kind, "identity") /\ "identity" \in JobPcs
    BY <1>2 DEF HasPc, Steered, Watchers, Starters, StarterPcs, StopPcs, ResumePcs, JobPcs
<1>6. Moved("identity", job.gen, job.was, job.cleanup)
    BY <1>2, <1>3, <1>5, Went
<1>7. /\ QueueOk(queue', proc, ops, alive, scenario.faults) /\ queue' \in Seq(Jobs)
      /\ \A i \in DOMAIN queue' : queue'[i].kind \in Watchers =>
            i \in DOMAIN queue /\ queue[i].kind = queue'[i].kind /\ queue[i].gen = queue'[i].gen
    <2>1. job.kind \notin Watchers
        BY <1>2 DEF Starters, Watchers
    <2>. QED BY <1>2, <1>6, <2>1, QueueMoved
<1>8. QueueInv'
    <2>1. \A i \in DOMAIN queue' :
              queue'[i].kind = "terminal" /\ queue'[i].gen \notin alive => queue'[i].gen \notin alive'
        BY <1>3, <1>4, <1>7 DEF Unborn, Watchers
    <2>2. scenario' = scenario
        BY <1>3 DEF unchangedByJob, service
    <2>3. QueueOk(queue', proc', ops', alive', scenario.faults)
        BY <1>3, <1>7, <2>1, QueueCalm
    <2>. QED BY <2>2, <2>3 DEF QueueInv, QueueOk
<1>9. HeadInv'
    <2>1. /\ Head(queue').kind = job.kind /\ Head(queue').op = job.op /\ Head(queue').pc = "identity"
        BY <1>6 DEF Moved
    <2>2. record'.gen = proc'.gen /\ proc'.state \in Starting /\ ops' = ops
        BY <1>3, <1>4
    <2>. QED BY <1>2, <1>4, <2>1, <2>2 DEF HeadInv, HeadOk, StarterOk, StopOk, ResumeOk, PreLaunch, Starters, Watchers, Steered, Running
<1>10. Bounds'
    BY <1>2, <1>3 DEF Bounds
<1>11. ChildInv'
    <2>1. proc'.state \notin Gone /\ proc'.state \notin {"running", "waiting_for_debugger"}
        BY <1>3, <1>4 DEF Starting, Gone, Terminal
    <2>2. Owns(proc.gen)'
        BY <1>3 DEF Owns
    <2>3. removal' = removal /\ phase' = phase
        BY <1>3 DEF unchangedByJob, service
    <2>. QED BY <1>2, <1>3, <2>1, <2>2, <2>3 DEF ChildInv
<1>. QED BY <1>2, <1>3, <1>8, <1>9, <1>10, <1>11, PhaseOfJob DEF ChildrenInv

LEMMA InvWriteIdentity ==
    ASSUME ProcessInv, WriteIdentity PROVE ChildrenInv'
<1>1. At(Starters, "identity")
    BY DEF WriteIdentity, Starters
<1>2. /\ queue # <<>> /\ job.kind \in Starters /\ job.pc = "identity" /\ ~job.cleanup /\ HeadOk(job)
      /\ job.gen = proc.gen /\ ServiceTypes /\ proc.state # "none" /\ Bounds /\ ChildInv /\ phase # "down"
      /\ proc.gen \in Nat /\ ~CaughtMark
    BY <1>1, JobHere DEF Starters, Steered
<1>3. /\ UNCHANGED <<proc, ops, watched, record, alive>> /\ UNCHANGED unchangedByJob
      /\ identity' = identity \cup {proc.gen} /\ Goto("handshake")
    BY <1>2 DEF WriteIdentity, store
<1>4. record.gen = proc.gen /\ proc.state \in Starting /\ Running(job)
    BY <1>2 DEF HeadInv, HeadOk, StarterOk, StopOk, ResumeOk, PreLaunch, Starters, Watchers, Steered
<1>5. HasPc(job.kind, "handshake") /\ "handshake" \in JobPcs
    BY <1>2 DEF HasPc, Steered, Watchers, Starters, StarterPcs, StopPcs, ResumePcs, JobPcs
<1>6. Calmly
    BY <1>2, <1>3, CalmStore
<1>7. QueueInv' /\ Moved("handshake", job.gen, job.was, job.cleanup)
    BY <1>2, <1>3, <1>5, <1>6, GoesOn
<1>8. HeadInv'
    <2>1. /\ Head(queue').kind = job.kind /\ Head(queue').op = job.op /\ Head(queue').pc = "handshake"
        BY <1>7 DEF Moved
    <2>2. record'.gen = proc'.gen /\ proc'.state \in Starting /\ ops' = ops
        BY <1>3, <1>4
    <2>. QED BY <1>2, <1>4, <2>1, <2>2 DEF HeadInv, HeadOk, StarterOk, StopOk, ResumeOk, PreLaunch, Starters, Watchers, Steered, Running
<1>9. Bounds'
    BY <1>2, <1>3 DEF Bounds
<1>10. ChildInv'
    <2>1. proc.state \notin Gone
        BY <1>4 DEF Starting, Gone, Terminal
    <2>2. proc.gen \in alive /\ ~proc.cleanup => Owns(proc.gen)
        BY <1>2, <2>1 DEF ChildInv
    <2>3. removal' = removal /\ phase' = phase
        BY <1>3 DEF unchangedByJob, service
    <2>4. UNCHANGED <<proc, record, alive>>
        BY <1>3
    <2>. QED BY <1>2, <2>1, <2>2, <2>3, <2>4 DEF ChildInv, Owns
<1>. QED BY <1>2, <1>3, <1>7, <1>8, <1>9, <1>10, PhaseOfJob DEF ChildrenInv

LEMMA InvHandshakeFails ==
    ASSUME ProcessInv, HandshakeFails PROVE ChildrenInv'
<1>1. At(Starters, "identity") \/ At(Starters, "handshake")
    BY DEF HandshakeFails, Starters
<1>2. /\ queue # <<>> /\ job.kind \in Starters /\ job.pc \in {"identity", "handshake"} /\ ~job.cleanup /\ HeadOk(job)
      /\ job.gen = proc.gen /\ ServiceTypes /\ proc.state # "none" /\ Bounds /\ ChildInv /\ phase # "down"
      /\ proc.gen \in Nat /\ proc.gen > 0 /\ ~CaughtMark
    BY <1>1, JobHere DEF Starters, Steered
<1>3. /\ UNCHANGED <<proc, ops, watched>> /\ UNCHANGED unchangedByJob /\ record' = NoRecord
      /\ alive' \subseteq alive /\ identity' \subseteq identity
    BY DEF HandshakeFails, store
<1>4. record.gen = proc.gen /\ proc.state \in Starting
    BY <1>2 DEF HeadInv, HeadOk, StarterOk, StopOk, ResumeOk, PreLaunch, Starters, Watchers, Steered
<1>5. proc'.state \notin Gone /\ proc'.state \notin {"running", "waiting_for_debugger"}
    BY <1>3, <1>4 DEF Starting, Gone, Terminal
<1>6. Calmly
    BY <1>2, <1>3, CalmStore
<1>7. Bounds'
    BY <1>2, <1>3 DEF Bounds, NoRecord
<1>8. removal' = removal /\ phase' = phase /\ scenario' = scenario
    BY <1>3 DEF unchangedByJob, service
<1>9. ASSUME proc.gen \notin alive' \/ CaughtMark'
      PROVE  ChildInv'
    BY <1>2, <1>3, <1>5, <1>8, <1>9 DEF ChildInv, NoRecord
<1>10. CASE alive' = alive \ {job.gen} /\ Throw(FALSE)
    <2>1. Accounted' /\ proc.gen \notin alive'
        BY <1>2, <1>3, <1>10 DEF Accounted
    <2>2. QueueInv' /\ Moved("caught", proc.gen, job.was, FALSE)
        BY <1>2, <1>6, <1>10, ThrowsOn
    <2>. QED BY <1>2, <1>3, <1>7, <1>9, <2>1, <2>2, CaughtOk, PhaseOfJob DEF ChildrenInv
<1>11. CASE "unreaped" \in scenario.faults /\ Throw(TRUE)
    <2>1. QueueInv' /\ Moved("caught", proc.gen, job.was, TRUE)
        BY <1>2, <1>6, <1>11, ThrowsOn
    <2>2. CaughtMark'
        BY <1>2, <1>8, <1>11, <2>1 DEF CaughtMark, Moved
    <2>. QED BY <1>2, <1>3, <1>7, <1>9, <2>1, <2>2, CaughtOk, PhaseOfJob DEF ChildrenInv
<1>. QED BY <1>10, <1>11 DEF HandshakeFails

LEMMA InvHandshake ==
    ASSUME ProcessInv, Handshake PROVE ChildrenInv'
<1>1. At(Starters, "handshake")
    BY DEF Handshake, Starters
<1>2. /\ queue # <<>> /\ job.kind \in Starters /\ job.pc = "handshake" /\ ~job.cleanup /\ HeadOk(job)
      /\ job.gen = proc.gen /\ ServiceTypes /\ proc.state # "none" /\ ~CaughtMark
    BY <1>1, JobHere DEF Starters, Steered
<1>3. UNCHANGED <<proc, ops, watched>> /\ UNCHANGED unchangedByJob
    BY DEF Handshake, store
<1>4. record.gen = proc.gen /\ proc.state \in Starting /\ Running(job)
    BY <1>2 DEF HeadInv, HeadOk, StarterOk, StopOk, ResumeOk, PreLaunch, Starters, Watchers, Steered
<1>5. CASE Goto("commit") /\ UNCHANGED host
    <2>1. UNCHANGED <<record, alive, identity>>
        BY <1>5 DEF host
    <2>2. Calmly
        BY <1>2, <1>3, <2>1, CalmStore
    <2>3. Bounds' /\ ChildInv' /\ PhaseInv'
        BY <1>2, <1>3, <2>1, ChildKept, PhaseOfJob
    <2>4. HasPc(job.kind, "commit") /\ "commit" \in JobPcs
        BY <1>2 DEF HasPc, Steered, Watchers, Starters, StarterPcs, StopPcs, ResumePcs, JobPcs
    <2>5. QueueInv' /\ Moved("commit", job.gen, job.was, job.cleanup)
        BY <1>2, <1>5, <2>2, <2>4, GoesOn
    <2>6. /\ Head(queue').kind = job.kind /\ Head(queue').op = job.op /\ Head(queue').pc = "commit"
        BY <2>5 DEF Moved
    <2>7. HeadInv'
        BY <1>2, <1>3, <1>4, <2>1, <2>6 DEF HeadInv, HeadOk, StarterOk, StopOk, ResumeOk, PreLaunch, Starters, Watchers, Steered, Running
    <2>. QED BY <2>3, <2>5, <2>7 DEF ChildrenInv
<1>6. CASE (StopConfirmed(job.gen) /\ Throw(FALSE)) \/ (StopTimesOut(job.gen) /\ Throw(TRUE))
    <2>1. /\ Bounds' /\ ChildInv' /\ PhaseInv' /\ alive' \subseteq alive
          /\ StopConfirmed(job.gen) => Accounted'
        BY <1>2, <1>3, <1>6, ChildStops, PhaseOfJob
    <2>2. Calmly
        BY <1>2, <1>3, <2>1, CalmStore
    <2>3. CASE StopConfirmed(job.gen) /\ Throw(FALSE)
        <3>1. QueueInv' /\ Moved("caught", proc.gen, job.was, FALSE)
            BY <1>2, <2>2, <2>3, ThrowsOn
        <3>. QED BY <1>2, <2>1, <2>3, <3>1, CaughtOk DEF ChildrenInv
    <2>4. CASE StopTimesOut(job.gen) /\ Throw(TRUE)
        <3>1. QueueInv' /\ Moved("caught", proc.gen, job.was, TRUE)
            BY <1>2, <2>2, <2>4, ThrowsOn
        <3>. QED BY <1>2, <2>1, <3>1, CaughtOk DEF ChildrenInv
    <2>. QED BY <1>6, <2>3, <2>4
<1>. QED BY <1>5, <1>6 DEF Handshake

LEMMA InvCommitStart ==
    ASSUME ProcessInv, CommitStart PROVE ChildrenInv'
<1>1. At(Starters, "commit")
    BY DEF CommitStart, Starters
<1>2. /\ queue # <<>> /\ job.kind \in Starters /\ job.pc = "commit" /\ ~job.cleanup /\ HeadOk(job)
      /\ job.gen = proc.gen /\ ServiceTypes /\ proc.state # "none" /\ ~CaughtMark
    BY <1>1, JobHere DEF Starters, Steered
<1>3. UNCHANGED <<ops, watched, record, alive, identity>> /\ UNCHANGED unchangedByJob
    BY DEF CommitStart, host
<1>4. record.gen = proc.gen /\ proc.state \in Starting /\ Running(job)
    BY <1>2 DEF HeadInv, HeadOk, StarterOk, StopOk, ResumeOk, PreLaunch, Starters, Watchers, Steered
<1>5. proc.state \notin Gone
    BY <1>4 DEF Starting, Gone, Terminal
<1>6. ASSUME NEW s \in {"waiting_for_debugger", "running"}, proc' = Updated(s, 0), Goto("watch")
      PROVE  ChildrenInv'
    <2>1. /\ Calmly /\ proc'.state = s /\ proc'.gen = proc.gen /\ proc'.cleanup = proc.cleanup
        BY <1>2, <1>3, <1>5, <1>6, CalmUpdate DEF ProcessStates, Gone
    <2>2. Bounds' /\ ChildInv' /\ PhaseInv'
        BY <1>2, <1>3, <1>4, <1>5, <2>1, ChildKept, PhaseOfJob DEF Gone, Terminal
    <2>3. HasPc(job.kind, "watch") /\ "watch" \in JobPcs
        BY <1>2 DEF HasPc, Steered, Watchers, Starters, StarterPcs, StopPcs, ResumePcs, JobPcs
    <2>4. QueueInv' /\ Moved("watch", job.gen, job.was, job.cleanup)
        BY <1>2, <1>6, <2>1, <2>3, GoesOn
    <2>5. /\ Head(queue').kind = job.kind /\ Head(queue').op = job.op /\ Head(queue').pc = "watch"
        BY <2>4 DEF Moved
    <2>6. HeadInv'
        BY <1>2, <1>3, <1>4, <2>1, <2>5 DEF HeadInv, HeadOk, StarterOk, StopOk, ResumeOk, PreLaunch, Starters, Watchers, Steered, Running
    <2>. QED BY <2>2, <2>4, <2>6 DEF ChildrenInv
<1>7. CASE UNCHANGED proc /\ Goto("undo")
    <2>1. Calmly
        BY <1>2, <1>3, <1>7, CalmStore
    <2>2. Bounds' /\ ChildInv' /\ PhaseInv'
        BY <1>2, <1>3, <1>7, ChildKept, PhaseOfJob
    <2>3. HasPc(job.kind, "undo") /\ "undo" \in JobPcs
        BY <1>2 DEF HasPc, Steered, Watchers, Starters, StarterPcs, StopPcs, ResumePcs, JobPcs
    <2>4. QueueInv' /\ Moved("undo", job.gen, job.was, job.cleanup)
        BY <1>2, <1>7, <2>1, <2>3, GoesOn
    <2>5. /\ Head(queue').kind = job.kind /\ Head(queue').op = job.op /\ Head(queue').pc = "undo"
        BY <2>4 DEF Moved
    <2>6. HeadInv'
        BY <1>2, <1>3, <1>4, <1>5, <1>7, <2>5 DEF HeadInv, HeadOk, StarterOk, StopOk, ResumeOk, PreLaunch, Starters, Watchers, Steered
    <2>. QED BY <2>2, <2>4, <2>6 DEF ChildrenInv
<1>. QED BY <1>6, <1>7 DEF CommitStart

LEMMA InvUndoStart ==
    ASSUME ProcessInv, UndoStart PROVE ChildrenInv'
<1>1. At(Starters, "undo")
    BY DEF UndoStart, Starters
<1>2. /\ queue # <<>> /\ job.kind \in Starters /\ job.pc = "undo" /\ ~job.cleanup /\ HeadOk(job)
      /\ job.gen = proc.gen /\ ServiceTypes /\ proc.state # "none" /\ ~CaughtMark
    BY <1>1, JobHere DEF Starters, Steered
<1>3. UNCHANGED <<ops, watched>> /\ UNCHANGED unchangedByJob
    BY DEF UndoStart
<1>4. proc.state \notin Gone
    BY <1>2 DEF HeadInv, HeadOk, StarterOk, StopOk, ResumeOk, PreLaunch, Starters, Watchers, Steered
<1>6. StopTimesOut(job.gen) /\ proc' = WithCleanup(job.gen) => proc'.cleanup
    <2>1. IsGeneration(job.gen)
        BY <1>2, <1>4 DEF IsGeneration, Exists, Gone
    <2>. QED BY <1>2, <2>1, ProcessMarked
<1>7. StopConfirmed(job.gen) \/ (StopTimesOut(job.gen) /\ proc' = WithCleanup(job.gen))
    BY DEF UndoStart
<1>8. /\ Bounds' /\ ChildInv' /\ PhaseInv' /\ alive' \subseteq alive
      /\ StopConfirmed(job.gen) => Accounted'
    <2>1. proc'.gen = proc.gen /\ proc'.state = proc.state
        BY <1>2, ProcessMarked DEF UndoStart
    <2>2. proc.cleanup => proc'.cleanup
        BY <1>2, ProcessMarked DEF UndoStart
    <2>. QED BY <1>2, <1>3, <1>7, <2>1, <2>2, ChildStops, PhaseOfJob
<1>9. Accounted'
    BY <1>6, <1>7, <1>8 DEF Accounted
<1>10. Calmly
    <2>1. scenario' = scenario
        BY <1>3 DEF unchangedByJob, service
    <2>2. proc'.gen = proc.gen /\ proc'.state = proc.state /\ proc'.active = proc.active
        BY <1>2, ProcessMarked DEF UndoStart
    <2>. QED BY <1>3, <1>4, <1>8, <2>1, <2>2 DEF Calmly, Gone
<1>11. QueueInv' /\ Moved("caught", proc.gen, job.was, FALSE)
    BY <1>2, <1>10, ThrowsOn DEF UndoStart
<1>. QED BY <1>2, <1>8, <1>9, <1>11, CaughtOk DEF ChildrenInv

LEMMA InvWatch ==
    ASSUME ProcessInv, Watch PROVE ChildrenInv'
<1>1. At(Starters, "watch")
    BY DEF Watch, Starters
<1>2. /\ queue # <<>> /\ job.kind \in Starters /\ job.pc = "watch" /\ ~job.cleanup /\ HeadOk(job)
      /\ job.gen = proc.gen /\ ServiceTypes /\ proc.state # "none" /\ ~CaughtMark /\ ChildInv
      /\ proc.gen \in Nat /\ job \in JobRecords /\ JobOk(job)
    BY <1>1, JobHere DEF Starters, Steered
<1>3. /\ UNCHANGED <<proc, ops, record, alive, identity>> /\ UNCHANGED unchangedByJob
      /\ watched' \subseteq watched \cup {proc.gen}
    BY <1>2 DEF Watch, host, store
<1>4. /\ record.gen = proc.gen /\ Running(job)
      /\ proc.state \in {"running", "waiting_for_debugger", "stopping"}
    BY <1>2 DEF HeadInv, HeadOk, StarterOk, StopOk, ResumeOk, PreLaunch, Starters, Watchers, Steered
<1>5. Bounds' /\ ChildInv' /\ PhaseInv'
    BY <1>2, <1>3, ChildKept, PhaseOfJob
<1>. DEFINE q == [job EXCEPT !.pc = "succeed"]
            late == Job("terminal", 0, job.gen, record.terminal)
<1>6. /\ q \in Jobs /\ q.kind = job.kind /\ q.op = job.op /\ q.pc = "succeed" /\ q.gen = job.gen
    <2>1. HasPc(job.kind, "succeed") /\ "succeed" \in JobPcs
        BY <1>2 DEF HasPc, Steered, Watchers, Starters, StarterPcs, StopPcs, ResumePcs, JobPcs
    <2>. QED BY <1>2, <2>1, JobAt DEF SameJob
<1>7. PICK moved \in Seq(Jobs) :
          /\ moved = [queue EXCEPT ![1] = q]
          /\ \/ queue' = moved
             \/ record.terminal # "none" /\ late \in Jobs /\ queue' = Append(moved, late)
    BY <1>2, <1>4, WatchMoved
<1>8. record.terminal # "none" => late.kind = "terminal" /\ late.gen = proc.gen /\ Waits(late)
    BY <1>2 DEF Job, Waits
<1>. HIDE DEF q, late
<1>9. /\ moved # <<>> /\ Head(moved) = q /\ moved[1] = q /\ DOMAIN moved = DOMAIN queue
      /\ 1 \in DOMAIN queue /\ queue \in Seq(Jobs)
      /\ \A i \in DOMAIN queue : i # 1 => moved[i] = queue[i]
    <2>1. queue \in Seq(Jobs) /\ 1 \in DOMAIN queue
        BY <1>2, JobIs DEF ServiceTypes
    <2>2. moved[1] = q /\ DOMAIN moved = DOMAIN queue /\ \A i \in DOMAIN queue : i # 1 => moved[i] = queue[i]
        BY <1>7, <2>1
    <2>3. moved # <<>>
        BY <2>1, <2>2
    <2>. QED BY <2>1, <2>2, <2>3, <1>7, HeadTailProperties
<1>10. QueueOk(moved, proc, ops, alive, scenario.faults)
    <2>1. job = queue[1] /\ QueueOk(queue, proc, ops, alive, scenario.faults)
        BY <1>2, JobKnown DEF ProcessInv, ChildrenInv, QueueInv
    <2>2. Placed(q, proc, ops)
        BY <1>2, <1>6, <1>9, <2>1 DEF QueueOk, Placed, Starters, Steered
    <2>3. queue[1].kind \notin Watchers
        BY <1>2, <2>1 DEF Starters, Watchers
    <2>. QED BY <1>6, <1>7, <1>9, <2>1, <2>2, <2>3, QueueReplaced
<1>11. QueueOk(queue', proc, ops, alive, scenario.faults) /\ queue' \in Seq(Jobs)
       /\ queue' # <<>> /\ Head(queue') = q
    <2>1. CASE queue' = moved
        BY <1>7, <1>9, <1>10, <2>1
    <2>2. CASE record.terminal # "none" /\ late \in Jobs /\ queue' = Append(moved, late)
        <3>1. record.gen \notin alive
            BY <1>2, <2>2 DEF ChildInv
        <3>2. Late(late, proc, alive, scenario.faults) /\ late.kind \in Watchers
            BY <1>2, <1>4, <1>8, <2>2, <3>1 DEF Late, Watchers
        <3>3. QueueOk(queue', proc, ops, alive, scenario.faults)
            BY <1>7, <1>8, <1>10, <2>2, <3>2, QueueAppended
        <3>4. queue' \in Seq(Jobs) /\ queue' # <<>> /\ queue'[1] = q
            <4>1. Len(moved) \in Nat /\ 1 \in 1..Len(moved)
                BY <1>7, <1>9, LenProperties
            <4>. QED BY <1>7, <1>9, <2>2, <4>1, AppendProperties
        <3>5. Head(queue') = q
            BY <3>4, HeadTailProperties
        <3>. QED BY <3>3, <3>4, <3>5
    <2>. QED BY <1>7, <2>1, <2>2
<1>12. QueueInv'
    <2>1. Calmly
        BY <1>2, <1>3, CalmStore
    <2>. QED BY <1>11, <2>1, QueueAfter DEF Calmly
<1>13. HeadInv'
    BY <1>2, <1>3, <1>4, <1>6, <1>11 DEF HeadInv, HeadOk, StarterOk, StopOk, ResumeOk, PreLaunch, Starters, Watchers, Steered, Running
<1>. QED BY <1>5, <1>12, <1>13 DEF ChildrenInv

\* the operation of the job is set
LEMMA CalmOperation ==
    ASSUME ServiceTypes, NEW o \in Ops, NEW s \in OpTerminal, SetOp(o, s) \/ UNCHANGED ops,
           UNCHANGED <<proc, alive>>, UNCHANGED unchangedByJob, proc.state # "none"
    PROVE  Calmly
<1>1. \A x \in Ops : ops[x] # NoOp => ops'[x] # NoOp
    BY OperationSet
<1>2. scenario' = scenario
    BY DEF unchangedByJob, service
<1>. QED BY <1>1, <1>2 DEF Calmly

LEMMA InvJobSucceeds ==
    ASSUME ProcessInv, JobSucceeds PROVE ChildrenInv'
<1>1. At(Steered, "succeed")
    BY DEF JobSucceeds, Steered
<1>2. /\ queue # <<>> /\ job.kind \in Steered /\ job.pc = "succeed" /\ HeadOk(job)
      /\ job.gen = proc.gen /\ job.op \in Ops /\ ServiceTypes /\ proc.state # "none" /\ ~CaughtMark
      /\ job.kind # "resume" => ~job.cleanup
    BY <1>1, JobHere
<1>3. UNCHANGED <<proc, record, alive, identity, watched>> /\ UNCHANGED unchangedByJob
    BY DEF JobSucceeds, host
<1>4. Bounds' /\ ChildInv' /\ PhaseInv'
    BY <1>2, <1>3, ChildKept, PhaseOfJob
<1>5. SetOp(job.op, "succeeded") \/ UNCHANGED ops
    BY DEF JobSucceeds
<1>6. Calmly
    BY <1>2, <1>3, <1>5, CalmOperation DEF OpTerminal
<1>7. CASE JobEnds
    BY <1>2, <1>4, <1>6, <1>7, EndsNow DEF ChildrenInv
<1>8. CASE ~CanSet(job.op, "succeeded")
    <2>1. job.kind \notin Starters
        <3>1. ~Running(job)
            BY <1>8 DEF CanSet, Running, OpTerminal
        <3>. QED BY <1>2, <3>1 DEF HeadInv, HeadOk, StarterOk, StopOk, ResumeOk, PreLaunch, Starters, Watchers, Steered
    <2>2. Goto("fail")
        BY <1>8, <2>1 DEF JobSucceeds, Starters
    <2>3. HasPc(job.kind, "fail") /\ "fail" \in JobPcs
        BY <1>2 DEF HasPc, Steered, Watchers, Starters, StarterPcs, StopPcs, ResumePcs, JobPcs
    <2>4. QueueInv' /\ Moved("fail", job.gen, job.was, job.cleanup)
        BY <1>2, <1>6, <2>2, <2>3, GoesOn
    <2>5. /\ Head(queue').kind = job.kind /\ Head(queue').pc = "fail"
        BY <2>4 DEF Moved
    <2>6. HeadInv'
        BY <1>2, <2>1, <2>5 DEF HeadInv, HeadOk, StarterOk, StopOk, ResumeOk, PreLaunch, Starters, Watchers, Steered
    <2>. QED BY <1>4, <2>4, <2>6 DEF ChildrenInv
<1>. QED BY <1>7, <1>8 DEF JobSucceeds

LEMMA InvJobEnds ==
    ASSUME ProcessInv, CatchAborted \/ JobFails \/ ResumeSuperseded PROVE ChildrenInv'
<1>1. PICK pc \in {"caught", "fail", "superseded"} : At(Steered, pc) /\ (pc = "caught" => Aborted)
    BY DEF CatchAborted, JobFails, ResumeSuperseded, Steered, At
<1>2. /\ queue # <<>> /\ job.kind \in Steered /\ job.pc = pc /\ job.op \in Ops
      /\ ServiceTypes /\ proc.state # "none" /\ (pc # "caught" => ~CaughtMark)
    BY <1>1, JobHere
<1>3. /\ UNCHANGED <<proc, record, alive, identity, watched>> /\ UNCHANGED unchangedByJob /\ JobEnds
    BY DEF CatchAborted, JobFails, ResumeSuperseded, host
<1>4. ~CaughtMark
    <2>1. CASE Aborted
        <3>1. "unreaped" \notin scenario.faults
            BY <2>1 DEF Aborted, ProcessInv, ChildrenInv, PhaseInv
        <3>. QED BY <3>1 DEF CaughtMark
    <2>. QED BY <1>1, <1>2, <2>1
<1>5. Bounds' /\ ChildInv' /\ PhaseInv'
    BY <1>2, <1>3, <1>4, ChildKept, PhaseOfJob
<1>6. SetOp(job.op, "cancelled") \/ SetOp(job.op, "failed") \/ UNCHANGED ops
    BY DEF CatchAborted, JobFails, ResumeSuperseded
<1>7. Calmly
    BY <1>2, <1>3, <1>6, CalmOperation DEF OpTerminal
<1>. QED BY <1>2, <1>3, <1>5, <1>7, EndsNow DEF ChildrenInv

LEMMA InvFailProcess ==
    ASSUME ProcessInv, FailProcess PROVE ChildrenInv'
<1>1. At(Starters, "caught")
    BY DEF FailProcess, Starters
<1>2. /\ queue # <<>> /\ job.kind \in Starters /\ job.pc = "caught" /\ HeadOk(job)
      /\ job.gen = proc.gen /\ ServiceTypes /\ proc.state # "none" /\ ChildInv
    BY <1>1, JobHere DEF Starters, Steered
<1>3. UNCHANGED <<ops, record, alive, identity>> /\ UNCHANGED unchangedByJob /\ watched' \subseteq watched
    BY DEF FailProcess, host, Unwatch
<1>4. CASE job.cleanup
    <2>1. proc' = WithCleanup(job.gen) /\ JobBecomes([job EXCEPT !.cleanup = FALSE])
        BY <1>4 DEF FailProcess
    <2>2. /\ proc'.state = proc.state /\ proc'.gen = proc.gen /\ proc'.active = proc.active
        BY <1>2, <2>1, ProcessMarked
    <2>3. proc.cleanup \/ Exists => proc'.cleanup
        BY <1>2, <2>1, ProcessMarked DEF IsGeneration
    <2>4. Accounted'
        <3>1. ASSUME ~Exists, proc.gen \in alive PROVE proc.cleanup
            BY <1>2, <3>1 DEF Exists, ChildInv, Gone
        <3>. QED BY <1>3, <2>2, <2>3, <3>1 DEF Accounted
    <2>5. Calmly
        <3>1. scenario' = scenario
            BY <1>3 DEF unchangedByJob, service
        <3>. QED BY <1>3, <2>2, <3>1 DEF Calmly
    <2>6. Bounds' /\ ChildInv' /\ PhaseInv'
        <3>1. proc.cleanup => proc'.cleanup
            BY <2>3
        <3>. QED BY <1>2, <1>3, <2>2, <2>4, <3>1, ChildKept, PhaseOfJob
    <2>7. Moved("caught", job.gen, job.was, FALSE)
        BY <1>2, <2>1, Unmarked
    <2>8. QueueInv'
        BY <1>2, <2>5, <2>7, MovesOn
    <2>. QED BY <1>2, <2>4, <2>6, <2>7, <2>8, CaughtOk DEF ChildrenInv
<1>5. CASE ~job.cleanup
    <2>1. Accounted
        BY <1>2, <1>5 DEF HeadInv, HeadOk, StarterOk, StopOk, ResumeOk, PreLaunch, Starters, Watchers, Steered
    <2>2. ~CaughtMark
        BY <1>2, <1>5, JobKnown DEF CaughtMark
    <2>3. CASE CanUpdate(job.gen, "failed") /\ proc' = Updated("failed", 0) /\ Goto("fail")
        <3>1. proc.state # "removed"
            BY <2>3 DEF CanUpdate, IsGeneration, Exists
        <3>2. /\ Calmly /\ proc'.state = "failed" /\ proc'.gen = proc.gen /\ proc'.cleanup = proc.cleanup
            BY <1>2, <1>3, <2>3, <3>1, CalmUpdate DEF ProcessStates, Gone, Terminal
        <3>3. Bounds' /\ ChildInv' /\ PhaseInv'
            BY <1>2, <1>3, <2>1, <2>2, <3>2, ChildKept, PhaseOfJob DEF Gone, Terminal
        <3>4. HasPc(job.kind, "fail") /\ "fail" \in JobPcs
            BY <1>2 DEF HasPc, Steered, Watchers, Starters, StarterPcs, StopPcs, ResumePcs, JobPcs
        <3>5. QueueInv' /\ Moved("fail", job.gen, job.was, job.cleanup)
            BY <1>2, <1>5, <2>3, <3>2, <3>4, GoesOn
        <3>6. Head(queue').kind = job.kind /\ Head(queue').pc = "fail"
            BY <3>5 DEF Moved
        <3>7. HeadInv'
            BY <1>2, <3>6 DEF HeadInv, HeadOk, StarterOk, StopOk, ResumeOk, PreLaunch, Starters, Watchers, Steered
        <3>. QED BY <3>3, <3>5, <3>7 DEF ChildrenInv
    <2>4. CASE UNCHANGED proc /\ JobEnds
        <3>1. Calmly
            BY <1>2, <1>3, <2>4, CalmStore
        <3>2. Bounds' /\ ChildInv' /\ PhaseInv'
            BY <1>2, <1>3, <2>2, <2>4, ChildKept, PhaseOfJob
        <3>. QED BY <1>2, <2>4, <3>1, <3>2, EndsNow DEF ChildrenInv
    <2>. QED BY <1>5, <2>3, <2>4 DEF FailProcess
<1>. QED BY <1>4, <1>5

LEMMA InvHalt ==
    ASSUME ProcessInv, Halt PROVE ChildrenInv'
<1>1. At({"stop", "restart"}, "run")
    BY DEF Halt
<1>2. /\ queue # <<>> /\ job.kind \in {"stop", "restart"} /\ job.pc = "run" /\ ~job.cleanup
      /\ HeadOk(job) /\ job.gen = proc.gen /\ ServiceTypes /\ proc.state # "none" /\ ChildInv /\ ~CaughtMark
      /\ job.was \in Terminal => proc.state \in Gone
    BY <1>1, JobHere, JobKnown DEF Steered
<1>3. UNCHANGED <<proc, ops, watched>> /\ UNCHANGED unchangedByJob
    BY DEF Halt, store
<1>4. job.kind = "restart" => Running(job) \/ proc.state = "removed"
    BY <1>2 DEF HeadInv, HeadOk, StarterOk, StopOk, ResumeOk, PreLaunch, Starters, Watchers, Steered
<1>5. ASSUME Goto("complete"), Accounted', Bounds', ChildInv', PhaseInv', alive' \subseteq alive
      PROVE  ChildrenInv'
    <2>1. Calmly
        BY <1>2, <1>3, <1>5, CalmStore
    <2>2. HasPc(job.kind, "complete") /\ "complete" \in JobPcs
        BY <1>2 DEF HasPc, Steered, Watchers, Starters, StarterPcs, StopPcs, ResumePcs, JobPcs
    <2>3. QueueInv' /\ Moved("complete", job.gen, job.was, job.cleanup)
        BY <1>2, <1>5, <2>1, <2>2, GoesOn
    <2>4. Head(queue').kind = job.kind /\ Head(queue').pc = "complete" /\ Head(queue').op = job.op
        BY <2>3 DEF Moved
    <2>5. HeadInv'
        BY <1>2, <1>3, <1>4, <1>5, <2>4 DEF HeadInv, HeadOk, StarterOk, StopOk, ResumeOk, PreLaunch, Starters, Watchers, Steered, Running
    <2>. QED BY <1>5, <2>3, <2>5 DEF ChildrenInv
<1>6. CASE job.was \in Terminal /\ UNCHANGED host /\ Goto("complete")
    <2>1. UNCHANGED <<record, alive, identity>>
        BY <1>6 DEF host
    <2>2. Bounds' /\ ChildInv' /\ PhaseInv'
        BY <1>2, <1>3, <2>1, ChildKept, PhaseOfJob
    <2>3. Accounted'
        BY <1>2, <1>3, <1>6, <2>1 DEF Accounted, ChildInv
    <2>. QED BY <1>5, <1>6, <2>1, <2>2, <2>3
<1>7. CASE StopConfirmed(job.gen) /\ Goto("complete")
    BY <1>2, <1>3, <1>5, <1>7, ChildStops, PhaseOfJob
<1>8. CASE StopTimesOut(job.gen) /\ (IF job.kind = "restart" THEN Throw(TRUE) ELSE Goto("unconfirmed"))
    <2>1. /\ Bounds' /\ ChildInv' /\ PhaseInv' /\ alive' \subseteq alive
        BY <1>2, <1>3, <1>8, ChildStops, PhaseOfJob
    <2>2. Calmly
        BY <1>2, <1>3, <2>1, CalmStore
    <2>3. CASE job.kind = "restart" /\ Throw(TRUE)
        <3>1. QueueInv' /\ Moved("caught", proc.gen, job.was, TRUE)
            BY <1>2, <2>2, <2>3, ThrowsOn DEF Starters
        <3>. QED BY <2>1, <2>3, <3>1, CaughtOk DEF ChildrenInv, Starters
    <2>4. CASE job.kind = "stop" /\ Goto("unconfirmed")
        <3>1. HasPc(job.kind, "unconfirmed") /\ "unconfirmed" \in JobPcs
            BY <2>4 DEF HasPc, Steered, Watchers, Starters, StarterPcs, StopPcs, ResumePcs, JobPcs
        <3>2. QueueInv' /\ Moved("unconfirmed", job.gen, job.was, job.cleanup)
            BY <1>2, <2>2, <2>4, <3>1, GoesOn
        <3>3. Head(queue').kind = "stop" /\ Head(queue').pc = "unconfirmed"
            BY <2>4, <3>2 DEF Moved
        <3>4. HeadInv'
            BY <3>3 DEF HeadInv, HeadOk, StarterOk, StopOk, ResumeOk, PreLaunch, Starters, Watchers, Steered
        <3>. QED BY <2>1, <3>2, <3>4 DEF ChildrenInv
    <2>. QED BY <1>2, <1>8, <2>3, <2>4
<1>. QED BY <1>6, <1>7, <1>8 DEF Halt

LEMMA InvBeginRestart ==
    ASSUME ProcessInv, BeginRestart PROVE ChildrenInv'
<1>1. At({"restart"}, "complete")
    BY DEF BeginRestart
<1>2. /\ queue # <<>> /\ job.kind = "restart" /\ job.pc = "complete" /\ ~job.cleanup /\ HeadOk(job)
      /\ job.gen = proc.gen /\ ServiceTypes /\ proc.state # "none" /\ ~CaughtMark /\ Bounds /\ ChildInv
      /\ proc.gen \in Nat /\ job.op \in Ops /\ proc \in Processes /\ phase # "down"
    BY <1>1, JobHere DEF Steered
<1>3. UNCHANGED <<ops, watched, record, alive, identity>> /\ UNCHANGED unchangedByJob
    BY DEF BeginRestart, host
<1>4. Accounted /\ (Running(job) \/ proc.state = "removed")
    BY <1>2 DEF HeadInv, HeadOk, StarterOk, StopOk, ResumeOk, PreLaunch, Starters, Watchers, Steered
<1>5. CASE UNCHANGED proc /\ Throw(FALSE)
    <2>1. Calmly
        BY <1>2, <1>3, <1>5, CalmStore
    <2>2. Bounds' /\ ChildInv' /\ PhaseInv'
        BY <1>2, <1>3, <1>5, ChildKept, PhaseOfJob
    <2>3. Accounted'
        BY <1>3, <1>4, <1>5 DEF Accounted
    <2>4. QueueInv' /\ Moved("caught", proc.gen, job.was, FALSE)
        BY <1>2, <1>5, <2>1, ThrowsOn DEF Starters
    <2>. QED BY <1>2, <2>2, <2>3, <2>4, CaughtOk DEF ChildrenInv, Starters
<1>6. CASE /\ IsGeneration(job.gen) /\ proc.active = job.op /\ proc' = Restarted
           /\ JobBecomes([job EXCEPT !.gen = job.gen + 1, !.pc = "stage"])
    <2>1. Moved("stage", proc.gen + 1, job.was, FALSE)
        BY <1>2, <1>6, RestartBegun
    <2>2. /\ proc'.gen = proc.gen + 1 /\ proc'.state = "queued" /\ proc'.active = proc.active
          /\ proc.gen + 1 \in Nat /\ proc.gen < proc.gen + 1
        <3>1. proc.gen + 1 \in Nat /\ proc.gen < proc.gen + 1
            BY <1>2
        <3>. QED BY <1>2, <1>6, <3>1 DEF Restarted, Processes
    <2>3. /\ queue \in Seq(Jobs) /\ job = queue[1] /\ 1 \in DOMAIN queue
          /\ QueueOk(queue, proc, ops, alive, scenario.faults)
        BY <1>2, JobKnown, JobIs DEF ProcessInv, ChildrenInv, QueueInv, ServiceTypes
    <2>4. DOMAIN queue = 1..Len(queue) /\ Len(queue) \in Nat
        BY <2>3, LenProperties
    <2>5. \A i \in DOMAIN queue : i # 1 => queue[i].kind \notin Steered
        <3>1. \A i \in DOMAIN queue : i # 1 => 1 < i
            BY <2>4
        <3>. QED BY <1>2, <1>6, <2>3, <3>1 DEF QueueOk, Steered
    <2>6. /\ DOMAIN queue' = DOMAIN queue /\ \A i \in DOMAIN queue : i # 1 => queue'[i] = queue[i]
          /\ queue'[1].kind = "restart" /\ queue'[1].op = job.op /\ queue'[1].pc = "stage"
          /\ queue'[1].gen = proc'.gen /\ Head(queue') = queue'[1]
        BY <1>2, <2>1, <2>2 DEF Moved
    <2>7. \A i \in DOMAIN queue : queue[i].kind \in Watchers => queue[i].gen <= proc.gen /\ queue[i].gen \in Nat
        BY <2>3, ElementOfSeq DEF QueueOk, Late, Jobs, JobRecords
    <2>8. QueueOk(queue', proc', ops', alive', scenario'.faults)
        <3>1. scenario' = scenario
            BY <1>3 DEF unchangedByJob, service
        <3>2. \A i \in DOMAIN queue' : i # 1 => Waits(queue'[i])
            BY <2>3, <2>6 DEF QueueOk
        <3>3. ASSUME NEW i \in DOMAIN queue', queue'[i].kind \in Steered
              PROVE  Placed(queue'[i], proc', ops')
            <4>1. i = 1
                BY <2>5, <2>6, <3>3
            <4>2. ops[job.op] # NoOp
                BY <1>2, <1>6, JobKnown DEF IsGeneration, Exists, Steered
            <4>. QED BY <1>3, <2>6, <4>1, <4>2 DEF Placed
        <3>4. ASSUME NEW i \in DOMAIN queue', queue'[i].kind \in Watchers
              PROVE  Late(queue'[i], proc', alive', scenario.faults)
            <4>1. i # 1 /\ queue'[i] = queue[i] /\ i \in DOMAIN queue
                BY <2>6, <3>4 DEF Watchers
            <4>2. Late(queue[i], proc, alive, scenario.faults)
                BY <2>3, <3>4, <4>1 DEF QueueOk
            <4>3. queue[i].gen <= proc.gen + 1
                BY <1>2, <2>7, <3>4, <4>1
            <4>. QED BY <1>3, <2>2, <4>1, <4>2, <4>3 DEF Late
        <3>5. \A i, k \in DOMAIN queue' :
                  i < k /\ queue'[i].kind \in Steered /\ queue'[k].kind \in Steered => queue'[i].op # proc'.active
            BY <2>4, <2>5, <2>6
        <3>. QED BY <3>1, <3>2, <3>3, <3>4, <3>5 DEF QueueOk
    <2>9. QueueInv'
        BY <2>8 DEF QueueInv, QueueOk
    <2>10. /\ proc'.gen \notin alive /\ proc'.gen \notin identity /\ proc'.gen \notin watched
           /\ record.gen # proc'.gen
        <3>1. alive \subseteq Nat /\ identity \subseteq Nat /\ watched \subseteq Nat /\ record.gen \in Nat
            BY <1>2 DEF ServiceTypes, ChildRecords
        <3>2. \A g \in Nat : g <= proc.gen => g # proc.gen + 1
            BY <1>2
        <3>. QED BY <1>2, <2>2, <3>1, <3>2 DEF Bounds
    <2>11. Unborn'
        <3>1. \A i \in DOMAIN queue' : queue'[i].kind \in Watchers => queue'[i].gen # proc'.gen
            <4>1. ASSUME NEW i \in DOMAIN queue', queue'[i].kind \in Watchers
                  PROVE  queue'[i].gen # proc.gen + 1
                <5>1. i # 1 /\ queue'[i] = queue[i] /\ i \in DOMAIN queue
                    BY <2>6, <4>1 DEF Watchers
                <5>. QED BY <1>2, <2>7, <4>1, <5>1
            <4>. QED BY <2>2, <4>1
        <3>. QED BY <1>3, <2>10, <3>1 DEF Unborn
    <2>12. HeadInv'
        <3>1. Running(job)
            BY <1>4, <1>6 DEF IsGeneration, Exists
        <3>. QED BY <1>3, <2>2, <2>6, <2>11, <3>1 DEF HeadInv, HeadOk, StarterOk, StopOk, ResumeOk, PreLaunch, Starters, Watchers, Steered, Running, Starting
    <2>13. Bounds'
        <3>1. \A g \in alive \cup identity \cup watched : g <= proc.gen + 1
            <4>1. \A g \in alive \cup identity \cup watched : g \in Nat /\ g <= proc.gen
                BY <1>2 DEF Bounds, ServiceTypes
            <4>. QED BY <1>2, <4>1
        <3>2. record.gen <= proc.gen + 1
            <4>1. record.gen \in Nat
                BY <1>2 DEF ServiceTypes, ChildRecords
            <4>. QED BY <1>2, <4>1 DEF Bounds
        <3>3. proc.gen + 1 > 0
            BY <1>2
        <3>. QED BY <1>3, <2>2, <3>1, <3>2, <3>3 DEF Bounds
    <2>14. ChildInv'
        <3>1. removal' = removal /\ phase' = phase
            BY <1>3 DEF unchangedByJob, service
        <3>2. removal # NoRemoval => removal.gen < proc.gen + 1
            <4>1. removal.gen \in Nat
                BY <1>2 DEF ServiceTypes, Removals
            <4>. QED BY <1>2, <4>1 DEF ChildInv
        <3>. QED BY <1>2, <1>3, <2>2, <2>10, <3>1, <3>2 DEF ChildInv
    <2>. QED BY <1>2, <1>3, <2>9, <2>12, <2>13, <2>14, PhaseOfJob DEF ChildrenInv
<1>. QED BY <1>5, <1>6 DEF BeginRestart

\* the completion of a stop
LEMMA CalmCompleted ==
    ASSUME ServiceTypes, NEW s \in {"cancelled", "failed"}, CanComplete, proc' = Completed(s),
           UNCHANGED <<ops, alive>>, UNCHANGED unchangedByJob, proc.state # "none"
    PROVE  /\ Calmly /\ proc'.state \in Terminal /\ proc'.gen = proc.gen /\ proc'.cleanup = proc.cleanup
           /\ proc'.state \notin {"none", "running", "waiting_for_debugger"}
<1>1. /\ proc'.state \in Terminal /\ proc'.gen = proc.gen /\ proc'.cleanup = proc.cleanup /\ proc'.active = 0
    BY ProcessCompleted
<1>2. scenario' = scenario
    BY DEF unchangedByJob, service
<1>3. proc.state # "removed"
    BY DEF CanComplete, IsGeneration, Exists
<1>. QED BY <1>1, <1>2, <1>3 DEF Calmly, Gone, Terminal

LEMMA InvCompleteStop ==
    ASSUME ProcessInv, CompleteStop PROVE ChildrenInv'
<1>1. At({"stop"}, "complete")
    BY DEF CompleteStop
<1>2. /\ queue # <<>> /\ job.kind = "stop" /\ job.pc = "complete" /\ ~job.cleanup /\ HeadOk(job)
      /\ job.gen = proc.gen /\ ServiceTypes /\ proc.state # "none" /\ ~CaughtMark
    BY <1>1, JobHere DEF Steered
<1>3. UNCHANGED <<ops, watched, record, alive, identity>> /\ UNCHANGED unchangedByJob
    BY DEF CompleteStop, host
<1>4. Accounted
    BY <1>2 DEF HeadInv, HeadOk, StarterOk, StopOk, ResumeOk, PreLaunch, Starters, Watchers, Steered
<1>5. HasPc(job.kind, "succeed") /\ HasPc(job.kind, "failing") /\ {"succeed", "failing"} \subseteq JobPcs
    BY <1>2 DEF HasPc, Steered, Watchers, Starters, StarterPcs, StopPcs, ResumePcs, JobPcs
<1>6. CASE CanComplete /\ proc' = Completed("cancelled") /\ Goto("succeed")
    <2>1. /\ Calmly /\ proc'.state \in Terminal /\ proc'.gen = proc.gen /\ proc'.cleanup = proc.cleanup
          /\ proc'.state \notin {"none", "running", "waiting_for_debugger"}
        BY <1>2, <1>3, <1>6, CalmCompleted
    <2>2. Bounds' /\ ChildInv' /\ PhaseInv'
        BY <1>2, <1>3, <1>4, <2>1, ChildKept, PhaseOfJob DEF Gone
    <2>3. QueueInv' /\ Moved("succeed", job.gen, job.was, job.cleanup)
        BY <1>2, <1>5, <1>6, <2>1, GoesOn
    <2>4. Head(queue').kind = "stop" /\ Head(queue').pc = "succeed"
        BY <1>2, <2>3 DEF Moved
    <2>5. HeadInv'
        BY <2>4 DEF HeadInv, HeadOk, StarterOk, StopOk, ResumeOk, PreLaunch, Starters, Watchers, Steered
    <2>. QED BY <2>2, <2>3, <2>5 DEF ChildrenInv
<1>7. CASE UNCHANGED proc /\ Goto("failing")
    <2>1. Calmly
        BY <1>2, <1>3, <1>7, CalmStore
    <2>2. Bounds' /\ ChildInv' /\ PhaseInv'
        BY <1>2, <1>3, <1>7, ChildKept, PhaseOfJob
    <2>3. QueueInv' /\ Moved("failing", job.gen, job.was, job.cleanup)
        BY <1>2, <1>5, <1>7, <2>1, GoesOn
    <2>4. Head(queue').kind = "stop" /\ Head(queue').pc = "failing"
        BY <1>2, <2>3 DEF Moved
    <2>5. Accounted'
        BY <1>3, <1>4, <1>7 DEF Accounted
    <2>6. HeadInv'
        BY <2>4, <2>5 DEF HeadInv, HeadOk, StarterOk, StopOk, ResumeOk, PreLaunch, Starters, Watchers, Steered
    <2>. QED BY <2>2, <2>3, <2>6 DEF ChildrenInv
<1>. QED BY <1>6, <1>7 DEF CompleteStop

LEMMA InvFailStop ==
    ASSUME ProcessInv, FailStop PROVE ChildrenInv'
<1>1. PICK pc \in {"unconfirmed", "failing"} : At({"stop"}, pc)
    BY DEF FailStop
<1>2. /\ queue # <<>> /\ job.kind = "stop" /\ job.pc = pc /\ ~job.cleanup /\ HeadOk(job)
      /\ job.gen = proc.gen /\ ServiceTypes /\ proc.state # "none" /\ ~CaughtMark /\ ChildInv
    BY <1>1, JobHere DEF Steered
<1>3. UNCHANGED <<ops, watched, record, alive, identity>> /\ UNCHANGED unchangedByJob
    BY DEF FailStop, host
<1>4. HasPc(job.kind, "fail") /\ HasPc(job.kind, "failing") /\ {"fail", "failing"} \subseteq JobPcs
    BY <1>2 DEF HasPc, Steered, Watchers, Starters, StarterPcs, StopPcs, ResumePcs, JobPcs
<1>5. CASE pc = "unconfirmed"
    <2>1. proc' = WithCleanup(job.gen) /\ Goto("failing")
        BY <1>2, <1>5 DEF FailStop, At
    <2>2. /\ proc'.state = proc.state /\ proc'.gen = proc.gen /\ proc'.active = proc.active
        BY <1>2, <2>1, ProcessMarked
    <2>3. proc.cleanup \/ Exists => proc'.cleanup
        BY <1>2, <2>1, ProcessMarked DEF IsGeneration
    <2>4. Accounted'
        <3>1. ASSUME ~Exists, proc.gen \in alive PROVE proc.cleanup
            BY <1>2, <3>1 DEF Exists, ChildInv, Gone
        <3>. QED BY <1>3, <2>2, <2>3, <3>1 DEF Accounted
    <2>5. Calmly
        <3>1. scenario' = scenario
            BY <1>3 DEF unchangedByJob, service
        <3>. QED BY <1>3, <2>2, <3>1 DEF Calmly
    <2>6. Bounds' /\ ChildInv' /\ PhaseInv'
        <3>1. proc.cleanup => proc'.cleanup
            BY <2>3
        <3>. QED BY <1>2, <1>3, <2>2, <2>4, <3>1, ChildKept, PhaseOfJob
    <2>7. QueueInv' /\ Moved("failing", job.gen, job.was, job.cleanup)
        BY <1>2, <1>4, <2>1, <2>5, GoesOn
    <2>8. Head(queue').kind = "stop" /\ Head(queue').pc = "failing"
        BY <1>2, <2>7 DEF Moved
    <2>9. HeadInv'
        BY <2>4, <2>8 DEF HeadInv, HeadOk, StarterOk, StopOk, ResumeOk, PreLaunch, Starters, Watchers, Steered
    <2>. QED BY <2>6, <2>7, <2>9 DEF ChildrenInv
<1>6. CASE pc = "failing"
    <2>1. Goto("fail") /\ ((CanComplete /\ proc' = Completed("failed")) \/ UNCHANGED proc)
        BY <1>2, <1>6 DEF FailStop, At
    <2>2. Accounted
        BY <1>2, <1>6 DEF HeadInv, HeadOk, StarterOk, StopOk, ResumeOk, PreLaunch, Starters, Watchers, Steered
    <2>3. Calmly /\ Bounds' /\ ChildInv' /\ PhaseInv'
        <3>1. CASE UNCHANGED proc
            <4>1. Bounds' /\ ChildInv' /\ PhaseInv'
                BY <1>2, <1>3, <3>1, ChildKept, PhaseOfJob
            <4>. QED BY <1>2, <1>3, <3>1, <4>1, CalmStore
        <3>2. CASE CanComplete /\ proc' = Completed("failed")
            <4>1. /\ Calmly /\ proc'.state \in Terminal /\ proc'.gen = proc.gen /\ proc'.cleanup = proc.cleanup
                  /\ proc'.state \notin {"none", "running", "waiting_for_debugger"}
                BY <1>2, <1>3, <3>2, CalmCompleted
            <4>2. Bounds' /\ ChildInv' /\ PhaseInv'
                BY <1>2, <1>3, <2>2, <4>1, ChildKept, PhaseOfJob DEF Gone
            <4>. QED BY <4>1, <4>2
        <3>. QED BY <2>1, <3>1, <3>2
    <2>4. QueueInv' /\ Moved("fail", job.gen, job.was, job.cleanup)
        BY <1>2, <1>4, <2>1, <2>3, GoesOn
    <2>5. Head(queue').kind = "stop" /\ Head(queue').pc = "fail"
        BY <1>2, <2>4 DEF Moved
    <2>6. HeadInv'
        BY <2>5 DEF HeadInv, HeadOk, StarterOk, StopOk, ResumeOk, PreLaunch, Starters, Watchers, Steered
    <2>. QED BY <2>3, <2>4, <2>6 DEF ChildrenInv
<1>. QED BY <1>1, <1>5, <1>6

LEMMA InvResume ==
    ASSUME ProcessInv, Resume PROVE ChildrenInv'
<1>1. At({"resume"}, "run")
    BY DEF Resume
<1>2. /\ queue # <<>> /\ job.kind = "resume" /\ job.pc = "run" /\ ~job.cleanup
      /\ job.gen = proc.gen /\ ServiceTypes /\ proc.state # "none" /\ ~CaughtMark
    BY <1>1, JobHere DEF Steered
<1>3. UNCHANGED <<proc, ops, watched>> /\ UNCHANGED unchangedByJob
    BY DEF Resume, store
<1>4. ASSUME NEW was \in {"running", "failed"}, NEW cleanup \in BOOLEAN, Moved("resumed", job.gen, was, cleanup),
             Bounds', ChildInv', alive' \subseteq alive, was = "failed" /\ ~cleanup => Accounted'
      PROVE  ChildrenInv'
    <2>1. Calmly
        BY <1>2, <1>3, <1>4, CalmStore
    <2>2. QueueInv'
        BY <1>2, <1>4, <2>1, MovesOn
    <2>3. /\ Head(queue').kind = "resume" /\ Head(queue').pc = "resumed" /\ Head(queue').was = was
          /\ Head(queue').cleanup = cleanup
        BY <1>2, <1>4 DEF Moved
    <2>4. HeadInv'
        BY <1>4, <2>3 DEF HeadInv, HeadOk, StarterOk, StopOk, ResumeOk, PreLaunch, Starters, Watchers, Steered
    <2>. QED BY <1>2, <1>3, <1>4, <2>2, <2>4, PhaseOfJob DEF ChildrenInv
<1>5. CASE UNCHANGED host /\ Moved("resumed", job.gen, "running", FALSE)
    <2>1. UNCHANGED <<record, alive, identity>>
        BY <1>5 DEF host
    <2>2. Bounds' /\ ChildInv'
        BY <1>2, <1>3, <2>1, ChildKept
    <2>. QED BY <1>4, <1>5, <2>1, <2>2
<1>6. CASE StopConfirmed(job.gen) /\ Moved("resumed", job.gen, "failed", FALSE)
    <2>1. Bounds' /\ ChildInv' /\ alive' \subseteq alive /\ Accounted'
        BY <1>2, <1>3, <1>6, ChildStops
    <2>. QED BY <1>4, <1>6, <2>1
<1>7. CASE StopTimesOut(job.gen) /\ Moved("resumed", job.gen, "failed", TRUE)
    <2>1. Bounds' /\ ChildInv' /\ alive' \subseteq alive
        BY <1>2, <1>3, <1>7, ChildStops
    <2>. QED BY <1>4, <1>7, <2>1
<1>. QED BY <1>2, <1>5, <1>6, <1>7, Resumed

LEMMA InvCompleteResume ==
    ASSUME ProcessInv, CompleteResume PROVE ChildrenInv'
<1>1. At({"resume"}, "resumed")
    BY DEF CompleteResume
<1>2. /\ queue # <<>> /\ job.kind = "resume" /\ job.pc = "resumed" /\ HeadOk(job) /\ JobOk(job)
      /\ job.gen = proc.gen /\ ServiceTypes /\ proc.state # "none" /\ ~CaughtMark /\ ChildInv /\ phase # "down"
    BY <1>1, JobHere DEF Steered
<1>3. UNCHANGED <<ops, record, alive, identity>> /\ UNCHANGED unchangedByJob /\ watched' \subseteq watched
    BY DEF CompleteResume, host
<1>4. job.was \in {"running", "failed"} /\ (job.was = "failed" /\ ~job.cleanup => Accounted)
    BY <1>2 DEF HeadInv, HeadOk, StarterOk, StopOk, ResumeOk, PreLaunch, Starters, Watchers, Steered, JobOk
<1>5. /\ Calmly /\ Bounds' /\ ChildInv' /\ PhaseInv'
    <2>0. scenario' = scenario /\ proc'.gen = proc.gen
        BY <1>2, <1>3, ResumeCompleted DEF unchangedByJob, service
    <2>1. CASE /\ proc'.state = proc.state /\ proc'.active = proc.active
               /\ proc.cleanup => proc'.cleanup
        <3>1. Bounds' /\ ChildInv' /\ PhaseInv'
            BY <1>2, <1>3, <2>0, <2>1, ChildKept, PhaseOfJob
        <3>. QED BY <1>3, <2>0, <2>1, <3>1 DEF Calmly
    <2>2. CASE /\ ResumeApplied /\ proc'.state = job.was /\ proc'.active = 0
               /\ proc.cleanup \/ job.cleanup => proc'.cleanup
        <3>1. proc.state = "waiting_for_debugger" /\ record.gen = proc.gen
            BY <1>2, <2>2 DEF ResumeApplied, ChildInv
        <3>2. Calmly
            BY <1>3, <2>0, <2>2, <3>1 DEF Calmly, Gone, Terminal
        <3>3. proc'.state \in Gone => Accounted \/ Accounted'
            <4>1. CASE job.was = "running"
                BY <2>2, <4>1 DEF Gone, Terminal
            <4>2. CASE job.was = "failed" /\ ~job.cleanup
                BY <1>4, <4>2
            <4>3. CASE job.cleanup
                BY <2>2, <4>3 DEF Accounted
            <4>. QED BY <1>4, <4>1, <4>2, <4>3
        <3>4. proc'.state # "none" /\ proc.state \notin Gone /\ (proc.cleanup => proc'.cleanup)
            BY <1>4, <2>2, <3>1 DEF Gone, Terminal
        <3>5. Bounds' /\ ChildInv' /\ PhaseInv'
            BY <1>2, <1>3, <2>0, <3>1, <3>3, <3>4, ChildKept, PhaseOfJob
        <3>. QED BY <3>2, <3>5
    <2>3. CASE proc' = proc
        BY <2>1, <2>3
    <2>. QED BY <1>2, <2>1, <2>2, <2>3, ResumeCompleted
<1>6. CASE JobEnds
    BY <1>2, <1>5, <1>6, EndsNow DEF ChildrenInv
<1>7. ASSUME NEW pc \in {"fail", "succeed", "superseded"}, Goto(pc)
      PROVE  ChildrenInv'
    <2>1. HasPc(job.kind, pc) /\ pc \in JobPcs
        BY <1>2 DEF HasPc, Steered, Watchers, Starters, StarterPcs, StopPcs, ResumePcs, JobPcs
    <2>2. QueueInv' /\ Moved(pc, job.gen, job.was, job.cleanup)
        BY <1>2, <1>5, <1>7, <2>1, GoesOn
    <2>3. Head(queue').kind = "resume" /\ Head(queue').pc = pc
        BY <1>2, <2>2 DEF Moved
    <2>4. HeadInv'
        BY <2>3 DEF HeadInv, HeadOk, StarterOk, StopOk, ResumeOk, PreLaunch, Starters, Watchers, Steered
    <2>. QED BY <1>5, <2>2, <2>4 DEF ChildrenInv
<1>8. JobEnds \/ Goto("fail") \/ Goto("succeed") \/ Goto("superseded")
    BY DEF CompleteResume
<1>. QED BY <1>6, <1>7, <1>8

LEMMA InvSettleBegins ==
    ASSUME FaultsApart, ProcessInv, SettleBegins PROVE ChildrenInv'
<1>1. At(Watchers, "begin")
    BY DEF SettleBegins, Watchers
<1>2. /\ queue # <<>> /\ job.kind \in Watchers /\ job.pc = "begin" /\ ~job.cleanup
      /\ ServiceTypes /\ proc.state # "none" /\ ~CaughtMark /\ ChildInv
    BY <1>1, JobHere
<1>3. UNCHANGED <<proc, ops>> /\ UNCHANGED unchangedByJob /\ watched' \subseteq watched
    BY DEF SettleBegins, store, Unwatch
<1>4. Late(job, proc, alive, scenario.faults)
    BY <1>2, JobKnown
<1>5. Bounds' /\ ChildInv' /\ alive' \subseteq alive /\ (job.gen = proc.gen => Accounted')
    <2>1. CASE job.kind = "terminal" /\ UNCHANGED host
        <3>1. UNCHANGED <<record, alive, identity>>
            BY <2>1 DEF host
        <3>2. Bounds' /\ ChildInv'
            BY <1>2, <1>3, <3>1, ChildKept
        <3>. QED BY <1>3, <1>4, <2>1, <3>1, <3>2 DEF Late, Accounted
    <2>2. CASE job.kind = "lost" /\ (StopConfirmed(job.gen) \/ StopTimesOut(job.gen))
        <3>1. ~StopTimesOut(job.gen)
            <4>1. scenario \in Scenarios
                BY <1>2 DEF ServiceTypes
            <4>. QED BY <1>4, <2>2, <4>1 DEF Late, FaultsApart, StopTimesOut
        <3>2. StopConfirmed(job.gen)
            BY <2>2, <3>1
        <3>. QED BY <1>2, <1>3, <3>2, ChildStops
    <2>. QED BY <2>1, <2>2 DEF SettleBegins
<1>6. Calmly
    BY <1>2, <1>3, <1>5, CalmStore
<1>7. PhaseInv'
    BY <1>2, <1>3, PhaseOfJob
<1>8. CASE JobEnds
    BY <1>2, <1>5, <1>6, <1>7, <1>8, EndsNow DEF ChildrenInv
<1>9. CASE Goto("settle")
    <2>1. HasPc(job.kind, "settle") /\ "settle" \in JobPcs
        BY <1>2 DEF HasPc, Steered, Watchers, Starters, StarterPcs, StopPcs, ResumePcs, JobPcs
    <2>2. QueueInv' /\ Moved("settle", job.gen, job.was, job.cleanup)
        BY <1>2, <1>6, <1>9, <2>1, GoesOn
    <2>3. Head(queue').kind = job.kind /\ Head(queue').pc = "settle" /\ Head(queue').gen = job.gen
        BY <2>2 DEF Moved
    <2>4. HeadInv'
        BY <1>2, <1>3, <1>5, <2>3 DEF HeadInv, HeadOk, StarterOk, StopOk, ResumeOk, PreLaunch, Starters, Watchers, Steered
    <2>. QED BY <1>5, <1>7, <2>2, <2>4 DEF ChildrenInv
<1>. QED BY <1>8, <1>9 DEF SettleBegins

LEMMA InvSettle ==
    ASSUME ProcessInv, Settle PROVE ChildrenInv'
<1>1. At(Watchers, "settle")
    BY DEF Settle, Watchers
<1>2. /\ queue # <<>> /\ job.kind \in Watchers /\ job.pc = "settle" /\ HeadOk(job) /\ JobOk(job)
      /\ ServiceTypes /\ proc.state # "none" /\ ~CaughtMark
    BY <1>1, JobHere
<1>3. UNCHANGED <<ops, watched, record, alive, identity>> /\ UNCHANGED unchangedByJob /\ JobEnds
    BY DEF Settle, host
<1>4. CASE UNCHANGED proc
    <2>1. Bounds' /\ ChildInv' /\ PhaseInv'
        BY <1>2, <1>3, <1>4, ChildKept, PhaseOfJob
    <2>2. Calmly
        BY <1>2, <1>3, <1>4, CalmStore
    <2>. QED BY <1>2, <1>3, <2>1, <2>2, EndsNow DEF ChildrenInv
<1>5. CASE CanUpdate(job.gen, job.was) /\ proc' = Updated(job.was, 0)
    <2>1. job.was \in EndOf
        BY <1>2 DEF JobOk
    <2>2. job.gen = proc.gen /\ proc.state # "removed"
        BY <1>5 DEF CanUpdate, IsGeneration, Exists
    <2>3. Accounted
        BY <1>2, <2>2 DEF HeadInv, HeadOk, StarterOk, StopOk, ResumeOk, PreLaunch, Starters, Watchers, Steered
    <2>4. /\ Calmly /\ proc'.state = job.was /\ proc'.gen = proc.gen /\ proc'.cleanup = proc.cleanup
        BY <1>2, <1>3, <1>5, <2>1, <2>2, CalmUpdate DEF EndOf, ProcessStates, Gone, Terminal
    <2>5. Bounds' /\ ChildInv' /\ PhaseInv'
        BY <1>2, <1>3, <2>1, <2>3, <2>4, ChildKept, PhaseOfJob DEF EndOf, Gone, Terminal
    <2>. QED BY <1>2, <1>3, <2>4, <2>5, EndsNow DEF ChildrenInv
<1>. QED BY <1>4, <1>5 DEF Settle

\* A step of the job of the device.
LEMMA InvJobStep ==
    ASSUME FaultsApart, ProcessInv, JobStep PROVE ChildrenInv'
BY InvJobBegins, InvStartStages, InvStage, InvLaunchFails, InvLaunchStopsPrevious, InvSpawn,
   InvWriteIdentity, InvHandshakeFails, InvHandshake, InvCommitStart, InvWatch, InvJobSucceeds, InvUndoStart, InvJobEnds,
   InvFailProcess, InvHalt, InvBeginRestart, InvCompleteStop, InvFailStop, InvResume, InvCompleteResume,
   InvSettleBegins, InvSettle DEF JobStep

-----------------------------------------------------------------------------
(* The steps that are not of the job.                                      *)

\* the process keeps its generation, and its state but for a stop or a removal
StateCalm ==
    /\ proc'.gen = proc.gen
    /\ \/ proc'.state = proc.state
       \/ proc'.state = "stopping" /\ proc.state \notin Gone
       \/ proc'.state = "removed" /\ proc.state \in Gone
    /\ proc.cleanup => proc'.cleanup \/ proc.gen \notin alive

\* the adapter drops a record only when it is not of a generation that lives
RecordCalm ==
    record'.gen = record.gen \/ (record'.gen = 0 /\ (record.gen # proc.gen \/ proc.state \in Gone))

HostCalm == alive' \subseteq alive /\ identity' \subseteq identity /\ watched' \subseteq watched /\ RecordCalm

LEMMA StateKept ==
    ASSUME proc' = proc PROVE StateCalm
BY DEF StateCalm

LEMMA HeadCalm ==
    ASSUME ProcessInv, queue # <<>>, Head(queue') = Head(queue), StateCalm, HostCalm,
           \A x \in Ops : ops[x] # NoOp => ops'[x] = ops[x] \/ (proc'.state = "removed" /\ proc.state \in Gone),
           \A i \in DOMAIN queue' : queue'[i].kind \in Watchers =>
              (i \in DOMAIN queue /\ queue'[i] = queue[i]) \/ queue'[i].gen \in watched
    PROVE  HeadInv'
<1>1. /\ ServiceTypes /\ HeadOk(job) /\ job = Head(queue) /\ proc.gen \in Nat /\ proc.gen > 0
    BY JobKnown
<1>2. Unborn => Unborn'
    BY <1>1 DEF Unborn, StateCalm, HostCalm, RecordCalm
<1>3. Accounted => Accounted'
    BY DEF Accounted, StateCalm, HostCalm
<1>4. proc.state \in Starting => proc'.state \in Starting
    BY DEF StateCalm, Starting, Gone, Terminal
<1>5. proc.state \notin Gone => proc'.state \notin Gone
    BY DEF StateCalm, Gone, Terminal
<1>6. record.gen = proc.gen /\ proc.state \notin Gone => record'.gen = proc'.gen
    BY DEF StateCalm, HostCalm, RecordCalm
<1>7. job.kind \in Steered /\ Running(job) =>
          ops'[job.op].state = "running" \/ (proc'.state = "removed" /\ proc.state \in Gone)
    <2>1. job.kind \in Steered => job.op \in Ops
        BY <1>1, JobIs DEF JobOk
    <2>. QED BY <2>1 DEF Running, NoOp
<1>8. proc.state = "removed" => proc'.state = "removed"
    BY DEF StateCalm, Gone
<1>9. /\ proc.state \in Starting \cup {"running", "waiting_for_debugger"} => proc.state \notin Gone
      /\ proc.state \in {"running", "waiting_for_debugger", "stopping"} =>
            proc.state \notin Gone /\ proc'.state \in {"running", "waiting_for_debugger", "stopping"}
    BY DEF StateCalm, Starting, Gone, Terminal
<1>10. HeadOk(job)'
    <2>0. Head(queue)' = job /\ Running(job) = (ops[job.op].state = "running")
        BY <1>1 DEF Running
    <2>1. StarterOk(job) /\ job.kind \in Starters => StarterOk(Head(queue))'
        BY <1>1, <1>2, <1>3, <1>4, <1>5, <1>6, <1>7, <1>8, <1>9 DEF StarterOk, PreLaunch, Starters, Steered, Running
    <2>2. StopOk(job) => StopOk(Head(queue))'
        BY <1>1, <1>3 DEF StopOk
    <2>3. ResumeOk(job) => ResumeOk(Head(queue))'
        BY <1>1, <1>3 DEF ResumeOk
    <2>4. proc'.gen = proc.gen
        BY DEF StateCalm
    <2>. QED BY <1>1, <1>3, <2>1, <2>2, <2>3, <2>4 DEF HeadOk, job
<1>. QED BY <1>1, <1>10 DEF HeadInv, job

\* the children, when the adapter does nothing
LEMMA ChildCalm ==
    ASSUME ProcessInv, StateCalm, UNCHANGED <<record, alive, identity>>, watched' \subseteq watched,
           \/ phase' = phase
           \/ phase = "up" /\ phase' = "closing" /\ removal' = NoRemoval,
           \/ removal' = removal
           \/ removal' = NoRemoval
           \/ phase' = "up" /\ removal'.gen = proc.gen /\ proc.state \in Gone,
           CaughtMark => CaughtMark', proc.state # "none"
    PROVE  Bounds' /\ ChildInv'
<1>1. Bounds /\ ChildInv /\ ServiceTypes
    BY DEF ProcessInv, ChildrenInv
<1>2. Bounds'
    <2>1. proc'.gen = proc.gen
        BY DEF StateCalm
    <2>. QED BY <1>1, <2>1 DEF Bounds
<1>3. ASSUME proc'.gen \in alive', ~proc'.cleanup
      PROVE  proc'.state \notin Gone /\ (phase' = "down" \/ Owns(proc.gen)' \/ CaughtMark')
    <2>1. proc.gen \in alive /\ ~proc.cleanup
        BY <1>3 DEF StateCalm
    <2>2. proc.state \notin Gone /\ (phase = "down" \/ Owns(proc.gen) \/ CaughtMark)
        BY <1>1, <2>1 DEF ChildInv
    <2>3. Owns(proc.gen) => Owns(proc.gen)'
        BY DEF Owns, StateCalm
    <2>. QED BY <2>2, <2>3 DEF StateCalm, Gone, Terminal
<1>4. proc'.state \in {"running", "waiting_for_debugger"} => proc.state = proc'.state
    BY DEF StateCalm
<1>5. phase' # "down" => phase # "down"
    OBVIOUS
<1>6. phase' # "down" /\ proc'.state \in {"running", "waiting_for_debugger"} => record'.gen = proc'.gen
    BY <1>1, <1>4, <1>5 DEF ChildInv, StateCalm
<1>7. /\ record'.terminal # "none" => record'.status = "closed"
      /\ record'.status = "closed" => record'.gen \notin alive'
    BY <1>1 DEF ChildInv
<1>8. removal' # NoRemoval =>
          /\ phase' = "up"
          /\ removal'.gen < proc'.gen \/ (removal'.gen = proc'.gen /\ proc'.state \in Gone)
    <2>1. proc.state \in Gone => proc'.state \in Gone
        BY DEF StateCalm, Gone
    <2>. QED BY <1>1, <2>1 DEF ChildInv, StateCalm
<1>. QED BY <1>2, <1>3, <1>6, <1>7, <1>8 DEF ChildInv, StateCalm

\* the queue stays as it is
LEMMA QueueStays ==
    ASSUME ProcessInv, UNCHANGED <<queue, scenario>>, StateCalm, alive' \subseteq alive,
           proc'.active = proc.active \/ proc'.active = 0,
           \A x \in Ops : ops[x] # NoOp => ops'[x] # NoOp \/ proc'.state = "removed"
    PROVE  QueueInv' /\ (CaughtMark => CaughtMark')
<1>1. QueueOk(queue, proc, ops, alive, scenario.faults) /\ queue \in Seq(Jobs)
    BY DEF ProcessInv, ChildrenInv, QueueInv, ServiceTypes
<1>2. /\ proc'.gen = proc.gen
      /\ proc.state \in Gone => proc'.state \in Gone
      /\ proc'.state # "removed" => proc.state # "removed" /\ \A x \in Ops : ops[x] # NoOp => ops'[x] # NoOp
    BY DEF StateCalm, Gone
<1>3. \A i \in DOMAIN queue : queue[i].kind = "terminal" /\ queue[i].gen \notin alive => queue[i].gen \notin alive'
    OBVIOUS
<1>4. QueueOk(queue, proc', ops', alive', scenario.faults)
    BY <1>1, <1>2, <1>3, QueueCalm
<1>. QED BY <1>4 DEF QueueInv, QueueOk, CaughtMark

\* a step that leaves the queue and the adapter alone
LEMMA InvQuiet ==
    ASSUME ProcessInv, UNCHANGED <<queue, scenario, record, alive, identity>>, StateCalm,
           proc'.active = proc.active \/ proc'.active = 0, watched' \subseteq watched,
           \A x \in Ops : ops[x] # NoOp => ops'[x] = ops[x] \/ (proc'.state = "removed" /\ proc.state \in Gone),
           \/ phase' = phase
           \/ phase = "up" /\ phase' = "closing" /\ removal' = NoRemoval,
           \/ removal' = removal
           \/ removal' = NoRemoval
           \/ phase' = "up" /\ removal'.gen = proc.gen /\ proc.state \in Gone,
           proc.state # "none", PhaseInv'
    PROVE  ChildrenInv'
<1>1. QueueInv' /\ (CaughtMark => CaughtMark')
    BY QueueStays
<1>2. Bounds' /\ ChildInv'
    BY <1>1, ChildCalm
<1>3. HeadInv'
    <2>1. CASE queue = <<>>
        BY <2>1 DEF HeadInv
    <2>2. CASE queue # <<>>
        BY <2>2, HeadCalm DEF HostCalm, RecordCalm
    <2>. QED BY <2>1, <2>2
<1>. QED BY <1>1, <1>2, <1>3 DEF ChildrenInv

LEMMA InvStartProcess ==
    ASSUME ServiceAssumption, ProcessInv, StartProcess PROVE ChildrenInv'
<1>1. PICK o \in Ops, break \in BOOLEAN :
          /\ o \in Nat \ {0}
          /\ ops' = [ops EXCEPT ![o] = [kind |-> "start", gen |-> 1, state |-> "queued"]]
          /\ proc' = [state |-> "queued", gen |-> 1, active |-> o, cleanup |-> FALSE, break |-> break]
          /\ queue' = <<Job("start", o, 1, "queued")>> /\ Untouched
    BY Started DEF ProcessInv
<1>2. proc'.gen = 1 /\ proc'.state = "queued" /\ proc'.active = o
    BY <1>1
<1>3. UNCHANGED <<stopSeen, aborted, removal, watched, record, alive, identity, phase, scenario>>
    BY DEF StartProcess, host, service
<1>4. /\ removal = NoRemoval /\ watched = {} /\ record = NoRecord /\ alive = {} /\ identity = {} /\ phase = "up"
    BY <1>1 DEF Untouched
<1>. DEFINE j == Job("start", o, 1, "queued")
<1>5. j.kind = "start" /\ j.pc = "begin" /\ j.gen = 1 /\ j.op = o
    BY DEF Job
<1>6. /\ DOMAIN queue' = {1} /\ queue'[1] = j /\ Head(queue') = j
    BY <1>1
<1>. HIDE DEF j
<1>7. ops'[o] # NoOp
    BY <1>1, OperationMade DEF ProcessInv, Steered
<1>8. QueueOk(queue', proc', ops', alive', scenario'.faults)
    <2>1. Placed(j, proc', ops')
        BY <1>2, <1>5, <1>7 DEF Placed
    <2>2. j.kind \notin Watchers
        BY <1>5 DEF Watchers
    <2>. QED BY <1>6, <2>1, <2>2 DEF QueueOk
<1>9. HeadInv'
    <2>1. Unborn'
        BY <1>2, <1>3, <1>4, <1>5, <1>6 DEF Unborn, NoRecord, Watchers
    <2>. QED BY <1>2, <1>5, <1>6, <2>1 DEF HeadInv, HeadOk, StarterOk, StopOk, ResumeOk, PreLaunch, Starters, Watchers, Steered, Starting
<1>10. Bounds'
    BY <1>2, <1>3, <1>4 DEF Bounds, NoRecord
<1>11. ChildInv'
    BY <1>2, <1>3, <1>4 DEF ChildInv, NoRecord
<1>12. PhaseInv'
    BY <1>3, <1>4 DEF PhaseInv, ProcessInv, ChildrenInv
<1>. QED BY <1>8, <1>9, <1>10, <1>11, <1>12 DEF ChildrenInv, QueueInv, QueueOk

LEMMA InvAdmit ==
    ASSUME ServiceAssumption, ProcessInv, AdmitStop \/ AdmitRestart \/ AdmitResume PROVE ChildrenInv'
<1>1. PICK kind \in {"stop", "restart", "resume"} : AdmitAction(kind)
    BY DEF AdmitStop, AdmitRestart, AdmitResume
<1>2. phase = "up" /\ Exists /\ ServiceTypes
    BY <1>1, Admitted DEF ProcessInv
<1>3. PICK o \in Ops, was \in ProcessStates \ {"none"} : o \in Nat \ {0} /\ AdmittedAs(kind, o, was)
    BY <1>1, <1>2, Admitted
<1>4. /\ proc'.state = was /\ proc'.gen = proc.gen /\ proc'.active = o /\ proc'.cleanup = proc.cleanup
    BY <1>2, <1>3, ProcessUpdated DEF AdmittedAs
<1>5. UNCHANGED <<removal, watched, record, alive, identity, phase, scenario>>
    BY DEF AdmitStop, AdmitRestart, AdmitResume, host, service
<1>6. StateCalm
    BY <1>3, <1>4 DEF AdmittedAs, StateCalm
<1>7. /\ ops[o] = NoOp /\ ops'[o] # NoOp /\ \A p \in Ops : ops[p] # NoOp => ops'[p] = ops[p]
    <2>1. proc.gen \in Nat /\ kind \in Steered
        BY <1>2 DEF ServiceTypes, Processes, Steered
    <2>2. ops[o] = NoOp /\ ops' = [ops EXCEPT ![o] = [kind |-> kind, gen |-> proc.gen, state |-> "queued"]]
        BY <1>3 DEF AdmittedAs
    <2>3. ops'[o] # NoOp /\ \A p \in Ops : p # o => ops'[p] = ops[p]
        BY <1>2, <2>1, <2>2, OperationMade
    <2>. QED BY <2>2, <2>3
<1>. DEFINE j == Job(kind, o, proc.gen, was)
<1>8. j.kind = kind /\ j.op = o /\ j.gen = proc.gen /\ j.was = was /\ j.pc = "begin" /\ ~j.cleanup
    BY DEF Job
<1>9. j \in Jobs /\ queue' = Append(queue, j)
    BY <1>3 DEF AdmittedAs
<1>. HIDE DEF j
<1>10. /\ queue' \in Seq(Jobs) /\ queue' # <<>> /\ queue'[Len(queue) + 1] = j /\ Len(queue) \in Nat
       /\ DOMAIN queue' = DOMAIN queue \cup {Len(queue) + 1} /\ DOMAIN queue = 1..Len(queue)
       /\ \A i \in DOMAIN queue : queue'[i] = queue[i]
       /\ queue # <<>> => Head(queue') = Head(queue)
    BY <1>2, <1>9, JobAdded
<1>11. QueueOk(queue, proc, ops, alive, scenario.faults) /\ queue \in Seq(Jobs)
    BY DEF ProcessInv, ChildrenInv, QueueInv, ServiceTypes
<1>12. j.kind \in Steered /\ Waits(j) /\ Placed(j, proc', ops')
    <2>1. kind \in {"stop", "restart"} => was \in Terminal \cup {"stopping"} /\ (was \in Terminal => proc'.state \in Gone)
        BY <1>3, <1>4 DEF AdmittedAs, Gone
    <2>. QED BY <1>4, <1>7, <1>8, <2>1 DEF Placed, Waits, Steered
<1>13. \A i \in DOMAIN queue : queue[i].kind \in Steered => queue[i].op \in Ops /\ ops[queue[i].op] # NoOp
    <2>1. \A i \in DOMAIN queue : queue[i] \in Jobs
        BY <1>11, ElementOfSeq
    <2>. QED BY <1>2, <1>11, <2>1 DEF QueueOk, Placed, Exists, Jobs, JobOk
<1>14. QueueInv'
    <2>1. \A i \in DOMAIN queue' : i # 1 => Waits(queue'[i])
        BY <1>10, <1>11, <1>12 DEF QueueOk
    <2>2. ASSUME NEW i \in DOMAIN queue, queue[i].kind \in Steered PROVE Placed(queue[i], proc', ops')
        <3>1. Placed(queue[i], proc, ops)
            BY <1>11, <2>2 DEF QueueOk
        <3>2. proc.state \in Gone => proc'.state \in Gone
            BY <1>6 DEF StateCalm, Gone
        <3>. QED BY <1>4, <1>7, <1>13, <2>2, <3>1, <3>2 DEF Placed
    <2>3. \A i \in DOMAIN queue' : queue'[i].kind \in Steered => Placed(queue'[i], proc', ops')
        BY <1>10, <1>12, <2>2
    <2>4. \A i \in DOMAIN queue' : queue'[i].kind \in Watchers => Late(queue'[i], proc', alive', scenario'.faults)
        <3>1. j.kind \notin Watchers
            BY <1>12 DEF Steered, Watchers
        <3>. QED BY <1>4, <1>5, <1>10, <1>11, <3>1 DEF QueueOk, Late
    <2>5. \A i, k \in DOMAIN queue' :
              i < k /\ queue'[i].kind \in Steered /\ queue'[k].kind \in Steered => queue'[i].op # proc'.active
        <3>1. \A i, k \in DOMAIN queue' : i < k => i \in DOMAIN queue
            BY <1>10
        <3>. QED BY <1>4, <1>7, <1>10, <1>13, <3>1
    <2>. QED BY <2>1, <2>3, <2>4, <2>5 DEF QueueInv, QueueOk
<1>15. CaughtMark => CaughtMark'
    BY <1>5, <1>10 DEF CaughtMark
<1>16. Bounds' /\ ChildInv'
    BY <1>2, <1>5, <1>6, <1>15, ChildCalm DEF Exists
<1>17. PhaseInv'
    <2>1. "unreaped" \in scenario.faults => aborted' = {} /\ stopSeen' = {}
        BY DEF AdmitStop, AdmitRestart, AdmitResume, ProcessInv, ChildrenInv, PhaseInv
    <2>. QED BY <1>2, <1>5, <2>1 DEF PhaseInv
<1>18. HeadInv'
    <2>1. CASE queue = <<>>
        <3>1. Len(queue) = 0
            BY <2>1
        <3>2. Head(queue') = j
            BY <1>10, <3>1, HeadTailProperties
        <3>. QED BY <1>12, <3>2, HeadWaits
    <2>2. CASE queue # <<>>
        <3>1. \A i \in DOMAIN queue' : queue'[i].kind \in Watchers => i \in DOMAIN queue /\ queue'[i] = queue[i]
            BY <1>10, <1>12 DEF Steered, Watchers
        <3>. QED BY <1>5, <1>6, <1>7, <1>10, <2>2, <3>1, HeadCalm DEF HostCalm, RecordCalm
    <2>. QED BY <2>1, <2>2
<1>. QED BY <1>14, <1>16, <1>17, <1>18 DEF ChildrenInv

LEMMA InvRequests ==
    ASSUME ServiceAssumption, FaultsApart, ProcessInv, Requests PROVE ChildrenInv'
<1>0. ServiceTypes /\ PhaseInv /\ scenario \in Scenarios
    BY DEF ProcessInv, ChildrenInv, ServiceTypes
<1>1. CASE StartProcess
    BY <1>1, InvStartProcess
<1>2. CASE AdmitStop \/ AdmitRestart \/ AdmitResume
    BY <1>2, InvAdmit
<1>3. CASE StopReads \/ StopRefused
    <2>1. proc.state # "none"
        BY <1>0, <1>3 DEF StopReads, StopRefused, Exists, ServiceTypes, Untouched
    <2>2. UNCHANGED <<proc, ops, queue, aborted, removal, watched, record, alive, identity, phase, scenario>>
        BY <1>3 DEF StopReads, StopRefused, store, host, service
    <2>3. PhaseInv'
        BY <1>0, <1>3, <2>2 DEF PhaseInv, StopReads, StopRefused, FaultsApart
    <2>. QED BY <2>1, <2>2, <2>3, InvQuiet, StateKept
<1>4. CASE \E kind \in {"remove", "prune"} : RemovalBegins(kind)
    <2>1. PICK kind \in {"remove", "prune"} : RemovalBegins(kind)
        BY <1>4
    <2>2. phase = "up" /\ proc.state \in Gone /\ proc.state # "none" /\ removal'.gen = proc.gen /\ watched' \subseteq watched
        BY <2>1 DEF RemovalBegins, Removable, Exists, Gone, Unwatch
    <2>3. UNCHANGED <<proc, ops, stopSeen, queue, aborted, record, alive, identity, phase, scenario>>
        BY <2>1 DEF RemovalBegins, store, host, service
    <2>4. PhaseInv'
        BY <1>0, <2>2, <2>3 DEF PhaseInv
    <2>. QED BY <2>2, <2>3, <2>4, InvQuiet, StateKept
<1>. QED BY <1>1, <1>2, <1>3, <1>4 DEF Requests

LEMMA InvAdapterRemoves ==
    ASSUME ProcessInv, AdapterRemoves PROVE ChildrenInv'
<1>1. /\ Bounds /\ ChildInv /\ PhaseInv /\ ServiceTypes /\ proc.state # "none"
      /\ proc.gen \in Nat /\ proc.gen > 0 /\ record \in ChildRecords /\ removal # NoRemoval
    BY DEF ProcessInv, ChildrenInv, AdapterRemoves, ServiceTypes, Untouched, NoRemoval, Bounds, Processes
<1>2. UNCHANGED <<proc, ops, queue, stopSeen, aborted, watched, phase, scenario>>
    BY DEF AdapterRemoves, store, service
<1>3. /\ phase = "up"
      /\ removal.gen < proc.gen \/ (removal.gen = proc.gen /\ proc.state \in Gone)
    BY <1>1 DEF ChildInv
<1>4. removal' = NoRemoval \/ (removal'.gen = removal.gen /\ removal' # NoRemoval)
    <2>1. removal \in Removals
        BY <1>1 DEF ServiceTypes
    <2>. QED BY <2>1 DEF AdapterRemoves, Removals, NoRemoval
<1>5. ASSUME alive' \subseteq alive, identity' \subseteq identity, RecordCalm,
             proc.gen \in alive' /\ proc.state \notin Gone /\ Owns(proc.gen) => Owns(proc.gen)',
             record'.terminal # "none" => record'.status = "closed",
             record'.status = "closed" => record'.gen \notin alive', record'.gen \in Nat
      PROVE  ChildrenInv'
    <2>1. QueueInv' /\ (CaughtMark => CaughtMark')
        BY <1>2, <1>5, QueueStays, StateKept
    <2>2. HeadInv'
        <3>1. CASE queue = <<>>
            BY <1>2, <3>1 DEF HeadInv
        <3>2. CASE queue # <<>>
            BY <1>2, <1>5, <3>2, HeadCalm, StateKept DEF HostCalm
        <3>. QED BY <3>1, <3>2
    <2>3. Bounds'
        <3>1. record'.gen <= proc.gen
            BY <1>1, <1>5 DEF RecordCalm, Bounds
        <3>. QED BY <1>1, <1>2, <1>5, <3>1 DEF Bounds
    <2>4. proc.state \in {"running", "waiting_for_debugger"} => record'.gen = proc.gen
        BY <1>1, <1>3, <1>5 DEF ChildInv, RecordCalm, Gone, Terminal
    <2>5. ChildInv'
        BY <1>1, <1>2, <1>3, <1>4, <1>5, <2>1, <2>4 DEF ChildInv
    <2>6. PhaseInv'
        BY <1>1, <1>2, <1>3 DEF PhaseInv
    <2>. QED BY <2>1, <2>2, <2>3, <2>5, <2>6 DEF ChildrenInv
<1>6. CASE UNCHANGED host
    <2>1. UNCHANGED <<record, alive, identity>> /\ record.gen \in Nat
        BY <1>1, <1>6 DEF host, ChildRecords
    <2>. QED BY <1>1, <1>2, <1>5, <2>1 DEF RecordCalm, Owns, ChildInv
<1>7. CASE StopTimesOut(removal.gen)
    <2>1. /\ UNCHANGED <<alive, identity>> /\ Owns(removal.gen)
          /\ record'.gen = record.gen /\ record'.status = "stuck" /\ record'.terminal = record.terminal
          /\ record.gen \in Nat
        BY <1>1, <1>7 DEF StopTimesOut, ChildRecords
    <2>2. record.terminal = "none"
        BY <1>1, <2>1 DEF ChildInv, Owns
    <2>. QED BY <1>2, <1>5, <2>1, <2>2 DEF RecordCalm, Owns
<1>8. CASE /\ RecordMatches /\ record' = NoRecord /\ identity' = identity \ {removal.gen}
           /\ alive' = IF Owns(removal.gen) THEN alive \ {removal.gen} ELSE alive
    <2>1. alive' \subseteq alive /\ identity' \subseteq identity
        BY <1>8
    <2>2. record'.gen = 0 /\ record'.terminal = "none" /\ record'.status = "none"
        BY <1>8 DEF NoRecord
    <2>3. record.gen = proc.gen => proc.state \in Gone
        <3>1. removal.gen \in Nat
            BY <1>1 DEF ServiceTypes, Removals
        <3>. QED BY <1>1, <1>3, <1>8, <3>1 DEF RecordMatches
    <2>. QED BY <1>5, <2>1, <2>2, <2>3 DEF RecordCalm, Owns
<1>. QED BY <1>6, <1>7, <1>8 DEF AdapterRemoves

LEMMA InvRegistryRemoves ==
    ASSUME ProcessInv, RegistryRemoves PROVE ChildrenInv'
<1>1. /\ PhaseInv /\ ServiceTypes /\ proc.state # "none" /\ ChildInv
    BY DEF ProcessInv, ChildrenInv, RegistryRemoves, ServiceTypes, Untouched, NoRemoval
<1>2. UNCHANGED <<queue, stopSeen, aborted, watched, record, alive, identity, phase, scenario>> /\ removal' = NoRemoval
    BY DEF RegistryRemoves, host, service
<1>3. PhaseInv'
    BY <1>1, <1>2 DEF PhaseInv
<1>4. CASE UNCHANGED store
    <2>1. UNCHANGED <<proc, ops>>
        BY <1>4 DEF store
    <2>. QED BY <1>1, <1>2, <1>3, <2>1, InvQuiet, StateKept
<1>5. CASE Removable /\ proc' = [proc EXCEPT !.state = "removed", !.active = 0]
    <2>1. proc'.state = "removed" /\ proc'.active = 0 /\ proc'.gen = proc.gen /\ proc'.cleanup = proc.cleanup
        BY <1>1, <1>5 DEF ServiceTypes, Processes
    <2>2. proc.state \in Gone
        BY <1>5 DEF Removable, Gone
    <2>3. StateCalm
        BY <2>1, <2>2 DEF StateCalm
    <2>. QED BY <1>1, <1>2, <1>3, <2>1, <2>2, <2>3, InvQuiet
<1>. QED BY <1>4, <1>5 DEF RegistryRemoves

LEMMA InvChildExits ==
    ASSUME ProcessInv, NEW g \in Gens, ChildExits(g) PROVE ChildrenInv'
<1>1. /\ g \in alive /\ alive' = alive \ {g} /\ g \in Nat /\ proc.state # "none"
      /\ UNCHANGED <<proc, ops, stopSeen, aborted, removal, watched, identity, service>>
      /\ \/ \E terminal : ChildEnded(g, terminal)
         \/ UNCHANGED <<record, queue>> /\ ~(record.gen = g /\ record.status # "closed")
    BY Exited DEF ProcessInv
<1>2. UNCHANGED <<phase, scenario>>
    BY <1>1 DEF service
<1>3. Bounds /\ ChildInv /\ PhaseInv /\ ServiceTypes
    BY DEF ProcessInv, ChildrenInv
<1>4. record'.gen = record.gen
    BY <1>1, <1>3 DEF ChildEnded, ServiceTypes, ChildRecords
<1>5. QueueOk(queue, proc, ops, alive', scenario.faults) /\ queue \in Seq(Jobs)
    <2>1. QueueOk(queue, proc, ops, alive, scenario.faults) /\ queue \in Seq(Jobs)
        BY <1>3 DEF ProcessInv, ChildrenInv, QueueInv, ServiceTypes
    <2>2. \A i \in DOMAIN queue : queue[i].kind = "terminal" /\ queue[i].gen \notin alive => queue[i].gen \notin alive'
        BY <1>1
    <2>. QED BY <2>1, <2>2, QueueCalm
<1>6. Bounds'
    BY <1>1, <1>3, <1>4 DEF Bounds
<1>7. PhaseInv'
    <2>1. phase = "down" => record' = record /\ queue' = queue
        <3>1. ASSUME phase = "down", NEW terminal, ChildEnded(g, terminal) PROVE FALSE
            <4>1. record.gen = 0 /\ g > 0
                BY <1>3, <3>1 DEF PhaseInv, NoRecord, ChildEnded, Gens
            <4>. QED BY <3>1, <4>1 DEF ChildEnded
        <3>. QED BY <1>1, <3>1
    <2>. QED BY <1>1, <1>2, <1>3, <2>1 DEF PhaseInv
<1>8. ASSUME CaughtMark => CaughtMark'
      PROVE  ChildInv'
    <2>1. ASSUME proc.gen \in alive', ~proc.cleanup
          PROVE  proc.state \notin Gone /\ (phase = "down" \/ Owns(proc.gen)' \/ CaughtMark')
        <3>1. proc.state \notin Gone /\ (phase = "down" \/ Owns(proc.gen) \/ CaughtMark)
            BY <1>1, <1>3, <2>1 DEF ChildInv
        <3>2. Owns(proc.gen) => record' = record
            <4>1. proc.gen # g
                BY <1>1, <2>1
            <4>. QED BY <1>1, <4>1 DEF ChildEnded, Owns
        <3>. QED BY <1>1, <1>8, <3>1, <3>2 DEF Owns
    <2>2. /\ record'.terminal # "none" => record'.status = "closed"
          /\ record'.status = "closed" => record'.gen \notin alive'
        <3>1. CASE \E terminal : ChildEnded(g, terminal)
            <4>1. record'.status = "closed" /\ record.gen = g
                BY <1>3, <3>1 DEF ChildEnded, ServiceTypes, ChildRecords
            <4>. QED BY <1>1, <1>4, <4>1
        <3>2. CASE UNCHANGED <<record, queue>>
            BY <1>1, <1>3, <3>2 DEF ChildInv
        <3>. QED BY <1>1, <3>1, <3>2
    <2>. QED BY <1>1, <1>2, <1>3, <1>4, <2>1, <2>2 DEF ChildInv
<1>9. StateCalm /\ HostCalm
    BY <1>1, <1>4, StateKept DEF HostCalm, RecordCalm
<1>10. CASE UNCHANGED queue
    <2>1. QueueInv'
        BY <1>1, <1>2, <1>5, <1>10 DEF QueueInv, QueueOk
    <2>2. CaughtMark => CaughtMark'
        BY <1>2, <1>10 DEF CaughtMark
    <2>3. HeadInv'
        <3>1. CASE queue = <<>>
            BY <1>10, <3>1 DEF HeadInv
        <3>2. CASE queue # <<>>
            BY <1>1, <1>9, <1>10, <3>2, HeadCalm
        <3>. QED BY <3>1, <3>2
    <2>. QED BY <1>6, <1>7, <1>8, <2>1, <2>2, <2>3 DEF ChildrenInv
<1>11. ASSUME NEW j \in Jobs, queue' = Append(queue, j), j.kind = "terminal", j.gen = g, Waits(j), g \in watched
       PROVE  ChildrenInv'
    <2>1. Late(j, proc, alive', scenario.faults) /\ j.kind \in Watchers
        BY <1>1, <1>3, <1>11 DEF Late, Watchers, Bounds
    <2>2. QueueOk(queue', proc, ops, alive', scenario.faults)
        BY <1>5, <1>11, <2>1, QueueAppended
    <2>3. QueueInv'
        BY <1>1, <1>2, <2>2 DEF QueueInv, QueueOk
    <2>4. /\ queue' # <<>> /\ queue'[Len(queue) + 1] = j /\ Len(queue) \in Nat
          /\ DOMAIN queue' = DOMAIN queue \cup {Len(queue) + 1}
          /\ \A i \in DOMAIN queue : queue'[i] = queue[i]
          /\ queue # <<>> => Head(queue') = Head(queue)
          /\ queue' \in Seq(Jobs)
        BY <1>3, <1>11, JobAdded
    <2>5. CaughtMark => CaughtMark'
        BY <1>2, <2>4 DEF CaughtMark
    <2>6. HeadInv'
        <3>1. CASE queue = <<>>
            <4>1. Len(queue) = 0
                BY <3>1
            <4>2. Head(queue') = j
                BY <2>4, <4>1, HeadTailProperties
            <4>. QED BY <1>11, <4>2, HeadWaits
        <3>2. CASE queue # <<>>
            BY <1>1, <1>9, <1>11, <2>4, <3>2, HeadCalm
        <3>. QED BY <3>1, <3>2
    <2>. QED BY <1>6, <1>7, <1>8, <2>3, <2>5, <2>6 DEF ChildrenInv
<1>12. CASE \E terminal : ChildEnded(g, terminal)
    <2>1. PICK terminal : ChildEnded(g, terminal)
        BY <1>12
    <2>. DEFINE j == Job("terminal", 0, g, terminal)
    <2>2. j.kind = "terminal" /\ j.gen = g /\ Waits(j)
        BY DEF Job, Waits
    <2>3. UNCHANGED queue \/ (g \in watched /\ j \in Jobs /\ queue' = Append(queue, j))
        BY <2>1 DEF ChildEnded
    <2>. HIDE DEF j
    <2>. QED BY <1>10, <1>11, <2>2, <2>3
<1>. QED BY <1>1, <1>10, <1>12

LEMMA InvOutputFails ==
    ASSUME ProcessInv, NEW g, OutputFails(g) PROVE ChildrenInv'
<1>. DEFINE j == Job("lost", 0, g, "lost")
<1>1. /\ g \in watched /\ "output" \in scenario.faults /\ g \in Nat /\ proc.state # "none"
      /\ j \in Jobs /\ queue' = Append(queue, j)
    BY LostAdded DEF ProcessInv
<1>2. j.kind = "lost" /\ j.gen = g /\ Waits(j)
    BY DEF Job, Waits
<1>. HIDE DEF j
<1>3. UNCHANGED <<proc, ops, stopSeen, removal, aborted, watched, record, alive, identity, phase, scenario>>
    BY DEF OutputFails, store, host, service
<1>4. Bounds /\ PhaseInv /\ ServiceTypes
    BY DEF ProcessInv, ChildrenInv
<1>5. Late(j, proc, alive, scenario.faults) /\ j.kind \in Watchers
    BY <1>1, <1>2, <1>4 DEF Late, Watchers, Bounds
<1>6. /\ QueueOk(queue', proc, ops, alive, scenario.faults) /\ queue' \in Seq(Jobs)
      /\ queue # <<>> => Head(queue') = Head(queue)
      /\ \A i \in DOMAIN queue' : (i \in DOMAIN queue /\ queue'[i] = queue[i]) \/ queue'[i] = j
    BY <1>1, <1>2, <1>5, QueueAdded
<1>7. queue' # <<>> /\ queue'[Len(queue) + 1] = j
    BY <1>1, <1>4, JobAdded
<1>8. QueueInv'
    BY <1>3, <1>6 DEF QueueInv, QueueOk
<1>9. CaughtMark => CaughtMark'
    BY <1>3, <1>6, <1>7 DEF CaughtMark
<1>10. Bounds' /\ ChildInv'
    BY <1>1, <1>3, <1>9, ChildCalm, StateKept
<1>11. HeadInv'
    <2>1. CASE queue = <<>>
        <3>1. Len(queue) = 0
            BY <2>1
        <3>2. Head(queue') = j
            BY <1>6, <1>7, <3>1, HeadTailProperties
        <3>. QED BY <1>2, <3>2, HeadWaits
    <2>2. CASE queue # <<>>
        BY <1>1, <1>2, <1>3, <1>6, <1>7, <2>2, HeadCalm, StateKept DEF HostCalm, RecordCalm
    <2>. QED BY <2>1, <2>2
<1>12. PhaseInv'
    <2>1. phase # "down"
        BY <1>1, <1>4 DEF PhaseInv
    <2>. QED BY <1>3, <1>4, <2>1 DEF PhaseInv
<1>. QED BY <1>8, <1>10, <1>11, <1>12 DEF ChildrenInv

LEMMA InvDown ==
    ASSUME FaultsApart, ProcessInv, CloseBegins \/ CloseEnds \/ Crash PROVE ChildrenInv'
<1>1. /\ Bounds /\ ChildInv /\ PhaseInv /\ ServiceTypes /\ proc.state # "none"
      /\ proc.gen \in Nat /\ proc.gen > 0 /\ scenario \in Scenarios
    BY DEF CloseBegins, CloseEnds, Crash, ProcessInv, ChildrenInv, ServiceTypes, Untouched, Bounds, Processes
<1>2. "unreaped" \notin scenario.faults
    <2>1. CASE CloseBegins \/ Crash
        <3>1. downs \in Nat /\ downs < scenario.downs
            BY <1>1, <2>1 DEF CloseBegins, Crash, ServiceTypes
        <3>. QED BY <1>1, <3>1 DEF FaultsApart
    <2>2. CASE CloseEnds
        BY <1>1, <2>2 DEF CloseEnds, PhaseInv
    <2>. QED BY <2>1, <2>2
<1>3. CASE CloseBegins
    <2>1. /\ UNCHANGED <<proc, ops, queue, removal, record, alive, identity, scenario>>
          /\ phase = "up" /\ phase' = "closing" /\ removal = NoRemoval /\ watched' \subseteq watched
        BY <1>3 DEF CloseBegins, store, host
    <2>2. PhaseInv'
        BY <1>2, <2>1 DEF PhaseInv
    <2>. QED BY <1>1, <2>1, <2>2, InvQuiet, StateKept
<1>4. CASE CloseEnds \/ Crash
    <2>1. /\ UNCHANGED <<proc, ops, identity, scenario>> /\ queue' = <<>> /\ phase' = "down"
          /\ alive' \subseteq alive /\ record' = NoRecord /\ watched' = {}
        BY <1>4 DEF CloseEnds, Crash, store
    <2>2. removal' = NoRemoval
        BY <1>1, <1>4 DEF CloseEnds, Crash, ChildInv
    <2>3. Bounds'
        BY <1>1, <2>1 DEF Bounds, NoRecord
    <2>4. QueueInv' /\ HeadInv'
        BY <2>1 DEF QueueInv, QueueOk, HeadInv
    <2>5. ChildInv'
        BY <1>1, <2>1, <2>2 DEF ChildInv, NoRecord
    <2>6. PhaseInv'
        BY <1>2, <2>1, <2>2 DEF PhaseInv
    <2>. QED BY <2>3, <2>4, <2>5, <2>6 DEF ChildrenInv
<1>. QED BY <1>3, <1>4

LEMMA InvOpen ==
    ASSUME ProcessInv, Open PROVE ChildrenInv'
<1>1. /\ Bounds /\ ChildInv /\ PhaseInv /\ ServiceTypes
    BY DEF ProcessInv, ChildrenInv
<1>2. /\ proc'.gen = proc.gen /\ phase = "down" /\ phase' = "up" /\ proc.state # "none"
      /\ UNCHANGED <<stopSeen, queue, aborted, removal, watched, record, alive, identity, scenario>>
    BY <1>1, Opened DEF runner, host
<1>3. queue = <<>> /\ record = NoRecord /\ removal = NoRemoval
    BY <1>1, <1>2 DEF PhaseInv
<1>4. Bounds'
    BY <1>1, <1>2 DEF Bounds
<1>5. QueueInv' /\ HeadInv'
    BY <1>2, <1>3 DEF QueueInv, QueueOk, HeadInv
<1>6. PhaseInv'
    BY <1>1, <1>2 DEF PhaseInv
<1>7. proc.gen \in alive => proc'.cleanup
    <2>1. SUFFICES ASSUME proc.gen \in alive PROVE proc'.cleanup
        OBVIOUS
    <2>2. ~ChildIsGone(proc.gen)
        BY <2>1 DEF ChildIsGone
    <2>3. CASE Unsure
        BY <1>1, <2>2, <2>3, Opened
    <2>4. CASE ~Unsure
        <3>1. proc.state \in Gone
            BY <1>2, <2>4 DEF Unsure, Live, Exists, Gone
        <3>. QED BY <1>1, <2>1, <2>4, <3>1, Opened DEF ChildInv
    <2>. QED BY <2>3, <2>4
<1>8. proc'.state \notin {"running", "waiting_for_debugger"}
    <2>1. CASE Live
        BY <1>1, <2>1, Opened
    <2>2. CASE ~Live
        <3>1. proc.state \in Gone
            BY <1>2, <2>2 DEF Live, Exists, Gone
        <3>. QED BY <1>1, <2>2, <3>1, Opened DEF Gone, Terminal
    <2>. QED BY <2>1, <2>2
<1>9. ChildInv'
    BY <1>1, <1>2, <1>3, <1>7, <1>8 DEF ChildInv
<1>. QED BY <1>4, <1>5, <1>6, <1>9 DEF ChildrenInv

LEMMA InvReconcile ==
    ASSUME ProcessInv, Reconcile PROVE ChildrenInv'
<1>1. PhaseInv /\ ServiceTypes /\ proc.state # "none"
    BY DEF Reconcile, ProcessInv, ChildrenInv, ServiceTypes, Untouched
<1>2. UNCHANGED <<ops, stopSeen, queue, aborted, removal, watched, record, alive, identity, phase, scenario>>
    BY DEF Reconcile, runner, host
<1>3. StateCalm /\ proc'.active = proc.active
    <2>1. PICK g \in reconciling :
              ChildIsGone(g) /\ proc' = IF IsGeneration(g) THEN [proc EXCEPT !.cleanup = FALSE] ELSE proc
        BY DEF Reconcile
    <2>2. CASE proc' = proc
        BY <2>2, StateKept
    <2>3. CASE IsGeneration(g) /\ proc' = [proc EXCEPT !.cleanup = FALSE]
        <3>1. /\ proc'.gen = proc.gen /\ proc'.state = proc.state /\ proc'.active = proc.active
            BY <1>1, <2>3 DEF ServiceTypes, Processes
        <3>2. proc.gen \notin alive
            BY <2>1, <2>3 DEF IsGeneration, ChildIsGone
        <3>. QED BY <3>1, <3>2 DEF StateCalm
    <2>. QED BY <2>1, <2>2, <2>3
<1>4. PhaseInv'
    BY <1>1, <1>2 DEF PhaseInv
<1>. QED BY <1>1, <1>2, <1>3, <1>4, InvQuiet

LEMMA InvNothing ==
    ASSUME ProcessInv, UNCHANGED vars PROVE ChildrenInv'
<1>1. UNCHANGED <<proc, ops, stopSeen, queue, aborted, removal, watched, record, alive, identity, phase, scenario>>
    BY DEF vars, store, runner, host, service
<1>. QED BY <1>1 DEF ProcessInv, ChildrenInv, Bounds, QueueInv, QueueOk, HeadInv, HeadOk, StarterOk, StopOk,
     ResumeOk, Unborn, Running, Accounted, ChildInv, PhaseInv, Owns, CaughtMark

LEMMA ProcessInvInit == Init => ChildrenInv
<1>. SUFFICES ASSUME Init PROVE ChildrenInv
    OBVIOUS
<1>. QED BY DEF Init, ChildrenInv, Bounds, QueueInv, QueueOk, HeadInv, ChildInv, PhaseInv, NoProcess, NoRecord

LEMMA ProcessInvStep ==
    ASSUME ServiceAssumption, FaultsApart, ProcessInv, [Next]_vars PROVE ProcessInv'
<1>1. ServiceTypes'
    BY ServiceTypesStep DEF ProcessInv
<1>2. ChildrenInv'
    <2>1. CASE UNCHANGED vars \/ Idle
        BY <2>1, InvNothing DEF Idle
    <2>2. CASE RemovalStep
        BY <2>2, InvAdapterRemoves, InvRegistryRemoves DEF RemovalStep
    <2>3. CASE \E g \in Gens : ChildExits(g) \/ OutputFails(g)
        BY <2>3, InvChildExits, InvOutputFails
    <2>4. CASE Requests
        BY <2>4, InvRequests
    <2>5. CASE JobStep
        BY <2>5, InvJobStep
    <2>6. CASE CloseBegins \/ CloseEnds \/ Crash
        BY <2>6, InvDown
    <2>7. CASE Open \/ Reconcile
        BY <2>7, InvOpen, InvReconcile
    <2>. QED BY <2>1, <2>2, <2>3, <2>4, <2>5, <2>6, <2>7 DEF Next
<1>. QED BY <1>1, <1>2 DEF ProcessInv

LEMMA ProcessInvHolds ==
    ASSUME FaultsApart PROVE Init /\ [][Next]_vars => []ProcessInv
<1>1. Init => ProcessInv
    BY ServiceInitTypes, ProcessInvInit DEF ProcessInv
<1>2. ProcessInv /\ [Next]_vars => ProcessInv'
    BY ServiceAssumption, ProcessInvStep
<1>. QED BY <1>1, <1>2, PTL

LEMMA EndedFromInv == ProcessInv => EndedIsDead
BY DEF ProcessInv, ChildrenInv, ChildInv, EndedIsDead, Gone

\* A process that is published as ended, or removed, has no child of its
\* generation left unless it says that a cleanup is pending; and one that is
\* published as running is one that the adapter still has the record of.
THEOREM EndedProcessIsDead == FaultsApart => (Spec => []EndedIsDead)
<1>. SUFFICES ASSUME FaultsApart PROVE Spec => []EndedIsDead
    OBVIOUS
<1>1. Init /\ [][Next]_vars => []ProcessInv
    BY ProcessInvHolds
<1>. QED BY <1>1, EndedFromInv, PTL DEF Spec

-----------------------------------------------------------------------------
(* The children of older generations.                                      *)

(* The mark of a pending cleanup is one of the process, and the reconciler *)
(* takes it back for the current generation alone.  A Service that dies    *)
(* once finds at most one child that it lost.                              *)
DiesOnce == \A s \in Scenarios : s.downs <= 1

\* the Service has not been opened again
FirstLife == downs = 0 \/ phase # "up"

StrayInv ==
    /\ LeftoverIsMarked
    /\ 0 \notin alive
    /\ downs <= scenario.downs /\ (phase # "up" => downs # 0)
    /\ FirstLife /\ scenario.downs # 0 =>
          /\ (\E g \in alive : g # proc.gen) => proc.gen \notin identity
          /\ phase # "down" => \A g \in alive : Owns(g)
    /\ FirstLife => reconciling = {}
    /\ \A r \in reconciling :
          /\ r < proc.gen \/ (r = proc.gen /\ proc.state \in Gone)
          /\ r = proc.gen /\ r \in identity => alive \subseteq {r}

\* the process keeps its generation, its mark and its end
ProcessOnward ==
    /\ proc'.gen = proc.gen
    /\ proc.cleanup => proc'.cleanup
    /\ proc.state \in Gone => proc'.state \in Gone

\* no child is spawned, and the adapter keeps those that it owns
HostOnward ==
    /\ alive' \subseteq alive /\ identity' \subseteq identity
    /\ \A g \in alive' : Owns(g) => Owns(g)' \/ scenario.downs = 0

LEMMA StrayKept ==
    ASSUME StrayInv, UNCHANGED service, ProcessOnward, HostOnward
    PROVE  StrayInv'
<1>1. UNCHANGED <<reconciling, phase, downs, scenario>> /\ proc'.gen = proc.gen
    BY DEF service, ProcessOnward
<1>2. FirstLife' <=> FirstLife
    BY <1>1 DEF FirstLife
<1>3. \A g \in alive' : g # proc'.gen => proc'.cleanup
    BY <1>1 DEF StrayInv, LeftoverIsMarked, ProcessOnward, HostOnward
<1>4. /\ 0 \notin alive' /\ downs' <= scenario'.downs /\ (phase' # "up" => downs' # 0)
      /\ FirstLife' => reconciling' = {}
    BY <1>1, <1>2 DEF StrayInv, LeftoverIsMarked, HostOnward
<1>5. FirstLife' /\ scenario'.downs # 0 =>
          /\ (\E g \in alive' : g # proc'.gen) => proc'.gen \notin identity'
          /\ phase' # "down" => \A g \in alive' : Owns(g)'
    BY <1>1, <1>2 DEF StrayInv, LeftoverIsMarked, HostOnward
<1>6. \A r \in reconciling' :
          /\ r < proc'.gen \/ (r = proc'.gen /\ proc'.state \in Gone)
          /\ r = proc'.gen /\ r \in identity' => alive' \subseteq {r}
    BY <1>1 DEF StrayInv, LeftoverIsMarked, ProcessOnward, HostOnward
<1>. QED BY <1>3, <1>4, <1>5, <1>6 DEF StrayInv, LeftoverIsMarked

\* the adapter stops a child, in vain or not
LEMMA StopsOnward ==
    ASSUME ServiceTypes, NEW g, StopConfirmed(g) \/ StopTimesOut(g) PROVE HostOnward
<1>1. record \in ChildRecords
    BY DEF ServiceTypes
<1>2. CASE StopConfirmed(g) /\ Owns(g)
    <2>1. /\ alive' = alive \ {g} /\ identity' = identity /\ record.gen = g
        BY <1>2 DEF StopConfirmed, Owns
    <2>. QED BY <2>1 DEF HostOnward, Owns
<1>3. CASE StopConfirmed(g) /\ ~Owns(g)
    BY <1>3 DEF StopConfirmed, HostOnward, Owns
<1>4. CASE StopTimesOut(g)
    <2>1. alive' = alive /\ identity' = identity /\ record'.gen = record.gen /\ record'.status = "stuck"
        BY <1>1, <1>4 DEF StopTimesOut, ChildRecords
    <2>. QED BY <2>1 DEF HostOnward, Owns
<1>. QED BY <1>2, <1>3, <1>4

LEMMA HostStays ==
    ASSUME UNCHANGED host PROVE HostOnward
BY DEF host, HostOnward, Owns

LEMMA ProcessStays ==
    ASSUME UNCHANGED proc PROVE ProcessOnward
BY DEF ProcessOnward

LEMMA HandshakeOnward ==
    ASSUME FaultsApart, ServiceTypes, StrayInv, phase # "down", HandshakeFails,
           record.gen = job.gen
    PROVE  HostOnward
<1>1. alive' \subseteq alive /\ identity' \subseteq identity
    BY DEF HandshakeFails
<1>2. CASE alive' = alive \ {job.gen}
    BY <1>1, <1>2 DEF HostOnward, Owns
<1>3. CASE "unreaped" \in scenario.faults
    <2>1. scenario.downs = 0
        BY <1>3 DEF FaultsApart, ServiceTypes
    <2>. QED BY <1>1, <2>1 DEF HostOnward
<1>. QED BY <1>2, <1>3 DEF HandshakeFails

\* an update of a process that had ended leaves it so
LEMMA UpdateOnward ==
    ASSUME ServiceTypes, NEW g, NEW s \in ProcessStates \ {"none", "removed", "queued"}, NEW a \in Nat,
           CanUpdate(g, s), proc' = Updated(s, a)
    PROVE  ProcessOnward
<1>1. proc'.gen = proc.gen /\ proc'.cleanup = proc.cleanup /\ proc'.state = s
    BY ProcessUpdated
<1>2. proc.state \in Gone => s = proc.state
    BY DEF CanUpdate, IsGeneration, Exists, Allowed, Gone, Terminal
<1>. QED BY <1>1, <1>2 DEF ProcessOnward

LEMMA MarkOnward ==
    ASSUME ServiceTypes, NEW g, proc' = WithCleanup(g) PROVE ProcessOnward
<1>1. proc'.gen = proc.gen /\ proc'.state = proc.state
    BY ProcessMarked
<1>2. proc.cleanup => proc'.cleanup
    BY ProcessMarked
<1>. QED BY <1>1, <1>2 DEF ProcessOnward

LEMMA JobProcessOnward ==
    ASSUME ServiceTypes, JobStep, ~BeginRestart PROVE ProcessOnward
<1>1. proc.active \in Nat /\ 0 \in Nat
    BY DEF ServiceTypes, Processes
<1>2. CASE StartStages \/ Stage
    <2>1. UNCHANGED proc \/ \E s \in {"staging", "starting"} : CanUpdate(job.gen, s) /\ proc' = Updated(s, proc.active)
        BY <1>2 DEF StartStages, Stage
    <2>. QED BY <1>1, <2>1, UpdateOnward, ProcessStays DEF ProcessStates
<1>3. CASE CommitStart
    <2>1. UNCHANGED proc \/ \E s \in {"waiting_for_debugger", "running"} : CanUpdate(job.gen, s) /\ proc' = Updated(s, 0)
        BY <1>3 DEF CommitStart
    <2>. QED BY <1>1, <2>1, UpdateOnward, ProcessStays DEF ProcessStates
<1>4. CASE FailProcess \/ UndoStart
    <2>1. \/ UNCHANGED proc \/ proc' = WithCleanup(job.gen)
          \/ CanUpdate(job.gen, "failed") /\ proc' = Updated("failed", 0)
        BY <1>4 DEF FailProcess, UndoStart
    <2>. QED BY <1>1, <2>1, UpdateOnward, MarkOnward, ProcessStays DEF ProcessStates
<1>5. CASE Settle
    <2>1. UNCHANGED proc \/ (CanUpdate(job.gen, job.was) /\ proc' = Updated(job.was, 0))
        BY <1>5 DEF Settle
    <2>2. job.was \in ProcessStates \ {"none", "removed", "queued"}
        <3>1. At(Watchers, "settle")
            BY <1>5 DEF Settle, Watchers
        <3>2. job.was \in EndOf
            BY <3>1, JobIsAt DEF JobOk
        <3>. QED BY <3>2 DEF EndOf, ProcessStates
    <2>. QED BY <1>1, <2>1, <2>2, UpdateOnward, ProcessStays
<1>6. CASE CompleteStop \/ FailStop
    <2>1. \/ UNCHANGED proc \/ proc' = WithCleanup(job.gen)
          \/ \E s \in {"cancelled", "failed"} : CanComplete /\ proc' = Completed(s)
        BY <1>6 DEF CompleteStop, FailStop
    <2>2. ASSUME NEW s \in {"cancelled", "failed"}, CanComplete, proc' = Completed(s)
          PROVE  ProcessOnward
        <3>1. proc.state # "none"
            BY <2>2 DEF CanComplete, IsGeneration, Exists
        <3>. QED BY <2>2, <3>1, ProcessCompleted DEF ProcessOnward, Gone
    <2>. QED BY <2>1, <2>2, MarkOnward, ProcessStays
<1>7. CASE CompleteResume
    <2>1. At({"resume"}, "resumed")
        BY <1>7 DEF CompleteResume
    <2>2. ResumeApplied => proc.state \notin Gone
        BY DEF ResumeApplied, Gone, Terminal
    <2>. QED BY <1>7, <2>2, ResumeCompleted DEF ProcessOnward
<1>8. CASE \/ JobBegins \/ LaunchFails \/ LaunchStopsPrevious \/ Spawn \/ WriteIdentity \/ HandshakeFails \/ Handshake
           \/ Watch \/ JobSucceeds \/ CatchAborted \/ JobFails \/ Halt \/ Resume \/ ResumeSuperseded \/ SettleBegins
    <2>1. UNCHANGED proc
        BY <1>8 DEF JobBegins, LaunchFails, LaunchStopsPrevious, Spawn, WriteIdentity, HandshakeFails, Handshake,
           Watch, JobSucceeds, CatchAborted, JobFails, Halt, Resume, ResumeSuperseded, SettleBegins, store
    <2>. QED BY <2>1, ProcessStays
<1>. QED BY <1>2, <1>3, <1>4, <1>5, <1>6, <1>7, <1>8 DEF JobStep

LEMMA JobHostOnward ==
    ASSUME FaultsApart, ProcessInv, StrayInv, JobStep, ~Spawn, ~WriteIdentity PROVE HostOnward
<1>1. ServiceTypes
    BY DEF ProcessInv
<1>2. CASE HandshakeFails
    <2>1. At(Starters, "identity") \/ At(Starters, "handshake")
        BY <1>2 DEF HandshakeFails, Starters
    <2>2. /\ job.kind \in Starters /\ job.pc \in {"identity", "handshake"} /\ HeadOk(job) /\ job.gen = proc.gen /\ phase # "down"
        BY <2>1, JobHere DEF Starters, Steered
    <2>3. record.gen = job.gen
        BY <2>2 DEF HeadInv, HeadOk, StarterOk, StopOk, ResumeOk, PreLaunch, Starters, Watchers, Steered
    <2>. QED BY <1>1, <1>2, <2>2, <2>3, HandshakeOnward
<1>3. CASE \E g : StopConfirmed(g) \/ StopTimesOut(g)
    BY <1>1, <1>3, StopsOnward
<1>4. CASE UNCHANGED host
    BY <1>4, HostStays
<1>5. CASE LaunchStopsPrevious \/ Handshake \/ UndoStart \/ Halt \/ Resume \/ SettleBegins
    <2>1. UNCHANGED host \/ \E g : StopConfirmed(g) \/ StopTimesOut(g)
        BY <1>5 DEF LaunchStopsPrevious, Handshake, UndoStart, Halt, Resume, SettleBegins
    <2>. QED BY <1>3, <1>4, <2>1
<1>6. CASE \/ JobBegins \/ StartStages \/ Stage \/ LaunchFails \/ CommitStart \/ Watch \/ JobSucceeds
           \/ CatchAborted \/ FailProcess \/ JobFails \/ BeginRestart \/ CompleteStop \/ FailStop
           \/ CompleteResume \/ ResumeSuperseded \/ Settle
    <2>1. UNCHANGED host
        BY <1>6 DEF JobBegins, StartStages, Stage, LaunchFails, CommitStart, Watch, JobSucceeds,
           CatchAborted, FailProcess, JobFails, BeginRestart, CompleteStop, FailStop,
           CompleteResume, ResumeSuperseded, Settle
    <2>. QED BY <1>4, <2>1
<1>. QED BY <1>2, <1>5, <1>6 DEF JobStep

LEMMA StraySpawn ==
    ASSUME ProcessInv, StrayInv, Spawn PROVE StrayInv'
<1>1. At(Starters, "launch")
    BY DEF Spawn, Starters
<1>2. /\ job.kind \in Starters /\ job.pc = "launch" /\ HeadOk(job) /\ job.gen = proc.gen /\ phase # "down"
      /\ ServiceTypes
    BY <1>1, JobHere DEF Starters, Steered
<1>3. proc.state \notin Gone /\ proc.gen # 0
    <2>1. proc.state \in Starting
        BY <1>2 DEF HeadInv, HeadOk, StarterOk, StopOk, ResumeOk, PreLaunch, Starters, Watchers, Steered
    <2>2. Bounds /\ proc.gen \in Nat
        BY <1>1, JobHere DEF ServiceTypes, Processes
    <2>3. proc.gen > 0
        BY <2>1, <2>2 DEF Bounds, Starting
    <2>. QED BY <2>1, <2>2, <2>3 DEF Starting, Gone, Terminal
<1>4. /\ UNCHANGED <<proc, reconciling, phase, downs, scenario>>
      /\ record' = [gen |-> proc.gen, status |-> "live", terminal |-> "none"]
      /\ alive' = alive \cup {proc.gen} /\ ~Owns(record.gen)
    BY <1>2 DEF Spawn, store, unchangedByJob, service
<1>5. FirstLife' <=> FirstLife
    BY <1>4 DEF FirstLife
<1>6. FirstLife /\ scenario.downs # 0 => alive = {}
    <2>1. ASSUME FirstLife, scenario.downs # 0, NEW g \in alive PROVE FALSE
        BY <1>2, <1>4, <2>1 DEF StrayInv, LeftoverIsMarked, Owns
    <2>. QED BY <2>1
<1>7. Owns(proc.gen)'
    BY <1>4 DEF Owns
<1>8. \A r \in reconciling : r # proc.gen
    <2>1. reconciling \subseteq Nat /\ proc.gen \in Nat
        BY <1>2 DEF ServiceTypes, Processes
    <2>. QED BY <1>3, <2>1 DEF StrayInv, LeftoverIsMarked
<1>9. \A g \in alive' : g # proc'.gen => proc'.cleanup
    BY <1>4 DEF StrayInv, LeftoverIsMarked
<1>10. FirstLife' /\ scenario'.downs # 0 =>
          /\ (\E g \in alive' : g # proc'.gen) => proc'.gen \notin identity'
          /\ phase' # "down" => \A g \in alive' : Owns(g)'
    BY <1>4, <1>5, <1>6, <1>7 DEF Owns
<1>11. \A r \in reconciling' :
          /\ r < proc'.gen \/ (r = proc'.gen /\ proc'.state \in Gone)
          /\ r = proc'.gen /\ r \in identity' => alive' \subseteq {r}
    BY <1>4, <1>8 DEF StrayInv, LeftoverIsMarked
<1>. QED BY <1>3, <1>4, <1>5, <1>9, <1>10, <1>11 DEF StrayInv, LeftoverIsMarked

\* when the identity file is written, the child it is about is the only one
\* of the first life of the Service, and the generation has not ended
LEMMA StrayIdentity ==
    ASSUME ProcessInv, StrayInv, WriteIdentity PROVE StrayInv'
<1>1. At(Starters, "identity")
    BY DEF WriteIdentity, Starters
<1>2. /\ job.kind \in Starters /\ job.pc = "identity" /\ HeadOk(job) /\ job.gen = proc.gen /\ phase # "down"
      /\ ServiceTypes
    BY <1>1, JobHere DEF Starters, Steered
<1>3. record.gen = proc.gen /\ proc.state \in Starting
    BY <1>2 DEF HeadInv, HeadOk, StarterOk, StopOk, ResumeOk, PreLaunch, Starters, Watchers, Steered
<1>4. /\ UNCHANGED <<proc, record, alive, reconciling, phase, downs, scenario>>
      /\ identity' = identity \cup {proc.gen}
    BY <1>2 DEF WriteIdentity, store, unchangedByJob, service
<1>5. FirstLife' <=> FirstLife
    BY <1>4 DEF FirstLife
<1>6. \A r \in reconciling : r # proc.gen
    <2>1. reconciling \subseteq Nat /\ proc.gen \in Nat
        BY <1>2 DEF ServiceTypes, Processes
    <2>2. proc.state \notin Gone
        BY <1>3 DEF Starting, Gone, Terminal
    <2>. QED BY <2>1, <2>2 DEF StrayInv, LeftoverIsMarked
<1>7. FirstLife /\ scenario.downs # 0 => \A g \in alive : Owns(g) /\ g = proc.gen
    <2>1. FirstLife /\ scenario.downs # 0 => \A g \in alive : Owns(g)
        BY <1>2 DEF StrayInv, LeftoverIsMarked
    <2>. QED BY <1>3, <2>1 DEF Owns
<1>8. FirstLife' /\ scenario'.downs # 0 =>
          /\ (\E g \in alive' : g # proc'.gen) => proc'.gen \notin identity'
          /\ phase' # "down" => \A g \in alive' : Owns(g)'
    BY <1>4, <1>5, <1>7 DEF Owns
<1>9. \A r \in reconciling' :
          /\ r < proc'.gen \/ (r = proc'.gen /\ proc'.state \in Gone)
          /\ r = proc'.gen /\ r \in identity' => alive' \subseteq {r}
    BY <1>4, <1>6 DEF StrayInv, LeftoverIsMarked
<1>. QED BY <1>4, <1>5, <1>8, <1>9 DEF StrayInv, LeftoverIsMarked

LEMMA StrayRestart ==
    ASSUME ProcessInv, StrayInv, BeginRestart PROVE StrayInv'
<1>1. At({"restart"}, "complete")
    BY DEF BeginRestart
<1>2. /\ job.kind = "restart" /\ job.pc = "complete" /\ HeadOk(job) /\ job.gen = proc.gen
      /\ ServiceTypes /\ Bounds /\ proc.gen \in Nat
    BY <1>1, JobHere DEF Steered
<1>3. Accounted
    BY <1>2 DEF HeadInv, HeadOk, StarterOk, StopOk, ResumeOk, PreLaunch, Starters, Watchers, Steered
<1>4. UNCHANGED <<record, alive, identity, reconciling, phase, downs, scenario>> /\ UNCHANGED service
    BY DEF BeginRestart, host, unchangedByJob, service
<1>5. CASE UNCHANGED proc
    <2>1. UNCHANGED host
        BY <1>4 DEF host
    <2>. QED BY <1>4, <1>5, <2>1, StrayKept, HostStays, ProcessStays
<1>6. CASE proc' = Restarted
    <2>1. proc'.gen = proc.gen + 1 /\ proc'.cleanup = proc.cleanup
        BY <1>2, <1>6 DEF Restarted, ServiceTypes, Processes
    <2>2. FirstLife' <=> FirstLife
        BY <1>4 DEF FirstLife
    <2>3. \A g \in alive' : g # proc'.gen => proc'.cleanup
        BY <1>3, <1>4, <2>1 DEF StrayInv, LeftoverIsMarked, Accounted
    <2>4. proc'.gen \notin identity
        <3>1. \A g \in identity : g \in Nat /\ g <= proc.gen
            BY <1>2 DEF Bounds, ServiceTypes
        <3>. QED BY <1>2, <2>1, <3>1
    <2>5. FirstLife' /\ scenario'.downs # 0 =>
              /\ (\E g \in alive' : g # proc'.gen) => proc'.gen \notin identity'
              /\ phase' # "down" => \A g \in alive' : Owns(g)'
        BY <1>4, <2>2, <2>4 DEF StrayInv, LeftoverIsMarked, Owns
    <2>6. \A r \in reconciling : r < proc.gen + 1 /\ r # proc.gen + 1
        <3>1. reconciling \subseteq Nat
            BY <1>2 DEF ServiceTypes
        <3>2. \A r \in reconciling : r \in Nat /\ (r < proc.gen \/ r = proc.gen)
            BY <3>1 DEF StrayInv, LeftoverIsMarked
        <3>. QED BY <1>2, <3>2
    <2>. QED BY <1>4, <2>1, <2>2, <2>3, <2>5, <2>6 DEF StrayInv, LeftoverIsMarked
<1>. QED BY <1>5, <1>6 DEF BeginRestart

LEMMA StrayJobStep ==
    ASSUME FaultsApart, ProcessInv, StrayInv, JobStep PROVE StrayInv'
<1>1. UNCHANGED service
    BY DEF JobStep, unchangedByJob, JobBegins, StartStages, Stage, LaunchFails, LaunchStopsPrevious, Spawn,
       WriteIdentity, HandshakeFails, Handshake, CommitStart, Watch, JobSucceeds, UndoStart, CatchAborted, FailProcess,
       JobFails, Halt, BeginRestart, CompleteStop, FailStop, Resume, CompleteResume, ResumeSuperseded,
       SettleBegins, Settle
<1>2. CASE Spawn \/ WriteIdentity
    BY <1>2, StraySpawn, StrayIdentity
<1>3. CASE BeginRestart
    BY <1>3, StrayRestart
<1>4. CASE ~Spawn /\ ~WriteIdentity /\ ~BeginRestart
    BY <1>1, <1>4, JobHostOnward, JobProcessOnward, StrayKept DEF ProcessInv
<1>. QED BY <1>2, <1>3, <1>4

LEMMA StrayStart ==
    ASSUME ServiceAssumption, ServiceTypes, StrayInv, StartProcess PROVE StrayInv'
<1>1. Untouched
    BY Started
<1>2. /\ alive = {} /\ reconciling = {} /\ phase = "up"
      /\ UNCHANGED <<alive, identity, record, reconciling, phase, downs, scenario>>
    BY <1>1 DEF Untouched, StartProcess, host, service
<1>. QED BY <1>2 DEF StrayInv, LeftoverIsMarked, FirstLife

LEMMA StrayRequests ==
    ASSUME ServiceAssumption, ServiceTypes, StrayInv, Requests PROVE StrayInv'
<1>1. CASE StartProcess
    BY <1>1, StrayStart
<1>2. CASE AdmitStop \/ AdmitRestart \/ AdmitResume
    <2>1. PICK kind \in {"stop", "restart", "resume"} : AdmitAction(kind)
        BY <1>2 DEF AdmitStop, AdmitRestart, AdmitResume
    <2>2. PICK o \in Ops, was \in ProcessStates \ {"none"} : o \in Nat \ {0} /\ AdmittedAs(kind, o, was)
        BY <2>1, Admitted
    <2>3. proc'.state = was /\ proc'.gen = proc.gen /\ proc'.cleanup = proc.cleanup
        BY <2>2, ProcessUpdated DEF AdmittedAs
    <2>4. ProcessOnward
        BY <2>2, <2>3 DEF AdmittedAs, ProcessOnward, Gone
    <2>5. UNCHANGED host /\ UNCHANGED service
        BY <1>2 DEF AdmitStop, AdmitRestart, AdmitResume
    <2>. QED BY <2>4, <2>5, HostStays, StrayKept
<1>3. CASE StopReads \/ StopRefused \/ \E kind \in {"remove", "prune"} : RemovalBegins(kind)
    <2>1. UNCHANGED proc /\ UNCHANGED host /\ UNCHANGED service
        BY <1>3 DEF StopReads, StopRefused, RemovalBegins, store
    <2>. QED BY <2>1, HostStays, ProcessStays, StrayKept
<1>. QED BY <1>1, <1>2, <1>3 DEF Requests

LEMMA StrayRemoval ==
    ASSUME ProcessInv, StrayInv, RemovalStep PROVE StrayInv'
<1>1. ServiceTypes
    BY DEF ProcessInv
<1>2. CASE AdapterRemoves
    <2>1. UNCHANGED proc /\ UNCHANGED service
        BY <1>2 DEF AdapterRemoves, store
    <2>2. HostOnward
        <3>1. CASE UNCHANGED host
            BY <3>1, HostStays
        <3>2. CASE StopTimesOut(removal.gen)
            BY <1>1, <3>2, StopsOnward
        <3>3. CASE /\ RecordMatches /\ record' = NoRecord /\ identity' = identity \ {removal.gen}
                   /\ alive' = IF Owns(removal.gen) THEN alive \ {removal.gen} ELSE alive
            <4>1. alive' \subseteq alive /\ identity' \subseteq identity
                BY <3>3
            <4>2. \A g \in alive' : Owns(g) => g = 0
                BY <3>3 DEF RecordMatches, Owns
            <4>3. 0 \notin alive
                BY DEF StrayInv, LeftoverIsMarked
            <4>. QED BY <4>1, <4>2, <4>3 DEF HostOnward
        <3>. QED BY <1>2, <3>1, <3>2, <3>3 DEF AdapterRemoves
    <2>. QED BY <2>1, <2>2, ProcessStays, StrayKept
<1>3. CASE RegistryRemoves
    <2>1. UNCHANGED host /\ UNCHANGED service
        BY <1>3 DEF RegistryRemoves
    <2>2. ProcessOnward
        <3>1. UNCHANGED proc \/ proc' = [proc EXCEPT !.state = "removed", !.active = 0]
            BY <1>3 DEF RegistryRemoves, store
        <3>2. CASE proc' = [proc EXCEPT !.state = "removed", !.active = 0]
            <4>1. proc'.gen = proc.gen /\ proc'.cleanup = proc.cleanup /\ proc'.state = "removed"
                BY <1>1, <3>2 DEF ServiceTypes, Processes
            <4>. QED BY <4>1 DEF ProcessOnward, Gone
        <3>. QED BY <3>1, <3>2, ProcessStays
    <2>. QED BY <2>1, <2>2, HostStays, StrayKept
<1>. QED BY <1>2, <1>3 DEF RemovalStep

LEMMA StrayChildren ==
    ASSUME ServiceTypes, StrayInv, NEW g, ChildExits(g) \/ OutputFails(g) PROVE StrayInv'
<1>1. CASE OutputFails(g)
    <2>1. UNCHANGED proc /\ UNCHANGED host /\ UNCHANGED service
        BY <1>1 DEF OutputFails, store
    <2>. QED BY <2>1, HostStays, ProcessStays, StrayKept
<1>2. CASE ChildExits(g)
    <2>1. UNCHANGED proc /\ UNCHANGED service /\ alive' = alive \ {g} /\ identity' = identity
        BY <1>2 DEF ChildExits, store
    <2>2. HostOnward
        <3>1. CASE \E terminal : ChildEnded(g, terminal)
            BY <2>1, <3>1 DEF ChildEnded, HostOnward, Owns
        <3>2. CASE UNCHANGED <<record, queue>>
            BY <2>1, <3>2 DEF HostOnward, Owns
        <3>. QED BY <1>2, <3>1, <3>2, Exited
    <2>. QED BY <2>1, <2>2, ProcessStays, StrayKept
<1>. QED BY <1>1, <1>2

LEMMA StrayDown ==
    ASSUME ServiceAssumption, DiesOnce, ServiceTypes, StrayInv, CloseBegins \/ CloseEnds \/ Crash PROVE StrayInv'
<1>1. scenario \in Scenarios /\ downs \in Nat /\ scenario.downs \in Nat /\ scenario.downs <= 1
    BY DEF ServiceTypes, ServiceAssumption, DiesOnce
<1>2. CASE CloseBegins \/ Crash
    <2>1. downs < scenario.downs /\ downs' = downs + 1 /\ phase # "down"
        BY <1>2 DEF CloseBegins, Crash
    <2>2. downs = 0 /\ downs' = 1 /\ scenario.downs = 1
        BY <1>1, <2>1
    <2>3. /\ UNCHANGED <<proc, alive, identity, scenario>> /\ reconciling' = {} /\ phase' # "up"
          /\ phase' # "down" => record' = record
        BY <1>2 DEF CloseBegins, Crash, store, host
    <2>4. FirstLife /\ scenario.downs # 0
        BY <2>2 DEF FirstLife
    <2>5. \A g \in alive : phase' # "down" => Owns(g)'
        BY <2>1, <2>3, <2>4 DEF StrayInv, LeftoverIsMarked, Owns
    <2>. QED BY <2>2, <2>3, <2>4, <2>5 DEF StrayInv, LeftoverIsMarked
<1>3. CASE CloseEnds
    <2>1. /\ UNCHANGED <<proc, identity, reconciling, downs, scenario>> /\ alive' \subseteq alive
          /\ phase = "closing" /\ phase' = "down"
        BY <1>3 DEF CloseEnds, store
    <2>2. FirstLife /\ FirstLife'
        BY <2>1 DEF FirstLife
    <2>. QED BY <2>1, <2>2 DEF StrayInv, LeftoverIsMarked
<1>. QED BY <1>2, <1>3

LEMMA StrayOpen ==
    ASSUME ServiceAssumption, ServiceTypes, StrayInv, Open PROVE StrayInv'
<1>1. /\ proc'.gen = proc.gen /\ phase = "down" /\ phase' = "up"
      /\ UNCHANGED <<record, alive, identity, downs, scenario>>
    BY Opened DEF host
<1>2. FirstLife /\ downs # 0 /\ downs <= scenario.downs /\ ~FirstLife'
    BY <1>1 DEF StrayInv, LeftoverIsMarked, FirstLife
<1>3. scenario.downs # 0
    <2>1. downs \in Nat /\ scenario.downs \in Nat
        BY DEF ServiceTypes, ServiceAssumption
    <2>. QED BY <1>2, <2>1
<1>4. (\E g \in alive : g # proc.gen) => proc.gen \notin identity
    BY <1>2, <1>3 DEF StrayInv, LeftoverIsMarked
<1>5. \A g \in alive' : g # proc'.gen => proc'.cleanup
    <2>1. SUFFICES ASSUME NEW g \in alive, g # proc.gen PROVE proc'.cleanup
        BY <1>1
    <2>2. proc.cleanup /\ proc.gen \notin identity
        BY <1>4, <2>1 DEF StrayInv, LeftoverIsMarked
    <2>3. ~ChildIsGone(proc.gen)
        BY <2>2 DEF ChildIsGone
    <2>. QED BY <2>2, <2>3, Opened
<1>6. \A r \in reconciling' :
          /\ r < proc'.gen \/ (r = proc'.gen /\ proc'.state \in Gone)
          /\ r = proc'.gen /\ r \in identity' => alive' \subseteq {r}
    <2>1. SUFFICES ASSUME NEW r \in reconciling'
                   PROVE  r = proc.gen /\ proc'.state \in Gone /\ (r \in identity => alive \subseteq {r})
        BY <1>1
    <2>2. r = proc.gen /\ Unsure
        BY <2>1, Opened
    <2>3. proc'.state \in Gone
        <3>1. CASE Live
            BY <3>1, Opened DEF Gone, Terminal
        <3>2. CASE ~Live
            BY <2>2, <3>2, Opened DEF Unsure, Live, Gone
        <3>. QED BY <3>1, <3>2
    <2>. QED BY <1>4, <2>2, <2>3
<1>. QED BY <1>1, <1>2, <1>5, <1>6 DEF StrayInv, LeftoverIsMarked

LEMMA StrayReconcile ==
    ASSUME ServiceTypes, StrayInv, Reconcile PROVE StrayInv'
<1>1. PICK g \in reconciling :
          /\ ChildIsGone(g) /\ reconciling' = reconciling \ {g}
          /\ proc' = IF IsGeneration(g) THEN [proc EXCEPT !.cleanup = FALSE] ELSE proc
    BY DEF Reconcile
<1>2. UNCHANGED <<record, alive, identity, phase, downs, scenario>>
    BY DEF Reconcile, host
<1>3. /\ proc'.gen = proc.gen /\ proc'.state = proc.state
      /\ proc'.cleanup = proc.cleanup \/ g = proc.gen
    <2>1. CASE IsGeneration(g)
        BY <1>1, <2>1 DEF ServiceTypes, Processes, IsGeneration
    <2>2. CASE ~IsGeneration(g)
        BY <1>1, <2>2
    <2>. QED BY <2>1, <2>2
<1>4. g = proc.gen => alive = {}
    BY <1>1 DEF ChildIsGone, StrayInv, LeftoverIsMarked
<1>5. FirstLife' <=> FirstLife
    BY <1>2 DEF FirstLife
<1>6. \A h \in alive' : h # proc'.gen => proc'.cleanup
    BY <1>2, <1>3, <1>4 DEF StrayInv, LeftoverIsMarked
<1>7. FirstLife' /\ scenario'.downs # 0 =>
          /\ (\E h \in alive' : h # proc'.gen) => proc'.gen \notin identity'
          /\ phase' # "down" => \A h \in alive' : Owns(h)'
    BY <1>2, <1>3, <1>5 DEF StrayInv, LeftoverIsMarked, Owns
<1>8. \A r \in reconciling' :
          /\ r < proc'.gen \/ (r = proc'.gen /\ proc'.state \in Gone)
          /\ r = proc'.gen /\ r \in identity' => alive' \subseteq {r}
    BY <1>1, <1>2, <1>3 DEF StrayInv, LeftoverIsMarked
<1>. QED BY <1>1, <1>2, <1>5, <1>6, <1>7, <1>8 DEF StrayInv, LeftoverIsMarked

LEMMA StrayNothing ==
    ASSUME StrayInv, UNCHANGED vars PROVE StrayInv'
<1>1. UNCHANGED proc /\ UNCHANGED host /\ UNCHANGED service
    BY DEF vars, store
<1>. QED BY <1>1, HostStays, ProcessStays, StrayKept

LEMMA StrayInit == ServiceAssumption /\ Init => StrayInv
BY DEF ServiceAssumption, Init, StrayInv, LeftoverIsMarked, FirstLife

LEMMA StrayStep ==
    ASSUME ServiceAssumption, FaultsApart, DiesOnce, ProcessInv, StrayInv, [Next]_vars PROVE StrayInv'
<1>0. ServiceTypes
    BY DEF ProcessInv
<1>1. CASE UNCHANGED vars \/ Idle
    BY <1>1, StrayNothing DEF Idle
<1>2. CASE RemovalStep
    BY <1>2, StrayRemoval
<1>3. CASE \E g \in Gens : ChildExits(g) \/ OutputFails(g)
    BY <1>0, <1>3, StrayChildren
<1>4. CASE Requests
    BY <1>0, <1>4, StrayRequests
<1>5. CASE JobStep
    BY <1>5, StrayJobStep
<1>6. CASE CloseBegins \/ CloseEnds \/ Crash
    BY <1>0, <1>6, StrayDown
<1>7. CASE Open \/ Reconcile
    BY <1>0, <1>7, StrayOpen, StrayReconcile
<1>. QED BY <1>1, <1>2, <1>3, <1>4, <1>5, <1>6, <1>7 DEF Next

LEMMA AccountedFromInv ==
    ASSUME ProcessInv, StrayInv PROVE ChildrenAccounted
<1>1. EndedIsDead
    BY EndedFromInv
<1>2. LiveIsOwned
    BY DEF ProcessInv, ChildrenInv, ChildInv, LiveIsOwned
<1>3. LeftoverIsMarked
    BY DEF StrayInv, LeftoverIsMarked
<1>. QED BY <1>1, <1>2, <1>3 DEF ChildrenAccounted

\* What the registry says of the children of the process is so: an ended
\* process has none left, one that runs is owned by the adapter, and a child
\* of an older generation is never forgotten.
THEOREM ChildrenAreAccounted == FaultsApart /\ DiesOnce => (Spec => []ChildrenAccounted)
<1>. SUFFICES ASSUME FaultsApart, DiesOnce PROVE Spec => []ChildrenAccounted
    OBVIOUS
<1>1. Init /\ [][Next]_vars => []ProcessInv
    BY ProcessInvHolds
<1>2. Init => StrayInv
    BY ServiceAssumption, StrayInit
<1>3. ProcessInv /\ StrayInv /\ [Next]_vars => StrayInv'
    BY ServiceAssumption, StrayStep
<1>4. ProcessInv /\ StrayInv => ChildrenAccounted
    BY AccountedFromInv
<1>. QED BY <1>1, <1>2, <1>3, <1>4, PTL DEF Spec

=============================================================================
