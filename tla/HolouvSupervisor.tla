-------------------------- MODULE HolouvSupervisor --------------------------
(***************************************************************************)
(* A HoloUV environment (packages/holouv): the lease on it, its opening    *)
(* over a transport that arrives late, and the connection to the           *)
(* supervisor in the guest, which carries requests of the host, processes, *)
(* and requests of the guest that the host answers asynchronously.         *)
(*                                                                         *)
(* The transport may break and the supervisor may say anything or nothing  *)
(* at any moment.  A frame whose contents are refused, or that is out of   *)
(* place, is a FrameRefused.                                               *)
(***************************************************************************)
EXTENDS Naturals, FiniteSets

CONSTANTS
    MaxRequests,    \* requests of the host to the supervisor
    Pids,           \* process ids the supervisor uses
    Configures,     \* whether the factory has a createConfiguration
    MaxAdmissions,  \* 64: network admissions that wait to be consumed
    MaxAsked        \* requests of the guest in all

ASSUME HolouvAssumption ==
    /\ MaxRequests \in Nat \ {0} /\ MaxAdmissions \in Nat \ {0} /\ MaxAsked \in Nat
    /\ IsFiniteSet(Pids) /\ Configures \subseteq BOOLEAN /\ Configures # {}

VARIABLES
    lease,       \* the record of the environment runtime
    opening,     \* where open() is
    configures,  \* this factory has a createConfiguration
    closing,     \* where the environment's close() is
    link,        \* the connection
    requests,    \* #pending, with what became of a request
    owner,       \* #processes: the spawn request that a process came from
    sinks,       \* how often the sink of a spawn request was told its end
    handlers,    \* requests of the guest that a handler works on
    asked,       \* how many there were
    commits,     \* #pendingExecutionCommits: execs that were allowed
    admissions   \* #networkAdmissions: connections that were allowed

connection == <<link, requests, owner, sinks, commits, admissions>>
holouvVars == <<lease, opening, configures, closing, connection, handlers, asked>>

RequestIds == 1 .. MaxRequests
NoRequest == [kind |-> "none", state |-> "none", sent |-> FALSE]
Constructed == opening \notin {"none", "begin"}
OpenSettled == opening \in {"resolved", "rejected"}

HolouvInit ==
    /\ lease = "none" /\ opening = "none" /\ closing = "no"
    /\ configures \in Configures
    /\ link = [closed |-> FALSE, ready |-> FALSE, transport |-> "none"]
    /\ requests = [r \in RequestIds |-> NoRequest]
    /\ owner = [p \in Pids |-> 0]
    /\ sinks = [r \in RequestIds |-> [exits |-> 0, closes |-> 0]]
    /\ handlers = {} /\ asked = 0 /\ commits = {} /\ admissions = {}

-----------------------------------------------------------------------------
(* The connection.                                                         *)

\* HoloUvSupervisorProcessV1: exit is told once, and by close when it was not
Exited(sink) == [sink EXCEPT !.exits = IF @ = 0 THEN 1 ELSE @]

Ended(sink) == [Exited(sink) EXCEPT !.closes = @ + 1]

Pending(r) == requests[r].state = "pending"

SetRequest(r, state) == requests' = [requests EXCEPT ![r].state = state]

\* fail(): only the first call does anything
FailConnection ==
    IF link.closed THEN UNCHANGED connection
    ELSE /\ link' = [link EXCEPT !.closed = TRUE,
                                 !.transport = IF @ = "attached" THEN "closed" ELSE @]
         /\ requests' = [r \in RequestIds |-> IF Pending(r)
                            THEN [requests[r] EXCEPT !.state = "failed"] ELSE requests[r]]
         /\ sinks' = [r \in RequestIds |-> IF \E p \in Pids : owner[p] = r
                         THEN Ended(sinks[r]) ELSE sinks[r]]
         /\ owner' = [p \in Pids |-> 0]
         /\ commits' = {} /\ admissions' = {}

FreeRequests == {r \in RequestIds : requests[r] = NoRequest}

\* a request under the next id; one that cannot be encoded is not sent, and
\* stays in #pending while its caller gets the exception
NewRequest(kind, sent) ==
    /\ FreeRequests # {}
    /\ LET r == CHOOSE r \in FreeRequests : \A s \in FreeRequests : r <= s
       IN  requests' = [requests EXCEPT
                           ![r] = [kind |-> kind, state |-> "pending", sent |-> sent]]

-----------------------------------------------------------------------------
(* The lease (environment-runtime.ts).                                     *)

Acquire ==
    /\ lease = "none"
    /\ lease' = "held" /\ opening' = "begin"
    /\ UNCHANGED <<configures, closing, connection, handlers, asked>>

\* #closeRecord: by release, closeGeneration or close.  It aborts the signal,
\* to which ready() and configure() listen while they wait
CloseRecord ==
    /\ lease = "held"
    /\ lease' = "released"
    /\ IF opening = "ready" \/ \E r \in RequestIds : requests[r].kind = "configuration" /\ Pending(r)
       THEN FailConnection ELSE UNCHANGED connection
    /\ UNCHANGED <<opening, configures, closing, handlers, asked>>

SignalAborted == lease = "released"

\* close() of the environment, once open() has given it to the lease: the
\* shutdown is written.  A transport.write that throws at once leaves #close
\* before its catch and before fail(), and #closeRecord swallows it
CloseEnvironment ==
    /\ lease = "released" /\ opening = "resolved" /\ closing = "no"
    /\ closing' \in IF link.closed THEN {"done"} ELSE {"shutdown", "threw"}
    /\ UNCHANGED <<lease, opening, configures, connection, handlers, asked>>

\* Mutant: a shutdown that cannot be written ends close() early
ShutdownUncaught(written) ==
    /\ closing = "shutdown" /\ closing' = "done"
    /\ IF written THEN FailConnection ELSE UNCHANGED connection
    /\ UNCHANGED <<lease, opening, configures, handlers, asked>>

\* #close after its await: the shutdown was written, or its write rejected
ShutdownEnds(written) ==
    /\ closing = "shutdown" /\ closing' = "done"
    /\ FailConnection
    /\ UNCHANGED <<lease, opening, configures, handlers, asked>>

-----------------------------------------------------------------------------
(* open(): each step is what follows one of its awaits.                    *)

OpenGoes(pc) == opening' = pc /\ UNCHANGED lease

\* the catch of open(), and of the record that waits for it
OpenRejects ==
    /\ opening' = "rejected"
    /\ lease' = IF lease = "held" THEN "dropped" ELSE lease
    /\ FailConnection

OpenBegins ==
    /\ opening = "begin" /\ OpenGoes("transport")
    /\ UNCHANGED connection

\* Mutant: attach() does not look whether the connection has failed
AttachBlindly ==
    /\ opening = "transport" /\ OpenGoes("start")
    /\ link' = [link EXCEPT !.transport = "attached"]
    /\ UNCHANGED <<requests, owner, sinks, commits, admissions>>

\* openTransport resolves: attach(); a connection that failed meanwhile
\* closes the transport at once
Attach ==
    /\ opening = "transport" /\ OpenGoes("start")
    /\ link' = [link EXCEPT !.transport = IF link.closed THEN "closed" ELSE "attached"]
    /\ UNCHANGED <<requests, owner, sinks, commits, admissions>>

\* transport.start resolves: ready() waits for the first frame
AwaitReady ==
    /\ opening = "start" /\ OpenGoes("ready")
    /\ IF SignalAborted THEN FailConnection ELSE UNCHANGED connection

ReadyEnds ==
    /\ opening = "ready"
    /\ \/ link.ready /\ OpenGoes("validate") /\ UNCHANGED connection
       \/ ~link.ready /\ link.closed /\ OpenRejects

\* validateReady resolves; without a configuration open() is done
Validated ==
    /\ opening = "validate" /\ OpenGoes(IF configures THEN "create" ELSE "resolved")
    /\ UNCHANGED connection

\* createConfiguration resolves: configure()
Configure ==
    /\ opening = "create"
    /\ IF link.closed \/ SignalAborted THEN OpenRejects
       ELSE /\ OpenGoes("configure") /\ NewRequest("configuration", TRUE)
            /\ UNCHANGED <<link, owner, sinks, commits, admissions>>

ConfigureEnds ==
    /\ opening = "configure"
    /\ \E r \in RequestIds : /\ requests[r].kind = "configuration" /\ ~Pending(r)
                             /\ IF requests[r].state = "ok"
                                THEN OpenGoes("resolved") /\ UNCHANGED connection
                                ELSE OpenRejects

\* openTransport, start, validateReady or createConfiguration rejects
OpenFails ==
    /\ opening \in {"transport", "start", "validate", "create"}
    /\ OpenRejects

OpenStep ==
    /\ \/ OpenBegins \/ Attach \/ AwaitReady \/ ReadyEnds
       \/ Validated \/ Configure \/ ConfigureEnds \/ OpenFails
    /\ UNCHANGED <<configures, closing, handlers, asked>>

-----------------------------------------------------------------------------
(* Timers and the transport.                                               *)

around == <<lease, opening, configures, closing, handlers, asked>>

ReadyTimesOut ==
    /\ Constructed /\ ~link.ready /\ ~link.closed
    /\ FailConnection /\ UNCHANGED around

ConfigurationTimesOut ==
    /\ \E r \in RequestIds : requests[r].kind = "configuration" /\ Pending(r)
    /\ FailConnection /\ UNCHANGED around

\* onClose or onError, which may come before openTransport resolves
TransportBreaks ==
    /\ Constructed /\ ~link.closed
    /\ FailConnection /\ UNCHANGED around

\* the write of a request rejects, whether its bytes have arrived or not
WriteFails(r) ==
    /\ Pending(r) /\ requests[r].sent
    /\ SetRequest(r, "failed")
    /\ UNCHANGED <<link, owner, sinks, commits, admissions, around>>

-----------------------------------------------------------------------------
(* Requests of the host, by whoever holds the lease.                       *)

Usable == opening = "resolved" /\ ~link.closed

SpawnRequest(sent) ==
    /\ Usable /\ NewRequest("spawn", sent)
    /\ UNCHANGED <<link, owner, sinks, commits, admissions, around>>

Command(sent) ==
    /\ Usable /\ \E p \in Pids : owner[p] # 0
    /\ NewRequest("command", sent)
    /\ UNCHANGED <<link, owner, sinks, commits, admissions, around>>

\* consumeNetworkAdmission, or an admission is 5 s old when one is looked for
AdmissionLeaves(h) ==
    /\ admissions' = admissions \ {h}
    /\ UNCHANGED <<link, requests, owner, sinks, commits, around>>

-----------------------------------------------------------------------------
(* #receiveFrame; the supervisor may have any sent request in mind.        *)

Receiving == Constructed /\ ~link.closed
Known(p) == Receiving /\ link.ready /\ owner[p] # 0

FrameRefused ==
    /\ Receiving /\ FailConnection /\ UNCHANGED around

FrameReady ==
    /\ Receiving /\ ~link.ready
    /\ link' = [link EXCEPT !.ready = TRUE]
    /\ UNCHANGED <<requests, owner, sinks, commits, admissions, around>>

FrameAck(r) ==
    /\ Receiving /\ requests[r].sent
    /\ IF Pending(r) /\ requests[r].kind # "spawn"
       THEN SetRequest(r, "ok") /\ UNCHANGED <<link, owner, sinks, commits, admissions>>
       ELSE FailConnection
    /\ UNCHANGED around

\* an error for a request that is over is shown to the sink of the process
FrameError(r) ==
    /\ Receiving /\ requests[r].sent /\ Pending(r)
    /\ SetRequest(r, "failed")
    /\ UNCHANGED <<link, owner, sinks, commits, admissions, around>>

FrameSpawned(r, p) ==
    /\ Receiving /\ requests[r].sent /\ requests[r].kind = "spawn"
    /\ IF Pending(r) /\ owner[p] = 0
       THEN /\ SetRequest(r, "ok") /\ owner' = [owner EXCEPT ![p] = r]
            /\ UNCHANGED <<link, sinks, commits, admissions>>
       ELSE FailConnection
    /\ UNCHANGED around

FrameExit(p) ==
    /\ Known(p)
    /\ sinks' = [sinks EXCEPT ![owner[p]] = Exited(@)]
    /\ UNCHANGED <<link, requests, owner, commits, admissions, around>>

\* the process is forgotten; commands that wait for an answer still do
FrameClose(p) ==
    /\ Known(p)
    /\ sinks' = [sinks EXCEPT ![owner[p]] = Ended(@)]
    /\ owner' = [owner EXCEPT ![p] = 0]
    /\ commits' = {h \in commits : h.pid # p}
    /\ admissions' = {h \in admissions : h.pid # p}
    /\ UNCHANGED <<link, requests, around>>

\* a filesystem, capability, exec or network request of a guest process
FrameRequest(kind, p) ==
    /\ Known(p) /\ asked < MaxAsked /\ asked' = asked + 1
    /\ handlers' = handlers \cup {[id |-> asked, kind |-> kind, pid |-> p]}
    /\ UNCHANGED <<lease, opening, configures, closing, connection>>

\* #receiveExecutionResult: what the guest made of an exec it was allowed
FrameExecResult(i, committed) ==
    LET answered == {h \in commits : h.id = i}
    IN  /\ Receiving /\ link.ready
        /\ IF answered = {} /\ committed THEN FailConnection
           ELSE commits' = commits \ answered /\ UNCHANGED <<link, requests, owner, sinks, admissions>>
        /\ UNCHANGED around

-----------------------------------------------------------------------------
(* A handler settles, at any later time.                                   *)

HandlerEnds(h) ==
    /\ handlers' = handlers \ {h}
    /\ UNCHANGED <<lease, opening, configures, closing, asked>>

\* the answer, if there is one, is written
HandlerAnswered(h) ==
    /\ h \in handlers /\ HandlerEnds(h)
    /\ UNCHANGED connection

\* the answer cannot be written, or a filesystem handler rejects; an exec
\* or a capability request of a process that has ended is not answered
HandlerBreaks(h) ==
    /\ h \in handlers /\ HandlerEnds(h)
    /\ h.kind \in {"exec", "capability"} => owner[h.pid] # 0
    /\ FailConnection

\* an exec is allowed: the commit is noted before the answer, even when the
\* process or the connection has ended meanwhile
ExecAllowed(h) ==
    /\ h \in handlers /\ h.kind = "exec" /\ HandlerEnds(h)
    /\ commits' = commits \cup {h}
    /\ UNCHANGED <<link, requests, owner, sinks, admissions>>

\* a network request is allowed, likewise; too many fail the connection
NetworkAllowed(h) ==
    /\ h \in handlers /\ h.kind = "network" /\ HandlerEnds(h)
    /\ IF Cardinality(admissions) >= MaxAdmissions THEN FailConnection
       ELSE /\ admissions' = admissions \cup {h}
            /\ UNCHANGED <<link, requests, owner, sinks, commits>>

-----------------------------------------------------------------------------
GuestKinds == {"filesystem", "capability", "exec", "network"}

Frames ==
    \/ FrameRefused \/ FrameReady
    \/ \E r \in RequestIds : FrameAck(r) \/ FrameError(r) \/ \E p \in Pids : FrameSpawned(r, p)
    \/ \E p \in Pids : \/ FrameExit(p) \/ FrameClose(p)
                       \/ \E kind \in GuestKinds : FrameRequest(kind, p)
    \/ \E i \in 0 .. MaxAsked - 1, committed \in BOOLEAN : FrameExecResult(i, committed)

Handled ==
    \E h \in handlers :
        HandlerAnswered(h) \/ HandlerBreaks(h) \/ ExecAllowed(h) \/ NetworkAllowed(h)

\* the environment is not used, or it is over
HolouvRest ==
    /\ opening \in {"none", "resolved", "rejected"}
    /\ UNCHANGED holouvVars

HolouvNext ==
    \/ Acquire \/ CloseRecord \/ CloseEnvironment \/ OpenStep
    \/ \E written \in BOOLEAN : ShutdownEnds(written)
    \/ ReadyTimesOut \/ ConfigurationTimesOut \/ TransportBreaks
    \/ \E r \in RequestIds : WriteFails(r)
    \/ \E sent \in BOOLEAN : SpawnRequest(sent) \/ Command(sent)
    \/ \E h \in admissions : AdmissionLeaves(h)
    \/ Frames \/ Handled
    \/ HolouvRest

(* The callbacks of the factory and the write of the shutdown settle and    *)
(* timers fire; the supervisor and the other writes may never answer.      *)
HolouvFairness ==
    /\ WF_holouvVars(OpenStep)
    /\ WF_holouvVars(ReadyTimesOut) /\ WF_holouvVars(ConfigurationTimesOut)
    /\ WF_holouvVars(CloseEnvironment)
    /\ WF_holouvVars(\E written \in BOOLEAN : ShutdownEnds(written))

HolouvSpec == HolouvInit /\ [][HolouvNext]_holouvVars /\ HolouvFairness

-----------------------------------------------------------------------------
(* However the connection ends, the host is not left waiting: no request   *)
(* is pending, the sink of every process that was spawned was told one     *)
(* exit and one close, and a transport that arrived, even after the end,   *)
(* is closed.  An open() that rejects leaves no connection.                *)
ConnectionEndsClean ==
    /\ \A r \in RequestIds : sinks[r].exits <= 1 /\ sinks[r].closes <= sinks[r].exits
    /\ opening = "rejected" => link.closed
    /\ link.closed =>
          /\ link.transport # "attached"
          /\ \A r \in RequestIds :
                /\ ~Pending(r)
                /\ requests[r].kind = "spawn" /\ requests[r].state = "ok" => sinks[r].closes = 1

(* open() settles although the supervisor never answers, and an environment *)
(* whose lease is released is closed, wherever its opening was, but for one *)
(* whose shutdown made transport.write throw.  (Neither an opening nor a   *)
(* release is ever taken back.)                                            *)
EnvironmentsSettle ==
    /\ []<>(opening # "none" => OpenSettled)
    /\ []<>(lease = "released" => OpenSettled /\ (link.closed \/ closing = "threw"))
=============================================================================
