-------------------------------- MODULE MCHost --------------------------------
(***************************************************************************)
(* The components that promise what needs fairness, for TLC: the process   *)
(* control and the mutation history of the Service; the capability broker; *)
(* a HoloUV environment; a readable and a writable of the runtime, each    *)
(* alone; a transform stream, which has a readable and a writable of its   *)
(* own, with room in its readable or none; the wakeups of the Node host.   *)
(* They share no state, so a behaviour is one of one component while the   *)
(* others keep their initial state.                                        *)
(***************************************************************************)
EXTENDS TLC, MCServiceProcess, MutationCoordinator, CapabilityBroker, HolouvSupervisor,
        TransformStream, NodeWakeup

CONSTANTS i1, i2, a   \* two invocations and a binding

VARIABLES component, loneReadable, loneWritable

streamVars == <<transformVars, loneReadable, loneWritable>>
hostVars ==
    <<vars, mutationVars, brokerVars, holouvVars, streamVars, wakeupVars, component>>

-----------------------------------------------------------------------------
(* The broker: collisions of bindings, closes racing closes and releases,  *)
(* shared handles, the storage limit, nested middleware with a timeout and  *)
(* without, providers with a plan and without, shutdown and graph changes. *)

Calls(kind1, kind2, mode1, mode2, planned, chain, timed, events) ==
    [kind    |-> (i1 :> kind1 @@ i2 :> kind2),
     mode    |-> (i1 :> mode1 @@ i2 :> mode2),
     planned |-> [i \in Invocations |-> i \in planned],
     chain   |-> [r \in Revisions |-> IF r = 0 THEN chain ELSE 0],
     timed   |-> timed,
     events  |-> events]

MCCallScenarios ==
    {Calls("open", "open", "async", "sync", {i1}, 1, {0}, {"cancel", "release", "graph"}),
     Calls("open", "close", "sync", "async", {}, 1, {0}, {"close", "release"}),
     Calls("open", "close", "async", "async", {i2}, 0, {}, {"close"}),
     Calls("open", "share", "sync", "async", {}, 1, {}, {"release"}),
     Calls("storage", "storage", "async", "async", {i1}, 1, {0}, {"graph"}),
     Calls("open", "open", "async", "syncLate", {}, 1, {}, {"close", "graph"}),
     Calls("open", "storage", "async", "sync", {}, 2, {1}, {"graph", "cancel"})}

MCGrants == {<<a>>}

-----------------------------------------------------------------------------
(* Alone, the streams have more room and chunks of several sizes.          *)

AloneR == INSTANCE WebReadable WITH
    readable <- loneReadable,
    ReadableHighWaterMark <- 2,
    ReadableSizes <- {0, 1, 3},
    MaxChunks <- 4,
    MaxReads <- 4

AloneW == INSTANCE WebWritable WITH
    writable <- loneWritable,
    WritableHighWaterMark <- 2,
    WritableSizes <- {0, 1, 2},
    MaxWrites <- 4

(* The transform whose readable has no room: a write waits for a read.     *)
Rendezvous == INSTANCE TransformStream WITH
    ReadableHighWaterMark <- 0,
    ReadableSizes <- {1},
    MaxReads <- 2,
    Emits <- {1}

-----------------------------------------------------------------------------
\* a component that does not run has one initial state
MCInit ==
    /\ component \in {"process", "mutations", "broker", "holouv",
                      "readable", "writable", "transform", "rendezvous", "wakeup"}
    /\ Init /\ MutationInit /\ BrokerInit /\ HolouvInit
    /\ TransformInit /\ AloneR!ReadableInit /\ AloneW!WritableInit /\ WakeupInit
    /\ component # "process" => scenario = CHOOSE s \in Scenarios : TRUE
    /\ component # "broker" => plan = CHOOSE p \in CallScenarios : TRUE
    /\ component # "holouv" => configures = CHOOSE c \in Configures : TRUE

ServiceRests == UNCHANGED <<vars, mutationVars>>
BrokerRests == UNCHANGED brokerVars
HolouvRests == UNCHANGED holouvVars
StreamsRest == UNCHANGED streamVars
WakeupRests == UNCHANGED wakeupVars

ServiceMoves ==
    /\ \/ component = "process" /\ Next /\ UNCHANGED mutationVars
       \/ component = "mutations" /\ MutationNext /\ UNCHANGED vars
    /\ BrokerRests /\ HolouvRests /\ StreamsRest /\ WakeupRests

BrokerMoves ==
    /\ component = "broker" /\ BrokerNext
    /\ ServiceRests /\ HolouvRests /\ StreamsRest /\ WakeupRests

HolouvMoves ==
    /\ component = "holouv" /\ HolouvNext
    /\ ServiceRests /\ BrokerRests /\ StreamsRest /\ WakeupRests

StreamsMove ==
    /\ \/ component = "readable" /\ AloneR!ReadableNext
          /\ UNCHANGED <<transformVars, loneWritable>>
       \/ component = "writable" /\ AloneW!WritableNext
          /\ UNCHANGED <<transformVars, loneReadable>>
       \/ component = "transform" /\ TransformNext
          /\ UNCHANGED <<loneReadable, loneWritable>>
       \/ component = "rendezvous" /\ Rendezvous!TransformNext
          /\ UNCHANGED <<loneReadable, loneWritable>>
    /\ ServiceRests /\ BrokerRests /\ HolouvRests /\ WakeupRests

WakeupMoves ==
    /\ component = "wakeup" /\ WakeupNext
    /\ ServiceRests /\ BrokerRests /\ HolouvRests /\ StreamsRest

\* Streams and wakeups may come to an end.
ComesToAnEnd ==
    /\ component \in {"readable", "writable", "transform", "rendezvous", "wakeup"}
    /\ ServiceRests /\ BrokerRests /\ HolouvRests /\ StreamsRest /\ WakeupRests

MCNext ==
    /\ UNCHANGED component
    /\ ServiceMoves \/ BrokerMoves \/ HolouvMoves \/ StreamsMove \/ WakeupMoves \/ ComesToAnEnd

(* The fairness of each component (Fairness, BrokerFairness,               *)
(* HolouvFairness, WritableFairness and those of TransformSpec and         *)
(* WakeupSpec), asked only where that component runs: elsewhere its        *)
(* actions cannot happen, and TLC need not look for them.                  *)

ProcessFairness ==
    /\ WF_vars(component = "process" /\ JobStep)
    /\ WF_vars(component = "process" /\ RemovalStep)
    /\ WF_vars(component = "process" /\ (StopRefused \/ AdmitStop))
    /\ WF_vars(component = "process" /\ CloseEnds)
    /\ WF_vars(component = "process" /\ Open)
    /\ WF_vars(component = "process" /\ Reconcile)

InvocationFairness ==
    \A i \in Invocations :
        /\ WF_brokerVars(component = "broker" /\ Microtask(i))
        /\ WF_brokerVars(component = "broker" /\ Timer(i))

EnvironmentFairness ==
    /\ WF_holouvVars(component = "holouv" /\ OpenStep)
    /\ WF_holouvVars(component = "holouv" /\ ReadyTimesOut)
    /\ WF_holouvVars(component = "holouv" /\ ConfigurationTimesOut)
    /\ WF_holouvVars(component = "holouv" /\ CloseEnvironment)
    /\ WF_holouvVars(component = "holouv" /\ \E written \in BOOLEAN : ShutdownEnds(written))

StreamFairness ==
    /\ WF_loneWritable(component = "writable" /\ \E ok \in BOOLEAN : AloneW!SinkStarts(ok))
    /\ WF_loneWritable(component = "writable" /\ AloneW!AdvanceResumes)
    /\ WF_loneWritable(component = "writable" /\ \E ok \in BOOLEAN : AloneW!SinkSettles(ok))
    /\ WF_loneWritable(component = "writable" /\ \E ok \in BOOLEAN : AloneW!SinkAbortSettles(ok))
    /\ WF_transformVars(component = "transform" /\ Reactions)
    /\ WF_transformVars(component = "rendezvous" /\ Rendezvous!Reactions)

NodeFairness ==
    /\ WF_wakeupVars(component = "wakeup" /\ FireTick)
    /\ WF_wakeupVars(component = "wakeup" /\ FireCheck)
    /\ WF_wakeupVars(component = "wakeup" /\ FireTimer)
    /\ WF_wakeupVars(component = "wakeup" /\ Clock)

MCSpec ==
    /\ MCInit /\ [][MCNext]_hostVars
    /\ ProcessFairness /\ InvocationFairness /\ EnvironmentFairness
    /\ StreamFairness /\ NodeFairness

(* Alone, with more room and chunks of several sizes, the streams do what  *)
(* they do with a transformer (advanceQueue, controllerEnqueue).           *)
StreamsAlone == AloneW!WritableAgrees /\ AloneR!ReadableDelivers

(* With room in the readable and without, the transformer is called only   *)
(* when its output is wanted (waitForCapacity, signalCapacity).            *)
TransformsOnDemand ==
    [][/\ component = "transform" => CalledOnDemand
       /\ component = "rendezvous" => Rendezvous!CalledOnDemand]_hostVars

(* No stream gets stuck: a transform moves, and every request to a writable*)
(* alone is answered when its sink settles its promises (advanceQueue,     *)
(* signalCapacity).                                                        *)
StreamsGoOn == TransformMoves /\ AloneW!RequestsSettle
===============================================================================
