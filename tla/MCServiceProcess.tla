---------------------------- MODULE MCServiceProcess ----------------------------
(* Scenarios of ServiceProcess for TLC. *)
EXTENDS ServiceProcess

Scenario(actions, faults, times) == [actions |-> actions, faults |-> faults, downs |-> times]

MCScenarios ==
    {Scenario(ActionKinds, {"launch", "stuck", "deaf"}, 1),
     Scenario({"stop", "restart", "remove"}, {"launch", "output"}, 0),
     Scenario({"stop", "remove"}, {"launch", "output"}, 1),
     Scenario({"restart", "remove"}, {"launch", "unreaped"}, 0)}

UnreapedScenarios == {Scenario({"stop"}, {"launch", "unreaped"}, 0)}
====
