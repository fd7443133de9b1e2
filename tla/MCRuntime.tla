------------------------------- MODULE MCRuntime -------------------------------
(***************************************************************************)
(* Components of the runtime that promise safety, for TLC: the calls of    *)
(* the native bridge, with interchangeable request ids; the engine gates   *)
(* and the observers of the kernel; the module loader; the plugin app.     *)
(* They share no state, so a behaviour is one of one component while the   *)
(* others keep their initial state.                                        *)
(***************************************************************************)
EXTENDS TLC, NativeBridge, EngineGate, RuntimeObservers, ModuleLoader, PluginApp

VARIABLE component

runtimeVars == <<vars, gateVars, observerVars, loaderVars, pluginVars, component>>

Symmetry == Permutations(Ids)

-----------------------------------------------------------------------------
(* The loader: modules "a" and "b" import each other, "b" imports the      *)
(* package.json "p" as JSON, "a" requires "c" through the package, and "c",*)
(* whose own package.json is "q", requires the synthetic module "s".  The  *)
(* host may answer with another file, another version, bytes for metadata  *)
(* only, nothing, or fail.                                                 *)

Dependency(kind, spec, to) == [kind |-> kind, spec |-> spec, to |-> to]

MCImports ==
    [f \in Files |->
        CASE f = "a" -> <<Dependency("import", "relative", "b"), Dependency("require", "package", "c")>>
          [] f = "b" -> <<Dependency("import", "relative", "a"), Dependency("import", "relative", "p")>>
          [] f = "c" -> <<Dependency("resolve", "relative", "b"), Dependency("require", "relative", "s")>>
          [] f \in Manifests -> <<>>]

MCScopeOf == [f \in Files \cup {"entry"} |-> IF f = "c" THEN "q" ELSE "p"]

Source(canonical, version, restricted) ==
    [kind |-> "source", canonical |-> canonical, version |-> version, restricted |-> restricted]
Nothing == [Source("a", 0, FALSE) EXCEPT !.kind = "null"]
Bad == [Nothing EXCEPT !.kind = "bad"]

MCAnswers(u, purpose) ==
    CASE u = "a" -> {Source(c, 1, FALSE) : c \in {"a", "c", "q"}}
      [] u = "b" -> {Source(c, 1, FALSE) : c \in {"b", "c"}}
      [] u = "c" -> {Source("c", 1, FALSE), Source("c", 2, FALSE), Bad}
      [] u = "p" /\ purpose = "module" -> {Source("p", 1, FALSE), Nothing}
      [] u = "p" /\ purpose = "metadata" -> {Source("p", 1, TRUE), Source("p", 3, FALSE), Nothing}
      [] u = "q" /\ purpose = "module" -> {Source(c, 1, FALSE) : c \in {"p", "q"}}
      [] u = "q" /\ purpose = "metadata" -> {Source("q", 2, FALSE), Source("p", 1, TRUE)}

MCLoaderCalls ==
    {[op |-> "plan", spec |-> "relative", to |-> "a"],
     [op |-> "resolve", spec |-> "package", to |-> "q"],
     [op |-> "load", spec |-> "relative", to |-> "c"],
     [op |-> "load", spec |-> "relative", to |-> "q"]}

-----------------------------------------------------------------------------
(* The plugin app: two plugins, one of them in two versions.               *)

MCDefinitions ==
    {[id |-> "x", key |-> 1], [id |-> "x", key |-> 2], [id |-> "y", key |-> 1]}

-----------------------------------------------------------------------------
MCInit ==
    /\ component \in {"bridge", "gate", "observer", "loader", "plugins"}
    /\ Init /\ GateInit /\ ObserverInit /\ LoaderInit /\ PluginInit

BridgeRests == UNCHANGED vars
KernelRests == UNCHANGED <<gateVars, observerVars>>
ModulesRest == UNCHANGED <<loaderVars, pluginVars>>

\* The calls of the guest may come to an end.
MCNext ==
    /\ UNCHANGED component
    /\ \/ component = "bridge" /\ (Next \/ BridgeRests) /\ KernelRests /\ ModulesRest
       \/ /\ component = "gate" /\ GateMove /\ UNCHANGED observerVars
          /\ BridgeRests /\ ModulesRest
       \/ /\ component = "observer" /\ ObserverNext /\ UNCHANGED gateVars
          /\ BridgeRests /\ ModulesRest
       \/ /\ component = "loader" /\ LoaderNext /\ UNCHANGED pluginVars
          /\ BridgeRests /\ KernelRests
       \/ /\ component = "plugins" /\ PluginNext /\ UNCHANGED loaderVars
          /\ BridgeRests /\ KernelRests

MCSpec == MCInit /\ [][MCNext]_runtimeVars
===============================================================================
