----------------------------- MODULE PluginApp -----------------------------
(***************************************************************************)
(* HolonomyRuntimePluginAppV1: the plugin graph of a runtime is replaced   *)
(* as a whole.  New instances are installed one after the other, each over *)
(* two awaits; the graph is published; and the instances it leaves out are *)
(* disposed of when the calls that hold a lease on the graph before it     *)
(* have ended.  close() may come at any await.  The host makes one         *)
(* replacement at a time.                                                  *)
(***************************************************************************)
EXTENDS Naturals, FiniteSets

CONSTANTS
    Definitions,   \* plugin definitions: an instanceId and the key of the rest
    MaxInstances,  \* instances in all
    MaxReplaces,   \* graphs in all
    MaxLeases      \* calls that hold a lease on one graph

ASSUME PluginAssumption ==
    /\ Definitions \subseteq [id : STRING \ {"none"}, key : Nat] /\ IsFiniteSet(Definitions)
    /\ MaxInstances \in Nat /\ MaxReplaces \in Nat /\ MaxLeases \in Nat

VARIABLES
    app,       \* closed, #revision and #instances
    replace,   \* where replace() is
    plugins,   \* every instance: its definition, and how often it was disposed of
    graphs,    \* the instances of each graph that was published
    runningOn     \* external: calls that run on a graph

pluginVars == <<app, replace, plugins, graphs, runningOn>>

PluginIds == 1 .. MaxInstances
GraphRevisions == 0 .. MaxReplaces
NotInstalled == [definition |-> [id |-> "none", key |-> 0], disposed |-> 0]
NoReplace == [at |-> "idle", target |-> {}, todo |-> {}, staged |-> {}, retired |-> {}, from |-> 0]

PluginInit ==
    /\ app = [closed |-> FALSE, revision |-> 0, instances |-> {}]
    /\ replace = NoReplace
    /\ plugins = [n \in PluginIds |-> NotInstalled]
    /\ graphs = [r \in GraphRevisions |-> {}]
    /\ runningOn = [r \in GraphRevisions |-> 0]

DefinitionsOf(instances) == {plugins[n].definition : n \in instances}

\* one instance per instanceId
Graphs == {D \in SUBSET Definitions : \A d, e \in D : d.id = e.id => d = e}

Dispose(instances) ==
    [n \in PluginIds |-> IF n \in instances THEN [plugins[n] EXCEPT !.disposed = @ + 1]
                         ELSE plugins[n]]

-----------------------------------------------------------------------------
\* replace(): a graph that differs at most in its order stages nothing
ReplaceBegins(target, reordered) ==
    /\ ~app.closed /\ replace.at = "idle" /\ app.revision < MaxReplaces
    /\ target # DefinitionsOf(app.instances) \/ reordered
    /\ replace' = [NoReplace EXCEPT !.at = "stage", !.target = target,
                                    !.todo = target \ DefinitionsOf(app.instances)]
    /\ UNCHANGED <<app, plugins, graphs, runningOn>>

\* importModule of the next definition
Import ==
    /\ replace.at = "stage" /\ replace.todo # {} /\ replace' = [replace EXCEPT !.at = "import"]
    /\ UNCHANGED <<app, plugins, graphs, runningOn>>

\* the catch around the installs: what was staged is disposed of
ReplaceFails(more) ==
    /\ plugins' = Dispose(replace.staged \cup more) /\ replace' = NoReplace
    /\ UNCHANGED <<app, graphs, runningOn>>

\* the module is there: the fiber of the plugin begins
Install(d) ==
    LET free == {n \in PluginIds : plugins[n] = NotInstalled}
        n == CHOOSE n \in free : \A k \in free : n <= k
    IN  /\ replace.at = "import" /\ ~app.closed /\ d \in replace.todo /\ free # {}
        /\ plugins' = [plugins EXCEPT ![n].definition = d]
        /\ replace' = [replace EXCEPT !.at = "fiber", !.todo = @ \ {d}, !.from = n]
        /\ UNCHANGED <<app, graphs, runningOn>>

\* the import fails, its export is no plugin, or close() came first
ImportFails ==
    /\ replace.at = "import" \/ (replace.at = "stage" /\ app.closed)
    /\ ReplaceFails({})

Installed ==
    /\ replace.at = "fiber" /\ ~app.closed
    /\ replace' = [replace EXCEPT !.at = "stage", !.staged = @ \cup {replace.from}]
    /\ UNCHANGED <<app, plugins, graphs, runningOn>>

\* the fiber fails, or close() came first: its disposers run
InstallFails == replace.at = "fiber" /\ ReplaceFails({replace.from})

Retired(next) == app.instances \ next

\* no await since the last look at #closed
PublishReplacement ==
    LET kept == {n \in app.instances : plugins[n].definition \in replace.target}
        next == kept \cup replace.staged
    IN  /\ replace.at = "stage" /\ replace.todo = {} /\ ~app.closed
        /\ app' = [app EXCEPT !.revision = @ + 1, !.instances = next]
        /\ graphs' = [graphs EXCEPT ![app.revision + 1] = next]
        /\ replace' = [NoReplace EXCEPT !.at = "drain", !.retired = Retired(next), !.from = app.revision]
        /\ UNCHANGED <<plugins, runningOn>>

\* the publish of the host throws
PublishFails ==
    /\ replace.at = "stage" /\ replace.todo = {} /\ ~app.closed
    /\ ReplaceFails({})

\* Mutant: disposes of the retired instances without waiting for the drain
DrainedAtOnce ==
    /\ replace.at = "drain"
    /\ plugins' = Dispose(replace.retired) /\ replace' = NoReplace
    /\ UNCHANGED <<app, graphs, runningOn>>

\* drain(previousRevision) resolves when that graph has no lease
Drained ==
    /\ replace.at = "drain" /\ runningOn[replace.from] = 0
    /\ plugins' = Dispose(replace.retired) /\ replace' = NoReplace
    /\ UNCHANGED <<app, graphs, runningOn>>

CloseApp ==
    /\ ~app.closed
    /\ app' = [app EXCEPT !.closed = TRUE, !.instances = {}]
    /\ plugins' = Dispose(app.instances)
    /\ UNCHANGED <<replace, graphs, runningOn>>

\* a call runs on the graph that is published when it begins
TakeLease ==
    /\ runningOn[app.revision] < MaxLeases
    /\ runningOn' = [runningOn EXCEPT ![app.revision] = @ + 1]
    /\ UNCHANGED <<app, replace, plugins, graphs>>

ReturnLease(r) ==
    /\ runningOn[r] > 0 /\ runningOn' = [runningOn EXCEPT ![r] = @ - 1]
    /\ UNCHANGED <<app, replace, plugins, graphs>>

PluginRest == replace.at = "idle" /\ UNCHANGED pluginVars

PluginNext ==
    \/ \E target \in Graphs, reordered \in BOOLEAN : ReplaceBegins(target, reordered)
    \/ \E d \in Definitions : Install(d)
    \/ Import \/ ImportFails \/ Installed \/ InstallFails
    \/ PublishReplacement \/ PublishFails \/ Drained \/ CloseApp
    \/ TakeLease \/ \E r \in GraphRevisions : ReturnLease(r)
    \/ PluginRest

PluginSpec == PluginInit /\ [][PluginNext]_pluginVars

-----------------------------------------------------------------------------
(* Plugins outlive their use and nothing more: unless the app is closed, no*)
(* instance of a graph that a call still runs on is disposed of, however   *)
(* many graphs shared it; no instance is disposed of twice, by a           *)
(* replacement and a close() that cross; and when no replacement is under  *)
(* way exactly the instances of the current graph are alive.               *)
PluginsOutliveUse ==
    LET Alive == {n \in PluginIds : plugins[n] # NotInstalled /\ plugins[n].disposed = 0}
    IN  /\ \A n \in PluginIds : plugins[n].disposed <= 1
        /\ replace.at = "idle" => Alive = app.instances
        /\ ~app.closed => \A r \in GraphRevisions : runningOn[r] > 0 => graphs[r] \subseteq Alive
=============================================================================
