---------------------------- MODULE ModuleLoader ----------------------------
(***************************************************************************)
(* HolonomyModuleLoader: plans, loads and resolutions run one after the    *)
(* other as transactions over seven caches, and read sources from a host.  *)
(* A transaction is a depth first walk of the module graph; its stack has  *)
(* one frame per asynchronous function that waits, and each step runs the  *)
(* top frame to its next await.  A transaction that throws takes back, key *)
(* by key, what it entered.  Between transactions the engine evaluates the *)
(* cached modules.                                                         *)
(*                                                                         *)
(* Every file has one package.json that may be its scope.  A source is a   *)
(* version of a file: versions 1 and 2 of a package.json say "commonjs"    *)
(* and "module", version 1 of another file has the dependencies in         *)
(* Imports, and other versions do not parse.                               *)
(***************************************************************************)
EXTENDS Naturals, Sequences, FiniteSets, Functions

CONSTANTS
    Files,         \* URLs of files, package.json files included
    Manifests,     \* the package.json files
    ScopeOf,       \* where the package of a file is looked for
    Synthetics,    \* syntheticNodeModules
    Imports,       \* what version 1 of a file depends on
    Scoped,        \* files whose format is the type of their package
    LoaderCalls,      \* public calls
    Answers(_, _), \* what the host may answer to a read of a URL for a purpose
    MaxLoads,      \* public calls in all
    MaxModules,    \* maxModules
    MaxSources,    \* maxTotalSourceBytesPerPlan, in sources
    MaxAliases     \* MAX_SOURCE_ALIASES

Specifiers == {"relative", "package"}
Dependencies ==
    [kind : {"import", "require", "resolve"}, spec : Specifiers, to : Files \cup Synthetics]
Requests == [op : {"plan", "resolve", "load"}, spec : Specifiers, to : Files \cup Synthetics]
\* a canonical URL is that of a file (canonicalizeHostSourceUrl)
HostSources == [kind : {"source"}, canonical : Files, version : Nat, restricted : BOOLEAN]

ASSUME LoaderAssumption ==
    /\ Manifests \subseteq Files /\ Scoped \subseteq Files \ Manifests
    /\ ScopeOf \in [Files \cup {"entry"} -> Manifests]
    /\ Files \cap Synthetics = {} /\ Imports \in [Files -> Seq(Dependencies)]
    /\ LoaderCalls \subseteq Requests
    /\ \A u \in Files, purpose \in {"module", "metadata"} :
           \A a \in Answers(u, purpose) : a.kind \in {"null", "bad"} \/ a \in HostSources
    /\ {MaxLoads, MaxModules, MaxSources, MaxAliases} \subseteq Nat

VARIABLES
    caches,      \* what outlives a transaction
    txn,         \* the active transaction
    evaluation,  \* evaluationCache
    called,      \* public calls so far
    begun,       \* the caches when the transaction began
    outcome      \* how the last transaction ended

loaderVars == <<caches, txn, evaluation, called, begun, outcome>>

NoKeys == [source |-> {}, alias |-> {}, grant |-> {}, module |-> {},
           negative |-> {}, package |-> {}, resolution |-> {}]
NoTransaction == [stack |-> <<>>, value |-> "none", keys |-> NoKeys, prior |-> <<>>,
         sources |-> {}, modules |-> {}]
Empty == [source |-> <<>>, alias |-> <<>>, grant |-> {}, module |-> <<>>,
          negative |-> {}, package |-> <<>>, resolution |-> <<>>]

LoaderInit ==
    /\ caches = Empty /\ begun = Empty /\ txn = NoTransaction
    /\ evaluation = <<>> /\ called = 0 /\ outcome = "none"

ActiveTransaction == txn.stack # <<>>
Parses(u, version) == version = 1 \/ (u \in Manifests /\ version = 2)

-----------------------------------------------------------------------------
(* The caches.  A state S is a pair of caches and transaction; every       *)
(* publish* notes the key it adds.                                         *)

Now == [c |-> caches, t |-> txn]
Has(f, k) == k \in DOMAIN f
Assigned(f, k, v) == [x \in DOMAIN f \cup {k} |-> IF x = k THEN v ELSE f[x]]
Overridden(f, g) == [x \in DOMAIN f \cup DOMAIN g |-> IF x \in DOMAIN g THEN g[x] ELSE f[x]]

Canonical(S, u) == IF Has(S.c.alias, u) THEN S.c.alias[u] ELSE u

\* a cache as it is after its keys were entered
Noted(noted, cache, keys) == [noted EXCEPT ![cache] = @ \cup keys]
Entered(S, cache, contents, keys) ==
    [c |-> [S.c EXCEPT ![cache] = contents],
     t |-> [S.t EXCEPT !.keys = Noted(S.t.keys, cache, keys)]]

PublishSource(S, k, v) ==
    IF Has(S.c.source, k) THEN S
    ELSE Entered(S, "source", Assigned(S.c.source, k, v), {k})

\* the value before the transaction is kept for the rollback
ReplaceSource(S, k, v) ==
    [S EXCEPT !.c.source = Assigned(@, k, v),
              !.t.prior = IF k \in S.t.keys.source \/ Has(S.t.prior, k) THEN @
                          ELSE Assigned(@, k, S.c.source[k])]

PublishModuleGrant(S, u, c) ==
    Entered(S, "grant", S.c.grant \cup {u, c}, {u, c} \ S.c.grant)

PublishAlias(S, u, c) ==
    IF u = c \/ Has(S.c.alias, u) THEN S
    ELSE Entered(S, "alias", Assigned(S.c.alias, u, c), {u})

AliasFits(S, u, c) ==
    u = c \/ Has(S.c.alias, u) \/ Cardinality(DOMAIN S.c.alias) < MaxAliases

PublishNegative(S, k) ==
    Entered(S, "negative", S.c.negative \cup {k}, {k} \ S.c.negative)

PublishPackage(S, k, v) ==
    IF Has(S.c.package, k) THEN S
    ELSE Entered(S, "package", Assigned(S.c.package, k, v), {k})

PublishResolution(S, k, u) ==
    IF Has(S.c.resolution, k) THEN S
    ELSE Entered(S, "resolution", Assigned(S.c.resolution, k, u), {k})

PublishModule(S, k, m) ==
    IF Has(S.c.module, k) THEN S
    ELSE Entered(S, "module", Assigned(S.c.module, k, m), {k})

Without(f, keys) == Restrict(f, DOMAIN f \ keys)

\* Mutant: sources that the transaction replaced are not put back
RollbackForgetsPrior(S) ==
    LET k == S.t.keys
    IN  [source |-> Without(S.c.source, k.source), alias |-> Without(S.c.alias, k.alias),
         grant |-> S.c.grant \ k.grant, module |-> Without(S.c.module, k.module),
         negative |-> S.c.negative \ k.negative, package |-> Without(S.c.package, k.package),
         resolution |-> Without(S.c.resolution, k.resolution)]

\* rollbackTransaction
Rollback(S) ==
    LET k == S.t.keys
    IN  [source |-> Overridden(Without(S.c.source, k.source), S.t.prior),
         alias |-> Without(S.c.alias, k.alias), grant |-> S.c.grant \ k.grant,
         module |-> Without(S.c.module, k.module), negative |-> S.c.negative \ k.negative,
         package |-> Without(S.c.package, k.package),
         resolution |-> Without(S.c.resolution, k.resolution)]

\* accountSource and accountModule: the budgets of one transaction
SourceFits(S, u) == Cardinality(S.t.sources \cup {u}) <= MaxSources
AccountSource(S, u) == [S EXCEPT !.t.sources = @ \cup {u}]
ModuleFits(S, u) == Cardinality(S.t.modules \cup {u}) <= MaxModules
AccountModule(S, u) == [S EXCEPT !.t.modules = @ \cup {u}]

-----------------------------------------------------------------------------
(* Steps of the transaction.                                               *)

Innermost == txn.stack[1]
Runs(pc) == ActiveTransaction /\ Innermost.at = pc

Goes(S) == /\ caches' = S.c /\ txn' = S.t
           /\ UNCHANGED <<evaluation, called, begun, outcome>>

\* the catch and the finally of runTransaction
Rejects(S) ==
    /\ caches' = Rollback(S) /\ txn' = NoTransaction /\ outcome' = "failed"
    /\ UNCHANGED <<evaluation, called, begun>>

\* the top frame waits as f for the frames g
Awaits(S, f, g) == [S EXCEPT !.t.stack = g \o <<f>> \o Tail(@)]

\* the top frame returns v
Returns(S, v) == [S EXCEPT !.t.stack = Tail(@), !.t.value = v]

Read(u, purpose) == [at |-> "read", url |-> u, purpose |-> purpose]
Resolve(spec, to, parent, mode) ==
    [at |-> "resolve", spec |-> spec, to |-> to, parent |-> parent, mode |-> mode]
Load(u) == [at |-> "load", url |-> u]
Scope(u) == [at |-> "scope", url |-> u]

\* a public call is admitted to the tail; its transaction begins when no
\* other is active
BeginTransaction(r) ==
    /\ ~ActiveTransaction /\ called < MaxLoads
    /\ called' = called + 1 /\ begun' = caches
    /\ txn' = [NoTransaction EXCEPT !.stack =
                 (IF r.op = "load" THEN <<Load(r.to)>>
                  ELSE <<Resolve(r.spec, r.to, "entry", "import")>>)
                 \o <<[at |-> "call", op |-> r.op]>>]
    /\ UNCHANGED <<caches, evaluation, outcome>>

\* createPlan goes on to load what it resolved; the end of the transaction
CallContinues ==
    /\ Runs("call")
    /\ IF Innermost.op = "plan"
       THEN Goes(Awaits(Now, [at |-> "call", op |-> "planned"], <<Load(txn.value)>>))
       ELSE /\ txn' = NoTransaction /\ outcome' = "done"
            /\ UNCHANGED <<caches, evaluation, called, begun>>

-----------------------------------------------------------------------------
(* readVerifiedSource.                                                     *)

SourceUsable(S, u, purpose) ==
    LET c == Canonical(S, u)
    IN  /\ Has(S.c.source, c)
        /\ purpose = "metadata" \/ (u \in S.c.grant /\ ~S.c.source[c].restricted)

ReadCached ==
    /\ Runs("read")
    /\ LET c == Canonical(Now, Innermost.url)
       IN  \/ /\ SourceUsable(Now, Innermost.url, Innermost.purpose)
              /\ IF SourceFits(Now, c) THEN Goes(Returns(AccountSource(Now, c), c))
                 ELSE Rejects(Now)
           \/ /\ ~Has(caches.source, c) /\ <<Innermost.purpose, Innermost.url>> \in caches.negative
              /\ Goes(Returns(Now, "null"))

\* Mutant: the canonical URL may itself be an alias
AnyIdentity(S, u, c) ==
    Has(S.c.source, Canonical(S, u)) => c = Canonical(S, u)

\* the canonical URL of a known source is fixed, and is not an alias
IdentityKept(S, u, c) ==
    /\ Has(S.c.source, Canonical(S, u)) => c = Canonical(S, u)
    /\ c # u => ~Has(S.c.alias, c)

\* a source that is known already has the same bytes, and changes its grants
Regranted(S, c, purpose, a) ==
    LET old == S.c.source[c]
        new == IF purpose = "module" THEN [old EXCEPT !.restricted = FALSE]
               ELSE [old EXCEPT !.restricted = @ \/ a.restricted]
    IN  IF new = old THEN S ELSE ReplaceSource(S, c, new)

\* the host answers a read: nothing, a failure of any kind, or a source
ReadHost(a) ==
    LET u == Innermost.url
        purpose == Innermost.purpose
        known == Has(caches.source, Canonical(Now, u))
        fits == AccountSource(Now, a.canonical)
        entered == IF Has(caches.source, a.canonical) THEN Regranted(fits, a.canonical, purpose, a)
                   ELSE PublishSource(fits, a.canonical,
                                      [version |-> a.version, restricted |-> a.restricted])
        granted == IF purpose = "module" THEN PublishModuleGrant(entered, u, a.canonical)
                   ELSE entered
    IN  /\ Runs("read") /\ ~SourceUsable(Now, u, purpose)
        /\ known \/ <<purpose, u>> \notin caches.negative
        /\ CASE a.kind = "null" -> IF known THEN Rejects(Now)
                                   ELSE Goes(Returns(PublishNegative(Now, <<purpose, u>>), "null"))
             [] a.kind = "bad" -> Rejects(Now)
             [] a.kind = "source" ->
                  IF /\ a.restricted => purpose = "metadata"
                     /\ IdentityKept(Now, u, a.canonical)
                     /\ SourceFits(Now, a.canonical)
                     /\ Has(caches.source, a.canonical) =>
                            a.version = caches.source[a.canonical].version
                  THEN IF AliasFits(granted, u, a.canonical)
                       THEN Goes(Returns(PublishAlias(granted, u, a.canonical), a.canonical))
                       ELSE Rejects(granted)
                  ELSE Rejects(Now)

-----------------------------------------------------------------------------
(* The package of a file: findPackageScope and readPackage.                *)

\* the manifest is cached under its own root and the one it was found at; one
\* that does not parse, or whose canonical URL is that of another kind of
\* file, is published as null before the throw
WithManifest(S, root, canonical, type) ==
    PublishPackage(PublishPackage(S, root, type), canonical, type)

ScopeRead ==
    \/ /\ Runs("scope")
       /\ Goes(Awaits(Now, [at |-> "scoped", root |-> ScopeOf[Innermost.url]],
                      <<Read(ScopeOf[Innermost.url], "metadata")>>))
    \/ /\ Runs("scoped")
       /\ LET u == txn.value
          IN  CASE u = "null" -> Goes(Returns(Now, "none"))
                [] u # "null" /\ Has(caches.package, Innermost.root) ->
                     Goes(Returns(Now, caches.package[Innermost.root]))
                [] OTHER ->
                     IF u \in Manifests /\ Parses(u, caches.source[u].version)
                     THEN LET type == <<"commonjs", "module">>[caches.source[u].version]
                          IN  Goes(Returns(WithManifest(Now, Innermost.root, u, type), type))
                     ELSE Rejects(PublishPackage(Now, Innermost.root, "null"))

-----------------------------------------------------------------------------
(* resolveInternal.                                                        *)

Key(f) == <<f.mode, f.parent, f.spec, f.to>>

\* canonicalizeResolvedModuleAlias: a known alias has to be granted to run
NeedsGrant(S, u) ==
    /\ Has(S.c.alias, u)
    /\ u \notin S.c.grant \/ S.c.source[Canonical(S, u)].restricted

ResolvesTo(S, f, u) == Returns(PublishResolution(S, Key(f), u), u)

ResolveStep ==
    \/ /\ Runs("resolve")
       /\ LET f == Innermost
              then(pc) == [f EXCEPT !.at = pc]
              u == caches.resolution[Key(f)]
          IN  CASE Has(caches.resolution, Key(f)) ->
                     Goes(IF NeedsGrant(Now, u)
                          THEN Awaits(Now, [f EXCEPT !.at = "aliased", !.to = u], <<Read(u, "module")>>)
                          ELSE Returns(Now, Canonical(Now, u)))
                [] ~Has(caches.resolution, Key(f)) /\ f.to \in Synthetics -> Goes(ResolvesTo(Now, f, f.to))
                [] OTHER -> Goes(Awaits(Now, then(f.spec),
                                   <<IF f.spec = "relative" THEN Read(f.to, "module") ELSE Scope(f.parent)>>))
    \* resolveExistingModuleUrl
    \/ /\ Runs("relative")
       /\ IF txn.value = "null" THEN Rejects(Now) ELSE Goes(ResolvesTo(Now, Innermost, txn.value))
    \* resolvePackageImport and resolvePackageEntry: the target is not read
    \/ /\ Runs("package")
       /\ CASE txn.value = "none" -> Rejects(Now)
            [] txn.value # "none" /\ NeedsGrant(Now, Innermost.to) ->
                 Goes(Awaits(Now, [Innermost EXCEPT !.at = "targeted"], <<Read(Innermost.to, "module")>>))
            [] OTHER -> Goes(ResolvesTo(Now, Innermost, Canonical(Now, Innermost.to)))
    \/ /\ Runs("targeted")
       /\ IF txn.value = "null" THEN Rejects(Now) ELSE Goes(ResolvesTo(Now, Innermost, Canonical(Now, Innermost.to)))
    \/ /\ Runs("aliased")
       /\ IF txn.value = "null" THEN Rejects(Now) ELSE Goes(Returns(Now, Canonical(Now, Innermost.to)))

-----------------------------------------------------------------------------
(* loadModule.                                                             *)

LoadStep ==
    \/ /\ Runs("load")
       /\ LET u == Canonical(Now, Innermost.url)
              S == AccountModule(Now, u)
          IN  CASE Has(caches.module, u) ->
                     IF ~ModuleFits(Now, u) THEN Rejects(Now)
                     ELSE IF u \notin Synthetics /\ (Innermost.url \notin caches.grant \/ caches.source[u].restricted)
                     THEN Goes(Awaits(S, [at |-> "regranted", url |-> u], <<Read(Innermost.url, "module")>>))
                     ELSE Goes(Returns(S, u))
                [] ~Has(caches.module, u) /\ u \in Synthetics ->
                     IF ~ModuleFits(Now, u) THEN Rejects(Now)
                     ELSE Goes(Returns(PublishModule(S, u,
                                 [version |-> 0, format |-> "synthetic", deps |-> <<>>]), u))
                [] OTHER -> Goes(Awaits(Now, [at |-> "source"], <<Read(Innermost.url, "module")>>))
    \/ /\ Runs("regranted")
       /\ IF txn.value = Innermost.url THEN Goes(Returns(Now, Innermost.url)) ELSE Rejects(Now)
    \/ /\ Runs("source")
       /\ LET u == txn.value
              S == AccountModule(Now, u)
          IN  CASE u = "null" -> Rejects(Now)
                [] u # "null" /\ ~ModuleFits(Now, u) -> Rejects(Now)
                [] u # "null" /\ ModuleFits(Now, u) /\ Has(caches.module, u) -> Goes(Returns(S, u))
                [] OTHER -> Goes(Awaits(S, [at |-> "analyse", url |-> u], <<[at |-> "format", url |-> u]>>))

\* moduleFormat: by the extension, or by the package
FormatStep ==
    /\ Runs("format")
    /\ Goes(IF Innermost.url \in Scoped THEN Awaits(Now, [at |-> "formatted"], <<Scope(Innermost.url)>>)
            ELSE Returns(Now, IF Innermost.url \in Manifests THEN "json" ELSE "module"))

FormatReturns ==
    /\ Runs("formatted")
    /\ Goes(Returns(Now, IF txn.value = "module" THEN "module" ELSE "commonjs"))

Deps(u, i, at) == [at |-> at, url |-> u, i |-> i]

\* the module is in the cache before its dependencies are, for cycles
Analyse ==
    /\ Runs("analyse")
    /\ LET u == Innermost.url
           m == [version |-> caches.source[u].version, format |-> txn.value, deps |-> <<>>]
       IN  IF Parses(u, caches.source[u].version)
           THEN Goes(Awaits(PublishModule(Now, u, m), Deps(u, 1, "deps"), <<>>))
           ELSE Rejects(Now)

WithDependency(S, u, kind, to) ==
    [S EXCEPT !.c.module[u].deps = Append(@, [kind |-> kind, to |-> to])]

\* the loop over the dependencies
DependencyStep ==
    LET u == Innermost.url
        d == Imports[u][Innermost.i]
        v == txn.value
        next == Deps(u, Innermost.i + 1, "deps")
        mode == IF d.kind = "import" THEN "import" ELSE "require"
    IN  \/ /\ Runs("deps") /\ Innermost.i > Len(Imports[u]) /\ Goes(Returns(Now, u))
        \/ /\ Runs("deps") /\ Innermost.i <= Len(Imports[u])
           /\ Goes(Awaits(Now, Deps(u, Innermost.i, "target"), <<Resolve(d.spec, d.to, u, mode)>>))
        \/ /\ Runs("target")
           /\ Goes(CASE d.kind # "resolve" -> Awaits(Now, Deps(u, Innermost.i, "loaded"), <<Load(v)>>)
                     [] d.kind = "resolve" /\ v \in Synthetics ->
                          Awaits(WithDependency(Now, u, d.kind, v), next, <<>>)
                     [] OTHER -> Awaits(Now, [at |-> "typed", url |-> u, i |-> Innermost.i, to |-> v],
                                        <<[at |-> "format", url |-> v]>>))
        \/ /\ Runs("loaded")
           /\ IF d.kind = "require" /\ caches.module[v].format = "module" THEN Rejects(Now)
              ELSE Goes(Awaits(WithDependency(Now, u, d.kind, v), next, <<>>))
        \/ /\ Runs("typed")
           /\ Goes(Awaits(WithDependency(Now, u, d.kind, Innermost.to), next, <<>>))

-----------------------------------------------------------------------------
(* Evaluation by the engine.                                               *)

\* canonicalizeCachedModuleUrl and cachedModule
MayAccess(u) ==
    LET c == Canonical(Now, u)
    IN  /\ Has(caches.source, c) => u \in caches.grant /\ ~caches.source[c].restricted
        /\ Has(caches.module, c)

Evaluated(u, state) ==
    /\ evaluation' = Assigned(evaluation, Canonical(Now, u), state)
    /\ UNCHANGED <<caches, txn, called, begun, outcome>>

BeginEvaluation(u) ==
    /\ ~ActiveTransaction
    /\ MayAccess(u) /\ ~Has(evaluation, Canonical(Now, u))
    /\ Evaluated(u, "evaluating")

CompleteEvaluation(u) ==
    /\ ~ActiveTransaction
    /\ MayAccess(u)
    /\ Evaluated(u, "evaluated")

\* failEvaluation, or delete of require.cache
DropEvaluation(u) ==
    /\ ~ActiveTransaction
    /\ MayAccess(u) /\ Has(evaluation, Canonical(Now, u))
    /\ evaluation' = Without(evaluation, {Canonical(Now, u)})
    /\ UNCHANGED <<caches, txn, called, begun, outcome>>

LoaderRest == ~ActiveTransaction /\ UNCHANGED loaderVars

LoaderNext ==
    \/ \E r \in LoaderCalls : BeginTransaction(r)
    \/ CallContinues \/ ReadCached \/ ScopeRead \/ ResolveStep \/ LoadStep
    \/ Runs("read") /\ \E a \in Answers(Innermost.url, Innermost.purpose) : ReadHost(a)
    \/ FormatStep \/ FormatReturns \/ Analyse \/ DependencyStep
    \/ \E u \in Files \cup Synthetics :
          BeginEvaluation(u) \/ CompleteEvaluation(u) \/ DropEvaluation(u)
    \/ LoaderRest

LoaderSpec == LoaderInit /\ [][LoaderNext]_loaderVars

-----------------------------------------------------------------------------
(* Atomicity: a transaction that failed, wherever in the graph and for     *)
(* whatever reason, leaves every cache as it found it.                     *)
FailedLeavesNoTrace ==
    ~ActiveTransaction /\ outcome = "failed" => caches = begun

(* Between transactions the caches agree: a cached module was granted to   *)
(* run, is the version whose bytes are cached, and all its dependencies    *)
(* are linked and cached, through cycles and aliases too; an alias stands  *)
(* for a source and never for another alias.  What is being evaluated is   *)
(* always a cached module, so no rollback pulls it away.                   *)
CachesAgree ==
    LET Loaded == DOMAIN caches.module
    IN  /\ DOMAIN evaluation \subseteq Loaded
        /\ ~ActiveTransaction =>
             /\ \A u \in Loaded \ Synthetics :
                  /\ Has(caches.source, u) /\ u \in caches.grant
                  /\ caches.module[u].version = caches.source[u].version
                  /\ Len(caches.module[u].deps) = Len(Imports[u])
                  /\ \A i \in DOMAIN caches.module[u].deps :
                        LET d == caches.module[u].deps[i] IN d.kind # "resolve" => d.to \in Loaded
             /\ \A u \in DOMAIN caches.alias :
                  Has(caches.source, caches.alias[u]) /\ ~Has(caches.alias, caches.alias[u])

(* A load is all or nothing: a failed one leaves no trace and the caches   *)
(* that a successful one leaves agree (runTransaction).                    *)
LoadsAreWhole == FailedLeavesNoTrace /\ CachesAgree
=============================================================================
