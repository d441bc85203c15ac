------------------------------- MODULE Loader -------------------------------
(***************************************************************************)
(* The load of a catalog, one family after the other (definitions/loader.py*)
(* _CatalogBuilder.build), and what the runtime resolves in a catalog that *)
(* was accepted (search/engine.py resolve_search, definitions/loader.py    *)
(* DefinitionCatalog, artifacts.py, derive/basis.py).                      *)
(*                                                                         *)
(* A definition is checked against the families that are loaded before it. *)
(* What a deployment binds its collections to is known only after most of  *)
(* them, so that views are checked a second time; and the runtime checks a *)
(* search once more, by code of its own.                                   *)
(***************************************************************************)
EXTENDS PackageDefinitions

CONSTANTS
    Sources,        \* the sources that are loaded
    Deployments(_)  \* what a deployment may make of a source

VARIABLES
    source,    \* a source as it is deployed, which does not change
    stage,     \* the family that is loaded next
    bindings,  \* the search profile that each collection is bound to
    verdict    \* "loading", or how the load ended

loaderVars == <<source, stage, bindings, verdict>>

Stages == {"models", "processors", "rank", "profiles", "collections", "derivations", "triggers",
           "views", "artifacts", "computers", "programs", "policies", "toolsets", "agents", "tasks",
           "mcps", "packages", "overrides", "graph", "freeze"}

LoaderTypes ==
    /\ stage \in Stages
    /\ verdict \in {"loading", "accepted", "refused", "crashed"}
    /\ DOMAIN bindings \subseteq Names(WithLessons(source).collections)

LoaderBegins == stage = "models" /\ bindings = <<>> /\ verdict = "loading"

LoaderInit ==
    /\ \E s \in Sources : source \in Deployments(s)
    /\ LoaderBegins

\* The families with what the loader adds to them.
Loaded == WithLessons(source)

\* One family: it is accepted and the next one follows, or a DefinitionError
\* ends the load; an exception of another kind does so, too.
Family(this, next, ok, fails) ==
    /\ verdict = "loading" /\ stage = this
    /\ \/ ok /\ ~fails /\ stage' = next /\ UNCHANGED verdict
       \/ ~ok /\ verdict' = "refused" /\ UNCHANGED stage
       \/ fails /\ verdict' = "crashed" /\ UNCHANGED stage
    /\ UNCHANGED source

Simple(this, next, ok) == Family(this, next, ok, FALSE) /\ UNCHANGED bindings

LoadModels == Simple("models", "processors", ModelsOk(source))
LoadProcessors == Simple("processors", "rank", ProcessorsOk(source))
LoadRank == Simple("rank", "profiles", RankDefaultsOk(source))
LoadSearchProfiles == Simple("profiles", "collections", ProfilesOk(source))
LoadCollections == Simple("collections", "derivations", CollectionsOk(source))
LoadDerivations == Simple("derivations", "triggers", DerivationsOk(Loaded, bindings))
LoadTriggers == Simple("triggers", "views", TriggersOk(Loaded))
LoadViews == Simple("views", "artifacts", ViewsOk(Loaded, bindings))
LoadArtifacts == Simple("artifacts", "computers", ArtifactsOk(Loaded))
LoadComputers == Simple("computers", "programs", ComputersOk(Loaded))
LoadPrograms == Simple("programs", "policies", ProgramsOk(Loaded))
LoadContextPolicies == Simple("policies", "toolsets", PoliciesOk(Loaded))
LoadToolsets == Simple("toolsets", "agents", ToolsetsOk(Loaded))
LoadAgents == Simple("agents", "tasks", AgentsOk(Loaded))
ValidateTasks == Simple("tasks", "mcps", TaskReferencesOk(Loaded))
LoadMcps == Simple("mcps", "packages", McpsOk(Loaded))
LoadPackages ==
    /\ Family("packages", "overrides", PackagesOk(Loaded), PackagesFail(Loaded))
    /\ UNCHANGED bindings

(***************************************************************************)
(* Deployment bindings (_load_overrides).  A collection that has no active *)
(* version ends the load with a KeyError, before it is reported as such.   *)
(***************************************************************************)
Selected(s, name) ==
    IF name \in DOMAIN s.overrides THEN s.overrides[name]
    ELSE Only(ActiveOf(s.collections, name)).profile

OverridesFail(s) == \E col \in s.collections : ActiveOf(s.collections, col.name) = {}

OverridesOk(s) ==
    /\ \A name \in {n \in Names(s.collections) : ActiveOf(s.collections, n) # {}} :
        /\ \A col \in Named(s.collections, name) : Selected(s, name) \in AllProfiles(col)
        /\ \E p \in Named(s.profiles, Selected(s, name)) : Usable(s, p)
    /\ DOMAIN s.overrides \subseteq Names(s.collections)

LoadOverrides ==
    /\ Family("overrides", "graph", OverridesOk(Loaded), OverridesFail(Loaded))
    /\ bindings' = IF stage' = "graph"
                   THEN [name \in Names(Loaded.collections) |-> Selected(Loaded, name)]
                   ELSE bindings

(***************************************************************************)
(* What can be checked only of the whole (_validate_global_graph).         *)
(***************************************************************************)
\* An annotation that is required must come to every record of a collection.
BindingsOk(s, col) ==
    \A p \in s.processors : p.name \in col.required \cup col.optional =>
        /\ col.name \in p.inputs
        /\ p.name \in col.required =>
            ~p.typed /\ (p.kind = "json" => "default_output" \in p.sets)

ProcessorModelsOk(s) ==
    \A p \in s.processors :
        /\ p.inputs \subseteq Names(s.collections)
        /\ p.model # "" =>
            CanUse(s.models, p.model, IF p.source = "judgment" THEN "judgment" ELSE "completion")

\* _validate_automatic_graph: an emission wakes a derivation that observes it,
\* or that counts or reads what it consumes; no chain of these comes back.
Sees(s, scope, emit) ==
    /\ emit.collection \in scope.collections
    /\ scope.types = {} \/ emit.type \in scope.types
    /\ (IF emit.review THEN "draft" ELSE "active") \in scope.statuses
    /\ emit.collection \in DOMAIN scope.versions => emit.version \in scope.versions[emit.collection]

Wakes(s, producer, consumer) ==
    LET emit == Resolved(s, producer).emit
        d == Resolved(s, consumer) IN
    \E trigger \in AllTriggers(s) :
        /\ trigger.processor = consumer.name
        /\ \/ LET scopes == ResolvedTrigger(s, trigger).scopes IN
                \E c \in DOMAIN scopes :
                    Sees(s, scopes[c], emit) /\ ~(producer = consumer /\ scopes[c].own)
           \/ /\ \/ trigger.accumulator # {} \/ trigger.others \cap {"read", "lifecycle"} # {}
                 \/ "census" \in DOMAIN trigger.scopes
              /\ Sees(s, Driver(d), emit)

\* The derivations at the end of a chain of n emissions that wake; a cycle
\* has chains of any length.
AutomaticGraphOk(s) ==
    LET chain[n \in 0 .. Deployed.depth + 1] ==
            IF n = 0 THEN s.derivations
            ELSE {d \in s.derivations : \E p \in chain[n - 1] : Wakes(s, p, d)}
    IN  chain[Deployed.depth + 1] = {}

\* Fault: views are not checked again, once the collections are bound.
UnboundGraphOk(s, bound) ==
    /\ \A col \in s.collections : ActiveOf(s.collections, col.name) # {} /\ BindingsOk(s, col)
    /\ ProcessorModelsOk(s)
    /\ \A d \in s.derivations : ContextViewsOk(s, d)
    /\ AutomaticGraphOk(s)

GlobalGraphOk(s, bound) ==
    /\ \A col \in s.collections : ActiveOf(s.collections, col.name) # {} /\ BindingsOk(s, col)
    /\ ProcessorModelsOk(s)
    /\ s.collections # {} => s.orderScore \in ScoreNames(s)
    /\ \A trigger \in AllTriggers(s) : \E d \in Named(s.derivations, trigger.processor) :
        TriggerOk(s, ResolvedTrigger(s, trigger), Resolved(s, d))
    /\ \A view \in s.views : ViewOk(s, bound, view)
    /\ \A d \in s.derivations : ContextViewsOk(s, d)
    /\ AutomaticGraphOk(s)

ValidateGlobalGraph == Simple("graph", "freeze", GlobalGraphOk(Loaded, bindings))

Freeze ==
    /\ verdict = "loading" /\ stage = "freeze"
    /\ verdict' = "accepted"
    /\ UNCHANGED <<source, stage, bindings>>

LoaderNext ==
    \/ LoadModels \/ LoadProcessors \/ LoadRank \/ LoadSearchProfiles \/ LoadCollections
    \/ LoadDerivations \/ LoadTriggers \/ LoadViews \/ LoadArtifacts \/ LoadComputers
    \/ LoadPrograms \/ LoadContextPolicies \/ LoadToolsets \/ LoadAgents \/ ValidateTasks
    \/ LoadMcps \/ LoadPackages \/ LoadOverrides \/ ValidateGlobalGraph \/ Freeze

LoaderSpec == LoaderInit /\ [][LoaderNext]_loaderVars

(***************************************************************************)
(* What the runtime resolves in a catalog that was accepted.               *)
(***************************************************************************)
\* _validate_source_fields and _field_versions_for of the search engine.
EngineFieldsOk(s, cols, request) ==
    /\ request.order # {} => request.mode = "structured"
    /\ \A name \in DOMAIN request.where \cup request.order :
        /\ \A col \in cols : name \in DOMAIN col.fields
        /\ Cardinality({Signature(col.fields[name]) : col \in cols}) = 1
        /\ \A col \in cols : LET f == col.fields[name] IN
            /\ name \in DOMAIN request.where => f.filter
            /\ name \in request.order => f.sort
            /\ name \in DOMAIN request.where =>
                /\ request.where[name].ops # {"exists"} => Certain(s, col, f)
                /\ PredicateOk(request.where[name], f, TRUE)

EngineProjectsOk(s, cols, spec) ==
    /\ \A name \in spec.fields : \A col \in cols :
        name \in DOMAIN col.fields /\ col.fields[name].project /\ Certain(s, col, col.fields[name])
    /\ \A name \in spec.annotations :
        name \in Names(s.processors) /\ \A col \in cols : name \in col.required

\* resolve_graph_projection, for the graph that a boost names or the only one.
GraphViews(s) == {view \in s.views : view.active /\ view.kind = "graph"}
GraphResolves(s, name) ==
    IF name = "" THEN Cardinality(GraphViews(s)) = 1 ELSE Named(GraphViews(s), name) # {}

\* resolve_search: a request against the catalog and its bindings.
Answerable(s, bound, spec) ==
    /\ spec.judged => "cheap" \in DOMAIN s.models.aliases
    /\ \A name \in spec.anchors : GraphResolves(s, name)
    /\ \A request \in spec.sources :
        LET profiles == {bound[name] : name \in request.collections} IN
        /\ ScopeOk(s, request)
        /\ Cardinality(profiles) = 1
        /\ \A name \in profiles : \E p \in Named(s.profiles, name) : Usable(s, p)
        /\ EngineFieldsOk(s, Scoped(s, request), request)
        /\ request.mode # "structured" =>
            \A rank \in IF request.rank = {} THEN {s.rank[request.mode]} ELSE request.rank :
                RankOk(s, rank, request.mode)
    /\ \A boost \in spec.boost : BoostOk(s, boost)
    /\ EngineProjectsOk(s, UNION {Scoped(s, request) : request \in spec.sources}, spec)

\* What the loader does not look at: the model of a judge, the graph of a
\* boost, and an order where none is meaningful.
Unchecked(s, spec) ==
    \/ spec.judged \/ spec.anchors # {}
    \/ \E request \in spec.sources : request.order # {} /\ request.mode # "structured"

ViewsResolve(s, bound) ==
    \A view \in s.views :
        /\ \A spec \in view.query : Answerable(s, bound, spec) \/ Unchecked(s, spec)
        /\ \A graph \in view.graph :
            \E edges \in ActiveOf(s.collections, graph.edges) :
                {graph.subject, graph.object, graph.predicate} \subseteq DOMAIN edges.fields

\* Every collection is served: its profile is one that each of its versions
\* allows and that has credentials.
BindingsResolve(s, bound) ==
    \A col \in s.collections :
        /\ bound[col.name] \in AllProfiles(col)
        /\ \E p \in Named(s.profiles, bound[col.name]) : Usable(s, p)

\* A run finds what it reads, and the collection that it emits to accepts what
\* it writes: every annotation that is required will come.
RunsResolve(s) ==
    \A given \in s.derivations : LET d == Resolved(s, given) IN
        /\ \A name \in OfKind(d, Streams \cup {"current", "record"}) :
            \A ref \in PackagedScope(s, d.sources[name]) : Exact(s.collections, ref) # {}
        /\ \A name \in OfKind(d, {"view"}) : \E view \in ViewOf(s, d.sources[name]) :
            RequiredParameters(view) \subseteq DOMAIN d.sources[name].params
        /\ \E target \in Target(s, d.emit) : \A name \in target.required :
            \E p \in Named(s.processors, name) :
                target.name \in p.inputs /\ ~p.typed /\ ~(p.kind = "score" /\ p.source = "client")

\* A Computer grants what the program, or the tools of the agent, make use of.
TasksResolve(s) ==
    \A task \in UNION {TasksOf(d) : d \in s.derivations} :
        /\ task.use = "computer" =>
            \E c \in Exact(s.computers, task.computer), program \in Exact(s.programs, task.program) :
                program.capabilities \subseteq c.capabilities
        /\ task.use = "agent" =>
            \E c \in Exact(s.computers, task.computer), agent \in Exact(s.agents, task.agent) :
                \A ref \in Given(agent.toolset) : \E toolset \in Exact(s.toolsets, ref) :
                    \A tool \in toolset.sources :
                        /\ Needs(s, tool) \subseteq c.capabilities
                        /\ Given(tool.artifact) \subseteq Refs(s.artifacts)
                        /\ tool.learning # {} => Named(s.collections, "lessons") # {}

\* An artifact renders: its documents have an active version, and its views
\* get what they require; what it learns is reviewed and then promoted.
ArtifactsResolve(s) ==
    \A artifact \in s.artifacts :
        /\ \A name \in Documents(artifact) : ActiveOf(s.collections, name) # {}
        /\ \A b \in DOMAIN artifact.blocks : artifact.blocks[b].view # <<>> =>
            \E view \in Exact(s.views, artifact.blocks[b].view) :
                RequiredParameters(view) \subseteq DOMAIN artifact.blocks[b].args
        /\ \A learning \in artifact.learning : \E target \in Exact(s.artifacts, learning.artifact) :
            \E d \in Named(s.derivations, target.processor) :
                d.emit.review /\ d.emit.collection \in Documents(target)

\* The properties.

\* What a catalog that was accepted names is there when the runtime resolves
\* it, and agrees with what the search engine, the runner, the renderer and
\* the providers of Computers ask for, under the bindings of the deployment.
NothingDangles ==
    verdict = "accepted" =>
        /\ BindingsResolve(Loaded, bindings)
        /\ ViewsResolve(Loaded, bindings)
        /\ RunsResolve(Loaded)
        /\ TasksResolve(Loaded)
        /\ ArtifactsResolve(Loaded)

\* TLC refutes this one: docs/derivations.md (line 544) says that the options
\* of a task are checked when definitions load, "so a misconfigured task fails
\* at deploy time rather than mid-run".  A search task is checked while no
\* collection is bound yet and not again, so that two collections of a search
\* may be bound to different profiles; and an order where there is none to
\* apply, a judge without its model or an unknown graph is not looked at.
TasksFailEarly ==
    verdict = "accepted" =>
        \A d \in Loaded.derivations : \A task \in TasksOf(d) : \A spec \in task.spec :
            Answerable(Loaded, bindings, spec)
=============================================================================
