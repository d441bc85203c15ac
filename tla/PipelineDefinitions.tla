------------------------- MODULE PipelineDefinitions -------------------------
(***************************************************************************)
(* What the loader asks of derivations and of their triggers: sources,     *)
(* emission, budgets, templates and conditions (definitions/loader.py      *)
(* _resolve_derivation, _validate_trigger; derive/schema.py).              *)
(*                                                                         *)
(* A version that a source or a trigger omits is the active one, whereas a *)
(* search reads every version.  The version 0 is one that is omitted.      *)
(***************************************************************************)
EXTENDS ViewDefinitions

Streams == {"changes", "snapshot", "stale_citations"}
OfKind(d, kinds) == {name \in DOMAIN d.sources : d.sources[name].kind \in kinds}
Driver(d) == d.sources[CHOOSE name \in OfKind(d, Streams) : TRUE]
TasksOf(d) == {d.tasks[i] : i \in DOMAIN d.tasks}
TaskIds(d) == {task.id : task \in TasksOf(d)}

(***************************************************************************)
(* The shape of a pipeline (PipelineDefinition, EmitDefinition).           *)
(***************************************************************************)
IsEmit(emit) ==
    /\ Cardinality({x \in {"static", "driver", "dynamic"} :
            CASE x = "static" -> emit.keys # {}
              [] x = "driver" -> emit.driverKey
              [] x = "dynamic" -> emit.dynamicKeys}) <= 1
    /\ emit.complete => emit.keys # {} /\ Cardinality(emit.keys) <= emit.most
    /\ emit.driverKey => emit.most = 1
    /\ emit.dynamicKeys => ~emit.review

IsPipeline(d) ==
    /\ d.sound /\ Cardinality(OfKind(d, Streams)) = 1
    /\ \A name \in DOMAIN d.sources : "_system" \notin d.sources[name].collections
    /\ \A name \in OfKind(d, {"stale_citations"}) : d.sources[name].keyed = "yes"
    /\ \A name \in OfKind(d, {"current"}) : d.sources[name].keyed # "no"
    /\ Len(d.tasks) \in 1 .. d.limits.tasks
    /\ \A i, j \in DOMAIN d.tasks : d.tasks[i].id = d.tasks[j].id => i = j
    /\ (TaskIds(d) \cup {"entity", "run", "item", "index"}) \cap DOMAIN d.sources = {}
    /\ TaskIds(d) \cap {"entity", "run", "item", "index"} = {}
    /\ IsEmit(d.emit) /\ d.emit.from \in TaskIds(d)

(***************************************************************************)
(* Versions that are omitted (_resolve_derivation).                        *)
(***************************************************************************)
ActiveVersions(s, name) == {col.version : col \in ActiveOf(s.collections, name)}

ResolvedScope(s, scope) ==
    [scope EXCEPT !.versions =
        [name \in scope.collections |->
            IF name \in DOMAIN scope.versions THEN scope.versions[name]
            ELSE ActiveVersions(s, name)]]

Target(s, emit) ==
    IF emit.version = 0 THEN ActiveOf(s.collections, emit.collection)
    ELSE Exact(s.collections, <<emit.collection, emit.version>>)

\* _resolve_trigger_scopes: a name that has no active version is left alone.
ResolvedTrigger(s, trigger) ==
    [trigger EXCEPT !.scopes =
        [condition \in DOMAIN trigger.scopes |->
            LET scope == trigger.scopes[condition]
                found == {n \in scope.collections : ActiveVersions(s, n) # {}} IN
            [scope EXCEPT !.versions =
                [name \in DOMAIN scope.versions \cup found |->
                    IF name \in DOMAIN scope.versions THEN scope.versions[name]
                    ELSE ActiveVersions(s, name)]]]]

Resolved(s, d) ==
    [d EXCEPT
        !.sources = [name \in DOMAIN d.sources |->
            IF d.sources[name].kind = "view" THEN d.sources[name]
            ELSE ResolvedScope(s, d.sources[name])],
        !.emit.version = IF @ = 0 THEN Only(Target(s, d.emit)).version ELSE @,
        !.trigger = {ResolvedTrigger(s, trigger) : trigger \in d.trigger}]

\* _require_collection_scope_version, and the sources of canonical records
\* (_validate_derivation_context).
SourcesOk(s, d) ==
    /\ \A name \in DOMAIN d.sources : d.sources[name].tokens <= Deployed.prompt
    /\ \A name \in OfKind(d, Streams \cup {"current", "record"}) :
        LET scope == ResolvedScope(s, d.sources[name]) IN
        /\ ScopeOk(s, scope)
        /\ d.sources[name].kind \in {"current", "record"} =>
            \A col \in Scoped(s, scope) : HoldsKeys(col)

\* The emission suits the mode of its collection, which must not require
\* scores that only a client gives.
EmissionOk(s, d) ==
    LET keyed == d.emit.keys # {} \/ d.emit.driverKey \/ d.emit.dynamicKeys IN
    \E target \in Target(s, d.emit) :
        /\ target.mode # (IF keyed THEN "event" ELSE "keyed")
        /\ d.emit.review => d.emit.keys # {}
        /\ d.emit.driverKey =>
            Driver(d).keyed = "yes" /\ Driver(d).most = 1 /\ ~Driver(d).empty
        /\ \A p \in s.processors :
            p.name \in target.required => ~(p.kind = "score" /\ p.source = "client")

(***************************************************************************)
(* Budgets (_validate_derivation_limits).                                  *)
(***************************************************************************)
Using(d, kinds) == {i \in DOMAIN d.tasks : d.tasks[i].use \in kinds}

\* A search for each item of a list runs at most five times.
Retrieves(d) ==
    FoldFunctionOnSet(LAMBDA task, sum : sum + task.k * (IF task.foreach THEN 5 ELSE 1), 0,
                      d.tasks, Using(d, {"search"}))

TaskOk(s, bindings, d, task) ==
    /\ task.sound
    /\ task.use \in {"llm", "search", "template"} => ~task.input
    /\ task.use \in {"computer", "agent", "judge"} => task.input
    /\ task.use = "agent" => task.steps <= d.limits.steps
    /\ task.use = "judge" =>
        CanUse(s.models, IF task.model # "" THEN task.model ELSE d.model, "judgment")
    /\ task.use = "llm" =>
        LET alias == IF task.model # "" THEN task.model
                     ELSE IF d.model # "" THEN d.model ELSE s.models.derivation
        IN  /\ CanUse(s.models, alias, "completion")
            /\ task.tokens <= Deployed.output /\ task.tokens <= d.limits.tokens
            /\ Deployed.prompt + task.tokens <= Context(s.models, alias)
    /\ task.use = "search" =>
        /\ task.tokens <= Deployed.prompt
        /\ \E spec \in task.spec : IsSpec(spec) /\ SpecOk(s, bindings, spec, {}, TRUE)

LimitsOk(s, bindings, d) ==
    LET limits == d.limits IN
    /\ limits.visible <= Deployed.derivedFrom - 1 /\ limits.tokens <= Deployed.run
    /\ \A task \in TasksOf(d) : TaskOk(s, bindings, d, task)
    /\ Retrieves(d) <= limits.retrieved /\ limits.retrieved <= limits.visible
    \* A task may make one call more to correct its answer.
    /\ 2 * Cardinality(Using(d, {"llm"})) <= limits.llm
    /\ Using(d, {"judge"}) # {} => limits.judgments > 0
    /\ Cardinality(Using(d, {"computer", "agent"})) <= limits.computers

(***************************************************************************)
(* Templates: a task refers to the sources and to earlier tasks, and what  *)
(* a source or a task gives is used (_validate_derivation_templates).      *)
(***************************************************************************)
TemplatesOk(d) ==
    LET earlier(i) == {"entity", "run"} \cup DOMAIN d.sources \cup {d.tasks[j].id : j \in 1 .. i - 1}
        items(task) == IF task.foreach THEN {"item", "index"}
                       ELSE IF task.use = "judge" THEN {"item"} ELSE {}
        later(i) == {d.emit.from} \cup UNION {d.tasks[j].refs : j \in i + 1 .. Len(d.tasks)}
    IN  /\ \A i \in DOMAIN d.tasks : d.tasks[i].refs \subseteq earlier(i) \cup items(d.tasks[i])
        /\ DOMAIN d.sources \subseteq later(0)
        /\ \A i \in DOMAIN d.tasks : d.tasks[i].id \in later(i)

(***************************************************************************)
(* Triggers.                                                               *)
(***************************************************************************)
Arrivals == {"write", "quiet", "changed", "retraction"}
Conditions(trigger) == DOMAIN trigger.scopes \cup trigger.others
    \cup (IF trigger.accumulator = {} THEN {} ELSE {"accumulator"})

\* _validate_trigger_where: as of a search, but a trigger over the relations
\* of the system filters their predicate alone.
WhereOk(s, scope) ==
    /\ DOMAIN scope.where # {} => ScopeOk(s, scope) \/ "_system" \in scope.collections
    /\ \A name \in DOMAIN scope.where :
        IF "_system" \in scope.collections
        THEN /\ scope.collections = {"_system"} /\ name = "predicate"
             /\ PredicateOk(scope.where[name], [type |-> "string", many |-> FALSE], FALSE)
        ELSE /\ \A col \in Scoped(s, scope) : name \in DOMAIN col.fields
             /\ \A c, d \in Scoped(s, scope) :
                    /\ c.fields[name].type = d.fields[name].type
                    /\ c.fields[name].many = d.fields[name].many
             /\ \A col \in Scoped(s, scope) : LET f == col.fields[name] IN
                    f.filter /\ Certain(s, col, f) /\ PredicateOk(scope.where[name], f, FALSE)

\* _validate_scope_versions: what wakes a derivation is what it consumes.
ArrivalOk(s, d, condition, scope) ==
    /\ scope.own => condition # "changed" /\ d.emit.driverKey
    /\ scope.collections \subseteq Driver(d).collections
    /\ scope.types \subseteq Driver(d).types /\ scope.statuses \subseteq Driver(d).statuses
    /\ \A name \in scope.collections \ {"_system"} :
        Pinned(s, scope, name) \subseteq Pinned(s, Driver(d), name)
    /\ WhereOk(s, scope)

\* _validate_at_condition.
AtOk(s, scope) ==
    /\ ScopeOk(s, scope) /\ Scoped(s, scope) # {}
    /\ \A col \in Scoped(s, scope) :
        /\ scope.field \in DOMAIN col.fields
        /\ LET f == col.fields[scope.field] IN
            f.type = "datetime" /\ ~f.many /\ f.filter /\ Certain(s, col, f)
    /\ WhereOk(s, scope)

\* _validate_accumulator: what is summed up is required of every record.
AccumulatorOk(s, d, metric) ==
    metric.score # "count" =>
        /\ metric.score # "" => metric.score \in ScoreNames(s)
        /\ metric.score = "" => \E p \in Named(s.processors, metric.annotation) :
            /\ metric.leaf \in DOMAIN Leaves(p)
            /\ metric.sums => Leaves(p)[metric.leaf] \in {"number", "integer"}
        /\ LET owner == IF metric.score # "" THEN ScoreOwner(s, metric.score).name
                        ELSE metric.annotation
           IN  ScopeOk(s, Driver(d)) /\ \A col \in Scoped(s, Driver(d)) : owner \in col.required

\* _validate_trigger; both have their versions resolved.
TriggerOk(s, trigger, d) ==
    /\ trigger.sound /\ Conditions(trigger) # {}
    /\ \A metric \in trigger.accumulator : AccumulatorOk(s, d, metric)
    /\ \A condition \in DOMAIN trigger.scopes :
        LET scope == trigger.scopes[condition] IN
        CASE condition \in Arrivals -> ArrivalOk(s, d, condition, scope)
          [] condition = "census" -> ScopeOk(s, scope) /\ WhereOk(s, scope)
          [] condition = "at" -> AtOk(s, scope)

DerivationOk(s, bindings, given) ==
    /\ IsPipeline(given) /\ SourcesOk(s, given) /\ EmissionOk(s, given)
    /\ LET d == Resolved(s, given) IN
        /\ LimitsOk(s, bindings, d) /\ TemplatesOk(d)
        /\ \A trigger \in d.trigger : TriggerOk(s, trigger, d)

\* Names of derivations differ from those of processors, too (_duplicate).
DerivationsOk(s, bindings) ==
    /\ NamesDiffer(s.derivations) /\ Filled(s, "derivations")
    /\ Names(s.derivations) \cap Names(s.processors) = {}
    /\ \A d \in s.derivations : DerivationOk(s, bindings, d)

\* The trigger of a derivation is named after it.
Default(d) == d.name \o ".default"

AllTriggers(s) ==
    s.triggers \cup
    UNION {{[name |-> Default(d), processor |-> d.name, sound |-> trigger.sound,
             accumulator |-> trigger.accumulator, scopes |-> trigger.scopes,
             others |-> trigger.others] : trigger \in d.trigger} : d \in s.derivations}

\* Triggers with documents of their own.
TriggersOk(s) ==
    /\ NamesDiffer(s.triggers)
    /\ \A d \in s.derivations : d.trigger # {} => Default(d) \notin Names(s.triggers)
    /\ \A trigger \in s.triggers : \E d \in Named(s.derivations, trigger.processor) :
        TriggerOk(s, ResolvedTrigger(s, trigger), Resolved(s, d))

\* _validate_context_views: views that are sources, which may be loaded after.
ViewOf(s, source) ==
    IF source.view[2] = 0 THEN ActiveOf(s.views, source.view[1]) ELSE Exact(s.views, source.view)

ContextViewsOk(s, d) ==
    \A name \in OfKind(d, {"view"}) :
        LET source == d.sources[name] IN
        \E view \in ViewOf(s, source) :
            /\ DOMAIN source.params \subseteq DOMAIN view.parameters
            /\ RequiredParameters(view) \subseteq DOMAIN source.params
            /\ ArgumentsFit(view, source.params)
=============================================================================
