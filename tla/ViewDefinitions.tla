--------------------------- MODULE ViewDefinitions ---------------------------
(***************************************************************************)
(* What the loader asks of definitions that read records: search           *)
(* specifications, views, graph views and artifacts (definitions/loader.py *)
(* _validate_search_spec, _validate_view, _validate_artifact;              *)
(* search/spec.py).                                                        *)
(*                                                                         *)
(* What may be omitted in a document is a set with at most one element.    *)
(* Of a template, refs are the names that it refers to.                    *)
(***************************************************************************)
EXTENDS Definitions, Functions

(***************************************************************************)
(* Scopes: collections, and for some of them the versions to read.         *)
(***************************************************************************)
VersionsOf(s, name) == {col.version : col \in Named(s.collections, name)}

\* _search_scope_collections and _scope_collection_definitions: a version
\* that is not pinned stands for all of them.
Pinned(s, scope, name) ==
    IF name \in DOMAIN scope.versions THEN scope.versions[name] ELSE VersionsOf(s, name)

Scoped(s, scope) ==
    {col \in s.collections :
        col.name \in scope.collections /\ col.version \in Pinned(s, scope, col.name)}

ScopeOk(s, scope) ==
    \A name \in scope.collections :
        Pinned(s, scope, name) # {} /\ Pinned(s, scope, name) \subseteq VersionsOf(s, name)

(***************************************************************************)
(* Predicates: operators on a field with an operand of some type; the type *)
(* "template" is that of an operand which is not known yet.                *)
(***************************************************************************)
Fits(operand, type) == operand = type \/ (operand = "integer" /\ type = "number")

\* _validate_predicate.
PredicateOk(predicate, f, templates) ==
    /\ predicate.ops \cap {"gt", "gte", "lt", "lte"} # {} =>
            ~f.many /\ f.type \in {"number", "integer", "datetime"}
    /\ "in" \in predicate.ops => ~f.many
    /\ predicate.ops \cap {"contains_any", "contains_all"} # {} => f.many
    /\ f.many => predicate.ops \subseteq {"exists", "eq", "contains_any", "contains_all"}
    /\ \/ predicate.ops = {"exists"}
       \/ templates /\ predicate.operand = "template"
       \/ Fits(predicate.operand, f.type)

Signature(f) == [type |-> f.type, many |-> f.many, filter |-> f.filter, sort |-> f.sort]

\* _validate_structured_fields: a field that is filtered or ordered by means
\* the same in every collection, and is sure to be there.
StructuredOk(s, source, templates) ==
    \A name \in DOMAIN source.where \cup source.order :
        /\ \A col \in Scoped(s, source) : name \in DOMAIN col.fields
        /\ \A c, d \in Scoped(s, source) :
            Signature(c.fields[name]) = Signature(d.fields[name])
        /\ \A col \in Scoped(s, source) : LET f == col.fields[name] IN
            /\ name \in DOMAIN source.where => f.filter
            /\ name \in source.order => f.sort
            /\ \/ name \in DOMAIN source.where /\ source.where[name].ops = {"exists"}
               \/ Certain(s, col, f)
            /\ name \in DOMAIN source.where => PredicateOk(source.where[name], f, templates)

\* _validate_search_projections.
ProjectionsOk(s, spec) ==
    LET all == UNION {Scoped(s, source) : source \in spec.sources} IN
    /\ \A name \in spec.fields : \A col \in all :
        /\ name \in DOMAIN col.fields /\ col.fields[name].project
        /\ col.fields[name].processor \in col.required \cup {""}
    /\ \A name \in spec.annotations :
        name \in Names(s.processors) /\ \A col \in all : name \in col.required

(***************************************************************************)
(* Search specifications.                                                  *)
(***************************************************************************)
Relevance == {"vector", "text", "hybrid"}

\* SearchSpec and SearchSource, of a spec with one source or with several.
IsSpec(spec) ==
    /\ spec.sound /\ spec.sources # {} /\ Cardinality(spec.sources) <= 8
    /\ Cardinality(spec.sources) > 1 => spec.fuses
    /\ ~spec.fuses => spec.boost = {}
    /\ \A source \in spec.sources :
        /\ source.mode \in Modes /\ DOMAIN source.versions \subseteq source.collections
        /\ source.mode \in Relevance => spec.asks
        /\ source.mode = "structured" => source.rank = {} /\ source.order # {}
        /\ spec.judged => source.mode \in Relevance

\* The profile that a collection is bound to; before the overrides are loaded
\* it is the one that each version names.
Bound(bindings, col) == IF col.name \in DOMAIN bindings THEN bindings[col.name] ELSE col.profile

\* _validate_search_spec.
SpecOk(s, bindings, spec, needs, templates) ==
    /\ \A source \in spec.sources :
        LET profiles == {Bound(bindings, col) : col \in Scoped(s, source)} IN
        /\ source.collections # {} /\ "_system" \notin source.collections
        /\ ScopeOk(s, source)
        /\ Cardinality(profiles) = 1 /\ profiles \subseteq Names(s.profiles)
        /\ \A p \in profiles : Required(source.mode) \cup needs \subseteq Capabilities(p)
        /\ \A rank \in source.rank : RankOk(s, rank, source.mode)
        /\ StructuredOk(s, source, templates)
    /\ \A boost \in spec.boost : BoostOk(s, boost)
    /\ ProjectionsOk(s, spec)

(***************************************************************************)
(* Views.                                                                  *)
(***************************************************************************)
RequiredParameters(view) ==
    {name \in DOMAIN view.parameters : view.parameters[name].required}

P(type, required) == [type |-> type, required |-> required]
GraphParameters ==
    [seed |-> P("string", TRUE), predicates |-> P("string_array", FALSE),
     direction |-> P("string", FALSE), depth |-> P("integer", FALSE), limit |-> P("integer", FALSE)]
OrphanParameters == [limit |-> P("integer", FALSE)]

\* _validate_graph_projection: edges are events of the active version, and
\* each names its ends and its predicate.
GraphOk(s, graph) ==
    /\ \E edges \in ActiveOf(s.collections, graph.edges) :
        /\ edges.mode = "event"
        /\ \A name \in {graph.subject, graph.object, graph.predicate} :
            /\ name \in DOMAIN edges.fields
            /\ edges.fields[name].type = "string" /\ ~edges.fields[name].many
            /\ edges.fields[name].filter
            /\ Certain(s, edges, edges.fields[name])
    /\ graph.nodes # "" => \E nodes \in ActiveOf(s.collections, graph.nodes) : HoldsKeys(nodes)

\* _validate_view, and the shape that ViewDefinition asks for.
ViewOk(s, bindings, view) ==
    /\ view.sound
    /\ CASE view.kind = "search" ->
                /\ view.graph = {} /\ view.refs \subseteq DOMAIN view.parameters
                /\ \E spec \in view.query :
                    IsSpec(spec) /\ SpecOk(s, bindings, spec, view.needs, FALSE)
         [] view.kind = "graph" ->
                /\ view.query = {} /\ view.needs = {} /\ view.parameters = GraphParameters
                /\ \E graph \in view.graph : graph.nodes = "" /\ GraphOk(s, graph)
         [] view.kind = "graph_orphans" ->
                /\ view.query = {} /\ view.needs = {} /\ view.parameters = OrphanParameters
                /\ \E graph \in view.graph : graph.nodes # "" /\ GraphOk(s, graph)

ViewsOk(s, bindings) ==
    /\ OneActive(s.views) /\ Filled(s, "views")
    /\ \A view \in s.views : ViewOk(s, bindings, view)

(***************************************************************************)
(* Artifacts: templates over blocks, each of documents or of a view.       *)
(***************************************************************************)
\* parameter_value_matches, of arguments whose type is known.
ArgumentsFit(view, args) ==
    \A name \in DOMAIN args : args[name] = "template" \/ Fits(args[name], view.parameters[name].type)

\* _validate_artifact, of one block: a document reads the active versions, a
\* view is exact and gets the arguments that it requires.
BlockOk(s, artifact, block) ==
    IF block.view = <<>>
    THEN /\ DOMAIN block.args = {} /\ block.collections # {}
         /\ \A name \in block.collections : ActiveOf(s.collections, name) # {}
    ELSE \E view \in Exact(s.views, block.view) :
            /\ block.collections = {}
            /\ DOMAIN block.args \subseteq DOMAIN view.parameters
            /\ RequiredParameters(view) \subseteq DOMAIN block.args
            /\ ArgumentsFit(view, block.args)

Documents(artifact) == UNION {artifact.blocks[b].collections : b \in DOMAIN artifact.blocks}

\* The budgets of the blocks together.
Budget(artifact) ==
    FoldFunction(LAMBDA block, sum : block.tokens + sum, 0, artifact.blocks)

\* The value that a reviewed artifact keeps is what its processor emits.
ReviewedOk(s, artifact) ==
    \E d \in Named(s.derivations, artifact.processor) :
        /\ d.emit.complete /\ d.emit.review
        /\ d.emit.keys = artifact.keys
        /\ d.emit.collection \in Documents(artifact)
        /\ d.emit.type = artifact.kind

ArtifactOk(s, artifact) ==
    LET blocks == DOMAIN artifact.blocks IN
    /\ artifact.sound
    /\ artifact.refs \subseteq DOMAIN artifact.parameters \cup blocks /\ blocks \subseteq artifact.refs
    /\ Budget(artifact) <= Deployed.render
    /\ \A b \in blocks :
        BlockOk(s, artifact, artifact.blocks[b]) /\ artifact.blocks[b].refs \subseteq DOMAIN artifact.parameters
    /\ \A snapshot \in artifact.snapshot :
        /\ \E col \in ActiveOf(s.collections, snapshot.collection) : HoldsKeys(col)
        /\ "entity" \in DOMAIN artifact.parameters \/ snapshot.entity
    /\ \A learning \in artifact.learning :
        /\ learning.block \in blocks
        /\ LET target == artifact.blocks[learning.block] IN
            target.view = <<>> /\ target.status = "active" /\ target.required
    /\ artifact.lifecycle = "reviewed" => blocks # {} /\ artifact.keys # {} /\ ReviewedOk(s, artifact)
    /\ artifact.lifecycle = "live" => artifact.processor = "" /\ artifact.keys = {}
    /\ artifact.lessons # {} => artifact.kind = "skill"

\* _validate_learning_reference: what is to be learned is kept by the artifact
\* that is reviewed.
LearningOk(s, artifact) ==
    \A learning \in artifact.learning :
        \E target \in Exact(s.artifacts, learning.artifact) :
            /\ target.lifecycle = "reviewed"
            /\ artifact.blocks[learning.block].collections \subseteq Documents(target)

ArtifactsOk(s) ==
    /\ OneActive(s.artifacts) /\ Filled(s, "artifacts")
    /\ \A artifact \in s.artifacts : ArtifactOk(s, artifact)
    /\ \A artifact \in s.artifacts : LearningOk(s, artifact)
=============================================================================
