----------------------------- MODULE Definitions -----------------------------
(***************************************************************************)
(* The documents of which a catalog is compiled, and the first checks of   *)
(* the definition loader (definitions/loader.py, definitions/models.py):   *)
(* models, processors, rank defaults, search profiles and collections.     *)
(*                                                                         *)
(* A source s is what the loader is given: a set of documents for each     *)
(* family.  Names are strings, and "" is a name that is omitted.  A type   *)
(* is a JSON type or "datetime"; leaves is the function from the paths of  *)
(* a JSON Schema to their types.  What a check asks of one value alone     *)
(* (its pattern, its length, that it is a JSON Schema, that a sequence     *)
(* has no duplicates) is the field sound of its document.                  *)
(***************************************************************************)
EXTENDS Integers, Sequences, FiniteSets

CONSTANTS
    Deployed   \* the settings of the process: tokens, records and bytes at most

ASSUME DeployedAssumption ==
    Deployed \in [context : Nat, prompt : Nat, output : Nat, derivedFrom : Nat, run : Nat,
                  render : Nat, depth : Nat]

Ref(d) == <<d.name, d.version>>
Named(docs, name) == {d \in docs : d.name = name}
Exact(docs, ref) == {d \in docs : Ref(d) = ref}
ActiveOf(docs, name) == {d \in docs : d.name = name /\ d.active}
Names(docs) == {d.name : d \in docs}
Only(docs) == CHOOSE d \in docs : TRUE

\* _duplicate and _set_active, of the documents of one family.
NamesDiffer(docs) == \A d, e \in docs : d.name = e.name => d = e
OneActive(docs) == /\ \A d, e \in docs : Ref(d) = Ref(e) => d = e
                   /\ \A d, e \in docs : d.active /\ e.active /\ d.name = e.name => d = e

\* A family that the settings give a directory to is not empty.
Filled(s, family) == family \in s.configured => s[family] # {}

(***************************************************************************)
(* Models: providers are connections whose adapters can do some things,    *)
(* and an alias can do what each of its targets can.                       *)
(***************************************************************************)
Capable(m, alias) ==
    {use \in {"completion", "judgment"} :
        \A target \in m.aliases[alias].targets : use \in m.providers[target].uses}

\* ModelCatalog: what names one another is declared.
ModelsAgree(m) ==
    /\ m.sound
    /\ DOMAIN m.providers # {} /\ DOMAIN m.aliases # {} /\ "embed" \notin DOMAIN m.aliases
    /\ {m.derivation, m.fold} \subseteq DOMAIN m.aliases
    /\ \A a \in DOMAIN m.aliases :
        m.aliases[a].targets # {} /\ m.aliases[a].targets \subseteq DOMAIN m.providers
    /\ m.embedding \in DOMAIN m.providers

\* _alias.
CanUse(m, alias, use) == alias \in DOMAIN m.aliases /\ use \in Capable(m, alias)

Context(m, alias) ==
    IF m.aliases[alias].context # 0 THEN m.aliases[alias].context ELSE Deployed.context

ModelsOk(s) ==
    LET m == s.models IN
    /\ ModelsAgree(m)
    /\ \A a \in DOMAIN m.aliases :
        /\ Capable(m, a) # {}
        /\ "completion" \in Capable(m, a) => Context(m, a) >= 4
        /\ "completion" \notin Capable(m, a) =>
                m.aliases[a].context = 0 /\ ~m.aliases[a].params
    /\ CanUse(m, m.derivation, "completion") /\ CanUse(m, m.fold, "completion")
    /\ "embedding" \in m.providers[m.embedding].uses

(***************************************************************************)
(* Processors.  Of the options of a processor, sets are those that its     *)
(* document gives; which it must and may give depends on kind and source.  *)
(***************************************************************************)
Must(p) ==
    CASE p.kind = "embedding" -> {}
      [] p.kind = "score" -> {"scale"} \cup
            (CASE p.source = "llm" -> {"default", "model", "prompt"}
               [] p.source = "judgment" -> {"default", "model", "questions"}
               [] p.source = "constant" -> {"value"}
               [] OTHER -> {})
      [] p.kind = "json" ->
            CASE p.source = "llm" -> {"output_schema", "model", "prompt"}
              [] p.source = "judgment" -> {"model", "questions"}
              [] p.source = "constant" -> {"output_schema", "default_output"}
              [] OTHER -> {"output_schema"}

May(p) ==
    Must(p) \cup CASE p.kind = "embedding" -> {}
                   [] p.kind = "score" -> {"render"}
                   [] p.kind = "json" -> {"default_output", "score_fields"}

IsProcessor(p) ==
    /\ p.sound
    /\ p.source = "" <=> p.kind = "embedding"
    /\ Must(p) \subseteq p.sets /\ p.sets \subseteq May(p)
    /\ ("model" \in p.sets) = (p.model # "")
    /\ ("score_fields" \in p.sets) = (p.scores # {})
    /\ p.kind = "score" /\ p.source = "judgment" => p.questions \in {{"noul"}, {"score"}}

\* effective_output_schema: the annotation that a processor writes.
Leaves(p) == CASE p.kind = "embedding" -> [space |-> "string"]
               [] p.kind = "score" -> [value |-> "number"]
               [] p.kind = "json" -> p.leaves

\* The flat score names that a processor claims (_claim_score_name).
ClaimedScores(p) == IF p.kind = "score" THEN {p.name} ELSE p.scores
ScoreNames(s) == UNION {ClaimedScores(p) : p \in s.processors}
ScoreOwner(s, score) == CHOOSE p \in s.processors : score \in ClaimedScores(p)

\* supersession_chain: the names a reader falls back to.
Chain(s, name) ==
    LET older(names) == {p.supersedes : p \in {q \in s.processors : q.name \in names}} \ {""}
        reach[n \in 0 .. Cardinality(s.processors)] ==
            IF n = 0 THEN older({name}) ELSE reach[n - 1] \cup older(reach[n - 1])
    IN  reach[Cardinality(s.processors)]

\* _validate_supersession: linear, of one kind and without a cycle.
SupersessionOk(s) ==
    /\ \A p \in s.processors : p.supersedes # "" =>
        \E q \in Named(s.processors, p.supersedes) : q # p /\ q.kind = p.kind
    /\ \A p, q \in s.processors : p.supersedes = q.supersedes /\ p.supersedes # "" => p = q
    /\ \A p \in s.processors : p.name \notin Chain(s, p.name)

ProcessorsOk(s) ==
    /\ \A p \in s.processors : IsProcessor(p)
    /\ NamesDiffer(s.processors)
    /\ \A p, q \in s.processors : ClaimedScores(p) \cap ClaimedScores(q) # {} => p = q
    /\ \A p \in s.processors : \A score \in p.scores :
        score \in DOMAIN p.leaves /\ p.leaves[score] \in {"number", "integer"}
    /\ Cardinality(ScoreNames(s)) <= 8
    /\ Cardinality({p \in s.processors : p.kind = "score" /\ p.source = "llm"}) <= 4
    /\ SupersessionOk(s)

(***************************************************************************)
(* Rank expressions name scores, and weigh what a mode of search has.      *)
(***************************************************************************)
Modes == {"hybrid", "vector", "text", "recent", "structured"}

RankOk(s, rank, mode) ==
    /\ rank.scores \subseteq ScoreNames(s)
    /\ "similarity" \in rank.leaves => mode \in {"vector", "hybrid"}
    /\ "text_match" \in rank.leaves => mode \in {"text", "hybrid"}

BoostOk(s, boost) == boost.scores \subseteq ScoreNames(s) /\ boost.leaves = {}

RankDefaultsOk(s) ==
    /\ DOMAIN s.rank = Modes \ {"structured"}
    /\ \A mode \in DOMAIN s.rank : RankOk(s, s.rank[mode], mode)

(***************************************************************************)
(* Search profiles choose a backend.                                       *)
(***************************************************************************)
ProfilesOk(s) ==
    /\ NamesDiffer(s.profiles)
    /\ \A p \in s.profiles :
        /\ p.sound /\ p.backend \in {"pg", "turbopuffer"}
        /\ p.backend = "pg" => p.options = {}
        /\ p.options \subseteq {"layout", "consistency", "enabled_if_credentials"}

\* A profile may be enabled only if the process has the credentials.
Usable(s, p) == "enabled_if_credentials" \in p.options => s.credentials

\* backend_descriptor and required_capabilities.
Capabilities(profile) == {"vector", "text", "recent", "structured"}
Required(mode) == IF mode = "hybrid" THEN {"vector", "text"} ELSE {mode}

(***************************************************************************)
(* Collections: a record contract, and what is bound to it.                *)
(***************************************************************************)
HoldsKeys(col) == col.mode \in {"keyed", "mixed"}
AllProfiles(col) == {col.profile} \cup col.allowed

\* _validate_declared_field: the path of a field is declared, with its type.
FieldOk(s, col, f) ==
    LET annotation == Named(s.processors, f.processor)
        leaves == IF f.processor = "" THEN col.leaves ELSE Leaves(Only(annotation))
    IN  /\ f.many => ~f.sort
        /\ f.processor # "" => annotation # {}
        /\ f.leaf \in DOMAIN leaves /\ leaves[f.leaf] = f.type

\* field_annotation_names: the annotations that can answer a field.
Answering(s, f) == IF f.processor = "" THEN {} ELSE {f.processor} \cup Chain(s, f.processor)

\* A field is sure to be there when one of them is required.
Certain(s, col, f) == f.processor # "" => Answering(s, f) \cap col.required # {}

CollectionOk(s, col) ==
    /\ col.sound /\ col.required \cap col.optional = {}
    \* _validate_content_schema
    /\ "text" \in DOMAIN col.leaves /\ col.leaves["text"] = "string" /\ col.requiresText
    /\ col.projection \subseteq DOMAIN col.leaves
    /\ \A n \in DOMAIN col.fields : FieldOk(s, col, col.fields[n])
    \* _validate_collection_references
    /\ AllProfiles(col) \subseteq Names(s.profiles)
    /\ col.required \cup col.optional \subseteq Names(s.processors)

\* A skill that learns brings the collection in which lessons are kept
\* (lessons.py, collection_document).
Learns(s) == \E t \in s.toolsets : \E source \in t.sources : source.learning # {}
CollectionsOk(s) ==
    /\ Learns(s) => "pg_default" \in Names(s.profiles) /\ Named(s.collections, "lessons") = {}
    /\ OneActive(s.collections) /\ Filled(s, "collections")
    /\ \A col \in s.collections : CollectionOk(s, col)

LessonsCollection ==
    [name |-> "lessons", version |-> 1, active |-> TRUE, sound |-> TRUE, mode |-> "event",
     leaves |-> [leaf \in {"text", "skill", "kind", "detail", "code"} |-> "string"],
     requiresText |-> TRUE, projection |-> {},
     fields |-> [f \in {"skill", "kind", "code"} |->
        [processor |-> "", leaf |-> f, type |-> "string", many |-> FALSE,
         filter |-> f # "code", sort |-> FALSE, project |-> TRUE]],
     required |-> {}, optional |-> {}, profile |-> "pg_default", allowed |-> {}]

\* The collections of the catalog, once they are loaded.
WithLessons(s) ==
    IF Learns(s) THEN [s EXCEPT !.collections = @ \cup {LessonsCollection}] ELSE s
=============================================================================
