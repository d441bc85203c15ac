---------------------------- MODULE MCDefinitions ----------------------------
(***************************************************************************)
(* Small catalogs for the loader: one that is accepted, and those that     *)
(* differ from it by one or two edits of its documents.                    *)
(***************************************************************************)
EXTENDS Loader, TLC

F(processor, leaf, type) ==
    [processor |-> processor, leaf |-> leaf, type |-> type, many |-> FALSE, filter |-> TRUE,
     sort |-> TRUE, project |-> TRUE]

Processor(name, kind, origin, sets, scores, leaves) ==
    [name |-> name, kind |-> kind, source |-> origin, sets |-> sets, scores |-> scores,
     leaves |-> leaves, sound |-> TRUE, model |-> IF "model" \in sets THEN "main" ELSE "",
     questions |-> {}, supersedes |-> "", inputs |-> {"notes", "sums", "edges"}, typed |-> FALSE]

Collection(name, version, active, mode, leaves, fields, required) ==
    [name |-> name, version |-> version, active |-> active, mode |-> mode, sound |-> TRUE,
     leaves |-> [text |-> "string"] @@ leaves, requiresText |-> TRUE, projection |-> {},
     fields |-> fields, required |-> required, optional |-> {"themes"}, profile |-> "pg_default",
     allowed |-> {"other"}]

Scope(names) == [collections |-> names, versions |-> <<>>]
Request(mode, names, where, order) ==
    Scope(names) @@ [mode |-> mode, where |-> where, order |-> order, rank |-> {}]
Query(requests) ==
    [sound |-> TRUE, sources |-> requests, asks |-> TRUE, fuses |-> FALSE, boost |-> {}, k |-> 10,
     judged |-> FALSE, anchors |-> {}, fields |-> {"topic"}, annotations |-> {}]

NoteFields == [topic |-> F("topics", "topic", "string"), due |-> F("", "due", "datetime")]
NoteLeaves == [due |-> "datetime"]
Equals == [ops |-> {"eq"}, operand |-> "string"]

View(name, kind, parameters, query, graph) ==
    [name |-> name, version |-> 1, active |-> TRUE, sound |-> TRUE, kind |-> kind,
     parameters |-> parameters, refs |-> {}, query |-> query, graph |-> graph, needs |-> {}]

Input(kind, names) ==
    Scope(names) @@ [kind |-> kind, types |-> {}, statuses |-> {"active"}, keyed |-> "any",
                     most |-> 10, empty |-> FALSE, tokens |-> 1, view |-> <<>>, params |-> <<>>]
Task(id, use, refs) ==
    [id |-> id, use |-> use, sound |-> TRUE, input |-> use \in {"computer", "agent", "judge"},
     refs |-> refs, model |-> "", tokens |-> 1, spec |-> {}, k |-> 0, foreach |-> FALSE, steps |-> 1,
     computer |-> <<"box", 1>>, program |-> <<"count", 1>>, agent |-> <<"writer", 1>>,
     policy |-> <<"brief", 1>>]
Emission(collection, keys) ==
    [from |-> "write", collection |-> collection, version |-> 0, type |-> "profile", keys |-> keys,
     driverKey |-> FALSE, dynamicKeys |-> FALSE, complete |-> TRUE, review |-> TRUE, most |-> 5]
Watch(names) == Scope(names) @@ [types |-> {}, statuses |-> {"active"}, where |-> <<>>,
                                 own |-> FALSE, field |-> "due"]

Limits == [tasks |-> 9, llm |-> 4, retrieved |-> 20, visible |-> 30, tokens |-> 9, computers |-> 2,
           steps |-> 4, judgments |-> 0]

Summarize ==
    [name |-> "summarize", sound |-> TRUE, model |-> "", limits |-> Limits,
     sources |-> [new |-> Input("changes", {"notes"}),
                  before |-> Input("current", {"sums"}),
                  recent |-> [Input("view", {}) EXCEPT !.view = <<"recent", 0>>,
                                !.params = [topic |-> "template"]]],
     tasks |-> <<[Task("found", "search", {"new"}) EXCEPT !.k = 10,
                    !.spec = {Query({Request("text", {"notes", "sums"}, [topic |-> Equals], {})})}],
                 Task("counted", "computer", {"found"}),
                 Task("thought", "agent", {"counted"}),
                 Task("write", "llm", {"before", "recent", "thought"})>>,
     emit |-> Emission("sums", {"profile"}),
     trigger |-> {[sound |-> TRUE, others |-> {"cron"},
        accumulator |-> {[score |-> "weight", annotation |-> "", leaf |-> "", sums |-> TRUE]},
        scopes |-> [write |-> Watch({"notes"}),
                    at |-> [Watch({"notes"}) EXCEPT !.where = [topic |-> Equals]]]]}]

Block(names, view, args) ==
    [collections |-> names, status |-> "active", view |-> view, args |-> args, tokens |-> 1,
     required |-> TRUE, refs |-> {}]
Artifact(name, kind, blocks) ==
    [name |-> name, version |-> 1, active |-> TRUE, sound |-> TRUE, kind |-> kind,
     lifecycle |-> "live", parameters |-> [entity |-> P("string", TRUE)],
     refs |-> DOMAIN blocks, blocks |-> blocks, snapshot |-> {}, processor |-> "", keys |-> {},
     learning |-> {}, lessons |-> {}, described |-> TRUE]

Tool(kind) == [kind |-> kind, view |-> <<>>, artifact |-> <<>>, pack |-> "", path |-> "",
               args |-> <<>>, learning |-> {}]

Listed(s) ==
    [name |-> "all", version |-> 1, sound |-> TRUE, collections |-> Refs(s.collections),
     views |-> Refs(s.views), artifacts |-> Refs(s.artifacts), computers |-> Refs(s.computers),
     programs |-> Refs(s.programs), agents |-> Refs(s.agents), policies |-> Refs(s.policies),
     toolsets |-> Refs(s.toolsets), mcp |-> <<"mcp", 1>>,
     processors |-> Names(s.processors) \cup Names(s.derivations),
     triggers |-> Names(AllTriggers(s)), profiles |-> {"pg_default"}, optional |-> {"other"},
     retentions |-> {[sound |-> TRUE, collection |-> <<"sums", 1>>]}]

Unpacked ==
    [models |->
        [sound |-> TRUE,
         providers |-> [one |-> [uses |-> {"completion", "embedding"}],
                        two |-> [uses |-> {"completion", "judgment"}]],
         aliases |-> [main |-> [targets |-> {"one", "two"}, context |-> 0, params |-> TRUE],
                      judge |-> [targets |-> {"two"}, context |-> 0, params |-> FALSE]],
         derivation |-> "main", fold |-> "main", embedding |-> "one"],
     processors |->
        {Processor("embed", "embedding", "", {}, {}, <<>>),
         Processor("weight", "score", "llm", {"scale", "default", "model", "prompt"}, {}, <<>>),
         Processor("client", "score", "client", {"scale"}, {}, <<>>),
         [Processor("topics", "json", "llm",
            {"output_schema", "model", "prompt", "score_fields", "default_output"}, {"heat"},
            [topic |-> "string", heat |-> "number"]) EXCEPT !.supersedes = "themes"],
         Processor("themes", "json", "client", {"output_schema"}, {}, [topic |-> "string"])},
     rank |-> [mode \in Modes \ {"structured"} |->
                [scores |-> {"weight"}, leaves |-> IF mode = "recent" THEN {} ELSE
                    {IF mode = "text" THEN "text_match" ELSE "similarity"}]],
     profiles |-> {[name |-> "pg_default", sound |-> TRUE, backend |-> "pg", options |-> {}],
                   [name |-> "other", sound |-> TRUE, backend |-> "turbopuffer",
                    options |-> {"enabled_if_credentials"}]},
     credentials |-> TRUE, orderScore |-> "weight",
     configured |-> {"collections", "derivations", "views", "artifacts"},
     collections |->
        {Collection("notes", 1, FALSE, "event", NoteLeaves, NoteFields, {"topics", "weight"}),
         Collection("notes", 2, TRUE, "event", NoteLeaves, NoteFields, {"topics", "weight"}),
         Collection("sums", 1, TRUE, "keyed", <<>>, [topic |-> F("topics", "topic", "string")],
                    {"topics", "embed"}),
         Collection("edges", 1, TRUE, "event",
            [leaf \in {"subject", "object", "predicate"} |-> "string"],
            [leaf \in {"subject", "object", "predicate"} |-> F("", leaf, "string")], {})},
     derivations |-> {Summarize},
     triggers |-> {[name |-> "nightly", processor |-> "summarize", sound |-> TRUE, accumulator |-> {},
                    others |-> {"cron"}, scopes |-> [census |-> Watch({"notes"})]]},
     views |->
        {View("recent", "search", [topic |-> P("string", TRUE)],
            {[Query({Request("structured", {"notes", "sums"}, [topic |-> Equals], {"topic"})})
                EXCEPT !.annotations = {"topics"}]}, {}),
         View("late", "search", <<>>,
            {[Query({Request("recent", {"notes"}, [due |-> [ops |-> {"lt"}, operand |-> "datetime"]], {}),
                    Request("hybrid", {"sums"}, <<>>, {})}) EXCEPT !.fuses = TRUE,
                !.boost = {[scores |-> {"heat"}, leaves |-> {}]}]}, {}),
         View("near", "graph", GraphParameters, {},
            {[edges |-> "edges", subject |-> "subject", object |-> "object",
              predicate |-> "predicate", nodes |-> ""]}),
         View("alone", "graph_orphans", OrphanParameters, {},
            {[edges |-> "edges", subject |-> "subject", object |-> "object",
              predicate |-> "predicate", nodes |-> "sums"]})},
     artifacts |->
        {[Artifact("profile", "profile", [body |-> Block({"sums"}, <<>>, <<>>)]) EXCEPT
            !.lifecycle = "reviewed", !.processor = "summarize", !.keys = {"profile"}],
         [Artifact("prompt", "prompt",
            [who |-> Block({"sums"}, <<>>, <<>>),
             what |-> Block({}, <<"recent", 1>>, [topic |-> "string"])]) EXCEPT
            !.learning = {[block |-> "who", artifact |-> <<"profile", 1>>]},
            !.snapshot = {[collection |-> "sums", entity |-> FALSE]}],
         Artifact("craft", "skill", <<>>)},
     computers |-> {[name |-> "box", version |-> 1, active |-> TRUE, sound |-> TRUE,
        context |-> {<<"prompt", 1>>}, runtimes |-> {"container"},
        writeback |-> [out |-> <<"notes", 2>>],
        capabilities |-> {"exec", "filesystem"}, writable |-> {"/outbox"}]},
     programs |-> {[name |-> "count", version |-> 1, active |-> TRUE, sound |-> TRUE,
        runtime |-> "container", capabilities |-> {"exec"}]},
     policies |-> {[name |-> "brief", version |-> 1, active |-> TRUE, sound |-> TRUE]},
     toolsets |-> {[name |-> "kit", version |-> 1, sources |->
        {[Tool("view") EXCEPT !.view = <<"late", 1>>],
         [Tool("skill") EXCEPT !.artifact = <<"craft", 1>>,
            !.learning = {[kinds |-> {}, require |-> {"tip"}, code |-> {}]}],
         [Tool("skillpack") EXCEPT !.pack = "pack"], Tool("exec"),
         [Tool("writeback") EXCEPT !.path = "out"]}]},
     packs |-> [pack |-> [lessons |-> {}, capabilities |-> {"filesystem"}]],
     harnesses |-> {"plain"},
     agents |-> {[name |-> "writer", version |-> 1, active |-> TRUE, sound |-> TRUE, model |-> "main",
        instructions |-> <<"prompt", 1>>, skills |-> {}, computers |-> {<<"box", 1>>},
        policy |-> <<"brief", 1>>, toolset |-> <<"kit", 1>>, harness |-> "plain"],
        [name |-> "skilled", version |-> 1, active |-> FALSE, sound |-> TRUE, model |-> "main",
        instructions |-> <<"prompt", 1>>, skills |-> {<<"craft", 1>>}, computers |-> {<<"box", 1>>},
        policy |-> <<"brief", 1>>, toolset |-> <<>>, harness |-> ""]},
     mcps |-> {[name |-> "mcp", version |-> 1, tools |->
        {[kind |-> "view", target |-> <<"late", 1>>, agent |-> <<>>, program |-> <<>>, policy |-> <<>>],
         [kind |-> "ingest", target |-> <<"notes", 2>>, agent |-> <<>>, program |-> <<>>, policy |-> <<>>],
         [kind |-> "invocation", target |-> <<"box", 1>>, agent |-> <<"writer", 1>>,
          program |-> <<>>, policy |-> <<"brief", 1>>]}]},
     packages |-> {}, overrides |-> <<>>]

Base == [Unpacked EXCEPT !.packages = {Listed(Unpacked)}]


(***************************************************************************)
(* Catalogs that differ from it by an edit: a document is dropped, or one  *)
(* of its fields gets another value.                                       *)
(***************************************************************************)
Families == {"processors", "profiles", "collections", "derivations", "triggers", "views", "artifacts",
             "computers", "programs", "policies", "toolsets", "agents", "mcps", "packages"}

\* What the fields of a document may have instead.
Others(family) ==
    CASE family = "processors" ->
            [sound |-> {FALSE}, supersedes |-> {"", "weight", "topics"}, inputs |-> {{"notes"}, {"none"}},
             typed |-> {TRUE}, model |-> {"judge", "none"}, source |-> {"client", "judgment", "constant"},
             sets |-> {{"scale"}, {"output_schema"}, {"output_schema", "model", "prompt"}},
             scores |-> {{}, {"topic"}, {"weight"}}]
      [] family = "profiles" ->
            [name |-> {"other"}, backend |-> {"pg", "none"}, options |-> {{"layout"}, {"none"}}]
      [] family = "collections" ->
            [active |-> BOOLEAN, sound |-> {FALSE}, version |-> {1, 2, 3}, mode |-> {"event", "keyed"},
             requiresText |-> {FALSE}, profile |-> {"other"}, allowed |-> {{}, {"none"}},
             required |-> {{}, {"weight"}, {"topics"}, {"topics", "embed", "client"}},
             optional |-> {{}, {"weight"}, {"none"}},
             fields |-> {<<>>, [topic |-> F("themes", "topic", "string")],
                [topic |-> F("topics", "topic", "string") ] @@ [due |-> F("", "due", "string")],
                [topic |-> [F("topics", "heat", "number") EXCEPT !.project = FALSE], due |-> F("", "due", "datetime")],
                [topic |-> [F("topics", "topic", "string") EXCEPT !.sort = FALSE, !.filter = FALSE]]}]
      [] family = "views" ->
            [name |-> {"recent"}, active |-> BOOLEAN, version |-> {2}, kind |-> {"search", "graph"},
             parameters |-> {<<>>, [topic |-> P("integer", FALSE)]},
             query |-> {{}} \cup {{Query({Request(mode, names, where, order)})} :
                mode \in {"structured", "vector"}, names \in {{"notes"}, {"notes", "edges"}, {"none"}},
                where \in {<<>>, [due |-> Equals], [predicate |-> Equals]}, order \in {{}, {"topic"}}},
             graph |-> {{}, {[edges |-> "notes", subject |-> "topic", object |-> "topic",
                              predicate |-> "topic", nodes |-> "edges"]}}]
      [] family = "artifacts" ->
            [active |-> BOOLEAN, version |-> {2}, kind |-> {"skill", "prompt"}, lifecycle |-> {"live", "reviewed"},
             processor |-> {"", "summarize"}, keys |-> {{}, {"profile"}}, parameters |-> {<<>>},
             learning |-> {{}, {[block |-> "who", artifact |-> <<"craft", 1>>]}}, described |-> {FALSE},
             lessons |-> {{[kinds |-> {"fact"}, require |-> {}, code |-> {}]}},
             snapshot |-> {{[collection |-> name, entity |-> TRUE] } : name \in {"edges", "none"}}]
      [] family = "computers" ->
            [active |-> BOOLEAN, version |-> {2}, context |-> {{}, {<<"prompt", 2>>}}, runtimes |-> {{"isolate"}},
             writeback |-> {<<>>, [out |-> <<"none", 1>>]}, writable |-> {{}},
             capabilities |-> {{"filesystem"}, {"exec"}}]
      [] family = "programs" ->
            [sound |-> {FALSE}, version |-> {2}, runtime |-> {"isolate"}, capabilities |-> {{}, {"network"}}]
      [] family = "policies" -> [sound |-> {FALSE}, version |-> {2}, name |-> {"none"}]
      [] family = "toolsets" ->
            [version |-> {2}, sources |-> {{}, {Tool("mcp_server")}, {[Tool("writeback") EXCEPT !.path = "none"]},
                {[Tool("view") EXCEPT !.view = <<"recent", 1>>]}, {[Tool("skillpack") EXCEPT !.pack = "none"]},
                {[Tool("skill") EXCEPT !.artifact = <<"prompt", 1>>]}, {[Tool("exec") EXCEPT !.path = "out"]},
                {[Tool("skill") EXCEPT !.artifact = <<"craft", 1>>, !.learning = learning] :
                    learning \in {{}, {[kinds |-> {"fact"}, require |-> {}, code |-> {}]}}},
                {[Tool("skillpack") EXCEPT !.pack = "pack",
                    !.learning = {[kinds |-> {"fact"}, require |-> {"tip"}, code |-> {}]}]}}]
      [] family = "agents" ->
            [version |-> {2}, model |-> {"judge"}, instructions |-> {<<"none", 1>>}, skills |-> {{<<"craft", 1>>}, {<<"prompt", 1>>}},
             computers |-> {{}}, policy |-> {<<"none", 1>>}, toolset |-> {<<>>, <<"kit", 1>>, <<"none", 1>>},
             harness |-> {"none"}]
      [] family = "mcps" ->
            [version |-> {2}, tools |-> {{[kind |-> kind, target |-> target, agent |-> <<>>, program |-> <<>>, policy |-> <<>>]} :
                kind \in {"view", "artifact", "ingest", "invocation"}, target \in {<<"recent", 1>>, <<"none", 1>>, <<>>}}]
      [] family = "triggers" ->
            [name |-> {"summarize.default"}, processor |-> {"none"}, others |-> {{}},
             scopes |-> {<<>>, [census |-> Watch({"none"})], [quiet |-> Watch({"notes"})],
                [write |-> Watch({"sums"})], [write |-> [Watch({"notes"}) EXCEPT !.own = TRUE]]}]
      [] family = "packages" ->
            [sound |-> {FALSE}, optional |-> {{}}, profiles |-> {{}, {"pg_default", "other"}},
             retentions |-> {{[sound |-> TRUE, collection |-> <<"notes", 2>>]}}]
                @@ [list \in {"collections", "views", "artifacts", "computers", "programs", "agents",
                              "policies", "toolsets", "processors", "triggers"} |->
                    {Only(Base.packages)[list] \ {item} : item \in Only(Base.packages)[list]}]
      [] OTHER -> <<>>

\* A pipeline that is edited.
Pipelines ==
    LET d == Summarize IN
    {[d EXCEPT !.limits[limit] = 0] : limit \in DOMAIN d.limits} \cup
    {[d EXCEPT !.limits.retrieved = 99], [d EXCEPT !.limits.visible = 99], [d EXCEPT !.model = "judge"]} \cup
    {[d EXCEPT !.sources[name].kind = kind] : name \in DOMAIN d.sources, kind \in {"changes", "current"}} \cup
    {[d EXCEPT !.sources[name].collections = names] :
        name \in {"new", "before"}, names \in {{"notes"}, {"edges"}, {"none"}, {"_system"}}} \cup
    {[d EXCEPT !.sources.new.versions = ("notes" :> versions)] : versions \in {{1}, {1, 2}, {3}}} \cup
    {[d EXCEPT !.sources.recent.view = ref] : ref \in {<<"recent", 1>>, <<"recent", 2>>, <<"late", 0>>}} \cup
    {[d EXCEPT !.sources.recent.params = <<>>], [d EXCEPT !.tasks = <<>>]} \cup
    {[d EXCEPT !.tasks[i].id = id] : i \in DOMAIN d.tasks, id \in {"found", "item"}} \cup
    {[d EXCEPT !.tasks[i].use = use] : i \in DOMAIN d.tasks, use \in {"llm", "judge", "template", "agent"}} \cup
    {[d EXCEPT !.tasks[i].input = ~@] : i \in DOMAIN d.tasks} \cup
    {[d EXCEPT !.tasks[i].refs = refs] : i \in DOMAIN d.tasks, refs \in {{}, {"new"}, {"write"}, {"item"}}} \cup
    {[d EXCEPT !.tasks[1].spec = {spec}] : spec \in
        {Query({Request("text", names, <<>>, {})}) : names \in {{"edges"}, {"none"}}}} \cup
    {[d EXCEPT !.tasks[1].foreach = TRUE], [d EXCEPT !.tasks[4].model = "judge"]} \cup
    {[d EXCEPT !.tasks[2].program = <<"count", 2>>], [d EXCEPT !.tasks[2].computer = <<"box", 2>>],
     [d EXCEPT !.tasks[3].agent = <<"writer", 2>>], [d EXCEPT !.tasks[3].policy = <<"none", 1>>],
     [d EXCEPT !.tasks[3].steps = 9], [d EXCEPT !.tasks[4].tokens = 9]} \cup
    {[d EXCEPT !.emit = emit] : emit \in
        {[d.emit EXCEPT !.collection = name] : name \in {"notes", "edges", "none"}} \cup
        {[d.emit EXCEPT !.version = version] : version \in {1, 2}} \cup
        {[d.emit EXCEPT !.review = FALSE], [d.emit EXCEPT !.complete = FALSE],
         [d.emit EXCEPT !.keys = {}], [d.emit EXCEPT !.keys = {}, !.complete = FALSE],
         [d.emit EXCEPT !.keys = {}, !.complete = FALSE, !.review = FALSE, !.dynamicKeys = TRUE],
         [d.emit EXCEPT !.driverKey = TRUE], [d.emit EXCEPT !.type = "other"],
         [d.emit EXCEPT !.from = "none"]}} \cup
    {[d EXCEPT !.trigger = triggers] : triggers \in
        {{}} \cup
        {{[Only(d.trigger) EXCEPT !.accumulator = {[score |-> score, annotation |-> name, leaf |-> leaf, sums |-> TRUE]}]} :
            score \in {"", "count", "heat", "client"}, name \in {"", "topics", "none"}, leaf \in {"topic", "heat"}} \cup
        {{[Only(d.trigger) EXCEPT !.scopes = ("at" :> [Watch({"notes"}) EXCEPT !.field = field])]} :
            field \in {"topic", "none"}} \cup
        {{[Only(d.trigger) EXCEPT !.scopes = (condition :> [Watch(names) EXCEPT !.where = where])]} :
            condition \in {"write", "changed", "census", "at"},
            names \in {{"notes"}, {"none"}, {"_system"}, {"sums"}},
            where \in {<<>>, [predicate |-> Equals], [due |-> Equals]}}}

Edits(s) ==
    UNION {LET others == Others(family) IN
        {[s EXCEPT ![family] = @ \ {d}] : d \in s[family]} \cup
        UNION {{[s EXCEPT ![family] = (@ \ {d}) \cup {[d EXCEPT ![field] = value]}] :
                    value \in others[field] \ {d[field]}} : d \in s[family], field \in DOMAIN others} :
        family \in Families} \cup
    {[s EXCEPT !.derivations = {d}] : d \in Pipelines}

\* A collection without an active version, and a view of it.
Spare == Collection("spare", 1, FALSE, "event", <<>>, <<>>, {"topics"})
Spared == View("spared", "search", <<>>, {[Query({Request("recent", {"spare"}, <<>>, {})}) EXCEPT !.fields = {}]}, {})

\* Other models and rank defaults.
Renamed(s) ==
    {[s EXCEPT !.models = m] : m \in
        {[s.models EXCEPT ![field] = "none"] : field \in {"derivation", "fold", "embedding"}} \cup
        {[s.models EXCEPT !.embedding = "two"], [s.models EXCEPT !.aliases.main.targets = {"none"}],
         [s.models EXCEPT !.aliases.main.context = 5], [s.models EXCEPT !.aliases.judge.params = TRUE],
         [s.models EXCEPT !.aliases.judge.targets = {"one", "two"}],
         [s.models EXCEPT !.providers.two.uses = {"embedding"}]}} \cup
    {[s EXCEPT !.orderScore = "none"], [s EXCEPT !.overrides = "none" :> "other"],
     [s EXCEPT !.overrides = "lessons" :> "other"],
     [s EXCEPT !.packages = {}, !.credentials = FALSE, !.overrides = [name \in {"notes", "sums"} |-> "other"]],
     [s EXCEPT !.overrides = "notes" :> "none"],
     [s EXCEPT !.collections = @ \cup {Spare}],
     [s EXCEPT !.collections = @ \cup {Spare}, !.views = @ \cup {Spared}, !.packages = {Listed([s EXCEPT !.views = @ \cup {Spared}])}]} \cup
    {[s EXCEPT !.rank.text.scores = {"none"}], [s EXCEPT !.rank.recent.leaves = {"similarity"}]}

\* Catalogs of one view of the two versions of a collection.
Viewed(s) ==
    {[s EXCEPT !.packages = {}, !.configured = {}, !.derivations = {}, !.triggers = {}, !.agents = {},
               !.computers = {}, !.mcps = {}, !.toolsets = {}, !.artifacts = {},
               !.collections =
                {[Collection("notes", 1, FALSE, "event", NoteLeaves, fields, required)
                    EXCEPT !.allowed = allowed, !.optional = {}],
                 Collection("notes", 2, TRUE, "event", NoteLeaves, NoteFields, {"topics", "weight"})} \cup
                {col \in s.collections : col.name \in {"sums", "edges"}},
               !.views = {View("one", "search", <<>>, {[Query({request}) EXCEPT !.fields = shown]}, {})}] :
        required \in {{}, {"topics"}, {"themes"}}, allowed \in {{}, {"other"}},
        fields \in {NoteFields, NoteFields @@ [other |-> F("", "due", "datetime")],
                    [topic |-> F("topics", "topic", "string")]},
        shown \in {{}, {"topic"}, {"due"}},
        request \in {[Request("recent", {"notes"}, where, {}) EXCEPT !.versions = versions] :
            where \in {<<>>, [topic |-> Equals], [due |-> [ops |-> {"exists"}, operand |-> ""]]},
            versions \in {<<>>, "notes" :> {2}}}}

MCLimits == [context |-> 8, prompt |-> 6, output |-> 2, derivedFrom |-> 31, run |-> 9, render |-> 3,
             depth |-> 2]
MCSources == {Base} \cup Edits(Base) \cup Renamed(Base) \cup Viewed(Base)

\* Deployments of a catalog: as it is, and without its package, with other
\* bindings.
MCDeployments(s) ==
    {s} \cup
    {[s EXCEPT !.packages = {}, !.overrides = [name \in names |-> "other"]] :
        names \in {{}, {"notes"}, {"notes", "sums"}}}
=============================================================================
