------------------------- MODULE PackageDefinitions -------------------------
(***************************************************************************)
(* What the loader asks of Computers, programs, agents, toolsets and MCP   *)
(* interfaces, and of the packages that ship them (definitions/loader.py   *)
(* _load_computers to _load_packages; definitions/models.py).              *)
(*                                                                         *)
(* A reference here is exact: a name and a version.  The reference <<>> is *)
(* one that is omitted.                                                    *)
(***************************************************************************)
EXTENDS PipelineDefinitions

Refs(docs) == {Ref(d) : d \in docs}
Given(ref) == {ref} \ {<<>>}

(***************************************************************************)
(* Computers, programs and context policies.                               *)
(***************************************************************************)
\* ComputerDefinition and ProgramDefinition.  The path of a result is one
\* below /outbox.
IsComputer(computer) ==
    computer.sound /\ (DOMAIN computer.writeback # {} => "/outbox" \in computer.writable)

IsProgram(program) ==
    program.sound /\ (program.runtime = "container" => "exec" \in program.capabilities)

ComputersOk(s) ==
    /\ OneActive(s.computers) /\ Filled(s, "computers")
    /\ \A computer \in s.computers :
        /\ IsComputer(computer) /\ computer.context \subseteq Refs(s.artifacts)
        /\ \A path \in DOMAIN computer.writeback :
            Given(computer.writeback[path]) \subseteq Refs(s.collections)

ProgramsOk(s) ==
    /\ OneActive(s.programs) /\ Filled(s, "programs")
    /\ \A program \in s.programs : IsProgram(program)

PoliciesOk(s) ==
    /\ OneActive(s.policies) /\ Filled(s, "policies")
    /\ \A policy \in s.policies : policy.sound

(***************************************************************************)
(* Toolsets: what an agent is offered as tools.                            *)
(***************************************************************************)
\* _TOOL_SOURCE_FIELDS and ToolSourceDefinition: what a source of a kind must
\* bind, and what it may.
MustBind(kind) ==
    CASE kind = "skill" -> {"artifact"} [] kind = "view" -> {"view"}
      [] kind = "skillpack" -> {"pack"} [] kind = "writeback" -> {"path"} [] OTHER -> {}

MayBind(kind) ==
    MustBind(kind) \cup CASE kind \in {"skill", "skillpack"} -> {"learning"}
                          [] kind = "view" -> {"args"} [] OTHER -> {}

IsTool(source) ==
    LET binds == {"view" : x \in Given(source.view)} \cup {"artifact" : x \in Given(source.artifact)} \cup
                 {"pack" : x \in {source.pack} \ {""}} \cup {"path" : x \in {source.path} \ {""}} \cup
                 {"args" : x \in DOMAIN source.args} \cup {"learning" : x \in source.learning}
    IN  MustBind(source.kind) \subseteq binds /\ binds \subseteq MayBind(source.kind)

\* The directory that a skill is installed in, under which its lessons are
\* filed (installed_skill_name).
Installed(source) == IF source.kind = "skillpack" THEN source.pack ELSE source.artifact[1]

\* ToolsetDefinition.
IsToolset(toolset) ==
    /\ toolset.sources # {} /\ \A source \in toolset.sources : IsTool(source)
    /\ \A a, b \in toolset.sources :
        a # b /\ a.kind = b.kind =>
            /\ a.kind \notin {"filesystem", "exec", "recall"}
            /\ a.kind \in {"skill", "skillpack"} => Installed(a) # Installed(b)
            /\ a.kind = "writeback" => a.path # b.path
    /\ \A a, b \in {c \in toolset.sources : c.learning # {}} : Installed(a) = Installed(b) => a = b

\* The layers of what is worth learning with a skill: what the skill says,
\* and what the source in the toolset adds (_declared_lessons, resolve).
Layers(s, source) ==
    (IF source.kind = "skillpack" THEN s.packs[source.pack].lessons
     ELSE Only(Exact(s.artifacts, source.artifact)).lessons) \cup source.learning

\* undeclared_kinds: what must be recorded, or must have code, is a kind.
LessonsAgree(s, source) ==
    LET kinds == UNION {layer.kinds : layer \in Layers(s, source)}
        ours == Only(source.learning)
        theirs == Layers(s, source) \ source.learning
        last(field) == IF ours[field] # {} \/ theirs = {} THEN ours[field] ELSE Only(theirs)[field]
    IN  last("require") \cup last("code") \subseteq
            (IF kinds = {} THEN {"helper", "tip", "pitfall"} ELSE kinds)

\* A view that is a tool is active, and takes no parameters from the model.
ViewToolOk(s, source) ==
    \E view \in Exact(s.views, source.view) :
        /\ view.active /\ DOMAIN source.args \subseteq DOMAIN view.parameters
        /\ RequiredParameters(view) \subseteq DOMAIN source.args \cup {"entity"}
        /\ ArgumentsFit(view, source.args)

SkillToolOk(s, source) ==
    \E artifact \in Exact(s.artifacts, source.artifact) :
        artifact.kind = "skill" /\ artifact.described

ToolsetsOk(s) ==
    /\ \A t, u \in s.toolsets : Ref(t) = Ref(u) => t = u
    /\ \A toolset \in s.toolsets : IsToolset(toolset)
    /\ \A toolset \in s.toolsets : \A source \in toolset.sources :
        /\ source.kind = "view" => ViewToolOk(s, source)
        /\ source.kind = "skill" => SkillToolOk(s, source)
        /\ source.kind = "skillpack" => source.pack \in DOMAIN s.packs
        /\ source.learning # {} => LessonsAgree(s, source)

(***************************************************************************)
(* Agents, and the tasks that name the four families (_load_agents,        *)
(* _validate_computer_task_references).                                    *)
(***************************************************************************)
\* The capability that a tool needs of the Computer it runs on.
Needs(s, source) ==
    CASE source.kind \in {"exec", "filesystem"} -> {source.kind}
      [] source.kind = "mcp_server" -> {"network"}
      [] source.kind = "skillpack" -> s.packs[source.pack].capabilities
      [] OTHER -> {}

\* _validate_agent_toolset: a toolset never widens what a Computer grants.
ToolsetFits(s, toolset, computer) ==
    \A source \in toolset.sources :
        /\ source.kind = "writeback" => source.path \in DOMAIN computer.writeback
        /\ Needs(s, source) \subseteq computer.capabilities
        /\ source.learning # {} => "/outbox" \in computer.writable

\* AgentDefinition: a toolset takes the place of the skills.
IsAgent(agent) ==
    agent.sound /\ agent.computers # {} /\ (agent.toolset # <<>> => agent.skills = {})

AgentOk(s, agent) ==
    /\ IsAgent(agent) /\ CanUse(s.models, agent.model, "completion")
    /\ {agent.instructions} \cup agent.skills \subseteq Refs(s.artifacts)
    /\ \A skill \in agent.skills : Only(Exact(s.artifacts, skill)).kind = "skill"
    /\ agent.computers \subseteq Refs(s.computers) /\ agent.policy \in Refs(s.policies)
    /\ \A ref \in Given(agent.toolset) : \E toolset \in Exact(s.toolsets, ref) :
        \A computer \in {c \in s.computers : Ref(c) \in agent.computers} :
            ToolsetFits(s, toolset, computer)
    /\ agent.harness \in s.harnesses \cup {""}

AgentsOk(s) ==
    /\ OneActive(s.agents) /\ Filled(s, "agents")
    /\ \A agent \in s.agents : AgentOk(s, agent)

RunsOk(s, task) ==
    /\ task.use = "computer" =>
        \E computer \in Exact(s.computers, task.computer), program \in Exact(s.programs, task.program) :
            program.runtime \in computer.runtimes /\ program.capabilities \subseteq computer.capabilities
    /\ task.use = "agent" =>
        /\ task.computer \in Refs(s.computers) /\ task.policy \in Refs(s.policies)
        /\ \E agent \in Exact(s.agents, task.agent) : task.computer \in agent.computers

TaskReferencesOk(s) == \A d \in s.derivations : \A task \in TasksOf(d) : RunsOk(s, task)

(***************************************************************************)
(* MCP interfaces.  An invocation is looked at when a package ships it.    *)
(***************************************************************************)
\* McpToolDefinition: a kind has its target, and only an invocation more.
IsMcpTool(tool) ==
    /\ (tool.target # <<>>) = (tool.kind \in {"view", "artifact", "ingest", "invocation"})
    /\ IF tool.kind = "invocation"
       THEN /\ (tool.agent = <<>>) # (tool.program = <<>>)
            /\ (tool.agent = <<>>) = (tool.policy = <<>>)
       ELSE {tool.agent, tool.program, tool.policy} = {<<>>}

McpsOk(s) ==
    /\ \A m, n \in s.mcps : Ref(m) = Ref(n) => m = n
    /\ \A mcp \in s.mcps : \A tool \in mcp.tools :
        /\ IsMcpTool(tool)
        /\ tool.kind = "view" => tool.target \in Refs(s.views)
        /\ tool.kind = "artifact" => tool.target \in Refs(s.artifacts)
        /\ tool.kind = "ingest" => tool.target \in Refs(s.collections)

(***************************************************************************)
(* Packages: a list of definitions that is closed under what they name.    *)
(***************************************************************************)
Shipped(docs, refs) == {d \in docs : Ref(d) \in refs}

IsPackage(package) == package.sound /\ package.profiles \cap package.optional = {}

\* _with_lessons.
WithItsLessons(s, package) ==
    IF \E t \in Shipped(s.toolsets, package.toolsets) : \E source \in t.sources : source.learning # {}
    THEN [package EXCEPT !.collections = @ \cup {<<"lessons", 1>>}] ELSE package

\* _validate_package: all that is listed is declared.
ListedOk(s, package) ==
    /\ package.collections \subseteq Refs(s.collections) /\ package.views \subseteq Refs(s.views)
    /\ package.artifacts \subseteq Refs(s.artifacts) /\ package.computers \subseteq Refs(s.computers)
    /\ package.programs \subseteq Refs(s.programs) /\ package.agents \subseteq Refs(s.agents)
    /\ package.policies \subseteq Refs(s.policies) /\ package.toolsets \subseteq Refs(s.toolsets)
    /\ Given(package.mcp) \subseteq Refs(s.mcps)
    /\ package.processors \subseteq Names(s.processors) \cup Names(s.derivations)
    /\ package.triggers \subseteq Names(AllTriggers(s))
    /\ package.profiles \cup package.optional \subseteq Names(s.profiles)
    /\ \A retention \in package.retentions :
        /\ retention.sound /\ retention.collection \in package.collections
        /\ \A col \in Exact(s.collections, retention.collection) : HoldsKeys(col)

\* _validate_package_mcp_binding and _validate_package_toolset_binding.
ToolsListed(s, package) ==
    /\ \A mcp \in Shipped(s.mcps, {package.mcp}) : \A tool \in mcp.tools :
        /\ tool.kind = "view" => tool.target \in package.views
        /\ tool.kind = "artifact" => tool.target \in package.artifacts
        /\ tool.kind = "invocation" =>
            /\ tool.target \in package.computers
            /\ Given(tool.agent) \subseteq package.agents
            /\ Given(tool.program) \subseteq package.programs
            /\ Given(tool.policy) \subseteq package.policies
    /\ \A toolset \in Shipped(s.toolsets, package.toolsets) : \A source \in toolset.sources :
        /\ Given(source.view) \subseteq package.views
        /\ Given(source.artifact) \subseteq package.artifacts

\* What a scope of a package reads: the versions it pins, or the active one.
PackagedScope(s, scope) ==
    UNION {{<<name, version>> : version \in
        IF name \in DOMAIN scope.versions THEN scope.versions[name] ELSE ActiveVersions(s, name)} :
            name \in scope.collections \ {"_system"}}

\* A name that is not pinned and has no active version ends the load with a
\* KeyError, which is no DefinitionError.
Unresolved(s, scope) ==
    \E name \in scope.collections \ ({"_system"} \cup DOMAIN scope.versions) :
        ActiveVersions(s, name) = {}

ActiveRefs(s, names) == Refs({col \in s.collections : col.active /\ col.name \in names})

\* The collections that a definition requires.
ReadBy(s, d) ==
    {<<d.emit.collection, d.emit.version>>} \cup
    UNION {PackagedScope(s, d.sources[name]) : name \in OfKind(d, Streams \cup {"current", "record"})}

ShownBy(s, view) ==
    UNION ({PackagedScope(s, source) : source \in UNION {spec.sources : spec \in view.query}} \cup
           {ActiveRefs(s, {graph.edges, graph.nodes}) : graph \in view.graph})

Metrics(trigger) ==
    {IF m.score # "" THEN m.score ELSE m.annotation : m \in trigger.accumulator} \ {"count"}

Views(artifact) ==
    {artifact.blocks[b].view : b \in DOMAIN artifact.blocks} \ {<<>>}

\* _validate_package_closure.
ClosureOk(s, package) ==
    LET cols == Shipped(s.collections, package.collections)
        views == Shipped(s.views, package.views)
        triggers == {t \in AllTriggers(s) : t.name \in package.triggers}
        pipelines == {Resolved(s, d) : d \in {e \in s.derivations : e.name \in package.processors}}
        artifacts == Shipped(s.artifacts, package.artifacts)
    IN  /\ \A col \in cols :
            /\ col.required \cup col.optional \subseteq package.processors
            /\ col.profile \in package.profiles
            /\ col.allowed \subseteq package.profiles \cup package.optional
        /\ \A d \in pipelines :
            /\ ReadBy(s, d) \subseteq package.collections
            /\ \A task \in TasksOf(d) :
                /\ task.use \in {"computer", "agent"} => task.computer \in package.computers
                /\ task.use = "computer" => task.program \in package.programs
                /\ task.use = "agent" => task.agent \in package.agents /\ task.policy \in package.policies
        /\ \A trigger \in triggers :
            /\ {trigger.processor} \cup Metrics(trigger) \subseteq package.processors
            /\ \A condition \in DOMAIN trigger.scopes :
                PackagedScope(s, trigger.scopes[condition]) \subseteq package.collections
        /\ \A view \in views : \A ref \in ShownBy(s, view) :
            ref \in package.collections /\ Only(Exact(s.collections, ref)).profile \in package.profiles
        /\ \A artifact \in artifacts :
            /\ {artifact.processor} \ {""} \subseteq package.processors
            /\ ActiveRefs(s, Documents(artifact)) \subseteq package.collections
            /\ ActiveRefs(s, {x.collection : x \in artifact.snapshot}) \subseteq package.collections
            /\ Views(artifact) \subseteq package.views
            /\ {learning.artifact : learning \in artifact.learning} \subseteq package.artifacts
        /\ \A computer \in Shipped(s.computers, package.computers) :
            /\ computer.context \subseteq package.artifacts
            /\ \A path \in DOMAIN computer.writeback :
                Given(computer.writeback[path]) \subseteq package.collections
        /\ \A agent \in Shipped(s.agents, package.agents) :
            /\ {agent.instructions} \cup agent.skills \subseteq package.artifacts
            /\ agent.computers \subseteq package.computers
            /\ agent.policy \in package.policies /\ Given(agent.toolset) \subseteq package.toolsets
        /\ package.profiles \cup package.optional \subseteq UNION {AllProfiles(col) : col \in cols}
        /\ \A p \in s.profiles : p.name \in package.profiles => Usable(s, p)

ClosureFails(s, package) ==
    \/ \E trigger \in AllTriggers(s) : /\ trigger.name \in package.triggers
                                       /\ \E c \in DOMAIN trigger.scopes : Unresolved(s, trigger.scopes[c])
    \/ \E view \in Shipped(s.views, package.views) :
        \E spec \in view.query : \E source \in spec.sources : Unresolved(s, source)

PackagesOk(s) ==
    /\ \A p, q \in s.packages : Ref(p) = Ref(q) => p = q
    /\ \A p \in s.packages : LET package == WithItsLessons(s, p) IN
        IsPackage(package) /\ ListedOk(s, package) /\ ToolsListed(s, package) /\ ClosureOk(s, package)

PackagesFail(s) == \E p \in s.packages : ClosureFails(s, WithItsLessons(s, p))
=============================================================================
