----------------------------- MODULE Execution -----------------------------
(***************************************************************************)
(* What a derivation does between the basis it resolves and the run it     *)
(* stores (derive/runner.py, derive/provenance.py), with the model calls   *)
(* it makes (llm/runtime.py).                                              *)
(*                                                                         *)
(* A claimed job packs its rows, reads its views and executes its tasks    *)
(* one after the other.  Each value carries the rows it is said to come    *)
(* from and those that may be cited for it.  A model call tries the        *)
(* targets of its alias in order, each twice, and is corrected once; the   *)
(* judgments of a task are made at the same time.  Budgets bound all of    *)
(* it.  Meanwhile rows are erased, time runs out and leases lapse; what    *)
(* fails is stored as a run too, and may be tried again.                   *)
(*                                                                         *)
(* Bases, cursors and triggers are in Derivation and TriggerClock, keys    *)
(* and expected heads in Promotion, the files of Computers in Computers.   *)
(***************************************************************************)
EXTENDS Naturals, Sequences, FiniteSets, SequencesExt, FiniteSetsExt

CONSTANTS
    Rows,          \* the records that can be read
    Undertakings,  \* the derivations that are looked at
    MaxTries,      \* JOB_MAX_ATTEMPTS
    MaxErased      \* bound: erasures

TaskNames == <<"t1", "t2", "t3">>

\* The names that have a value before the i-th task.
NamesBefore(i) == {"driver", "reads", "view"} \cup {TaskNames[j] : j \in 1 .. i - 1}
Names == NamesBefore(Len(TaskNames) + 1)

\* A derivation the loader lets through: a task names what was bound before it,
\* and the built-in tasks that ask a model or search have no input.
Tasks == [use : STRING, config : SUBSET Names, input : SUBSET Names, found : Seq(Seq(Rows)),
          templates : SUBSET Names, drafts : BOOLEAN]
IsLoaded(u) ==
    /\ u.driver \in Seq(Rows) /\ u.view \in Seq(Rows) /\ u.reads \subseteq Rows
    /\ u.usage \subseteq Nat /\ u.answers \subseteq SUBSET Rows
    /\ u.tasks \in Seq(Tasks) /\ Len(u.tasks) <= Len(TaskNames)
    /\ \A i \in DOMAIN u.tasks :
          LET task == u.tasks[i]
          IN /\ task.config \cup task.input \cup task.templates \subseteq NamesBefore(i)
             /\ task.use \in {"llm", "search"} => task.input = {}
    /\ u.emit \in NamesBefore(Len(u.tasks) + 1)

ASSUME ExecutionAssumption ==
    /\ MaxTries \in Nat \ {0} /\ MaxErased \in Nat
    /\ IsFiniteSet(Rows) /\ \A u \in Undertakings : IsLoaded(u)

VARIABLES
    undertaking,  \* one of Undertakings, which does not change
    kept,         \* the rows that are not erased
    derive,       \* the job: its state and attempts
    execution,    \* the memory of process_derivation_job
    stored,       \* the runs that were stored and not erased
    faults        \* attempts that were not answered

executionVars == <<undertaking, kept, derive, execution, stored, faults>>

(***************************************************************************)
(* Values.  `from` is the truth: the rows whose content went into it.      *)
(* `sources` is what the value says of that (ProvenanceValue), `ids` the   *)
(* handles that stand in its text, `cites` those that may be cited.        *)
(***************************************************************************)

Holds(from, sources, ids, cites) ==
    [from |-> from, sources |-> sources, ids |-> ids, cites |-> cites]
OfRows(rows) == Holds(rows, rows, rows, rows)

\* The values with one more of them.
Given(values, name, value) ==
    [n \in DOMAIN values \cup {name} |-> IF n = name THEN value ELSE values[n]]

From(x, names) == UNION {x.values[n].from : n \in names}
SourcesOf(x, names) == UNION {x.values[n].sources : n \in names}
HandlesIn(x, names) == UNION {x.values[n].ids : n \in names}
CitableIn(x, names) == UNION {x.values[n].cites : n \in names}

\* render_prompt: the handles that stand in the text and are among its sources.
VisibleHandles(x, names) == HandlesIn(x, names) \cap SourcesOf(x, names)

(***************************************************************************)
(* The execution.                                                          *)
(***************************************************************************)

NoExecution == [phase |-> "idle"]
NoOutput == [from |-> {}, cites |-> {}]

Fresh ==
    [phase |-> "views", values |-> <<>>, done |-> 0, visible |-> {}, retrieved |-> 0,
     calls |-> 0, tokens |-> 0, judgments |-> 0, judging |-> 0,
     flight |-> <<>>, correction |-> 0, evidence |-> {},
     made |-> {}, audit |-> <<>>, cut |-> {}, read |-> {}, error |-> "none", output |-> NoOutput]

Limits == undertaking.limits
Working(phase) == derive.state = "running" /\ execution.phase = phase
Task(x) == undertaking.tasks[x.done + 1]

\* An error ends the execution: the attempts of calls that are under way are lost.
Failed(x, kind) ==
    [x EXCEPT !.phase = "failed", !.error = kind, !.flight = <<>>,
              !.cut = @ \cup {x.flight[i].call : i \in DOMAIN x.flight}]

Becomes(x) == execution' = x /\ UNCHANGED <<undertaking, kept, derive, stored, faults>>

\* The result of a task is bound to its name; the next task is due.
Bound(x, value) ==
    [x EXCEPT !.phase = "tasks", !.done = @ + 1, !.flight = <<>>, !.correction = 0,
              !.evidence = {}, !.read = @ \cup value.from,
              !.values = Given(@, TaskNames[x.done + 1], value)]

(***************************************************************************)
(* Claim, basis and views.                                                 *)
(***************************************************************************)

\* What is left of a sequence of rows, and of its longest prefix that passes
\* (the limits only tighten).
Existing(hits) == ToSet(hits) \cap kept
Longest(hits, Passes(_)) ==
    LET First(n) == Existing(SubSeq(hits, 1, n))
    IN First(Max({n \in 0 .. Len(hits) : n = 0 \/ Passes(First(n))}))

\* The rows of the driver that fit its token budget and, beside the other
\* sources, the visible records.
Packed(others) ==
    LET Fits(rows) == /\ Cardinality(rows) <= undertaking.fits
                      /\ Cardinality(others) + Cardinality(rows) <= Limits.visible
    IN Longest(undertaking.driver, Fits)

Opened ==
    LET input == Existing(undertaking.driver)
        others == undertaking.reads \cap kept
        packed == Packed(others)
    IN IF \/ Cardinality(others) > Limits.visible
          \/ input # {} /\ packed = {}
          \/ undertaking.whole /\ packed # input
       THEN Failed(Fresh, "budget")
       ELSE IF input = {} /\ ~undertaking.allowEmpty
       THEN [Fresh EXCEPT !.phase = "commit"]
       ELSE [Fresh EXCEPT !.visible = others \cup packed, !.read = others \cup packed,
                          !.values = [driver |-> OfRows(packed), reads |-> OfRows(others)]]

Begins ==
    /\ derive.state = "queued" /\ derive.tries < MaxTries
    /\ derive' = [state |-> "running", tries |-> derive.tries + 1]
    /\ execution' = Opened
    /\ UNCHANGED <<undertaking, kept, stored, faults>>

\* _resolve_view_sources: records become visible as long as there is room.
ReadViews ==
    /\ Working("views")
    /\ LET x == execution
           RoomFor(hits) == Cardinality(x.visible \cup hits) <= Limits.visible
           shown == Longest(undertaking.view, RoomFor)
       IN Becomes([x EXCEPT !.phase = "tasks", !.visible = @ \cup shown, !.read = @ \cup shown,
                            !.values = Given(@, "view", OfRows(shown))])

(***************************************************************************)
(* Tasks that ask no model.                                                *)
(***************************************************************************)

Comes(use) == Working("tasks") /\ execution.done < Len(undertaking.tasks) /\ Task(execution).use = use
Named(task) == task.config \cup task.input

\* Fault: what is found is evidence and is not shown.
RetrievedUnseen(x, hits) ==
    [x EXCEPT !.retrieved = @ + Len(hits), !.evidence = @ \cup Existing(hits)]

\* One query of a search Task after the other: each takes what the visible and
\* the retrieved records leave it.
Retrieved(x, hits) ==
    LET Fits(s) == /\ Cardinality(x.visible \cup s) <= Limits.visible
                   /\ x.retrieved + Cardinality(s) <= Limits.retrieved
        taken == Longest(hits, Fits)
    IN [x EXCEPT !.visible = @ \cup taken, !.retrieved = @ + Cardinality(taken),
                 !.evidence = @ \cup taken]
AllRetrieved(x, found) ==
    LET upTo[n \in 0 .. Len(found)] == IF n = 0 THEN x ELSE Retrieved(upTo[n - 1], found[n])
    IN upTo[Len(found)]

Retrieve ==
    /\ Comes("search")
    /\ LET x == execution
           task == Task(x)
           read == AllRetrieved(x, task.found)
       IN Becomes(Bound(read, Holds(From(x, task.config) \cup read.evidence,
                                    SourcesOf(x, Named(task)) \cup read.evidence,
                                    HandlesIn(x, task.config) \cup read.evidence, read.evidence)))

\* The graph Task: its edges are sources of its value and not visible records.
Walk ==
    /\ Comes("graph")
    /\ LET x == execution
           edges == Existing(Task(x).found[1])
       IN Becomes(Bound(x, Holds(From(x, Named(Task(x))) \cup edges,
                                 SourcesOf(x, Named(Task(x))) \cup edges, edges, edges)))

\* template, computer and installed Tasks compute from what they are given, and
\* may narrow, never widen, what can be cited.
Compute ==
    /\ Comes("compute")
    /\ LET x == execution
           names == Named(Task(x))
           from == From(x, names)
       IN \E cites \in {CitableIn(x, names), {}, Rows} :
            IF cites \subseteq CitableIn(x, names)
            THEN Becomes(Bound(x, Holds(from, SourcesOf(x, names), HandlesIn(x, names), cites)))
            ELSE Becomes(Failed(x, "validation"))

\* run_agent: the records that are materialized for the agent become visible.
RunAgent ==
    /\ Comes("agent")
    /\ LET x == execution
           names == Named(Task(x))
           context == Existing(Task(x).found[1])
           sources == SourcesOf(x, names) \cup context
       IN IF Cardinality(x.visible \cup context) > Limits.visible
          THEN Becomes(Failed(x, "budget"))
          ELSE \E cites \in {CitableIn(x, names) \cup context, {}} :
                 Becomes(Bound([x EXCEPT !.visible = @ \cup context],
                               Holds(From(x, names) \cup context, sources, cites, cites)))

(***************************************************************************)
(* Model calls: complete and judge of llm/runtime.py.                      *)
(***************************************************************************)

Call(n) == [call |-> n, target |-> 1, attempt |-> 1, log |-> <<>>, state |-> "open"]
NextCall(x) == x.calls + x.judgments + 1
Attempt(c, outcome, usage) ==
    [call |-> c.call, target |-> c.target, attempt |-> c.attempt, outcome |-> outcome, usage |-> usage]

InFlight == Working("asking") \/ Working("judging")
OpenCalls == {i \in DOMAIN execution.flight : execution.flight[i].state = "open"}

\* What the provider was asked is counted apart from what the call remembers.
Asked(i, attempt, c) ==
    execution' = [execution EXCEPT !.made = @ \cup {attempt}, !.flight[i] = c]

\* An error of transport: once more, then the next target, then it is exhausted.
Errs(i) ==
    LET c == execution.flight[i]
        attempt == Attempt(c, "error", 0)
        logged == [c EXCEPT !.log = Append(@, attempt)]
    IN /\ faults < undertaking.faults /\ faults' = faults + 1
       /\ Asked(i, attempt,
                IF c.attempt = 1 THEN [logged EXCEPT !.attempt = 2]
                ELSE IF c.target < undertaking.targets
                     THEN [logged EXCEPT !.target = @ + 1, !.attempt = 1]
                     ELSE [logged EXCEPT !.state = "exhausted"])

Succeeds(i) ==
    LET c == execution.flight[i]
    IN \E usage \in undertaking.usage :
         LET attempt == Attempt(c, "ok", usage)
         IN /\ Asked(i, attempt, [c EXCEPT !.log = Append(@, attempt), !.state = "answered"])
            /\ UNCHANGED faults

\* The provider refuses the request (HTTP 4xx, a ValueError), or the next target
\* has no adapter: what the call remembers goes with it.
Refuses(i) ==
    LET c == execution.flight[i]
    IN /\ undertaking.refusals /\ faults < undertaking.faults /\ faults' = faults + 1
       /\ Asked(i, Attempt(c, "refused", 0), [c EXCEPT !.log = <<>>, !.state = "refused"])

Provider ==
    /\ InFlight
    /\ \E i \in OpenCalls : Errs(i) \/ Succeeds(i) \/ Refuses(i)
    /\ UNCHANGED <<undertaking, kept, derive, stored>>

\* The attempts of calls that came to an end, one call after the other, are
\* audited and charged.
UsedBy(log) ==
    LET sum[n \in 0 .. Len(log)] == IF n = 0 THEN 0 ELSE sum[n - 1] + log[n].usage
    IN sum[Len(log)]
Logs(calls) ==
    LET upTo[n \in 0 .. Len(calls)] == IF n = 0 THEN <<>> ELSE upTo[n - 1] \o calls[n].log
    IN upTo[Len(calls)]
CallsIn(calls, states) == {calls[i].call : i \in {j \in DOMAIN calls : calls[j].state \in states}}
Audited(x) ==
    [x EXCEPT !.audit = @ \o Logs(x.flight), !.cut = @ \cup CallsIn(x.flight, {"refused"}),
              !.flight = <<>>]

(***************************************************************************)
(* llm and answer Tasks: _call_json.                                       *)
(***************************************************************************)

\* The budgets are looked at before each request, the correction included.
\* (A limit of an answer is an error of the answer, which can be tried again.)
BudgetKind(x) == IF Task(x).use = "answer" THEN "answer" ELSE "budget"
Submit(x) ==
    IF x.calls >= Limits.calls THEN Failed(x, BudgetKind(x))
    ELSE IF x.tokens + undertaking.estimate > Limits.tokens
         THEN Failed([x EXCEPT !.calls = @ + 1], BudgetKind(x))
         ELSE [x EXCEPT !.phase = "asking", !.calls = @ + 1, !.flight = <<Call(NextCall(x))>>]

AskModel == Comes("llm") /\ Becomes(Submit(execution))

\* _answer_question reads its evidence, hits and edges, before it asks.
AskAnswer ==
    /\ Comes("answer")
    /\ LET evidence == UNION {Existing(hits) : hits \in ToSet(Task(execution).found)}
       IN Becomes(Submit([execution EXCEPT !.evidence = evidence]))

\* What an answer of the model becomes.  The model repeats handles it has seen
\* and makes up others: one of the answers that are looked at.
LlmValue(x, ids) ==
    LET task == Task(x)
    IN Holds(From(x, task.config), SourcesOf(x, task.config), ids,
             VisibleHandles(x, task.config) \cap CitableIn(x, Named(task)))

\* The replay of an answer: its evidence becomes visible if there is room.
Replayed(x, ids) ==
    IF ~(ids \subseteq x.evidence) THEN Failed(x, "answer")
    ELSE IF Cardinality(x.visible \cup x.evidence) > Limits.visible THEN Failed(x, "budget")
    ELSE Bound([x EXCEPT !.visible = @ \cup x.evidence],
               Holds(From(x, Named(Task(x))) \cup x.evidence,
                     SourcesOf(x, Named(Task(x))) \cup x.evidence, ids, ids))

Read(x, ids) == IF Task(x).use = "answer" THEN Replayed(x, ids) ELSE Bound(x, LlmValue(x, ids))

\* Once more with the error in the prompt, if this was the first time.
Corrected(x, kind) ==
    IF x.correction = 0 THEN Submit([x EXCEPT !.correction = 1])
    ELSE Failed(x, IF Task(x).use = "answer" THEN "answer" ELSE kind)

Hear ==
    /\ Working("asking") /\ OpenCalls = {}
    /\ LET c == execution.flight[1]
           x == [Audited(execution) EXCEPT !.tokens = @ + UsedBy(Logs(execution.flight))]
       IN \/ c.state = "refused" /\ Becomes(Corrected(x, "validation"))
          \/ c.state = "exhausted" /\ Becomes(Corrected(x, "transport"))
          \/ /\ c.state = "answered" /\ x.tokens > Limits.tokens
             /\ Becomes(Failed(x, BudgetKind(x)))
          \/ /\ c.state = "answered" /\ x.tokens <= Limits.tokens
             /\ \/ \E ids \in undertaking.answers : Becomes(Read(x, ids))
                \/ Becomes(Corrected(x, "validation"))

(***************************************************************************)
(* judge Tasks.                                                            *)
(***************************************************************************)

\* One judgment for each item, under a budget of their own.
AskJudge ==
    /\ Comes("judge")
    /\ LET x == execution
           items == Cardinality(HandlesIn(x, Task(x).input))
       IN IF \/ x.judgments + items > Limits.judgments
             \/ x.judging + items * undertaking.estimate > Limits.judging
          THEN Becomes(Failed(x, "budget"))
          ELSE Becomes([x EXCEPT !.phase = "judging", !.judgments = @ + items,
                                 !.flight = [i \in 1 .. items |-> Call(NextCall(x) + i - 1)]])

\* Fault: the first error raises, and the other outcomes are dropped.
GatheredIfAll(x) ==
    IF CallsIn(x.flight, {"answered"}) # CallsIn(x.flight, {"answered", "exhausted", "refused"})
    THEN [x EXCEPT !.flight = <<>>]
    ELSE [Audited(x) EXCEPT !.judging = @ + UsedBy(Logs(x.flight))]

\* The outcomes are gathered, those that failed too, and all of them audited.
Gathered(x) == [Audited(x) EXCEPT !.judging = @ + UsedBy(Logs(x.flight))]

\* Items that pass are kept, each as a draft that cites it; the others can no
\* longer be cited.  A draft needs an item that can be.
Judged(x, passed) ==
    LET task == Task(x)
        citable == CitableIn(x, Named(task))
    IN IF task.drafts /\ ~(passed \subseteq citable) THEN Failed(x, "validation")
       ELSE Bound(x, Holds(From(x, Named(task)) \cup From(x, task.templates),
                           SourcesOf(x, Named(task)), passed,
                           citable \ (HandlesIn(x, task.input) \ passed)))

Judge ==
    /\ Working("judging") /\ OpenCalls = {}
    /\ LET x == Gathered(execution)
       IN IF \E i \in DOMAIN execution.flight : execution.flight[i].state # "answered"
          THEN Becomes(Failed(x, "transport"))
          ELSE IF x.judging > Limits.judging THEN Becomes(Failed(x, "budget"))
          ELSE \E passed \in SUBSET HandlesIn(x, Task(x).input) : Becomes(Judged(x, passed))

(***************************************************************************)
(* The end.                                                                *)
(***************************************************************************)

\* emit.from and compile_candidate_set: no draft, or one that cites some of the
\* handles that stand in the value, all of which the value must be allowed to cite.
Emit ==
    /\ Working("tasks") /\ execution.done = Len(undertaking.tasks)
    /\ LET x == execution
           value == x.values[undertaking.emit]
       IN \/ Becomes([x EXCEPT !.phase = "commit"])
          \/ \E cites \in SUBSET value.ids :
               IF cites # {} /\ cites \subseteq value.cites
               THEN Becomes([x EXCEPT !.phase = "commit",
                                      !.output = [from |-> value.from, cites |-> cites]])
               ELSE Becomes(Failed(x, "validation"))

\* The run as it is stored; `made`, `cut` and `read` are the history of it.
RunOf(x, status, parents) ==
    [try |-> derive.tries, status |-> status, parents |-> parents, output |-> x.output, audit |-> x.audit,
     charged |-> x.tokens + x.judging, made |-> x.made, cut |-> x.cut, read |-> x.read]

\* _commit_execution: what was shown or is cited must still be there.
SourcesRemain(x) == x.visible \cup x.output.cites \subseteq kept

CommitsRun ==
    /\ Working("commit")
    /\ LET x == execution
       IN IF SourcesRemain(x)
          THEN /\ stored' = stored \cup {RunOf(x, IF x.output = NoOutput THEN "noop" ELSE "ok", x.visible)}
               /\ derive' = [derive EXCEPT !.state = "done"] /\ execution' = NoExecution
               /\ UNCHANGED <<undertaking, kept, faults>>
          ELSE Becomes(Failed(x, "erased"))

\* _persist_failed_run: some errors bury the job, the others may be tried again.
Buries(kind) == kind \in {"config", "budget", "erased"} \/ derive.tries >= MaxTries
StoresFailure ==
    /\ Working("failed")
    /\ LET x == [execution EXCEPT !.output = NoOutput]
       IN stored' = stored \cup {RunOf(x, "failed", x.visible \cap kept)}
    /\ derive' = [derive EXCEPT !.state = IF Buries(execution.error) THEN "dead" ELSE "queued"]
    /\ execution' = NoExecution
    /\ UNCHANGED <<undertaking, kept, faults>>

(***************************************************************************)
(* What happens meanwhile.                                                 *)
(***************************************************************************)

\* asyncio.timeout covers the views, the tasks and the compilation.
TimesOut ==
    /\ undertaking.slow /\ derive.state = "running"
    /\ execution.phase \in {"views", "tasks", "asking", "judging"}
    /\ Becomes(Failed(execution, "budget"))

\* The process dies, or the lease lapses and every write of it is refused.
Vanishes ==
    /\ undertaking.crashes /\ derive.state = "running"
    /\ derive' = [derive EXCEPT !.state = IF derive.tries >= MaxTries THEN "dead" ELSE "queued"]
    /\ execution' = NoExecution
    /\ UNCHANGED <<undertaking, kept, stored, faults>>

\* An erasure follows the parents of what is stored, and kills the jobs of the
\* entities it reaches.
Without(run, r) == IF r \in run.output.cites THEN [run EXCEPT !.output = NoOutput] ELSE run
EraseSource(r) ==
    LET left == {run \in stored : r \notin run.parents}
        reached == r \in undertaking.own \/ left # stored \/ \E run \in left : r \in run.output.cites
    IN /\ Cardinality(Rows \ kept) < MaxErased
       /\ kept' = kept \ {r}
       /\ stored' = {Without(run, r) : run \in left}
       /\ IF reached /\ derive.state \in {"queued", "running"}
          THEN derive' = [derive EXCEPT !.state = "dead"] /\ execution' = NoExecution
          ELSE UNCHANGED <<derive, execution>>
       /\ UNCHANGED <<undertaking, faults>>

(***************************************************************************)
(* The specification.                                                      *)
(***************************************************************************)

ExecutionBegins ==
    /\ kept = Rows /\ derive = [state |-> "queued", tries |-> 0] /\ execution = NoExecution
    /\ stored = {} /\ faults = 0

ExecutionInit == undertaking \in Undertakings /\ ExecutionBegins

ExecutionNext ==
    \/ Begins \/ ReadViews
    \/ Retrieve \/ Walk \/ Compute \/ RunAgent
    \/ AskModel \/ AskAnswer \/ Hear \/ AskJudge \/ Judge \/ Provider
    \/ Emit \/ CommitsRun \/ StoresFailure
    \/ TimesOut \/ Vanishes
    \/ \E r \in kept : EraseSource(r)

ExecutionSpec == ExecutionInit /\ [][ExecutionNext]_executionVars

(***************************************************************************)
(* Properties.                                                             *)
(***************************************************************************)

\* Lineage is true in both senses, whatever was erased between the reads, the
\* model calls and the commit: no output that is stored rests on a row that is
\* gone, however many tasks lie between them, and an output cites nothing that
\* did not go into it, whatever handles the models made up.  (The first not where
\* a graph Task is declared, see RunsRememberReads.)
Walks == \E i \in DOMAIN undertaking.tasks : undertaking.tasks[i].use = "graph"
LineageIsTrue ==
    \A run \in stored :
        /\ Walks \/ run.output.from \subseteq kept
        /\ run.output.cites \subseteq run.output.from

\* The audit of a run, of one that failed too, holds each attempt of every model
\* call that came to an end, once, and the run is charged for exactly these,
\* however its judgments interleave and whichever of them fail.  (A call that
\* the provider refuses, or that is under way when time runs out, is cut.)
AttemptsAreAudited ==
    \A run \in stored :
        /\ ToSet(run.audit) = {a \in run.made : a.call \notin run.cut}
        /\ Len(run.audit) = Cardinality(ToSet(run.audit))
        /\ run.charged = UsedBy(run.audit)

\* What docs/derivations.md says of a run: it "still remembers every record it
\* read, deliberately, because that is what erasure and progress tracking need to
\* be correct."  The edges of a graph Task are forgotten.
RunsRememberReads == \A run \in stored : run.status = "ok" => run.read \subseteq run.parents

\* "The run audit keeps every attempt" (docs/processors.md; ModelAttemptsExhausted
\* of llm/runtime.py retains "every attempt for run audit"); refuted.
EveryAttemptAudited == \A run \in stored : ToSet(run.audit) = run.made

\* "A result automatically inherits the evidence behind whatever it was given"
\* (docs/derivations.md); refuted by the templates of a judge Task's records.
SourcesAreWhole ==
    execution # NoExecution => \A n \in DOMAIN execution.values :
                            execution.values[n].from \subseteq execution.values[n].sources
=============================================================================
