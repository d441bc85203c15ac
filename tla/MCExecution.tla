---------------------------- MODULE MCExecution ----------------------------
(* Small instances of Execution for TLC: 1 and 2 are of the entity of the *)
(* job, 3 and 4 of another.                                               *)
EXTENDS Execution

K(use, config, input, found) ==
    [use |-> use, config |-> config, input |-> input, found |-> found, templates |-> {}, drafts |-> FALSE]
L(calls, tokens, judgments, judging, visible, retrieved) ==
    [calls |-> calls, tokens |-> tokens, judgments |-> judgments, judging |-> judging,
     visible |-> visible, retrieved |-> retrieved]
U(tasks, emit, limits, targets) ==
    [driver |-> <<1, 2>>, reads |-> {}, view |-> <<>>, fits |-> 2, whole |-> FALSE,
     allowEmpty |-> FALSE, own |-> {1, 2}, tasks |-> tasks, emit |-> emit, limits |-> limits,
     targets |-> targets, usage |-> {1}, estimate |-> 1, refusals |-> FALSE, slow |-> FALSE,
     crashes |-> FALSE, faults |-> 1, answers |-> {{}, {1}, {2, 3}, {4}}]

Llm(config) == K("llm", config, {}, <<>>)
JudgeDrafts(input, templates) ==
    [K("judge", {}, input, <<>>) EXCEPT !.templates = templates, !.drafts = TRUE]

\* A model that reads what a walk over a graph has found.
MCForgetful == {U(<<K("graph", {}, {"driver"}, <<<<3>>>>), Llm({"driver", "t1"})>>, "t2",
                  L(1, 1, 0, 0, 4, 0), 1)}

(* Two queries that exceed the limits, and a model that reads what they find;
   judgments of what a model names; judgments at once that fail, are refused and
   cut; an agent and a task that computes; an answer within its budget and one
   that a model reads; sources that do not fit, and none at all. *)
MCUndertakings ==
    MCForgetful \cup
    {[U(<<K("search", {"driver"}, {}, <<<<3, 4>>, <<4, 3>>>>), Llm({"driver", "t1"})>>, "t2",
        L(2, 3, 0, 0, 3, 2), 2) EXCEPT !.usage = {1, 2}, !.crashes = TRUE, !.faults = 2],
     [U(<<Llm({"driver", "view"}), JudgeDrafts({"t1"}, {"view"})>>, "t2",
        L(2, 4, 2, 2, 4, 0), 1) EXCEPT !.view = <<3, 4>>],
     [U(<<JudgeDrafts({"driver"}, {"view"})>>, "t1", L(0, 0, 2, 3, 3, 0), 2)
        EXCEPT !.usage = {1, 2}, !.view = <<3, 4>>, !.refusals = TRUE, !.slow = TRUE, !.faults = 2],
     [U(<<K("agent", {}, {"driver"}, <<<<3>>>>), K("compute", {"reads"}, {"t1"}, <<>>)>>, "t2",
        L(0, 0, 0, 0, 4, 0), 1) EXCEPT !.reads = {4}, !.slow = TRUE, !.crashes = TRUE],
     [U(<<K("answer", {}, {"driver"}, <<<<3>>, <<4>>>>), Llm({"t1"})>>, "t2",
        L(3, 4, 0, 0, 4, 0), 1) EXCEPT !.refusals = TRUE],
     [U(<<K("agent", {}, {"driver"}, <<<<3>>>>)>>, "t1", L(0, 0, 0, 0, 2, 0), 1)
        EXCEPT !.fits = 1, !.reads = {4}],
     [U(<<Llm({"reads"})>>, "t1", L(1, 2, 0, 0, 2, 0), 1)
        EXCEPT !.driver = <<1>>, !.reads = {3}, !.whole = TRUE],
     [U(<<K("compute", {"view"}, {}, <<>>)>>, "t1", L(0, 0, 0, 0, 2, 0), 1)
        EXCEPT !.driver = <<1>>, !.view = <<4, 3>>, !.allowEmpty = TRUE]}
=============================================================================
