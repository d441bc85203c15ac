------------------------------ MODULE MCAnswers ------------------------------
(* Small instances of Search and of Traversal for TLC. *)
EXTENDS Search, Traversal, TLC

(***************************************************************************)
(* Rows: two collections, the second one in two versions that declare the  *)
(* field "topic" at different paths, and what is written, enriched,        *)
(* promoted and erased while a request runs.                               *)
(***************************************************************************)

Topic == [paths |-> (<<"facts", 1>> :> <<3>>) @@ (<<"notes", 1>> :> <<3>>) @@ (<<"notes", 2>> :> <<1, 2>>),
          array |-> FALSE, first |-> <<"facts", 1>>]
Labels == [Topic EXCEPT !.array = TRUE]
ByTopic == [descends |-> TRUE, field |-> Topic]

ARow(collection, version, key, status, ready, retracted, values, tag, near, match, score) ==
    [seq |-> 0, collection |-> collection, version |-> version, key |-> key, status |-> status,
     ready |-> ready, retracted |-> retracted, erased |-> FALSE, values |-> values, tag |-> tag,
     space |-> IF near > 0 THEN "s1" ELSE NoName, near |-> near, match |-> match, score |-> score]

Shelve(rows) == [i \in DOMAIN rows |-> [rows[i] EXCEPT !.seq = i]]

MCShelves ==
    {Shelve(<<ARow("facts", 1, "f", "active", TRUE, FALSE, <<0, 0, 1>>, "t", 2, 1, 1),
              ARow("notes", 1, NoName, "active", TRUE, FALSE, <<0, 0, 2>>, "u", 1, 2, 2),
              ARow("notes", 2, "n", "draft", TRUE, FALSE, <<0, 2, 1>>, "u", 0, 1, 0)>>)}

\* A revision that is not enriched, a tombstone, an unkeyed row.
News == {ARow("facts", 1, "f", "active", FALSE, FALSE, <<0, 0, 2>>, "t", 1, 1, 0),
         ARow("facts", 1, "f", "active", TRUE, TRUE, <<0, 0, 0>>, "t", 0, 0, 0),
         ARow("notes", 2, NoName, "active", TRUE, FALSE, <<1, 2, 0>>, "t", 1, 1, 1)}

(***************************************************************************)
(* Requests: each mode and engine, one and two sources, with and without a *)
(* judge, a graph boost and limits that bite.                              *)
(***************************************************************************)

Within(collections, versions, tags, status, keyed, current) ==
    [collections |-> collections, versions |-> versions, tags |-> tags, status |-> status,
     keyed |-> keyed, current |-> current]
Everything == Within({"facts", "notes"}, <<>>, {}, "active", {}, TRUE)

TopicIs(exists, compares, admits) ==
    {[field |-> Topic, exists |-> exists, compares |-> compares, admits |-> admits]}
LabelsAre(admits) == {[field |-> Labels, exists |-> {}, compares |-> TRUE, admits |-> admits]}

From(engine, layout, mode, scope, where, k, candidates, weight) ==
    [engine |-> engine, layout |-> layout, mode |-> mode, scope |-> scope, where |-> where,
     order |-> ByTopic, k |-> k, candidates |-> candidates, weight |-> weight]

A1(sources, k) ==
    [sources |-> sources, k |-> k, judged |-> 0, fits |-> 2, fuses |-> Len(sources) > 1,
     boosted |-> FALSE, graph |-> FALSE, constant |-> 1, pull |-> 20, space |-> "s1", fanout |-> 2,
     arrivals |-> News]

MCSpecs ==
    {A1(<<From("pg", "", "recent", Everything, {}, 2, 2, 1)>>, 2),
     [A1(<<From("pg", "", "hybrid", Everything, {}, 4, 4, 1)>>, 4) EXCEPT !.judged = 1],
     A1(<<From("pg", "", "structured", Within({"notes"}, ("notes" :> {2}), {}, "all", {TRUE}, FALSE),
               TopicIs({TRUE}, TRUE, {1, 2}), 1, 4, 1)>>, 1),
     [A1(<<From("x", "shared", "hybrid", Everything, TopicIs({}, TRUE, {1, 2}), 2, 2, 1)>>, 2)
         EXCEPT !.graph = TRUE],
     [A1(<<From("x", "per", "text", Within({}, <<>>, {"t", "u"}, "active", {}, TRUE),
                LabelsAre({1, 2}), 4, 1, 1)>>, 4) EXCEPT !.judged = 1],
     [A1(<<From("pg", "", "text", Everything, TopicIs({FALSE}, FALSE, {}), 4, 4, 1),
           From("x", "shared", "structured", Everything, TopicIs({TRUE}, FALSE, {}), 4, 4, 2)>>, 4)
         EXCEPT !.boosted = TRUE]}

(***************************************************************************)
(* Graphs: edges written by hand that are walked in every direction, and   *)
(* pages whose edges a derivation draws.                                   *)
(***************************************************************************)

ByHand(from, to, kind) == Link(from, to, kind, NoPage)
AWay(from, to, kind) == [from |-> from, to |-> to, kind |-> kind]
ADraft(key, targets, gone) == [key |-> key, targets |-> targets, gone |-> gone]
AWalk(seed, direction, kinds, depth, limit) ==
    [seed |-> seed, direction |-> direction, kinds |-> kinds, depth |-> depth, limit |-> limit]

\* The fourth branches into two edges, the sixth is too deep.
MCWalks ==
    {AWalk(1, "out", {}, 3, 8), AWalk(1, "out", {"x"}, 2, 1), AWalk(1, "both", {}, 3, 27),
     AWalk(1, "both", {}, 3, 4), AWalk(4, "in", {}, 2, 9), AWalk(1, "out", {}, 4, 4),
     AWalk(1, "in", {"y"}, 1, 2)}

MCAtlases ==
    {[links |-> <<ByHand(1, 2, "x"), ByHand(1, 3, "x"), ByHand(2, 3, "y"), ByHand(3, 4, "x")>>,
      ways |-> {AWay(1, 4, "y"), AWay(2, 1, "x"), AWay(3, 4, "y")}, removed |-> 1,
      queries |-> MCWalks, drafts |-> {}],
     [links |-> <<>>, ways |-> {AWay(1, 4, "x")}, removed |-> 0, queries |-> {},
      drafts |-> {ADraft(1, {2, 3}, FALSE), ADraft(1, {}, FALSE), ADraft(2, {3}, FALSE),
                  ADraft(3, {}, FALSE), ADraft(2, {}, TRUE)}]}

MCCeiling == [depth |-> 3, paths |-> 27]
=============================================================================
