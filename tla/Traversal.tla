------------------------------ MODULE Traversal ------------------------------
(***************************************************************************)
(* Graph views (graph.py): a bounded walk over the records of an edge      *)
(* collection, and the report of the nodes without an edge.                *)
(*                                                                         *)
(* A walk is two statements of one READ COMMITTED transaction, the paths   *)
(* and then the records they cite; edges come and go between them. What    *)
(* one node contributes to a path is cut before the paths are counted.     *)
(* Edges are written by hand, or drawn by a derivation from one revision   *)
(* of a page; a page is revised and withdrawn, and the edges of its former *)
(* revisions stay in the store.                                            *)
(***************************************************************************)
EXTENDS Naturals, Sequences, FiniteSets

CONSTANTS
    Places,     \* keys of pages, numbered in the order of their names
    MaxPages,   \* bound: revisions of pages
    MaxLinks,   \* bound: edges
    Atlases,    \* the edges at first, the edges that are added, and what is asked
    Ceiling     \* [depth, paths]: MAX_GRAPH_DEPTH, MAX_GRAPH_PATHS

ASSUME TraversalAssumption ==
    /\ Places \subseteq Nat /\ MaxPages \in Nat /\ MaxLinks \in Nat
    /\ Ceiling \in [depth : Nat, paths : Nat]

VARIABLES
    atlas,   \* one of Atlases, which does not change
    pages,   \* the revisions of pages in the order they were written
    links,   \* the edges, live or not
    walk,    \* a request for paths, with the statements that have run
    report   \* the last report of orphans, until something is written

traversalVars == <<atlas, pages, links, walk, report>>

Directions == {"out", "in", "both"}
NoPage == 0
Outdated == [asked |-> FALSE, keys |-> {}]

(***************************************************************************)
(* The paths.                                                              *)
(***************************************************************************)

\* status = 'active', enriched, no tombstone.
Standing(ls) == {l \in DOMAIN ls : ls[l].live}

\* ceil(limit ** (1 / depth)), at least one.
BranchLimit(q) ==
    CHOOSE b \in 1 .. q.limit : b ^ q.depth >= q.limit /\ \A c \in 1 .. (b - 1) : c ^ q.depth < q.limit

\* The arms of the union for one node: where its edges lead.
Arms(ls, q, node) ==
    LET named == {l \in Standing(ls) : q.kinds = {} \/ ls[l].kind \in q.kinds}
        out == {<<ls[l].to, l>> : l \in {m \in named : ls[m].from = node}}
        in == {<<ls[l].from, l>> : l \in {m \in named : ls[m].to = node}}
    IN (IF q.direction \in {"out", "both"} THEN out ELSE {})
           \cup (IF q.direction \in {"in", "both"} THEN in ELSE {})

Earlier(a, b) ==
    \E i \in DOMAIN a : a[i] < b[i] /\ \A j \in 1 .. (i - 1) : a[j] = b[j]

On(path) == {path.nodes[i] : i \in DOMAIN path.nodes}
Cited(path) == {path.edges[i] : i \in DOMAIN path.edges}

\* The lateral join: the first edges that lead to a node that is not on the path.
Hops(ls, q, path) ==
    LET onward == {h \in Arms(ls, q, path.nodes[Len(path.nodes)]) : h[1] \notin On(path)}
    IN {h \in onward : Cardinality({g \in onward : Earlier(g, h)}) < BranchLimit(q)}

PathsFrom(ls, q) ==
    LET Of[d \in 0 .. q.depth] ==
            IF d = 0 THEN {[nodes |-> <<q.seed>>, edges |-> <<>>]}
            ELSE {[nodes |-> Append(s[1].nodes, s[2][1]), edges |-> Append(s[1].edges, s[2][2])] :
                    s \in UNION {{p} \X Hops(ls, q, p) : p \in Of[d - 1]}}
    IN UNION {Of[d] : d \in 1 .. q.depth}

Sooner(a, b) ==
    \/ Len(a.edges) < Len(b.edges)
    \/ /\ Len(a.edges) = Len(b.edges)
       /\ Earlier(a.nodes \o a.edges, b.nodes \o b.edges)

FirstOf(paths, n) == {p \in paths : Cardinality({r \in paths : Sooner(r, p)}) < n}

\* The request is refused, or the recursive query runs: one row more than asked.
AsksPaths ==
    /\ walk.phase = "none"
    /\ \E q \in atlas.queries :
         walk' = IF q.depth > Ceiling.depth \/ q.limit > Ceiling.paths
                 THEN [walk EXCEPT !.phase = "refused", !.query = q]
                 ELSE [phase |-> "walked", query |-> q, links |-> links, paths |-> {}, cited |-> {},
                       rows |-> FirstOf(PathsFrom(links, q), q.limit + 1), truncated |-> FALSE]
    /\ UNCHANGED <<atlas, pages, links, report>>

\* A path is returned if each of its edges is still there to be cited.
Returned(rows, q, cited) == {p \in FirstOf(rows, q.limit) : Cited(p) \subseteq cited}

\* The second statement, and the answer.
CitesPaths ==
    /\ walk.phase = "walked"
    /\ walk' = [walk EXCEPT !.phase = "answered", !.cited = Standing(links),
                            !.paths = Returned(walk.rows, walk.query, Standing(links)),
                            !.truncated = Cardinality(walk.rows) > walk.query.limit]
    /\ UNCHANGED <<atlas, pages, links, report>>

(***************************************************************************)
(* The orphans.                                                            *)
(***************************************************************************)

\* The last revision of a page that is enriched.
CurrentPages ==
    {p \in DOMAIN pages : /\ pages[p].ready
                          /\ \A r \in (p + 1) .. Len(pages) : ~(pages[r].ready /\ pages[r].key = pages[p].key)}

\* Every edge counts.
CountsAlways(l) == TRUE

\* An edge that was drawn from its subject counts while that revision is current.
Counts(l) ==
    \/ links[l].source = NoPage
    \/ links[l].source \in CurrentPages /\ ~pages[links[l].source].gone

Orphans ==
    {pages[p].key : p \in {r \in CurrentPages :
        /\ ~pages[r].gone
        /\ \A l \in Standing(links) :
             Counts(l) => links[l].from # pages[r].key /\ links[l].to # pages[r].key}}

ReportsOrphans ==
    /\ pages # <<>>
    /\ report' = [asked |-> TRUE, keys |-> Orphans]
    /\ UNCHANGED <<atlas, pages, links, walk>>

(***************************************************************************)
(* What is written.                                                        *)
(***************************************************************************)

Link(from, to, kind, p) == [from |-> from, to |-> to, kind |-> kind, source |-> p, live |-> TRUE]

\* A page is written or withdrawn: its next revision.
Writes(key, targets, gone) ==
    /\ Len(pages) < MaxPages
    /\ gone => \E p \in DOMAIN pages : pages[p].key = key
    /\ pages' = Append(pages, [key |-> key, targets |-> targets, gone |-> gone, ready |-> FALSE,
                               drawn |-> FALSE])
    /\ report' = Outdated
    /\ UNCHANGED <<atlas, links, walk>>

Prepares(p) ==
    /\ ~pages[p].ready
    /\ pages' = [pages EXCEPT ![p].ready = TRUE]
    /\ report' = Outdated
    /\ UNCHANGED <<atlas, links, walk>>

\* A derivation draws the edges of a revision that is current.
Draws(p) ==
    /\ p \in CurrentPages /\ ~pages[p].drawn
    /\ Len(links) + Cardinality(pages[p].targets) <= MaxLinks
    /\ pages' = [pages EXCEPT ![p].drawn = TRUE]
    /\ links' = LET drawn == CHOOSE s \in [1 .. Cardinality(pages[p].targets) -> pages[p].targets] :
                                 \A i, j \in DOMAIN s : i < j => s[i] < s[j]
                IN links \o [i \in DOMAIN drawn |-> Link(pages[p].key, drawn[i], "draws", p)]
    /\ report' = Outdated
    /\ UNCHANGED <<atlas, walk>>

\* An edge is written by hand.
Connects(from, to, kind) ==
    /\ Len(links) < MaxLinks
    /\ links' = Append(links, Link(from, to, kind, NoPage))
    /\ report' = Outdated
    /\ UNCHANGED <<atlas, pages, walk>>

\* An edge is erased.
Removes(l) ==
    /\ links[l].live /\ Cardinality(DOMAIN links \ Standing(links)) < atlas.removed
    /\ links' = [links EXCEPT ![l].live = FALSE]
    /\ report' = Outdated
    /\ UNCHANGED <<atlas, pages, walk>>

TraversalBegins ==
    /\ pages = <<>> /\ report = Outdated
    /\ walk = [phase |-> "none", query |-> <<>>, links |-> <<>>, rows |-> {}, paths |-> {},
               cited |-> {}, truncated |-> FALSE]

TraversalInit ==
    /\ atlas \in Atlases
    /\ links = atlas.links
    /\ TraversalBegins

TraversalTypes ==
    /\ atlas \in Atlases
    /\ \A p \in DOMAIN pages : pages[p].key \in Places /\ pages[p].targets \subseteq Places
    /\ \A l \in DOMAIN links : links[l].source \in {NoPage} \cup DOMAIN pages
    /\ walk.phase \in {"none", "refused", "walked", "answered"}
    /\ report.keys \subseteq Places

TraversalNext ==
    \/ AsksPaths \/ CitesPaths \/ ReportsOrphans
    \/ \E draft \in atlas.drafts : Writes(draft.key, draft.targets, draft.gone)
    \/ \E p \in DOMAIN pages : Prepares(p) \/ Draws(p)
    \/ \E way \in atlas.ways : Connects(way.from, way.to, way.kind)
    \/ \E l \in DOMAIN links : Removes(l)

TraversalSpec == TraversalInit /\ [][TraversalNext]_traversalVars

(***************************************************************************)
(* Properties.                                                             *)
(***************************************************************************)

\* A walk from the seed over edges that are there, without a node twice.
IsWalk(ls, q, path) ==
    /\ Len(path.nodes) = Len(path.edges) + 1 /\ path.nodes[1] = q.seed
    /\ Len(path.edges) \in 1 .. q.depth /\ Cardinality(On(path)) = Len(path.nodes)
    /\ \A i \in DOMAIN path.edges : <<path.nodes[i + 1], path.edges[i]>> \in Arms(ls, q, path.nodes[i])

\* Every walk that goes on from the seed or from a path that is returned is
\* returned, too.
Whole ==
    \A p \in walk.paths \cup {[nodes |-> <<walk.query.seed>>, edges |-> <<>>]} :
        Len(p.edges) < walk.query.depth =>
            \A h \in Arms(walk.links, walk.query, p.nodes[Len(p.nodes)]) :
                h[1] \notin On(p) =>
                    [nodes |-> Append(p.nodes, h[1]), edges |-> Append(p.edges, h[2])] \in walk.paths

\* No edge of the walk was removed under it.
Undisturbed == Standing(walk.links) \subseteq walk.cited

\* A path that is returned is a simple walk over edges that stood at both
\* statements; and nothing is left out unless an edge went, the answer is
\* truncated, or a node has more edges than a path may branch into (graph.py
\* traverse_graph).
WalksStand ==
    walk.phase = "answered" =>
        /\ \A p \in walk.paths : IsWalk(walk.links, walk.query, p) /\ Cited(p) \subseteq walk.cited
        /\ (/\ Undisturbed /\ ~walk.truncated
            /\ \A n \in Places :
                 Cardinality(Arms(walk.links, walk.query, n)) <= BranchLimit(walk.query))
           => Whole

\* docs/views-search.md:655 "`truncated: true` means at least one more path
\* existed beyond `limit`": an answer that is not truncated is whole. The code
\* cuts the edges of each node before it counts paths (graph.py:107-110).
TruncationIsTold == walk.phase = "answered" /\ Undisturbed /\ ~walk.truncated => Whole

\* The pages that are current have had their edges drawn.
Settled == \A p \in CurrentPages : pages[p].drawn

Mentions(key, other) ==
    \E p \in CurrentPages : pages[p].key = key /\ ~pages[p].gone /\ other \in pages[p].targets

\* In a store that has settled, the report names exactly the current pages that
\* mention no page, that no current page mentions and that no edge written by
\* hand touches: an edge of a former revision neither hides one nor adds one
\* (docs/views-search.md:690-693; graph.py graph_orphans).
OrphansAreIsolated ==
    report.asked /\ Settled =>
        report.keys =
            {k \in Places :
                /\ \E p \in CurrentPages : pages[p].key = k /\ ~pages[p].gone
                /\ \A o \in Places : ~Mentions(k, o) /\ ~Mentions(o, k)
                /\ \A l \in Standing(links) :
                     links[l].source = NoPage => links[l].from # k /\ links[l].to # k}
=============================================================================
