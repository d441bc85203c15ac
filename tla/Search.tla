------------------------------- MODULE Search -------------------------------
(***************************************************************************)
(* A search (search/engine.py execute_search) over a store that changes    *)
(* under it.                                                               *)
(*                                                                         *)
(* Each source of a request asks an engine for candidates, reloads them    *)
(* from the canonical rows, checks every rule again, ranks what survives   *)
(* and lets a model judge the best of it; sources run at once, and their   *)
(* results are fused, boosted and cut when the last one is there. The      *)
(* PostgreSQL engine reads the canonical rows, one statement per channel;  *)
(* the external index holds projections of former states of the rows.      *)
(* Between any two of these steps rows are written, enriched, promoted and *)
(* erased.                                                                 *)
(***************************************************************************)
EXTENDS Naturals, Integers, Sequences, FiniteSets

CONSTANTS
    Shelves,      \* the rows at first
    Specs,        \* the requests that are looked at
    MaxRows,      \* bound: rows
    MaxChanges,   \* bound: what happens to the rows
    AtOnce        \* SEARCH_MAX_CONCURRENCY

ASSUME SearchAssumption == MaxRows \in Nat /\ MaxChanges \in Nat /\ AtOnce \in Nat \ {0}

VARIABLES
    spec,      \* one of Specs, which does not change
    shelf,     \* the rows by seq, those that are erased included
    index,     \* the external index: what was projected of the rows it holds
    changes,   \* what has happened to the rows
    request,   \* the memory of execute_search
    fetched,   \* fetched[s]: the memory of _execute_source
    ever,      \* ever[s]: the rows that fulfilled the source at some moment of the request
    always     \* always[s]: the rows that fulfilled it at every moment

searchVars == <<spec, shelf, index, changes, request, fetched, ever, always>>

Nothing == 0      \* no value
NoName == "none"  \* no key

(***************************************************************************)
(* The rules of a source (search/scope.py; engine.py 574-680). One         *)
(* attribute, `tag`, stands for entity, type, time and depth.              *)
(***************************************************************************)

OnShelf(sh) == {i \in DOMAIN sh : ~sh[i].erased}

\* A newer row of the lane of a key hides this one, whether ready or not.
Superseded(sh, i) ==
    \E j \in OnShelf(sh) : /\ j > i /\ sh[i].key # NoName
                            /\ sh[j].key = sh[i].key /\ sh[j].collection = sh[i].collection
                            /\ sh[j].status = sh[i].status

\* scope_conditions, in SQL: the canonical reload and the channels of PostgreSQL.
InScope(sh, i, scope) ==
    /\ i \in OnShelf(sh) /\ sh[i].ready /\ ~sh[i].retracted
    /\ IF scope.collections = {} THEN sh[i].collection # "_system"
       ELSE /\ sh[i].collection \in scope.collections
            /\ sh[i].collection \in DOMAIN scope.versions =>
                 sh[i].version \in scope.versions[sh[i].collection]
    /\ scope.tags # {} => sh[i].tag \in scope.tags
    /\ scope.status # "all" => sh[i].status = scope.status
    /\ scope.keyed # {} => (sh[i].key # NoName) \in scope.keyed
    /\ scope.current => ~Superseded(sh, i)

\* A field as the version of a row declares it: the first path with a value.
FieldValue(row, field) ==
    LET at == <<row.collection, row.version>>
        paths == IF at \in DOMAIN field.paths THEN field.paths[at] ELSE <<>>
        filled == {p \in DOMAIN paths : row.values[paths[p]] # Nothing}
    IN IF filled = {} THEN Nothing
       ELSE row.values[paths[CHOOSE p \in filled : \A q \in filled : p <= q]]

\* The operators of one predicate: `exists`, and those that admit some values.
PredicateMatches(row, predicate) ==
    LET value == FieldValue(row, predicate.field)
    IN /\ <<row.collection, row.version>> \in DOMAIN predicate.field.paths
       /\ predicate.exists # {} => (value # Nothing) \in predicate.exists
       /\ predicate.compares => value # Nothing /\ value \in predicate.admits

Fulfils(sh, i, source) ==
    InScope(sh, i, source.scope) /\ \A p \in source.where : PredicateMatches(sh[i], p)

(***************************************************************************)
(* The candidates.                                                         *)
(***************************************************************************)

\* A set in the order of a relation that is total on it.
Ordered(S, Before(_, _)) ==
    [n \in 1 .. Cardinality(S) |-> CHOOSE x \in S : Cardinality({y \in S : Before(y, x)}) = n - 1]
Cut(seq, n) == IF Len(seq) <= n THEN seq ELSE SubSeq(seq, 1, n)
InIt(seq) == {seq[n] : n \in DOMAIN seq}

Channels(mode) == IF mode = "hybrid" THEN <<"vector", "text", "recent">> ELSE <<mode>>

\* What a channel finds, and what it puts first.
Found(row, channel, space) ==
    CASE channel = "vector" -> row.space = space
      [] channel = "text" -> row.match > 0
      [] OTHER -> TRUE
Signal(row, channel) ==
    CASE channel = "vector" -> row.near [] channel = "text" -> row.match [] OTHER -> 0

\* order_by: a value before none; what is equal is left to the next term.
FieldBefore(a, b, order) ==
    \/ b = Nothing /\ a # Nothing
    \/ a # Nothing /\ b # Nothing /\ (IF order.descends THEN a > b ELSE a < b)

InOrder(rows, source, i, j) ==
    LET a == FieldValue(rows[i], source.order.field)
        b == FieldValue(rows[j], source.order.field)
    IN FieldBefore(a, b, source.order) \/ (a = b /\ i < j)

\* One statement of the PostgreSQL engine (search/pg.py). A predicate on an
\* array is not pushed down.
PostgresChannel(sh, source, channel, space) ==
    LET rows == {i \in DOMAIN sh :
                    /\ InScope(sh, i, source.scope) /\ Found(sh[i], channel, space)
                    /\ channel = "structured" =>
                         \A p \in source.where : ~p.field.array => PredicateMatches(sh[i], p)}
        Before(i, j) ==
            IF channel = "structured" THEN InOrder(sh, source, i, j)
            ELSE \/ Signal(sh[i], channel) > Signal(sh[j], channel)
                 \/ Signal(sh[i], channel) = Signal(sh[j], channel) /\ i > j
    IN Cut(Ordered(rows, Before), source.candidates)

\* _round_robin_union: the first of each channel, then the second, and so on.
RoundRobin(channels, cap) ==
    LET places == UNION {{<<n, c>> : n \in DOMAIN channels[c]} : c \in DOMAIN channels}
        Before(p, q) == p[1] < q[1] \/ (p[1] = q[1] /\ p[2] < q[2])
        firsts == {p \in places :
            \A q \in places : Before(q, p) => channels[q[2]][q[1]] # channels[p[2]][p[1]]}
        order == Ordered(firsts, Before)
    IN Cut([n \in DOMAIN order |-> channels[order[n][2]][order[n][1]]], cap)

\* The attribute of the external index for a field: it holds the field of one
\* collection and version, the first of those in scope.
IndexValue(entry, field) ==
    IF <<entry.collection, entry.version>> = field.first THEN FieldValue(entry, field) ELSE Nothing

\* What the index is asked for (search/turbopuffer.py _filter_expression); an
\* `exists` compares the attribute with a truth value, which no value equals.
IndexFilter(entry, source) ==
    /\ source.scope.collections # {} => entry.collection \in source.scope.collections
    /\ source.scope.tags # {} => entry.tag \in source.scope.tags
    /\ source.scope.status # "all" => entry.status = source.scope.status
    /\ source.scope.keyed # {} => (entry.key # NoName) \in source.scope.keyed
    /\ source.scope.current => entry.current
    /\ \A p \in source.where :
         p.field.array \/ (p.exists = {} /\ IndexValue(entry, p.field) \in p.admits)

\* One query of the hybrid or plain request to a namespace.
IndexChannel(namespace, source, channel) ==
    LET entries == {i \in DOMAIN index :
            /\ namespace \in {"shared", index[i].collection} /\ IndexFilter(index[i], source)
            /\ channel = "vector" => index[i].space # NoName
            /\ channel = "text" => index[i].match > 0}
        Value(i) == IndexValue(index[i], source.order.field)
        Before(i, j) ==
            IF channel = "structured"
            THEN FieldBefore(Value(i), Value(j), source.order) \/ (Value(i) = Value(j) /\ i < j)
            ELSE \/ Signal(index[i], channel) > Signal(index[j], channel)
                 \/ Signal(index[i], channel) = Signal(index[j], channel) /\ i > j
    IN Cut(Ordered(entries, Before), source.candidates)

Concatenated(lists) ==
    LET of[n \in 0 .. Len(lists)] == IF n = 0 THEN <<>> ELSE of[n - 1] \o lists[n] IN of[Len(lists)]

\* What is asked one after the other: the channels in PostgreSQL, the namespaces
\* of the index.
StepsOf(source) ==
    IF source.engine = "pg" THEN Channels(source.mode)
    ELSE IF source.layout = "shared" THEN <<"shared">>
    ELSE LET names == IF source.scope.collections # {} THEN source.scope.collections
                      ELSE {shelf[i].collection : i \in OnShelf(shelf)}
         IN CHOOSE order \in [1 .. Cardinality(names) -> names] : InIt(order) = names

Proposal(source, step) ==
    IF source.engine = "pg" THEN PostgresChannel(shelf, source, step, spec.space)
    ELSE LET channels == Channels(source.mode)
         IN Concatenated([c \in DOMAIN channels |-> IndexChannel(step, source, channels[c])])

\* The rows in the order in which they were proposed first.
Deduplicated(seq) ==
    LET firsts == {n \in DOMAIN seq : \A m \in 1 .. (n - 1) : seq[m] # seq[n]}
        order == Ordered(firsts, <)
    IN [n \in DOMAIN order |-> seq[order[n]]]

(***************************************************************************)
(* The ranking of one source.                                              *)
(***************************************************************************)

\* evaluate_rank: signals that are computed anew from the canonical row; one
\* that is missing counts nothing.
RankScore(row, mode) ==
    (IF mode \in {"vector", "hybrid"} /\ row.space = spec.space THEN row.near ELSE 0)
    + (IF mode \in {"text", "hybrid"} THEN row.match ELSE 0)
    + (IF mode \in {"recent", "hybrid"} THEN row.seq ELSE 0) + row.score

\* _relevance_sort: the best first, then the newest.
ByScore(pairs) ==
    LET Before(p, q) == p.score > q.score \/ (p.score = q.score /\ p.row.seq > q.row.seq)
    IN Ordered(pairs, Before)

\* The scope is left to the engine.
SurvivorsTrusted(source, order) ==
    {i \in InIt(order) : /\ i \in OnShelf(shelf)
                         /\ \A p \in source.where : PredicateMatches(shelf[i], p)}

\* _load_canonical_rows and _surviving_rows.
Survivors(source, order) ==
    {i \in InIt(order) : /\ InScope(shelf, i, source.scope)
                         /\ \A p \in source.where : PredicateMatches(shelf[i], p)}

\* _structured_sort, or the rank expression.
RankedRows(source, survivors) ==
    IF source.mode = "structured"
    THEN LET Before(i, j) == InOrder(shelf, source, i, j)
             order == Ordered(survivors, Before)
         IN [n \in DOMAIN order |-> [row |-> shelf[order[n]], score |-> 0]]
    ELSE ByScore({[row |-> shelf[i], score |-> RankScore(shelf[i], source.mode)] : i \in survivors})

BoundsOf(pairs) ==
    LET scores == {pairs[n].score : n \in DOMAIN pairs}
    IN {low \in scores : \A x \in scores : low <= x} \X {high \in scores : \A x \in scores : x <= high}

OutputLimit(source) ==
    IF spec.graph THEN IF source.k > source.candidates THEN source.k ELSE source.candidates
    ELSE source.k

\* The end of _execute_source.
Result(s, pairs) ==
    [fetched[s] EXCEPT !.phase = "done", !.bounds = BoundsOf(pairs),
                       !.ranked = Cut(pairs, OutputLimit(spec.sources[s]))]

\* _rerank_prompt: what the model is shown.
Judged(pairs) == Cut(Cut(pairs, spec.judged), spec.fits)

\* What was not judged is forgotten.
RerankedWithoutTail(pairs, verdict) ==
    LET judged == Judged(pairs)
        Before(m, n) == verdict[m] > verdict[n] \/ (verdict[m] = verdict[n] /\ m < n)
        order == Ordered(DOMAIN judged, Before)
    IN [n \in DOMAIN judged |-> [row |-> judged[order[n]].row, score |-> verdict[order[n]]]]

\* _llm_rerank: the judged in the order of their scores, then the others as
\* they were.
Reranked(pairs, verdict) ==
    LET judged == Judged(pairs)
        Before(m, n) == verdict[m] > verdict[n] \/ (verdict[m] = verdict[n] /\ m < n)
        order == Ordered(DOMAIN judged, Before)
    IN [n \in DOMAIN judged |-> [row |-> judged[order[n]].row, score |-> verdict[order[n]]]]
           \o [n \in 1 .. (Len(pairs) - Len(judged)) |->
                  [row |-> pairs[Len(judged) + n].row, score |-> -n]]

(***************************************************************************)
(* The combination.                                                        *)
(***************************************************************************)

SourceIds == DOMAIN spec.sources

\* _fuse: reciprocal ranks, over a common denominator; the first source that
\* read a row provides it.
Fused(results) ==
    LET rows == UNION {{results[s].ranked[n].row.seq : n \in DOMAIN results[s].ranked} : s \in SourceIds}
        At(s, i) == {n \in DOMAIN results[s].ranked : results[s].ranked[n].row.seq = i}
        Share(s, i) == IF At(s, i) = {} THEN 0
                       ELSE (60 * spec.sources[s].weight) \div (spec.constant + CHOOSE n \in At(s, i) : TRUE)
        RowOf(i) == LET s == CHOOSE s \in SourceIds : At(s, i) # {} /\ \A r \in 1 .. (s - 1) : At(r, i) = {}
                    IN results[s].ranked[CHOOSE n \in At(s, i) : TRUE].row
        Sum[s \in 0 .. Len(spec.sources)] ==
            IF s = 0 THEN [i \in rows |-> 0] ELSE [i \in rows |-> Sum[s - 1][i] + Share(s, i)]
        Factor(row) == IF spec.boosted THEN row.score ELSE 1
    IN ByScore({[row |-> RowOf(i), score |-> Sum[Len(spec.sources)][i] * Factor(RowOf(i))] : i \in rows})

\* The boost of what lies near the anchor, then the cut that all but a plain
\* single source still need.
Finished(pairs, bounds) ==
    [request EXCEPT !.phase = "touching", !.hits = Cut(pairs, spec.k), !.bounds = bounds]

(***************************************************************************)
(* The request.                                                            *)
(***************************************************************************)

Searching(s) == request.phase = "searching" /\ s \in SourceIds
Fulfilling(sh, s) == {i \in DOMAIN sh : Fulfils(sh, i, spec.sources[s])}

Fails(how) == request' = [request EXCEPT !.phase = how]

\* The query is embedded once, if a source needs it; then all sources start.
Starts ==
    /\ request.phase = "new"
    /\ \/ /\ request' = [request EXCEPT !.phase = "searching"]
          /\ ever' = [s \in SourceIds |-> Fulfilling(shelf, s)] /\ always' = ever'
       \/ /\ \E s \in SourceIds : spec.sources[s].mode \in {"vector", "hybrid"}
          /\ Fails("unavailable") /\ UNCHANGED <<ever, always>>
    /\ UNCHANGED <<spec, shelf, index, changes, fetched>>

\* The semaphore and a connection; more namespaces than MAX_COLLECTION_FANOUT
\* are refused.
Asks(s) ==
    /\ Searching(s) /\ fetched[s].phase = "waiting"
    /\ Cardinality({r \in SourceIds : fetched[r].phase = "asking"}) < AtOnce
    /\ LET steps == StepsOf(spec.sources[s])
       IN IF Len(steps) > spec.fanout /\ spec.sources[s].engine # "pg"
          THEN Fails("refused") /\ UNCHANGED fetched
          ELSE /\ fetched' = [fetched EXCEPT ![s].phase = "asking", ![s].steps = steps]
               /\ UNCHANGED request
    /\ UNCHANGED <<spec, shelf, index, changes, ever, always>>

\* One query is answered; the index may fail or be built.
Proposes(s) ==
    /\ Searching(s) /\ fetched[s].phase = "asking" /\ fetched[s].steps # <<>>
    /\ \/ /\ fetched' = [fetched EXCEPT ![s].steps = Tail(@),
                ![s].lists = Append(@, Proposal(spec.sources[s], Head(fetched[s].steps)))]
          /\ UNCHANGED request
       \/ spec.sources[s].engine # "pg" /\ Fails("unavailable") /\ UNCHANGED fetched
    /\ UNCHANGED <<spec, shelf, index, changes, ever, always>>

\* The candidates are reloaded and ranked; the connection is given back.
Reloads(s) ==
    /\ Searching(s) /\ fetched[s].phase = "asking" /\ fetched[s].steps = <<>>
    /\ LET source == spec.sources[s]
           order == IF source.engine = "pg" THEN RoundRobin(fetched[s].lists, source.candidates)
                    ELSE Deduplicated(Concatenated(fetched[s].lists))
           pairs == RankedRows(source, Survivors(source, order))
           read == [fetched EXCEPT ![s].lists = <<>>, ![s].proposed = Len(order)]
       IN fetched' = IF spec.judged > 0 /\ pairs # <<>>
                     THEN [read EXCEPT ![s].phase = "judging", ![s].ranked = pairs]
                     ELSE [read EXCEPT ![s] = [Result(s, pairs) EXCEPT !.lists = <<>>,
                                                                       !.proposed = Len(order)]]
    /\ UNCHANGED <<spec, shelf, index, changes, request, ever, always>>

\* The model answers with a score for each row it was shown, or the request
\* fails: it answers something else, takes too long, or can be shown nothing.
Judges(s) ==
    /\ Searching(s) /\ fetched[s].phase = "judging"
    /\ \/ /\ Judged(fetched[s].ranked) # <<>>
          /\ \E verdict \in [DOMAIN Judged(fetched[s].ranked) -> {0, 1}] :
               fetched' = [fetched EXCEPT ![s] = Result(s, Reranked(fetched[s].ranked, verdict))]
          /\ UNCHANGED request
       \/ Fails("unavailable") /\ UNCHANGED fetched
    /\ UNCHANGED <<spec, shelf, index, changes, ever, always>>

\* The last source is there.
Combines ==
    /\ request.phase = "searching" /\ \A s \in SourceIds : fetched[s].phase = "done"
    /\ LET pairs == IF spec.fuses THEN Fused(fetched) ELSE fetched[1].ranked
       IN request' = IF spec.graph THEN [request EXCEPT !.phase = "boosting", !.hits = pairs]
                     ELSE Finished(pairs, IF spec.fuses THEN BoundsOf(pairs) ELSE fetched[1].bounds)
    /\ UNCHANGED <<spec, shelf, index, changes, fetched, ever, always>>

\* _apply_graph_boost: another walk over the store (Traversal), which may be
\* refused; `tag` lies at some distance of the anchor, or nowhere near it.
Boosts ==
    /\ request.phase = "boosting"
    /\ \/ \E near \in SUBSET {request.hits[n].row.tag : n \in DOMAIN request.hits} :
            LET pairs == ByScore({[p EXCEPT !.score = @ + (IF p.row.tag \in near THEN spec.pull ELSE 0)] :
                                      p \in InIt(request.hits)})
            IN request' = Finished(pairs, BoundsOf(pairs))
       \/ Fails("refused")
    /\ UNCHANGED <<spec, shelf, index, changes, fetched, ever, always>>

\* last_accessed of the hits is updated, or that fails, which is only logged.
Touches ==
    /\ request.phase = "touching"
    /\ request' = [request EXCEPT !.phase = "answered"]
    /\ UNCHANGED <<spec, shelf, index, changes, fetched, ever, always>>

(***************************************************************************)
(* What happens to the rows meanwhile.                                     *)
(***************************************************************************)

Open == request.phase \in {"new", "searching"}

\* A change, and which rows fulfil the sources since.
Changes(sh) ==
    /\ Open /\ changes < MaxChanges
    /\ shelf' = sh /\ changes' = changes + 1
    /\ IF request.phase = "new" THEN UNCHANGED <<ever, always>>
       ELSE /\ ever' = [s \in SourceIds |-> ever[s] \cup Fulfilling(sh, s)]
            /\ always' = [s \in SourceIds |-> always[s] \cap Fulfilling(sh, s)]
    /\ UNCHANGED <<spec, index, request, fetched>>

\* A row is ingested.
Arrives(row) ==
    Len(shelf) < MaxRows /\ Changes(Append(shelf, [row EXCEPT !.seq = Len(shelf) + 1]))

\* A row is enriched: it gets the annotation of the newest processor.
Readies(i) ==
    ~shelf[i].ready /\ Changes([shelf EXCEPT ![i].ready = TRUE, ![i].values[1] = 1])

\* A draft is promoted: an active copy of it arrives, which is ready.
Promotes(i) ==
    /\ i \in OnShelf(shelf) /\ shelf[i].status = "draft" /\ shelf[i].key # NoName /\ shelf[i].ready
    /\ Len(shelf) < MaxRows
    /\ Changes(Append(shelf, [shelf[i] EXCEPT !.seq = Len(shelf) + 1, !.status = "active"]))

Erases(i) == i \in OnShelf(shelf) /\ Changes([shelf EXCEPT ![i].erased = TRUE])

\* A projection job catches up with one row (Projection).
Projected(sh, i) ==
    [collection |-> sh[i].collection, version |-> sh[i].version, key |-> sh[i].key,
     status |-> sh[i].status, tag |-> sh[i].tag, current |-> ~Superseded(sh, i),
     values |-> sh[i].values, space |-> sh[i].space, near |-> sh[i].near, match |-> sh[i].match]
Projectable(sh) == {i \in OnShelf(sh) : sh[i].ready}
Projection(sh) == [i \in Projectable(sh) |-> Projected(sh, i)]

Projects(i) ==
    /\ Open
    /\ index' = [j \in (DOMAIN index \ {i}) \cup (Projectable(shelf) \cap {i}) |->
                    IF j = i THEN Projected(shelf, i) ELSE index[j]]
    /\ index' # index
    /\ UNCHANGED <<spec, shelf, changes, request, fetched, ever, always>>

(***************************************************************************)
(* The specification.                                                      *)
(***************************************************************************)

SearchBegins ==
    /\ changes = 0
    /\ request = [phase |-> "new", hits |-> <<>>, bounds |-> {}]
    /\ index = Projection(shelf)
    /\ fetched = [s \in SourceIds |-> [phase |-> "waiting", steps |-> <<>>, lists |-> <<>>,
                                     proposed |-> 0, ranked |-> <<>>, bounds |-> {}]]
    /\ ever = [s \in SourceIds |-> {}] /\ always = ever

SearchInit == spec \in Specs /\ shelf \in Shelves /\ SearchBegins

SearchTypes ==
    /\ spec \in Specs /\ DOMAIN index \subseteq DOMAIN shelf /\ changes \in 0 .. MaxChanges
    /\ \A i \in DOMAIN shelf : shelf[i].seq = i
    /\ request.phase \in {"new", "searching", "boosting", "touching", "answered", "refused",
                          "unavailable"}
    /\ \A s \in SourceIds : /\ fetched[s].phase \in {"waiting", "asking", "judging", "done"}
                          /\ always[s] \subseteq ever[s] /\ ever[s] \subseteq DOMAIN shelf

SearchNext ==
    \/ Starts \/ Combines \/ Boosts \/ Touches
    \/ \E s \in SourceIds : Asks(s) \/ Proposes(s) \/ Reloads(s) \/ Judges(s)
    \/ \E row \in spec.arrivals : Arrives(row)
    \/ \E i \in DOMAIN shelf : Readies(i) \/ Promotes(i) \/ Erases(i) \/ Projects(i)

SearchSpec == SearchInit /\ [][SearchNext]_searchVars

(***************************************************************************)
(* Properties.                                                             *)
(***************************************************************************)

HitIds == {request.hits[n].row.seq : n \in DOMAIN request.hits}

\* Whatever the engine proposed and however late the answer is: there are at
\* most k hits, each row once, each one fulfilled all the rules of one of the
\* sources at a moment of the request, and its score lies within the bounds it
\* is normalized with (docs/views-search.md:1253-1280; engine.py:950, 1344;
\* rank.py:275-297).
HitsHold ==
    request.phase \in {"touching", "answered"} =>
        /\ Len(request.hits) <= spec.k /\ Cardinality(HitIds) = Len(request.hits)
        /\ HitIds \subseteq UNION {ever[s] : s \in SourceIds}
        /\ \A n \in DOMAIN request.hits : \E bound \in request.bounds :
             bound[1] <= request.hits[n].score /\ request.hits[n].score <= bound[2]

\* The rows that fulfilled a source all the time, that it could propose and
\* that neither its limit nor k left out.
Missing(s) ==
    LET channels == InIt(Channels(spec.sources[s].mode))
    IN {i \in always[s] \ HitIds :
        /\ \E c \in channels : Found(shelf[i], c, spec.space)
        /\ Len(shelf) <= spec.sources[s].candidates
        /\ Len(fetched[s].ranked) < OutputLimit(spec.sources[s]) /\ Len(request.hits) < spec.k}

\* A row that is there, whole and unchanged, from the start of a request to its
\* end is not lost between the channels, the reload, the judge and the fusion
\* (search/pg.py; engine.py 891-1012).
NothingIsMissed ==
    request.phase = "answered" =>
        \A s \in SourceIds : spec.sources[s].engine = "pg" => Missing(s) = {}

\* engine.py:578 "candidate pushdown may be broader, but every predicate is
\* rechecked": an index that is up to date loses no row either. The external
\* index is filtered by the attribute of one collection and version only, and
\* no value equals the truth value of `exists` (turbopuffer.py:120-140).
PushdownIsBroader ==
    request.phase = "answered" /\ changes = 0 => \A s \in SourceIds : Missing(s) = {}

\* docs/views-search.md:1274 "Each search asks its engine for at most
\* `params.candidates` record ids": a hybrid query of the external index asks
\* for as many per channel, and per namespace.
CandidatesBounded == \A s \in SourceIds : fetched[s].proposed <= spec.sources[s].candidates
=============================================================================
