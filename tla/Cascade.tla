------------------------------- MODULE Cascade -------------------------------
(***************************************************************************)
(* Pipelines that feed each other.  Left: what the loader accepts of a     *)
(* catalog (definitions/loader.py, derive/schema.py).  Right: the triggers *)
(* and successors that then run for one entity (triggers.py,               *)
(* derive/runner.py), with the outputs of one run as the input of others.  *)
(* Claims are left to JobQueue, erasure and stale citations to Derivation. *)
(*                                                                         *)
(* A kind stands for the collection, version, type and status of a record: *)
(* an emission has one kind, a scope is a set of kinds.                    *)
(***************************************************************************)
EXTENDS Naturals, Sequences, FiniteSetsExt

CONSTANTS
    Pipes,     \* the derivations of the catalogs
    MaxDepth,  \* MAX_DERIVATION_DEPTH
    MaxLog,    \* bound: records
    Designs    \* the catalogs that are looked at

Arrival == {"write", "quiet", "changed", "retraction"}   \* arrival_scopes
Observed == Arrival \cup {"at", "census"}                \* observed_scopes

ASSUME CascadeAssumption ==
    /\ IsFiniteSet(Pipes) /\ MaxDepth \in Nat /\ MaxLog \in Nat
    /\ \A d \in Designs :
        /\ d.emits \in [Pipes -> STRING]
        /\ d.driver \in [Pipes -> SUBSET STRING]
        /\ d.changes \in [Pipes -> BOOLEAN]    \* changes, otherwise a snapshot
        /\ d.windowed \in [Pipes -> BOOLEAN]   \* a snapshot of recent records only
        /\ d.driverKey \in [Pipes -> BOOLEAN]  \* rewrites the record it has read
        /\ d.arrivals \in Nat                  \* bound: records from outside
        /\ \A t \in d.triggers :
            /\ t.processor \in Pipes
            /\ t.inline \in BOOLEAN            \* declared with the pipeline
            /\ t.guards \subseteq {"threshold", "read", "lifecycle"}
            /\ \A s \in t.scopes : s.on \in Observed /\ s.ignore \in BOOLEAN

VARIABLES
    design,   \* one of Designs that the loader accepts, which does not change
    log,      \* the records of the entity, by seq
    cursor,   \* the watermark of each pipeline
    alarms,   \* records whose deadline a success of the pipeline has reached
    box,      \* the mailbox of each pipeline
    reading   \* executor memory: what the run in progress has resolved

cascadeVars == <<design, log, cursor, alarms, box, reading>>

(***************************************************************************)
(* What the loader accepts.                                                *)
(***************************************************************************)
Scopes(t, on) == {s \in t.scopes : s.on \in on}
TriggersOf(d, p) == {t \in d.triggers : t.processor = p}

\* _validate_trigger
ValidTrigger(d, t) ==
    /\ t.guards # {} \/ t.scopes # {}
    /\ \A s \in Scopes(t, Arrival) :
        /\ s.kinds \subseteq d.driver[t.processor]
        /\ s.ignore => s.on # "changed" /\ d.driverKey[t.processor]

\* emission_activates
Activates(d, producer, consumer, s) ==
    /\ ~(producer = consumer /\ s.ignore)
    /\ d.emits[producer] \in s.kinds

\* Fault: conditions that the driver's dirtiness guards add no edge.
ScopeFeeds(d, producer, consumer) ==
    \E t \in TriggersOf(d, consumer) : \E s \in t.scopes : Activates(d, producer, consumer, s)

\* An edge of the automatic graph.
Feeds(d, producer, consumer) ==
    \E t \in TriggersOf(d, consumer) :
        \/ \E s \in t.scopes : Activates(d, producer, consumer, s)
        \/ /\ t.guards # {} \/ Scopes(t, {"census"}) # {}
           /\ d.emits[producer] \in d.driver[consumer]

\* The pipelines at the end of an automatic path of n edges.
PathEnds(d, n) ==
    LET ends[k \in 0 .. n] ==
        IF k = 0 THEN Pipes
        ELSE {p \in Pipes : \E q \in ends[k - 1] : Feeds(d, q, p)} IN ends[n]

\* _validate_automatic_graph: automatic_cycle and automatic_depth.
Accepted(d) ==
    /\ \A t \in d.triggers : ValidTrigger(d, t)
    /\ PathEnds(d, Cardinality(Pipes)) = {}
    /\ PathEnds(d, MaxDepth + 1) = {}

(***************************************************************************)
(* Triggers.                                                               *)
(***************************************************************************)
\* via is history: how often every stimulus has come through each pipeline.
NoBox == [state |-> "none", via |-> [p \in Pipes |-> MaxLog], timed |-> TRUE]
NotReading == [rows |-> {}, through |-> 0]

CascadeInit ==
    /\ design \in {d \in Designs : Accepted(d)}
    /\ log = <<>>
    /\ cursor = [p \in Pipes |-> 0]
    /\ alarms = [p \in Pipes |-> {}]
    /\ box = [p \in Pipes |-> NoBox]
    /\ reading = [p \in Pipes |-> NotReading]

\* scope_sql: the rows of a scope above a position.
Above(rows, kinds, seq) == {i \in seq + 1 .. Len(rows) : rows[i].kind \in kinds}

\* _driver_dirty
Dirty(rows, cur, p) == {i \in Above(rows, design.driver[p], cur[p]) : rows[i].ready}

\* _scope_matches: the ready records of a scope above the watermark.
ScopeMatches(rows, cur, p, s) ==
    {i \in Above(rows, s.kinds, cur[p]) : rows[i].ready /\ (s.ignore => rows[i].by # p)}

\* _changed_matches: a rewrite with the same content is no change.
ChangedMatches(rows, cur, p, s) ==
    {i \in Above(rows, s.kinds, cur[p]) : rows[i].ready /\ rows[i].how # "same"}

Retractions(rows, cur, p, s) ==
    {i \in ScopeMatches(rows, cur, p, s) : rows[i].how = "removed"}

\* _at_deadline: the deadlines that no success has reached, whoever set them.
AtMatches(rows, handled, p, s) ==
    {i \in Above(rows, s.kinds, 0) \ handled[p] : rows[i].ready /\ rows[i].dated}

\* _census_matches, with the least floor.
CensusMatches(rows, cur, p, s) ==
    IF \E i \in Above(rows, s.kinds, 0) : rows[i].ready /\ rows[i].how # "removed"
    THEN Dirty(rows, cur, p) ELSE {}

Matches(rows, cur, p, s) ==
    CASE s.on \in {"write", "quiet"} -> ScopeMatches(rows, cur, p, s)
      [] s.on = "changed" -> ChangedMatches(rows, cur, p, s)
      [] s.on = "retraction" -> Retractions(rows, cur, p, s)
      [] s.on = "census" -> CensusMatches(rows, cur, p, s)
      [] s.on = "at" -> {}

\* _accumulator_matches and _lifecycle_matches, with the least thresholds.
Guarded(rows, cur, p, t) ==
    IF t.guards \cap {"threshold", "lifecycle"} # {} THEN Dirty(rows, cur, p) ELSE {}

Prompted(rows, cur, p) ==
    UNION {Guarded(rows, cur, p, t) \cup UNION {Matches(rows, cur, p, s) : s \in t.scopes} :
            t \in TriggersOf(design, p)}
Timely(rows, handled, p) ==
    UNION {UNION {AtMatches(rows, handled, p, s) : s \in Scopes(t, {"at"})} :
            t \in TriggersOf(design, p)}

\* A stimulus fills the mailbox or coalesces into the active job.
Filled(b, rows, prompted, timely) ==
    IF prompted \cup timely = {} THEN b
    ELSE LET old == IF b.state \in {"waiting", "running"} THEN b ELSE NoBox IN
        [state |-> IF b.state = "running" THEN "running" ELSE "waiting",
         via |-> [q \in Pipes |->
            Min({old.via[q]} \cup {rows[i].via[q] : i \in prompted \cup timely})],
         timed |-> old.timed /\ prompted = {}]

\* evaluate_entity_triggers_tx
Evaluated(boxes, rows, cur, handled) ==
    [p \in Pipes |-> Filled(boxes[p], rows, Prompted(rows, cur, p), Timely(rows, handled, p))]

(***************************************************************************)
(* Records.                                                                *)
(***************************************************************************)
\* How a record changes its slot, and whether it names a time, where asked.
Hows == IF \E t \in design.triggers : Scopes(t, {"changed", "retraction"}) # {}
        THEN {"changed", "same", "removed"} ELSE {"changed"}
Dates == IF \E t \in design.triggers : Scopes(t, {"at"}) # {} THEN BOOLEAN ELSE {FALSE}
Ages == IF \E p \in Pipes : design.windowed[p] THEN BOOLEAN ELSE {FALSE}

Outside == "outside"
FromOutside == {i \in DOMAIN log : log[i].by = Outside}

Arrive(kind) ==
    /\ Cardinality(FromOutside) < design.arrivals /\ Len(log) < MaxLog
    /\ \E how \in Hows, dated \in Dates, old \in Ages :
        log' = Append(log, [kind |-> kind, by |-> Outside, ready |-> FALSE, depth |-> 0,
                            how |-> how, dated |-> dated, old |-> old,
                            via |-> [p \in Pipes |-> 0]])
    /\ UNCHANGED <<design, cursor, alarms, box, reading>>

\* Enrichment ends: on_records_ready_tx.
BecomeReady(i) ==
    /\ ~log[i].ready
    /\ log' = [log EXCEPT ![i].ready = TRUE]
    /\ box' = Evaluated(box, log', cursor, alarms)
    /\ UNCHANGED <<design, cursor, alarms, reading>>

(***************************************************************************)
(* Runs.                                                                   *)
(***************************************************************************)
\* _changes_input with max_records 1: the oldest row above the cursor.
NextRow(p) ==
    LET rows == Above(log, design.driver[p], cursor[p]) IN
    IF rows = {} THEN {} ELSE {Min(rows)}

\* _snapshot_input: every row of the scope that is in the window.
SnapshotRows(p) ==
    {i \in Above(log, design.driver[p], 0) : ~(design.windowed[p] /\ log[i].old)}

PipeBasis(p) == IF design.changes[p] THEN NextRow(p) ELSE SnapshotRows(p)

\* The claim and the basis: a row that is not ready puts the job off.
ResolveRun(p) ==
    /\ box[p].state = "waiting" /\ \A i \in PipeBasis(p) : log[i].ready
    /\ box' = [box EXCEPT ![p].state = "running"]
    /\ reading' = [reading EXCEPT ![p] =
        [rows |-> PipeBasis(p),
         through |-> IF PipeBasis(p) # {} THEN Max(PipeBasis(p))
                     ELSE IF design.changes[p] THEN cursor[p] ELSE 0]]
    /\ UNCHANGED <<design, log, cursor, alarms>>

\* The newest record in the slot that a driver_key pipeline rewrites.
SlotHead(p) ==
    LET slot == Above(log, {design.emits[p]}, 0) IN
    IF design.driverKey[p] /\ slot # {} THEN {Max(slot)} ELSE {}

\* One abstraction level above what is cited; to rewrite the head adds none.
DepthFrom(p, i) ==
    Max({log[h].depth : h \in SlotHead(p)} \cup {log[c].depth + 1 : c \in {i} \ SlotHead(p)})

Output(p, cited, how, dated) ==
    [kind |-> design.emits[p], by |-> p, ready |-> FALSE, depth |-> DepthFrom(p, cited),
     how |-> how, dated |-> dated, old |-> FALSE, via |-> [box[p].via EXCEPT ![p] = @ + 1]]

\* _enqueue_successor_tx: rows above the cursor, ready or not.
IgnoresOwn(d, p) ==
    /\ d.driverKey[p]
    /\ \E t \in TriggersOf(d, p) : t.inline /\ \E s \in Scopes(t, {"write"}) : s.ignore
Succeeding(rows, cur, p) ==
    IF ~design.changes[p] THEN {}
    ELSE {i \in Above(rows, design.driver[p], cur[p]) : IgnoresOwn(design, p) => rows[i].by # p}

\* The deadlines that a success may reach: those of the job, if nothing else asked.
Reached(p) ==
    LET due == Timely(log, alarms, p) IN
    {s \in SUBSET due : box[p].timed /\ due # {} => s # {}}

\* _commit_execution with the outputs out, at most one.
Finish(p, out) ==
    /\ log' = log \o out
    /\ cursor' = [cursor EXCEPT ![p] = reading[p].through]
    /\ \E reached \in Reached(p) : alarms' = [alarms EXCEPT ![p] = @ \cup reached]
    /\ LET done == [box EXCEPT ![p] = Filled(NoBox, log', Succeeding(log', cursor', p), {})] IN
        box' = Evaluated(done, log', cursor', alarms')
    /\ reading' = [reading EXCEPT ![p] = NotReading]
    /\ UNCHANGED design

CommitNothing(p) == box[p].state = "running" /\ Finish(p, <<>>)

CommitOutput(p) ==
    /\ box[p].state = "running" /\ Len(log) < MaxLog
    /\ \E i \in reading[p].rows, how \in Hows, dated \in Dates :
        /\ DepthFrom(p, i) <= MaxDepth
        /\ Finish(p, <<Output(p, i, how, dated)>>)

\* The attempts are used up, by failures of any kind.
DieRun(p) ==
    /\ box[p].state = "running"
    /\ box' = [box EXCEPT ![p] = [NoBox EXCEPT !.state = "dead"]]
    /\ reading' = [reading EXCEPT ![p] = NotReading]
    /\ UNCHANGED <<design, log, cursor, alarms>>

EndRun(p) == CommitNothing(p) \/ CommitOutput(p) \/ DieRun(p)

(***************************************************************************)
CascadeNext ==
    \/ \E kind \in UNION {design.driver[p] : p \in Pipes} : Arrive(kind)
    \/ \E i \in DOMAIN log : BecomeReady(i)
    \/ \E p \in Pipes : ResolveRun(p) \/ CommitNothing(p) \/ CommitOutput(p) \/ DieRun(p)

CascadeSpec == CascadeInit /\ [][CascadeNext]_cascadeVars

\* Sweeps settle every row; executors poll, and end what they claim.
CascadeFairness ==
    /\ WF_cascadeVars(\E i \in DOMAIN log : BecomeReady(i))
    /\ \A p \in Pipes : WF_cascadeVars(ResolveRun(p)) /\ WF_cascadeVars(EndRun(p))

(***************************************************************************)
(* Properties.                                                             *)
(***************************************************************************)
\* What a changes driver can read is what activates it, or is ignored by the
\* successor too; and no condition is judged otherwise at run time.
Covered(d) ==
    /\ \A p, q \in Pipes : d.changes[p] /\ d.emits[q] \in d.driver[p] =>
        Feeds(d, q, p) \/ (p = q /\ IgnoresOwn(d, p))
    /\ \A t \in d.triggers : \A s \in Scopes(t, {"at"}) : ~s.ignore
    /\ \A p \in Pipes : ~d.windowed[p]

Active(p) == box[p].state \in {"waiting", "running"}

\* definitions/loader.py:4298-4366, triggers.py:730, derive/runner.py:1321: in a
\* catalog that is accepted and covered, runs end when arrivals do. Whatever the
\* outputs of runs activate, the cascade comes to rest before the log is full.
CascadesEnd ==
    Covered(design) => <>[](Len(log) < MaxLog /\ \A p \in Pipes : ~Active(p))

\* docs/triggers.md:642-644: automatic chains do not feed themselves for ever.
\* No job owes all its stimuli to more runs of its own pipeline, one after the
\* other, than an automatic path may be long.
NoSelfFeeding == \A p \in Pipes : Active(p) => box[p].via[p] <= MaxDepth

\* definitions/loader.py:4362-4366: no automatic path that is accepted is too
\* deep for its last run.
DepthSuffices ==
    Covered(design) => \A p \in Pipes : box[p].state = "running" =>
        \A i \in reading[p].rows : DepthFrom(p, i) <= MaxDepth
=============================================================================
