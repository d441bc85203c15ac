----------------------------- MODULE Projection -----------------------------
(***************************************************************************)
(* The versions of one keyed slot, the projection jobs their transactions  *)
(* enqueue, and the search index outside the database that the jobs keep   *)
(* (projections.py, reindex.py, and the callers in records.py, erase.py    *)
(* and enrichment.py).  A job names records and carries no data: its       *)
(* executor reads them, without a lock, and then calls the index, which is *)
(* not part of any transaction.                                            *)
(*                                                                         *)
(* A version is its sequence number.  Keyed inserts hold the entity lock,  *)
(* so versions commit in order; but the enrichment sweep, which makes rows *)
(* ready, does not, so an insert may be open while it commits.  Erasure    *)
(* and reindexing hold the workspace lock and wait for open inserts.       *)
(***************************************************************************)
EXTENDS Naturals, FiniteSetsExt, Bags

CONSTANTS
    MaxVersion,   \* bound: versions of the slot
    Executors,
    MaxAttempts,  \* bound: JOB_MAX_ATTEMPTS of any of the deployments
    Settings,     \* deployments and what happens in them
    NoJob
ASSUME BoundsAssumption ==
    MaxVersion \in Nat /\ MaxAttempts \in Nat \ {0} /\ IsFiniteSet(Executors)
ASSUME SettingsAssumption ==
    \A s \in Settings :
        /\ s.executors \subseteq Executors  \* those that run
        /\ s.arriving \in 0 .. MaxVersion   \* bound: versions that are written
        /\ s.jobs \in Nat                  \* bound: projection jobs that wait at once
        /\ s.attempts \in 1 .. MaxAttempts  \* JOB_MAX_ATTEMPTS
        /\ s.rows \subseteq {"unready", "derived", "ready"}  \* how versions are inserted
        /\ s.overlap \in BOOLEAN           \* they overlap, and outlive their leases
        /\ s.annotates \in BOOLEAN         \* a projected optional annotation is declared
        /\ s.reindexes \in BOOLEAN         \* operators reindex

Versions == 1 .. MaxVersion

VARIABLES
    setting,    \* one of Settings, which does not change
    row,        \* row[v]: none, open, unready, derived (an unready output), ready, gone
    opened,     \* the insert that is open: how, and what it will enqueue
    noted,      \* versions whose projected optional annotation is written
    waiting,    \* the projection jobs that may be claimed
    leased,     \* leased[e]: the job whose live claim token e has
    dead,       \* the targets of dead-lettered jobs
    work,       \* work[e]: what executor e is doing, with or without a live claim
    index       \* index[v]: the row of the external index

moving == <<row, opened, noted, waiting, leased, dead, work, index>>
projectionVars == <<setting, moving>>
records == <<row, opened, noted>>
queue == <<waiting, leased, dead>>

Entry == [held : BOOLEAN, current : BOOLEAN, noted : BOOLEAN]
Absent == [held |-> FALSE, current |-> FALSE, noted |-> FALSE]

Job == [kind : {"index_upsert", "index_delete"}, targets : SUBSET Versions,
        attempts : 0 .. MaxAttempts]
ASSUME NoJobAssumption == NoJob \notin Job

\* loaded[v] is what the executor has read of target v.
Idle == [phase |-> "idle", job |-> NoJob, loaded |-> [v \in Versions |-> Absent]]

Closed == [as |-> "none", targets |-> {}]

ProjectionTypeOK ==
    /\ setting \in Settings
    /\ row \in [Versions -> {"none", "open", "unready", "derived", "ready", "gone"}]
    /\ opened \in [as : {"none"} \cup setting.rows, targets : SUBSET Versions]
    /\ noted \in SUBSET Versions
    /\ IsABag(waiting) /\ BagToSet(waiting) \subseteq Job
    /\ leased \in [Executors -> Job \cup {NoJob}]
    /\ dead \subseteq Versions
    /\ work \in [Executors ->
          [phase : {"idle", "claimed", "live", "loaded", "upserted", "pushed"},
           job : Job \cup {NoJob}, loaded : [Versions -> Entry]]]
    /\ index \in [Versions -> Entry]

ProjectionInit ==
    /\ setting \in Settings
    /\ row = [v \in Versions |-> "none"]
    /\ opened = Closed /\ noted = {}
    /\ waiting = EmptyBag /\ leased = [e \in Executors |-> NoJob] /\ dead = {}
    /\ work = [e \in Executors |-> Idle]
    /\ index = [v \in Versions |-> Absent]

Overlap == setting.overlap

ReadyIn(rows) == {v \in Versions : rows[v] = "ready"}
CommittedIn(rows) == {v \in Versions : rows[v] \in {"unready", "derived", "ready"}}
Ready == ReadyIn(row)
Committed == CommittedIn(row)
Newest(S) == {v \in S : \A w \in S : w <= v}

\* is_current of _load_projection_rows: no newer version, ready or not.
Canonical(v) ==
    IF v \in Ready
    THEN [held |-> TRUE, current |-> v \in Newest(Committed), noted |-> v \in noted]
    ELSE Absent

(***************************************************************************)
(* Enqueueing, always inside the transaction that changes the records.     *)
(***************************************************************************)
Request(kind, targets) == [kind |-> kind, targets |-> targets, attempts |-> 0]

\* _enqueue_projection_tx for each request with a target: no dedupe key.
Enqueue(requests) ==
    /\ waiting' = waiting (+) SetToBag({r \in requests : r.targets # {}})
    /\ BagCardinality(waiting') <= setting.jobs
    /\ UNCHANGED <<leased, dead>>

\* Fault: what the sources replace is not refreshed.
RefreshNewest(rows, sources) == Newest(ReadyIn(rows))

\* _refresh_targets_tx: the newest ready version, and the newest ready one
\* that is not among the sources.
RefreshTargets(rows, sources) == Newest(ReadyIn(rows)) \cup Newest(ReadyIn(rows) \ sources)

\* on_records_ready_tx: the new rows themselves and what they replace.
ReadyTargets(rows, sources) == sources \cup RefreshTargets(rows, sources)

(***************************************************************************)
(* Records.                                                                *)
(***************************************************************************)
NextVersion(v) == v <= setting.arriving /\ row[v] = "none" /\ \A w \in 1 .. v - 1 : row[w] # "none"

\* What the insert of v will enqueue, from the rows it sees and its own: for a
\* row that is ready at once (nothing is required, or it is a tombstone), for
\* one that awaits enrichment and replaces another, and for an output of a
\* derivation that awaits enrichment, which enqueues nothing.
InsertTargets(v, as) ==
    CASE as = "ready" -> ReadyTargets([row EXCEPT ![v] = "ready"], {v})
      [] as = "unready" -> RefreshTargets(row, {v})
      [] as = "derived" -> {}

\* insert_records_tx and _commit_execution up to the commit.
Insert(v) ==
    /\ NextVersion(v) /\ opened = Closed
    /\ row' = [row EXCEPT ![v] = "open"]
    /\ \E as \in setting.rows : opened' = [as |-> as, targets |-> InsertTargets(v, as)]
    /\ UNCHANGED <<noted, queue, work, index>>

CommitInsert(v) ==
    /\ row[v] = "open"
    /\ row' = [row EXCEPT ![v] = opened.as]
    /\ Enqueue({Request("index_upsert", opened.targets)})
    /\ opened' = Closed
    /\ UNCHANGED <<noted, work, index>>

\* _finalize: the rows of a batch whose last required enrichment commits.
MakeReady(S) ==
    /\ S # {} /\ \A v \in S : row[v] \in {"unready", "derived"}
    /\ row' = [v \in Versions |-> IF v \in S THEN "ready" ELSE row[v]]
    /\ Enqueue({Request("index_upsert", ReadyTargets(row', S))})
    /\ UNCHANGED <<opened, noted, work, index>>

\* _finalize: a projected optional annotation of a ready row is written.
Annotate(v) ==
    /\ setting.annotates /\ row[v] = "ready" /\ v \notin noted
    /\ noted' = noted \cup {v}
    /\ Enqueue({Request("index_upsert", {v})})
    /\ UNCHANGED <<row, opened, work, index>>

\* What _erase_tx enqueues when S is gone.
ErasureRequests(rows, S) ==
    {Request("index_delete", S), Request("index_upsert", RefreshTargets(rows, S))}

\* _erase_tx: a closure of versions disappears.
Erase(S) ==
    /\ opened = Closed
    /\ S # {} /\ S \subseteq Committed
    /\ row' = [v \in Versions |-> IF v \in S THEN "gone" ELSE row[v]]
    /\ noted' = noted \ S
    /\ Enqueue(ErasureRequests(row', S))
    /\ UNCHANGED <<opened, work, index>>

\* reindex(since_seq = n): ready rows from n on, and the newest ready one
\* before n where the slot has changed since; reset is n = 1.
Reindex(n) ==
    /\ setting.reindexes /\ opened = Closed
    /\ LET before == IF \E v \in Committed : v >= n THEN {v \in Ready : v < n} ELSE {}
       IN Enqueue({Request("index_upsert", {v \in Ready : v >= n} \cup Newest(before))})
    /\ waiting' # waiting
    /\ UNCHANGED <<records, work, index>>

(***************************************************************************)
(* Executors (_drain_projection_jobs, execute_projection_job).             *)
(***************************************************************************)

Claimable(j) == j.attempts < setting.attempts

Claim(e) ==
    /\ work[e].phase = "idle" /\ leased[e] = NoJob
    /\ \E j \in BagToSet(waiting) :
          /\ Claimable(j)
          /\ waiting' = waiting (-) SetToBag({j})
          /\ LET mine == [j EXCEPT !.attempts = j.attempts + 1] IN
             /\ leased' = [leased EXCEPT ![e] = mine]
             /\ work' = [work EXCEPT ![e] = [Idle EXCEPT !.phase = "claimed", !.job = mine]]
    /\ UNCHANGED <<records, dead, index>>

\* claim_job reaps a job whose final attempt let its lease expire.
Reap ==
    /\ \E j \in BagToSet(waiting) :
          /\ j.attempts >= setting.attempts
          /\ waiting' = waiting (-) SetToBag({j}) /\ dead' = dead \cup j.targets
    /\ UNCHANGED <<records, leased, work, index>>

\* _assert_live_claim, in a transaction of its own.
AssertLive(e) ==
    /\ work[e].phase = "claimed" /\ leased[e] # NoJob
    /\ work' = [work EXCEPT ![e].phase = "live"]
    /\ UNCHANGED <<records, queue, index>>

\* What execute_projection_job will push for target v.
Loaded(j, v) == IF j.kind = "index_upsert" /\ v \in j.targets THEN Canonical(v) ELSE Absent

\* _load_projection_rows: no lock, no claim check.
Load(e) ==
    /\ work[e].phase = "live"
    /\ work' = [work EXCEPT ![e].phase = "loaded",
                            ![e].loaded = [v \in Versions |-> Loaded(work[e].job, v)]]
    /\ UNCHANGED <<records, queue, index>>

\* backend.upsert: the rows that were found.  Nothing looks at the claim.
PushUpserts(e) ==
    LET now == work[e].loaded IN
    /\ work[e].phase = "loaded"
    /\ index' = [v \in Versions |-> IF now[v].held THEN now[v] ELSE index[v]]
    /\ work' = [work EXCEPT ![e].phase = "upserted"]
    /\ UNCHANGED <<records, queue>>

\* backend.delete: the targets that were not found.
PushDeletes(e) ==
    LET w == work[e] IN
    /\ w.phase = "upserted"
    /\ index' = [v \in Versions |->
                    IF v \in w.job.targets /\ ~w.loaded[v].held THEN Absent ELSE index[v]]
    /\ work' = [work EXCEPT ![e] = [Idle EXCEPT !.phase = "pushed", !.job = w.job]]
    /\ UNCHANGED <<records, queue>>

\* complete_job, which the claim token fences.
Complete(e) ==
    /\ work[e].phase = "pushed" /\ leased[e] # NoJob
    /\ leased' = [leased EXCEPT ![e] = NoJob]
    /\ work' = [work EXCEPT ![e] = Idle]
    /\ UNCHANGED <<records, waiting, dead, index>>

\* The backend fails: the job waits out its backoff, or dies.
Fail(e) ==
    /\ work[e].phase \in {"claimed", "live", "loaded", "upserted", "pushed"} /\ leased[e] # NoJob
    /\ LET j == leased[e] IN
       IF j.attempts >= setting.attempts
       THEN dead' = dead \cup j.targets /\ UNCHANGED waiting
       ELSE waiting' = waiting (+) SetToBag({j}) /\ UNCHANGED dead
    /\ leased' = [leased EXCEPT ![e] = NoJob]
    /\ work' = [work EXCEPT ![e] = Idle]
    /\ UNCHANGED <<records, index>>

\* LeaseLost ends the work, wherever the executor notices.
Abandon(e) ==
    /\ work[e].phase # "idle" /\ leased[e] = NoJob
    /\ work' = [work EXCEPT ![e] = Idle]
    /\ UNCHANGED <<records, queue, index>>

Crash(e) ==
    /\ work[e].phase # "idle"
    /\ work' = [work EXCEPT ![e] = Idle]
    /\ UNCHANGED <<records, queue, index>>

\* lease_until passes; an executor that still works goes on unaware.
Lapse(e) ==
    /\ leased[e] # NoJob /\ (Overlap \/ work[e].phase = "idle")
    /\ waiting' = waiting (+) SetToBag({leased[e]})
    /\ leased' = [leased EXCEPT ![e] = NoJob]
    /\ UNCHANGED <<records, dead, work, index>>

Execute(e) ==
    \/ AssertLive(e) \/ Load(e) \/ PushUpserts(e) \/ PushDeletes(e) \/ Complete(e)
    \/ Fail(e) \/ Abandon(e)

ProjectionStep ==
    \/ \E v \in Versions : Insert(v) \/ CommitInsert(v) \/ Annotate(v)
    \/ \E S \in SUBSET Versions : MakeReady(S) \/ Erase(S)
    \/ \E n \in Versions : Reindex(n)
    \/ \E e \in setting.executors : Claim(e) \/ Execute(e) \/ Crash(e) \/ Lapse(e)
    \/ Reap

ProjectionNext == ProjectionStep /\ UNCHANGED setting

ProjectionSpec == ProjectionInit /\ [][ProjectionNext]_projectionVars

(***************************************************************************)
(* Safety.                                                                 *)
(***************************************************************************)
\* Something is still to happen to v: a job waits, or runs and will read v, or
\* has read one of entries and is going to push it.
Attended(v, entries) ==
    \/ \E j \in BagToSet(waiting) : v \in j.targets
    \/ \E e \in Executors : leased[e] # NoJob /\ v \in leased[e].targets /\
          (\/ work[e].phase \in {"idle", "claimed", "live"}
           \/ work[e].phase = "loaded" /\ work[e].loaded[v] \in entries
           \/ work[e].phase = "upserted" /\ work[e].loaded[v] \in entries \cap {Absent})

\* The entry that is right for v, and the one whose flag the readiness of a
\* newer version is going to mend.
Right(v) ==
    {Canonical(v)} \cup
    (IF \E w \in Versions : w > v /\ row[w] \in {"unready", "derived"}
     THEN {[Canonical(v) EXCEPT !.current = Canonical(v).held]} ELSE {})

\* The index differs from the database only where a job or a readiness that
\* is still to come will mend it.
NoUnattendedDrift ==
    \A v \in Versions : index[v] \in Right(v) \/ Attended(v, Right(v)) \/ v \in dead

\* The code gives this to one executor that does not outlive its lease (nothing
\* orders the loads of two and the pushes that follow them), where the rows of
\* a collection are all ready at once, or none is: the insert of a tombstone
\* does not see a row that the sweep is making ready, nor the sweep the
\* tombstone.
Alone == Cardinality(setting.executors) = 1 /\ ~Overlap
Mixed == "ready" \in setting.rows /\ setting.rows # {"ready"}
NoDriftAlone == Alone /\ ~Mixed => NoUnattendedDrift
=============================================================================
