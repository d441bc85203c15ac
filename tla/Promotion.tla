----------------------------- MODULE Promotion -----------------------------
(***************************************************************************)
(* The keyed heads of one entity and everyone who replaces them: ingest,   *)
(* runs whose output is active, promotions of reviewed drafts, roll-backs  *)
(* and erasure (promote.py, derive/basis.py, derive/candidates.py,         *)
(* erase.py).  Commits hold the entity lock and are single steps; what a   *)
(* run reads before is read statement by statement and without a lock.     *)
(***************************************************************************)
EXTENDS Naturals, Sequences, FiniteSetsExt

CONSTANTS
    Pipelines, \* the executors of candidate pipelines
    Reviews    \* the declarations that are looked at, with their bounds

ASSUME PromotionAssumption ==
    Reviews \subseteq
        [keys : Nat \ {0},   \* the keys of the artifact
         review : BOOLEAN,   \* emit.review = required: outputs are drafts
         reads : {"current", "snapshot"}, \* how tasks see the heads
         ingests : BOOLEAN,  \* callers write the keys as well
         rows : Nat]         \* bound: rows

VARIABLES
    declared, \* one of Reviews, which does not change
    rows,     \* the keyed rows of the entity, by seq
    ledger,   \* the run records of the entity, by seq
    draft     \* executor memory

promotionVars == <<declared, rows, ledger, draft>>

Keys == 1 .. declared.keys
NoHeads == [k \in Keys |-> 0]
NoDraft == [phase |-> "idle", seen |-> NoHeads, heads |-> NoHeads]

PromotionInit ==
    /\ declared \in Reviews
    /\ rows = <<>> /\ ledger = <<>>
    /\ draft = [p \in Pipelines |-> NoDraft]

Alive(i) == i \in DOMAIN rows /\ ~rows[i].gone
Actives(k) == {i \in DOMAIN rows : Alive(i) /\ rows[i].key = k /\ rows[i].status = "active"}

\* distinct on (key) ... order by seq desc, of the active rows, ready or not;
\* 0 is no head.
HeadOf(k) == Max({0} \cup Actives(k))
Heads == [k \in Keys |-> HeadOf(k)]

\* Inserted rows, one for each key, as the outputs of the run r.
Outputs(r, status, ready) ==
    [k \in Keys |-> [key |-> k, status |-> status, ready |-> ready, run |-> r, gone |-> FALSE]]

\* The row of key k among the outputs of run r.
OutputOf(r, k) == ledger[r].first + k

\* A run record and its outputs.
Record(op, inputs, heads, source, status, ready) ==
    /\ Len(rows) + declared.keys <= declared.rows
    /\ ledger' = Append(ledger, [op |-> op, inputs |-> inputs, heads |-> heads, source |-> source,
                                 first |-> Len(rows), gone |-> FALSE])
    /\ rows' = rows \o Outputs(Len(ledger) + 1, status, ready)

(***************************************************************************)
(* Other writers.                                                          *)
(***************************************************************************)
\* ingest_record of a keyed record reads no head: the newest write is current.
\* (One that is ready at once is ready in the next state.)
IngestKeyed(k) ==
    /\ declared.ingests /\ Len(rows) < declared.rows
    /\ rows' = Append(rows, [key |-> k, status |-> "active", ready |-> FALSE, run |-> 0,
                             gone |-> FALSE])
    /\ UNCHANGED <<declared, ledger, draft>>

FinishEnrichment(i) ==
    /\ Alive(i) /\ ~rows[i].ready
    /\ rows' = [rows EXCEPT ![i].ready = TRUE]
    /\ UNCHANGED <<declared, ledger, draft>>

\* _seed_rows and _closure: the run of the chosen row, and every run that saw
\* the row or an output of a doomed run; the least set of that kind.
ClosedRuns(i, runs) ==
    \A r \in DOMAIN ledger :
        r = rows[i].run \/ (\E p \in ledger[r].inputs : p = i \/ rows[p].run \in runs) => r \in runs

DoomedBy(i) ==
    {r \in DOMAIN ledger : \A runs \in SUBSET DOMAIN ledger : ClosedRuns(i, runs) => r \in runs}

\* erase: the closure goes, and with the active derive jobs all claims.
EraseRow(i) ==
    /\ Alive(i)
    /\ LET doomed == DoomedBy(i) IN
        /\ ledger' = [r \in DOMAIN ledger |->
                        IF r \in doomed THEN [ledger[r] EXCEPT !.gone = TRUE] ELSE ledger[r]]
        /\ rows' = [j \in DOMAIN rows |->
                        IF j = i \/ rows[j].run \in doomed
                        THEN [rows[j] EXCEPT !.gone = TRUE] ELSE rows[j]]
    /\ draft' = [p \in Pipelines |-> NoDraft]
    /\ UNCHANGED declared

(***************************************************************************)
(* A candidate run: BasisAdapter.resolve reads the sources, then the heads *)
(* it will expect, each with a statement of its own.                       *)
(***************************************************************************)
\* _current_source_rows, or the driver's _snapshot_input: not ready while a
\* row of it is not.
Readable ==
    \A k \in Keys : \A i \in Actives(k) :
        rows[i].ready \/ (declared.reads = "current" /\ i # HeadOf(k))

ReadSource(p) ==
    /\ draft[p].phase = "idle" /\ Readable
    /\ draft' = [draft EXCEPT ![p] = [NoDraft EXCEPT !.phase = "read", !.seen = Heads]]
    /\ UNCHANGED <<declared, rows, ledger>>

\* _expected_heads
ExpectHeads(p) ==
    /\ draft[p].phase = "read"
    /\ draft' = [draft EXCEPT ![p].phase = "working", ![p].heads = Heads]
    /\ UNCHANGED <<declared, rows, ledger>>

\* Fault: the commit trusts what was resolved.
HeadsTrusted(p) == \A i \in {draft[p].seen[k] : k \in Keys} \ {0} : Alive(i)

\* _verify_heads, and _verify_reads of a current source.  The rows of a
\* snapshot driver are not read again.
BasisHolds(p) ==
    /\ draft[p].heads = Heads
    /\ declared.reads = "current" => draft[p].seen = Heads /\ Readable

SeenRows(p) == {draft[p].seen[k] : k \in Keys} \ {0}

\* _commit_execution with the outputs of compile_candidate_set, which cover all
\* keys (complete: true) and are enriched later.
CommitRun(p) ==
    /\ draft[p].phase = "working" /\ BasisHolds(p)
    /\ \A i \in SeenRows(p) : Alive(i)
    /\ Record("derive", SeenRows(p), draft[p].heads, 0,
              IF declared.review THEN "draft" ELSE "active", FALSE)
    /\ draft' = [draft EXCEPT ![p] = NoDraft]
    /\ UNCHANGED declared

\* Stale, failed or lost: the job is tried again from the start.
GiveUp(p) ==
    /\ draft[p].phase # "idle"
    /\ draft' = [draft EXCEPT ![p] = NoDraft]
    /\ UNCHANGED <<declared, rows, ledger>>

(***************************************************************************)
(* promote_run.                                                            *)
(***************************************************************************)
SourceRows(r) == {OutputOf(r, k) : k \in Keys}

\* The outputs exist and are ready; those of a derivation are drafts.
Promotable(r) ==
    /\ ~ledger[r].gone
    /\ \A i \in SourceRows(r) : Alive(i) /\ rows[i].ready
    /\ ledger[r].op = "derive" => \A i \in SourceRows(r) : rows[i].status = "draft"

\* Every head is a copy of the source row of its key.
AlreadyPromoted(r) ==
    \A k \in Keys : HeadOf(k) # 0 /\ rows[HeadOf(k)].run # 0
        /\ ledger[rows[HeadOf(k)].run].op = "promote"
        /\ OutputOf(r, k) \in ledger[rows[HeadOf(k)].run].inputs

\* Fault: a candidate may be applied to whatever is there now.
AnyHeads(r) == TRUE

\* The preconditions of a candidate; a promotion that is promoted once more, to
\* roll back, has none.
HeadsExpected(r) == ledger[r].op = "derive" => ledger[r].heads = Heads

\* The copies are active and ready.  A promotion that was already made changes
\* nothing, and one whose heads have moved is refused (promotion_stale).
Promote(r) ==
    /\ Promotable(r) /\ ~AlreadyPromoted(r) /\ HeadsExpected(r)
    /\ Record("promote", SourceRows(r), NoHeads, r, "active", TRUE)
    /\ UNCHANGED <<declared, draft>>

(***************************************************************************)
PromotionNext ==
    \/ \E k \in Keys : IngestKeyed(k)
    \/ \E i \in DOMAIN rows : FinishEnrichment(i) \/ EraseRow(i)
    \/ \E p \in Pipelines : ReadSource(p) \/ ExpectHeads(p) \/ CommitRun(p) \/ GiveUp(p)
    \/ \E r \in DOMAIN ledger : Promote(r)

PromotionSpec == PromotionInit /\ [][PromotionNext]_promotionVars

(***************************************************************************)
(* Properties.                                                             *)
(***************************************************************************)
\* The newest run of the ledger, whose outputs have just become active.
Activated == Len(ledger') > Len(ledger) /\ rows'[Len(rows')].status = "active"
Newest == ledger'[Len(ledger')]

\* The derivation whose words a new run makes current.
Author == IF Newest.op = "promote" THEN ledger[Newest.source] ELSE Newest

\* No lost update: what a derivation wrote, directly or by promotion, replaces
\* exactly the rows that its tasks had in view, whoever else writes the keys and
\* however long the review takes.  For heads read through a current source; a
\* snapshot driver may see older rows than the heads it expects.
NoLostUpdate ==
    [][Activated /\ Author.op = "derive" /\ declared.reads = "current"
        => {HeadOf(k) : k \in Keys} \ {0} = Author.inputs]_promotionVars

\* A candidate is applied once: no two promotions of it have surviving copies,
\* although callers repeat requests and roll back (docs/api-surface.md:825).
AppliedOnce ==
    \A r, s \in DOMAIN ledger :
        /\ ledger[r].op = "promote" /\ ledger[s].op = "promote" /\ ~ledger[r].gone /\ ~ledger[s].gone
        /\ ledger[r].source = ledger[s].source /\ ledger[ledger[r].source].op = "derive"
        => r = s
=============================================================================
