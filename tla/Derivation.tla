----------------------------- MODULE Derivation -----------------------------
(***************************************************************************)
(* One derivation of one entity: its driver records, its mailbox job and   *)
(* the executors that resolve a basis, run the tasks outside any           *)
(* transaction, and commit (derive/runner.py, derive/basis.py,             *)
(* triggers.py, erase.py).  A transaction is one action: the workspace,    *)
(* job and entity locks make the transactions of one entity follow each    *)
(* other (module LockOrder looks inside them).  What happens between the   *)
(* transactions of one run interleaves with everything else.               *)
(*                                                                         *)
(* A record is its sequence number.  seq is assigned when a row is         *)
(* inserted, and an unkeyed insert holds no entity lock, so a smaller seq  *)
(* may commit after a larger one.                                          *)
(***************************************************************************)
EXTENDS Naturals, Sequences, SequencesExt, FiniteSetsExt

CONSTANTS
    MaxSeq,       \* bound: records of the driver scope
    Executors,
    MaxAttempts,  \* JOB_MAX_ATTEMPTS
    MaxRuns,      \* bound: surviving runs up to which manual requests are made
    MaxRecords,   \* max_records of a stale_citations source
    Settings,     \* the declarations of the derivation that are looked at
    Nobody

ASSUME BoundsAssumption ==
    /\ MaxSeq \in Nat /\ MaxAttempts \in Nat \ {0} /\ MaxRuns \in Nat /\ MaxRecords \in Nat
ASSUME ModeAssumption ==
    /\ Settings \subseteq
           [mode : {"changes", "corpus", "citation_repair"}, \* the basis
            triggered : BOOLEAN,   \* a write trigger on the driver scope exists
            keyed : BOOLEAN]       \* driver records are keyed: inserts hold the entity lock
    /\ Nobody \notin Executors

Seqs == 1 .. MaxSeq

VARIABLES
    setting,    \* the declaration at hand, which does not change
    \* the database
    row,        \* row[s]: none, open (insert not committed), unready, ready, gone
    stale,      \* current keyed rows that cite a superseded version
    runs,       \* surviving ok and noop runs, in order of seq
    mailbox,    \* none, active or dead: the latest derive job of the partition
    attempts, owner, lastError,
    \* executor memory
    work,
    \* history
    asked       \* rows that the pending manual request must see reflected

moving == <<row, stale, runs, mailbox, attempts, owner, lastError, work, asked>>
vars == <<setting, moving>>
jobRow == <<mailbox, attempts, owner, lastError>>

Mode == setting.mode
Triggered == setting.triggered
Keyed == setting.keyed

Basis == [from : 0 .. MaxSeq, pred : Nat, inputs : SUBSET Seqs, through : 0 .. MaxSeq]
Run == [high : 0 .. MaxSeq, inputs : SUBSET Seqs]
Idle == [phase |-> "idle", basis |-> [from |-> 0, pred |-> 0, inputs |-> {}, through |-> 0]]

TypeOK ==
    /\ setting \in Settings
    /\ row \in [Seqs -> {"none", "open", "unready", "ready", "gone"}]
    /\ stale \in SUBSET Seqs
    /\ runs \in Seq(Run)
    /\ mailbox \in {"none", "active", "dead"}
    /\ attempts \in 0 .. MaxAttempts
    /\ owner \in Executors \cup {Nobody}
    /\ lastError \in {"none", "transient", "budget"}
    /\ work \in [Executors -> [phase : {"idle", "claimed", "barred", "resolved"}, basis : Basis]]
    /\ asked \in SUBSET Seqs

Init ==
    /\ setting \in Settings
    /\ row = [s \in Seqs |-> "none"]
    /\ stale = {}
    /\ runs = << >>
    /\ mailbox = "none" /\ attempts = 0 /\ owner = Nobody /\ lastError = "none"
    /\ work = [e \in Executors |-> Idle]
    /\ asked = {}

Ready == {s \in Seqs : row[s] = "ready"}
Committed == {s \in Seqs : row[s] \in {"unready", "ready"}}
SeenBy(rs) == UNION {rs[i].inputs : i \in DOMAIN rs}
Reflected == SeenBy(runs)

\* high_seq of the newest successful run.
Watermark(rs) == IF rs = << >> THEN 0 ELSE rs[Len(rs)].high

(***************************************************************************)
(* Triggers and the mailbox.                                               *)
(***************************************************************************)
\* Some ready row lies above the watermark.
Fires(rows, rs) == Triggered /\ \E s \in Seqs : rows[s] = "ready" /\ s > Watermark(rs)

\* The mailbox is filled, or coalesces into the active job, when cond holds;
\* m, a, o and k are the job columns before.
Fill(cond, m, a, o, k) ==
    IF cond /\ m # "active"
    THEN mailbox' = "active" /\ attempts' = 0 /\ owner' = Nobody /\ lastError' = "none"
    ELSE mailbox' = m /\ attempts' = a /\ owner' = o /\ lastError' = k

\* evaluate_entity_triggers_tx in a transaction that leaves rows and runs so.
Evaluate(rows, rs) == Fill(Fires(rows, rs), mailbox, attempts, owner, lastError)

(***************************************************************************)
(* Records.                                                                *)
(***************************************************************************)
Unallocated == {s \in Seqs : row[s] = "none"}
NextSeq(s) == s \in Unallocated /\ \A t \in Unallocated : s <= t
NothingOpen == \A s \in Seqs : row[s] # "open"

\* A new row becomes visible: ready at once where its collection requires no
\* enrichment, which runs the ready hook in the same transaction.
Appear(s, state) ==
    /\ row' = [row EXCEPT ![s] = state]
    /\ IF state = "ready" THEN Evaluate(row', runs) ELSE UNCHANGED jobRow
    \* a new version of a keyed slot takes the place of one that was stale
    /\ \E old \in SUBSET stale : Cardinality(old) <= 1 /\ stale' = stale \ old
    /\ UNCHANGED <<runs, work, asked>>

\* A keyed insert holds the entity lock from before its seq is assigned.
Ingest(s) ==
    /\ Keyed /\ NextSeq(s)
    /\ \E state \in {"unready", "ready"} : Appear(s, state)

\* An unkeyed insert takes its seq first and commits, or aborts, later.
OpenIngest(s) ==
    /\ ~Keyed /\ NextSeq(s)
    /\ row' = [row EXCEPT ![s] = "open"]
    /\ UNCHANGED <<stale, runs, jobRow, work, asked>>

CommitIngest(s) ==
    /\ row[s] = "open"
    /\ \E state \in {"unready", "ready"} : Appear(s, state)

AbortIngest(s) ==
    /\ row[s] = "open"
    /\ row' = [row EXCEPT ![s] = "gone"]
    /\ UNCHANGED <<stale, runs, jobRow, work, asked>>

\* Fault: the last enrichment makes the row ready and runs no hook.
SilentReady(s) ==
    /\ row[s] = "unready"
    /\ row' = [row EXCEPT ![s] = "ready"]
    /\ UNCHANGED <<stale, runs, jobRow, work, asked>>

\* The last required enrichment of the row commits (_finalize, on_records_ready_tx).
MakeReady(s) ==
    /\ row[s] = "unready"
    /\ row' = [row EXCEPT ![s] = "ready"]
    /\ Evaluate(row', runs)
    /\ UNCHANGED <<stale, runs, work, asked>>

\* Elsewhere a cited keyed parent of the ready row s gets a newer version.
CitationMoves(s) ==
    /\ Mode = "citation_repair" /\ row[s] = "ready" /\ s \notin stale
    /\ stale' = stale \cup {s}
    /\ UNCHANGED <<row, runs, jobRow, work, asked>>

\* POST /processors/{name}/run, or a cron scan that selected the entity.
ManualRequest ==
    /\ Len(runs) < MaxRuns
    /\ Fill(TRUE, mailbox, attempts, owner, lastError)
    /\ asked' = Ready \ Reflected
    /\ UNCHANGED <<row, stale, runs, work>>

(***************************************************************************)
(* Erasure.  The closure follows derived_from: from a record to the runs   *)
(* that saw it and, in a chain of changes runs, from a run to the runs     *)
(* after it, which name it as predecessor.                                 *)
(***************************************************************************)
DoomedRuns(s) ==
    {i \in DOMAIN runs : \E k \in DOMAIN runs :
        s \in runs[k].inputs /\ (k = i \/ (Mode = "changes" /\ k < i))}

\* The members of a set of numbers in their order: one function.
Enumerations(S) ==
    {f \in [1 .. Cardinality(S) -> S] :
        /\ \A i \in S : \E n \in DOMAIN f : f[n] = i
        /\ \A n, m \in DOMAIN f : n < m => f[n] < f[m]}

\* What is left of the runs.
Surviving(s) == {[n \in DOMAIN f |-> runs[f[n]]] : f \in Enumerations(DOMAIN runs \ DoomedRuns(s))}

\* The exclusive workspace lock waits for every open insert.  The active job
\* dies, the closure goes, and the triggers are evaluated against what is left.
Erase(s) ==
    /\ row[s] \in {"unready", "ready"} /\ NothingOpen
    /\ row' = [row EXCEPT ![s] = "gone"]
    /\ stale' = stale \ {s}
    /\ runs' \in Surviving(s)
    /\ Fill(Fires(row', runs'), IF mailbox = "active" THEN "none" ELSE mailbox,
            attempts, Nobody, lastError)
    /\ asked' = {}
    /\ UNCHANGED work

(***************************************************************************)
(* Executors.                                                              *)
(***************************************************************************)

Claim(e) ==
    /\ work[e].phase = "idle"
    /\ mailbox = "active" /\ owner = Nobody /\ attempts < MaxAttempts
    /\ owner' = e /\ attempts' = attempts + 1
    /\ work' = [work EXCEPT ![e].phase = "claimed"]
    /\ UNCHANGED <<row, stale, runs, mailbox, lastError, asked>>

\* claim_job reaps a job whose final attempt let its lease expire.
Reap ==
    /\ mailbox = "active" /\ owner = Nobody /\ attempts >= MaxAttempts
    /\ mailbox' = "dead" /\ asked' = {}
    /\ UNCHANGED <<row, stale, runs, attempts, owner, lastError, work>>

\* Fault: the cursor is read inclusively.
InclusiveInput(w) ==
    LET pending == {s \in Committed : s >= w} IN
    IF pending = {} THEN {{}}
    ELSE {{s \in pending : s <= h} : h \in {k \in pending : \A t \in pending : t <= k => t \in Ready}}

\* Rows above the watermark in order, up to the first that is not ready; the
\* record and token bounds may end the batch earlier.  Empty: not ready.
ChangesInput(w) ==
    LET pending == {s \in Committed : s > w} IN
    IF pending = {} THEN {{}}
    ELSE {{s \in pending : s <= h} : h \in {k \in pending : \A t \in pending : t <= k => t \in Ready}}

\* Fault: a snapshot reads what is ready and leaves out the rest.
ReadyCorpus == {Ready}

\* The whole scope, or not ready while a row of it is not.
CorpusInput == IF Committed \subseteq Ready THEN {Ready} ELSE {}

MaxOr0(S) == IF S = {} THEN 0 ELSE Max(S)
MinOr0(S) == IF S = {} THEN 0 ELSE Min(S)

\* The rows behind the cursor, and the run that has set it.
ChangesBases ==
    LET w == Watermark(runs) IN
    {[from |-> w, pred |-> Len(runs), inputs |-> S, through |-> IF S = {} THEN w ELSE Max(S)]
        : S \in ChangesInput(w)}

\* A basis without a cursor: from the first row to the last.
Snapshot(S) == [from |-> MinOr0(S), pred |-> 0, inputs |-> S, through |-> MaxOr0(S)]

CorpusBases == {Snapshot(S) : S \in CorpusInput}

RepairBases == {Snapshot(stale)}

\* BasisAdapter.resolve: the bases the current rows permit; none when a row
\* that has to be read is not ready.
Resolutions ==
    CASE Mode = "changes" -> ChangesBases
      [] Mode = "corpus" -> CorpusBases
      [] Mode = "citation_repair" -> RepairBases

\* More stale rows than max_records: DerivationError("budget").
OverBudget == Mode = "citation_repair" /\ Cardinality(stale) > MaxRecords

\* Reading the basis takes no lock and no claim check.
Resolve(e) ==
    /\ work[e].phase = "claimed" /\ ~OverBudget
    /\ IF Resolutions = {}
       THEN work' = [work EXCEPT ![e].phase = "barred"]
       ELSE \E b \in Resolutions : work' = [work EXCEPT ![e] = [phase |-> "resolved", basis |-> b]]
    /\ UNCHANGED <<row, stale, runs, jobRow, asked>>

\* release_not_ready_job: the attempt is given back.
ReleaseNotReady(e) ==
    /\ work[e].phase = "barred" /\ owner = e
    /\ owner' = Nobody /\ attempts' = attempts - 1
    /\ work' = [work EXCEPT ![e] = Idle]
    /\ UNCHANGED <<row, stale, runs, mailbox, lastError, asked>>

\* The cursor has not moved, nor has another run taken the place of its run.
ChangesVerified(b) == b.from = Watermark(runs) /\ b.pred = Len(runs)

\* The same rows are stale; a run without inputs does not look.
RepairVerified(b) == b.inputs \in {{}, stale}

\* BasisAdapter.verify in the commit transaction; a snapshot has no cursor.
Verified(b) ==
    /\ Mode = "changes" => ChangesVerified(b)
    /\ Mode = "citation_repair" => RepairVerified(b)

\* The parents are still there: "a model-visible source disappeared".
ParentsExist(b) == b.inputs \subseteq Committed

\* _next_high_seq(basis, packed_input, watermark = basis.from_seq or 0).
NextHighSeq(b) ==
    IF Mode = "changes" THEN MaxOr0(b.inputs \cup {b.from})
    ELSE IF b.through # 0 THEN b.through ELSE b.from

\* Fault: only a trigger can start the next run.
NoSuccessor(high) == FALSE

\* _enqueue_successor_tx: a row, ready or not, above the new cursor.
Successor(high) == Mode = "changes" /\ \E s \in Committed : s > high

\* What fills the mailbox of the completed job again.
AfterRun(high, rs) == Successor(high) \/ Fires(row, rs)

\* _commit_execution: fence, verify, insert the run and its outputs, complete
\* the job, enqueue the successor and evaluate the triggers.
Commit(e) ==
    LET b == work[e].basis
        high == NextHighSeq(b) IN
    /\ work[e].phase = "resolved" /\ owner = e
    /\ Verified(b) /\ ParentsExist(b)
    /\ runs' = Append(runs, [high |-> high, inputs |-> b.inputs])
    /\ Fill(AfterRun(high, runs'), "none", attempts, Nobody, "none")
    /\ asked' = asked \ b.inputs
    /\ work' = [work EXCEPT ![e] = Idle]
    /\ UNCHANGED <<row, stale>>

\* The fenced end of a failed run: retry with backoff, or dead.
EndFailed(e, dies, kind) ==
    /\ owner = e
    /\ owner' = Nobody /\ lastError' = kind
    /\ mailbox' = IF dies \/ attempts >= MaxAttempts THEN "dead" ELSE "active"
    /\ asked' = IF mailbox' = "dead" THEN {} ELSE asked
    /\ work' = [work EXCEPT ![e] = Idle]
    /\ UNCHANGED <<row, stale, runs, attempts>>

\* Tasks fail, time out, or the basis no longer verifies (_persist_failed_run).
Fail(e) ==
    /\ work[e].phase \in {"claimed", "resolved"}
    /\ \E dies \in BOOLEAN : EndFailed(e, dies, "transient")

FailBudget(e) == work[e].phase = "claimed" /\ OverBudget /\ EndFailed(e, TRUE, "budget")

\* Heartbeat or a fenced statement finds the claim gone.
LeaseLost(e) ==
    /\ work[e].phase # "idle" /\ owner # e
    /\ work' = [work EXCEPT ![e] = Idle]
    /\ UNCHANGED <<row, stale, runs, jobRow, asked>>

Crash(e) ==
    /\ work[e].phase # "idle"
    /\ work' = [work EXCEPT ![e] = Idle]
    /\ UNCHANGED <<row, stale, runs, jobRow, asked>>

\* lease_until passes; the executor may still be at work.
Lapse ==
    /\ owner # Nobody
    /\ owner' = Nobody
    /\ UNCHANGED <<row, stale, runs, mailbox, attempts, lastError, work, asked>>

Execute(e) ==
    \/ Resolve(e) \/ ReleaseNotReady(e) \/ Commit(e) \/ Fail(e) \/ FailBudget(e) \/ LeaseLost(e)

Step ==
    \/ \E s \in Seqs :
          \/ Ingest(s) \/ OpenIngest(s) \/ CommitIngest(s) \/ AbortIngest(s)
          \/ MakeReady(s) \/ CitationMoves(s) \/ Erase(s)
    \/ ManualRequest
    \/ \E e \in Executors : Claim(e) \/ Execute(e) \/ Crash(e)
    \/ Reap \/ Lapse

Next == Step /\ UNCHANGED setting

Spec == Init /\ [][Next]_vars

(***************************************************************************)
(* Safety.                                                                 *)
(***************************************************************************)
\* A record is the input of at most one surviving run of a changes source,
\* whatever lapsed, was retried or was rolled back by erasure in between.
ConsumedOnce ==
    Mode = "changes" => \A i, k \in DOMAIN runs : i # k => runs[i].inputs \cap runs[k].inputs = {}

\* The cursor never skips: the runs up to a cursor position have seen every
\* record at or below it.  (Below a snapshot's cursor, the snapshot itself.)
\* Only where inserts are keyed, see NoForgottenRecord.
SeenAt(i) == IF Mode = "changes" THEN SeenBy(SubSeq(runs, 1, i)) ELSE runs[i].inputs
NeverSkips ==
    Keyed /\ Mode # "citation_repair" =>
        \A i \in DOMAIN runs : \A s \in Committed : s <= runs[i].high => s \in SeenAt(i)

\* No lost stimulus: as long as some ready record is not reflected by any run,
\* there is a job for it, or one that died and tells so.
NoForgottenRecord ==
    Triggered => Ready \subseteq Reflected \/ mailbox \in {"active", "dead"}

\* It holds where inserts hold the entity lock while they have a seq.
KeyedNeverForgotten == Keyed => NoForgottenRecord

\* When the mailbox is empty, every record that was ready when a manual run of
\* a changes source was requested has been read by a run.  Where inserts are keyed.
ManualReflected == Keyed /\ Mode = "changes" /\ mailbox = "none" => asked = {}

(***************************************************************************)
(* Liveness.                                                               *)
(***************************************************************************)
OrphanLapse == owner # Nobody /\ work[owner].phase = "idle" /\ Lapse

\* Workers poll and run what they claim, leases lapse, enrichment finishes.
Fairness ==
    /\ \A e \in Executors : WF_moving(Claim(e)) /\ WF_moving(Execute(e))
    /\ WF_moving(Reap) /\ WF_moving(OrphanLapse)
    /\ \A s \in Seqs : WF_moving(MakeReady(s))

FairSpec == Spec /\ Fairness

\* A ready record is reflected, erased, or its job dies visibly.
EveryRecordReflected ==
    \A s \in Seqs : row[s] = "ready" ~> (s \in Reflected \/ row[s] = "gone" \/ mailbox = "dead")
=============================================================================
