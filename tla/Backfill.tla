------------------------------ MODULE Backfill ------------------------------
(***************************************************************************)
(* The annotation backfill of one (collection version, processor) target:  *)
(* durable handles, the chain of claim-fenced jobs that work on them one   *)
(* batch at a time, and the rows that lack the annotation (backfill.py,    *)
(* worker.py, enrichment.py).                                              *)
(*                                                                         *)
(* Each step of an executor is a transaction of its own, so leases lapse,  *)
(* processes die and operators cancel between any two of them.  Completing *)
(* a claim and queueing its successor is one transaction, so a handle has  *)
(* at most one job that is not finished, and one job record stands for the *)
(* chain.                                                                  *)
(***************************************************************************)
EXTENDS Naturals, FiniteSets, FiniteSetsExt

CONSTANTS
    MaxSeq,       \* bound: ready rows of a target, by seq
    MaxHandles,   \* bound: backfills requested
    Executors,
    MaxAttempts,  \* JOB_MAX_ATTEMPTS
    Replies,       \* what a provider may answer for a row
    Targets,      \* targets, requests, surroundings that are looked at
    Unowned       \* the owner of a job nobody holds

ASSUME BackfillAssumption ==
    /\ MaxSeq \in Nat /\ MaxHandles \in Nat /\ MaxAttempts \in Nat \ {0}
    /\ Unowned \notin Executors
    /\ {"gap", "terminal"} \cap Replies = {}
ASSUME TargetsAssumption ==
    Targets \subseteq
        [rows : 1 .. MaxSeq,                       \* rows of the target
         values : SUBSET Replies,                   \* what is answered for them
         requests : 1 .. MaxHandles,
         batch : Nat \ {0},                        \* BACKFILL_BATCH
         maxRows : Nat,                            \* max_rows of the requests; 0: none
         othersLock : {"never", "passing", "any"}, \* row locks of other lanes; passing: none
                                                   \* lasts through the start of a sweep
         zombies : BOOLEAN,                        \* leases lapse under executors at work
         crashes : BOOLEAN]                        \* failures between two transactions

VARIABLES
    target,     \* one of Targets, which does not change
    annotation, \* annotation[r]: gap, the annotation, or terminal (gave up for good)
    held,       \* rows another lane holds locked
    handle,     \* the backfill table
    job,        \* the unfinished job of each handle, or its last one
    hand        \* executor memory

advancing == <<annotation, held, handle, job, hand>>
backfillVars == <<target, advancing>>

Rows == 1 .. target.rows
Handles == 1 .. MaxHandles
BatchSize == target.batch
MaxRows == target.maxRows
OthersLock == target.othersLock
Zombies == target.zombies
Failing == target.crashes

Live == {"queued", "running"}
Handle == [state : {"absent", "done", "cancelled", "failed"} \cup Live,
           cursor : 0 .. MaxSeq, scanned : Nat]
Job == [status : {"none", "active", "dead"}, attempts : 0 .. MaxAttempts,
        owner : Executors \cup {Unowned}]
HandPhases == {"idle", "claimed", "started", "selected", "written", "exhausted", "finish", "release"}
IdleHand == [phase |-> "idle", id |-> 0, after |-> 0, limit |-> 0, batch |-> {}, live |-> FALSE]

BackfillTypeOK ==
    /\ target \in Targets
    /\ annotation \in [Rows -> {"gap", "terminal"} \cup Replies]
    /\ held \in SUBSET Rows
    /\ handle \in [Handles -> Handle]
    /\ job \in [Handles -> Job]
    /\ hand \in [Executors -> [phase : HandPhases, id : 0 .. MaxHandles, after : 0 .. MaxSeq,
                               limit : 0 .. BatchSize, batch : SUBSET Rows, live : BOOLEAN]]

BackfillInit ==
    /\ target \in Targets
    /\ annotation = [r \in Rows |-> "gap"]
    /\ held = {}
    /\ handle = [i \in Handles |-> [state |-> "absent", cursor |-> 0, scanned |-> 0]]
    /\ job = [i \in Handles |-> [status |-> "none", attempts |-> 0, owner |-> Unowned]]
    /\ hand = [e \in Executors |-> IdleHand]

IsLive(i) == handle[i].state \in Live
FreshJob == [status |-> "active", attempts |-> 0, owner |-> Unowned]
NoJob == [status |-> "none", attempts |-> 0, owner |-> Unowned]

(***************************************************************************)
(* Operators.                                                              *)
(***************************************************************************)
\* One live handle per target: the backfill_live index and the check before it.
Request(i) ==
    /\ i <= target.requests
    /\ handle[i].state = "absent" /\ \A k \in Handles : ~IsLive(k)
    /\ \A k \in Handles : k < i => handle[k].state # "absent"
    /\ handle' = [handle EXCEPT ![i].state = "queued"]
    /\ job' = [job EXCEPT ![i] = FreshJob]
    /\ UNCHANGED <<annotation, held, hand>>

\* cancel_backfill ends the handle and the job together.
Cancel(i) ==
    /\ IsLive(i)
    /\ handle' = [handle EXCEPT ![i].state = "cancelled"]
    /\ job' = [job EXCEPT ![i] = IF @.status = "active" THEN NoJob ELSE @]
    /\ UNCHANGED <<annotation, held, hand>>

\* retry_dead_job, on an operator's request.
RetryDead(i) ==
    /\ job[i].status = "dead"
    /\ job' = [job EXCEPT ![i] = FreshJob]
    /\ UNCHANGED <<annotation, held, handle, hand>>

\* A lane that annotates, erases or reads the row for a commit has it locked.
Hold(r) ==
    /\ OthersLock # "never" /\ r \notin held
    /\ held' = held \cup {r}
    /\ UNCHANGED <<annotation, handle, job, hand>>
LetGo(r) ==
    /\ r \in held
    /\ held' = held \ {r}
    /\ UNCHANGED <<annotation, handle, job, hand>>

(***************************************************************************)
(* The job.                                                                *)
(***************************************************************************)

Claim(e, i) ==
    /\ hand[e].phase = "idle"
    /\ job[i].status = "active" /\ job[i].owner = Unowned /\ job[i].attempts < MaxAttempts
    /\ job' = [job EXCEPT ![i].owner = e, ![i].attempts = @ + 1]
    /\ hand' = [hand EXCEPT ![e].phase = "claimed", ![e].id = i]
    /\ UNCHANGED <<annotation, held, handle>>

Reap(i) ==
    /\ job[i].status = "active" /\ job[i].owner = Unowned /\ job[i].attempts >= MaxAttempts
    /\ job' = [job EXCEPT ![i].status = "dead"]
    /\ UNCHANGED <<annotation, held, handle, hand>>

\* The executor that has claimed the job is no longer at it.
Deserted(i) ==
    job[i].owner # Unowned /\ (hand[job[i].owner].phase = "idle" \/ hand[job[i].owner].id # i)

Lapse(i) ==
    /\ job[i].owner # Unowned
    /\ Zombies \/ Deserted(i)
    /\ job' = [job EXCEPT ![i].owner = Unowned]
    /\ UNCHANGED <<annotation, held, handle, hand>>

ProcessDies(e) ==
    /\ Failing /\ hand[e].phase # "idle"
    /\ hand' = [hand EXCEPT ![e] = IdleHand]
    /\ UNCHANGED <<annotation, held, handle, job>>

Owns(e) ==
    /\ hand[e].phase # "idle"
    /\ job[hand[e].id].status = "active" /\ job[hand[e].id].owner = e

(***************************************************************************)
(* _process_annotation_backfill, one transaction at a time.                *)
(***************************************************************************)

\* The rows the request may still scan.
Remaining(i) == IF handle[i].scanned >= MaxRows THEN 0 ELSE MaxRows - handle[i].scanned

\* The batch is over: what is left is whether a successor is wanted.
Releasing(i, live) == [IdleHand EXCEPT !.phase = "release", !.id = i, !.live = live]

\* claim_state moves the handle to running, and the executor keeps a copy.
Start(e) ==
    LET i == hand[e].id
        limit == IF MaxRows = 0 THEN BatchSize ELSE Min({BatchSize, Remaining(i)}) IN
    /\ hand[e].phase = "claimed"
    /\ IF IsLive(i)
       THEN /\ handle' = [handle EXCEPT ![i].state = "running"]
            /\ hand' = [hand EXCEPT ![e] =
                    IF limit = 0 THEN [@ EXCEPT !.phase = "finish"]
                    ELSE [@ EXCEPT !.phase = "started", !.after = handle[i].cursor,
                                   !.limit = limit]]
       ELSE /\ hand' = [hand EXCEPT ![e] = Releasing(i, FALSE)]
            /\ UNCHANGED handle
    /\ UNCHANGED <<annotation, held, job>>

\* The first n members of S.
LowestRows(S, n) == {r \in S : Cardinality({t \in S : t < r}) < n}

\* _snapshot_backfill: rows without the annotation after the cursor, in order
\* of seq, skipping locked ones.
Page(after, limit) == LowestRows({r \in Rows : r > after /\ annotation[r] = "gap" /\ r \notin held}, limit)

Select(e) ==
    LET page == Page(hand[e].after, hand[e].limit) IN
    /\ hand[e].phase = "started"
    /\ OthersLock = "passing" /\ hand[e].after = 0 => held = {}
    /\ hand' = [hand EXCEPT ![e].phase = IF page = {} THEN "exhausted" ELSE "selected",
                            ![e].batch = page]
    /\ UNCHANGED <<annotation, held, handle, job>>

\* What the providers made of a batch: a value each, or a failure for good.
Answers(batch) == [batch -> target.values \cup {"terminal"}]
Given(r) == annotation[r] \in Replies

\* Fault: the last writer wins.
Overwritten(out) == [r \in Rows |-> IF r \in DOMAIN out THEN out[r] ELSE annotation[r]]

\* Absent annotations are written, or the terminal marker; a row that has the
\* annotation by now keeps it.
Annotated(out) == [r \in Rows |-> IF r \in DOMAIN out /\ ~Given(r) THEN out[r] ELSE annotation[r]]

\* An annotation that is there already must be the same (AnnotationConflict).
Agrees(out) == \A r \in DOMAIN out : Given(r) /\ out[r] \in Replies => out[r] = annotation[r]

\* _finalize, after the provider calls, in one transaction.
Write(e) ==
    LET w == hand[e] IN
    /\ w.phase = "selected" /\ w.batch \cap held = {}
    /\ \E out \in Answers(w.batch) : Agrees(out) /\ annotation' = Annotated(out)
    /\ hand' = [hand EXCEPT ![e].phase = "written"]
    /\ UNCHANGED <<held, handle, job>>

\* record_progress: cursor_seq = greatest(...), scanned + n.
Progress(e) ==
    LET w == hand[e]
        i == w.id IN
    /\ w.phase = "written"
    /\ handle' = [handle EXCEPT ![i].cursor = Max({@} \cup w.batch),
                                ![i].scanned = IF MaxRows = 0 THEN @ ELSE @ + Cardinality(w.batch)]
    /\ hand' = [hand EXCEPT ![e] =
            IF Cardinality(w.batch) < w.limit
            THEN [w EXCEPT !.phase = "exhausted", !.limit = 0]
            ELSE Releasing(i, IsLive(i))]
    /\ UNCHANGED <<annotation, held, job>>

\* Fault: the first exhausted page is the end.
Exhausted(w) == w.batch = {}

\* An empty sweep from the first record is the end; another one is confirmed.
Confirmed(w) == w.batch = {} /\ w.after = 0

\* Fault: the next sweep goes on from the cursor.
EndOfSweepOnly(e) ==
    LET w == hand[e]
        i == w.id IN
    /\ w.phase = "exhausted"
    /\ IF Confirmed(w)
       THEN hand' = [hand EXCEPT ![e] = [IdleHand EXCEPT !.phase = "finish", !.id = i]]
       ELSE hand' = [hand EXCEPT ![e] = Releasing(i, IsLive(i))]
    /\ UNCHANGED <<annotation, held, handle, job>>

EndOfSweep(e) ==
    LET w == hand[e]
        i == w.id IN
    /\ w.phase = "exhausted"
    /\ IF Confirmed(w)
       THEN hand' = [hand EXCEPT ![e] = [IdleHand EXCEPT !.phase = "finish", !.id = i]] /\ UNCHANGED handle
       ELSE /\ handle' = [handle EXCEPT ![i].cursor = 0]
            /\ hand' = [hand EXCEPT ![e] = Releasing(i, IsLive(i))]
    /\ UNCHANGED <<annotation, held, job>>

\* finish: only a live backfill.
Finish(e) ==
    LET i == hand[e].id IN
    /\ hand[e].phase = "finish"
    /\ handle' = IF IsLive(i) THEN [handle EXCEPT ![i].state = "done"] ELSE handle
    /\ hand' = [hand EXCEPT ![e] = Releasing(i, FALSE)]
    /\ UNCHANGED <<annotation, held, job>>

\* _release_backfill_claim: the claim completes, and the successor is queued
\* in the same transaction.
Release(e) ==
    LET i == hand[e].id IN
    /\ hand[e].phase = "release" /\ Owns(e)
    /\ job' = [job EXCEPT ![i] = IF hand[e].live THEN FreshJob ELSE NoJob]
    /\ hand' = [hand EXCEPT ![e] = IdleHand]
    /\ UNCHANGED <<annotation, held, handle>>

LeaseLost(e) ==
    /\ hand[e].phase # "idle" /\ ~Owns(e)
    /\ hand' = [hand EXCEPT ![e] = IdleHand]
    /\ UNCHANGED <<annotation, held, handle, job>>

\* A provider, the database or a conflicting annotation fails the batch.
Fail(e) ==
    LET i == hand[e].id IN
    /\ Owns(e)
    /\ \/ hand[e].phase \in {"claimed", "started", "selected"}
       \/ Failing /\ hand[e].phase \in {"written", "exhausted"}
    /\ job' = [job EXCEPT ![i].owner = Unowned,
                          ![i].status = IF job[i].attempts >= MaxAttempts THEN "dead" ELSE "active"]
    /\ hand' = [hand EXCEPT ![e] = IdleHand]
    /\ UNCHANGED <<annotation, held, handle>>

\* The target became impossible: the handle says so before the job dies.
FailTarget(e) ==
    LET i == hand[e].id IN
    /\ hand[e].phase = "started"
    /\ handle' = IF IsLive(i) THEN [handle EXCEPT ![i].state = "failed"] ELSE handle
    /\ job' = IF Owns(e) THEN [job EXCEPT ![i].owner = Unowned, ![i].status = "dead"] ELSE job
    /\ hand' = [hand EXCEPT ![e] = IdleHand]
    /\ UNCHANGED <<annotation, held>>

Execute(e) ==
    \/ Start(e) \/ Select(e) \/ Write(e) \/ Progress(e) \/ EndOfSweep(e) \/ Finish(e)
    \/ Release(e) \/ LeaseLost(e) \/ Fail(e) \/ FailTarget(e)

BackfillStep ==
    \/ \E i \in Handles : Request(i) \/ Cancel(i) \/ RetryDead(i) \/ Reap(i) \/ Lapse(i)
    \/ \E r \in Rows : Hold(r) \/ LetGo(r)
    \/ \E e \in Executors : ProcessDies(e) \/ Execute(e) \/ \E i \in Handles : Claim(e, i)

BackfillNext == BackfillStep /\ UNCHANGED target

BackfillSpec == BackfillInit /\ [][BackfillNext]_backfillVars

(***************************************************************************)
(* Properties.                                                             *)
(***************************************************************************)
\* A backfill without a row budget that is done has left no row behind: what
\* a sweep skipped because it was locked, the next one finds.
DoneMeansDone ==
    MaxRows = 0 /\ OthersLock # "any" =>
        \A i \in Handles : handle[i].state = "done" => \A r \in Rows : annotation[r] # "gap"

\* A live backfill has a job to carry it on, or one that died and tells so:
\* neither a crash between two of its transactions nor a cancellation of an
\* earlier handle leaves it running with nobody to run it.
LiveHasJob == \A i \in Handles : IsLive(i) => job[i].status \in {"active", "dead"}

\* An annotation is written once, whatever backfills and zombie executors work
\* on the row, and whatever their providers answer.
WriteOnce == [][\A r \in Rows : Given(r) => annotation'[r] = annotation[r]]_backfillVars

(***************************************************************************)
(* Liveness: workers poll and run what they claim, leases of executors     *)
(* that died lapse, and row locks are let go.  No job is passed over for   *)
(* ever: claims are made in order of run_after (ManualServed of JobQueue).  *)
(***************************************************************************)
BackfillFairness ==
    /\ \A e \in Executors : WF_advancing(Execute(e))
    /\ \A i \in Handles : SF_advancing(\E e \in Executors : Claim(e, i))
    /\ \A i \in Handles : WF_advancing(Reap(i)) /\ WF_advancing(Deserted(i) /\ Lapse(i))
    /\ \A r \in 1 .. MaxSeq : WF_advancing(LetGo(r))

BackfillFairSpec == BackfillSpec /\ BackfillFairness

\* A live backfill ends, or its job dies visibly: the rewinding sweeps stop.
EveryBackfillEnds ==
    \A i \in Handles : IsLive(i) ~> (~IsLive(i) \/ job[i].status = "dead")
=============================================================================
