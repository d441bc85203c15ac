----------------------------- MODULE LockOrder ------------------------------
(***************************************************************************)
(* The inside of the transactions that Derivation takes as single steps:   *)
(* ingests of one entity, and the commits of the derivations that read it, *)
(* each acquiring its locks one at a time under READ COMMITTED.            *)
(*                                                                         *)
(* Every transaction holds the workspace lock shared, so that lock never   *)
(* blocks here (erasure, which takes it exclusively, is in Derivation).    *)
(* What they contend for is the entity lock and the mailbox rows: an       *)
(* upsert of a row another transaction has written or locked waits for it. *)
(***************************************************************************)
EXTENDS Naturals, FiniteSets, FiniteSetsExt

CONSTANTS
    Records,    \* ingests, each of one record
    Pipelines,  \* derivations, numbered in the order of their triggers' names
    Arrivals,   \* what is ingested, and the triggers that are declared
    MaxSeq,     \* bound: sequence numbers handed out, aborted ingests included
    Nobody

ASSUME SetsAssumption ==
    /\ IsFiniteSet(Records)
    /\ Pipelines \subseteq Nat /\ IsFiniteSet(Pipelines)
    /\ Records \cap Pipelines = {} /\ Nobody \notin Records \cup Pipelines
ASSUME NumbersAssumption == MaxSeq \in Nat
ASSUME ArrivalsAssumption ==
    \A s \in Arrivals :
        /\ s.keyed \subseteq Records                       \* their ingest takes the entity lock
        /\ s.threshold \in [Pipelines -> Nat \ {0}]        \* ready records above the watermark
                                                           \* that fire the pipeline

\* One process for each ingest, and one executor for each pipeline.
Procs == Records \cup Pipelines

VARIABLES
    arrival,    \* one of Arrivals, which does not change
    \* committed state
    ready,      \* records committed and ready
    watermark,  \* high_seq of each pipeline's latest run
    active,     \* whether the partition has an active job
    \* locks, held to the end of the transaction
    jobLock, entityLock,
    \* transactions
    pc, todo, target, staged, seq, basis, lastSeq

lockOrderVars == <<arrival, ready, watermark, active, jobLock, entityLock, pc, todo, target, staged, seq,
          basis, lastSeq>>
committed == <<ready, watermark, active>>
locks == <<jobLock, entityLock>>

Keyed == arrival.keyed
Threshold == arrival.threshold

Outside == {"idle", "claimed", "resolved", "done"}
InTransaction == {"begun", "locked", "evaluate", "upsert"}

LockOrderTypeOK ==
    /\ arrival \in Arrivals
    /\ ready \in SUBSET Records
    /\ watermark \in [Pipelines -> 0 .. MaxSeq]
    /\ active \in [Pipelines -> BOOLEAN]
    /\ jobLock \in [Pipelines -> Procs \cup {Nobody}]
    /\ entityLock \in Procs \cup {Nobody}
    /\ pc \in [Procs -> Outside \cup InTransaction]
    /\ todo \in [Procs -> SUBSET Pipelines]          \* triggers still to evaluate
    /\ target \in [Procs -> Pipelines \cup {Nobody}] \* mailbox being upserted
    /\ staged \in [Procs -> SUBSET Pipelines]        \* mailboxes filled, not yet committed
    /\ seq \in [Records -> 0 .. MaxSeq]
    /\ basis \in [Pipelines -> 0 .. MaxSeq]          \* high_seq the run will record
    /\ lastSeq \in 0 .. MaxSeq

LockOrderInit ==
    /\ arrival \in Arrivals
    /\ ready = {}
    /\ watermark = [p \in Pipelines |-> 0]
    /\ active = [p \in Pipelines |-> FALSE]
    /\ jobLock = [p \in Pipelines |-> Nobody]
    /\ entityLock = Nobody
    /\ pc = [x \in Procs |-> "idle"]
    /\ todo = [x \in Procs |-> {}]
    /\ target = [x \in Procs |-> Nobody]
    /\ staged = [x \in Procs |-> {}]
    /\ seq = [r \in Records |-> 0]
    /\ basis = [p \in Pipelines |-> 0]
    /\ lastSeq = 0

Free(lock, x) == lock \in {Nobody, x}

(***************************************************************************)
(* What a statement of transaction x sees: what is committed, and what x   *)
(* wrote itself.                                                           *)
(***************************************************************************)
Visible(x) == {r \in Records : r \in ready \/ r = x}
SeenWatermark(x, p) == IF x = p THEN basis[p] ELSE watermark[p]
Above(x, p) == {r \in Visible(x) : seq[r] > SeenWatermark(x, p)}
Fires(x, p) == Cardinality(Above(x, p)) >= Threshold[p]

\* Locks go with the transaction, whichever way it ends.
Release(x) ==
    /\ jobLock' = [p \in Pipelines |-> IF jobLock[p] = x THEN Nobody ELSE jobLock[p]]
    /\ entityLock' = IF entityLock = x THEN Nobody ELSE entityLock

StartEvaluation(x) == pc' = [pc EXCEPT ![x] = "evaluate"] /\ todo' = [todo EXCEPT ![x] = Pipelines]
WorkOf(x, state) == pc' = [pc EXCEPT ![x] = state] /\ todo' = [todo EXCEPT ![x] = {}]
                    /\ target' = [target EXCEPT ![x] = Nobody] /\ staged' = [staged EXCEPT ![x] = {}]

(***************************************************************************)
(* Ingest.                                                                 *)
(***************************************************************************)
\* insert_records_tx begins: entity locks are for keyed rows only.
Begin(r) ==
    /\ pc[r] = "idle"
    /\ IF r \in Keyed THEN Free(entityLock, r) /\ entityLock' = r ELSE UNCHANGED entityLock
    /\ pc' = [pc EXCEPT ![r] = "begun"]
    /\ UNCHANGED <<committed, jobLock, todo, target, staged, seq, basis, lastSeq>>

\* The row is written, and the ready hook starts on the triggers.
InsertRow(r) ==
    /\ pc[r] = "begun" /\ lastSeq < MaxSeq
    /\ lastSeq' = lastSeq + 1
    /\ seq' = [seq EXCEPT ![r] = lastSeq + 1]
    /\ StartEvaluation(r)
    /\ UNCHANGED <<committed, locks, target, staged, basis>>

(***************************************************************************)
(* Derivation.                                                             *)
(***************************************************************************)
\* enqueue_derivation_job: an upsert of one row in a transaction of its own.
RequestJob(p) ==
    /\ jobLock[p] = Nobody
    /\ active' = [active EXCEPT ![p] = TRUE]
    /\ UNCHANGED <<ready, watermark, locks, pc, todo, target, staged, seq, basis, lastSeq>>

\* for update skip locked: a row that is locked is passed over.
ClaimJob(p) ==
    /\ pc[p] = "idle" /\ active[p] /\ jobLock[p] = Nobody
    /\ pc' = [pc EXCEPT ![p] = "claimed"]
    /\ UNCHANGED <<committed, locks, todo, target, staged, seq, basis, lastSeq>>

\* The basis is every ready row committed by now; the model runs after it.
Resolve(p) ==
    /\ pc[p] = "claimed"
    /\ basis' = [basis EXCEPT ![p] = Max({watermark[p]} \cup {seq[r] : r \in ready})]
    /\ pc' = [pc EXCEPT ![p] = "resolved"]
    /\ UNCHANGED <<committed, locks, todo, target, staged, seq, lastSeq>>

\* Fault: ownership is read without FOR UPDATE.
PeekJob(p) ==
    /\ pc[p] = "resolved"
    /\ pc' = [pc EXCEPT ![p] = "locked"]
    /\ UNCHANGED <<committed, locks, todo, target, staged, seq, basis, lastSeq>>

\* _claim_owned_tx: the first lock of the commit is the run's own job row.
LockJob(p) ==
    /\ pc[p] = "resolved" /\ Free(jobLock[p], p)
    /\ jobLock' = [jobLock EXCEPT ![p] = p]
    /\ pc' = [pc EXCEPT ![p] = "locked"]
    /\ UNCHANGED <<committed, entityLock, todo, target, staged, seq, basis, lastSeq>>

\* With the entity lock: the run is inserted, the claim completed, and a
\* successor enqueued for the records that the basis does not cover.
LockEntity(p) ==
    /\ pc[p] = "locked" /\ Free(entityLock, p)
    /\ entityLock' = p
    /\ staged' = [staged EXCEPT ![p] = IF Above(p, p) # {} THEN {p} ELSE {}]
    /\ StartEvaluation(p)
    /\ UNCHANGED <<committed, jobLock, target, seq, basis, lastSeq>>

(***************************************************************************)
(* evaluate_entity_triggers_tx: one trigger after the other, by name.      *)
(***************************************************************************)
\* Fault: the triggers are evaluated in no particular order.
AnyTurn(x) == todo[x]

Turn(x) == {p \in todo[x] : \A q \in todo[x] : p <= q}
Evaluate(x) ==
    /\ pc[x] = "evaluate"
    /\ \E p \in Turn(x) :
        /\ todo' = [todo EXCEPT ![x] = @ \ {p}]
        /\ IF Fires(x, p)
           THEN target' = [target EXCEPT ![x] = p] /\ pc' = [pc EXCEPT ![x] = "upsert"]
           ELSE UNCHANGED <<target, pc>>
    /\ UNCHANGED <<committed, locks, staged, seq, basis, lastSeq>>

\* enqueue_derive_tx waits for the transaction that has the mailbox row.
Upsert(x) ==
    /\ pc[x] = "upsert"
    /\ Free(jobLock[target[x]], x)
    /\ jobLock' = [jobLock EXCEPT ![target[x]] = x]
    /\ staged' = [staged EXCEPT ![x] = @ \cup {target[x]}]
    /\ pc' = [pc EXCEPT ![x] = "evaluate"]
    /\ target' = [target EXCEPT ![x] = Nobody]
    /\ UNCHANGED <<committed, entityLock, todo, seq, basis, lastSeq>>

Filled(x) == [p \in Pipelines |-> IF p \in staged[x] THEN TRUE ELSE (active[p] /\ p # x)]

Commit(x) ==
    /\ pc[x] = "evaluate" /\ todo[x] = {}
    /\ active' = Filled(x)
    /\ ready' = IF x \in Records THEN ready \cup {x} ELSE ready
    /\ watermark' = [p \in Pipelines |-> IF p = x THEN basis[p] ELSE watermark[p]]
    /\ Release(x)
    /\ WorkOf(x, IF x \in Records THEN "done" ELSE "idle")
    /\ UNCHANGED <<seq, basis, lastSeq>>

(***************************************************************************)
(* Waits.                                                                  *)
(***************************************************************************)
\* y holds the lock that x's next statement asks for.
WaitsFor(x, y) ==
    /\ y # x
    /\ \/ pc[x] = "resolved" /\ jobLock[x] = y
       \/ (pc[x] = "locked" \/ (pc[x] = "idle" /\ x \in Keyed)) /\ entityLock = y
       \/ pc[x] = "upsert" /\ jobLock[target[x]] = y

Waiting == {x \in Procs : \E y \in Procs : WaitsFor(x, y)}

\* Everyone in S waits for someone in S who is waited for.
WaitCycle(S) ==
    /\ S # {}
    /\ \A x \in S : (\E y \in S : WaitsFor(x, y)) /\ (\E z \in S : WaitsFor(z, x))

\* PostgreSQL aborts a transaction of a cycle.  The ingest is an error to its
\* caller, who may send it again; the executor's job is still there to claim.
Abort(x) ==
    /\ \E S \in SUBSET Waiting : x \in S /\ WaitCycle(S)
    /\ Release(x)
    /\ WorkOf(x, "idle")
    /\ seq' = IF x \in Records THEN [seq EXCEPT ![x] = 0] ELSE seq
    /\ UNCHANGED <<committed, basis, lastSeq>>

LockOrderStep ==
    \/ \E r \in Records : Begin(r) \/ InsertRow(r)
    \/ \E p \in Pipelines : RequestJob(p) \/ ClaimJob(p) \/ Resolve(p) \/ LockJob(p) \/ LockEntity(p)
    \/ \E x \in Procs : Evaluate(x) \/ Upsert(x) \/ Commit(x) \/ Abort(x)

LockOrderNext == LockOrderStep /\ UNCHANGED arrival

LockOrderSpec == LockOrderInit /\ [][LockOrderNext]_lockOrderVars

-----------------------------------------------------------------------------
(* Properties. *)

\* A pipeline whose trigger condition holds of the committed records has an
\* active job, however ingests and commits interleave inside: the mailbox row
\* is locked before the run's own evaluation, so that a stimulus either
\* coalesces before the evaluation sees its record or waits and refills.  Where
\* it takes several records, their ingests have to follow each other.
NoLostStimulus ==
    \A p \in Pipelines :
        /\ Threshold[p] = 1 \/ Keyed = Records
        /\ Cardinality({r \in ready : seq[r] > watermark[p]}) >= Threshold[p]
        => active[p]

\* Ingests take the entity lock first and then the mailboxes in one order, so
\* they never deadlock among themselves: every cycle has an executor in it.
CyclesNeedAnExecutor ==
    \A S \in SUBSET Waiting : WaitCycle(S) => S \cap Pipelines # {}

\* No transactions wait for each other in a circle.
NoLockInversion == \A S \in SUBSET Waiting : ~ WaitCycle(S)
=============================================================================
