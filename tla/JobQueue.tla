------------------------------ MODULE JobQueue ------------------------------
(***************************************************************************)
(* The job table of memseek (jobs.py) and the executors that claim from    *)
(* it (worker.py).  Every SQL statement on a job row is one action: its    *)
(* guard is the WHERE clause, its effect the SET clause.  Time is          *)
(* abstract: lease_until is "none", "live" or "expired" and run_after is   *)
(* either due or still in the future; the clock moves both by actions of   *)
(* its own (LeaseExpires, ComesDue).  Of the order of run_after the model  *)
(* keeps what claim_job uses: which due jobs come before which (ahead).    *)
(***************************************************************************)
EXTENDS Naturals

CONSTANTS
    Jobs,         \* job rows: the identities that may be inserted
    Partitions,   \* (workspace, derivation, entity) triples of derive jobs
    Executors,    \* tasks of worker processes, each holding at most one claim
    Tokens,       \* claim tokens (fresh UUIDs in the code)
    PartitionOf,  \* the partition of a derive row, NoPartition for other kinds
    Lane,         \* Lane[e]: rows matched by the kind/derivation filter of e
    MaxAttempts,  \* JOB_MAX_ATTEMPTS
    NoPartition, NoToken, NoJob

ASSUME MaxAttemptsAssumption == MaxAttempts \in Nat \ {0}
ASSUME PartitionAssumption ==
    /\ PartitionOf \in [Jobs -> Partitions \cup {NoPartition}]
    /\ NoPartition \notin Partitions
ASSUME LaneAssumption == Lane \in [Executors -> SUBSET Jobs]
ASSUME NullAssumption == NoToken \notin Tokens /\ NoJob \notin Jobs

VARIABLES
    \* the job table
    status,    \* done_at / dead_at: absent, active, done, dead
    attempts,
    lease,     \* lease_until
    lockedBy,  \* locked_by: the claim token
    manual,    \* the payload carries the "manual" reason
    ahead,     \* ahead[j]: the due rows with an earlier run_after than the due row j
    due,       \* rows whose run_after has passed
    \* worker memory: the ClaimedJob an executor is working on
    job, token

row == <<status, attempts, lease, lockedBy, manual, ahead, due>>
vars == <<status, attempts, lease, lockedBy, manual, ahead, due, job, token>>

Status == {"absent", "active", "done", "dead"}
Lease == {"none", "live", "expired"}

TypeOK ==
    /\ status \in [Jobs -> Status]
    /\ attempts \in [Jobs -> 0 .. MaxAttempts]
    /\ lease \in [Jobs -> Lease]
    /\ lockedBy \in [Jobs -> Tokens \cup {NoToken}]
    /\ manual \in [Jobs -> BOOLEAN]
    /\ ahead \in [Jobs -> SUBSET Jobs]
    /\ due \in SUBSET Jobs
    /\ job \in [Executors -> Jobs \cup {NoJob}]
    /\ token \in [Executors -> Tokens \cup {NoToken}]

Init ==
    /\ status = [j \in Jobs |-> "absent"]
    /\ attempts = [j \in Jobs |-> 0]
    /\ lease = [j \in Jobs |-> "none"]
    /\ lockedBy = [j \in Jobs |-> NoToken]
    /\ manual = [j \in Jobs |-> FALSE]
    /\ ahead = [j \in Jobs |-> {}]
    /\ due = {}
    /\ job = [e \in Executors |-> NoJob]
    /\ token = [e \in Executors |-> NoToken]

(***************************************************************************)
(* The order of run_after.                                                 *)
(***************************************************************************)
\* run_after of the rows S is in the past: those not yet due join the end.
BecomeDue(S) ==
    /\ due' = due \cup S
    /\ ahead' = [j \in Jobs |-> IF j \in S \ due THEN due ELSE ahead[j]]

\* run_after of the rows S no longer matters: postponed or terminal.
LeaveDue(S) ==
    /\ due' = due \ S
    /\ ahead' = [j \in Jobs |-> IF j \in S THEN {} ELSE ahead[j] \ S]

(***************************************************************************)
(* Stimuli.  A derive row is the mailbox of its partition: the partial     *)
(* unique index job_active_derive turns a second insert into an update of  *)
(* the active row.                                                         *)
(***************************************************************************)
Active(p) == {j \in Jobs : status[j] = "active" /\ PartitionOf[j] = p}

\* Insert the absent row j, runnable at once (now) or later.
Insert(j, isManual, now) ==
    /\ status[j] = "absent"
    /\ status' = [status EXCEPT ![j] = "active"]
    /\ manual' = [manual EXCEPT ![j] = isManual]
    /\ IF now THEN BecomeDue({j}) ELSE UNCHANGED <<due, ahead>>
    /\ UNCHANGED <<attempts, lease, lockedBy, job, token>>

\* run_after of the active row j becomes greatest(run_after, the future), unless
\* the payload carries a manual request.
Postpone(j) ==
    IF manual[j] THEN UNCHANGED <<due, ahead>> ELSE LeaveDue({j})

Coalesce(j, isManual, now, extend) ==
    /\ manual' = [manual EXCEPT ![j] = @ \/ isManual]
    /\ IF extend THEN Postpone(j)
       ELSE IF now THEN BecomeDue({j}) ELSE UNCHANGED <<due, ahead>>
    /\ UNCHANGED <<status, attempts, lease, lockedBy, job, token>>

Enqueue(p, isManual, now, extend) ==
    \/ /\ Active(p) = {}
       /\ \E j \in Jobs : PartitionOf[j] = p /\ Insert(j, isManual, now)
    \/ \E j \in Active(p) : Coalesce(j, isManual, now, extend)

\* enqueue_derivation_job: POST /processors/{name}/run, now or at run_after.
EnqueueManual(p) == \E now \in BOOLEAN : Enqueue(p, TRUE, now, FALSE)

\* enqueue_derive_tx with coalesce="earliest": now, or after a cooldown.
EnqueueTrigger(p) == \E now \in BOOLEAN : Enqueue(p, FALSE, now, FALSE)

\* enqueue_derive_tx with coalesce="extend": a quiet or debounced stimulus.
EnqueueSettle(p) == Enqueue(p, FALSE, FALSE, TRUE)

\* Rows of the other kinds are inserted once and never coalesced.
EnqueueOther(j) == PartitionOf[j] = NoPartition /\ Insert(j, FALSE, TRUE)

(***************************************************************************)
(* Claiming.                                                               *)
(***************************************************************************)
TokensInUse == {lockedBy[j] : j \in Jobs} \cup {token[e] : e \in Executors}

\* Fault: the token identifies the worker and not the claim.
WorkerToken == CHOOSE t \in Tokens : TRUE

\* uuid4(): a token nobody holds.
FreshToken == CHOOSE t \in Tokens : t \notin TokensInUse

\* Rows whose last permitted attempt let its lease expire.
Overdue ==
    {j \in Jobs : status[j] = "active" /\ lease[j] = "expired" /\ attempts[j] >= MaxAttempts}

\* Fault: the candidate query forgets the lease.
RunnableLeased(e) ==
    {j \in Lane[e] \cap due : status[j] = "active" /\ attempts[j] < MaxAttempts}

Runnable(e) ==
    {j \in Lane[e] \cap due :
        status[j] = "active" /\ lease[j] # "live" /\ attempts[j] < MaxAttempts}

\* Fault: no order by.
AnyOrder(e, j) == TRUE

\* order by run_after, created_at, id limit 1.
First(e, j) == ahead[j] \cap Runnable(e) = {}

\* The claim transaction, when the lane has a runnable row: reap the overdue
\* rows, then lease the runnable row that became due first.
Claim(e) ==
    /\ job[e] = NoJob
    /\ \E t \in Tokens : t \notin TokensInUse
    /\ \E j \in Runnable(e) :
          /\ First(e, j)
          /\ attempts' = [attempts EXCEPT ![j] = @ + 1]
          /\ lease' = [k \in Jobs |-> IF k \in Overdue THEN "none"
                                      ELSE IF k = j THEN "live" ELSE lease[k]]
          /\ lockedBy' = [k \in Jobs |-> IF k \in Overdue THEN NoToken
                                         ELSE IF k = j THEN FreshToken ELSE lockedBy[k]]
          /\ job' = [job EXCEPT ![e] = j]
          /\ token' = [token EXCEPT ![e] = FreshToken]
    /\ status' = [k \in Jobs |-> IF k \in Overdue THEN "dead" ELSE status[k]]
    /\ LeaveDue(Overdue)
    /\ UNCHANGED manual

\* The claim transaction when the lane has no runnable row: it still reaps.
ClaimNothing(e) ==
    /\ job[e] = NoJob
    /\ Runnable(e) = {}
    /\ Overdue # {}
    /\ status' = [k \in Jobs |-> IF k \in Overdue THEN "dead" ELSE status[k]]
    /\ lease' = [k \in Jobs |-> IF k \in Overdue THEN "none" ELSE lease[k]]
    /\ lockedBy' = [k \in Jobs |-> IF k \in Overdue THEN NoToken ELSE lockedBy[k]]
    /\ LeaveDue(Overdue)
    /\ UNCHANGED <<attempts, manual, job, token>>

(***************************************************************************)
(* Transitions of a claimed job.  Each is one UPDATE guarded by the claim  *)
(* token, by the row being active and by the lease being unexpired; when   *)
(* the UPDATE matches no row the executor gets LeaseLost instead.          *)
(***************************************************************************)
Fenced(e) ==
    /\ job[e] # NoJob
    /\ lockedBy[job[e]] = token[e]
    /\ status[job[e]] = "active"
    /\ lease[job[e]] = "live"

\* The executor is through with its ClaimedJob.
Forget(e) ==
    /\ job' = [job EXCEPT ![e] = NoJob]
    /\ token' = [token EXCEPT ![e] = NoToken]

\* lease_until = null, locked_by = null.
Unlock(j) ==
    /\ lease' = [lease EXCEPT ![j] = "none"]
    /\ lockedBy' = [lockedBy EXCEPT ![j] = NoToken]

\* The fenced update that ends the claim of e and leaves the row in state s.
EndClaim(e, s) ==
    /\ Fenced(e)
    /\ status' = [status EXCEPT ![job[e]] = s]
    /\ Unlock(job[e])
    /\ Forget(e)
    /\ UNCHANGED manual

Complete(e) ==
    /\ EndClaim(e, "done")
    /\ LeaveDue({job[e]})
    /\ UNCHANGED attempts

\* Completion and the insertion of the next row of the same work in one
\* transaction: the successor of a derivation or of a backfill batch.
CompleteWithSuccessor(e) ==
    /\ Fenced(e)
    /\ \E k \in Jobs :
          /\ status[k] = "absent" /\ PartitionOf[k] = PartitionOf[job[e]]
          /\ status' = [status EXCEPT ![job[e]] = "done", ![k] = "active"]
          /\ due' = (due \ {job[e]}) \cup {k}
          /\ ahead' = [i \in Jobs |-> IF i = job[e] THEN {}
                                      ELSE IF i = k THEN due \ {job[e]}
                                      ELSE ahead[i] \ {job[e]}]
    /\ Unlock(job[e])
    /\ Forget(e)
    /\ UNCHANGED <<attempts, manual>>

\* Fault: a failed attempt is refunded like a barrier.
RetryUncharged(e) ==
    /\ EndClaim(e, "active")
    /\ LeaveDue({job[e]})
    /\ attempts' = [attempts EXCEPT ![job[e]] = @ - 1]

\* retry_or_dead_letter_job below the attempt cap: backoff, run_after later.
Retry(e) ==
    /\ Fenced(e) /\ attempts[job[e]] < MaxAttempts
    /\ EndClaim(e, "active")
    /\ LeaveDue({job[e]})
    /\ UNCHANGED attempts

\* retry_or_dead_letter_job at the cap, dead_letter_job and the failed run of a
\* derivation: the attempt was the last one, or the failure is not retryable.
DeadLetter(e) ==
    /\ EndClaim(e, "dead")
    /\ LeaveDue({job[e]})
    /\ UNCHANGED attempts

\* An enrichment barrier: the attempt is refunded.
ReleaseNotReady(e) ==
    /\ EndClaim(e, "active")
    /\ attempts' = [attempts EXCEPT ![job[e]] = IF @ = 0 THEN 0 ELSE @ - 1]
    /\ LeaveDue({job[e]})

\* Heartbeat or transition found no row to update: the operation is cancelled.
LeaseLost(e) ==
    /\ job[e] # NoJob /\ ~Fenced(e)
    /\ Forget(e)
    /\ UNCHANGED row

\* The process dies, or cannot reach the database: the row is not touched.
Crash(e) ==
    /\ job[e] # NoJob
    /\ Forget(e)
    /\ UNCHANGED row

(***************************************************************************)
(* The clock, the operator and erasure.                                    *)
(***************************************************************************)
\* clock_timestamp() passes lease_until before the next heartbeat.
LeaseExpires(j) ==
    /\ lease[j] = "live"
    /\ lease' = [lease EXCEPT ![j] = "expired"]
    /\ UNCHANGED <<status, attempts, lockedBy, manual, ahead, due, job, token>>

\* clock_timestamp() passes run_after.
ComesDue(j) ==
    /\ status[j] = "active" /\ j \notin due
    /\ BecomeDue({j})
    /\ UNCHANGED <<status, attempts, lease, lockedBy, manual, job, token>>

\* retry_dead_job: refused while another row of the partition is active.
RetryDead(j) ==
    /\ status[j] = "dead"
    /\ PartitionOf[j] # NoPartition => Active(PartitionOf[j]) = {}
    /\ status' = [status EXCEPT ![j] = "active"]
    /\ attempts' = [attempts EXCEPT ![j] = 0]
    /\ Unlock(j)
    /\ BecomeDue({j})
    /\ UNCHANGED <<manual, job, token>>

\* Erasure of records of an entity kills the active derive rows of the entity,
\* whoever holds them.
EraseKills(p) ==
    /\ Active(p) # {}
    /\ status' = [j \in Jobs |-> IF j \in Active(p) THEN "dead" ELSE status[j]]
    /\ lease' = [j \in Jobs |-> IF j \in Active(p) THEN "none" ELSE lease[j]]
    /\ lockedBy' = [j \in Jobs |-> IF j \in Active(p) THEN NoToken ELSE lockedBy[j]]
    /\ LeaveDue(Active(p))
    /\ UNCHANGED <<attempts, manual, job, token>>

Stimulus(p) == EnqueueManual(p) \/ EnqueueTrigger(p) \/ EnqueueSettle(p)

Outcome(e) ==
    \/ Complete(e) \/ CompleteWithSuccessor(e) \/ Retry(e) \/ DeadLetter(e)
    \/ ReleaseNotReady(e) \/ LeaseLost(e)

Next ==
    \/ \E p \in Partitions : Stimulus(p) \/ EraseKills(p)
    \/ \E j \in Jobs : EnqueueOther(j) \/ LeaseExpires(j) \/ ComesDue(j) \/ RetryDead(j)
    \/ \E e \in Executors : Claim(e) \/ ClaimNothing(e) \/ Outcome(e) \/ Crash(e)

Spec == Init /\ [][Next]_vars

(***************************************************************************)
(* Safety.                                                                 *)
(***************************************************************************)
\* At most one executor can change a job, whatever lapsed, restarted or was
\* claimed again meanwhile: an executor that outlives its lease finds its token
\* replaced (the locked_by condition of every transition).
SoleOwner ==
    \A e, f \in Executors : Fenced(e) /\ Fenced(f) /\ job[e] = job[f] => e = f

\* A partition has one mailbox: coalescing, successors and the revival of dead
\* rows never leave two active derive rows of one partition.
OneMailbox ==
    \A p \in Partitions : \A i, j \in Active(p) : i = j

\* No active row is unreachable: one that nobody leases still has an attempt
\* left, so claim_job can take it (a row with none would block its partition
\* for ever, because only an expired lease is reaped).
NoStrandedJob ==
    \A j \in Jobs : status[j] = "active" /\ lease[j] = "none" => attempts[j] < MaxAttempts

\* Only active rows are leased, and a lease and its token come and go together.
LeaseMatchesToken ==
    \A j \in Jobs :
        /\ lease[j] = "none" <=> lockedBy[j] = NoToken
        /\ lease[j] # "none" => status[j] = "active"

\* Nothing walks a runnable manual request into the future except the executor
\* that works on it: settle stimuli (quiet, debounce) do not push it.
ManualNotPostponed ==
    [][\A j \in Jobs :
          manual[j] /\ j \in due /\ lease[j] # "live" /\ j \notin due'
              => status'[j] # "active"]_vars

\* The table implements exclusive, non-transferable ownership of jobs.
Owners == [j \in Jobs |-> {e \in Executors : Fenced(e) /\ job[e] = j}]
Ownership == INSTANCE JobLease WITH state <- status, owners <- Owners
ImplementsJobLease == Ownership!Spec

(***************************************************************************)
(* Liveness.  Worker loops keep claiming, operations end, and clocks       *)
(* advance.  A lease nobody renews any more expires.  Settle stimuli may   *)
(* postpone a job as long as they keep coming, so they are assumed to      *)
(* stop where a property needs it (BurstsEnd).                             *)
(***************************************************************************)
Orphaned(j) == \A e \in Executors : ~(Fenced(e) /\ job[e] = j)
OrphanExpires(j) == Orphaned(j) /\ LeaseExpires(j)
PollClaim(e) == Claim(e) \/ ClaimNothing(e)

Fairness ==
    /\ \A e \in Executors : WF_vars(PollClaim(e)) /\ WF_vars(Outcome(e))
    /\ \A j \in Jobs : WF_vars(ComesDue(j)) /\ WF_vars(OrphanExpires(j))

FairSpec == Spec /\ Fairness

\* Barriers lift: an operation on j that is attempted again and again is not
\* answered "not ready" or cut off every time.
Decide(e, j) ==
    /\ job[e] = j
    /\ Complete(e) \/ CompleteWithSuccessor(e) \/ Retry(e) \/ DeadLetter(e)
BarriersLift == \A e \in Executors : \A j \in Jobs : SF_vars(Decide(e, j))

SettleStep == \E p \in Partitions : EnqueueSettle(p)
BurstsEnd == <>[][~SettleStep]_vars

Settled(j) == status[j] = "active" ~> status[j] # "active"

\* A job that carries a manual request is claimed even while settle stimuli
\* never stop, and whatever the other jobs of the table do: claims follow
\* run_after, so a job released or retried again and again cannot starve it.
ManualServed == \A j \in Jobs :
    (status[j] = "active" /\ manual[j]) ~> (lease[j] = "live" \/ status[j] # "active")

\* Once bursts end, every active job reaches done or dead: it is claimed, its
\* attempts are bounded, and the final one is reaped when its owner died.
EveryJobSettled == BurstsEnd /\ BarriersLift => \A j \in Jobs : Settled(j)
=============================================================================
