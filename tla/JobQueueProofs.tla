--------------------------- MODULE JobQueueProofs ---------------------------
(***************************************************************************)
(* The safety properties of JobQueue for every number of rows, executors,  *)
(* tokens and attempts.                                                    *)
(***************************************************************************)
EXTENDS JobQueue, TLAPS

\* A row that was never inserted has used no attempt.
FreshRows == \A j \in Jobs : status[j] = "absent" => attempts[j] = 0

\* No two executors remember the same token (a claim takes one that neither a
\* row nor an executor holds).
TokensDistinct ==
    \A e, f \in Executors :
        job[e] # NoJob /\ job[f] # NoJob /\ token[e] = token[f] => e = f

IInv ==
    /\ TypeOK
    /\ FreshRows
    /\ TokensDistinct
    /\ LeaseMatchesToken
    /\ NoStrandedJob
    /\ OneMailbox

USE MaxAttemptsAssumption, PartitionAssumption, LaneAssumption, NullAssumption

-----------------------------------------------------------------------------
(* Type correctness. *)

LEMMA InitTypeOK == Init => TypeOK
  BY DEF Init, TypeOK, Status, Lease

\* A fresh token, where there is one.
LEMMA FreshTokenIsFresh ==
  ASSUME \E t \in Tokens : t \notin TokensInUse
  PROVE  FreshToken \in Tokens /\ FreshToken \notin TokensInUse
  BY DEF FreshToken

LEMMA DueTyped ==
  ASSUME TypeOK, NEW S \in SUBSET Jobs, BecomeDue(S) \/ LeaveDue(S)
  PROVE  due' \in SUBSET Jobs /\ ahead' \in [Jobs -> SUBSET Jobs]
  BY DEF TypeOK, BecomeDue, LeaveDue

LEMMA StimulusTyped ==
  ASSUME TypeOK, NEW p \in Partitions, NEW isManual \in BOOLEAN, NEW now \in BOOLEAN,
         NEW extend \in BOOLEAN, Enqueue(p, isManual, now, extend)
  PROVE  TypeOK'
<1>1. ASSUME NEW j \in Jobs, Insert(j, isManual, now)
      PROVE  TypeOK'
  <2>1. due' \in SUBSET Jobs /\ ahead' \in [Jobs -> SUBSET Jobs]
    BY <1>1, DueTyped DEF Insert, TypeOK
  <2>2. QED
    BY <1>1, <2>1 DEF Insert, TypeOK, Status
<1>2. ASSUME NEW j \in Jobs, Coalesce(j, isManual, now, extend)
      PROVE  TypeOK'
  <2>1. due' \in SUBSET Jobs /\ ahead' \in [Jobs -> SUBSET Jobs]
    BY <1>2, DueTyped DEF Coalesce, Postpone, TypeOK
  <2>2. manual' \in [Jobs -> BOOLEAN]
    BY <1>2 DEF Coalesce, TypeOK
  <2>3. QED
    BY <1>2, <2>1, <2>2 DEF Coalesce, TypeOK
<1>3. QED
  BY <1>1, <1>2 DEF Enqueue, Active

\* Every step keeps the types.
LEMMA StepTypeOK ==
  ASSUME TypeOK, FreshRows, [Next]_vars
  PROVE  TypeOK'
<1>1. CASE UNCHANGED vars
  BY <1>1 DEF vars, TypeOK
<1>2. ASSUME NEW p \in Partitions, Stimulus(p)
      PROVE  TypeOK'
  BY <1>2, StimulusTyped DEF Stimulus, EnqueueManual, EnqueueTrigger, EnqueueSettle
<1>3. ASSUME NEW p \in Partitions, EraseKills(p)
      PROVE  TypeOK'
  <2>1. due' \in SUBSET Jobs /\ ahead' \in [Jobs -> SUBSET Jobs]
    BY <1>3, DueTyped DEF EraseKills, Active
  <2>2. QED
    BY <1>3, <2>1 DEF EraseKills, TypeOK, Status, Lease
<1>4. ASSUME NEW j \in Jobs, EnqueueOther(j)
      PROVE  TypeOK'
  <2>1. due' \in SUBSET Jobs /\ ahead' \in [Jobs -> SUBSET Jobs]
    BY <1>4, DueTyped DEF EnqueueOther, Insert, TypeOK
  <2>2. QED
    BY <1>4, <2>1 DEF EnqueueOther, Insert, TypeOK, Status
<1>5. ASSUME NEW j \in Jobs, LeaseExpires(j)
      PROVE  TypeOK'
  BY <1>5 DEF LeaseExpires, TypeOK, Lease
<1>6. ASSUME NEW j \in Jobs, ComesDue(j)
      PROVE  TypeOK'
  <2>1. due' \in SUBSET Jobs /\ ahead' \in [Jobs -> SUBSET Jobs]
    BY <1>6, DueTyped DEF ComesDue
  <2>2. QED
    BY <1>6, <2>1 DEF ComesDue, TypeOK
<1>7. ASSUME NEW j \in Jobs, RetryDead(j)
      PROVE  TypeOK'
  <2>1. due' \in SUBSET Jobs /\ ahead' \in [Jobs -> SUBSET Jobs]
    BY <1>7, DueTyped DEF RetryDead
  <2>2. /\ status' = [status EXCEPT ![j] = "active"]
        /\ attempts' = [attempts EXCEPT ![j] = 0]
        /\ lease' = [lease EXCEPT ![j] = "none"]
        /\ lockedBy' = [lockedBy EXCEPT ![j] = NoToken]
        /\ UNCHANGED <<manual, job, token>>
    BY <1>7 DEF RetryDead, Unlock
  <2>3. QED
    BY <2>1, <2>2 DEF TypeOK, Status, Lease
<1>8. ASSUME NEW e \in Executors, Claim(e)
      PROVE  TypeOK'
  <2>1. due' \in SUBSET Jobs /\ ahead' \in [Jobs -> SUBSET Jobs]
    BY <1>8, DueTyped DEF Claim, Overdue
  <2>2. FreshToken \in Tokens
    BY <1>8, FreshTokenIsFresh DEF Claim
  <2>3. PICK j \in Runnable(e) :
            /\ attempts' = [attempts EXCEPT ![j] = @ + 1]
            /\ lease' = [k \in Jobs |-> IF k \in Overdue THEN "none"
                                        ELSE IF k = j THEN "live" ELSE lease[k]]
            /\ lockedBy' = [k \in Jobs |-> IF k \in Overdue THEN NoToken
                                           ELSE IF k = j THEN FreshToken ELSE lockedBy[k]]
            /\ job' = [job EXCEPT ![e] = j]
            /\ token' = [token EXCEPT ![e] = FreshToken]
    BY <1>8 DEF Claim
  <2>4. j \in Jobs /\ attempts[j] \in 0 .. MaxAttempts /\ attempts[j] < MaxAttempts
    BY DEF Runnable, TypeOK
  <2>5. attempts' \in [Jobs -> 0 .. MaxAttempts]
    BY <2>3, <2>4 DEF TypeOK
  <2>6. lease' \in [Jobs -> Lease] /\ lockedBy' \in [Jobs -> Tokens \cup {NoToken}]
    BY <2>2, <2>3, <2>4 DEF TypeOK, Lease
  <2>7. job' \in [Executors -> Jobs \cup {NoJob}] /\ token' \in [Executors -> Tokens \cup {NoToken}]
    BY <2>2, <2>3, <2>4 DEF TypeOK
  <2>8. status' \in [Jobs -> Status] /\ manual' \in [Jobs -> BOOLEAN]
    BY <1>8 DEF Claim, TypeOK, Status
  <2>9. QED
    BY <2>1, <2>5, <2>6, <2>7, <2>8 DEF TypeOK
<1>9. ASSUME NEW e \in Executors, ClaimNothing(e)
      PROVE  TypeOK'
  <2>1. due' \in SUBSET Jobs /\ ahead' \in [Jobs -> SUBSET Jobs]
    BY <1>9, DueTyped DEF ClaimNothing, Overdue
  <2>2. QED
    BY <1>9, <2>1 DEF ClaimNothing, TypeOK, Status, Lease
<1>10. ASSUME NEW e \in Executors, Complete(e) \/ Retry(e) \/ DeadLetter(e) \/ ReleaseNotReady(e)
       PROVE  TypeOK'
  <2>1. job[e] \in Jobs
    BY <1>10 DEF Complete, Retry, DeadLetter, ReleaseNotReady, EndClaim, Fenced, TypeOK
  <2>2. due' \in SUBSET Jobs /\ ahead' \in [Jobs -> SUBSET Jobs]
    BY <1>10, <2>1, DueTyped DEF Complete, Retry, DeadLetter, ReleaseNotReady
  <2>3. attempts' \in [Jobs -> 0 .. MaxAttempts]
    BY <1>10, <2>1 DEF Complete, Retry, DeadLetter, ReleaseNotReady, TypeOK
  <2>4. PICK s \in Status : EndClaim(e, s)
    BY <1>10 DEF Complete, Retry, DeadLetter, ReleaseNotReady, Status
  <2>5. QED
    BY <2>1, <2>2, <2>3, <2>4 DEF EndClaim, Unlock, Forget, TypeOK, Lease
<1>11. ASSUME NEW e \in Executors, CompleteWithSuccessor(e)
       PROVE  TypeOK'
  <2>1. job[e] \in Jobs
    BY <1>11 DEF CompleteWithSuccessor, Fenced, TypeOK
  <2>2. QED
    BY <1>11, <2>1 DEF CompleteWithSuccessor, Unlock, Forget, TypeOK, Status, Lease
<1>12. ASSUME NEW e \in Executors, LeaseLost(e) \/ Crash(e)
       PROVE  TypeOK'
  BY <1>12 DEF LeaseLost, Crash, Forget, row, TypeOK
<1>13. QED
  BY <1>1, <1>2, <1>3, <1>4, <1>5, <1>6, <1>7, <1>8, <1>9, <1>10, <1>11, <1>12
  DEF Next, Outcome

\* The invariant holds initially and implies its parts; TypeOK gives the theorem.
LEMMA InitIInv == Init => IInv
<1>1. Init => FreshRows /\ TokensDistinct /\ LeaseMatchesToken /\ NoStrandedJob /\ OneMailbox
  BY DEF Init, FreshRows, TokensDistinct, LeaseMatchesToken, NoStrandedJob, OneMailbox, Active
<1>2. QED
  BY <1>1, InitTypeOK DEF IInv

-----------------------------------------------------------------------------
(* The parts of the invariant that are about rows. *)

RowInv == FreshRows /\ LeaseMatchesToken /\ NoStrandedJob /\ OneMailbox

\* A row of partition p becomes active only where no other is.
LEMMA EnqueueKeepsRows ==
  ASSUME TypeOK, RowInv, NEW p \in Partitions, NEW isManual \in BOOLEAN, NEW now \in BOOLEAN,
         NEW extend \in BOOLEAN, Enqueue(p, isManual, now, extend)
  PROVE  RowInv'
<1>1. ASSUME Active(p) = {}, NEW j \in Jobs, PartitionOf[j] = p, Insert(j, isManual, now)
      PROVE  RowInv'
  BY <1>1 DEF Insert, TypeOK, RowInv, FreshRows, LeaseMatchesToken, NoStrandedJob, OneMailbox, Active
<1>2. ASSUME NEW j \in Jobs, Coalesce(j, isManual, now, extend)
      PROVE  RowInv'
  BY <1>2 DEF Coalesce, RowInv, FreshRows, LeaseMatchesToken, NoStrandedJob, OneMailbox, Active
<1>3. QED
  BY <1>1, <1>2 DEF Enqueue, Active

\* Rows change alike in Complete, Retry, DeadLetter and ReleaseNotReady.
LEMMA EndClaimKeepsRows ==
  ASSUME TypeOK, RowInv, NEW e \in Executors,
         Complete(e) \/ Retry(e) \/ DeadLetter(e) \/ ReleaseNotReady(e)
  PROVE  RowInv'
<1>1. job[e] \in Jobs /\ status[job[e]] = "active"
  BY DEF Complete, Retry, DeadLetter, ReleaseNotReady, EndClaim, Fenced, TypeOK
<1>2. /\ lease' = [lease EXCEPT ![job[e]] = "none"]
      /\ lockedBy' = [lockedBy EXCEPT ![job[e]] = NoToken]
  BY DEF Complete, Retry, DeadLetter, ReleaseNotReady, EndClaim, Unlock
<1>3. PICK s \in Status : status' = [status EXCEPT ![job[e]] = s] /\ s # "absent"
  BY DEF Complete, Retry, DeadLetter, ReleaseNotReady, EndClaim, Status
<1>4. FreshRows'
  BY <1>1, <1>3 DEF Complete, Retry, DeadLetter, ReleaseNotReady, RowInv, FreshRows, TypeOK
<1>5. LeaseMatchesToken'
  BY <1>1, <1>2, <1>3 DEF RowInv, LeaseMatchesToken, TypeOK
<1>6. NoStrandedJob'
  <2>1. CASE Complete(e) \/ DeadLetter(e)
    BY <1>1, <1>2, <2>1 DEF Complete, DeadLetter, EndClaim, RowInv, NoStrandedJob, TypeOK
  <2>2. CASE Retry(e)
    BY <1>1, <1>2, <2>2 DEF Retry, EndClaim, RowInv, NoStrandedJob, TypeOK
  <2>3. CASE ReleaseNotReady(e)
    BY <1>1, <1>2, <2>3 DEF ReleaseNotReady, EndClaim, RowInv, NoStrandedJob, TypeOK
  <2>4. QED
    BY <2>1, <2>2, <2>3
<1>7. OneMailbox'
  BY <1>1, <1>3 DEF RowInv, OneMailbox, Active, TypeOK
<1>8. QED
  BY <1>4, <1>5, <1>6, <1>7 DEF RowInv

LEMMA ClaimKeepsRows ==
  ASSUME TypeOK, RowInv, NEW e \in Executors, Claim(e)
  PROVE  RowInv'
<1>1. FreshToken \in Tokens
  BY FreshTokenIsFresh DEF Claim
<1>2. PICK j \in Runnable(e) :
          /\ attempts' = [attempts EXCEPT ![j] = @ + 1]
          /\ lease' = [k \in Jobs |-> IF k \in Overdue THEN "none"
                                      ELSE IF k = j THEN "live" ELSE lease[k]]
          /\ lockedBy' = [k \in Jobs |-> IF k \in Overdue THEN NoToken
                                         ELSE IF k = j THEN FreshToken ELSE lockedBy[k]]
  BY DEF Claim
<1>3. j \in Jobs /\ status[j] = "active" /\ j \notin Overdue
  BY DEF Runnable, Overdue, TypeOK
<1>4. status' = [k \in Jobs |-> IF k \in Overdue THEN "dead" ELSE status[k]]
  BY DEF Claim
<1>5. \A k \in Overdue : k \in Jobs /\ status[k] = "active"
  BY DEF Overdue
<1>6. FreshRows'
  BY <1>2, <1>3, <1>4 DEF RowInv, FreshRows, TypeOK
<1>7. LeaseMatchesToken'
  BY <1>1, <1>2, <1>3, <1>4 DEF RowInv, LeaseMatchesToken, TypeOK
<1>8. NoStrandedJob'
  BY <1>2, <1>3, <1>4 DEF RowInv, NoStrandedJob, TypeOK
<1>9. OneMailbox'
  BY <1>4 DEF RowInv, OneMailbox, Active
<1>10. QED
  BY <1>6, <1>7, <1>8, <1>9 DEF RowInv

\* The completed row leaves the mailbox in the step that its successor enters it.
LEMMA SuccessorKeepsRows ==
  ASSUME TypeOK, RowInv, NEW e \in Executors, CompleteWithSuccessor(e)
  PROVE  RowInv'
<1>1. job[e] \in Jobs /\ status[job[e]] = "active"
  BY DEF CompleteWithSuccessor, Fenced, TypeOK
<1>2. PICK k \in Jobs :
          /\ status[k] = "absent" /\ PartitionOf[k] = PartitionOf[job[e]]
          /\ status' = [status EXCEPT ![job[e]] = "done", ![k] = "active"]
  BY DEF CompleteWithSuccessor
<1>3. /\ lease' = [lease EXCEPT ![job[e]] = "none"]
      /\ lockedBy' = [lockedBy EXCEPT ![job[e]] = NoToken]
      /\ attempts' = attempts
  BY DEF CompleteWithSuccessor, Unlock
<1>4. FreshRows' /\ NoStrandedJob'
  BY <1>1, <1>2, <1>3 DEF RowInv, FreshRows, NoStrandedJob, TypeOK
<1>5. LeaseMatchesToken'
  BY <1>1, <1>2, <1>3 DEF RowInv, LeaseMatchesToken, TypeOK
<1>6. OneMailbox'
  BY <1>1, <1>2 DEF RowInv, OneMailbox, Active, TypeOK
<1>7. QED
  BY <1>4, <1>5, <1>6 DEF RowInv

\* Rows that die without their owner: reaped or erased.
LEMMA DyingKeepsRows ==
  ASSUME TypeOK, RowInv, NEW S \in SUBSET Jobs, \A j \in S : status[j] = "active",
         status' = [j \in Jobs |-> IF j \in S THEN "dead" ELSE status[j]],
         lease' = [j \in Jobs |-> IF j \in S THEN "none" ELSE lease[j]],
         lockedBy' = [j \in Jobs |-> IF j \in S THEN NoToken ELSE lockedBy[j]],
         attempts' = attempts
  PROVE  RowInv'
  BY DEF RowInv, FreshRows, LeaseMatchesToken, NoStrandedJob, OneMailbox, Active, TypeOK

\* The actions of the clock and the operator change one row each.
LEMMA RowActionsKeepRows ==
  ASSUME TypeOK, RowInv, NEW j \in Jobs,
         EnqueueOther(j) \/ LeaseExpires(j) \/ ComesDue(j) \/ RetryDead(j)
  PROVE  RowInv'
<1>1. CASE EnqueueOther(j)
  BY <1>1 DEF EnqueueOther, Insert, TypeOK, RowInv, FreshRows, LeaseMatchesToken,
              NoStrandedJob, OneMailbox, Active
<1>2. CASE LeaseExpires(j)
  BY <1>2 DEF LeaseExpires, TypeOK, RowInv, FreshRows, LeaseMatchesToken, NoStrandedJob,
              OneMailbox, Active
<1>3. CASE ComesDue(j)
  BY <1>3 DEF ComesDue, RowInv, FreshRows, LeaseMatchesToken, NoStrandedJob, OneMailbox, Active
<1>4. CASE RetryDead(j)
  <2>1. /\ status[j] = "dead" /\ status' = [status EXCEPT ![j] = "active"]
        /\ attempts' = [attempts EXCEPT ![j] = 0]
        /\ lease' = [lease EXCEPT ![j] = "none"]
        /\ lockedBy' = [lockedBy EXCEPT ![j] = NoToken]
    BY <1>4 DEF RetryDead, Unlock
  <2>2. FreshRows' /\ LeaseMatchesToken' /\ NoStrandedJob'
    BY <2>1 DEF RowInv, FreshRows, LeaseMatchesToken, NoStrandedJob, TypeOK
  <2>3. OneMailbox'
    <3>1. PartitionOf[j] # NoPartition => Active(PartitionOf[j]) = {}
      BY <1>4 DEF RetryDead
    <3>2. QED
      BY <2>1, <3>1 DEF RowInv, OneMailbox, Active, TypeOK
  <2>4. QED
    BY <2>2, <2>3 DEF RowInv
<1>5. QED
  BY <1>1, <1>2, <1>3, <1>4

LEMMA StepKeepsRows ==
  ASSUME TypeOK, RowInv, [Next]_vars
  PROVE  RowInv'
<1>1. CASE UNCHANGED vars
  BY <1>1 DEF vars, RowInv, FreshRows, LeaseMatchesToken, NoStrandedJob, OneMailbox, Active
<1>2. ASSUME NEW p \in Partitions, Stimulus(p)
      PROVE  RowInv'
  BY <1>2, EnqueueKeepsRows DEF Stimulus, EnqueueManual, EnqueueTrigger, EnqueueSettle
<1>3. ASSUME NEW p \in Partitions, EraseKills(p)
      PROVE  RowInv'
  <2>1. Active(p) \in SUBSET Jobs /\ \A j \in Active(p) : status[j] = "active"
    BY DEF Active
  <2>2. QED
    BY <1>3, <2>1, DyingKeepsRows DEF EraseKills
<1>4. ASSUME NEW e \in Executors, ClaimNothing(e)
      PROVE  RowInv'
  <2>1. Overdue \in SUBSET Jobs /\ \A j \in Overdue : status[j] = "active"
    BY DEF Overdue
  <2>2. QED
    BY <1>4, <2>1, DyingKeepsRows DEF ClaimNothing
<1>5. ASSUME NEW j \in Jobs, EnqueueOther(j) \/ LeaseExpires(j) \/ ComesDue(j) \/ RetryDead(j)
      PROVE  RowInv'
  BY <1>5, RowActionsKeepRows
<1>6. ASSUME NEW e \in Executors, LeaseLost(e) \/ Crash(e)
      PROVE  RowInv'
  BY <1>6 DEF LeaseLost, Crash, row, RowInv, FreshRows, LeaseMatchesToken, NoStrandedJob,
              OneMailbox, Active
<1>7. QED
  BY <1>1, <1>2, <1>3, <1>4, <1>5, <1>6, ClaimKeepsRows, EndClaimKeepsRows, SuccessorKeepsRows
  DEF Next, Outcome
-----------------------------------------------------------------------------
(* Claims: tokens stay distinct because a claim takes one nobody holds.    *)

LEMMA StepKeepsTokens ==
  ASSUME TypeOK, TokensDistinct, [Next]_vars
  PROVE  TokensDistinct'
<1>1. CASE UNCHANGED <<job, token>>
  BY <1>1 DEF TokensDistinct
<1>2. ASSUME NEW e \in Executors, Forget(e)
      PROVE  TokensDistinct'
  BY <1>2 DEF Forget, TokensDistinct, TypeOK
<1>3. ASSUME NEW e \in Executors, Claim(e)
      PROVE  TokensDistinct'
  <2>1. FreshToken \in Tokens /\ FreshToken \notin TokensInUse
    BY <1>3, FreshTokenIsFresh DEF Claim
  <2>2. PICK j \in Jobs : job' = [job EXCEPT ![e] = j]
    BY <1>3 DEF Claim, Runnable, TypeOK
  <2>3. token' = [token EXCEPT ![e] = FreshToken]
    BY <1>3 DEF Claim
  <2>4. \A f \in Executors : token[f] # FreshToken
    BY <2>1 DEF TokensInUse
  <2>5. QED
    BY <2>2, <2>3, <2>4 DEF TokensDistinct, TypeOK
<1>4. UNCHANGED <<job, token>> \/ (\E e \in Executors : Forget(e) \/ Claim(e))
  <2>1. CASE UNCHANGED vars
    BY <2>1 DEF vars
  <2>2. ASSUME NEW p \in Partitions, Stimulus(p) \/ EraseKills(p)
        PROVE  UNCHANGED <<job, token>>
    BY <2>2 DEF Stimulus, EnqueueManual, EnqueueTrigger, EnqueueSettle, Enqueue, Insert,
                Coalesce, EraseKills
  <2>3. ASSUME NEW j \in Jobs, EnqueueOther(j) \/ LeaseExpires(j) \/ ComesDue(j) \/ RetryDead(j)
        PROVE  UNCHANGED <<job, token>>
    BY <2>3 DEF EnqueueOther, Insert, LeaseExpires, ComesDue, RetryDead
  <2>4. ASSUME NEW e \in Executors, ClaimNothing(e)
        PROVE  UNCHANGED <<job, token>>
    BY <2>4 DEF ClaimNothing
  <2>5. ASSUME NEW e \in Executors, Outcome(e) \/ Crash(e)
        PROVE  Forget(e)
    BY <2>5 DEF Outcome, Complete, CompleteWithSuccessor, Retry, DeadLetter, ReleaseNotReady,
                EndClaim, LeaseLost, Crash
  <2>6. QED
    BY <2>1, <2>2, <2>3, <2>4, <2>5 DEF Next
<1>5. QED
  BY <1>1, <1>2, <1>3, <1>4

\* The invariant is inductive.
LEMMA StepIInv == IInv /\ [Next]_vars => IInv'
  BY StepTypeOK, StepKeepsRows, StepKeepsTokens DEF IInv, RowInv

LEMMA SoleOwnerFromIInv == IInv => SoleOwner
  BY DEF IInv, TokensDistinct, SoleOwner, Fenced

\* The inductive invariant holds in every reachable state.
THEOREM Invariance == Spec => []IInv
  BY InitIInv, StepIInv, PTL DEF Spec

\* Every variable keeps its type; in particular claims never charge a job
\* more than MaxAttempts attempts.
THEOREM TypeCorrect == Spec => []TypeOK
<1>1. IInv => TypeOK
  BY DEF IInv
<1>2. QED
  BY <1>1, Invariance, PTL

\* At most one executor can transition a job (the locked_by fence of every
\* transition in jobs.py).
THEOREM SoleOwnership == Spec => []SoleOwner
  BY SoleOwnerFromIInv, Invariance, PTL

\* Two active derive rows never share a partition (job_active_derive).
THEOREM SingleMailbox == Spec => []OneMailbox
<1>1. IInv => OneMailbox
  BY DEF IInv
<1>2. QED
  BY <1>1, Invariance, PTL

\* An unleased active row always has an attempt left (retry_or_dead_letter_job
\* and the reaping of final attempts in claim_job).
THEOREM NothingStranded == Spec => []NoStrandedJob
<1>1. IInv => NoStrandedJob
  BY DEF IInv
<1>2. QED
  BY <1>1, Invariance, PTL

\* lease_until and locked_by are set and cleared together, on active rows only.
THEOREM LeasesAndTokens == Spec => []LeaseMatchesToken
<1>1. IInv => LeaseMatchesToken
  BY DEF IInv
<1>2. QED
  BY <1>1, Invariance, PTL

-----------------------------------------------------------------------------
(* Implementation of JobLease. *)

LEMMA NotOwned ==
  ASSUME NEW j \in Jobs, status[j] # "active" \/ lease[j] # "live"
  PROVE  Owners[j] = {}
  BY DEF Owners, Fenced

LEMMA NotOwnedNext ==
  ASSUME NEW j \in Jobs, status'[j] # "active" \/ lease'[j] # "live"
  PROVE  Owners'[j] = {}
  BY DEF Owners, Fenced

\* A step that leaves a row and the claims of it alone leaves its owners alone.
LEMMA OwnersKept ==
  ASSUME NEW j \in Jobs, status'[j] = status[j], lease'[j] = lease[j],
         lockedBy'[j] = lockedBy[j],
         \A f \in Executors : (job'[f] = j <=> job[f] = j) /\ (job[f] = j => token'[f] = token[f])
  PROVE  Owners'[j] = Owners[j]
  BY DEF Owners, Fenced

LEMMA OwnersTyped == Owners \in [Jobs -> SUBSET Executors]
  BY DEF Owners

\* The outcome of a step for one row.
RowStep(j) ==
    \/ Ownership!Post(j) \/ Ownership!Grant(j) \/ Ownership!Release(j) \/ Ownership!Finish(j)
    \/ Ownership!Bury(j) \/ Ownership!Revive(j) \/ Ownership!Keep(j)
LEMMA RowStepDef ==
  ASSUME NEW j
  PROVE  /\ status'[j] = status[j] /\ Owners'[j] = Owners[j] => RowStep(j)
         /\ status[j] = "absent" /\ status'[j] = "active" /\ Owners'[j] = {} => RowStep(j)
         /\ status[j] = "active" /\ status'[j] = "active" /\ Owners'[j] = {} => RowStep(j)
         /\ status[j] = "active" /\ status'[j] = "dead" /\ Owners'[j] = {} => RowStep(j)
         /\ /\ status[j] = "active" /\ status'[j] = "done"
            /\ Owners[j] # {} /\ Owners'[j] = {}
            => RowStep(j)
         /\ /\ status[j] = "dead" /\ status'[j] = "active"
            /\ Owners[j] = {} /\ Owners'[j] = {}
            => RowStep(j)
         /\ /\ status[j] = "active" /\ status'[j] = "active"
            /\ Owners[j] = {} /\ \E e \in Executors : Owners'[j] = {e}
            => RowStep(j)
  BY DEF RowStep, Ownership!Post, Ownership!Grant, Ownership!Release, Ownership!Finish,
         Ownership!Bury, Ownership!Revive, Ownership!Keep

\* A row that nobody owned is inserted, the others are kept.
LEMMA InsertMaps ==
  ASSUME IInv, NEW k \in Jobs, NEW isManual \in BOOLEAN, NEW now \in BOOLEAN,
         Insert(k, isManual, now), NEW j \in Jobs
  PROVE  RowStep(j)
<1>1. CASE j = k
  <2>1. status[j] = "absent" /\ status'[j] = "active" /\ lease'[j] = "none"
    BY <1>1 DEF Insert, IInv, TypeOK, LeaseMatchesToken, Lease
  <2>2. QED
    BY <2>1, NotOwnedNext, RowStepDef
<1>2. CASE j # k
  <2>1. status'[j] = status[j] /\ Owners'[j] = Owners[j]
    BY <1>2, OwnersKept DEF Insert, IInv, TypeOK
  <2>2. QED
    BY <2>1, RowStepDef
<1>3. QED
  BY <1>1, <1>2

\* A claim grants one job and buries the overdue ones.
LEMMA ClaimMaps ==
  ASSUME IInv, NEW e \in Executors, Claim(e), NEW j \in Jobs
  PROVE  RowStep(j)
<1>1. FreshToken \in Tokens /\ FreshToken \notin TokensInUse
  BY FreshTokenIsFresh DEF Claim
<1>2. PICK k \in Runnable(e) :
          /\ lease' = [i \in Jobs |-> IF i \in Overdue THEN "none"
                                      ELSE IF i = k THEN "live" ELSE lease[i]]
          /\ lockedBy' = [i \in Jobs |-> IF i \in Overdue THEN NoToken
                                         ELSE IF i = k THEN FreshToken ELSE lockedBy[i]]
          /\ job' = [job EXCEPT ![e] = k]
          /\ token' = [token EXCEPT ![e] = FreshToken]
  BY DEF Claim
<1>3. k \in Jobs /\ status[k] = "active" /\ lease[k] # "live" /\ k \notin Overdue
  BY DEF Runnable, Overdue, IInv, TypeOK
<1>4. job[e] = NoJob /\ status' = [i \in Jobs |-> IF i \in Overdue THEN "dead" ELSE status[i]]
  BY DEF Claim
<1>5. CASE j = k
  <2>1. status'[j] = "active" /\ lease'[j] = "live" /\ lockedBy'[j] = FreshToken
    BY <1>2, <1>3, <1>4, <1>5
  <2>2. job'[e] = j /\ token'[e] = FreshToken
    BY <1>2, <1>5 DEF IInv, TypeOK
  <2>3. \A f \in Executors : f # e => token'[f] # FreshToken
    BY <1>1, <1>2 DEF TokensInUse, IInv, TypeOK
  <2>4. Owners'[j] = {e}
    BY <2>1, <2>2, <2>3 DEF Owners, Fenced
  <2>5. Owners[j] = {}
    BY <1>3, <1>5, NotOwned
  <2>6. QED
    BY <1>3, <1>5, <2>1, <2>4, <2>5, RowStepDef
<1>6. CASE j \in Overdue
  <2>1. status[j] = "active" /\ status'[j] = "dead"
    BY <1>4, <1>6 DEF Overdue
  <2>2. QED
    BY <2>1, NotOwnedNext, RowStepDef
<1>7. CASE j # k /\ j \notin Overdue
  <2>1. status'[j] = status[j] /\ lease'[j] = lease[j] /\ lockedBy'[j] = lockedBy[j]
    BY <1>2, <1>4, <1>7
  <2>2. \A f \in Executors : (job'[f] = j <=> job[f] = j) /\ (job[f] = j => token'[f] = token[f])
    BY <1>2, <1>4, <1>7 DEF IInv, TypeOK
  <2>3. QED
    BY <2>1, <2>2, OwnersKept, RowStepDef
<1>8. QED
  BY <1>5, <1>6, <1>7

\* Rows die where no executor keeps a claim that counts.
LEMMA DyingMaps ==
  ASSUME IInv, NEW S \in SUBSET Jobs, \A i \in S : status[i] = "active",
         status' = [i \in Jobs |-> IF i \in S THEN "dead" ELSE status[i]],
         lease' = [i \in Jobs |-> IF i \in S THEN "none" ELSE lease[i]],
         lockedBy' = [i \in Jobs |-> IF i \in S THEN NoToken ELSE lockedBy[i]],
         UNCHANGED <<job, token>>, NEW j \in Jobs
  PROVE  RowStep(j)
<1>1. CASE j \in S
  <2>1. status[j] = "active" /\ status'[j] = "dead"
    BY <1>1
  <2>2. QED
    BY <2>1, NotOwnedNext, RowStepDef
<1>2. CASE j \notin S
  <2>1. status'[j] = status[j] /\ lease'[j] = lease[j] /\ lockedBy'[j] = lockedBy[j]
    BY <1>2
  <2>2. QED
    BY <2>1, OwnersKept, RowStepDef
<1>3. QED
  BY <1>1, <1>2

\* The end of a claim: the owner finishes, releases or buries its job.
LEMMA EndClaimMaps ==
  ASSUME IInv, NEW e \in Executors, NEW s \in {"active", "done", "dead"}, EndClaim(e, s),
         NEW j \in Jobs
  PROVE  RowStep(j)
<1>1. job[e] \in Jobs /\ status[job[e]] = "active" /\ e \in Owners[job[e]]
  BY DEF EndClaim, Fenced, Owners, IInv, TypeOK
<1>2. /\ status' = [status EXCEPT ![job[e]] = s]
      /\ lease' = [lease EXCEPT ![job[e]] = "none"]
      /\ lockedBy' = [lockedBy EXCEPT ![job[e]] = NoToken]
      /\ job' = [job EXCEPT ![e] = NoJob]
      /\ token' = [token EXCEPT ![e] = NoToken]
  BY DEF EndClaim, Unlock, Forget
<1>3. CASE j = job[e]
  <2>1. status[j] = "active" /\ status'[j] = s /\ lease'[j] = "none" /\ Owners[j] # {}
    BY <1>1, <1>2, <1>3 DEF IInv, TypeOK
  <2>2. Owners'[j] = {}
    BY <2>1, NotOwnedNext
  <2>3. QED
    BY <2>1, <2>2, RowStepDef
<1>4. CASE j # job[e]
  <2>1. status'[j] = status[j] /\ lease'[j] = lease[j] /\ lockedBy'[j] = lockedBy[j]
    BY <1>2, <1>4 DEF IInv, TypeOK
  <2>2. \A f \in Executors : (job'[f] = j <=> job[f] = j) /\ (job[f] = j => token'[f] = token[f])
    BY <1>2, <1>4 DEF IInv, TypeOK
  <2>3. QED
    BY <2>1, <2>2, OwnersKept, RowStepDef
<1>5. QED
  BY <1>3, <1>4

LEMMA SuccessorMaps ==
  ASSUME IInv, NEW e \in Executors, CompleteWithSuccessor(e), NEW j \in Jobs
  PROVE  RowStep(j)
<1>1. job[e] \in Jobs /\ status[job[e]] = "active" /\ e \in Owners[job[e]]
  BY DEF CompleteWithSuccessor, Fenced, Owners, IInv, TypeOK
<1>2. PICK k \in Jobs :
          status[k] = "absent" /\ status' = [status EXCEPT ![job[e]] = "done", ![k] = "active"]
  BY DEF CompleteWithSuccessor
<1>3. /\ lease' = [lease EXCEPT ![job[e]] = "none"]
      /\ lockedBy' = [lockedBy EXCEPT ![job[e]] = NoToken]
      /\ job' = [job EXCEPT ![e] = NoJob]
      /\ token' = [token EXCEPT ![e] = NoToken]
  BY DEF CompleteWithSuccessor, Unlock, Forget
<1>4. CASE j = job[e]
  <2>1. status[j] = "active" /\ status'[j] = "done" /\ Owners[j] # {}
    BY <1>1, <1>2, <1>4 DEF IInv, TypeOK
  <2>2. QED
    BY <2>1, NotOwnedNext, RowStepDef
<1>5. CASE j = k
  <2>1. lease[j] = "none" /\ j # job[e]
    BY <1>1, <1>2, <1>5 DEF IInv, LeaseMatchesToken
  <2>2. status[j] = "absent" /\ status'[j] = "active" /\ lease'[j] = "none"
    BY <1>2, <1>3, <1>5, <2>1 DEF IInv, TypeOK
  <2>3. QED
    BY <2>2, NotOwnedNext, RowStepDef
<1>6. CASE j # job[e] /\ j # k
  <2>1. status'[j] = status[j] /\ lease'[j] = lease[j] /\ lockedBy'[j] = lockedBy[j]
    BY <1>2, <1>3, <1>6 DEF IInv, TypeOK
  <2>2. \A f \in Executors : (job'[f] = j <=> job[f] = j) /\ (job[f] = j => token'[f] = token[f])
    BY <1>3, <1>6 DEF IInv, TypeOK
  <2>3. QED
    BY <2>1, <2>2, OwnersKept, RowStepDef
<1>7. QED
  BY <1>4, <1>5, <1>6

\* A lost claim owned nothing; a crash is a release where it did.
LEMMA ForgetMaps ==
  ASSUME IInv, NEW e \in Executors, Forget(e), UNCHANGED row, NEW j \in Jobs
  PROVE  RowStep(j)
<1>1. /\ job' = [job EXCEPT ![e] = NoJob]
      /\ UNCHANGED <<status, lease, lockedBy>>
  BY DEF Forget, row
<1>2. \A f \in Executors : f # e => job'[f] = job[f] /\ token'[f] = token[f]
  BY DEF Forget, IInv, TypeOK
<1>3. job'[e] = NoJob /\ NoJob # j
  BY <1>1 DEF IInv, TypeOK
<1>4. CASE e \notin Owners[j]
  <2>1. Owners'[j] = Owners[j]
    BY <1>1, <1>2, <1>3, <1>4 DEF Owners, Fenced
  <2>2. QED
    BY <1>1, <2>1, RowStepDef
<1>5. CASE e \in Owners[j]
  <2>1. status[j] = "active"
    BY <1>5 DEF Owners, Fenced
  <2>2. \A f \in Executors : f \in Owners[j] => f = e
    BY <1>5, SoleOwnerFromIInv DEF Owners, SoleOwner
  <2>3. Owners'[j] = {}
    BY <1>1, <1>2, <1>3, <2>2 DEF Owners, Fenced
  <2>4. QED
    BY <1>1, <2>1, <2>3, RowStepDef
<1>6. QED
  BY <1>4, <1>5
LEMMA StepMaps ==
  ASSUME IInv, [Next]_vars, NEW j \in Jobs
  PROVE  RowStep(j)
<1>1. ASSUME UNCHANGED <<status, lease, lockedBy, job, token>>
      PROVE  RowStep(j)
  <2>1. Owners'[j] = Owners[j]
    BY <1>1, OwnersKept
  <2>2. QED
    BY <1>1, <2>1, RowStepDef
<1>2. CASE UNCHANGED vars
  BY <1>1, <1>2 DEF vars
<1>3. ASSUME NEW p \in Partitions, Stimulus(p)
      PROVE  RowStep(j)
  <2>1. PICK isManual \in BOOLEAN, now \in BOOLEAN, extend \in BOOLEAN :
            Enqueue(p, isManual, now, extend)
    BY <1>3 DEF Stimulus, EnqueueManual, EnqueueTrigger, EnqueueSettle
  <2>2. CASE \E k \in Jobs : Insert(k, isManual, now)
    BY <2>2, InsertMaps
  <2>3. CASE \E k \in Active(p) : Coalesce(k, isManual, now, extend)
    BY <2>3, <1>1 DEF Coalesce
  <2>4. QED
    BY <2>1, <2>2, <2>3 DEF Enqueue
<1>4. ASSUME NEW p \in Partitions, EraseKills(p)
      PROVE  RowStep(j)
  <2>1. Active(p) \in SUBSET Jobs /\ \A i \in Active(p) : status[i] = "active"
    BY DEF Active
  <2>2. QED
    BY <1>4, <2>1, DyingMaps DEF EraseKills
<1>5. ASSUME NEW k \in Jobs, EnqueueOther(k)
      PROVE  RowStep(j)
  BY <1>5, InsertMaps DEF EnqueueOther
<1>6. ASSUME NEW k \in Jobs, LeaseExpires(k)
      PROVE  RowStep(j)
  <2>1. CASE j = k
    <3>1. status[j] = "active" /\ status'[j] = "active" /\ lease'[j] = "expired"
      BY <1>6, <2>1 DEF LeaseExpires, IInv, LeaseMatchesToken, TypeOK
    <3>2. QED
      BY <3>1, NotOwnedNext, RowStepDef
  <2>2. CASE j # k
    <3>1. Owners'[j] = Owners[j] /\ status'[j] = status[j]
      BY <1>6, <2>2, OwnersKept DEF LeaseExpires, IInv, TypeOK
    <3>2. QED
      BY <3>1, RowStepDef
  <2>3. QED
    BY <2>1, <2>2
<1>7. ASSUME NEW k \in Jobs, ComesDue(k)
      PROVE  RowStep(j)
  BY <1>1, <1>7 DEF ComesDue
<1>8. ASSUME NEW k \in Jobs, RetryDead(k)
      PROVE  RowStep(j)
  <2>1. /\ status[k] = "dead" /\ status' = [status EXCEPT ![k] = "active"]
        /\ lease' = [lease EXCEPT ![k] = "none"]
        /\ lockedBy' = [lockedBy EXCEPT ![k] = NoToken]
        /\ UNCHANGED <<job, token>>
    BY <1>8 DEF RetryDead, Unlock
  <2>2. CASE j = k
    <3>1. status[j] = "dead" /\ status'[j] = "active" /\ lease'[j] = "none"
      BY <2>1, <2>2 DEF IInv, TypeOK
    <3>2. QED
      BY <3>1, NotOwned, NotOwnedNext, RowStepDef
  <2>3. CASE j # k
    <3>1. Owners'[j] = Owners[j] /\ status'[j] = status[j]
      BY <2>1, <2>3, OwnersKept DEF IInv, TypeOK
    <3>2. QED
      BY <3>1, RowStepDef
  <2>4. QED
    BY <2>2, <2>3
<1>9. ASSUME NEW e \in Executors, ClaimNothing(e)
      PROVE  RowStep(j)
  <2>1. Overdue \in SUBSET Jobs /\ \A i \in Overdue : status[i] = "active"
    BY DEF Overdue
  <2>2. QED
    BY <1>9, <2>1, DyingMaps DEF ClaimNothing
<1>10. ASSUME NEW e \in Executors, Outcome(e) \/ Crash(e)
       PROVE  RowStep(j)
  <2>1. CASE Complete(e) \/ Retry(e) \/ DeadLetter(e) \/ ReleaseNotReady(e)
    <3>1. PICK s \in {"active", "done", "dead"} : EndClaim(e, s)
      BY <2>1 DEF Complete, Retry, DeadLetter, ReleaseNotReady
    <3>2. QED
      BY <3>1, EndClaimMaps
  <2>2. CASE LeaseLost(e) \/ Crash(e)
    BY <2>2, ForgetMaps DEF LeaseLost, Crash
  <2>3. QED
    BY <1>10, <2>1, <2>2, SuccessorMaps DEF Outcome
<1>11. QED
  BY <1>2, <1>3, <1>4, <1>5, <1>6, <1>7, <1>8, <1>9, <1>10, ClaimMaps DEF Next

\* The job table implements exclusive, non-transferable ownership: no claim of
\* an owned job, no completion without ownership, no return from done.
THEOREM Implementation == Spec => ImplementsJobLease
<1>1. Init => Ownership!Init
  BY DEF Init, Ownership!Init, Owners, Fenced
<1>2. IInv /\ IInv' /\ [Next]_vars => [Ownership!Next]_<<status, Owners>>
  <2>1. SUFFICES ASSUME IInv, IInv', [Next]_vars
                 PROVE  Ownership!Next
    OBVIOUS
  <2>2. status' \in [Jobs -> Ownership!States]
    BY <2>1 DEF IInv, TypeOK, Status, Ownership!States
  <2>3. Owners' \in [Jobs -> SUBSET Executors]
    BY DEF Owners
  <2>4. QED
    BY <2>1, <2>2, <2>3, StepMaps DEF Ownership!Next, RowStep
<1>3. QED
  BY <1>1, <1>2, Invariance, PTL DEF Spec, ImplementsJobLease, Ownership!Spec, Ownership!vars

-----------------------------------------------------------------------------
(* The manual reason. *)

ManualKept(j) ==
    manual[j] /\ j \in due /\ lease[j] # "live" /\ j \notin due' => status'[j] # "active"

\* No stimulus, claim, erasure or foreign transition moves a runnable manual
\* request into the future (the "manual" test of enqueue_derive_tx).
THEOREM ManualStays == Spec => ManualNotPostponed
<1>1. ASSUME IInv, [Next]_vars, NEW j \in Jobs
      PROVE  ManualKept(j)
  <2>1. ASSUME due \subseteq due'
        PROVE  ManualKept(j)
    BY <2>1 DEF ManualKept
  <2>2. ASSUME NEW S \in SUBSET Jobs, LeaveDue(S), \A i \in S : status'[i] = "dead"
        PROVE  ManualKept(j)
    BY <2>2 DEF ManualKept, LeaveDue
  <2>3. ASSUME NEW e \in Executors, Fenced(e), due \ {job[e]} \subseteq due'
        PROVE  ManualKept(j)
    BY <2>3 DEF ManualKept, Fenced
  <2>4. CASE UNCHANGED vars
    BY <2>1, <2>4 DEF vars
  <2>5. ASSUME NEW p \in Partitions, Stimulus(p)
        PROVE  ManualKept(j)
    <3>1. PICK isManual \in BOOLEAN, now \in BOOLEAN, extend \in BOOLEAN :
              Enqueue(p, isManual, now, extend)
      BY <2>5 DEF Stimulus, EnqueueManual, EnqueueTrigger, EnqueueSettle
    <3>2. CASE \E k \in Jobs : Insert(k, isManual, now)
      BY <2>1, <3>2 DEF Insert, BecomeDue
    <3>3. ASSUME NEW k \in Active(p), Coalesce(k, isManual, now, extend)
          PROVE  ManualKept(j)
      <4>1. CASE due \subseteq due'
        BY <2>1, <4>1
      <4>2. CASE ~manual[k] /\ LeaveDue({k})
        BY <4>2 DEF LeaveDue, ManualKept
      <4>3. QED
        BY <3>3, <4>1, <4>2 DEF Coalesce, Postpone, BecomeDue
    <3>4. QED
      BY <3>1, <3>2, <3>3 DEF Enqueue
  <2>6. ASSUME NEW p \in Partitions, EraseKills(p)
        PROVE  ManualKept(j)
    BY <2>2, <2>6 DEF EraseKills, Active
  <2>7. ASSUME NEW k \in Jobs, EnqueueOther(k) \/ LeaseExpires(k) \/ ComesDue(k) \/ RetryDead(k)
        PROVE  ManualKept(j)
    BY <2>1, <2>7 DEF EnqueueOther, Insert, LeaseExpires, ComesDue, RetryDead, BecomeDue
  <2>8. ASSUME NEW e \in Executors, Claim(e) \/ ClaimNothing(e)
        PROVE  ManualKept(j)
    BY <2>2, <2>8 DEF Claim, ClaimNothing, Overdue
  <2>9. ASSUME NEW e \in Executors, Outcome(e) \/ Crash(e)
        PROVE  ManualKept(j)
    <3>1. CASE LeaseLost(e) \/ Crash(e)
      BY <2>1, <3>1 DEF LeaseLost, Crash, row
    <3>2. CASE CompleteWithSuccessor(e)
      <4>1. Fenced(e) /\ due \ {job[e]} \subseteq due'
        BY <3>2 DEF CompleteWithSuccessor
      <4>2. QED
        BY <2>3, <4>1
    <3>3. CASE Complete(e) \/ Retry(e) \/ DeadLetter(e) \/ ReleaseNotReady(e)
      <4>1. Fenced(e) /\ due \ {job[e]} \subseteq due'
        BY <3>3 DEF Complete, Retry, DeadLetter, ReleaseNotReady, EndClaim, LeaveDue
      <4>2. QED
        BY <2>3, <4>1
    <3>4. QED
      BY <2>9, <3>1, <3>2, <3>3 DEF Outcome
  <2>10. QED
    BY <1>1, <2>4, <2>5, <2>6, <2>7, <2>8, <2>9 DEF Next
<1>2. IInv /\ [Next]_vars => [\A j \in Jobs : ManualKept(j)]_vars
  BY <1>1
<1>3. QED
  BY <1>2, Invariance, PTL DEF Spec, ManualNotPostponed, ManualKept
=============================================================================
