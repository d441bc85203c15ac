--------------------------- MODULE ComputersProofs ----------------------------
(***************************************************************************)
(* The safety properties of Invocations for every number of executors,     *)
(* turns, attempts and revivals, and for every deployment.                 *)
(*                                                                         *)
(* The claim of a job plays no part in the argument: a lease may lapse     *)
(* under an executor at any time.  What keeps two executors apart is that  *)
(* the status leaves "running" only with the executor that put it there,   *)
(* so that whoever starts finds nobody at work.                            *)
(***************************************************************************)
EXTENDS Invocations, Computers, FiniteSetTheorems, SequenceTheorems, TLAPS

AtWork(e) == runner[e].phase = "running"

\* An executor at work finds its invocation running or cancelled meanwhile.
WorkIsCurrent == \A e \in Executors : AtWork(e) => status \in {"running", "cancelled"}

OneAtWork == \A e, f \in Executors : AtWork(e) /\ AtWork(f) => e = f

HearsAll == \A e \in Executors : AtWork(e) /\ status = "running" => runner[e].heard = UserTurns

\* A reply is written only while there is room for its job.
TurnsFit == UserTurns \in Turns

InvocationsInv ==
    /\ InvocationTypes
    /\ WorkIsCurrent /\ OneAtWork /\ HearsAll /\ TurnsFit

USE InvocationsAssumption

-----------------------------------------------------------------------------
(* The journal.                                                            *)

\* Appending a reply adds one to the turns of the user; any other event leaves
\* them.
LEMMA TurnsAppend ==
  ASSUME journal \in Seq(Kinds), NEW kind \in Kinds, Append1(kind)
  PROVE  /\ journal' \in Seq(Kinds)
         /\ kind # "user_turn" => UserTurns' = UserTurns
         /\ kind = "user_turn" => UserTurns' = UserTurns + 1
<1>. DEFINE S == {k \in DOMAIN journal : journal[k] = "user_turn"}
            n == Len(journal) + 1
<1>1. journal' \in Seq(Kinds) /\ Len(journal') = n
  BY DEF Append1
<1>2. DOMAIN journal = 1 .. Len(journal) /\ DOMAIN journal' = 1 .. n /\ Len(journal) \in Nat
  BY <1>1
<1>3. journal'[n] = kind /\ \A k \in 1 .. Len(journal) : journal'[k] = journal[k]
  BY <1>2 DEF Append1
<1>4. CASE kind # "user_turn"
  <2>1. {k \in DOMAIN journal' : journal'[k] = "user_turn"} = S
    BY <1>2, <1>3, <1>4
  <2>. QED
    BY <1>1, <1>4, <2>1 DEF UserTurns
<1>5. CASE kind = "user_turn"
  <2>1. {k \in DOMAIN journal' : journal'[k] = "user_turn"} = S \cup {n}
    BY <1>2, <1>3, <1>5
  <2>2. IsFiniteSet(S)
    <3>1. IsFiniteSet(1 .. Len(journal))
      BY <1>2, FS_Interval
    <3>. QED
      BY <1>2, <3>1, FS_Subset
  <2>3. n \notin S
    BY <1>2
  <2>4. Cardinality(S \cup {n}) = Cardinality(S) + 1
    BY <2>2, <2>3, FS_AddElement
  <2>. QED
    BY <1>1, <1>5, <2>1, <2>4 DEF UserTurns
<1>. QED
  BY <1>4, <1>5

-----------------------------------------------------------------------------
(* Type correctness.                                                       *)

JobTypes == [Turns -> [state : {"none", "active", "done", "dead"}, attempts : 0 .. MaxAttempts,
                       owner : Executors \cup {Nobody}]]
RunnerTypes == [Executors -> [phase : Phases, turn : Turns, final : BOOLEAN, heard : Turns]]

LEMMA RunnerTyped ==
  ASSUME runner \in RunnerTypes, NEW e \in Executors, NEW p \in Phases
  PROVE  /\ [runner EXCEPT ![e].phase = p] \in RunnerTypes
         /\ [runner EXCEPT ![e] = Idle] \in RunnerTypes
         /\ \A h \in Turns : [runner EXCEPT ![e].phase = p, ![e].heard = h] \in RunnerTypes
<1>1. [runner EXCEPT ![e].phase = p] \in RunnerTypes
  BY DEF RunnerTypes
<1>2. [runner EXCEPT ![e] = Idle] \in RunnerTypes
  BY DEF RunnerTypes, Idle, Phases, Turns
<1>3. ASSUME NEW h \in Turns PROVE [runner EXCEPT ![e].phase = p, ![e].heard = h] \in RunnerTypes
  <2>. DEFINE r == [runner EXCEPT ![e].phase = p]
  <2>1. [r EXCEPT ![e].heard = h] \in RunnerTypes
    <3>. HIDE DEF r
    <3>. QED
      BY <1>1 DEF RunnerTypes, r
  <2>2. [runner EXCEPT ![e].phase = p, ![e].heard = h] = [r EXCEPT ![e].heard = h]
    BY Zenon
  <2>. QED
    BY <2>1, <2>2
<1>. QED
  BY <1>1, <1>2, <1>3

LEMMA UnlessCancelledTyped ==
  ASSUME InvocationTypes, TurnsFit, NEW to \in Terminal \cup Runnable,
         NEW kind \in Kinds \ {"user_turn"}, UnlessCancelled(to, kind)
  PROVE  /\ status' \in {"absent", "running"} \cup Runnable \cup Terminal
         /\ journal' \in Seq(Kinds)
         /\ UserTurns' = UserTurns
<1>1. CASE status = "cancelled"
  BY <1>1 DEF UnlessCancelled, InvocationTypes, UserTurns
<1>2. CASE status # "cancelled"
  BY <1>2, TurnsAppend DEF UnlessCancelled, InvocationTypes
<1>. QED
  BY <1>1, <1>2

LEMMA InitInvocations == InvocationsInit => InvocationsInv
<1>. SUFFICES ASSUME InvocationsInit PROVE InvocationsInv
  OBVIOUS
<1>1. InvocationTypes
  BY DEF InvocationsInit, InvocationTypes, Idle, NewJob, Turns, Phases
<1>2. \A e \in Executors : ~AtWork(e)
  BY DEF InvocationsInit, AtWork, Idle
<1>3. UserTurns = 0
  <2>1. {k \in DOMAIN journal : journal[k] = "user_turn"} = {}
    BY DEF InvocationsInit
  <2>. QED
    BY <2>1, FS_EmptySet DEF UserTurns
<1>. QED
  BY <1>1, <1>2, <1>3 DEF InvocationsInv, WorkIsCurrent, OneAtWork, HearsAll, TurnsFit, Turns

-----------------------------------------------------------------------------
(* Invariance: one step per action.                                        *)

Executing(e) == Start(e) \/ Answers(e) \/ Asks(e) \/ Exhausts(e) \/ Refused(e) \/ Interrupted(e)

\* What a step that neither starts nor answers a run does to executors: they
\* stay or rest.
Rests ==
    /\ runner' \in RunnerTypes
    /\ \A e \in Executors : AtWork(e)' => AtWork(e) /\ runner'[e].heard = runner[e].heard

LEMMA ExecutorsRest ==
  ASSUME InvocationsInv, UNCHANGED <<deployment, status, journal, follower>>, Rests,
         job' \in JobTypes, revivals' \in 0 .. MaxRevivals
  PROVE  InvocationsInv'
<1>1. InvocationTypes'
  BY DEF InvocationsInv, InvocationTypes, Rests, RunnerTypes, JobTypes
<1>2. UserTurns' = UserTurns
  BY DEF UserTurns
<1>. QED
  BY <1>1, <1>2 DEF InvocationsInv, WorkIsCurrent, OneAtWork, HearsAll, TurnsFit, Rests

LEMMA RequestsStep ==
  ASSUME InvocationsInv, Create \/ CancelInvocation \/ Continue
  PROVE  InvocationsInv'
<1>. USE DEF InvocationsInv
<1>r. UNCHANGED <<deployment, runner, follower, revivals>>
  BY DEF Create, CancelInvocation, Continue
<1>w. \A e \in Executors : AtWork(e)' <=> AtWork(e)
  BY <1>r DEF AtWork
<1>t. /\ journal \in Seq(Kinds) /\ job \in JobTypes /\ UserTurns \in Nat
      /\ deployment.turns \in 0 .. MaxTurns
  BY DEF InvocationTypes, JobTypes, TurnsFit, Turns
<1>1. CASE Create
  <2>1. status' = "queued" /\ journal' \in Seq(Kinds) /\ UserTurns' = UserTurns
    BY <1>1, <1>t, TurnsAppend DEF Create, Kinds
  <2>2. job' \in JobTypes
    BY <1>1, <1>t DEF Create, JobTypes, NewJob, Turns
  <2>3. \A e \in Executors : ~AtWork(e)
    BY <1>1 DEF Create, WorkIsCurrent
  <2>. QED
    BY <1>r, <1>w, <2>1, <2>2, <2>3
    DEF InvocationTypes, JobTypes, WorkIsCurrent, OneAtWork, HearsAll, TurnsFit, Runnable
<1>2. CASE CancelInvocation
  <2>1. status' = "cancelled" /\ journal' \in Seq(Kinds) /\ UserTurns' = UserTurns /\ job' = job
    BY <1>2, <1>t, TurnsAppend DEF CancelInvocation, Kinds
  <2>. QED
    BY <1>r, <1>w, <2>1
    DEF InvocationTypes, WorkIsCurrent, OneAtWork, HearsAll, TurnsFit, Terminal
<1>3. CASE Continue
  <2>1. status' = "queued" /\ journal' \in Seq(Kinds) /\ UserTurns' = UserTurns + 1
    BY <1>3, <1>t, TurnsAppend DEF Continue, Kinds
  <2>2. UserTurns + 1 \in Turns
    BY <1>3, <1>t DEF Continue, Turns
  <2>3. job' \in JobTypes
    BY <1>3, <1>t, <2>2 DEF Continue, JobTypes, NewJob
  <2>4. \A e \in Executors : ~AtWork(e)
    BY <1>3 DEF Continue, WorkIsCurrent
  <2>. QED
    BY <1>r, <1>w, <2>1, <2>2, <2>3, <2>4
    DEF InvocationTypes, JobTypes, WorkIsCurrent, OneAtWork, HearsAll, TurnsFit, Runnable
<1>. QED
  BY <1>1, <1>2, <1>3

LEMMA JobsStep ==
  ASSUME InvocationsInv, NEW n \in Turns,
         \/ ReviveInvocationJob(n) \/ ReapInvocation(n) \/ LeaseLapses(n)
         \/ \E e \in Executors : ClaimInvocation(e, n)
  PROVE  InvocationsInv'
<1>t. /\ job \in JobTypes /\ runner \in RunnerTypes /\ revivals \in 0 .. MaxRevivals
      /\ deployment.revivals \in 0 .. MaxRevivals
  BY DEF InvocationsInv, InvocationTypes, JobTypes, RunnerTypes
<1>1. CASE ReviveInvocationJob(n)
  <2>1. job' \in JobTypes /\ revivals' \in 0 .. MaxRevivals
    BY <1>1, <1>t DEF ReviveInvocationJob, JobTypes, NewJob
  <2>. QED
    BY <1>1, <1>t, <2>1, ExecutorsRest DEF ReviveInvocationJob, Rests, AtWork
<1>2. CASE ReapInvocation(n) \/ LeaseLapses(n)
  <2>1. job' \in JobTypes
    BY <1>2, <1>t DEF ReapInvocation, LeaseLapses, JobTypes
  <2>. QED
    BY <1>2, <1>t, <2>1, ExecutorsRest DEF ReapInvocation, LeaseLapses, Rests, AtWork
<1>3. ASSUME NEW e \in Executors, ClaimInvocation(e, n) PROVE InvocationsInv'
  <2>1. job' \in JobTypes
    <3>. DEFINE claimed == [job[n] EXCEPT !.owner = e, !.attempts = @ + 1]
    <3>1. job' = [job EXCEPT ![n] = claimed]
      BY <1>3, <1>t DEF ClaimInvocation, JobTypes
    <3>2. job[n].attempts + 1 \in 0 .. MaxAttempts
      <4>1. job[n].attempts \in 0 .. MaxAttempts
        BY <1>t DEF JobTypes
      <4>2. job[n].attempts < MaxAttempts
        BY <1>3 DEF ClaimInvocation
      <4>. QED
        BY <4>1, <4>2
    <3>3. claimed \in [state : {"none", "active", "done", "dead"}, attempts : 0 .. MaxAttempts,
                       owner : Executors \cup {Nobody}]
      BY <1>t, <3>2 DEF JobTypes
    <3>. HIDE DEF claimed
    <3>. QED
      BY <1>t, <3>1, <3>3 DEF JobTypes
  <2>2. runner' \in RunnerTypes /\ \A f \in Executors : AtWork(f)' => f # e /\ runner'[f] = runner[f]
    <3>. DEFINE claims == [Idle EXCEPT !.phase = "claimed", !.turn = n,
                                       !.final = job[n].attempts + 1 >= MaxAttempts]
    <3>1. runner' = [runner EXCEPT ![e] = claims]
      BY <1>3 DEF ClaimInvocation
    <3>. DEFINE R == [phase : Phases, turn : Turns, final : BOOLEAN, heard : Turns]
    <3>2. ASSUME NEW b \in BOOLEAN
          PROVE  /\ [Idle EXCEPT !.phase = "claimed", !.turn = n, !.final = b] \in R
                 /\ [Idle EXCEPT !.phase = "claimed", !.turn = n, !.final = b].phase = "claimed"
      <4>1. Idle \in R
        BY DEF Idle, Phases, Turns
      <4>. QED
        BY <4>1 DEF Phases
    <3>3. (job[n].attempts + 1 >= MaxAttempts) \in BOOLEAN
      OBVIOUS
    <3>4. /\ claims \in R
          /\ claims.phase = "claimed"
      BY <3>2, <3>3, Zenon
    <3>. HIDE DEF claims
    <3>. QED
      BY <1>t, <3>1, <3>4 DEF RunnerTypes, AtWork
  <2>. QED
    BY <1>3, <1>t, <2>1, <2>2, ExecutorsRest DEF ClaimInvocation, Rests, AtWork
<1>. QED
  BY <1>1, <1>2, <1>3

LEMMA SettlementsStep ==
  ASSUME InvocationsInv, NEW e \in Executors, Abandon(e) \/ RunnerDies(e) \/ SettleJob(e)
  PROVE  InvocationsInv'
<1>t. job \in JobTypes /\ runner \in RunnerTypes /\ revivals \in 0 .. MaxRevivals
  BY DEF InvocationsInv, InvocationTypes, JobTypes, RunnerTypes
<1>1. runner' = [runner EXCEPT ![e] = Idle] /\ UNCHANGED <<deployment, status, journal, follower, revivals>>
  BY DEF Abandon, RunnerDies, SettleJob
<1>2. job' \in JobTypes
  <2>1. CASE Abandon(e) \/ RunnerDies(e)
    BY <1>t, <2>1 DEF Abandon, RunnerDies
  <2>2. CASE SettleJob(e)
    BY <1>t, <2>2 DEF SettleJob, JobTypes, RunnerTypes
  <2>. QED
    BY <2>1, <2>2
<1>3. Rests
  BY <1>t, <1>1, RunnerTyped DEF Rests, AtWork, RunnerTypes, Idle, Phases
<1>. QED
  BY <1>t, <1>1, <1>2, <1>3, ExecutorsRest

\* An executor that ends its run leaves nobody at work, and a status that is
\* not "running".
LEMMA EndsWork ==
  ASSUME InvocationsInv, NEW e \in Executors, AtWork(e), NEW p \in Phases \ {"running"}, Goes(e, p),
         UNCHANGED <<deployment, job, follower, revivals>>,
         status' \in {"absent", "running"} \cup Runnable \cup Terminal, journal' \in Seq(Kinds),
         UserTurns' = UserTurns
  PROVE  InvocationsInv'
<1>t. runner \in RunnerTypes
  BY DEF InvocationsInv, InvocationTypes, RunnerTypes
<1>1. runner' \in RunnerTypes
  BY <1>t, RunnerTyped DEF Goes
<1>2. \A f \in Executors : ~AtWork(f)'
  <2>. SUFFICES ASSUME NEW f \in Executors, AtWork(f)' PROVE FALSE
    OBVIOUS
  <2>1. f # e /\ AtWork(f)
    BY <1>t DEF Goes, AtWork, RunnerTypes
  <2>. QED
    BY <2>1 DEF InvocationsInv, OneAtWork
<1>3. InvocationTypes'
  BY <1>1 DEF InvocationsInv, InvocationTypes, RunnerTypes
<1>. QED
  BY <1>2, <1>3 DEF InvocationsInv, WorkIsCurrent, OneAtWork, HearsAll, TurnsFit

LEMMA ExecutionStep ==
  ASSUME InvocationsInv, NEW e \in Executors, Executing(e)
  PROVE  InvocationsInv'
<1>t. /\ journal \in Seq(Kinds) /\ runner \in RunnerTypes /\ InvocationTypes /\ TurnsFit
      /\ WorkIsCurrent /\ UserTurns \in Turns
      /\ status \in {"absent", "running"} \cup Runnable \cup Terminal
  BY DEF InvocationsInv, InvocationTypes, RunnerTypes, TurnsFit
<1>1. CASE Start(e)
  <2>1. CASE runner' = [runner EXCEPT ![e].phase = "complete"] \/ runner' = [runner EXCEPT ![e].phase = "bury"]
    <3>1. Rests
      <4>1. runner' \in RunnerTypes
        BY <1>t, <2>1, RunnerTyped DEF Phases
      <4>2. ASSUME NEW f \in Executors, AtWork(f)' PROVE runner'[f] = runner[f]
        BY <1>t, <2>1, <4>2 DEF AtWork, RunnerTypes
      <4>. QED
        BY <4>1, <4>2 DEF Rests, AtWork
    <3>2. job' \in JobTypes /\ revivals' \in 0 .. MaxRevivals /\ UNCHANGED <<deployment, follower>>
      BY <1>1, <1>t DEF Start, InvocationTypes, JobTypes
    <3>3. CASE UNCHANGED <<status, journal>>
      BY <3>1, <3>2, <3>3, ExecutorsRest
    <3>4. CASE runner' = [runner EXCEPT ![e].phase = "running", ![e].heard = UserTurns]
      <4>1. runner'[e].phase = "running"
        BY <1>t, <3>4 DEF RunnerTypes
      <4>2. runner'[e].phase \in {"complete", "bury"}
        BY <1>t, <2>1 DEF RunnerTypes
      <4>. QED
        BY <4>1, <4>2
    <3>. QED
      BY <1>1, <3>3, <3>4 DEF Start
  <2>2. CASE /\ status \in Runnable /\ status' = "running" /\ Append1("started")
             /\ runner' = [runner EXCEPT ![e].phase = "running", ![e].heard = UserTurns]
    <3>1. journal' \in Seq(Kinds) /\ UserTurns' = UserTurns
      BY <1>t, <2>2, TurnsAppend DEF Kinds
    <3>2. runner' \in RunnerTypes
      BY <1>t, <2>2, RunnerTyped DEF Phases
    <3>3. \A f \in Executors : ~AtWork(f)
      BY <1>t, <2>2 DEF WorkIsCurrent, Runnable
    <3>4. \A f \in Executors : AtWork(f)' => f = e
      BY <1>t, <2>2, <3>3 DEF AtWork, RunnerTypes
    <3>5. runner'[e].heard = UserTurns'
      BY <1>t, <2>2, <3>1 DEF RunnerTypes
    <3>6. InvocationTypes'
      BY <1>1, <1>t, <2>2, <3>1, <3>2 DEF InvocationTypes, RunnerTypes, Start
    <3>. QED
      BY <1>t, <2>2, <3>1, <3>4, <3>5, <3>6
      DEF InvocationsInv, WorkIsCurrent, OneAtWork, HearsAll, TurnsFit
  <2>. QED
    BY <1>1, <2>1, <2>2 DEF Start, Goes
<1>a. ASSUME NEW to \in Terminal \cup Runnable, NEW kind \in Kinds \ {"user_turn"}, AtWork(e),
             UnlessCancelled(to, kind), NEW p \in Phases \ {"running"}, Goes(e, p),
             UNCHANGED <<deployment, job, follower, revivals>>
      PROVE  InvocationsInv'
  BY <1>t, <1>a, UnlessCancelledTyped, EndsWork
<1>2. CASE Answers(e)
  BY <1>2, <1>a DEF Answers, Answer, AtWork, Terminal, Kinds, Phases
<1>3. CASE Asks(e)
  BY <1>3, <1>a DEF Asks, Answer, AtWork, Runnable, Kinds, Phases
<1>4. CASE Exhausts(e)
  BY <1>4, <1>a DEF Exhausts, AtWork, Terminal, Kinds, Phases
<1>5. CASE Refused(e)
  BY <1>5, <1>a DEF Refused, AtWork, Terminal, Kinds, Phases
<1>6. CASE Interrupted(e)
  <2>1. AtWork(e) /\ UNCHANGED <<deployment, job, follower, revivals>>
    BY <1>6 DEF Interrupted, AtWork
  <2>2. CASE runner[e].final
    BY <1>6, <1>a, <2>1, <2>2 DEF Interrupted, Terminal, Kinds, Phases
  <2>3. CASE ~runner[e].final
    <3>1. CASE status = "running"
      <4>1. status' = "queued" /\ journal' \in Seq(Kinds) /\ UserTurns' = UserTurns
        BY <1>6, <1>t, <2>3, <3>1, TurnsAppend DEF Interrupted, Kinds
      <4>. QED
        BY <1>6, <2>1, <2>3, <4>1, EndsWork DEF Interrupted, Phases, Runnable
    <3>2. CASE status # "running"
      <4>1. UNCHANGED <<status, journal>>
        BY <1>6, <2>3, <3>2 DEF Interrupted
      <4>. QED
        BY <1>6, <1>t, <2>1, <2>3, <4>1, EndsWork DEF Interrupted, Phases, UserTurns
    <3>. QED
      BY <3>1, <3>2
  <2>. QED
    BY <2>2, <2>3
<1>. QED
  BY <1>1, <1>2, <1>3, <1>4, <1>5, <1>6 DEF Executing

LEMMA FollowerStep ==
  ASSUME InvocationsInv, ReadPage \/ ReadStatus
  PROVE  InvocationsInv'
<1>1. UNCHANGED <<deployment, status, journal, job, runner, revivals>>
  BY DEF ReadPage, ReadStatus
<1>2. follower' \in [cursor : Nat, fresh : BOOLEAN, at : {"page", "status", "closed"}]
  <2>1. /\ follower \in [cursor : Nat, fresh : BOOLEAN, at : {"page", "status", "closed"}]
        /\ Len(journal) \in Nat
    BY DEF InvocationsInv, InvocationTypes
  <2>2. CASE ReadPage
    BY <2>1, <2>2 DEF ReadPage
  <2>3. CASE ReadStatus
    BY <2>1, <2>3 DEF ReadStatus
  <2>. QED
    BY <2>2, <2>3
<1>. QED
  BY <1>1, <1>2 DEF InvocationsInv, InvocationTypes, WorkIsCurrent, OneAtWork, HearsAll, TurnsFit,
                    UserTurns, AtWork

LEMMA StepInvocations == InvocationsInv /\ [InvocationsNext]_invocationVars => InvocationsInv'
<1>. SUFFICES ASSUME InvocationsInv, [InvocationsNext]_invocationVars PROVE InvocationsInv'
  OBVIOUS
<1>1. CASE UNCHANGED invocationVars
  BY <1>1 DEF invocationVars, InvocationsInv, InvocationTypes, WorkIsCurrent, OneAtWork, HearsAll,
              TurnsFit, UserTurns, AtWork
<1>2. CASE InvocationsNext
  BY <1>2, RequestsStep, JobsStep, SettlementsStep, ExecutionStep, FollowerStep
  DEF InvocationsNext, Executing
<1>. QED
  BY <1>1, <1>2

\* The inductive invariant: at most one executor is at work, on an invocation
\* that runs or was cancelled meanwhile, and it has heard every reply.
THEOREM InvocationsInvariance == InvocationsSpec => []InvocationsInv
  BY InitInvocations, StepInvocations, PTL DEF InvocationsSpec

-----------------------------------------------------------------------------
(* What follows from it.                                                   *)

\* However leases lapse, processes die and jobs are revived, at most one
\* executor is at work on an invocation, and what it works on includes every
\* reply of its user as long as its answer counts: the status check of
\* execute_invocation is enough (invocations.py).
THEOREM SoleExecutor == InvocationsSpec => []SoleRun
<1>1. InvocationsInv => SoleRun
  <2>. SUFFICES ASSUME InvocationsInv PROVE SoleRun
    OBVIOUS
  <2>. DEFINE S == {e \in Executors : runner[e].phase = "running"}
  <2>1. Cardinality(S) <= 1
    <3>1. CASE S = {}
      BY <3>1, FS_EmptySet
    <3>2. ASSUME NEW e \in S PROVE Cardinality(S) <= 1
      <4>1. S = {e}
        BY <3>2 DEF InvocationsInv, OneAtWork, AtWork
      <4>2. Cardinality({e}) = 1
        BY FS_Singleton
      <4>3. Cardinality(S) = 1
        BY <4>1, <4>2, Zenon
      <4>. QED
        BY <4>3
    <3>. QED
      BY <3>1, <3>2
  <2>. QED
    BY <2>1 DEF InvocationsInv, SoleRun, HearsAll, AtWork
<1>. QED
  BY <1>1, InvocationsInvariance, PTL

\* An executor that comes late cannot change a final status or add to the
\* journal, although it guards only against a cancellation: it is alone, and
\* nothing else but a cancellation ends a run (_complete_invocation,
\* _fail_invocation).
THEOREM FinalStatusStands == InvocationsSpec => FinalIsFinal
<1>1. InvocationsInv /\ [InvocationsNext]_invocationVars
        => [(status \in Terminal) => UNCHANGED <<status, journal>>]_invocationVars
  <2>. SUFFICES ASSUME InvocationsInv, InvocationsNext, status \in Terminal
                PROVE  UNCHANGED <<status, journal>>
    BY DEF invocationVars
  <2>1. CASE Create \/ CancelInvocation \/ Continue
    BY <2>1 DEF Create, CancelInvocation, Continue, Terminal
  <2>2. ASSUME NEW n \in Turns,
               \/ ReviveInvocationJob(n) \/ ReapInvocation(n) \/ LeaseLapses(n)
               \/ \E e \in Executors : ClaimInvocation(e, n)
        PROVE  UNCHANGED <<status, journal>>
    BY <2>2 DEF ReviveInvocationJob, ReapInvocation, LeaseLapses, ClaimInvocation
  <2>3. ASSUME NEW e \in Executors, Abandon(e) \/ RunnerDies(e) \/ SettleJob(e)
        PROVE  UNCHANGED <<status, journal>>
    BY <2>3 DEF Abandon, RunnerDies, SettleJob
  <2>4. ASSUME NEW e \in Executors, Executing(e) PROVE UNCHANGED <<status, journal>>
    <3>1. CASE Start(e)
      BY <3>1 DEF Start, Terminal, Runnable
    <3>2. CASE AtWork(e)
      <4>1. status = "cancelled"
        BY <3>2 DEF InvocationsInv, WorkIsCurrent, Terminal
      <4>. QED
        BY <2>4, <3>1, <4>1 DEF Executing, Answers, Asks, Answer, Exhausts, Refused, Interrupted,
                                UnlessCancelled
    <3>. QED
      BY <2>4, <3>1, <3>2 DEF Executing, Answers, Asks, Answer, Exhausts, Refused, Interrupted, AtWork
  <2>5. CASE ReadPage \/ ReadStatus
    BY <2>5 DEF ReadPage, ReadStatus
  <2>. QED
    BY <2>1, <2>2, <2>3, <2>4, <2>5 DEF InvocationsNext, Executing
<1>. QED
  BY <1>1, InvocationsInvariance, PTL DEF InvocationsSpec, FinalIsFinal

HIDE InvocationsAssumption
-----------------------------------------------------------------------------
(*****************************************************************************)
(* What invocations take for their answers, and what their sessions hold,    *)
(* for every number of requests and preserved paths, in every deployment.    *)
(*                                                                           *)
(* Nothing locks a session.  A run that read the context of another finds    *)
(* it there still, for the context of a session only ever becomes that of    *)
(* a run that is at work; so what a run compares when it has acted shows     *)
(* that it saw its own.  Where nothing is lost a work has one run that is    *)
(* not over, and that one the task knows.                                    *)
(*****************************************************************************)
TaskTypes ==
    [status : {"new", "queued", "running", "asked", "answered", "failed"},
     replies : 0 .. MaxReplies, run : 0 .. MaxRuns, answer : Responses \cup {NoAnswer}]
RunTypes ==
    [phase : RunPhases, request : Requests, copied : 0 .. Len(Preserved),
     before : {<<>>} \cup Protections, answer : Responses \cup {NoAnswer}]
SessionTypes ==
    [files : [Paths -> 0 .. MaxRuns], outbox : SUBSET RunIds, results : SUBSET Works,
     context : Requests \cup {NoRequest}, inputs : SUBSET Requests, marked : BOOLEAN,
     cache : SUBSET (Responses \X Requests)]

WorkOf(r) == runs[r].request.work

\* A task knows its run, and its answer is one to what it asked.
TaskHolds(w) ==
    /\ tasks[w].status = "running" <=> tasks[w].run # None
    /\ tasks[w].run # None =>
        /\ tasks[w].run \in DOMAIN runs
        /\ WorkOf(tasks[w].run) = w /\ runs[tasks[w].run].request.replies = tasks[w].replies
    /\ Settled(w) => tasks[w].answer.for.work = w /\ tasks[w].answer.for.replies = tasks[w].replies

\* A run that has an answer has one to its request; its session has a context.
RunHolds(r) ==
    /\ runs[r].phase \in {"read", "acted", "valid", "collected", "returning"} =>
        runs[r].answer \in Responses /\ runs[r].answer.for = runs[r].request
    /\ runs[r].phase \in {"context", "working", "read", "acted"} => Here(r).context # NoRequest
    /\ runs[r].phase = "sent" => runs[r].copied = 0
    /\ Local => runs[r].phase \in {"sent", "working", "read", "valid", "returning", "failed", "gone"}

CacheHolds(s) == \A c \in sessions[s].cache : c[1].for = c[2]

\* Where nothing is lost, a work has one run that is not over.
Sole(r) == (Local \/ ~world.lossy) /\ runs[r].phase # "gone" => tasks[WorkOf(r)].run = r

\* A run that read the context of another one finds it there still.
SawOwn(r) ==
    ~Local /\ ~world.lossy =>
        /\ runs[r].phase \in {"read", "acted"} =>
            runs[r].answer.saw = runs[r].request \/ Here(r).context # runs[r].request
        /\ runs[r].phase \in {"valid", "collected", "returning"} =>
            runs[r].answer.saw = runs[r].request

CacheSawOwn(s) == ~Local /\ ~world.lossy => \A c \in sessions[s].cache : c[1].saw = c[1].for

\* Works that do not overlap: the second has the first behind it.
Follows ==
    ~world.overlaps /\ tasks[2].status # "new" =>
        /\ tasks[1].status \in {"answered", "failed"}
        /\ \A r \in DOMAIN runs : WorkOf(r) = 1 => runs[r].phase = "gone"

SecondBegun ==
    /\ \A r \in DOMAIN runs : WorkOf(r) = 2 => tasks[2].status # "new"
    /\ sessions["child"].marked => tasks[2].status # "new" /\ world.kind = "fork"

Inherited(p) == sessions["parent"].files[p] # 0 => sessions["child"].files[p] # 0

\* A fork has what it has copied.
ForkHolds(r) ==
    runs[r].phase = "forking" =>
        /\ HasParent(r)
        /\ ~world.overlaps => \A k \in 1 .. runs[r].copied : Inherited(Preserved[k])

\* A local run finds its own entries and no others.
OutboxHolds(r) ==
    Local /\ ~world.overlaps =>
        /\ runs[r].phase \in {"working", "read", "valid"} => Here(r).outbox \subseteq {r}
        /\ runs[r].phase = "returning" => runs[r].answer.outbox \subseteq {r}

OwnEntries(w) ==
    Local /\ ~world.overlaps /\ Settled(w) =>
        \A r \in tasks[w].answer.outbox : r \in DOMAIN runs /\ WorkOf(r) = w

ComputersInv ==
    /\ ComputerTypes /\ Len(runs) <= world.most
    /\ \A w \in Works : TaskHolds(w)
    /\ \A r \in DOMAIN runs : RunHolds(r) /\ Sole(r) /\ SawOwn(r) /\ ForkHolds(r) /\ OutboxHolds(r)
    /\ \A s \in {"parent", "child"} : CacheHolds(s) /\ CacheSawOwn(s)
    /\ Follows /\ SecondBegun
    /\ ~Local /\ ~world.lossy => ContextHeld
    /\ ~world.overlaps /\ sessions["child"].marked => ForkInherits
    /\ \A w \in Works : OwnEntries(w)
-----------------------------------------------------------------------------
(* Types, and what a run or a session becomes.                             *)

Sessions == {"parent", "child"}

LEMMA ComputerTyped ==
  ASSUME ComputerTypes
  PROVE  /\ world \in Worlds /\ world.most \in RunIds /\ MaxRuns \in Nat /\ evidence \in Versions
         /\ Len(runs) \in Nat /\ DOMAIN runs = 1 .. Len(runs) /\ runs \in [1 .. Len(runs) -> RunTypes]
         /\ \A r \in DOMAIN runs : runs[r] \in RunTypes /\ Session(r) \in Sessions
         /\ sessions \in [Sessions -> SessionTypes] /\ tasks \in [Works -> TaskTypes]
         /\ Len(Preserved) \in Nat /\ DOMAIN Preserved = 1 .. Len(Preserved)
<1>1. runs \in Seq(RunTypes)
  BY DEF ComputerTypes, RunTypes
<1>2. sessions \in [Sessions -> SessionTypes] /\ tasks \in [Works -> TaskTypes]
      /\ world \in Worlds /\ evidence \in Versions
  BY DEF ComputerTypes, SessionTypes, TaskTypes, Sessions
<1>3. world.most \in RunIds /\ MaxRuns \in Nat /\ Preserved \in Seq(STRING)
  BY <1>2, ComputersAssumption
<1>. HIDE DEF RunTypes
<1>4. Len(runs) \in Nat /\ DOMAIN runs = 1 .. Len(runs) /\ runs \in [1 .. Len(runs) -> RunTypes]
      /\ \A r \in DOMAIN runs : runs[r] \in RunTypes
  BY <1>1
<1>5. Len(Preserved) \in Nat /\ DOMAIN Preserved = 1 .. Len(Preserved)
  BY <1>3
<1>6. \A r : Session(r) \in Sessions
  BY DEF Session, SessionOf, Sessions
<1>. QED
  BY <1>2, <1>3, <1>4, <1>5, <1>6

LEMMA RunFields ==
  ASSUME NEW run \in RunTypes
  PROVE  /\ run.phase \in RunPhases /\ run.request \in Requests
         /\ run.copied \in 0 .. Len(Preserved) /\ run.before \in {<<>>} \cup Protections
         /\ run.answer \in Responses \cup {NoAnswer}
         /\ run.request.work \in Works /\ run.request # NoRequest
  BY DEF RunTypes, Requests, NoRequest, Works, None

LEMMA RunMade ==
  ASSUME NEW phase \in RunPhases, NEW request \in Requests, NEW copied \in 0 .. Len(Preserved),
         NEW before \in {<<>>} \cup Protections, NEW answer \in Responses \cup {NoAnswer}
  PROVE  [phase |-> phase, request |-> request, copied |-> copied, before |-> before,
          answer |-> answer] \in RunTypes
  BY DEF RunTypes

\* One run of a sequence of them changes.
RunWith(run, phase, copied, before, answer) ==
    [phase |-> phase, request |-> run.request, copied |-> copied, before |-> before,
     answer |-> answer]
Changed(r, phase, copied, before, answer) ==
    [runs EXCEPT ![r] = RunWith(runs[r], phase, copied, before, answer)]

LEMMA RunChanged ==
  ASSUME ComputerTypes, NEW r \in DOMAIN runs, NEW phase \in RunPhases,
         NEW copied \in 0 .. Len(Preserved), NEW before \in {<<>>} \cup Protections,
         NEW answer \in Responses \cup {NoAnswer},
         runs' = Changed(r, phase, copied, before, answer)
  PROVE  /\ runs' \in Seq(RunTypes) /\ Len(runs') = Len(runs) /\ DOMAIN runs' = DOMAIN runs
         /\ \A q \in DOMAIN runs : q # r => runs'[q] = runs[q]
         /\ \A q \in DOMAIN runs : runs'[q].request = runs[q].request
         /\ runs'[r].phase = phase /\ runs'[r].copied = copied /\ runs'[r].before = before
         /\ runs'[r].answer = answer
<1>. DEFINE new == [phase |-> phase, request |-> runs[r].request, copied |-> copied,
                    before |-> before, answer |-> answer]
<1>1. new \in RunTypes
  BY ComputerTyped, RunFields, RunMade, Zenon
<1>2. runs' = [runs EXCEPT ![r] = new]
  BY DEF Changed, RunWith
<1>3. new.phase = phase /\ new.copied = copied /\ new.before = before /\ new.answer = answer
      /\ new.request = runs[r].request
  OBVIOUS
<1>. HIDE DEF new
<1>4. /\ Len(runs) \in Nat /\ DOMAIN runs = 1 .. Len(runs) /\ runs \in [1 .. Len(runs) -> RunTypes]
  BY ComputerTyped
<1>5. runs' \in [1 .. Len(runs) -> RunTypes]
      /\ runs'[r] = new /\ \A q \in DOMAIN runs : q # r => runs'[q] = runs[q]
  BY <1>1, <1>2, <1>4
<1>6. runs' \in Seq(RunTypes) /\ Len(runs') = Len(runs) /\ DOMAIN runs' = DOMAIN runs
  BY <1>4, <1>5
<1>. QED
  BY <1>3, <1>5, <1>6

LEMMA RunAnswered ==
  ASSUME NEW run \in RunTypes, NEW phase, NEW a
  PROVE  /\ [run EXCEPT !.phase = phase, !.answer = a] = RunWith(run, phase, run.copied, run.before, a)
         /\ [run EXCEPT !.answer = a, !.phase = phase] = RunWith(run, phase, run.copied, run.before, a)
<1>. USE DEF RunWith
<1>. DEFINE one == [run EXCEPT !.phase = phase]
            two == [run EXCEPT !.answer = a]
<1>1. one = RunWith(run, phase, run.copied, run.before, run.answer)
  BY DEF RunTypes
<1>2. two = RunWith(run, run.phase, run.copied, run.before, a)
  BY DEF RunTypes
<1>3. [run EXCEPT !.phase = phase, !.answer = a] = [one EXCEPT !.answer = a]
  OBVIOUS
<1>4. [run EXCEPT !.answer = a, !.phase = phase] = [two EXCEPT !.phase = phase]
  OBVIOUS
<1>. HIDE DEF one, two
<1>5. [one EXCEPT !.answer = a] = RunWith(run, phase, run.copied, run.before, a)
  BY <1>1
<1>6. [two EXCEPT !.phase = phase] = RunWith(run, phase, run.copied, run.before, a)
  BY <1>2
<1>. HIDE DEF RunWith
<1>. QED
  BY <1>3, <1>4, <1>5, <1>6, Zenon

LEMMA RunEdited ==
  ASSUME NEW run \in RunTypes, NEW phase, NEW x
  PROVE  /\ [run EXCEPT !.phase = phase] = RunWith(run, phase, run.copied, run.before, run.answer)
         /\ [run EXCEPT !.copied = x] = RunWith(run, run.phase, x, run.before, run.answer)
         /\ [run EXCEPT !.phase = phase, !.before = x] = RunWith(run, phase, run.copied, x, run.answer)
         /\ Ended(run, phase) = RunWith(run, phase, 0, <<>>, NoAnswer)
<1>. USE DEF RunWith
<1>. DEFINE one == [run EXCEPT !.phase = phase]
            three == [one EXCEPT !.copied = 0]
            four == [three EXCEPT !.before = <<>>]
<1>1. one = RunWith(run, phase, run.copied, run.before, run.answer)
  BY DEF RunTypes
<1>3. [run EXCEPT !.copied = x] = RunWith(run, run.phase, x, run.before, run.answer)
  BY DEF RunTypes
<1>5. [run EXCEPT !.phase = phase, !.before = x] = [one EXCEPT !.before = x]
  OBVIOUS
<1>7. Ended(run, phase) = [four EXCEPT !.answer = NoAnswer]
  BY DEF Ended
<1>. HIDE DEF one
<1>8. /\ [one EXCEPT !.before = x] = RunWith(run, phase, run.copied, x, run.answer)
      /\ three = RunWith(run, phase, 0, run.before, run.answer)
  BY <1>1
<1>. HIDE DEF three
<1>10. four = RunWith(run, phase, 0, <<>>, run.answer)
  BY <1>8
<1>. HIDE DEF four
<1>11. [four EXCEPT !.answer = NoAnswer] = RunWith(run, phase, 0, <<>>, NoAnswer)
  BY <1>10
<1>. HIDE DEF RunWith
<1>. QED
  BY <1>1, <1>3, <1>5, <1>7, <1>8, <1>11, Zenon DEF one

LEMMA AnswerUpdate ==
  ASSUME ComputerTypes, NEW r \in DOMAIN runs, NEW phase, NEW x
  PROVE  [runs EXCEPT ![r].phase = phase, ![r].answer = x] =
            Changed(r, phase, runs[r].copied, runs[r].before, x)
<1>1. runs[r] \in RunTypes /\ runs \in [1 .. Len(runs) -> RunTypes] /\ r \in 1 .. Len(runs)
  BY ComputerTyped
<1>2. [runs EXCEPT ![r].phase = phase, ![r].answer = x] =
            [runs EXCEPT ![r] = [runs[r] EXCEPT !.phase = phase, !.answer = x]]
  BY <1>1
<1>3. [runs[r] EXCEPT !.phase = phase, !.answer = x] =
            RunWith(runs[r], phase, runs[r].copied, runs[r].before, x)
  BY <1>1, RunAnswered, Zenon
<1>. QED
  BY <1>2, <1>3 DEF Changed

LEMMA AsksUpdate ==
  ASSUME ComputerTypes, NEW r \in DOMAIN runs, NEW phase, NEW x
  PROVE  [runs EXCEPT ![r].answer.asks = x, ![r].phase = phase] =
            Changed(r, phase, runs[r].copied, runs[r].before, [runs[r].answer EXCEPT !.asks = x])
<1>1. runs[r] \in RunTypes /\ runs \in [1 .. Len(runs) -> RunTypes] /\ r \in 1 .. Len(runs)
  BY ComputerTyped
<1>. DEFINE asks == [runs[r].answer EXCEPT !.asks = x]
<1>2. [runs EXCEPT ![r].answer.asks = x, ![r].phase = phase] =
            [runs EXCEPT ![r] = [runs[r] EXCEPT !.answer = asks, !.phase = phase]]
  BY <1>1
<1>. HIDE DEF asks
<1>3. [runs[r] EXCEPT !.answer = asks, !.phase = phase] =
            RunWith(runs[r], phase, runs[r].copied, runs[r].before, asks)
  BY <1>1, RunAnswered, Zenon
<1>4. Changed(r, phase, runs[r].copied, runs[r].before, asks) =
            [runs EXCEPT ![r] = [runs[r] EXCEPT !.answer = asks, !.phase = phase]]
  BY <1>3 DEF Changed
<1>. QED
  BY <1>2, <1>4 DEF asks

LEMMA OutboxUpdate ==
  ASSUME ComputerTypes, NEW r \in DOMAIN runs, NEW phase, NEW x
  PROVE  [runs EXCEPT ![r].phase = phase, ![r].answer.outbox = x] =
            Changed(r, phase, runs[r].copied, runs[r].before, [runs[r].answer EXCEPT !.outbox = x])
<1>1. runs[r] \in RunTypes /\ runs \in [1 .. Len(runs) -> RunTypes] /\ r \in 1 .. Len(runs)
  BY ComputerTyped
<1>. DEFINE outbox == [runs[r].answer EXCEPT !.outbox = x]
<1>2. [runs EXCEPT ![r].phase = phase, ![r].answer.outbox = x] =
            [runs EXCEPT ![r] = [runs[r] EXCEPT !.phase = phase, !.answer = outbox]]
  BY <1>1
<1>. HIDE DEF outbox
<1>3. [runs[r] EXCEPT !.phase = phase, !.answer = outbox] =
            RunWith(runs[r], phase, runs[r].copied, runs[r].before, outbox)
  BY <1>1, RunAnswered, Zenon
<1>4. Changed(r, phase, runs[r].copied, runs[r].before, outbox) =
            [runs EXCEPT ![r] = [runs[r] EXCEPT !.phase = phase, !.answer = outbox]]
  BY <1>3 DEF Changed
<1>. QED
  BY <1>2, <1>4 DEF outbox

LEMMA RunUpdates ==
  ASSUME ComputerTypes, NEW r \in DOMAIN runs, NEW phase, NEW x
  PROVE  /\ [runs EXCEPT ![r].phase = phase] =
                Changed(r, phase, runs[r].copied, runs[r].before, runs[r].answer)
         /\ [runs EXCEPT ![r].copied = x] =
                Changed(r, runs[r].phase, x, runs[r].before, runs[r].answer)
         /\ [runs EXCEPT ![r].phase = phase, ![r].before = x] =
                Changed(r, phase, runs[r].copied, x, runs[r].answer)
         /\ [runs EXCEPT ![r] = Ended(@, phase)] = Changed(r, phase, 0, <<>>, NoAnswer)
<1>1. runs[r] \in RunTypes /\ runs \in [1 .. Len(runs) -> RunTypes] /\ r \in 1 .. Len(runs)
  BY ComputerTyped
<1>. USE DEF Changed
<1>2. [runs EXCEPT ![r].phase = phase] =
            Changed(r, phase, runs[r].copied, runs[r].before, runs[r].answer)
  <2>1. [runs EXCEPT ![r].phase = phase] = [runs EXCEPT ![r] = [runs[r] EXCEPT !.phase = phase]]
    BY <1>1
  <2>. QED
    BY <1>1, <2>1, RunEdited
<1>3. [runs EXCEPT ![r].copied = x] =
            Changed(r, runs[r].phase, x, runs[r].before, runs[r].answer)
  <2>1. [runs EXCEPT ![r].copied = x] = [runs EXCEPT ![r] = [runs[r] EXCEPT !.copied = x]]
    BY <1>1
  <2>. QED
    BY <1>1, <2>1, RunEdited
<1>5. [runs EXCEPT ![r].phase = phase, ![r].before = x] =
            Changed(r, phase, runs[r].copied, x, runs[r].answer)
  <2>1. [runs EXCEPT ![r].phase = phase, ![r].before = x] =
            [runs EXCEPT ![r] = [runs[r] EXCEPT !.phase = phase, !.before = x]]
    BY <1>1
  <2>2. [runs[r] EXCEPT !.phase = phase, !.before = x] =
            RunWith(runs[r], phase, runs[r].copied, x, runs[r].answer)
    BY <1>1, RunEdited, Zenon
  <2>. QED
    BY <2>1, <2>2
<1>8. [runs EXCEPT ![r] = Ended(@, phase)] = Changed(r, phase, 0, <<>>, NoAnswer)
  BY <1>1, RunEdited
<1>. QED
  BY <1>2, <1>3, <1>5, <1>8, Zenon
\* One session changes.
SessionWith(files, outbox, results, context, inputs, marked, cache) ==
    [files |-> files, outbox |-> outbox, results |-> results, context |-> context,
     inputs |-> inputs, marked |-> marked, cache |-> cache]

LEMMA SessionFields ==
  ASSUME NEW s \in SessionTypes
  PROVE  /\ s.files \in [Paths -> 0 .. MaxRuns] /\ s.outbox \in SUBSET RunIds
         /\ s.results \in SUBSET Works /\ s.context \in Requests \cup {NoRequest}
         /\ s.inputs \in SUBSET Requests /\ s.marked \in BOOLEAN
         /\ s.cache \in SUBSET (Responses \X Requests)
  BY DEF SessionTypes

LEMMA SessionMade ==
  ASSUME NEW files \in [Paths -> 0 .. MaxRuns], NEW outbox \in SUBSET RunIds,
         NEW results \in SUBSET Works, NEW context \in Requests \cup {NoRequest},
         NEW inputs \in SUBSET Requests, NEW marked \in BOOLEAN,
         NEW cache \in SUBSET (Responses \X Requests)
  PROVE  SessionWith(files, outbox, results, context, inputs, marked, cache) \in SessionTypes
  BY DEF SessionTypes, SessionWith

LEMMA SessionFound ==
  ASSUME NEW files, NEW outbox, NEW results, NEW context, NEW inputs, NEW marked, NEW cache
  PROVE  LET s == SessionWith(files, outbox, results, context, inputs, marked, cache) IN
         /\ s.files = files /\ s.outbox = outbox /\ s.context = context /\ s.marked = marked
         /\ s.cache = cache
  BY DEF SessionWith

LEMMA SessionPut ==
  ASSUME ComputerTypes, NEW s \in Sessions, NEW new \in SessionTypes,
         sessions' = [sessions EXCEPT ![s] = new]
  PROVE  /\ sessions' \in [Sessions -> SessionTypes] /\ sessions'[s] = new
         /\ \A o \in Sessions : o # s => sessions'[o] = sessions[o]
<1>1. sessions \in [Sessions -> SessionTypes]
  BY ComputerTyped
<1>. QED
  BY <1>1

LEMMA SessionEdited ==
  ASSUME NEW s \in SessionTypes, NEW x
  PROVE  /\ [s EXCEPT !.files = x] =
                SessionWith(x, s.outbox, s.results, s.context, s.inputs, s.marked, s.cache)
         /\ [s EXCEPT !.results = x] =
                SessionWith(s.files, s.outbox, x, s.context, s.inputs, s.marked, s.cache)
         /\ [s EXCEPT !.marked = x] =
                SessionWith(s.files, s.outbox, s.results, s.context, s.inputs, x, s.cache)
         /\ [s EXCEPT !.cache = x] =
                SessionWith(s.files, s.outbox, s.results, s.context, s.inputs, s.marked, x)
         /\ [s EXCEPT !.context = x] =
                SessionWith(s.files, s.outbox, s.results, x, s.inputs, s.marked, s.cache)
  BY DEF SessionTypes, SessionWith

LEMMA SessionWritten ==
  ASSUME NEW s \in SessionTypes, NEW x, NEW y
  PROVE  [s EXCEPT !.files = x, !.outbox = y] =
            SessionWith(x, y, s.results, s.context, s.inputs, s.marked, s.cache)
<1>. DEFINE one == [s EXCEPT !.files = x]
<1>1. [s EXCEPT !.files = x, !.outbox = y] = [one EXCEPT !.outbox = y]
  OBVIOUS
<1>2. one = SessionWith(x, s.outbox, s.results, s.context, s.inputs, s.marked, s.cache)
  BY SessionEdited
<1>. HIDE DEF one
<1>3. [one EXCEPT !.outbox = y] =
            SessionWith(x, y, s.results, s.context, s.inputs, s.marked, s.cache)
  BY <1>2 DEF SessionWith
<1>. QED
  BY <1>1, <1>3, Zenon

LEMMA SessionRenewed ==
  ASSUME NEW s \in SessionTypes, NEW q
  PROVE  /\ WithContext(s, q) =
            SessionWith(s.files, s.outbox, s.results, q,
                        {i \in s.inputs : i.work # q.work} \cup {q}, s.marked, s.cache)
         /\ [s EXCEPT !.context = q, !.inputs = {q}, !.outbox = {}, !.results = {}] =
            SessionWith(s.files, {}, {}, q, {q}, s.marked, s.cache)
<1>. DEFINE one == [s EXCEPT !.context = q]
            two == [one EXCEPT !.inputs = {q}]
            three == [two EXCEPT !.outbox = {}]
            others == {i \in s.inputs : i.work # q.work} \cup {q}
<1>1. WithContext(s, q) = [one EXCEPT !.inputs = others]
  BY DEF WithContext
<1>2. [s EXCEPT !.context = q, !.inputs = {q}, !.outbox = {}, !.results = {}]
            = [three EXCEPT !.results = {}]
  OBVIOUS
<1>3. one = SessionWith(s.files, s.outbox, s.results, q, s.inputs, s.marked, s.cache)
  BY SessionEdited
<1>. HIDE DEF one, others
<1>4. /\ [one EXCEPT !.inputs = others] =
            SessionWith(s.files, s.outbox, s.results, q, others, s.marked, s.cache)
      /\ two = SessionWith(s.files, s.outbox, s.results, q, {q}, s.marked, s.cache)
  BY <1>3 DEF SessionWith
<1>. HIDE DEF two
<1>5. three = SessionWith(s.files, {}, s.results, q, {q}, s.marked, s.cache)
  BY <1>4 DEF SessionWith
<1>. HIDE DEF three
<1>6. [three EXCEPT !.results = {}] = SessionWith(s.files, {}, {}, q, {q}, s.marked, s.cache)
  BY <1>5 DEF SessionWith
<1>7. WithContext(s, q) = SessionWith(s.files, s.outbox, s.results, q, others, s.marked, s.cache)
  BY <1>1, <1>4, Zenon
<1>8. [s EXCEPT !.context = q, !.inputs = {q}, !.outbox = {}, !.results = {}] =
            SessionWith(s.files, {}, {}, q, {q}, s.marked, s.cache)
  BY <1>2, <1>6, Zenon
<1>. QED
  BY <1>7, <1>8, Zenon DEF others

-----------------------------------------------------------------------------
(* A step of one run.                                                      *)

\* It is the one run that changes.
Moves(r) ==
    /\ world' = world /\ tasks' = tasks /\ evidence' = evidence
    /\ runs[r].phase # "gone"
    /\ runs' \in Seq(RunTypes) /\ Len(runs') = Len(runs) /\ DOMAIN runs' = DOMAIN runs
    /\ \A q \in DOMAIN runs : q # r => runs'[q] = runs[q]
    /\ \A q \in DOMAIN runs : runs'[q].request = runs[q].request

\* What it may do to its session.
Touches(r) ==
    LET old == sessions[Session(r)]
        new == sessions'[Session(r)] IN
    /\ sessions' \in [Sessions -> SessionTypes]
    /\ \A o \in Sessions : o # Session(r) => sessions'[o] = sessions[o]
    /\ new.context \in {old.context, runs[r].request}
    /\ \A p \in Paths : old.files[p] # 0 => new.files[p] # 0
    /\ \A c \in new.cache :
        c \in old.cache \/ (c[1].for = c[2] /\ (~Local /\ ~world.lossy => c[1].saw = c[1].for))
    /\ new.marked => old.marked \/ (HasParent(r) /\ (~world.overlaps => ForkInherits'))

\* Where nothing is lost, runs of the same work are the same.
LEMMA SoleRuns ==
  ASSUME ComputersInv, NEW r \in DOMAIN runs, NEW q \in DOMAIN runs,
         Local \/ ~world.lossy, runs[r].phase # "gone", runs[q].phase # "gone",
         WorkOf(r) = WorkOf(q)
  PROVE  r = q
  BY DEF ComputersInv, Sole

\* A run at work has the second session for itself, once the first work is over.
LEMMA SecondAlone ==
  ASSUME ComputersInv, NEW r \in DOMAIN runs, runs[r].phase # "gone",
         ~world.overlaps, tasks[2].status # "new"
  PROVE  WorkOf(r) = 2
<1>1. WorkOf(r) \in Works
  BY ComputerTyped, RunFields DEF ComputersInv, WorkOf
<1>. QED
  BY <1>1 DEF ComputersInv, Follows, Works

LEMMA ChildOf ==
  ASSUME ComputersInv, NEW r \in DOMAIN runs
  PROVE  /\ HasParent(r) <=> WorkOf(r) = 2 /\ world.kind = "fork"
         /\ HasParent(r) => tasks[2].status # "new"
         /\ ~HasParent(r) => Session(r) = "parent"
<1>1. HasParent(r) <=> WorkOf(r) = 2 /\ world.kind = "fork"
  BY DEF HasParent, Session, SessionOf, WorkOf
<1>2. ~HasParent(r) => Session(r) = "parent"
  BY DEF HasParent, Session, SessionOf
<1>. QED
  BY <1>1, <1>2 DEF ComputersInv, SecondBegun

LEMMA RunStep ==
  ASSUME ComputersInv, NEW r \in DOMAIN runs, Moves(r), Touches(r),
         RunHolds(r)', SawOwn(r)', ForkHolds(r)', OutboxHolds(r)'
  PROVE  ComputersInv'
<1>1. ComputerTypes /\ Len(runs) <= world.most
  BY DEF ComputersInv
<1>2. /\ world' = world /\ tasks' = tasks /\ evidence' = evidence /\ (Local' <=> Local)
      /\ DOMAIN runs' = DOMAIN runs /\ Len(runs') = Len(runs) /\ runs' \in Seq(RunTypes)
  BY DEF Moves, Local
<1>3. \A q \in DOMAIN runs : WorkOf(q)' = WorkOf(q) /\ Session(q)' = Session(q)
  BY <1>2 DEF Moves, WorkOf, Session, SessionOf
<1>4. /\ runs[r].phase # "gone" /\ runs[r].request \in Requests /\ runs[r].request # NoRequest
      /\ \A q \in DOMAIN runs : q # r => runs'[q] = runs[q]
      /\ \A q \in DOMAIN runs : WorkOf(q) \in Works
  BY <1>1, ComputerTyped, RunFields DEF Moves, WorkOf
<1>5. /\ sessions' \in [Sessions -> SessionTypes]
      /\ \A o \in Sessions : o # Session(r) => sessions'[o] = sessions[o]
      /\ Session(r) \in Sessions
  BY <1>1, ComputerTyped DEF Touches
<1>6. ComputerTypes'
  BY <1>1, <1>2, <1>5 DEF ComputerTypes, SessionTypes, RunTypes, Sessions
<1>7. ASSUME NEW w \in Works PROVE TaskHolds(w)' /\ OwnEntries(w)'
  <2>1. TaskHolds(w) /\ OwnEntries(w)
    BY DEF ComputersInv
  <2>2. TaskHolds(w)'
    BY <1>2, <1>3, <2>1 DEF TaskHolds, Moves, Settled
  <2>3. OwnEntries(w)'
    BY <1>2, <1>3, <2>1 DEF OwnEntries, Settled
  <2>. QED
    BY <2>2, <2>3
\* Another run in the session of r.
<1>8. ASSUME NEW q \in DOMAIN runs, q # r
      PROVE  RunHolds(q)' /\ Sole(q)' /\ SawOwn(q)' /\ ForkHolds(q)' /\ OutboxHolds(q)'
  <2>1. RunHolds(q) /\ Sole(q) /\ SawOwn(q) /\ ForkHolds(q) /\ OutboxHolds(q)
    BY DEF ComputersInv
  <2>2. runs'[q] = runs[q] /\ WorkOf(q)' = WorkOf(q) /\ Session(q)' = Session(q)
    BY <1>3, <1>4, <1>8
  <2>3. Session(q) \in Sessions
    BY <1>1, ComputerTyped
  <2>4. Here(q)'.context \in {Here(q).context, runs[r].request}
    BY <1>5, <2>2, <2>3 DEF Here, Touches
  <2>5. RunHolds(q)'
    BY <1>2, <1>4, <2>1, <2>2, <2>4 DEF RunHolds
  <2>6. Sole(q)'
    BY <1>2, <2>1, <2>2 DEF Sole
  <2>7. SawOwn(q)'
    <3>1. ~world.lossy /\ runs[q].phase # "gone" => runs[r].request # runs[q].request
      BY <1>4, <1>8, SoleRuns DEF WorkOf
    <3>. QED
      BY <1>2, <2>1, <2>2, <2>4, <3>1 DEF SawOwn
  <2>8. ForkHolds(q)'
    <3>. SUFFICES ASSUME runs[q].phase = "forking" PROVE ForkHolds(q)'
      BY <2>2 DEF ForkHolds
    <3>1. HasParent(q) /\ tasks[2].status # "new" /\ world.kind = "fork"
      BY <2>1, ChildOf DEF ForkHolds
    <3>2. ASSUME ~world.overlaps, NEW k \in 1 .. runs[q].copied PROVE Inherited(Preserved[k])'
      <4>1. Session(r) = "child"
        BY <1>4, <3>1, <3>2, SecondAlone, ChildOf DEF HasParent
      <4>2. sessions'["parent"] = sessions["parent"]
        BY <1>5, <4>1 DEF Sessions
      <4>3. Preserved[k] \in Paths
        <5>1. runs[q] \in RunTypes
          BY <1>1, ComputerTyped
        <5>2. runs[q].copied \in 0 .. Len(Preserved)
          BY <5>1, RunFields
        <5>3. k \in DOMAIN Preserved
          BY <1>1, <5>2, ComputerTyped
        <5>. QED
          BY <5>3 DEF Paths
      <4>4. Inherited(Preserved[k])
        BY <2>1, <3>2 DEF ForkHolds
      <4>. QED
        BY <4>1, <4>2, <4>3, <4>4 DEF Inherited, Touches
    <3>. QED
      BY <1>2, <2>2, <3>1, <3>2 DEF ForkHolds, HasParent
  <2>9. OutboxHolds(q)'
    <3>. SUFFICES ASSUME Local, ~world.overlaps, runs[q].phase # "gone" PROVE FALSE
      BY <1>2, <2>2 DEF OutboxHolds
    <3>1. WorkOf(q) # WorkOf(r)
      BY <1>4, <1>8, SoleRuns
    <3>2. tasks[2].status # "new"
      BY <1>4, <3>1 DEF ComputersInv, SecondBegun, Works
    <3>. QED
      BY <1>4, <3>1, <3>2, SecondAlone
  <2>. QED
    BY <2>5, <2>6, <2>7, <2>8, <2>9
<1>9. Sole(r)'
  BY <1>2, <1>3, <1>4 DEF ComputersInv, Sole
<1>10. ASSUME NEW s \in Sessions PROVE CacheHolds(s)' /\ CacheSawOwn(s)'
  <2>1. CacheHolds(s) /\ CacheSawOwn(s)
    BY DEF ComputersInv, Sessions
  <2>. QED
    BY <1>2, <1>5, <2>1 DEF CacheHolds, CacheSawOwn, Touches
<1>11. Follows'
  <2>. SUFFICES ASSUME ~world.overlaps, tasks[2].status # "new" PROVE Follows'
    BY <1>2 DEF Follows
  <2>1. WorkOf(r) = 2
    BY <1>4, SecondAlone
  <2>2. Follows
    BY DEF ComputersInv
  <2>. QED
    BY <1>2, <1>3, <1>4, <2>1, <2>2 DEF Follows
\* The child session is marked.
<1>12. ASSUME sessions'["child"].marked
       PROVE  /\ tasks[2].status # "new" /\ world.kind = "fork"
              /\ ~world.overlaps => ForkInherits'
  <2>1. CASE sessions["child"].marked
    <3>1. /\ tasks[2].status # "new" /\ world.kind = "fork"
          /\ ~world.overlaps => ForkInherits
      BY <2>1 DEF ComputersInv, SecondBegun
    <3>2. ASSUME ~world.overlaps PROVE ForkInherits'
      <4>1. Session(r) = "child"
        BY <1>4, <3>1, <3>2, SecondAlone, ChildOf DEF HasParent
      <4>2. sessions'["parent"] = sessions["parent"]
        BY <1>5, <4>1 DEF Sessions
      <4>. QED
        BY <3>1, <3>2, <4>1, <4>2 DEF ForkInherits, Touches
    <3>. QED
      BY <3>1, <3>2
  <2>2. CASE ~sessions["child"].marked
    <3>1. Session(r) = "child"
      BY <1>5, <1>12, <2>2 DEF Sessions
    <3>2. HasParent(r)
      BY <3>1 DEF HasParent
    <3>. QED
      BY <1>12, <2>2, <3>1, <3>2, ChildOf DEF Touches
  <2>. QED
    BY <2>1, <2>2
<1>13. SecondBegun'
  BY <1>2, <1>3, <1>12 DEF ComputersInv, SecondBegun
<1>14. ContextHeld' <=> ContextHeld
  BY <1>2 DEF ContextHeld, Settled
<1>15. \A q \in DOMAIN runs' : RunHolds(q)' /\ Sole(q)' /\ SawOwn(q)' /\ ForkHolds(q)' /\ OutboxHolds(q)'
  BY <1>2, <1>8, <1>9
<1>. QED
  BY <1>1, <1>2, <1>6, <1>7, <1>10, <1>11, <1>12, <1>13, <1>14, <1>15 DEF ComputersInv, Sessions

LEMMA MoveFacts ==
  ASSUME ComputersInv, NEW r \in DOMAIN runs, NEW phase \in RunPhases,
         NEW copied \in 0 .. Len(Preserved), NEW before \in {<<>>} \cup Protections,
         NEW answer \in Responses \cup {NoAnswer}, runs[r].phase # "gone",
         UNCHANGED <<world, tasks, evidence>>, runs' = Changed(r, phase, copied, before, answer)
  PROVE  /\ Moves(r) /\ runs'[r].phase = phase /\ runs'[r].copied = copied
         /\ runs'[r].answer = answer /\ runs'[r].request = runs[r].request
         /\ Session(r)' = Session(r) /\ Here(r)' = sessions'[Session(r)] /\ (Local' <=> Local)
         /\ (HasParent(r)' <=> HasParent(r)) /\ world' = world
<1>1. ComputerTypes
  BY DEF ComputersInv
<1>2. /\ runs' \in Seq(RunTypes) /\ Len(runs') = Len(runs) /\ DOMAIN runs' = DOMAIN runs
      /\ \A q \in DOMAIN runs : q # r => runs'[q] = runs[q]
      /\ \A q \in DOMAIN runs : runs'[q].request = runs[q].request
      /\ runs'[r].phase = phase /\ runs'[r].copied = copied /\ runs'[r].answer = answer
  BY <1>1, RunChanged
<1>3. Session(r)' = Session(r) /\ (Local' <=> Local)
  BY <1>2 DEF Session, SessionOf, Local
<1>. QED
  BY <1>2, <1>3 DEF Moves, Here, HasParent

\* What a run knows of itself.
LEMMA RunKnows ==
  ASSUME ComputersInv, NEW r \in DOMAIN runs
  PROVE  /\ runs[r].phase \in RunPhases /\ runs[r].request \in Requests
         /\ runs[r].copied \in 0 .. Len(Preserved) /\ runs[r].before \in {<<>>} \cup Protections
         /\ runs[r].answer \in Responses \cup {NoAnswer} /\ runs[r].request # NoRequest
         /\ Session(r) \in Sessions /\ Here(r) \in SessionTypes /\ sessions[Session(r)] = Here(r)
         /\ r \in RunIds /\ r # 0
         /\ RunHolds(r) /\ SawOwn(r) /\ ForkHolds(r) /\ OutboxHolds(r)
         /\ CacheHolds(Session(r)) /\ CacheSawOwn(Session(r))
<1>1. ComputerTypes /\ Len(runs) <= world.most
  BY DEF ComputersInv
<1>2. runs[r] \in RunTypes /\ Session(r) \in Sessions /\ sessions \in [Sessions -> SessionTypes]
      /\ r \in 1 .. Len(runs) /\ Len(runs) \in Nat /\ world.most \in 1 .. MaxRuns /\ MaxRuns \in Nat
  BY <1>1, ComputerTyped DEF RunIds
<1>3. Here(r) \in SessionTypes /\ sessions[Session(r)] = Here(r)
  BY <1>2 DEF Here
<1>4. r \in RunIds /\ r # 0
  BY <1>1, <1>2 DEF RunIds
<1>5. RunHolds(r) /\ SawOwn(r) /\ ForkHolds(r) /\ OutboxHolds(r)
  BY DEF ComputersInv
<1>6. CacheHolds(Session(r)) /\ CacheSawOwn(Session(r))
  BY <1>2 DEF ComputersInv, Sessions
<1>. QED
  BY <1>2, <1>3, <1>4, <1>5, <1>6, RunFields

LEMMA Stays ==
  ASSUME ComputersInv, NEW r \in DOMAIN runs, sessions' = sessions
  PROVE  Touches(r)
<1>1. sessions \in [Sessions -> SessionTypes]
  BY ComputerTyped DEF ComputersInv
<1>. QED
  BY <1>1 DEF Touches

-----------------------------------------------------------------------------
(* The runs of the runtime.                                                *)

LEMMA OpensStep ==
  ASSUME ComputersInv, NEW r, Opens(r)
  PROVE  ComputersInv'
<1>. DEFINE phase == IF HasParent(r) /\ ~Here(r).marked THEN "forking" ELSE "open"
<1>1. r \in DOMAIN runs /\ runs[r].phase = "sent" /\ ~Local /\ phase \in RunPhases
      /\ UNCHANGED <<world, tasks, evidence>> /\ sessions' = sessions
  BY DEF Opens, At, RunPhases
<1>2. runs' = [runs EXCEPT ![r].phase = phase]
  BY DEF Opens
<1>3. phase = "forking" => HasParent(r)
  OBVIOUS
<1>4. phase \in {"forking", "open"}
  OBVIOUS
<1>. HIDE DEF phase
<1>5. runs' = Changed(r, phase, runs[r].copied, runs[r].before, runs[r].answer)
  BY <1>1, <1>2, RunUpdates DEF ComputersInv
<1>6. /\ Moves(r) /\ runs'[r].phase = phase /\ runs'[r].copied = runs[r].copied
      /\ (Local' <=> Local) /\ (HasParent(r)' <=> HasParent(r))
  <2>1. /\ runs[r].copied \in 0 .. Len(Preserved) /\ runs[r].before \in {<<>>} \cup Protections
        /\ runs[r].answer \in Responses \cup {NoAnswer} /\ runs[r].phase # "gone"
    BY <1>1, RunKnows
  <2>. QED
    BY <1>1, <1>5, <2>1, MoveFacts, Zenon
<1>7. runs[r].copied = 0
  BY <1>1, RunKnows DEF RunHolds
<1>8. RunHolds(r)' /\ SawOwn(r)' /\ OutboxHolds(r)'
  BY <1>1, <1>4, <1>6 DEF RunHolds, SawOwn, OutboxHolds
<1>9. ForkHolds(r)'
  <2>1. 1 .. runs'[r].copied = {}
    BY <1>6, <1>7
  <2>. QED
    BY <1>3, <1>6, <2>1 DEF ForkHolds
<1>. QED
  BY <1>1, <1>6, <1>8, <1>9, Stays, RunStep

LEMMA CopiesStep ==
  ASSUME ComputersInv, NEW r, Copies(r)
  PROVE  ComputersInv'
<1>. DEFINE p == Preserved[runs[r].copied + 1]
            child == sessions["child"]
            copy == IF sessions["parent"].files[p] = 0 THEN child.files[p] ELSE sessions["parent"].files[p]
            files == [child.files EXCEPT ![p] = copy]
<1>1. r \in DOMAIN runs /\ runs[r].phase = "forking" /\ UNCHANGED <<world, tasks, evidence>>
      /\ runs[r].copied < Len(Preserved) /\ "forking" \in RunPhases
  BY DEF Copies, At, RunPhases
<1>2. /\ runs[r].copied + 1 \in 0 .. Len(Preserved) /\ p \in Paths
      /\ runs[r].copied \in Nat
  <2>1. runs[r].copied \in 0 .. Len(Preserved) /\ Len(Preserved) \in Nat
        /\ DOMAIN Preserved = 1 .. Len(Preserved)
    BY <1>1, RunKnows, ComputerTyped DEF ComputersInv
  <2>2. runs[r].copied + 1 \in DOMAIN Preserved
    BY <1>1, <2>1
  <2>. QED
    BY <1>1, <2>1, <2>2 DEF Paths
<1>3. HasParent(r) /\ Session(r) = "child"
  BY <1>1, RunKnows DEF ForkHolds, HasParent
<1>4. child \in SessionTypes /\ sessions["parent"] \in SessionTypes
      /\ sessions \in [Sessions -> SessionTypes] /\ "child" \in Sessions /\ "parent" \in Sessions
  BY ComputerTyped DEF ComputersInv, Sessions
<1>5. child.files \in [Paths -> 0 .. MaxRuns] /\ sessions["parent"].files \in [Paths -> 0 .. MaxRuns]
  BY <1>4, SessionFields
<1>. HIDE DEF p, child
<1>6. files \in [Paths -> 0 .. MaxRuns] /\ files[p] = copy /\ \A o \in Paths : o # p => files[o] = child.files[o]
  BY <1>2, <1>5
<1>7. sessions' = [sessions EXCEPT !["child"] = [child EXCEPT !.files = files]]
  <2>1. sessions' = [sessions EXCEPT !["child"].files[p] = copy]
    BY DEF Copies, p, child
  <2>. QED
    BY <1>4, <2>1 DEF child
<1>. HIDE DEF copy, files
<1>8. /\ sessions' \in [Sessions -> SessionTypes]
      /\ \A o \in Sessions : o # "child" => sessions'[o] = sessions[o]
      /\ sessions'["child"].files = files
      /\ sessions'["child"].context = child.context /\ sessions'["child"].marked = child.marked
      /\ sessions'["child"].cache = child.cache
  <2>1. [child EXCEPT !.files = files] \in SessionTypes
    BY <1>4, <1>6 DEF SessionTypes
  <2>2. ComputerTypes
    BY DEF ComputersInv
  <2>3. sessions'["child"] = [child EXCEPT !.files = files]
    BY <1>4, <1>7
  <2>4. /\ sessions' \in [Sessions -> SessionTypes]
        /\ \A o \in Sessions : o # "child" => sessions'[o] = sessions[o]
    BY <1>4, <1>7, <2>1
  <2>. QED
    BY <1>4, <2>3, <2>4 DEF SessionTypes
<1>9. copy # 0 <=> child.files[p] # 0 \/ sessions["parent"].files[p] # 0
  <2>1. CASE sessions["parent"].files[p] = 0
    BY <2>1 DEF copy
  <2>2. CASE sessions["parent"].files[p] # 0
    BY <2>2 DEF copy
  <2>. QED
    BY <2>1, <2>2
<1>10. \A o \in Paths : child.files[o] # 0 => files[o] # 0
  BY <1>6, <1>9
<1>11. Touches(r)
  BY <1>3, <1>8, <1>10 DEF Touches, child
<1>12. runs' = Changed(r, "forking", runs[r].copied + 1, runs[r].before, runs[r].answer)
  <2>1. runs' = [runs EXCEPT ![r].copied = runs[r].copied + 1]
    BY <1>1, ComputerTyped DEF Copies, ComputersInv
  <2>2. ComputerTypes
    BY DEF ComputersInv
  <2>3. [runs EXCEPT ![r].copied = runs[r].copied + 1] =
            Changed(r, runs[r].phase, runs[r].copied + 1, runs[r].before, runs[r].answer)
    BY <1>1, <2>2, RunUpdates
  <2>. QED
    BY <1>1, <2>1, <2>3
<1>13. /\ Moves(r) /\ runs'[r].phase = "forking" /\ runs'[r].copied = runs[r].copied + 1
       /\ (Local' <=> Local) /\ (HasParent(r)' <=> HasParent(r)) /\ world' = world
  <2>1. /\ runs[r].before \in {<<>>} \cup Protections /\ runs[r].answer \in Responses \cup {NoAnswer}
        /\ runs[r].phase # "gone"
    BY <1>1, RunKnows
  <2>. QED
    BY <1>1, <1>2, <1>12, <2>1, MoveFacts, Zenon
<1>14. RunHolds(r)' /\ SawOwn(r)' /\ OutboxHolds(r)'
  <2>1. ~Local
    BY <1>1, RunKnows DEF RunHolds
  <2>. QED
    BY <1>13, <2>1 DEF RunHolds, SawOwn, OutboxHolds
<1>15. ForkHolds(r)'
  <2>1. ASSUME ~world.overlaps, NEW k \in 1 .. runs'[r].copied PROVE Inherited(Preserved[k])'
    <3>0. sessions'["parent"] = sessions["parent"]
      BY <1>4, <1>8
    <3>1. CASE k = runs[r].copied + 1
      BY <1>6, <1>8, <1>9, <3>0, <3>1 DEF Inherited, p
    <3>2. CASE k # runs[r].copied + 1
      <4>1. k \in 1 .. runs[r].copied
        BY <1>2, <1>13, <3>2
      <4>2. Inherited(Preserved[k])
        BY <1>1, <2>1, <4>1, RunKnows DEF ForkHolds
      <4>3. Preserved[k] \in Paths
        <5>1. Len(Preserved) \in Nat /\ DOMAIN Preserved = 1 .. Len(Preserved)
          BY ComputerTyped DEF ComputersInv
        <5>2. k \in DOMAIN Preserved
          BY <1>1, <1>2, <4>1, <5>1
        <5>. QED
          BY <5>2 DEF Paths
      <4>. QED
        BY <1>8, <1>10, <3>0, <4>2, <4>3 DEF Inherited, child
    <3>. QED
      BY <3>1, <3>2
  <2>. QED
    BY <1>3, <1>13, <2>1 DEF ForkHolds
<1>. QED
  BY <1>1, <1>11, <1>13, <1>14, <1>15, RunStep

LEMMA RunGoes ==
  ASSUME ComputersInv, NEW r \in DOMAIN runs, NEW phase \in RunPhases,
         NEW answer \in Responses \cup {NoAnswer}, runs[r].phase # "gone",
         UNCHANGED <<world, tasks, evidence>>,
         runs' = Changed(r, phase, runs[r].copied, runs[r].before, answer)
  PROVE  /\ Moves(r) /\ runs'[r].phase = phase /\ runs'[r].copied = runs[r].copied
         /\ runs'[r].answer = answer /\ runs'[r].request = runs[r].request
         /\ Session(r)' = Session(r) /\ Here(r)' = sessions'[Session(r)] /\ (Local' <=> Local)
         /\ (HasParent(r)' <=> HasParent(r)) /\ world' = world
<1>1. /\ runs[r].copied \in 0 .. Len(Preserved) /\ runs[r].before \in {<<>>} \cup Protections
  BY RunKnows
<1>. QED
  BY <1>1, MoveFacts, Zenon

LEMMA MarksStep ==
  ASSUME ComputersInv, NEW r, Marks(r)
  PROVE  ComputersInv'
<1>. DEFINE child == sessions["child"]
<1>1. r \in DOMAIN runs /\ runs[r].phase = "forking" /\ UNCHANGED <<world, tasks, evidence>>
      /\ runs[r].copied = Len(Preserved) /\ "open" \in RunPhases /\ ComputerTypes
      /\ runs[r].phase # "gone"
  BY DEF Marks, At, RunPhases, ComputersInv
<1>2. HasParent(r) /\ Session(r) = "child" /\ ~Local
  BY <1>1, RunKnows DEF ForkHolds, RunHolds, HasParent
<1>3. child \in SessionTypes /\ "child" \in Sessions /\ "parent" \in Sessions
      /\ sessions \in [Sessions -> SessionTypes]
  BY <1>1, ComputerTyped DEF Sessions
<1>4. sessions' = [sessions EXCEPT !["child"] = [child EXCEPT !.marked = TRUE]]
  BY <1>3 DEF Marks
<1>. HIDE DEF child
<1>5. [child EXCEPT !.marked = TRUE] \in SessionTypes
  BY <1>3 DEF SessionTypes
<1>6. /\ sessions' \in [Sessions -> SessionTypes] /\ sessions'["child"] = [child EXCEPT !.marked = TRUE]
      /\ \A o \in Sessions : o # "child" => sessions'[o] = sessions[o]
  BY <1>3, <1>4, <1>5
<1>7. /\ sessions'["child"].files = child.files /\ sessions'["child"].context = child.context
      /\ sessions'["child"].cache = child.cache
  BY <1>3, <1>6 DEF SessionTypes
<1>8. ASSUME ~world.overlaps PROVE ForkInherits'
  <2>1. \A k \in 1 .. Len(Preserved) : Inherited(Preserved[k])
    BY <1>1, <1>8, RunKnows DEF ForkHolds
  <2>2. \A p \in Paths : \E k \in 1 .. Len(Preserved) : p = Preserved[k]
    BY <1>1, ComputerTyped DEF Paths
  <2>3. \A p \in Paths : Inherited(p)
    BY <2>1, <2>2
  <2>. QED
    BY <1>3, <1>6, <1>7, <2>3 DEF ForkInherits, Inherited, child
<1>9. Touches(r)
  BY <1>2, <1>6, <1>7, <1>8 DEF Touches, child
<1>10. runs' = Changed(r, "open", runs[r].copied, runs[r].before, runs[r].answer)
  BY <1>1, RunUpdates DEF Marks
<1>11. Moves(r) /\ runs'[r].phase = "open" /\ (Local' <=> Local)
  <2>1. runs[r].answer \in Responses \cup {NoAnswer}
    BY <1>1, RunKnows
  <2>. QED
    BY <1>1, <1>10, <2>1, RunGoes, Zenon
<1>12. RunHolds(r)' /\ SawOwn(r)' /\ OutboxHolds(r)' /\ ForkHolds(r)'
  BY <1>2, <1>11 DEF RunHolds, SawOwn, OutboxHolds, ForkHolds
<1>. QED
  BY <1>1, <1>9, <1>11, <1>12, RunStep

LEMMA ProbesStep ==
  ASSUME ComputersInv, NEW r, Probes(r)
  PROVE  ComputersInv'
<1>1. r \in DOMAIN runs /\ runs[r].phase = "open" /\ UNCHANGED <<world, tasks, evidence>>
      /\ sessions' = sessions /\ ComputerTypes /\ runs[r].phase # "gone"
      /\ "missed" \in RunPhases /\ "returning" \in RunPhases
  BY DEF Probes, At, RunPhases, ComputersInv
<1>2. ~Local
  BY <1>1, RunKnows DEF RunHolds
<1>3. CASE runs' = [runs EXCEPT ![r].phase = "missed"]
  <2>1. runs' = Changed(r, "missed", runs[r].copied, runs[r].before, runs[r].answer)
    BY <1>1, <1>3, RunUpdates
  <2>2. runs[r].answer \in Responses \cup {NoAnswer}
    BY <1>1, RunKnows
  <2>3. Moves(r) /\ runs'[r].phase = "missed" /\ (Local' <=> Local)
    BY <1>1, <2>1, <2>2, RunGoes, Zenon
  <2>4. RunHolds(r)' /\ SawOwn(r)' /\ OutboxHolds(r)' /\ ForkHolds(r)'
    BY <1>2, <2>3 DEF RunHolds, SawOwn, OutboxHolds, ForkHolds
  <2>. QED
    BY <1>1, <2>3, <2>4, Stays, RunStep
<1>4. ASSUME NEW c \in Cached(r),
             runs' = [runs EXCEPT ![r].phase = "returning", ![r].answer = c[1]]
      PROVE  ComputersInv'
  <2>1. c \in Here(r).cache /\ c[2] = runs[r].request
    BY DEF Cached, ResultCachePath
  <2>2. c[1] \in Responses
    <3>1. Here(r).cache \in SUBSET (Responses \X Requests)
      BY <1>1, RunKnows, SessionFields
    <3>. QED
      BY <2>1, <3>1
  <2>3. c[1].for = runs[r].request /\ (~world.lossy => c[1].saw = runs[r].request)
    <3>1. CacheHolds(Session(r)) /\ CacheSawOwn(Session(r)) /\ Here(r) = sessions[Session(r)]
      BY <1>1, RunKnows
    <3>. QED
      BY <1>2, <2>1, <3>1 DEF CacheHolds, CacheSawOwn
  <2>. DEFINE a == c[1]
  <2>4. runs' = [runs EXCEPT ![r].phase = "returning", ![r].answer = a]
    BY <1>4
  <2>5. a \in Responses /\ a.for = runs[r].request /\ (~world.lossy => a.saw = runs[r].request)
        /\ a \in Responses \cup {NoAnswer}
    BY <2>2, <2>3
  <2>. HIDE DEF a
  <2>6. Moves(r) /\ runs'[r].phase = "returning" /\ runs'[r].answer = a /\ (Local' <=> Local)
        /\ runs'[r].request = runs[r].request /\ world' = world
    <3>1. [runs EXCEPT ![r].phase = "returning", ![r].answer = a]
            = Changed(r, "returning", runs[r].copied, runs[r].before, a)
      BY <1>1, AnswerUpdate
    <3>2. runs' = Changed(r, "returning", runs[r].copied, runs[r].before, a)
      BY <2>4, <3>1, Zenon
    <3>. QED
      BY <1>1, <2>5, <3>2, RunGoes, Zenon
  <2>7. RunHolds(r)' /\ SawOwn(r)' /\ OutboxHolds(r)' /\ ForkHolds(r)'
    BY <1>2, <2>5, <2>6 DEF RunHolds, SawOwn, OutboxHolds, ForkHolds
  <2>. QED
    BY <1>1, <2>6, <2>7, Stays, RunStep
<1>. QED
  BY <1>3, <1>4 DEF Probes

\* A session takes the context of a run.
LEMMA ContextPut ==
  ASSUME ComputersInv, NEW r \in DOMAIN runs,
         sessions' = [sessions EXCEPT ![Session(r)] = WithContext(@, runs[r].request)]
  PROVE  Touches(r) /\ sessions'[Session(r)].context = runs[r].request
<1>. DEFINE s == Session(r)
            q == runs[r].request
            old == sessions[s]
            new == WithContext(old, q)
<1>1. ComputerTypes /\ s \in Sessions /\ old \in SessionTypes /\ q \in Requests
      /\ sessions \in [Sessions -> SessionTypes]
  BY RunKnows, ComputerTyped DEF ComputersInv
<1>2. sessions' = [sessions EXCEPT ![s] = new]
  BY <1>1
<1>. HIDE DEF s, q, old
<1>3. new = SessionWith(old.files, old.outbox, old.results, q,
                        {i \in old.inputs : i.work # q.work} \cup {q}, old.marked, old.cache)
  BY <1>1, SessionRenewed, Zenon
<1>. HIDE DEF new
<1>4. new \in SessionTypes
  <2>. DEFINE inputs == {i \in old.inputs : i.work # q.work} \cup {q}
  <2>1. /\ old.files \in [Paths -> 0 .. MaxRuns] /\ old.outbox \in SUBSET RunIds
        /\ old.results \in SUBSET Works /\ old.inputs \in SUBSET Requests
        /\ old.marked \in BOOLEAN /\ old.cache \in SUBSET (Responses \X Requests)
    BY <1>1, SessionFields
  <2>2. inputs \in SUBSET Requests /\ q \in Requests \cup {NoRequest}
    BY <1>1, <2>1
  <2>. HIDE DEF inputs
  <2>3. SessionWith(old.files, old.outbox, old.results, q, inputs, old.marked, old.cache)
            \in SessionTypes
    BY <2>1, <2>2, SessionMade, Zenon
  <2>. QED
    BY <1>3, <2>3 DEF inputs
<1>5. new.files = old.files /\ new.context = q /\ new.marked = old.marked /\ new.cache = old.cache
  BY <1>3 DEF SessionWith
<1>6. /\ sessions' \in [Sessions -> SessionTypes] /\ sessions'[s] = new
      /\ \A o \in Sessions : o # s => sessions'[o] = sessions[o]
  BY <1>1, <1>2, <1>4
<1>. QED
  BY <1>5, <1>6 DEF Touches, s, q, old

LEMMA MaterializesStep ==
  ASSUME ComputersInv, NEW r, Materializes(r)
  PROVE  ComputersInv'
<1>1. r \in DOMAIN runs /\ runs[r].phase = "missed" /\ UNCHANGED <<world, tasks, evidence>>
      /\ ComputerTypes /\ runs[r].phase # "gone" /\ "context" \in RunPhases
  BY DEF Materializes, At, RunPhases, ComputersInv
<1>2. ~Local /\ runs[r].answer \in Responses \cup {NoAnswer} /\ runs[r].request # NoRequest
  BY <1>1, RunKnows DEF RunHolds
<1>3. runs' = Changed(r, "context", runs[r].copied, runs[r].before, runs[r].answer)
  BY <1>1, RunUpdates DEF Materializes
<1>4. /\ Moves(r) /\ runs'[r].phase = "context" /\ (Local' <=> Local)
      /\ Here(r)' = sessions'[Session(r)]
  BY <1>1, <1>2, <1>3, RunGoes, Zenon
<1>5. Touches(r) /\ sessions'[Session(r)].context = runs[r].request
  BY <1>1, ContextPut DEF Materializes
<1>6. RunHolds(r)' /\ SawOwn(r)' /\ OutboxHolds(r)' /\ ForkHolds(r)'
  BY <1>2, <1>4, <1>5 DEF RunHolds, SawOwn, OutboxHolds, ForkHolds
<1>. QED
  BY <1>1, <1>4, <1>5, <1>6, RunStep

LEMMA SnapshotsStep ==
  ASSUME ComputersInv, NEW r, Snapshots(r)
  PROVE  ComputersInv'
<1>. DEFINE before == Protected(Session(r))
<1>1. r \in DOMAIN runs /\ runs[r].phase = "context" /\ UNCHANGED <<world, tasks, evidence>>
      /\ ComputerTypes /\ runs[r].phase # "gone" /\ "working" \in RunPhases /\ sessions' = sessions
  BY DEF Snapshots, At, RunPhases, ComputersInv
<1>2. /\ ~Local /\ runs[r].answer \in Responses \cup {NoAnswer} /\ Here(r).context # NoRequest
      /\ runs[r].copied \in 0 .. Len(Preserved) /\ sessions[Session(r)] = Here(r)
      /\ Here(r) \in SessionTypes
  BY <1>1, RunKnows DEF RunHolds
<1>3. before \in {<<>>} \cup Protections
  <2>1. /\ Here(r).context \in Requests \cup {NoRequest} /\ Here(r).inputs \in SUBSET Requests
        /\ Here(r).marked \in BOOLEAN /\ Here(r).cache \in SUBSET (Responses \X Requests)
    BY <1>2, SessionFields
  <2>. QED
    BY <1>2, <2>1 DEF Protected, Protections
<1>. HIDE DEF before
<1>4. runs' = Changed(r, "working", runs[r].copied, before, runs[r].answer)
  BY <1>1, RunUpdates DEF Snapshots, before
<1>5. /\ Moves(r) /\ runs'[r].phase = "working" /\ (Local' <=> Local)
      /\ Here(r)' = sessions'[Session(r)]
  BY <1>1, <1>2, <1>3, <1>4, MoveFacts, Zenon
<1>6. RunHolds(r)' /\ SawOwn(r)' /\ OutboxHolds(r)' /\ ForkHolds(r)'
  BY <1>1, <1>2, <1>5 DEF RunHolds, SawOwn, OutboxHolds, ForkHolds
<1>. QED
  BY <1>1, <1>5, <1>6, Stays, RunStep

\* The answer of a run that has read its context.
Answering(answer, q, c) == [answer EXCEPT !.for = q, !.saw = c]

LEMMA AnswerMade ==
  ASSUME NEW n, NEW q, NEW c,
         n = [for |-> n.for, saw |-> n.saw, asks |-> n.asks, outbox |-> n.outbox]
  PROVE  Answering(n, q, c) = [for |-> q, saw |-> c, asks |-> n.asks, outbox |-> n.outbox]
<1>. DEFINE one == [n EXCEPT !.for = q]
<1>1. one = [for |-> q, saw |-> n.saw, asks |-> n.asks, outbox |-> n.outbox]
  OBVIOUS
<1>2. Answering(n, q, c) = [one EXCEPT !.saw = c]
  BY DEF Answering
<1>. HIDE DEF one
<1>. QED
  BY <1>1, <1>2

\* An edit of the session of a run that it may make.
Edit(r, new) ==
    /\ new \in SessionTypes
    /\ new.context \in {Here(r).context, runs[r].request} /\ new.marked = Here(r).marked
    /\ \A p \in Paths : Here(r).files[p] # 0 => new.files[p] # 0
    /\ \A c \in new.cache :
        \/ c \in Here(r).cache
        \/ c[1].for = c[2] /\ (~Local /\ ~world.lossy => c[1].saw = c[1].for)

LEMMA SessionStep ==
  ASSUME ComputersInv, NEW r \in DOMAIN runs, NEW new, Edit(r, new),
         sessions' = [sessions EXCEPT ![Session(r)] = new]
  PROVE  Touches(r) /\ sessions'[Session(r)] = new
<1>1. Session(r) \in Sessions /\ sessions \in [Sessions -> SessionTypes]
      /\ sessions[Session(r)] = Here(r) /\ new \in SessionTypes
  BY RunKnows, ComputerTyped DEF ComputersInv, Edit
<1>2. /\ sessions' \in [Sessions -> SessionTypes] /\ sessions'[Session(r)] = new
      /\ \A o \in Sessions : o # Session(r) => sessions'[o] = sessions[o]
  BY <1>1
<1>. QED
  BY <1>1, <1>2 DEF Touches, Edit

LEMMA ReadsStep ==
  ASSUME ComputersInv, NEW r, ReadsContext(r)
  PROVE  ComputersInv'
<1>. DEFINE a == [NoAnswer EXCEPT !.for = runs[r].request, !.saw = Here(r).context]
<1>1. r \in DOMAIN runs /\ runs[r].phase = "working" /\ UNCHANGED <<world, tasks, evidence>>
      /\ ComputerTypes /\ runs[r].phase # "gone" /\ "read" \in RunPhases /\ sessions' = sessions
  BY DEF ReadsContext, At, RunPhases, ComputersInv
<1>2. /\ Here(r).context \in Requests /\ Here(r).context # NoRequest /\ runs[r].request \in Requests
      /\ sessions[Session(r)] = Here(r) /\ OutboxHolds(r)
  <2>1. Here(r).context \in Requests \cup {NoRequest}
    BY <1>1, RunKnows, SessionFields
  <2>. QED
    BY <1>1, <2>1, RunKnows DEF RunHolds
<1>3. a = [for |-> runs[r].request, saw |-> Here(r).context, asks |-> NoAnswer.asks,
           outbox |-> NoAnswer.outbox]
  <2>1. NoAnswer = [for |-> NoAnswer.for, saw |-> NoAnswer.saw, asks |-> NoAnswer.asks,
                    outbox |-> NoAnswer.outbox]
    BY DEF NoAnswer
  <2>2. a = Answering(NoAnswer, runs[r].request, Here(r).context)
    BY DEF Answering
  <2>. HIDE DEF a
  <2>. QED
    BY <2>1, <2>2, AnswerMade
<1>4. runs' = [runs EXCEPT ![r].phase = "read", ![r].answer = a]
  BY DEF ReadsContext
<1>. HIDE DEF a
<1>5. a \in Responses /\ a.for = runs[r].request /\ a.saw = Here(r).context
      /\ a \in Responses \cup {NoAnswer}
  <2>1. NoAnswer.asks \in BOOLEAN /\ NoAnswer.outbox \in SUBSET RunIds
    BY DEF NoAnswer
  <2>. QED
    BY <1>2, <1>3, <2>1 DEF Responses
<1>6. runs' = Changed(r, "read", runs[r].copied, runs[r].before, a)
  BY <1>1, <1>4, AnswerUpdate
<1>7. /\ Moves(r) /\ runs'[r].phase = "read" /\ runs'[r].answer = a /\ (Local' <=> Local)
      /\ runs'[r].request = runs[r].request /\ Here(r)' = sessions'[Session(r)] /\ world' = world
  BY <1>1, <1>5, <1>6, RunGoes, Zenon
<1>8. RunHolds(r)' /\ SawOwn(r)' /\ OutboxHolds(r)' /\ ForkHolds(r)'
  BY <1>1, <1>2, <1>5, <1>7 DEF RunHolds, SawOwn, OutboxHolds, ForkHolds
<1>. QED
  BY <1>1, <1>7, <1>8, Stays, RunStep

LEMMA ActsStep ==
  ASSUME ComputersInv, NEW r, Acts(r)
  PROVE  ComputersInv'
<1>1. r \in DOMAIN runs /\ runs[r].phase = "read" /\ UNCHANGED <<world, tasks, evidence>>
      /\ ComputerTypes /\ runs[r].phase # "gone"
  BY DEF Acts, At, ComputersInv
<1>2. /\ runs[r].answer \in Responses /\ runs[r].answer.for = runs[r].request
      /\ Here(r).context # NoRequest /\ Session(r) \in Sessions /\ Here(r) \in SessionTypes
      /\ sessions[Session(r)] = Here(r) /\ r \in RunIds /\ r # 0 /\ SawOwn(r) /\ OutboxHolds(r)
  BY <1>1, RunKnows DEF RunHolds
<1>3. PICK writes \in BOOLEAN, asks \in BOOLEAN, breaks \in BOOLEAN :
        /\ sessions' = IF asks THEN sessions
            ELSE [sessions EXCEPT
                ![Session(r)].files = [p \in Paths |-> r],
                ![Session(r)].outbox = CASE ~writes -> @
                                         [] writes /\ Local -> @ \cup {r}
                                         [] writes /\ ~Local -> {r}]
        /\ runs' = [runs EXCEPT ![r].answer.asks = asks,
                ![r].phase = CASE breaks -> "failed"
                               [] ~breaks /\ Local -> "valid"
                               [] ~breaks /\ ~Local -> "acted"]
  BY DEF Acts
<1>. DEFINE phase == CASE breaks -> "failed"
                       [] ~breaks /\ Local -> "valid"
                       [] ~breaks /\ ~Local -> "acted"
            a == [runs[r].answer EXCEPT !.asks = asks]
            outbox == CASE ~writes -> Here(r).outbox
                        [] writes /\ Local -> Here(r).outbox \cup {r}
                        [] writes /\ ~Local -> {r}
            files == [p \in Paths |-> r]
<1>4. phase \in RunPhases /\ phase \in {"failed", "valid", "acted"}
      /\ (phase = "valid" => Local) /\ (phase = "acted" => ~Local)
  BY DEF RunPhases
<1>5. a \in Responses /\ a.for = runs[r].request /\ a.saw = runs[r].answer.saw
      /\ a \in Responses \cup {NoAnswer}
  BY <1>2 DEF Responses
<1>6. runs' = Changed(r, phase, runs[r].copied, runs[r].before, a)
  <2>1. runs' = [runs EXCEPT ![r].answer.asks = asks, ![r].phase = phase]
    BY <1>3
  <2>. HIDE DEF phase
  <2>. QED
    BY <1>1, <2>1, AsksUpdate
<1>7. outbox \in SUBSET RunIds /\ (Local => outbox \subseteq Here(r).outbox \cup {r})
  <2>1. Here(r).outbox \in SUBSET RunIds
    BY <1>2, SessionFields
  <2>2. CASE ~writes
    <3>1. outbox = Here(r).outbox
      BY <2>2
    <3>. QED
      BY <2>1, <3>1
  <2>3. CASE writes /\ Local
    BY <1>2, <2>1, <2>3
  <2>4. CASE writes /\ ~Local
    BY <1>2, <2>4
  <2>. QED
    BY <2>2, <2>3, <2>4
<1>8. ~asks => sessions' = [sessions EXCEPT ![Session(r)] =
                                [Here(r) EXCEPT !.files = files, !.outbox = outbox]]
  <2>. SUFFICES ASSUME ~asks
                PROVE  sessions' = [sessions EXCEPT ![Session(r)] =
                                        [Here(r) EXCEPT !.files = files, !.outbox = outbox]]
    OBVIOUS
  <2>1. sessions \in [Sessions -> SessionTypes]
    BY <1>1, ComputerTyped
  <2>. DEFINE boxes == [sessions EXCEPT ![Session(r)].files = files]
  <2>2. boxes[Session(r)].outbox = Here(r).outbox
    BY <1>2, <2>1 DEF SessionTypes
  <2>3. sessions' = [boxes EXCEPT ![Session(r)].outbox = outbox]
    BY <1>3, <2>2
  <2>. HIDE DEF outbox, files
  <2>. QED
    BY <1>2, <2>1, <2>3
<1>. HIDE DEF phase, a
<1>9. /\ Moves(r) /\ runs'[r].phase = phase /\ runs'[r].answer = a /\ (Local' <=> Local)
      /\ runs'[r].request = runs[r].request /\ Here(r)' = sessions'[Session(r)] /\ world' = world
  BY <1>1, <1>4, <1>5, <1>6, RunGoes, Zenon
<1>10. /\ Touches(r) /\ sessions'[Session(r)].context = Here(r).context
       /\ Local => sessions'[Session(r)].outbox \subseteq Here(r).outbox \cup {r}
  <2>1. CASE asks
    BY <1>1, <1>2, <1>3, <2>1, Stays
  <2>2. CASE ~asks
    <3>. DEFINE new == SessionWith(files, outbox, Here(r).results, Here(r).context, Here(r).inputs,
                                   Here(r).marked, Here(r).cache)
    <3>1. files \in [Paths -> 0 .. MaxRuns] /\ \A p \in Paths : files[p] # 0
      <4>1. r \in 0 .. MaxRuns
        BY <1>2 DEF RunIds
      <4>. QED
        BY <1>2, <4>1
    <3>. HIDE DEF files, outbox
    <3>2. sessions' = [sessions EXCEPT ![Session(r)] = new]
      <4>1. [Here(r) EXCEPT !.files = files, !.outbox = outbox] = new
        BY <1>2, SessionWritten
      <4>. QED
        BY <1>8, <2>2, <4>1
    <3>3. new \in SessionTypes
      <4>1. /\ Here(r).results \in SUBSET Works /\ Here(r).context \in Requests \cup {NoRequest}
            /\ Here(r).inputs \in SUBSET Requests /\ Here(r).marked \in BOOLEAN
            /\ Here(r).cache \in SUBSET (Responses \X Requests)
        BY <1>2, SessionFields
      <4>. QED
        BY <1>7, <3>1, <4>1, SessionMade, Zenon
    <3>4. /\ new.files = files /\ new.outbox = outbox /\ new.context = Here(r).context
          /\ new.marked = Here(r).marked /\ new.cache = Here(r).cache
      BY DEF SessionWith
    <3>. HIDE DEF new
    <3>5. Touches(r) /\ sessions'[Session(r)] = new
      <4>1. Edit(r, new)
        BY <3>1, <3>3, <3>4 DEF Edit
      <4>. QED
        BY <1>1, <3>2, <4>1, SessionStep, Zenon
    <3>. QED
      BY <1>7, <3>4, <3>5
  <2>. QED
    BY <2>1, <2>2
<1>11. RunHolds(r)' /\ SawOwn(r)' /\ ForkHolds(r)'
  BY <1>1, <1>2, <1>4, <1>5, <1>9, <1>10 DEF RunHolds, SawOwn, ForkHolds
<1>12. OutboxHolds(r)'
  BY <1>1, <1>2, <1>4, <1>9, <1>10 DEF OutboxHolds
<1>. QED
  BY <1>1, <1>9, <1>10, <1>11, <1>12, RunStep

LEMMA ValidatesStep ==
  ASSUME ComputersInv, NEW r, Validates(r)
  PROVE  ComputersInv'
<1>. DEFINE q == runs[r].request
            tampered == Here(r).context # q \/ q \notin Here(r).inputs
            phase == IF tampered \/ runs[r].before # Protected(Session(r)) THEN "failed" ELSE "valid"
<1>1. r \in DOMAIN runs /\ runs[r].phase = "acted" /\ UNCHANGED <<world, tasks, evidence>>
      /\ ComputerTypes /\ runs[r].phase # "gone" /\ phase \in RunPhases
  BY DEF Validates, At, RunPhases, ComputersInv
<1>2. phase \in {"failed", "valid"} /\ (phase = "valid" => ~tampered /\ Here(r).context = q)
  OBVIOUS
<1>3. runs' = [runs EXCEPT ![r].phase = phase]
  BY DEF Validates
<1>4. sessions' = IF tampered THEN [sessions EXCEPT ![Session(r)] = WithContext(@, q)] ELSE sessions
  BY DEF Validates
<1>. HIDE DEF phase, tampered
<1>5. /\ runs[r].answer \in Responses /\ runs[r].answer.for = runs[r].request /\ ~Local /\ SawOwn(r)
      /\ runs[r].answer \in Responses \cup {NoAnswer}
  BY <1>1, RunKnows DEF RunHolds
<1>6. runs' = Changed(r, phase, runs[r].copied, runs[r].before, runs[r].answer)
  BY <1>1, <1>3, RunUpdates
<1>7. /\ Moves(r) /\ runs'[r].phase = phase /\ runs'[r].answer = runs[r].answer
      /\ (Local' <=> Local) /\ runs'[r].request = runs[r].request /\ world' = world
  BY <1>1, <1>5, <1>6, RunGoes, Zenon
<1>8. Touches(r)
  <2>1. CASE tampered
    BY <1>1, <1>4, <2>1, ContextPut
  <2>2. CASE ~tampered
    BY <1>1, <1>4, <2>2, Stays
  <2>. QED
    BY <2>1, <2>2
<1>9. RunHolds(r)' /\ OutboxHolds(r)' /\ ForkHolds(r)'
  BY <1>2, <1>5, <1>7 DEF RunHolds, OutboxHolds, ForkHolds
<1>10. SawOwn(r)'
  BY <1>1, <1>2, <1>5, <1>7 DEF SawOwn
<1>. QED
  BY <1>1, <1>7, <1>8, <1>9, <1>10, RunStep

\* Of the two that collect: the result is there, and the answer has the entries.
LEMMA ResultPut ==
  ASSUME ComputersInv, NEW r \in DOMAIN runs, NEW w \in Works,
         sessions' = [sessions EXCEPT ![Session(r)].results = @ \cup {ResultOf(w)}]
  PROVE  Touches(r) /\ sessions'[Session(r)].outbox = Here(r).outbox
<1>. DEFINE results == Here(r).results \cup {ResultOf(w)}
            new == [Here(r) EXCEPT !.results = results]
<1>1. Session(r) \in Sessions /\ Here(r) \in SessionTypes /\ sessions[Session(r)] = Here(r)
      /\ sessions \in [Sessions -> SessionTypes]
  BY RunKnows, ComputerTyped DEF ComputersInv
<1>2. results \in SUBSET Works
  BY <1>1, SessionFields DEF ResultOf, Works
<1>3. sessions' = [sessions EXCEPT ![Session(r)] = new]
  BY <1>1
<1>. HIDE DEF results
<1>4. new \in SessionTypes
  BY <1>1, <1>2 DEF SessionTypes
<1>5. /\ new.context = Here(r).context /\ new.marked = Here(r).marked /\ new.files = Here(r).files
      /\ new.cache = Here(r).cache /\ new.outbox = Here(r).outbox
  BY <1>1 DEF SessionTypes
<1>. HIDE DEF new
<1>6. Edit(r, new)
  BY <1>4, <1>5 DEF Edit
<1>9. Touches(r) /\ sessions'[Session(r)] = new
  BY <1>3, <1>6, SessionStep, Zenon
<1>. QED
  BY <1>5, <1>9

LEMMA CollectsStep ==
  ASSUME ComputersInv, NEW r, Collects(r) \/ CollectsLocal(r)
  PROVE  ComputersInv'
<1>. DEFINE w == runs[r].request.work
            outbox == IF Interactive THEN Here(r).outbox ELSE {}
            a == [runs[r].answer EXCEPT !.outbox = outbox]
<1>1. r \in DOMAIN runs /\ runs[r].phase = "valid" /\ UNCHANGED <<world, tasks, evidence>>
      /\ ComputerTypes /\ runs[r].phase # "gone"
      /\ sessions' = [sessions EXCEPT ![Session(r)].results = @ \cup {ResultOf(w)}]
  BY DEF Collects, CollectsLocal, At, ComputersInv
<1>2. PICK phase \in {"collected", "failed", "returning"} :
        /\ runs' = [runs EXCEPT ![r].phase = phase, ![r].answer.outbox = outbox]
        /\ Local <=> phase = "returning"
  <2>1. CASE Collects(r)
    BY <2>1 DEF Collects
  <2>2. CASE CollectsLocal(r)
    BY <2>2 DEF CollectsLocal
  <2>. QED
    BY <2>1, <2>2
<1>3. /\ runs[r].answer \in Responses /\ runs[r].answer.for = runs[r].request
      /\ Here(r) \in SessionTypes /\ SawOwn(r) /\ OutboxHolds(r) /\ w \in Works
  BY <1>1, RunKnows DEF RunHolds, Requests
<1>4. outbox \in SUBSET RunIds /\ outbox \subseteq Here(r).outbox
  BY <1>3, SessionFields
<1>5. runs' = Changed(r, phase, runs[r].copied, runs[r].before, a)
  <2>. HIDE DEF outbox
  <2>. QED
    BY <1>1, <1>2, OutboxUpdate
<1>. HIDE DEF outbox
<1>6. a \in Responses /\ a.for = runs[r].request /\ a.saw = runs[r].answer.saw /\ a.outbox = outbox
      /\ a \in Responses \cup {NoAnswer} /\ phase \in RunPhases
  BY <1>3, <1>4 DEF Responses, RunPhases
<1>. HIDE DEF a
<1>7. /\ Moves(r) /\ runs'[r].phase = phase /\ runs'[r].answer = a /\ (Local' <=> Local)
      /\ runs'[r].request = runs[r].request /\ world' = world
  BY <1>1, <1>5, <1>6, RunGoes, Zenon
<1>8. Touches(r)
  BY <1>1, <1>3, ResultPut
<1>9. RunHolds(r)' /\ SawOwn(r)' /\ ForkHolds(r)'
  BY <1>1, <1>2, <1>3, <1>6, <1>7 DEF RunHolds, SawOwn, ForkHolds
<1>10. OutboxHolds(r)'
  BY <1>1, <1>2, <1>3, <1>4, <1>6, <1>7 DEF OutboxHolds
<1>. QED
  BY <1>1, <1>7, <1>8, <1>9, <1>10, RunStep

LEMMA CachesStep ==
  ASSUME ComputersInv, NEW r, Caches(r)
  PROVE  ComputersInv'
<1>. DEFINE q == runs[r].request
            a == runs[r].answer
            cache == {c \in Here(r).cache : c[2] # q} \cup {<<a, q>>}
            new == [Here(r) EXCEPT !.cache = cache]
<1>1. r \in DOMAIN runs /\ runs[r].phase = "collected" /\ UNCHANGED <<world, tasks, evidence>>
      /\ ComputerTypes /\ runs[r].phase # "gone" /\ "returning" \in RunPhases
  BY DEF Caches, At, RunPhases, ComputersInv
<1>2. /\ a \in Responses /\ a.for = q /\ ~Local /\ SawOwn(r) /\ a \in Responses \cup {NoAnswer}
      /\ Here(r) \in SessionTypes /\ q \in Requests /\ Session(r) \in Sessions
      /\ sessions[Session(r)] = Here(r) /\ sessions \in [Sessions -> SessionTypes]
  BY <1>1, RunKnows, ComputerTyped DEF RunHolds
<1>3. ~world.lossy => a.saw = a.for
  BY <1>1, <1>2 DEF SawOwn
<1>4. cache \in SUBSET (Responses \X Requests)
  <2>1. Here(r).cache \in SUBSET (Responses \X Requests)
    BY <1>2, SessionFields
  <2>. QED
    BY <1>2, <2>1
<1>5. \A c \in cache : \/ c \in Here(r).cache
                       \/ c[1].for = c[2] /\ (~Local /\ ~world.lossy => c[1].saw = c[1].for)
  BY <1>2, <1>3
<1>6. sessions' = [sessions EXCEPT ![Session(r)] = new]
  BY <1>2 DEF Caches, ResultCachePath
<1>7. runs' = Changed(r, "returning", runs[r].copied, runs[r].before, a)
  BY <1>1, RunUpdates DEF Caches
<1>. HIDE DEF cache
<1>8. Edit(r, new)
  <2>1. new \in SessionTypes /\ new.cache = cache /\ new.context = Here(r).context
        /\ new.marked = Here(r).marked /\ new.files = Here(r).files
    BY <1>2, <1>4 DEF SessionTypes
  <2>. HIDE DEF new
  <2>. QED
    BY <1>5, <2>1 DEF Edit
<1>. HIDE DEF new, a, q
<1>9. Touches(r)
  BY <1>1, <1>6, <1>8, SessionStep, Zenon
<1>10. /\ Moves(r) /\ runs'[r].phase = "returning" /\ runs'[r].answer = a
       /\ (Local' <=> Local) /\ runs'[r].request = runs[r].request /\ world' = world
  BY <1>1, <1>2, <1>7, RunGoes, Zenon
<1>11. RunHolds(r)' /\ OutboxHolds(r)' /\ ForkHolds(r)' /\ SawOwn(r)'
  BY <1>2, <1>3, <1>10 DEF RunHolds, OutboxHolds, ForkHolds, SawOwn, q
<1>. QED
  BY <1>1, <1>9, <1>10, <1>11, RunStep

LEMMA RuntimeDiesStep ==
  ASSUME ComputersInv, NEW r, RuntimeDies(r)
  PROVE  ComputersInv'
<1>1. r \in DOMAIN runs /\ ~Local /\ UNCHANGED <<world, tasks, evidence>> /\ sessions' = sessions
      /\ ComputerTypes /\ runs[r].phase # "gone" /\ "failed" \in RunPhases
      /\ <<>> \in {<<>>} \cup Protections /\ NoAnswer \in Responses \cup {NoAnswer}
  BY DEF RuntimeDies, RunPhases, ComputersInv
<1>2. 0 \in 0 .. Len(Preserved)
  BY <1>1, ComputerTyped
<1>3. runs' = Changed(r, "failed", 0, <<>>, NoAnswer)
  BY <1>1, RunUpdates DEF RuntimeDies
<1>4. Moves(r) /\ runs'[r].phase = "failed" /\ (Local' <=> Local)
  BY <1>1, <1>2, <1>3, MoveFacts, Zenon
<1>5. RunHolds(r)' /\ OutboxHolds(r)' /\ ForkHolds(r)' /\ SawOwn(r)'
  BY <1>1, <1>4 DEF RunHolds, OutboxHolds, ForkHolds, SawOwn
<1>. QED
  BY <1>1, <1>4, <1>5, Stays, RunStep

-----------------------------------------------------------------------------
(* The local provider prepares the directory.                              *)

LEMMA PreparesStep ==
  ASSUME ComputersInv, NEW r, Prepares(r)
  PROVE  ComputersInv'
<1>. DEFINE q == runs[r].request
            old == Here(r)
            new == SessionWith(old.files, {}, {}, q, {q}, old.marked, old.cache)
            s == Session(r)
<1>1. r \in DOMAIN runs /\ runs[r].phase = "sent" /\ Local /\ UNCHANGED <<world, tasks, evidence>>
      /\ ComputerTypes /\ runs[r].phase # "gone" /\ "working" \in RunPhases
  BY DEF Prepares, At, RunPhases, ComputersInv
<1>2. /\ old \in SessionTypes /\ q \in Requests /\ q # NoRequest /\ s \in Sessions
      /\ sessions[s] = old /\ sessions \in [Sessions -> SessionTypes]
      /\ runs[r].answer \in Responses \cup {NoAnswer}
  BY <1>1, RunKnows, ComputerTyped
<1>3. sessions' = [sessions EXCEPT ![s].context = q, ![s].inputs = {q}, ![s].outbox = {}, ![s].results = {}]
  BY DEF Prepares
<1>4. runs' = Changed(r, "working", runs[r].copied, runs[r].before, runs[r].answer)
  BY <1>1, RunUpdates DEF Prepares
<1>. HIDE DEF q, s, old
<1>5. sessions' = [sessions EXCEPT ![s] =
                    [old EXCEPT !.context = q, !.inputs = {q}, !.outbox = {}, !.results = {}]]
  BY <1>2, <1>3
<1>6. [old EXCEPT !.context = q, !.inputs = {q}, !.outbox = {}, !.results = {}] = new
  BY <1>2, SessionRenewed, Zenon
<1>7. sessions' = [sessions EXCEPT ![s] = new]
  BY <1>5, <1>6
<1>8. /\ new \in SessionTypes
  <2>1. /\ old.files \in [Paths -> 0 .. MaxRuns] /\ old.marked \in BOOLEAN
        /\ old.cache \in SUBSET (Responses \X Requests)
    BY <1>2, SessionFields
  <2>2. {} \in SUBSET RunIds /\ {} \in SUBSET Works /\ {q} \in SUBSET Requests
        /\ q \in Requests \cup {NoRequest}
    BY <1>2
  <2>. QED
    BY <2>1, <2>2, SessionMade, Zenon
<1>9. new.files = old.files /\ new.outbox = {} /\ new.context = q /\ new.marked = old.marked
      /\ new.cache = old.cache
  BY DEF SessionWith
<1>. HIDE DEF new
<1>10. Edit(r, new)
  BY <1>8, <1>9 DEF Edit, old, q
<1>11. Touches(r) /\ sessions'[Session(r)] = new
  BY <1>1, <1>7, <1>10, SessionStep, Zenon DEF s
<1>12. /\ Moves(r) /\ runs'[r].phase = "working" /\ (Local' <=> Local)
       /\ runs'[r].request = runs[r].request /\ Here(r)' = sessions'[Session(r)] /\ world' = world
  BY <1>1, <1>2, <1>4, RunGoes, Zenon
<1>13. RunHolds(r)' /\ OutboxHolds(r)' /\ ForkHolds(r)' /\ SawOwn(r)'
  BY <1>1, <1>2, <1>9, <1>11, <1>12 DEF RunHolds, OutboxHolds, ForkHolds, SawOwn, q
<1>. QED
  BY <1>1, <1>11, <1>12, <1>13, RunStep

-----------------------------------------------------------------------------
(* The client.                                                             *)

TaskWith(state, replies, run, answer) ==
    [status |-> state, replies |-> replies, run |-> run, answer |-> answer]
TaskStatuses == {"new", "queued", "running", "asked", "answered", "failed"}

LEMMA TaskFields ==
  ASSUME ComputersInv, NEW w \in Works
  PROVE  /\ tasks[w] \in TaskTypes /\ tasks[w].status \in TaskStatuses
         /\ tasks[w].replies \in 0 .. MaxReplies /\ tasks[w].run \in 0 .. MaxRuns
         /\ tasks[w].answer \in Responses \cup {NoAnswer} /\ TaskHolds(w) /\ OwnEntries(w)
<1>1. tasks[w] \in TaskTypes /\ TaskHolds(w) /\ OwnEntries(w)
  BY ComputerTyped DEF ComputersInv
<1>. QED
  BY <1>1 DEF TaskTypes, TaskStatuses

LEMMA StatusEdited ==
  ASSUME NEW t \in TaskTypes, NEW x
  PROVE  /\ [t EXCEPT !.status = x] = TaskWith(x, t.replies, t.run, t.answer)
         /\ [t EXCEPT !.run = x] = TaskWith(t.status, t.replies, x, t.answer)
  BY DEF TaskTypes, TaskWith

LEMMA RunSet ==
  ASSUME NEW t \in TaskTypes, NEW x, NEW y
  PROVE  [t EXCEPT !.status = x, !.run = y] = TaskWith(x, t.replies, y, t.answer)
<1>. DEFINE one == [t EXCEPT !.status = x]
<1>1. one = TaskWith(x, t.replies, t.run, t.answer)
  BY StatusEdited
<1>2. [t EXCEPT !.status = x, !.run = y] = [one EXCEPT !.run = y]
  OBVIOUS
<1>. HIDE DEF one
<1>3. [one EXCEPT !.run = y] = TaskWith(x, t.replies, y, t.answer)
  BY <1>1 DEF TaskWith
<1>. QED
  BY <1>2, <1>3, Zenon

Answered(t, x, y, z) == [t EXCEPT !.run = x, !.answer = y, !.status = z]
Asked(t, x, y, z) == [t EXCEPT !.status = x, !.replies = y, !.answer = z]

LEMMA AnswerSet ==
  ASSUME NEW t \in TaskTypes, NEW x, NEW y, NEW z
  PROVE  Answered(t, x, y, z) = TaskWith(z, t.replies, x, y)
<1>. DEFINE run == [t EXCEPT !.run = x]
            answer == [run EXCEPT !.answer = y]
<1>1. run = TaskWith(t.status, t.replies, x, t.answer)
  BY StatusEdited
<1>2. Answered(t, x, y, z) = [answer EXCEPT !.status = z]
  BY DEF Answered
<1>. HIDE DEF run
<1>3. answer = TaskWith(t.status, t.replies, x, y)
  BY <1>1 DEF TaskWith
<1>. HIDE DEF answer
<1>4. [answer EXCEPT !.status = z] = TaskWith(z, t.replies, x, y)
  BY <1>3 DEF TaskWith
<1>. QED
  BY <1>2, <1>4, Zenon

LEMMA AskedAgain ==
  ASSUME NEW t \in TaskTypes, NEW x, NEW y, NEW z
  PROVE  Asked(t, x, y, z) = TaskWith(x, y, t.run, z)
<1>. DEFINE one == [t EXCEPT !.status = x]
            two == [one EXCEPT !.replies = y]
<1>1. one = TaskWith(x, t.replies, t.run, t.answer)
  BY StatusEdited
<1>2. Asked(t, x, y, z) = [two EXCEPT !.answer = z]
  BY DEF Asked
<1>. HIDE DEF one
<1>3. two = TaskWith(x, y, t.run, t.answer)
  BY <1>1 DEF TaskWith
<1>. HIDE DEF two
<1>4. [two EXCEPT !.answer = z] = TaskWith(x, y, t.run, z)
  BY <1>3 DEF TaskWith
<1>. QED
  BY <1>2, <1>4, Zenon

LEMMA TaskMade ==
  ASSUME NEW state \in TaskStatuses, NEW replies \in 0 .. MaxReplies,
         NEW run \in 0 .. MaxRuns, NEW answer \in Responses \cup {NoAnswer}
  PROVE  TaskWith(state, replies, run, answer) \in TaskTypes
  BY DEF TaskTypes, TaskWith, TaskStatuses

LEMMA TaskHas ==
  ASSUME NEW state, NEW replies, NEW run, NEW answer
  PROVE  /\ TaskWith(state, replies, run, answer).status = state
         /\ TaskWith(state, replies, run, answer).replies = replies
         /\ TaskWith(state, replies, run, answer).run = run
         /\ TaskWith(state, replies, run, answer).answer = answer
  BY DEF TaskWith

LEMMA TaskPut ==
  ASSUME ComputersInv, NEW w \in Works, NEW new \in TaskTypes, tasks' = [tasks EXCEPT ![w] = new]
  PROVE  /\ tasks' \in [Works -> TaskTypes] /\ tasks'[w] = new
         /\ \A v \in Works : v # w => tasks'[v] = tasks[v]
<1>1. tasks \in [Works -> TaskTypes]
  BY ComputerTyped DEF ComputersInv
<1>. QED
  BY <1>1

\* The client leaves the sessions alone, and of the runs it begins some and
\* forgets some.
Clients ==
    /\ world' = world /\ sessions' = sessions /\ evidence' \in Versions
    /\ tasks' \in [Works -> TaskTypes] /\ runs' \in Seq(RunTypes)
    /\ Len(runs') <= world.most /\ DOMAIN runs \subseteq DOMAIN runs'
    /\ \A q \in DOMAIN runs : runs'[q].request = runs[q].request
    /\ \A q \in DOMAIN runs' :
        \/ q \in DOMAIN runs /\ runs'[q] = runs[q]
        \/ runs'[q].phase = "gone"
        \/ runs'[q].phase = "sent" /\ runs'[q].copied = 0

LEMMA ClientStep ==
  ASSUME ComputersInv, Clients, Follows', SecondBegun', ~Local /\ ~world.lossy => ContextHeld',
         \A w \in Works : TaskHolds(w)' /\ OwnEntries(w)',
         \A q \in DOMAIN runs' : Sole(q)'
  PROVE  ComputersInv'
<1>1. /\ world' = world /\ sessions' = sessions /\ (Local' <=> Local)
  BY DEF Clients, Local
<1>2. ComputerTypes' /\ Len(runs') <= world'.most
  BY <1>1 DEF ComputersInv, ComputerTypes, Clients, TaskTypes, RunTypes
<1>3. ASSUME NEW q \in DOMAIN runs'
      PROVE  RunHolds(q)' /\ SawOwn(q)' /\ ForkHolds(q)' /\ OutboxHolds(q)'
  <2>1. CASE q \in DOMAIN runs /\ runs'[q] = runs[q]
    <3>1. RunHolds(q) /\ SawOwn(q) /\ ForkHolds(q) /\ OutboxHolds(q)
      BY <2>1 DEF ComputersInv
    <3>2. Session(q)' = Session(q) /\ Here(q)' = Here(q)
      BY <1>1, <2>1 DEF Session, SessionOf, Here
    <3>. QED
      BY <1>1, <2>1, <3>1, <3>2
      DEF RunHolds, SawOwn, ForkHolds, OutboxHolds, HasParent, Inherited
  <2>2. CASE runs'[q].phase = "gone"
    BY <2>2 DEF RunHolds, SawOwn, ForkHolds, OutboxHolds
  <2>3. CASE runs'[q].phase = "sent" /\ runs'[q].copied = 0
    BY <2>3 DEF RunHolds, SawOwn, ForkHolds, OutboxHolds
  <2>. QED
    BY <2>1, <2>2, <2>3 DEF Clients
<1>4. \A s \in {"parent", "child"} : CacheHolds(s)' /\ CacheSawOwn(s)'
  BY <1>1 DEF ComputersInv, CacheHolds, CacheSawOwn
<1>5. ~world'.overlaps /\ sessions'["child"].marked => ForkInherits'
  BY <1>1 DEF ComputersInv, ForkInherits
<1>. QED
  BY <1>1, <1>2, <1>3, <1>4, <1>5 DEF ComputersInv

\* A task that is not at work changes, and no run does.
LEMMA TaskStep ==
  ASSUME ComputersInv, NEW w \in Works, NEW state \in {"queued"},
         NEW replies \in 0 .. MaxReplies, NEW answer \in Responses \cup {NoAnswer},
         tasks' = [tasks EXCEPT ![w] = TaskWith(state, replies, None, answer)],
         UNCHANGED <<world, evidence, runs, sessions>>,
         tasks[w].run = None \/ (~Local /\ world.lossy), Follows'
  PROVE  ComputersInv'
<1>1. /\ tasks' \in [Works -> TaskTypes] /\ \A v \in Works : v # w => tasks'[v] = tasks[v]
      /\ tasks'[w].status = "queued" /\ tasks'[w].run = None
  <2>1. state \in TaskStatuses /\ None \in 0 .. MaxRuns
    BY ComputerTyped DEF TaskStatuses, None, ComputersInv
  <2>. DEFINE new == TaskWith(state, replies, None, answer)
  <2>2. new \in TaskTypes
    BY <2>1, TaskMade
  <2>3. new.status = "queued" /\ new.run = None
    BY TaskHas
  <2>. HIDE DEF new
  <2>4. tasks' = [tasks EXCEPT ![w] = new]
    BY DEF new
  <2>. QED
    BY <2>2, <2>3, <2>4, TaskPut
<1>2. Clients
  <2>1. ComputerTypes /\ Len(runs) <= world.most
    BY DEF ComputersInv
  <2>2. evidence \in Versions /\ runs \in Seq(RunTypes)
    BY <2>1 DEF ComputerTypes, RunTypes
  <2>. QED
    BY <1>1, <2>1, <2>2 DEF Clients
<1>3. ASSUME NEW v \in Works PROVE TaskHolds(v)' /\ OwnEntries(v)'
  <2>1. TaskHolds(v) /\ OwnEntries(v)
    BY TaskFields
  <2>2. CASE v = w
    BY <1>1, <2>2 DEF TaskHolds, OwnEntries, Settled
  <2>3. CASE v # w
    BY <1>1, <2>1, <2>3 DEF TaskHolds, OwnEntries, Settled, WorkOf, Local
  <2>. QED
    BY <2>2, <2>3
<1>4. ASSUME NEW q \in DOMAIN runs' PROVE Sole(q)'
  <2>1. Sole(q) /\ WorkOf(q) \in Works /\ WorkOf(q)' = WorkOf(q) /\ q # 0
    BY ComputerTyped, RunFields, RunKnows DEF ComputersInv, WorkOf
  <2>2. CASE WorkOf(q) = w
    BY <1>1, <2>1, <2>2 DEF Sole, Local, None
  <2>3. CASE WorkOf(q) # w
    BY <1>1, <2>1, <2>3 DEF Sole, Local
  <2>. QED
    BY <2>2, <2>3
<1>5. SecondBegun'
  <2>1. tasks[2].status # "new" => tasks'[2].status # "new"
    BY <1>1 DEF Works
  <2>. QED
    BY <2>1 DEF SecondBegun, ComputersInv, WorkOf
<1>6. ~Local /\ ~world.lossy => ContextHeld'
  <2>. SUFFICES ASSUME ~Local, ~world.lossy, NEW v \in Works, Settled(v)'
                PROVE  tasks'[v].answer.saw = tasks'[v].answer.for
    BY DEF ContextHeld
  <2>1. v # w
    BY <1>1 DEF Settled
  <2>. QED
    BY <1>1, <2>1 DEF ComputersInv, ContextHeld, Settled
<1>. QED
  BY <1>2, <1>3, <1>4, <1>5, <1>6, ClientStep

LEMMA CreatesStep ==
  ASSUME ComputersInv, NEW w \in Works, Creates(w)
  PROVE  ComputersInv'
<1>1. /\ tasks[w].status = "new" /\ UNCHANGED <<world, evidence, runs, sessions>>
      /\ (w = 2 /\ ~world.overlaps => tasks[1].status \in {"answered", "failed"} /\ Still)
      /\ tasks \in [Works -> TaskTypes]
  BY ComputerTyped DEF Creates, ComputersInv
<1>2. tasks[w].run = None
  BY <1>1, TaskFields DEF TaskHolds
<1>3. tasks' = [tasks EXCEPT ![w] = TaskWith("queued", tasks[w].replies, None, tasks[w].answer)]
  <2>1. tasks' = [tasks EXCEPT ![w] = [tasks[w] EXCEPT !.status = "queued"]]
    BY <1>1 DEF Creates
  <2>2. [tasks[w] EXCEPT !.status = "queued"] =
            TaskWith("queued", tasks[w].replies, tasks[w].run, tasks[w].answer)
    BY TaskFields, StatusEdited
  <2>. QED
    BY <1>2, <2>1, <2>2
<1>4. Follows'
  <2>1. CASE w = 2
    <3>1. tasks'[1] = tasks[1]
      BY <1>1, <1>3, <2>1 DEF Works
    <3>. QED
      BY <1>1, <2>1, <3>1 DEF Follows, Still
  <2>2. CASE w = 1
    <3>1. tasks'[2] = tasks[2]
      BY <1>1, <1>3, <2>2 DEF Works
    <3>. QED
      BY <1>1, <2>2, <3>1 DEF Follows, ComputersInv
  <2>. QED
    BY <2>1, <2>2 DEF Works
<1>5. tasks[w].replies \in 0 .. MaxReplies /\ tasks[w].answer \in Responses \cup {NoAnswer}
      /\ "queued" \in {"queued"}
  BY TaskFields
<1>. QED
  BY <1>1, <1>2, <1>3, <1>4, <1>5, TaskStep, Zenon

\* A work that has not ended is not the first of two that follow each other.
LEMMA FollowsStays ==
  ASSUME ComputersInv, NEW w \in Works, tasks[w].status \in {"queued", "running", "asked"},
         world' = world, runs' = runs, tasks'[w].status # "new",
         \A v \in Works : v # w => tasks'[v] = tasks[v]
  PROVE  Follows'
<1>1. CASE w = 2
  <2>1. tasks'[1] = tasks[1]
    BY <1>1 DEF Works
  <2>. QED
    BY <1>1, <2>1 DEF Follows, ComputersInv, WorkOf
<1>2. CASE w = 1
  <2>1. tasks'[2] = tasks[2]
    BY <1>2 DEF Works
  <2>. QED
    BY <1>2, <2>1 DEF Follows, ComputersInv
<1>. QED
  BY <1>1, <1>2 DEF Works

LEMMA LosesStep ==
  ASSUME ComputersInv, NEW w \in Works, Loses(w)
  PROVE  ComputersInv'
<1>1. /\ tasks[w].status = "running" /\ UNCHANGED <<world, evidence, runs, sessions>>
      /\ ~Local /\ world.lossy /\ tasks \in [Works -> TaskTypes]
  BY ComputerTyped DEF Loses, ComputersInv
<1>2. tasks' = [tasks EXCEPT ![w] = TaskWith("queued", tasks[w].replies, None, tasks[w].answer)]
  <2>1. tasks' = [tasks EXCEPT ![w] = [tasks[w] EXCEPT !.status = "queued", !.run = None]]
    BY <1>1 DEF Loses
  <2>2. [tasks[w] EXCEPT !.status = "queued", !.run = None] =
            TaskWith("queued", tasks[w].replies, None, tasks[w].answer)
    BY TaskFields, RunSet, Zenon
  <2>. QED
    BY <2>1, <2>2
<1>3. /\ tasks[w].replies \in 0 .. MaxReplies /\ tasks[w].answer \in Responses \cup {NoAnswer}
      /\ "queued" \in {"queued"}
  BY TaskFields
<1>4. Follows'
  <2>1. /\ tasks'[w].status = "queued" /\ \A v \in Works : v # w => tasks'[v] = tasks[v]
    BY <1>1, <1>2 DEF TaskWith
  <2>. QED
    BY <1>1, <2>1, FollowsStays
<1>. QED
  BY <1>1, <1>2, <1>3, <1>4, TaskStep, Zenon

LEMMA RepliesStep ==
  ASSUME ComputersInv, NEW w \in Works, Replies(w)
  PROVE  ComputersInv'
<1>1. /\ tasks[w].status = "asked" /\ UNCHANGED <<world, evidence, runs, sessions>>
      /\ tasks[w].replies < MaxReplies /\ tasks \in [Works -> TaskTypes]
  BY ComputerTyped DEF Replies, ComputersInv
<1>2. tasks[w].run = None
  BY <1>1, TaskFields DEF TaskHolds
<1>3. tasks' = [tasks EXCEPT ![w] = TaskWith("queued", tasks[w].replies + 1, None, NoAnswer)]
  <2>. DEFINE n == tasks[w].replies + 1
  <2>1. tasks' = [tasks EXCEPT ![w] = Asked(tasks[w], "queued", n, NoAnswer)]
    BY <1>1 DEF Replies, Asked
  <2>2. tasks[w] \in TaskTypes
    BY TaskFields
  <2>. HIDE DEF n
  <2>3. Asked(tasks[w], "queued", n, NoAnswer) = TaskWith("queued", n, tasks[w].run, NoAnswer)
    BY <2>2, AskedAgain
  <2>4. tasks' = [tasks EXCEPT ![w] = TaskWith("queued", n, None, NoAnswer)]
    BY <1>2, <2>1, <2>3
  <2>. QED
    BY <2>4 DEF n
<1>4. /\ tasks[w].replies + 1 \in 0 .. MaxReplies /\ NoAnswer \in Responses \cup {NoAnswer}
      /\ "queued" \in {"queued"}
  BY <1>1, TaskFields DEF MaxReplies
<1>5. Follows'
  <2>1. /\ tasks'[w].status = "queued" /\ \A v \in Works : v # w => tasks'[v] = tasks[v]
    BY <1>1, <1>3 DEF TaskWith
  <2>. QED
    BY <1>1, <2>1, FollowsStays
<1>. QED
  BY <1>1, <1>2, <1>3, <1>4, <1>5, TaskStep, Zenon

LEMMA EvidenceStep ==
  ASSUME ComputersInv, EvidenceChanges
  PROVE  ComputersInv'
<1>1. UNCHANGED <<world, tasks, runs, sessions>> /\ evidence' \in Versions
  BY ComputerTyped DEF EvidenceChanges, ComputersInv, Versions
<1>2. Clients
  BY <1>1, ComputerTyped DEF Clients, ComputersInv, ComputerTypes, RunTypes
<1>3. \A w \in Works : TaskHolds(w)' /\ OwnEntries(w)'
  BY <1>1 DEF ComputersInv, TaskHolds, OwnEntries, Settled, WorkOf, Local
<1>4. \A q \in DOMAIN runs' : Sole(q)'
  BY <1>1 DEF ComputersInv, Sole, WorkOf, Local
<1>5. Follows' /\ SecondBegun'
  BY <1>1 DEF ComputersInv, Follows, SecondBegun, WorkOf
<1>6. ~Local /\ ~world.lossy => ContextHeld'
  BY <1>1 DEF ComputersInv, ContextHeld, Settled
<1>. QED
  BY <1>2, <1>3, <1>4, <1>5, <1>6, ClientStep

LEMMA SendsStep ==
  ASSUME ComputersInv, NEW w \in Works, NEW n, n = Len(runs) + 1, Sends(w)
  PROVE  ComputersInv'
<1>. DEFINE request == [work |-> w, replies |-> tasks[w].replies, evidence |-> evidence]
            new == [phase |-> "sent", request |-> request, copied |-> 0, before |-> <<>>,
                    answer |-> NoAnswer]
<1>1. /\ tasks[w].status = "queued" /\ UNCHANGED <<world, evidence, sessions>>
      /\ tasks \in [Works -> TaskTypes] /\ Len(runs) < world.most /\ runs' = Append(runs, new)
  BY ComputerTyped DEF Sends, ComputersInv
<1>2. /\ Len(runs) \in Nat /\ DOMAIN runs = 1 .. Len(runs) /\ runs \in Seq(RunTypes)
      /\ world.most \in 1 .. MaxRuns /\ MaxRuns \in Nat /\ evidence \in Versions
  BY ComputerTyped DEF ComputersInv, ComputerTypes, RunTypes, RunIds
<1>3. tasks[w].run = None /\ tasks[w].replies \in 0 .. MaxReplies /\ TaskHolds(w)
      /\ tasks[w].answer \in Responses \cup {NoAnswer}
  BY <1>1, TaskFields DEF TaskHolds
<1>4. new \in RunTypes /\ new.phase = "sent" /\ new.copied = 0 /\ new.request = request
      /\ request.work = w /\ request.replies = tasks[w].replies
  <2>1. request \in Requests
    BY <1>2, <1>3 DEF Requests
  <2>2. "sent" \in RunPhases /\ 0 \in 0 .. Len(Preserved)
    BY ComputerTyped DEF RunPhases, ComputersInv
  <2>. HIDE DEF request
  <2>3. new \in RunTypes
    BY <2>1, <2>2 DEF RunTypes
  <2>. QED
    BY <2>3 DEF request
<1>. HIDE DEF new, request
<1>5. /\ runs' \in Seq(RunTypes) /\ Len(runs') = n /\ DOMAIN runs' = 1 .. n
      /\ \A q \in DOMAIN runs : runs'[q] = runs[q] /\ q \in DOMAIN runs'
      /\ runs'[n] = new /\ n \in DOMAIN runs' /\ n \in 1 .. MaxRuns /\ n <= world.most
      /\ \A q \in DOMAIN runs' : q = n \/ q \in DOMAIN runs
  <2>. HIDE DEF RunTypes
  <2>. QED
    BY <1>1, <1>2, <1>4
<1>6. tasks' = [tasks EXCEPT ![w] = TaskWith("running", tasks[w].replies, n, tasks[w].answer)]
  <2>1. tasks' = [tasks EXCEPT ![w] = [tasks[w] EXCEPT !.status = "running", !.run = n]]
    BY <1>1 DEF Sends
  <2>2. tasks[w] \in TaskTypes
    BY TaskFields
  <2>3. [tasks[w] EXCEPT !.status = "running", !.run = n] =
            TaskWith("running", tasks[w].replies, n, tasks[w].answer)
    BY <2>2, RunSet, Zenon
  <2>. QED
    BY <2>1, <2>3
<1>7. /\ tasks' \in [Works -> TaskTypes] /\ \A v \in Works : v # w => tasks'[v] = tasks[v]
      /\ tasks'[w].status = "running" /\ tasks'[w].run = n /\ tasks'[w].replies = tasks[w].replies
  <2>1. "running" \in TaskStatuses /\ n \in 0 .. MaxRuns
    BY <1>5 DEF TaskStatuses
  <2>. DEFINE task == TaskWith("running", tasks[w].replies, n, tasks[w].answer)
  <2>2. task \in TaskTypes
    BY <1>3, <2>1, TaskMade
  <2>3. task.status = "running" /\ task.run = n /\ task.replies = tasks[w].replies
    BY TaskHas
  <2>4. tasks' = [tasks EXCEPT ![w] = task]
    BY <1>6
  <2>. HIDE DEF task
  <2>. QED
    BY <2>2, <2>3, <2>4, TaskPut
<1>8. Clients
  BY <1>1, <1>2, <1>4, <1>5, <1>7 DEF Clients
<1>9. ASSUME NEW v \in Works PROVE TaskHolds(v)' /\ OwnEntries(v)'
  <2>1. TaskHolds(v) /\ OwnEntries(v)
    BY TaskFields
  <2>2. CASE v = w
    <3>1. n # None
      BY <1>5 DEF None
    <3>. QED
      BY <1>4, <1>5, <1>7, <2>2, <3>1 DEF TaskHolds, OwnEntries, Settled, WorkOf
  <2>3. CASE v # w
    <3>1. tasks'[v] = tasks[v]
      BY <1>7, <2>3
    <3>2. TaskHolds(v)'
      BY <1>5, <2>1, <3>1 DEF TaskHolds, Settled, WorkOf
    <3>3. OwnEntries(v)'
      BY <1>1, <1>5, <2>1, <3>1 DEF OwnEntries, Settled, WorkOf, Local
    <3>. QED
      BY <3>2, <3>3
  <2>. QED
    BY <2>2, <2>3
<1>10. ASSUME NEW q \in DOMAIN runs' PROVE Sole(q)'
  <2>1. CASE q = n
    BY <1>4, <1>5, <1>7, <2>1 DEF Sole, WorkOf
  <2>2. CASE q # n
    <3>1. q \in DOMAIN runs
      BY <1>5, <2>2
    <3>2. Sole(q) /\ WorkOf(q) \in Works /\ WorkOf(q)' = WorkOf(q) /\ q # 0
          /\ runs'[q] = runs[q]
      BY <1>5, <3>1, ComputerTyped, RunFields, RunKnows DEF ComputersInv, WorkOf
    <3>3. CASE WorkOf(q) = w
      BY <1>1, <1>3, <3>2, <3>3 DEF Sole, Local, None
    <3>4. CASE WorkOf(q) # w
      BY <1>1, <1>7, <3>2, <3>4 DEF Sole, Local
    <3>. QED
      BY <3>3, <3>4
  <2>. QED
    BY <2>1, <2>2
<1>11. SecondBegun'
  <2>1. tasks[2].status # "new" => tasks'[2].status # "new"
    BY <1>7 DEF Works
  <2>2. ASSUME NEW q \in DOMAIN runs', WorkOf(q)' = 2 PROVE tasks'[2].status # "new"
    <3>1. CASE q = n
      BY <1>4, <1>5, <1>7, <2>2, <3>1 DEF WorkOf
    <3>2. CASE q # n
      BY <1>5, <2>1, <2>2, <3>2 DEF WorkOf, SecondBegun, ComputersInv
    <3>. QED
      BY <3>1, <3>2
  <2>. QED
    BY <1>1, <2>1, <2>2 DEF SecondBegun, ComputersInv
<1>12. Follows'
  <2>1. CASE w = 2
    <3>1. tasks'[1] = tasks[1]
      BY <1>7, <2>1 DEF Works
    <3>2. WorkOf(n)' = 2
      BY <1>4, <1>5, <2>1 DEF WorkOf
    <3>3. Follows
      BY DEF ComputersInv
    <3>4. \A q \in DOMAIN runs' : WorkOf(q)' = 1 => q \in DOMAIN runs /\ WorkOf(q) = 1
      BY <1>5, <3>2 DEF WorkOf
    <3>. QED
      BY <1>1, <1>5, <2>1, <3>1, <3>3, <3>4 DEF Follows
  <2>2. CASE w = 1
    <3>1. tasks'[2] = tasks[2]
      BY <1>7, <2>2 DEF Works
    <3>. QED
      BY <1>1, <2>2, <3>1 DEF Follows, ComputersInv
  <2>. QED
    BY <2>1, <2>2 DEF Works
<1>13. ~Local /\ ~world.lossy => ContextHeld'
  <2>. SUFFICES ASSUME ~Local, ~world.lossy, NEW v \in Works, Settled(v)'
                PROVE  tasks'[v].answer.saw = tasks'[v].answer.for
    BY DEF ContextHeld
  <2>1. v # w
    BY <1>7 DEF Settled
  <2>. QED
    BY <1>7, <2>1 DEF ComputersInv, ContextHeld, Settled
<1>. QED
  BY <1>8, <1>9, <1>10, <1>11, <1>12, <1>13, ClientStep

LEMMA SettlesStep ==
  ASSUME ComputersInv, NEW r \in DOMAIN runs, NEW w, w = runs[r].request.work, Settles(r)
  PROVE  ComputersInv'
<1>. DEFINE a == runs[r].answer
            state == IF runs[r].phase = "failed" THEN "queued"
                      ELSE CASE ~a.asks -> "answered"
                             [] a.asks /\ a.outbox # {} -> "failed"
                             [] OTHER -> "asked"
            answer == IF runs[r].phase = "failed" THEN tasks[w].answer ELSE a
<1>1. /\ runs[r].phase \in {"returning", "failed"} /\ UNCHANGED <<world, evidence, sessions>>
      /\ runs' = [runs EXCEPT ![r] = Ended(@, "gone")] /\ ComputerTypes
      /\ tasks \in [Works -> TaskTypes] /\ runs[r].phase # "gone"
  BY ComputerTyped DEF Settles, ComputersInv
<1>2. /\ w \in Works /\ a \in Responses \cup {NoAnswer} /\ r # 0 /\ RunHolds(r) /\ SawOwn(r)
      /\ OutboxHolds(r) /\ WorkOf(r) = w
  BY RunKnows, ComputerTyped, RunFields DEF ComputersInv, WorkOf
<1>3. /\ runs' \in Seq(RunTypes) /\ Len(runs') = Len(runs) /\ DOMAIN runs' = DOMAIN runs
      /\ \A q \in DOMAIN runs : q # r => runs'[q] = runs[q]
      /\ \A q \in DOMAIN runs : runs'[q].request = runs[q].request
      /\ runs'[r].phase = "gone"
  <2>0. ComputerTypes
    BY <1>1
  <2>1. "gone" \in RunPhases /\ 0 \in 0 .. Len(Preserved) /\ <<>> \in {<<>>} \cup Protections
        /\ NoAnswer \in Responses \cup {NoAnswer}
    BY <1>1, ComputerTyped DEF RunPhases
  <2>. DEFINE new == RunWith(runs[r], "gone", 0, <<>>, NoAnswer)
  <2>2. runs' = [runs EXCEPT ![r] = new]
    BY <2>0, <1>1, RunUpdates DEF Changed
  <2>3. runs[r] \in RunTypes /\ runs[r].request \in Requests
    BY <2>0, ComputerTyped, RunFields
  <2>4. new \in RunTypes
    BY <2>1, <2>3, RunMade, Zenon DEF RunWith
  <2>5. new.phase = "gone" /\ new.request = runs[r].request
    BY DEF RunWith
  <2>. HIDE DEF new
  <2>6. Len(runs) \in Nat /\ DOMAIN runs = 1 .. Len(runs) /\ runs \in [1 .. Len(runs) -> RunTypes]
    BY <2>0, ComputerTyped
  <2>. HIDE DEF RunTypes
  <2>7. runs' \in [1 .. Len(runs) -> RunTypes] /\ runs'[r] = new
        /\ \A q \in DOMAIN runs : q # r => runs'[q] = runs[q]
    BY <2>2, <2>4, <2>6
  <2>8. runs' \in Seq(RunTypes) /\ Len(runs') = Len(runs) /\ DOMAIN runs' = DOMAIN runs
    BY <2>6, <2>7
  <2>. QED
    BY <2>5, <2>7, <2>8
<1>4. TaskHolds(w) /\ tasks[w] \in TaskTypes /\ tasks[w].replies \in 0 .. MaxReplies
      /\ tasks[w].answer \in Responses \cup {NoAnswer}
  BY <1>2, TaskFields
\* What the task becomes, when it hears the run.
<1>5. ASSUME tasks[w].run = r
      PROVE  /\ tasks' \in [Works -> TaskTypes] /\ \A v \in Works : v # w => tasks'[v] = tasks[v]
             /\ tasks'[w].status = state /\ tasks'[w].replies = tasks[w].replies
             /\ tasks'[w].run = None /\ tasks'[w].answer = answer
             /\ state \in {"queued", "answered", "failed", "asked"}
             /\ state \in {"answered", "asked"} => runs[r].phase = "returning" /\ answer = a
  <2>1. state \in {"queued", "answered", "failed", "asked"}
    OBVIOUS
  <2>2. state \in {"answered", "asked"} => runs[r].phase = "returning" /\ answer = a
    BY <1>1
  <2>3. tasks' = [tasks EXCEPT ![w] = TaskWith(state, tasks[w].replies, None, answer)]
    <3>1. CASE runs[r].phase = "failed"
      <4>1. tasks' = [tasks EXCEPT ![w] = [tasks[w] EXCEPT !.status = "queued", !.run = None]]
        BY <1>1, <1>2, <1>5, <3>1 DEF Settles
      <4>2. [tasks[w] EXCEPT !.status = "queued", !.run = None] =
                TaskWith("queued", tasks[w].replies, None, tasks[w].answer)
        BY <1>4, RunSet, Zenon
      <4>. QED
        BY <3>1, <4>1, <4>2
    <3>2. CASE runs[r].phase # "failed"
      <4>1. tasks' = [tasks EXCEPT ![w] =
                        Answered(tasks[w], None, a, state)]
        BY <1>1, <1>2, <1>5, <3>2 DEF Settles, Answered
      <4>. HIDE DEF state
      <4>2. Answered(tasks[w], None, a, state) = TaskWith(state, tasks[w].replies, None, a)
        BY <1>4, AnswerSet
      <4>. QED
        BY <3>2, <4>1, <4>2
    <3>. QED
      BY <3>1, <3>2
  <2>4. state \in TaskStatuses /\ None \in 0 .. MaxRuns /\ answer \in Responses \cup {NoAnswer}
    BY <1>1, <1>2, <1>4, <2>1, ComputerTyped DEF TaskStatuses, None
  <2>. HIDE DEF state, answer
  <2>. DEFINE new == TaskWith(state, tasks[w].replies, None, answer)
  <2>5. new \in TaskTypes
    BY <1>4, <2>4, TaskMade
  <2>6. new.status = state /\ new.run = None /\ new.replies = tasks[w].replies
        /\ new.answer = answer
    BY TaskHas
  <2>7. tasks' = [tasks EXCEPT ![w] = new]
    BY <2>3
  <2>. HIDE DEF new
  <2>. QED
    BY <1>2, <2>1, <2>2, <2>5, <2>6, <2>7, TaskPut
<1>6. tasks[w].run # r => tasks' = tasks
  BY DEF Settles
<1>. HIDE DEF state, answer, a
<1>7. tasks' \in [Works -> TaskTypes] /\ \A v \in Works : v # w => tasks'[v] = tasks[v]
  BY <1>1, <1>5, <1>6
<1>8. Clients
  <2>1. evidence \in Versions /\ Len(runs) <= world.most
    BY ComputerTyped DEF ComputersInv
  <2>. QED
    BY <1>1, <1>3, <1>7, <2>1 DEF Clients
<1>9. \A q \in DOMAIN runs : WorkOf(q)' = WorkOf(q)
  BY <1>3 DEF WorkOf
<1>10. ASSUME NEW v \in Works PROVE TaskHolds(v)' /\ OwnEntries(v)'
  <2>1. TaskHolds(v) /\ OwnEntries(v)
    BY TaskFields
  <2>2. CASE tasks'[v] = tasks[v]
    <3>1. TaskHolds(v)'
      BY <1>3, <1>9, <2>1, <2>2 DEF TaskHolds, Settled
    <3>2. OwnEntries(v)'
      BY <1>1, <1>3, <1>9, <2>1, <2>2 DEF OwnEntries, Settled, Local
    <3>. QED
      BY <3>1, <3>2
  <2>3. CASE v = w /\ tasks[w].run = r
    <3>1. TaskHolds(w)'
      <4>1. Settled(w)' => answer.for.work = w /\ answer.for.replies = tasks[w].replies
        <5>1. Settled(w)' => answer.for = runs[r].request /\ answer = a
          BY <1>2, <1>5, <2>3 DEF Settled, RunHolds, a
        <5>2. runs[r].request.replies = tasks[w].replies
          BY <1>2, <1>4, <2>3 DEF TaskHolds, None
        <5>. QED
          BY <1>2, <5>1, <5>2 DEF WorkOf
      <4>2. tasks'[w].status # "running"
        BY <1>5, <2>3
      <4>. QED
        BY <1>5, <2>3, <4>1, <4>2 DEF TaskHolds
    <3>2. OwnEntries(w)'
      <4>. SUFFICES ASSUME Local, ~world.overlaps, Settled(w)', NEW q \in answer.outbox
                    PROVE  q \in DOMAIN runs /\ WorkOf(q) = w
        BY <1>1, <1>3, <1>5, <1>9, <2>3 DEF OwnEntries, Local
      <4>1. answer.outbox \subseteq {r}
        BY <1>2, <1>5, <2>3 DEF Settled, OutboxHolds, a
      <4>. QED
        BY <1>2, <4>1
    <3>. QED
      BY <2>3, <3>1, <3>2
  <2>. QED
    BY <1>6, <1>7, <2>2, <2>3
<1>11. ASSUME NEW q \in DOMAIN runs' PROVE Sole(q)'
  <2>1. Sole(q) /\ WorkOf(q) \in Works /\ WorkOf(q)' = WorkOf(q)
    BY <1>3, <1>9, ComputerTyped, RunFields DEF ComputersInv, WorkOf
  <2>2. CASE q = r
    BY <1>3, <2>2 DEF Sole
  <2>3. CASE q # r /\ (WorkOf(q) # w \/ tasks[w].run # r)
    <3>1. tasks'[WorkOf(q)] = tasks[WorkOf(q)]
      BY <1>6, <1>7, <2>1, <2>3
    <3>. QED
      BY <1>1, <1>3, <2>1, <2>3, <3>1 DEF Sole, Local
  <2>4. CASE q # r /\ WorkOf(q) = w /\ tasks[w].run = r
    BY <1>1, <1>3, <2>1, <2>4 DEF Sole, Local
  <2>. QED
    BY <2>2, <2>3, <2>4
<1>12. SecondBegun'
  <2>1. tasks[2].status # "new" => tasks'[2].status # "new"
    BY <1>5, <1>6, <1>7 DEF Works
  <2>2. \A q \in DOMAIN runs' : WorkOf(q)' = 2 => tasks'[2].status # "new"
    BY <1>3, <1>9, <2>1 DEF SecondBegun, ComputersInv
  <2>. QED
    BY <1>1, <2>1, <2>2 DEF SecondBegun, ComputersInv
<1>13. Follows'
  <2>. SUFFICES ASSUME ~world.overlaps, tasks'[2].status # "new" PROVE Follows'
    BY <1>1 DEF Follows
  <2>1. tasks[2].status # "new"
    <3>1. WorkOf(r) = 2 => tasks[2].status # "new"
      BY DEF SecondBegun, ComputersInv
    <3>. QED
      BY <1>2, <1>7, <3>1 DEF Works
  <2>2. w = 2
    BY <1>1, <1>2, <2>1, SecondAlone
  <2>3. tasks'[1] = tasks[1]
    BY <1>7, <2>2 DEF Works
  <2>4. Follows
    BY DEF ComputersInv
  <2>. QED
    BY <1>1, <1>2, <1>3, <1>9, <2>1, <2>2, <2>3, <2>4 DEF Follows
<1>14. ~Local /\ ~world.lossy => ContextHeld'
  <2>. SUFFICES ASSUME ~Local, ~world.lossy, NEW v \in Works, Settled(v)'
                PROVE  tasks'[v].answer.saw = tasks'[v].answer.for
    BY DEF ContextHeld
  <2>1. CASE tasks'[v] = tasks[v]
    BY <2>1 DEF ComputersInv, ContextHeld, Settled
  <2>2. CASE v = w /\ tasks[w].run = r
    <3>1. answer = a /\ a.for = runs[r].request /\ a.saw = runs[r].request
      BY <1>2, <1>5, <2>2 DEF Settled, RunHolds, SawOwn, a
    <3>. QED
      BY <1>5, <2>2, <3>1
  <2>. QED
    BY <1>6, <1>7, <2>1, <2>2
<1>. QED
  BY <1>8, <1>10, <1>11, <1>12, <1>13, <1>14, ClientStep

-----------------------------------------------------------------------------
LEMMA ComputersInitHolds == ComputersInit => ComputersInv
<1>. SUFFICES ASSUME ComputersInit PROVE ComputersInv
  OBVIOUS
<1>1. /\ world \in Worlds /\ evidence \in Versions /\ runs = <<>> /\ Len(runs) = 0
      /\ DOMAIN runs = {} /\ runs \in Seq(RunTypes) /\ world.most \in Nat
  BY ComputersAssumption DEF ComputersInit, Versions, RunIds
<1>. DEFINE start == TaskWith("new", 0, None, NoAnswer)
<1>2. start \in TaskTypes
  <2>1. /\ "new" \in TaskStatuses /\ 0 \in 0 .. MaxReplies /\ None \in 0 .. MaxRuns
        /\ NoAnswer \in Responses \cup {NoAnswer}
    BY ComputersAssumption DEF TaskStatuses, MaxReplies, None
  <2>. QED
    BY <2>1, TaskMade, Zenon
<1>3. start.status = "new" /\ start.run = None
  BY DEF TaskWith
<1>4. tasks = [w \in Works |-> start]
  BY DEF ComputersInit, TaskWith
<1>5. EmptySession \in SessionTypes /\ EmptySession.cache = {} /\ EmptySession.marked = FALSE
  <2>. DEFINE files == [p \in Paths |-> 0]
  <2>1. files \in [Paths -> 0 .. MaxRuns]
    BY ComputersAssumption
  <2>. HIDE DEF files
  <2>2. EmptySession = [files |-> files, outbox |-> {}, results |-> {}, context |-> NoRequest,
                        inputs |-> {}, marked |-> FALSE, cache |-> {}]
    BY DEF EmptySession, files
  <2>. QED
    BY <2>1, <2>2 DEF SessionTypes
<1>6. sessions = [s \in Sessions |-> EmptySession]
  BY DEF ComputersInit, Sessions
<1>. HIDE DEF start
<1>7. tasks \in [Works -> TaskTypes] /\ sessions \in [Sessions -> SessionTypes]
      /\ (\A w \in Works : tasks[w] = start) /\ (\A s \in Sessions : sessions[s] = EmptySession)
  BY <1>2, <1>4, <1>5, <1>6
<1>8. ComputerTypes
  BY <1>1, <1>7 DEF ComputerTypes, TaskTypes, SessionTypes, RunTypes, Sessions
<1>9. ASSUME NEW w \in Works PROVE TaskHolds(w) /\ OwnEntries(w) /\ ~Settled(w)
  BY <1>3, <1>7 DEF TaskHolds, OwnEntries, Settled
<1>10. \A s \in Sessions : CacheHolds(s) /\ CacheSawOwn(s) /\ ~sessions[s].marked
  BY <1>5, <1>7 DEF CacheHolds, CacheSawOwn
<1>11. Follows /\ SecondBegun /\ ContextHeld
  BY <1>1, <1>3, <1>7, <1>9, <1>10 DEF Follows, SecondBegun, ContextHeld, Works, Sessions
<1>. QED
  BY <1>1, <1>8, <1>9, <1>10, <1>11 DEF ComputersInv, Sessions

LEMMA ComputersNextHolds == ComputersInv /\ [ComputersNext]_computerVars => ComputersInv'
<1>. SUFFICES ASSUME ComputersInv, [ComputersNext]_computerVars PROVE ComputersInv'
  OBVIOUS
<1>1. CASE EvidenceChanges
  BY <1>1, EvidenceStep
<1>2. ASSUME NEW w \in Works, Creates(w) \/ Sends(w) \/ Loses(w) \/ Replies(w)
      PROVE  ComputersInv'
  <2>1. CASE Sends(w)
    <3>1. PICK n : n = Len(runs) + 1
      OBVIOUS
    <3>. QED
      BY <2>1, <3>1, SendsStep
  <2>. QED
    BY <1>2, <2>1, CreatesStep, LosesStep, RepliesStep
<1>3. ASSUME NEW r \in RunIds,
             \/ Opens(r) \/ Copies(r) \/ Marks(r) \/ Probes(r) \/ Materializes(r) \/ Snapshots(r)
             \/ ReadsContext(r) \/ Acts(r) \/ Validates(r) \/ Collects(r) \/ Caches(r)
             \/ RuntimeDies(r) \/ Prepares(r) \/ CollectsLocal(r)
      PROVE  ComputersInv'
  BY <1>3, OpensStep, CopiesStep, MarksStep, ProbesStep, MaterializesStep, SnapshotsStep, ReadsStep,
     ActsStep, ValidatesStep, CollectsStep, CachesStep, RuntimeDiesStep, PreparesStep
<1>4. ASSUME NEW r \in DOMAIN runs, Settles(r) PROVE ComputersInv'
  <2>1. PICK w : w = runs[r].request.work
    OBVIOUS
  <2>. QED
    BY <1>4, <2>1, SettlesStep
<1>5. CASE UNCHANGED computerVars
  <2>. USE <1>5 DEF computerVars
  <2>1. Clients
    BY ComputerTyped DEF Clients, ComputersInv, ComputerTypes, RunTypes
  <2>2. \A w \in Works : TaskHolds(w)' /\ OwnEntries(w)'
    BY DEF ComputersInv, TaskHolds, OwnEntries, Settled, WorkOf, Local
  <2>3. \A q \in DOMAIN runs' : Sole(q)'
    BY DEF ComputersInv, Sole, WorkOf, Local
  <2>4. Follows' /\ SecondBegun'
    BY DEF ComputersInv, Follows, SecondBegun, WorkOf
  <2>5. ~Local /\ ~world.lossy => ContextHeld'
    BY DEF ComputersInv, ContextHeld, Settled
  <2>. QED
    BY <2>1, <2>2, <2>3, <2>4, <2>5, ClientStep
<1>. QED
  BY <1>1, <1>2, <1>3, <1>4, <1>5, Zenon DEF ComputersNext

\* Every state of the Computers satisfies the invariant: tasks know their
\* runs, a run has an answer to its own request, caches answer what they are
\* asked, and forks have what they have copied.
THEOREM ComputersInvariance == ComputersSpec => []ComputersInv
  BY ComputersInitHolds, ComputersNextHolds, PTL DEF ComputersSpec

\* What an invocation takes for its answer was computed for it, with all its
\* replies, whatever is lost, repeated or remembered by the cache; and from its
\* own context, where no answer is lost, although works overlap in a session
\* (computers.py, execute_invocation; cloudflare/computer-runtime/index.ts).
THEOREM OwnAnswers == ComputersSpec => []AnswersAreOwn
<1>1. ComputersInv => AnswersAreOwn
  BY DEF ComputersInv, AnswersAreOwn, TaskHolds
<1>. QED
  BY <1>1, ComputersInvariance, PTL

\* Where works do not overlap, a session that counts as forked has what its parent
\* preserves, though the runtime may die while it copies, and a local
\* session collects no entry of another invocation (materializeFork;
\* local_computer.py, _prepare_root).
THEOREM FilesAreOwn == ComputersSpec => []OwnFiles
<1>1. ComputersInv => OwnFiles
  BY DEF ComputersInv, OwnFiles, OwnEntries, NeverAnothers, WorkOf
<1>. QED
  BY <1>1, ComputersInvariance, PTL
===============================================================================
