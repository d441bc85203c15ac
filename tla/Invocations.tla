---------------------------- MODULE Invocations ----------------------------
(***************************************************************************)
(* One durable Computer invocation: its status and journal, the jobs that  *)
(* run it (one for its creation and one for each turn of its user), the    *)
(* executors that claim them and a client that follows the event stream    *)
(* (invocations.py, the invocation lane of worker.py, api.py).             *)
(*                                                                         *)
(* The status is the only thing that keeps two executors apart: whoever    *)
(* moves it to "running" works, and what an executor learns is applied by  *)
(* a later transaction that is not fenced by its claim.                    *)
(***************************************************************************)
EXTENDS Naturals, Sequences, FiniteSets

CONSTANTS
    Executors,
    Nobody,
    MaxAttempts,  \* JOB_MAX_ATTEMPTS
    MaxTurns,     \* bound: replies of the user
    MaxRevivals,  \* bound: dead jobs revived by an operator
    Deployments   \* the failures that are looked at

ASSUME InvocationsAssumption ==
    /\ MaxAttempts \in Nat \ {0} /\ MaxTurns \in Nat /\ MaxRevivals \in Nat
    /\ Nobody \notin Executors
    /\ Deployments \subseteq
        [crashes : BOOLEAN,   \* processes die
         zombies : BOOLEAN,   \* leases lapse under executors at work
         follows : BOOLEAN,   \* a client reads the stream
         turns : 0 .. MaxTurns, revivals : 0 .. MaxRevivals]   \* bounds

VARIABLES
    deployment, \* one of Deployments, which does not change
    status,     \* of the invocation
    journal,    \* kinds of the invocation_event rows, by ordinal
    job,        \* job[n]: the job of the n-th turn, 0 for the creation
    runner,     \* executor memory
    follower,   \* the memory of stream_invocation_events
    revivals    \* operator requests so far

invocationVars == <<deployment, status, journal, job, runner, follower, revivals>>

Turns == 0 .. MaxTurns
Terminal == {"succeeded", "failed", "cancelled", "context_exhausted"}
Runnable == {"queued", "awaiting_input"}
Kinds == {"queued", "started", "execution_interrupted", "awaiting_input", "user_turn", "completed",
          "failed", "cancelled", "context_exhausted"}
Phases == {"idle", "claimed", "running", "complete", "retry", "bury"}
Idle == [phase |-> "idle", turn |-> 0, final |-> FALSE, heard |-> 0]
NewJob == [state |-> "active", attempts |-> 0, owner |-> Nobody]

InvocationTypes ==
    /\ deployment \in Deployments
    /\ status \in {"absent", "running"} \cup Runnable \cup Terminal
    /\ journal \in Seq(Kinds)
    /\ job \in [Turns -> [state : {"none", "active", "done", "dead"}, attempts : 0 .. MaxAttempts,
                          owner : Executors \cup {Nobody}]]
    /\ runner \in [Executors -> [phase : Phases, turn : Turns, final : BOOLEAN, heard : Turns]]
    /\ follower \in [cursor : Nat, fresh : BOOLEAN, at : {"page", "status", "closed"}]
    /\ revivals \in 0 .. MaxRevivals

InvocationsInit ==
    /\ deployment \in Deployments
    /\ status = "absent"
    /\ journal = <<>>
    /\ job = [n \in Turns |-> [NewJob EXCEPT !.state = "none"]]
    /\ runner = [e \in Executors |-> Idle]
    /\ follower = [cursor |-> 0, fresh |-> FALSE, at |-> "page"]
    /\ revivals = 0

UserTurns == Cardinality({k \in DOMAIN journal : journal[k] = "user_turn"})
Append1(kind) == journal' = Append(journal, kind)

(***************************************************************************)
(* Requests.                                                               *)
(***************************************************************************)
\* create_invocation: the row, its first event and its first job.  A replay of
\* the idempotency key returns the row and changes nothing.
Create ==
    /\ status = "absent"
    /\ status' = "queued"
    /\ Append1("queued")
    /\ job' = [job EXCEPT ![0] = NewJob]
    /\ UNCHANGED <<deployment, runner, follower, revivals>>

\* cancel_invocation: the jobs stay, and find the invocation ended.
CancelInvocation ==
    /\ status \in {"queued", "running", "awaiting_input"}
    /\ status' = "cancelled"
    /\ Append1("cancelled")
    /\ UNCHANGED <<deployment, job, runner, follower, revivals>>

\* continue_invocation, the reply to an invocation that has asked.
Continue ==
    /\ status = "awaiting_input"
    /\ UserTurns < deployment.turns
    /\ status' = "queued"
    /\ Append1("user_turn")
    /\ job' = [job EXCEPT ![UserTurns + 1] = NewJob]
    /\ UNCHANGED <<deployment, runner, follower, revivals>>

\* retry_dead_job, on an operator's request.
ReviveInvocationJob(n) ==
    /\ job[n].state = "dead" /\ revivals < deployment.revivals
    /\ job' = [job EXCEPT ![n] = NewJob]
    /\ revivals' = revivals + 1
    /\ UNCHANGED <<deployment, status, journal, runner, follower>>

(***************************************************************************)
(* The jobs.                                                               *)
(***************************************************************************)
ClaimInvocation(e, n) ==
    /\ runner[e].phase = "idle"
    /\ job[n].state = "active" /\ job[n].owner = Nobody /\ job[n].attempts < MaxAttempts
    /\ job' = [job EXCEPT ![n].owner = e, ![n].attempts = @ + 1]
    /\ runner' = [runner EXCEPT ![e] =
            [Idle EXCEPT !.phase = "claimed", !.turn = n,
                         !.final = job[n].attempts + 1 >= MaxAttempts]]
    /\ UNCHANGED <<deployment, status, journal, follower, revivals>>

ReapInvocation(n) ==
    /\ job[n].state = "active" /\ job[n].owner = Nobody /\ job[n].attempts >= MaxAttempts
    /\ job' = [job EXCEPT ![n].state = "dead"]
    /\ UNCHANGED <<deployment, status, journal, runner, follower, revivals>>

OwnsTurn(e) ==
    /\ runner[e].phase # "idle"
    /\ job[runner[e].turn].state = "active" /\ job[runner[e].turn].owner = e

\* A lease lapses once its executor is gone, or beats too late.
LeaseLapses(n) ==
    LET e == job[n].owner IN
    /\ job[n].state = "active" /\ e # Nobody
    /\ deployment.zombies \/ runner[e].phase = "idle" \/ runner[e].turn # n
    /\ job' = [job EXCEPT ![n].owner = Nobody]
    /\ UNCHANGED <<deployment, status, journal, runner, follower, revivals>>

\* The heartbeat finds the claim gone and the operation is cancelled.
Abandon(e) ==
    /\ runner[e].phase \in {"claimed", "running"} /\ ~OwnsTurn(e)
    /\ runner' = [runner EXCEPT ![e] = Idle]
    /\ UNCHANGED <<deployment, status, journal, job, follower, revivals>>

RunnerDies(e) ==
    /\ deployment.crashes /\ runner[e].phase # "idle"
    /\ runner' = [runner EXCEPT ![e] = Idle]
    /\ UNCHANGED <<deployment, status, journal, job, follower, revivals>>

\* How the lane settles a claim; whoever has lost it changes nothing.
SettleJob(e) ==
    LET n == runner[e].turn
        state == CASE runner[e].phase = "complete" -> "done"
                   [] runner[e].phase = "bury" -> "dead"
                   [] OTHER -> IF job[n].attempts >= MaxAttempts THEN "dead" ELSE "active" IN
    /\ runner[e].phase \in {"complete", "retry", "bury"}
    /\ job' = IF OwnsTurn(e) THEN [job EXCEPT ![n].state = state, ![n].owner = Nobody] ELSE job
    /\ runner' = [runner EXCEPT ![e] = Idle]
    /\ UNCHANGED <<deployment, status, journal, follower, revivals>>

(***************************************************************************)
(* execute_invocation.                                                     *)
(***************************************************************************)
Goes(e, phase) == runner' = [runner EXCEPT ![e].phase = phase]

\* Fault: a run that an earlier claim left behind is taken over.
StartTakesOver(e) ==
    /\ runner[e].phase = "claimed"
    /\ IF status \in Terminal
       THEN Goes(e, "complete") /\ UNCHANGED <<status, journal>>
       ELSE /\ status' = "running"
            /\ Append1("started")
            /\ runner' = [runner EXCEPT ![e].phase = "running", ![e].heard = UserTurns]
    /\ UNCHANGED <<deployment, job, follower, revivals>>

\* The first transaction: the status moves to running and the turns are read.
\* An ended invocation completes the job; one that runs is a conflict (409),
\* for which the lane buries the job.
Start(e) ==
    /\ runner[e].phase = "claimed"
    /\ \/ /\ status \in Terminal
          /\ Goes(e, "complete")
          /\ UNCHANGED <<status, journal>>
       \/ /\ status = "running"
          /\ Goes(e, "bury")
          /\ UNCHANGED <<status, journal>>
       \/ /\ status \in Runnable
          /\ status' = "running"
          /\ Append1("started")
          /\ runner' = [runner EXCEPT ![e].phase = "running", ![e].heard = UserTurns]
    /\ UNCHANGED <<deployment, job, follower, revivals>>

\* Fault: the answer is applied whatever has happened since.
Always(to, kind) == status' = to /\ Append1(kind)

\* A status and its event, unless the invocation has been cancelled.
UnlessCancelled(to, kind) ==
    IF status = "cancelled"
    THEN UNCHANGED <<status, journal>>
    ELSE status' = to /\ Append1(kind)

\* _complete_invocation: the answer with its outbox and memory, or a question.
Answer(e, to, kind) ==
    /\ runner[e].phase = "running"
    /\ UnlessCancelled(to, kind)
    /\ Goes(e, "complete")
    /\ UNCHANGED <<deployment, job, follower, revivals>>

Answers(e) == Answer(e, "succeeded", "completed")
Asks(e) == Answer(e, "awaiting_input", "awaiting_input")

\* _context_exhausted_invocation
Exhausts(e) ==
    /\ runner[e].phase = "running"
    /\ UnlessCancelled("context_exhausted", "context_exhausted")
    /\ Goes(e, "bury")
    /\ UNCHANGED <<deployment, job, follower, revivals>>

\* _fail_invocation, for what a retry would not mend: a refused reference,
\* result or outbox.
Refused(e) ==
    /\ runner[e].phase = "running"
    /\ UnlessCancelled("failed", "failed")
    /\ Goes(e, "bury")
    /\ UNCHANGED <<deployment, job, follower, revivals>>

\* A transport or unknown error: the last attempt fails the invocation, and
\* _requeue_interrupted_invocation returns an earlier one to the queue.
Interrupted(e) ==
    /\ runner[e].phase = "running"
    /\ IF runner[e].final
       THEN UnlessCancelled("failed", "failed") /\ Goes(e, "bury")
       ELSE /\ Goes(e, "retry")
            /\ IF status = "running"
               THEN status' = "queued" /\ Append1("execution_interrupted")
               ELSE UNCHANGED <<status, journal>>
    /\ UNCHANGED <<deployment, job, follower, revivals>>

(***************************************************************************)
(* stream_invocation_events: a page of events, then the status, each read  *)
(* on its own.                                                             *)
(***************************************************************************)
ReadPage ==
    /\ deployment.follows /\ status # "absent" /\ follower.at = "page"
    /\ follower' = [cursor |-> Len(journal), fresh |-> Len(journal) > follower.cursor,
                    at |-> "status"]
    /\ UNCHANGED <<deployment, status, journal, job, runner, revivals>>

ReadStatus ==
    /\ follower.at = "status"
    /\ follower' = [follower EXCEPT !.at =
            IF status \in Terminal /\ ~follower.fresh THEN "closed" ELSE "page"]
    /\ UNCHANGED <<deployment, status, journal, job, runner, revivals>>

(***************************************************************************)
InvocationsNext ==
    \/ Create \/ CancelInvocation \/ Continue
    \/ \E n \in Turns : ReviveInvocationJob(n) \/ ReapInvocation(n) \/ LeaseLapses(n)
    \/ \E e \in Executors, n \in Turns : ClaimInvocation(e, n)
    \/ \E e \in Executors :
        \/ Abandon(e) \/ RunnerDies(e) \/ SettleJob(e)
        \/ Start(e) \/ Answers(e) \/ Asks(e) \/ Exhausts(e) \/ Refused(e) \/ Interrupted(e)
    \/ ReadPage \/ ReadStatus

InvocationsSpec == InvocationsInit /\ [][InvocationsNext]_invocationVars

(***************************************************************************)
(* Properties.                                                             *)
(***************************************************************************)
\* However leases lapse and jobs are revived, at most one executor is at work
\* on an invocation, and what it works on includes every reply of its user
\* while its answer still counts (invocations.py, the status check of
\* execute_invocation and of continue_invocation).
SoleRun ==
    /\ InvocationTypes
    /\ Cardinality({e \in Executors : runner[e].phase = "running"}) <= 1
    /\ \A e \in Executors :
        runner[e].phase = "running" /\ status = "running" => runner[e].heard = UserTurns

\* A final status never changes and nothing follows it in the journal, although
\* an executor that comes late guards only against a cancellation
\* (_complete_invocation, _fail_invocation).
FinalIsFinal ==
    [][(status \in Terminal) => UNCHANGED <<status, journal>>]_invocationVars

Unfinished == \E n \in Turns : job[n].state = "active"
Attended == status \in {"queued", "running"} => Unfinished

\* An invocation that is queued or running has a job that is not finished,
\* where processes keep running and beat in time.
AttendedWhileUp == ~deployment.crashes /\ ~deployment.zombies => Attended

\* docs/api-surface.md:614 promises that an invocation survives restarts: it has
\* a job that is not finished as long as its jobs have attempts left.
SurvivesRestarts ==
    (\A n \in Turns : job[n].attempts < MaxAttempts) => Attended

\* docs/api-surface.md:672: the stream closes when nothing is left to send.
StreamIsComplete == follower.at = "closed" => follower.cursor = Len(journal)
=============================================================================
