------------------------------ MODULE JobLease ------------------------------
(***************************************************************************)
(* What the job table promises about one job row, without leases, tokens,  *)
(* clocks or attempts: a job is worked on by at most one owner at a time,  *)
(* ownership is never handed over while it is held, only the owner ends a  *)
(* job successfully, and a finished job stays finished.  JobQueue          *)
(* implements this specification.                                          *)
(***************************************************************************)
CONSTANTS
    Jobs,       \* the rows of the job table
    Executors   \* the tasks of the worker processes that execute jobs

VARIABLES
    state,      \* state[j]: where job j is in its life
    owners      \* owners[j]: the executors whose transitions on j would succeed

vars == <<state, owners>>

States == {"absent", "active", "done", "dead"}

Init ==
    /\ state = [j \in Jobs |-> "absent"]
    /\ owners = [j \in Jobs |-> {}]

\* A stimulus inserts the row; nobody owns it.
Post(j) ==
    /\ state[j] = "absent"
    /\ state'[j] = "active"
    /\ owners'[j] = {}

\* A claim: only of a job nobody owns.
Grant(j) ==
    /\ state[j] = "active" /\ state'[j] = "active"
    /\ owners[j] = {}
    /\ \E e \in Executors : owners'[j] = {e}

\* The owner gives the job back, forgets it, or its lease runs out.
Release(j) ==
    /\ state[j] = "active" /\ state'[j] = "active"
    /\ owners'[j] = {}

\* Success, which takes an owner.
Finish(j) ==
    /\ state[j] = "active" /\ state'[j] = "done"
    /\ owners[j] # {} /\ owners'[j] = {}

\* Dead-lettering: by the owner, by the reaper or by erasure.
Bury(j) ==
    /\ state[j] = "active" /\ state'[j] = "dead"
    /\ owners'[j] = {}

\* An operator requeues a dead job.
Revive(j) ==
    /\ state[j] = "dead" /\ state'[j] = "active"
    /\ owners[j] = {} /\ owners'[j] = {}

Keep(j) == state'[j] = state[j] /\ owners'[j] = owners[j]

\* Several rows may change in one transaction, each along its own automaton.
Next ==
    /\ state' \in [Jobs -> States]
    /\ owners' \in [Jobs -> SUBSET Executors]
    /\ \A j \in Jobs :
          Post(j) \/ Grant(j) \/ Release(j) \/ Finish(j) \/ Bury(j) \/ Revive(j) \/ Keep(j)

Spec == Init /\ [][Next]_vars
=============================================================================
