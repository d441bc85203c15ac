----------------------------- MODULE Enrichment -----------------------------
(***************************************************************************)
(* The enrichment sweep (enrichment.py, enrich_once): the step between the *)
(* arrival of a record and its readiness, and the optional annotations     *)
(* that follow.  A sweep has no job and no claim.  It selects a unit under *)
(* row locks, lets the locks go, asks the providers, and finalizes in a    *)
(* second transaction; whatever happened in between is found out there.    *)
(*                                                                         *)
(* A record is its sequence number.  Each required processor has a default *)
(* (the loader demands one), so one that is asked answers, and required    *)
(* annotations and readiness are one and the same write.  The optional     *)
(* processor is one, and may fail for good.                                *)
(***************************************************************************)
EXTENDS Naturals, FiniteSets, FiniteSetsExt, Functions

CONSTANTS
    Records,      \* numbers, in the order of seq
    Workers,
    Values,       \* what the optional processor may answer
    Batch,        \* ENRICH_BATCH
    Settings,     \* deployments and what arrives at them
    NoRun, Nobody

ASSUME RecordsAssumption ==
    /\ Records \subseteq Nat /\ IsFiniteSet(Records) /\ Batch \in Nat \ {0}
    /\ IsFiniteSet(Workers) /\ Nobody \notin Workers
    /\ Values \cap {"none", "terminal"} = {}
ASSUME SettingsAssumption ==
    \A s \in Settings :
        /\ s.arriving \subseteq Records /\ s.values \subseteq Values
        /\ DOMAIN s.workspace = Records      \* the workspace of each record
        /\ DOMAIN s.group = Records          \* the run a record is an output of, or NoRun
        /\ \A r, t \in Records :            \* which is written in one workspace
              s.group[r] # NoRun /\ s.group[r] = s.group[t] => s.workspace[r] = s.workspace[t]
        /\ s.workers \subseteq Workers       \* those that run
        /\ s.broken \subseteq Range(s.workspace)  \* their stored catalog does not compile
        /\ s.backfills \in BOOLEAN           \* backfills of the processor are requested
        /\ s.crashes \in BOOLEAN             \* workers die, or their sweeps raise

VARIABLES
    setting, \* one of Settings, which does not change
    row,     \* row[r]: absent, unready, ready or gone (erased)
    opt,     \* the optional annotation: none, terminal (a marker) or a value
    lock,    \* row locks of open snapshots
    live,    \* workspaces with a live backfill
    work,    \* worker memory
    hooks,   \* history: readiness transitions announced to the ready hook
    audit    \* history: _system run records of the optional processor

moving == <<row, opt, lock, live, work, hooks, audit>>
vars == <<setting, moving>>
records == <<row, opt, hooks, audit>>

Workspace == setting.workspace
Group == setting.group
Broken == setting.broken
Backfills == setting.backfills
Crashes == setting.crashes

Workspaces == Range(Workspace)
Phases == {"idle", "first", "optional", "selected", "prepared"}
Idle == [phase |-> "idle", lane |-> "required", batch |-> {}]

TypeOK ==
    /\ setting \in Settings
    /\ row \in [Records -> {"absent", "unready", "ready", "gone"}]
    /\ opt \in [Records -> Values \cup {"none", "terminal"}]
    /\ lock \in [Records -> Workers \cup {Nobody}]
    /\ live \in SUBSET Workspaces
    /\ work \in [Workers -> [phase : Phases, lane : {"required", "optional"},
                             batch : SUBSET Records]]
    /\ hooks \in [Records -> Nat]
    /\ audit \in [Records -> [ok : Nat, failed : Nat]]

Init ==
    /\ setting \in Settings
    /\ row = [r \in Records |-> "absent"]
    /\ opt = [r \in Records |-> "none"]
    /\ lock = [r \in Records |-> Nobody]
    /\ live = {}
    /\ work = [w \in Workers |-> Idle]
    /\ hooks = [r \in Records |-> 0]
    /\ audit = [r \in Records |-> [ok |-> 0, failed |-> 0]]

Unready == {r \in Records : row[r] = "unready"}
Ready == {r \in Records : row[r] = "ready"}
Siblings(r) == IF Group[r] = NoRun THEN {r} ELSE {t \in Records : Group[t] = Group[r]}
Free(w) == {r \in Records : lock[r] \in {Nobody, w}}
Lowest(S, n) == {r \in S : Cardinality({t \in S : t < r}) < n}

(***************************************************************************)
(* The surroundings.                                                       *)
(***************************************************************************)
\* An ingest commits a record, a derivation all the outputs of its run.
Arrive(r) ==
    /\ row[r] = "absent" /\ Siblings(r) \subseteq setting.arriving
    /\ row' = [t \in Records |-> IF t \in Siblings(r) THEN "unready" ELSE row[t]]
    /\ UNCHANGED <<opt, lock, live, work, hooks, audit>>

\* Erasure of one record; it waits for the snapshots that have it locked.
Erase(r) ==
    /\ row[r] \in {"unready", "ready"} /\ lock[r] = Nobody
    /\ row' = [row EXCEPT ![r] = "gone"]
    /\ UNCHANGED <<opt, lock, live, work, hooks, audit>>

RequestBackfill(s) == Backfills /\ s \notin live /\ live' = live \cup {s} /\ UNCHANGED <<records, lock, work>>
EndBackfill(s) == s \in live /\ live' = live \ {s} /\ UNCHANGED <<records, lock, work>>

(***************************************************************************)
(* The snapshot of a required unit: two statements of one transaction,     *)
(* each of which passes over rows that are locked.                         *)
(***************************************************************************)
SelectFirst(w) ==
    LET open == Unready \cap Free(w) IN
    /\ work[w].phase = "idle"
    /\ IF open = {}
       THEN work' = [work EXCEPT ![w].phase = "optional"] /\ UNCHANGED lock
       ELSE /\ work' = [work EXCEPT ![w] =
                    [phase |-> "first", lane |-> "required", batch |-> {Min(open)}]]
            /\ lock' = [lock EXCEPT ![Min(open)] = w]
    /\ UNCHANGED <<records, live>>

\* What the second statement reads and locks: the unready outputs of the run,
\* or the next public rows of the workspace and one more.
Scanned(w, f) ==
    LET seen == {r \in Unready \cap Free(w) : Workspace[r] = Workspace[f]} IN
    IF Group[f] # NoRun THEN seen \cap Siblings(f)
    ELSE Lowest({r \in seen : r >= f}, Batch + 1)

\* Fault: the second statement starts behind the first row.
UnitBehind(w, f) ==
    IF Group[f] # NoRun THEN Scanned(w, f)
    ELSE {r \in Scanned(w, f) : r > f /\ \A t \in Scanned(w, f) : t <= r => Group[t] = NoRun}

\* The unit: all of them, or the public rows before the first output of a run.
Unit(w, f) ==
    IF Group[f] # NoRun THEN Scanned(w, f)
    ELSE Lowest({r \in Scanned(w, f) : \A t \in Scanned(w, f) : t <= r => Group[t] = NoRun}, Batch)

SelectUnit(w) ==
    LET f == Min(work[w].batch) IN
    /\ work[w].phase = "first"
    /\ work' = [work EXCEPT ![w] = [phase |-> "selected", lane |-> "required", batch |-> Unit(w, f)]]
    /\ lock' = [r \in Records |-> IF r \in Scanned(w, f) THEN w ELSE lock[r]]
    /\ UNCHANGED <<records, live>>

(***************************************************************************)
(* Optional work, when no required row was found.  The catalogs of all     *)
(* workspaces with ready records are compiled first.                       *)
(***************************************************************************)
Eligible(r) == row[r] = "ready" /\ opt[r] = "none" /\ Workspace[r] \notin live
CatalogsCompile == \A r \in Ready : Workspace[r] \notin Broken

SelectOptional(w) ==
    LET all == {r \in Records : Eligible(r)}
        page == Lowest({r \in all \cap Free(w) : Workspace[r] = Workspace[Min(all)]}, Batch) IN
    /\ work[w].phase = "optional"
    /\ IF all = {} \/ ~CatalogsCompile
       THEN work' = [work EXCEPT ![w] = Idle] /\ UNCHANGED lock
       ELSE /\ work' = [work EXCEPT ![w] = [phase |-> "selected", lane |-> "optional", batch |-> page]]
            /\ lock' = [r \in Records |-> IF r \in page THEN w ELSE lock[r]]
    /\ UNCHANGED <<records, live>>

Unlocked(w) == [r \in Records |-> IF lock[r] = w THEN Nobody ELSE lock[r]]

\* The snapshot commits.  The catalog of a required unit is compiled now.
EndSnapshot(w) ==
    /\ work[w].phase = "selected"
    /\ lock' = Unlocked(w)
    /\ work' = [work EXCEPT ![w] =
            IF work[w].batch = {} \/ \E r \in work[w].batch : Workspace[r] \in Broken
            THEN Idle ELSE [@ EXCEPT !.phase = "prepared"]]
    /\ UNCHANGED <<records, live>>

(***************************************************************************)
(* _finalize: rows that are gone are left out, and so are required targets *)
(* that somebody else has made ready.                                      *)
(***************************************************************************)
Unhindered(w) == work[w].phase = "prepared" /\ work[w].batch \subseteq Free(w)

\* Fault: a target that is ready already is made ready once more.
Present(batch) == {r \in batch : row[r] \in {"unready", "ready"}}

Pending(batch) == {r \in batch : row[r] = "unready"}

FinalizeRequired(w) ==
    LET now == Pending(work[w].batch) IN
    /\ Unhindered(w) /\ work[w].lane = "required"
    /\ row' = [r \in Records |-> IF r \in now THEN "ready" ELSE row[r]]
    /\ hooks' = [r \in Records |-> IF r \in now THEN hooks[r] + 1 ELSE hooks[r]]
    /\ work' = [work EXCEPT ![w] = Idle]
    /\ UNCHANGED <<opt, lock, live, audit>>

Outcomes(batch) == [batch -> setting.values \cup {"terminal"}]

\* The locked row has the annotation.
Has(r) == opt[r] \in Values

\* Write-once: another value for an annotation that is there (AnnotationConflict).
Conflict(out) ==
    \E r \in DOMAIN out : row[r] = "ready" /\ Has(r) /\ out[r] \in Values /\ out[r] # opt[r]

\* The rows an outcome changes: a value where there is none, a marker where
\* there is nothing.
Changed(out) ==
    {r \in DOMAIN out : row[r] = "ready" /\ ~Has(r) /\ (out[r] \in Values \/ opt[r] = "none")}

WithAudit(r, out) ==
    IF out[r] \in Values THEN [audit[r] EXCEPT !.ok = @ + 1] ELSE [audit[r] EXCEPT !.failed = @ + 1]

\* A conflict raises, and nothing is written.
Written(out) == IF Conflict(out) THEN {} ELSE Changed(out)

Annotate(out) ==
    /\ opt' = [r \in Records |-> IF r \in Written(out) THEN out[r] ELSE opt[r]]
    /\ audit' = [r \in Records |-> IF r \in Written(out) THEN WithAudit(r, out) ELSE audit[r]]

FinalizeOptional(w) ==
    /\ Unhindered(w) /\ work[w].lane = "optional"
    /\ \E out \in Outcomes(work[w].batch) : Annotate(out)
    /\ work' = [work EXCEPT ![w] = Idle]
    /\ UNCHANGED <<row, lock, live, hooks>>

\* The worker dies or its sweep raises: an open transaction is rolled back.
Crash(w) ==
    /\ Crashes /\ work[w].phase # "idle"
    /\ lock' = Unlocked(w)
    /\ work' = [work EXCEPT ![w] = Idle]
    /\ UNCHANGED <<records, live>>

Sweep(w) ==
    \/ SelectFirst(w) \/ SelectUnit(w) \/ SelectOptional(w) \/ EndSnapshot(w)
    \/ FinalizeRequired(w) \/ FinalizeOptional(w)

Step ==
    \/ \E r \in Records : Arrive(r) \/ Erase(r)
    \/ \E s \in Workspaces : RequestBackfill(s) \/ EndBackfill(s)
    \/ \E w \in setting.workers : Sweep(w) \/ Crash(w)

Next == Step /\ UNCHANGED setting

Spec == Init /\ [][Next]_vars

-----------------------------------------------------------------------------
(* Properties. *)

\* The outputs of a run become visible together: what is left of them is ready
\* or it is not, and no sibling goes ahead.
GroupAllOrNone ==
    \A r, t \in Records : t \in Siblings(r) /\ row[r] = "ready" => row[t] # "unready"

\* It holds where one worker runs: two of them may split a run between their
\* snapshots.
AloneAllOrNone == Cardinality(setting.workers) = 1 => GroupAllOrNone

\* A record is announced to the ready hook (its triggers, its projection) once,
\* when it becomes ready, though two sweeps may have prepared it.
ReadyOnce == \A r \in Records : hooks[r] <= 1 /\ (row[r] = "ready" => hooks[r] = 1)

\* The audit trail has one successful run for each annotation and none without
\* one, and a single failed run for a marker: a sweep that lost the race leaves
\* nothing behind.
AuditMatches ==
    \A r \in Records :
        /\ audit[r].ok = (IF opt[r] \in Values THEN 1 ELSE 0)
        /\ audit[r].failed <= 1
        /\ opt[r] = "terminal" => audit[r].failed = 1

(***************************************************************************)
(* Liveness: workers keep sweeping.                                        *)
(***************************************************************************)
Fairness == \A w \in Workers : WF_moving(w \in setting.workers /\ Sweep(w))

FairSpec == Spec /\ Fairness

\* A record that arrived is made ready and gets its optional annotation, or a
\* marker that the attempt failed, unless it is erased: no other row is a
\* barrier to it and none that keeps failing stands in its way, as long as the
\* catalogs of all workspaces compile and no worker crashes over and over.
EveryRowEnriched ==
    \A r \in Records :
        row[r] \in {"unready", "ready"} /\ Broken = {} /\ ~Crashes /\ ~Backfills
            ~> (opt[r] # "none" \/ row[r] = "gone")
=============================================================================
