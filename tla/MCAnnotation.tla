---------------------------- MODULE MCAnnotation ----------------------------
(***************************************************************************)
(* Small instances for TLC of the sweeps that enrich records and of the    *)
(* backfill of one annotation.  A behaviour belongs to one of the two, its *)
(* part: the sweeps of the other have no worker, or the backfill is never  *)
(* requested, so that the state spaces add up.                             *)
(***************************************************************************)
EXTENDS Enrichment, Backfill, TLC

CONSTANTS w1, w2,
    Parts   \* those that are looked at

VARIABLE part

annotationVars == <<part, vars, backfillVars>>

\* Record 1 is public; 2 and 3 are the outputs of one run.
Outputs == [r \in Records |-> IF r = 1 THEN NoRun ELSE "run"]
Public == [r \in Records |-> NoRun]
One == [r \in Records |-> "home"]
\* The oldest record is of another workspace.
Two == [r \in Records |-> IF r = 1 THEN "away" ELSE "home"]

A(arriving, values, workspace, group, workers, backfills, crashes) ==
    [arriving |-> arriving, values |-> values, workspace |-> workspace, group |-> group,
     workers |-> workers, broken |-> {}, backfills |-> backfills, crashes |-> crashes]

\* No worker, no record.
Still == A({}, {"a"}, One, Public, {}, FALSE, FALSE)

\* Two workers on the rows of two workspaces; two workers that crash, on one row
\* of which providers say different things; one worker that crashes, and a run.
MCSettings ==
    {Still,
     A(Records, {"a"}, Two, Public, {w1, w2}, FALSE, FALSE),
     A({1}, Values, One, Public, {w1, w2}, TRUE, TRUE),
     A(Records, {"a"}, One, Outputs, {w1}, TRUE, TRUE)}
MCSplit == {A(Records, {"a"}, One, Outputs, {w1, w2}, FALSE, FALSE)}

B(rows, values, requests, maxRows, othersLock, zombies, crashes) ==
    [rows |-> rows, values |-> values, requests |-> requests, batch |-> 1,
     maxRows |-> maxRows, othersLock |-> othersLock, zombies |-> zombies, crashes |-> crashes]

\* Executors that outlive their leases, with a provider that gives two answers;
\* two backfills one after the other, and processes that die; sweeps over rows
\* that come and go, with and without such deaths; a row budget.
MCTargets ==
    {B(1, {"a", "b"}, 1, 0, "never", TRUE, FALSE), B(1, {"a", "b"}, 2, 0, "never", FALSE, TRUE),
     B(2, {"a"}, 1, 0, "passing", FALSE, FALSE), B(2, {"a"}, 1, 0, "any", FALSE, TRUE),
     B(2, {"a"}, 1, 1, "any", FALSE, FALSE)}

AnnotationInit ==
    /\ part \in Parts
    /\ Init /\ (part = "sweeps" <=> setting # Still)
    /\ BackfillInit /\ (part = "sweeps" => target = CHOOSE t \in Targets : TRUE)

AnnotationNext ==
    \/ part = "sweeps" /\ Next /\ UNCHANGED <<part, backfillVars>>
    \/ part = "backfill" /\ BackfillNext /\ UNCHANGED <<part, vars>>

AnnotationSpec == AnnotationInit /\ [][AnnotationNext]_annotationVars

\* What nobody asked for is not enabled, so each part has its own fairness only.
FairAnnotationSpec == AnnotationSpec /\ Fairness /\ BackfillFairness
=============================================================================
