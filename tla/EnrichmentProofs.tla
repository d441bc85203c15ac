-------------------------- MODULE EnrichmentProofs --------------------------
(***************************************************************************)
(* The safety properties of enrichment and of the annotation backfill, for *)
(* every number of records, workers, executors and workspaces, and for     *)
(* every deployment.                                                       *)
(***************************************************************************)
EXTENDS Enrichment, Backfill, FiniteSetTheorems, WellFoundedInduction, TLAPS

(***************************************************************************)
(* The required and optional sweeps.                                       *)
(***************************************************************************)
\* A record that never became ready was not announced and has no annotation;
\* one that is ready was announced once.
Announced(r) ==
    /\ row[r] \in {"absent", "unready"} => hooks[r] = 0
    /\ row[r] = "ready" => hooks[r] = 1
    /\ hooks[r] <= 1

\* What the audit trail says of the annotation of a record.
Audited(r) ==
    /\ opt[r] \in Values => audit[r].ok = 1
    /\ opt[r] \notin Values => audit[r].ok = 0
    /\ opt[r] = "none" => audit[r].failed = 0
    /\ opt[r] = "terminal" => audit[r].failed = 1
    /\ audit[r].failed <= 1

\* The outputs of a run arrive together.
ArriveTogether ==
    \A r \in Records : \A t \in Siblings(r) : row[r] = "absent" => row[t] = "absent"

IInv ==
    /\ TypeOK
    /\ ArriveTogether
    /\ \A r \in Records : Announced(r) /\ Audited(r)

USE RecordsAssumption, SettingsAssumption

-----------------------------------------------------------------------------
(* Sets of records.                                                        *)

\* A non-empty set of records has a least element.
LEMMA MinIn ==
  ASSUME NEW S \in SUBSET Records, S # {}
  PROVE  Min(S) \in S /\ \A t \in S : Min(S) <= t
<1>1. PICK x \in S : \A y \in S : ~ (<<y, x>> \in OpToRel(<, Nat))
  <2>1. S \subseteq Nat
    OBVIOUS
  <2>. QED
    BY <2>1, NatLessThanWellFounded, WFMin, Zenon
<1>2. \A y \in S : x <= y
  <2>. SUFFICES ASSUME NEW y \in S PROVE x <= y
    OBVIOUS
  <2>1. ~ (y < x)
    BY <1>1 DEF OpToRel
  <2>. QED
    BY <2>1
<1>. QED
  BY <1>2 DEF Min

LEMMA SelectionsTyped ==
  ASSUME NEW w, NEW f
  PROVE  /\ Free(w) \subseteq Records
         /\ Scanned(w, f) \subseteq Unready \cap Free(w)
         /\ Unit(w, f) \subseteq Scanned(w, f)
<1>1. Scanned(w, f) \subseteq Unready \cap Free(w)
  BY DEF Scanned, Lowest
<1>2. Unit(w, f) \subseteq Scanned(w, f)
  BY DEF Unit, Lowest
<1>. QED
  BY <1>1, <1>2 DEF Free

\* Being an output of the same run is an equivalence.
LEMMA SiblingsAgree ==
  ASSUME NEW r \in Records, NEW t \in Siblings(r)
  PROVE  t \in Records /\ r \in Siblings(t) /\ Siblings(t) = Siblings(r)
  BY DEF Siblings

-----------------------------------------------------------------------------
(* Type correctness. *)

WorkTypes ==
    [Workers -> [phase : Phases, lane : {"required", "optional"}, batch : SUBSET Records]]

\* Worker memory stays well-typed when one worker's changes.
LEMMA WorkTyped ==
  ASSUME work \in WorkTypes, NEW w \in Workers,
         NEW p \in Phases, NEW l \in {"required", "optional"}, NEW b \in SUBSET Records
  PROVE  /\ [work EXCEPT ![w] = [phase |-> p, lane |-> l, batch |-> b]] \in WorkTypes
         /\ [work EXCEPT ![w].phase = p] \in WorkTypes
         /\ [work EXCEPT ![w] = Idle] \in WorkTypes
<1>1. [work EXCEPT ![w] = [phase |-> p, lane |-> l, batch |-> b]] \in WorkTypes
  BY DEF WorkTypes
<1>2. [work EXCEPT ![w].phase = p] \in WorkTypes
  BY DEF WorkTypes
<1>3. [work EXCEPT ![w] = Idle] \in WorkTypes
  BY DEF WorkTypes, Idle, Phases
<1>. QED
  BY <1>1, <1>2, <1>3

LEMMA InitTypeOK == Init => TypeOK
  BY DEF Init, TypeOK, Idle, Phases

\* The setting, and what is read from it, does not change.
LEMMA StepTypeOK ==
  ASSUME TypeOK, [Next]_vars
  PROVE  TypeOK'
<1>. USE DEF TypeOK
<1>1. ASSUME Next PROVE TypeOK'
  <2>. setting' = setting /\ Workspaces' = Workspaces
    BY <1>1 DEF Next, Workspaces, Workspace
  <2>w. work \in WorkTypes
    BY DEF WorkTypes
  <2>1. ASSUME NEW r \in Records, Arrive(r) PROVE TypeOK'
    BY <2>1 DEF Arrive
  <2>2. ASSUME NEW r \in Records, Erase(r) PROVE TypeOK'
    BY <2>2 DEF Erase
  <2>3. ASSUME NEW s \in Workspaces, RequestBackfill(s) \/ EndBackfill(s) PROVE TypeOK'
    BY <2>3 DEF RequestBackfill, EndBackfill, records
  <2>4. ASSUME NEW w \in Workers, SelectFirst(w) PROVE TypeOK'
    <3>. DEFINE open == Unready \cap Free(w)
    <3>1. open # {} => Min(open) \in Records
      <4>1. open \in SUBSET Records
        BY DEF Unready
      <4>. HIDE DEF open
      <4>. QED
        BY <4>1, MinIn
    <3>2. CASE open = {}
      <4>1. work' = [work EXCEPT ![w].phase = "optional"] /\ UNCHANGED lock
        BY <2>4, <3>2 DEF SelectFirst
      <4>2. UNCHANGED <<records, live>>
        BY <2>4 DEF SelectFirst
      <4>3. work' \in WorkTypes
        BY <2>w, <4>1, WorkTyped DEF Phases
      <4>. QED
        BY <4>1, <4>2, <4>3 DEF records, WorkTypes
    <3>3. CASE open # {}
      <4>1. work' = [work EXCEPT ![w] =
                    [phase |-> "first", lane |-> "required", batch |-> {Min(open)}]]
        BY <2>4, <3>3 DEF SelectFirst
      <4>2. lock' = [lock EXCEPT ![Min(open)] = w]
        BY <2>4, <3>3 DEF SelectFirst
      <4>3. UNCHANGED <<records, live>>
        BY <2>4 DEF SelectFirst
      <4>. HIDE DEF open
      <4>4. work' \in WorkTypes
        BY <2>w, <3>1, <3>3, <4>1, WorkTyped DEF Phases
      <4>5. lock' \in [Records -> Workers \cup {Nobody}]
        BY <4>2
      <4>. QED
        BY <4>3, <4>4, <4>5 DEF records, WorkTypes
    <3>. QED
      BY <3>2, <3>3
  <2>5. ASSUME NEW w \in Workers, SelectUnit(w) PROVE TypeOK'
    <3>1. Unit(w, Min(work[w].batch)) \subseteq Records
      BY SelectionsTyped DEF Unready
    <3>. QED
      BY <2>5, <3>1 DEF SelectUnit, records, Phases
  <2>6. ASSUME NEW w \in Workers, SelectOptional(w) PROVE TypeOK'
    <3>. DEFINE all == {r \in Records : Eligible(r)}
                page == Lowest({r \in all \cap Free(w) : Workspace[r] = Workspace[Min(all)]}, Batch)
    <3>1. page \in SUBSET Records
      BY DEF Lowest
    <3>. HIDE DEF page
    <3>2. \/ work' = [work EXCEPT ![w] = Idle] /\ UNCHANGED lock
          \/ /\ work' = [work EXCEPT ![w] = [phase |-> "selected", lane |-> "optional",
                                            batch |-> page]]
             /\ lock' = [r \in Records |-> IF r \in page THEN w ELSE lock[r]]
      BY <2>6 DEF SelectOptional, page
    <3>3. UNCHANGED <<records, live>>
      BY <2>6 DEF SelectOptional
    <3>. HIDE DEF page, all
    <3>4. work' \in WorkTypes
      <4>1. CASE work' = [work EXCEPT ![w] = Idle]
        BY <2>w, <4>1, WorkTyped DEF Phases
      <4>2. CASE work' = [work EXCEPT ![w] = [phase |-> "selected", lane |-> "optional",
                                              batch |-> page]]
        BY <2>w, <3>1, <4>2, WorkTyped DEF Phases
      <4>. QED
        BY <3>2, <4>1, <4>2
    <3>5. lock' \in [Records -> Workers \cup {Nobody}]
      <4>1. CASE UNCHANGED lock
        BY <4>1
      <4>2. CASE lock' = [r \in Records |-> IF r \in page THEN w ELSE lock[r]]
        BY <4>2
      <4>. QED
        BY <3>2, <4>1, <4>2
    <3>. QED
      BY <3>3, <3>4, <3>5 DEF records, WorkTypes
  <2>7. ASSUME NEW w \in Workers, EndSnapshot(w) PROVE TypeOK'
    BY <2>7 DEF EndSnapshot, records, Phases, Idle, Unlocked
  <2>8. ASSUME NEW w \in Workers, FinalizeRequired(w) PROVE TypeOK'
    BY <2>8 DEF FinalizeRequired, Phases, Idle
  <2>9. ASSUME NEW w \in Workers, FinalizeOptional(w) PROVE TypeOK'
    <3>1. PICK out \in Outcomes(work[w].batch) : Annotate(out)
      BY <2>9 DEF FinalizeOptional
    <3>2. \A r \in Written(out) : out[r] \in Values \cup {"terminal"}
      BY DEF Written, Changed, Outcomes
    <3>3. opt' \in [Records -> Values \cup {"none", "terminal"}]
      BY <3>1, <3>2 DEF Annotate
    <3>4. \A r \in Records : WithAudit(r, out) \in [ok : Nat, failed : Nat]
      BY DEF WithAudit
    <3>5. audit' \in [Records -> [ok : Nat, failed : Nat]]
      BY <3>1, <3>4 DEF Annotate
    <3>6. work' \in WorkTypes
      BY <2>w, <2>9, WorkTyped DEF FinalizeOptional, Phases
    <3>. QED
      BY <2>9, <3>3, <3>5, <3>6 DEF FinalizeOptional, WorkTypes
  <2>10. ASSUME NEW w \in Workers, Crash(w) PROVE TypeOK'
    BY <2>10 DEF Crash, records, Phases, Idle, Unlocked
  <2>11. setting.workers \subseteq Workers
    OBVIOUS
  <2>. QED
    BY <1>1, <2>1, <2>2, <2>3, <2>4, <2>5, <2>6, <2>7, <2>8, <2>9, <2>10, <2>11
    DEF Next, Step, Sweep
<1>2. ASSUME UNCHANGED vars PROVE TypeOK'
  BY <1>2 DEF vars, moving, Workspaces, Workspace
<1>. QED
  BY <1>1, <1>2

-----------------------------------------------------------------------------
(* Readiness and audit. *)

LEMMA InitIInv == Init => IInv
<1>. SUFFICES ASSUME Init PROVE IInv
  OBVIOUS
<1>1. TypeOK
  BY InitTypeOK
<1>2. ArriveTogether
  BY DEF Init, ArriveTogether, Siblings
<1>3. \A r \in Records : Announced(r) /\ Audited(r)
  BY DEF Init, Announced, Audited
<1>. QED
  BY <1>1, <1>2, <1>3 DEF IInv

\* The steps that change neither rows nor annotations.
Quiet == UNCHANGED <<setting, row, opt, hooks, audit>>

LEMMA QuietSteps ==
  ASSUME Next
  PROVE  \/ Quiet
         \/ \E r \in Records : Arrive(r) \/ Erase(r)
         \/ \E w \in setting.workers : FinalizeRequired(w) \/ FinalizeOptional(w)
<1>1. ASSUME NEW w \in setting.workers,
             SelectFirst(w) \/ SelectUnit(w) \/ SelectOptional(w) \/ EndSnapshot(w) \/ Crash(w)
      PROVE  UNCHANGED <<row, opt, hooks, audit>>
  BY <1>1 DEF SelectFirst, SelectUnit, SelectOptional, EndSnapshot, Crash, records
<1>2. ASSUME NEW s, RequestBackfill(s) \/ EndBackfill(s)
      PROVE  UNCHANGED <<row, opt, hooks, audit>>
  BY <1>2 DEF RequestBackfill, EndBackfill, records
<1>. QED
  BY <1>1, <1>2 DEF Next, Step, Sweep, Quiet

LEMMA StepArriveTogether ==
  ASSUME IInv, [Next]_vars
  PROVE  ArriveTogether'
<1>. SUFFICES ASSUME NEW r \in Records, NEW t \in Siblings(r), row'[r] = "absent"
     PROVE  row'[t] = "absent"
  BY DEF ArriveTogether, Siblings, Group, Next, vars
<1>. USE DEF IInv, TypeOK
<1>0. t \in Records /\ (row[r] = "absent" => row[t] = "absent")
  BY SiblingsAgree DEF ArriveTogether
<1>1. CASE Quiet \/ UNCHANGED vars
  BY <1>0, <1>1 DEF Quiet, vars, moving
<1>2. ASSUME NEW a \in Records, Arrive(a) PROVE row'[t] = "absent"
  <2>1. r \notin Siblings(a) /\ row[r] = "absent"
    BY <1>2 DEF Arrive
  <2>2. t \notin Siblings(a)
    BY <2>1, SiblingsAgree
  <2>. QED
    BY <1>0, <1>2, <2>1, <2>2 DEF Arrive
<1>3. ASSUME NEW a \in Records, Erase(a) PROVE row'[t] = "absent"
  BY <1>0, <1>3 DEF Erase
<1>4. ASSUME NEW w \in Workers, FinalizeRequired(w) PROVE row'[t] = "absent"
  BY <1>0, <1>4 DEF FinalizeRequired, Pending
<1>5. ASSUME NEW w \in Workers, FinalizeOptional(w) PROVE row'[t] = "absent"
  BY <1>0, <1>5 DEF FinalizeOptional
<1>. QED
  BY <1>1, <1>2, <1>3, <1>4, <1>5, QuietSteps

LEMMA StepAnnounced ==
  ASSUME IInv, [Next]_vars, NEW r \in Records
  PROVE  Announced(r)'
<1>. USE DEF IInv, TypeOK, Announced
<1>1. CASE Quiet \/ UNCHANGED vars
  BY <1>1 DEF Quiet, vars, moving
<1>2. ASSUME NEW a \in Records, Arrive(a) PROVE Announced(r)'
  <2>1. r \in Siblings(a) => row[r] = "absent"
    BY <1>2 DEF Arrive, ArriveTogether
  <2>. QED
    BY <1>2, <2>1 DEF Arrive
<1>3. ASSUME NEW a \in Records, Erase(a) PROVE Announced(r)'
  BY <1>3 DEF Erase
<1>4. ASSUME NEW w \in Workers, FinalizeRequired(w) PROVE Announced(r)'
  BY <1>4 DEF FinalizeRequired, Pending
<1>5. ASSUME NEW w \in Workers, FinalizeOptional(w) PROVE Announced(r)'
  BY <1>5 DEF FinalizeOptional
<1>. QED
  BY <1>1, <1>2, <1>3, <1>4, <1>5, QuietSteps

LEMMA StepAudited ==
  ASSUME IInv, [Next]_vars, NEW r \in Records
  PROVE  Audited(r)'
<1>. USE DEF IInv, TypeOK, Audited
<1>1. CASE UNCHANGED <<opt, audit>>
  BY <1>1
<1>2. ASSUME NEW w \in Workers, FinalizeOptional(w) PROVE Audited(r)'
  <2>1. PICK out \in Outcomes(work[w].batch) : Annotate(out)
    BY <1>2 DEF FinalizeOptional
  <2>2. CASE r \notin Written(out)
    BY <2>1, <2>2 DEF Annotate
  <2>3. CASE r \in Written(out)
    <3>1. /\ out[r] \in Values \cup {"terminal"} /\ opt[r] \notin Values
          /\ out[r] \in Values \/ opt[r] = "none"
      BY <2>3 DEF Written, Changed, Has, Outcomes
    <3>2. opt'[r] = out[r] /\ audit'[r] = WithAudit(r, out)
      BY <2>1, <2>3 DEF Annotate
    <3>3. CASE out[r] \in Values
      BY <3>1, <3>2, <3>3 DEF WithAudit
    <3>4. CASE out[r] = "terminal"
      BY <3>1, <3>2, <3>4 DEF WithAudit
    <3>. QED
      BY <3>1, <3>3, <3>4
  <2>. QED
    BY <2>2, <2>3
<1>3. Quiet \/ UNCHANGED vars => UNCHANGED <<opt, audit>>
  BY DEF Quiet, vars, moving
<1>4. ASSUME NEW a \in Records, Arrive(a) \/ Erase(a) PROVE UNCHANGED <<opt, audit>>
  BY <1>4 DEF Arrive, Erase
<1>5. ASSUME NEW w \in Workers, FinalizeRequired(w) PROVE UNCHANGED <<opt, audit>>
  BY <1>5 DEF FinalizeRequired
<1>. QED
  BY <1>1, <1>2, <1>3, <1>4, <1>5, QuietSteps

LEMMA StepIInv == IInv /\ [Next]_vars => IInv'
  BY StepTypeOK, StepArriveTogether, StepAnnounced, StepAudited DEF IInv

\* The inductive invariant holds of every behaviour of the sweeps.
THEOREM Invariance == Spec => []IInv
<1>. QED
  BY InitIInv, StepIInv, PTL DEF Spec

\* Rows, locks, worker memory and audit trail are of their types, for every
\* deployment: a step writes nothing else.
THEOREM TypeCorrect == Spec => []TypeOK
<1>1. IInv => TypeOK
  BY DEF IInv
<1>. QED
  BY <1>1, Invariance, PTL

\* However many workers sweep, a record is announced to the ready hook once,
\* when it becomes ready.
THEOREM AnnouncedOnce == Spec => []ReadyOnce
<1>1. IInv => ReadyOnce
  BY DEF IInv, ReadyOnce, Announced
<1>. QED
  BY <1>1, Invariance, PTL

\* However many workers sweep, the audit trail is that of the annotations.
THEOREM AuditTrail == Spec => []AuditMatches
<1>1. IInv => AuditMatches
  BY DEF IInv, TypeOK, AuditMatches, Audited
<1>. QED
  BY <1>1, Invariance, PTL

-----------------------------------------------------------------------------
(* The readiness of groups where one worker runs.                          *)

\* Only workers that run hold row locks.
LocksOwned == \A r \in Records : lock[r] \in setting.workers \cup {Nobody}

\* Between the statements of a snapshot the worker has found a first row.
FirstFound == \A w \in setting.workers : work[w].phase = "first" => work[w].batch # {}

\* A set of records that has all that is not ready of the runs it has rows of,
\* where no output of such a run is still to come.
Whole(batch) ==
    \A r \in batch :
        /\ row[r] # "absent"
        /\ \A t \in Siblings(r) : row[t] = "unready" => t \in batch

\* A unit on its way to the second transaction is whole.
WholeUnits ==
    \A w \in setting.workers :
        work[w].phase \in {"selected", "prepared"} /\ work[w].lane = "required" =>
            Whole(work[w].batch)

SoleInv ==
    /\ LocksOwned
    /\ FirstFound
    /\ Cardinality(setting.workers) = 1 => WholeUnits /\ GroupAllOrNone

LEMMA OneWorker ==
  ASSUME TypeOK, Cardinality(setting.workers) = 1
  PROVE  \E x : setting.workers = {x}
<1>1. IsFiniteSet(setting.workers)
  BY FS_Subset DEF TypeOK
<1>. QED
  BY <1>1, FS_Singleton

\* What a sole worker scans of a run is all that is not ready of it.
LEMMA SoleUnit ==
  ASSUME TypeOK, LocksOwned, Cardinality(setting.workers) = 1,
         NEW w \in setting.workers, NEW f \in Records, NEW r \in Unit(w, f),
         NEW t \in Siblings(r), row[t] = "unready"
  PROVE  t \in Unit(w, f) /\ row[r] = "unready"
<1>1. r \in Unready /\ r \in Records /\ row[r] = "unready"
  <2>1. Unit(w, f) \subseteq Scanned(w, f) /\ Scanned(w, f) \subseteq Unready \cap Free(w)
    BY SelectionsTyped, Zenon
  <2>. QED
    BY <2>1 DEF Unready
<1>2. t \in Records
  BY <1>1, SiblingsAgree
<1>3. Free(w) = Records
  <2>1. PICK x : setting.workers = {x}
    BY OneWorker
  <2>. QED
    BY <2>1 DEF LocksOwned, Free
<1>4. CASE Group[f] # NoRun
  <2>1. r \in Siblings(f)
    BY <1>4 DEF Unit, Scanned
  <2>2. t \in Siblings(f)
    BY <2>1, SiblingsAgree
  <2>3. Workspace[t] = Workspace[f]
    <3>1. Group[t] = Group[f] /\ Group[t] # NoRun
      BY <1>4, <2>2 DEF Siblings
    <3>2. \A p, q \in Records : Group[p] # NoRun /\ Group[p] = Group[q] => Workspace[p] = Workspace[q]
      BY DEF TypeOK, Group, Workspace
    <3>. QED
      BY <1>2, <3>1, <3>2
  <2>. QED
    BY <1>1, <1>2, <1>3, <1>4, <2>2, <2>3 DEF Unit, Scanned, Unready
<1>5. CASE Group[f] = NoRun
  <2>1. r \in {q \in Scanned(w, f) : \A u \in Scanned(w, f) : u <= q => Group[u] = NoRun}
    BY <1>5 DEF Unit, Lowest
  <2>2. Group[r] = NoRun
    <3>1. r \in Nat
      BY <1>1
    <3>2. r <= r
      BY <3>1
    <3>. QED
      BY <2>1, <3>2, Zenon
  <2>3. t = r
    BY <2>2 DEF Siblings
  <2>. QED
    BY <1>1, <2>3
<1>. QED
  BY <1>4, <1>5

LEMMA InitSoleInv == Init => SoleInv
  BY DEF Init, SoleInv, LocksOwned, FirstFound, WholeUnits, GroupAllOrNone, Idle,
         TypeOK, SettingsAssumption

\* Once a record is there, no other output of its run arrives.
LEMMA NewlyUnready ==
  ASSUME IInv, [Next]_vars, NEW r \in Records, NEW t \in Siblings(r),
         row[r] # "absent"
  PROVE  (row'[t] = "unready" => row[t] = "unready") /\ row'[r] # "absent"
<1>. USE DEF IInv, TypeOK
<1>0. t \in Records /\ r \in Siblings(t) /\ row[t] # "absent"
  BY SiblingsAgree DEF ArriveTogether
<1>1. CASE Quiet \/ UNCHANGED vars
  BY <1>1 DEF Quiet, vars, moving
<1>2. ASSUME NEW a \in Records, Arrive(a)
      PROVE  (row'[t] = "unready" => row[t] = "unready") /\ row'[r] # "absent"
  <2>1. \A q \in Siblings(a) : row[q] = "absent"
    BY <1>2 DEF Arrive, ArriveTogether
  <2>. QED
    BY <1>0, <1>2, <2>1 DEF Arrive
<1>3. ASSUME NEW a \in Records, Erase(a)
      PROVE  (row'[t] = "unready" => row[t] = "unready") /\ row'[r] # "absent"
  BY <1>0, <1>3 DEF Erase
<1>4. ASSUME NEW w \in Workers, FinalizeRequired(w)
      PROVE  (row'[t] = "unready" => row[t] = "unready") /\ row'[r] # "absent"
  BY <1>0, <1>4 DEF FinalizeRequired, Pending
<1>5. ASSUME NEW w \in Workers, FinalizeOptional(w)
      PROVE  (row'[t] = "unready" => row[t] = "unready") /\ row'[r] # "absent"
  BY <1>0, <1>5 DEF FinalizeOptional
<1>. QED
  BY <1>1, <1>2, <1>3, <1>4, <1>5, QuietSteps

\* A step of one worker leaves the memory of the others alone, any other step
\* that of all.
LEMMA MemorySteps ==
  ASSUME TypeOK, [Next]_vars
  PROVE  /\ setting' = setting
         /\ \/ UNCHANGED work /\ UNCHANGED lock
            \/ \E w \in setting.workers :
                  \/ SelectFirst(w) \/ SelectUnit(w) \/ SelectOptional(w) \/ EndSnapshot(w)
                  \/ work' = [work EXCEPT ![w] = Idle] /\ lock' \in {lock, Unlocked(w)}
<1>1. CASE UNCHANGED vars
  BY <1>1 DEF vars, moving
<1>2. CASE Next
  <2>1. ASSUME NEW r \in Records, Arrive(r) \/ Erase(r) PROVE UNCHANGED <<work, lock>>
    BY <2>1 DEF Arrive, Erase
  <2>2. ASSUME NEW s, RequestBackfill(s) \/ EndBackfill(s) PROVE UNCHANGED <<work, lock>>
    BY <2>2 DEF RequestBackfill, EndBackfill
  <2>3. ASSUME NEW w \in setting.workers, FinalizeRequired(w) \/ FinalizeOptional(w) \/ Crash(w)
        PROVE  work' = [work EXCEPT ![w] = Idle] /\ lock' \in {lock, Unlocked(w)}
    BY <2>3 DEF FinalizeRequired, FinalizeOptional, Crash
  <2>. QED
    BY <1>2, <2>1, <2>2, <2>3 DEF Next, Step, Sweep
<1>. QED
  BY <1>1, <1>2

LEMMA StepLocks ==
  ASSUME TypeOK, LocksOwned, FirstFound, [Next]_vars
  PROVE  LocksOwned' /\ FirstFound'
<1>. USE DEF TypeOK, LocksOwned, FirstFound
<1>0. setting' = setting
  BY MemorySteps
<1>1. CASE UNCHANGED work /\ UNCHANGED lock
  BY <1>0, <1>1
<1>2. ASSUME NEW w \in setting.workers, SelectFirst(w) PROVE LocksOwned' /\ FirstFound'
  <2>. DEFINE open == Unready \cap Free(w)
  <2>1. \/ work' = [work EXCEPT ![w].phase = "optional"] /\ UNCHANGED lock
        \/ \E b : /\ b # {} /\ lock' \in {[lock EXCEPT ![Min(open)] = w]}
                  /\ work' = [work EXCEPT ![w] = [phase |-> "first", lane |-> "required", batch |-> b]]
    BY <1>2 DEF SelectFirst
  <2>. HIDE DEF open
  <2>2. LocksOwned'
    BY <1>0, <2>1
  <2>3. FirstFound'
    BY <1>0, <2>1
  <2>. QED
    BY <2>2, <2>3
<1>3. ASSUME NEW w \in setting.workers, SelectUnit(w) PROVE LocksOwned' /\ FirstFound'
  BY <1>0, <1>3 DEF SelectUnit
<1>4. ASSUME NEW w \in setting.workers, SelectOptional(w) PROVE LocksOwned' /\ FirstFound'
  <2>1. /\ \E p : lock' \in {lock, [r \in Records |-> IF r \in p THEN w ELSE lock[r]]}
        /\ \E b : work' \in {[work EXCEPT ![w] = Idle],
                    [work EXCEPT ![w] = [phase |-> "selected", lane |-> "optional", batch |-> b]]}
    BY <1>4 DEF SelectOptional
  <2>2. LocksOwned'
    BY <1>0, <2>1
  <2>3. FirstFound'
    BY <1>0, <2>1 DEF Idle
  <2>. QED
    BY <2>2, <2>3
<1>5. ASSUME NEW w \in setting.workers, EndSnapshot(w) PROVE LocksOwned' /\ FirstFound'
  BY <1>0, <1>5 DEF EndSnapshot, Unlocked, Idle
<1>6. ASSUME NEW w \in setting.workers, work' = [work EXCEPT ![w] = Idle],
             lock' \in {lock, Unlocked(w)}
      PROVE  LocksOwned' /\ FirstFound'
  BY <1>0, <1>6 DEF Unlocked, Idle
<1>. QED
  BY <1>1, <1>2, <1>3, <1>4, <1>5, <1>6, MemorySteps

LEMMA StillWhole ==
  ASSUME IInv, [Next]_vars, NEW b \in SUBSET Records, Whole(b)
  PROVE  Whole(b)'
<1>1. Group' = Group
  BY MemorySteps DEF IInv, Group
<1>. SUFFICES ASSUME NEW r \in b
     PROVE /\ row'[r] # "absent"
           /\ \A t \in Siblings(r) : row'[t] = "unready" => t \in b
  BY <1>1 DEF Whole, Siblings
<1>2. r \in Records /\ row[r] # "absent" /\ r \in Siblings(r)
  BY DEF Whole, Siblings
<1>3. \A t \in Siblings(r) : row'[t] = "unready" => row[t] = "unready"
  BY <1>2, NewlyUnready
<1>4. row'[r] # "absent"
  BY <1>2, NewlyUnready
<1>. QED
  BY <1>3, <1>4 DEF Whole

LEMMA StepWholeUnits ==
  ASSUME IInv, SoleInv, Cardinality(setting.workers) = 1, [Next]_vars
  PROVE  WholeUnits'
<1>. USE DEF IInv
<1>0. setting' = setting
  BY MemorySteps
<1>t. TypeOK'
  BY StepTypeOK
<1>1. SUFFICES ASSUME NEW w \in setting.workers, NEW b \in SUBSET Records, b = work'[w].batch,
                      work'[w].phase \in {"selected", "prepared"}, work'[w].lane = "required"
               PROVE  Whole(b)'
  <2>1. \A w \in setting.workers : work'[w].batch \in SUBSET Records
    BY <1>t, <1>0 DEF TypeOK
  <2>. QED
    BY <1>0, <2>1 DEF WholeUnits, Whole
<1>2. CASE Whole(b)
  BY <1>2, StillWhole
<1>3. CASE /\ work[w].phase \in {"selected", "prepared"} /\ work[w].lane = "required"
           /\ work[w].batch = b
  BY <1>2, <1>3 DEF SoleInv, WholeUnits
<1>4. CASE SelectUnit(w)
  <2>. DEFINE f == Min(work[w].batch)
  <2>1. b = Unit(w, f)
    BY <1>1, <1>4 DEF SelectUnit, TypeOK
  <2>2. f \in Records
    <3>1. work[w].batch \in SUBSET Records /\ work[w].batch # {}
      BY <1>4 DEF SelectUnit, SoleInv, FirstFound, TypeOK
    <3>. QED
      BY <3>1, MinIn
  <2>. HIDE DEF f
  <2>3. \A r \in b : r \in Records /\ r \in Siblings(r) /\ row[r] = "unready"
    BY <2>1, SelectionsTyped DEF Unready, Siblings
  <2>4. \A r \in b : \A t \in Siblings(r) : row[t] = "unready" => t \in b
    BY <2>1, <2>2, SoleUnit DEF SoleInv
  <2>5. Whole(b)
    BY <2>3, <2>4 DEF Whole
  <2>. QED
    BY <1>2, <2>5
<1>5. ASSUME NEW v \in setting.workers PROVE v = w
  BY OneWorker
<1>6. CASE UNCHANGED work
  BY <1>1, <1>3, <1>6
<1>7. ASSUME SelectFirst(w) PROVE FALSE
  BY <1>1, <1>7 DEF SelectFirst, TypeOK
<1>8. ASSUME SelectOptional(w) PROVE FALSE
  BY <1>1, <1>8 DEF SelectOptional, TypeOK, Idle
<1>9. CASE EndSnapshot(w)
  BY <1>1, <1>3, <1>9 DEF EndSnapshot, TypeOK, Idle
<1>10. ASSUME work' = [work EXCEPT ![w] = Idle] PROVE FALSE
  BY <1>1, <1>10 DEF TypeOK, Idle
<1>. QED
  BY <1>4, <1>5, <1>6, <1>7, <1>8, <1>9, <1>10, MemorySteps

\* A group is never seen in part: what is made ready takes the rest along.
LEMMA StepGroups ==
  ASSUME IInv, SoleInv, Cardinality(setting.workers) = 1, [Next]_vars
  PROVE  GroupAllOrNone'
<1>. USE DEF IInv
<1>1. Group' = Group
  BY MemorySteps DEF Group
<1>. SUFFICES ASSUME NEW r \in Records, NEW t \in Siblings(r),
                     row'[r] = "ready", row'[t] = "unready"
              PROVE  FALSE
  BY <1>1 DEF GroupAllOrNone, Siblings
<1>2. ASSUME row[r] = "ready" PROVE FALSE
  <2>1. row[t] = "unready"
    BY <1>2, NewlyUnready
  <2>. QED
    BY <1>2, <2>1, SiblingsAgree DEF SoleInv, GroupAllOrNone
<1>3. ASSUME NEW w \in setting.workers, FinalizeRequired(w), r \in Pending(work[w].batch)
      PROVE  FALSE
  <2>1. row[r] = "unready"
    BY <1>3 DEF Pending
  <2>2. row[t] = "unready"
    BY <2>1, NewlyUnready
  <2>3. Whole(work[w].batch) /\ r \in work[w].batch
    BY <1>3 DEF FinalizeRequired, Unhindered, SoleInv, WholeUnits, Pending
  <2>4. t \in Pending(work[w].batch)
    BY <2>2, <2>3 DEF Whole, Pending
  <2>. QED
    BY <1>3, <2>4, SiblingsAgree DEF FinalizeRequired, TypeOK
<1>4. \/ row[r] = "ready"
      \/ \E w \in setting.workers : FinalizeRequired(w) /\ r \in Pending(work[w].batch)
  <2>. USE DEF TypeOK
  <2>1. CASE Quiet \/ UNCHANGED vars
    BY <2>1 DEF Quiet, vars, moving
  <2>2. ASSUME NEW a \in Records, Arrive(a) \/ Erase(a) PROVE row[r] = "ready"
    BY <2>2 DEF Arrive, Erase
  <2>3. ASSUME NEW w \in setting.workers, FinalizeRequired(w), r \notin Pending(work[w].batch)
        PROVE  row[r] = "ready"
    BY <2>3 DEF FinalizeRequired
  <2>4. ASSUME NEW w \in setting.workers, FinalizeOptional(w) PROVE row[r] = "ready"
    BY <2>4 DEF FinalizeOptional
  <2>. QED
    BY <2>1, <2>2, <2>3, <2>4, QuietSteps
<1>. QED
  BY <1>2, <1>3, <1>4

LEMMA StepSoleInv ==
  ASSUME IInv, SoleInv, [Next]_vars
  PROVE  SoleInv'
<1>1. setting' = setting
  BY MemorySteps DEF IInv
<1>2. LocksOwned' /\ FirstFound'
  BY StepLocks DEF IInv, SoleInv
<1>3. Cardinality(setting.workers) = 1 => WholeUnits' /\ GroupAllOrNone'
  BY StepWholeUnits, StepGroups
<1>. QED
  BY <1>1, <1>2, <1>3 DEF SoleInv

\* Where one worker sweeps, the outputs of a run become visible together, however
\* many records arrive and are erased, and whenever the worker dies.
THEOREM SoleWorkerGroups == Spec => []AloneAllOrNone
<1>1. SoleInv => AloneAllOrNone
  BY DEF SoleInv, AloneAllOrNone
<1>2. IInv /\ SoleInv /\ [Next]_vars => SoleInv'
  BY StepSoleInv
<1>. QED
  BY <1>1, <1>2, InitSoleInv, Invariance, PTL DEF Spec

(***************************************************************************)
(* The annotation backfill.                                                *)
(***************************************************************************)
\* Every row of the target has its annotation, or its marker.
NoGap == \A r \in Rows : annotation[r] # "gap"

\* The sweeps are asked for every row, and see each of them in time.
SweepsAll == MaxRows = 0 /\ OthersLock # "any"

\* What an executor at work knows of its backfill: that somebody asked for it;
\* that a page which has rows is no end; that an empty page of a whole sweep is
\* the end; and that a backfill without a successor is over.
HandHolds(e) ==
    /\ hand[e].phase # "idle" => hand[e].id \in Handles /\ handle[hand[e].id].state # "absent"
    /\ hand[e].phase = "started" => hand[e].limit >= 1
    /\ hand[e].phase \in {"selected", "written"} => hand[e].batch # {}
    /\ SweepsAll /\ hand[e].phase = "exhausted" /\ hand[e].batch = {} /\ hand[e].after = 0 => NoGap
    /\ SweepsAll /\ hand[e].phase = "finish" => NoGap
    /\ hand[e].phase = "release" /\ ~hand[e].live => ~IsLive(hand[e].id)

JobHolds(i) ==
    /\ IsLive(i) => job[i].status \in {"active", "dead"}
    /\ job[i].status # "none" => handle[i].state # "absent"

NobodyElse == OthersLock = "never" => held = {}

BackfillInv ==
    /\ BackfillTypeOK
    /\ \A e \in Executors : HandHolds(e)
    /\ \A i \in Handles : JobHolds(i)
    /\ NobodyElse
    /\ DoneMeansDone

USE BackfillAssumption, TargetsAssumption

HandTypes == [phase : HandPhases, id : 0 .. MaxHandles, after : 0 .. MaxSeq,
              limit : 0 .. BatchSize, batch : SUBSET Rows, live : BOOLEAN]

-----------------------------------------------------------------------------
(* Rows and numbers.                                                       *)

LEMMA TargetFacts ==
  ASSUME target \in Targets
  PROVE  /\ target.rows \in 1 .. MaxSeq /\ Rows \subseteq 1 .. MaxSeq /\ IsFiniteSet(Rows)
         /\ BatchSize \in Nat \ {0} /\ MaxRows \in Nat
         /\ target.values \subseteq Replies
         /\ OthersLock \in {"never", "passing", "any"}
<1>1. /\ target.rows \in 1 .. MaxSeq /\ target.batch \in Nat \ {0} /\ target.maxRows \in Nat
      /\ target.values \subseteq Replies /\ target.othersLock \in {"never", "passing", "any"}
  OBVIOUS
<1>2. Rows \subseteq 1 .. MaxSeq
  BY <1>1 DEF Rows
<1>3. IsFiniteSet(Rows)
  BY <1>1, FS_Interval DEF Rows
<1>. QED
  BY <1>1, <1>2, <1>3 DEF BatchSize, MaxRows, OthersLock

LEMMA LeastRow ==
  ASSUME NEW S, S \subseteq Nat, S # {}
  PROVE  \E m \in S : \A n \in S : m <= n
<1>. DEFINE R == {ss \in Nat \X Nat : ss[1] < ss[2]}
<1>1. IsWellFoundedOn(R, Nat)
  BY NatLessThanWellFounded DEF OpToRel
<1>2. PICK m \in S : \A n \in S : ~ (<<n, m>> \in R)
  BY <1>1, WFMin
<1>3. \A n \in S : ~(n < m)
  BY <1>2
<1>. QED
  BY <1>3

\* A page is empty only if there is nothing to put on it.
LEMMA PageFacts ==
  ASSUME NEW S, S \subseteq Nat, NEW n \in Nat
  PROVE  /\ LowestRows(S, n) \subseteq S
         /\ n >= 1 /\ S # {} => LowestRows(S, n) # {}
<1>1. LowestRows(S, n) \subseteq S
  BY DEF LowestRows
<1>2. ASSUME n >= 1, S # {} PROVE LowestRows(S, n) # {}
  <2>1. PICK m \in S : \A k \in S : m <= k
    BY <1>2, LeastRow
  <2>2. {t \in S : t < m} = {}
    <3>1. m \in Nat /\ \A k \in S : k \in Nat /\ ~(k < m)
      BY <2>1
    <3>. QED
      BY <3>1
  <2>3. Cardinality({t \in S : t < m}) = 0
    BY <2>2, FS_EmptySet
  <2>4. Cardinality({t \in S : t < m}) < n
    BY <1>2, <2>3
  <2>. QED
    BY <2>1, <2>4 DEF LowestRows
<1>. QED
  BY <1>1, <1>2

LEMMA MaxSeqFacts ==
  ASSUME NEW S, S \subseteq 0 .. MaxSeq, S # {}
  PROVE  Max(S) \in S
<1>. DEFINE T == {m \in 0 .. MaxSeq : MaxSeq - m \in S}
<1>1. T # {}
  <2>1. PICK n \in S : TRUE
    OBVIOUS
  <2>2. MaxSeq - n \in 0 .. MaxSeq /\ MaxSeq - (MaxSeq - n) = n
    BY <2>1
  <2>. QED
    BY <2>1, <2>2
<1>t. T \subseteq Nat
  OBVIOUS
<1>2. PICK m \in T : \A t \in T : m <= t
  <2>. HIDE DEF T
  <2>. QED
    BY <1>1, <1>t, LeastRow
<1>3. \A k \in S : MaxSeq - k \in T
  <2>1. \A k \in S : MaxSeq - k \in 0 .. MaxSeq /\ MaxSeq - (MaxSeq - k) = k
    OBVIOUS
  <2>. QED
    BY <2>1
<1>4. \A k \in S : k \in 0 .. MaxSeq /\ m <= MaxSeq - k
  BY <1>2, <1>3
<1>5. MaxSeq - m \in S /\ \A k \in S : MaxSeq - m >= k
  BY <1>2, <1>4
<1>. QED
  BY <1>5 DEF Max

LEMMA LimitFacts ==
  ASSUME target \in Targets, NEW i \in Handles, handle[i].scanned \in Nat
  PROVE  LET limit == IF MaxRows = 0 THEN BatchSize ELSE Min({BatchSize, Remaining(i)})
         IN  limit \in 0 .. BatchSize /\ (MaxRows = 0 => limit # 0)
<1>1. BatchSize \in Nat \ {0} /\ MaxRows \in Nat
  BY TargetFacts
<1>2. Remaining(i) \in Nat
  BY <1>1 DEF Remaining
<1>3. Min({BatchSize, Remaining(i)}) \in 0 .. BatchSize
  <2>1. CASE BatchSize <= Remaining(i)
    <3>1. \A x \in {BatchSize, Remaining(i)} : BatchSize <= x
      BY <1>1, <1>2, <2>1
    <3>2. Min({BatchSize, Remaining(i)}) = BatchSize
      BY <1>1, <1>2, <3>1 DEF Min
    <3>. QED
      BY <1>1, <3>2
  <2>2. CASE Remaining(i) < BatchSize
    <3>1. \A x \in {BatchSize, Remaining(i)} : Remaining(i) <= x
      BY <1>1, <1>2, <2>2
    <3>2. Min({BatchSize, Remaining(i)}) = Remaining(i)
      BY <1>1, <1>2, <2>2, <3>1 DEF Min
    <3>. QED
      BY <1>1, <1>2, <2>2, <3>2
  <2>. QED
    BY <1>1, <1>2, <2>1, <2>2
<1>. QED
  BY <1>1, <1>3

-----------------------------------------------------------------------------
(* Invariance.                                                             *)

\* What a step may not undo, whoever takes it.
Onward ==
    /\ target' = target
    /\ NoGap => NoGap'
    /\ \A i \in Handles : handle[i].state # "absent" =>
            handle'[i].state # "absent" /\ (~IsLive(i) => ~IsLive(i)')

LEMMA SameTarget ==
  ASSUME target' = target
  PROVE  /\ Rows' = Rows /\ BatchSize' = BatchSize /\ MaxRows' = MaxRows
         /\ OthersLock' = OthersLock /\ SweepsAll' = SweepsAll /\ HandTypes' = HandTypes
  BY DEF Rows, BatchSize, MaxRows, OthersLock, SweepsAll, HandTypes

LEMMA OthersHold ==
  ASSUME Onward, NEW e \in Executors, HandHolds(e), hand'[e] = hand[e]
  PROVE  HandHolds(e)'
  BY SameTarget DEF Onward, HandHolds

LEMMA HandsTyped ==
  ASSUME BackfillTypeOK
  PROVE  /\ hand \in [Executors -> HandTypes]
         /\ \A e \in Executors : hand[e] \in HandTypes
  BY DEF BackfillTypeOK, HandTypes

LEMMA IdleHolds ==
  ASSUME NEW e \in Executors, hand'[e] = IdleHand
  PROVE  HandHolds(e)'
  BY DEF HandHolds, IdleHand

LEMMA IdleTyped ==
  ASSUME target \in Targets
  PROVE  IdleHand \in HandTypes
  BY TargetFacts DEF IdleHand, HandTypes, HandPhases

LEMMA InitBackfill == BackfillInit => BackfillInv
<1>. SUFFICES ASSUME BackfillInit PROVE BackfillInv
  OBVIOUS
<1>. USE DEF BackfillInit
<1>1. BackfillTypeOK
  <2>1. annotation \in [Rows -> {"gap", "terminal"} \cup Replies] /\ held \in SUBSET Rows
    OBVIOUS
  <2>2. handle \in [Handles -> Handle]
    BY DEF Handle, Live
  <2>3. job \in [Handles -> Job]
    BY DEF Job
  <2>4. IdleHand \in HandTypes
    BY IdleTyped
  <2>. QED
    BY <2>1, <2>2, <2>3, <2>4 DEF BackfillTypeOK, HandTypes
<1>2. \A e \in Executors : HandHolds(e)
  BY DEF HandHolds, IdleHand
<1>3. \A i \in Handles : JobHolds(i)
  BY DEF JobHolds, IsLive, Live
<1>4. NobodyElse /\ DoneMeansDone
  BY DEF NobodyElse, DoneMeansDone
<1>. QED
  BY <1>1, <1>2, <1>3, <1>4 DEF BackfillInv

\* A step that moves one handle and its job, and leaves the executors alone or
\* moves one of them, is judged by what it makes of those.
MovesHandle(i, h, j) ==
    /\ handle' = [handle EXCEPT ![i] = h] /\ job' = [job EXCEPT ![i] = j]
    /\ handle[i].state # "absent" => h.state # "absent" /\ (h.state \in Live => IsLive(i))
    /\ h.state = "done" => handle[i].state = "done" \/ (SweepsAll => NoGap)
    /\ h.state \in Live => j.status \in {"active", "dead"}
    /\ j.status # "none" => h.state # "absent"

LEMMA MovesFacts ==
  ASSUME BackfillInv, target' = target, NEW i \in Handles, NEW h \in Handle, NEW j \in Job,
         MovesHandle(i, h, j), annotation' = annotation
  PROVE  /\ Onward /\ handle' \in [Handles -> Handle] /\ job' \in [Handles -> Job]
         /\ \A k \in Handles : JobHolds(k)'
         /\ DoneMeansDone'
<1>t. /\ handle \in [Handles -> Handle] /\ job \in [Handles -> Job]
      /\ \A k \in Handles : JobHolds(k)
      /\ DoneMeansDone
  BY DEF BackfillInv, BackfillTypeOK
<1>1. /\ handle' \in [Handles -> Handle] /\ job' \in [Handles -> Job]
      /\ \A k \in Handles : handle'[k] = IF k = i THEN h ELSE handle[k]
      /\ \A k \in Handles : job'[k] = IF k = i THEN j ELSE job[k]
  BY <1>t DEF MovesHandle
<1>2. Rows' = Rows /\ SweepsAll' = SweepsAll /\ (NoGap <=> NoGap')
  BY SameTarget DEF NoGap
<1>3. Onward
  BY <1>1, <1>2 DEF Onward, MovesHandle, IsLive
<1>4. \A k \in Handles : JobHolds(k)'
  BY <1>t, <1>1 DEF JobHolds, MovesHandle, IsLive
<1>5. DoneMeansDone'
  <2>1. SUFFICES ASSUME SweepsAll', NEW k \in Handles, handle'[k].state = "done" PROVE NoGap'
    BY DEF DoneMeansDone, SweepsAll, NoGap
  <2>2. SweepsAll
    BY <1>2, <2>1
  <2>3. (\E l \in Handles : handle[l].state = "done") \/ NoGap
    BY <1>1, <2>1, <2>2 DEF MovesHandle
  <2>. QED
    BY <1>t, <1>2, <2>2, <2>3 DEF DoneMeansDone, SweepsAll, NoGap
<1>. QED
  BY <1>1, <1>3, <1>4, <1>5

\* The same of a step that leaves all handles and jobs alone.
LEMMA StaysFacts ==
  ASSUME BackfillInv, target' = target, handle' = handle, job' = job, NoGap => NoGap'
  PROVE  /\ Onward /\ handle' \in [Handles -> Handle] /\ job' \in [Handles -> Job]
         /\ \A k \in Handles : JobHolds(k)'
         /\ DoneMeansDone'
<1>t. /\ handle \in [Handles -> Handle] /\ job \in [Handles -> Job]
      /\ \A k \in Handles : JobHolds(k)
      /\ DoneMeansDone
  BY DEF BackfillInv, BackfillTypeOK
<1>2. Rows' = Rows /\ SweepsAll' = SweepsAll
  BY SameTarget
<1>3. Onward
  BY DEF Onward, IsLive
<1>4. \A k \in Handles : JobHolds(k)'
  BY <1>t DEF JobHolds, IsLive
<1>5. DoneMeansDone'
  BY <1>t, <1>2 DEF DoneMeansDone, SweepsAll, NoGap
<1>. QED
  BY <1>t, <1>3, <1>4, <1>5

Settled ==
    /\ Onward /\ handle' \in [Handles -> Handle] /\ job' \in [Handles -> Job]
    /\ \A k \in Handles : JobHolds(k)'
    /\ DoneMeansDone'
    /\ annotation' \in [Rows -> {"gap", "terminal"} \cup Replies]
    /\ held' \in SUBSET Rows /\ NobodyElse'

LEMMA HandsStay ==
  ASSUME BackfillInv, Settled, hand' = hand
  PROVE  BackfillInv'
<1>1. target' = target /\ target' \in Targets
  BY DEF BackfillInv, BackfillTypeOK, Settled, Onward
<1>2. \A e \in Executors : HandHolds(e)'
  BY OthersHold DEF BackfillInv, Settled
<1>3. hand' \in [Executors -> HandTypes']
  BY <1>1, HandsTyped, SameTarget DEF BackfillInv
<1>4. BackfillTypeOK'
  BY <1>1, <1>3, SameTarget DEF BackfillTypeOK, Settled, HandTypes, Handles
<1>. QED
  BY <1>2, <1>4 DEF BackfillInv, Settled

LEMMA HandMoves ==
  ASSUME BackfillInv, Settled, NEW e \in Executors, NEW w \in HandTypes,
         hand' = [hand EXCEPT ![e] = w], HandHolds(e)'
  PROVE  BackfillInv'
<1>1. target' = target /\ target' \in Targets
  BY DEF BackfillInv, BackfillTypeOK, Settled, Onward
<1>2. \A x \in Executors : HandHolds(x)'
  <2>1. \A x \in Executors : x # e => hand'[x] = hand[x]
    BY HandsTyped DEF BackfillInv
  <2>. QED
    BY <2>1, OthersHold DEF BackfillInv, Settled
<1>3. hand' \in [Executors -> HandTypes']
  BY <1>1, HandsTyped, SameTarget DEF BackfillInv
<1>4. BackfillTypeOK'
  BY <1>1, <1>3, SameTarget DEF BackfillTypeOK, Settled, HandTypes, Handles
<1>. QED
  BY <1>2, <1>4 DEF BackfillInv, Settled

\* An executor that drops what it does.
LEMMA HandDrops ==
  ASSUME BackfillInv, Settled, NEW e \in Executors, hand' = [hand EXCEPT ![e] = IdleHand]
  PROVE  BackfillInv'
<1>1. IdleHand \in HandTypes /\ hand'[e] = IdleHand
  BY IdleTyped, HandsTyped DEF BackfillInv, BackfillTypeOK
<1>2. HandHolds(e)'
  BY <1>1, IdleHolds
<1>. QED
  BY <1>1, <1>2, HandMoves

LEMMA OthersUnmoved ==
  ASSUME BackfillInv, target' = target, UNCHANGED <<annotation, held>>
  PROVE  /\ annotation' \in [Rows -> {"gap", "terminal"} \cup Replies]
         /\ held' \in SUBSET Rows /\ NobodyElse' /\ (NoGap => NoGap')
  BY SameTarget DEF BackfillInv, BackfillTypeOK, NobodyElse, NoGap

\* What operators and other lanes do.
LEMMA OperatorStep ==
  ASSUME BackfillInv, target' = target, NEW i \in Handles,
         Request(i) \/ Cancel(i) \/ RetryDead(i) \/ Reap(i) \/ Lapse(i)
  PROVE  BackfillInv'
<1>t. /\ handle[i] \in Handle /\ job[i] \in Job /\ JobHolds(i)
      /\ handle \in [Handles -> Handle] /\ job \in [Handles -> Job]
  BY DEF BackfillInv, BackfillTypeOK
<1>1. UNCHANGED <<annotation, held, hand>>
  BY DEF Request, Cancel, RetryDead, Reap, Lapse
<1>2. \E h \in Handle : \E j \in Job : MovesHandle(i, h, j)
  <2>f. FreshJob \in Job /\ NoJob \in Job
    BY DEF FreshJob, NoJob, Job
  <2>1. CASE Request(i)
    <3>. DEFINE h == [handle[i] EXCEPT !.state = "queued"]
    <3>1. h \in Handle /\ handle' = [handle EXCEPT ![i] = h] /\ job' = [job EXCEPT ![i] = FreshJob]
      BY <1>t, <2>1 DEF Request, Handle, Live
    <3>2. h.state = "queued" /\ handle[i].state = "absent"
      BY <1>t, <2>1 DEF Request, Handle
    <3>3. MovesHandle(i, h, FreshJob)
      BY <3>1, <3>2 DEF MovesHandle, FreshJob
    <3>. QED
      BY <2>f, <3>1, <3>3
  <2>2. CASE Cancel(i)
    <3>. DEFINE h == [handle[i] EXCEPT !.state = "cancelled"]
                j == IF job[i].status = "active" THEN NoJob ELSE job[i]
    <3>1. h \in Handle /\ handle' = [handle EXCEPT ![i] = h] /\ job' = [job EXCEPT ![i] = j] /\ j \in Job
      BY <1>t, <2>f, <2>2 DEF Cancel, Handle, Live
    <3>2. h.state = "cancelled" /\ h.state \notin Live
      BY <1>t DEF Handle, Live
    <3>3. MovesHandle(i, h, j)
      BY <3>1, <3>2 DEF MovesHandle
    <3>. QED
      BY <3>1, <3>3
  <2>3. CASE RetryDead(i)
    <3>1. handle' = [handle EXCEPT ![i] = handle[i]] /\ job' = [job EXCEPT ![i] = FreshJob]
      BY <1>t, <2>3 DEF RetryDead
    <3>2. handle[i].state # "absent"
      BY <1>t, <2>3 DEF RetryDead, JobHolds
    <3>3. MovesHandle(i, handle[i], FreshJob)
      BY <3>1, <3>2 DEF MovesHandle, FreshJob, IsLive
    <3>. QED
      BY <1>t, <2>f, <3>3
  <2>4. CASE Reap(i)
    <3>. DEFINE j == [job[i] EXCEPT !.status = "dead"]
    <3>1. handle' = [handle EXCEPT ![i] = handle[i]] /\ job' = [job EXCEPT ![i] = j] /\ j \in Job
      BY <1>t, <2>4 DEF Reap, Job
    <3>2. handle[i].state # "absent" /\ j.status = "dead"
      BY <1>t, <2>4 DEF Reap, JobHolds, Job
    <3>3. MovesHandle(i, handle[i], j)
      BY <3>1, <3>2 DEF MovesHandle, IsLive
    <3>. QED
      BY <1>t, <3>1, <3>3
  <2>5. CASE Lapse(i)
    <3>. DEFINE j == [job[i] EXCEPT !.owner = Unowned]
    <3>1. handle' = [handle EXCEPT ![i] = handle[i]] /\ job' = [job EXCEPT ![i] = j] /\ j \in Job
      BY <1>t, <2>5 DEF Lapse, Job
    <3>2. j.status = job[i].status
      BY <1>t DEF Job
    <3>3. MovesHandle(i, handle[i], j)
      BY <1>t, <3>1, <3>2 DEF MovesHandle, IsLive, JobHolds
    <3>. QED
      BY <1>t, <3>1, <3>3
  <2>. QED
    BY <2>1, <2>2, <2>3, <2>4, <2>5
<1>3. Settled
  BY <1>1, <1>2, MovesFacts, OthersUnmoved DEF Settled
<1>. QED
  BY <1>1, <1>3, HandsStay

LEMMA LockStep ==
  ASSUME BackfillInv, target' = target, NEW r \in Rows, Hold(r) \/ LetGo(r)
  PROVE  BackfillInv'
<1>1. UNCHANGED <<annotation, handle, job, hand>> /\ held' \in SUBSET Rows /\ NobodyElse'
  BY SameTarget DEF Hold, LetGo, BackfillInv, BackfillTypeOK, NobodyElse
<1>2. annotation' \in [Rows -> {"gap", "terminal"} \cup Replies] /\ (NoGap => NoGap')
  BY <1>1, SameTarget DEF BackfillInv, BackfillTypeOK, NoGap
<1>3. Settled
  BY <1>1, <1>2, StaysFacts DEF Settled
<1>. QED
  BY <1>1, <1>3, HandsStay

\* What is known of an executor that is at work.
LEMMA AtWork ==
  ASSUME BackfillInv, NEW e \in Executors, hand[e].phase # "idle"
  PROVE  /\ hand[e] \in HandTypes /\ hand[e].id \in Handles
         /\ handle[hand[e].id] \in Handle /\ handle[hand[e].id].state # "absent"
         /\ job[hand[e].id] \in Job /\ JobHolds(hand[e].id)
         /\ handle = [handle EXCEPT ![hand[e].id] = handle[hand[e].id]]
         /\ job = [job EXCEPT ![hand[e].id] = job[hand[e].id]]
  BY HandsTyped DEF BackfillInv, BackfillTypeOK, HandHolds

\* What becomes of the job of an executor that is at work.
LEMMA JobMoves ==
  ASSUME BackfillInv, target' = target, UNCHANGED <<annotation, held>>,
         NEW i \in Handles, NEW h \in Handle, NEW j \in Job, MovesHandle(i, h, j)
  PROVE  Settled
  BY MovesFacts, OthersUnmoved DEF Settled

LEMMA JobStays ==
  ASSUME BackfillInv, target' = target, UNCHANGED <<annotation, held, handle, job>>
  PROVE  Settled
  BY StaysFacts, OthersUnmoved DEF Settled

LEMMA ReleasingTyped ==
  ASSUME target \in Targets, NEW i \in Handles, NEW b \in BOOLEAN
  PROVE  /\ Releasing(i, b) \in HandTypes
         /\ Releasing(i, b).phase = "release" /\ Releasing(i, b).id = i /\ Releasing(i, b).live = b
<1>. DEFINE w1 == [IdleHand EXCEPT !.phase = "release"]
            w2 == [w1 EXCEPT !.id = i]
<1>1. w1 \in HandTypes /\ w1.phase = "release"
  BY IdleTyped DEF HandTypes, HandPhases
<1>2. i \in 0 .. MaxHandles
  BY DEF Handles
<1>3. w2 \in HandTypes /\ w2.phase = "release" /\ w2.id = i
  BY <1>1, <1>2 DEF HandTypes
<1>4. Releasing(i, b) = [w2 EXCEPT !.live = b]
  BY DEF Releasing
<1>. HIDE DEF w2
<1>. QED
  BY <1>3, <1>4 DEF HandTypes

LEMMA ClaimStep ==
  ASSUME BackfillInv, target' = target, NEW e \in Executors, NEW i \in Handles, Claim(e, i)
  PROVE  BackfillInv'
<1>t. /\ hand[e] \in HandTypes /\ handle[i] \in Handle /\ job[i] \in Job /\ JobHolds(i)
      /\ job[i].status = "active" /\ job[i].attempts < MaxAttempts
  BY HandsTyped DEF BackfillInv, BackfillTypeOK, Claim
<1>. DEFINE j == [job[i] EXCEPT !.owner = e, !.attempts = @ + 1]
            w == [hand[e] EXCEPT !.phase = "claimed", !.id = i]
<1>1. j \in Job /\ j.status = "active"
  <2>. DEFINE j1 == [job[i] EXCEPT !.owner = e]
  <2>1. /\ j1 \in Job /\ j1.status = "active" /\ j1.attempts = job[i].attempts
        /\ job[i].attempts + 1 \in 0 .. MaxAttempts
    BY <1>t DEF Job
  <2>2. j = [j1 EXCEPT !.attempts = job[i].attempts + 1]
    OBVIOUS
  <2>. QED
    BY <2>1, <2>2 DEF Job
<1>2. w \in HandTypes /\ w.phase = "claimed" /\ w.id = i
  <2>. DEFINE w1 == [hand[e] EXCEPT !.phase = "claimed"]
  <2>1. w1 \in HandTypes /\ w1.phase = "claimed" /\ i \in 0 .. MaxHandles
    BY <1>t DEF HandTypes, HandPhases, Handles
  <2>2. w = [w1 EXCEPT !.id = i]
    OBVIOUS
  <2>. QED
    BY <2>1, <2>2 DEF HandTypes
<1>3. /\ UNCHANGED <<annotation, held>>
      /\ handle' = [handle EXCEPT ![i] = handle[i]] /\ job' = [job EXCEPT ![i] = j]
      /\ hand' = [hand EXCEPT ![e] = w]
  <2>1. handle' = [handle EXCEPT ![i] = handle[i]]
    BY DEF Claim, BackfillInv, BackfillTypeOK
  <2>. QED
    BY <2>1 DEF Claim
<1>. HIDE DEF j, w
<1>4. Settled
  <2>1. MovesHandle(i, handle[i], j)
    BY <1>t, <1>1, <1>3 DEF MovesHandle, IsLive, JobHolds
  <2>. QED
    BY <1>t, <1>1, <1>3, <2>1, JobMoves
<1>5. HandHolds(e)'
  <2>1. hand'[e] = w /\ handle' = handle
    BY <1>3, HandsTyped DEF BackfillInv, Claim
  <2>. QED
    BY <1>t, <1>2, <2>1 DEF HandHolds, JobHolds, Handles
<1>. QED
  BY <1>2, <1>3, <1>4, <1>5, HandMoves

LEMMA StartStep ==
  ASSUME BackfillInv, target' = target, NEW e \in Executors, Start(e)
  PROVE  BackfillInv'
<1>. DEFINE i == hand[e].id
            limit == IF MaxRows = 0 THEN BatchSize ELSE Min({BatchSize, Remaining(i)})
<1>1. hand[e].phase = "claimed" /\ target \in Targets
  BY DEF Start, BackfillInv, BackfillTypeOK
<1>t. /\ hand[e] \in HandTypes /\ i \in Handles /\ handle[i] \in Handle /\ handle[i].state # "absent"
      /\ job[i] \in Job /\ JobHolds(i)
      /\ handle = [handle EXCEPT ![i] = handle[i]] /\ job = [job EXCEPT ![i] = job[i]]
  BY <1>1, AtWork
<1>2. CASE IsLive(i)
  <2>. DEFINE h == [handle[i] EXCEPT !.state = "running"]
              w == IF limit = 0 THEN [hand[e] EXCEPT !.phase = "finish"]
                   ELSE [hand[e] EXCEPT !.phase = "started", !.after = handle[i].cursor, !.limit = limit]
  <2>1. /\ handle' = [handle EXCEPT ![i] = h] /\ job' = [job EXCEPT ![i] = job[i]]
        /\ hand' = [hand EXCEPT ![e] = w] /\ UNCHANGED <<annotation, held>>
    BY <1>t, <1>2 DEF Start
  <2>2. h \in Handle /\ h.state = "running"
    BY <1>t DEF Handle, Live
  <2>3. limit \in 0 .. BatchSize /\ (MaxRows = 0 => limit # 0)
    <3>1. handle[i].scanned \in Nat
      BY <1>t DEF Handle
    <3>. QED
      BY <1>1, <1>t, <3>1, LimitFacts
  <2>4. BatchSize \in Nat \ {0}
    BY <1>1, TargetFacts
  <2>5. /\ w \in HandTypes /\ w.id = i /\ w.phase \in {"started", "finish"}
        /\ w.phase = "started" => w.limit >= 1
        /\ w.phase = "finish" => MaxRows # 0
    <3>. HIDE DEF limit, i
    <3>1. CASE limit = 0
      BY <1>t, <2>3, <3>1 DEF HandTypes, HandPhases, i
    <3>2. CASE limit # 0
      <4>1. handle[i].cursor \in 0 .. MaxSeq
        BY <1>t DEF Handle
      <4>. DEFINE w1 == [hand[e] EXCEPT !.phase = "started"]
                  w2 == [w1 EXCEPT !.after = handle[i].cursor]
      <4>2. w1 \in HandTypes /\ w1.phase = "started" /\ w1.id = i
        BY <1>t DEF HandTypes, HandPhases, i
      <4>3. w2 \in HandTypes /\ w2.phase = "started" /\ w2.id = i
        BY <4>1, <4>2 DEF HandTypes
      <4>4. w = [w2 EXCEPT !.limit = limit]
        BY <3>2
      <4>5. limit >= 1
        BY <2>3, <2>4, <3>2
      <4>. HIDE DEF w, w1, w2
      <4>6. w \in HandTypes /\ w.phase = "started" /\ w.id = i /\ w.limit = limit
        BY <2>3, <4>3, <4>4 DEF HandTypes
      <4>. QED
        BY <4>5, <4>6
    <3>. QED
      BY <3>1, <3>2
  <2>. HIDE DEF h, w, limit
  <2>6. Settled
    <3>1. MovesHandle(i, h, job[i])
      BY <1>t, <1>2, <2>1, <2>2 DEF MovesHandle, JobHolds, Live
    <3>. QED
      BY <1>t, <2>1, <2>2, <3>1, JobMoves
  <2>7. HandHolds(e)'
    <3>1. hand'[e] = w /\ handle'[i].state = "running"
      BY <1>t, <2>1, <2>2, HandsTyped DEF BackfillInv, BackfillTypeOK
    <3>. QED
      BY <1>t, <2>5, <3>1, SameTarget DEF HandHolds, Handles, SweepsAll
  <2>. QED
    BY <2>1, <2>5, <2>6, <2>7, HandMoves
<1>3. CASE ~IsLive(i)
  <2>1. hand' = [hand EXCEPT ![e] = Releasing(i, FALSE)] /\ UNCHANGED <<annotation, held, handle, job>>
    BY <1>3 DEF Start
  <2>2. /\ Releasing(i, FALSE) \in HandTypes /\ Releasing(i, FALSE).phase = "release"
        /\ Releasing(i, FALSE).id = i /\ Releasing(i, FALSE).live = FALSE
    BY <1>1, <1>t, ReleasingTyped
  <2>3. HandHolds(e)'
    <3>1. hand'[e] = Releasing(i, FALSE)
      BY <2>1, HandsTyped DEF BackfillInv
    <3>. QED
      BY <1>t, <1>3, <2>1, <2>2, <3>1 DEF HandHolds, IsLive, Handles
  <2>. QED
    BY <2>1, <2>2, <2>3, JobStays, HandMoves
<1>. QED
  BY <1>2, <1>3

LEMMA SelectStep ==
  ASSUME BackfillInv, target' = target, NEW e \in Executors, Select(e)
  PROVE  BackfillInv'
<1>. DEFINE page == Page(hand[e].after, hand[e].limit)
            w == [hand[e] EXCEPT !.phase = IF page = {} THEN "exhausted" ELSE "selected", !.batch = page]
            S == {r \in Rows : r > hand[e].after /\ annotation[r] = "gap" /\ r \notin held}
<1>1. /\ hand[e].phase = "started" /\ target \in Targets
      /\ OthersLock = "passing" /\ hand[e].after = 0 => held = {}
      /\ hand' = [hand EXCEPT ![e] = w] /\ UNCHANGED <<annotation, held, handle, job>>
  BY DEF Select, BackfillInv, BackfillTypeOK
<1>t. /\ hand[e] \in HandTypes /\ hand[e].id \in Handles /\ handle[hand[e].id].state # "absent"
      /\ hand[e].limit \in Nat /\ hand[e].limit >= 1 /\ NobodyElse
  <2>1. HandHolds(e) /\ hand[e] \in HandTypes /\ BatchSize \in Nat
    BY <1>1, TargetFacts, HandsTyped DEF BackfillInv
  <2>. QED
    BY <1>1, <2>1, AtWork DEF HandHolds, HandTypes, BackfillInv
<1>2. S \subseteq Nat /\ Rows \subseteq 1 .. MaxSeq
  BY <1>1, TargetFacts
<1>3. page \subseteq Rows /\ (page = {} => S = {})
  BY <1>t, <1>2, PageFacts DEF Page
<1>4. /\ w \in HandTypes /\ w.id = hand[e].id /\ w.after = hand[e].after /\ w.batch = page
      /\ w.phase = IF page = {} THEN "exhausted" ELSE "selected"
  <2>. HIDE DEF page
  <2>. QED
    BY <1>t, <1>3 DEF HandTypes, HandPhases
<1>5. SweepsAll /\ page = {} /\ hand[e].after = 0 => NoGap
  <2>1. SUFFICES ASSUME SweepsAll, page = {}, hand[e].after = 0 PROVE NoGap
    OBVIOUS
  <2>2. held = {}
    BY <1>1, <1>t, <2>1, TargetFacts DEF SweepsAll, NobodyElse
  <2>3. \A r \in Rows : r > hand[e].after
    BY <1>2, <2>1
  <2>. QED
    BY <1>3, <2>1, <2>2, <2>3 DEF NoGap
<1>. HIDE DEF page, w, S
<1>6. HandHolds(e)'
  <2>1. hand'[e] = w /\ (NoGap => NoGap')
    BY <1>1, HandsTyped, SameTarget DEF BackfillInv, NoGap
  <2>. QED
    BY <1>1, <1>t, <1>4, <1>5, <2>1, SameTarget DEF HandHolds, Handles
<1>. QED
  BY <1>1, <1>4, <1>6, JobStays, HandMoves

LEMMA WriteStep ==
  ASSUME BackfillInv, target' = target, NEW e \in Executors, Write(e)
  PROVE  BackfillInv'
<1>. DEFINE w == [hand[e] EXCEPT !.phase = "written"]
<1>1. /\ hand[e].phase = "selected" /\ target \in Targets
      /\ hand' = [hand EXCEPT ![e] = w] /\ UNCHANGED <<held, handle, job>>
      /\ \E out \in Answers(hand[e].batch) : annotation' = Annotated(out)
  BY DEF Write, BackfillInv, BackfillTypeOK
<1>t. /\ hand[e] \in HandTypes /\ hand[e].id \in Handles /\ handle[hand[e].id].state # "absent"
      /\ hand[e].batch # {} /\ held \in SUBSET Rows /\ NobodyElse
      /\ annotation \in [Rows -> {"gap", "terminal"} \cup Replies]
  BY <1>1, AtWork DEF BackfillInv, BackfillTypeOK, HandHolds
<1>2. w \in HandTypes /\ w.phase = "written" /\ w.id = hand[e].id /\ w.batch = hand[e].batch
  BY <1>t DEF HandTypes, HandPhases
<1>3. /\ annotation' \in [Rows -> {"gap", "terminal"} \cup Replies]
      /\ \A r \in Rows : annotation[r] # "gap" => annotation'[r] # "gap"
  <2>1. PICK out \in Answers(hand[e].batch) : annotation' = Annotated(out)
    BY <1>1
  <2>2. \A r \in DOMAIN out : out[r] \in Replies \cup {"terminal"} /\ out[r] # "gap"
    <3>1. target.values \subseteq Replies
      BY <1>1, TargetFacts
    <3>. QED
      BY <3>1 DEF Answers
  <2>. QED
    BY <1>t, <2>1, <2>2 DEF Annotated
<1>. HIDE DEF w
<1>4. NoGap => NoGap'
  BY <1>3, SameTarget DEF NoGap
<1>5. Settled
  BY <1>1, <1>t, <1>3, <1>4, StaysFacts, SameTarget DEF Settled, NobodyElse
<1>6. HandHolds(e)'
  <2>1. hand'[e] = w
    BY <1>1, HandsTyped DEF BackfillInv
  <2>. QED
    BY <1>1, <1>t, <1>2, <2>1 DEF HandHolds, Handles
<1>. QED
  BY <1>1, <1>2, <1>5, <1>6, HandMoves

LEMMA ProgressStep ==
  ASSUME BackfillInv, target' = target, NEW e \in Executors, Progress(e)
  PROVE  BackfillInv'
<1>. DEFINE i == hand[e].id
            w == IF Cardinality(hand[e].batch) < hand[e].limit
                 THEN [hand[e] EXCEPT !.phase = "exhausted", !.limit = 0]
                 ELSE Releasing(i, IsLive(i))
            c == Max({handle[i].cursor} \cup hand[e].batch)
            n == IF MaxRows = 0 THEN handle[i].scanned
                 ELSE handle[i].scanned + Cardinality(hand[e].batch)
            h == [handle[i] EXCEPT !.cursor = c, !.scanned = n]
<1>1. /\ hand[e].phase = "written" /\ target \in Targets
      /\ handle \in [Handles -> Handle] /\ job \in [Handles -> Job]
  BY DEF Progress, BackfillInv, BackfillTypeOK
<1>t. /\ hand[e] \in HandTypes /\ i \in Handles /\ handle[i] \in Handle /\ handle[i].state # "absent"
      /\ job[i] \in Job /\ JobHolds(i) /\ hand[e].batch # {}
      /\ job = [job EXCEPT ![i] = job[i]]
  BY <1>1, AtWork DEF BackfillInv, HandHolds
<1>2. /\ handle' = [handle EXCEPT ![i] = h] /\ job' = [job EXCEPT ![i] = job[i]]
      /\ hand' = [hand EXCEPT ![e] = w] /\ UNCHANGED <<annotation, held>>
  BY <1>1, <1>t DEF Progress
<1>3. c \in 0 .. MaxSeq /\ n \in Nat
  <2>1. /\ hand[e].batch \subseteq Rows /\ handle[i].cursor \in 0 .. MaxSeq /\ handle[i].scanned \in Nat
    BY <1>t DEF HandTypes, Handle
  <2>2. Rows \subseteq 1 .. MaxSeq /\ IsFiniteSet(Rows)
    BY <1>1, TargetFacts
  <2>3. Cardinality(hand[e].batch) \in Nat
    BY <2>1, <2>2, FS_Subset, FS_CardinalityType
  <2>4. {handle[i].cursor} \cup hand[e].batch \subseteq 0 .. MaxSeq
    <3>1. ASSUME NEW r \in hand[e].batch PROVE r \in 0 .. MaxSeq
      <4>1. r \in 1 .. MaxSeq
        BY <2>1, <2>2
      <4>. QED
        BY <4>1
    <3>. HIDE DEF i
    <3>. QED
      BY <2>1, <3>1
  <2>5. c \in {handle[i].cursor} \cup hand[e].batch
    BY <2>4, MaxSeqFacts
  <2>. QED
    BY <2>1, <2>3, <2>4, <2>5
<1>4. h \in Handle /\ h.state = handle[i].state
  <2>. DEFINE h1 == [handle[i] EXCEPT !.cursor = c]
  <2>. HIDE DEF c, n
  <2>1. h1 \in Handle /\ h1.state = handle[i].state
    BY <1>t, <1>3 DEF Handle
  <2>2. h = [h1 EXCEPT !.scanned = n]
    OBVIOUS
  <2>. HIDE DEF h1, h
  <2>. QED
    BY <1>3, <2>1, <2>2 DEF Handle
<1>. HIDE DEF h
<1>5. Settled
  <2>1. MovesHandle(i, h, job[i])
    BY <1>t, <1>2, <1>4 DEF MovesHandle, IsLive, JobHolds
  <2>. QED
    BY <1>t, <1>2, <1>4, <2>1, JobMoves
<1>6. /\ w \in HandTypes /\ w.id = i
      /\ \/ w.phase = "exhausted" /\ w.batch # {}
         \/ w.phase = "release" /\ (w.live <=> IsLive(i))
  <2>1. CASE Cardinality(hand[e].batch) < hand[e].limit
    <3>. DEFINE w1 == [hand[e] EXCEPT !.phase = "exhausted"]
    <3>1. w1 \in HandTypes /\ w1.phase = "exhausted" /\ w1.id = i /\ w1.batch # {}
      BY <1>t DEF HandTypes, HandPhases
    <3>2. w = [w1 EXCEPT !.limit = 0] /\ 0 \in 0 .. BatchSize
      BY <1>1, <2>1, TargetFacts
    <3>. HIDE DEF w, w1
    <3>. QED
      BY <3>1, <3>2 DEF HandTypes
  <2>2. CASE ~(Cardinality(hand[e].batch) < hand[e].limit)
    <3>1. w = Releasing(i, IsLive(i)) /\ IsLive(i) \in BOOLEAN
      BY <2>2 DEF IsLive
    <3>. QED
      BY <1>1, <1>t, <3>1, ReleasingTyped
  <2>. QED
    BY <2>1, <2>2
<1>. HIDE DEF w
<1>7. HandHolds(e)'
  <2>1. hand'[e] = w /\ handle'[i].state = handle[i].state
    BY <1>1, <1>2, <1>4, <1>t, HandsTyped DEF BackfillInv
  <2>. QED
    BY <1>t, <1>6, <2>1 DEF HandHolds, Handles, IsLive
<1>. QED
  BY <1>2, <1>5, <1>6, <1>7, HandMoves

LEMMA EndOfSweepStep ==
  ASSUME BackfillInv, target' = target, NEW e \in Executors, EndOfSweep(e)
  PROVE  BackfillInv'
<1>. DEFINE i == hand[e].id
<1>1. /\ hand[e].phase = "exhausted" /\ target \in Targets
      /\ handle \in [Handles -> Handle] /\ HandHolds(e)
  BY DEF EndOfSweep, BackfillInv, BackfillTypeOK
<1>t. /\ hand[e] \in HandTypes /\ i \in Handles /\ handle[i] \in Handle /\ handle[i].state # "absent"
      /\ job[i] \in Job /\ JobHolds(i) /\ job = [job EXCEPT ![i] = job[i]]
  BY <1>1, AtWork
<1>2. CASE Confirmed(hand[e])
  <2>. DEFINE w1 == [IdleHand EXCEPT !.phase = "finish"]
              w == [w1 EXCEPT !.id = i]
  <2>1. /\ hand' = [hand EXCEPT ![e] = [IdleHand EXCEPT !.phase = "finish", !.id = i]]
        /\ UNCHANGED <<annotation, held, handle, job>>
    BY <1>2 DEF EndOfSweep
  <2>2. w1 \in HandTypes /\ w1.phase = "finish" /\ i \in 0 .. MaxHandles
    BY <1>1, <1>t, IdleTyped DEF HandTypes, HandPhases, Handles
  <2>3. w \in HandTypes /\ w.phase = "finish" /\ w.id = i
    BY <2>2 DEF HandTypes
  <2>4. hand' = [hand EXCEPT ![e] = w]
    BY <2>1
  <2>. HIDE DEF w
  <2>5. SweepsAll => NoGap'
    BY <1>1, <1>2, <2>1, SameTarget DEF HandHolds, Confirmed, NoGap
  <2>6. HandHolds(e)'
    <3>1. hand'[e] = w
      BY <2>4, HandsTyped DEF BackfillInv
    <3>. QED
      BY <1>t, <2>1, <2>3, <2>5, <3>1, SameTarget DEF HandHolds, Handles
  <2>. QED
    BY <2>1, <2>3, <2>4, <2>6, JobStays, HandMoves
<1>3. CASE ~Confirmed(hand[e])
  <2>. DEFINE h == [handle[i] EXCEPT !.cursor = 0]
              w == Releasing(i, IsLive(i))
  <2>1. /\ handle' = [handle EXCEPT ![i] = h] /\ job' = [job EXCEPT ![i] = job[i]]
        /\ hand' = [hand EXCEPT ![e] = w] /\ UNCHANGED <<annotation, held>>
    BY <1>1, <1>t, <1>3 DEF EndOfSweep
  <2>2. h \in Handle /\ h.state = handle[i].state
    BY <1>t DEF Handle
  <2>3. w \in HandTypes /\ w.phase = "release" /\ w.id = i /\ (w.live <=> IsLive(i))
    <3>1. IsLive(i) \in BOOLEAN
      BY DEF IsLive
    <3>. QED
      BY <1>1, <1>t, <3>1, ReleasingTyped
  <2>. HIDE DEF h, w
  <2>4. Settled
    <3>1. MovesHandle(i, h, job[i])
      BY <1>t, <2>1, <2>2 DEF MovesHandle, IsLive, JobHolds
    <3>. QED
      BY <1>t, <2>1, <2>2, <3>1, JobMoves
  <2>5. HandHolds(e)'
    <3>1. hand'[e] = w /\ handle'[i].state = handle[i].state
      BY <1>1, <2>1, <2>2, <1>t, HandsTyped DEF BackfillInv
    <3>. QED
      BY <1>t, <2>3, <3>1 DEF HandHolds, Handles, IsLive
  <2>. QED
    BY <2>1, <2>3, <2>4, <2>5, HandMoves
<1>. QED
  BY <1>2, <1>3

LEMMA FinishStep ==
  ASSUME BackfillInv, target' = target, NEW e \in Executors, Finish(e)
  PROVE  BackfillInv'
<1>. DEFINE i == hand[e].id
            h == IF IsLive(i) THEN [handle[i] EXCEPT !.state = "done"] ELSE handle[i]
            w == Releasing(i, FALSE)
<1>1. /\ hand[e].phase = "finish" /\ target \in Targets
      /\ handle \in [Handles -> Handle] /\ HandHolds(e)
  BY DEF Finish, BackfillInv, BackfillTypeOK
<1>t. /\ hand[e] \in HandTypes /\ i \in Handles /\ handle[i] \in Handle /\ handle[i].state # "absent"
      /\ job[i] \in Job /\ JobHolds(i) /\ job = [job EXCEPT ![i] = job[i]]
  BY <1>1, AtWork
<1>2. /\ handle' = [handle EXCEPT ![i] = h] /\ job' = [job EXCEPT ![i] = job[i]]
      /\ hand' = [hand EXCEPT ![e] = w] /\ UNCHANGED <<annotation, held>>
  BY <1>1, <1>t DEF Finish
<1>3. h \in Handle /\ h.state \notin Live /\ h.state # "absent" /\ (SweepsAll => NoGap)
  <2>1. h \in Handle /\ h.state \notin Live /\ h.state # "absent"
    BY <1>t DEF Handle, IsLive, Live
  <2>. QED
    BY <1>1, <2>1 DEF HandHolds
<1>4. w \in HandTypes /\ w.phase = "release" /\ w.id = i
  BY <1>1, <1>t, ReleasingTyped
<1>. HIDE DEF h, w
<1>5. Settled
  <2>1. MovesHandle(i, h, job[i])
    BY <1>t, <1>2, <1>3 DEF MovesHandle
  <2>. QED
    BY <1>t, <1>2, <1>3, <2>1, JobMoves
<1>6. HandHolds(e)'
  <2>1. hand'[e] = w /\ handle'[i] = h
    BY <1>1, <1>2, <1>t, HandsTyped DEF BackfillInv
  <2>. QED
    BY <1>t, <1>3, <1>4, <2>1 DEF HandHolds, Handles, IsLive
<1>. QED
  BY <1>2, <1>4, <1>5, <1>6, HandMoves

\* An executor that goes, and what it leaves of its job and its backfill.
LEMMA GoingStep ==
  ASSUME BackfillInv, target' = target, NEW e \in Executors,
         ProcessDies(e) \/ Release(e) \/ LeaseLost(e) \/ Fail(e) \/ FailTarget(e)
  PROVE  BackfillInv'
<1>. DEFINE i == hand[e].id
<1>1. /\ hand[e].phase # "idle" /\ hand' = [hand EXCEPT ![e] = IdleHand] /\ UNCHANGED <<annotation, held>>
  BY DEF ProcessDies, Release, LeaseLost, Fail, FailTarget
<1>t. /\ hand[e] \in HandTypes /\ i \in Handles /\ handle[i] \in Handle /\ handle[i].state # "absent"
      /\ job[i] \in Job /\ JobHolds(i) /\ HandHolds(e)
      /\ handle = [handle EXCEPT ![i] = handle[i]] /\ job = [job EXCEPT ![i] = job[i]]
      /\ handle \in [Handles -> Handle] /\ job \in [Handles -> Job]
  BY <1>1, AtWork DEF BackfillInv, BackfillTypeOK
<1>f. FreshJob \in Job /\ NoJob \in Job
  BY DEF FreshJob, NoJob, Job
<1>2. Settled
  <2>1. CASE ProcessDies(e) \/ LeaseLost(e)
    BY <2>1, JobStays DEF ProcessDies, LeaseLost
  <2>2. CASE Release(e)
    <3>. DEFINE j == IF hand[e].live THEN FreshJob ELSE NoJob
    <3>1. handle' = [handle EXCEPT ![i] = handle[i]] /\ job' = [job EXCEPT ![i] = j] /\ j \in Job
      BY <1>t, <1>f, <2>2 DEF Release
    <3>2. IsLive(i) => j.status = "active"
      BY <1>t, <2>2 DEF Release, HandHolds, FreshJob
    <3>3. MovesHandle(i, handle[i], j)
      BY <1>t, <3>1, <3>2 DEF MovesHandle, IsLive
    <3>. QED
      BY <1>1, <1>t, <3>1, <3>3, JobMoves
  <2>3. CASE Fail(e)
    <3>. DEFINE s == IF job[i].attempts >= MaxAttempts THEN "dead" ELSE "active"
                j1 == [job[i] EXCEPT !.owner = Unowned]
                j == [j1 EXCEPT !.status = s]
    <3>1. j1 \in Job /\ s \in {"dead", "active"}
      BY <1>t DEF Job
    <3>2. j \in Job /\ j.status \in {"active", "dead"}
      <4>. HIDE DEF j1, s
      <4>. QED
        BY <3>1 DEF Job
    <3>3. handle' = [handle EXCEPT ![i] = handle[i]] /\ job' = [job EXCEPT ![i] = j]
      <4>1. job' = [job EXCEPT ![i].owner = Unowned, ![i].status = s] /\ handle' = handle
        BY <2>3 DEF Fail
      <4>2. [job EXCEPT ![i].owner = Unowned, ![i].status = s] = [job EXCEPT ![i] = j]
        OBVIOUS
      <4>. QED
        BY <1>t, <4>1, <4>2
    <3>. HIDE DEF j
    <3>4. MovesHandle(i, handle[i], j)
      BY <1>t, <3>2, <3>3 DEF MovesHandle, IsLive
    <3>. QED
      BY <1>1, <1>t, <3>2, <3>4, JobMoves
  <2>4. CASE FailTarget(e)
    <3>. DEFINE h == IF IsLive(i) THEN [handle[i] EXCEPT !.state = "failed"] ELSE handle[i]
                j1 == [job[i] EXCEPT !.owner = Unowned]
                j == IF Owns(e) THEN [j1 EXCEPT !.status = "dead"] ELSE job[i]
    <3>1. h \in Handle /\ h.state \notin Live /\ h.state # "absent"
          /\ (h.state = "done" => handle[i].state = "done")
      BY <1>t DEF Handle, IsLive, Live
    <3>2. j1 \in Job /\ j \in Job
      BY <1>t DEF Job
    <3>3. handle' = [handle EXCEPT ![i] = h] /\ job' = [job EXCEPT ![i] = j]
      BY <1>t, <2>4 DEF FailTarget
    <3>. HIDE DEF h, j
    <3>4. MovesHandle(i, h, j)
      BY <3>1, <3>3 DEF MovesHandle
    <3>. QED
      BY <1>1, <1>t, <3>1, <3>2, <3>4, JobMoves
  <2>. QED
    BY <2>1, <2>2, <2>3, <2>4
<1>. QED
  BY <1>1, <1>2, HandDrops

LEMMA StillStep ==
  ASSUME BackfillInv, UNCHANGED backfillVars
  PROVE  BackfillInv'
<1>1. Settled
  BY JobStays DEF backfillVars, advancing
<1>. QED
  BY <1>1, HandsStay DEF backfillVars, advancing

LEMMA BackfillInductive == BackfillInv /\ [BackfillNext]_backfillVars => BackfillInv'
<1>. SUFFICES ASSUME BackfillInv, [BackfillNext]_backfillVars PROVE BackfillInv'
  OBVIOUS
<1>1. CASE UNCHANGED backfillVars
  BY <1>1, StillStep
<1>2. ASSUME target' = target, NEW i \in Handles,
             Request(i) \/ Cancel(i) \/ RetryDead(i) \/ Reap(i) \/ Lapse(i)
      PROVE  BackfillInv'
  BY <1>2, OperatorStep
<1>3. ASSUME target' = target, NEW r \in Rows, Hold(r) \/ LetGo(r) PROVE BackfillInv'
  BY <1>3, LockStep
<1>4. ASSUME target' = target, NEW e \in Executors, Execute(e) PROVE BackfillInv'
  BY <1>4, StartStep, SelectStep, WriteStep, ProgressStep, EndOfSweepStep, FinishStep, GoingStep
     DEF Execute
<1>5. ASSUME target' = target, NEW e \in Executors, ProcessDies(e) PROVE BackfillInv'
  BY <1>5, GoingStep
<1>6. ASSUME target' = target, NEW e \in Executors, NEW i \in Handles, Claim(e, i) PROVE BackfillInv'
  BY <1>6, ClaimStep
<1>. QED
  BY <1>1, <1>2, <1>3, <1>4, <1>5, <1>6 DEF BackfillNext, BackfillStep

\* Whatever lapses, dies, is cancelled or skipped: what executors know of their
\* backfills holds, and so does what handles, jobs and rows say of each other.
THEOREM BackfillInvariance == BackfillSpec => []BackfillInv
<1>. QED
  BY InitBackfill, BackfillInductive, PTL DEF BackfillSpec

\* A backfill without a row budget that is done has left no row behind, where no
\* other lane keeps a row locked through a whole sweep, for every number of rows, executors, attempts and batch sizes (backfill.py, the sweep that
\* is confirmed from the first record, against rows that a sweep skips locked).
THEOREM DoneIsDone == BackfillSpec => []DoneMeansDone
<1>1. BackfillInv => DoneMeansDone
  BY DEF BackfillInv
<1>. QED
  BY <1>1, BackfillInvariance, PTL

\* A live backfill has a job to carry it on, or one that died and tells so: a
\* claim completes and queues its successor in one transaction
\* (_release_backfill_claim), and it does without one only of a backfill that is over.
THEOREM LiveBackfillsHaveJobs == BackfillSpec => []LiveHasJob
<1>1. BackfillInv => LiveHasJob
  BY DEF BackfillInv, LiveHasJob, JobHolds
<1>. QED
  BY <1>1, BackfillInvariance, PTL

\* An annotation is written once: a finalize that comes late, of an executor whose
\* lease lapsed or of another backfill, finds it and leaves it alone.
THEOREM AnnotationsStand == BackfillSpec => WriteOnce
<1>1. BackfillInv /\ [BackfillNext]_backfillVars
      => [\A r \in Rows : Given(r) => annotation'[r] = annotation[r]]_backfillVars
  <2>. SUFFICES ASSUME BackfillInv, BackfillNext, NEW r \in Rows, Given(r)
                PROVE  annotation'[r] = annotation[r]
    OBVIOUS
  <2>1. CASE annotation' = annotation
    BY <2>1
  <2>2. CASE \E e \in Executors : Write(e)
    <3>1. PICK e \in Executors : Write(e)
      BY <2>2
    <3>2. PICK out : annotation' = Annotated(out)
      BY <3>1 DEF Write
    <3>. QED
      BY <3>2 DEF Annotated
  <2>. QED
    BY <2>1, <2>2 DEF BackfillNext, BackfillStep, Execute, Request, Cancel, RetryDead, Reap, Lapse, Hold,
       LetGo, ProcessDies, Claim, Start, Select, Progress, EndOfSweep, Finish, Release, LeaseLost, Fail,
       FailTarget
<1>. QED
  BY <1>1, BackfillInvariance, PTL DEF BackfillSpec, WriteOnce
=============================================================================
