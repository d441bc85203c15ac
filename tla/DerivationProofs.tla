-------------------------- MODULE DerivationProofs --------------------------
(***************************************************************************)
(* What the cursor of a derivation promises, for every number of records,  *)
(* executors, attempts and runs, and every declaration.  What a run says   *)
(* of the rows it read and of the model calls it made, for every set of    *)
(* rows and every derivation that the loader lets through.                 *)
(***************************************************************************)
EXTENDS Derivation, Execution, FiniteSetTheorems, SequenceTheorems, WellFoundedInduction, TLAPS

OwnerAtWork == owner # Nobody => mailbox = "active" /\ attempts >= 1

\* Inserts that hold the entity lock leave no gap below a row.
NoGaps ==
    Keyed => \A s \in Seqs :
        /\ row[s] # "open"
        /\ row[s] # "none" => \A t \in Seqs : t < s => row[t] # "none"

Reached(h) == h = 0 \/ row[h] # "none"

\* Where the records of a basis begin.
StartOf(b) == IF Mode = "changes" THEN b.from ELSE 0

\* A basis has every committed record from its start to the cursor that its run
\* will set: rows that appear later lie above.
BasisHolds(b) ==
    /\ Mode = "changes" => \A s \in b.inputs : s > b.from
    /\ Keyed /\ Mode # "citation_repair" =>
        /\ Reached(NextHighSeq(b))
        /\ \A s \in Committed : StartOf(b) < s /\ s <= NextHighSeq(b) => s \in b.inputs

\* Runs of a changes source have intervals that follow each other.
RunsFollow ==
    Mode = "changes" => \A i \in DOMAIN runs :
        /\ \A s \in runs[i].inputs : s <= runs[i].high
        /\ \A k \in DOMAIN runs : i < k =>
            runs[i].high <= runs[k].high /\ \A s \in runs[k].inputs : s > runs[i].high

\* NeverSkips, without sequences of runs.
SeenBefore(i, s) ==
    IF Mode = "changes" THEN \E k \in DOMAIN runs : k <= i /\ s \in runs[k].inputs
    ELSE s \in runs[i].inputs

RunsCover ==
    Keyed /\ Mode # "citation_repair" => \A i \in DOMAIN runs :
        /\ Reached(runs[i].high)
        /\ \A s \in Committed : s <= runs[i].high => SeenBefore(i, s)

\* What a manual request has asked for is still there and not yet reflected.
AskedHolds ==
    Keyed /\ Mode = "changes" =>
        /\ asked \subseteq Ready
        /\ \A i \in DOMAIN runs : asked \cap runs[i].inputs = {}
        /\ mailbox = "none" => asked = {}

\* Whoever leaves the mailbox empty has evaluated the triggers.
NothingFires == mailbox = "none" => ~Fires(row, runs)

DerivationInv ==
    /\ TypeOK /\ OwnerAtWork /\ NoGaps
    /\ \A e \in Executors : work[e].phase = "resolved" => BasisHolds(work[e].basis)
    /\ RunsFollow /\ RunsCover /\ AskedHolds /\ NothingFires

USE BoundsAssumption, ModeAssumption

-----------------------------------------------------------------------------
(* Numbers.                                                                *)

LEMMA LeastOf ==
  ASSUME NEW S, S \subseteq Nat, S # {}
  PROVE  \E m \in S : \A n \in S : m <= n
<1>. DEFINE R == {ss \in Nat \X Nat : ss[1] < ss[2]}
<1>1. IsWellFoundedOn(R, Nat)
  BY NatLessThanWellFounded DEF OpToRel
<1>2. PICK m \in S : \A n \in S : ~ (<<n, m>> \in R)
  BY <1>1, WFMin
<1>3. \A n \in S : ~(n < m)
  BY <1>2
<1>. QED
  BY <1>3

LEMMA MaxFacts ==
  ASSUME NEW S, S \subseteq 0 .. MaxSeq, S # {}
  PROVE  Max(S) \in S /\ \A n \in S : n <= Max(S)
<1>. DEFINE T == {m \in 0 .. MaxSeq : MaxSeq - m \in S}
<1>1. T # {}
  <2>1. PICK n \in S : TRUE
    OBVIOUS
  <2>2. MaxSeq - n \in 0 .. MaxSeq /\ MaxSeq - (MaxSeq - n) = n
    BY <2>1
  <2>. QED
    BY <2>1, <2>2
<1>t. T \subseteq Nat
  OBVIOUS
<1>2. PICK m \in T : \A t \in T : m <= t
  <2>. HIDE DEF T
  <2>. QED
    BY <1>1, <1>t, LeastOf
<1>3. \A k \in S : MaxSeq - k \in T
  <2>1. \A k \in S : MaxSeq - k \in 0 .. MaxSeq /\ MaxSeq - (MaxSeq - k) = k
    OBVIOUS
  <2>. QED
    BY <2>1
<1>4. \A k \in S : k \in 0 .. MaxSeq /\ m <= MaxSeq - k
  BY <1>2, <1>3
<1>5. MaxSeq - m \in S /\ \A k \in S : MaxSeq - m >= k
  BY <1>2, <1>4
<1>. QED
  BY <1>5 DEF Max

LEMMA MinFacts ==
  ASSUME NEW S, S \subseteq Nat, S # {}
  PROVE  Min(S) \in S
  BY LeastOf DEF Min

\* The cursor that a run will set.
LEMMA HighFacts ==
  ASSUME NEW b \in Basis
  PROVE  /\ NextHighSeq(b) \in 0 .. MaxSeq
         /\ Mode = "changes" => /\ NextHighSeq(b) \in b.inputs \cup {b.from}
                                /\ b.from <= NextHighSeq(b)
                                /\ \A s \in b.inputs : s <= NextHighSeq(b)
<1>1. /\ b.from \in 0 .. MaxSeq /\ b.through \in 0 .. MaxSeq
      /\ b.inputs \subseteq 0 .. MaxSeq
  BY DEF Basis, Seqs
<1>2. CASE Mode = "changes"
  <2>. DEFINE S == b.inputs \cup {b.from}
  <2>1. S \subseteq 0 .. MaxSeq /\ S # {} /\ NextHighSeq(b) = Max(S)
    BY <1>1, <1>2 DEF NextHighSeq, MaxOr0
  <2>2. Max(S) \in S /\ \A n \in S : n <= Max(S)
    BY <2>1, MaxFacts
  <2>. QED
    BY <2>1, <2>2
<1>3. CASE Mode # "changes"
  BY <1>1, <1>3 DEF NextHighSeq
<1>. QED
  BY <1>2, <1>3

\* The declaration does not change.
LEMMA SameDeclaration ==
  ASSUME setting' = setting
  PROVE  /\ Mode' = Mode /\ Triggered' = Triggered /\ Keyed' = Keyed
         /\ \A b \in Basis : NextHighSeq(b)' = NextHighSeq(b) /\ StartOf(b)' = StartOf(b)
  BY DEF Mode, Triggered, Keyed, NextHighSeq, StartOf, MaxOr0

-----------------------------------------------------------------------------
(* Invariance.                                                             *)

LEMMA InitDerivation == Init => DerivationInv
<1>. SUFFICES ASSUME Init PROVE DerivationInv
  OBVIOUS
<1>1. Idle.phase = "idle" /\ Idle.basis \in Basis
  BY DEF Idle, Basis
<1>2. \A e \in Executors : work[e].phase = "idle"
  BY <1>1 DEF Init
<1>3. TypeOK
  <2>1. Idle \in [phase : {"idle", "claimed", "barred", "resolved"}, basis : Basis]
    BY <1>1 DEF Idle
  <2>. QED
    BY <2>1 DEF Init, TypeOK
<1>4. NothingFires
  BY DEF Init, NothingFires, Fires
<1>. QED
  BY <1>2, <1>3, <1>4 DEF DerivationInv, Init, OwnerAtWork, NoGaps, RunsFollow, RunsCover, AskedHolds

\* The mailbox after a stimulus: active, or as before where there was none.
LEMMA FillFacts ==
  ASSUME NEW cond \in BOOLEAN, NEW m \in {"none", "active", "dead"}, NEW a \in 0 .. MaxAttempts,
         NEW o \in Executors \cup {Nobody}, NEW k \in {"none", "transient", "budget"},
         Fill(cond, m, a, o, k)
  PROVE  /\ mailbox' \in {"none", "active", "dead"} /\ attempts' \in 0 .. MaxAttempts
         /\ owner' \in Executors \cup {Nobody} /\ lastError' \in {"none", "transient", "budget"}
         /\ owner' # Nobody => owner' = o /\ mailbox' = m /\ attempts' = a
         /\ mailbox' = "none" => ~cond /\ m = "none"
         /\ mailbox' = "active" \/ mailbox' = m
  BY DEF Fill

LEMMA RunTypes ==
  ASSUME TypeOK, NEW i \in DOMAIN runs
  PROVE  runs[i] \in Run /\ runs[i].high \in 0 .. MaxSeq /\ runs[i].inputs \in SUBSET Seqs
<1>1. runs[i] \in Run
  BY DEF TypeOK
<1>. QED
  BY <1>1 DEF Run

\* Steps that leave the runs and the bases: rows that become committed are new.
LEMMA RowsGrow ==
  ASSUME DerivationInv, UNCHANGED <<setting, runs, work>>,
         row' \in [Seqs -> {"none", "open", "unready", "ready", "gone"}],
         \A s \in Seqs : row[s] # "none" => row'[s] # "none",
         Keyed => \A s \in Committed' : s \in Committed \/ row[s] = "none"
  PROVE  /\ \A e \in Executors : work'[e].phase = "resolved" => BasisHolds(work[e].basis)'
         /\ RunsFollow' /\ RunsCover'
<1>1. Mode' = Mode /\ Keyed' = Keyed
  BY SameDeclaration
<1>2. RunsFollow'
  BY <1>1 DEF DerivationInv, RunsFollow
<1>3. ASSUME Keyed, NEW h \in 0 .. MaxSeq, Reached(h)
      PROVE  Reached(h)' /\ \A s \in Committed' : s <= h => s \in Committed
  <2>1. Reached(h)'
    BY <1>3 DEF Reached, Seqs
  <2>2. ASSUME NEW s \in Committed', s <= h, row[s] = "none" PROVE FALSE
    BY <1>3, <2>2 DEF Reached, DerivationInv, NoGaps, Seqs, Committed
  <2>. QED
    BY <1>3, <2>1, <2>2
<1>4. RunsCover'
  <2>1. SUFFICES ASSUME Keyed, Mode # "citation_repair", NEW i \in DOMAIN runs
                 PROVE  /\ Reached(runs[i].high)'
                        /\ \A s \in Committed' : s <= runs[i].high => SeenBefore(i, s)'
    BY <1>1 DEF RunsCover
  <2>2. runs[i].high \in 0 .. MaxSeq
    BY RunTypes DEF DerivationInv
  <2>3. Reached(runs[i].high) /\ \A s \in Committed : s <= runs[i].high => SeenBefore(i, s)
    BY <2>1 DEF DerivationInv, RunsCover
  <2>4. \A s : SeenBefore(i, s) => SeenBefore(i, s)'
    BY <1>1 DEF SeenBefore
  <2>. QED
    BY <1>3, <2>1, <2>2, <2>3, <2>4
<1>5. \A e \in Executors : work'[e].phase = "resolved" => BasisHolds(work[e].basis)'
  <2>1. SUFFICES ASSUME NEW e \in Executors, work[e].phase = "resolved"
                 PROVE  BasisHolds(work[e].basis)'
    OBVIOUS
  <2>. DEFINE b == work[e].basis
  <2>2. b \in Basis /\ BasisHolds(b) /\ b' = b
    BY <2>1 DEF DerivationInv, TypeOK
  <2>. HIDE DEF b
  <2>3. NextHighSeq(b) \in 0 .. MaxSeq
    BY <2>2, HighFacts
  <2>4. NextHighSeq(b)' = NextHighSeq(b) /\ StartOf(b)' = StartOf(b)
    BY <2>2 DEF Mode, NextHighSeq, StartOf, MaxOr0
  <2>5. Reached(NextHighSeq(b))' <=> (NextHighSeq(b) = 0 \/ row'[NextHighSeq(b)] # "none")
    BY <2>4 DEF Reached
  <2>6. ASSUME Keyed, Mode # "citation_repair"
        PROVE  /\ NextHighSeq(b) = 0 \/ row'[NextHighSeq(b)] # "none"
               /\ \A s \in Committed' : StartOf(b) < s /\ s <= NextHighSeq(b) => s \in b.inputs
    <3>1. /\ Reached(NextHighSeq(b))
          /\ \A s \in Committed : StartOf(b) < s /\ s <= NextHighSeq(b) => s \in b.inputs
      BY <2>2, <2>6 DEF BasisHolds
    <3>2. \A s \in Committed' : s <= NextHighSeq(b) => s \in Committed
      BY <1>3, <2>3, <2>6, <3>1
    <3>3. NextHighSeq(b) = 0 \/ row'[NextHighSeq(b)] # "none"
      BY <2>3, <3>1 DEF Reached, Seqs
    <3>. QED
      BY <3>1, <3>2, <3>3
  <2>7. BasisHolds(b)'
    BY <1>1, <2>2, <2>4, <2>5, <2>6 DEF BasisHolds
  <2>. QED
    BY <2>7 DEF b
<1>. QED
  BY <1>2, <1>4, <1>5

\* Of a row only its commit and its readiness matter to the cursor.
LEMMA RowStep ==
  ASSUME DerivationInv, UNCHANGED setting, NEW s \in Seqs,
         \/ Ingest(s) \/ OpenIngest(s) \/ CommitIngest(s) \/ AbortIngest(s)
         \/ MakeReady(s) \/ CitationMoves(s)
  PROVE  DerivationInv'
<1>t. TypeOK /\ OwnerAtWork /\ NoGaps /\ AskedHolds /\ NothingFires
  BY DEF DerivationInv
<1>1. UNCHANGED <<runs, work, asked>> /\ Mode' = Mode /\ Keyed' = Keyed /\ Triggered' = Triggered
  BY SameDeclaration
  DEF Ingest, OpenIngest, CommitIngest, AbortIngest, MakeReady, CitationMoves, Appear
<1>2. PICK state \in {"none", "open", "unready", "ready", "gone"} :
        /\ row' = [row EXCEPT ![s] = state]
        /\ state # "none"
        /\ Keyed => state # "open"
        /\ Keyed /\ row[s] # "none" => (state \in {"unready", "ready"} => row[s] \in {"unready", "ready"})
        /\ row[s] = "ready" => state = "ready"
        /\ Keyed /\ row[s] = "none" => NextSeq(s)
  <2>1. CASE Ingest(s) \/ CommitIngest(s)
    <3>1. PICK state \in {"unready", "ready"} : Appear(s, state)
      BY <2>1 DEF Ingest, CommitIngest
    <3>2. row[s] \in {"none", "open"} /\ (Keyed => row[s] = "none" /\ NextSeq(s))
      BY <1>t, <2>1 DEF Ingest, CommitIngest, NextSeq, Unallocated, NoGaps
    <3>. QED
      BY <3>1, <3>2 DEF Appear
  <2>2. CASE OpenIngest(s)
    BY <2>2 DEF OpenIngest, NextSeq, Unallocated
  <2>3. CASE AbortIngest(s)
    BY <1>t, <2>3 DEF AbortIngest, NoGaps
  <2>4. CASE MakeReady(s)
    BY <2>4 DEF MakeReady
  <2>5. CASE CitationMoves(s)
    <3>1. row' = row /\ row[s] = "ready"
      BY <2>5 DEF CitationMoves
    <3>2. row' = [row EXCEPT ![s] = "ready"]
      BY <1>t, <3>1 DEF TypeOK
    <3>. QED
      BY <3>1, <3>2
  <2>. QED
    BY <2>1, <2>2, <2>3, <2>4, <2>5
<1>3. /\ row' \in [Seqs -> {"none", "open", "unready", "ready", "gone"}]
      /\ \A r \in Seqs : row'[r] = IF r = s THEN state ELSE row[r]
  <2>1. row \in [Seqs -> {"none", "open", "unready", "ready", "gone"}]
    BY <1>t DEF TypeOK
  <2>. QED
    BY <1>2, <2>1
<1>4. \A r \in Seqs : row[r] # "none" => row'[r] # "none"
  BY <1>2, <1>3
<1>5. Keyed => \A r \in Committed' : r \in Committed \/ row[r] = "none"
  BY <1>2, <1>3 DEF Committed
<1>6. NoGaps'
  <2>1. SUFFICES ASSUME Keyed, NEW r \in Seqs
                 PROVE  /\ row'[r] # "open"
                        /\ row'[r] # "none" => \A t \in Seqs : t < r => row'[t] # "none"
    BY <1>1 DEF NoGaps
  <2>2. row'[r] # "open"
    BY <1>t, <1>2, <1>3, <2>1 DEF NoGaps
  <2>3. ASSUME row'[r] # "none", row[r] = "none", NEW t \in Seqs, t < r PROVE row[t] # "none"
    <3>1. r = s /\ NextSeq(s)
      BY <1>2, <1>3, <2>1, <2>3
    <3>. QED
      BY <2>3, <3>1 DEF NextSeq, Unallocated, Seqs
  <2>4. ASSUME row[r] # "none", NEW t \in Seqs, t < r PROVE row[t] # "none"
    BY <1>t, <2>1, <2>4 DEF NoGaps
  <2>. QED
    BY <1>4, <2>2, <2>3, <2>4
<1>7. /\ \A e \in Executors : work'[e].phase = "resolved" => BasisHolds(work[e].basis)'
      /\ RunsFollow' /\ RunsCover'
  BY <1>1, <1>3, <1>4, <1>5, RowsGrow
<1>8. \/ Evaluate(row', runs)
      \/ UNCHANGED jobRow /\ \A r \in Seqs : row'[r] = "ready" => row[r] = "ready"
  <2>1. ASSUME NEW st \in {"unready", "ready"}, Appear(s, st)
        PROVE  \/ Evaluate(row', runs)
               \/ UNCHANGED jobRow /\ \A r \in Seqs : row'[r] = "ready" => row[r] = "ready"
    BY <1>t, <2>1 DEF Appear, TypeOK
  <2>2. CASE Ingest(s) \/ CommitIngest(s)
    BY <2>1, <2>2 DEF Ingest, CommitIngest
  <2>3. CASE OpenIngest(s) \/ AbortIngest(s) \/ CitationMoves(s)
    BY <1>t, <2>3 DEF OpenIngest, AbortIngest, CitationMoves, TypeOK
  <2>4. CASE MakeReady(s)
    BY <2>4 DEF MakeReady
  <2>. QED
    BY <2>2, <2>3, <2>4
<1>9. /\ mailbox' \in {"none", "active", "dead"} /\ attempts' \in 0 .. MaxAttempts
      /\ owner' \in Executors \cup {Nobody} /\ lastError' \in {"none", "transient", "budget"}
      /\ owner' # Nobody => owner' = owner /\ mailbox' = mailbox /\ attempts' = attempts
      /\ mailbox' = "none" => mailbox = "none" /\ ~Fires(row', runs)
  <2>1. CASE UNCHANGED jobRow /\ \A r \in Seqs : row'[r] = "ready" => row[r] = "ready"
    <3>1. Fires(row', runs) => Fires(row, runs)
      BY <2>1 DEF Fires
    <3>. QED
      BY <1>t, <2>1, <3>1 DEF jobRow, TypeOK, NothingFires
  <2>2. CASE Evaluate(row', runs)
    <3>1. Fires(row', runs) \in BOOLEAN /\ Fill(Fires(row', runs), mailbox, attempts, owner, lastError)
      BY <1>t, <2>2 DEF Evaluate, Fires, TypeOK, Triggered
    <3>2. /\ mailbox \in {"none", "active", "dead"} /\ attempts \in 0 .. MaxAttempts
          /\ owner \in Executors \cup {Nobody} /\ lastError \in {"none", "transient", "budget"}
      BY <1>t DEF TypeOK
    <3>. QED
      BY <3>1, <3>2, FillFacts
  <2>. QED
    BY <1>8, <2>1, <2>2
<1>10. stale' \in SUBSET Seqs
  BY <1>t DEF TypeOK, Ingest, OpenIngest, CommitIngest, AbortIngest, MakeReady, CitationMoves, Appear
<1>11. TypeOK'
  BY <1>t, <1>1, <1>3, <1>9, <1>10 DEF TypeOK
<1>12. OwnerAtWork' /\ NothingFires'
  <2>1. Fires(row, runs)' = Fires(row', runs)
    BY <1>1 DEF Fires, Watermark
  <2>. QED
    BY <1>t, <1>9, <2>1 DEF OwnerAtWork, NothingFires
<1>13. AskedHolds'
  <2>1. Ready \subseteq Ready'
    BY <1>2, <1>3 DEF Ready
  <2>. QED
    BY <1>t, <1>1, <1>9, <2>1 DEF AskedHolds
<1>. QED
  BY <1>6, <1>7, <1>11, <1>12, <1>13 DEF DerivationInv

\* Steps of the job and of executors that leave the rows and the runs.
LEMMA RestStep ==
  ASSUME DerivationInv, UNCHANGED <<setting, row, stale, runs>>,
         work' \in [Executors -> [phase : {"idle", "claimed", "barred", "resolved"}, basis : Basis]],
         \A e \in Executors : work'[e].phase = "resolved" => BasisHolds(work'[e].basis),
         mailbox' \in {"none", "active", "dead"}, attempts' \in 0 .. MaxAttempts,
         owner' \in Executors \cup {Nobody}, lastError' \in {"none", "transient", "budget"},
         OwnerAtWork', AskedHolds', asked' \in SUBSET Seqs,
         mailbox' = "none" => mailbox = "none"
  PROVE  DerivationInv'
<1>1. /\ Mode' = Mode /\ Keyed' = Keyed /\ Triggered' = Triggered
      /\ Committed' = Committed
  BY SameDeclaration DEF Committed
<1>2. TypeOK'
  BY DEF DerivationInv, TypeOK
<1>3. NoGaps' /\ RunsFollow' /\ RunsCover'
  BY <1>1 DEF DerivationInv, NoGaps, RunsFollow, RunsCover, SeenBefore, Reached
<1>4. NothingFires'
  <2>1. Fires(row, runs)' <=> Fires(row, runs)
    BY <1>1 DEF Fires, Watermark
  <2>. QED
    BY <2>1 DEF DerivationInv, NothingFires
<1>5. \A e \in Executors : work'[e].phase = "resolved" => BasisHolds(work[e].basis)'
  <2>1. SUFFICES ASSUME NEW e \in Executors, work'[e].phase = "resolved"
                 PROVE  BasisHolds(work[e].basis)'
    OBVIOUS
  <2>2. work'[e].basis \in Basis /\ BasisHolds(work'[e].basis)
    BY <2>1
  <2>. QED
    BY <1>1, <2>2 DEF BasisHolds, Reached, NextHighSeq, StartOf, MaxOr0, Mode
<1>. QED
  BY <1>2, <1>3, <1>4, <1>5 DEF DerivationInv

LEMMA JobStep ==
  ASSUME DerivationInv, UNCHANGED setting,
         \/ ManualRequest \/ Reap \/ Lapse
         \/ \E e \in Executors : \/ Claim(e) \/ Crash(e) \/ LeaseLost(e) \/ ReleaseNotReady(e)
                                 \/ Fail(e) \/ FailBudget(e)
  PROVE  DerivationInv'
<1>t. TypeOK /\ OwnerAtWork /\ AskedHolds
  BY DEF DerivationInv
<1>m. Mode' = Mode /\ Keyed' = Keyed
  BY SameDeclaration
<1>w. Idle \in [phase : {"idle", "claimed", "barred", "resolved"}, basis : Basis] /\ Idle.phase = "idle"
  BY DEF Idle, Basis
<1>1. UNCHANGED <<row, stale, runs>> /\ Ready' = Ready
  BY DEF ManualRequest, Reap, Lapse, Claim, Crash, LeaseLost, ReleaseNotReady, Fail, FailBudget, EndFailed, Ready
<1>2. \/ work' = work
      \/ \E e \in Executors : work' = [work EXCEPT ![e] = Idle] \/ work' = [work EXCEPT ![e].phase = "claimed"]
  BY DEF ManualRequest, Reap, Lapse, Claim, Crash, LeaseLost, ReleaseNotReady, Fail, FailBudget, EndFailed
<1>3. /\ work' \in [Executors -> [phase : {"idle", "claimed", "barred", "resolved"}, basis : Basis]]
      /\ \A e \in Executors : work'[e].phase = "resolved" => work'[e] = work[e]
  BY <1>t, <1>w, <1>2 DEF TypeOK
<1>4. \A e \in Executors : work'[e].phase = "resolved" => BasisHolds(work'[e].basis)
  BY <1>3 DEF DerivationInv
<1>5. /\ mailbox' \in {"none", "active", "dead"} /\ attempts' \in 0 .. MaxAttempts
      /\ owner' \in Executors \cup {Nobody} /\ lastError' \in {"none", "transient", "budget"}
      /\ asked' \in SUBSET Seqs /\ OwnerAtWork' /\ AskedHolds'
      /\ mailbox' = "none" => mailbox = "none"
  <2>1. CASE ManualRequest
    <3>1. /\ asked' = Ready \ Reflected /\ Fill(TRUE, mailbox, attempts, owner, lastError)
          /\ mailbox \in {"none", "active", "dead"} /\ attempts \in 0 .. MaxAttempts
          /\ owner \in Executors \cup {Nobody} /\ lastError \in {"none", "transient", "budget"}
      BY <1>t, <2>1 DEF ManualRequest, TypeOK
    <3>2. /\ mailbox' \in {"none", "active", "dead"} /\ attempts' \in 0 .. MaxAttempts
          /\ owner' \in Executors \cup {Nobody} /\ lastError' \in {"none", "transient", "budget"}
          /\ owner' # Nobody => owner' = owner /\ mailbox' = mailbox /\ attempts' = attempts
          /\ mailbox' # "none"
      BY <3>1 DEF Fill
    <3>3. asked' \subseteq Ready' /\ \A i \in DOMAIN runs' : asked' \cap runs'[i].inputs = {}
      BY <1>1, <3>1 DEF Reflected, SeenBy
    <3>. QED
      BY <1>t, <3>2, <3>3 DEF OwnerAtWork, AskedHolds, Ready
  <2>2. CASE Reap
    BY <1>t, <2>2, <1>1, <1>m DEF Reap, TypeOK, OwnerAtWork, AskedHolds
  <2>3. CASE Lapse
    BY <1>t, <2>3, <1>1, <1>m DEF Lapse, TypeOK, OwnerAtWork, AskedHolds
  <2>4. ASSUME NEW e \in Executors, Claim(e) PROVE <1>5!:
    BY <1>t, <2>4, <1>1, <1>m DEF Claim, TypeOK, OwnerAtWork, AskedHolds
  <2>5. ASSUME NEW e \in Executors, Crash(e) \/ LeaseLost(e) PROVE <1>5!:
    BY <1>t, <2>5, <1>1, <1>m DEF Crash, LeaseLost, jobRow, TypeOK, OwnerAtWork, AskedHolds
  <2>6. ASSUME NEW e \in Executors, ReleaseNotReady(e) PROVE <1>5!:
    <3>1. owner = e /\ attempts >= 1 /\ owner' = Nobody /\ attempts' = attempts - 1
          /\ UNCHANGED <<mailbox, lastError, asked>>
      BY <1>t, <2>6 DEF ReleaseNotReady, OwnerAtWork
    <3>. QED
      BY <1>t, <3>1, <1>1, <1>m DEF TypeOK, OwnerAtWork, AskedHolds
  <2>7. ASSUME NEW e \in Executors, NEW dies \in BOOLEAN, NEW kind \in {"transient", "budget"},
               EndFailed(e, dies, kind)
        PROVE <1>5!:
    <3>1. /\ owner' = Nobody /\ lastError' = kind /\ attempts' = attempts
          /\ mailbox' \in {"dead", "active"} /\ (asked' = {} \/ asked' = asked)
      BY <2>7 DEF EndFailed
    <3>. QED
      BY <1>t, <3>1, <1>1, <1>m DEF TypeOK, OwnerAtWork, AskedHolds
  <2>. QED
    BY <2>1, <2>2, <2>3, <2>4, <2>5, <2>6, <2>7 DEF Fail, FailBudget
<1>. QED
  BY <1>1, <1>3, <1>4, <1>5, RestStep

\* A basis that is resolved has what the rows permit, up to its cursor.
LEMMA ResolveStep ==
  ASSUME DerivationInv, UNCHANGED setting, NEW e \in Executors, Resolve(e)
  PROVE  DerivationInv'
<1>t. TypeOK /\ OwnerAtWork /\ AskedHolds
  BY DEF DerivationInv
<1>m. Mode' = Mode /\ Keyed' = Keyed
  BY SameDeclaration
<1>1. UNCHANGED <<row, stale, runs, jobRow, asked>>
  BY DEF Resolve
<1>w. Watermark(runs) \in 0 .. MaxSeq /\ (Keyed /\ Mode # "citation_repair" => Reached(Watermark(runs)))
  <2>1. CASE runs = << >>
    BY <2>1 DEF Watermark, Reached
  <2>2. CASE runs # << >>
    <3>1. Len(runs) \in DOMAIN runs /\ Watermark(runs) = runs[Len(runs)].high
      BY <1>t, <2>2 DEF Watermark, TypeOK
    <3>. QED
      BY <1>t, <3>1, RunTypes DEF DerivationInv, RunsCover
  <2>. QED
    BY <2>1, <2>2
<1>2. ASSUME NEW b \in Resolutions
      PROVE  b \in Basis /\ BasisHolds(b)
  <2>1. CASE Mode = "changes"
    <3>. DEFINE w == Watermark(runs)
                pending == {s \in Committed : s > w}
    <3>1. PICK S \in ChangesInput(w) :
            b = [from |-> w, pred |-> Len(runs), inputs |-> S, through |-> IF S = {} THEN w ELSE Max(S)]
      BY <1>2, <2>1 DEF Resolutions, ChangesBases
    <3>2. \/ S = {} /\ pending = {}
          \/ \E h \in pending : S = {s \in pending : s <= h}
      BY DEF ChangesInput
    <3>3. S \subseteq Seqs /\ \A s \in S : s > w
      BY <3>2 DEF Committed
    <3>4. (IF S = {} THEN w ELSE Max(S)) \in 0 .. MaxSeq
      <4>1. S \subseteq 0 .. MaxSeq
        BY <3>3 DEF Seqs
      <4>2. S # {} => Max(S) \in 0 .. MaxSeq
        BY <4>1, MaxFacts
      <4>. QED
        BY <1>w, <4>2
    <3>5. b \in Basis /\ b.from = w /\ b.inputs = S
      <4>1. Len(runs) \in Nat
        BY <1>t DEF TypeOK
      <4>. HIDE DEF w
      <4>. QED
        BY <1>w, <3>1, <3>3, <3>4, <4>1 DEF Basis, w
    <3>6. /\ NextHighSeq(b) \in S \cup {w} /\ NextHighSeq(b) \in 0 .. MaxSeq
          /\ w <= NextHighSeq(b) /\ \A s \in S : s <= NextHighSeq(b)
      BY <2>1, <3>5, HighFacts
    <3>7. NextHighSeq(b) = w \/ row[NextHighSeq(b)] # "none"
      BY <3>2, <3>6 DEF Committed
    <3>8. \A s \in Committed : w < s /\ s <= NextHighSeq(b) => s \in S
      <4>1. CASE S = {} /\ pending = {}
        BY <4>1
      <4>2. ASSUME NEW h \in pending, S = {s \in pending : s <= h}
            PROVE  <3>8!:
        <5>1. h \in S /\ h \in Nat /\ h > w
          BY <4>2 DEF Committed, Seqs
        <5>2. NextHighSeq(b) \in S
          BY <1>w, <3>6, <5>1
        <5>3. NextHighSeq(b) <= h
          BY <4>2, <5>2
        <5>. QED
          BY <3>6, <4>2, <5>1, <5>3 DEF Committed, Seqs
      <4>. QED
        BY <3>2, <4>1, <4>2
    <3>9. Keyed => Reached(NextHighSeq(b))
      BY <1>w, <2>1, <3>7 DEF Reached
    <3>. QED
      BY <2>1, <3>3, <3>5, <3>8, <3>9 DEF BasisHolds, StartOf
  <2>2. ASSUME NEW S \in SUBSET Seqs, b = Snapshot(S), Mode # "changes"
        PROVE  /\ b \in Basis /\ b.inputs = S /\ NextHighSeq(b) \in S \cup {0}
    <3>1. S \subseteq 0 .. MaxSeq /\ S \subseteq Nat
      BY DEF Seqs
    <3>2. MaxOr0(S) \in 0 .. MaxSeq /\ (S = {} => MaxOr0(S) = 0) /\ (S # {} => MaxOr0(S) \in S)
      <4>1. S # {} => Max(S) \in S
        BY <3>1, MaxFacts
      <4>2. CASE S = {}
        <5>1. MaxOr0(S) = 0
          BY <4>2 DEF MaxOr0
        <5>. QED
          BY <4>2, <5>1
      <4>3. CASE S # {}
        <5>1. MaxOr0(S) = Max(S)
          BY <4>3 DEF MaxOr0
        <5>. QED
          BY <3>1, <4>1, <4>3, <5>1
      <4>. QED
        BY <4>2, <4>3
    <3>3. MinOr0(S) \in 0 .. MaxSeq /\ (S = {} => MinOr0(S) = 0)
      <4>1. S # {} => Min(S) \in S
        BY <3>1, MinFacts
      <4>2. CASE S = {}
        <5>1. MinOr0(S) = 0
          BY <4>2 DEF MinOr0
        <5>. QED
          BY <4>2, <5>1
      <4>3. CASE S # {}
        <5>1. MinOr0(S) = Min(S)
          BY <4>3 DEF MinOr0
        <5>. QED
          BY <3>1, <4>1, <4>3, <5>1
      <4>. QED
        BY <4>2, <4>3
    <3>4. b \in Basis /\ b.inputs = S /\ b.from = MinOr0(S) /\ b.through = MaxOr0(S)
      BY <2>2, <3>2, <3>3 DEF Snapshot, Basis
    <3>5. NextHighSeq(b) \in S \cup {0}
      BY <2>2, <3>2, <3>3, <3>4 DEF NextHighSeq, Seqs
    <3>. QED
      BY <3>4, <3>5
  <2>3. CASE Mode = "corpus"
    <3>1. b = Snapshot(Ready) /\ Committed \subseteq Ready /\ Ready \in SUBSET Seqs
      BY <1>2, <2>3 DEF Resolutions, CorpusBases, CorpusInput, Ready
    <3>2. b \in Basis /\ b.inputs = Ready /\ NextHighSeq(b) \in Ready \cup {0}
      BY <2>2, <2>3, <3>1
    <3>. QED
      BY <2>3, <3>1, <3>2 DEF BasisHolds, Reached, Ready
  <2>4. CASE Mode = "citation_repair"
    <3>1. b = Snapshot(stale) /\ stale \in SUBSET Seqs
      BY <1>t, <1>2, <2>4 DEF Resolutions, RepairBases, TypeOK
    <3>2. b \in Basis
      BY <2>2, <2>4, <3>1
    <3>. QED
      BY <2>4, <3>2 DEF BasisHolds
  <2>5. Mode \in {"changes", "corpus", "citation_repair"}
    BY <1>t DEF TypeOK, Mode
  <2>. QED
    BY <2>1, <2>3, <2>4, <2>5
<1>3. /\ work' \in [Executors -> [phase : {"idle", "claimed", "barred", "resolved"}, basis : Basis]]
      /\ \A x \in Executors : work'[x].phase = "resolved" => BasisHolds(work'[x].basis)
  <2>1. CASE work' = [work EXCEPT ![e].phase = "barred"]
    BY <1>t, <2>1 DEF TypeOK, DerivationInv
  <2>2. ASSUME NEW b \in Resolutions, work' = [work EXCEPT ![e] = [phase |-> "resolved", basis |-> b]]
        PROVE  <1>3!:
    <3>1. b \in Basis /\ BasisHolds(b)
      BY <1>2
    <3>2. /\ work' \in [Executors -> [phase : {"idle", "claimed", "barred", "resolved"}, basis : Basis]]
          /\ \A x \in Executors : x # e => work'[x] = work[x]
          /\ work'[e].basis = b
      BY <1>t, <2>2, <3>1 DEF TypeOK
    <3>3. ASSUME NEW x \in Executors, work'[x].phase = "resolved" PROVE BasisHolds(work'[x].basis)
      BY <3>1, <3>2, <3>3 DEF DerivationInv
    <3>. QED
      BY <3>2, <3>3
  <2>. QED
    BY <2>1, <2>2 DEF Resolve
<1>4. /\ mailbox' \in {"none", "active", "dead"} /\ attempts' \in 0 .. MaxAttempts
      /\ owner' \in Executors \cup {Nobody} /\ lastError' \in {"none", "transient", "budget"}
      /\ asked' \in SUBSET Seqs /\ OwnerAtWork'
      /\ mailbox' = "none" => mailbox = "none"
  BY <1>t, <1>1 DEF jobRow, TypeOK, OwnerAtWork
<1>5. AskedHolds'
  BY <1>t, <1>m, <1>1 DEF jobRow, AskedHolds, Ready
<1>. QED
  BY <1>1, <1>3, <1>4, <1>5, RestStep

\* A commit appends the interval from the watermark to the new cursor.
LEMMA CommitStep ==
  ASSUME DerivationInv, UNCHANGED setting, NEW e \in Executors, Commit(e)
  PROVE  DerivationInv'
<1>. DEFINE b == work[e].basis
            high == NextHighSeq(b)
            new == [high |-> high, inputs |-> b.inputs]
            last == Len(runs) + 1
<1>t. TypeOK /\ OwnerAtWork /\ AskedHolds /\ NoGaps /\ RunsFollow /\ RunsCover
  BY DEF DerivationInv
<1>m. Mode' = Mode /\ Keyed' = Keyed /\ Triggered' = Triggered
  BY SameDeclaration
<1>1. /\ UNCHANGED <<row, stale>> /\ work[e].phase = "resolved" /\ Verified(b)
      /\ runs' = Append(runs, new)
      /\ Fill(AfterRun(high, runs'), "none", attempts, Nobody, "none")
      /\ asked' = asked \ b.inputs /\ work' = [work EXCEPT ![e] = Idle]
  BY DEF Commit
<1>2. b \in Basis /\ BasisHolds(b)
  BY <1>t, <1>1 DEF TypeOK, DerivationInv
<1>b. b.inputs \in SUBSET Seqs /\ b.from \in 0 .. MaxSeq
  BY <1>2 DEF Basis
<1>. HIDE DEF b
<1>3. /\ high \in 0 .. MaxSeq
      /\ Mode = "changes" => b.from <= high /\ \A s \in b.inputs : s <= high
  BY <1>2, HighFacts
<1>. HIDE DEF high
<1>4. new \in Run /\ new.high = high /\ new.inputs = b.inputs
  BY <1>b, <1>3 DEF Run
<1>. HIDE DEF new
<1>5. /\ runs \in Seq(Run) /\ runs' \in Seq(Run) /\ Len(runs) \in Nat
      /\ DOMAIN runs = 1 .. Len(runs) /\ DOMAIN runs' = 1 .. last /\ Len(runs') = last
      /\ \A i \in DOMAIN runs : i \in DOMAIN runs' /\ i < last /\ runs'[i] = runs[i]
      /\ runs'[last] = new /\ \A i \in DOMAIN runs' : i \in DOMAIN runs \/ i = last
  BY <1>t, <1>1, <1>4 DEF TypeOK
<1>6. Mode = "changes" => b.from = Watermark(runs)
  BY <1>1 DEF Verified, ChangesVerified
<1>7. Mode = "changes" => \A i \in DOMAIN runs : runs[i].high <= b.from
  <2>1. SUFFICES ASSUME Mode = "changes", NEW i \in DOMAIN runs PROVE runs[i].high <= runs[Len(runs)].high
    BY <1>5, <1>6 DEF Watermark
  <2>2. i <= Len(runs) /\ Len(runs) \in DOMAIN runs
    BY <1>5, <2>1
  <2>3. runs[i].high \in Nat
    BY <1>t, RunTypes
  <2>. QED
    BY <1>5, <1>t, <2>1, <2>2, <2>3 DEF RunsFollow
<1>8. RunsFollow'
  <2>1. SUFFICES ASSUME Mode = "changes", NEW i \in DOMAIN runs'
                 PROVE  /\ \A s \in runs'[i].inputs : s <= runs'[i].high
                        /\ \A k \in DOMAIN runs' : i < k =>
                            runs'[i].high <= runs'[k].high /\ \A s \in runs'[k].inputs : s > runs'[i].high
    BY <1>m DEF RunsFollow
  <2>2. CASE i = last
    BY <1>3, <1>4, <1>5, <2>1, <2>2
  <2>3. CASE i \in DOMAIN runs
    <3>1. /\ \A s \in runs[i].inputs : s <= runs[i].high
          /\ \A k \in DOMAIN runs : i < k =>
                runs[i].high <= runs[k].high /\ \A s \in runs[k].inputs : s > runs[i].high
      BY <1>t, <2>1, <2>3 DEF RunsFollow
    <3>2. runs[i].high <= b.from /\ b.from <= high /\ \A s \in b.inputs : s > b.from
      BY <1>2, <1>3, <1>7, <2>1, <2>3 DEF BasisHolds
    <3>3. runs[i].high \in Nat
      BY <1>t, <2>3, RunTypes
    <3>4. runs[i].high <= high /\ \A s \in b.inputs : s > runs[i].high
      BY <1>b, <1>3, <3>2, <3>3 DEF Seqs
    <3>. QED
      BY <1>4, <1>5, <2>3, <3>1, <3>4
  <2>. QED
    BY <1>5, <2>2, <2>3
<1>c. Committed' = Committed /\ Ready' = Ready
  BY <1>1 DEF Committed, Ready
<1>9. ASSUME Keyed, Mode # "citation_repair", NEW s \in Committed, s <= high
      PROVE  s \in b.inputs \/ (Mode = "changes" /\ \E k \in DOMAIN runs : s \in runs[k].inputs)
  <2>1. s \in Seqs
    BY DEF Committed
  <2>2. CASE StartOf(b) < s
    BY <1>2, <1>9, <2>2 DEF BasisHolds, high
  <2>3. CASE ~(StartOf(b) < s)
    <3>1. Mode = "changes" /\ s <= Watermark(runs)
      BY <1>6, <1>b, <2>1, <2>3 DEF StartOf, Seqs
    <3>2. Len(runs) \in DOMAIN runs /\ Watermark(runs) = runs[Len(runs)].high
      BY <1>5, <2>1, <3>1 DEF Watermark, Seqs
    <3>. QED
      BY <1>t, <1>9, <3>1, <3>2 DEF RunsCover, SeenBefore
  <2>. QED
    BY <2>2, <2>3
<1>10. RunsCover'
  <2>1. SUFFICES ASSUME Keyed, Mode # "citation_repair", NEW i \in DOMAIN runs'
                 PROVE  /\ Reached(runs'[i].high)
                        /\ \A s \in Committed : s <= runs'[i].high => SeenBefore(i, s)'
    BY <1>m, <1>c, <1>1 DEF RunsCover, Reached
  <2>2. CASE i = last
    <3>1. Reached(high)
      BY <1>2, <2>1 DEF BasisHolds, high
    <3>2. ASSUME NEW s \in Committed, s <= high PROVE SeenBefore(i, s)'
      <4>1. CASE s \in b.inputs
        BY <1>m, <1>4, <1>5, <2>2, <4>1 DEF SeenBefore
      <4>2. ASSUME Mode = "changes", NEW k \in DOMAIN runs, s \in runs[k].inputs PROVE SeenBefore(i, s)'
        <5>1. k \in DOMAIN runs' /\ k <= i /\ runs'[k] = runs[k]
          BY <1>5, <2>2
        <5>. QED
          BY <1>m, <4>2, <5>1 DEF SeenBefore
      <4>. QED
        BY <1>9, <2>1, <3>2, <4>1, <4>2
    <3>. QED
      BY <1>4, <1>5, <2>2, <3>1, <3>2
  <2>3. CASE i \in DOMAIN runs
    <3>1. Reached(runs[i].high) /\ \A s \in Committed : s <= runs[i].high => SeenBefore(i, s)
      BY <1>t, <2>1, <2>3 DEF RunsCover
    <3>2. \A s : SeenBefore(i, s) => SeenBefore(i, s)'
      BY <1>m, <1>5, <2>3 DEF SeenBefore
    <3>. QED
      BY <1>5, <2>3, <3>1, <3>2
  <2>. QED
    BY <1>5, <2>2, <2>3
<1>11. /\ mailbox' \in {"none", "active", "dead"} /\ attempts' \in 0 .. MaxAttempts
       /\ owner' \in Executors \cup {Nobody} /\ lastError' \in {"none", "transient", "budget"}
       /\ owner' = Nobody /\ (mailbox' = "none" => ~AfterRun(high, runs'))
  BY <1>t, <1>1 DEF Fill, TypeOK
<1>12. AskedHolds'
  <2>1. SUFFICES ASSUME Keyed, Mode = "changes"
                 PROVE  /\ asked' \subseteq Ready
                        /\ \A i \in DOMAIN runs' : asked' \cap runs'[i].inputs = {}
                        /\ mailbox' = "none" => asked' = {}
    BY <1>m, <1>c DEF AskedHolds
  <2>2. /\ asked \subseteq Ready /\ \A i \in DOMAIN runs : asked \cap runs[i].inputs = {}
    BY <1>t, <2>1 DEF AskedHolds
  <2>3. \A i \in DOMAIN runs' : asked' \cap runs'[i].inputs = {}
    BY <1>1, <1>4, <1>5, <2>2
  <2>4. ASSUME mailbox' = "none", NEW s \in asked' PROVE FALSE
    <3>1. s \in Committed /\ s \notin b.inputs /\ s \in asked /\ s \in Nat
      <4>1. s \in asked /\ s \notin b.inputs
        BY <1>1, <2>4
      <4>2. s \in Ready
        BY <2>2, <4>1
      <4>. QED
        BY <4>1, <4>2 DEF Ready, Committed, Seqs
    <3>2. s <= high
      BY <1>3, <1>11, <2>1, <2>4, <3>1 DEF AfterRun, Successor
    <3>. QED
      BY <1>9, <2>1, <2>2, <3>1, <3>2
  <2>. QED
    BY <1>1, <2>2, <2>3, <2>4
<1>13. NothingFires'
  <2>1. Fires(row, runs)' = Fires(row, runs')
    BY <1>m, <1>1 DEF Fires, Watermark
  <2>. QED
    BY <1>11, <2>1 DEF NothingFires, AfterRun
<1>14. /\ work' \in [Executors -> [phase : {"idle", "claimed", "barred", "resolved"}, basis : Basis]]
       /\ \A x \in Executors : work'[x].phase = "resolved" => work'[x] = work[x]
  <2>1. Idle \in [phase : {"idle", "claimed", "barred", "resolved"}, basis : Basis] /\ Idle.phase = "idle"
    BY DEF Idle, Basis
  <2>. QED
    BY <1>t, <1>1, <2>1 DEF TypeOK
<1>15. TypeOK'
  BY <1>t, <1>1, <1>5, <1>11, <1>14 DEF TypeOK
<1>16. \A x \in Executors : work'[x].phase = "resolved" => BasisHolds(work[x].basis)'
  <2>1. SUFFICES ASSUME NEW x \in Executors, work'[x].phase = "resolved" PROVE BasisHolds(work[x].basis)'
    OBVIOUS
  <2>2. BasisHolds(work[x].basis) /\ work'[x] = work[x]
    BY <1>14, <2>1 DEF DerivationInv
  <2>. QED
    BY <1>m, <1>c, <1>1, <2>2 DEF BasisHolds, Reached, NextHighSeq, StartOf, MaxOr0, Mode
<1>17. OwnerAtWork' /\ NoGaps'
  BY <1>t, <1>m, <1>1, <1>11 DEF OwnerAtWork, NoGaps
<1>. QED
  BY <1>8, <1>10, <1>12, <1>13, <1>15, <1>16, <1>17 DEF DerivationInv

\* The runs that an erasure leaves keep their order, and none before one that
\* is left goes in a chain of changes runs.
LEMMA SurvivingFacts ==
  ASSUME TypeOK, NEW s \in Seqs, NEW rs \in Surviving(s)
  PROVE  /\ rs \in Seq(Run)
         /\ \E f : /\ \A n \in DOMAIN rs : f[n] \in DOMAIN runs /\ rs[n] = runs[f[n]]
                   /\ \A n, m \in DOMAIN rs : n < m => f[n] < f[m]
                   /\ Mode = "changes" =>
                        \A n \in DOMAIN rs : \A k \in DOMAIN runs :
                            k <= f[n] => \E m \in DOMAIN rs : f[m] = k
<1>. DEFINE remaining == DOMAIN runs \ DoomedRuns(s)
<1>1. PICK f \in Enumerations(remaining) : rs = [n \in DOMAIN f |-> runs[f[n]]]
  BY DEF Surviving
<1>2. /\ f \in [1 .. Cardinality(remaining) -> remaining]
      /\ \A i \in remaining : \E n \in DOMAIN f : f[n] = i
      /\ \A n, m \in DOMAIN f : n < m => f[n] < f[m]
  BY DEF Enumerations
<1>3. Cardinality(remaining) \in Nat
  <2>1. DOMAIN runs = 1 .. Len(runs) /\ Len(runs) \in Nat
    BY DEF TypeOK
  <2>2. IsFiniteSet(remaining)
    <3>1. IsFiniteSet(1 .. Len(runs))
      BY <2>1, FS_Interval
    <3>2. remaining \subseteq 1 .. Len(runs)
      BY <2>1
    <3>. QED
      BY <3>1, <3>2, FS_Subset
  <2>. QED
    BY <2>2, FS_CardinalityType
<1>4. \A n \in DOMAIN f : f[n] \in remaining /\ f[n] \in DOMAIN runs /\ runs[f[n]] \in Run
  BY <1>2, RunTypes
<1>5. rs \in Seq(Run) /\ DOMAIN rs = DOMAIN f
  <2>. HIDE DEF remaining
  <2>1. rs \in [1 .. Cardinality(remaining) -> Run]
    BY <1>1, <1>2, <1>4
  <2>. QED
    BY <1>1, <1>3, <2>1
<1>6. ASSUME Mode = "changes", NEW n \in DOMAIN rs, NEW k \in DOMAIN runs, k <= f[n]
      PROVE  \E m \in DOMAIN rs : f[m] = k
  <2>1. f[n] \notin DoomedRuns(s) /\ f[n] \in DOMAIN runs
    BY <1>4, <1>5
  <2>2. DOMAIN runs \subseteq Nat
    BY DEF TypeOK
  <2>3. k \notin DoomedRuns(s)
    BY <1>6, <2>1, <2>2 DEF DoomedRuns
  <2>. QED
    BY <1>2, <1>5, <2>3
<1>7. \A n \in DOMAIN rs : f[n] \in DOMAIN runs /\ rs[n] = runs[f[n]]
  BY <1>1, <1>4, <1>5
<1>. QED
  BY <1>2, <1>5, <1>6, <1>7

LEMMA EraseStep ==
  ASSUME DerivationInv, UNCHANGED setting, NEW s \in Seqs, Erase(s)
  PROVE  DerivationInv'
<1>t. TypeOK /\ OwnerAtWork /\ NoGaps /\ RunsFollow /\ RunsCover
  BY DEF DerivationInv
<1>m. Mode' = Mode /\ Keyed' = Keyed /\ Triggered' = Triggered
  BY SameDeclaration
<1>1. /\ row[s] \in {"unready", "ready"} /\ row' = [row EXCEPT ![s] = "gone"]
      /\ stale' = stale \ {s} /\ runs' \in Surviving(s) /\ work' = work /\ asked' = {}
      /\ Fill(Fires(row', runs'), IF mailbox = "active" THEN "none" ELSE mailbox, attempts, Nobody, lastError)
  BY DEF Erase
<1>2. /\ row' \in [Seqs -> {"none", "open", "unready", "ready", "gone"}]
      /\ \A r \in Seqs : row'[r] = IF r = s THEN "gone" ELSE row[r]
  BY <1>t, <1>1 DEF TypeOK
<1>3. /\ \A r \in Seqs : row[r] # "none" <=> row'[r] # "none"
      /\ Committed' \subseteq Committed
  BY <1>1, <1>2 DEF Committed
<1>4. NoGaps'
  BY <1>t, <1>m, <1>2, <1>3 DEF NoGaps
<1>5. \A h \in 0 .. MaxSeq : Reached(h) => Reached(h)'
  BY <1>3 DEF Reached, Seqs
<1>6. \A e \in Executors : work'[e].phase = "resolved" => BasisHolds(work[e].basis)'
  <2>1. SUFFICES ASSUME NEW e \in Executors, work[e].phase = "resolved" PROVE BasisHolds(work[e].basis)'
    BY <1>1
  <2>. DEFINE b == work[e].basis
  <2>2. b \in Basis /\ BasisHolds(b) /\ b' = b
    BY <1>t, <1>1, <2>1 DEF DerivationInv, TypeOK
  <2>. HIDE DEF b
  <2>3. /\ NextHighSeq(b)' = NextHighSeq(b) /\ StartOf(b)' = StartOf(b)
        /\ NextHighSeq(b) \in 0 .. MaxSeq
    BY <2>2, HighFacts DEF Mode, NextHighSeq, StartOf, MaxOr0
  <2>4. Reached(NextHighSeq(b))' <=> (NextHighSeq(b) = 0 \/ row'[NextHighSeq(b)] # "none")
    BY <2>3 DEF Reached
  <2>5. Reached(NextHighSeq(b)) => Reached(NextHighSeq(b))'
    BY <1>3, <2>3, <2>4 DEF Reached, Seqs
  <2>6. BasisHolds(b)'
    BY <1>m, <1>3, <2>2, <2>3, <2>5 DEF BasisHolds
  <2>. QED
    BY <2>6 DEF b
<1>7. PICK f : /\ \A n \in DOMAIN runs' : f[n] \in DOMAIN runs /\ runs'[n] = runs[f[n]]
               /\ \A n, m \in DOMAIN runs' : n < m => f[n] < f[m]
               /\ Mode = "changes" =>
                    \A n \in DOMAIN runs' : \A k \in DOMAIN runs :
                        k <= f[n] => \E m \in DOMAIN runs' : f[m] = k
  BY <1>t, <1>1, SurvivingFacts
<1>8. runs' \in Seq(Run)
  BY <1>t, <1>1, SurvivingFacts
<1>9. RunsFollow'
  BY <1>t, <1>m, <1>7 DEF RunsFollow
<1>10. RunsCover'
  <2>1. SUFFICES ASSUME Keyed, Mode # "citation_repair", NEW n \in DOMAIN runs'
                 PROVE  /\ Reached(runs[n].high)'
                        /\ \A r \in Committed' : r <= runs'[n].high => SeenBefore(n, r)'
    BY <1>m DEF RunsCover
  <2>2. f[n] \in DOMAIN runs /\ runs'[n] = runs[f[n]]
    BY <1>7
  <2>3. /\ Reached(runs'[n].high) /\ runs'[n].high \in 0 .. MaxSeq
        /\ \A r \in Committed : r <= runs'[n].high => SeenBefore(f[n], r)
    BY <1>t, <2>1, <2>2, RunTypes DEF RunsCover
  <2>4. ASSUME NEW r, SeenBefore(f[n], r) PROVE SeenBefore(n, r)'
    <3>1. CASE Mode = "changes"
      <4>1. PICK k \in DOMAIN runs : k <= f[n] /\ r \in runs[k].inputs
        BY <2>4, <3>1 DEF SeenBefore
      <4>2. PICK m \in DOMAIN runs' : f[m] = k /\ r \in runs'[m].inputs
        BY <1>7, <3>1, <4>1
      <4>3. m <= n
        <5>1. m \in Nat /\ n \in Nat /\ k \in Nat /\ f[n] \in Nat
          BY <1>8, <1>t, <2>2 DEF TypeOK
        <5>. QED
          BY <1>7, <4>1, <4>2, <5>1
      <4>. QED
        BY <1>m, <3>1, <4>2, <4>3 DEF SeenBefore
    <3>2. CASE Mode # "changes"
      BY <1>m, <2>2, <2>4, <3>2 DEF SeenBefore
    <3>. QED
      BY <3>1, <3>2
  <2>5. Reached(runs[n].high)'
    <3>1. runs'[n].high = 0 \/ row'[runs'[n].high] # "none"
      BY <1>3, <2>3 DEF Reached, Seqs
    <3>. QED
      BY <3>1 DEF Reached
  <2>. QED
    BY <1>3, <2>3, <2>4, <2>5
<1>11. /\ mailbox' \in {"none", "active", "dead"} /\ attempts' \in 0 .. MaxAttempts
       /\ lastError' \in {"none", "transient", "budget"}
       /\ owner' = Nobody /\ (mailbox' = "none" => ~Fires(row', runs'))
  BY <1>t, <1>1 DEF Fill, TypeOK
<1>12. TypeOK'
  BY <1>t, <1>1, <1>2, <1>8, <1>11 DEF TypeOK
<1>13. OwnerAtWork' /\ AskedHolds'
  BY <1>1, <1>11 DEF OwnerAtWork, AskedHolds
<1>14. NothingFires'
  <2>1. Fires(row, runs)' = Fires(row', runs')
    BY <1>m DEF Fires, Watermark
  <2>. QED
    BY <1>11, <2>1 DEF NothingFires
<1>. QED
  BY <1>4, <1>6, <1>9, <1>10, <1>12, <1>13, <1>14 DEF DerivationInv

LEMMA DerivationInductive == DerivationInv /\ [Next]_vars => DerivationInv'
<1>. SUFFICES ASSUME DerivationInv, [Next]_vars PROVE DerivationInv'
  OBVIOUS
<1>1. CASE UNCHANGED vars
  <2>1. Mode' = Mode /\ Keyed' = Keyed /\ Triggered' = Triggered /\ Ready' = Ready /\ Committed' = Committed
    BY <1>1 DEF vars, moving, Mode, Keyed, Triggered, Ready, Committed
  <2>2. /\ TypeOK /\ OwnerAtWork /\ AskedHolds /\ UNCHANGED vars /\ setting' = setting
        /\ \A e \in Executors : work'[e].phase = "resolved" => BasisHolds(work'[e].basis)
    BY <1>1 DEF vars, moving, DerivationInv
  <2>3. UNCHANGED <<setting, row, stale, runs>>
    BY <2>2 DEF vars, moving
  <2>4. /\ work' \in [Executors -> [phase : {"idle", "claimed", "barred", "resolved"}, basis : Basis]]
        /\ mailbox' \in {"none", "active", "dead"} /\ attempts' \in 0 .. MaxAttempts
        /\ owner' \in Executors \cup {Nobody} /\ lastError' \in {"none", "transient", "budget"}
        /\ OwnerAtWork' /\ AskedHolds' /\ asked' \in SUBSET Seqs
        /\ mailbox' = "none" => mailbox = "none"
    BY <2>1, <2>2 DEF vars, moving, TypeOK, OwnerAtWork, AskedHolds
  <2>. QED
    BY <2>2, <2>3, <2>4, RestStep
<1>2. ASSUME UNCHANGED setting, NEW s \in Seqs,
             \/ Ingest(s) \/ OpenIngest(s) \/ CommitIngest(s) \/ AbortIngest(s)
             \/ MakeReady(s) \/ CitationMoves(s) \/ Erase(s)
      PROVE  DerivationInv'
  BY <1>2, RowStep, EraseStep
<1>3. ASSUME UNCHANGED setting, NEW e \in Executors, Resolve(e) \/ Commit(e) PROVE DerivationInv'
  BY <1>3, ResolveStep, CommitStep
<1>4. ASSUME UNCHANGED setting,
             \/ ManualRequest \/ Reap \/ Lapse
             \/ \E e \in Executors : \/ Claim(e) \/ Crash(e) \/ LeaseLost(e) \/ ReleaseNotReady(e)
                                     \/ Fail(e) \/ FailBudget(e)
      PROVE  DerivationInv'
  BY <1>4, JobStep
<1>. QED
  BY <1>1, <1>2, <1>3, <1>4 DEF Next, Step, Execute

-----------------------------------------------------------------------------
(* Results.                                                                *)

\* The invariant of a derivation: bases and runs cover the records up to their
\* cursors, and whoever leaves the mailbox empty has evaluated the triggers.
THEOREM DerivationInvariance == Spec => []DerivationInv
  BY InitDerivation, DerivationInductive, PTL DEF Spec

\* No surviving runs of a changes source share an input, whatever lapsed, was
\* retried or was rolled back by erasure: the commit verifies the cursor.
THEOREM RecordsConsumedOnce == Spec => []ConsumedOnce
<1>1. DerivationInv => ConsumedOnce
  <2>. SUFFICES ASSUME DerivationInv, Mode = "changes", NEW i \in DOMAIN runs, NEW k \in DOMAIN runs, i # k
                PROVE  runs[i].inputs \cap runs[k].inputs = {}
    BY DEF ConsumedOnce
  <2>1. /\ runs[i].inputs \subseteq Seqs /\ runs[k].inputs \subseteq Seqs
        /\ runs[i].high \in Nat /\ runs[k].high \in Nat /\ i \in Nat /\ k \in Nat
    BY RunTypes DEF DerivationInv, TypeOK
  <2>2. CASE i < k
    BY <2>1, <2>2 DEF DerivationInv, RunsFollow, Seqs
  <2>3. CASE k < i
    BY <2>1, <2>3 DEF DerivationInv, RunsFollow, Seqs
  <2>. QED
    BY <2>1, <2>2, <2>3
<1>. QED
  BY <1>1, DerivationInvariance, PTL

\* Where inserts are keyed, the cursor of a basis over changes or the corpus never
\* skips a record that is committed, although rows become ready, are erased and
\* arrive between a basis and its commit.
THEOREM CursorNeverSkips == Spec => []NeverSkips
<1>1. DerivationInv => NeverSkips
  <2>. SUFFICES ASSUME DerivationInv, Keyed, Mode # "citation_repair",
                       NEW i \in DOMAIN runs, NEW s \in Committed, s <= runs[i].high
                PROVE  s \in SeenAt(i)
    BY DEF NeverSkips
  <2>1. SeenBefore(i, s)
    BY DEF DerivationInv, RunsCover
  <2>2. CASE Mode # "changes"
    BY <2>1, <2>2 DEF SeenBefore, SeenAt
  <2>3. CASE Mode = "changes"
    <3>1. PICK k \in DOMAIN runs : k <= i /\ s \in runs[k].inputs
      BY <2>1, <2>3 DEF SeenBefore
    <3>2. /\ SubSeq(runs, 1, i) \in Seq(Run) /\ k \in DOMAIN SubSeq(runs, 1, i)
          /\ SubSeq(runs, 1, i)[k] = runs[k]
      BY <3>1 DEF DerivationInv, TypeOK
    <3>. QED
      BY <2>3, <3>1, <3>2 DEF SeenAt, SeenBy
  <2>. QED
    BY <2>2, <2>3
<1>. QED
  BY <1>1, DerivationInvariance, PTL

\* Over keyed changes: when the mailbox is empty, every record that was ready at a
\* manual request has been read: a run that commits before it has all leaves a successor.
THEOREM RequestsAreReflected == Spec => []ManualReflected
<1>1. DerivationInv => ManualReflected
  BY DEF DerivationInv, AskedHolds, ManualReflected
<1>. QED
  BY <1>1, DerivationInvariance, PTL

\* No lost stimulus: a ready record that no run reflects has a job, or one that
\* died, where inserts hold the entity lock (of a source that reads records).
THEOREM StimuliAreKept == Spec => [](Mode # "citation_repair" => KeyedNeverForgotten)
<1>1. DerivationInv => (Mode # "citation_repair" => KeyedNeverForgotten)
  <2>. SUFFICES ASSUME DerivationInv, Mode # "citation_repair", Keyed, Triggered,
                       mailbox = "none", NEW s \in Ready
                PROVE  s \in Reflected
    BY DEF KeyedNeverForgotten, NoForgottenRecord, DerivationInv, TypeOK
  <2>1. s \in Seqs /\ s \in Committed /\ ~(s > Watermark(runs))
    BY DEF DerivationInv, NothingFires, Fires, Ready, Committed
  <2>2. runs # << >> /\ runs \in Seq(Run)
    BY <2>1 DEF Watermark, Seqs, DerivationInv, TypeOK
  <2>3. Len(runs) \in DOMAIN runs /\ Watermark(runs) = runs[Len(runs)].high
    BY <2>2 DEF Watermark
  <2>4. s <= runs[Len(runs)].high
    BY <2>1, <2>3, RunTypes DEF DerivationInv, Seqs
  <2>5. SeenBefore(Len(runs), s)
    BY <2>1, <2>3, <2>4 DEF DerivationInv, RunsCover
  <2>. QED
    BY <2>3, <2>5 DEF SeenBefore, Reflected, SeenBy
<1>. QED
  BY <1>1, DerivationInvariance, PTL

HIDE BoundsAssumption
HIDE ModeAssumption

(***************************************************************************)
(* The execution of a claimed job.                                         *)
(*                                                                         *)
(* Two arguments run side by side.  Lineage: each value rests on rows that *)
(* were shown by the time it was bound, so that the records a run keeps as *)
(* its parents cover its output.  Audit: calls have numbers of their own   *)
(* and the attempts of a call are ordered by target and try, so that a log *)
(* never repeats one and no two logs share one.                            *)
(***************************************************************************)
Fields == {"phase", "values", "done", "visible", "retrieved", "calls", "tokens", "judgments",
           "judging", "flight", "correction", "evidence", "made", "audit", "cut", "read", "error",
           "output"}
Attempts == [call : Nat, target : Nat, attempt : Nat, outcome : {"ok", "error", "refused"}, usage : Nat]
Calls == [call : Nat, target : Nat, attempt : Nat, log : Seq(Attempts),
          state : {"open", "answered", "exhausted", "refused"}]

\* What a value may be said of: its rows are rows that were shown, unless a graph
\* was walked, and it may cite only rows that went into it.
ValueHolds(value, visible) ==
    /\ value.ids \subseteq Rows /\ value.from \subseteq Rows /\ value.cites \subseteq value.from
    /\ Walks \/ value.from \subseteq visible
OutputHolds(output, visible) ==
    /\ output.cites \subseteq output.from
    /\ Walks \/ output.from \subseteq visible

AtTask == {"tasks", "asking", "judging"}
LineageHolds(x) ==
    /\ x.evidence \subseteq Rows
    /\ \A n \in DOMAIN x.values : ValueHolds(x.values[n], x.visible)
    /\ OutputHolds(x.output, x.visible)
    /\ x.done \in 0 .. Len(undertaking.tasks)
    /\ x.phase = "views" => x.done = 0 /\ {"driver", "reads"} \subseteq DOMAIN x.values
    /\ x.phase \in AtTask => NamesBefore(x.done + 1) \subseteq DOMAIN x.values
    /\ x.phase \in {"asking", "judging"} => x.done < Len(undertaking.tasks)
    /\ x.phase = "asking" => Task(x).use \in {"llm", "answer"}
    /\ x.phase \in {"views", "tasks"} => x.evidence = {}

Distinct(s) == \A i, j \in DOMAIN s : s[i] = s[j] => i = j
Numbered(x) == 0 .. x.calls + x.judgments

\* An attempt of an earlier target, or an earlier one of the same (or this one).
Before(a, c) == a.target < c.target \/ (a.target = c.target /\ a.attempt < c.attempt)
UpTo(a, c) == a.target < c.target \/ (a.target = c.target /\ a.attempt <= c.attempt)

CallHolds(c) ==
    /\ c \in Calls /\ Distinct(c.log)
    /\ \A i \in DOMAIN c.log : c.log[i].call = c.call
    /\ c.state = "open" => \A i \in DOMAIN c.log : Before(c.log[i], c)
    /\ c.state = "refused" => c.log = <<>>
CallsOf(x) == {x.flight[i].call : i \in DOMAIN x.flight}
FlightHolds(x) ==
    /\ x.flight \in Seq(Calls)
    /\ x.phase \notin {"asking", "judging"} => x.flight = <<>>
    /\ \A i \in DOMAIN x.flight :
          /\ CallHolds(x.flight[i])
          /\ x.flight[i].call \in Numbered(x) \ x.cut
          /\ x.flight[i].state # "refused" =>
                ToSet(x.flight[i].log) = {a \in x.made : a.call = x.flight[i].call}
    /\ \A i, j \in DOMAIN x.flight : x.flight[i].call = x.flight[j].call => i = j
AuditHolds(x) ==
    /\ x.calls \in Nat /\ x.judgments \in Nat /\ x.tokens \in Nat /\ x.judging \in Nat
    /\ x.audit \in Seq(Attempts) /\ Distinct(x.audit)
    /\ x.tokens + x.judging = UsedBy(x.audit)
    /\ \A a \in x.made : a.call \in Numbered(x)
    /\ x.cut \subseteq Numbered(x)
    /\ ToSet(x.audit) = {a \in x.made : a.call \notin x.cut \cup CallsOf(x)}
IsExecution(x) == DOMAIN x = Fields
Audits(x) == IsExecution(x) /\ FlightHolds(x) /\ AuditHolds(x)

RunHolds(run) ==
    /\ "output" \in DOMAIN run
    /\ OutputHolds(run.output, run.parents) /\ run.parents \subseteq kept
    /\ ToSet(run.audit) = {a \in run.made : a.call \notin run.cut}
    /\ run.audit \in Seq(Attempts) /\ Distinct(run.audit) /\ run.charged = UsedBy(run.audit)

ExecutionInv ==
    /\ undertaking \in Undertakings /\ kept \subseteq Rows
    /\ execution.phase = "idle" \/ (Audits(execution) /\ LineageHolds(execution))
    /\ \A run \in stored : RunHolds(run)

-----------------------------------------------------------------------------
(* What the operators on executions do, field by field.                    *)

LEMMA FreshFields ==
  /\ IsExecution(Fresh) /\ Fresh.phase = "views" /\ Fresh.values = <<>> /\ Fresh.done = 0
  /\ Fresh.visible = {} /\ Fresh.calls = 0 /\ Fresh.tokens = 0 /\ Fresh.judgments = 0
  /\ Fresh.judging = 0 /\ Fresh.flight = <<>> /\ Fresh.evidence = {} /\ Fresh.made = {}
  /\ Fresh.audit = <<>> /\ Fresh.cut = {} /\ Fresh.output = NoOutput
BY DEF IsExecution, Fields, Fresh

\* What the audit rests on.
SameAudit(x, y) ==
    /\ y.tokens = x.tokens /\ y.judging = x.judging /\ y.made = x.made /\ y.audit = x.audit
SameCounts(x, y) == SameAudit(x, y) /\ y.calls = x.calls /\ y.judgments = x.judgments

\* What the lineage rests on.
SameValues(x, y) ==
    /\ y.values = x.values /\ y.done = x.done /\ y.visible = x.visible /\ y.output = x.output

LEMMA FailedFields ==
  ASSUME NEW x, IsExecution(x), NEW kind
  PROVE  LET y == Failed(x, kind) IN
         /\ IsExecution(y) /\ SameCounts(x, y) /\ SameValues(x, y) /\ y.evidence = x.evidence
         /\ y.phase = "failed" /\ y.flight = <<>>
         /\ y.cut = x.cut \cup {x.flight[i].call : i \in DOMAIN x.flight}
<1>. DEFINE z == x.cut \cup {x.flight[i].call : i \in DOMAIN x.flight}
<1>1. Failed(x, kind) = [x EXCEPT !.phase = "failed", !.error = kind, !.flight = <<>>, !.cut = z]
  BY DEF Failed
<1>. HIDE DEF z
<1>2. /\ IsExecution(Failed(x, kind)) /\ SameCounts(x, Failed(x, kind))
      /\ SameValues(x, Failed(x, kind)) /\ Failed(x, kind).evidence = x.evidence
      /\ Failed(x, kind).phase = "failed" /\ Failed(x, kind).flight = <<>>
      /\ Failed(x, kind).cut = z
  BY <1>1 DEF IsExecution, Fields, SameCounts, SameAudit, SameValues
<1>. QED
  BY <1>2 DEF z

LEMMA BoundFields ==
  ASSUME NEW x, IsExecution(x), NEW value
  PROVE  LET y == Bound(x, value) IN
         /\ IsExecution(y) /\ SameCounts(x, y) /\ y.cut = x.cut
         /\ y.visible = x.visible /\ y.output = x.output /\ y.evidence = {}
         /\ y.phase = "tasks" /\ y.done = x.done + 1 /\ y.flight = <<>>
         /\ y.values = Given(x.values, TaskNames[x.done + 1], value)
<1>. DEFINE z == Given(x.values, TaskNames[x.done + 1], value)
            r == x.read \cup value.from
            d == x.done + 1
<1>1. Bound(x, value) = [x EXCEPT !.phase = "tasks", !.done = d, !.flight = <<>>, !.correction = 0,
                                  !.evidence = {}, !.read = r, !.values = z]
  BY DEF Bound
<1>. HIDE DEF z, r, d
<1>2. LET y == Bound(x, value) IN
         /\ IsExecution(y) /\ SameCounts(x, y) /\ y.cut = x.cut
         /\ y.visible = x.visible /\ y.output = x.output /\ y.evidence = {}
         /\ y.phase = "tasks" /\ y.done = d /\ y.flight = <<>>
         /\ y.values = z
  BY <1>1 DEF IsExecution, Fields, SameCounts, SameAudit
<1>. QED
  BY <1>2 DEF z, d

-----------------------------------------------------------------------------
(* Recursive functions over sequences.                                     *)

LEMMA Inducts ==
  ASSUME NEW n \in Nat, NEW S, 0 \in S, \A k \in 0 .. n - 1 : k \in S => k + 1 \in S
  PROVE  n \in S
<1>. DEFINE Bad == {k \in 0 .. n : k \notin S}
<1>. SUFFICES ASSUME Bad # {} PROVE FALSE
  OBVIOUS
<1>0. Bad \subseteq Nat
  OBVIOUS
<1>1. PICK k \in Bad : \A j \in Bad : ~ (<<j, k>> \in OpToRel(<, Nat))
  BY <1>0, NatLessThanWellFounded, WFMin, Zenon
<1>2. \A j \in Bad : ~ (j < k)
  BY <1>0, <1>1 DEF OpToRel
<1>3. k # 0 /\ k - 1 \in 0 .. n - 1 /\ k - 1 \in 0 .. n /\ k - 1 < k
  OBVIOUS
<1>4. k - 1 \in S
  BY <1>2, <1>3
<1>5. (k - 1) + 1 \in S
  BY <1>3, <1>4
<1>. QED
  BY <1>5

SumsTo(f, log, n) ==
    f = [k \in 0 .. n |-> IF k = 0 THEN 0 ELSE f[k - 1] + log[k].usage]
LogsTo(f, calls, n) ==
    f = [k \in 0 .. n |-> IF k = 0 THEN <<>> ELSE f[k - 1] \o calls[k].log]
RetrievesTo(f, x, found, n) ==
    f = [k \in 0 .. n |-> IF k = 0 THEN x ELSE Retrieved(f[k - 1], found[k])]

\* g continues f, which is defined up to n, by the value v.
Continues(g, f, n, v) ==
    /\ g = [k \in 0 .. n + 1 |-> g[k]] /\ g[n + 1] = v /\ \A k \in 0 .. n : g[k] = f[k]
    /\ 0 .. n + 1 = 0 .. n \cup {n + 1} /\ n + 1 \notin 0 .. n /\ n + 1 # 0
    /\ \A k \in 0 .. n + 1 : k # 0 => k - 1 \in 0 .. n
    /\ (n + 1) - 1 = n /\ n \in 0 .. n

LEMMA Continuation ==
  ASSUME NEW f, NEW n \in Nat, NEW v
  PROVE  \E g : Continues(g, f, n, v)
<1>. DEFINE g == [k \in 0 .. n + 1 |-> IF k = n + 1 THEN v ELSE f[k]]
<1>1. Continues(g, f, n, v)
  BY DEF Continues
<1>. QED
  BY <1>1

LEMMA SumsExist ==
  ASSUME NEW log, NEW n \in Nat
  PROVE  \E f : SumsTo(f, log, n)
<1>. DEFINE S == {k \in Nat : \E f : SumsTo(f, log, k)}
<1>1. 0 \in S
  <2>. DEFINE f == [k \in 0 .. 0 |-> 0]
  <2>1. SumsTo(f, log, 0)
    BY DEF SumsTo
  <2>. QED
    BY <2>1
<1>2. ASSUME NEW k \in 0 .. n - 1, k \in S
      PROVE  k + 1 \in S
  <2>1. PICK f : SumsTo(f, log, k)
    BY <1>2
  <2>. DEFINE v == f[k] + log[k + 1].usage
  <2>2. k \in Nat /\ k + 1 \in Nat
    OBVIOUS
  <2>3. PICK g : Continues(g, f, k, v)
    BY <2>2, Continuation
  <2>4. \A j \in 0 .. k : f[j] = IF j = 0 THEN 0 ELSE f[j - 1] + log[j].usage
    BY <2>1, Zenon DEF SumsTo
  <2>5. \A j \in 0 .. k + 1 : g[j] = IF j = 0 THEN 0 ELSE g[j - 1] + log[j].usage
    BY <2>3, <2>4, Zenon DEF Continues
  <2>6. SumsTo(g, log, k + 1)
    BY <2>3, <2>5, Zenon DEF Continues, SumsTo
  <2>. QED
    BY <2>2, <2>6
<1>3. n \in S
  BY <1>1, <1>2, Inducts, Zenon
<1>. QED
  BY <1>3

LEMMA LogsExist ==
  ASSUME NEW calls, NEW n \in Nat
  PROVE  \E f : LogsTo(f, calls, n)
<1>. DEFINE S == {k \in Nat : \E f : LogsTo(f, calls, k)}
<1>1. 0 \in S
  <2>. DEFINE f == [k \in 0 .. 0 |-> <<>>]
  <2>1. LogsTo(f, calls, 0)
    BY DEF LogsTo
  <2>. QED
    BY <2>1
<1>2. ASSUME NEW k \in 0 .. n - 1, k \in S
      PROVE  k + 1 \in S
  <2>1. PICK f : LogsTo(f, calls, k)
    BY <1>2
  <2>. DEFINE v == f[k] \o calls[k + 1].log
  <2>2. k \in Nat /\ k + 1 \in Nat
    OBVIOUS
  <2>3. PICK g : Continues(g, f, k, v)
    BY <2>2, Continuation
  <2>4. \A j \in 0 .. k : f[j] = IF j = 0 THEN <<>> ELSE f[j - 1] \o calls[j].log
    BY <2>1, Zenon DEF LogsTo
  <2>5. \A j \in 0 .. k + 1 : g[j] = IF j = 0 THEN <<>> ELSE g[j - 1] \o calls[j].log
    BY <2>3, <2>4, Zenon DEF Continues
  <2>6. LogsTo(g, calls, k + 1)
    BY <2>3, <2>5, Zenon DEF Continues, LogsTo
  <2>. QED
    BY <2>2, <2>6
<1>3. n \in S
  BY <1>1, <1>2, Inducts, Zenon
<1>. QED
  BY <1>3

LEMMA RetrievesExist ==
  ASSUME NEW x, NEW found, NEW n \in Nat
  PROVE  \E f : RetrievesTo(f, x, found, n)
<1>. DEFINE S == {k \in Nat : \E f : RetrievesTo(f, x, found, k)}
<1>1. 0 \in S
  <2>. DEFINE f == [k \in 0 .. 0 |-> x]
  <2>1. RetrievesTo(f, x, found, 0)
    BY DEF RetrievesTo
  <2>. QED
    BY <2>1
<1>2. ASSUME NEW k \in 0 .. n - 1, k \in S
      PROVE  k + 1 \in S
  <2>1. PICK f : RetrievesTo(f, x, found, k)
    BY <1>2
  <2>. DEFINE v == Retrieved(f[k], found[k + 1])
  <2>2. k \in Nat /\ k + 1 \in Nat
    OBVIOUS
  <2>3. PICK g : Continues(g, f, k, v)
    BY <2>2, Continuation
  <2>4. \A j \in 0 .. k : f[j] = IF j = 0 THEN x ELSE Retrieved(f[j - 1], found[j])
    BY <2>1, Zenon DEF RetrievesTo
  <2>5. \A j \in 0 .. k + 1 : g[j] = IF j = 0 THEN x ELSE Retrieved(g[j - 1], found[j])
    BY <2>3, <2>4, Zenon DEF Continues
  <2>6. RetrievesTo(g, x, found, k + 1)
    BY <2>3, <2>5, Zenon DEF Continues, RetrievesTo
  <2>. QED
    BY <2>2, <2>6
<1>3. n \in S
  BY <1>1, <1>2, Inducts, Zenon
<1>. QED
  BY <1>3

LEMMA SumOf ==
  ASSUME NEW log \in Seq(Attempts)
  PROVE  \E f : /\ UsedBy(log) = f[Len(log)] /\ f[0] = 0
                /\ \A k \in 1 .. Len(log) : f[k] = f[k - 1] + log[k].usage
<1>. DEFINE n == Len(log)
            f == CHOOSE g : SumsTo(g, log, n)
<1>1. n \in Nat
  OBVIOUS
<1>2. SumsTo(f, log, n)
  BY <1>1, SumsExist, Zenon
<1>3. UsedBy(log) = f[n]
  BY Zenon DEF UsedBy, SumsTo
<1>. HIDE DEF f, n
<1>4. \A k \in 0 .. n : f[k] = IF k = 0 THEN 0 ELSE f[k - 1] + log[k].usage
  BY <1>2, Zenon DEF SumsTo
<1>5. 0 \in 0 .. n /\ \A k \in 1 .. n : k \in 0 .. n /\ k # 0
  BY <1>1
<1>6. f[0] = 0 /\ \A k \in 1 .. n : f[k] = f[k - 1] + log[k].usage
  BY <1>4, <1>5, Zenon
<1>. QED
  BY <1>3, <1>6 DEF n

\* What is used is a number, and adds up when attempts are put together.
LEMMA UsedAdds ==
  ASSUME NEW s \in Seq(Attempts), NEW t \in Seq(Attempts)
  PROVE  /\ UsedBy(s) \in Nat /\ UsedBy(t) \in Nat /\ UsedBy(s \o t) = UsedBy(s) + UsedBy(t)
         /\ UsedBy(<<>>) = 0
<1>. DEFINE m == Len(s)
            n == Len(t)
<1>0. s \o t \in Seq(Attempts) /\ Len(s \o t) = m + n /\ m \in Nat /\ n \in Nat
  OBVIOUS
<1>1. PICK f : /\ UsedBy(s) = f[m] /\ f[0] = 0
               /\ \A k \in 1 .. m : f[k] = f[k - 1] + s[k].usage
  BY SumOf
<1>2. PICK g : /\ UsedBy(t) = g[n] /\ g[0] = 0
               /\ \A k \in 1 .. n : g[k] = g[k - 1] + t[k].usage
  BY SumOf
<1>3. PICK h : /\ UsedBy(s \o t) = h[m + n] /\ h[0] = 0
               /\ \A k \in 1 .. m + n : h[k] = h[k - 1] + (s \o t)[k].usage
  <2>1. s \o t \in Seq(Attempts)
    BY <1>0
  <2>2. PICK h : /\ UsedBy(s \o t) = h[Len(s \o t)] /\ h[0] = 0
                 /\ \A k \in 1 .. Len(s \o t) : h[k] = h[k - 1] + (s \o t)[k].usage
    BY <2>1, SumOf, Zenon
  <2>. QED
    BY <1>0, <2>2, Zenon
<1>4. /\ \A k \in 1 .. m : s[k].usage \in Nat /\ (s \o t)[k] = s[k]
      /\ \A k \in 1 .. n : t[k].usage \in Nat /\ (s \o t)[m + k] = t[k]
  <2>1. \A a \in Attempts : a.usage \in Nat
    BY DEF Attempts
  <2>2. \A k \in 1 .. m : s[k] \in Attempts /\ (s \o t)[k] = s[k]
    OBVIOUS
  <2>3. \A k \in 1 .. n : t[k] \in Attempts /\ (s \o t)[m + k] = t[k]
    OBVIOUS
  <2>. QED
    BY <2>1, <2>2, <2>3
<1>. HIDE DEF m, n
<1>. DEFINE F == {k \in Nat : k <= m => f[k] \in Nat /\ h[k] = f[k]}
            G == {k \in Nat : k <= n => g[k] \in Nat /\ h[m + k] = f[m] + g[k]}
<1>5. m \in F
  <2>1. 0 \in F
    BY <1>0, <1>1, <1>3
  <2>2. ASSUME NEW k \in 0 .. m - 1, k \in F
        PROVE  k + 1 \in F
    <3>1. k + 1 \in 1 .. m /\ k + 1 \in 1 .. m + n /\ (k + 1) - 1 = k /\ k + 1 \in Nat
      BY <1>0
    <3>2. f[k + 1] = f[k] + s[k + 1].usage /\ h[k + 1] = h[k] + s[k + 1].usage
      BY <1>1, <1>3, <1>4, <3>1
    <3>3. f[k] \in Nat /\ h[k] = f[k] /\ s[k + 1].usage \in Nat
      BY <1>0, <1>4, <2>2, <3>1
    <3>. QED
      BY <3>1, <3>2, <3>3
  <2>. HIDE DEF F
  <2>. QED
    BY <1>0, <2>1, <2>2, Inducts, Zenon
<1>6. f[m] \in Nat /\ h[m] = f[m]
  BY <1>0, <1>5
<1>7. n \in G
  <2>1. 0 \in G
    BY <1>0, <1>2, <1>6
  <2>2. ASSUME NEW k \in 0 .. n - 1, k \in G
        PROVE  k + 1 \in G
    <3>1. /\ k + 1 \in 1 .. n /\ m + (k + 1) \in 1 .. m + n /\ (k + 1) - 1 = k
          /\ (m + (k + 1)) - 1 = m + k /\ k + 1 \in Nat
      BY <1>0
    <3>2. g[k + 1] = g[k] + t[k + 1].usage /\ h[m + (k + 1)] = h[m + k] + t[k + 1].usage
      BY <1>2, <1>3, <1>4, <3>1
    <3>3. g[k] \in Nat /\ h[m + k] = f[m] + g[k]
      BY <1>0, <2>2, <3>1
    <3>4. t[k + 1].usage \in Nat
      BY <1>4, <3>1
    <3>. QED
      BY <1>6, <3>1, <3>2, <3>3, <3>4
  <2>. HIDE DEF G
  <2>. QED
    BY <1>0, <2>1, <2>2, Inducts, Zenon
<1>8. g[n] \in Nat /\ h[m + n] = f[m] + g[n]
  BY <1>0, <1>7
<1>9. UsedBy(<<>>) = 0
  <2>1. <<>> \in Seq(Attempts) /\ Len(<<>>) = 0
    OBVIOUS
  <2>. QED
    BY <2>1, SumOf
<1>. QED
  BY <1>1, <1>2, <1>3, <1>6, <1>8, <1>9

LEMMA Concatenated ==
  ASSUME NEW s \in Seq(Attempts), NEW t \in Seq(Attempts), Distinct(s), Distinct(t),
         ToSet(s) \cap ToSet(t) = {}
  PROVE  /\ s \o t \in Seq(Attempts) /\ Distinct(s \o t) /\ ToSet(s \o t) = ToSet(s) \cup ToSet(t)
<1>. DEFINE m == Len(s)
            n == Len(t)
            u == s \o t
<1>1. /\ u \in Seq(Attempts) /\ DOMAIN u = 1 .. m + n /\ DOMAIN s = 1 .. m /\ DOMAIN t = 1 .. n
      /\ m \in Nat /\ n \in Nat
  OBVIOUS
<1>2. \A k \in 1 .. m + n : u[k] = IF k <= m THEN s[k] ELSE t[k - m]
  OBVIOUS
<1>. HIDE DEF u, m, n
<1>3. \A k \in 1 .. m + n : \/ k \in 1 .. m /\ u[k] = s[k]
                            \/ k > m /\ k - m \in 1 .. n /\ u[k] = t[k - m]
  BY <1>1, <1>2
<1>4. \A i \in 1 .. m, j \in 1 .. n : s[i] # t[j]
  BY <1>1 DEF ToSet
<1>5. Distinct(u)
  <2>. SUFFICES ASSUME NEW i \in 1 .. m + n, NEW j \in 1 .. m + n, u[i] = u[j] PROVE i = j
    BY <1>1 DEF Distinct
  <2>1. CASE i \in 1 .. m /\ u[i] = s[i] /\ j \in 1 .. m /\ u[j] = s[j]
    BY <1>1, <2>1 DEF Distinct
  <2>2. CASE i - m \in 1 .. n /\ u[i] = t[i - m] /\ j - m \in 1 .. n /\ u[j] = t[j - m]
    <3>1. i - m = j - m
      BY <1>1, <2>2 DEF Distinct
    <3>. QED
      BY <1>1, <3>1
  <2>. QED
    BY <1>3, <1>4, <2>1, <2>2
<1>6. ToSet(u) = ToSet(s) \cup ToSet(t)
  <2>1. \A k \in 1 .. m : k \in 1 .. m + n /\ u[k] = s[k]
    BY <1>1, <1>2
  <2>2. \A k \in 1 .. n : m + k \in 1 .. m + n /\ u[m + k] = t[k]
    BY <1>1, <1>2
  <2>3. ToSet(s) = {s[k] : k \in 1 .. m} /\ ToSet(t) = {t[k] : k \in 1 .. n}
        /\ ToSet(u) = {u[k] : k \in 1 .. m + n}
    BY <1>1, Zenon DEF ToSet
  <2>4. ToSet(u) \subseteq ToSet(s) \cup ToSet(t)
    BY <1>3, <2>3
  <2>5. ToSet(s) \subseteq ToSet(u)
    BY <2>1, <2>3, Zenon
  <2>6. ToSet(t) \subseteq ToSet(u)
    BY <2>2, <2>3
  <2>. QED
    BY <2>4, <2>5, <2>6
<1>. QED
  BY <1>1, <1>5, <1>6 DEF u

\* The logs of calls that do not share an attempt, one after the other.
LEMMA LogsOf ==
  ASSUME NEW calls \in Seq(Calls), \A i \in DOMAIN calls : Distinct(calls[i].log),
         \A i, j \in DOMAIN calls : i # j => ToSet(calls[i].log) \cap ToSet(calls[j].log) = {}
  PROVE  /\ Logs(calls) \in Seq(Attempts) /\ Distinct(Logs(calls))
         /\ ToSet(Logs(calls)) = UNION {ToSet(calls[i].log) : i \in DOMAIN calls}
<1>. DEFINE n == Len(calls)
            f == CHOOSE g : LogsTo(g, calls, n)
<1>1. n \in Nat /\ DOMAIN calls = 1 .. n
  OBVIOUS
<1>2. LogsTo(f, calls, n)
  BY <1>1, LogsExist, Zenon
<1>3. Logs(calls) = f[n]
  BY Zenon DEF Logs, LogsTo
<1>4. \A k \in 1 .. n : calls[k].log \in Seq(Attempts)
  <2>1. \A k \in 1 .. n : calls[k] \in Calls
    OBVIOUS
  <2>2. \A c \in Calls : c.log \in Seq(Attempts)
    BY DEF Calls
  <2>. QED
    BY <2>1, <2>2
<1>. HIDE DEF f, n
<1>5. \A k \in 0 .. n : f[k] = IF k = 0 THEN <<>> ELSE f[k - 1] \o calls[k].log
  BY <1>2, Zenon DEF LogsTo
<1>. DEFINE Sum(k) == UNION {ToSet(calls[i].log) : i \in 1 .. k}
            S == {k \in Nat : k <= n => f[k] \in Seq(Attempts) /\ Distinct(f[k]) /\ ToSet(f[k]) = Sum(k)}
<1>6. 0 \in S
  <2>1. f[0] = <<>>
    BY <1>1, <1>5
  <2>2. <<>> \in Seq(Attempts) /\ Distinct(<<>>) /\ ToSet(<<>>) = {}
    BY DEF Distinct, ToSet
  <2>3. 1 .. 0 = {}
    OBVIOUS
  <2>4. Sum(0) = {}
    BY <2>3
  <2>. QED
    BY <2>1, <2>2, <2>4
<1>7. ASSUME NEW k \in 0 .. n - 1, k \in S
      PROVE  k + 1 \in S
  <2>1. k \in Nat /\ k <= n /\ k + 1 \in 0 .. n /\ k + 1 \in 1 .. n /\ k + 1 # 0 /\ (k + 1) - 1 = k /\ k + 1 \in Nat
    BY <1>1
  <2>2. f[k + 1] = f[k] \o calls[k + 1].log
    BY <1>5, <2>1
  <2>3. f[k] \in Seq(Attempts) /\ Distinct(f[k]) /\ ToSet(f[k]) = Sum(k)
    BY <1>7, <2>1
  <2>4. 1 .. k + 1 = 1 .. k \cup {k + 1} /\ \A i \in 1 .. k : i \in 1 .. n /\ i # k + 1
    BY <1>1
  <2>5. Sum(k + 1) = Sum(k) \cup ToSet(calls[k + 1].log)
    BY <2>4
  <2>6. ToSet(f[k]) \cap ToSet(calls[k + 1].log) = {}
    <3>1. \A i \in 1 .. k : ToSet(calls[i].log) \cap ToSet(calls[k + 1].log) = {}
      BY <1>1, <2>1, <2>4
    <3>. QED
      BY <2>3, <3>1, Zenon
  <2>7. calls[k + 1].log \in Seq(Attempts) /\ Distinct(calls[k + 1].log)
    BY <1>1, <1>4, <2>1
  <2>. HIDE DEF Sum
  <2>8. /\ f[k] \o calls[k + 1].log \in Seq(Attempts) /\ Distinct(f[k] \o calls[k + 1].log)
        /\ ToSet(f[k] \o calls[k + 1].log) = ToSet(f[k]) \cup ToSet(calls[k + 1].log)
    BY <2>3, <2>6, <2>7, Concatenated, Zenon
  <2>. QED
    BY <2>1, <2>2, <2>3, <2>5, <2>8
<1>8. n \in S
  <2>. HIDE DEF S
  <2>. QED
    BY <1>1, <1>6, <1>7, Inducts, Zenon
<1>. QED
  BY <1>1, <1>3, <1>8

-----------------------------------------------------------------------------
(* The audit.                                                              *)

LEMMA CallIs ==
  ASSUME NEW n
  PROVE  /\ Call(n).call = n /\ Call(n).log = <<>> /\ Call(n).state = "open"
         /\ n \in Nat => Call(n) \in Calls
<1>1. <<>> \in Seq(Attempts)
  OBVIOUS
<1>2. Call(n).call = n /\ Call(n).log = <<>> /\ Call(n).state = "open"
  BY DEF Call
<1>3. ASSUME n \in Nat
      PROVE  Call(n) \in Calls
  <2>. DEFINE L == Seq(Attempts)
              all == [call : Nat, target : Nat, attempt : Nat, log : L, state : {"open", "answered", "exhausted", "refused"}]
  <2>1. Calls = all
    BY DEF Calls
  <2>2. /\ Call(n).target = 1 /\ Call(n).attempt = 1
        /\ Call(n) = [call |-> Call(n).call, target |-> Call(n).target, attempt |-> Call(n).attempt,
                       log |-> Call(n).log, state |-> Call(n).state]
    BY DEF Call
  <2>3. Call(n).log \in L
    BY <1>1, <1>2
  <2>. HIDE DEF L
  <2>4. Call(n).call \in Nat
    BY <1>2, <1>3
  <2>5. Call(n).target \in Nat /\ Call(n).attempt \in Nat
    BY <2>2
  <2>6. Call(n).state \in {"open", "answered", "exhausted", "refused"}
    BY <1>2
  <2>. QED
    BY <2>1, <2>2, <2>3, <2>4, <2>5, <2>6
<1>. QED
  BY <1>2, <1>3

LEMMA CallTyped ==
  ASSUME NEW c \in Calls
  PROVE  /\ c.call \in Nat /\ c.target \in Nat /\ c.attempt \in Nat /\ c.log \in Seq(Attempts)
BY DEF Calls

\* From x to y, calls are begun, or none.
Begun(x, y) ==
    /\ SameAudit(x, y) /\ y.cut = x.cut
    /\ y.calls \in Nat /\ y.judgments \in Nat /\ x.calls + x.judgments <= y.calls + y.judgments
    /\ y.flight \in Seq(Calls)
    /\ y.phase \notin {"asking", "judging"} => y.flight = <<>>
    /\ \A i \in DOMAIN y.flight :
          /\ y.flight[i] = Call(y.flight[i].call) /\ y.flight[i].call <= y.calls + y.judgments
          /\ x.calls + x.judgments < y.flight[i].call
    /\ \A i, j \in DOMAIN y.flight : y.flight[i].call = y.flight[j].call => i = j

LEMMA BegunAudits ==
  ASSUME NEW x, NEW y, Audits(x), x.flight = <<>>, IsExecution(y), Begun(x, y)
  PROVE  Audits(y)
<1>1. AuditHolds(x) /\ CallsOf(x) = {}
  BY DEF Audits, CallsOf
<1>2. Numbered(x) \subseteq Numbered(y)
  BY <1>1 DEF AuditHolds, Numbered, Begun
<1>3. \A i \in DOMAIN y.flight : y.flight[i] \in Calls /\ y.flight[i].call \in Nat
  <2>. SUFFICES ASSUME NEW i \in DOMAIN y.flight
                PROVE  y.flight[i] \in Calls /\ y.flight[i].call \in Nat
    OBVIOUS
  <2>0. y.flight \in Seq(Calls)
    BY DEF Begun
  <2>1. y.flight[i] \in Calls
    BY <2>0
  <2>. QED
    BY <2>1, CallTyped, Zenon
<1>4. \A i \in DOMAIN y.flight : /\ y.flight[i].call \in Numbered(y)
                                 /\ y.flight[i].call \notin Numbered(x)
  BY <1>1, <1>3 DEF AuditHolds, Numbered, Begun
<1>5. \A i \in DOMAIN y.flight : y.flight[i].log = <<>> /\ y.flight[i].state = "open"
  <2>. SUFFICES ASSUME NEW i \in DOMAIN y.flight
                PROVE  y.flight[i].log = <<>> /\ y.flight[i].state = "open"
    OBVIOUS
  <2>1. y.flight[i] = Call(y.flight[i].call)
    BY DEF Begun
  <2>. QED
    BY <2>1, CallIs, Zenon
<1>6. \A i \in DOMAIN y.flight : CallHolds(y.flight[i])
  BY <1>3, <1>5 DEF CallHolds, Distinct
<1>7. \A i \in DOMAIN y.flight : ToSet(y.flight[i].log) = {a \in y.made : a.call = y.flight[i].call}
  <2>. SUFFICES ASSUME NEW i \in DOMAIN y.flight
                PROVE  ToSet(y.flight[i].log) = {a \in y.made : a.call = y.flight[i].call}
    OBVIOUS
  <2>1. ToSet(<<>>) = {}
    BY DEF ToSet
  <2>2. \A a \in y.made : a.call \in Numbered(x)
    BY <1>1 DEF AuditHolds, SameAudit, Begun
  <2>3. {a \in y.made : a.call = y.flight[i].call} = {}
    BY <1>4, <2>2
  <2>. QED
    BY <1>5, <2>1, <2>3
<1>8. FlightHolds(y)
  BY <1>1, <1>2, <1>4, <1>6, <1>7 DEF FlightHolds, AuditHolds, Begun
<1>9. ToSet(y.audit) = {a \in y.made : a.call \notin y.cut \cup CallsOf(y)}
  <2>1. \A a \in y.made : a.call \notin CallsOf(y)
    BY <1>1, <1>4 DEF AuditHolds, SameAudit, Begun, CallsOf
  <2>2. ToSet(y.audit) = {a \in y.made : a.call \notin y.cut}
    BY <1>1 DEF AuditHolds, SameAudit, Begun
  <2>. QED
    BY <2>1, <2>2
<1>10. AuditHolds(y)
  BY <1>1, <1>2, <1>9 DEF AuditHolds, SameAudit, Begun
<1>. QED
  BY <1>8, <1>10 DEF Audits

LEMMA QuietAudits ==
  ASSUME NEW x, NEW y, Audits(x), x.flight = <<>>, IsExecution(y), SameCounts(x, y),
         y.cut = x.cut, y.flight = <<>>
  PROVE  Audits(y)
<1>1. y.flight \in Seq(Calls) /\ DOMAIN y.flight = {}
  OBVIOUS
<1>2. y.calls \in Nat /\ y.judgments \in Nat /\ x.calls + x.judgments <= y.calls + y.judgments
  BY DEF Audits, AuditHolds, SameCounts
<1>3. Begun(x, y)
  BY <1>1, <1>2 DEF SameCounts, Begun
<1>. QED
  BY <1>3, BegunAudits

LEMMA FailedAudits ==
  ASSUME NEW x, Audits(x), NEW kind
  PROVE  Audits(Failed(x, kind))
<1>. DEFINE y == Failed(x, kind)
<1>1. /\ IsExecution(y) /\ SameCounts(x, y) /\ y.phase = "failed" /\ y.flight = <<>>
      /\ y.cut = x.cut \cup CallsOf(x)
  BY FailedFields DEF Audits, CallsOf
<1>. HIDE DEF y
<1>2. FlightHolds(y) /\ CallsOf(y) = {}
  BY <1>1 DEF FlightHolds, CallsOf
<1>3. Numbered(y) = Numbered(x)
  BY <1>1 DEF Numbered, SameCounts
<1>4. CallsOf(x) \subseteq Numbered(x)
  BY DEF Audits, FlightHolds, CallsOf
<1>5. AuditHolds(y)
  BY <1>1, <1>2, <1>3, <1>4 DEF Audits, AuditHolds, SameCounts, SameAudit
<1>. QED
  BY <1>1, <1>2, <1>5 DEF Audits, y

LEMMA SubmitAudits ==
  ASSUME NEW x, Audits(x), x.flight = <<>>
  PROVE  Audits(Submit(x))
<1>0. x.calls \in Nat /\ x.judgments \in Nat
  BY DEF Audits, AuditHolds
<1>1. CASE Submit(x) = Failed(x, BudgetKind(x))
  BY <1>1, FailedAudits
<1>2. CASE Submit(x) = Failed([x EXCEPT !.calls = @ + 1], BudgetKind(x))
  <2>. DEFINE y == [x EXCEPT !.calls = @ + 1]
  <2>1. /\ IsExecution(y) /\ SameAudit(x, y) /\ y.cut = x.cut /\ y.calls = x.calls + 1
        /\ y.judgments = x.judgments /\ y.flight = <<>>
    BY DEF Audits, IsExecution, Fields, SameAudit
  <2>. HIDE DEF y
  <2>2. y.flight \in Seq(Calls) /\ DOMAIN y.flight = {}
    BY <2>1
  <2>4. Begun(x, y)
    BY <1>0, <2>1, <2>2 DEF Begun
  <2>3. Audits(y)
    BY <2>1, <2>4, BegunAudits
  <2>. QED
    BY <1>2, <2>3, FailedAudits DEF y
<1>3. CASE Submit(x) = [x EXCEPT !.phase = "asking", !.calls = @ + 1, !.flight = <<Call(NextCall(x))>>]
  <2>. DEFINE y == [x EXCEPT !.phase = "asking", !.calls = @ + 1, !.flight = <<Call(NextCall(x))>>]
  <2>1. /\ IsExecution(y) /\ SameAudit(x, y) /\ y.cut = x.cut /\ y.calls = x.calls + 1
        /\ y.judgments = x.judgments /\ y.flight = <<Call(NextCall(x))>> /\ y.phase = "asking"
    BY DEF Audits, IsExecution, Fields, SameAudit
  <2>. HIDE DEF y
  <2>2. NextCall(x) = x.calls + x.judgments + 1 /\ NextCall(x) \in Nat
    BY <1>0 DEF NextCall
  <2>3. Call(NextCall(x)) \in Calls /\ Call(NextCall(x)).call = NextCall(x)
    BY <2>2, CallIs
  <2>4. y.flight \in Seq(Calls) /\ DOMAIN y.flight = {1} /\ y.flight[1] = Call(NextCall(x))
    BY <2>1, <2>3
  <2>5. Begun(x, y)
    BY <1>0, <2>1, <2>2, <2>3, <2>4 DEF Begun
  <2>. QED
    BY <1>3, <2>1, <2>5, BegunAudits DEF y
<1>. QED
  BY <1>1, <1>2, <1>3 DEF Submit

\* Calls came to an end, and what they remember is audited and charged.
LEMMA EndedAudits ==
  ASSUME NEW x, NEW y, Audits(x), IsExecution(y), y.calls = x.calls, y.judgments = x.judgments,
         y.made = x.made, y.audit = x.audit \o Logs(x.flight), y.flight = <<>>,
         y.cut = x.cut \cup CallsIn(x.flight, {"refused"}),
         \/ y.tokens = x.tokens + UsedBy(Logs(x.flight)) /\ y.judging = x.judging
         \/ y.judging = x.judging + UsedBy(Logs(x.flight)) /\ y.tokens = x.tokens
  PROVE  Audits(y)
<1>0. FlightHolds(x) /\ AuditHolds(x)
  BY DEF Audits
<1>. DEFINE logs == Logs(x.flight)
            ended == CallsIn(x.flight, {"refused"})
<1>1. x.flight \in Seq(Calls) /\ \A i \in DOMAIN x.flight : Distinct(x.flight[i].log)
  <2>1. \A i \in DOMAIN x.flight : CallHolds(x.flight[i])
    BY <1>0 DEF FlightHolds
  <2>2. \A c : CallHolds(c) => Distinct(c.log)
    BY DEF CallHolds
  <2>3. x.flight \in Seq(Calls)
    BY <1>0 DEF FlightHolds
  <2>. QED
    BY <2>1, <2>2, <2>3, Zenon
<1>2. \A i \in DOMAIN x.flight : \A a \in ToSet(x.flight[i].log) : a.call = x.flight[i].call
  BY <1>0 DEF FlightHolds, CallHolds, ToSet
<1>3. \A i, j \in DOMAIN x.flight : i # j => ToSet(x.flight[i].log) \cap ToSet(x.flight[j].log) = {}
  BY <1>0, <1>2 DEF FlightHolds
<1>4. /\ logs \in Seq(Attempts) /\ Distinct(logs)
      /\ ToSet(logs) = UNION {ToSet(x.flight[i].log) : i \in DOMAIN x.flight}
  BY <1>1, <1>3, LogsOf, Zenon
<1>5. ToSet(logs) = {a \in x.made : a.call \in CallsOf(x) \ ended}
  <2>1. \A i \in DOMAIN x.flight : x.flight[i].state = "refused" => ToSet(x.flight[i].log) = {}
    BY <1>0 DEF FlightHolds, CallHolds, ToSet
  <2>2. \A i \in DOMAIN x.flight : x.flight[i].state # "refused" =>
           /\ ToSet(x.flight[i].log) = {a \in x.made : a.call = x.flight[i].call}
           /\ x.flight[i].call \notin ended
    BY <1>0 DEF FlightHolds, CallsIn
  <2>3. \A i \in DOMAIN x.flight : x.flight[i].state = "refused" => x.flight[i].call \in ended
    BY DEF CallsIn
  <2>. HIDE DEF ended, logs
  <2>4. ASSUME NEW a \in ToSet(logs)
        PROVE  a \in x.made /\ a.call \in CallsOf(x) \ ended
    <3>1. PICK i \in DOMAIN x.flight : a \in ToSet(x.flight[i].log)
      BY <1>4
    <3>2. x.flight[i].state # "refused"
      BY <2>1, <3>1
    <3>. QED
      BY <2>2, <3>1, <3>2 DEF CallsOf
  <2>5. ASSUME NEW a \in x.made, a.call \in CallsOf(x) \ ended
        PROVE  a \in ToSet(logs)
    <3>1. PICK i \in DOMAIN x.flight : x.flight[i].call = a.call
      BY <2>5 DEF CallsOf
    <3>2. x.flight[i].state # "refused"
      BY <2>3, <2>5, <3>1
    <3>3. a \in ToSet(x.flight[i].log)
      BY <2>2, <3>1, <3>2
    <3>. QED
      BY <1>4, <3>3
  <2>. QED
    BY <2>4, <2>5
<1>6. ended \subseteq CallsOf(x) /\ CallsOf(x) \cap x.cut = {} /\ CallsOf(x) \subseteq Numbered(x)
  BY <1>0 DEF FlightHolds, CallsIn, CallsOf
<1>7. ToSet(x.audit) \cap ToSet(logs) = {}
  BY <1>0, <1>5 DEF AuditHolds
<1>. HIDE DEF logs, ended
<1>8. /\ y.audit \in Seq(Attempts) /\ Distinct(y.audit)
      /\ ToSet(y.audit) = ToSet(x.audit) \cup ToSet(logs)
  BY <1>0, <1>4, <1>7, Concatenated DEF AuditHolds, logs
<1>9. UsedBy(y.audit) = UsedBy(x.audit) + UsedBy(logs) /\ UsedBy(logs) \in Nat
  BY <1>0, <1>4, UsedAdds DEF AuditHolds, logs
<1>10. y.tokens \in Nat /\ y.judging \in Nat /\ y.tokens + y.judging = UsedBy(y.audit)
  BY <1>0, <1>9 DEF AuditHolds, logs
<1>11. CallsOf(y) = {} /\ FlightHolds(y) /\ Numbered(y) = Numbered(x)
  BY DEF CallsOf, FlightHolds, Numbered
<1>12. ToSet(y.audit) = {a \in y.made : a.call \notin y.cut}
  BY <1>0, <1>5, <1>6, <1>8 DEF AuditHolds, ended
<1>13. AuditHolds(y)
  BY <1>0, <1>6, <1>8, <1>10, <1>11, <1>12 DEF AuditHolds, ended
<1>. QED
  BY <1>11, <1>13 DEF Audits

LEMMA AppendedSet ==
  ASSUME NEW s \in Seq(Attempts), NEW attempt \in Attempts
  PROVE  ToSet(Append(s, attempt)) = ToSet(s) \cup {attempt}
<1>. DEFINE t == Append(s, attempt)
<1>1. /\ Len(s) \in Nat /\ DOMAIN s = 1 .. Len(s) /\ DOMAIN t = 1 .. Len(s) + 1
      /\ t[Len(s) + 1] = attempt /\ \A k \in 1 .. Len(s) : t[k] = s[k]
  OBVIOUS
<1>. HIDE DEF t
<1>2. DOMAIN t = DOMAIN s \cup {Len(s) + 1} /\ \A k \in DOMAIN s : t[k] = s[k]
  BY <1>1
<1>3. ToSet(t) = ToSet(s) \cup {attempt}
  BY <1>1, <1>2 DEF ToSet
<1>. QED
  BY <1>3 DEF t

\* The i-th call under way becomes c, after an attempt that it remembers unless it
\* is refused.
LEMMA AskedAudits ==
  ASSUME NEW x, Audits(x), NEW i \in DOMAIN x.flight, NEW c, CallHolds(c), NEW attempt \in Attempts,
         c.call = x.flight[i].call, attempt.call = x.flight[i].call, x.flight[i].state # "refused",
         c.state # "refused" => c.log = Append(x.flight[i].log, attempt)
  PROVE  Audits([x EXCEPT !.made = @ \cup {attempt}, !.flight[i] = c])
<1>. DEFINE f == [x.flight EXCEPT ![i] = c]
            m == x.made \cup {attempt}
            y == [x EXCEPT !.made = m, !.flight = f]
<1>0. FlightHolds(x) /\ AuditHolds(x) /\ IsExecution(x)
  BY DEF Audits
<1>1. [x EXCEPT !.made = @ \cup {attempt}, !.flight[i] = c] = y
  OBVIOUS
<1>2. x.flight \in Seq(Calls) /\ c \in Calls
  BY <1>0 DEF FlightHolds, CallHolds
<1>3. f \in Seq(Calls) /\ DOMAIN f = DOMAIN x.flight /\ f[i] = c
      /\ \A j \in DOMAIN x.flight : j # i => f[j] = x.flight[j]
  BY <1>2
<1>4. \A j \in DOMAIN f : f[j].call = x.flight[j].call
  BY <1>3
<1>. HIDE DEF f, m
<1>5. /\ IsExecution(y) /\ y.flight = f /\ y.made = m /\ y.phase = x.phase /\ y.cut = x.cut
      /\ y.calls = x.calls /\ y.judgments = x.judgments /\ y.tokens = x.tokens
      /\ y.judging = x.judging /\ y.audit = x.audit
  BY <1>0 DEF IsExecution, Fields
<1>. HIDE DEF y
<1>6. Numbered(y) = Numbered(x) /\ CallsOf(y) = CallsOf(x)
  BY <1>3, <1>4, <1>5 DEF Numbered, CallsOf
<1>7. \A j \in DOMAIN f : j # i => f[j].call # attempt.call
  BY <1>0, <1>3, <1>4 DEF FlightHolds
<1>8. ASSUME NEW j \in DOMAIN f, f[j].state # "refused"
      PROVE  ToSet(f[j].log) = {a \in m : a.call = f[j].call}
  <2>1. CASE j # i
    <3>1. ToSet(f[j].log) = {a \in x.made : a.call = f[j].call}
      BY <1>0, <1>3, <1>8, <2>1 DEF FlightHolds
    <3>. QED
      BY <1>7, <2>1, <3>1 DEF m
  <2>2. CASE j = i
    <3>1. x.flight[i].log \in Seq(Attempts)
      BY <1>2, CallTyped
    <3>2. c.log = Append(x.flight[i].log, attempt)
      BY <1>3, <1>8, <2>2
    <3>3. ToSet(x.flight[i].log) = {a \in x.made : a.call = attempt.call}
      BY <1>0 DEF FlightHolds
    <3>4. ToSet(c.log) = ToSet(x.flight[i].log) \cup {attempt}
      BY <3>1, <3>2, AppendedSet
    <3>5. {a \in m : a.call = attempt.call} = {a \in x.made : a.call = attempt.call} \cup {attempt}
      BY DEF m
    <3>. QED
      BY <1>3, <2>2, <3>3, <3>4, <3>5
  <2>. QED
    BY <2>1, <2>2
<1>9. FlightHolds(y)
  <2>1. \A j \in DOMAIN f : CallHolds(f[j])
    BY <1>0, <1>3 DEF FlightHolds
  <2>2. \A j \in DOMAIN f : f[j].call \in Numbered(x) \ x.cut
    BY <1>0, <1>3, <1>4 DEF FlightHolds
  <2>3. \A j, k \in DOMAIN f : f[j].call = f[k].call => j = k
    BY <1>0, <1>3, <1>4 DEF FlightHolds
  <2>4. x.phase \in {"asking", "judging"}
    BY <1>0 DEF FlightHolds
  <2>. QED
    BY <1>3, <1>5, <1>6, <1>8, <2>1, <2>2, <2>3, <2>4 DEF FlightHolds
<1>10. AuditHolds(y)
  <2>1. attempt.call \in Numbered(x) /\ attempt.call \in CallsOf(x)
    BY <1>0 DEF FlightHolds, CallsOf
  <2>2. ToSet(x.audit) = {a \in m : a.call \notin x.cut \cup CallsOf(x)}
    BY <1>0, <2>1 DEF AuditHolds, m
  <2>. QED
    BY <1>0, <1>5, <1>6, <2>1, <2>2 DEF AuditHolds, m
<1>. QED
  BY <1>1, <1>5, <1>9, <1>10 DEF Audits

LEMMA Order ==
  ASSUME NEW a \in Attempts, NEW c \in Calls, NEW d \in Calls
  PROVE  /\ a.target = c.target /\ a.attempt = c.attempt => UpTo(a, c) /\ ~ Before(a, c)
         /\ Before(a, c) => UpTo(a, c)
         /\ UpTo(a, c) /\ c.attempt = 1 /\ d.attempt = 2 /\ d.target = c.target => Before(a, d)
         /\ UpTo(a, c) /\ d.target = c.target + 1 => Before(a, d)
<1>. USE DEF Before, UpTo
<1>1. a.target \in Nat /\ a.attempt \in Nat
  BY DEF Attempts
<1>2. c.target \in Nat /\ c.attempt \in Nat /\ d.target \in Nat /\ d.attempt \in Nat
  BY CallTyped
<1>. QED
  BY <1>1, <1>2

\* The log of an open call to which an attempt is added.
LEMMA LoggedHolds ==
  ASSUME NEW c, CallHolds(c), c.state = "open", NEW outcome \in {"ok", "error", "refused"}, NEW usage \in Nat
  PROVE  LET attempt == Attempt(c, outcome, usage)
             log == Append(c.log, attempt)
         IN /\ attempt \in Attempts /\ attempt.call = c.call
            /\ log \in Seq(Attempts) /\ Distinct(log)
            /\ \A i \in DOMAIN log : log[i] \in Attempts /\ log[i].call = c.call /\ UpTo(log[i], c)
<1>. DEFINE attempt == Attempt(c, outcome, usage)
            log == Append(c.log, attempt)
            n == Len(c.log)
<1>1. c \in Calls /\ c.call \in Nat /\ c.target \in Nat /\ c.attempt \in Nat /\ c.log \in Seq(Attempts)
  BY CallTyped DEF CallHolds
<1>2. /\ attempt \in Attempts /\ attempt.call = c.call /\ attempt.target = c.target
      /\ attempt.attempt = c.attempt
  BY <1>1 DEF Attempt, Attempts
<1>. HIDE DEF attempt
<1>3. /\ log \in Seq(Attempts) /\ DOMAIN log = 1 .. n + 1 /\ DOMAIN c.log = 1 .. n /\ n \in Nat
      /\ log[n + 1] = attempt /\ \A i \in 1 .. n : log[i] = c.log[i] /\ log[i] \in Attempts
  BY <1>1, <1>2
<1>. HIDE DEF log, n
<1>4. \A i \in 1 .. n : log[i] \in Attempts /\ log[i].call = c.call /\ Before(log[i], c)
  BY <1>3 DEF CallHolds
<1>5. \A i \in 1 .. n : log[i] # attempt /\ UpTo(log[i], c)
  <2>1. ~ Before(attempt, c)
    BY <1>1, <1>2, Order
  <2>2. \A i \in 1 .. n : UpTo(log[i], c)
    BY <1>1, <1>4, Order
  <2>. QED
    BY <1>4, <2>1, <2>2, Zenon
<1>6. \A i \in 1 .. n + 1 : i \in 1 .. n \/ i = n + 1
  BY <1>3
<1>7. Distinct(log)
  <2>1. \A i, j \in 1 .. n : log[i] = log[j] => i = j
    BY <1>3 DEF CallHolds, Distinct
  <2>. QED
    BY <1>3, <1>5, <1>6, <2>1 DEF Distinct
<1>8. UpTo(attempt, c)
  BY <1>1, <1>2, Order
<1>9. \A i \in DOMAIN log : log[i] \in Attempts /\ log[i].call = c.call /\ UpTo(log[i], c)
  BY <1>2, <1>3, <1>4, <1>5, <1>6, <1>8
<1>. QED
  BY <1>2, <1>3, <1>7, <1>9 DEF log, attempt

\* What the provider says of an open call.
ProviderStep(y) ==
    \E i \in OpenCalls :
       LET c == execution.flight[i] IN
       \E outcome \in {"ok", "error", "refused"}, usage \in Nat : \E d :
          /\ y = [execution EXCEPT !.made = @ \cup {Attempt(c, outcome, usage)}, !.flight[i] = d]
          /\ CallHolds(d) /\ d.call = c.call
          /\ d.state # "refused" => d.log = Append(c.log, Attempt(c, outcome, usage))

\* Calls that follow an open one.
LEMMA AnsweredHolds ==
  ASSUME NEW c, CallHolds(c), c.state = "open", NEW usage \in Nat
  PROVE  LET d == [c EXCEPT !.log = Append(@, Attempt(c, "ok", usage)), !.state = "answered"]
         IN CallHolds(d) /\ d.call = c.call /\ d.log = Append(c.log, Attempt(c, "ok", usage))
<1>. DEFINE log == Append(c.log, Attempt(c, "ok", usage))
            d == [c EXCEPT !.log = log, !.state = "answered"]
<1>1. /\ log \in Seq(Attempts) /\ Distinct(log) /\ \A i \in DOMAIN log : log[i].call = c.call
  BY LoggedHolds
<1>. HIDE DEF log
<1>2. c \in Calls
  BY DEF CallHolds
<1>3. d \in Calls /\ d.call = c.call /\ d.log = log /\ d.state = "answered"
  BY <1>1, <1>2 DEF Calls
<1>. HIDE DEF d
<1>4. CallHolds(d)
  BY <1>1, <1>3 DEF CallHolds
<1>. QED
  BY <1>3, <1>4 DEF d, log

LEMMA RefusedHolds ==
  ASSUME NEW c, CallHolds(c)
  PROVE  LET d == [c EXCEPT !.log = <<>>, !.state = "refused"]
         IN CallHolds(d) /\ d.call = c.call /\ d.state = "refused"
<1>. DEFINE none == <<>>
            d == [c EXCEPT !.log = none, !.state = "refused"]
<1>1. c \in Calls /\ none \in Seq(Attempts) /\ Distinct(none) /\ DOMAIN none = {}
  BY DEF CallHolds, Distinct
<1>2. none = <<>>
  OBVIOUS
<1>. HIDE DEF none
<1>3. d \in Calls /\ d.call = c.call /\ d.log = none /\ d.state = "refused"
  BY <1>1 DEF Calls
<1>. HIDE DEF d
<1>4. CallHolds(d)
  BY <1>1, <1>2, <1>3 DEF CallHolds
<1>. QED
  BY <1>2, <1>3, <1>4 DEF d

LEMMA AgainHolds ==
  ASSUME NEW c, CallHolds(c), c.state = "open"
  PROVE  LET log == Append(c.log, Attempt(c, "error", 0))
             d == [[c EXCEPT !.log = log] EXCEPT !.attempt = 2]
         IN c.attempt = 1 => CallHolds(d) /\ d.call = c.call /\ d.log = log
<1>. SUFFICES ASSUME c.attempt = 1
              PROVE  LET log == Append(c.log, Attempt(c, "error", 0))
                         d == [[c EXCEPT !.log = log] EXCEPT !.attempt = 2]
                     IN CallHolds(d) /\ d.call = c.call /\ d.log = log
  OBVIOUS
<1>. DEFINE log == Append(c.log, Attempt(c, "error", 0))
            d == [[c EXCEPT !.log = log] EXCEPT !.attempt = 2]
<1>1. /\ log \in Seq(Attempts) /\ Distinct(log)
      /\ \A i \in DOMAIN log : log[i] \in Attempts /\ log[i].call = c.call /\ UpTo(log[i], c)
  BY LoggedHolds, Zenon
<1>. HIDE DEF log
<1>2. c \in Calls
  BY DEF CallHolds
<1>3. d \in Calls /\ d.call = c.call /\ d.log = log /\ d.state = "open" /\ d.target = c.target /\ d.attempt = 2
  BY <1>1, <1>2 DEF Calls
<1>. HIDE DEF d
<1>5. \A i \in DOMAIN log : Before(log[i], d)
  BY <1>1, <1>2, <1>3, Order
<1>6. CallHolds(d)
  BY <1>1, <1>3, <1>5 DEF CallHolds
<1>. QED
  BY <1>3, <1>6 DEF d, log

LEMMA NextTargetHolds ==
  ASSUME NEW c, CallHolds(c), c.state = "open"
  PROVE  LET log == Append(c.log, Attempt(c, "error", 0))
             d == [[c EXCEPT !.log = log] EXCEPT !.target = @ + 1, !.attempt = 1]
         IN CallHolds(d) /\ d.call = c.call /\ d.log = log
<1>. DEFINE log == Append(c.log, Attempt(c, "error", 0))
            d == [[c EXCEPT !.log = log] EXCEPT !.target = @ + 1, !.attempt = 1]
<1>1. /\ log \in Seq(Attempts) /\ Distinct(log)
      /\ \A i \in DOMAIN log : log[i] \in Attempts /\ log[i].call = c.call /\ UpTo(log[i], c)
  BY LoggedHolds, Zenon
<1>. HIDE DEF log
<1>2. c \in Calls /\ c.target \in Nat
  BY CallTyped DEF CallHolds
<1>3. /\ d \in Calls /\ d.call = c.call /\ d.log = log /\ d.state = "open" /\ d.target = c.target + 1
  <2>. DEFINE t == c.target + 1
  <2>1. t \in Nat /\ d = [c EXCEPT !.log = log, !.target = t, !.attempt = 1]
    BY <1>2 DEF Calls
  <2>. HIDE DEF t
  <2>2. [c EXCEPT !.log = log, !.target = t, !.attempt = 1] \in Calls
    BY <1>1, <1>2, <2>1 DEF Calls
  <2>. QED
    BY <1>2, <2>1, <2>2 DEF Calls, t
<1>. HIDE DEF d
<1>5. \A i \in DOMAIN log : Before(log[i], d)
  BY <1>1, <1>2, <1>3, Order
<1>6. CallHolds(d)
  BY <1>1, <1>3, <1>5 DEF CallHolds
<1>. QED
  BY <1>3, <1>6 DEF d, log

LEMMA ExhaustedHolds ==
  ASSUME NEW c, CallHolds(c), c.state = "open"
  PROVE  LET log == Append(c.log, Attempt(c, "error", 0))
             d == [[c EXCEPT !.log = log] EXCEPT !.state = "exhausted"]
         IN CallHolds(d) /\ d.call = c.call /\ d.log = log
<1>. DEFINE log == Append(c.log, Attempt(c, "error", 0))
            d == [[c EXCEPT !.log = log] EXCEPT !.state = "exhausted"]
<1>1. log \in Seq(Attempts) /\ Distinct(log) /\ \A i \in DOMAIN log : log[i].call = c.call
  BY LoggedHolds
<1>. HIDE DEF log
<1>2. c \in Calls
  BY DEF CallHolds
<1>3. d \in Calls /\ d.call = c.call /\ d.log = log /\ d.state = "exhausted"
  BY <1>1, <1>2 DEF Calls
<1>. HIDE DEF d
<1>4. CallHolds(d)
  BY <1>1, <1>3 DEF CallHolds
<1>. QED
  BY <1>3, <1>4 DEF d, log

LEMMA UndertakingLoaded ==
  ASSUME undertaking \in Undertakings
  PROVE  IsLoaded(undertaking) /\ IsFiniteSet(Rows)
BY ExecutionAssumption

LEMMA ProviderSteps ==
  ASSUME undertaking \in Undertakings, Audits(execution), Provider
  PROVE  ProviderStep(execution')
<1>1. PICK i \in OpenCalls : Errs(i) \/ Succeeds(i) \/ Refuses(i)
  BY DEF Provider
<1>. DEFINE c == execution.flight[i]
<1>2. i \in DOMAIN execution.flight /\ CallHolds(c) /\ c.state = "open"
  BY <1>1 DEF OpenCalls, Audits, FlightHolds
<1>. HIDE DEF c
<1>. DEFINE Becoming(outcome, usage, d) ==
              /\ execution' = [execution EXCEPT !.made = @ \cup {Attempt(c, outcome, usage)}, !.flight[i] = d]
              /\ CallHolds(d) /\ d.call = c.call
              /\ d.state # "refused" => d.log = Append(c.log, Attempt(c, outcome, usage))
<1>3. SUFFICES \E outcome \in {"ok", "error", "refused"}, usage \in Nat : \E d : Becoming(outcome, usage, d)
  BY <1>1, Zenon DEF ProviderStep, c
<1>4. CASE Errs(i)
  <2>. DEFINE logged == [c EXCEPT !.log = Append(@, Attempt(c, "error", 0))]
              again == [logged EXCEPT !.attempt = 2]
              next == [logged EXCEPT !.target = @ + 1, !.attempt = 1]
              exhausted == [logged EXCEPT !.state = "exhausted"]
  <2>1. \/ Asked(i, Attempt(c, "error", 0), again) /\ c.attempt = 1
        \/ Asked(i, Attempt(c, "error", 0), next)
        \/ Asked(i, Attempt(c, "error", 0), exhausted)
    BY <1>4 DEF Errs, c
  <2>2. logged = [c EXCEPT !.log = Append(c.log, Attempt(c, "error", 0))]
    OBVIOUS
  <2>3. c.attempt = 1 => CallHolds(again) /\ again.call = c.call /\ again.log = Append(c.log, Attempt(c, "error", 0))
    BY <1>2, <2>2, AgainHolds, Zenon
  <2>4. CallHolds(next) /\ next.call = c.call /\ next.log = Append(c.log, Attempt(c, "error", 0))
    BY <1>2, <2>2, NextTargetHolds, Zenon
  <2>5. CallHolds(exhausted) /\ exhausted.call = c.call /\ exhausted.log = Append(c.log, Attempt(c, "error", 0))
    BY <1>2, <2>2, ExhaustedHolds, Zenon
  <2>. HIDE DEF again, next, exhausted, logged
  <2>6. 0 \in Nat
    OBVIOUS
  <2>7. \E d : Becoming("error", 0, d)
    BY <2>1, <2>3, <2>4, <2>5, Zenon DEF Asked
  <2>. QED
    BY <2>6, <2>7, Zenon
<1>5. CASE Succeeds(i)
  <2>1. PICK usage \in undertaking.usage :
           Asked(i, Attempt(c, "ok", usage),
                 [c EXCEPT !.log = Append(@, Attempt(c, "ok", usage)), !.state = "answered"])
    BY <1>5 DEF Succeeds, c
  <2>2. usage \in Nat
    BY UndertakingLoaded DEF IsLoaded
  <2>. DEFINE d == [c EXCEPT !.log = Append(@, Attempt(c, "ok", usage)), !.state = "answered"]
  <2>3. CallHolds(d) /\ d.call = c.call /\ d.log = Append(c.log, Attempt(c, "ok", usage))
    BY <1>2, <2>2, AnsweredHolds, Zenon
  <2>. HIDE DEF d
  <2>4. Becoming("ok", usage, d)
    BY <2>1, <2>3 DEF Asked, d
  <2>. QED
    BY <2>2, <2>4, Zenon
<1>6. CASE Refuses(i)
  <2>. DEFINE d == [c EXCEPT !.log = <<>>, !.state = "refused"]
  <2>1. Asked(i, Attempt(c, "refused", 0), d)
    BY <1>6 DEF Refuses, c
  <2>2. CallHolds(d) /\ d.call = c.call /\ d.state = "refused"
    BY <1>2, RefusedHolds, Zenon
  <2>. HIDE DEF d
  <2>3. Becoming("refused", 0, d) /\ 0 \in Nat
    BY <2>1, <2>2 DEF Asked
  <2>. QED
    BY <2>3, Zenon
<1>. QED
  BY <1>1, <1>4, <1>5, <1>6

\* Only what the audit is about changes.
LEMMA ProviderFields ==
  ASSUME undertaking \in Undertakings, Audits(execution), Provider
  PROVE  /\ Audits(execution') /\ SameValues(execution, execution')
         /\ execution'.phase = execution.phase /\ execution'.evidence = execution.evidence
<1>. DEFINE x == execution
<1>. DEFINE Becoming(i, outcome, usage, d) ==
         /\ execution' = [x EXCEPT !.made = @ \cup {Attempt(x.flight[i], outcome, usage)}, !.flight[i] = d]
         /\ CallHolds(d) /\ d.call = x.flight[i].call
         /\ d.state # "refused" => d.log = Append(x.flight[i].log, Attempt(x.flight[i], outcome, usage))
<1>0. PICK i \in OpenCalls, outcome \in {"ok", "error", "refused"}, usage \in Nat : \E d : Becoming(i, outcome, usage, d)
  BY ProviderSteps DEF ProviderStep
<1>1. PICK d : Becoming(i, outcome, usage, d)
  BY <1>0
<1>. DEFINE attempt == Attempt(x.flight[i], outcome, usage)
<1>2. i \in DOMAIN x.flight /\ CallHolds(x.flight[i]) /\ x.flight[i].state = "open"
  BY <1>1 DEF OpenCalls, Audits, FlightHolds
<1>3. attempt \in Attempts /\ attempt.call = x.flight[i].call
  BY <1>2, LoggedHolds, Zenon
<1>. HIDE DEF attempt
<1>4. execution' = [x EXCEPT !.made = @ \cup {attempt}, !.flight[i] = d]
  BY <1>1 DEF attempt
<1>5. Audits([x EXCEPT !.made = @ \cup {attempt}, !.flight[i] = d])
  <2>1. d.state # "refused" => d.log = Append(x.flight[i].log, attempt)
    BY <1>1 DEF attempt
  <2>2. x.flight[i].state # "refused"
    BY <1>2
  <2>. QED
    BY <1>1, <1>2, <1>3, <2>1, <2>2, AskedAudits
<1>6. /\ SameValues(x, execution') /\ execution'.phase = x.phase /\ execution'.evidence = x.evidence
  BY <1>4 DEF SameValues, Audits, IsExecution, Fields
<1>. QED
  BY <1>4, <1>5, <1>6

LEMMA JudgingAudits ==
  ASSUME NEW x, Audits(x), x.flight = <<>>, NEW items \in Nat, NEW y,
         y = [x EXCEPT !.phase = "judging", !.judgments = @ + items,
                       !.flight = [i \in 1 .. items |-> Call(NextCall(x) + i - 1)]]
  PROVE  /\ Audits(y) /\ SameValues(x, y) /\ y.phase = "judging" /\ y.evidence = x.evidence
<1>. DEFINE calls == [i \in 1 .. items |-> Call(NextCall(x) + i - 1)]
            total == x.judgments + items
<1>0. x.calls \in Nat /\ x.judgments \in Nat /\ IsExecution(x)
  BY DEF Audits, AuditHolds
<1>1. NextCall(x) = x.calls + x.judgments + 1 /\ NextCall(x) \in Nat
  BY <1>0 DEF NextCall
<1>2. \A i \in 1 .. items : NextCall(x) + i - 1 \in Nat
  BY <1>0, <1>1
<1>3. \A i \in 1 .. items : calls[i] \in Calls /\ calls[i].call = NextCall(x) + i - 1
                            /\ calls[i] = Call(NextCall(x) + i - 1)
  BY <1>2, CallIs
<1>4. calls \in Seq(Calls) /\ DOMAIN calls = 1 .. items
  BY <1>3
<1>. HIDE DEF calls, total
<1>5. /\ IsExecution(y) /\ SameAudit(x, y) /\ y.cut = x.cut /\ y.calls = x.calls
      /\ y.judgments = total /\ y.flight = calls /\ y.phase = "judging" /\ y.evidence = x.evidence
      /\ SameValues(x, y)
  BY <1>0 DEF IsExecution, Fields, SameAudit, SameValues, calls, total
<1>6. /\ total \in Nat /\ x.calls + x.judgments <= y.calls + total
      /\ \A i \in DOMAIN calls : /\ calls[i].call <= y.calls + total
                                  /\ x.calls + x.judgments < calls[i].call
      /\ \A i, j \in DOMAIN calls : calls[i].call = calls[j].call => i = j
  <2>1. total = x.judgments + items
    BY DEF total
  <2>. QED
    BY <1>0, <1>1, <1>3, <1>4, <1>5, <2>1
<1>7. Begun(x, y)
  <2>1. \A i \in DOMAIN calls : calls[i] = Call(calls[i].call)
    BY <1>3, <1>4, Zenon
  <2>2. y.calls \in Nat /\ y.phase \in {"asking", "judging"}
    BY <1>0, <1>5
  <2>3. y.flight = calls /\ y.judgments = total
    BY <1>5
  <2>4. /\ y.flight \in Seq(Calls) /\ y.judgments \in Nat /\ x.calls + x.judgments <= y.calls + y.judgments
        /\ \A i \in DOMAIN y.flight : y.flight[i] = Call(y.flight[i].call)
    BY <1>4, <1>6, <2>1, <2>3, Zenon
  <2>5. /\ \A i \in DOMAIN y.flight : /\ y.flight[i].call <= y.calls + y.judgments
                                      /\ x.calls + x.judgments < y.flight[i].call
        /\ \A i, j \in DOMAIN y.flight : y.flight[i].call = y.flight[j].call => i = j
    BY <1>6, <2>3, Zenon
  <2>. QED
    BY <1>5, <2>2, <2>4, <2>5 DEF Begun
<1>. QED
  BY <1>5, <1>7, BegunAudits

-----------------------------------------------------------------------------
(* Values and what they come from.                                         *)

LEMMA LoadedTasks ==
  ASSUME undertaking \in Undertakings
  PROVE  /\ Len(undertaking.tasks) \in 0 .. 3 /\ DOMAIN undertaking.tasks = 1 .. Len(undertaking.tasks)
         /\ \A i \in DOMAIN undertaking.tasks : undertaking.tasks[i] \in Tasks
         /\ undertaking.emit \in NamesBefore(Len(undertaking.tasks) + 1)
<1>1. Len(TaskNames) = 3
  BY DEF TaskNames
<1>2. /\ undertaking.tasks \in Seq(Tasks) /\ Len(undertaking.tasks) <= Len(TaskNames)
      /\ undertaking.emit \in NamesBefore(Len(undertaking.tasks) + 1)
  BY UndertakingLoaded DEF IsLoaded
<1>3. \A n \in Nat : n <= 3 => n \in 0 .. 3
  OBVIOUS
<1>4. Len(undertaking.tasks) \in Nat /\ DOMAIN undertaking.tasks = 1 .. Len(undertaking.tasks)
      /\ \A i \in DOMAIN undertaking.tasks : undertaking.tasks[i] \in Tasks
  BY <1>2
<1>. QED
  BY <1>1, <1>2, <1>3, <1>4, Zenon

LEMMA NamesGrow ==
  ASSUME NEW n \in Nat
  PROVE  NamesBefore(n + 2) = NamesBefore(n + 1) \cup {TaskNames[n + 1]}
<1>1. 1 .. (n + 2) - 1 = 1 .. (n + 1) - 1 \cup {n + 1}
  OBVIOUS
<1>. QED
  BY <1>1 DEF NamesBefore

\* The task that is due.
Due(x) == x.phase \in AtTask /\ x.done < Len(undertaking.tasks)

LEMMA DueTask ==
  ASSUME undertaking \in Undertakings, NEW x, LineageHolds(x), Due(x)
  PROVE  /\ x.done \in Nat /\ x.done + 1 \in DOMAIN undertaking.tasks /\ Task(x) \in Tasks
         /\ Task(x).config \cup Task(x).input \cup Task(x).templates \subseteq DOMAIN x.values
         /\ Task(x).use \in {"llm", "search"} => Task(x).input = {}
         /\ NamesBefore(x.done + 1) \subseteq DOMAIN x.values
<1>1. x.done \in Nat /\ x.done + 1 \in DOMAIN undertaking.tasks
  BY LoadedTasks DEF LineageHolds, Due
<1>2. Task(x) = undertaking.tasks[x.done + 1] /\ Task(x) \in Tasks
  BY <1>1, LoadedTasks DEF Task
<1>3. /\ Task(x).config \cup Task(x).input \cup Task(x).templates \subseteq NamesBefore(x.done + 1)
      /\ Task(x).use \in {"llm", "search"} => Task(x).input = {}
  BY <1>1, <1>2, UndertakingLoaded DEF IsLoaded
<1>4. NamesBefore(x.done + 1) \subseteq DOMAIN x.values
  BY DEF LineageHolds, Due
<1>. QED
  BY <1>1, <1>2, <1>3, <1>4

\* What holds of values holds of what is put together from them.
LEMMA GivenHolds ==
  ASSUME NEW x, LineageHolds(x), NEW names, names \subseteq DOMAIN x.values
  PROVE  /\ HandlesIn(x, names) \subseteq Rows /\ From(x, names) \subseteq Rows
         /\ CitableIn(x, names) \subseteq From(x, names)
         /\ Walks \/ From(x, names) \subseteq x.visible
<1>1. \A n \in names : ValueHolds(x.values[n], x.visible)
  BY DEF LineageHolds
<1>. QED
  BY <1>1 DEF HandlesIn, CitableIn, From, ValueHolds

\* The task that was due has its value.
LEMMA BoundLineage ==
  ASSUME undertaking \in Undertakings, NEW x, LineageHolds(x), Due(x), NEW z, IsExecution(z),
         z.values = x.values, z.done = x.done, z.output = x.output, x.visible \subseteq z.visible,
         NEW value, ValueHolds(value, z.visible)
  PROVE  LineageHolds(Bound(z, value))
<1>. DEFINE y == Bound(z, value)
            name == TaskNames[x.done + 1]
<1>1. /\ y.phase = "tasks" /\ y.done = x.done + 1 /\ y.visible = z.visible /\ y.output = x.output
      /\ y.evidence = {} /\ y.values = Given(x.values, name, value)
  BY BoundFields
<1>2. x.done \in Nat /\ x.done + 1 \in 0 .. Len(undertaking.tasks) /\ NamesBefore(x.done + 1) \subseteq DOMAIN x.values
  BY DueTask, LoadedTasks DEF LineageHolds, Due
<1>. HIDE DEF y, name
<1>3. /\ DOMAIN y.values = DOMAIN x.values \cup {name}
      /\ y.values[name] = value /\ \A n \in DOMAIN x.values : n # name => y.values[n] = x.values[n]
  BY <1>1 DEF Given
<1>4. \A n \in DOMAIN y.values : ValueHolds(y.values[n], y.visible)
  <2>1. \A n \in DOMAIN x.values : ValueHolds(x.values[n], y.visible)
    BY <1>1 DEF LineageHolds, ValueHolds
  <2>. QED
    BY <1>1, <1>3, <2>1
<1>5. NamesBefore(y.done + 1) \subseteq DOMAIN y.values
  <2>1. NamesBefore(x.done + 2) = NamesBefore(x.done + 1) \cup {name} /\ y.done + 1 = x.done + 2
    BY <1>1, <1>2, NamesGrow DEF name
  <2>. QED
    BY <1>2, <1>3, <2>1
<1>6. OutputHolds(y.output, y.visible)
  BY <1>1 DEF LineageHolds, OutputHolds
<1>7. LineageHolds(y)
  BY <1>1, <1>2, <1>4, <1>5, <1>6 DEF LineageHolds
<1>. QED
  BY <1>7 DEF y

\* Nothing of it changes, and a task that is due may be under way.
LEMMA SameLineage ==
  ASSUME NEW x, LineageHolds(x), NEW y, SameValues(x, y), y.evidence \subseteq Rows,
         \/ y.phase \in {"failed", "commit"}
         \/ y.phase = "judging" /\ Due(x)
         \/ y.phase = "asking" /\ Due(x) /\ Task(x).use \in {"llm", "answer"}
  PROVE  LineageHolds(y)
<1>1. Task(y) = Task(x)
  BY DEF Task, SameValues
<1>. QED
  BY <1>1 DEF LineageHolds, SameValues, Due, AtTask

LEMMA FailedLineage ==
  ASSUME NEW x, LineageHolds(x), IsExecution(x), NEW kind
  PROVE  LineageHolds(Failed(x, kind))
<1>. DEFINE y == Failed(x, kind)
<1>1. SameValues(x, y) /\ y.evidence = x.evidence /\ y.phase = "failed"
  BY FailedFields
<1>2. x.evidence \subseteq Rows
  BY DEF LineageHolds
<1>. HIDE DEF y
<1>3. LineageHolds(y)
  BY <1>1, <1>2, SameLineage
<1>. QED
  BY <1>3 DEF y

\* The model is asked, or a budget is spent.
LEMMA SubmitLineage ==
  ASSUME undertaking \in Undertakings, NEW x, NEW z, LineageHolds(x), Due(x), IsExecution(z), SameValues(x, z),
         z.evidence \subseteq Rows, Task(x).use \in {"llm", "answer"}
  PROVE  LineageHolds(Submit(z))
<1>. DEFINE y == Submit(z)
<1>1. /\ SameValues(x, y) /\ y.evidence = z.evidence
      /\ y.phase = "failed" \/ y.phase = "asking"
  <2>1. CASE y = Failed(z, BudgetKind(z))
    BY <2>1, FailedFields DEF SameValues
  <2>2. CASE y = Failed([z EXCEPT !.calls = @ + 1], BudgetKind(z))
    <3>. DEFINE w == [z EXCEPT !.calls = @ + 1]
    <3>1. IsExecution(w) /\ SameValues(z, w) /\ w.evidence = z.evidence
      BY DEF IsExecution, Fields, SameValues
    <3>. HIDE DEF w
    <3>2. SameValues(w, Failed(w, BudgetKind(z))) /\ Failed(w, BudgetKind(z)).evidence = w.evidence
          /\ Failed(w, BudgetKind(z)).phase = "failed"
      BY <3>1, FailedFields
    <3>3. y = Failed(w, BudgetKind(z))
      BY <2>2 DEF w
    <3>. HIDE DEF y
    <3>. QED
      BY <3>1, <3>2, <3>3 DEF SameValues
  <2>3. CASE y = [z EXCEPT !.phase = "asking", !.calls = @ + 1, !.flight = <<Call(NextCall(z))>>]
    <3>. HIDE DEF y
    <3>. QED
      BY <2>3 DEF IsExecution, Fields, SameValues
  <2>. QED
    BY <2>1, <2>2, <2>3 DEF Submit
<1>. HIDE DEF y
<1>2. LineageHolds(y)
  BY <1>1, SameLineage
<1>. QED
  BY <1>2 DEF y

\* One hit after the other becomes visible and evidence.
Grown(x, y) ==
    /\ IsExecution(y) /\ SameCounts(x, y) /\ y.cut = x.cut /\ y.flight = x.flight
    /\ y.phase = x.phase /\ y.values = x.values /\ y.done = x.done /\ y.output = x.output
    /\ x.visible \subseteq y.visible /\ y.evidence \subseteq x.evidence \cup (y.visible \cap kept)

LEMMA RetrievedGrows ==
  ASSUME NEW x, NEW y, Grown(x, y), NEW hits
  PROVE  Grown(x, Retrieved(y, hits))
<1>1. PICK taken : /\ Retrieved(y, hits) = [y EXCEPT !.visible = @ \cup taken, !.retrieved = @ + Cardinality(taken),
                                                     !.evidence = @ \cup taken]
                   /\ taken \subseteq kept
  BY DEF Retrieved, Longest, Existing
<1>. DEFINE v == y.visible \cup taken
            e == y.evidence \cup taken
            n == y.retrieved + Cardinality(taken)
            z == [y EXCEPT !.visible = v, !.retrieved = n, !.evidence = e]
<1>2. Retrieved(y, hits) = z
  BY <1>1
<1>. HIDE DEF v, e, n
<1>3. /\ IsExecution(z) /\ SameCounts(y, z) /\ z.cut = y.cut /\ z.flight = y.flight
      /\ z.phase = y.phase /\ z.values = y.values /\ z.done = y.done /\ z.output = y.output
      /\ z.visible = v /\ z.evidence = e
  BY DEF Grown, IsExecution, Fields, SameCounts, SameAudit
<1>. HIDE DEF z
<1>. QED
  BY <1>1, <1>2, <1>3 DEF Grown, SameCounts, SameAudit, v, e

LEMMA AllRetrievedGrows ==
  ASSUME NEW x, IsExecution(x), NEW found, Len(found) \in Nat
  PROVE  Grown(x, AllRetrieved(x, found))
<1>. DEFINE n == Len(found)
            f == CHOOSE g : RetrievesTo(g, x, found, n)
<1>1. RetrievesTo(f, x, found, n)
  BY RetrievesExist, Zenon
<1>2. AllRetrieved(x, found) = f[n]
  BY Zenon DEF AllRetrieved, RetrievesTo
<1>3. n \in Nat
  OBVIOUS
<1>. HIDE DEF f, n
<1>4. \A k \in 0 .. n : f[k] = IF k = 0 THEN x ELSE Retrieved(f[k - 1], found[k])
  BY <1>1, Zenon DEF RetrievesTo
<1>. DEFINE S == {k \in Nat : k <= n => Grown(x, f[k])}
<1>5. 0 \in S
  <2>1. f[0] = x
    BY <1>3, <1>4
  <2>2. Grown(x, x)
    BY DEF Grown, SameCounts, SameAudit
  <2>. QED
    BY <2>1, <2>2
<1>6. ASSUME NEW k \in 0 .. n - 1, k \in S
      PROVE  k + 1 \in S
  <2>1. k <= n /\ k + 1 \in 0 .. n /\ k + 1 # 0 /\ (k + 1) - 1 = k /\ k + 1 \in Nat
    BY <1>3
  <2>2. f[k + 1] = Retrieved(f[k], found[k + 1])
    BY <1>4, <2>1
  <2>3. Grown(x, f[k])
    BY <1>6, <2>1
  <2>. QED
    BY <2>1, <2>2, <2>3, RetrievedGrows
<1>7. n \in S
  <2>. HIDE DEF S
  <2>. QED
    BY <1>3, <1>5, <1>6, Inducts, Zenon
<1>. QED
  BY <1>2, <1>3, <1>7

-----------------------------------------------------------------------------
(* The steps.                                                              *)

LEMMA AtWork ==
  ASSUME ExecutionInv, execution.phase # "idle"
  PROVE  /\ undertaking \in Undertakings /\ kept \subseteq Rows /\ IsExecution(execution)
         /\ Audits(execution) /\ LineageHolds(execution)
         /\ execution.phase \notin {"asking", "judging"} => execution.flight = <<>>
<1>1. Audits(execution) /\ LineageHolds(execution)
  BY DEF ExecutionInv
<1>. QED
  BY <1>1 DEF ExecutionInv, Audits, FlightHolds

\* Only the execution changes.
LEMMA AdvancesKeep ==
  ASSUME ExecutionInv, NEW y, execution' = y, UNCHANGED <<undertaking, kept, stored>>,
         Audits(y), LineageHolds(y)
  PROVE  ExecutionInv'
<1>1. LineageHolds(execution)'
  BY DEF LineageHolds, ValueHolds, OutputHolds, Walks, Task
<1>2. \A run \in stored' : RunHolds(run)'
  BY DEF ExecutionInv, RunHolds, OutputHolds, Walks
<1>. QED
  BY <1>1, <1>2 DEF ExecutionInv

LEMMA BecomesKeeps ==
  ASSUME ExecutionInv, NEW y, Becomes(y), Audits(y), LineageHolds(y)
  PROVE  ExecutionInv'
BY AdvancesKeep DEF Becomes

\* z is x or has more in view.
Widened(x, z) ==
    /\ z.values = x.values /\ z.done = x.done /\ z.output = x.output /\ x.visible \subseteq z.visible

LEMMA BoundHolds ==
  ASSUME undertaking \in Undertakings, NEW x, LineageHolds(x), Due(x), NEW z, Audits(z), z.flight = <<>>,
         Widened(x, z), NEW value, ValueHolds(value, z.visible)
  PROVE  Audits(Bound(z, value)) /\ LineageHolds(Bound(z, value))
<1>1. IsExecution(z)
  BY DEF Audits
<1>2. LineageHolds(Bound(z, value))
  BY <1>1, BoundLineage DEF Widened
<1>3. /\ IsExecution(Bound(z, value)) /\ SameCounts(z, Bound(z, value))
      /\ Bound(z, value).cut = z.cut /\ Bound(z, value).flight = <<>>
  BY <1>1, BoundFields
<1>4. Audits(Bound(z, value))
  BY <1>3, QuietAudits
<1>. QED
  BY <1>2, <1>4

LEMMA FailedHolds ==
  ASSUME NEW x, Audits(x), LineageHolds(x), NEW kind
  PROVE  Audits(Failed(x, kind)) /\ LineageHolds(Failed(x, kind))
BY FailedAudits, FailedLineage DEF Audits

LEMMA FreshAudits == Audits(Fresh)
<1>1. <<>> \in Seq(Calls) /\ <<>> \in Seq(Attempts) /\ DOMAIN <<>> = {} /\ ToSet(<<>>) = {} /\ Distinct(<<>>)
  BY DEF ToSet, Distinct
<1>2. UsedBy(<<>>) = 0
  BY <1>1, UsedAdds
<1>3. CallsOf(Fresh) = {} /\ Numbered(Fresh) = 0 .. 0
  BY <1>1, FreshFields DEF CallsOf, Numbered
<1>4. FlightHolds(Fresh)
  BY <1>1, FreshFields DEF FlightHolds
<1>5. AuditHolds(Fresh)
  BY <1>1, <1>2, <1>3, FreshFields DEF AuditHolds
<1>. QED
  BY <1>4, <1>5, FreshFields DEF Audits

LEMMA BeginsKeeps ==
  ASSUME ExecutionInv, Begins
  PROVE  ExecutionInv'
<1>. DEFINE y == Opened
<1>0. /\ undertaking' = undertaking /\ kept' = kept /\ stored' = stored /\ execution' = y
      /\ kept \subseteq Rows
  BY DEF Begins, ExecutionInv
<1>1. IsExecution(Fresh)
  BY FreshFields
<1>. DEFINE others == undertaking.reads \cap kept
            packed == Packed(others)
<1>2. others \subseteq Rows /\ packed \subseteq Rows
  <2>1. packed \subseteq kept
    BY DEF Packed, Longest, Existing
  <2>. QED
    BY <1>0, <2>1
<1>. HIDE DEF packed, others
<1>3. Audits(y) /\ LineageHolds(y)
  <2>1. CASE y = Failed(Fresh, "budget")
    <3>1. /\ y.phase = "failed" /\ SameValues(Fresh, y) /\ y.evidence = {}
      BY <1>1, <2>1, FailedFields, FreshFields
    <3>. HIDE DEF y
    <3>2. LineageHolds(y)
      <4>1. DOMAIN y.values = {} /\ y.done = 0 /\ y.output = NoOutput /\ 0 \in 0 .. Len(undertaking.tasks)
        BY <3>1, FreshFields, LoadedTasks DEF SameValues, ExecutionInv
      <4>. QED
        BY <3>1, <4>1 DEF LineageHolds, OutputHolds, NoOutput, AtTask
    <3>. QED
      BY <2>1, <3>2, FreshAudits, FailedAudits
  <2>2. CASE y = [Fresh EXCEPT !.phase = "commit"]
    <3>. HIDE DEF y
    <3>1. /\ IsExecution(y) /\ y.phase = "commit" /\ SameValues(Fresh, y) /\ SameCounts(Fresh, y)
          /\ y.cut = Fresh.cut /\ y.flight = <<>> /\ y.evidence = {}
      BY <1>1, <2>2, FreshFields DEF IsExecution, Fields, SameValues, SameCounts, SameAudit
    <3>2. DOMAIN y.values = {} /\ y.done = 0 /\ y.output = NoOutput /\ 0 \in 0 .. Len(undertaking.tasks)
      BY <3>1, FreshFields, LoadedTasks DEF SameValues, ExecutionInv
    <3>3. LineageHolds(y)
      BY <3>1, <3>2 DEF LineageHolds, OutputHolds, NoOutput, AtTask
    <3>. QED
      BY <3>1, <3>3, FreshAudits, FreshFields, QuietAudits
  <2>3. CASE y = [Fresh EXCEPT !.visible = others \cup packed, !.read = others \cup packed,
                               !.values = [driver |-> OfRows(packed), reads |-> OfRows(others)]]
    <3>. DEFINE v == others \cup packed
                w == [driver |-> OfRows(packed), reads |-> OfRows(others)]
    <3>1. y = [Fresh EXCEPT !.visible = v, !.read = v, !.values = w]
      BY <2>3
    <3>2. DOMAIN w = {"driver", "reads"} /\ w["driver"] = OfRows(packed) /\ w["reads"] = OfRows(others)
      OBVIOUS
    <3>. HIDE DEF y, v, w
    <3>3. /\ IsExecution(y) /\ y.phase = "views" /\ y.values = w /\ y.visible = v /\ SameCounts(Fresh, y)
          /\ y.cut = Fresh.cut /\ y.flight = <<>> /\ y.evidence = {} /\ y.done = 0 /\ y.output = NoOutput
      BY <1>1, <3>1, FreshFields DEF IsExecution, Fields, SameCounts, SameAudit
    <3>4. \A n \in DOMAIN y.values : ValueHolds(y.values[n], y.visible)
      <4>1. ValueHolds(OfRows(packed), v) /\ ValueHolds(OfRows(others), v)
        BY <1>2 DEF ValueHolds, OfRows, Holds, v
      <4>. QED
        BY <3>2, <3>3, <4>1
    <3>5. 0 \in 0 .. Len(undertaking.tasks)
      BY LoadedTasks DEF ExecutionInv
    <3>6. OutputHolds(NoOutput, v)
      BY DEF OutputHolds, NoOutput
    <3>7. LineageHolds(y)
      BY <3>2, <3>3, <3>4, <3>5, <3>6 DEF LineageHolds, AtTask
    <3>. QED
      BY <3>3, <3>7, FreshAudits, FreshFields, QuietAudits
  <2>. QED
    BY <2>1, <2>2, <2>3 DEF Opened, others, packed
<1>. HIDE DEF y
<1>4. LineageHolds(execution)'
  BY <1>0, <1>3 DEF LineageHolds, ValueHolds, OutputHolds, Walks, Task
<1>5. \A run \in stored' : RunHolds(run)'
  BY <1>0 DEF ExecutionInv, RunHolds, OutputHolds, Walks
<1>. QED
  BY <1>0, <1>3, <1>4, <1>5 DEF ExecutionInv

LEMMA ReadViewsKeeps ==
  ASSUME ExecutionInv, ReadViews
  PROVE  ExecutionInv'
<1>. DEFINE x == execution
<1>1. PICK shown : /\ shown \subseteq kept
                   /\ Becomes([x EXCEPT !.phase = "tasks", !.visible = @ \cup shown, !.read = @ \cup shown,
                                        !.values = Given(@, "view", OfRows(shown))])
  BY DEF ReadViews, Longest, Existing
<1>2. /\ x.phase = "views" /\ undertaking \in Undertakings /\ kept \subseteq Rows /\ IsExecution(x)
      /\ Audits(x) /\ LineageHolds(x) /\ x.flight = <<>>
  BY AtWork DEF ReadViews, Working
<1>. DEFINE v == x.visible \cup shown
            r == x.read \cup shown
            w == Given(x.values, "view", OfRows(shown))
            y == [x EXCEPT !.phase = "tasks", !.visible = v, !.read = r, !.values = w]
<1>3. Becomes(y)
  BY <1>1
<1>4. /\ DOMAIN w = DOMAIN x.values \cup {"view"} /\ w["view"] = OfRows(shown)
      /\ \A n \in DOMAIN x.values : n # "view" => w[n] = x.values[n]
  BY DEF Given
<1>. HIDE DEF v, r, w
<1>5. /\ IsExecution(y) /\ y.phase = "tasks" /\ y.values = w /\ y.visible = v /\ SameCounts(x, y)
      /\ y.cut = x.cut /\ y.flight = <<>> /\ y.evidence = x.evidence /\ y.done = x.done /\ y.output = x.output
  BY <1>2 DEF IsExecution, Fields, SameCounts, SameAudit
<1>. HIDE DEF y
<1>6. Audits(y)
  BY <1>2, <1>5, QuietAudits
<1>7. \A n \in DOMAIN y.values : ValueHolds(y.values[n], y.visible)
  <2>1. ValueHolds(OfRows(shown), v)
    BY <1>1, <1>2 DEF ValueHolds, OfRows, Holds, v
  <2>2. \A n \in DOMAIN x.values : ValueHolds(x.values[n], v)
    BY <1>2 DEF LineageHolds, ValueHolds, v
  <2>. QED
    BY <1>4, <1>5, <2>1, <2>2
<1>8. NamesBefore(y.done + 1) \subseteq DOMAIN y.values
  <2>1. x.done = 0 /\ {"driver", "reads"} \subseteq DOMAIN x.values
    BY <1>2 DEF LineageHolds
  <2>2. NamesBefore(1) = {"driver", "reads", "view"}
    BY DEF NamesBefore
  <2>. QED
    BY <1>4, <1>5, <2>1, <2>2
<1>9. OutputHolds(y.output, y.visible)
  BY <1>2, <1>5 DEF LineageHolds, OutputHolds, v
<1>10. LineageHolds(y)
  BY <1>2, <1>5, <1>7, <1>8, <1>9 DEF LineageHolds
<1>. QED
  BY <1>3, <1>6, <1>10, BecomesKeeps

\* The task that is due, and what it is given.
LEMMA DueHolds ==
  ASSUME ExecutionInv, NEW use, Comes(use)
  PROVE  LET x == execution IN
         /\ undertaking \in Undertakings /\ kept \subseteq Rows /\ IsExecution(x)
         /\ Audits(x) /\ LineageHolds(x) /\ Due(x) /\ x.flight = <<>> /\ x.evidence = {}
         /\ x.phase = "tasks" /\ Task(x).use = use
         /\ x.done + 1 \in DOMAIN undertaking.tasks /\ Task(x) \in Tasks
         /\ Task(x).config \cup Task(x).input \cup Task(x).templates \subseteq DOMAIN x.values
         /\ Task(x).use \in {"llm", "search"} => Task(x).input = {}
<1>1. /\ execution.phase = "tasks" /\ execution.done < Len(undertaking.tasks)
      /\ Task(execution).use = use
  BY DEF Comes, Working
<1>2. /\ undertaking \in Undertakings /\ kept \subseteq Rows /\ IsExecution(execution)
      /\ Audits(execution) /\ LineageHolds(execution) /\ execution.flight = <<>>
  BY <1>1, AtWork
<1>3. Due(execution) /\ execution.evidence = {}
  BY <1>1, <1>2 DEF Due, AtTask, LineageHolds
<1>4. /\ execution.done + 1 \in DOMAIN undertaking.tasks /\ Task(execution) \in Tasks
      /\ Task(execution).config \cup Task(execution).input \cup Task(execution).templates
            \subseteq DOMAIN execution.values
      /\ Task(execution).use \in {"llm", "search"} => Task(execution).input = {}
  BY <1>2, <1>3, DueTask
<1>. QED
  BY <1>1, <1>2, <1>3, <1>4

LEMMA FailsKeep ==
  ASSUME ExecutionInv, execution.phase # "idle", NEW kind, Becomes(Failed(execution, kind))
  PROVE  ExecutionInv'
<1>1. Audits(execution) /\ LineageHolds(execution)
  BY AtWork
<1>. QED
  BY <1>1, FailedHolds, BecomesKeeps

LEMMA RetrieveKeeps ==
  ASSUME ExecutionInv, Retrieve
  PROVE  ExecutionInv'
<1>. DEFINE x == execution
            task == Task(x)
            read == AllRetrieved(x, task.found)
            value == Holds(From(x, task.config) \cup read.evidence, SourcesOf(x, Named(task)) \cup read.evidence,
                           HandlesIn(x, task.config) \cup read.evidence, read.evidence)
<1>1. Comes("search") /\ Becomes(Bound(read, value))
  BY DEF Retrieve
<1>2. /\ undertaking \in Undertakings /\ kept \subseteq Rows /\ IsExecution(x)
      /\ Audits(x) /\ LineageHolds(x) /\ Due(x) /\ x.flight = <<>> /\ x.evidence = {}
      /\ task \in Tasks /\ task.config \subseteq DOMAIN x.values
  BY <1>1, DueHolds
<1>3. Len(task.found) \in Nat
  <2>1. task.found \in Seq(Seq(Rows))
    BY <1>2 DEF Tasks
  <2>. QED
    BY <2>1
<1>4. Grown(x, read)
  BY <1>2, <1>3, AllRetrievedGrows
<1>. HIDE DEF read
<1>5. Audits(read) /\ read.flight = <<>> /\ Widened(x, read)
  BY <1>2, <1>4, QuietAudits DEF Grown, Widened
<1>6. read.evidence \subseteq read.visible /\ read.evidence \subseteq Rows
  BY <1>2, <1>4 DEF Grown
<1>7. /\ HandlesIn(x, task.config) \subseteq Rows /\ From(x, task.config) \subseteq Rows
      /\ Walks \/ From(x, task.config) \subseteq read.visible
  <2>1. x.visible \subseteq read.visible
    BY <1>5 DEF Widened
  <2>. QED
    BY <1>2, <2>1, GivenHolds
<1>8. ValueHolds(value, read.visible)
  <2>1. /\ value.ids = HandlesIn(x, task.config) \cup read.evidence /\ value.cites = read.evidence
        /\ value.from = From(x, task.config) \cup read.evidence
    BY DEF Holds
  <2>. HIDE DEF value
  <2>. QED
    BY <1>6, <1>7, <2>1 DEF ValueHolds
<1>. HIDE DEF value
<1>9. Audits(Bound(read, value)) /\ LineageHolds(Bound(read, value))
  BY <1>2, <1>5, <1>8, BoundHolds
<1>. QED
  BY <1>1, <1>9, BecomesKeeps

LEMMA WalkKeeps ==
  ASSUME ExecutionInv, Walk
  PROVE  ExecutionInv'
<1>. DEFINE x == execution
            edges == Existing(Task(x).found[1])
            value == Holds(From(x, Named(Task(x))) \cup edges, SourcesOf(x, Named(Task(x))) \cup edges, edges, edges)
<1>1. Comes("graph") /\ Becomes(Bound(x, value))
  BY DEF Walk
<1>2. /\ undertaking \in Undertakings /\ kept \subseteq Rows /\ IsExecution(x)
      /\ Audits(x) /\ LineageHolds(x) /\ Due(x) /\ x.flight = <<>>
      /\ x.done + 1 \in DOMAIN undertaking.tasks /\ Task(x).use = "graph"
  BY <1>1, DueHolds
<1>3. Walks
  BY <1>2 DEF Walks, Task
<1>4. ValueHolds(value, x.visible)
  <2>1. edges \subseteq Rows /\ From(x, Named(Task(x))) \subseteq Rows
    BY <1>2, DueHolds, <1>1, GivenHolds DEF Existing, Named
  <2>. QED
    BY <1>3, <2>1 DEF ValueHolds, Holds
<1>5. Widened(x, x)
  BY DEF Widened
<1>. HIDE DEF value
<1>6. Audits(Bound(x, value)) /\ LineageHolds(Bound(x, value))
  BY <1>2, <1>4, <1>5, BoundHolds
<1>. QED
  BY <1>1, <1>6, BecomesKeeps

LEMMA ComputeKeeps ==
  ASSUME ExecutionInv, Compute
  PROVE  ExecutionInv'
<1>. DEFINE x == execution
            names == Named(Task(x))
            value(cites) == Holds(From(x, names), SourcesOf(x, names), HandlesIn(x, names), cites)
<1>1. /\ Comes("compute")
      /\ \/ Becomes(Failed(x, "validation"))
         \/ \E cites : cites \subseteq CitableIn(x, names) /\ Becomes(Bound(x, value(cites)))
  BY DEF Compute
<1>2. /\ undertaking \in Undertakings /\ IsExecution(x) /\ x.phase = "tasks"
      /\ Audits(x) /\ LineageHolds(x) /\ Due(x) /\ x.flight = <<>> /\ names \subseteq DOMAIN x.values
  BY <1>1, DueHolds DEF Named
<1>3. CASE Becomes(Failed(x, "validation"))
  BY <1>2, <1>3, FailsKeep
<1>4. ASSUME NEW cites, cites \subseteq CitableIn(x, names), Becomes(Bound(x, value(cites)))
      PROVE  ExecutionInv'
  <2>1. /\ HandlesIn(x, names) \subseteq Rows /\ From(x, names) \subseteq Rows
        /\ CitableIn(x, names) \subseteq From(x, names)
        /\ Walks \/ From(x, names) \subseteq x.visible
    BY <1>2, GivenHolds
  <2>2. ValueHolds(value(cites), x.visible)
    BY <1>4, <2>1 DEF ValueHolds, Holds
  <2>3. Widened(x, x)
    BY DEF Widened
  <2>4. Audits(Bound(x, value(cites))) /\ LineageHolds(Bound(x, value(cites)))
    BY <1>2, <2>2, <2>3, BoundHolds
  <2>. QED
    BY <1>4, <2>4, BecomesKeeps
<1>. QED
  BY <1>1, <1>3, <1>4

LEMMA RunAgentKeeps ==
  ASSUME ExecutionInv, RunAgent
  PROVE  ExecutionInv'
<1>. DEFINE x == execution
            names == Named(Task(x))
            context == Existing(Task(x).found[1])
            sources == SourcesOf(x, names) \cup context
            z == [x EXCEPT !.visible = @ \cup context]
            value(cites) == Holds(From(x, names) \cup context, sources, cites, cites)
<1>1. /\ Comes("agent")
      /\ \/ Becomes(Failed(x, "budget"))
         \/ \E cites \in {CitableIn(x, names) \cup context, {}} : Becomes(Bound(z, value(cites)))
  BY DEF RunAgent
<1>2. /\ undertaking \in Undertakings /\ kept \subseteq Rows /\ IsExecution(x) /\ x.phase = "tasks"
      /\ Audits(x) /\ LineageHolds(x) /\ Due(x) /\ x.flight = <<>> /\ names \subseteq DOMAIN x.values
  BY <1>1, DueHolds DEF Named
<1>3. CASE Becomes(Failed(x, "budget"))
  BY <1>2, <1>3, FailsKeep
<1>4. ASSUME NEW cites \in {CitableIn(x, names) \cup context, {}}, Becomes(Bound(z, value(cites)))
      PROVE  ExecutionInv'
  <2>1. /\ HandlesIn(x, names) \subseteq Rows /\ From(x, names) \subseteq Rows
        /\ CitableIn(x, names) \subseteq From(x, names)
        /\ Walks \/ From(x, names) \subseteq x.visible
    BY <1>2, GivenHolds
  <2>2. context \subseteq Rows
    BY <1>2 DEF Existing
  <2>. HIDE DEF context
  <2>3. /\ IsExecution(z) /\ SameCounts(x, z) /\ z.cut = x.cut /\ z.flight = <<>> /\ Widened(x, z)
        /\ z.visible = x.visible \cup context
    BY <1>2 DEF IsExecution, Fields, SameCounts, SameAudit, Widened
  <2>. HIDE DEF z
  <2>4. ValueHolds(value(cites), z.visible)
    BY <1>4, <2>1, <2>2, <2>3 DEF ValueHolds, Holds
  <2>5. Audits(z)
    BY <1>2, <2>3, QuietAudits
  <2>6. Audits(Bound(z, value(cites))) /\ LineageHolds(Bound(z, value(cites)))
    BY <1>2, <2>3, <2>4, <2>5, BoundHolds
  <2>. QED
    BY <1>4, <2>6, BecomesKeeps
<1>. QED
  BY <1>1, <1>3, <1>4

\* A model may be asked on behalf of the task that is due.
LEMMA SubmitHolds ==
  ASSUME undertaking \in Undertakings, NEW x, LineageHolds(x), Due(x), Task(x).use \in {"llm", "answer"},
         NEW z, Audits(z), z.flight = <<>>, SameValues(x, z), z.evidence \subseteq Rows
  PROVE  Audits(Submit(z)) /\ LineageHolds(Submit(z))
<1>1. IsExecution(z)
  BY DEF Audits
<1>. QED
  BY <1>1, SubmitAudits, SubmitLineage

LEMMA AskModelKeeps ==
  ASSUME ExecutionInv, AskModel
  PROVE  ExecutionInv'
<1>. DEFINE x == execution
<1>1. Comes("llm") /\ Becomes(Submit(x))
  BY DEF AskModel
<1>2. /\ undertaking \in Undertakings /\ Audits(x) /\ LineageHolds(x) /\ Due(x) /\ x.flight = <<>>
      /\ Task(x).use = "llm" /\ x.evidence = {}
  BY <1>1, DueHolds
<1>3. SameValues(x, x) /\ x.evidence \subseteq Rows
  BY <1>2 DEF SameValues
<1>4. Audits(Submit(x)) /\ LineageHolds(Submit(x))
  BY <1>2, <1>3, SubmitHolds
<1>. QED
  BY <1>1, <1>4, BecomesKeeps

LEMMA AskAnswerKeeps ==
  ASSUME ExecutionInv, AskAnswer
  PROVE  ExecutionInv'
<1>. DEFINE x == execution
            evidence == UNION {Existing(hits) : hits \in ToSet(Task(x).found)}
            z == [x EXCEPT !.evidence = evidence]
<1>1. Comes("answer") /\ Becomes(Submit(z))
  BY DEF AskAnswer
<1>2. /\ undertaking \in Undertakings /\ kept \subseteq Rows /\ IsExecution(x)
      /\ Audits(x) /\ LineageHolds(x) /\ Due(x) /\ x.flight = <<>> /\ Task(x).use = "answer"
  BY <1>1, DueHolds
<1>3. evidence \subseteq Rows
  BY <1>2 DEF Existing
<1>. HIDE DEF evidence
<1>4. /\ IsExecution(z) /\ SameCounts(x, z) /\ SameValues(x, z) /\ z.cut = x.cut /\ z.flight = <<>>
      /\ z.evidence = evidence
  BY <1>2 DEF IsExecution, Fields, SameCounts, SameAudit, SameValues
<1>. HIDE DEF z
<1>5. Audits(z)
  BY <1>2, <1>4, QuietAudits
<1>6. Audits(Submit(z)) /\ LineageHolds(Submit(z))
  BY <1>2, <1>3, <1>4, <1>5, SubmitHolds
<1>. QED
  BY <1>1, <1>6, BecomesKeeps

\* Calls that came to an end are audited, and charged to one of two budgets.
LEMMA AuditedFields ==
  ASSUME NEW x, Audits(x), NEW y,
         \/ y = [Audited(x) EXCEPT !.tokens = @ + UsedBy(Logs(x.flight))]
         \/ y = [Audited(x) EXCEPT !.judging = @ + UsedBy(Logs(x.flight))]
  PROVE  /\ Audits(y) /\ y.flight = <<>> /\ SameValues(x, y) /\ y.evidence = x.evidence
         /\ y.phase = x.phase
<1>. DEFINE log == x.audit \o Logs(x.flight)
            cut == x.cut \cup CallsIn(x.flight, {"refused"})
            w == [x EXCEPT !.audit = log, !.cut = cut, !.flight = <<>>]
<1>1. Audited(x) = w
  BY DEF Audited
<1>2. IsExecution(x)
  BY DEF Audits
<1>. HIDE DEF log, cut
<1>3. /\ IsExecution(w) /\ SameValues(x, w) /\ w.evidence = x.evidence /\ w.phase = x.phase
      /\ w.calls = x.calls /\ w.judgments = x.judgments /\ w.tokens = x.tokens
      /\ w.judging = x.judging /\ w.made = x.made /\ w.audit = log /\ w.cut = cut /\ w.flight = <<>>
  BY <1>2 DEF IsExecution, Fields, SameValues
<1>. HIDE DEF w
<1>. DEFINE used == UsedBy(Logs(x.flight))
<1>4. \/ y = [w EXCEPT !.tokens = w.tokens + used]
      \/ y = [w EXCEPT !.judging = w.judging + used]
  BY <1>1
<1>. HIDE DEF used
<1>5. /\ IsExecution(y) /\ SameValues(w, y) /\ y.evidence = w.evidence /\ y.phase = w.phase
      /\ y.calls = w.calls /\ y.judgments = w.judgments
      /\ \/ y.tokens = w.tokens + used /\ y.judging = w.judging
         \/ y.judging = w.judging + used /\ y.tokens = w.tokens
      /\ y.made = w.made /\ y.audit = w.audit /\ y.cut = w.cut /\ y.flight = <<>>
  BY <1>3, <1>4 DEF IsExecution, Fields, SameValues
<1>6. Audits(y)
  BY <1>3, <1>5, EndedAudits DEF used, log, cut
<1>. QED
  BY <1>3, <1>5, <1>6 DEF SameValues

LEMMA HearKeeps ==
  ASSUME ExecutionInv, Hear
  PROVE  ExecutionInv'
<1>. DEFINE c == execution.flight[1]
            x == [Audited(execution) EXCEPT !.tokens = @ + UsedBy(Logs(execution.flight))]
<1>1. execution.phase = "asking"
  BY DEF Hear, Working
<1>2. /\ undertaking \in Undertakings /\ Audits(execution) /\ LineageHolds(execution)
  BY <1>1, AtWork
<1>3. /\ Audits(x) /\ x.flight = <<>> /\ SameValues(execution, x) /\ x.evidence = execution.evidence
      /\ x.phase = "asking"
  BY <1>1, <1>2, AuditedFields
<1>4. Due(execution) /\ Task(execution).use \in {"llm", "answer"} /\ execution.evidence \subseteq Rows
  BY <1>1, <1>2 DEF LineageHolds, Due, AtTask
<1>5. \/ \E kind : Becomes(Corrected(x, kind)) \/ Becomes(Failed(x, kind))
      \/ \E ids \in undertaking.answers : Becomes(Read(x, ids))
  BY Zenon DEF Hear
<1>. HIDE DEF x
<1>6. /\ LineageHolds(x) /\ Due(x) /\ Task(x) = Task(execution)
  <2>1. Due(x) /\ Task(x) = Task(execution)
    BY <1>2, <1>3, <1>4 DEF Due, SameValues, Task, AtTask
  <2>2. Task(x).use \in {"llm", "answer"} /\ x.phase = "asking" /\ x.evidence \subseteq Rows
    BY <1>3, <1>4, <2>1
  <2>. QED
    BY <1>2, <1>3, <1>4, <2>1, <2>2, SameLineage
<1>7. IsExecution(x)
  BY <1>3 DEF Audits
<1>8. ASSUME NEW kind
      PROVE  Audits(Failed(x, kind)) /\ LineageHolds(Failed(x, kind))
  BY <1>3, <1>6, FailedHolds
<1>9. ASSUME NEW kind, Becomes(Corrected(x, kind))
      PROVE  ExecutionInv'
  <2>. DEFINE z == [x EXCEPT !.correction = 1]
  <2>1. /\ IsExecution(z) /\ SameCounts(x, z) /\ SameValues(x, z) /\ z.cut = x.cut /\ z.flight = <<>>
        /\ z.evidence = x.evidence
    BY <1>3, <1>7 DEF IsExecution, Fields, SameCounts, SameAudit, SameValues
  <2>2. Becomes(Submit(z)) \/ \E k : Becomes(Failed(x, k))
    BY <1>9 DEF Corrected
  <2>. HIDE DEF z
  <2>3. Audits(z)
    BY <1>3, <2>1, QuietAudits
  <2>4. Audits(Submit(z)) /\ LineageHolds(Submit(z))
    BY <1>2, <1>3, <1>4, <1>6, <2>1, <2>3, SubmitHolds
  <2>. QED
    BY <1>8, <2>2, <2>4, BecomesKeeps
<1>10. ASSUME NEW ids \in undertaking.answers, Becomes(Read(x, ids))
       PROVE  ExecutionInv'
  <2>0. ids \subseteq Rows
    BY <1>2, UndertakingLoaded DEF IsLoaded
  <2>1. /\ Task(x).config \cup Task(x).input \cup Task(x).templates \subseteq DOMAIN x.values
        /\ Task(x).use = "llm" => Task(x).input = {}
    BY <1>2, <1>6, DueTask
  <2>2. /\ Named(Task(x)) \subseteq DOMAIN x.values /\ Task(x).config \subseteq DOMAIN x.values
        /\ Task(x).use = "llm" => Named(Task(x)) = Task(x).config
    BY <2>1 DEF Named
  <2>3. CASE Task(x).use = "answer"
    <3>. DEFINE z == [x EXCEPT !.visible = @ \cup x.evidence]
                value == Holds(From(x, Named(Task(x))) \cup x.evidence,
                               SourcesOf(x, Named(Task(x))) \cup x.evidence, ids, ids)
    <3>1. \/ \E kind : Becomes(Failed(x, kind))
          \/ ids \subseteq x.evidence /\ Becomes(Bound(z, value))
      BY <1>10, <2>3 DEF Read, Replayed
    <3>2. CASE ids \subseteq x.evidence /\ Becomes(Bound(z, value))
      <4>1. /\ IsExecution(z) /\ SameCounts(x, z) /\ z.cut = x.cut /\ z.flight = <<>> /\ Widened(x, z)
            /\ z.visible = x.visible \cup x.evidence
        BY <1>3, <1>7 DEF IsExecution, Fields, SameCounts, SameAudit, Widened
      <4>. HIDE DEF z
      <4>2. Walks \/ From(x, Named(Task(x))) \subseteq x.visible
        BY <1>6, <2>2, GivenHolds
      <4>3. From(x, Named(Task(x))) \subseteq Rows
        BY <1>6, <2>2, GivenHolds
      <4>4. ValueHolds(value, z.visible)
        BY <1>3, <1>4, <2>0, <3>2, <4>1, <4>2, <4>3 DEF ValueHolds, Holds
      <4>. HIDE DEF value
      <4>5. Audits(z)
        BY <1>3, <4>1, QuietAudits
      <4>6. Audits(Bound(z, value)) /\ LineageHolds(Bound(z, value))
        BY <1>2, <1>6, <4>1, <4>4, <4>5, BoundHolds
      <4>. QED
        BY <3>2, <4>6, BecomesKeeps
    <3>. QED
      BY <1>8, <3>1, <3>2, BecomesKeeps
  <2>4. CASE Task(x).use # "answer"
    <3>. DEFINE value == LlmValue(x, ids)
    <3>1. Becomes(Bound(x, value)) /\ Task(x).use = "llm"
      BY <1>4, <1>6, <1>10, <2>4 DEF Read
    <3>2. /\ value.from = From(x, Task(x).config) /\ value.ids = ids
          /\ value.cites \subseteq CitableIn(x, Named(Task(x)))
      BY DEF LlmValue, Holds
    <3>. HIDE DEF value
    <3>3. /\ CitableIn(x, Task(x).config) \subseteq From(x, Task(x).config)
          /\ From(x, Task(x).config) \subseteq Rows
          /\ Walks \/ From(x, Task(x).config) \subseteq x.visible
      BY <1>6, <2>2, GivenHolds
    <3>4. ValueHolds(value, x.visible)
      BY <2>0, <2>2, <3>1, <3>2, <3>3 DEF ValueHolds
    <3>5. Widened(x, x)
      BY DEF Widened
    <3>6. Audits(Bound(x, value)) /\ LineageHolds(Bound(x, value))
      BY <1>2, <1>3, <1>6, <3>4, <3>5, BoundHolds
    <3>. QED
      BY <3>1, <3>6, BecomesKeeps
  <2>. QED
    BY <2>3, <2>4
<1>. QED
  BY <1>5, <1>8, <1>9, <1>10, BecomesKeeps

\* The judgments of a task: an item for each handle it is given.
LEMMA AskJudgeKeeps ==
  ASSUME ExecutionInv, AskJudge
  PROVE  ExecutionInv'
<1>. DEFINE x == execution
            items == Cardinality(HandlesIn(x, Task(x).input))
            y == [x EXCEPT !.phase = "judging", !.judgments = @ + items,
                           !.flight = [i \in 1 .. items |-> Call(NextCall(x) + i - 1)]]
<1>1. Comes("judge") /\ (Becomes(Failed(x, "budget")) \/ Becomes(y))
  BY DEF AskJudge
<1>2. /\ undertaking \in Undertakings /\ Audits(x) /\ LineageHolds(x) /\ Due(x) /\ x.flight = <<>>
      /\ x.evidence = {} /\ x.phase = "tasks" /\ Task(x).input \subseteq DOMAIN x.values
  BY <1>1, DueHolds
<1>3. CASE Becomes(Failed(x, "budget"))
  BY <1>2, <1>3, FailsKeep
<1>4. CASE Becomes(y)
  <2>1. HandlesIn(x, Task(x).input) \subseteq Rows /\ IsFiniteSet(Rows)
    BY <1>2, GivenHolds, UndertakingLoaded
  <2>2. items \in Nat
    BY <2>1, FS_Subset, FS_CardinalityType
  <2>. HIDE DEF items
  <2>3. Audits(y) /\ SameValues(x, y) /\ y.phase = "judging" /\ y.evidence = x.evidence
    BY <1>2, <2>2, JudgingAudits
  <2>. HIDE DEF y
  <2>4. LineageHolds(y)
    BY <1>2, <2>3, SameLineage
  <2>. QED
    BY <1>4, <2>3, <2>4, BecomesKeeps
<1>. QED
  BY <1>1, <1>3, <1>4

LEMMA JudgeKeeps ==
  ASSUME ExecutionInv, Judge
  PROVE  ExecutionInv'
<1>. DEFINE x == Gathered(execution)
<1>1. execution.phase = "judging"
  BY DEF Judge, Working
<1>2. /\ undertaking \in Undertakings /\ Audits(execution) /\ LineageHolds(execution)
  BY <1>1, AtWork
<1>3. /\ Audits(x) /\ x.flight = <<>> /\ SameValues(execution, x) /\ x.evidence = execution.evidence
      /\ x.phase = "judging"
  BY <1>1, <1>2, AuditedFields DEF Gathered
<1>4. \/ \E kind : Becomes(Failed(x, kind))
      \/ \E passed \in SUBSET HandlesIn(x, Task(x).input) : Becomes(Judged(x, passed))
  BY DEF Judge
<1>. HIDE DEF x
<1>5. LineageHolds(x) /\ Due(x)
  <2>1. Due(execution) /\ execution.evidence \subseteq Rows
    BY <1>1, <1>2 DEF Due, AtTask, LineageHolds
  <2>2. Due(x)
    BY <1>3, <2>1 DEF Due, AtTask, SameValues
  <2>. QED
    BY <1>2, <1>3, <2>1, <2>2, SameLineage
<1>6. ASSUME NEW kind
      PROVE  Audits(Failed(x, kind)) /\ LineageHolds(Failed(x, kind))
  BY <1>3, <1>5, FailedHolds
<1>7. ASSUME NEW passed \in SUBSET HandlesIn(x, Task(x).input), Becomes(Judged(x, passed))
      PROVE  ExecutionInv'
  <2>. DEFINE task == Task(x)
              citable == CitableIn(x, Named(task))
              value == Holds(From(x, Named(task)) \cup From(x, task.templates),
                             SourcesOf(x, Named(task)), passed,
                             citable \ (HandlesIn(x, task.input) \ passed))
  <2>1. (\E kind : Becomes(Failed(x, kind))) \/ Becomes(Bound(x, value))
    BY <1>7 DEF Judged
  <2>2. task.config \cup task.input \cup task.templates \subseteq DOMAIN x.values
    BY <1>2, <1>5, DueTask
  <2>3. HandlesIn(x, task.input) \subseteq Rows
    BY <1>5, <2>2, GivenHolds
  <2>4. /\ citable \subseteq From(x, Named(task)) /\ From(x, Named(task)) \subseteq Rows
        /\ Walks \/ From(x, Named(task)) \subseteq x.visible
    <3>1. Named(task) \subseteq DOMAIN x.values
      BY <2>2 DEF Named
    <3>. QED
      BY <1>5, <3>1, GivenHolds
  <2>5. From(x, task.templates) \subseteq Rows /\ (Walks \/ From(x, task.templates) \subseteq x.visible)
    BY <1>5, <2>2, GivenHolds
  <2>6. ValueHolds(value, x.visible)
    <3>1. /\ value.from = From(x, Named(task)) \cup From(x, task.templates) /\ value.ids = passed
          /\ value.cites = citable \ (HandlesIn(x, task.input) \ passed)
      BY DEF Holds
    <3>. HIDE DEF value, citable
    <3>. QED
      BY <1>7, <2>3, <2>4, <2>5, <3>1 DEF ValueHolds
  <2>. HIDE DEF value
  <2>7. Widened(x, x)
    BY DEF Widened
  <2>8. Audits(Bound(x, value)) /\ LineageHolds(Bound(x, value))
    BY <1>2, <1>3, <1>5, <2>6, <2>7, BoundHolds
  <2>. QED
    BY <1>6, <2>1, <2>8, BecomesKeeps
<1>. QED
  BY <1>4, <1>6, <1>7, BecomesKeeps

LEMMA ProviderKeeps ==
  ASSUME ExecutionInv, Provider
  PROVE  ExecutionInv'
<1>1. /\ execution.phase \in {"asking", "judging"} /\ UNCHANGED <<undertaking, kept, stored>>
  BY DEF Provider, InFlight, Working
<1>2. undertaking \in Undertakings /\ Audits(execution) /\ LineageHolds(execution)
  BY <1>1, AtWork
<1>3. PICK y : y = execution'
  OBVIOUS
<1>4. /\ Audits(y) /\ SameValues(execution, y)
      /\ y.phase = execution.phase /\ y.evidence = execution.evidence
  BY <1>2, <1>3, ProviderFields
<1>5. /\ Due(execution) /\ execution.evidence \subseteq Rows
      /\ execution.phase = "asking" => Task(execution).use \in {"llm", "answer"}
  BY <1>1, <1>2 DEF Due, AtTask, LineageHolds
<1>6. LineageHolds(y)
  BY <1>1, <1>2, <1>4, <1>5, SameLineage
<1>. QED
  BY <1>1, <1>3, <1>4, <1>6, AdvancesKeep

LEMMA EmitKeeps ==
  ASSUME ExecutionInv, Emit
  PROVE  ExecutionInv'
<1>. DEFINE x == execution
            value == x.values[undertaking.emit]
            quiet == [x EXCEPT !.phase = "commit"]
            y(cites) == [x EXCEPT !.phase = "commit", !.output = [from |-> value.from, cites |-> cites]]
<1>1. x.phase = "tasks" /\ x.done = Len(undertaking.tasks)
  BY DEF Emit, Working
<1>2. /\ undertaking \in Undertakings /\ IsExecution(x) /\ Audits(x) /\ LineageHolds(x)
      /\ x.flight = <<>>
  BY <1>1, AtWork
<1>3. \/ Becomes(quiet) \/ Becomes(Failed(x, "validation"))
      \/ \E cites : cites \subseteq value.cites /\ Becomes(y(cites))
  BY DEF Emit
<1>4. x.evidence \subseteq Rows
  BY <1>2 DEF LineageHolds
<1>5. CASE Becomes(quiet)
  <2>1. /\ IsExecution(quiet) /\ SameCounts(x, quiet) /\ SameValues(x, quiet) /\ quiet.cut = x.cut
        /\ quiet.flight = <<>> /\ quiet.phase = "commit" /\ quiet.evidence = x.evidence
    BY <1>2 DEF IsExecution, Fields, SameCounts, SameAudit, SameValues
  <2>. HIDE DEF quiet
  <2>2. Audits(quiet) /\ LineageHolds(quiet)
    BY <1>2, <1>4, <2>1, QuietAudits, SameLineage
  <2>. QED
    BY <1>5, <2>2, BecomesKeeps
<1>6. CASE Becomes(Failed(x, "validation"))
  BY <1>1, <1>6, FailsKeep
<1>7. ASSUME NEW cites, cites \subseteq value.cites, Becomes(y(cites))
      PROVE  ExecutionInv'
  <2>. DEFINE z == y(cites)
  <2>1. ValueHolds(value, x.visible)
    <3>1. undertaking.emit \in DOMAIN x.values
      BY <1>1, <1>2, LoadedTasks DEF LineageHolds, AtTask
    <3>. QED
      BY <1>2, <3>1 DEF LineageHolds
  <2>. DEFINE output == [from |-> value.from, cites |-> cites]
  <2>2. OutputHolds(output, x.visible)
    BY <1>7, <2>1 DEF ValueHolds, OutputHolds
  <2>. HIDE DEF output
  <2>3. z = [x EXCEPT !.phase = "commit", !.output = output]
    BY DEF output
  <2>. HIDE DEF z
  <2>4. /\ IsExecution(z) /\ SameCounts(x, z) /\ z.cut = x.cut /\ z.flight = <<>>
        /\ z.phase = "commit" /\ z.evidence = x.evidence /\ z.values = x.values /\ z.done = x.done
        /\ z.visible = x.visible /\ z.output = output
    BY <1>2, <2>3 DEF IsExecution, Fields, SameCounts, SameAudit
  <2>5. Audits(z)
    BY <1>2, <2>4, QuietAudits
  <2>6. LineageHolds(z)
    BY <1>2, <1>4, <2>2, <2>4 DEF LineageHolds, AtTask
  <2>. QED
    BY <1>7, <2>5, <2>6, BecomesKeeps DEF z
<1>. QED
  BY <1>3, <1>5, <1>6, <1>7

\* What is stored of an execution that came to its end.
LEMMA RunStored ==
  ASSUME NEW x, Audits(x), x.flight = <<>>, NEW status, NEW parents, NEW output,
         NEW y, y = [x EXCEPT !.output = output] \/ (y = x /\ output = x.output),
         OutputHolds(output, parents), parents \subseteq kept
  PROVE  RunHolds(RunOf(y, status, parents))
<1>1. IsExecution(x) /\ AuditHolds(x)
  BY DEF Audits
<1>2. /\ y.output = output /\ y.audit = x.audit /\ y.tokens = x.tokens /\ y.judging = x.judging
      /\ y.made = x.made /\ y.cut = x.cut
  BY <1>1 DEF IsExecution, Fields
<1>3. CallsOf(x) = {}
  BY DEF CallsOf
<1>. DEFINE run == RunOf(y, status, parents)
<1>4. /\ run.output = output /\ run.parents = parents /\ run.audit = x.audit
      /\ run.charged = x.tokens + x.judging /\ run.made = x.made /\ run.cut = x.cut
      /\ "output" \in DOMAIN run
  BY <1>2 DEF RunOf
<1>. HIDE DEF run
<1>5. /\ x.audit \in Seq(Attempts) /\ Distinct(x.audit) /\ x.tokens + x.judging = UsedBy(x.audit)
      /\ ToSet(x.audit) = {a \in x.made : a.call \notin x.cut}
  BY <1>1, <1>3 DEF AuditHolds
<1>6. RunHolds(run)
  BY <1>4, <1>5 DEF RunHolds
<1>. QED
  BY <1>6 DEF run

\* A run more, and no execution.
LEMMA StoresKeep ==
  ASSUME ExecutionInv, NEW run, RunHolds(run), stored' = stored \cup {run}, execution' = NoExecution,
         UNCHANGED <<undertaking, kept>>
  PROVE  ExecutionInv'
<1>1. \A r \in stored' : RunHolds(r)
  BY DEF ExecutionInv
<1>2. \A r \in stored' : RunHolds(r)'
  BY <1>1 DEF RunHolds, OutputHolds, Walks
<1>. QED
  BY <1>2 DEF ExecutionInv, NoExecution

LEMMA CommitsRunKeeps ==
  ASSUME ExecutionInv, CommitsRun
  PROVE  ExecutionInv'
<1>. DEFINE x == execution
            status == IF x.output = NoOutput THEN "noop" ELSE "ok"
<1>1. x.phase = "commit"
  BY DEF CommitsRun, Working
<1>2. Audits(x) /\ LineageHolds(x) /\ x.flight = <<>>
  BY <1>1, AtWork
<1>3. CASE ~ SourcesRemain(x)
  BY <1>1, <1>3, FailsKeep DEF CommitsRun
<1>4. CASE SourcesRemain(x)
  <2>1. OutputHolds(x.output, x.visible) /\ x.visible \subseteq kept
    BY <1>2, <1>4 DEF LineageHolds, SourcesRemain
  <2>2. RunHolds(RunOf(x, status, x.visible))
    BY <1>2, <2>1, RunStored
  <2>3. /\ stored' = stored \cup {RunOf(x, status, x.visible)} /\ execution' = NoExecution
        /\ UNCHANGED <<undertaking, kept>>
    BY <1>4 DEF CommitsRun
  <2>. QED
    BY <2>2, <2>3, StoresKeep
<1>. QED
  BY <1>3, <1>4

LEMMA StoresFailureKeeps ==
  ASSUME ExecutionInv, StoresFailure
  PROVE  ExecutionInv'
<1>. DEFINE x == [execution EXCEPT !.output = NoOutput]
            run == RunOf(x, "failed", x.visible \cap kept)
<1>1. /\ execution.phase = "failed" /\ stored' = stored \cup {run} /\ execution' = NoExecution
      /\ UNCHANGED <<undertaking, kept>>
  BY DEF StoresFailure, Working
<1>2. Audits(execution) /\ execution.flight = <<>>
  BY <1>1, AtWork
<1>3. OutputHolds(NoOutput, x.visible \cap kept) /\ x.visible \cap kept \subseteq kept
  BY DEF OutputHolds, NoOutput
<1>4. RunHolds(run)
  BY <1>2, <1>3, RunStored
<1>. QED
  BY <1>1, <1>4, StoresKeep

LEMMA TimesOutKeeps ==
  ASSUME ExecutionInv, TimesOut
  PROVE  ExecutionInv'
<1>1. execution.phase # "idle" /\ Becomes(Failed(execution, "budget"))
  BY DEF TimesOut
<1>. QED
  BY <1>1, FailsKeep

LEMMA VanishesKeeps ==
  ASSUME ExecutionInv, Vanishes
  PROVE  ExecutionInv'
<1>1. execution' = NoExecution /\ UNCHANGED <<undertaking, kept, stored>>
  BY DEF Vanishes
<1>. QED
  BY <1>1 DEF ExecutionInv, NoExecution, RunHolds, OutputHolds, Walks

\* What is left after an erasure never rested on the row.
LEMMA EraseSourceKeeps ==
  ASSUME ExecutionInv, NEW r \in kept, EraseSource(r)
  PROVE  ExecutionInv'
<1>1. /\ kept' = kept \ {r} /\ undertaking' = undertaking
      /\ stored' = {Without(run, r) : run \in {run \in stored : r \notin run.parents}}
      /\ execution' = NoExecution \/ execution' = execution
  BY DEF EraseSource
<1>2. \A run \in stored' : RunHolds(run)'
  <2>1. ASSUME NEW run \in stored, r \notin run.parents
        PROVE  RunHolds(Without(run, r))'
    <3>1. RunHolds(run)
      BY DEF ExecutionInv
    <3>2. CASE r \notin run.output.cites
      BY <1>1, <2>1, <3>1, <3>2 DEF Without, RunHolds, OutputHolds, Walks
    <3>3. CASE r \in run.output.cites
      <4>. DEFINE w == [run EXCEPT !.output = NoOutput]
      <4>1. Without(run, r) = w
        BY <3>3 DEF Without
      <4>2. /\ w.parents = run.parents /\ w.audit = run.audit /\ w.made = run.made
            /\ w.cut = run.cut /\ w.charged = run.charged /\ "output" \in DOMAIN w
        BY <3>1 DEF RunHolds
      <4>3. OutputHolds(w.output, w.parents)
        BY <3>1 DEF RunHolds, OutputHolds, NoOutput
      <4>. HIDE DEF w
      <4>. QED
        BY <1>1, <2>1, <3>1, <4>1, <4>2, <4>3 DEF RunHolds, OutputHolds, Walks
    <3>. QED
      BY <3>2, <3>3
  <2>. QED
    BY <1>1, <2>1
<1>3. execution'.phase = "idle" \/ (Audits(execution) /\ LineageHolds(execution))'
  <2>1. CASE execution' = NoExecution
    BY <2>1 DEF NoExecution
  <2>2. CASE execution' = execution
    <3>1. CASE execution.phase = "idle"
      BY <2>2, <3>1
    <3>2. CASE Audits(execution) /\ LineageHolds(execution)
      <4>1. Audits(execution)'
        BY <2>2, <3>2
      <4>2. LineageHolds(execution)'
        BY <1>1, <2>2, <3>2 DEF LineageHolds, ValueHolds, OutputHolds, Walks, Task
      <4>. QED
        BY <4>1, <4>2
    <3>. QED
      BY <3>1, <3>2 DEF ExecutionInv
  <2>. QED
    BY <1>1, <2>1, <2>2
<1>. QED
  BY <1>1, <1>2, <1>3 DEF ExecutionInv

-----------------------------------------------------------------------------
(* The theorems.                                                           *)

\* Every value of an execution rests on rows that it was shown, unless a graph was walked, and may
\* cite only what went into it; the attempts of the calls that ended are in its audit, those of
\* the calls under way in their logs, each once; and every run that is stored came from such an
\* execution whose records were still there (process_derivation_job, _call_json, _commit_execution).
THEOREM ExecutionInvariance == ExecutionSpec => []ExecutionInv
<1>1. ExecutionInit => ExecutionInv
  BY DEF ExecutionInit, ExecutionBegins, ExecutionInv, NoExecution
<1>2. ExecutionInv /\ [ExecutionNext]_executionVars => ExecutionInv'
  <2>. SUFFICES ASSUME ExecutionInv, [ExecutionNext]_executionVars
                PROVE  ExecutionInv'
    OBVIOUS
  <2>1. CASE UNCHANGED executionVars
    <3>1. /\ undertaking' = undertaking /\ kept' = kept /\ stored' = stored /\ execution' = execution
      BY <2>1 DEF executionVars
    <3>2. CASE execution.phase = "idle"
      BY <3>1, <3>2 DEF ExecutionInv, RunHolds, OutputHolds, Walks
    <3>3. CASE execution.phase # "idle"
      BY <3>1, <3>3, AtWork, AdvancesKeep
    <3>. QED
      BY <3>2, <3>3
  <2>2. CASE Begins
    BY <2>2, BeginsKeeps
  <2>3. CASE ReadViews
    BY <2>3, ReadViewsKeeps
  <2>4. CASE Retrieve
    BY <2>4, RetrieveKeeps
  <2>5. CASE Walk
    BY <2>5, WalkKeeps
  <2>6. CASE Compute
    BY <2>6, ComputeKeeps
  <2>7. CASE RunAgent
    BY <2>7, RunAgentKeeps
  <2>8. CASE AskModel
    BY <2>8, AskModelKeeps
  <2>9. CASE AskAnswer
    BY <2>9, AskAnswerKeeps
  <2>10. CASE Hear
    BY <2>10, HearKeeps
  <2>11. CASE AskJudge
    BY <2>11, AskJudgeKeeps
  <2>12. CASE Judge
    BY <2>12, JudgeKeeps
  <2>13. CASE Provider
    BY <2>13, ProviderKeeps
  <2>14. CASE Emit
    BY <2>14, EmitKeeps
  <2>15. CASE CommitsRun
    BY <2>15, CommitsRunKeeps
  <2>16. CASE StoresFailure
    BY <2>16, StoresFailureKeeps
  <2>17. CASE TimesOut
    BY <2>17, TimesOutKeeps
  <2>18. CASE Vanishes
    BY <2>18, VanishesKeeps
  <2>19. CASE \E r \in kept : EraseSource(r)
    BY <2>19, EraseSourceKeeps
  <2>. QED
    BY <2>1, <2>2, <2>3, <2>4, <2>5, <2>6, <2>7, <2>8, <2>9, <2>10, <2>11, <2>12, <2>13, <2>14,
       <2>15, <2>16, <2>17, <2>18, <2>19 DEF ExecutionNext
<1>. QED
  BY <1>1, <1>2, PTL DEF ExecutionSpec

\* No output that is stored rests on a row that is gone, where no graph is walked, and none cites
\* what did not go into it: a run keeps the records that were shown as its parents, the erasure of
\* a parent takes the run along, and the commit finds all of them in place (_commit_execution).
THEOREM LineageIsKept == ExecutionSpec => []LineageIsTrue
<1>1. ExecutionInv => LineageIsTrue
  BY DEF ExecutionInv, LineageIsTrue, RunHolds, OutputHolds
<1>. QED
  BY <1>1, ExecutionInvariance, PTL

LEMMA DistinctLength ==
  ASSUME NEW s \in Seq(Attempts), Distinct(s)
  PROVE  Len(s) = Cardinality(ToSet(s))
<1>1. Len(s) \in Nat /\ DOMAIN s = 1 .. Len(s)
  OBVIOUS
<1>2. s \in [1 .. Len(s) -> ToSet(s)]
  BY <1>1 DEF ToSet
<1>3. s \in Bijection(1 .. Len(s), ToSet(s))
  <2>1. \A i, j \in 1 .. Len(s) : s[i] = s[j] => i = j
    BY <1>1 DEF Distinct
  <2>2. \A a \in ToSet(s) : \E i \in 1 .. Len(s) : s[i] = a
    BY <1>1 DEF ToSet
  <2>. QED
    BY <1>2, <2>1, <2>2, Zenon DEF Bijection, Injection, Surjection, IsInjective
<1>. QED
  BY <1>1, <1>3, FS_CountingElements DEF ExistsBijection

\* The audit of a run holds each attempt of every call that came to an end, once, and the charge is
\* what these used: calls are numbered apart, an attempt is logged as it is made, and what ends is
\* audited whole, its failures too (complete, _call_json and _judge_items of the runner).  Calls
\* that the provider refuses, or that are under way when time runs out, are left out.
THEOREM AuditIsKept == ExecutionSpec => []AttemptsAreAudited
<1>1. ExecutionInv => AttemptsAreAudited
  BY DistinctLength DEF ExecutionInv, AttemptsAreAudited, RunHolds
<1>. QED
  BY <1>1, ExecutionInvariance, PTL
=============================================================================
