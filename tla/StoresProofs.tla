----------------------------- MODULE StoresProofs -----------------------------
(***************************************************************************)
(* What the order of the locks buys, for every number of records and       *)
(* pipelines and whatever arrives: ingests alone never deadlock, and no    *)
(* stimulus is lost between the transactions that run at once.  What the   *)
(* spool keeps for a crash.  And the search index outside the database,    *)
(* which follows its records where one executor keeps it.                  *)
(***************************************************************************)
EXTENDS LockOrder, Spool, Projection, FiniteSetTheorems, WellFoundedInduction, TLAPS

\* An ingest holds mailboxes below those that it has still to look at.
InOrder(r) ==
    /\ \A q \in Pipelines : jobLock[q] = r =>
            (\A t \in todo[r] : q < t) /\ (pc[r] = "upsert" => q < target[r])
    /\ pc[r] = "upsert" => \A t \in todo[r] : target[r] < t

\* The locks of a transaction: none before and after it, the entity lock
\* through it, and the mailboxes that it has filled; an executor has its own
\* job from the start of its commit.
Own(x) ==
    /\ x \in Records => pc[x] \notin {"claimed", "resolved", "locked"} /\ InOrder(x)
    /\ x \in Pipelines => pc[x] \notin {"begun", "done"}
    /\ pc[x] \in Outside \cup {"begun"} => \A p \in Pipelines : jobLock[p] # x
    /\ pc[x] \in Outside => entityLock # x
    /\ pc[x] = "upsert" => target[x] \in Pipelines
    /\ pc[x] # "upsert" => target[x] = Nobody
    /\ \A p \in staged[x] : jobLock[p] = x
    /\ x \in Keyed /\ pc[x] \in InTransaction => entityLock = x
    /\ x \in Pipelines /\ pc[x] \in {"evaluate", "upsert"} => entityLock = x
    /\ x \in Pipelines /\ pc[x] \in {"locked", "evaluate", "upsert"} => jobLock[x] = x

\* Where the next stimulus is not lost: where one record is enough to fire, or
\* the ingests of an entity follow each other.
Covered(p) == Threshold[p] = 1 \/ Keyed = Records
Unread(p) == {t \in ready : seq[t] > watermark[p]}

\* A trigger that an ingest has looked at and not fired has no reason to fire
\* when the ingest commits.
Judged(r) ==
    pc[r] \in {"evaluate", "upsert"} =>
        \A p \in Pipelines \ (todo[r] \cup {target[r]}) :
            p \in staged[r] \/
                /\ Threshold[p] = 1 => seq[r] <= watermark[p]
                /\ Keyed = Records =>
                     Cardinality({t \in ready \cup {r} : seq[t] > watermark[p]}) < Threshold[p]

\* A run that has its entity has a successor for what its basis does not cover.
Succeeded(p) ==
    /\ pc[p] \in {"resolved", "locked", "evaluate", "upsert"} => watermark[p] <= basis[p]
    /\ pc[p] \in {"evaluate", "upsert"} /\ Covered(p) /\ (\E r \in ready : seq[r] > basis[p])
        => p \in staged[p]

LockInv ==
    /\ LockOrderTypeOK
    /\ \A x \in Procs : Own(x)
    /\ \A r \in ready : pc[r] = "done"
    /\ \A r \in Records : Judged(r)
    /\ \A p \in Pipelines : Succeeded(p)
    /\ NoLostStimulus

USE SetsAssumption, NumbersAssumption

-----------------------------------------------------------------------------
(* Operators.                                                              *)

LEMMA ArrivalFacts ==
  ASSUME arrival \in Arrivals
  PROVE  Keyed \subseteq Records /\ \A p \in Pipelines : Threshold[p] \in Nat \ {0}
  BY ArrivalsAssumption DEF Keyed, Threshold

LEMMA SameArrival ==
  ASSUME arrival' = arrival
  PROVE  Keyed' = Keyed /\ Threshold' = Threshold /\ (\A p \in Pipelines : Covered(p)' <=> Covered(p))
  BY DEF Keyed, Threshold, Covered

LEMMA LeastTarget ==
  ASSUME NEW S, S \subseteq Nat, S # {}
  PROVE  \E m \in S : \A n \in S : m <= n
<1>. DEFINE R == {ss \in Nat \X Nat : ss[1] < ss[2]}
<1>1. IsWellFoundedOn(R, Nat)
  BY NatLessThanWellFounded DEF OpToRel
<1>2. PICK m \in S : \A n \in S : ~ (<<n, m>> \in R)
  BY <1>1, WFMin
<1>3. \A n \in S : ~(n < m)
  BY <1>2
<1>. QED
  BY <1>3

LEMMA MaxFacts ==
  ASSUME NEW S, S \subseteq 0 .. MaxSeq, S # {}
  PROVE  Max(S) \in S /\ \A n \in S : n <= Max(S)
<1>. DEFINE T == {m \in 0 .. MaxSeq : MaxSeq - m \in S}
<1>1. T # {}
  <2>1. PICK n \in S : TRUE
    OBVIOUS
  <2>2. MaxSeq - n \in 0 .. MaxSeq /\ MaxSeq - (MaxSeq - n) = n
    BY <2>1
  <2>. QED
    BY <2>1, <2>2
<1>t. T \subseteq Nat
  OBVIOUS
<1>2. PICK m \in T : \A t \in T : m <= t
  <2>. HIDE DEF T
  <2>. QED
    BY <1>1, <1>t, LeastTarget
<1>3. \A k \in S : MaxSeq - k \in T
  <2>1. \A k \in S : MaxSeq - k \in 0 .. MaxSeq /\ MaxSeq - (MaxSeq - k) = k
    OBVIOUS
  <2>. QED
    BY <2>1
<1>4. \A k \in S : k \in 0 .. MaxSeq /\ m <= MaxSeq - k
  BY <1>2, <1>3
<1>5. MaxSeq - m \in S /\ \A k \in S : MaxSeq - m >= k
  BY <1>2, <1>4
<1>. QED
  BY <1>5 DEF Max

\* One record above a threshold of one, and the other way round.
LEMMA CountFacts ==
  ASSUME NEW S \in SUBSET Records
  PROVE  Cardinality(S) \in Nat /\ (Cardinality(S) >= 1 <=> S # {})
  BY FS_Subset, FS_CardinalityType, FS_EmptySet

-----------------------------------------------------------------------------
(* Steps and locks.                                                        *)

\* A step of x moves the work of x only, and locks from or to x only.
Only(x) ==
    /\ arrival' = arrival
    /\ \A y \in Procs : y # x => /\ pc'[y] = pc[y] /\ todo'[y] = todo[y]
                                 /\ target'[y] = target[y] /\ staged'[y] = staged[y]
    /\ \A p \in Pipelines : jobLock'[p] = jobLock[p] \/ (jobLock[p] \in {x, Nobody} /\ jobLock'[p] \in {x, Nobody})
    /\ entityLock' = entityLock \/ (entityLock \in {x, Nobody} /\ entityLock' \in {x, Nobody})

LEMMA OthersOwn ==
  ASSUME LockOrderTypeOK, NEW x \in Procs, Only(x), NEW y \in Procs, y # x, Own(y)
  PROVE  Own(y)'
<1>1. /\ pc'[y] = pc[y] /\ todo'[y] = todo[y] /\ target'[y] = target[y] /\ staged'[y] = staged[y]
      /\ Keyed' = Keyed
  BY SameArrival DEF Only
<1>2. /\ \A p \in Pipelines : jobLock'[p] = y <=> jobLock[p] = y
      /\ entityLock' = y <=> entityLock = y
  BY DEF Only, Procs
<1>3. staged[y] \subseteq Pipelines
  BY DEF LockOrderTypeOK
<1>4. (y \in Records => InOrder(y)) => (y \in Records => InOrder(y)')
  BY <1>1, <1>2 DEF InOrder
<1>. QED
  BY <1>1, <1>2, <1>3, <1>4 DEF Own

\* A step of x that commits nothing.
Uncommitted(x) ==
    /\ Only(x) /\ x \notin ready /\ UNCHANGED <<ready, watermark>>
    /\ \A r \in Records : r # x => seq'[r] = seq[r]
    /\ \A p \in Pipelines : (p # x => basis'[p] = basis[p]) /\ (active[p] => active'[p])

LEMMA OthersJudge ==
  ASSUME LockInv, NEW x \in Procs, Uncommitted(x)
  PROVE  /\ \A r \in Records : r # x => Judged(r)'
         /\ \A p \in Pipelines : p # x => Succeeded(p)'
<1>1. Keyed' = Keyed /\ Threshold' = Threshold
  BY SameArrival DEF Only, Uncommitted
<1>t. ready \subseteq Records
  BY DEF LockInv, LockOrderTypeOK
<1>2. ASSUME NEW r \in Records, r # x PROVE Judged(r)'
  <2>1. /\ pc'[r] = pc[r] /\ todo'[r] = todo[r] /\ target'[r] = target[r] /\ staged'[r] = staged[r]
        /\ Judged(r) /\ seq'[r] = seq[r]
    BY <1>2 DEF Only, Procs, LockInv, Uncommitted
  <2>2. \A p \in Pipelines : {t \in ready \cup {r} : seq[t] > watermark[p]}'
                             = {t \in ready \cup {r} : seq[t] > watermark[p]}
    BY <1>t, <2>1 DEF Uncommitted
  <2>. QED
    BY <1>1, <2>1, <2>2 DEF Judged, Uncommitted
<1>3. ASSUME NEW p \in Pipelines, p # x PROVE Succeeded(p)'
  <2>1. pc'[p] = pc[p] /\ staged'[p] = staged[p] /\ Succeeded(p)
    BY <1>3 DEF Only, Procs, LockInv, Uncommitted
  <2>2. \A r \in ready : seq'[r] = seq[r]
    BY <1>t DEF Uncommitted
  <2>. QED
    BY <1>1, <1>3, <2>1, <2>2 DEF Succeeded, Covered, Uncommitted
<1>. QED
  BY <1>2, <1>3

\* What remains to be shown of such a step.
LEMMA StepOf ==
  ASSUME LockInv, LockOrderTypeOK', NEW x \in Procs, Uncommitted(x),
         Own(x)', x \in Records => Judged(x)', x \in Pipelines => Succeeded(x)'
  PROVE  LockInv'
<1>t. ready \subseteq Records
  BY DEF LockInv, LockOrderTypeOK
<1>1. \A y \in Procs : Own(y)'
  BY OthersOwn DEF LockInv, Uncommitted
<1>2. \A r \in ready' : pc'[r] = "done"
  BY <1>t DEF LockInv, Only, Procs, Uncommitted
<1>3. /\ \A r \in Records : Judged(r)'
      /\ \A p \in Pipelines : Succeeded(p)'
  BY OthersJudge
<1>4. NoLostStimulus'
  <2>1. Keyed' = Keyed /\ Threshold' = Threshold
    BY SameArrival DEF Only, Uncommitted
  <2>2. \A p \in Pipelines : {r \in ready : seq[r] > watermark[p]}' = {r \in ready : seq[r] > watermark[p]}
    BY <1>t DEF Uncommitted
  <2>3. NoLostStimulus
    BY DEF LockInv
  <2>. QED
    BY <2>1, <2>2, <2>3 DEF NoLostStimulus, Uncommitted
<1>. QED
  BY <1>1, <1>2, <1>3, <1>4 DEF LockInv

LEMMA InitLocks == LockOrderInit => LockInv
<1>. SUFFICES ASSUME LockOrderInit PROVE LockInv
  OBVIOUS
<1>. USE DEF LockOrderInit
<1>1. LockOrderTypeOK
  BY DEF LockOrderTypeOK, Outside, InTransaction
<1>2. \A x \in Procs : Own(x)
  BY DEF Own, InOrder, Outside, InTransaction, Procs
<1>3. /\ \A r \in ready : pc[r] = "done"
      /\ \A r \in Records : Judged(r)
      /\ \A p \in Pipelines : Succeeded(p)
  BY DEF Judged, Succeeded, Procs
<1>4. NoLostStimulus
  <2>1. \A p \in Pipelines : Cardinality({r \in ready : seq[r] > watermark[p]}) = 0
    <3>1. \A p \in Pipelines : {r \in ready : seq[r] > watermark[p]} = {}
      OBVIOUS
    <3>. QED
      BY <3>1, FS_EmptySet
  <2>. QED
    BY <2>1, ArrivalFacts DEF NoLostStimulus
<1>. QED
  BY <1>1, <1>2, <1>3, <1>4 DEF LockInv

-----------------------------------------------------------------------------
(* The steps of an ingest.                                                 *)

LEMMA BeginStep ==
  ASSUME LockInv, arrival' = arrival, NEW r \in Records, Begin(r)
  PROVE  LockInv'
<1>t. LockOrderTypeOK /\ Own(r) /\ r \in Procs /\ r \notin Pipelines /\ r \notin ready
  BY DEF LockInv, Procs, Begin, LockOrderTypeOK
<1>1. /\ pc[r] = "idle" /\ pc' = [pc EXCEPT ![r] = "begun"]
      /\ entityLock \in {Nobody, r} \/ entityLock' = entityLock
      /\ entityLock' \in {entityLock, r} /\ (r \in Keyed => entityLock' = r)
      /\ UNCHANGED <<ready, watermark, active, jobLock, todo, target, staged, seq, basis, lastSeq>>
  BY DEF Begin, committed, Free
<1>2. LockOrderTypeOK' /\ pc'[r] = "begun"
  BY <1>t, <1>1 DEF LockOrderTypeOK, InTransaction
<1>3. Uncommitted(r)
  BY <1>t, <1>1 DEF Uncommitted, Only, LockOrderTypeOK
<1>4. Own(r)'
  BY <1>t, <1>1, <1>2, SameArrival DEF Own, InOrder, Outside, InTransaction
<1>5. Judged(r)'
  BY <1>2 DEF Judged
<1>. QED
  BY <1>t, <1>1, <1>2, <1>3, <1>4, <1>5, StepOf

LEMMA InsertStep ==
  ASSUME LockInv, arrival' = arrival, NEW r \in Records, InsertRow(r)
  PROVE  LockInv'
<1>t. LockOrderTypeOK /\ Own(r) /\ r \in Procs /\ r \notin Pipelines /\ r \notin ready
  BY DEF LockInv, Procs, InsertRow, LockOrderTypeOK
<1>1. /\ pc[r] = "begun" /\ lastSeq < MaxSeq /\ lastSeq' = lastSeq + 1
      /\ seq' = [seq EXCEPT ![r] = lastSeq + 1]
      /\ pc' = [pc EXCEPT ![r] = "evaluate"] /\ todo' = [todo EXCEPT ![r] = Pipelines]
      /\ UNCHANGED <<ready, watermark, active, jobLock, entityLock, target, staged, basis>>
  BY DEF InsertRow, StartEvaluation, committed, locks
<1>2. LockOrderTypeOK' /\ pc'[r] = "evaluate" /\ todo'[r] = Pipelines
  <2>1. lastSeq + 1 \in 0 .. MaxSeq
    BY <1>t, <1>1 DEF LockOrderTypeOK
  <2>. QED
    BY <1>t, <1>1, <2>1 DEF LockOrderTypeOK, InTransaction
<1>3. Uncommitted(r)
  BY <1>t, <1>1 DEF Uncommitted, Only, LockOrderTypeOK
<1>4. Own(r)'
  BY <1>t, <1>1, <1>2, SameArrival DEF Own, InOrder, Outside, InTransaction
<1>5. Judged(r)'
  BY <1>2 DEF Judged
<1>. QED
  BY <1>t, <1>2, <1>3, <1>4, <1>5, StepOf

-----------------------------------------------------------------------------
(* The steps of an executor.                                               *)

LEMMA RequestStep ==
  ASSUME LockInv, arrival' = arrival, NEW p \in Pipelines, RequestJob(p)
  PROVE  LockInv'
<1>t. LockOrderTypeOK /\ Own(p) /\ p \in Procs /\ p \notin ready /\ Succeeded(p)
  BY DEF LockInv, Procs, LockOrderTypeOK
<1>1. /\ active' = [active EXCEPT ![p] = TRUE]
      /\ UNCHANGED <<ready, watermark, jobLock, entityLock, pc, todo, target, staged, seq, basis, lastSeq>>
  BY DEF RequestJob, locks
<1>2. LockOrderTypeOK'
  BY <1>t, <1>1 DEF LockOrderTypeOK
<1>3. Uncommitted(p)
  BY <1>t, <1>1 DEF Uncommitted, Only, LockOrderTypeOK
<1>4. Own(p)'
  BY <1>t, <1>1, SameArrival DEF Own, InOrder
<1>5. Succeeded(p)'
  BY <1>t, <1>1, SameArrival DEF Succeeded
<1>. QED
  BY <1>t, <1>2, <1>3, <1>4, <1>5, StepOf

LEMMA ClaimStep ==
  ASSUME LockInv, arrival' = arrival, NEW p \in Pipelines, ClaimJob(p)
  PROVE  LockInv'
<1>t. LockOrderTypeOK /\ Own(p) /\ p \in Procs /\ p \notin ready /\ p \notin Records
  BY DEF LockInv, Procs, LockOrderTypeOK
<1>1. /\ pc[p] = "idle" /\ pc' = [pc EXCEPT ![p] = "claimed"]
      /\ UNCHANGED <<ready, watermark, active, jobLock, entityLock, todo, target, staged, seq, basis, lastSeq>>
  BY DEF ClaimJob, locks, committed
<1>2. LockOrderTypeOK' /\ pc'[p] = "claimed"
  BY <1>t, <1>1 DEF LockOrderTypeOK, Outside
<1>3. Uncommitted(p)
  BY <1>t, <1>1 DEF Uncommitted, Only, LockOrderTypeOK
<1>4. Own(p)'
  BY <1>t, <1>1, <1>2, SameArrival DEF Own, Outside, InTransaction
<1>5. Succeeded(p)'
  BY <1>2 DEF Succeeded
<1>. QED
  BY <1>t, <1>2, <1>3, <1>4, <1>5, StepOf

LEMMA ResolveStep ==
  ASSUME LockInv, arrival' = arrival, NEW p \in Pipelines, Resolve(p)
  PROVE  LockInv'
<1>. DEFINE m == Max({watermark[p]} \cup {seq[r] : r \in ready})
<1>t. LockOrderTypeOK /\ Own(p) /\ p \in Procs /\ p \notin ready /\ p \notin Records
  BY DEF LockInv, Procs, LockOrderTypeOK
<1>1. /\ pc[p] = "claimed" /\ pc' = [pc EXCEPT ![p] = "resolved"]
      /\ basis' = [basis EXCEPT ![p] = m]
      /\ UNCHANGED <<ready, watermark, active, jobLock, entityLock, todo, target, staged, seq, lastSeq>>
  BY DEF Resolve, locks, committed
<1>m. m \in 0 .. MaxSeq /\ watermark[p] <= m
  <2>. DEFINE S == {watermark[p]} \cup {seq[r] : r \in ready}
  <2>1. S \subseteq 0 .. MaxSeq /\ S # {} /\ watermark[p] \in S
    BY <1>t DEF LockOrderTypeOK
  <2>. HIDE DEF S
  <2>2. Max(S) \in S /\ watermark[p] <= Max(S)
    BY <2>1, MaxFacts
  <2>. QED
    BY <2>1, <2>2 DEF S
<1>. HIDE DEF m
<1>2. LockOrderTypeOK' /\ pc'[p] = "resolved" /\ basis'[p] = m
  BY <1>t, <1>1, <1>m DEF LockOrderTypeOK, Outside
<1>3. Uncommitted(p)
  BY <1>t, <1>1 DEF Uncommitted, Only, LockOrderTypeOK
<1>4. Own(p)'
  BY <1>t, <1>1, <1>2, SameArrival DEF Own, Outside, InTransaction
<1>5. Succeeded(p)'
  BY <1>1, <1>2, <1>m DEF Succeeded
<1>. QED
  BY <1>t, <1>2, <1>3, <1>4, <1>5, StepOf

LEMMA LockJobStep ==
  ASSUME LockInv, arrival' = arrival, NEW p \in Pipelines, LockJob(p)
  PROVE  LockInv'
<1>t. LockOrderTypeOK /\ Own(p) /\ p \in Procs /\ p \notin ready /\ p \notin Records /\ Succeeded(p)
  BY DEF LockInv, Procs, LockOrderTypeOK
<1>1. /\ pc[p] = "resolved" /\ pc' = [pc EXCEPT ![p] = "locked"]
      /\ jobLock[p] \in {Nobody, p} /\ jobLock' = [jobLock EXCEPT ![p] = p]
      /\ UNCHANGED <<ready, watermark, active, entityLock, todo, target, staged, seq, basis, lastSeq>>
  BY DEF LockJob, Free, committed
<1>2. LockOrderTypeOK' /\ pc'[p] = "locked" /\ jobLock'[p] = p
  BY <1>t, <1>1 DEF LockOrderTypeOK, InTransaction
<1>3. Uncommitted(p)
  BY <1>t, <1>1 DEF Uncommitted, Only, LockOrderTypeOK
<1>4. Own(p)'
  <2>1. /\ \A q \in Pipelines : jobLock'[q] = IF q = p THEN p ELSE jobLock[q]
        /\ staged[p] \subseteq Pipelines
    BY <1>t, <1>1 DEF LockOrderTypeOK
  <2>2. target'[p] = Nobody /\ \A q \in staged'[p] : jobLock'[q] = p
    BY <1>t, <1>1, <2>1 DEF Own
  <2>3. p \notin Keyed'
    BY <1>t, SameArrival, ArrivalFacts DEF LockOrderTypeOK
  <2>. QED
    BY <1>t, <1>2, <2>2, <2>3 DEF Own, Outside, InTransaction
<1>5. Succeeded(p)'
  BY <1>t, <1>1, <1>2 DEF Succeeded
<1>. QED
  BY <1>t, <1>2, <1>3, <1>4, <1>5, StepOf

LEMMA LockEntityStep ==
  ASSUME LockInv, arrival' = arrival, NEW p \in Pipelines, LockEntity(p)
  PROVE  LockInv'
<1>. DEFINE s == IF Above(p, p) # {} THEN {p} ELSE {}
<1>t. LockOrderTypeOK /\ Own(p) /\ p \in Procs /\ p \notin ready /\ p \notin Records /\ Succeeded(p)
  BY DEF LockInv, Procs, LockOrderTypeOK
<1>1. /\ pc[p] = "locked" /\ pc' = [pc EXCEPT ![p] = "evaluate"] /\ todo' = [todo EXCEPT ![p] = Pipelines]
      /\ entityLock \in {Nobody, p} /\ entityLock' = p /\ staged' = [staged EXCEPT ![p] = s]
      /\ UNCHANGED <<ready, watermark, active, jobLock, target, seq, basis, lastSeq>>
  BY DEF LockEntity, StartEvaluation, Free, committed
<1>s. s \in SUBSET Pipelines /\ (\A q \in s : q = p)
  OBVIOUS
<1>a. (\E r \in ready : seq[r] > basis[p]) => p \in s
  BY <1>t DEF Above, Visible, SeenWatermark, LockOrderTypeOK
<1>. HIDE DEF s
<1>2. LockOrderTypeOK' /\ pc'[p] = "evaluate" /\ staged'[p] = s
  BY <1>t, <1>1, <1>s DEF LockOrderTypeOK, InTransaction
<1>3. Uncommitted(p)
  BY <1>t, <1>1 DEF Uncommitted, Only, LockOrderTypeOK
<1>4. Own(p)'
  BY <1>t, <1>1, <1>2, <1>s, SameArrival DEF Own, Outside, InTransaction
<1>5. Succeeded(p)'
  BY <1>t, <1>1, <1>2, <1>a DEF Succeeded
<1>. QED
  BY <1>t, <1>2, <1>3, <1>4, <1>5, StepOf

-----------------------------------------------------------------------------
(* The steps of either.                                                    *)

LEMMA EvaluateStep ==
  ASSUME LockInv, arrival' = arrival, NEW x \in Procs, Evaluate(x)
  PROVE  LockInv'
<1>t. /\ LockOrderTypeOK /\ Own(x) /\ x \notin ready /\ pc[x] = "evaluate" /\ target[x] = Nobody
      /\ x \in Records => Judged(x)
      /\ x \in Pipelines => Succeeded(x)
  BY DEF LockInv, LockOrderTypeOK, Evaluate, Own
<1>1. PICK p \in Turn(x) :
        /\ todo' = [todo EXCEPT ![x] = @ \ {p}]
        /\ IF Fires(x, p)
           THEN target' = [target EXCEPT ![x] = p] /\ pc' = [pc EXCEPT ![x] = "upsert"]
           ELSE UNCHANGED <<target, pc>>
  BY DEF Evaluate
<1>u. UNCHANGED <<ready, watermark, active, jobLock, entityLock, staged, seq, basis, lastSeq>>
  BY DEF Evaluate, committed, locks
<1>p. p \in Pipelines /\ p \in todo[x] /\ \A q \in todo[x] : q \in Nat /\ q \in Pipelines /\ p <= q
  BY <1>t, <1>1 DEF Turn, LockOrderTypeOK
<1>2. /\ LockOrderTypeOK' /\ todo'[x] = todo[x] \ {p}
      /\ \/ pc'[x] = "upsert" /\ target'[x] = p
         \/ pc'[x] = "evaluate" /\ target'[x] = Nobody /\ ~Fires(x, p)
  <2>1. CASE Fires(x, p)
    BY <1>t, <1>1, <1>u, <1>p, <2>1 DEF LockOrderTypeOK, InTransaction
  <2>2. CASE ~Fires(x, p)
    BY <1>t, <1>1, <1>u, <1>p, <2>2 DEF LockOrderTypeOK, InTransaction
  <2>. QED
    BY <2>1, <2>2
<1>3. Uncommitted(x)
  BY <1>t, <1>1, <1>u DEF Uncommitted, Only, LockOrderTypeOK
<1>4. Own(x)'
  <2>1. x \in Records => InOrder(x)'
    <3>1. \A q \in todo'[x] : q \in Nat /\ p \in Nat /\ p < q
      BY <1>2, <1>p
    <3>2. x \in Records => \A q \in Pipelines : jobLock[q] = x => \A k \in todo[x] : q < k
      BY <1>t DEF Own, InOrder
    <3>. QED
      BY <1>u, <1>p, <1>2, <3>1, <3>2 DEF InOrder
  <2>. QED
    BY <1>t, <1>u, <1>p, <1>2, <2>1, SameArrival DEF Own, Outside, InTransaction
<1>5. ASSUME x \in Records PROVE Judged(x)'
  <2>1. SUFFICES ASSUME NEW k \in Pipelines, k \notin todo'[x], k # target'[x]
                 PROVE  k \in staged[x] \/
                          /\ Threshold[k] = 1 => seq[x] <= watermark[k]
                          /\ Keyed = Records =>
                               Cardinality({t \in ready \cup {x} : seq[t] > watermark[k]}) < Threshold[k]
    BY <1>u, SameArrival DEF Judged
  <2>2. CASE k # p
    BY <1>5, <1>t, <1>2, <2>1, <2>2 DEF Judged
  <2>3. CASE k = p
    <3>. DEFINE S == {t \in ready \cup {x} : seq[t] > watermark[k]}
    <3>1. ~Fires(x, p)
      BY <1>2, <2>1, <2>3
    <3>2. S = Above(x, p)
      BY <1>5, <1>t, <2>3 DEF Above, Visible, SeenWatermark, LockOrderTypeOK
    <3>3. S \in SUBSET Records /\ Threshold[p] \in Nat \ {0}
      <4>1. ready \subseteq Records /\ arrival \in Arrivals
        BY <1>t DEF LockOrderTypeOK
      <4>. QED
        BY <1>5, <1>p, <4>1, ArrivalFacts
    <3>4. Cardinality(S) \in Nat /\ (Cardinality(S) >= 1 <=> S # {})
      BY <3>3, CountFacts
    <3>5. Cardinality(S) < Threshold[k]
      <4>1. ~(Cardinality(S) >= Threshold[p])
        BY <3>1, <3>2 DEF Fires
      <4>. HIDE DEF S
      <4>. QED
        BY <2>3, <3>3, <3>4, <4>1
    <3>6. Threshold[k] = 1 => seq[x] <= watermark[k]
      <4>1. Threshold[k] = 1 => S = {}
        <5>. HIDE DEF S
        <5>. QED
          BY <3>4, <3>5
      <4>2. seq[x] \in Nat /\ watermark[k] \in Nat
        BY <1>5, <1>t DEF LockOrderTypeOK
      <4>. QED
        BY <4>1, <4>2
    <3>. QED
      BY <3>5, <3>6
  <2>. QED
    BY <2>2, <2>3
<1>6. ASSUME x \in Pipelines PROVE Succeeded(x)'
  BY <1>6, <1>t, <1>u, <1>2, SameArrival DEF Succeeded
<1>. QED
  BY <1>2, <1>3, <1>4, <1>5, <1>6, StepOf

LEMMA UpsertStep ==
  ASSUME LockInv, arrival' = arrival, NEW x \in Procs, Upsert(x)
  PROVE  LockInv'
<1>. DEFINE q == target[x]
<1>t. /\ LockOrderTypeOK /\ Own(x) /\ x \notin ready /\ pc[x] = "upsert" /\ q \in Pipelines
      /\ x \in Records => Judged(x)
      /\ x \in Pipelines => Succeeded(x)
  BY DEF LockInv, LockOrderTypeOK, Upsert, Own
<1>1. /\ jobLock[q] \in {Nobody, x} /\ jobLock' = [jobLock EXCEPT ![q] = x]
      /\ staged' = [staged EXCEPT ![x] = @ \cup {q}]
      /\ pc' = [pc EXCEPT ![x] = "evaluate"] /\ target' = [target EXCEPT ![x] = Nobody]
      /\ UNCHANGED <<ready, watermark, active, entityLock, todo, seq, basis, lastSeq>>
  BY DEF Upsert, Free, committed
<1>2. /\ LockOrderTypeOK' /\ pc'[x] = "evaluate" /\ target'[x] = Nobody
      /\ staged'[x] = staged[x] \cup {q} /\ staged[x] \subseteq Pipelines
      /\ \A k \in Pipelines : jobLock'[k] = IF k = q THEN x ELSE jobLock[k]
  BY <1>t, <1>1 DEF LockOrderTypeOK, InTransaction
<1>3. Uncommitted(x)
  BY <1>t, <1>1 DEF Uncommitted, Only, LockOrderTypeOK
<1>4. Own(x)'
  <2>1. x \in Records => InOrder(x)'
    BY <1>t, <1>1, <1>2 DEF Own, InOrder
  <2>. QED
    BY <1>t, <1>1, <1>2, <2>1, SameArrival DEF Own, Outside, InTransaction
<1>5. ASSUME x \in Records PROVE Judged(x)'
  BY <1>5, <1>t, <1>1, <1>2, SameArrival DEF Judged
<1>6. ASSUME x \in Pipelines PROVE Succeeded(x)'
  BY <1>6, <1>t, <1>1, <1>2, SameArrival DEF Succeeded
<1>. QED
  BY <1>2, <1>3, <1>4, <1>5, <1>6, StepOf

\* A transaction that PostgreSQL aborts leaves its locks, and nothing else.
LEMMA AbortStep ==
  ASSUME LockInv, arrival' = arrival, NEW x \in Procs, Abort(x)
  PROVE  LockInv'
<1>t. LockOrderTypeOK /\ Own(x)
  BY DEF LockInv
<1>1. /\ pc' = [pc EXCEPT ![x] = "idle"] /\ todo' = [todo EXCEPT ![x] = {}]
      /\ target' = [target EXCEPT ![x] = Nobody] /\ staged' = [staged EXCEPT ![x] = {}]
      /\ jobLock' = [p \in Pipelines |-> IF jobLock[p] = x THEN Nobody ELSE jobLock[p]]
      /\ entityLock' = IF entityLock = x THEN Nobody ELSE entityLock
      /\ seq' = IF x \in Records THEN [seq EXCEPT ![x] = 0] ELSE seq
      /\ UNCHANGED <<ready, watermark, active, basis, lastSeq>>
  BY DEF Abort, Release, WorkOf, committed
<1>r. x \notin ready
  <2>1. \E y \in Procs : WaitsFor(x, y)
    BY DEF Abort, Waiting
  <2>2. pc[x] # "done"
    BY <2>1 DEF WaitsFor
  <2>. QED
    BY <2>2 DEF LockInv
<1>2. /\ LockOrderTypeOK' /\ pc'[x] = "idle" /\ target'[x] = Nobody /\ staged'[x] = {} /\ todo'[x] = {}
  BY <1>t, <1>1 DEF LockOrderTypeOK, Outside
<1>3. Uncommitted(x)
  BY <1>t, <1>1, <1>r DEF Uncommitted, Only, LockOrderTypeOK
<1>4. Own(x)'
  <2>1. (\A p \in Pipelines : jobLock'[p] # x) /\ entityLock' # x
    BY <1>1 DEF Procs
  <2>2. InOrder(x)'
    BY <1>2, <2>1 DEF InOrder
  <2>. QED
    BY <1>2, <2>1, <2>2 DEF Own, Outside, InTransaction
<1>5. Judged(x)' /\ Succeeded(x)'
  BY <1>2 DEF Judged, Succeeded
<1>. QED
  BY <1>2, <1>3, <1>4, <1>5, StepOf

\* A commit publishes what was staged: the mailboxes that an ingest fills are its
\* own until then, and a run that has them itself sees what was committed before.
LEMMA CommitStep ==
  ASSUME LockInv, arrival' = arrival, NEW x \in Procs, Commit(x)
  PROVE  LockInv'
<1>t. /\ LockOrderTypeOK /\ Own(x) /\ NoLostStimulus
      /\ \A y \in Procs : Own(y)
      /\ \A r \in Records : Judged(r)
      /\ \A p \in Pipelines : Succeeded(p)
      /\ ready \subseteq Records
  BY DEF LockInv, LockOrderTypeOK
<1>0. pc[x] = "evaluate" /\ todo[x] = {} /\ target[x] = Nobody /\ x \notin ready
  BY <1>t DEF Commit, Own, LockInv
<1>. DEFINE after == IF x \in Records THEN "done" ELSE "idle"
<1>1. /\ pc' = [pc EXCEPT ![x] = after] /\ todo' = [todo EXCEPT ![x] = {}]
      /\ target' = [target EXCEPT ![x] = Nobody] /\ staged' = [staged EXCEPT ![x] = {}]
      /\ jobLock' = [p \in Pipelines |-> IF jobLock[p] = x THEN Nobody ELSE jobLock[p]]
      /\ entityLock' = IF entityLock = x THEN Nobody ELSE entityLock
      /\ ready' = IF x \in Records THEN ready \cup {x} ELSE ready
      /\ active' = [p \in Pipelines |-> IF p \in staged[x] THEN TRUE ELSE (active[p] /\ p # x)]
      /\ watermark' = [p \in Pipelines |-> IF p = x THEN basis[p] ELSE watermark[p]]
      /\ UNCHANGED <<seq, basis, lastSeq>>
  BY DEF Commit, Release, WorkOf, Filled
<1>2. /\ LockOrderTypeOK' /\ pc'[x] = after /\ target'[x] = Nobody /\ staged'[x] = {} /\ todo'[x] = {}
  BY <1>t, <1>1 DEF LockOrderTypeOK, Outside
<1>3. Only(x)
  BY <1>t, <1>1 DEF Only, LockOrderTypeOK
<1>4. \A y \in Procs : Own(y)'
  <2>1. (\A p \in Pipelines : jobLock'[p] # x) /\ entityLock' # x
    BY <1>1 DEF Procs
  <2>2. InOrder(x)'
    BY <1>2, <2>1 DEF InOrder
  <2>3. Own(x)'
    BY <1>2, <2>1, <2>2 DEF Own, Outside, InTransaction, Procs
  <2>. QED
    BY <1>t, <1>3, <2>3, OthersOwn
<1>5. \A r \in ready' : pc'[r] = "done"
  BY <1>t, <1>1, <1>2, <1>3 DEF LockInv, Only, Procs
<1>c. Keyed' = Keyed /\ Threshold' = Threshold /\ Keyed \subseteq Records
      /\ \A p \in Pipelines : Threshold[p] \in Nat \ {0}
  BY <1>t, SameArrival, ArrivalFacts DEF LockOrderTypeOK
\* Where ingests follow each other, nobody else is between its triggers and its commit.
<1>e. ASSUME Keyed = Records, NEW y \in Procs, y # x PROVE pc[y] \notin {"evaluate", "upsert"}
  <2>1. \A z \in Procs : pc[z] \in {"evaluate", "upsert"} => entityLock = z
    BY <1>e, <1>t DEF Own, Procs, InTransaction
  <2>. QED
    BY <1>0, <1>e, <2>1
<1>6. ASSUME NEW r \in Records PROVE Judged(r)'
  <2>1. CASE r = x
    BY <1>2, <2>1, <1>6 DEF Judged
  <2>2. CASE r # x
    <3>1. SUFFICES ASSUME pc[r] \in {"evaluate", "upsert"},
                          NEW p \in Pipelines, p \notin todo[r], p # target[r], p \notin staged[r]
                   PROVE  /\ Threshold[p] = 1 => seq[r] <= watermark'[p]
                          /\ Keyed # Records
      BY <1>1, <1>3, <1>6, <1>c, <2>2 DEF Judged, Only, Procs
    <3>2. Keyed # Records
      BY <1>e, <1>6, <2>2, <3>1 DEF Procs
    <3>3. Threshold[p] = 1 => seq[r] <= watermark[p]
      BY <1>6, <1>t, <3>1 DEF Judged
    <3>4. watermark'[p] \in Nat /\ watermark[p] \in Nat /\ watermark[p] <= watermark'[p] /\ seq[r] \in Nat
      <4>1. p = x => watermark[p] <= basis[p]
        BY <1>0, <1>t DEF Succeeded
      <4>. QED
        BY <1>1, <1>t, <1>2, <4>1 DEF LockOrderTypeOK
    <3>. QED
      BY <3>2, <3>3, <3>4
  <2>. QED
    BY <2>1, <2>2
<1>7. ASSUME NEW p \in Pipelines PROVE Succeeded(p)'
  <2>1. CASE p = x
    BY <1>2, <2>1, <1>7 DEF Succeeded
  <2>2. CASE p # x
    <3>1. /\ pc'[p] = pc[p] /\ staged'[p] = staged[p] /\ watermark'[p] = watermark[p] /\ basis'[p] = basis[p]
          /\ Covered(p)' = Covered(p) /\ Succeeded(p) /\ Own(p)
      BY <1>1, <1>3, <1>7, <1>c, <1>t, <2>2 DEF Only, Procs, Covered
    <3>2. ASSUME pc[p] \in {"evaluate", "upsert"}, Covered(p), x \in Records PROVE ~(seq[x] > basis[p])
      <4>1. Keyed # Records /\ Threshold[p] = 1
        BY <1>e, <2>2, <3>2 DEF Covered, Procs
      <4>2. p \notin staged[x]
        <5>1. jobLock[p] = p
          BY <3>1, <3>2 DEF Own
        <5>. QED
          BY <1>t, <2>2, <5>1 DEF Own
      <4>3. seq[x] <= watermark[p]
        BY <1>0, <1>t, <3>2, <4>1, <4>2 DEF Judged
      <4>4. watermark[p] <= basis[p]
        BY <3>1, <3>2 DEF Succeeded
      <4>5. seq[x] \in Nat /\ watermark[p] \in Nat /\ basis[p] \in Nat
        BY <1>t, <3>2 DEF LockOrderTypeOK
      <4>. QED
        BY <4>3, <4>4, <4>5
    <3>. QED
      BY <1>1, <3>1, <3>2 DEF Succeeded
  <2>. QED
    BY <2>1, <2>2
<1>8. NoLostStimulus'
  <2>1. SUFFICES ASSUME NEW p \in Pipelines, Covered(p),
                        Cardinality({t \in ready' : seq[t] > watermark'[p]}) >= Threshold[p]
                 PROVE  p \in staged[x] \/ (active[p] /\ p # x)
    BY <1>1, <1>c DEF NoLostStimulus, Covered
  <2>. DEFINE S == {t \in ready' : seq[t] > watermark'[p]}
  <2>2. S \in SUBSET Records
    BY <1>t, <1>1
  <2>3. Cardinality(S) \in Nat /\ (Cardinality(S) >= 1 <=> S # {}) /\ Threshold[p] \in Nat \ {0}
    BY <2>2, <1>c, CountFacts
  <2>4. S # {}
    <3>1. Cardinality(S) >= Threshold[p]
      BY <2>1
    <3>. HIDE DEF S
    <3>. QED
      BY <2>3, <3>1
  <2>5. CASE x = p
    <3>1. S = {t \in ready : seq[t] > basis[p]}
      BY <1>1, <2>5
    <3>. QED
      BY <1>0, <1>t, <2>1, <2>4, <2>5, <3>1 DEF Succeeded
  <2>6. CASE x \in Pipelines /\ x # p
    <3>1. S = {t \in ready : seq[t] > watermark[p]}
      BY <1>1, <2>6
    <3>2. active[p]
      BY <1>t, <2>1, <3>1 DEF NoLostStimulus, Covered
    <3>. QED
      BY <2>6, <3>2
  <2>7. CASE x \in Records
    <3>1. S = {t \in ready \cup {x} : seq[t] > watermark[p]} /\ x # p
      BY <1>1, <2>7
    <3>2. ASSUME p \notin staged[x] PROVE active[p]
      <4>1. /\ Threshold[p] = 1 => seq[x] <= watermark[p]
            /\ Keyed = Records => Cardinality(S) < Threshold[p]
        BY <1>0, <1>t, <2>7, <3>1, <3>2 DEF Judged
      <4>2. ~(Cardinality(S) < Threshold[p])
        <5>1. Cardinality(S) >= Threshold[p]
          BY <2>1
        <5>. HIDE DEF S
        <5>. QED
          BY <2>3, <5>1
      <4>3. Threshold[p] = 1 /\ seq[x] <= watermark[p]
        BY <2>1, <4>1, <4>2 DEF Covered
      <4>4. seq[x] \in Nat /\ watermark[p] \in Nat
        BY <1>t, <2>7 DEF LockOrderTypeOK
      <4>5. S = {t \in ready : seq[t] > watermark[p]}
        BY <3>1, <4>3, <4>4
      <4>. QED
        BY <1>t, <2>1, <4>5 DEF NoLostStimulus, Covered
    <3>. QED
      BY <3>1, <3>2
  <2>. QED
    BY <2>5, <2>6, <2>7 DEF Procs
<1>. QED
  BY <1>2, <1>4, <1>5, <1>6, <1>7, <1>8 DEF LockInv

LEMMA StillStep ==
  ASSUME LockInv, UNCHANGED lockOrderVars
  PROVE  LockInv'
<1>1. UNCHANGED <<arrival, ready, watermark, active, jobLock, entityLock, pc, todo, target, staged, seq,
                  basis, lastSeq>>
  BY DEF lockOrderVars
<1>2. /\ LockOrderTypeOK' /\ NoLostStimulus' /\ \A r \in ready' : pc'[r] = "done"
  BY <1>1, SameArrival DEF LockInv, LockOrderTypeOK, NoLostStimulus
<1>3. \A x \in Procs : Own(x)'
  BY <1>1, SameArrival DEF LockInv, Own, InOrder
<1>4. (\A r \in Records : Judged(r)') /\ (\A p \in Pipelines : Succeeded(p)')
  BY <1>1, SameArrival DEF LockInv, Judged, Succeeded, Covered
<1>. QED
  BY <1>2, <1>3, <1>4 DEF LockInv

LEMMA LocksInductive == LockInv /\ [LockOrderNext]_lockOrderVars => LockInv'
<1>. SUFFICES ASSUME LockInv, [LockOrderNext]_lockOrderVars PROVE LockInv'
  OBVIOUS
<1>1. CASE UNCHANGED lockOrderVars
  BY <1>1, StillStep
<1>2. CASE LockOrderNext
  <2>a. arrival' = arrival
    BY <1>2 DEF LockOrderNext
  <2>1. ASSUME NEW r \in Records, Begin(r) \/ InsertRow(r) PROVE LockInv'
    BY <2>a, <2>1, BeginStep, InsertStep
  <2>2. ASSUME NEW p \in Pipelines,
               RequestJob(p) \/ ClaimJob(p) \/ Resolve(p) \/ LockJob(p) \/ LockEntity(p)
        PROVE  LockInv'
    BY <2>a, <2>2, RequestStep, ClaimStep, ResolveStep, LockJobStep, LockEntityStep
  <2>3. ASSUME NEW x \in Procs, Evaluate(x) \/ Upsert(x) \/ Commit(x) \/ Abort(x) PROVE LockInv'
    BY <2>a, <2>3, EvaluateStep, UpsertStep, CommitStep, AbortStep
  <2>. QED
    BY <1>2, <2>1, <2>2, <2>3 DEF LockOrderNext, LockOrderStep
<1>. QED
  BY <1>1, <1>2

-----------------------------------------------------------------------------
(* Theorems.                                                               *)

\* Whatever ingests, requests and commits interleave, the locks are those that
\* insert_records_tx, _claim_owned_tx and evaluate_entity_triggers_tx take, in
\* their order, and what was evaluated under them stands until the commit.
THEOREM LockInvariance == LockOrderSpec => []LockInv
<1>. QED
  BY InitLocks, LocksInductive, PTL DEF LockOrderSpec

\* No stimulus is lost between the evaluation of a trigger and the commit: what
\* fires for the committed records has an active job, for any number of ingests,
\* pipelines, where the threshold is one or the ingests are keyed (triggers.py and
\* runner.py, inside their transactions).
THEOREM StimuliAreNotLost == LockOrderSpec => []NoLostStimulus
<1>1. LockInv => NoLostStimulus
  BY DEF LockInv
<1>. QED
  BY <1>1, LockInvariance, PTL

\* Ingests take the entity lock first and then the mailboxes by the names of their
\* triggers, so that a circle of waits has an executor in it (records.py and
\* triggers.py; the executor takes its job row before the others).
THEOREM IngestsNeverDeadlock == LockOrderSpec => []CyclesNeedAnExecutor
<1>1. LockInv => CyclesNeedAnExecutor
  <2>. SUFFICES ASSUME LockInv, NEW S \in SUBSET Waiting, WaitCycle(S), S \cap Pipelines = {} PROVE FALSE
    BY DEF CyclesNeedAnExecutor
  <2>1. S \subseteq Records /\ S \subseteq Procs /\ \A x \in S : Own(x)
    BY DEF Waiting, Procs, LockInv
  <2>2. ASSUME NEW x \in S, NEW y \in S, WaitsFor(x, y)
        PROVE  pc[x] = "upsert" /\ jobLock[target[x]] = y /\ target[x] \in Pipelines
    <3>1. ASSUME pc[x] = "idle" PROVE FALSE
      <4>1. PICK z \in S : WaitsFor(z, x)
        BY DEF WaitCycle
      <4>2. entityLock # x /\ \A p \in Pipelines : jobLock[p] # x
        BY <2>1, <3>1 DEF Own, Outside
      <4>3. pc[z] = "upsert" /\ jobLock[target[z]] = x
        BY <2>1, <4>1, <4>2 DEF WaitsFor, Own
      <4>. QED
        BY <2>1, <4>2, <4>3 DEF Own
    <3>. QED
      BY <2>1, <2>2, <3>1 DEF WaitsFor, Own
  <2>3. \A x \in S : pc[x] = "upsert" /\ target[x] \in Pipelines
    BY <2>2 DEF WaitCycle
  <2>. DEFINE T == {target[x] : x \in S}
  <2>4. T \subseteq Nat /\ T # {}
    BY <2>3 DEF WaitCycle
  <2>5. PICK m \in T : \A n \in T : m <= n
    <3>. HIDE DEF T
    <3>. QED
      BY <2>4, LeastTarget
  <2>6. PICK x \in S : m = target[x]
    BY <2>5
  <2>7. PICK z \in S : WaitsFor(z, x)
    BY <2>6 DEF WaitCycle
  <2>8. jobLock[target[z]] = x /\ target[z] \in Pipelines /\ target[z] \in T
    BY <2>2, <2>7
  <2>9. target[z] < target[x]
    BY <2>1, <2>3, <2>8 DEF Own, InOrder
  <2>10. target[x] <= target[z] /\ target[x] \in Nat /\ target[z] \in Nat
    BY <2>3, <2>5, <2>6, <2>8
  <2>. QED
    BY <2>9, <2>10
<1>. QED
  BY <1>1, LockInvariance, PTL

-----------------------------------------------------------------------------
(***************************************************************************)
(* What the capture of a session stores, for every number of hooks and     *)
(* messages, every clock, and every session.                               *)
(*                                                                         *)
(* An ordinal is allocated once, because the floor of the session file     *)
(* only rises; so an ordinal names one envelope wherever it is, and a      *)
(* dedupe key, which is drawn from the ordinal or from the message, one    *)
(* record of the server.                                                   *)
(***************************************************************************)
SpoolKeys == Nat \X Nat
Envelopes == [key : SpoolKeys, message : Nat, ordinal : Nat]
SpoolPhases == {"idle", "flushing", "allocated", "read", "ok", "refused", "away"}
HookTypes == [phase : SpoolPhases, holds : Envelopes, list : SUBSET SpoolKeys]

\* Types, as far as the argument needs them.
SpoolTypes ==
    /\ session \in Sessions
    /\ file.next \in Nat
    /\ pending \subseteq Envelopes /\ server \subseteq Envelopes
    /\ hook \in [Hooks -> HookTypes]

\* Processes that have an envelope at hand.
Holding(h) == hook[h].phase \notin {"idle", "flushing"}

\* Every envelope there is.
Enveloped == pending \cup server \cup {hook[h].holds : h \in {h \in Hooks : Holding(h)}}

\* An envelope was allocated: below the floor, under its token, and alone with
\* its ordinal.
Allocated ==
    /\ \A e \in Enveloped : e.ordinal < file.next /\ e.key = Token(e.message, e.ordinal)
    /\ \A e, f \in Enveloped : e.ordinal = f.ordinal => e = f

\* What was answered is stored.
AnsweredIsStored == \A h \in Hooks : hook[h].phase = "ok" => hook[h].holds \in server

\* A token names one record.
KeysAreUnique == \A r, s \in server : r.key = s.key => r = s

NothingLost == \A key \in spooled : key \in Listed \cup failed \cup {r.key : r \in server}

SpoolInv == SpoolTypes /\ Allocated /\ AnsweredIsStored /\ KeysAreUnique /\ NothingLost

\* Messages are heard one after the other.
HeardInOrder == \E n \in Nat : DOMAIN heard = 1 .. n

CaptureInv == SpoolInv /\ HeardInOrder

USE SpoolAssumption

-----------------------------------------------------------------------------
\* One process at a time.
LEMMA HookTyped ==
  ASSUME hook \in [Hooks -> HookTypes], NEW h \in Hooks, NEW m \in HookTypes
  PROVE  [hook EXCEPT ![h] = m] \in [Hooks -> HookTypes]
  OBVIOUS

\* A process without an envelope.
LEMMA RestingTyped ==
  ASSUME NEW p \in {"idle", "flushing"}, NEW keys \in SUBSET SpoolKeys
  PROVE  /\ [Resting EXCEPT !.phase = p, !.list = keys] \in HookTypes
         /\ [Resting EXCEPT !.phase = p, !.list = keys].phase = p
         /\ Resting \in HookTypes /\ Resting.phase = "idle"
<1>1. Resting \in HookTypes /\ Resting.phase = "idle"
  BY DEF Resting, HookTypes, NoEnvelope, Envelopes, SpoolKeys, SpoolPhases
<1>. QED
  BY <1>1 DEF HookTypes, SpoolPhases

LEMMA ListedTyped == SpoolTypes => Listed \in SUBSET SpoolKeys
  BY DEF SpoolTypes, Listed, Envelopes

\* Steps that bring no envelope into being and lose none that matters.
LEMMA NoNewEnvelope ==
  ASSUME SpoolInv, SpoolTypes', Enveloped' \subseteq Enveloped, server \subseteq server',
         session' = session, file'.next >= file.next,
         AnsweredIsStored', KeysAreUnique', NothingLost'
  PROVE  SpoolInv'
<1>1. Allocated'
  <2>1. \A e \in Enveloped' : e.ordinal < file'.next /\ e.key = Token(e.message, e.ordinal)'
    <3>. SUFFICES ASSUME NEW e \in Enveloped' 
                  PROVE  e.ordinal < file'.next /\ e.key = Token(e.message, e.ordinal)'
      OBVIOUS
    <3>1. e \in Enveloped /\ e.ordinal < file.next /\ e.key = Token(e.message, e.ordinal)
      BY DEF SpoolInv, Allocated
    <3>2. e.ordinal \in Nat
      BY <3>1 DEF SpoolInv, SpoolTypes, Enveloped, HookTypes, Envelopes
    <3>. QED
      BY <3>1, <3>2 DEF SpoolInv, SpoolTypes, Token
  <2>. QED
    BY <2>1 DEF SpoolInv, Allocated
<1>. QED
  BY <1>1 DEF SpoolInv

\* A process that stops, or goes on without an envelope.
LEMMA RestStep ==
  ASSUME SpoolInv, NEW h \in Hooks, NEW m \in HookTypes, m.phase \in {"idle", "flushing"},
         hook' = [hook EXCEPT ![h] = m],
         UNCHANGED <<session, pending, failed, server, spooled>>, file' = file
  PROVE  SpoolInv'
<1>1. SpoolTypes'
  BY HookTyped DEF SpoolInv, SpoolTypes
<1>2. \A g \in Hooks : g # h => hook'[g] = hook[g]
  BY DEF SpoolInv, SpoolTypes
<1>3. hook'[h] = m
  BY DEF SpoolInv, SpoolTypes
<1>4. Enveloped' \subseteq Enveloped
  BY <1>2, <1>3 DEF Enveloped, Holding
<1>5. AnsweredIsStored' /\ KeysAreUnique' /\ NothingLost'
  BY <1>2, <1>3 DEF SpoolInv, AnsweredIsStored, KeysAreUnique, NothingLost, Listed
<1>6. file'.next >= file.next
  BY DEF SpoolInv, SpoolTypes
<1>. QED
  BY <1>1, <1>4, <1>5, <1>6, NoNewEnvelope

-----------------------------------------------------------------------------
(* Invariance: one step per action.                                        *)

LEMMA InitSpool == SpoolInit => SpoolInv
<1>. SUFFICES ASSUME SpoolInit PROVE SpoolInv
  OBVIOUS
<1>1. Resting \in HookTypes /\ Resting.phase = "idle"
  BY RestingTyped
<1>2. SpoolTypes
  BY <1>1 DEF SpoolInit, SpoolTypes
<1>3. Enveloped = {}
  BY <1>1 DEF SpoolInit, Enveloped, Holding
<1>4. AnsweredIsStored /\ KeysAreUnique /\ NothingLost
  BY <1>1 DEF SpoolInit, AnsweredIsStored, KeysAreUnique, NothingLost
<1>. QED
  BY <1>2, <1>3, <1>4 DEF SpoolInv, Allocated

\* A new ordinal is the floor or later, and the floor rises above it.
LEMMA AllocateStep ==
  ASSUME SpoolInv, NEW h \in Hooks, NEW message \in Nat, NEW text, NEW now \in Times,
         Allocate(h, message, text, now), UNCHANGED <<session, pending, failed, server, spooled>>
  PROVE  SpoolInv'
<1>. DEFINE ordinal == Ordinal(file.next, now)
            event == [key |-> Token(message, ordinal), message |-> message, ordinal |-> ordinal]
<1>t. SpoolTypes /\ now \in Nat /\ Listed \in SUBSET SpoolKeys
  BY ListedTyped DEF SpoolInv
<1>1. CASE RetryOf(message, text, now) # {}
  <2>1. /\ hook' = [hook EXCEPT ![h] = [Resting EXCEPT !.phase = "flushing", !.list = Listed]]
        /\ file' = file
    BY <1>1 DEF Allocate
  <2>2. /\ [Resting EXCEPT !.phase = "flushing", !.list = Listed] \in HookTypes
        /\ [Resting EXCEPT !.phase = "flushing", !.list = Listed].phase = "flushing"
    BY <1>t, RestingTyped
  <2>. QED
    BY <2>1, <2>2, RestStep
<1>2. CASE RetryOf(message, text, now) = {}
  <2>1. /\ file'.next = ordinal + 1
        /\ hook' = [hook EXCEPT ![h] = [Resting EXCEPT !.phase = "allocated", !.holds = event]]
    BY <1>2 DEF Allocate
  <2>2. ordinal \in Nat /\ ordinal >= file.next
    BY <1>t DEF Ordinal, SpoolTypes
  <2>3. event \in Envelopes /\ event.ordinal = ordinal /\ event.key = Token(event.message, event.ordinal)
    <3>1. Token(message, ordinal) \in SpoolKeys
      BY <2>2 DEF Token, SpoolKeys
    <3>. QED
      BY <2>2, <3>1 DEF Envelopes
  <2>. HIDE DEF event, ordinal
  <2>4. /\ [Resting EXCEPT !.phase = "allocated", !.holds = event] \in HookTypes
        /\ [Resting EXCEPT !.phase = "allocated", !.holds = event].phase = "allocated"
        /\ [Resting EXCEPT !.phase = "allocated", !.holds = event].holds = event
    <3>1. Resting \in HookTypes
      BY RestingTyped
    <3>. QED
      BY <2>3, <3>1 DEF HookTypes, SpoolPhases
  <2>5. SpoolTypes'
    BY <1>t, <2>1, <2>2, <2>4, HookTyped DEF SpoolTypes
  <2>6. /\ hook'[h].phase = "allocated" /\ hook'[h].holds = event
        /\ \A g \in Hooks : g # h => hook'[g] = hook[g]
    BY <1>t, <2>1, <2>4 DEF SpoolTypes
  <2>7. Enveloped' \subseteq Enveloped \cup {event}
    BY <2>6 DEF Enveloped, Holding
  <2>8. Allocated'
    <3>1. \A e \in Enveloped : e \in Envelopes
      BY <1>t DEF SpoolTypes, Enveloped, HookTypes
    <3>2. \A e \in Enveloped : e.ordinal \in Nat /\ e.ordinal < file.next /\ e.key = Token(e.message, e.ordinal)
      BY <3>1 DEF SpoolInv, Allocated, Envelopes
    <3>3. \A e \in Enveloped : e.ordinal < ordinal
      BY <1>t, <2>2, <3>2 DEF SpoolTypes
    <3>4. \A e \in Enveloped' : e.ordinal < file'.next
      BY <1>t, <2>1, <2>2, <2>3, <2>7, <3>2, <3>3 DEF SpoolTypes
    <3>5. \A e \in Enveloped' : e.key = Token(e.message, e.ordinal)'
      BY <2>3, <2>7, <3>2 DEF Token
    <3>6. \A e, f \in Enveloped' : e.ordinal = f.ordinal => e = f
      BY <2>2, <2>3, <2>7, <3>2, <3>3 DEF SpoolInv, Allocated
    <3>. QED
      BY <3>4, <3>5, <3>6 DEF Allocated
  <2>9. AnsweredIsStored' /\ KeysAreUnique' /\ NothingLost'
    BY <2>6 DEF SpoolInv, AnsweredIsStored, KeysAreUnique, NothingLost, Listed
  <2>. QED
    BY <2>5, <2>8, <2>9 DEF SpoolInv
<1>. QED
  BY <1>1, <1>2

LEMMA MessagesStep ==
  ASSUME SpoolInv, HeardInOrder, NEW h \in Hooks, HearMessage(h) \/ RunAgain(h)
  PROVE  SpoolInv' /\ HeardInOrder'
<1>. PICK n \in Nat : DOMAIN heard = 1 .. n
  BY DEF HeardInOrder
<1>1. CASE HearMessage(h)
  <2>1. Cardinality(DOMAIN heard) = n
    BY FS_Interval
  <2>2. PICK text \in session.texts, now \in Times :
            /\ heard' = [m \in 1 .. n + 1 |-> IF m = n + 1 THEN text ELSE heard[m]]
            /\ Allocate(h, n + 1, text, now)
    BY <1>1, <2>1 DEF HearMessage
  <2>3. SpoolInv'
    BY <1>1, <2>2, AllocateStep DEF HearMessage
  <2>. QED
    BY <2>2, <2>3 DEF HeardInOrder
<1>2. CASE RunAgain(h)
  <2>1. PICK message \in DOMAIN heard, now \in Times : Allocate(h, message, heard[message], now)
    BY <1>2 DEF RunAgain
  <2>2. SpoolInv'
    BY <1>2, <2>1, AllocateStep DEF RunAgain
  <2>. QED
    BY <1>2, <2>2 DEF RunAgain, HeardInOrder
<1>. QED
  BY <1>1, <1>2

\* An envelope at hand is spooled, unless its key is there already.
LEMMA SpoolStep ==
  ASSUME SpoolInv, NEW h \in Hooks, SpoolEnvelope(h)
  PROVE  SpoolInv'
<1>. DEFINE e == hook[h].holds
            m == [Resting EXCEPT !.phase = "flushing", !.list = Listed \cup {e.key}]
<1>t. SpoolTypes /\ Listed \in SUBSET SpoolKeys /\ hook[h] \in HookTypes
  BY ListedTyped DEF SpoolInv, SpoolTypes
<1>1. /\ pending' = IF e.key \in Listed THEN pending ELSE pending \cup {e}
      /\ spooled' = spooled \cup {e.key}
      /\ hook' = [hook EXCEPT ![h] = m]
      /\ UNCHANGED <<session, file, failed, server>>
  BY DEF SpoolEnvelope
<1>2. e \in Envelopes /\ e.key \in SpoolKeys /\ e \in Enveloped
  BY <1>t DEF HookTypes, Envelopes, Enveloped, Holding, SpoolEnvelope
<1>3. m \in HookTypes /\ m.phase = "flushing"
  BY <1>t, <1>2, RestingTyped
<1>. HIDE DEF e, m
<1>4. /\ hook'[h] = m /\ \A g \in Hooks : g # h => hook'[g] = hook[g]
      /\ hook' \in [Hooks -> HookTypes]
  BY <1>t, <1>1, <1>3 DEF SpoolTypes
<1>5. SpoolTypes'
  BY <1>t, <1>1, <1>2, <1>4 DEF SpoolTypes
<1>6. Enveloped' \subseteq Enveloped
  BY <1>1, <1>2, <1>3, <1>4 DEF Enveloped, Holding
<1>7. AnsweredIsStored' /\ KeysAreUnique'
  BY <1>1, <1>3, <1>4 DEF SpoolInv, AnsweredIsStored, KeysAreUnique
<1>8. NothingLost'
  <2>1. Listed \subseteq Listed' /\ e.key \in Listed'
    BY <1>1 DEF Listed
  <2>. QED
    BY <1>1, <2>1 DEF SpoolInv, NothingLost
<1>9. file'.next >= file.next
  BY <1>t, <1>1 DEF SpoolTypes
<1>. QED
  BY <1>1, <1>5, <1>6, <1>7, <1>8, <1>9, NoNewEnvelope

LEMMA FlushStep ==
  ASSUME SpoolInv, NEW h \in Hooks, BeginFlush(h) \/ HookDies(h)
  PROVE  SpoolInv'
<1>1. Listed \in SUBSET SpoolKeys
  BY ListedTyped DEF SpoolInv
<1>2. /\ [Resting EXCEPT !.phase = "flushing", !.list = Listed] \in HookTypes
      /\ [Resting EXCEPT !.phase = "flushing", !.list = Listed].phase = "flushing"
      /\ Resting \in HookTypes /\ Resting.phase = "idle"
  BY <1>1, RestingTyped
<1>3. CASE BeginFlush(h)
  BY <1>2, <1>3, RestStep DEF BeginFlush
<1>4. CASE HookDies(h)
  BY <1>2, <1>4, RestStep DEF HookDies
<1>. QED
  BY <1>3, <1>4

LEMMA ReadStep ==
  ASSUME SpoolInv, NEW h \in Hooks, ReadEnvelope(h)
  PROVE  SpoolInv'
<1>t. SpoolTypes /\ hook[h] \in HookTypes
  BY DEF SpoolInv, SpoolTypes
<1>u. UNCHANGED <<session, file, pending, failed, server, spooled>>
  BY DEF ReadEnvelope
<1>1. CASE ~(hook[h].list # {} /\ NextFile(h) \in Listed)
  <2>1. hook' = [hook EXCEPT ![h] = Resting]
    BY <1>t, <1>1 DEF ReadEnvelope, SpoolTypes
  <2>. QED
    BY <1>u, <2>1, RestingTyped, RestStep
<1>2. CASE hook[h].list # {} /\ NextFile(h) \in Listed
  <2>. DEFINE e == CHOOSE e \in pending : e.key = NextFile(h)
              m == [hook[h] EXCEPT !.phase = "read", !.holds = e]
  <2>1. e \in pending
    BY <1>2 DEF Listed
  <2>2. hook' = [hook EXCEPT ![h] = m]
    BY <1>t, <1>2 DEF ReadEnvelope, SpoolTypes
  <2>. HIDE DEF e
  <2>3. m \in HookTypes /\ m.phase = "read" /\ m.holds = e
    BY <1>t, <2>1 DEF HookTypes, SpoolPhases, SpoolTypes
  <2>. HIDE DEF m
  <2>4. /\ hook'[h] = m /\ \A g \in Hooks : g # h => hook'[g] = hook[g]
        /\ hook' \in [Hooks -> HookTypes]
    BY <1>t, <2>2, <2>3 DEF SpoolTypes
  <2>5. SpoolTypes'
    BY <1>t, <1>u, <2>4 DEF SpoolTypes
  <2>6. Enveloped' \subseteq Enveloped
    BY <1>u, <2>1, <2>3, <2>4 DEF Enveloped, Holding
  <2>7. AnsweredIsStored' /\ KeysAreUnique' /\ NothingLost'
    BY <1>u, <2>3, <2>4 DEF SpoolInv, AnsweredIsStored, KeysAreUnique, NothingLost, Listed
  <2>8. file'.next >= file.next
    BY <1>t, <1>u DEF SpoolTypes
  <2>. QED
    BY <1>u, <2>5, <2>6, <2>7, <2>8, NoNewEnvelope
<1>. QED
  BY <1>1, <1>2

\* The server takes an envelope whose key it does not know, and says so only
\* then.
LEMMA SendStep ==
  ASSUME SpoolInv, NEW h \in Hooks, Send(h)
  PROVE  SpoolInv'
<1>. DEFINE e == hook[h].holds
            taken == IF Accepts(e) THEN server \cup {e} ELSE server
<1>t. SpoolTypes /\ hook[h] \in HookTypes
  BY DEF SpoolInv, SpoolTypes
<1>u. UNCHANGED <<session, file, pending, failed, spooled>>
  BY DEF Send
<1>e. e \in Envelopes /\ e \in Enveloped
  BY <1>t DEF Send, HookTypes, Enveloped, Holding
<1>1. /\ server' \in {server, taken}
      /\ \E phase \in {"ok", "refused", "away"} :
            /\ hook' = [hook EXCEPT ![h].phase = phase]
            /\ phase = "ok" => Accepts(e) /\ server' = taken
  BY Zenon DEF Send
<1>2. PICK phase \in {"ok", "refused", "away"} :
            /\ hook' = [hook EXCEPT ![h].phase = phase]
            /\ phase = "ok" => Accepts(e) /\ server' = taken
  BY <1>1
<1>3. server \subseteq server' /\ server' \subseteq server \cup {e} /\ (server' # server => Accepts(e))
  BY <1>1
<1>4. /\ hook'[h].phase = phase /\ hook'[h].holds = e
      /\ \A g \in Hooks : g # h => hook'[g] = hook[g]
      /\ hook' \in [Hooks -> HookTypes]
  BY <1>t, <1>2 DEF SpoolTypes, HookTypes, SpoolPhases
<1>5. SpoolTypes'
  BY <1>t, <1>u, <1>e, <1>3, <1>4 DEF SpoolTypes
<1>6. Enveloped' \subseteq Enveloped
  BY <1>u, <1>e, <1>3, <1>4 DEF Enveloped, Holding
<1>7. AnsweredIsStored'
  <2>1. phase = "ok" => e \in server'
    BY <1>2
  <2>. QED
    BY <1>3, <1>4, <2>1 DEF SpoolInv, AnsweredIsStored
<1>8. KeysAreUnique'
  BY <1>3 DEF SpoolInv, KeysAreUnique, Accepts
<1>9. NothingLost'
  BY <1>u, <1>3 DEF SpoolInv, NothingLost, Listed
<1>. QED
  BY <1>t, <1>u, <1>3, <1>5, <1>6, <1>7, <1>8, <1>9, NoNewEnvelope DEF SpoolTypes

\* A file leaves pending once the server has its record, or for failed.
LEMMA SettleStep ==
  ASSUME SpoolInv, NEW h \in Hooks, Settle(h)
  PROVE  SpoolInv'
<1>. DEFINE key == hook[h].holds.key
            gone == {e \in pending : e.key = key}
            on == [Resting EXCEPT !.phase = "flushing", !.list = hook[h].list \ {key}]
<1>t. SpoolTypes /\ hook[h] \in HookTypes
  BY DEF SpoolInv, SpoolTypes
<1>u. UNCHANGED <<session, file, server, spooled>>
  BY DEF Settle
<1>1. /\ pending' = IF hook[h].phase \in {"ok", "refused"} THEN pending \ gone ELSE pending
      /\ failed' = IF hook[h].phase = "refused" /\ gone # {} THEN failed \cup {key} ELSE failed
      /\ hook' = [hook EXCEPT ![h] = on] \/ hook' = [hook EXCEPT ![h] = Resting]
  BY DEF Settle, Unlinks
<1>2. on \in HookTypes /\ on.phase = "flushing" /\ Resting \in HookTypes /\ Resting.phase = "idle"
  <2>1. hook[h].list \ {key} \in SUBSET SpoolKeys
    BY <1>t DEF HookTypes
  <2>. QED
    BY <2>1, RestingTyped
<1>. HIDE DEF on
<1>3. /\ hook'[h].phase \in {"idle", "flushing"}
      /\ \A g \in Hooks : g # h => hook'[g] = hook[g]
      /\ hook' \in [Hooks -> HookTypes]
  BY <1>t, <1>1, <1>2 DEF SpoolTypes
<1>4. SpoolTypes' /\ pending' \subseteq pending
  BY <1>t, <1>u, <1>1, <1>3 DEF SpoolTypes
<1>5. Enveloped' \subseteq Enveloped
  BY <1>u, <1>3, <1>4 DEF Enveloped, Holding
<1>6. AnsweredIsStored' /\ KeysAreUnique'
  BY <1>u, <1>3 DEF SpoolInv, AnsweredIsStored, KeysAreUnique
<1>7. NothingLost'
  <2>. SUFFICES ASSUME NEW k \in spooled
                PROVE  k \in Listed' \cup failed' \cup {r.key : r \in server}
    BY <1>u DEF NothingLost
  <2>1. k \in Listed \cup failed \cup {r.key : r \in server} /\ failed \subseteq failed'
    BY <1>1 DEF SpoolInv, NothingLost
  <2>2. CASE k \in Listed
    <3>1. PICK e \in pending : e.key = k
      BY <2>2 DEF Listed
    <3>2. CASE e \in pending'
      BY <3>1, <3>2 DEF Listed
    <3>3. CASE e \notin pending'
      <4>1. e \in gone /\ k = key /\ hook[h].phase \in {"ok", "refused"}
        BY <1>1, <3>1, <3>3
      <4>2. CASE hook[h].phase = "ok"
        <5>1. hook[h].holds \in server
          BY <4>2 DEF SpoolInv, AnsweredIsStored
        <5>. QED
          BY <4>1, <5>1
      <4>3. CASE hook[h].phase = "refused"
        BY <1>1, <4>1, <4>3
      <4>. QED
        BY <4>1, <4>2, <4>3
    <3>. QED
      BY <3>2, <3>3
  <2>. QED
    BY <2>1, <2>2
<1>8. file'.next >= file.next
  BY <1>t, <1>u DEF SpoolTypes
<1>. QED
  BY <1>u, <1>4, <1>5, <1>6, <1>7, <1>8, NoNewEnvelope

LEMMA StepSpool == CaptureInv /\ [SpoolNext]_spoolVars => CaptureInv'
<1>. SUFFICES ASSUME CaptureInv, [SpoolNext]_spoolVars PROVE CaptureInv'
  OBVIOUS
<1>1. CASE UNCHANGED spoolVars
  BY <1>1 DEF spoolVars, CaptureInv, HeardInOrder, SpoolInv, SpoolTypes, Allocated, Enveloped, Holding,
              Token, AnsweredIsStored, KeysAreUnique, NothingLost, Listed
<1>2. ASSUME NEW h \in Hooks, HearMessage(h) \/ RunAgain(h) PROVE CaptureInv'
  BY <1>2, MessagesStep DEF CaptureInv
<1>3. ASSUME NEW h \in Hooks,
             \/ SpoolEnvelope(h) \/ BeginFlush(h) \/ HookDies(h)
             \/ ReadEnvelope(h) \/ Send(h) \/ Settle(h)
      PROVE  CaptureInv'
  <2>1. heard' = heard
    BY <1>3 DEF SpoolEnvelope, BeginFlush, HookDies, ReadEnvelope, Send, Settle
  <2>2. SpoolInv'
    BY <1>3, SpoolStep, FlushStep, ReadStep, SendStep, SettleStep DEF CaptureInv
  <2>. QED
    BY <2>1, <2>2 DEF CaptureInv, HeardInOrder
<1>. QED
  BY <1>1, <1>2, <1>3 DEF SpoolNext

\* The inductive invariant: an ordinal names one envelope, a key one record, and
\* nothing that was spooled is lost.
THEOREM CaptureInvariance == SpoolSpec => []CaptureInv
<1>1. SpoolInit => CaptureInv
  <2>. SUFFICES ASSUME SpoolInit PROVE HeardInOrder
    BY InitSpool DEF CaptureInv
  <2>1. DOMAIN heard = 1 .. 0
    BY DEF SpoolInit
  <2>. QED
    BY <2>1 DEF HeardInOrder
<1>. QED
  BY <1>1, StepSpool, PTL DEF SpoolSpec

\* Whatever was spooled is in a directory until the server has it, and the
\* server has a message once and one message for an ordinal, although hooks
\* race, die, are run again after the session file has forgotten them, and the
\* clock is set back: the floor of the session file and the server's check of
\* the dedupe key are enough (memseek_state.py).
THEOREM MessagesStoredOnce == SpoolSpec => []StoredOnce
<1>1. CaptureInv => StoredOnce
  <2>. SUFFICES ASSUME CaptureInv PROVE StoredOnce
    OBVIOUS
  <2>1. SpoolTypes /\ Allocated /\ KeysAreUnique /\ NothingLost
    BY DEF CaptureInv, SpoolInv
  <2>2. ASSUME NEW r \in server, NEW s \in server,
               r.ordinal = s.ordinal \/ (session.turns /\ r.message = s.message)
        PROVE  r = s
    <3>1. r \in Enveloped /\ s \in Enveloped
      BY DEF Enveloped
    <3>2. CASE r.ordinal = s.ordinal
      BY <2>1, <3>1, <3>2 DEF Allocated
    <3>3. CASE session.turns /\ r.message = s.message
      <4>1. r.key = s.key
        BY <2>1, <3>1, <3>3 DEF Allocated, Token
      <4>. QED
        BY <2>1, <4>1 DEF KeysAreUnique
    <3>. QED
      BY <2>2, <3>2, <3>3
  <2>. QED
    BY <2>1, <2>2 DEF StoredOnce, NothingLost
<1>. QED
  BY <1>1, CaptureInvariance, PTL

-----------------------------------------------------------------------------
(***************************************************************************)
(* The search index outside the database.                                  *)
(***************************************************************************)
HIDE SetsAssumption
HIDE NumbersAssumption
HIDE SpoolAssumption

\* Of one slot: versions come in order, one insert at a time, and what an insert of
\* a ready version will enqueue is right until it commits.
RowsHold ==
    /\ row \in [Versions -> {"none", "open", "unready", "derived", "ready", "gone"}]
    /\ \A v, w \in Versions : v < w /\ row[v] = "none" => row[w] = "none"
    /\ \A v \in Versions : row[v] \in {"unready", "derived"} => row[v] \in setting.rows
OpenHolds(v) ==
    row[v] = "open" =>
        /\ opened.as \in setting.rows /\ opened.targets \subseteq Versions
        /\ \A w \in Versions : (w # v => row[w] # "open") /\ (v < w => row[w] = "none")
        /\ opened.as = "ready" => {v} \cup Newest(Ready) \subseteq opened.targets

\* A job that deletes is about versions that are gone for good.
JobHolds(j) == j \in Job /\ (j.kind = "index_delete" => \A v \in j.targets : row[v] = "gone")
JobsHold ==
    /\ IsABag(waiting) /\ \A j \in BagToSet(waiting) : JobHolds(j)
    /\ \A e \in Executors : leased[e] # NoJob => JobHolds(leased[e])

Works == [phase : {"idle", "claimed", "live", "loaded", "upserted", "pushed"},
          job : Job \cup {NoJob}, loaded : [Versions -> Entry]]

\* Who works has a claim, and has read nothing but the targets of its job.
WorkHolds(e) ==
    /\ leased[e] # NoJob \/ work[e].phase # "idle" => e \in setting.executors
    /\ work[e].phase # "idle" => leased[e] # NoJob /\ work[e].job = leased[e]
    /\ work[e].phase \in {"loaded", "upserted"} =>
          \A v \in Versions : ~work[e].loaded[v].held \/ v \notin leased[e].targets =>
                                  work[e].loaded[v] = Absent

\* The entries of v that are right, or will be without another job for v: only the
\* newest ready version waits for a newer one that is not ready yet.
Mended(v) ==
    {Canonical(v)} \cup
    (IF v \in Newest(Ready) /\ \E w \in Versions : w > v /\ row[w] \in {"unready", "derived"}
     THEN {[held |-> TRUE, current |-> TRUE, noted |-> v \in noted]} ELSE {})
Owed(v) == v \in dead \/ \E j \in BagToSet(waiting) : v \in j.targets

\* The executor is still going to write v, and with what.
Pending(e, v) ==
    /\ leased[e] # NoJob /\ v \in leased[e].targets
    /\ \/ work[e].phase \in {"idle", "claimed", "live", "loaded"}
       \/ work[e].phase = "upserted" /\ ~work[e].loaded[v].held
LoadHolds(e, v) ==
    Pending(e, v) /\ work[e].phase \in {"loaded", "upserted"} =>
        work[e].loaded[v] \in Mended(v) \/ Owed(v)
IndexHolds(v) ==
    index[v] \in Mended(v) \/ Owed(v) \/ \E e \in Executors : Pending(e, v)

SlotInv ==
    /\ RowsHold /\ JobsHold
    /\ leased \in [Executors -> Job \cup {NoJob}] /\ work \in [Executors -> Works]
    /\ DOMAIN index = Versions
    /\ \A v \in Versions : OpenHolds(v) /\ IndexHolds(v)
    /\ \A e \in Executors : WorkHolds(e) /\ \A v \in Versions : LoadHolds(e, v)
ProjectionInv == setting \in Settings /\ (Alone /\ ~Mixed => SlotInv)


-----------------------------------------------------------------------------
(* Bags of jobs.                                                           *)

LEMMA BagAdds ==
  ASSUME NEW B, IsABag(B), NEW S
  PROVE  IsABag(B (+) SetToBag(S)) /\ BagToSet(B (+) SetToBag(S)) = BagToSet(B) \cup S
BY DEF IsABag, SetToBag, BagToSet, (+)

LEMMA BagTakes ==
  ASSUME NEW B, IsABag(B), NEW j
  PROVE  /\ IsABag(B (-) SetToBag({j})) /\ BagToSet(B (-) SetToBag({j})) \subseteq BagToSet(B)
         /\ BagToSet(B) \ {j} \subseteq BagToSet(B (-) SetToBag({j}))
BY DEF IsABag, SetToBag, BagToSet, (-)

LEMMA EnqueueHolds ==
  ASSUME IsABag(waiting), NEW requests, Enqueue(requests)
  PROVE  /\ UNCHANGED <<leased, dead>> /\ IsABag(waiting')
         /\ BagToSet(waiting') = BagToSet(waiting) \cup {r \in requests : r.targets # {}}
BY BagAdds DEF Enqueue

\* Where one executor works, nobody else has a claim.
LEMMA Sole ==
  ASSUME setting \in Settings, Alone, NEW e \in setting.executors
  PROVE  setting.executors = {e} /\ e \in Executors
<1>1. setting.executors \subseteq Executors /\ IsFiniteSet(setting.executors)
  BY FS_Subset, BoundsAssumption, SettingsAssumption
<1>2. \E d : setting.executors = {d}
  BY <1>1, FS_Singleton DEF Alone
<1>. QED
  BY <1>1, <1>2

\* The records change and jobs are enqueued.
LEMMA RecordsKeep ==
  ASSUME SlotInv, UNCHANGED <<setting, leased, dead, work, index>>,
         RowsHold', \A v \in Versions : OpenHolds(v)',
         IsABag(waiting'), BagToSet(waiting) \subseteq BagToSet(waiting'),
         \A j \in BagToSet(waiting') : j \in BagToSet(waiting) \/ JobHolds(j)',
         \A v \in Versions : row[v] = "gone" => row'[v] = "gone",
         \A v \in Versions : Mended(v) \subseteq Mended(v)' \/ Owed(v)'
  PROVE  SlotInv'
<1>1. \A j : JobHolds(j) => JobHolds(j)'
  BY DEF JobHolds, Job
<1>2. JobsHold'
  BY <1>1 DEF SlotInv, JobsHold
<1>3. \A v \in Versions : Owed(v) => Owed(v)'
  BY DEF Owed
<1>4. \A e, v : Pending(e, v)' <=> Pending(e, v)
  BY DEF Pending
<1>5. \A e \in Executors : WorkHolds(e)' /\ \A v \in Versions : LoadHolds(e, v)'
  BY <1>3, <1>4 DEF SlotInv, WorkHolds, LoadHolds
<1>6. \A v \in Versions : IndexHolds(v)'
  BY <1>3, <1>4 DEF SlotInv, IndexHolds
<1>. QED
  BY <1>2, <1>5, <1>6 DEF SlotInv

\* The one executor takes a step.
LEMMA ExecutorKeeps ==
  ASSUME SlotInv, NEW e \in Executors, setting.executors = {e}, UNCHANGED <<setting, records>>,
         work' \in [Executors -> Works], leased' \in [Executors -> Job \cup {NoJob}],
         \A d \in Executors : d # e => work'[d] = work[d] /\ leased'[d] = leased[d],
         IsABag(waiting'), \A j \in BagToSet(waiting') : JobHolds(j),
         leased'[e] # NoJob => JobHolds(leased'[e]),
         WorkHolds(e)', DOMAIN index' = Versions,
         \A v \in Versions : LoadHolds(e, v)',
         \A v \in Versions : index'[v] \in Mended(v) \/ Owed(v)' \/ Pending(e, v)'
  PROVE  SlotInv'
<1>1. row' = row /\ opened' = opened /\ noted' = noted
  BY DEF records
<1>2. RowsHold' /\ \A v \in Versions : OpenHolds(v)' /\ Mended(v)' = Mended(v)
  BY <1>1 DEF SlotInv, RowsHold, OpenHolds, Mended, Canonical, Ready, Committed, ReadyIn, CommittedIn
<1>3. \A j : JobHolds(j)' <=> JobHolds(j)
  BY <1>1 DEF JobHolds, Job
<1>4. \A d \in Executors : d # e => leased[d] = NoJob /\ work[d].phase = "idle"
  BY DEF SlotInv, WorkHolds
<1>5. \A d \in Executors : WorkHolds(d)' /\ \A v \in Versions : LoadHolds(d, v)'
  BY <1>4 DEF WorkHolds, LoadHolds, Pending
<1>6. JobsHold'
  BY <1>3, <1>4 DEF JobsHold
<1>7. \A v \in Versions : IndexHolds(v)'
  BY <1>2 DEF IndexHolds
<1>. QED
  BY <1>2, <1>5, <1>6, <1>7 DEF SlotInv


-----------------------------------------------------------------------------
(* The records.                                                            *)

LEMMA InsertKeeps ==
  ASSUME SlotInv, setting \in Settings, NEW v \in Versions, Insert(v), UNCHANGED setting
  PROVE  SlotInv'
<1>1. /\ row \in [Versions -> {"none", "open", "unready", "derived", "ready", "gone"}]
      /\ row[v] = "none" /\ \A w \in 1 .. v - 1 : row[w] # "none"
      /\ opened = Closed /\ row' = [row EXCEPT ![v] = "open"] /\ noted' = noted
      /\ UNCHANGED <<waiting, leased, dead, work, index>>
  BY DEF SlotInv, RowsHold, Insert, NextVersion, queue
<1>2. PICK as \in setting.rows : opened' = [as |-> as, targets |-> InsertTargets(v, as)]
  BY DEF Insert
<1>3. as \in {"unready", "derived", "ready"} /\ "none" \notin setting.rows
  BY SettingsAssumption
<1>4. Ready' = Ready /\ Committed' = Committed /\ v \notin Ready
  BY <1>1 DEF Ready, Committed, ReadyIn, CommittedIn
<1>5. RowsHold'
  <2>1. \A u, w \in Versions : u < w /\ row'[u] = "none" => row'[w] = "none"
    <3>1. \A u \in Versions : u < v => u \in 1 .. v - 1
      BY BoundsAssumption DEF Versions
    <3>. QED
      BY <1>1, <3>1 DEF SlotInv, RowsHold
  <2>. QED
    BY <1>1, <2>1 DEF SlotInv, RowsHold
<1>6. \A w \in Versions : row[w] # "open" /\ (v < w => row[w] = "none")
  BY <1>1, <1>3 DEF SlotInv, OpenHolds, Closed, RowsHold
<1>7. InsertTargets(v, as) \subseteq Versions /\ (as = "ready" => {v} \cup Newest(Ready) \subseteq InsertTargets(v, as))
  <2>1. ReadyIn([row EXCEPT ![v] = "ready"]) \ {v} = Ready
    BY <1>1, <1>4 DEF Ready, ReadyIn
  <2>2. CASE as = "ready"
    BY <2>1, <2>2 DEF InsertTargets, ReadyTargets, RefreshTargets, Newest, ReadyIn, Ready
  <2>3. CASE as = "unready"
    BY <2>3 DEF InsertTargets, RefreshTargets, Newest, ReadyIn
  <2>4. CASE as = "derived"
    BY <2>4 DEF InsertTargets
  <2>. QED
    BY <1>3, <2>2, <2>3, <2>4
<1>8. \A w \in Versions : OpenHolds(w)'
  <2>1. opened'.as = as /\ opened'.targets = InsertTargets(v, as) /\ setting' = setting
    BY <1>2
  <2>2. Newest(Ready)' = Newest(Ready)
    BY <1>4 DEF Newest
  <2>3. \A w \in Versions : row'[w] = "open" => w = v
    BY <1>1, <1>6
  <2>4. \A w \in Versions : v < w => row'[w] = "none"
    BY <1>1, <1>6 DEF Versions
  <2>5. OpenHolds(v)'
    BY <1>7, <2>1, <2>2, <2>3, <2>4 DEF OpenHolds
  <2>. QED
    BY <2>3, <2>5 DEF OpenHolds
<1>9. \A w \in Versions : Mended(w) \subseteq Mended(w)'
  <2>1. \A w \in Versions : row'[w] \in {"unready", "derived"} <=> row[w] \in {"unready", "derived"}
    BY <1>1
  <2>. QED
    BY <1>1, <1>4, <2>1 DEF Mended, Canonical
<1>10. \A w \in Versions : row[w] = "gone" => row'[w] = "gone"
  BY <1>1
<1>11. IsABag(waiting')
  BY <1>1 DEF SlotInv, JobsHold
<1>. QED
  BY <1>1, <1>5, <1>8, <1>9, <1>10, <1>11, RecordsKeep

\* A job is enqueued for each version whose right entry changes.
LEMMA RequestsKeep ==
  ASSUME SlotInv, setting \in Settings, UNCHANGED <<setting, work, index>>,
         NEW requests, Enqueue(requests), \A r \in requests : JobHolds(r)',
         RowsHold', \A v \in Versions : OpenHolds(v)',
         \A v \in Versions : row[v] = "gone" => row'[v] = "gone",
         \A v \in Versions : \/ Mended(v) \subseteq Mended(v)'
                             \/ \E r \in requests : v \in r.targets
  PROVE  SlotInv'
<1>1. IsABag(waiting)
  BY DEF SlotInv, JobsHold
<1>2. /\ UNCHANGED <<leased, dead>> /\ IsABag(waiting')
      /\ BagToSet(waiting') = BagToSet(waiting) \cup {r \in requests : r.targets # {}}
  BY <1>1, EnqueueHolds
<1>3. \A v \in Versions : Mended(v) \subseteq Mended(v)' \/ Owed(v)'
  BY <1>2 DEF Owed
<1>. QED
  BY <1>2, <1>3, RecordsKeep

LEMMA RequestIs ==
  ASSUME NEW kind \in {"index_upsert", "index_delete"}, NEW targets, targets \subseteq Versions
  PROVE  /\ Request(kind, targets) \in Job /\ Request(kind, targets).targets = targets
         /\ Request(kind, targets).kind = kind
BY BoundsAssumption DEF Request, Job

\* Where some rows are ready at once, all are.
LEMMA NotMixed ==
  ASSUME SlotInv, ~ Mixed, "ready" \in setting.rows
  PROVE  \A v \in Versions : row[v] \notin {"unready", "derived"}
BY DEF Mixed, SlotInv, RowsHold

LEMMA CommitInsertKeeps ==
  ASSUME SlotInv, setting \in Settings, ~ Mixed, NEW v \in Versions, CommitInsert(v), UNCHANGED setting
  PROVE  SlotInv'
<1>. DEFINE r == Request("index_upsert", opened.targets)
<1>1. /\ row \in [Versions -> {"none", "open", "unready", "derived", "ready", "gone"}]
      /\ row[v] = "open" /\ row' = [row EXCEPT ![v] = opened.as] /\ noted' = noted
      /\ opened' = Closed /\ Enqueue({r}) /\ UNCHANGED <<work, index>>
  BY DEF SlotInv, RowsHold, CommitInsert
<1>2. /\ opened.as \in setting.rows /\ opened.targets \subseteq Versions
      /\ \A w \in Versions : (w # v => row[w] # "open") /\ (v < w => row[w] = "none")
      /\ opened.as = "ready" => {v} \cup Newest(Ready) \subseteq opened.targets
  BY <1>1 DEF SlotInv, OpenHolds
<1>3. opened.as \in {"unready", "derived", "ready"}
  BY <1>2, SettingsAssumption
<1>4. RowsHold'
  BY <1>1, <1>2, <1>3 DEF SlotInv, RowsHold
<1>5. \A w \in Versions : OpenHolds(w)'
  BY <1>1, <1>2, <1>3 DEF OpenHolds
<1>6. \A q \in {r} : JobHolds(q)' /\ q.targets = opened.targets
  BY <1>2, RequestIs DEF JobHolds, Job
<1>. HIDE DEF r
<1>7. \A w \in Versions : row[w] = "gone" => row'[w] = "gone"
  BY <1>1
<1>8. CASE opened.as = "ready"
  <2>1. Ready = Committed /\ Ready' = Committed' /\ Ready' = Ready \cup {v} /\ v \notin Ready
        /\ \A w \in Versions : row'[w] \notin {"unready", "derived"} /\ row[w] \notin {"unready", "derived"}
    BY <1>1, <1>2, <1>8, NotMixed DEF Ready, Committed, ReadyIn, CommittedIn
  <2>2. ASSUME NEW w \in Versions, w \notin {v} \cup Newest(Ready)
        PROVE  Canonical(w) = Canonical(w)'
    <3>1. w \in Ready <=> w \in Ready'
      BY <2>1, <2>2
    <3>2. (w \in Newest(Committed)) = (w \in Newest(Committed'))
      <4>1. w \notin Newest(Committed)
        BY <2>1, <2>2
      <4>2. w \notin Newest(Committed')
        BY <2>1, <2>2, <4>1 DEF Newest
      <4>. QED
        BY <4>1, <4>2
    <3>. QED
      BY <1>1, <3>1, <3>2, Zenon DEF Canonical
  <2>3. \A w \in Versions : Mended(w) \subseteq Mended(w)' \/ \E q \in {r} : w \in q.targets
    BY <1>2, <1>6, <1>8, <2>1, <2>2 DEF Mended
  <2>. QED
    BY <1>1, <1>4, <1>5, <1>6, <1>7, <2>3, RequestsKeep
<1>9. CASE opened.as # "ready"
  <2>1. Ready' = Ready /\ Committed' = Committed \cup {v} /\ v \notin Ready
    BY <1>1, <1>3, <1>9 DEF Ready, Committed, ReadyIn, CommittedIn
  <2>2. ASSUME NEW w \in Versions
        PROVE  Mended(w) \subseteq Mended(w)'
    <3>1. CASE w \notin Ready
      BY <2>1, <3>1 DEF Mended, Canonical, Newest
    <3>2. CASE w \in Ready
      <4>1. w < v /\ row'[v] \in {"unready", "derived"}
        BY <1>1, <1>2, <1>3, <1>9, <3>2 DEF Ready, ReadyIn, Versions
      <4>2. CASE w \in Newest(Ready)
        <5>. DEFINE entry(b) == [held |-> TRUE, current |-> b, noted |-> w \in noted]
        <5>1. /\ Canonical(w) = entry(w \in Newest(Committed))
              /\ Canonical(w)' = entry(w \in Newest(Committed'))
          BY <1>1, <2>1, <3>2 DEF Canonical, Newest
        <5>2. (w \in Newest(Committed')) = FALSE
          BY <2>1, <4>1 DEF Newest, Versions
        <5>3. (w \in noted') = (w \in noted) /\ w \in Newest(Ready')
          BY <1>1, <2>1, <4>2
        <5>4. Mended(w)' = {Canonical(w)', entry(TRUE)}
          BY <4>1, <5>3, Zenon DEF Mended, Newest, entry
        <5>5. entry(TRUE) \in Mended(w)' /\ entry(FALSE) \in Mended(w)'
          BY <5>1, <5>2, <5>4
        <5>6. Mended(w) \subseteq {entry(TRUE), entry(FALSE)}
          BY <5>1 DEF Mended
        <5>. QED
          BY <5>5, <5>6
      <4>3. CASE w \notin Newest(Ready)
        <5>1. w \notin Newest(Committed) /\ w \notin Newest(Committed')
          BY <2>1, <3>2, <4>3 DEF Newest, Ready, Committed, ReadyIn, CommittedIn
        <5>. QED
          BY <1>1, <2>1, <4>3, <5>1 DEF Mended, Canonical, Newest
      <4>. QED
        BY <4>2, <4>3
    <3>. QED
      BY <3>1, <3>2
  <2>. QED
    BY <1>1, <1>4, <1>5, <1>6, <1>7, <2>2, RequestsKeep
<1>. QED
  BY <1>8, <1>9


LEMMA MakeReadyKeeps ==
  ASSUME SlotInv, setting \in Settings, ~ Mixed, NEW S \in SUBSET Versions, MakeReady(S), UNCHANGED setting
  PROVE  SlotInv'
<1>. DEFINE rows == [w \in Versions |-> IF w \in S THEN "ready" ELSE row[w]]
            r == Request("index_upsert", ReadyTargets(rows, S))
<1>1. /\ row \in [Versions -> {"none", "open", "unready", "derived", "ready", "gone"}]
      /\ S # {} /\ \A v \in S : row[v] \in {"unready", "derived"}
      /\ row' = rows /\ Enqueue({r}) /\ opened' = opened /\ noted' = noted /\ UNCHANGED <<work, index>>
  BY DEF SlotInv, RowsHold, MakeReady
<1>2. "ready" \notin setting.rows
  BY <1>1, NotMixed
<1>3. /\ Ready' = Ready \cup S /\ Committed' = Committed /\ S \cap Ready = {}
      /\ ReadyIn(rows) = Ready \cup S
  BY <1>1 DEF Ready, Committed, ReadyIn, CommittedIn
<1>4. RowsHold'
  BY <1>1 DEF SlotInv, RowsHold
<1>5. \A w \in Versions : OpenHolds(w)'
  BY <1>1, <1>2 DEF SlotInv, OpenHolds
<1>6. S \cup Newest(Ready) \subseteq ReadyTargets(rows, S) /\ ReadyTargets(rows, S) \subseteq Versions
  <2>1. ReadyIn(rows) \ S = Ready
    BY <1>3
  <2>. QED
    BY <1>3, <2>1 DEF ReadyTargets, RefreshTargets, Newest, ReadyIn
<1>7. \A q \in {r} : JobHolds(q)' /\ S \cup Newest(Ready) \subseteq q.targets
  <2>1. r \in Job /\ r.targets = ReadyTargets(rows, S) /\ r.kind = "index_upsert"
    BY <1>6, RequestIs
  <2>. HIDE DEF r
  <2>2. \A q : q \in Job /\ q.kind = "index_upsert" => JobHolds(q)'
    BY DEF JobHolds, Job
  <2>. QED
    BY <1>6, <2>1, <2>2
<1>. HIDE DEF r
<1>8. ASSUME NEW w \in Versions, w \notin S \cup Newest(Ready)
      PROVE  Mended(w) \subseteq Mended(w)'
  <2>1. Canonical(w)' = Canonical(w)
    BY <1>1, <1>3, <1>8 DEF Canonical
  <2>. QED
    BY <1>8, <2>1 DEF Mended
<1>9. \A w \in Versions : row[w] = "gone" => row'[w] = "gone"
  BY <1>1
<1>. QED
  BY <1>1, <1>4, <1>5, <1>7, <1>8, <1>9, RequestsKeep

LEMMA AnnotateKeeps ==
  ASSUME SlotInv, setting \in Settings, NEW v \in Versions, Annotate(v), UNCHANGED setting
  PROVE  SlotInv'
<1>. DEFINE r == Request("index_upsert", {v})
<1>1. /\ noted' = noted \cup {v} /\ Enqueue({r}) /\ row' = row /\ opened' = opened /\ UNCHANGED <<work, index>>
  BY DEF Annotate
<1>2. Ready' = Ready /\ Committed' = Committed
  BY <1>1 DEF Ready, Committed, ReadyIn, CommittedIn
<1>3. RowsHold' /\ \A w \in Versions : OpenHolds(w)'
  BY <1>1, <1>2 DEF SlotInv, RowsHold, OpenHolds, Newest
<1>4. \A q \in {r} : JobHolds(q)' /\ v \in q.targets
  <2>1. r \in Job /\ r.targets = {v} /\ r.kind = "index_upsert"
    BY RequestIs
  <2>. HIDE DEF r
  <2>2. \A q : q \in Job /\ q.kind = "index_upsert" => JobHolds(q)'
    BY DEF JobHolds, Job
  <2>. QED
    BY <2>1, <2>2
<1>. HIDE DEF r
<1>5. ASSUME NEW w \in Versions, w # v
      PROVE  Mended(w) \subseteq Mended(w)'
  <2>1. (w \in noted) = (w \in noted')
    BY <1>1, <1>5
  <2>2. Canonical(w)' = Canonical(w)
    BY <1>2, <2>1, Zenon DEF Canonical
  <2>. QED
    BY <1>1, <1>2, <2>1, <2>2 DEF Mended
<1>. QED
  BY <1>1, <1>3, <1>4, <1>5, RequestsKeep

LEMMA EraseKeeps ==
  ASSUME SlotInv, setting \in Settings, NEW S \in SUBSET Versions, Erase(S), UNCHANGED setting
  PROVE  SlotInv'
<1>. DEFINE rows == [w \in Versions |-> IF w \in S THEN "gone" ELSE row[w]]
            d == Request("index_delete", S)
            r == Request("index_upsert", RefreshTargets(rows, S))
<1>1. /\ row \in [Versions -> {"none", "open", "unready", "derived", "ready", "gone"}]
      /\ S # {} /\ S \subseteq Committed /\ opened = Closed
      /\ row' = rows /\ Enqueue({d, r}) /\ opened' = opened /\ noted' = noted \ S
      /\ UNCHANGED <<work, index>>
  BY DEF SlotInv, RowsHold, Erase, ErasureRequests
<1>2. Ready' = Ready \ S /\ Committed' = Committed \ S /\ ReadyIn(rows) = Ready \ S
  BY <1>1 DEF Ready, Committed, ReadyIn, CommittedIn
<1>3. RowsHold'
  <2>1. \A w \in S : row[w] # "none"
    BY <1>1 DEF Committed, CommittedIn
  <2>. QED
    BY <1>1, <2>1 DEF SlotInv, RowsHold
<1>4. \A w \in Versions : OpenHolds(w)'
  <2>1. \A w \in Versions : row[w] # "open"
    BY <1>1, SettingsAssumption DEF SlotInv, OpenHolds, Closed
  <2>. QED
    BY <1>1, <2>1 DEF OpenHolds
<1>5. RefreshTargets(rows, S) \subseteq Versions /\ Newest(Ready \ S) \subseteq RefreshTargets(rows, S)
  BY <1>2 DEF RefreshTargets, Newest, ReadyIn
<1>6. /\ d \in Job /\ d.targets = S /\ d.kind = "index_delete"
      /\ r \in Job /\ r.targets = RefreshTargets(rows, S) /\ r.kind = "index_upsert"
  BY <1>5, RequestIs
<1>. HIDE DEF d, r
<1>7. \A q \in {d, r} : JobHolds(q)'
  <2>1. \A q : q \in Job /\ q.kind = "index_upsert" => JobHolds(q)'
    BY DEF JobHolds, Job
  <2>2. \A q : q \in Job /\ q.targets = S => JobHolds(q)'
    BY <1>1 DEF JobHolds, Job
  <2>. QED
    BY <1>6, <2>1, <2>2
<1>8. ASSUME NEW w \in Versions, w \notin S \cup Newest(Ready \ S)
      PROVE  Mended(w) \subseteq Mended(w)'
  <2>1. w \notin Newest(Ready) /\ (w \in Ready => w \notin Newest(Committed) /\ w \notin Newest(Committed'))
    BY <1>2, <1>8 DEF Newest, Ready, Committed, ReadyIn, CommittedIn
  <2>2. (w \in noted) = (w \in noted') /\ (w \in Ready <=> w \in Ready')
    BY <1>1, <1>2, <1>8
  <2>3. CASE w \in Ready
    <3>1. (w \in Newest(Committed)) = FALSE /\ (w \in Newest(Committed')) = FALSE
      BY <2>1, <2>3
    <3>2. Canonical(w)' = Canonical(w)
      BY <2>2, <2>3, <3>1, Zenon DEF Canonical
    <3>. QED
      BY <2>1, <3>2 DEF Mended
  <2>4. CASE w \notin Ready
    BY <2>1, <2>2, <2>4 DEF Mended, Canonical
  <2>. QED
    BY <2>3, <2>4
<1>9. \A w \in Versions : row[w] = "gone" => row'[w] = "gone"
  BY <1>1
<1>10. \A w \in Versions : Mended(w) \subseteq Mended(w)' \/ \E q \in {d, r} : w \in q.targets
  BY <1>5, <1>6, <1>8
<1>. QED
  BY <1>1, <1>3, <1>4, <1>7, <1>9, <1>10, RequestsKeep

LEMMA ReindexKeeps ==
  ASSUME SlotInv, setting \in Settings, NEW n \in Versions, Reindex(n), UNCHANGED setting
  PROVE  SlotInv'
<1>1. PICK before \in {{}, {v \in Ready : v < n}} :
         Enqueue({Request("index_upsert", {v \in Ready : v >= n} \cup Newest(before))})
  BY DEF Reindex
<1>. DEFINE targets == {v \in Ready : v >= n} \cup Newest(before)
            r == Request("index_upsert", targets)
<1>2. Enqueue({r}) /\ row' = row /\ opened' = opened /\ noted' = noted /\ UNCHANGED <<work, index>>
  BY <1>1 DEF Reindex, records
<1>3. r \in Job /\ r.targets = targets /\ r.kind = "index_upsert"
  <2>1. targets \subseteq Versions
    BY DEF Ready, ReadyIn, Newest
  <2>. QED
    BY <2>1, RequestIs
<1>. HIDE DEF r
<1>4. \A q \in {r} : JobHolds(q)'
  <2>1. \A q : q \in Job /\ q.kind = "index_upsert" => JobHolds(q)'
    BY DEF JobHolds, Job
  <2>. QED
    BY <1>3, <2>1
<1>5. /\ RowsHold' /\ \A v \in Versions : OpenHolds(v)'
      /\ \A v \in Versions : Mended(v)' = Mended(v)
  BY <1>2 DEF SlotInv, RowsHold, OpenHolds, Mended, Canonical, Ready, Committed, ReadyIn, CommittedIn
<1>. QED
  BY <1>2, <1>4, <1>5, RequestsKeep


-----------------------------------------------------------------------------
(* The executor.                                                           *)

\* What holds of the one executor, and of the entries that it is not going to write.
LEMMA SoleFacts ==
  ASSUME SlotInv, NEW e \in Executors, setting.executors = {e}
  PROVE  /\ work \in [Executors -> Works] /\ leased \in [Executors -> Job \cup {NoJob}]
         /\ work[e] \in Works /\ IsABag(waiting) /\ DOMAIN index = Versions
         /\ \A j \in BagToSet(waiting) : JobHolds(j)
         /\ leased[e] # NoJob => JobHolds(leased[e])
         /\ WorkHolds(e)
         /\ work[e].phase # "idle" => leased[e] # NoJob /\ work[e].job = leased[e]
         /\ \A v \in Versions : LoadHolds(e, v)
         /\ \A v \in Versions : index[v] \in Mended(v) \/ Owed(v) \/ Pending(e, v)
<1>1. \A d \in Executors : d # e => leased[d] = NoJob
  BY DEF SlotInv, WorkHolds
<1>2. \A v \in Versions : index[v] \in Mended(v) \/ Owed(v) \/ Pending(e, v)
  BY <1>1 DEF SlotInv, IndexHolds, Pending
<1>. QED
  BY <1>2 DEF SlotInv, JobsHold, WorkHolds

LEMMA ClaimKeeps ==
  ASSUME SlotInv, setting \in Settings, NEW e \in Executors, setting.executors = {e},
         Claim(e), UNCHANGED setting
  PROVE  SlotInv'
<1>1. PICK j \in BagToSet(waiting) :
         /\ j.attempts < setting.attempts /\ waiting' = waiting (-) SetToBag({j})
         /\ leased' = [leased EXCEPT ![e] = [j EXCEPT !.attempts = j.attempts + 1]]
         /\ work' = [work EXCEPT ![e] = [Idle EXCEPT !.phase = "claimed",
                                                     !.job = [j EXCEPT !.attempts = j.attempts + 1]]]
  BY DEF Claim, Claimable
<1>2. /\ work[e].phase = "idle" /\ leased[e] = NoJob
      /\ UNCHANGED records /\ dead' = dead /\ index' = index
  BY DEF Claim
<1>. DEFINE mine == [j EXCEPT !.attempts = j.attempts + 1]
<1>3. /\ work \in [Executors -> Works] /\ leased \in [Executors -> Job \cup {NoJob}]
      /\ IsABag(waiting) /\ DOMAIN index = Versions /\ \A q \in BagToSet(waiting) : JobHolds(q)
      /\ \A v \in Versions : index[v] \in Mended(v) \/ Owed(v) \/ Pending(e, v)
  BY SoleFacts
<1>4. /\ IsABag(waiting') /\ BagToSet(waiting') \subseteq BagToSet(waiting)
      /\ BagToSet(waiting) \ {j} \subseteq BagToSet(waiting')
  BY <1>1, <1>3, BagTakes
<1>5. mine \in Job /\ mine.targets = j.targets /\ mine.kind = j.kind
  <2>1. j \in Job
    BY <1>3 DEF JobHolds
  <2>2. j.attempts + 1 \in 0 .. MaxAttempts
    BY <1>1, <2>1, BoundsAssumption, SettingsAssumption DEF Job
  <2>. QED
    BY <2>1, <2>2 DEF Job
<1>6. JobHolds(mine) /\ mine # NoJob
  BY <1>3, <1>5, NoJobAssumption DEF JobHolds
<1>7. leased' = [leased EXCEPT ![e] = mine]
  BY <1>1
<1>. HIDE DEF mine
<1>8. PICK w : /\ w \in Works /\ w.phase = "claimed" /\ w.job = mine /\ work' = [work EXCEPT ![e] = w]
  <2>. DEFINE w == [Idle EXCEPT !.phase = "claimed", !.job = mine]
  <2>1. w \in Works /\ w.phase = "claimed" /\ w.job = mine
    <3>1. Absent \in Entry
      BY DEF Absent, Entry
    <3>. QED
      BY <1>5, <3>1 DEF Idle, Works
  <2>. QED
    BY <1>1, <2>1 DEF mine
<1>9. /\ work' \in [Executors -> Works] /\ leased' \in [Executors -> Job \cup {NoJob}]
      /\ work'[e] = w /\ leased'[e] = mine
      /\ \A d \in Executors : d # e => work'[d] = work[d] /\ leased'[d] = leased[d]
  BY <1>3, <1>5, <1>7, <1>8
<1>10. WorkHolds(e)' /\ \A v \in Versions : LoadHolds(e, v)'
  BY <1>6, <1>8, <1>9 DEF WorkHolds, LoadHolds
<1>11. ASSUME NEW v \in Versions
       PROVE  index'[v] \in Mended(v) \/ Owed(v)' \/ Pending(e, v)'
  <2>1. index[v] \in Mended(v) \/ Owed(v)
    BY <1>2, <1>3 DEF Pending
  <2>2. v \in j.targets => Pending(e, v)'
    BY <1>5, <1>6, <1>8, <1>9 DEF Pending
  <2>. QED
    BY <1>2, <1>4, <2>1, <2>2 DEF Owed
<1>. QED
  BY <1>2, <1>3, <1>4, <1>6, <1>9, <1>10, <1>11, ExecutorKeeps

\* The executor goes on, and nothing is asked of the queue.
LEMMA GoesOn ==
  ASSUME SlotInv, NEW e \in Executors, setting.executors = {e}, UNCHANGED <<setting, records>>,
         UNCHANGED <<waiting, leased, dead>>, leased[e] # NoJob,
         NEW w \in Works, work' = [work EXCEPT ![e] = w], w.phase # "idle" => w.job = leased[e],
         w.phase \in {"loaded", "upserted"} =>
            \A v \in Versions : ~w.loaded[v].held \/ v \notin leased[e].targets => w.loaded[v] = Absent,
         DOMAIN index' = Versions,
         \A v \in Versions : Pending(e, v)' /\ w.phase \in {"loaded", "upserted"} =>
                                w.loaded[v] \in Mended(v) \/ Owed(v),
         \A v \in Versions : index'[v] \in Mended(v) \/ Owed(v) \/ Pending(e, v)'
  PROVE  SlotInv'
<1>1. /\ work \in [Executors -> Works] /\ leased \in [Executors -> Job \cup {NoJob}]
      /\ IsABag(waiting) /\ \A j \in BagToSet(waiting) : JobHolds(j) /\ JobHolds(leased[e])
  BY SoleFacts
<1>2. /\ work' \in [Executors -> Works] /\ work'[e] = w
      /\ \A d \in Executors : d # e => work'[d] = work[d]
  BY <1>1
<1>3. \A v \in Versions : Owed(v)' = Owed(v)
  BY DEF Owed
<1>4. \A v \in Versions : Mended(v)' = Mended(v)
  BY DEF Mended, Canonical, Ready, Committed, ReadyIn, CommittedIn, records
<1>5. WorkHolds(e)' /\ \A v \in Versions : LoadHolds(e, v)'
  BY <1>2, <1>3, <1>4 DEF WorkHolds, LoadHolds
<1>6. \A j \in BagToSet(waiting) : JobHolds(j)
  BY SoleFacts
<1>7. JobHolds(leased[e])
  BY SoleFacts
<1>. QED
  BY <1>1, <1>2, <1>3, <1>5, <1>6, <1>7, ExecutorKeeps

\* The executor ends its work; its job waits, is dead, is done, or keeps its claim.
LEMMA Stops ==
  ASSUME SlotInv, NEW e \in Executors, setting.executors = {e}, UNCHANGED <<setting, records, index>>,
         work' = [work EXCEPT ![e] = Idle],
         \/ UNCHANGED <<waiting, leased, dead>> /\ leased[e] # NoJob
         \/ /\ leased' = [leased EXCEPT ![e] = NoJob] /\ leased[e] # NoJob
            /\ \/ waiting' = waiting (+) SetToBag({leased[e]}) /\ dead' = dead
               \/ waiting' = waiting /\ dead' = dead \cup leased[e].targets
               \/ waiting' = waiting /\ dead' = dead /\ work[e].phase = "pushed"
  PROVE  SlotInv'
<1>1. /\ work \in [Executors -> Works] /\ leased \in [Executors -> Job \cup {NoJob}]
      /\ IsABag(waiting) /\ DOMAIN index = Versions
      /\ \A v \in Versions : index[v] \in Mended(v) \/ Owed(v) \/ Pending(e, v)
  BY SoleFacts
<1>2. Idle \in Works /\ Idle.phase = "idle"
  <2>1. Absent \in Entry
    BY DEF Absent, Entry
  <2>. QED
    BY <2>1 DEF Idle, Works
<1>3. /\ work' \in [Executors -> Works] /\ work'[e] = Idle
      /\ leased' \in [Executors -> Job \cup {NoJob}] /\ leased'[e] \in {leased[e], NoJob}
      /\ \A d \in Executors : d # e => work'[d] = work[d] /\ leased'[d] = leased[d]
  BY <1>1, <1>2
<1>4. /\ IsABag(waiting') /\ BagToSet(waiting) \subseteq BagToSet(waiting')
      /\ BagToSet(waiting') \subseteq BagToSet(waiting) \cup {leased[e]}
  BY <1>1, BagAdds
<1>5. JobHolds(leased[e]) /\ \A j \in BagToSet(waiting) : JobHolds(j)
  BY SoleFacts
<1>6. WorkHolds(e)' /\ \A v \in Versions : LoadHolds(e, v)'
  BY <1>2, <1>3 DEF WorkHolds, LoadHolds
<1>7. ASSUME NEW v \in Versions
      PROVE  index'[v] \in Mended(v) \/ Owed(v)' \/ Pending(e, v)'
  <2>1. Owed(v) => Owed(v)'
    BY <1>4 DEF Owed
  <2>2. Pending(e, v) => v \in leased[e].targets /\ work[e].phase # "pushed"
    BY DEF Pending
  <2>3. CASE UNCHANGED leased
    BY <1>1, <1>2, <1>3, <2>1, <2>3 DEF Pending
  <2>4. CASE waiting' = waiting (+) SetToBag({leased[e]})
    <3>1. leased[e] \in BagToSet(waiting')
      BY <1>1, <2>4, BagAdds
    <3>. QED
      BY <1>1, <2>1, <2>2, <3>1 DEF Owed
  <2>5. CASE dead' = dead \cup leased[e].targets
    BY <1>1, <2>1, <2>2, <2>5 DEF Owed
  <2>6. CASE work[e].phase = "pushed"
    BY <1>1, <2>1, <2>2, <2>6
  <2>. QED
    BY <2>3, <2>4, <2>5, <2>6
<1>. QED
  BY <1>1, <1>3, <1>4, <1>5, <1>6, <1>7, ExecutorKeeps

LEMMA CanonicalFacts ==
  ASSUME NEW v \in Versions
  PROVE  /\ Canonical(v) \in Entry /\ Canonical(v) \in Mended(v)
         /\ Canonical(v).held \/ Canonical(v) = Absent
         /\ row[v] = "gone" => Canonical(v) = Absent
<1>1. Absent \in Entry
  BY DEF Absent, Entry
<1>2. CASE v \in Ready
  <2>1. Canonical(v) = [held |-> TRUE, current |-> v \in Newest(Committed), noted |-> v \in noted]
    BY <1>2 DEF Canonical
  <2>2. (v \in Newest(Committed)) \in BOOLEAN /\ (v \in noted) \in BOOLEAN
    OBVIOUS
  <2>. HIDE DEF Newest
  <2>3. Canonical(v) \in Entry /\ Canonical(v).held
    BY <2>1, <2>2 DEF Entry
  <2>. QED
    BY <1>2, <2>3 DEF Mended, Ready, ReadyIn
<1>3. CASE v \notin Ready
  BY <1>1, <1>3 DEF Canonical, Mended
<1>. QED
  BY <1>2, <1>3

LEMMA AssertLiveKeeps ==
  ASSUME SlotInv, NEW e \in Executors, setting.executors = {e}, AssertLive(e), UNCHANGED setting
  PROVE  SlotInv'
<1>. DEFINE w == [work[e] EXCEPT !.phase = "live"]
<1>1. /\ work[e].phase = "claimed" /\ leased[e] # NoJob /\ work' = [work EXCEPT ![e] = w]
      /\ UNCHANGED <<setting, records>> /\ UNCHANGED <<waiting, leased, dead>> /\ index' = index
  BY DEF AssertLive, queue
<1>2. /\ work \in [Executors -> Works] /\ work[e] \in Works /\ DOMAIN index = Versions
      /\ work[e].job = leased[e]
      /\ \A v \in Versions : index[v] \in Mended(v) \/ Owed(v) \/ Pending(e, v)
  BY <1>1, SoleFacts
<1>3. w \in Works /\ w.phase = "live" /\ w.job = leased[e]
  BY <1>2 DEF Works
<1>4. work'[e] = w
  BY <1>1, <1>2
<1>. HIDE DEF w
<1>5. \A v \in Versions : Pending(e, v) => Pending(e, v)'
  BY <1>1, <1>3, <1>4 DEF Pending
<1>. QED
  BY <1>1, <1>2, <1>3, <1>5, GoesOn

\* What it loads is right when it loads it.
LEMMA LoadKeeps ==
  ASSUME SlotInv, NEW e \in Executors, setting.executors = {e}, Load(e), UNCHANGED setting
  PROVE  SlotInv'
<1>. DEFINE now == [v \in Versions |-> Loaded(work[e].job, v)]
            w == [work[e] EXCEPT !.phase = "loaded", !.loaded = now]
<1>1. /\ work[e].phase = "live" /\ UNCHANGED <<setting, records>>
      /\ UNCHANGED <<waiting, leased, dead>> /\ index' = index
  BY DEF Load, queue
<1>2. /\ work \in [Executors -> Works] /\ work[e] \in Works /\ DOMAIN index = Versions
      /\ leased[e] # NoJob /\ work[e].job = leased[e] /\ JobHolds(leased[e])
      /\ \A v \in Versions : index[v] \in Mended(v) \/ Owed(v) \/ Pending(e, v)
  BY <1>1, SoleFacts
<1>3. work' = [work EXCEPT ![e] = w]
  BY <1>2 DEF Load
<1>4. Absent \in Entry /\ ~Absent.held
  BY DEF Absent, Entry
<1>5. ASSUME NEW v \in Versions
      PROVE  /\ now[v] \in Entry /\ (now[v].held \/ now[v] = Absent)
             /\ (v \notin leased[e].targets => now[v] = Absent)
             /\ (v \in leased[e].targets => now[v] \in Mended(v))
  <2>1. now[v] = IF leased[e].kind = "index_upsert" /\ v \in leased[e].targets
                 THEN Canonical(v) ELSE Absent
    BY <1>2 DEF Loaded
  <2>2. leased[e].kind \in {"index_upsert", "index_delete"}
    BY <1>2 DEF JobHolds, Job
  <2>3. leased[e].kind = "index_delete" /\ v \in leased[e].targets => Canonical(v) = Absent
    BY <1>2, CanonicalFacts DEF JobHolds
  <2>. HIDE DEF now
  <2>. QED
    BY <1>4, <2>1, <2>2, <2>3, CanonicalFacts
<1>6. now \in [Versions -> Entry]
  BY <1>5
<1>. HIDE DEF now
<1>7. w \in Works /\ w.phase = "loaded" /\ w.job = leased[e] /\ w.loaded = now
  BY <1>2, <1>6 DEF Works
<1>. HIDE DEF w
<1>8. work'[e] = w
  BY <1>2, <1>3
<1>9. \A v \in Versions : Pending(e, v) => Pending(e, v)'
  BY <1>1, <1>7, <1>8 DEF Pending
<1>10. \A v \in Versions : Pending(e, v)' => w.loaded[v] \in Mended(v)
  BY <1>1, <1>5, <1>7 DEF Pending
<1>11. \A v \in Versions : ~w.loaded[v].held \/ v \notin leased[e].targets => w.loaded[v] = Absent
  BY <1>5, <1>7
<1>. QED
  BY <1>1, <1>2, <1>3, <1>7, <1>9, <1>10, <1>11, GoesOn

\* A version that was found gets what was loaded; another waits for the deletes.
LEMMA PushUpsertsKeeps ==
  ASSUME SlotInv, NEW e \in Executors, setting.executors = {e}, PushUpserts(e), UNCHANGED setting
  PROVE  SlotInv'
<1>. DEFINE w == [work[e] EXCEPT !.phase = "upserted"]
<1>1. /\ work[e].phase = "loaded" /\ work' = [work EXCEPT ![e] = w]
      /\ UNCHANGED <<setting, records>> /\ UNCHANGED <<waiting, leased, dead>>
      /\ index' = [v \in Versions |-> IF work[e].loaded[v].held THEN work[e].loaded[v] ELSE index[v]]
  BY DEF PushUpserts, queue
<1>2. /\ work \in [Executors -> Works] /\ work[e] \in Works /\ DOMAIN index = Versions
      /\ leased[e] # NoJob /\ work[e].job = leased[e] /\ WorkHolds(e)
      /\ \A v \in Versions : index[v] \in Mended(v) \/ Owed(v) \/ Pending(e, v)
      /\ \A v \in Versions : LoadHolds(e, v)
  BY <1>1, SoleFacts
<1>3. w \in Works /\ w.phase = "upserted" /\ w.job = leased[e] /\ w.loaded = work[e].loaded
  BY <1>2 DEF Works
<1>4. work'[e] = w
  BY <1>1, <1>2
<1>. HIDE DEF w
<1>5. \A v \in Versions : ~w.loaded[v].held \/ v \notin leased[e].targets => w.loaded[v] = Absent
  BY <1>1, <1>2, <1>3 DEF WorkHolds
<1>6. \A v \in Versions : v \in leased[e].targets => w.loaded[v] \in Mended(v) \/ Owed(v)
  BY <1>1, <1>2, <1>3 DEF LoadHolds, Pending
<1>7. \A v \in Versions : Pending(e, v)' => v \in leased[e].targets
  BY <1>1 DEF Pending
<1>8. ASSUME NEW v \in Versions
      PROVE  index'[v] \in Mended(v) \/ Owed(v) \/ Pending(e, v)'
  <2>1. CASE w.loaded[v].held
    <3>1. v \in leased[e].targets
      <4>1. ~Absent.held
        BY DEF Absent
      <4>. QED
        BY <1>5, <2>1, <4>1
    <3>2. index'[v] = w.loaded[v]
      BY <1>1, <1>3, <2>1
    <3>. QED
      BY <1>6, <3>1, <3>2
  <2>2. CASE ~w.loaded[v].held
    <3>1. index'[v] = index[v]
      BY <1>1, <1>3, <2>2
    <3>2. Pending(e, v) => Pending(e, v)'
      BY <1>1, <1>3, <1>4, <2>2 DEF Pending
    <3>. QED
      BY <1>2, <3>1, <3>2
  <2>. QED
    BY <2>1, <2>2
<1>9. DOMAIN index' = Versions
  BY <1>1
<1>. QED
  BY <1>1, <1>2, <1>3, <1>5, <1>6, <1>7, <1>8, <1>9, GoesOn

LEMMA PushDeletesKeeps ==
  ASSUME SlotInv, NEW e \in Executors, setting.executors = {e}, PushDeletes(e), UNCHANGED setting
  PROVE  SlotInv'
<1>. DEFINE w == [Idle EXCEPT !.phase = "pushed", !.job = work[e].job]
<1>1. /\ work[e].phase = "upserted" /\ work' = [work EXCEPT ![e] = w]
      /\ UNCHANGED <<setting, records>> /\ UNCHANGED <<waiting, leased, dead>>
      /\ index' = [v \in Versions |-> IF v \in work[e].job.targets /\ ~work[e].loaded[v].held
                                      THEN Absent ELSE index[v]]
  BY DEF PushDeletes, queue
<1>2. /\ work \in [Executors -> Works] /\ work[e] \in Works /\ DOMAIN index = Versions
      /\ leased[e] # NoJob /\ work[e].job = leased[e] /\ WorkHolds(e) /\ JobHolds(leased[e])
      /\ \A v \in Versions : index[v] \in Mended(v) \/ Owed(v) \/ Pending(e, v)
      /\ \A v \in Versions : LoadHolds(e, v)
  BY <1>1, SoleFacts
<1>3. w \in Works /\ w.phase = "pushed" /\ w.job = leased[e]
  <2>1. Absent \in Entry
    BY DEF Absent, Entry
  <2>2. leased[e] \in Job
    BY <1>2 DEF JobHolds
  <2>. QED
    BY <1>2, <2>1, <2>2 DEF Idle, Works
<1>4. work'[e] = w
  BY <1>1, <1>2
<1>. HIDE DEF w
<1>5. ASSUME NEW v \in Versions
      PROVE  index'[v] \in Mended(v) \/ Owed(v)
  <2>1. CASE v \in leased[e].targets /\ ~work[e].loaded[v].held
    <3>1. work[e].loaded[v] = Absent
      BY <1>1, <1>2, <2>1 DEF WorkHolds
    <3>2. work[e].loaded[v] \in Mended(v) \/ Owed(v)
      BY <1>1, <1>2, <2>1 DEF LoadHolds, Pending
    <3>3. index'[v] = Absent
      BY <1>1, <1>2, <2>1
    <3>. QED
      BY <3>1, <3>2, <3>3
  <2>2. CASE ~(v \in leased[e].targets /\ ~work[e].loaded[v].held)
    <3>1. ~Pending(e, v)
      BY <1>1, <2>2 DEF Pending
    <3>2. index'[v] = index[v]
      BY <1>1, <1>2, <2>2
    <3>. QED
      BY <1>2, <3>1, <3>2
  <2>. QED
    BY <2>1, <2>2
<1>6. DOMAIN index' = Versions
  BY <1>1
<1>. QED
  BY <1>1, <1>2, <1>3, <1>5, <1>6, GoesOn

LEMMA EndKeeps ==
  ASSUME SlotInv, NEW e \in Executors, setting.executors = {e},
         Complete(e) \/ Fail(e) \/ Abandon(e) \/ Crash(e), UNCHANGED setting
  PROVE  SlotInv'
<1>1. work[e].phase # "idle" => leased[e] # NoJob
  BY SoleFacts
<1>2. CASE Complete(e)
  BY <1>2, Stops DEF Complete
<1>3. CASE Fail(e)
  BY <1>3, Stops DEF Fail
<1>4. CASE Abandon(e)
  BY <1>1, <1>4 DEF Abandon
<1>5. CASE Crash(e)
  BY <1>1, <1>5, Stops DEF Crash, queue
<1>. QED
  BY <1>2, <1>3, <1>4, <1>5

\* Only a job that no executor works for loses its lease.
LEMMA LapseKeeps ==
  ASSUME SlotInv, NEW e \in Executors, setting.executors = {e}, ~Overlap, Lapse(e), UNCHANGED setting
  PROVE  SlotInv'
<1>1. /\ leased[e] # NoJob /\ work[e].phase = "idle" /\ waiting' = waiting (+) SetToBag({leased[e]})
      /\ leased' = [leased EXCEPT ![e] = NoJob]
      /\ UNCHANGED <<setting, records>> /\ work' = work /\ dead' = dead /\ index' = index
  BY DEF Lapse
<1>2. /\ work \in [Executors -> Works] /\ leased \in [Executors -> Job \cup {NoJob}]
      /\ IsABag(waiting) /\ DOMAIN index = Versions /\ JobHolds(leased[e])
      /\ \A v \in Versions : index[v] \in Mended(v) \/ Owed(v) \/ Pending(e, v)
      /\ \A j \in BagToSet(waiting) : JobHolds(j)
  BY <1>1, SoleFacts
<1>3. /\ IsABag(waiting') /\ BagToSet(waiting') = BagToSet(waiting) \cup {leased[e]}
  BY <1>1, <1>2, BagAdds
<1>4. /\ work' \in [Executors -> Works] /\ leased' \in [Executors -> Job \cup {NoJob}]
      /\ leased'[e] = NoJob /\ \A d \in Executors : d # e => work'[d] = work[d] /\ leased'[d] = leased[d]
  BY <1>1, <1>2
<1>5. WorkHolds(e)' /\ \A v \in Versions : LoadHolds(e, v)'
  BY <1>1, <1>4 DEF WorkHolds, LoadHolds
<1>6. \A v \in Versions : index'[v] \in Mended(v) \/ Owed(v)' \/ Pending(e, v)'
  BY <1>1, <1>2, <1>3 DEF Owed, Pending
<1>7. (\A j \in BagToSet(waiting') : JobHolds(j)) /\ DOMAIN index' = Versions
  BY <1>1, <1>2, <1>3
<1>. QED
  BY <1>1, <1>3, <1>4, <1>5, <1>6, <1>7, ExecutorKeeps

LEMMA ReapKeeps ==
  ASSUME SlotInv, NEW e \in Executors, setting.executors = {e}, Reap, UNCHANGED setting
  PROVE  SlotInv'
<1>1. PICK j \in BagToSet(waiting) : waiting' = waiting (-) SetToBag({j}) /\ dead' = dead \cup j.targets
  BY DEF Reap
<1>2. UNCHANGED <<setting, records>> /\ leased' = leased /\ work' = work /\ index' = index
  BY DEF Reap
<1>3. /\ work \in [Executors -> Works] /\ leased \in [Executors -> Job \cup {NoJob}]
      /\ IsABag(waiting) /\ DOMAIN index = Versions /\ (leased[e] # NoJob => JobHolds(leased[e]))
      /\ \A v \in Versions : index[v] \in Mended(v) \/ Owed(v) \/ Pending(e, v)
      /\ \A q \in BagToSet(waiting) : JobHolds(q)
      /\ WorkHolds(e) /\ \A v \in Versions : LoadHolds(e, v)
  BY SoleFacts
<1>4. /\ IsABag(waiting') /\ BagToSet(waiting') \subseteq BagToSet(waiting)
      /\ BagToSet(waiting) \ {j} \subseteq BagToSet(waiting')
  BY <1>1, <1>3, BagTakes
<1>5. \A v \in Versions : Owed(v) => Owed(v)'
  BY <1>1, <1>4 DEF Owed
<1>6. \A v \in Versions : Pending(e, v)' = Pending(e, v)
  BY <1>2 DEF Pending
<1>7. \A v \in Versions : Mended(v)' = Mended(v)
  BY <1>2 DEF Mended, Canonical, Ready, Committed, ReadyIn, CommittedIn, records
<1>8. WorkHolds(e)' /\ \A v \in Versions : LoadHolds(e, v)'
  BY <1>2, <1>3, <1>5, <1>6, <1>7 DEF WorkHolds, LoadHolds
<1>9. \A v \in Versions : index'[v] \in Mended(v) \/ Owed(v)' \/ Pending(e, v)'
  BY <1>2, <1>3, <1>5, <1>6
<1>10. /\ \A q \in BagToSet(waiting') : JobHolds(q)
       /\ (leased'[e] # NoJob => JobHolds(leased'[e])) /\ DOMAIN index' = Versions
       /\ work' \in [Executors -> Works] /\ leased' \in [Executors -> Job \cup {NoJob}]
       /\ \A d \in Executors : d # e => work'[d] = work[d] /\ leased'[d] = leased[d]
  BY <1>2, <1>3, <1>4
<1>. QED
  BY <1>2, <1>4, <1>8, <1>9, <1>10, ExecutorKeeps

LEMMA InitHolds ==
  ASSUME ProjectionInit
  PROVE  SlotInv
<1>1. Idle \in Works /\ Idle.phase = "idle"
  <2>1. Absent \in Entry
    BY DEF Absent, Entry
  <2>. QED
    BY <2>1 DEF Idle, Works
<1>2. IsABag(EmptyBag) /\ BagToSet(EmptyBag) = {}
  BY DEF IsABag, EmptyBag, SetToBag, BagToSet
<1>3. RowsHold /\ JobsHold
  BY <1>2 DEF ProjectionInit, RowsHold, JobsHold
<1>4. /\ leased \in [Executors -> Job \cup {NoJob}] /\ work \in [Executors -> Works]
      /\ DOMAIN index = Versions
  BY <1>1 DEF ProjectionInit
<1>5. \A e \in Executors : WorkHolds(e) /\ \A v \in Versions : LoadHolds(e, v)
  BY <1>1 DEF ProjectionInit, WorkHolds, LoadHolds
<1>6. \A v \in Versions : OpenHolds(v) /\ IndexHolds(v)
  <2>1. \A v \in Versions : Canonical(v) = Absent
    BY DEF ProjectionInit, Canonical, Ready, ReadyIn
  <2>. QED
    BY <2>1 DEF ProjectionInit, OpenHolds, IndexHolds, Mended
<1>. QED
  BY <1>3, <1>4, <1>5, <1>6 DEF SlotInv

LEMMA SlotStep ==
  ASSUME SlotInv, setting \in Settings, Alone, ~ Mixed, [ProjectionNext]_projectionVars
  PROVE  SlotInv'
<1>1. CASE UNCHANGED projectionVars
  <2>1. UNCHANGED <<setting, row, opened, noted, waiting, leased, dead, work, index>>
    BY <1>1 DEF projectionVars, moving
  <2>2. RowsHold' /\ \A v \in Versions : OpenHolds(v)' /\ Mended(v)' = Mended(v)
    BY <2>1 DEF SlotInv, RowsHold, OpenHolds, Mended, Canonical, Ready, Committed, ReadyIn, CommittedIn
  <2>3. IsABag(waiting)
    BY DEF SlotInv, JobsHold
  <2>. QED
    BY <2>1, <2>2, <2>3, RecordsKeep
<1>2. CASE ProjectionStep /\ UNCHANGED setting
  <2>1. PICK e \in setting.executors : TRUE
    <3>1. setting.executors # {}
      BY FS_EmptySet DEF Alone
    <3>. QED
      BY <3>1
  <2>2. e \in Executors /\ setting.executors = {e} /\ ~Overlap
    BY <2>1, Sole DEF Alone
  <2>3. CASE \E v \in Versions : Insert(v) \/ CommitInsert(v) \/ Annotate(v)
    BY <1>2, <2>3, InsertKeeps, CommitInsertKeeps, AnnotateKeeps
  <2>4. CASE \E S \in SUBSET Versions : MakeReady(S) \/ Erase(S)
    BY <1>2, <2>4, MakeReadyKeeps, EraseKeeps
  <2>5. CASE \E n \in Versions : Reindex(n)
    BY <1>2, <2>5, ReindexKeeps
  <2>6. CASE Claim(e) \/ Execute(e) \/ Crash(e) \/ Lapse(e)
    BY <1>2, <2>2, <2>6, ClaimKeeps, AssertLiveKeeps, LoadKeeps, PushUpsertsKeeps, PushDeletesKeeps,
       EndKeeps, LapseKeeps DEF Execute
  <2>7. CASE Reap
    BY <1>2, <2>2, <2>7, ReapKeeps
  <2>. QED
    BY <1>2, <2>2, <2>3, <2>4, <2>5, <2>6, <2>7 DEF ProjectionStep
<1>. QED
  BY <1>1, <1>2 DEF ProjectionNext

\* Where one executor runs that does not outlive its lease, and the rows of a
\* collection are all ready at once or none is: the index has what it should, or a
\* job is still to write it, or the readiness of a newer row is; and what the
\* executor has read is still right, or another job waits.
THEOREM ProjectionInvariance == ProjectionSpec => []ProjectionInv
<1>1. ProjectionInit => ProjectionInv
  BY InitHolds DEF ProjectionInv, ProjectionInit
<1>2. ProjectionInv /\ [ProjectionNext]_projectionVars => ProjectionInv'
  <2>. SUFFICES ASSUME ProjectionInv, [ProjectionNext]_projectionVars
                PROVE  ProjectionInv'
    OBVIOUS
  <2>1. setting' = setting
    BY DEF ProjectionNext, projectionVars
  <2>2. (Alone' <=> Alone) /\ (Mixed' <=> Mixed)
    BY <2>1 DEF Alone, Mixed, Overlap
  <2>. QED
    BY <2>1, <2>2, SlotStep DEF ProjectionInv
<1>. QED
  BY <1>1, <1>2, PTL DEF ProjectionSpec

-----------------------------------------------------------------------------
\* An entry with its flag set.
LEMMA Flagged ==
  ASSUME NEW x, DOMAIN x = {"held", "current", "noted"}, NEW t
  PROVE  [x EXCEPT !.current = t] = [held |-> x.held, current |-> t, noted |-> x.noted]
<1>. DEFINE y == [x EXCEPT !.current = t]
<1>1. /\ DOMAIN y = {"held", "current", "noted"}
      /\ y.held = x.held /\ y.current = t /\ y.noted = x.noted
  OBVIOUS
<1>2. y = [f \in {"held", "current", "noted"} |-> y[f]]
  OBVIOUS
<1>. QED
  BY <1>1, <1>2

LEMMA MendedIsRight ==
  ASSUME NEW v \in Versions
  PROVE  Mended(v) \subseteq Right(v)
<1>1. CASE v \in Newest(Ready) /\ \E w \in Versions : w > v /\ row[w] \in {"unready", "derived"}
  <2>1. v \in Ready
    BY <1>1 DEF Newest
  <2>. DEFINE x == Canonical(v)
  <2>2. x = [held |-> TRUE, current |-> v \in Newest(Committed), noted |-> v \in noted]
    BY <2>1 DEF Canonical
  <2>3. DOMAIN x = {"held", "current", "noted"} /\ x.held = TRUE /\ x.noted = (v \in noted)
    BY <2>2
  <2>. HIDE DEF x
  <2>4. [x EXCEPT !.current = x.held] = [held |-> x.held, current |-> x.held, noted |-> x.noted]
    BY <2>3, Flagged
  <2>5. [x EXCEPT !.current = x.held] = [held |-> TRUE, current |-> TRUE, noted |-> v \in noted]
    BY <2>3, <2>4
  <2>6. Right(v) = {x, [x EXCEPT !.current = x.held]}
    BY <1>1 DEF Right, x
  <2>7. Mended(v) = {x, [held |-> TRUE, current |-> TRUE, noted |-> v \in noted]}
    BY <1>1 DEF Mended, x
  <2>. QED
    BY <2>5, <2>6, <2>7
<1>2. CASE ~(v \in Newest(Ready) /\ \E w \in Versions : w > v /\ row[w] \in {"unready", "derived"})
  BY <1>2 DEF Mended, Right
<1>. QED
  BY <1>1, <1>2

LEMMA NoDrift ==
  ASSUME SlotInv
  PROVE  NoUnattendedDrift
<1>. SUFFICES ASSUME NEW v \in Versions
              PROVE  index[v] \in Right(v) \/ Attended(v, Right(v)) \/ v \in dead
  BY DEF NoUnattendedDrift
<1>1. CASE index[v] \in Mended(v)
  BY <1>1, MendedIsRight
<1>2. CASE Owed(v)
  BY <1>2 DEF Owed, Attended
<1>3. CASE \E e \in Executors : Pending(e, v)
  <2>1. PICK e \in Executors : Pending(e, v)
    BY <1>3
  <2>2. CASE work[e].phase \in {"idle", "claimed", "live"}
    BY <2>1, <2>2 DEF Pending, Attended
  <2>3. CASE work[e].phase = "loaded"
    <3>1. work[e].loaded[v] \in Right(v) \/ Owed(v)
      BY <2>1, <2>3, MendedIsRight DEF SlotInv, LoadHolds
    <3>. QED
      BY <2>1, <2>3, <3>1 DEF Pending, Attended, Owed
  <2>4. CASE work[e].phase = "upserted"
    <3>1. work[e].loaded[v] \in Right(v) \/ Owed(v)
      BY <2>1, <2>4, MendedIsRight DEF SlotInv, LoadHolds
    <3>2. work[e].loaded[v] = Absent
      BY <2>1, <2>4 DEF Pending, SlotInv, WorkHolds
    <3>. QED
      BY <2>1, <2>4, <3>1, <3>2 DEF Pending, Attended, Owed
  <2>. QED
    BY <2>1, <2>2, <2>3, <2>4 DEF Pending
<1>. QED
  BY <1>1, <1>2, <1>3 DEF SlotInv, IndexHolds

\* Where one executor runs that does not outlive its lease, and readiness is not
\* mixed: the index differs from the database only where a job or a readiness that is still
\* to come will mend it, whatever is written, annotated, erased and reindexed, and
\* wherever the one executor fails or crashes.
THEOREM IndexFollows == ProjectionSpec => []NoDriftAlone
<1>1. ProjectionInv => NoDriftAlone
  BY NoDrift DEF ProjectionInv, NoDriftAlone
<1>. QED
  BY <1>1, ProjectionInvariance, PTL
=============================================================================
