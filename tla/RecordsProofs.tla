---------------------------- MODULE RecordsProofs -----------------------------
(***************************************************************************)
(* No lost update and no second promotion, for every number of keys,       *)
(* pipelines, rows and runs, and however rows are declared and written.    *)
(*                                                                         *)
(* A promotion that survives keeps its copies alive, because erasing a row *)
(* dooms the run that wrote it; so the head of each key stays above the    *)
(* heads that its candidate expected, and the candidate is stale for ever. *)
(***************************************************************************)
EXTENDS Promotion, Ingest, FiniteSetTheorems, WellFoundedInduction, TLAPS

Statuses == {"active", "draft"}
HeadTypes == [Keys -> Nat]
RowTypes == [key : Keys, status : Statuses, ready : BOOLEAN, run : Nat, gone : BOOLEAN]
RunTypes == [op : {"derive", "promote"}, inputs : SUBSET Nat, heads : HeadTypes, source : Nat,
             first : Nat, gone : BOOLEAN]
DraftTypes == [phase : {"idle", "read", "working"}, seen : HeadTypes, heads : HeadTypes]

PromotionTypes ==
    /\ declared \in Reviews
    /\ rows \in Seq(RowTypes)
    /\ ledger \in Seq(RunTypes)
    /\ draft \in [Pipelines -> DraftTypes]

\* A run has a row of each key, and goes with any of them.
HasOutputs(r) ==
    \A k \in Keys :
        /\ OutputOf(r, k) \in DOMAIN rows
        /\ rows[OutputOf(r, k)].key = k /\ rows[OutputOf(r, k)].run = r
        /\ ledger[r].op = "promote" => rows[OutputOf(r, k)].status = "active"

RowGoesWithRun(j) ==
    rows[j].run # 0 => /\ rows[j].run \in DOMAIN ledger
                       /\ rows[j].gone => ledger[rows[j].run].gone

\* A derivation expects rows older than its own, and read them if it reads the
\* heads that are current.
ExpectsOlder(r) ==
    ledger[r].op = "derive" =>
        /\ \A k \in Keys : ledger[r].heads[k] <= ledger[r].first
        /\ declared.reads = "current" =>
            ledger[r].inputs = {ledger[r].heads[k] : k \in Keys} \ {0}

\* A promotion comes after its source.
FollowsSource(r) ==
    ledger[r].op = "promote" =>
        /\ ledger[r].source \in DOMAIN ledger
        /\ ledger[ledger[r].source].first <= ledger[r].first

PromotionInv ==
    /\ PromotionTypes
    /\ \A j \in DOMAIN rows : RowGoesWithRun(j)
    /\ \A r \in DOMAIN ledger : HasOutputs(r) /\ ExpectsOlder(r) /\ FollowsSource(r)
    /\ AppliedOnce

USE PromotionAssumption

-----------------------------------------------------------------------------
(* Heads.                                                                  *)

\* A non-empty set of naturals with a bound has a largest element.
LEMMA MaxBounded ==
  ASSUME NEW n \in Nat, NEW S \in SUBSET (0 .. n), S # {}
  PROVE  Max(S) \in S /\ \A t \in S : t <= Max(S)
<1>. DEFINE T == {n - x : x \in S}
<1>1. T \subseteq Nat /\ T # {}
  <2>1. \A x \in S : x \in 0 .. n /\ n - x \in Nat
    OBVIOUS
  <2>2. T \subseteq Nat
    BY <2>1
  <2>3. PICK x \in S : TRUE
    OBVIOUS
  <2>4. n - x \in T
    BY <2>3
  <2>. QED
    BY <2>2, <2>4
<1>2. PICK m \in T : \A y \in T : ~ (<<y, m>> \in OpToRel(<, Nat))
  BY <1>1, NatLessThanWellFounded, WFMin, Zenon
<1>3. PICK x \in S : m = n - x
  BY <1>2
<1>4. \A t \in S : x >= t
  <2>. SUFFICES ASSUME NEW t \in S PROVE x >= t
    OBVIOUS
  <2>1. n - t \in T /\ n - t \in Nat /\ m \in Nat
    BY <1>1, <1>2
  <2>2. ~ (n - t < m)
    BY <1>2, <2>1 DEF OpToRel
  <2>. QED
    BY <1>3, <2>2
<1>. QED
  BY <1>4 DEF Max

LEMMA HeadFacts ==
  ASSUME PromotionTypes, NEW k \in Keys
  PROVE  /\ HeadOf(k) \in 0 .. Len(rows)
         /\ \A i \in Actives(k) : i <= HeadOf(k)
<1>. DEFINE S == {0} \cup Actives(k)
<1>1. Len(rows) \in Nat /\ DOMAIN rows = 1 .. Len(rows)
  BY DEF PromotionTypes
<1>2. S \in SUBSET (0 .. Len(rows)) /\ S # {}
  BY <1>1 DEF Actives
<1>. HIDE DEF S
<1>3. Max(S) \in S /\ \A t \in S : t <= Max(S)
  BY <1>1, <1>2, MaxBounded
<1>4. HeadOf(k) = Max(S) /\ Actives(k) \subseteq S
  BY DEF HeadOf, S
<1>. QED
  BY <1>2, <1>3, <1>4

LEMMA KeysTyped ==
  ASSUME declared \in Reviews
  PROVE  /\ declared.keys \in Nat \ {0} /\ declared.rows \in Nat /\ declared.review \in BOOLEAN
         /\ Keys \subseteq Nat \ {0} /\ 1 \in Keys
  BY DEF Keys

LEMMA Typed ==
  ASSUME PromotionTypes
  PROVE  /\ Len(rows) \in Nat /\ DOMAIN rows = 1 .. Len(rows)
         /\ Len(ledger) \in Nat /\ DOMAIN ledger = 1 .. Len(ledger)
         /\ \A j \in DOMAIN rows : rows[j] \in RowTypes
         /\ \A r \in DOMAIN ledger : ledger[r] \in RunTypes
         /\ \A p \in Pipelines : draft[p] \in DraftTypes
  BY DEF PromotionTypes

LEMMA HeadsTyped == PromotionTypes => Heads \in HeadTypes /\ NoDraft \in DraftTypes
<1>. SUFFICES ASSUME PromotionTypes PROVE Heads \in HeadTypes /\ NoDraft \in DraftTypes
  OBVIOUS
<1>1. \A k \in Keys : HeadOf(k) \in Nat
  BY HeadFacts DEF PromotionTypes
<1>2. Heads \in HeadTypes
  BY <1>1 DEF Heads, HeadTypes
<1>3. NoHeads \in HeadTypes
  BY DEF NoHeads, HeadTypes
<1>4. NoDraft \in DraftTypes
  BY <1>3 DEF NoDraft, DraftTypes
<1>. QED
  BY <1>2, <1>4

-----------------------------------------------------------------------------
(* Runs and their rows.                                                    *)

\* What a new run adds.
Recorded(op, inputs, heads, source, status, ready) ==
    /\ rows' \in Seq(RowTypes) /\ Len(rows') = Len(rows) + declared.keys
    /\ \A j \in DOMAIN rows : j \in DOMAIN rows' /\ rows'[j] = rows[j]
    /\ \A k \in Keys : /\ Len(rows) + k \in DOMAIN rows'
                       /\ rows'[Len(rows) + k] = [key |-> k, status |-> status, ready |-> ready,
                                                  run |-> Len(ledger) + 1, gone |-> FALSE]
    /\ \A j \in DOMAIN rows' : j \in DOMAIN rows \/ \E k \in Keys : j = Len(rows) + k
    /\ ledger' \in Seq(RunTypes) /\ Len(ledger') = Len(ledger) + 1
    /\ \A s \in DOMAIN ledger : s \in DOMAIN ledger' /\ ledger'[s] = ledger[s] /\ s < Len(ledger) + 1
    /\ Len(ledger) + 1 \in DOMAIN ledger'
    /\ ledger'[Len(ledger) + 1] = [op |-> op, inputs |-> inputs, heads |-> heads,
                                   source |-> source, first |-> Len(rows), gone |-> FALSE]
    /\ \A s \in DOMAIN ledger' : s \in DOMAIN ledger \/ s = Len(ledger) + 1

LEMMA RecordFacts ==
  ASSUME PromotionTypes, NEW op \in {"derive", "promote"}, NEW inputs \in SUBSET Nat,
         NEW heads \in HeadTypes, NEW source \in Nat, NEW status \in Statuses, NEW ready \in BOOLEAN,
         Record(op, inputs, heads, source, status, ready)
  PROVE  Recorded(op, inputs, heads, source, status, ready)
<1>. DEFINE n == Len(rows)
            r == Len(ledger) + 1
            new == Outputs(r, status, ready)
            run == [op |-> op, inputs |-> inputs, heads |-> heads, source |-> source,
                    first |-> n, gone |-> FALSE]
<1>1. /\ n \in Nat /\ r \in Nat /\ declared.keys \in Nat /\ Keys = 1 .. declared.keys
      /\ DOMAIN rows = 1 .. n /\ DOMAIN ledger = 1 .. Len(ledger) /\ Len(ledger) \in Nat
  BY KeysTyped DEF PromotionTypes, Keys
<1>2. new \in Seq(RowTypes) /\ Len(new) = declared.keys
  <2>1. new \in [1 .. declared.keys -> RowTypes]
    BY <1>1 DEF Outputs, RowTypes
  <2>. QED
    BY <1>1, <2>1
<1>3. \A k \in Keys : new[k] = [key |-> k, status |-> status, ready |-> ready, run |-> r,
                                gone |-> FALSE]
  BY DEF Outputs
<1>4. rows' = rows \o new /\ ledger' = Append(ledger, run)
  BY DEF Record
<1>5. run \in RunTypes
  BY <1>1 DEF RunTypes
<1>. HIDE DEF new, run
<1>6. /\ rows' \in Seq(RowTypes) /\ Len(rows') = n + declared.keys
      /\ \A j \in DOMAIN rows : j \in DOMAIN rows' /\ rows'[j] = rows[j]
      /\ \A k \in Keys : n + k \in DOMAIN rows' /\ rows'[n + k] = new[k]
      /\ \A j \in DOMAIN rows' : j \in DOMAIN rows \/ \E k \in Keys : j = n + k
  <2>1. rows' \in Seq(RowTypes) /\ Len(rows') = n + declared.keys
    BY <1>1, <1>2, <1>4 DEF PromotionTypes
  <2>2. DOMAIN rows' = 1 .. n + declared.keys
    BY <2>1
  <2>3. \A j \in DOMAIN rows : j \in DOMAIN rows' /\ rows'[j] = rows[j]
    BY <1>1, <1>2, <1>4, <2>2 DEF PromotionTypes
  <2>4. \A k \in Keys : n + k \in DOMAIN rows' /\ rows'[n + k] = new[k]
    BY <1>1, <1>2, <1>4, <2>2 DEF PromotionTypes
  <2>5. ASSUME NEW j \in DOMAIN rows', j \notin DOMAIN rows PROVE \E k \in Keys : j = n + k
    <3>1. j - n \in Keys /\ j = n + (j - n)
      BY <1>1, <2>2, <2>5
    <3>. QED
      BY <3>1
  <2>. QED
    BY <2>1, <2>3, <2>4, <2>5
<1>7. /\ ledger' \in Seq(RunTypes) /\ Len(ledger') = r
      /\ \A s \in DOMAIN ledger : s \in DOMAIN ledger' /\ ledger'[s] = ledger[s] /\ s < r
      /\ r \in DOMAIN ledger' /\ ledger'[r] = run
      /\ \A s \in DOMAIN ledger' : s \in DOMAIN ledger \/ s = r
  BY <1>1, <1>4, <1>5 DEF PromotionTypes
<1>. QED
  BY <1>3, <1>6, <1>7 DEF run, Recorded

\* The copies of a promotion that survives are alive, so that the heads are
\* not older than they are.
LEMMA SurvivorsHoldHeads ==
  ASSUME PromotionInv, NEW r \in DOMAIN ledger, ledger[r].op = "promote", ~ledger[r].gone,
         NEW k \in Keys
  PROVE  OutputOf(r, k) <= HeadOf(k)
<1>1. HasOutputs(r) /\ PromotionTypes
  BY DEF PromotionInv
<1>2. /\ OutputOf(r, k) \in DOMAIN rows
      /\ rows[OutputOf(r, k)].run = r /\ rows[OutputOf(r, k)].key = k
      /\ rows[OutputOf(r, k)].status = "active"
  BY <1>1 DEF HasOutputs
<1>3. r # 0
  BY DEF PromotionInv, PromotionTypes
<1>4. ~rows[OutputOf(r, k)].gone
  BY <1>2, <1>3 DEF PromotionInv, RowGoesWithRun
<1>5. OutputOf(r, k) \in Actives(k)
  BY <1>2, <1>4 DEF Actives, Alive
<1>. QED
  BY <1>1, <1>5, HeadFacts

-----------------------------------------------------------------------------
(* Invariance.                                                             *)

LEMMA InitPromotion == PromotionInit => PromotionInv
<1>. SUFFICES ASSUME PromotionInit PROVE PromotionInv
  OBVIOUS
<1>1. NoDraft \in DraftTypes
  BY DEF NoDraft, DraftTypes, NoHeads, HeadTypes
<1>2. PromotionTypes
  BY <1>1 DEF PromotionInit, PromotionTypes
<1>3. DOMAIN rows = {} /\ DOMAIN ledger = {}
  BY DEF PromotionInit
<1>. QED
  BY <1>2, <1>3 DEF PromotionInv, AppliedOnce

\* Steps that leave the ledger and write no row of a run.
LEMMA RowsStep ==
  ASSUME PromotionInv, UNCHANGED <<declared, ledger>>, PromotionTypes',
         \A j \in DOMAIN rows : /\ j \in DOMAIN rows'
                               /\ rows'[j].key = rows[j].key /\ rows'[j].run = rows[j].run
                               /\ rows'[j].status = rows[j].status /\ rows'[j].gone = rows[j].gone,
         \A j \in DOMAIN rows' : j \in DOMAIN rows \/ rows'[j].run = 0
  PROVE  PromotionInv'
<1>k. Keys' = Keys
  BY DEF Keys
<1>1. \A j \in DOMAIN rows' : RowGoesWithRun(j)'
  BY DEF PromotionInv, RowGoesWithRun
<1>2. ASSUME NEW r \in DOMAIN ledger' PROVE HasOutputs(r)' /\ ExpectsOlder(r)' /\ FollowsSource(r)'
  BY <1>k, <1>2 DEF PromotionInv, HasOutputs, OutputOf, ExpectsOlder, FollowsSource
<1>3. AppliedOnce'
  BY DEF PromotionInv, AppliedOnce
<1>. QED
  BY <1>1, <1>2, <1>3 DEF PromotionInv

LEMMA IngestStep ==
  ASSUME PromotionInv, NEW k \in Keys, IngestKeyed(k)
  PROVE  PromotionInv'
<1>. DEFINE row == [key |-> k, status |-> "active", ready |-> FALSE, run |-> 0, gone |-> FALSE]
<1>t. PromotionTypes /\ Keys' = Keys
  BY DEF PromotionInv, IngestKeyed, Keys
<1>1. row \in RowTypes /\ row.run = 0
  BY DEF RowTypes, Statuses
<1>2. rows' = Append(rows, row) /\ UNCHANGED <<declared, ledger, draft>>
  BY DEF IngestKeyed
<1>. HIDE DEF row
<1>3. /\ rows' \in Seq(RowTypes)
      /\ \A j \in DOMAIN rows : j \in DOMAIN rows' /\ rows'[j] = rows[j]
      /\ \A j \in DOMAIN rows' : j \in DOMAIN rows \/ rows'[j] = row
  BY <1>t, <1>1, <1>2 DEF PromotionTypes
<1>4. PromotionTypes'
  BY <1>t, <1>2, <1>3 DEF PromotionTypes, RowTypes, RunTypes, DraftTypes, HeadTypes
<1>. QED
  BY <1>1, <1>2, <1>3, <1>4, RowsStep

LEMMA EnrichStep ==
  ASSUME PromotionInv, NEW i \in DOMAIN rows, FinishEnrichment(i)
  PROVE  PromotionInv'
<1>t. PromotionTypes /\ Keys' = Keys
  BY DEF PromotionInv, FinishEnrichment, Keys
<1>1. rows' = [rows EXCEPT ![i].ready = TRUE] /\ UNCHANGED <<declared, ledger, draft>>
  BY DEF FinishEnrichment
<1>2. rows' \in Seq(RowTypes) /\ DOMAIN rows' = DOMAIN rows
  <2>1. [rows[i] EXCEPT !.ready = TRUE] \in RowTypes
    BY <1>t, Typed DEF RowTypes
  <2>2. rows' = [rows EXCEPT ![i] = [rows[i] EXCEPT !.ready = TRUE]]
    BY <1>1
  <2>. QED
    BY <1>t, <2>1, <2>2 DEF PromotionTypes
<1>3. \A j \in DOMAIN rows : /\ rows'[j].key = rows[j].key /\ rows'[j].run = rows[j].run
                            /\ rows'[j].status = rows[j].status /\ rows'[j].gone = rows[j].gone
  BY <1>t, <1>1 DEF PromotionTypes, RowTypes
<1>4. PromotionTypes'
  BY <1>t, <1>1, <1>2 DEF PromotionTypes, RowTypes, RunTypes, DraftTypes, HeadTypes
<1>. QED
  BY <1>1, <1>2, <1>3, <1>4, RowsStep

\* Erasing a row dooms its run.
LEMMA SeedIsDoomed ==
  ASSUME NEW i \in DOMAIN rows, rows[i].run \in DOMAIN ledger
  PROVE  rows[i].run \in DoomedBy(i)
  BY DEF DoomedBy, ClosedRuns

LEMMA EraseStep ==
  ASSUME PromotionInv, NEW i \in DOMAIN rows, EraseRow(i)
  PROVE  PromotionInv'
<1>. DEFINE doomed == DoomedBy(i)
<1>t. PromotionTypes /\ Keys' = Keys
  BY DEF PromotionInv, EraseRow, Keys
<1>1. /\ ledger' = [r \in DOMAIN ledger |->
                      IF r \in doomed THEN [ledger[r] EXCEPT !.gone = TRUE] ELSE ledger[r]]
      /\ rows' = [j \in DOMAIN rows |->
                    IF j = i \/ rows[j].run \in doomed
                    THEN [rows[j] EXCEPT !.gone = TRUE] ELSE rows[j]]
      /\ draft' = [p \in Pipelines |-> NoDraft] /\ declared' = declared
  BY DEF EraseRow
<1>2. doomed \subseteq DOMAIN ledger /\ (rows[i].run \in DOMAIN ledger => rows[i].run \in doomed)
  BY SeedIsDoomed DEF DoomedBy
<1>. HIDE DEF doomed
<1>3. /\ DOMAIN ledger' = DOMAIN ledger
      /\ \A r \in DOMAIN ledger :
            /\ ledger'[r] \in RunTypes
            /\ ledger'[r].op = ledger[r].op /\ ledger'[r].inputs = ledger[r].inputs
            /\ ledger'[r].heads = ledger[r].heads /\ ledger'[r].source = ledger[r].source
            /\ ledger'[r].first = ledger[r].first
            /\ ledger'[r].gone <=> ledger[r].gone \/ r \in doomed
  <2>. SUFFICES ASSUME NEW r \in DOMAIN ledger
                PROVE  /\ ledger'[r] \in RunTypes
                       /\ ledger'[r].op = ledger[r].op /\ ledger'[r].inputs = ledger[r].inputs
                       /\ ledger'[r].heads = ledger[r].heads /\ ledger'[r].source = ledger[r].source
                       /\ ledger'[r].first = ledger[r].first
                       /\ ledger'[r].gone <=> ledger[r].gone \/ r \in doomed
    BY <1>1
  <2>1. ledger[r] \in RunTypes
    BY <1>t, Typed
  <2>2. CASE r \in doomed
    BY <1>1, <2>1, <2>2 DEF RunTypes
  <2>3. CASE r \notin doomed
    BY <1>1, <2>1, <2>3
  <2>. QED
    BY <2>2, <2>3
<1>4. /\ DOMAIN rows' = DOMAIN rows
      /\ \A j \in DOMAIN rows :
            /\ rows'[j] \in RowTypes
            /\ rows'[j].key = rows[j].key /\ rows'[j].run = rows[j].run
            /\ rows'[j].status = rows[j].status
            /\ rows'[j].gone <=> rows[j].gone \/ j = i \/ rows[j].run \in doomed
  <2>. SUFFICES ASSUME NEW j \in DOMAIN rows
                PROVE  /\ rows'[j] \in RowTypes
                       /\ rows'[j].key = rows[j].key /\ rows'[j].run = rows[j].run
                       /\ rows'[j].status = rows[j].status
                       /\ rows'[j].gone <=> rows[j].gone \/ j = i \/ rows[j].run \in doomed
    BY <1>1
  <2>1. rows[j] \in RowTypes
    BY <1>t, Typed
  <2>2. CASE j = i \/ rows[j].run \in doomed
    BY <1>1, <2>1, <2>2 DEF RowTypes
  <2>3. CASE ~(j = i \/ rows[j].run \in doomed)
    BY <1>1, <2>1, <2>3
  <2>. QED
    BY <2>2, <2>3
<1>5. PromotionTypes'
  <2>1. ledger' \in Seq(RunTypes)
    <3>1. DOMAIN ledger = 1 .. Len(ledger) /\ Len(ledger) \in Nat
      BY <1>t DEF PromotionTypes
    <3>2. ledger' \in [1 .. Len(ledger) -> RunTypes]
      BY <1>1, <1>3, <3>1
    <3>. QED
      BY <3>1, <3>2
  <2>2. rows' \in Seq(RowTypes)
    <3>1. DOMAIN rows = 1 .. Len(rows) /\ Len(rows) \in Nat
      BY <1>t DEF PromotionTypes
    <3>2. rows' \in [1 .. Len(rows) -> RowTypes]
      BY <1>1, <1>4, <3>1
    <3>. QED
      BY <3>1, <3>2
  <2>3. draft' \in [Pipelines -> DraftTypes]
    BY <1>t, <1>1, HeadsTyped
  <2>. QED
    BY <1>t, <1>1, <2>1, <2>2, <2>3 DEF PromotionTypes, RowTypes, RunTypes, DraftTypes, HeadTypes
<1>6. ASSUME NEW j \in DOMAIN rows' PROVE RowGoesWithRun(j)'
  BY <1>2, <1>3, <1>4, <1>6 DEF PromotionInv, RowGoesWithRun
<1>7. ASSUME NEW r \in DOMAIN ledger' PROVE HasOutputs(r)' /\ ExpectsOlder(r)' /\ FollowsSource(r)'
  <2>1. HasOutputs(r) /\ ExpectsOlder(r) /\ FollowsSource(r)
    BY <1>3, <1>7 DEF PromotionInv
  <2>2. HasOutputs(r)'
    BY <1>t, <1>3, <1>4, <1>7, <2>1 DEF HasOutputs, OutputOf
  <2>3. ExpectsOlder(r)'
    BY <1>t, <1>1, <1>3, <1>7, <2>1 DEF ExpectsOlder
  <2>4. FollowsSource(r)'
    BY <1>3, <1>7, <2>1 DEF FollowsSource
  <2>. QED
    BY <2>2, <2>3, <2>4
<1>8. AppliedOnce'
  <2>. SUFFICES ASSUME NEW r \in DOMAIN ledger, NEW s \in DOMAIN ledger,
                       ledger[r].op = "promote", ledger[s].op = "promote",
                       ~ledger[r].gone, ~ledger[s].gone, ledger[r].source = ledger[s].source,
                       ledger'[ledger[r].source].op = "derive"
                PROVE  r = s
    BY <1>3 DEF AppliedOnce
  <2>1. ledger[r].source \in DOMAIN ledger
    BY DEF PromotionInv, FollowsSource
  <2>. QED
    BY <1>3, <2>1 DEF PromotionInv, AppliedOnce
<1>. QED
  BY <1>5, <1>6, <1>7, <1>8 DEF PromotionInv

\* Steps of the memory of pipelines.
LEMMA DraftsStep ==
  ASSUME PromotionInv, NEW p \in Pipelines, ReadSource(p) \/ ExpectHeads(p) \/ GiveUp(p)
  PROVE  PromotionInv'
<1>t. PromotionTypes /\ UNCHANGED <<declared, rows, ledger>> /\ Keys' = Keys
  BY DEF PromotionInv, ReadSource, ExpectHeads, GiveUp, Keys
<1>h. Heads \in HeadTypes /\ NoDraft \in DraftTypes /\ draft[p] \in DraftTypes
  BY <1>t, HeadsTyped DEF PromotionTypes
<1>1. draft' \in [Pipelines -> DraftTypes]
  <2>1. CASE ReadSource(p)
    <3>1. [NoDraft EXCEPT !.phase = "read", !.seen = Heads] \in DraftTypes
      BY <1>h DEF DraftTypes
    <3>. QED
      BY <1>t, <2>1, <3>1 DEF ReadSource, PromotionTypes
  <2>2. CASE ExpectHeads(p)
    <3>1. [draft[p] EXCEPT !.phase = "working", !.heads = Heads] \in DraftTypes
      BY <1>h DEF DraftTypes
    <3>2. draft' = [draft EXCEPT ![p] = [draft[p] EXCEPT !.phase = "working", !.heads = Heads]]
      BY <1>t, <2>2 DEF ExpectHeads, PromotionTypes
    <3>. QED
      BY <1>t, <3>1, <3>2 DEF PromotionTypes
  <2>3. CASE GiveUp(p)
    BY <1>t, <1>h, <2>3 DEF GiveUp, PromotionTypes
  <2>. QED
    BY <2>1, <2>2, <2>3
<1>2. PromotionTypes'
  BY <1>t, <1>1 DEF PromotionTypes, RowTypes, RunTypes, DraftTypes, HeadTypes
<1>. QED
  BY <1>t, <1>2, RowsStep DEF PromotionInv, PromotionTypes

\* What a new run keeps of the invariant, whatever it is.
LEMMA RecordStep ==
  ASSUME PromotionInv, NEW op \in {"derive", "promote"}, NEW inputs \in SUBSET Nat,
         NEW heads \in HeadTypes, NEW source \in Nat, NEW status \in Statuses, NEW ready,
         Recorded(op, inputs, heads, source, status, ready), declared' = declared,
         draft' \in [Pipelines -> DraftTypes],
         op = "promote" => status = "active" /\ source \in DOMAIN ledger,
         op = "derive" => /\ \A k \in Keys : heads[k] <= Len(rows)
                          /\ declared.reads = "current" => inputs = {heads[k] : k \in Keys} \ {0},
         AppliedOnce'
  PROVE  PromotionInv'
<1>. DEFINE n == Len(rows)
            new == Len(ledger) + 1
<1>t. /\ PromotionTypes /\ Keys' = Keys
      /\ n \in Nat /\ DOMAIN rows = 1 .. n /\ Keys \subseteq Nat \ {0}
      /\ new \in Nat \ {0} /\ DOMAIN ledger = 1 .. Len(ledger)
  BY KeysTyped DEF PromotionInv, PromotionTypes, Keys
<1>f. /\ rows' \in Seq(RowTypes)
      /\ \A j \in DOMAIN rows : j \in DOMAIN rows' /\ rows'[j] = rows[j]
      /\ \A k \in Keys : /\ n + k \in DOMAIN rows'
                         /\ rows'[n + k] = [key |-> k, status |-> status, ready |-> ready,
                                            run |-> new, gone |-> FALSE]
      /\ \A j \in DOMAIN rows' : j \in DOMAIN rows \/ \E k \in Keys : j = n + k
  BY DEF Recorded
<1>l. /\ ledger' \in Seq(RunTypes) /\ new \in DOMAIN ledger'
      /\ \A s \in DOMAIN ledger : s \in DOMAIN ledger' /\ ledger'[s] = ledger[s]
      /\ ledger'[new] = [op |-> op, inputs |-> inputs, heads |-> heads, source |-> source,
                         first |-> n, gone |-> FALSE]
      /\ \A s \in DOMAIN ledger' : s \in DOMAIN ledger \/ s = new
  BY DEF Recorded
<1>. HIDE DEF n, new
<1>1. PromotionTypes'
  BY <1>t, <1>f, <1>l DEF PromotionTypes, RowTypes, RunTypes, DraftTypes, HeadTypes
<1>2. ASSUME NEW j \in DOMAIN rows' PROVE RowGoesWithRun(j)'
  <2>1. CASE j \in DOMAIN rows
    <3>1. RowGoesWithRun(j) /\ rows'[j] = rows[j]
      BY <1>f, <2>1 DEF PromotionInv
    <3>. QED
      BY <1>l, <3>1 DEF RowGoesWithRun
  <2>2. ASSUME NEW k \in Keys, j = n + k PROVE RowGoesWithRun(j)'
    <3>0. rows'[j] = [key |-> k, status |-> status, ready |-> ready, run |-> new, gone |-> FALSE]
      BY <1>f, <2>2, Zenon
    <3>1. rows'[j].run = new /\ rows'[j].gone = FALSE
      BY <3>0
    <3>. QED
      BY <1>l, <3>1 DEF RowGoesWithRun
  <2>. QED
    BY <1>f, <1>2, <2>1, <2>2
<1>3. ASSUME NEW r \in DOMAIN ledger' PROVE HasOutputs(r)' /\ ExpectsOlder(r)' /\ FollowsSource(r)'
  <2>1. CASE r \in DOMAIN ledger
    <3>1. HasOutputs(r) /\ ExpectsOlder(r) /\ FollowsSource(r) /\ ledger'[r] = ledger[r]
      BY <1>l, <2>1 DEF PromotionInv
    <3>2. HasOutputs(r)'
      <4>1. \A k \in Keys : OutputOf(r, k)' = OutputOf(r, k)
        BY <3>1 DEF OutputOf
      <4>. QED
        BY <1>t, <1>f, <3>1, <4>1 DEF HasOutputs
    <3>3. ExpectsOlder(r)'
      BY <1>t, <3>1 DEF ExpectsOlder
    <3>4. FollowsSource(r)'
      BY <1>l, <3>1 DEF FollowsSource
    <3>. QED
      BY <3>2, <3>3, <3>4
  <2>2. CASE r = new
    <3>0. /\ ledger'[r].op = op /\ ledger'[r].inputs = inputs /\ ledger'[r].heads = heads
          /\ ledger'[r].first = n
      BY <1>l, <2>2
    <3>1. HasOutputs(r)'
      <4>. SUFFICES ASSUME NEW k \in Keys
                    PROVE  /\ n + k \in DOMAIN rows'
                           /\ rows'[n + k].key = k /\ rows'[n + k].run = r
                           /\ op = "promote" => rows'[n + k].status = "active"
        BY <1>t, <3>0 DEF HasOutputs, OutputOf
      <4>1. /\ rows'[n + k] = [key |-> k, status |-> status, ready |-> ready, run |-> new,
                               gone |-> FALSE]
            /\ n + k \in DOMAIN rows'
        BY <1>f, Zenon
      <4>2. rows'[n + k].key = k /\ rows'[n + k].run = new /\ rows'[n + k].status = status
        BY <4>1
      <4>. QED
        BY <2>2, <4>1, <4>2
    <3>2. ExpectsOlder(r)'
      <4>1. op = "derive" => /\ \A k \in Keys : heads[k] <= n
                             /\ declared.reads = "current" =>
                                    inputs = {heads[k] : k \in Keys} \ {0}
        BY DEF n
      <4>. QED
        BY <1>t, <3>0, <4>1 DEF ExpectsOlder
    <3>3. FollowsSource(r)'
      <4>. SUFFICES ASSUME op = "promote"
                    PROVE  /\ source \in DOMAIN ledger'
                           /\ ledger'[source].first <= n
        BY <1>l, <2>2 DEF FollowsSource
      <4>1. source \in DOMAIN ledger /\ ledger'[source] = ledger[source] /\ source \in DOMAIN ledger'
        BY <1>l
      <4>2. HasOutputs(source) /\ 1 \in Keys /\ ledger[source].first \in Nat
        BY <1>t, <4>1, KeysTyped, Typed DEF PromotionInv, PromotionTypes, RunTypes
      <4>3. ledger[source].first + 1 \in 1 .. n
        BY <1>t, <4>2 DEF HasOutputs, OutputOf
      <4>. QED
        BY <1>t, <4>1, <4>2, <4>3
    <3>. QED
      BY <3>1, <3>2, <3>3
  <2>. QED
    BY <1>l, <2>1, <2>2
<1>. QED
  BY <1>1, <1>2, <1>3 DEF PromotionInv

\* A run that is not a promotion changes nothing about promotions.
LEMMA CommitStep ==
  ASSUME PromotionInv, NEW p \in Pipelines, CommitRun(p)
  PROVE  PromotionInv'
<1>. DEFINE status == IF declared.review THEN "draft" ELSE "active"
<1>t. /\ PromotionTypes /\ draft[p] \in DraftTypes /\ NoDraft \in DraftTypes
      /\ draft' = [draft EXCEPT ![p] = NoDraft] /\ declared' = declared
  BY HeadsTyped DEF PromotionInv, PromotionTypes, CommitRun
<1>1. SeenRows(p) \in SUBSET Nat /\ draft[p].heads \in HeadTypes /\ status \in Statuses
  BY <1>t DEF SeenRows, DraftTypes, HeadTypes, Statuses
<1>2. Record("derive", SeenRows(p), draft[p].heads, 0, status, FALSE)
  BY DEF CommitRun
<1>3. draft[p].heads = Heads /\ (declared.reads = "current" => draft[p].seen = Heads)
  BY DEF CommitRun, BasisHolds
<1>4. \A k \in Keys : Heads[k] <= Len(rows)
  BY <1>t, HeadFacts DEF Heads, PromotionTypes
<1>r. Recorded("derive", SeenRows(p), draft[p].heads, 0, status, FALSE)
  <2>. HIDE DEF status
  <2>1. 0 \in Nat /\ FALSE \in BOOLEAN /\ "derive" \in {"derive", "promote"}
    OBVIOUS
  <2>. QED
    BY <1>t, <1>1, <1>2, <2>1, RecordFacts, Zenon
<1>5. AppliedOnce'
  <2>1. /\ \A s \in DOMAIN ledger : ledger'[s] = ledger[s]
        /\ ledger'[Len(ledger) + 1].op = "derive"
        /\ \A s \in DOMAIN ledger' : s \in DOMAIN ledger \/ s = Len(ledger) + 1
    BY <1>r DEF Recorded
  <2>2. \A r \in DOMAIN ledger : ledger[r].op = "promote" => ledger[r].source \in DOMAIN ledger
    BY DEF PromotionInv, FollowsSource
  <2>. QED
    BY <2>1, <2>2 DEF PromotionInv, AppliedOnce
<1>6. draft' \in [Pipelines -> DraftTypes]
  BY <1>t DEF PromotionTypes
<1>7. declared.reads = "current" => SeenRows(p) = {draft[p].heads[k] : k \in Keys} \ {0}
  BY <1>3 DEF SeenRows
<1>. HIDE DEF status
<1>. QED
  BY <1>t, <1>1, <1>3, <1>4, <1>5, <1>6, <1>7, <1>r, RecordStep

\* Every promotion that survives keeps the heads above those its candidate
\* expected, so a second one is refused.
LEMMA PromoteStep ==
  ASSUME PromotionInv, NEW d \in DOMAIN ledger, Promote(d)
  PROVE  PromotionInv'
<1>t. /\ PromotionTypes /\ NoHeads \in HeadTypes /\ declared' = declared /\ draft' = draft
      /\ d \in Nat
  BY HeadsTyped DEF PromotionInv, PromotionTypes, NoDraft, DraftTypes, Promote, NoHeads, HeadTypes
<1>1. SourceRows(d) \in SUBSET Nat
  <2>1. ledger[d].first \in Nat /\ Keys \subseteq Nat
    BY <1>t, Typed, KeysTyped DEF PromotionTypes, RunTypes
  <2>2. \A k \in Keys : OutputOf(d, k) \in Nat
    BY <2>1 DEF OutputOf
  <2>. QED
    BY <2>2 DEF SourceRows
<1>2. Record("promote", SourceRows(d), NoHeads, d, "active", TRUE)
  BY DEF Promote
<1>r. Recorded("promote", SourceRows(d), NoHeads, d, "active", TRUE)
  <2>1. "active" \in Statuses /\ TRUE \in BOOLEAN /\ "promote" \in {"derive", "promote"}
    BY DEF Statuses
  <2>. QED
    BY <1>t, <1>1, <1>2, <2>1, RecordFacts, Zenon
<1>3. AppliedOnce'
  <2>. DEFINE new == Len(ledger) + 1
  <2>1. /\ \A s \in DOMAIN ledger : ledger'[s] = ledger[s]
        /\ ledger'[new].source = d
        /\ \A s \in DOMAIN ledger' : s \in DOMAIN ledger \/ s = new
    BY <1>r DEF Recorded
  <2>. HIDE DEF new
  <2>2. \A r \in DOMAIN ledger : ledger[r].op = "promote" => ledger[r].source \in DOMAIN ledger
    BY DEF PromotionInv, FollowsSource
  <2>3. ASSUME NEW r \in DOMAIN ledger, ledger[r].op = "promote", ~ledger[r].gone,
               ledger[r].source = d, ledger[d].op = "derive"
        PROVE  FALSE
    <3>1. ledger[d].heads = Heads
      BY <2>3 DEF Promote, HeadsExpected
    <3>2. 1 \in Keys /\ HeadOf(1) = ledger[d].heads[1]
      BY <1>t, <3>1, KeysTyped DEF Heads, PromotionTypes
    <3>3. ledger[d].heads[1] <= ledger[d].first /\ ledger[d].first <= ledger[r].first
      BY <2>3, <3>2 DEF PromotionInv, ExpectsOlder, FollowsSource
    <3>4. ledger[r].first + 1 <= HeadOf(1)
      BY <2>3, <3>2, SurvivorsHoldHeads DEF OutputOf
    <3>5. ledger[d].first \in Nat /\ ledger[r].first \in Nat /\ HeadOf(1) \in Nat
      <4>1. HeadOf(1) \in 0 .. Len(rows) /\ Len(rows) \in Nat
        BY <1>t, <3>2, Typed, HeadFacts
      <4>. QED
        BY <1>t, <4>1, Typed DEF RunTypes
    <3>. QED
      BY <3>2, <3>3, <3>4, <3>5
  <2>. QED
    BY <2>1, <2>2, <2>3 DEF PromotionInv, AppliedOnce
<1>. QED
  BY <1>t, <1>1, <1>3, <1>r, RecordStep DEF PromotionTypes, Statuses

LEMMA StepPromotion == PromotionInv /\ [PromotionNext]_promotionVars => PromotionInv'
<1>. SUFFICES ASSUME PromotionInv, [PromotionNext]_promotionVars PROVE PromotionInv'
  OBVIOUS
<1>1. CASE UNCHANGED promotionVars
  <2>1. PromotionTypes'
    BY <1>1 DEF promotionVars, PromotionInv, PromotionTypes, RowTypes, RunTypes, DraftTypes,
                HeadTypes, Keys
  <2>. QED
    BY <1>1, <2>1, RowsStep DEF promotionVars
<1>2. CASE PromotionNext
  BY <1>2, IngestStep, EnrichStep, EraseStep, DraftsStep, CommitStep, PromoteStep DEF PromotionNext
<1>. QED
  BY <1>1, <1>2

\* The inductive invariant: runs and their outputs go together, derivations
\* expect rows older than their own, and candidates are applied once.
THEOREM PromotionInvariance == PromotionSpec => []PromotionInv
  BY InitPromotion, StepPromotion, PTL DEF PromotionSpec

\* A candidate is applied once, however often callers repeat a promotion, roll
\* back and erase: the check of the expected heads in promote_run is enough,
\* because erasing a copy dooms the promotion (promote.py, erase.py).
THEOREM CandidatesApplyOnce == PromotionSpec => []AppliedOnce
<1>1. PromotionInv => AppliedOnce
  BY DEF PromotionInv
<1>. QED
  BY <1>1, PromotionInvariance, PTL

\* What a derivation that reads current heads wrote, directly or by promotion,
\* replaces exactly the rows that its tasks had in view (_verify_heads and
\* _verify_reads of basis.py, promotion_stale of promote.py).
THEOREM UpdatesAreSeen == PromotionSpec => NoLostUpdate
<1>1. PromotionInv /\ [PromotionNext]_promotionVars
        => [Activated /\ Author.op = "derive" /\ declared.reads = "current"
              => {HeadOf(k) : k \in Keys} \ {0} = Author.inputs]_promotionVars
  <2>. SUFFICES ASSUME PromotionInv, PromotionNext, Activated, Author.op = "derive",
                       declared.reads = "current"
                PROVE  {HeadOf(k) : k \in Keys} \ {0} = Author.inputs
    BY DEF promotionVars
  <2>t. PromotionTypes /\ Len(ledger) \in Nat
    BY DEF PromotionInv, PromotionTypes
  <2>h. {HeadOf(k) : k \in Keys} = {Heads[k] : k \in Keys}
    BY DEF Heads
  <2>1. ASSUME NEW p \in Pipelines, CommitRun(p)
        PROVE  {HeadOf(k) : k \in Keys} \ {0} = Author.inputs
    <3>. DEFINE status == IF declared.review THEN "draft" ELSE "active"
    <3>1. /\ SeenRows(p) \in SUBSET Nat /\ draft[p].heads \in HeadTypes /\ status \in Statuses
          /\ Record("derive", SeenRows(p), draft[p].heads, 0, status, FALSE)
      <4>1. draft[p] \in DraftTypes
        BY <2>t, Typed
      <4>. QED
        BY <2>1, <4>1 DEF CommitRun, SeenRows, DraftTypes, HeadTypes, Statuses
    <3>. HIDE DEF status
    <3>2. Newest.op = "derive" /\ Newest.inputs = SeenRows(p)
      <4>1. 0 \in Nat /\ FALSE \in BOOLEAN /\ "derive" \in {"derive", "promote"}
        OBVIOUS
      <4>2. Recorded("derive", SeenRows(p), draft[p].heads, 0, status, FALSE)
        BY <2>t, <3>1, <4>1, RecordFacts, Zenon
      <4>. QED
        BY <4>2 DEF Recorded, Newest
    <3>3. draft[p].seen = Heads
      BY <2>1 DEF CommitRun, BasisHolds
    <3>. QED
      BY <2>h, <3>2, <3>3 DEF Author, SeenRows
  <2>2. ASSUME NEW d \in DOMAIN ledger, Promote(d)
        PROVE  {HeadOf(k) : k \in Keys} \ {0} = Author.inputs
    <3>1. /\ SourceRows(d) \in SUBSET Nat /\ NoHeads \in HeadTypes /\ d \in Nat
          /\ Record("promote", SourceRows(d), NoHeads, d, "active", TRUE)
      <4>1. ledger[d].first \in Nat /\ Keys \subseteq Nat /\ d \in Nat
        BY <2>t, Typed, KeysTyped DEF PromotionTypes, RunTypes
      <4>2. SourceRows(d) \in SUBSET Nat
        BY <4>1 DEF SourceRows, OutputOf
      <4>. QED
        BY <2>2, <4>1, <4>2 DEF Promote, NoHeads, HeadTypes
    <3>2. Newest.op = "promote" /\ Newest.source = d
      <4>1. "active" \in Statuses /\ TRUE \in BOOLEAN /\ "promote" \in {"derive", "promote"}
        BY DEF Statuses
      <4>2. Recorded("promote", SourceRows(d), NoHeads, d, "active", TRUE)
        BY <2>t, <3>1, <4>1, RecordFacts, Zenon
      <4>. QED
        BY <4>2 DEF Recorded, Newest
    <3>3. Author = ledger[d]
      BY <3>2 DEF Author
    <3>4. ledger[d].heads = Heads
      BY <2>2, <3>3 DEF Promote, HeadsExpected
    <3>5. ledger[d].inputs = {ledger[d].heads[k] : k \in Keys} \ {0}
      BY <3>3 DEF PromotionInv, ExpectsOlder
    <3>. QED
      BY <2>h, <3>3, <3>4, <3>5
  <2>3. CASE \/ \E k \in Keys : IngestKeyed(k)
             \/ \E i \in DOMAIN rows : FinishEnrichment(i)
             \/ \E p \in Pipelines : ReadSource(p) \/ ExpectHeads(p) \/ GiveUp(p)
    <3>1. ledger' = ledger
      BY <2>3 DEF IngestKeyed, FinishEnrichment, ReadSource, ExpectHeads, GiveUp
    <3>. QED
      BY <2>t, <3>1 DEF Activated
  <2>4. ASSUME NEW i \in DOMAIN rows, EraseRow(i) PROVE FALSE
    <3>1. DOMAIN ledger' = DOMAIN ledger
      BY <2>4 DEF EraseRow
    <3>2. Len(ledger') = Len(ledger)
      <4>1. DOMAIN ledger = 1 .. Len(ledger)
        BY <2>t DEF PromotionTypes
      <4>2. ledger' \in Seq(RunTypes)
        BY <2>4, EraseStep DEF PromotionInv, PromotionTypes, RunTypes, HeadTypes, Keys, EraseRow
      <4>. QED
        BY <2>t, <3>1, <4>1, <4>2
    <3>. QED
      BY <2>t, <3>2 DEF Activated
  <2>. QED
    BY <2>1, <2>2, <2>3, <2>4 DEF PromotionNext
<1>. QED
  BY <1>1, PromotionInvariance, PTL DEF PromotionSpec, NoLostUpdate

HIDE PromotionAssumption
-----------------------------------------------------------------------------
(***************************************************************************)
(* Lineage, answers and pages of Ingest, for every number of clients, rows *)
(* and versions, and whatever batches are sent.                            *)
(*                                                                         *)
(* While a batch is being written nothing is erased, so what it cites      *)
(* stays alive until it commits; a row that is open or alive is the only   *)
(* one of its dedupe key; and a page cites itself alone, so that what      *)
(* derives from a page is of the page.                                     *)
(***************************************************************************)
ItemTypes == [key : STRING, dedupe : STRING, tomb : BOOLEAN, cites : SUBSET Nat]
Held == Clients \cup {"live"}
StoredTypes == [item : ItemTypes, version : Nat, depth : Nat, state : Held \cup {"gone", "never"}]
Phases == {"quiet", "sent", "prepared", "writing", "refused", "unanswered"}
ClientTypes == [phase : Phases, items : Seq(ItemTypes), version : Nat, ids : Seq(Nat)]

IngestTypes ==
    /\ traffic \in Traffics
    /\ store \in Seq(StoredTypes)
    /\ active \in Nat /\ removals \in Nat
    /\ client \in [Clients -> ClientTypes]
    /\ sends \in [Clients -> Nat]
    /\ answers \subseteq [items : Seq(ItemTypes), ids : Seq(Nat)]

\* An item cites at most one row, of its own page.
OwnPage(item) ==
    /\ \A p \in item.cites : p \in DOMAIN store /\ item.key # NoKey /\ store[p].item.key = item.key
    /\ \A p, q \in item.cites : p = q

\* What is open or alive cites what is alive.
RowHolds(r) ==
    /\ OwnPage(store[r].item)
    /\ store[r].state \in Held => store[r].item.cites \subseteq Live
    /\ store[r].state \in Clients => store[r].state \in Writing
    /\ store[r].version \in 1 .. active

\* A transaction keeps its parents, and has answered its first items.
ClientHolds(c) ==
    /\ \A i \in DOMAIN client[c].items : OwnPage(client[c].items[i])
    /\ client[c].phase \in {"prepared", "writing"} => client[c].version \in 1 .. active
    /\ c \notin Writing => client[c].ids = <<>>
    /\ c \in Writing =>
        /\ \A i \in DOMAIN client[c].items : client[c].items[i].cites \subseteq Live
        /\ Len(client[c].ids) <= Len(client[c].items)
        /\ \A i \in DOMAIN client[c].ids :
            client[c].ids[i] \in Visible(c) /\ store[client[c].ids[i]].item = client[c].items[i]

AnswerHolds(a) ==
    /\ Len(a.ids) = Len(a.items)
    /\ \A i \in DOMAIN a.items :
        /\ a.ids[i] \in DOMAIN store /\ store[a.ids[i]].state \in {"live", "gone"}
        /\ store[a.ids[i]].item = a.items[i]

\* A dedupe key has one holder.
OneHolder ==
    \A r, s \in DOMAIN store :
        /\ {store[r].state, store[s].state} \subseteq Held
        /\ store[r].item.dedupe # NoKey /\ store[r].item.dedupe = store[s].item.dedupe
        => r = s

IngestInv ==
    /\ IngestTypes
    /\ active \in 1 .. traffic.publishes + 1
    /\ \A r \in DOMAIN store : RowHolds(r)
    /\ \A c \in Clients : ClientHolds(c)
    /\ \A a \in answers : AnswerHolds(a)
    /\ OneHolder

USE TrafficAssumption

-----------------------------------------------------------------------------
(* The store.                                                              *)



LEMMA IngestTyped ==
  ASSUME IngestTypes
  PROVE  /\ Len(store) \in Nat /\ DOMAIN store = 1 .. Len(store)
         /\ \A r \in DOMAIN store : store[r] \in StoredTypes
         /\ \A c \in Clients :
                /\ client[c] \in ClientTypes
                /\ Len(client[c].items) \in Nat /\ Len(client[c].ids) \in Nat
                /\ DOMAIN client[c].items = 1 .. Len(client[c].items)
                /\ DOMAIN client[c].ids = 1 .. Len(client[c].ids)
                /\ \A i \in DOMAIN client[c].items : client[c].items[i] \in ItemTypes
  BY DEF IngestTypes, ClientTypes

\* The head of a page is one of its rows.
LEMMA PageHeadFacts ==
  ASSUME IngestTypes, NEW some \in SUBSET DOMAIN store, NEW key
  PROVE  /\ PageHead(some, key) \subseteq PageRows(some, key)
         /\ \A p, q \in PageHead(some, key) : p = q
<1>1. CASE PageRows(some, key) = {}
  BY <1>1 DEF PageHead
<1>2. CASE PageRows(some, key) # {}
  <2>1. Len(store) \in Nat /\ PageRows(some, key) \in SUBSET (0 .. Len(store))
    BY IngestTyped DEF PageRows
  <2>2. Max(PageRows(some, key)) \in PageRows(some, key)
    BY <1>2, <2>1, MaxBounded
  <2>. QED
    BY <1>2, <2>2 DEF PageHead
<1>. QED
  BY <1>1, <1>2

\* Rows whose state changes keep the rest.
Restated(R, new) ==
    [r \in DOMAIN store |-> IF r \in R THEN [store[r] EXCEPT !.state = new] ELSE store[r]]

LEMMA RowsRestated ==
  ASSUME IngestTypes, NEW R, NEW new \in Held \cup {"gone", "never"}, store' = Restated(R, new)
  PROVE  /\ store' \in Seq(StoredTypes) /\ Len(store') = Len(store)
         /\ DOMAIN store' = DOMAIN store
         /\ \A r \in DOMAIN store :
                /\ store'[r].item = store[r].item /\ store'[r].version = store[r].version
                /\ store'[r].state = IF r \in R THEN new ELSE store[r].state
<1>. USE DEF Restated
<1>1. /\ Len(store) \in Nat /\ DOMAIN store = 1 .. Len(store)
      /\ \A r \in DOMAIN store : store[r] \in StoredTypes
  BY IngestTyped
<1>2. \A r \in DOMAIN store : [store[r] EXCEPT !.state = new] \in StoredTypes
  BY <1>1 DEF StoredTypes
<1>3. store' \in [1 .. Len(store) -> StoredTypes]
  BY <1>1, <1>2
<1>4. store' \in Seq(StoredTypes) /\ Len(store') = Len(store) /\ DOMAIN store' = DOMAIN store
  BY <1>1, <1>3
<1>5. \A r \in DOMAIN store :
        /\ store'[r].item = store[r].item /\ store'[r].version = store[r].version
        /\ store'[r].state = IF r \in R THEN new ELSE store[r].state
  BY <1>1 DEF StoredTypes
<1>. QED
  BY <1>4, <1>5

-----------------------------------------------------------------------------
(* Steps of a client that leave the store alone.                           *)

LEMMA InitIngest == IngestInit => IngestInv
<1>. SUFFICES ASSUME IngestInit PROVE IngestInv
  OBVIOUS
<1>. USE DEF IngestInit
<1>1. Quiet \in ClientTypes
  BY DEF Quiet, ClientTypes, Phases
<1>2. IngestTypes
  BY <1>1 DEF IngestTypes
<1>3. traffic.publishes \in Nat
  OBVIOUS
<1>4. \A c \in Clients : ClientHolds(c)
  BY DEF ClientHolds, Quiet, Writing
<1>. QED
  BY <1>2, <1>3, <1>4 DEF IngestInv, OneHolder

LEMMA ClientStep ==
  ASSUME IngestInv, NEW c \in Clients, UNCHANGED <<traffic, store, active, removals, answers>>,
         sends' \in [Clients -> Nat], client' \in [Clients -> ClientTypes],
         \A d \in Clients \ {c} : client'[d] = client[d],
         client'[c].phase = "writing" \/ c \notin Writing,
         ClientHolds(c)'
  PROVE  IngestInv'
<1>1. IngestTypes'
  BY DEF IngestInv, IngestTypes
<1>2. (active \in 1 .. traffic.publishes + 1)'
  BY DEF IngestInv
<1>3. Writing \subseteq Writing'
  BY DEF Writing
<1>4. \A r \in DOMAIN store' : RowHolds(r)'
  BY <1>3 DEF IngestInv, RowHolds, OwnPage, Live
<1>5. \A d \in Clients : ClientHolds(d)'
  <2>. SUFFICES ASSUME NEW d \in Clients, d # c PROVE ClientHolds(d)'
    OBVIOUS
  <2>1. client'[d] = client[d] /\ (d \in Writing' <=> d \in Writing)
    BY DEF Writing
  <2>. QED
    BY <2>1 DEF IngestInv, ClientHolds, OwnPage, Live, Visible, OpenOf
<1>6. (\A a \in answers : AnswerHolds(a))' /\ OneHolder'
  BY DEF IngestInv, AnswerHolds, OneHolder
<1>. QED
  BY <1>1, <1>2, <1>4, <1>5, <1>6 DEF IngestInv

LEMMA PostStep ==
  ASSUME IngestInv, NEW c \in Clients, c \notin Writing, NEW items \in Seq(ItemTypes),
         \A i \in DOMAIN items : OwnPage(items[i]), Post(c, items)
  PROVE  IngestInv'
<1>. DEFINE new == [phase |-> "sent", items |-> items, version |-> 0, ids |-> <<>>]
<1>1. new \in ClientTypes
  BY DEF ClientTypes, Phases
<1>2. client' = [client EXCEPT ![c] = new] /\ UNCHANGED <<traffic, store, active, removals, answers>>
  BY DEF Post
<1>3. client \in [Clients -> ClientTypes] /\ sends \in [Clients -> Nat]
  BY DEF IngestInv, IngestTypes
<1>4. client' \in [Clients -> ClientTypes] /\ client'[c] = new
      /\ \A d \in Clients \ {c} : client'[d] = client[d]
  BY <1>1, <1>2, <1>3
<1>5. sends' \in [Clients -> Nat]
  BY <1>3 DEF Post
<1>6. ClientHolds(c)'
  BY <1>2, <1>4 DEF ClientHolds, Writing, OwnPage
<1>. QED
  BY <1>2, <1>4, <1>5, <1>6, ClientStep

LEMMA AskStep ==
  ASSUME IngestInv, NEW c \in Clients, Ask(c)
  PROVE  IngestInv'
<1>1. PICK batch \in traffic.batches :
        Post(c, [i \in DOMAIN batch |-> Item(batch[i])])
  BY DEF Ask
<1>. DEFINE items == [i \in DOMAIN batch |-> Item(batch[i])]
<1>. DEFINE Written == [key : STRING, dedupe : STRING, tomb : BOOLEAN, cites : {"nothing", "head"}]
<1>0. batch \in Seq(Written)
  BY DEF IngestInv, IngestTypes
<1>. HIDE DEF Written
<1>2. /\ DOMAIN batch = 1 .. Len(batch) /\ Len(batch) \in Nat
      /\ \A i \in DOMAIN batch : batch[i] \in Written
  BY <1>0
<1>3. \A i \in DOMAIN batch : Item(batch[i]) \in ItemTypes /\ OwnPage(Item(batch[i]))
  <2>. SUFFICES ASSUME NEW i \in DOMAIN batch
                PROVE  Item(batch[i]) \in ItemTypes /\ OwnPage(Item(batch[i]))
    OBVIOUS
  <2>. DEFINE t == batch[i]
  <2>1. t.key \in STRING /\ t.dedupe \in STRING /\ t.tomb \in BOOLEAN
    BY <1>2 DEF Written
  <2>2. /\ PageHead(Live, t.key) \subseteq PageRows(Live, t.key)
        /\ \A p, q \in PageHead(Live, t.key) : p = q
    BY PageHeadFacts DEF IngestInv, Live
  <2>3. \A p \in PageHead(Live, t.key) :
            p \in DOMAIN store /\ t.key # NoKey /\ store[p].item.key = t.key
    BY <2>2 DEF PageRows, Live
  <2>4. DOMAIN store \subseteq Nat
    BY IngestTyped DEF IngestInv
  <2>5. /\ Item(t).key = t.key /\ Item(t).cites \subseteq PageHead(Live, t.key)
        /\ Item(t) = [key |-> t.key, dedupe |-> t.dedupe, tomb |-> t.tomb, cites |-> Item(t).cites]
    BY DEF Item
  <2>6. Item(t) \in ItemTypes
    BY <2>1, <2>3, <2>4, <2>5 DEF ItemTypes
  <2>7. OwnPage(Item(t))
    BY <2>2, <2>3, <2>5 DEF OwnPage
  <2>. QED
    BY <2>6, <2>7
<1>4. items \in Seq(ItemTypes) /\ \A i \in DOMAIN items : OwnPage(items[i])
  BY <1>2, <1>3
<1>5. c \notin Writing
  BY DEF Ask, Writing
<1>. QED
  BY <1>1, <1>4, <1>5, PostStep

LEMMA SendStep ==
  ASSUME IngestInv, NEW c \in Clients, PostAgain(c) \/ Prepare(c) \/ BeginWrite(c)
  PROVE  IngestInv'
<1>1. /\ client \in [Clients -> ClientTypes] /\ client[c] \in ClientTypes /\ ClientHolds(c)
      /\ sends \in [Clients -> Nat] /\ active \in Nat \ {0}
  BY DEF IngestInv, IngestTypes
<1>2. CASE PostAgain(c)
  <2>1. c \notin Writing
    BY <1>2 DEF PostAgain, Writing
  <2>2. client[c].items \in Seq(ItemTypes) /\ \A i \in DOMAIN client[c].items : OwnPage(client[c].items[i])
    BY <1>1 DEF ClientTypes, ClientHolds
  <2>. QED
    BY <1>2, <2>1, <2>2, PostStep DEF PostAgain
<1>3. CASE Prepare(c)
  <2>. DEFINE new == [client[c] EXCEPT !.phase = "prepared", !.version = active]
  <2>1. /\ new \in ClientTypes /\ new.phase = "prepared" /\ new.version = active
        /\ new.items = client[c].items /\ new.ids = client[c].ids
    BY <1>1 DEF ClientTypes, Phases
  <2>2. client' = [client EXCEPT ![c] = new] /\ UNCHANGED <<traffic, store, active, removals, sends, answers>>
    BY <1>1, <1>3 DEF Prepare
  <2>. HIDE DEF new
  <2>3. /\ client' \in [Clients -> ClientTypes] /\ client'[c] = new
        /\ \A d \in Clients \ {c} : client'[d] = client[d]
    BY <1>1, <2>1, <2>2
  <2>4. c \notin Writing
    BY <1>3 DEF Prepare, Writing
  <2>5. ClientHolds(c)'
    BY <1>1, <2>1, <2>2, <2>3, <2>4 DEF ClientHolds, Writing, OwnPage
  <2>. QED
    BY <1>1, <2>2, <2>3, <2>4, <2>5, ClientStep
<1>4. CASE BeginWrite(c)
  <2>. DEFINE new == [client[c] EXCEPT !.phase = "writing"]
  <2>1. /\ new \in ClientTypes /\ new.phase = "writing" /\ new.version = client[c].version
        /\ new.items = client[c].items /\ new.ids = client[c].ids
    BY <1>1 DEF ClientTypes, Phases
  <2>2. client' = [client EXCEPT ![c] = new] /\ UNCHANGED <<traffic, store, active, removals, sends, answers>>
    BY <1>1, <1>4 DEF BeginWrite
  <2>. HIDE DEF new
  <2>3. /\ client' \in [Clients -> ClientTypes] /\ client'[c] = new
        /\ \A d \in Clients \ {c} : client'[d] = client[d]
    BY <1>1, <2>1, <2>2
  <2>4. c \notin Writing /\ client[c].phase = "prepared"
    BY <1>4 DEF BeginWrite, Writing
  <2>5. \A i \in DOMAIN client[c].items : client[c].items[i].cites \subseteq Live
    BY <1>4 DEF BeginWrite, Parents
  <2>6. client[c].ids = <<>> /\ Len(client[c].items) \in Nat
    BY <1>1, <2>4 DEF ClientHolds, ClientTypes
  <2>7. ClientHolds(c)'
    BY <1>1, <2>1, <2>2, <2>3, <2>4, <2>5, <2>6 DEF ClientHolds, Writing, OwnPage, Live
  <2>. QED
    BY <1>1, <2>1, <2>2, <2>3, <2>7, ClientStep
<1>. QED
  BY <1>2, <1>3, <1>4

-----------------------------------------------------------------------------
(* Steps of a transaction.                                                 *)

\* The transaction of a client ends.
LEMMA EndedTyped ==
  ASSUME NEW old \in ClientTypes, NEW phase \in Phases
  PROVE  LET new == [old EXCEPT !.phase = phase, !.ids = <<>>] IN
         /\ new \in ClientTypes /\ new.phase = phase /\ new.ids = <<>>
         /\ new.items = old.items
<1>. DEFINE new == [old EXCEPT !.phase = phase, !.ids = <<>>]
<1>. DEFINE mid == [old EXCEPT !.phase = phase]
<1>1. mid \in ClientTypes /\ mid.phase = phase /\ mid.items = old.items
  BY DEF ClientTypes
<1>2. new = [mid EXCEPT !.ids = <<>>]
  OBVIOUS
<1>. HIDE DEF mid, new
<1>3. DOMAIN mid = {"phase", "items", "version", "ids"}
  BY <1>1 DEF ClientTypes
<1>4. new = [phase |-> mid.phase, items |-> mid.items, version |-> mid.version, ids |-> <<>>]
  BY <1>1, <1>2, <1>3, Zenon DEF ClientTypes
<1>5. new \in ClientTypes /\ new.phase = mid.phase /\ new.ids = <<>> /\ new.items = mid.items
  BY <1>1, <1>4 DEF ClientTypes
<1>. QED
  BY <1>1, <1>5 DEF new

LEMMA RollBackStep ==
  ASSUME IngestInv, NEW c \in Clients, NEW phase \in {"refused", "unanswered"}, RollBack(c, phase)
  PROVE  IngestInv'
<1>. DEFINE new == [client[c] EXCEPT !.phase = phase, !.ids = <<>>]
<1>1. IngestTypes /\ client \in [Clients -> ClientTypes] /\ client[c] \in ClientTypes
  BY DEF IngestInv, IngestTypes
<1>2. /\ new \in ClientTypes /\ new.phase = phase /\ new.ids = <<>>
      /\ new.items = client[c].items
  <2>1. phase \in Phases
    BY DEF Phases
  <2>. QED
    BY <1>1, <2>1, EndedTyped, Zenon
<1>3. client' = [client EXCEPT ![c] = new] /\ UNCHANGED <<traffic, active, removals, sends, answers>>
  BY <1>1 DEF RollBack
<1>. HIDE DEF new
<1>4. /\ client' \in [Clients -> ClientTypes] /\ client'[c] = new
      /\ \A d \in Clients \ {c} : client'[d] = client[d]
  BY <1>1, <1>2, <1>3
<1>5. store' = Restated(OpenOf(c), "never")
  BY DEF RollBack, OpenOf, Restated
<1>6. /\ store' \in Seq(StoredTypes) /\ DOMAIN store' = DOMAIN store
      /\ \A r \in DOMAIN store :
            /\ store'[r].item = store[r].item /\ store'[r].version = store[r].version
            /\ store'[r].state = IF r \in OpenOf(c) THEN "never" ELSE store[r].state
  <2>1. "never" \in Held \cup {"gone", "never"}
    OBVIOUS
  <2>. QED
    BY <1>1, <1>5, <2>1, RowsRestated
<1>7. IngestTypes'
  BY <1>3, <1>4, <1>6 DEF IngestInv, IngestTypes
<1>8. Live' = Live /\ \A d \in Clients \ {c} : OpenOf(d)' = OpenOf(d)
  BY <1>6 DEF Live, OpenOf
<1>9. Writing \ {c} \subseteq Writing' /\ c \notin Writing'
      /\ \A d \in Clients \ {c} : d \in Writing' <=> d \in Writing
  BY <1>2, <1>4 DEF Writing
<1>10. \A item : OwnPage(item) => OwnPage(item)'
  BY <1>6 DEF OwnPage
<1>11. \A r \in DOMAIN store' : RowHolds(r)'
  <2>. SUFFICES ASSUME NEW r \in DOMAIN store PROVE RowHolds(r)'
    BY <1>6
  <2>1. RowHolds(r) /\ store'[r].item = store[r].item /\ store'[r].version = store[r].version
        /\ store'[r].state = IF r \in OpenOf(c) THEN "never" ELSE store[r].state
    BY <1>6 DEF IngestInv
  <2>2. CASE r \in OpenOf(c)
    BY <1>3, <1>10, <2>1, <2>2 DEF RowHolds, Held
  <2>3. CASE r \notin OpenOf(c)
    <3>1. store'[r].state = store[r].state /\ store[r].state # c
      BY <2>1, <2>3 DEF OpenOf
    <3>. QED
      BY <1>3, <1>8, <1>9, <1>10, <2>1, <3>1 DEF RowHolds
  <2>. QED
    BY <2>2, <2>3
<1>12. \A d \in Clients : ClientHolds(d)'
  <2>. SUFFICES ASSUME NEW d \in Clients PROVE ClientHolds(d)'
    OBVIOUS
  <2>1. ClientHolds(d)
    BY DEF IngestInv
  <2>2. CASE d = c
    BY <1>2, <1>4, <1>9, <1>10, <2>1, <2>2 DEF ClientHolds
  <2>3. CASE d # c
    <3>1. client'[d] = client[d] /\ Visible(d)' = Visible(d) /\ Visible(d) \subseteq DOMAIN store
      BY <1>4, <1>8, <2>3 DEF Visible, Live, OpenOf
    <3>2. DOMAIN client[d].ids \subseteq DOMAIN client[d].ids'
      BY <3>1
    <3>. QED
      BY <1>3, <1>6, <1>8, <1>9, <1>10, <2>1, <2>3, <3>1 DEF ClientHolds
  <2>. QED
    BY <2>2, <2>3
<1>13. (\A a \in answers : AnswerHolds(a))'
  BY <1>3, <1>6 DEF IngestInv, AnswerHolds, OpenOf
<1>14. OneHolder'
  BY <1>6 DEF IngestInv, OneHolder, Held
<1>. QED
  BY <1>3, <1>7, <1>11, <1>12, <1>13, <1>14 DEF IngestInv

LEMMA CommitsStep ==
  ASSUME IngestInv, NEW c \in Clients, CommitBatch(c)
  PROVE  IngestInv'
<1>. DEFINE answer == [items |-> client[c].items, ids |-> client[c].ids]
<1>1. IngestTypes /\ client \in [Clients -> ClientTypes] /\ client[c] \in ClientTypes
      /\ c \in Writing /\ ClientHolds(c)
  BY DEF IngestInv, IngestTypes, CommitBatch, Writing
<1>2. PICK phase \in {"quiet", "unanswered"} :
        client' = [client EXCEPT ![c] = IF phase = "quiet" THEN Quiet
                                        ELSE [@ EXCEPT !.phase = phase, !.ids = <<>>]]
  BY DEF CommitBatch
<1>. DEFINE new == IF phase = "quiet" THEN Quiet
                   ELSE [client[c] EXCEPT !.phase = phase, !.ids = <<>>]
<1>3. /\ new \in ClientTypes /\ new.phase = phase /\ new.ids = <<>>
      /\ new.items \in {<<>>, client[c].items}
  <2>1. phase \in Phases /\ Quiet \in ClientTypes
    BY DEF Phases, Quiet, ClientTypes
  <2>2. CASE phase = "quiet"
    BY <2>1, <2>2 DEF Quiet
  <2>3. CASE phase # "quiet"
    <3>1. LET old == [client[c] EXCEPT !.phase = phase, !.ids = <<>>] IN
          /\ old \in ClientTypes /\ old.phase = phase /\ old.ids = <<>>
          /\ old.items = client[c].items
      BY <1>1, <2>1, EndedTyped, Zenon
    <3>. QED
      BY <2>3, <3>1, Zenon
  <2>. QED
    BY <2>2, <2>3
<1>4. client' = [client EXCEPT ![c] = new] /\ UNCHANGED <<traffic, active, removals, sends>>
      /\ answers' = answers \cup {answer}
  BY <1>1, <1>2 DEF CommitBatch
<1>. HIDE DEF new
<1>5. /\ client' \in [Clients -> ClientTypes] /\ client'[c] = new
      /\ \A d \in Clients \ {c} : client'[d] = client[d]
  BY <1>1, <1>3, <1>4
<1>6. store' = Restated(OpenOf(c), "live")
  BY DEF CommitBatch, OpenOf, Restated
<1>7. /\ store' \in Seq(StoredTypes) /\ DOMAIN store' = DOMAIN store
      /\ \A r \in DOMAIN store :
            /\ store'[r].item = store[r].item /\ store'[r].version = store[r].version
            /\ store'[r].state = IF r \in OpenOf(c) THEN "live" ELSE store[r].state
  <2>1. "live" \in Held \cup {"gone", "never"}
    BY DEF Held
  <2>. QED
    BY <1>1, <1>6, <2>1, RowsRestated
<1>8. answer \in [items : Seq(ItemTypes), ids : Seq(Nat)]
  BY <1>1 DEF ClientTypes
<1>9. IngestTypes'
  BY <1>4, <1>5, <1>7, <1>8 DEF IngestInv, IngestTypes
<1>10. Live' = Live \cup OpenOf(c) /\ \A d \in Clients \ {c} : OpenOf(d)' = OpenOf(d)
  BY <1>7 DEF Live, OpenOf
<1>11. c \notin Writing' /\ \A d \in Clients \ {c} : d \in Writing' <=> d \in Writing
  BY <1>3, <1>5 DEF Writing
<1>12. \A item : OwnPage(item) => OwnPage(item)'
  BY <1>7 DEF OwnPage
<1>13. \A r \in DOMAIN store' : RowHolds(r)'
  <2>. SUFFICES ASSUME NEW r \in DOMAIN store PROVE RowHolds(r)'
    BY <1>7
  <2>1. RowHolds(r) /\ store'[r].item = store[r].item /\ store'[r].version = store[r].version
        /\ store'[r].state = IF r \in OpenOf(c) THEN "live" ELSE store[r].state
    BY <1>7 DEF IngestInv
  <2>2. CASE r \in OpenOf(c)
    <3>1. store[r].state = c /\ store'[r].state = "live" /\ "live" \notin Clients
      BY <2>1, <2>2 DEF OpenOf
    <3>. QED
      BY <1>4, <1>10, <1>12, <2>1, <3>1 DEF RowHolds, Held
  <2>3. CASE r \notin OpenOf(c)
    <3>1. store'[r].state = store[r].state /\ store[r].state # c
      BY <2>1, <2>3 DEF OpenOf
    <3>. QED
      BY <1>4, <1>10, <1>11, <1>12, <2>1, <3>1 DEF RowHolds, Writing
  <2>. QED
    BY <2>2, <2>3
<1>14. \A d \in Clients : ClientHolds(d)'
  <2>. SUFFICES ASSUME NEW d \in Clients PROVE ClientHolds(d)'
    OBVIOUS
  <2>1. ClientHolds(d)
    BY DEF IngestInv
  <2>2. CASE d = c
    BY <1>3, <1>5, <1>11, <1>12, <2>1, <2>2 DEF ClientHolds
  <2>3. CASE d # c
    <3>1. client'[d] = client[d] /\ Visible(d) \subseteq Visible(d)' /\ Visible(d) \subseteq DOMAIN store
      BY <1>5, <1>10, <2>3 DEF Visible, Live, OpenOf
    <3>. QED
      BY <1>4, <1>7, <1>10, <1>11, <1>12, <2>1, <2>3, <3>1 DEF ClientHolds
  <2>. QED
    BY <2>2, <2>3
<1>15. \A a : a = answer => AnswerHolds(a)'
  <2>. SUFFICES ASSUME NEW a, a = answer PROVE AnswerHolds(a)'
    OBVIOUS
  <2>1. ~HasNext(c) /\ Len(client[c].ids) \in Nat /\ Len(client[c].items) \in Nat
        /\ client[c].phase = "writing"
    BY <1>1, IngestTyped DEF CommitBatch
  <2>2. Len(client[c].ids) = Len(client[c].items)
    BY <1>1, <2>1 DEF HasNext, ClientHolds
  <2>3. DOMAIN client[c].ids = DOMAIN client[c].items
    BY <1>1, <2>2, IngestTyped
  <2>4. \A i \in DOMAIN client[c].items :
            client[c].ids[i] \in Visible(c) /\ store[client[c].ids[i]].item = client[c].items[i]
    BY <1>1, <2>3 DEF ClientHolds
  <2>5. \A r \in Visible(c) : r \in DOMAIN store' /\ store'[r].state = "live"
                             /\ store'[r].item = store[r].item
    BY <1>7 DEF Visible, Live, OpenOf
  <2>6. a.items = client[c].items /\ a.ids = client[c].ids
    OBVIOUS
  <2>7. \A i \in DOMAIN a.items :
            /\ a.ids[i] \in DOMAIN store' /\ store'[a.ids[i]].state = "live"
            /\ store'[a.ids[i]].item = a.items[i]
    BY <2>4, <2>5, <2>6
  <2>. QED
    BY <2>2, <2>6, <2>7 DEF AnswerHolds
<1>. HIDE DEF answer
<1>16. (\A a \in answers : AnswerHolds(a))'
  <2>. SUFFICES ASSUME NEW a \in answers PROVE AnswerHolds(a)'
    BY <1>4, <1>15
  <2>1. AnswerHolds(a)
    BY DEF IngestInv
  <2>2. \A r \in DOMAIN store : store[r].state \in {"live", "gone"} =>
            store'[r].state \in {"live", "gone"} /\ store'[r].item = store[r].item
    BY <1>7
  <2>. QED
    BY <1>7, <2>1, <2>2 DEF AnswerHolds
<1>17. OneHolder'
  BY <1>7 DEF IngestInv, OneHolder, Held, OpenOf
<1>. QED
  BY <1>4, <1>9, <1>13, <1>14, <1>16, <1>17 DEF IngestInv

\* _record_depth of an item that cites one row at most.
LEMMA DepthTyped ==
  ASSUME IngestTypes, NEW c \in Clients, NEW item \in ItemTypes, OwnPage(item)
  PROVE  DepthOf(c, item) \in Nat
<1>. DEFINE head == PageHead(Visible(c), item.key)
            levels == {0} \cup {store[p].depth : p \in item.cites \cap head}
                          \cup {store[p].depth + 1 : p \in item.cites \ head}
<1>1. \A p \in item.cites : store[p].depth \in Nat
  BY IngestTyped DEF OwnPage, StoredTypes
<1>2. PICK n \in Nat : levels \in SUBSET (0 .. n)
  <2>1. CASE item.cites = {}
    BY <2>1
  <2>2. CASE item.cites # {}
    <3>1. PICK p \in item.cites : item.cites = {p}
      BY <2>2 DEF OwnPage
    <3>2. levels \in SUBSET (0 .. store[p].depth + 1) /\ store[p].depth + 1 \in Nat
      BY <1>1, <3>1
    <3>. QED
      BY <3>2
  <2>. QED
    BY <2>1, <2>2
<1>3. DepthOf(c, item) = Max(levels) /\ 0 \in levels
  BY DEF DepthOf
<1>. HIDE DEF levels
<1>4. Max(levels) \in levels
  BY <1>2, <1>3, MaxBounded
<1>5. Max(levels) \in 0 .. n
  BY <1>2, <1>4
<1>. QED
  BY <1>3, <1>5

\* The next item of a transaction.
LEMMA NextTyped ==
  ASSUME IngestInv, NEW c \in Clients, HasNext(c)
  PROVE  /\ c \in Writing /\ Len(client[c].ids) + 1 \in DOMAIN client[c].items
         /\ Next1(c) \in ItemTypes /\ OwnPage(Next1(c)) /\ Next1(c).cites \subseteq Live
<1>1. c \in Writing /\ ClientHolds(c) /\ Len(client[c].ids) < Len(client[c].items)
  BY DEF HasNext, Writing, IngestInv
<1>2. Len(client[c].ids) + 1 \in DOMAIN client[c].items
  BY <1>1, IngestTyped DEF IngestInv
<1>. QED
  BY <1>1, <1>2, IngestTyped DEF Next1, ClientHolds, IngestInv

\* A transaction gives its next item the row id.
LEMMA AnsweredFacts ==
  ASSUME IngestInv, NEW c \in Clients, NEW id \in Nat, HasNext(c), Answered(c, id)
  PROVE  /\ client' \in [Clients -> ClientTypes] /\ Writing' = Writing
         /\ \A d \in Clients :
                /\ client'[d].phase = client[d].phase /\ client'[d].items = client[d].items
                /\ client'[d].version = client[d].version
         /\ \A d \in Clients \ {c} : client'[d] = client[d]
         /\ Len(client'[c].ids) = Len(client[c].ids) + 1
         /\ \A i \in DOMAIN client'[c].ids :
                IF i = Len(client[c].ids) + 1 THEN client'[c].ids[i] = id
                ELSE i \in DOMAIN client[c].ids /\ client'[c].ids[i] = client[c].ids[i]
<1>1. client \in [Clients -> ClientTypes] /\ client[c] \in ClientTypes
  BY DEF IngestInv, IngestTypes
<1>. DEFINE more == Append(client[c].ids, id)
            new == [client[c] EXCEPT !.ids = more]
<1>2. /\ more \in Seq(Nat) /\ Len(more) = Len(client[c].ids) + 1
      /\ \A i \in DOMAIN more :
            IF i = Len(client[c].ids) + 1 THEN more[i] = id
            ELSE i \in DOMAIN client[c].ids /\ more[i] = client[c].ids[i]
  BY <1>1 DEF ClientTypes
<1>3. client' = [client EXCEPT ![c] = new]
  BY <1>1 DEF Answered
<1>. HIDE DEF more
<1>4. /\ new \in ClientTypes /\ new.ids = more /\ new.phase = client[c].phase
      /\ new.items = client[c].items /\ new.version = client[c].version
  BY <1>1, <1>2 DEF ClientTypes
<1>. HIDE DEF new
<1>5. client' \in [Clients -> ClientTypes] /\ client'[c] = new
      /\ \A d \in Clients \ {c} : client'[d] = client[d]
  BY <1>1, <1>3, <1>4
<1>6. \A d \in Clients :
        /\ client'[d].phase = client[d].phase /\ client'[d].items = client[d].items
        /\ client'[d].version = client[d].version
  BY <1>4, <1>5
<1>7. Writing' = Writing
  BY <1>6 DEF Writing
<1>. QED
  BY <1>2, <1>4, <1>5, <1>6, <1>7

LEMMA FindStep ==
  ASSUME IngestInv, NEW c \in Clients, FindItem(c)
  PROVE  IngestInv'
<1>1. HasNext(c)
  BY DEF FindItem
<1>2. PICK r \in Holders(c, Next1(c)) : DedupeMatches(r, c, Next1(c)) /\ Answered(c, r)
  BY DEF FindItem
<1>3. r \in DOMAIN store /\ r \in Nat /\ store[r].item = Next1(c)
  BY <1>2, IngestTyped DEF Holders, DedupeMatches, IngestInv
<1>4. r \in Visible(c)
  BY <1>1, <1>2 DEF Holders, Waits, FindItem, Visible, Live, OpenOf
<1>5. UNCHANGED <<traffic, store, active, removals, sends, answers>> /\ sends \in [Clients -> Nat]
  BY DEF FindItem, IngestInv, IngestTypes
<1>6. ClientHolds(c)'
  <2>1. ClientHolds(c) /\ Len(client[c].ids) \in Nat /\ Len(client[c].items) \in Nat
        /\ Len(client[c].ids) < Len(client[c].items) /\ c \in Writing
    BY <1>1, IngestTyped, NextTyped DEF IngestInv, HasNext
  <2>2. \A item : OwnPage(item)' <=> OwnPage(item)
    BY <1>5 DEF OwnPage
  <2>3. Visible(c)' = Visible(c) /\ Live' = Live
    BY <1>5 DEF Visible, Live, OpenOf
  <2>4. \A i \in DOMAIN client'[c].ids :
            client'[c].ids[i] \in Visible(c) /\ store[client'[c].ids[i]].item = client[c].items[i]
    <3>. SUFFICES ASSUME NEW i \in DOMAIN client'[c].ids
                  PROVE  /\ client'[c].ids[i] \in Visible(c)
                         /\ store[client'[c].ids[i]].item = client[c].items[i]
      OBVIOUS
    <3>1. CASE i = Len(client[c].ids) + 1
      BY <1>1, <1>2, <1>3, <1>4, <3>1, AnsweredFacts DEF Next1
    <3>2. CASE i # Len(client[c].ids) + 1
      <4>1. i \in DOMAIN client[c].ids /\ client'[c].ids[i] = client[c].ids[i]
        BY <1>1, <1>2, <1>3, <3>2, AnsweredFacts
      <4>. QED
        BY <2>1, <4>1 DEF ClientHolds
    <3>. QED
      BY <3>1, <3>2
  <2>. QED
    BY <1>1, <1>2, <1>3, <1>5, <2>1, <2>2, <2>3, <2>4, AnsweredFacts DEF ClientHolds
<1>. QED
  BY <1>1, <1>2, <1>3, <1>5, <1>6, AnsweredFacts, NextTyped, ClientStep DEF Writing

LEMMA InsertStep ==
  ASSUME IngestInv, NEW c \in Clients, InsertItem(c)
  PROVE  IngestInv'
<1>. DEFINE row == [item |-> Next1(c), version |-> client[c].version,
                    depth |-> DepthOf(c, Next1(c)), state |-> c]
<1>0. PICK new : new = Len(store) + 1
  OBVIOUS
<1>1. IngestTypes /\ HasNext(c) /\ ClientHolds(c) /\ Len(store) \in Nat
      /\ DOMAIN store = 1 .. Len(store) /\ new \in Nat
  BY <1>0, IngestTyped DEF IngestInv, InsertItem
<1>2. /\ c \in Writing /\ Next1(c) \in ItemTypes /\ OwnPage(Next1(c))
      /\ Next1(c).cites \subseteq Live
  BY <1>1, NextTyped
<1>3. row \in StoredTypes
  BY <1>1, <1>2, DepthTyped DEF IngestTypes, ClientTypes, StoredTypes, Held
<1>4. /\ store' = Append(store, row) /\ UNCHANGED <<traffic, active, removals, sends, answers>>
      /\ Answered(c, new)
  BY <1>0 DEF InsertItem
<1>5. row.item = Next1(c) /\ row.version = client[c].version /\ row.state = c
  OBVIOUS
<1>. HIDE DEF row
<1>6. /\ store' \in Seq(StoredTypes) /\ DOMAIN store' = DOMAIN store \cup {new}
      /\ store'[new] = row /\ new \notin DOMAIN store
      /\ \A r \in DOMAIN store : store'[r] = store[r]
  BY <1>0, <1>1, <1>3, <1>4 DEF IngestTypes
<1>7. IngestTypes'
  BY <1>1, <1>4, <1>6, AnsweredFacts DEF IngestInv, IngestTypes
<1>8. /\ Live' = Live /\ OpenOf(c)' = OpenOf(c) \cup {new}
      /\ \A d \in Clients \ {c} : OpenOf(d)' = OpenOf(d)
  BY <1>5, <1>6 DEF Live, OpenOf
<1>9. \A item : OwnPage(item) => OwnPage(item)'
  BY <1>6 DEF OwnPage
<1>10. Writing' = Writing
  BY <1>1, <1>4, AnsweredFacts
<1>11. \A r \in DOMAIN store' : RowHolds(r)'
  <2>1. \A r \in DOMAIN store : RowHolds(r)'
    BY <1>4, <1>6, <1>8, <1>9, <1>10 DEF IngestInv, RowHolds
  <2>2. client[c].version \in 1 .. active
    BY <1>1, <1>2 DEF ClientHolds, Writing
  <2>3. RowHolds(new)'
    BY <1>2, <1>4, <1>5, <1>6, <1>8, <1>9, <1>10, <2>2 DEF RowHolds
  <2>. QED
    BY <1>6, <2>1, <2>3
<1>12. \A d \in Clients : ClientHolds(d)'
  <2>. SUFFICES ASSUME NEW d \in Clients PROVE ClientHolds(d)'
    OBVIOUS
  <2>1. /\ ClientHolds(d) /\ client'[d].phase = client[d].phase
        /\ client'[d].items = client[d].items /\ client'[d].version = client[d].version
    BY <1>1, <1>4, AnsweredFacts DEF IngestInv
  <2>2. Visible(d) \subseteq Visible(d)' /\ Visible(d) \subseteq DOMAIN store
    BY <1>8 DEF Visible, Live, OpenOf
  <2>3. CASE d # c
    <3>1. client'[d] = client[d]
      BY <1>1, <1>4, <2>3, AnsweredFacts
    <3>. QED
      BY <1>4, <1>6, <1>8, <1>9, <1>10, <2>1, <2>2, <3>1 DEF ClientHolds
  <2>4. CASE d = c
    <3>1. Len(client[c].ids) \in Nat /\ Len(client[c].items) \in Nat
          /\ Len(client[c].ids) < Len(client[c].items)
      BY <1>1, IngestTyped DEF HasNext
    <3>2. new \in Visible(c)' /\ store'[new].item = Next1(c)
      BY <1>5, <1>6, <1>8 DEF Visible
    <3>3. \A i \in DOMAIN client'[c].ids :
            client'[c].ids[i] \in Visible(c)' /\ store'[client'[c].ids[i]].item = client[c].items[i]
      <4>. SUFFICES ASSUME NEW i \in DOMAIN client'[c].ids
                    PROVE  /\ client'[c].ids[i] \in Visible(c)'
                           /\ store'[client'[c].ids[i]].item = client[c].items[i]
        OBVIOUS
      <4>1. CASE i = Len(client[c].ids) + 1
        BY <1>1, <1>4, <3>2, <4>1, AnsweredFacts DEF Next1
      <4>2. CASE i # Len(client[c].ids) + 1
        <5>1. i \in DOMAIN client[c].ids /\ client'[c].ids[i] = client[c].ids[i]
          BY <1>1, <1>4, <4>2, AnsweredFacts
        <5>. QED
          BY <1>2, <1>6, <2>1, <2>2, <2>4, <5>1 DEF ClientHolds
      <4>. QED
        BY <4>1, <4>2
    <3>4. Len(client'[c].ids) <= Len(client'[c].items)
      BY <1>1, <1>4, <2>1, <2>4, <3>1, AnsweredFacts
    <3>. QED
      BY <1>2, <1>4, <1>8, <1>9, <1>10, <2>1, <2>4, <3>3, <3>4 DEF ClientHolds
  <2>. QED
    BY <2>3, <2>4
<1>13. (\A a \in answers : AnswerHolds(a))'
  BY <1>4, <1>6 DEF IngestInv, AnswerHolds
<1>14. OneHolder'
  <2>1. \A r \in DOMAIN store : store[r].state \in Held /\ Next1(c).dedupe # NoKey
                                => store[r].item.dedupe # Next1(c).dedupe
    BY DEF InsertItem, Holders, Held
  <2>. QED
    BY <1>5, <1>6, <2>1 DEF IngestInv, OneHolder
<1>. QED
  BY <1>4, <1>7, <1>11, <1>12, <1>13, <1>14 DEF IngestInv

-----------------------------------------------------------------------------
(* Erasure and publish.                                                    *)

\* What is erased is alive, and takes along what cites it.
LEMMA DescendantsFacts ==
  ASSUME NEW seeds \in SUBSET Live
  PROVE  /\ seeds \subseteq Descendants(seeds) /\ Descendants(seeds) \subseteq Live
         /\ Closed(Descendants(seeds))
         /\ \A some \in SUBSET Live :
                seeds \subseteq some /\ Closed(some) => Descendants(seeds) \subseteq some
  BY DEF Descendants, Closed

LEMMA ErasedRows ==
  ASSUME IngestTypes, NEW seeds \in SUBSET Live, EraseAll(seeds)
  PROVE  /\ store' \in Seq(StoredTypes) /\ DOMAIN store' = DOMAIN store
         /\ \A r \in DOMAIN store :
                /\ store'[r].item = store[r].item /\ store'[r].version = store[r].version
                /\ store'[r].state = IF r \in Descendants(seeds) THEN "gone" ELSE store[r].state
<1>1. store' = Restated(Descendants(seeds), "gone")
  BY DEF EraseAll, Restated
<1>2. "gone" \in Held \cup {"gone", "never"}
  OBVIOUS
<1>. QED
  BY <1>1, <1>2, RowsRestated

LEMMA ErasesStep ==
  ASSUME IngestInv, NEW seeds \in SUBSET Live, EraseAll(seeds)
  PROVE  IngestInv'
<1>. DEFINE gone == Descendants(seeds)
<1>1. /\ store' \in Seq(StoredTypes) /\ DOMAIN store' = DOMAIN store
      /\ \A r \in DOMAIN store :
            /\ store'[r].item = store[r].item /\ store'[r].version = store[r].version
            /\ store'[r].state = IF r \in gone THEN "gone" ELSE store[r].state
  BY ErasedRows DEF IngestInv
<1>2. gone \subseteq Live /\ Closed(gone)
  BY DescendantsFacts
<1>. HIDE DEF gone
<1>3. UNCHANGED <<traffic, active, client, sends, answers>> /\ Writing = {}
  BY DEF EraseAll, Exclusive
<1>4. removals' \in Nat
  BY DEF EraseAll, IngestInv, IngestTypes
<1>5. IngestTypes'
  BY <1>1, <1>3, <1>4 DEF IngestInv, IngestTypes
<1>6. \A item : OwnPage(item) => OwnPage(item)'
  BY <1>1 DEF OwnPage
<1>7. Live' = Live \ gone
  BY <1>1 DEF Live
<1>8. \A r \in DOMAIN store' : RowHolds(r)'
  <2>. SUFFICES ASSUME NEW r \in DOMAIN store PROVE RowHolds(r)'
    BY <1>1
  <2>1. RowHolds(r) /\ store'[r].item = store[r].item /\ store'[r].version = store[r].version
        /\ store'[r].state = IF r \in gone THEN "gone" ELSE store[r].state
    BY <1>1 DEF IngestInv
  <2>2. store[r].state \notin Clients
    BY <1>3, <2>1 DEF RowHolds
  <2>3. ASSUME store'[r].state \in Held PROVE store[r].item.cites \subseteq Live'
    <3>1. r \in Live /\ r \notin gone
      BY <2>1, <2>2, <2>3 DEF Live, Held
    <3>. QED
      BY <1>2, <1>7, <2>1, <3>1 DEF RowHolds, Closed, Live, Held
  <2>4. store'[r].state \notin Clients
    BY <2>1, <2>2
  <2>. QED
    BY <1>3, <1>6, <2>1, <2>3, <2>4 DEF RowHolds
<1>9. \A c \in Clients : ClientHolds(c)'
  BY <1>3, <1>6 DEF IngestInv, ClientHolds, Writing
<1>10. (\A a \in answers : AnswerHolds(a))'
  BY <1>1, <1>3 DEF IngestInv, AnswerHolds
<1>11. OneHolder'
  BY <1>1 DEF IngestInv, OneHolder, Held
<1>. QED
  BY <1>3, <1>5, <1>8, <1>9, <1>10, <1>11 DEF IngestInv

LEMMA PublishStep == IngestInv /\ Publish => IngestInv'
<1>. SUFFICES ASSUME IngestInv, Publish PROVE IngestInv'
  OBVIOUS
<1>1. UNCHANGED <<traffic, store, removals, client, sends, answers>> /\ active' = active + 1
      /\ active <= traffic.publishes /\ traffic.publishes \in Nat /\ active \in Nat
  BY DEF Publish, IngestInv, IngestTypes
<1>2. IngestTypes'
  BY <1>1 DEF IngestInv, IngestTypes
<1>3. (active \in 1 .. traffic.publishes + 1)' /\ 1 .. active \subseteq 1 .. active'
  BY <1>1 DEF IngestInv
<1>4. \A r \in DOMAIN store' : RowHolds(r)'
  BY <1>1, <1>3 DEF IngestInv, RowHolds, OwnPage, Live, Writing
<1>5. \A c \in Clients : ClientHolds(c)'
  BY <1>1, <1>3 DEF IngestInv, ClientHolds, OwnPage, Live, Writing, Visible, OpenOf
<1>6. (\A a \in answers : AnswerHolds(a))' /\ OneHolder'
  BY <1>1 DEF IngestInv, AnswerHolds, OneHolder
<1>. QED
  BY <1>2, <1>3, <1>4, <1>5, <1>6 DEF IngestInv

-----------------------------------------------------------------------------
(* Theorems.                                                               *)

LEMMA SeedsLive ==
  /\ \A r : EraseRecord(r) => {r} \in SUBSET Live
  /\ \A v, age : Purged(v, age) \in SUBSET Live
  BY DEF EraseRecord, Purged, PageRows, OfVersion

LEMMA StepIngest == IngestInv /\ [IngestNext]_ingestVars => IngestInv'
<1>. SUFFICES ASSUME IngestInv, [IngestNext]_ingestVars PROVE IngestInv'
  OBVIOUS
<1>1. ASSUME NEW c \in Clients, Ask(c) \/ PostAgain(c) \/ Prepare(c) \/ BeginWrite(c)
      PROVE  IngestInv'
  BY <1>1, AskStep, SendStep
<1>2. ASSUME NEW c \in Clients,
             RefuseParents(c) \/ RefuseItem(c) \/ BreakDeadlock(c) \/ FailWrite(c)
      PROVE  IngestInv'
  BY <1>2, RollBackStep DEF RefuseParents, RefuseItem, BreakDeadlock, FailWrite
<1>3. ASSUME NEW c \in Clients, InsertItem(c) \/ FindItem(c) \/ CommitBatch(c)
      PROVE  IngestInv'
  BY <1>3, InsertStep, FindStep, CommitsStep
<1>4. ASSUME NEW r, EraseRecord(r) PROVE IngestInv'
  BY <1>4, SeedsLive, ErasesStep DEF EraseRecord
<1>5. ASSUME NEW v, NEW age, Purge(v, age) PROVE IngestInv'
  BY <1>5, SeedsLive, ErasesStep DEF Purge
<1>6. CASE Publish
  BY <1>6, PublishStep
<1>7. CASE UNCHANGED ingestVars
  BY <1>7 DEF ingestVars, IngestInv, IngestTypes, RowHolds, ClientHolds, AnswerHolds, OneHolder,
              OwnPage, Live, OpenOf, Visible, Writing
<1>. QED
  BY <1>1, <1>2, <1>3, <1>4, <1>5, <1>6, <1>7 DEF IngestNext

\* The inductive invariant holds in every reachable state.
THEOREM IngestInvariance == IngestSpec => []IngestInv
  BY InitIngest, StepIngest, PTL DEF IngestSpec

\* erase.py:139: no living row cites one that is gone.
THEOREM LineageSurvives == IngestSpec => []LineageWhole
<1>1. IngestInv => LineageWhole
  BY DEF IngestInv, LineageWhole, RowHolds, Live, Held
<1>. QED
  BY <1>1, IngestInvariance, PTL

\* docs/api-surface.md:398-401: an answer names what was asked for, and a dedupe
\* key has one living record in all answers.
THEOREM AnswersAreTrue == IngestSpec => []AnswersAgree
<1>1. IngestInv => AnswersAgree
  <2>. SUFFICES ASSUME IngestInv, NEW a \in answers, NEW b \in answers,
                       NEW i \in DOMAIN a.items, NEW j \in DOMAIN b.items
                PROVE  /\ store[a.ids[i]].item = a.items[i]
                       /\ a.items[i].dedupe # NoKey /\ a.items[i].dedupe = b.items[j].dedupe
                          /\ {a.ids[i], b.ids[j]} \subseteq Live => a.ids[i] = b.ids[j]
    BY DEF AnswersAgree
  <2>1. AnswerHolds(a) /\ AnswerHolds(b)
    BY DEF IngestInv
  <2>. QED
    BY <2>1 DEF AnswerHolds, IngestInv, OneHolder, Live, Held
<1>. QED
  BY <1>1, IngestInvariance, PTL

\* erase.py:351: with one version, the purge takes no page that was written
\* again after its tombstone.
THEOREM RewrittenSurvive == IngestSpec => RewrittenPagesStay
<1>1. ASSUME IngestInv, traffic.publishes = 0, NEW v \in 1 .. active, NEW age, Purge(v, age),
             NEW k \in KeyedPages, PageAlive(store, k)
      PROVE  PageAlive(store', k)
  <2>1. active = 1 /\ v = 1
    BY <1>1 DEF IngestInv
  <2>2. \A r \in DOMAIN store : store[r].version = v
    BY <1>1, <2>1 DEF IngestInv, RowHolds
  <2>3. OfVersion(v) = Live
    BY <2>2 DEF OfVersion, Live
  <2>. DEFINE page == PageRows(Live, k)
              others == {r \in Live : store[r].item.key # k}
  <2>4. /\ k # NoKey /\ page = {r \in DOMAIN store : store[r].state = "live" /\ store[r].item.key = k}
        /\ page # {} /\ ~store[Max(page)].item.tomb
    BY <1>1 DEF KeyedPages, PageRows, PageAlive, HeadOfPage, Live
  <2>5. k \notin ExpiredPages(v, age)
    BY <2>3, <2>4 DEF ExpiredPages, PageHead
  <2>6. Purged(v, age) \subseteq others
    BY <2>3, <2>5 DEF Purged, PageRows, Live
  <2>7. Closed(others)
    BY <1>1 DEF Closed, IngestInv, RowHolds, OwnPage, Live
  <2>8. Descendants(Purged(v, age)) \subseteq others
    BY <2>6, <2>7, SeedsLive, DescendantsFacts
  <2>9. /\ DOMAIN store' = DOMAIN store
        /\ \A r \in DOMAIN store :
              /\ store'[r].item = store[r].item
              /\ store'[r].state = IF r \in Descendants(Purged(v, age)) THEN "gone" ELSE store[r].state
    BY <1>1, SeedsLive, ErasedRows DEF Purge, IngestInv
  <2>10. page = {r \in DOMAIN store' : store'[r].state = "live" /\ store'[r].item.key = k}
    <3>. HIDE DEF page
    <3>1. \A r \in DOMAIN store : r \in page => r \notin Descendants(Purged(v, age))
      BY <2>4, <2>8
    <3>. QED
      BY <2>4, <2>9, <3>1
  <2>11. HeadOfPage(store', k) = Max(page)
    BY <2>10 DEF HeadOfPage
  <2>12. Max(page) \in page
    <3>1. Len(store) \in Nat /\ page \in SUBSET (0 .. Len(store))
      BY <1>1, IngestTyped DEF PageRows, Live, IngestInv
    <3>. QED
      BY <2>4, <3>1, MaxBounded
  <2>. HIDE DEF page
  <2>13. Max(page) \in DOMAIN store' /\ ~store'[Max(page)].item.tomb
         /\ store'[Max(page)].state = "live" /\ store'[Max(page)].item.key = k
    BY <2>4, <2>9, <2>10, <2>12
  <2>. QED
    BY <2>11, <2>13 DEF PageAlive
<1>2. IngestInv => (traffic.publishes = 0 => ~PurgedAlive)
  BY <1>1 DEF PurgedAlive
<1>3. IngestInv => [traffic.publishes = 0 => ~PurgedAlive]_ingestVars
  BY <1>2
<1>. QED
  BY <1>3, IngestInvariance, PTL DEF RewrittenPagesStay
===============================================================================
