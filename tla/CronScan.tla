------------------------------ MODULE CronScan ------------------------------
(***************************************************************************)
(* The cron triggers of one processor in one workspace: the scheduler that *)
(* inserts a scan job for each due bucket, and the scans, which walk the   *)
(* entities page by page, each page a job of its own (triggers.py,         *)
(* schedule_cron_jobs; worker.py, _process_cron_scan).                     *)
(***************************************************************************)
EXTENDS Naturals, Sequences, SequencesExt, FiniteSetsExt

CONSTANTS
    LastHour,  \* bound: the clock
    Schedules  \* the declarations that are looked at

ASSUME CronScanAssumption ==
    /\ LastHour \in Nat
    /\ \A s \in Schedules :
        /\ s.buckets \in Seq(SUBSET (1 .. LastHour)) \* of each trigger, by name
        /\ s.mode \in {"any", "dirty", "repair"}     \* repair: any, with a stale_citations driver
        /\ s.entities \in Nat                        \* bound: entities, in lexical order
        /\ s.page \in Nat \ {0}                      \* 500
        /\ s.catchup \in Nat \ {0}                   \* MAX_CRON_CATCHUP
        /\ s.attempts \in Nat \ {0}                  \* JOB_MAX_ATTEMPTS

VARIABLES
    plan,    \* one of Schedules, which does not change
    hour,    \* the clock
    scans,   \* cron_scan jobs
    known,   \* entities that have records
    dirty,   \* those with work above their cursor, or with stale citations
    heavy,   \* stale beyond max_records
    queued,  \* those with an active derive job
    owed     \* history: what a scan has not enqueued of what it was to find

cronScanVars == <<plan, hour, scans, known, dirty, heavy, queued, owed>>

CronTriggers == DOMAIN plan.buckets
Entities == 1 .. plan.entities
Jobs == [trigger : CronTriggers, stamp : 1 .. LastHour, cursor : 0 .. plan.entities,
         state : {"active", "done", "dead"}, attempts : 0 .. plan.attempts]

CronScanInit ==
    /\ plan \in Schedules
    /\ hour = 1
    /\ scans = {} /\ known = {} /\ dirty = {} /\ heavy = {} /\ queued = {}
    /\ owed = [t \in CronTriggers |-> [b \in 1 .. LastHour |-> {}]]

(***************************************************************************)
(* schedule_cron_jobs: one transaction.                                    *)
(***************************************************************************)
Stamps(sc, t) == {s.stamp : s \in {r \in sc : r.trigger = t}}
Due(t) == {b \in plan.buckets[t] : b <= hour}

\* The first n of a set of numbers.
FirstOf(S, n) == {b \in S : Cardinality({c \in S : c < b}) < n}

\* A new schedule begins at its latest bucket; one that has a checkpoint, the
\* newest stamp among its jobs, goes on from there.
Buckets(sc, t) ==
    IF Due(t) = {} THEN {}
    ELSE IF Stamps(sc, t) = {} THEN {Max(Due(t))}
    ELSE FirstOf({b \in Due(t) : b > Max(Stamps(sc, t))}, plan.catchup)

\* The dedupe key names the processor and the stamp, and not the trigger.
Inserted(sc, t) ==
    sc \cup {[trigger |-> t, stamp |-> b, cursor |-> 0, state |-> "active", attempts |-> 0]
                : b \in {k \in Buckets(sc, t) : \A s \in sc : s.stamp # k}}

\* The triggers by name.
AllInserted ==
    LET upTo[t \in 0 .. Len(plan.buckets)] ==
            IF t = 0 THEN scans ELSE Inserted(upTo[t - 1], t)
    IN upTo[Len(plan.buckets)]

ScheduleCron ==
    /\ scans' = AllInserted
    /\ owed' = [t \in CronTriggers |-> [b \in 1 .. LastHour |->
                    IF b \in Stamps(scans', t) \ Stamps(scans, t)
                    THEN IF plan.mode = "any" THEN known ELSE dirty
                    ELSE owed[t][b]]]
    /\ UNCHANGED <<plan, hour, known, dirty, heavy, queued>>

(***************************************************************************)
(* _process_cron_scan                                                      *)
(***************************************************************************)
\* One row more than a page, to know whether there is another.
Candidates(cursor) == FirstOf({e \in known : e > cursor}, plan.page + 1)
HasMore(cursor) == Cardinality(Candidates(cursor)) > plan.page

\* Fault: the next page begins after the row that was read ahead.
PastLookahead(cursor) == Max(Candidates(cursor))

\* The last row of the page.
PageCursor(cursor) == Max(FirstOf(Candidates(cursor), plan.page))

\* _cron_entities, cut to a page.
Selected(cursor) ==
    FirstOf(IF plan.mode = "any" THEN Candidates(cursor) ELSE Candidates(cursor) \cap dirty,
            plan.page)

\* The repair driver raises a budget error for an entity that is stale beyond
\* max_records, and with it fails the page.
Poisoned(cursor) == plan.mode = "repair" /\ Candidates(cursor) \cap heavy # {}

NextPage(s) ==
    IF HasMore(s.cursor) /\ \A r \in scans : r.stamp # s.stamp \/ r.cursor # PageCursor(s.cursor)
    THEN {[s EXCEPT !.cursor = PageCursor(s.cursor), !.attempts = 0]} ELSE {}

\* Enqueueing, the next page and the completion are one transaction.
ScanPage(s) ==
    /\ s.state = "active" /\ s.attempts < plan.attempts /\ ~Poisoned(s.cursor)
    /\ scans' = (scans \ {s}) \cup {[s EXCEPT !.state = "done", !.attempts = @ + 1]} \cup NextPage(s)
    /\ queued' = queued \cup Selected(s.cursor)
    /\ owed' = [owed EXCEPT ![s.trigger][s.stamp] = @ \ Selected(s.cursor)]
    /\ UNCHANGED <<plan, hour, known, dirty, heavy>>

\* The page fails or its worker dies; the last attempt buries it.
ScanFails(s) ==
    /\ s.state = "active"
    /\ scans' = (scans \ {s}) \cup
            {[s EXCEPT !.attempts = @ + 1,
                       !.state = IF s.attempts + 1 >= plan.attempts THEN "dead" ELSE "active"]}
    /\ UNCHANGED <<plan, hour, known, dirty, heavy, queued, owed>>

(***************************************************************************)
(* The clock, the entities and their derive jobs.                          *)
(***************************************************************************)
NextHour ==
    /\ hour < LastHour
    /\ hour' = hour + 1
    /\ UNCHANGED <<plan, scans, known, dirty, heavy, queued, owed>>

\* Records arrive, or citations move, for an entity, old or new.
Soil(e) ==
    /\ e \notin dirty
    /\ known' = known \cup {e} /\ dirty' = dirty \cup {e}
    /\ UNCHANGED <<plan, hour, scans, heavy, queued, owed>>

\* More stale rows than one run may read.
Overload(e) ==
    /\ plan.mode = "repair" /\ e \in dirty \ heavy
    /\ heavy' = heavy \cup {e}
    /\ UNCHANGED <<plan, hour, scans, known, dirty, queued, owed>>

\* The derive job of e ends; one that is over its budget dies and mends nothing.
Derive(e) ==
    /\ e \in queued
    /\ queued' = queued \ {e}
    /\ IF e \in heavy THEN UNCHANGED <<dirty, owed>>
       ELSE /\ dirty' = dirty \ {e}
            /\ owed' = [t \in CronTriggers |-> [b \in 1 .. LastHour |->
                            IF plan.mode = "any" THEN owed[t][b] ELSE owed[t][b] \ {e}]]
    /\ UNCHANGED <<plan, hour, scans, known, heavy>>

(***************************************************************************)
CronScanNext ==
    \/ ScheduleCron \/ NextHour
    \/ \E s \in scans : ScanPage(s) \/ ScanFails(s)
    \/ \E e \in Entities : Soil(e) \/ Overload(e) \/ Derive(e)

CronScanSpec == CronScanInit /\ [][CronScanNext]_cronScanVars

(***************************************************************************)
(* Properties.                                                             *)
(***************************************************************************)
Pages(t, b) == {s \in scans : s.trigger = t /\ s.stamp = b}

\* A scan whose pages are all done has enqueued every entity that was to be
\* found when it was scheduled and still was when its page came, although
\* entities appear before and behind the cursor and workers die between pages
\* (docs/triggers.md:474: a restart never truncates a scan).
WholeScan ==
    /\ scans \subseteq Jobs
    /\ \A t \in CronTriggers, b \in 1 .. LastHour :
        (\A s \in Pages(t, b) : s.state = "done") => owed[t][b] = {}

\* Not so where two triggers of a processor share a stamp, whose scans share the
\* dedupe key (triggers.py:997): between the first and the newest bucket that it
\* has scanned, a trigger leaves none out (docs/triggers.md:472).
EachTriggerScans ==
    \A t \in CronTriggers : \A b \in plan.buckets[t] :
        (\E s, r \in Stamps(scans, t) : s < b /\ b < r) => b \in Stamps(scans, t)
=============================================================================
