----------------------------- MODULE MCServices -----------------------------
(***************************************************************************)
(* Small instances for TLC of the services that are modelled one by one.   *)
(* A behaviour belongs to one of them, its part; the others keep their     *)
(* initial state, so that their state spaces add up.                       *)
(***************************************************************************)
EXTENDS Invocations, Promotion, TriggerClock, CronScan, Ingest, Computers, MCExecution, TLC

CONSTANTS e1, e2,
    Parts   \* those that are looked at

VARIABLE part

serviceVars == <<part, invocationVars, promotionVars, triggerClockVars, cronScanVars, ingestVars,
                 computerVars, executionVars>>

(* Invocations: a client that follows; processes that die; leases that lapse,
   with a reply of the user and with a job that is revived. *)
D(crashes, zombies, follows, turns, revived) ==
    [crashes |-> crashes, zombies |-> zombies, follows |-> follows, turns |-> turns,
     revivals |-> revived]
MCDeployments == {D(FALSE, FALSE, TRUE, 1, 1), D(TRUE, FALSE, FALSE, 1, 1),
                  D(FALSE, TRUE, FALSE, 1, 0), D(FALSE, TRUE, FALSE, 0, 1)}

(* Promotion: drafts with and without other writers; two keys; runs that are
   not reviewed, with either way of reading. *)
R(keys, review, reads, ingests, most) ==
    [keys |-> keys, review |-> review, reads |-> reads, ingests |-> ingests, rows |-> most]
MCReviews == {R(1, TRUE, "current", TRUE, 4), R(1, TRUE, "current", FALSE, 4),
              R(2, TRUE, "current", FALSE, 6), R(1, FALSE, "current", TRUE, 3),
              R(1, FALSE, "snapshot", FALSE, 3)}

(* Triggers: quiet with deadlines; debounce with deadlines, cron and cooldown;
   writes over a cursor; reads and requests with a cooldown; quiet alone. *)
T(write, debounce, quiet, at, cooldown) ==
    [write |-> write, debounce |-> debounce, quiet |-> quiet, at |-> at, cooldown |-> cooldown]
P(records, changes, pulls, triggers) ==
    [records |-> records, changes |-> changes, pulls |-> pulls, triggers |-> triggers]
MCPaces == {P(2, TRUE, {"manual"}, <<T(FALSE, 0, 2, TRUE, 0)>>),
            P(2, FALSE, {"cron"}, <<T(TRUE, 2, 0, TRUE, 2)>>),
            P(3, TRUE, {}, <<T(TRUE, 0, 0, FALSE, 2)>>),
            P(2, FALSE, {"manual", "read"}, <<T(TRUE, 0, 0, FALSE, 2)>>),
            P(3, TRUE, {}, <<T(FALSE, 0, 2, FALSE, 0)>>)}

(* Cron: every hour and entities that are dirty; pages of any and of dirty
   entities; two triggers; repairs. *)
S(buckets, mode, entities, page, catchup, attempts) ==
    [buckets |-> buckets, mode |-> mode, entities |-> entities, page |-> page,
     catchup |-> catchup, attempts |-> attempts]
MCSchedules == {S(<<{1, 2, 3, 4}>>, "dirty", 1, 1, 2, 1), S(<<{1}>>, "any", 4, 2, 2, 2),
                S(<<{1}>>, "dirty", 4, 2, 2, 1), S(<<{1, 3}, {2, 4}>>, "any", 1, 1, 1, 1),
                S(<<{1}>>, "repair", 3, 1, 2, 2)}

(* Ingest: a page that is written, rewritten and withdrawn, and purged; batches
   that hold the same dedupe keys in opposite order; a publish. *)
I(key, dedupe, tomb, cites) == [key |-> key, dedupe |-> dedupe, tomb |-> tomb, cites |-> cites]
B(batches, most, publishes, removed) ==
    [batches |-> batches, sends |-> most, publishes |-> publishes, erasures |-> removed]
Rewrite == <<I("page", "k1", FALSE, "head")>>
Withdraw == <<I("page", NoKey, TRUE, "head")>>
Begin == <<I("page", NoKey, FALSE, "nothing")>>
Pair(d, f) == <<I(NoKey, d, FALSE, "nothing"), I(NoKey, f, FALSE, "nothing")>>
MCTraffics == {B({Rewrite, Withdraw, Begin}, 2, 0, 1), B({Rewrite}, 1, 1, 1),
               B({Pair("k1", "k2"), Pair("k2", "k1"), <<I("page", "k1", FALSE, "nothing")>>}, 2, 0, 1)}

(* Computers: two invocations at once; answers that get lost, with a reply and
   with a fork; tasks of one run; the local provider. *)
W(provider, kind, overlaps, lossy, changes, most) ==
    [provider |-> provider, kind |-> kind, overlaps |-> overlaps, lossy |-> lossy,
     changes |-> changes, most |-> most]
MCWorlds == {W("cloudflare", "resume", TRUE, FALSE, FALSE, 3),
             W("cloudflare", "resume", FALSE, TRUE, TRUE, 2),
             W("cloudflare", "fork", FALSE, TRUE, FALSE, 2),
             W("cloudflare", "fork", FALSE, FALSE, FALSE, 3),
             W("cloudflare", "tasks", FALSE, FALSE, TRUE, 3),
             W("local", "resume", FALSE, FALSE, TRUE, 3),
             W("local", "resume", TRUE, FALSE, FALSE, 3),
             W("local", "fork", FALSE, FALSE, FALSE, 3)}
MCPreserved == <<"checkpoint", "report">>

(* What a part does not look at has one value. *)
Seen(p, choices) == IF part = p THEN choices ELSE {CHOOSE c \in choices : TRUE}

ServicesInit ==
    /\ part \in Parts
    /\ deployment \in Seen("invocations", Deployments) /\ InvocationsInit
    /\ declared \in Seen("promotion", Reviews) /\ PromotionInit
    /\ pace \in Seen("triggers", Paces) /\ TriggerClockInit
    /\ plan \in Seen("cron", Schedules) /\ CronScanInit
    /\ traffic \in Seen("ingest", Traffics) /\ IngestInit
    /\ world \in Seen("computers", Worlds) /\ ComputersInit
    /\ undertaking \in Seen("executions", Undertakings) /\ ExecutionBegins

ServicesNext ==
    \/ /\ part = "invocations" /\ InvocationsNext
       /\ UNCHANGED <<part, promotionVars, triggerClockVars, cronScanVars,
                       ingestVars, computerVars, executionVars>>
    \/ /\ part = "promotion" /\ PromotionNext
       /\ UNCHANGED <<part, invocationVars, triggerClockVars, cronScanVars,
                       ingestVars, computerVars, executionVars>>
    \/ /\ part = "triggers" /\ TriggerClockNext
       /\ UNCHANGED <<part, invocationVars, promotionVars, cronScanVars,
                       ingestVars, computerVars, executionVars>>
    \/ /\ part = "cron" /\ CronScanNext
       /\ UNCHANGED <<part, invocationVars, promotionVars, triggerClockVars,
                       ingestVars, computerVars, executionVars>>
    \/ /\ part = "ingest" /\ IngestNext
       /\ UNCHANGED <<part, invocationVars, promotionVars, triggerClockVars,
                       cronScanVars, computerVars, executionVars>>
    \/ /\ part = "computers" /\ ComputersNext
       /\ UNCHANGED <<part, invocationVars, promotionVars, triggerClockVars,
                       cronScanVars, ingestVars, executionVars>>
    \/ /\ part = "executions" /\ ExecutionNext
       /\ UNCHANGED <<part, invocationVars, promotionVars, triggerClockVars,
                       cronScanVars, ingestVars, computerVars>>

ServicesSpec == ServicesInit /\ [][ServicesNext]_serviceVars

ServicesSymmetry == Permutations({e1, e2})
=============================================================================
