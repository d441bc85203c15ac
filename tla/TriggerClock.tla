---------------------------- MODULE TriggerClock ----------------------------
(***************************************************************************)
(* When the mailbox of one derivation and entity is due: arrivals,         *)
(* debounce, quiet, record deadlines, cooldown, requests and successors    *)
(* merge their times into one run_after (triggers.py, freshness.py and the *)
(* enqueueing statements of derive/runner.py).  Leases and bases are left  *)
(* to JobQueue and Derivation: here a run starts, and ends or fails.       *)
(***************************************************************************)
EXTENDS Naturals, Sequences, SequencesExt, FiniteSetsExt

CONSTANTS
    MaxTime, \* bound: the clock
    Paces    \* the declarations that are looked at

ASSUME TriggerClockAssumption ==
    /\ MaxTime \in Nat
    /\ \A p \in Paces :
        /\ p.records \in Nat               \* bound: records
        /\ p.changes \in BOOLEAN           \* the driver has a cursor
        /\ p.pulls \subseteq {"manual", "cron", "read"}
        /\ p.triggers \in Seq([write : BOOLEAN, debounce : Nat, quiet : Nat, at : BOOLEAN,
                               cooldown : Nat])   \* by name; 0: not declared
        /\ p.pulls \subseteq {"manual"} \/ p.triggers # <<>>

VARIABLES
    pace,     \* one of Paces, which does not change
    clock,
    arrivals, \* ready records by seq: of the driver's scope, or with a deadline
    mail,     \* the newest derive job of the mailbox
    success,  \* the newest ok or noop run: when it completed and its high_seq
    through   \* executor memory: the high_seq that the run in progress will record

triggerClockVars == <<pace, clock, arrivals, mail, success, through>>

\* promised is history: the earliest time that a stimulus which is not to be
\* delayed has asked for (MaxTime + 1: none).
NoMail == [state |-> "none", after |-> 0, reasons |-> {}, retried |-> FALSE,
           promised |-> MaxTime + 1]

TriggerClockInit ==
    /\ pace \in Paces
    /\ clock = 1 /\ arrivals = <<>> /\ mail = NoMail
    /\ success = [at |-> 0, high |-> 0]
    /\ through = 0

Later(a, b) == Max({a, b})
Sooner(a, b) == Min({a, b})

(***************************************************************************)
(* enqueue_derive_tx                                                       *)
(***************************************************************************)
Stimulus(reason, after, extend) == [reason |-> reason, after |-> after, extend |-> extend]
Promise(s) == IF s.reason \in {"cron", "read", "at"} THEN s.after ELSE MaxTime + 1

\* A stimulus fills the mailbox or coalesces into the active job, whether it
\* waits or runs.  A settle stimulus postpones, unless the job was requested.
Coalesced(m, s) ==
    IF m.state \in {"waiting", "running"}
    THEN [m EXCEPT !.reasons = @ \cup {s.reason},
                   !.after = IF s.extend /\ "manual" \notin m.reasons
                             THEN Later(@, s.after) ELSE Sooner(@, s.after),
                   !.promised = Sooner(@, Promise(s))]
    ELSE [state |-> "waiting", after |-> s.after, reasons |-> {s.reason}, retried |-> FALSE,
          promised |-> Promise(s)]

(***************************************************************************)
(* evaluate_entity_triggers_tx, at a time when arr is ready and suc is the *)
(* newest success.                                                         *)
(***************************************************************************)
\* _scope_matches: some record of the scope lies above the watermark.
Pending(arr, high) == {i \in DOMAIN arr : arr[i].kind = "driver" /\ i > high}

\* _cooldown_due
CooldownDue(tr, suc) == IF suc.at = 0 THEN clock ELSE Later(clock, suc.at + tr.cooldown)

\* Fault: a deadline that has passed is taken for handled.
FutureDeadlines(arr, suc) ==
    {arr[i].deadline : i \in {k \in DOMAIN arr : arr[k].kind = "dated" /\ arr[k].deadline > clock}}

\* _at_deadline: handled by a success at or after it.
Deadlines(arr, suc) ==
    {arr[i].deadline : i \in {k \in DOMAIN arr : arr[k].kind = "dated" /\ arr[k].deadline > suc.at}}

\* The stimuli of one trigger, in the order in which they are enqueued.
WithWrite(m, tr, arr, suc) ==
    LET due == CooldownDue(tr, suc) IN
    IF tr.write /\ Pending(arr, suc.high) # {}
    THEN Coalesced(m, Stimulus("write", IF tr.debounce > 0 THEN Later(due, clock + tr.debounce) ELSE due,
                               tr.debounce > 0))
    ELSE m
WithQuiet(m, tr, arr, suc) ==
    IF tr.quiet > 0 /\ Pending(arr, suc.high) # {}
    THEN Coalesced(m, Stimulus("quiet", Later(CooldownDue(tr, suc), clock + tr.quiet), TRUE)) ELSE m
WithDeadline(m, tr, arr, suc) ==
    IF tr.at /\ Deadlines(arr, suc) # {}
    THEN Coalesced(m, Stimulus("at", Later(CooldownDue(tr, suc), Min(Deadlines(arr, suc))), FALSE)) ELSE m
OfTrigger(m, tr, arr, suc) == WithDeadline(WithQuiet(WithWrite(m, tr, arr, suc), tr, arr, suc), tr, arr, suc)

\* The triggers by name.
Evaluated(m, arr, suc) ==
    LET upTo[k \in 0 .. Len(pace.triggers)] ==
            IF k = 0 THEN m ELSE OfTrigger(upTo[k - 1], pace.triggers[k], arr, suc)
    IN upTo[Len(pace.triggers)]

(***************************************************************************)
(* What evaluates the triggers, and what asks for a run.                   *)
(***************************************************************************)
\* Some trigger reads deadlines; records that have one matter to no other.
Timed == \E k \in DOMAIN pace.triggers : pace.triggers[k].at

\* A record of the entity becomes ready.
Arrive(kind, deadline) ==
    /\ Len(arrivals) < pace.records
    /\ arrivals' = Append(arrivals, [kind |-> kind, deadline |-> deadline, at |-> clock])
    /\ mail' = Evaluated(mail, arrivals', success)
    /\ UNCHANGED <<pace, clock, success, through>>

\* A record of no scope becomes ready, another derivation of the entity
\* commits, or something of the entity is erased.
Elsewhere ==
    /\ mail' = Evaluated(mail, arrivals, success)
    /\ UNCHANGED <<pace, clock, arrivals, success, through>>

\* enqueue_derivation_job; a cron scan; request_revalidation, when dirty.
Request(reason) ==
    /\ reason \in pace.pulls
    /\ reason = "read" => Pending(arrivals, success.high) # {}
    /\ LET after == IF reason = "manual" THEN clock
                    ELSE CooldownDue(pace.triggers[1], success) IN
        mail' = Coalesced(mail, Stimulus(reason, after, FALSE))
    /\ UNCHANGED <<pace, clock, arrivals, success, through>>

Tick ==
    /\ clock < MaxTime
    /\ clock' = clock + 1
    /\ UNCHANGED <<pace, arrivals, mail, success, through>>

(***************************************************************************)
(* The run.                                                                *)
(***************************************************************************)
\* The claim of a due job and its basis: all pending records, or of a cursor
\* the first that fit its bounds.
StartRun ==
    /\ mail.state = "waiting" /\ mail.after <= clock
    /\ mail' = [mail EXCEPT !.state = "running"]
    /\ LET pending == Pending(arrivals, success.high) IN
        IF pending = {} THEN through' = success.high
        ELSE \E h \in pending : (pace.changes \/ h = Max(pending)) /\ through' = h
    /\ UNCHANGED <<pace, clock, arrivals, success>>

\* _enqueue_successor_tx: due at once.
WithSuccessor(m, high) ==
    IF pace.changes /\ Pending(arrivals, high) # {}
    THEN Coalesced(m, Stimulus("successor", clock, FALSE)) ELSE m

\* Fault: the successor is enqueued after the triggers.
SuccessorLast(suc) == WithSuccessor(Evaluated(NoMail, arrivals, suc), suc.high)

\* The order of the last statements of _commit_execution.
AfterCommit(suc) == Evaluated(WithSuccessor(NoMail, suc.high), arrivals, suc)

CommitRunAt ==
    /\ mail.state = "running"
    /\ success' = [at |-> clock, high |-> through]
    /\ mail' = AfterCommit(success')
    /\ UNCHANGED <<pace, clock, arrivals, through>>

\* _persist_failed_run: later, or never, whatever has coalesced into the job.
FailRun ==
    /\ mail.state = "running"
    /\ mail' \in {[mail EXCEPT !.state = "waiting", !.after = clock + 1, !.retried = TRUE],
                  [NoMail EXCEPT !.state = "dead"]}
    /\ UNCHANGED <<pace, clock, arrivals, success, through>>

(***************************************************************************)
TriggerClockNext ==
    \/ Arrive("driver", 0)
    \/ Timed /\ \E d \in 1 .. MaxTime : Arrive("dated", d)
    \/ Elsewhere \/ Tick
    \/ \E reason \in {"manual", "cron", "read"} : Request(reason)
    \/ StartRun \/ CommitRunAt \/ FailRun

TriggerClockSpec == TriggerClockInit /\ [][TriggerClockNext]_triggerClockVars

(***************************************************************************)
(* Properties.                                                             *)
(***************************************************************************)
Alone == Len(pace.triggers) = 1
Only == pace.triggers[1]
Rests == mail.state = "waiting" /\ ~mail.retried

Unreached == {arrivals[i].deadline : i \in {k \in DOMAIN arrivals : arrivals[k].kind = "dated"}}
    \ 0 .. success.at

\* A deadline that no success has reached has a job, or one that died; and with
\* one trigger the job is due by then, cooldown apart: the order in which its
\* stimuli are enqueued undoes what its own settle stimuli have postponed.
DeadlineKept ==
    \A tr \in {pace.triggers[k] : k \in DOMAIN pace.triggers} : \A d \in Unreached :
        tr.at => /\ mail.state # "none"
                 /\ Alone /\ Rests => mail.after <= Later(d, success.at + tr.cooldown)
                                      \/ mail.after <= clock

Starts == mail.state = "waiting" /\ mail'.state = "running"

\* A run that nothing but a settle window has asked for starts no sooner than
\* the window after the last arrival of its scope, successors included.
RunsWhenSettled ==
    [][Starts /\ ~mail.retried /\ Alone /\ mail.reasons \subseteq {"quiet", "successor"}
        => \A i \in Pending(arrivals, success.high) : clock >= arrivals[i].at + Only.quiet]_triggerClockVars

\* docs/triggers.md:606: no run within cooldown_s after a success, except by
\* request.
Cooled == success.at # 0 => clock >= success.at + Only.cooldown
CooldownAlways ==
    [][Starts /\ Alone /\ "manual" \notin mail.reasons => Cooled]_triggerClockVars

\* docs/triggers.md:616: a window never delays read, cron or at.
NeverDelayed == Rests => mail.after <= mail.promised

\* docs/triggers.md:402: only arrivals of the scope postpone a quiet run.
QuietFollowsArrivals ==
    Rests /\ Alone /\ mail.reasons = {"quiet"} =>
        \E i \in Pending(arrivals, success.high) :
            mail.after <= Later(arrivals[i].at + Only.quiet, success.at + Only.cooldown)
=============================================================================
