---------------------------- MODULE TriggerProofs -----------------------------
(*****************************************************************************)
(* Deadlines and settled runs, for every number of arrivals, every clock     *)
(* and every pace: what a mailbox promises is not after what its trigger     *)
(* allows, because each stimulus only brings the promise nearer.             *)
(*****************************************************************************)
EXTENDS TriggerClock, CronScan, FiniteSetTheorems, WellFoundedInduction, TLAPS

Reasons == {"write", "quiet", "at", "manual", "cron", "read", "successor"}
MailTypes == [state : {"none", "waiting", "running", "dead"}, after : Nat, reasons : SUBSET Reasons,
              retried : BOOLEAN, promised : Nat]
ArrivalTypes == [kind : {"driver", "dated"}, deadline : Nat, at : Nat]

TriggerClockTypes ==
    /\ pace \in Paces
    /\ clock \in Nat
    /\ arrivals \in Seq(ArrivalTypes)
    /\ mail \in MailTypes
    /\ success \in [at : Nat, high : Nat]
    /\ through \in Nat

\* A mailbox that waits for no more than the settle window is due after it.
SettledMail(m, arr, high) ==
    m.state = "waiting" /\ ~m.retried /\ Alone /\ Only.quiet > 0 /\ m.reasons \subseteq {"quiet", "successor"}
    => \A i \in Pending(arr, high) : m.after >= arr[i].at + Only.quiet

\* DeadlineKept of a mailbox, a set of arrivals and a success.
KeptMail(m, arr, suc) ==
    \A k \in DOMAIN pace.triggers : pace.triggers[k].at =>
        \A d \in Deadlines(arr, suc) :
            /\ m.state # "none"
            /\ Alone /\ m.state = "waiting" /\ ~m.retried
               => m.after <= clock \/ m.after <= d \/ m.after <= suc.at + pace.triggers[k].cooldown

Arrived(arr) == \A i \in DOMAIN arr : arr[i].at <= clock

TriggerClockInv ==
    /\ TriggerClockTypes
    /\ Arrived(arrivals)
    /\ SettledMail(mail, arrivals, success.high)
    /\ KeptMail(mail, arrivals, success)

USE TriggerClockAssumption

-----------------------------------------------------------------------------
(* Times and stimuli.                                                      *)

LEMMA LaterFacts ==
  ASSUME NEW a \in Nat, NEW b \in Nat
  PROVE  /\ Later(a, b) = IF a >= b THEN a ELSE b
         /\ Sooner(a, b) = IF a <= b THEN a ELSE b
<1>1. \E x \in {a, b} : \A y \in {a, b} : x >= y
  OBVIOUS
<1>2. \E x \in {a, b} : \A y \in {a, b} : x <= y
  OBVIOUS
<1>. QED
  BY <1>1, <1>2 DEF Later, Sooner, Max, Min

LEMMA MinFacts ==
  ASSUME NEW S \in SUBSET Nat, S # {}
  PROVE  Min(S) \in S /\ \A x \in S : Min(S) <= x
<1>1. PICK m \in S : \A y \in S : ~ (<<y, m>> \in OpToRel(<, Nat))
  BY NatLessThanWellFounded, WFMin, Zenon
<1>2. \A y \in S : m <= y
  <2>. SUFFICES ASSUME NEW y \in S PROVE m <= y
    OBVIOUS
  <2>1. m \in Nat /\ y \in Nat
    OBVIOUS
  <2>2. ~ (y < m)
    BY <1>1, <2>1 DEF OpToRel
  <2>. QED
    BY <2>1, <2>2
<1>. QED
  BY <1>2 DEF Min

Stimuli == [reason : Reasons, after : Nat, extend : BOOLEAN]

LEMMA StimulusTyped ==
  ASSUME NEW reason \in Reasons, NEW after \in Nat, NEW extend \in BOOLEAN
  PROVE  /\ Stimulus(reason, after, extend) \in Stimuli
         /\ Stimulus(reason, after, extend).reason = reason
         /\ Stimulus(reason, after, extend).after = after
         /\ Stimulus(reason, after, extend).extend = extend
  BY DEF Stimulus, Stimuli

LEMMA FlagsTyped ==
  /\ TRUE \in BOOLEAN /\ FALSE \in BOOLEAN
  /\ "waiting" \in {"none", "waiting", "running", "dead"}
  /\ "write" \in Reasons /\ "quiet" \in Reasons /\ "at" \in Reasons
<1>1. TRUE \in BOOLEAN /\ FALSE \in BOOLEAN
  OBVIOUS
<1>2. "write" \in Reasons /\ "quiet" \in Reasons /\ "at" \in Reasons
  BY DEF Reasons
<1>3. "waiting" \in {"none", "waiting", "running", "dead"}
  OBVIOUS
<1>. QED
  BY <1>1, <1>2, <1>3, Zenon

LEMMA MailTyped ==
  ASSUME NEW state \in {"none", "waiting", "running", "dead"}, NEW after \in Nat,
         NEW reasons \in SUBSET Reasons, NEW retried \in BOOLEAN, NEW promised \in Nat
  PROVE  [state |-> state, after |-> after, reasons |-> reasons, retried |-> retried,
          promised |-> promised] \in MailTypes
  BY DEF MailTypes

\* What coalescing does to a mailbox, whatever the stimulus.
Grows(m, n) ==
    /\ n \in MailTypes
    /\ n.state = "running" <=> m.state = "running"
    /\ m.state = "waiting" => n.state = "waiting" /\ n.retried = m.retried
    /\ m.state # "none" => n.state # "none"

LEMMA CoalescedFacts ==
  ASSUME NEW m \in MailTypes, NEW s \in Stimuli
  PROVE  /\ Grows(m, Coalesced(m, s)) /\ Coalesced(m, s).state \in {"waiting", "running"}
         /\ ~s.extend => Coalesced(m, s).after <= s.after
         /\ s.reason \in Coalesced(m, s).reasons
         /\ m.state \in {"waiting", "running"} => m.reasons \subseteq Coalesced(m, s).reasons
         /\ s.extend /\ "manual" \notin m.reasons =>
                /\ Coalesced(m, s).after >= s.after
                /\ m.state \in {"waiting", "running"} => Coalesced(m, s).after >= m.after
         /\ m.state \notin {"waiting", "running"} => Coalesced(m, s).after = s.after
<1>1. /\ s.reason \in Reasons /\ s.after \in Nat /\ s.extend \in BOOLEAN
      /\ m.after \in Nat /\ m.promised \in Nat /\ m.reasons \in SUBSET Reasons
  BY DEF Stimuli, MailTypes
<1>2. Promise(s) \in Nat
  BY <1>1 DEF Promise
<1>3. CASE m.state \in {"waiting", "running"}
  <2>. DEFINE time == IF s.extend /\ "manual" \notin m.reasons
                      THEN Later(m.after, s.after) ELSE Sooner(m.after, s.after)
  <2>1. /\ time \in Nat
        /\ ~s.extend => time <= s.after
        /\ s.extend /\ "manual" \notin m.reasons => time >= s.after /\ time >= m.after
    BY <1>1, LaterFacts
  <2>2. Sooner(m.promised, Promise(s)) \in Nat
    BY <1>1, <1>2, LaterFacts
  <2>3. Coalesced(m, s) = [m EXCEPT !.reasons = m.reasons \cup {s.reason}, !.after = time,
                                    !.promised = Sooner(m.promised, Promise(s))]
    BY <1>3 DEF Coalesced, MailTypes
  <2>. HIDE DEF time
  <2>4. Coalesced(m, s) = [state |-> m.state, after |-> time, reasons |-> m.reasons \cup {s.reason},
                           retried |-> m.retried, promised |-> Sooner(m.promised, Promise(s))]
    BY <2>3 DEF MailTypes
  <2>5. m.state \in {"none", "waiting", "running", "dead"} /\ m.retried \in BOOLEAN
    BY DEF MailTypes
  <2>. DEFINE n == Coalesced(m, s)
  <2>6. n \in MailTypes
    <3>1. m.reasons \cup {s.reason} \in SUBSET Reasons
      BY <1>1
    <3>2. [state |-> m.state, after |-> time, reasons |-> m.reasons \cup {s.reason},
           retried |-> m.retried, promised |-> Sooner(m.promised, Promise(s))] \in MailTypes
      BY <2>1, <2>2, <2>5, <3>1, MailTyped, Zenon
    <3>. QED
      BY <2>4, <3>2, Zenon
  <2>7. n.state = m.state /\ n.retried = m.retried /\ n.after = time
        /\ n.reasons = m.reasons \cup {s.reason}
    BY <2>4
  <2>. HIDE DEF n
  <2>8. Grows(m, n)
    BY <1>3, <2>6, <2>7 DEF Grows
  <2>9. ~s.extend => n.after <= s.after
    BY <2>1, <2>7, Zenon
  <2>10. s.extend /\ "manual" \notin m.reasons => n.after >= s.after /\ n.after >= m.after
    BY <2>1, <2>7, Zenon
  <2>11. n.state \in {"waiting", "running"} /\ s.reason \in n.reasons /\ m.reasons \subseteq n.reasons
    BY <1>3, <2>7
  <2>. QED
    BY <1>3, <2>8, <2>9, <2>10, <2>11, Zenon DEF n
<1>4. CASE m.state \notin {"waiting", "running"}
  <2>1. Coalesced(m, s) = [state |-> "waiting", after |-> s.after, reasons |-> {s.reason},
                           retried |-> FALSE, promised |-> Promise(s)]
    BY <1>4 DEF Coalesced
  <2>. DEFINE n == Coalesced(m, s)
  <2>2. n \in MailTypes
    <3>1. {s.reason} \in SUBSET Reasons
      BY <1>1
    <3>2. [state |-> "waiting", after |-> s.after, reasons |-> {s.reason},
           retried |-> FALSE, promised |-> Promise(s)] \in MailTypes
      BY <1>1, <1>2, <3>1, FlagsTyped, MailTyped, Zenon
    <3>. QED
      BY <2>1, <3>2, Zenon
  <2>3. n.state = "waiting" /\ n.after = s.after /\ n.reasons = {s.reason}
    BY <2>1
  <2>. HIDE DEF n
  <2>4. Grows(m, n)
    BY <1>4, <2>2, <2>3 DEF Grows
  <2>. QED
    BY <1>1, <1>4, <2>3, <2>4 DEF n
<1>. QED
  BY <1>3, <1>4

LEMMA GrowsFacts ==
  /\ \A m \in MailTypes : Grows(m, m)
  /\ \A m, n, o : Grows(m, n) /\ Grows(n, o) => Grows(m, o)
  BY DEF Grows

Successes == [at : Nat, high : Nat]
Triggers == [write : BOOLEAN, debounce : Nat, quiet : Nat, at : BOOLEAN, cooldown : Nat]

LEMMA DueFacts ==
  ASSUME clock \in Nat, NEW tr \in Triggers, NEW suc \in Successes
  PROVE  /\ CooldownDue(tr, suc) \in Nat
         /\ CooldownDue(tr, suc) <= clock \/ CooldownDue(tr, suc) <= suc.at + tr.cooldown
<1>1. suc.at \in Nat /\ tr.cooldown \in Nat /\ suc.at + tr.cooldown \in Nat
  BY DEF Successes, Triggers
<1>. QED
  BY <1>1, LaterFacts DEF CooldownDue

LEMMA DeadlinesTyped ==
  ASSUME NEW arr \in Seq(ArrivalTypes), NEW suc \in Successes
  PROVE  Deadlines(arr, suc) \in SUBSET Nat
<1>1. \A i \in DOMAIN arr : arr[i] \in ArrivalTypes
  OBVIOUS
<1>2. \A i \in DOMAIN arr : arr[i].deadline \in Nat
  BY <1>1 DEF ArrivalTypes
<1>. QED
  BY <1>2 DEF Deadlines

-----------------------------------------------------------------------------
(* The stimuli of one trigger.                                             *)

LEMMA WriteFacts ==
  ASSUME clock \in Nat, NEW m \in MailTypes, NEW tr \in Triggers, NEW arr \in Seq(ArrivalTypes),
         NEW suc \in Successes
  PROVE  LET n == WithWrite(m, tr, arr, suc) IN
         /\ Grows(m, n)
         /\ n # m => "write" \in n.reasons /\ n.state \in {"waiting", "running"}
<1>1. CASE tr.write /\ Pending(arr, suc.high) # {}
  <2>. DEFINE due == CooldownDue(tr, suc)
  <2>1. due \in Nat /\ clock + tr.debounce \in Nat /\ tr.debounce \in Nat
    BY DueFacts DEF Triggers
  <2>2. ASSUME NEW time \in Nat, NEW extend \in BOOLEAN
        PROVE  /\ Stimulus("write", time, extend) \in Stimuli
               /\ Stimulus("write", time, extend).reason = "write"
    <3>1. "write" \in Reasons
      BY DEF Reasons
    <3>. QED
      BY <3>1, StimulusTyped
  <2>3. \E s \in Stimuli : s.reason = "write" /\ WithWrite(m, tr, arr, suc) = Coalesced(m, s)
    <3>1. CASE tr.debounce > 0
      <4>1. Later(due, clock + tr.debounce) \in Nat
        BY <2>1, LaterFacts
      <4>2. WithWrite(m, tr, arr, suc) = Coalesced(m, Stimulus("write", Later(due, clock + tr.debounce), TRUE))
        BY <1>1, <3>1 DEF WithWrite
      <4>. QED
        BY <2>2, <4>1, <4>2
    <3>2. CASE ~(tr.debounce > 0)
      <4>1. WithWrite(m, tr, arr, suc) = Coalesced(m, Stimulus("write", due, FALSE))
        <5>1. (tr.debounce > 0) = FALSE
          BY <3>2
        <5>. QED
          BY <1>1, <3>2, <5>1, Zenon DEF WithWrite
      <4>. QED
        BY <2>1, <2>2, <4>1
    <3>. QED
      BY <3>1, <3>2
  <2>. QED
    BY <2>3, CoalescedFacts
<1>2. CASE ~(tr.write /\ Pending(arr, suc.high) # {})
  <2>1. WithWrite(m, tr, arr, suc) = m
    BY <1>2 DEF WithWrite
  <2>. QED
    BY <1>2, <2>1, GrowsFacts
<1>. QED
  BY <1>1, <1>2

LEMMA QuietFacts ==
  ASSUME clock \in Nat, NEW m \in MailTypes, NEW tr \in Triggers, NEW arr \in Seq(ArrivalTypes),
         NEW suc \in Successes
  PROVE  LET n == WithQuiet(m, tr, arr, suc) IN
         /\ Grows(m, n)
         /\ m.state \in {"waiting", "running"} => m.reasons \subseteq n.reasons
         /\ n # m => "quiet" \in n.reasons /\ n.state \in {"waiting", "running"}
         /\ tr.quiet > 0 /\ Pending(arr, suc.high) # {} /\ "manual" \notin n.reasons
            => n.after >= clock + tr.quiet
<1>1. CASE tr.quiet > 0 /\ Pending(arr, suc.high) # {}
  <2>. DEFINE s == Stimulus("quiet", Later(CooldownDue(tr, suc), clock + tr.quiet), TRUE)
  <2>1. CooldownDue(tr, suc) \in Nat /\ clock + tr.quiet \in Nat
    BY DueFacts DEF Triggers
  <2>0. Later(CooldownDue(tr, suc), clock + tr.quiet) \in Nat
        /\ Later(CooldownDue(tr, suc), clock + tr.quiet) >= clock + tr.quiet
    BY <2>1, LaterFacts
  <2>2. s \in Stimuli /\ s.reason = "quiet" /\ s.extend /\ s.after >= clock + tr.quiet /\ s.after \in Nat
    <3>1. s \in Stimuli /\ s.reason = "quiet" /\ s.extend = TRUE
          /\ s.after = Later(CooldownDue(tr, suc), clock + tr.quiet)
      BY <2>0, FlagsTyped, StimulusTyped, Zenon
    <3>. HIDE DEF s
    <3>. QED
      BY <2>0, <3>1
  <2>3. WithQuiet(m, tr, arr, suc) = Coalesced(m, s)
    BY <1>1 DEF WithQuiet
  <2>. HIDE DEF s
  <2>4. Coalesced(m, s).after \in Nat
    BY <2>2, CoalescedFacts DEF Grows, MailTypes
  <2>5. "manual" \notin Coalesced(m, s).reasons => Coalesced(m, s).after >= s.after
    <3>1. CASE m.state \in {"waiting", "running"}
      BY <2>2, <3>1, CoalescedFacts
    <3>2. CASE m.state \notin {"waiting", "running"}
      BY <2>2, <3>2, CoalescedFacts
    <3>. QED
      BY <3>1, <3>2
  <2>. QED
    BY <2>1, <2>2, <2>3, <2>4, <2>5, CoalescedFacts
<1>2. CASE ~(tr.quiet > 0 /\ Pending(arr, suc.high) # {})
  <2>1. WithQuiet(m, tr, arr, suc) = m
    BY <1>2 DEF WithQuiet
  <2>. QED
    BY <1>2, <2>1, GrowsFacts
<1>. QED
  BY <1>1, <1>2

LEMMA DeadlineFacts ==
  ASSUME clock \in Nat, NEW m \in MailTypes, NEW tr \in Triggers, NEW arr \in Seq(ArrivalTypes),
         NEW suc \in Successes
  PROVE  LET n == WithDeadline(m, tr, arr, suc) IN
         /\ Grows(m, n)
         /\ m.state \in {"waiting", "running"} => m.reasons \subseteq n.reasons
         /\ n # m => "at" \in n.reasons /\ n.state \in {"waiting", "running"}
         /\ tr.at => \A d \in Deadlines(arr, suc) :
                        /\ n.state # "none"
                        /\ n.after <= clock \/ n.after <= d \/ n.after <= suc.at + tr.cooldown
<1>1. CASE tr.at /\ Deadlines(arr, suc) # {}
  <2>. DEFINE first == Min(Deadlines(arr, suc))
              s == Stimulus("at", Later(CooldownDue(tr, suc), first), FALSE)
  <2>1. first \in Nat /\ \A d \in Deadlines(arr, suc) : first <= d /\ d \in Nat
    BY <1>1, DeadlinesTyped, MinFacts
  <2>2. CooldownDue(tr, suc) \in Nat /\ suc.at + tr.cooldown \in Nat
        /\ (CooldownDue(tr, suc) <= clock \/ CooldownDue(tr, suc) <= suc.at + tr.cooldown)
    BY DueFacts DEF Successes, Triggers
  <2>3. WithDeadline(m, tr, arr, suc) = Coalesced(m, s)
    BY <1>1 DEF WithDeadline
  <2>. HIDE DEF first
  <2>0. Later(CooldownDue(tr, suc), first) \in {CooldownDue(tr, suc), first}
    BY <2>1, <2>2, LaterFacts
  <2>4. s \in Stimuli /\ s.reason = "at" /\ ~s.extend /\ s.after \in Nat
        /\ (s.after = CooldownDue(tr, suc) \/ s.after = first)
    <3>1. Later(CooldownDue(tr, suc), first) \in Nat
      BY <2>0, <2>1, <2>2
    <3>2. s \in Stimuli /\ s.reason = "at" /\ s.extend = FALSE
          /\ s.after = Later(CooldownDue(tr, suc), first)
      <4>1. "at" \in Reasons /\ FALSE \in BOOLEAN
        BY DEF Reasons
      <4>. QED
        BY <3>1, <4>1, StimulusTyped, Zenon
    <3>. HIDE DEF s
    <3>. QED
      BY <2>0, <3>1, <3>2
  <2>. HIDE DEF s
  <2>5. Coalesced(m, s).after \in Nat /\ Coalesced(m, s).after <= s.after
        /\ Coalesced(m, s).state \in {"waiting", "running"}
    BY <2>4, CoalescedFacts DEF Grows, MailTypes
  <2>6. \A d \in Deadlines(arr, suc) :
            \/ Coalesced(m, s).after <= clock \/ Coalesced(m, s).after <= d
            \/ Coalesced(m, s).after <= suc.at + tr.cooldown
    BY <2>1, <2>2, <2>4, <2>5
  <2>. QED
    BY <2>3, <2>4, <2>5, <2>6, CoalescedFacts
<1>2. CASE ~(tr.at /\ Deadlines(arr, suc) # {})
  <2>1. WithDeadline(m, tr, arr, suc) = m
    BY <1>2 DEF WithDeadline
  <2>. QED
    BY <1>2, <2>1, GrowsFacts
<1>. QED
  BY <1>1, <1>2

LEMMA TriggerFacts ==
  ASSUME clock \in Nat, NEW m \in MailTypes, NEW tr \in Triggers, NEW arr \in Seq(ArrivalTypes),
         NEW suc \in Successes
  PROVE  LET n == OfTrigger(m, tr, arr, suc) IN
         /\ Grows(m, n)
         /\ tr.at => \A d \in Deadlines(arr, suc) :
                        /\ n.state # "none"
                        /\ n.after <= clock \/ n.after <= d \/ n.after <= suc.at + tr.cooldown
         /\ tr.quiet > 0 /\ Pending(arr, suc.high) # {} /\ n.reasons \subseteq {"quiet", "successor"}
            => n.after >= clock + tr.quiet
<1>. DEFINE w == WithWrite(m, tr, arr, suc)
            q == WithQuiet(w, tr, arr, suc)
            n == WithDeadline(q, tr, arr, suc)
<1>1. Grows(m, w) /\ w \in MailTypes
  BY WriteFacts DEF Grows
<1>2. Grows(w, q) /\ q \in MailTypes
      /\ (tr.quiet > 0 /\ Pending(arr, suc.high) # {} /\ "manual" \notin q.reasons
          => q.after >= clock + tr.quiet)
  <2>. HIDE DEF w
  <2>1. LET o == WithQuiet(w, tr, arr, suc) IN
        /\ Grows(w, o)
        /\ tr.quiet > 0 /\ Pending(arr, suc.high) # {} /\ "manual" \notin o.reasons
           => o.after >= clock + tr.quiet
    BY <1>1, QuietFacts
  <2>. QED
    BY <2>1 DEF Grows
<1>3. /\ Grows(q, n)
      /\ n = q \/ "at" \in n.reasons
      /\ tr.at => \A d \in Deadlines(arr, suc) :
                    /\ n.state # "none"
                    /\ n.after <= clock \/ n.after <= d \/ n.after <= suc.at + tr.cooldown
  <2>. HIDE DEF q
  <2>. QED
    BY <1>2, DeadlineFacts
<1>4. OfTrigger(m, tr, arr, suc) = n
  BY DEF OfTrigger
<1>. HIDE DEF w, q, n
<1>. QED
  BY <1>1, <1>2, <1>3, <1>4, GrowsFacts

-----------------------------------------------------------------------------
(* All triggers, in their order.                                           *)

LEMMA TriggersTyped ==
  ASSUME pace \in Paces
  PROVE  /\ Len(pace.triggers) \in Nat /\ DOMAIN pace.triggers = 1 .. Len(pace.triggers)
         /\ \A k \in DOMAIN pace.triggers : pace.triggers[k] \in Triggers
         /\ Alone => Only \in Triggers /\ DOMAIN pace.triggers = {1}
<1>1. pace.triggers \in Seq(Triggers)
  BY DEF Triggers
<1>. HIDE DEF Triggers
<1>2. /\ Len(pace.triggers) \in Nat /\ DOMAIN pace.triggers = 1 .. Len(pace.triggers)
      /\ \A k \in DOMAIN pace.triggers : pace.triggers[k] \in Triggers
  BY <1>1
<1>. QED
  BY <1>2 DEF Alone, Only

\* The stages of an evaluation up to the n-th trigger.
StagesTo(f, n, m, arr, suc) ==
    f = [k \in 0 .. n |-> IF k = 0 THEN m ELSE OfTrigger(f[k - 1], pace.triggers[k], arr, suc)]

LEMMA StagesExist ==
  ASSUME NEW m, NEW arr, NEW suc, NEW n \in Nat
  PROVE  \E f : StagesTo(f, n, m, arr, suc)
<1>. DEFINE Bad == {l \in Nat : ~ \E f : StagesTo(f, l, m, arr, suc)}
<1>. SUFFICES ASSUME Bad # {} PROVE FALSE
  OBVIOUS
<1>1. PICK l \in Bad : \A j \in Bad : ~ (<<j, l>> \in OpToRel(<, Nat))
  BY NatLessThanWellFounded, WFMin, Zenon
<1>2. \A j \in Bad : ~ (j < l)
  BY <1>1 DEF OpToRel
<1>3. CASE l = 0
  <2>. DEFINE g == [k \in 0 .. 0 |-> m]
  <2>1. StagesTo(g, 0, m, arr, suc)
    BY DEF StagesTo
  <2>. QED
    BY <1>3, <2>1
<1>4. CASE l # 0
  <2>1. l \in Nat /\ l - 1 \in Nat /\ l - 1 < l
    BY <1>4
  <2>2. PICK f : StagesTo(f, l - 1, m, arr, suc)
    BY <1>2, <2>1
  <2>. DEFINE g == [k \in 0 .. l |-> IF k = l THEN OfTrigger(f[l - 1], pace.triggers[l], arr, suc) ELSE f[k]]
  <2>3. \A k \in 0 .. l : g[k] = IF k = 0 THEN m ELSE OfTrigger(g[k - 1], pace.triggers[k], arr, suc)
    <3>. SUFFICES ASSUME NEW k \in 0 .. l
                  PROVE  g[k] = IF k = 0 THEN m ELSE OfTrigger(g[k - 1], pace.triggers[k], arr, suc)
      OBVIOUS
    <3>1. \A j \in 0 .. l - 1 : g[j] = f[j]
      BY <2>1
    <3>2. CASE k = l
      <4>1. g[k - 1] = f[l - 1]
        BY <2>1, <3>1, <3>2
      <4>. QED
        BY <1>4, <3>2, <4>1
    <3>3. CASE k # l
      <4>1. k \in 0 .. l - 1 /\ (k # 0 => k - 1 \in 0 .. l - 1)
        BY <2>1, <3>3
      <4>2. g[k] = f[k] /\ (k # 0 => g[k - 1] = f[k - 1])
        BY <3>1, <4>1
      <4>3. f[k] = IF k = 0 THEN m ELSE OfTrigger(f[k - 1], pace.triggers[k], arr, suc)
        BY <2>2, <4>1 DEF StagesTo
      <4>. QED
        BY <4>2, <4>3
    <3>. QED
      BY <3>2, <3>3
  <2>4. StagesTo(g, l, m, arr, suc)
    <3>1. g = [k \in 0 .. l |-> g[k]]
      OBVIOUS
    <3>. HIDE DEF g
    <3>. QED
      BY <2>3, <3>1, Zenon DEF StagesTo
  <2>. QED
    BY <2>4
<1>. QED
  BY <1>3, <1>4

LEMMA EvaluatedStages ==
  ASSUME NEW m, NEW arr, NEW suc, Len(pace.triggers) \in Nat
  PROVE  \E f : /\ Evaluated(m, arr, suc) = f[Len(pace.triggers)]
                /\ f[0] = m
                /\ \A k \in 1 .. Len(pace.triggers) :
                        f[k] = OfTrigger(f[k - 1], pace.triggers[k], arr, suc)
<1>. DEFINE n == Len(pace.triggers)
            f == CHOOSE g : g = [k \in 0 .. n |->
                    IF k = 0 THEN m ELSE OfTrigger(g[k - 1], pace.triggers[k], arr, suc)]
<1>1. Evaluated(m, arr, suc) = f[n]
  BY Zenon DEF Evaluated
<1>2. f = [k \in 0 .. n |-> IF k = 0 THEN m ELSE OfTrigger(f[k - 1], pace.triggers[k], arr, suc)]
  <2>1. \E g : g = [k \in 0 .. n |->
                    IF k = 0 THEN m ELSE OfTrigger(g[k - 1], pace.triggers[k], arr, suc)]
    <3>1. \E g : StagesTo(g, n, m, arr, suc)
      BY StagesExist
    <3>. QED
      BY <3>1, Zenon DEF StagesTo
  <2>. HIDE DEF n
  <2>. QED
    BY <2>1, Zenon
<1>. HIDE DEF f
<1>3. f[0] = m /\ \A k \in 1 .. n : f[k] = OfTrigger(f[k - 1], pace.triggers[k], arr, suc)
  <2>1. \A k \in 0 .. n : f[k] = IF k = 0 THEN m ELSE OfTrigger(f[k - 1], pace.triggers[k], arr, suc)
    BY <1>2, Zenon
  <2>. QED
    BY <2>1
<1>. QED
  BY <1>1, <1>3

LEMMA EvaluatedFacts ==
  ASSUME pace \in Paces, clock \in Nat, NEW m \in MailTypes, NEW arr \in Seq(ArrivalTypes),
         NEW suc \in Successes, Arrived(arr)
  PROVE  LET n == Evaluated(m, arr, suc) IN
         Grows(m, n) /\ KeptMail(n, arr, suc) /\ SettledMail(n, arr, suc.high)
<1>. DEFINE len == Len(pace.triggers)
<1>1. len \in Nat /\ DOMAIN pace.triggers = 1 .. len /\ \A k \in 1 .. len : pace.triggers[k] \in Triggers
  BY TriggersTyped
<1>2. PICK f : /\ Evaluated(m, arr, suc) = f[len] /\ f[0] = m
               /\ \A k \in 1 .. len : f[k] = OfTrigger(f[k - 1], pace.triggers[k], arr, suc)
  BY <1>1, EvaluatedStages
<1>. DEFINE Good(k) == /\ Grows(m, f[k])
                       /\ \A j \in 1 .. k : pace.triggers[j].at /\ Deadlines(arr, suc) # {}
                                            => f[k].state # "none"
            Bad == {k \in 0 .. len : ~Good(k)}
<1>3. \A k \in 1 .. len : Good(k - 1) => Good(k)
  <2>. SUFFICES ASSUME NEW k \in 1 .. len, Good(k - 1) PROVE Good(k)
    OBVIOUS
  <2>1. f[k - 1] \in MailTypes /\ pace.triggers[k] \in Triggers /\ Grows(m, f[k - 1])
    BY <1>1 DEF Grows
  <2>2. /\ Grows(f[k - 1], f[k])
        /\ pace.triggers[k].at => \A d \in Deadlines(arr, suc) : f[k].state # "none"
    BY <1>2, <2>1, TriggerFacts
  <2>3. \A j \in 1 .. k - 1 : pace.triggers[j].at /\ Deadlines(arr, suc) # {} => f[k].state # "none"
    BY <2>2 DEF Grows
  <2>4. \A j \in 1 .. k : j = k \/ j \in 1 .. k - 1
    BY <1>1
  <2>5. Grows(m, f[k])
    BY <2>1, <2>2, GrowsFacts
  <2>. QED
    BY <2>2, <2>3, <2>4, <2>5
<1>4. Good(0)
  BY <1>2, GrowsFacts
<1>5. Good(len)
  <2>. HIDE DEF Good
  <2>0. len \in 0 .. len
    BY <1>1
  <2>. SUFFICES ASSUME Bad # {} PROVE FALSE
    BY <2>0
  <2>1. Bad \subseteq Nat
    BY <1>1
  <2>2. PICK l \in Bad : \A j \in Bad : ~ (<<j, l>> \in OpToRel(<, Nat))
    BY <2>1, NatLessThanWellFounded, WFMin, Zenon
  <2>3. l # 0 /\ l \in 0 .. len /\ ~Good(l)
    BY <1>4
  <2>4. l - 1 \in 0 .. len /\ l - 1 < l /\ l \in Nat /\ l - 1 \in Nat /\ l \in 1 .. len
    BY <1>1, <2>3
  <2>5. l - 1 \notin Bad
    BY <2>2, <2>4 DEF OpToRel
  <2>. QED
    BY <1>3, <2>3, <2>4, <2>5
<1>. DEFINE n == f[len]
<1>6. Grows(m, n) /\ n \in MailTypes
      /\ \A j \in 1 .. len : pace.triggers[j].at /\ Deadlines(arr, suc) # {} => n.state # "none"
  BY <1>5 DEF Grows
<1>7. ASSUME Alone
      PROVE  /\ Only.at => \A d \in Deadlines(arr, suc) :
                  n.after <= clock \/ n.after <= d \/ n.after <= suc.at + Only.cooldown
             /\ Only.quiet > 0 /\ Pending(arr, suc.high) # {} /\ n.reasons \subseteq {"quiet", "successor"}
                => n.after >= clock + Only.quiet
  <2>1. len = 1 /\ Only \in Triggers
    BY <1>7, TriggersTyped DEF Alone
  <2>2. n = OfTrigger(m, Only, arr, suc)
    BY <1>2, <2>1 DEF Only
  <2>. HIDE DEF n
  <2>. QED
    BY <2>1, <2>2, TriggerFacts
<1>. HIDE DEF n
<1>8. KeptMail(n, arr, suc)
  BY <1>1, <1>6, <1>7, TriggersTyped DEF KeptMail, Only
<1>9. SettledMail(n, arr, suc.high)
  <2>. SUFFICES ASSUME Alone, Only.quiet > 0, n.reasons \subseteq {"quiet", "successor"},
                       NEW i \in Pending(arr, suc.high)
                PROVE  n.after >= arr[i].at + Only.quiet
    BY DEF SettledMail
  <2>1. i \in DOMAIN arr /\ arr[i] \in ArrivalTypes
    BY DEF Pending
  <2>2. arr[i].at \in Nat /\ arr[i].at <= clock /\ Only.quiet \in Nat /\ n.after \in Nat
    BY <1>6, <2>1, TriggersTyped DEF ArrivalTypes, Arrived, Triggers, MailTypes
  <2>3. n.after >= clock + Only.quiet
    BY <1>7
  <2>. QED
    BY <2>2, <2>3
<1>. QED
  BY <1>2, <1>6, <1>8, <1>9 DEF n

-----------------------------------------------------------------------------
(* Steps.                                                                  *)

\* No more than a change of the mailbox.
LEMMA CoalesceKeeps ==
  ASSUME TriggerClockInv, NEW s \in Stimuli, ~s.extend, s.reason \notin {"quiet", "successor"},
         Alone => s.after <= clock \/ s.after <= success.at + Only.cooldown
  PROVE  LET n == Coalesced(mail, s) IN
         n \in MailTypes /\ KeptMail(n, arrivals, success) /\ SettledMail(n, arrivals, success.high)
<1>. DEFINE n == Coalesced(mail, s)
<1>1. mail \in MailTypes /\ pace \in Paces /\ s.after \in Nat /\ KeptMail(mail, arrivals, success)
      /\ clock \in Nat /\ success.at \in Nat /\ Len(pace.triggers) \in Nat
  BY TriggersTyped DEF TriggerClockInv, TriggerClockTypes, Stimuli
<1>2. /\ Grows(mail, n) /\ n \in MailTypes /\ n.after \in Nat
      /\ n.after <= s.after
      /\ s.reason \in n.reasons
      /\ n.state # "none"
  BY <1>1, CoalescedFacts DEF Grows, MailTypes
<1>. HIDE DEF n
<1>3. SettledMail(n, arrivals, success.high)
  BY <1>2 DEF SettledMail
<1>4. KeptMail(n, arrivals, success)
  <2>. SUFFICES ASSUME NEW k \in DOMAIN pace.triggers, Alone
                PROVE  n.after <= clock \/ n.after <= success.at + pace.triggers[k].cooldown
    BY <1>2 DEF KeptMail
  <2>1. k = 1 /\ pace.triggers[k] = Only /\ Only.cooldown \in Nat
    BY <1>1, TriggersTyped DEF Only, Triggers
  <2>. QED
    BY <1>1, <1>2, <2>1
<1>. QED
  BY <1>2, <1>3, <1>4 DEF n

LEMMA InitTriggerClock == TriggerClockInit => TriggerClockInv
<1>. SUFFICES ASSUME TriggerClockInit PROVE TriggerClockInv
  OBVIOUS
<1>. USE DEF TriggerClockInit
<1>1. NoMail \in MailTypes
  BY DEF NoMail, MailTypes
<1>2. TriggerClockTypes
  BY <1>1 DEF TriggerClockTypes
<1>. QED
  BY <1>2 DEF TriggerClockInv, Arrived, SettledMail, KeptMail, NoMail, Deadlines

\* A step that evaluates the triggers.
LEMMA EvaluationStep ==
  ASSUME TriggerClockInv, NEW m \in MailTypes, UNCHANGED <<pace, clock>>,
         arrivals' \in Seq(ArrivalTypes), Arrived(arrivals'), success' \in Successes,
         through' \in Nat, mail' = Evaluated(m, arrivals', success')
  PROVE  TriggerClockInv'
<1>1. pace \in Paces /\ clock \in Nat
  BY DEF TriggerClockInv, TriggerClockTypes
<1>2. Grows(m, mail') /\ KeptMail(mail', arrivals', success') /\ SettledMail(mail', arrivals', success'.high)
  BY <1>1, EvaluatedFacts
<1>3. TriggerClockTypes'
  BY <1>1, <1>2 DEF TriggerClockTypes, Grows, Successes
<1>4. KeptMail(mail, arrivals, success)' /\ SettledMail(mail, arrivals, success.high)'
  BY <1>2 DEF KeptMail, SettledMail, Alone, Only, Deadlines, Pending
<1>. QED
  BY <1>3, <1>4 DEF TriggerClockInv, Arrived

LEMMA StepTriggerClock == TriggerClockInv /\ [TriggerClockNext]_triggerClockVars => TriggerClockInv'
<1>. SUFFICES ASSUME TriggerClockInv, [TriggerClockNext]_triggerClockVars PROVE TriggerClockInv'
  OBVIOUS
<1>1. /\ pace \in Paces /\ clock \in Nat /\ arrivals \in Seq(ArrivalTypes) /\ mail \in MailTypes
      /\ success \in Successes /\ through \in Nat /\ Arrived(arrivals)
      /\ KeptMail(mail, arrivals, success) /\ SettledMail(mail, arrivals, success.high)
  BY DEF TriggerClockInv, TriggerClockTypes, Successes
<1>2. ASSUME NEW kind \in {"driver", "dated"}, NEW d \in Nat, Arrive(kind, d) PROVE TriggerClockInv'
  <2>. DEFINE arrival == [kind |-> kind, deadline |-> d, at |-> clock]
  <2>1. arrival \in ArrivalTypes /\ arrival.at = clock
    BY <1>1 DEF ArrivalTypes
  <2>2. arrivals' = Append(arrivals, arrival) /\ UNCHANGED <<pace, clock, success, through>>
        /\ mail' = Evaluated(mail, arrivals', success)
    BY <1>2 DEF Arrive
  <2>. HIDE DEF arrival
  <2>3. arrivals' \in Seq(ArrivalTypes)
    BY <1>1, <2>1, <2>2
  <2>4. \A i \in DOMAIN arrivals' : arrivals'[i] = arrival \/ (i \in DOMAIN arrivals /\ arrivals'[i] = arrivals[i])
    <3>1. Len(arrivals) \in Nat /\ DOMAIN arrivals = 1 .. Len(arrivals)
          /\ DOMAIN arrivals' = 1 .. Len(arrivals) + 1
      BY <1>1, <2>1, <2>2
    <3>. SUFFICES ASSUME NEW i \in DOMAIN arrivals'
                  PROVE  arrivals'[i] = arrival \/ (i \in DOMAIN arrivals /\ arrivals'[i] = arrivals[i])
      OBVIOUS
    <3>2. CASE i = Len(arrivals) + 1
      <4>1. arrivals'[Len(arrivals) + 1] = arrival
        BY <1>1, <2>1, <2>2
      <4>. QED
        BY <3>2, <4>1
    <3>3. CASE i # Len(arrivals) + 1
      <4>1. i \in 1 .. Len(arrivals)
        BY <3>1, <3>3
      <4>. QED
        BY <1>1, <2>2, <3>1, <4>1
    <3>. QED
      BY <3>2, <3>3
  <2>5. Arrived(arrivals')
    BY <1>1, <2>1, <2>4 DEF Arrived
  <2>. QED
    BY <1>1, <2>2, <2>3, <2>5, EvaluationStep
<1>3. CASE Elsewhere
  BY <1>1, <1>3, EvaluationStep DEF Elsewhere
<1>4. CASE Tick
  <2>1. clock' = clock + 1 /\ UNCHANGED <<pace, arrivals, mail, success, through>>
    BY <1>4 DEF Tick
  <2>2. TriggerClockTypes' /\ SettledMail(mail, arrivals, success.high)'
    BY <1>1, <2>1 DEF TriggerClockTypes, Successes, SettledMail, Pending, Alone, Only
  <2>3. Arrived(arrivals)'
    <3>1. \A i \in DOMAIN arrivals : arrivals[i] \in ArrivalTypes
      BY <1>1
    <3>. QED
      BY <1>1, <2>1, <3>1 DEF Arrived, ArrivalTypes
  <2>4. KeptMail(mail, arrivals, success)'
    <3>1. mail.after \in Nat /\ (mail.after <= clock => mail.after <= clock')
      BY <1>1, <2>1 DEF MailTypes
    <3>2. UNCHANGED <<Alone, Deadlines(arrivals, success)>>
      BY <2>1 DEF Alone, Deadlines
    <3>. SUFFICES ASSUME NEW k \in DOMAIN pace'.triggers, pace'.triggers[k].at,
                         NEW d \in Deadlines(arrivals, success)'
                  PROVE  /\ mail'.state # "none"
                         /\ Alone' /\ mail'.state = "waiting" /\ ~mail'.retried
                            => \/ mail'.after <= clock' \/ mail'.after <= d
                               \/ mail'.after <= success'.at + pace'.triggers[k].cooldown
      BY DEF KeptMail
    <3>. QED
      BY <1>1, <2>1, <3>1, <3>2 DEF KeptMail
  <2>. QED
    BY <2>2, <2>3, <2>4 DEF TriggerClockInv
<1>5. ASSUME NEW reason \in {"manual", "cron", "read"}, Request(reason) PROVE TriggerClockInv'
  <2>1. PICK after : /\ after = IF reason = "manual" THEN clock
                                ELSE CooldownDue(pace.triggers[1], success)
                     /\ mail' = Coalesced(mail, Stimulus(reason, after, FALSE))
    BY <1>5 DEF Request
  <2>2. reason \in pace.pulls /\ UNCHANGED <<pace, clock, arrivals, success, through>>
    BY <1>5 DEF Request
  <2>3. reason # "manual" => 1 \in DOMAIN pace.triggers
    <3>1. reason # "manual" => pace.triggers # <<>>
      BY <1>1, <2>2
    <3>2. pace.triggers \in Seq(Triggers)
      BY <1>1 DEF Triggers
    <3>. HIDE DEF Triggers
    <3>. QED
      BY <3>1, <3>2
  <2>4. /\ after \in Nat
        /\ Alone => after <= clock \/ after <= success.at + Only.cooldown
    BY <1>1, <2>1, <2>3, TriggersTyped, DueFacts DEF Only
  <2>5. /\ Stimulus(reason, after, FALSE) \in Stimuli
        /\ Stimulus(reason, after, FALSE).after = after
        /\ Stimulus(reason, after, FALSE).reason = reason
        /\ ~Stimulus(reason, after, FALSE).extend
    <3>1. reason \in Reasons
      BY DEF Reasons
    <3>. QED
      BY <2>4, <3>1, StimulusTyped
  <2>6. mail' \in MailTypes /\ KeptMail(mail', arrivals, success) /\ SettledMail(mail', arrivals, success.high)
    BY <2>1, <2>4, <2>5, CoalesceKeeps
  <2>7. TriggerClockTypes'
    BY <1>1, <2>2, <2>6 DEF TriggerClockTypes, Successes
  <2>. QED
    BY <1>1, <2>2, <2>6, <2>7
       DEF TriggerClockInv, KeptMail, SettledMail, Alone, Only, Deadlines, Pending, Arrived
<1>6. CASE StartRun
  <2>1. /\ mail' = [mail EXCEPT !.state = "running"] /\ mail.state = "waiting"
        /\ UNCHANGED <<pace, clock, arrivals, success>>
    BY <1>6 DEF StartRun
  <2>2. mail' \in MailTypes /\ mail'.state = "running"
    BY <1>1, <2>1 DEF MailTypes
  <2>3. through' \in Nat
    <3>1. Pending(arrivals, success.high) \subseteq Nat /\ success.high \in Nat
      BY <1>1 DEF Pending, Successes
    <3>. QED
      BY <1>6, <3>1 DEF StartRun
  <2>4. TriggerClockTypes'
    BY <1>1, <2>1, <2>2, <2>3 DEF TriggerClockTypes, Successes
  <2>5. KeptMail(mail, arrivals, success)' /\ SettledMail(mail, arrivals, success.high)'
    BY <2>1, <2>2 DEF KeptMail, SettledMail
  <2>. QED
    BY <1>1, <2>1, <2>4, <2>5 DEF TriggerClockInv, Arrived
<1>7. CASE CommitRunAt
  <2>1. /\ success' = [at |-> clock, high |-> through] /\ mail' = AfterCommit(success')
        /\ UNCHANGED <<pace, clock, arrivals, through>>
    BY <1>7 DEF CommitRunAt
  <2>2. success' \in Successes
    BY <1>1, <2>1 DEF Successes
  <2>. DEFINE m == WithSuccessor(NoMail, success'.high)
  <2>3. m \in MailTypes
    <3>1. NoMail \in MailTypes
      BY DEF NoMail, MailTypes
    <3>2. Stimulus("successor", clock, FALSE) \in Stimuli
      <4>1. "successor" \in Reasons
        BY DEF Reasons
      <4>. QED
        BY <1>1, <4>1, StimulusTyped
    <3>3. Coalesced(NoMail, Stimulus("successor", clock, FALSE)) \in MailTypes
      BY <3>1, <3>2, CoalescedFacts DEF Grows
    <3>. QED
      BY <3>1, <3>3 DEF WithSuccessor
  <2>4. mail' = Evaluated(m, arrivals', success')
    BY <2>1 DEF AfterCommit
  <2>. HIDE DEF m
  <2>. QED
    BY <1>1, <2>1, <2>2, <2>3, <2>4, EvaluationStep
<1>8. CASE FailRun
  <2>1. UNCHANGED <<pace, clock, arrivals, success, through>>
    BY <1>8 DEF FailRun
  <2>2. /\ mail' \in MailTypes
        /\ mail'.state = "dead" \/ (mail'.state = "waiting" /\ mail'.retried)
    <3>1. CASE mail' = [mail EXCEPT !.state = "waiting", !.after = clock + 1, !.retried = TRUE]
      <4>1. mail' = [state |-> "waiting", after |-> clock + 1, reasons |-> mail.reasons,
                     retried |-> TRUE, promised |-> mail.promised]
        BY <1>1, <3>1 DEF MailTypes
      <4>2. clock + 1 \in Nat /\ mail.reasons \in SUBSET Reasons /\ mail.promised \in Nat
        BY <1>1 DEF MailTypes
      <4>3. [state |-> "waiting", after |-> clock + 1, reasons |-> mail.reasons,
             retried |-> TRUE, promised |-> mail.promised] \in MailTypes
        BY <4>2, FlagsTyped, MailTyped, Zenon
      <4>. QED
        BY <4>1, <4>3
    <3>2. CASE mail' = [NoMail EXCEPT !.state = "dead"]
      <4>1. mail' = [state |-> "dead", after |-> 0, reasons |-> {}, retried |-> FALSE,
                     promised |-> MaxTime + 1]
        BY <3>2 DEF NoMail
      <4>. QED
        BY <4>1 DEF MailTypes
    <3>. QED
      BY <1>8, <3>1, <3>2 DEF FailRun
  <2>3. TriggerClockTypes'
    BY <1>1, <2>1, <2>2 DEF TriggerClockTypes, Successes
  <2>4. KeptMail(mail, arrivals, success)' /\ SettledMail(mail, arrivals, success.high)'
    BY <2>1, <2>2 DEF KeptMail, SettledMail
  <2>. QED
    BY <1>1, <2>1, <2>3, <2>4 DEF TriggerClockInv, Arrived
<1>9. CASE UNCHANGED triggerClockVars
  BY <1>9 DEF triggerClockVars, TriggerClockInv, TriggerClockTypes, Arrived, KeptMail, SettledMail,
              Alone, Only, Deadlines, Pending
<1>. QED
  BY <1>2, <1>3, <1>4, <1>5, <1>6, <1>7, <1>8, <1>9 DEF TriggerClockNext

-----------------------------------------------------------------------------
(* Theorems.                                                               *)

\* The inductive invariant holds in every reachable state.
THEOREM ClockInvariance == TriggerClockSpec => []TriggerClockInv
  BY InitTriggerClock, StepTriggerClock, PTL DEF TriggerClockSpec

\* DeadlineKept: a deadline that no success has reached has a job, or one that
\* died; with one trigger it is due by then, cooldown and retries apart, for every pace, clock and order of arrivals
\* (triggers.py, evaluate_triggers; mailbox.py, the upsert that keeps the sooner).
THEOREM DeadlinesAreKept == TriggerClockSpec => []DeadlineKept
<1>1. TriggerClockInv => DeadlineKept
  <2>. SUFFICES ASSUME TriggerClockInv, NEW k \in DOMAIN pace.triggers, NEW d \in Unreached,
                       pace.triggers[k].at
                PROVE  /\ mail.state # "none"
                       /\ Alone /\ Rests => \/ mail.after <= Later(d, success.at + pace.triggers[k].cooldown)
                                            \/ mail.after <= clock
    BY DEF DeadlineKept
  <2>1. /\ arrivals \in Seq(ArrivalTypes) /\ success \in Successes /\ mail \in MailTypes
        /\ pace.triggers[k] \in Triggers /\ clock \in Nat
    BY TriggersTyped DEF TriggerClockInv, TriggerClockTypes, Successes
  <2>2. d \in Deadlines(arrivals, success) /\ d \in Nat
    <3>1. PICK i \in DOMAIN arrivals : arrivals[i].kind = "dated" /\ arrivals[i].deadline = d
      BY DEF Unreached
    <3>2. d \in Nat /\ success.at \in Nat /\ d \notin 0 .. success.at
      <4>1. arrivals[i] \in ArrivalTypes /\ d \notin 0 .. success.at
        BY <2>1 DEF Unreached
      <4>. QED
        BY <2>1, <3>1, <4>1 DEF ArrivalTypes, Successes
    <3>. QED
      BY <3>1, <3>2 DEF Deadlines
  <2>3. mail.after \in Nat /\ success.at + pace.triggers[k].cooldown \in Nat
    BY <2>1 DEF MailTypes, Successes, Triggers
  <2>. QED
    BY <2>1, <2>2, <2>3, LaterFacts DEF TriggerClockInv, KeptMail, Rests
<1>. QED
  BY <1>1, ClockInvariance, PTL

\* RunsWhenSettled: a run that only a settle window has asked for starts when
\* the window has passed since each of the changes it finds, where the pipeline has
\* one trigger and the run is not a retry (triggers.py).
THEOREM SettledRunsStart == TriggerClockSpec => RunsWhenSettled
<1>. DEFINE Settled == Starts /\ ~mail.retried /\ Alone /\ mail.reasons \subseteq {"quiet", "successor"}
                => \A i \in Pending(arrivals, success.high) : clock >= arrivals[i].at + Only.quiet
<1>1. ASSUME TriggerClockInv, [TriggerClockNext]_triggerClockVars, Starts PROVE StartRun
  <2>1. /\ pace \in Paces /\ clock \in Nat /\ arrivals \in Seq(ArrivalTypes) /\ mail \in MailTypes
        /\ success \in Successes /\ Arrived(arrivals)
        /\ mail.state = "waiting" /\ mail'.state = "running"
    BY <1>1 DEF TriggerClockInv, TriggerClockTypes, Successes, Starts
  <2>2. ASSUME NEW arr \in Seq(ArrivalTypes), Arrived(arr) PROVE mail' # Evaluated(mail, arr, success)
    BY <2>1, <2>2, EvaluatedFacts DEF Grows
  <2>3. ASSUME NEW kind \in {"driver", "dated"}, NEW d \in Nat PROVE ~Arrive(kind, d)
    <3>. DEFINE arrival == [kind |-> kind, deadline |-> d, at |-> clock]
    <3>1. arrival \in ArrivalTypes /\ arrival.at = clock
      BY <2>1 DEF ArrivalTypes
    <3>2. ASSUME Arrive(kind, d) PROVE arrivals' = Append(arrivals, arrival)
      BY <3>2 DEF Arrive
    <3>. HIDE DEF arrival
    <3>3. Append(arrivals, arrival) \in Seq(ArrivalTypes) /\ Arrived(Append(arrivals, arrival))
      BY <2>1, <3>1 DEF Arrived
    <3>. QED
      BY <2>2, <3>2, <3>3 DEF Arrive
  <2>4. ~Elsewhere
    BY <2>1, <2>2 DEF Elsewhere
  <2>5. ASSUME NEW reason \in {"manual", "cron", "read"} PROVE ~Request(reason)
    BY <2>1 DEF Request, Coalesced, MailTypes
  <2>6. ~Tick /\ ~CommitRunAt /\ ~FailRun /\ ~UNCHANGED triggerClockVars
    BY <2>1 DEF Tick, CommitRunAt, FailRun, triggerClockVars
  <2>. QED
    BY <1>1, <2>3, <2>4, <2>5, <2>6 DEF TriggerClockNext
<1>2. TriggerClockInv /\ [TriggerClockNext]_triggerClockVars => Settled
  <2>. SUFFICES ASSUME TriggerClockInv, StartRun, ~mail.retried, Alone,
                       mail.reasons \subseteq {"quiet", "successor"},
                       NEW i \in Pending(arrivals, success.high)
                PROVE  clock >= arrivals[i].at + Only.quiet
    BY <1>1
  <2>1. /\ mail.state = "waiting" /\ mail.after <= clock /\ mail.after \in Nat /\ clock \in Nat
        /\ i \in DOMAIN arrivals /\ arrivals[i] \in ArrivalTypes /\ Only \in Triggers
    BY TriggersTyped DEF StartRun, TriggerClockInv, TriggerClockTypes, Pending, MailTypes
  <2>2. arrivals[i].at \in Nat /\ arrivals[i].at <= clock /\ Only.quiet \in Nat
    BY <2>1 DEF ArrivalTypes, Triggers, TriggerClockInv, Arrived
  <2>3. Only.quiet > 0 => mail.after >= arrivals[i].at + Only.quiet
    BY <2>1 DEF TriggerClockInv, SettledMail
  <2>. QED
    BY <2>1, <2>2, <2>3
<1>3. TriggerClockInv /\ [TriggerClockNext]_triggerClockVars => [Settled]_triggerClockVars
  BY <1>2
<1>. QED
  BY <1>3, ClockInvariance, PTL DEF RunsWhenSettled, TriggerClockSpec

HIDE TriggerClockAssumption
-----------------------------------------------------------------------------
(*****************************************************************************)
(* Scans are whole, for every number of triggers, hours and entities.        *)
(*                                                                           *)
(* A page inserts the first of what is left, in order, so that what a job    *)
(* still owes always lies beyond its cursor; and the last page leaves        *)
(* nothing there.                                                            *)
(*****************************************************************************)
CronScanTypes ==
    /\ plan \in Schedules
    /\ hour \in Nat
    /\ scans \subseteq Jobs
    /\ known \subseteq Entities /\ dirty \subseteq known
    /\ queued \subseteq Entities
    /\ owed \in [CronTriggers -> [1 .. LastHour -> SUBSET Entities]]

\* The page of a scan that is not done is its last one, and what is owed lies
\* beyond its cursor.
LastPage(s) ==
    s.state # "done" =>
        /\ s.state = "active" => s.attempts < plan.attempts
        /\ \A r \in scans : r.stamp = s.stamp =>
            r.trigger = s.trigger /\ (r = s \/ (r.state = "done" /\ r.cursor < s.cursor))
        /\ \A e \in owed[s.trigger][s.stamp] : e > s.cursor

\* What a scan is yet to find is there to be found.
OwedIsThere ==
    \A t \in CronTriggers, b \in 1 .. LastHour :
        owed[t][b] \subseteq IF plan.mode = "any" THEN known ELSE dirty

CronScanInv ==
    /\ CronScanTypes
    /\ OwedIsThere
    /\ \A s \in scans : LastPage(s)
    /\ WholeScan
-----------------------------------------------------------------------------
(* The first elements of a set of numbers.                                 *)

LEMMA Below ==
  ASSUME NEW n \in Nat, NEW S \in SUBSET (0 .. n)
  PROVE  /\ IsFiniteSet(S) /\ Cardinality(S) \in Nat
         /\ \A T \in SUBSET S : Cardinality(T) \in Nat /\ Cardinality(T) <= Cardinality(S)
                              /\ (T # S => Cardinality(T) < Cardinality(S))
<1>1. IsFiniteSet(0 .. n)
  BY FS_Interval
<1>2. IsFiniteSet(S)
  BY <1>1, FS_Subset
<1>3. \A T \in SUBSET S : IsFiniteSet(T) /\ Cardinality(T) <= Cardinality(S)
                           /\ (Cardinality(S) = Cardinality(T) => S = T)
  BY <1>2, FS_Subset
<1>4. \A T \in SUBSET S : Cardinality(T) \in Nat
  BY <1>3, FS_CardinalityType
<1>5. Cardinality(S) \in Nat
  BY <1>2, FS_CardinalityType
<1>. QED
  BY <1>2, <1>3, <1>4, <1>5

LEMMA FirstFacts ==
  ASSUME NEW n \in Nat, NEW S \in SUBSET (0 .. n), NEW k \in Nat
  PROVE  /\ FirstOf(S, k) \subseteq S
         /\ \A x \in FirstOf(S, k), y \in S : y < x => y \in FirstOf(S, k)
         /\ \A T \in SUBSET S : FirstOf(S, k) \cap T \subseteq FirstOf(T, k)
         /\ Cardinality(S) <= k => FirstOf(S, k) = S
         /\ S # {} /\ k > 0 => FirstOf(S, k) # {}
<1>. DEFINE Lower(x) == {c \in S : c < x}
<1>0. \A x : Lower(x) \in SUBSET S /\ Lower(x) \in SUBSET (0 .. n)
  OBVIOUS
<1>1. \A x : x \in FirstOf(S, k) <=> x \in S /\ Cardinality(Lower(x)) < k
  BY DEF FirstOf
<1>2. \A x : Cardinality(Lower(x)) \in Nat /\ Cardinality(Lower(x)) <= Cardinality(S)
  BY <1>0, Below
<1>. HIDE DEF Lower
<1>3. FirstOf(S, k) \subseteq S
  BY <1>1
<1>4. ASSUME NEW x \in FirstOf(S, k), NEW y \in S, y < x
      PROVE  y \in FirstOf(S, k)
  <2>1. x \in 0 .. n /\ y \in 0 .. n
    BY <1>3
  <2>2. Lower(y) \in SUBSET Lower(x)
    <3>. SUFFICES ASSUME NEW c \in S, c < y PROVE c < x
      BY DEF Lower
    <3>. QED
      BY <1>4, <2>1
  <2>3. Cardinality(Lower(y)) <= Cardinality(Lower(x))
    <3>. QED
      BY <1>0, <2>2, Below
  <2>. QED
    BY <1>1, <1>2, <2>3
<1>5. ASSUME NEW T \in SUBSET S, NEW x \in FirstOf(S, k), x \in T
      PROVE  x \in FirstOf(T, k)
  <2>. DEFINE low == {c \in T : c < x}
  <2>1. low \in SUBSET Lower(x)
    BY DEF Lower
  <2>2. Cardinality(low) \in Nat /\ Cardinality(low) <= Cardinality(Lower(x))
    <3>. HIDE DEF low
    <3>. QED
      BY <1>0, <2>1, Below
  <2>3. Cardinality(low) < k
    <3>. HIDE DEF low
    <3>. QED
      BY <1>1, <1>2, <1>5, <2>2
  <2>. QED
    BY <1>5, <2>3 DEF FirstOf
<1>6. ASSUME Cardinality(S) <= k, NEW x \in S
      PROVE  x \in FirstOf(S, k)
  <2>1. Lower(x) # S
    BY DEF Lower
  <2>2. Cardinality(S) \in Nat /\ Cardinality(Lower(x)) < Cardinality(S)
    <3>. QED
      BY <1>0, <2>1, Below
  <2>. QED
    BY <1>1, <1>2, <1>6, <2>2
<1>7. ASSUME S # {}, k > 0
      PROVE  FirstOf(S, k) # {}
  <2>0. S \subseteq Nat
    OBVIOUS
  <2>1. PICK m \in S : \A y \in S : ~ (<<y, m>> \in OpToRel(<, Nat))
    BY <1>7, <2>0, NatLessThanWellFounded, WFMin, Zenon
  <2>2. \A y \in S : ~ (y < m)
    BY <2>0, <2>1 DEF OpToRel
  <2>3. Lower(m) = {}
    BY <2>2 DEF Lower
  <2>4. Cardinality(Lower(m)) = 0
    BY <2>3, FS_EmptySet
  <2>. QED
    BY <1>1, <1>7, <2>4
<1>. QED
  BY <1>3, <1>4, <1>5, <1>6, <1>7

\* A row read ahead tells whether there is more.
LEMMA Lookahead ==
  ASSUME NEW n \in Nat, NEW S \in SUBSET (0 .. n), NEW k \in Nat,
         ~ (Cardinality(FirstOf(S, k + 1)) > k)
  PROVE  FirstOf(S, k + 1) = S /\ Cardinality(S) <= k
<1>. DEFINE first == FirstOf(S, k + 1)
<1>1. first \subseteq S /\ first \in SUBSET (0 .. n)
  <2>1. k + 1 \in Nat
    OBVIOUS
  <2>2. first \subseteq S
    BY <2>1, FirstFacts
  <2>. HIDE DEF first
  <2>. QED
    BY <2>2
<1>. HIDE DEF first
<1>2. Cardinality(first) \in Nat /\ Cardinality(first) <= k
  <2>1. Cardinality(first) \in Nat
    BY <1>1, Below
  <2>2. ~ (Cardinality(first) > k)
    BY DEF first
  <2>. QED
    BY <2>1, <2>2
<1>3. S \ first = {}
  <2>. SUFFICES ASSUME S \ first # {} PROVE FALSE
    OBVIOUS
  <2>0. S \ first \subseteq Nat
    BY <1>1
  <2>1. PICK m \in S \ first : \A y \in S \ first : ~ (<<y, m>> \in OpToRel(<, Nat))
    BY <2>0, NatLessThanWellFounded, WFMin, Zenon
  <2>2. \A y \in S \ first : ~ (y < m)
    BY <2>0, <2>1 DEF OpToRel
  <2>3. {c \in S : c < m} \in SUBSET first
    BY <2>2
  <2>4. Cardinality({c \in S : c < m}) \in Nat
        /\ Cardinality({c \in S : c < m}) <= Cardinality(first)
    BY <1>1, <2>3, Below
  <2>5. Cardinality({c \in S : c < m}) < k + 1
    BY <1>2, <2>4
  <2>6. m \in first
    BY <2>5 DEF first, FirstOf
  <2>. QED
    BY <2>6
<1>4. first = S
  BY <1>1, <1>3
<1>. QED
  BY <1>2, <1>4 DEF first

LEMMA MaxBounded ==
  ASSUME NEW n \in Nat, NEW S \in SUBSET (0 .. n), S # {}
  PROVE  Max(S) \in S /\ \A t \in S : t <= Max(S)
<1>. DEFINE T == {n - x : x \in S}
<1>1. T \subseteq Nat /\ T # {}
  <2>1. \A x \in S : x \in 0 .. n /\ n - x \in Nat
    OBVIOUS
  <2>2. T \subseteq Nat
    BY <2>1
  <2>3. PICK x \in S : TRUE
    OBVIOUS
  <2>4. n - x \in T
    BY <2>3
  <2>. QED
    BY <2>2, <2>4
<1>2. PICK m \in T : \A y \in T : ~ (<<y, m>> \in OpToRel(<, Nat))
  BY <1>1, NatLessThanWellFounded, WFMin, Zenon
<1>3. PICK x \in S : m = n - x
  BY <1>2
<1>4. \A t \in S : x >= t
  <2>. SUFFICES ASSUME NEW t \in S PROVE x >= t
    OBVIOUS
  <2>1. n - t \in T /\ n - t \in Nat /\ m \in Nat
    BY <1>1, <1>2
  <2>2. ~ (n - t < m)
    BY <1>2, <2>1 DEF OpToRel
  <2>. QED
    BY <1>3, <2>2
<1>. QED
  BY <1>4 DEF Max
-----------------------------------------------------------------------------
(* What the scheduler inserts, trigger by trigger.                         *)

LEMMA PlanTyped ==
  ASSUME plan \in Schedules
  PROVE  /\ LastHour \in Nat /\ Len(plan.buckets) \in Nat /\ CronTriggers = 1 .. Len(plan.buckets)
         /\ \A t \in CronTriggers : plan.buckets[t] \in SUBSET (1 .. LastHour)
         /\ plan.entities \in Nat /\ plan.page \in Nat /\ plan.page > 0
         /\ plan.attempts \in Nat /\ plan.attempts > 0 /\ plan.catchup \in Nat
<1>1. /\ plan.buckets \in Seq(SUBSET (1 .. LastHour)) /\ LastHour \in Nat
      /\ plan.entities \in Nat /\ plan.page \in Nat \ {0}
      /\ plan.attempts \in Nat \ {0} /\ plan.catchup \in Nat \ {0}
  BY CronScanAssumption
<1>2. /\ Len(plan.buckets) \in Nat /\ CronTriggers = 1 .. Len(plan.buckets)
      /\ \A t \in CronTriggers : plan.buckets[t] \in SUBSET (1 .. LastHour)
  BY <1>1 DEF CronTriggers
<1>. QED
  BY <1>1, <1>2

LEMMA BucketsTyped ==
  ASSUME plan \in Schedules, hour \in Nat, NEW sc, NEW t \in CronTriggers
  PROVE  Buckets(sc, t) \subseteq 1 .. LastHour
<1>. USE PlanTyped
<1>1. Due(t) \subseteq plan.buckets[t] /\ Due(t) \in SUBSET (0 .. LastHour)
  BY DEF Due
<1>2. CASE Due(t) # {}
  <2>1. Max(Due(t)) \in Due(t)
    BY <1>1, <1>2, MaxBounded
  <2>2. CASE Stamps(sc, t) = {}
    BY <1>1, <1>2, <2>1, <2>2 DEF Buckets
  <2>3. CASE Stamps(sc, t) # {}
    <3>. DEFINE later == {b \in Due(t) : b > Max(Stamps(sc, t))}
    <3>1. later \in SUBSET (0 .. LastHour) /\ later \subseteq plan.buckets[t]
      BY <1>1
    <3>2. Buckets(sc, t) = FirstOf(later, plan.catchup)
      BY <1>2, <2>3 DEF Buckets
    <3>. HIDE DEF later
    <3>3. FirstOf(later, plan.catchup) \subseteq later
      BY <3>1, FirstFacts
    <3>. QED
      BY <3>1, <3>2, <3>3
  <2>. QED
    BY <2>2, <2>3
<1>3. CASE Due(t) = {}
  BY <1>3 DEF Buckets
<1>. QED
  BY <1>2, <1>3

Fresh(s) == s.cursor = 0 /\ s.state = "active" /\ s.attempts = 0

\* A set of jobs that only adds scans, each alone with its stamp.
Adds(sc) ==
    /\ scans \subseteq sc /\ sc \subseteq Jobs
    /\ \A s \in sc \ scans : Fresh(s) /\ \A r \in sc : r.stamp = s.stamp => r = s

LEMMA InsertedAdds ==
  ASSUME plan \in Schedules, hour \in Nat, NEW sc, Adds(sc), NEW t \in CronTriggers
  PROVE  Adds(Inserted(sc, t))
<1>. DEFINE job(b) == [trigger |-> t, stamp |-> b, cursor |-> 0, state |-> "active", attempts |-> 0]
            new == {k \in Buckets(sc, t) : \A s \in sc : s.stamp # k}
<1>1. Inserted(sc, t) = sc \cup {job(b) : b \in new}
  BY DEF Inserted
<1>2. \A b \in new : job(b) \in Jobs /\ Fresh(job(b)) /\ job(b).stamp = b
  <2>1. \A b \in new : b \in 1 .. LastHour
    BY BucketsTyped
  <2>2. 0 \in 0 .. plan.entities /\ 0 \in 0 .. plan.attempts
    BY PlanTyped
  <2>. QED
    BY <2>1, <2>2 DEF Jobs, Fresh
<1>3. \A b \in new : \A r \in sc : r.stamp # b
  OBVIOUS
<1>. HIDE DEF job, new
<1>. QED
  BY <1>1, <1>2, <1>3 DEF Adds

\* The stages of one scheduling up to the n-th trigger.
InsertsTo(f, n) ==
    f = [t \in 0 .. n |-> IF t = 0 THEN scans ELSE Inserted(f[t - 1], t)]

LEMMA InsertsExist ==
  ASSUME NEW n \in Nat
  PROVE  \E f : InsertsTo(f, n)
<1>. DEFINE Bad == {l \in Nat : ~ \E f : InsertsTo(f, l)}
<1>. SUFFICES ASSUME Bad # {} PROVE FALSE
  OBVIOUS
<1>1. PICK l \in Bad : \A j \in Bad : ~ (<<j, l>> \in OpToRel(<, Nat))
  BY NatLessThanWellFounded, WFMin, Zenon
<1>2. \A j \in Bad : ~ (j < l)
  BY <1>1 DEF OpToRel
<1>3. CASE l = 0
  <2>. DEFINE g == [t \in 0 .. 0 |-> scans]
  <2>1. InsertsTo(g, 0)
    BY DEF InsertsTo
  <2>. QED
    BY <1>3, <2>1
<1>4. CASE l # 0
  <2>1. l \in Nat /\ l - 1 \in Nat /\ l - 1 < l
    BY <1>4
  <2>2. PICK f : InsertsTo(f, l - 1)
    BY <1>2, <2>1
  <2>. DEFINE g == [t \in 0 .. l |-> IF t = l THEN Inserted(f[l - 1], l) ELSE f[t]]
  <2>3. \A t \in 0 .. l : g[t] = IF t = 0 THEN scans ELSE Inserted(g[t - 1], t)
    <3>. SUFFICES ASSUME NEW t \in 0 .. l
                  PROVE  g[t] = IF t = 0 THEN scans ELSE Inserted(g[t - 1], t)
      OBVIOUS
    <3>1. \A j \in 0 .. l - 1 : g[j] = f[j]
      BY <2>1
    <3>2. CASE t = l
      <4>1. g[t - 1] = f[l - 1]
        BY <2>1, <3>1, <3>2
      <4>. QED
        BY <1>4, <3>2, <4>1
    <3>3. CASE t # l
      <4>1. t \in 0 .. l - 1 /\ (t # 0 => t - 1 \in 0 .. l - 1)
        BY <2>1, <3>3
      <4>2. g[t] = f[t] /\ (t # 0 => g[t - 1] = f[t - 1])
        BY <3>1, <4>1
      <4>3. f[t] = IF t = 0 THEN scans ELSE Inserted(f[t - 1], t)
        BY <2>2, <4>1 DEF InsertsTo
      <4>. QED
        BY <4>2, <4>3
    <3>. QED
      BY <3>2, <3>3
  <2>4. InsertsTo(g, l)
    <3>1. g = [t \in 0 .. l |-> g[t]]
      OBVIOUS
    <3>. HIDE DEF g
    <3>. QED
      BY <2>3, <3>1, Zenon DEF InsertsTo
  <2>. QED
    BY <2>4
<1>. QED
  BY <1>3, <1>4

LEMMA AllInsertedAdds ==
  ASSUME CronScanTypes
  PROVE  Adds(AllInserted)
<1>0. plan \in Schedules /\ hour \in Nat /\ Len(plan.buckets) \in Nat
      /\ CronTriggers = 1 .. Len(plan.buckets)
  BY PlanTyped DEF CronScanTypes
<1>. DEFINE n == Len(plan.buckets)
            f == CHOOSE g : InsertsTo(g, n)
<1>1. InsertsTo(f, n)
  BY <1>0, InsertsExist, Zenon
<1>2. AllInserted = f[n]
  BY Zenon DEF AllInserted, InsertsTo
<1>5. n \in Nat
  BY <1>0 DEF n
<1>. HIDE DEF f, n
<1>3. /\ f[0] = scans
      /\ \A t \in 1 .. n : f[t] = Inserted(f[t - 1], t)
  <2>1. \A t \in 0 .. n : f[t] = IF t = 0 THEN scans ELSE Inserted(f[t - 1], t)
    BY <1>1, Zenon DEF InsertsTo
  <2>2. 0 \in 0 .. n /\ \A t \in 1 .. n : t \in 0 .. n /\ t # 0
    BY <1>5
  <2>. QED
    BY <2>1, <2>2, Zenon
<1>4. Adds(scans)
  BY DEF Adds, CronScanTypes
<1>. DEFINE Bad == {t \in 0 .. n : ~ Adds(f[t])}
<1>6. Bad = {}
  <2>. SUFFICES ASSUME Bad # {} PROVE FALSE
    OBVIOUS
  <2>0. Bad \subseteq Nat
    OBVIOUS
  <2>1. PICK t \in Bad : \A j \in Bad : ~ (<<j, t>> \in OpToRel(<, Nat))
    BY <2>0, NatLessThanWellFounded, WFMin, Zenon
  <2>2. \A j \in Bad : ~ (j < t)
    BY <2>0, <2>1 DEF OpToRel
  <2>3. t # 0
    BY <1>3, <1>4
  <2>4. t \in 1 .. n /\ t - 1 \in 0 .. n /\ t - 1 < t
    BY <1>5, <2>3
  <2>5. Adds(f[t - 1])
    BY <2>2, <2>4
  <2>6. Adds(Inserted(f[t - 1], t))
    BY <1>0, <2>4, <2>5, InsertedAdds DEF n
  <2>. QED
    BY <1>3, <2>4, <2>6
<1>7. Adds(f[n])
  BY <1>5, <1>6
<1>. QED
  BY <1>2, <1>7 DEF n

-----------------------------------------------------------------------------
(* One page.                                                               *)

LEMMA JobTyped ==
  ASSUME CronScanTypes, NEW s \in scans
  PROVE  /\ s \in Jobs /\ s.trigger \in CronTriggers /\ s.stamp \in 1 .. LastHour
         /\ s.cursor \in 0 .. plan.entities /\ s.attempts \in 0 .. plan.attempts
         /\ owed[s.trigger][s.stamp] \subseteq Entities
  BY DEF CronScanTypes, Jobs

\* What a page does not enqueue of what is owed beyond its cursor lies beyond
\* its last row, and if there is no other page it leaves nothing.
LEMMA JobMade ==
  ASSUME NEW s \in Jobs, NEW c, NEW state, NEW a
  PROVE  /\ [s EXCEPT !.state = state, !.attempts = a] =
                [trigger |-> s.trigger, stamp |-> s.stamp, cursor |-> s.cursor, state |-> state,
                 attempts |-> a]
         /\ [s EXCEPT !.cursor = c, !.attempts = a] =
                [trigger |-> s.trigger, stamp |-> s.stamp, cursor |-> c, state |-> s.state,
                 attempts |-> a]
<1>. DEFINE one == [s EXCEPT !.state = state]
            two == [s EXCEPT !.cursor = c]
<1>0. DOMAIN s = {"trigger", "stamp", "cursor", "state", "attempts"}
  BY DEF Jobs
<1>1. one = [trigger |-> s.trigger, stamp |-> s.stamp, cursor |-> s.cursor, state |-> state,
             attempts |-> s.attempts]
  BY DEF Jobs
<1>2. two = [trigger |-> s.trigger, stamp |-> s.stamp, cursor |-> c, state |-> s.state,
             attempts |-> s.attempts]
  BY DEF Jobs
<1>3. [s EXCEPT !.state = state, !.attempts = a] = [one EXCEPT !.attempts = a]
  BY <1>0
<1>4. [s EXCEPT !.cursor = c, !.attempts = a] = [two EXCEPT !.attempts = a]
  BY <1>0
<1>. HIDE DEF one, two
<1>5. [one EXCEPT !.attempts = a] = [trigger |-> s.trigger, stamp |-> s.stamp,
            cursor |-> s.cursor, state |-> state, attempts |-> a]
  BY <1>1
<1>6. [two EXCEPT !.attempts = a] = [trigger |-> s.trigger, stamp |-> s.stamp,
            cursor |-> c, state |-> s.state, attempts |-> a]
  BY <1>2
<1>. QED
  BY <1>3, <1>4, <1>5, <1>6, Zenon

LEMMA PageFacts ==
  ASSUME CronScanTypes, NEW c \in 0 .. plan.entities,
         NEW O, O \subseteq IF plan.mode = "any" THEN known ELSE dirty, \A e \in O : e > c
  PROVE  /\ Selected(c) \subseteq known
         /\ ~HasMore(c) => O \ Selected(c) = {}
         /\ HasMore(c) => /\ PageCursor(c) \in 0 .. plan.entities /\ PageCursor(c) > c
                          /\ \A e \in O \ Selected(c) : e > PageCursor(c)
<1>. DEFINE n == plan.entities
            k == plan.page
            K == {e \in known : e > c}
            cand == Candidates(c)
            found == IF plan.mode = "any" THEN cand ELSE cand \cap dirty
<1>1. /\ n \in Nat /\ k \in Nat /\ k + 1 \in Nat /\ k > 0
      /\ known \subseteq 1 .. n /\ dirty \subseteq known /\ c \in 0 .. n
  BY PlanTyped DEF CronScanTypes, Entities
<1>3. cand = FirstOf(K, k + 1)
  BY DEF Candidates
<1>8. Selected(c) = FirstOf(found, k)
  BY DEF Selected
<1>0. PageCursor(c) = Max(FirstOf(cand, k)) /\ (HasMore(c) <=> Cardinality(cand) > k)
  BY DEF PageCursor, HasMore
<1>. HIDE DEF n, k
<1>2. K \in SUBSET (0 .. n) /\ K \subseteq known
  <2>1. 1 .. n \subseteq 0 .. n
    BY <1>1
  <2>2. K \subseteq known
    OBVIOUS
  <2>. HIDE DEF K
  <2>. QED
    BY <1>1, <2>1, <2>2
<1>4. O \subseteq K /\ (plan.mode # "any" => O \subseteq dirty)
  BY <1>1
<1>5. \A e \in K : e > c /\ e \in 0 .. n
  BY <1>2
<1>. HIDE DEF K, cand
<1>6. cand \subseteq K /\ cand \in SUBSET (0 .. n)
      /\ \A x \in cand, y \in K : y < x => y \in cand
  <2>1. n \in Nat /\ k + 1 \in Nat /\ K \in SUBSET (0 .. n)
    BY <1>1, <1>2
  <2>2. cand \subseteq K /\ \A x \in cand, y \in K : y < x => y \in cand
    BY <1>3, <2>1, FirstFacts
  <2>. QED
    BY <2>1, <2>2
<1>7. found \in SUBSET cand /\ found \in SUBSET (0 .. n) /\ cand \cap O \subseteq found
  BY <1>4, <1>6
<1>. HIDE DEF found
<1>9. Selected(c) \subseteq found
  <2>1. n \in Nat /\ k \in Nat /\ found \in SUBSET (0 .. n)
    BY <1>1, <1>7
  <2>2. FirstOf(found, k) \subseteq found
    BY <2>1, FirstFacts
  <2>. QED
    BY <1>8, <2>2
<1>10. ASSUME ~HasMore(c) PROVE O \ Selected(c) = {}
  <2>1. ~ (Cardinality(FirstOf(K, k + 1)) > k)
    BY <1>0, <1>3, <1>10
  <2>2. cand = K /\ Cardinality(cand) <= k
    BY <1>1, <1>2, <1>3, <2>1, Lookahead
  <2>3. /\ Cardinality(found) \in Nat /\ Cardinality(cand) \in Nat
        /\ Cardinality(found) <= Cardinality(cand)
    BY <1>1, <1>6, <1>7, Below
  <2>4. Cardinality(found) <= k
    BY <1>1, <2>2, <2>3
  <2>5. Selected(c) = found
    BY <1>1, <1>7, <1>8, <2>4, FirstFacts
  <2>. QED
    BY <1>4, <1>7, <2>2, <2>5
<1>11. ASSUME HasMore(c)
       PROVE  /\ PageCursor(c) \in 0 .. n /\ PageCursor(c) > c
              /\ \A e \in O \ Selected(c) : e > PageCursor(c)
  <2>. DEFINE page == FirstOf(cand, k)
  <2>1. cand # {}
    <3>1. Cardinality(cand) > k
      BY <1>0, <1>11
    <3>. QED
      BY <1>1, <3>1, FS_EmptySet
  <2>2. page # {} /\ page \subseteq cand
        /\ \A x \in page, y \in cand : y < x => y \in page
    BY <1>1, <1>6, <2>1, FirstFacts
  <2>3. page \cap found \subseteq Selected(c)
    <3>1. n \in Nat /\ k \in Nat /\ cand \in SUBSET (0 .. n) /\ found \in SUBSET cand
      BY <1>1, <1>6, <1>7
    <3>2. FirstOf(cand, k) \cap found \subseteq FirstOf(found, k)
      BY <3>1, FirstFacts
    <3>. QED
      BY <1>8, <3>2
  <2>4. PageCursor(c) = Max(page)
    BY <1>0
  <2>. HIDE DEF page
  <2>5. Max(page) \in page
    BY <1>1, <1>6, <2>2, MaxBounded
  <2>. DEFINE pc == PageCursor(c)
  <2>6. pc \in page /\ pc \in cand /\ pc \in 0 .. n /\ pc > c
    BY <1>5, <1>6, <2>2, <2>4, <2>5
  <2>. HIDE DEF pc
  <2>7. ASSUME NEW e \in O \ Selected(c) PROVE e > pc
    <3>1. e \in K /\ e \in 0 .. n
      BY <1>4, <1>5
    <3>2. CASE e < pc
      <4>1. e \in cand
        BY <1>6, <2>6, <3>1, <3>2
      <4>2. e \in page /\ e \in found
        BY <1>7, <2>2, <2>6, <3>2, <4>1
      <4>. QED
        BY <2>3, <4>2
    <3>3. CASE e = pc
      BY <1>7, <2>3, <2>6, <3>3
    <3>. QED
      BY <1>1, <2>6, <3>1, <3>2, <3>3
  <2>. QED
    BY <2>6, <2>7 DEF pc
<1>. QED
  BY <1>2, <1>6, <1>7, <1>9, <1>10, <1>11 DEF n

-----------------------------------------------------------------------------
(* The steps.                                                              *)

LEMMA InitHolds ==
  ASSUME CronScanInit PROVE CronScanInv
<1>1. CronScanTypes
  BY DEF CronScanInit, CronScanTypes
<1>2. \A t \in CronTriggers, b \in 1 .. LastHour : owed[t][b] = {}
  BY DEF CronScanInit
<1>3. WholeScan
  BY <1>2 DEF CronScanInit, WholeScan
<1>. QED
  BY <1>1, <1>2, <1>3 DEF CronScanInit, CronScanInv, OwedIsThere

\* Steps that leave the jobs alone, and what is owed too or lessen it.
LEMMA JobsStand ==
  ASSUME CronScanInv, scans' = scans, plan' = plan, CronScanTypes', OwedIsThere',
         \A t \in CronTriggers, b \in 1 .. LastHour : owed'[t][b] \subseteq owed[t][b]
  PROVE  CronScanInv'
<1>1. /\ CronTriggers' = CronTriggers /\ Jobs' = Jobs
      /\ \A t, b : Pages(t, b)' = Pages(t, b)
  BY DEF CronTriggers, Jobs, Pages
<1>2. ASSUME NEW s \in scans' PROVE LastPage(s)'
  <2>1. s \in scans /\ LastPage(s) /\ s.trigger \in CronTriggers /\ s.stamp \in 1 .. LastHour
    BY <1>2, JobTyped DEF CronScanInv
  <2>2. owed'[s.trigger][s.stamp] \subseteq owed[s.trigger][s.stamp]
    BY <2>1
  <2>. QED
    BY <2>1, <2>2 DEF LastPage
<1>3. WholeScan'
  BY <1>1 DEF CronScanInv, WholeScan
<1>. QED
  BY <1>2, <1>3 DEF CronScanInv

LEMMA ScheduleStep ==
  ASSUME CronScanInv, ScheduleCron
  PROVE  CronScanInv'
<1>. DEFINE all == AllInserted
            new(t) == Stamps(scans', t) \ Stamps(scans, t)
<1>1. Adds(all) /\ scans' = all
  BY AllInsertedAdds DEF CronScanInv, ScheduleCron
<1>. HIDE DEF all
<1>2. plan' = plan /\ CronTriggers' = CronTriggers /\ Jobs' = Jobs /\ Entities' = Entities
  BY DEF ScheduleCron, CronTriggers, Jobs, Entities
<1>3. /\ scans \subseteq scans' /\ scans' \subseteq Jobs
      /\ \A s \in scans' \ scans : Fresh(s) /\ \A r \in scans' : r.stamp = s.stamp => r = s
  BY <1>1 DEF Adds
<1>4. owed' = [t \in CronTriggers |-> [b \in 1 .. LastHour |->
                  IF b \in new(t) THEN IF plan.mode = "any" THEN known ELSE dirty
                  ELSE owed[t][b]]]
  BY DEF ScheduleCron
<1>. HIDE DEF new
<1>5. CronScanTypes
  BY DEF CronScanInv
<1>6. \A t \in CronTriggers, b \in 1 .. LastHour :
        /\ b \in new(t) => owed'[t][b] = IF plan.mode = "any" THEN known ELSE dirty
        /\ b \notin new(t) => owed'[t][b] = owed[t][b]
  BY <1>4
<1>7. CronScanTypes'
  <2>1. known \in SUBSET Entities /\ dirty \in SUBSET Entities
        /\ owed \in [CronTriggers -> [1 .. LastHour -> SUBSET Entities]]
    BY <1>5 DEF CronScanTypes
  <2>2. owed' \in [CronTriggers -> [1 .. LastHour -> SUBSET Entities]]
    BY <1>4, <2>1
  <2>. QED
    BY <1>2, <1>3, <1>5, <2>2 DEF CronScanTypes, ScheduleCron
<1>8. OwedIsThere'
  BY <1>2, <1>6 DEF CronScanInv, OwedIsThere, ScheduleCron
<1>9. ASSUME NEW s \in scans' PROVE LastPage(s)'
  <2>1. s.trigger \in CronTriggers /\ s.stamp \in 1 .. LastHour
    BY <1>3 DEF Jobs
  <2>2. CASE s \in scans
    <3>1. s.stamp \notin new(s.trigger)
      BY <2>2 DEF new, Stamps
    <3>2. owed'[s.trigger][s.stamp] = owed[s.trigger][s.stamp]
      BY <1>6, <2>1, <3>1
    <3>3. \A r \in scans' : r.stamp = s.stamp => r \in scans
      BY <1>3, <2>2
    <3>4. LastPage(s)
      BY <2>2 DEF CronScanInv
    <3>. QED
      BY <1>2, <3>2, <3>3, <3>4 DEF LastPage
  <2>3. CASE s \notin scans
    <3>1. Fresh(s) /\ \A r \in scans' : r.stamp = s.stamp => r = s
      BY <1>3, <2>3
    <3>2. plan.attempts \in Nat /\ plan.attempts > 0
      BY <1>5, PlanTyped DEF CronScanTypes
    <3>3. \A e \in owed'[s.trigger][s.stamp] : e > 0
      <4>1. owed'[s.trigger][s.stamp] \subseteq Entities
        BY <1>2, <1>7, <2>1 DEF CronScanTypes
      <4>2. plan.entities \in Nat
        BY <1>5, PlanTyped DEF CronScanTypes
      <4>. QED
        BY <4>1, <4>2 DEF Entities
    <3>. QED
      BY <1>2, <3>1, <3>2, <3>3 DEF Fresh, LastPage
  <2>. QED
    BY <2>2, <2>3
<1>10. WholeScan'
  <2>1. ASSUME NEW t \in CronTriggers, NEW b \in 1 .. LastHour,
               \A s \in Pages(t, b)' : s.state = "done"
        PROVE  owed'[t][b] = {}
    <3>1. b \notin new(t)
      <4>. SUFFICES ASSUME b \in new(t) PROVE FALSE
        OBVIOUS
      <4>1. PICK s \in scans' : s.trigger = t /\ s.stamp = b /\ s \notin scans
        BY DEF new, Stamps
      <4>2. s.state = "active"
        BY <1>3, <4>1 DEF Fresh
      <4>. QED
        BY <2>1, <4>1, <4>2 DEF Pages
    <3>2. \A s \in Pages(t, b) : s.state = "done"
      BY <1>3, <2>1 DEF Pages
    <3>3. owed[t][b] = {}
      BY <3>2 DEF CronScanInv, WholeScan
    <3>. QED
      BY <1>6, <3>1, <3>3
  <2>. QED
    BY <1>2, <1>3, <2>1 DEF WholeScan
<1>. QED
  BY <1>7, <1>8, <1>9, <1>10 DEF CronScanInv

LEMMA ScanPageStep ==
  ASSUME CronScanInv, NEW s \in scans, ScanPage(s)
  PROVE  CronScanInv'
<1>. DEFINE c == s.cursor
            done == [s EXCEPT !.state = "done", !.attempts = @ + 1]
            next == [s EXCEPT !.cursor = PageCursor(c), !.attempts = 0]
            left == owed[s.trigger][s.stamp] \ Selected(c)
<1>1. CronScanTypes /\ LastPage(s) /\ OwedIsThere
  BY DEF CronScanInv
<1>2. /\ s \in Jobs /\ s.trigger \in CronTriggers /\ s.stamp \in 1 .. LastHour
      /\ c \in 0 .. plan.entities /\ s.attempts \in 0 .. plan.attempts
      /\ owed[s.trigger][s.stamp] \subseteq Entities
  BY <1>1, JobTyped
<1>3. s.state = "active" /\ s.attempts < plan.attempts /\ plan.attempts \in Nat /\ plan.attempts > 0
      /\ plan.entities \in Nat
  BY <1>1, PlanTyped DEF ScanPage, CronScanTypes
<1>4. /\ \A r \in scans : r.stamp = s.stamp =>
            r.trigger = s.trigger /\ (r = s \/ (r.state = "done" /\ r.cursor < c))
      /\ \A e \in owed[s.trigger][s.stamp] : e > c
  BY <1>1, <1>3 DEF LastPage
<1>5. plan' = plan /\ known' = known /\ dirty' = dirty /\ hour' = hour
      /\ CronTriggers' = CronTriggers /\ Jobs' = Jobs /\ Entities' = Entities
  BY DEF ScanPage, CronTriggers, Jobs, Entities
<1>6. owed[s.trigger][s.stamp] \subseteq IF plan.mode = "any" THEN known ELSE dirty
  BY <1>1, <1>2 DEF OwedIsThere
<1>7. /\ Selected(c) \subseteq known
      /\ ~HasMore(c) => left = {}
      /\ HasMore(c) => /\ PageCursor(c) \in 0 .. plan.entities /\ PageCursor(c) > c
                       /\ \A e \in left : e > PageCursor(c)
  <2>. HIDE DEF c
  <2>. QED
    BY <1>1, <1>2, <1>4, <1>6, PageFacts
<1>8. done \in Jobs /\ done.trigger = s.trigger /\ done.stamp = s.stamp /\ done.cursor = c
      /\ done.state = "done"
  <2>1. s.attempts + 1 \in 0 .. plan.attempts
    BY <1>2, <1>3
  <2>2. done = [trigger |-> s.trigger, stamp |-> s.stamp, cursor |-> c, state |-> "done",
                attempts |-> s.attempts + 1]
    BY <1>2, JobMade, Zenon
  <2>. HIDE DEF done
  <2>. QED
    BY <1>2, <2>1, <2>2 DEF Jobs
<1>9. HasMore(c) => /\ next \in Jobs /\ next.trigger = s.trigger /\ next.stamp = s.stamp
                    /\ next.cursor = PageCursor(c) /\ next.state = "active" /\ next.attempts = 0
  <2>1. 0 \in 0 .. plan.attempts
    BY <1>3
  <2>2. next = [trigger |-> s.trigger, stamp |-> s.stamp, cursor |-> PageCursor(c), state |-> "active",
                attempts |-> 0]
    <3>1. next = [trigger |-> s.trigger, stamp |-> s.stamp, cursor |-> PageCursor(c),
                  state |-> s.state, attempts |-> 0]
      BY <1>2, JobMade, Zenon
    <3>. QED
      BY <1>3, <3>1, Zenon
  <2>. HIDE DEF next
  <2>. QED
    BY <1>2, <1>7, <2>1, <2>2 DEF Jobs
<1>10. NextPage(s) = IF HasMore(c) THEN {next} ELSE {}
  <2>1. CASE HasMore(c)
    <3>1. \A r \in scans : r.stamp # s.stamp \/ r.cursor # PageCursor(c)
      <4>. SUFFICES ASSUME NEW r \in scans, r.stamp = s.stamp PROVE r.cursor # PageCursor(c)
        OBVIOUS
      <4>1. r.cursor \in 0 .. plan.entities /\ (r = s \/ r.cursor < c)
        BY <1>1, <1>4, JobTyped
      <4>. QED
        BY <1>2, <1>3, <1>7, <2>1, <4>1
    <3>. QED
      BY <2>1, <3>1 DEF NextPage
  <2>2. CASE ~HasMore(c)
    BY <2>2 DEF NextPage
  <2>. QED
    BY <2>1, <2>2
<1>11. scans' = (scans \ {s}) \cup {done} \cup NextPage(s)
  BY DEF ScanPage
<1>12. owed' = [owed EXCEPT ![s.trigger][s.stamp] = left]
  BY DEF ScanPage
<1>. HIDE DEF c, done, next, left
<1>13. \A r \in scans' : \/ r \in scans /\ r # s
                         \/ r = done
                         \/ r = next /\ HasMore(c)
  BY <1>10, <1>11
<1>14. /\ owed'[s.trigger][s.stamp] = left
       /\ \A t \in CronTriggers, b \in 1 .. LastHour :
            t # s.trigger \/ b # s.stamp => owed'[t][b] = owed[t][b]
       /\ owed' \in [CronTriggers -> [1 .. LastHour -> SUBSET Entities]]
       /\ left \subseteq owed[s.trigger][s.stamp]
  <2>1. owed \in [CronTriggers -> [1 .. LastHour -> SUBSET Entities]]
    BY <1>1 DEF CronScanTypes
  <2>2. left \subseteq owed[s.trigger][s.stamp] /\ left \in SUBSET Entities
    BY <1>2 DEF left
  <2>. QED
    BY <1>2, <1>12, <2>1, <2>2
<1>15. CronScanTypes'
  <2>1. scans' \subseteq Jobs
    BY <1>1, <1>8, <1>9, <1>13 DEF CronScanTypes
  <2>2. queued' \subseteq Entities
    BY <1>1, <1>7 DEF CronScanTypes, ScanPage, c
  <2>. QED
    BY <1>1, <1>5, <1>14, <2>1, <2>2 DEF CronScanTypes
<1>16. OwedIsThere'
  BY <1>1, <1>2, <1>5, <1>14 DEF OwedIsThere
<1>17. ASSUME NEW q \in scans' PROVE LastPage(q)'
  <2>1. CASE q \in scans /\ q # s
    <3>1. LastPage(q) /\ q.trigger \in CronTriggers /\ q.stamp \in 1 .. LastHour
      BY <1>1, <2>1, JobTyped DEF CronScanInv
    <3>2. CASE q.stamp # s.stamp
      <4>1. \A r \in scans' : r.stamp = q.stamp => r \in scans
        BY <1>8, <1>9, <1>13, <3>2
      <4>2. owed'[q.trigger][q.stamp] = owed[q.trigger][q.stamp]
        BY <1>14, <3>1, <3>2
      <4>. QED
        BY <1>5, <3>1, <4>1, <4>2 DEF LastPage
    <3>3. CASE q.stamp = s.stamp
      BY <1>4, <2>1, <3>3 DEF LastPage
    <3>. QED
      BY <3>2, <3>3
  <2>2. CASE q = done
    BY <1>8, <2>2 DEF LastPage
  <2>3. CASE q = next /\ HasMore(c)
    <3>1. q.trigger = s.trigger /\ q.stamp = s.stamp /\ q.cursor = PageCursor(c) /\ q.attempts = 0
      BY <1>9, <2>3
    <3>2. ASSUME NEW r \in scans', r.stamp = q.stamp
          PROVE  r.trigger = q.trigger /\ (r = q \/ (r.state = "done" /\ r.cursor < q.cursor))
      <4>1. CASE r \in scans /\ r # s
        <5>1. r.trigger = s.trigger /\ r.state = "done" /\ r.cursor < c
          BY <1>4, <3>1, <3>2, <4>1
        <5>2. r.cursor \in 0 .. plan.entities
          BY <1>1, <4>1, JobTyped
        <5>. QED
          BY <1>2, <1>3, <1>7, <2>3, <3>1, <5>1, <5>2
      <4>2. CASE r = done
        BY <1>2, <1>3, <1>7, <1>8, <2>3, <3>1, <4>2
      <4>3. CASE r = next
        BY <2>3, <4>3
      <4>. QED
        BY <1>13, <4>1, <4>2, <4>3
    <3>3. \A e \in owed'[q.trigger][q.stamp] : e > q.cursor
      BY <1>7, <1>14, <2>3, <3>1
    <3>4. q.attempts < plan'.attempts
      BY <1>3, <1>5, <3>1
    <3>. QED
      BY <3>2, <3>3, <3>4 DEF LastPage
  <2>. QED
    BY <1>13, <2>1, <2>2, <2>3
<1>18. WholeScan'
  <2>1. ASSUME NEW t \in CronTriggers, NEW b \in 1 .. LastHour,
               \A r \in Pages(t, b)' : r.state = "done"
        PROVE  owed'[t][b] = {}
    <3>1. CASE t = s.trigger /\ b = s.stamp
      <4>1. ~HasMore(c)
        <5>. SUFFICES ASSUME HasMore(c) PROVE FALSE
          OBVIOUS
        <5>1. next \in Pages(t, b)'
          BY <1>9, <1>10, <1>11, <3>1 DEF Pages
        <5>. QED
          BY <1>9, <2>1, <5>1
      <4>. QED
        BY <1>7, <1>14, <3>1, <4>1
    <3>2. CASE t # s.trigger \/ b # s.stamp
      <4>1. \A r \in Pages(t, b) : r \in Pages(t, b)'
        BY <1>11, <3>2 DEF Pages
      <4>2. owed[t][b] = {}
        BY <2>1, <4>1 DEF CronScanInv, WholeScan
      <4>. QED
        BY <1>14, <3>2, <4>2
    <3>. QED
      BY <3>1, <3>2
  <2>2. scans' \subseteq Jobs'
    BY <1>15 DEF CronScanTypes
  <2>. QED
    BY <1>5, <2>1, <2>2 DEF WholeScan
<1>. QED
  BY <1>15, <1>16, <1>17, <1>18 DEF CronScanInv

LEMMA ScanFailsStep ==
  ASSUME CronScanInv, NEW s \in scans, ScanFails(s)
  PROVE  CronScanInv'
<1>. DEFINE new == [s EXCEPT !.attempts = @ + 1,
                             !.state = IF s.attempts + 1 >= plan.attempts THEN "dead" ELSE "active"]
<1>1. CronScanTypes /\ LastPage(s) /\ OwedIsThere
  BY DEF CronScanInv
<1>2. s.state = "active" /\ s.attempts < plan.attempts /\ plan.attempts \in Nat
      /\ s.attempts \in 0 .. plan.attempts /\ s \in Jobs
      /\ s.trigger \in CronTriggers /\ s.stamp \in 1 .. LastHour
  BY <1>1, JobTyped, PlanTyped DEF ScanFails, LastPage, CronScanTypes
<1>3. /\ new \in Jobs /\ new.trigger = s.trigger /\ new.stamp = s.stamp /\ new.cursor = s.cursor
      /\ new.state # "done" /\ (new.state = "active" => new.attempts < plan.attempts)
  <2>. DEFINE state == IF s.attempts + 1 >= plan.attempts THEN "dead" ELSE "active"
  <2>1. s.attempts + 1 \in 0 .. plan.attempts /\ state \in {"active", "done", "dead"} /\ state # "done"
        /\ (state = "active" => s.attempts + 1 < plan.attempts)
    BY <1>2
  <2>2. new = [trigger |-> s.trigger, stamp |-> s.stamp, cursor |-> s.cursor, state |-> state,
               attempts |-> s.attempts + 1]
    <3>1. new = [s EXCEPT !.state = state, !.attempts = s.attempts + 1]
      OBVIOUS
    <3>. HIDE DEF new, state
    <3>2. s \in Jobs
      BY <1>2
    <3>. QED
      BY <3>1, <3>2, JobMade
  <2>3. s.cursor \in 0 .. plan.entities
    BY <1>2 DEF Jobs
  <2>. HIDE DEF state, new
  <2>. QED
    BY <1>2, <2>1, <2>2, <2>3 DEF Jobs
<1>4. scans' = (scans \ {s}) \cup {new}
  BY DEF ScanFails
<1>. HIDE DEF new
<1>5. plan' = plan /\ owed' = owed /\ known' = known /\ dirty' = dirty /\ hour' = hour
      /\ queued' = queued /\ CronTriggers' = CronTriggers /\ Jobs' = Jobs /\ Entities' = Entities
  BY DEF ScanFails, CronTriggers, Jobs, Entities
<1>6. CronScanTypes'
  BY <1>1, <1>3, <1>4, <1>5 DEF CronScanTypes
<1>7. OwedIsThere'
  BY <1>1, <1>5 DEF OwedIsThere
<1>8. ASSUME NEW q \in scans' PROVE LastPage(q)'
  <2>1. CASE q = new
    <3>1. \A r \in scans' : r.stamp = q.stamp =>
            r.trigger = q.trigger /\ (r = q \/ (r.state = "done" /\ r.cursor < q.cursor))
      BY <1>1, <1>2, <1>3, <1>4, <2>1 DEF LastPage
    <3>2. \A e \in owed'[q.trigger][q.stamp] : e > q.cursor
      BY <1>1, <1>2, <1>3, <1>5, <2>1 DEF LastPage
    <3>. QED
      BY <1>3, <1>5, <2>1, <3>1, <3>2 DEF LastPage
  <2>2. CASE q \in scans /\ q # s
    <3>1. LastPage(q)
      BY <2>2 DEF CronScanInv
    <3>2. CASE q.stamp # s.stamp
      <4>1. \A r \in scans' : r.stamp = q.stamp => r \in scans
        BY <1>3, <1>4, <3>2
      <4>. QED
        BY <1>5, <3>1, <4>1 DEF LastPage
    <3>3. CASE q.stamp = s.stamp
      <4>1. q.state = "done"
        BY <1>1, <1>2, <2>2, <3>3 DEF LastPage
      <4>. QED
        BY <4>1 DEF LastPage
    <3>. QED
      BY <3>2, <3>3
  <2>. QED
    BY <1>4, <2>1, <2>2
<1>9. WholeScan'
  <2>1. ASSUME NEW t \in CronTriggers, NEW b \in 1 .. LastHour,
               \A r \in Pages(t, b)' : r.state = "done"
        PROVE  owed'[t][b] = {}
    <3>1. t # s.trigger \/ b # s.stamp
      <4>. SUFFICES ASSUME t = s.trigger, b = s.stamp PROVE FALSE
        OBVIOUS
      <4>1. new \in Pages(t, b)'
        BY <1>3, <1>4 DEF Pages
      <4>. QED
        BY <1>3, <2>1, <4>1
    <3>2. \A r \in Pages(t, b) : r \in Pages(t, b)'
      BY <1>4, <3>1 DEF Pages
    <3>. QED
      BY <1>5, <2>1, <3>2 DEF CronScanInv, WholeScan
  <2>2. scans' \subseteq Jobs'
    BY <1>6 DEF CronScanTypes
  <2>. QED
    BY <1>5, <2>1, <2>2 DEF WholeScan
<1>. QED
  BY <1>6, <1>7, <1>8, <1>9 DEF CronScanInv

LEMMA OthersStep ==
  ASSUME CronScanInv, NextHour \/ \E e \in Entities : Soil(e) \/ Overload(e) \/ Derive(e)
  PROVE  CronScanInv'
<1>0. CronScanTypes /\ OwedIsThere
  BY DEF CronScanInv
<1>1. CASE NextHour
  <2>1. CronScanTypes'
    BY <1>0, <1>1 DEF NextHour, CronScanTypes, CronTriggers, Jobs, Entities
  <2>2. OwedIsThere'
    BY <1>0, <1>1 DEF NextHour, OwedIsThere, CronTriggers
  <2>3. plan' = plan /\ scans' = scans /\ owed' = owed
    BY <1>1 DEF NextHour
  <2>. QED
    BY <2>1, <2>2, <2>3, JobsStand
<1>2. ASSUME NEW e \in Entities, Soil(e) PROVE CronScanInv'
  <2>1. CronScanTypes'
    BY <1>0, <1>2 DEF Soil, CronScanTypes, CronTriggers, Jobs, Entities
  <2>2. OwedIsThere'
    BY <1>0, <1>2 DEF Soil, OwedIsThere, CronTriggers
  <2>3. plan' = plan /\ scans' = scans /\ owed' = owed
    BY <1>2 DEF Soil
  <2>. QED
    BY <2>1, <2>2, <2>3, JobsStand
<1>3. ASSUME NEW e \in Entities, Overload(e) PROVE CronScanInv'
  <2>1. CronScanTypes'
    BY <1>0, <1>3 DEF Overload, CronScanTypes, CronTriggers, Jobs, Entities
  <2>2. OwedIsThere'
    BY <1>0, <1>3 DEF Overload, OwedIsThere, CronTriggers
  <2>3. plan' = plan /\ scans' = scans /\ owed' = owed
    BY <1>3 DEF Overload
  <2>. QED
    BY <2>1, <2>2, <2>3, JobsStand
<1>4. ASSUME NEW e \in Entities, Derive(e) PROVE CronScanInv'
  <2>1. plan' = plan /\ scans' = scans /\ known' = known /\ hour' = hour
        /\ queued' \subseteq queued
    BY <1>4 DEF Derive
  <2>2. CASE e \in heavy
    <3>1. dirty' = dirty /\ owed' = owed
      BY <1>4, <2>2 DEF Derive
    <3>2. CronScanTypes'
      BY <1>0, <2>1, <3>1 DEF CronScanTypes, CronTriggers, Jobs, Entities
    <3>3. OwedIsThere'
      BY <1>0, <2>1, <3>1 DEF OwedIsThere, CronTriggers
    <3>. QED
      BY <2>1, <3>1, <3>2, <3>3, JobsStand
  <2>3. CASE e \notin heavy
    <3>1. dirty' = dirty \ {e}
          /\ owed' = [t \in CronTriggers |-> [b \in 1 .. LastHour |->
                        IF plan.mode = "any" THEN owed[t][b] ELSE owed[t][b] \ {e}]]
      BY <1>4, <2>3 DEF Derive
    <3>2. \A t \in CronTriggers, b \in 1 .. LastHour :
            owed'[t][b] = IF plan.mode = "any" THEN owed[t][b] ELSE owed[t][b] \ {e}
      BY <3>1
    <3>3. owed' \in [CronTriggers -> [1 .. LastHour -> SUBSET Entities]]
      BY <1>0, <3>1 DEF CronScanTypes
    <3>4. CronScanTypes'
      BY <1>0, <2>1, <3>1, <3>3 DEF CronScanTypes, CronTriggers, Jobs, Entities
    <3>5. OwedIsThere'
      BY <1>0, <2>1, <3>1, <3>2 DEF OwedIsThere, CronTriggers
    <3>. QED
      BY <2>1, <3>2, <3>4, <3>5, JobsStand
  <2>. QED
    BY <2>2, <2>3
<1>. QED
  BY <1>1, <1>2, <1>3, <1>4

\* A cron scan that is under way has one page that is not done, its last; what
\* it has yet to find lies beyond that page's cursor and is there to be found.
THEOREM CronInvariance == CronScanSpec => []CronScanInv
<1>1. CronScanInit => CronScanInv
  BY InitHolds
<1>2. CronScanInv /\ [CronScanNext]_cronScanVars => CronScanInv'
  <2>. SUFFICES ASSUME CronScanInv, [CronScanNext]_cronScanVars PROVE CronScanInv'
    OBVIOUS
  <2>1. CASE UNCHANGED cronScanVars
    <3>1. /\ plan' = plan /\ scans' = scans /\ owed' = owed /\ known' = known /\ dirty' = dirty
          /\ hour' = hour /\ queued' = queued
      BY <2>1 DEF cronScanVars
    <3>2. CronScanTypes'
      BY <3>1 DEF CronScanInv, CronScanTypes, CronTriggers, Jobs, Entities
    <3>3. OwedIsThere'
      BY <3>1 DEF CronScanInv, OwedIsThere, CronTriggers
    <3>. QED
      BY <3>1, <3>2, <3>3, JobsStand
  <2>. QED
    BY <2>1, ScheduleStep, ScanPageStep, ScanFailsStep, OthersStep DEF CronScanNext
<1>. QED
  BY <1>1, <1>2, PTL DEF CronScanSpec

\* WholeScan: when all pages of a cron scan are done, every entity that was to be
\* found when it was scheduled, and still was when its page came, has been
\* enqueued, for every schedule, page length, clock and number of attempts
\* (worker.py, _process_cron_scan).
THEOREM ScansAreWhole == CronScanSpec => []WholeScan
<1>1. CronScanInv => WholeScan
  BY DEF CronScanInv
<1>. QED
  BY <1>1, CronInvariance, PTL
===============================================================================
