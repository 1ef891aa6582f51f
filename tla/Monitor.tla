------------------------------ MODULE Monitor ------------------------------
(***************************************************************************)
(* The traffic and health monitor of the daemon (internal/daemon/          *)
(* monitor*.go) over its table monitor_state (internal/store/              *)
(* monitor_state.go).                                                      *)
(*                                                                         *)
(* One worker passes over its rules: it reads the durable states, observes *)
(* the system, evaluates each rule against the rule's previous state and   *)
(* commits the next state together with the events of that transition.  A  *)
(* commit may fail, or succeed and be reported as failed; the transition   *)
(* then stays pending in memory, and a later pass has to find out which of *)
(* the two happened.  The process may be restarted at any time with an     *)
(* edited configuration, and the wall clock may step back.                 *)
(*                                                                         *)
(* Rules are independent, so a behaviour follows one rule: a health rule,  *)
(* the monthly byte budget or the daily byte budget.  Two health rules have *)
(* peculiarities: the SSH journal's ("ssh") can fail for a reason that the  *)
(* table does not take, and the GeoIP updater's ("geo") remembers whether   *)
(* updates are scheduled.  "health" stands for the sensor, the interface    *)
(* counters and the storage.  The cost and growth rules differ from the     *)
(* byte budgets in the number they compare.  Time is counted in passes; a   *)
(* period is Span of them.                                                  *)
(***************************************************************************)
EXTENDS Integers, Sequences, FiniteSets, FiniteSetsExt

CONSTANTS
    Rules,          \* the rules followed, of HealthRules, "month", "day"
    Grace,          \* alerts.health.grace_period, in passes
    Recovery,       \* alerts.health.recovery_period
    Reminder,       \* alerts.health.reminder_interval
    Span,            \* passes in a month (or in a day)
    Thresholds,     \* values alerts.budget.*_bytes takes in an edit
    Amounts,        \* bytes an interface may send between two passes
    MaxTime,        \* bound: last time a pass runs
    MaxTrouble      \* bound: failed reads and commits, restarts, clock steps

VARIABLES
    rule,    \* the rule followed
    disk,    \* monitor_state and the events committed with it
    mon,     \* monitorRuntime of this process
    cfg,     \* configuration of this process
    started, \* when this process started
    now,     \* wall clock
    tx,      \* interface_hourly: bytes sent in each interval
    lastBad, \* history: latest time the rule was not observed healthy
    failing, \* history: when the present row of undisturbed failed passes began
    off,     \* history: the rule was found disabled by the latest pass, or by
             \* an earlier one whose transition the latest still had to store
    epoch,   \* history: number of edits of the billing cycle
    spent    \* troubles so far

vars == <<rule, disk, mon, cfg, started, now, tx, lastBad, failing, off, epoch, spent>>

None == [none |-> TRUE]
Times == Span .. MaxTime
HealthRules == {"health", "ssh", "geo"}
IsHealth == rule \in HealthRules

---------------------------------------------------------------------------
(* The durable data of a rule. *)

\* monitorData of a rule without a record.
NoData == [at |-> 0, period |-> 0, start |-> 0, end |-> 0, milestone |-> 0,
           evaluated |-> FALSE, inc |-> 0, active |-> FALSE, since |-> 0,
           recov |-> 0, last |-> 0, policy |-> None, final |-> FALSE,
           prev |-> None, sched |-> FALSE]

Quiet(d) == [data |-> d, event |-> None]

\* healthEvent and the event of evaluateBudget: the notification of a step.
Event(d, o, phase) ==
    [inc |-> d.inc, phase |-> phase, at |-> o.now, bad |-> o.bad,
     period |-> d.period, milestone |-> d.milestone, epoch |-> epoch]

Loud(d, o, phase) == [data |-> d, event |-> Event(d, o, phase)]

---------------------------------------------------------------------------
(* Calendar and observations. *)

\* BillingCycle: the month that contains time t.  Zone and cycle start day
\* shift it.
MonthOf(t, c) ==
    LET k == (t + c.zone - c.cycle) \div Span
    IN  [period |-> k, start |-> k * Span - c.zone + c.cycle,
         end |-> (k + 1) * Span - c.zone + c.cycle]

\* PreviousDay: the last complete local day.
DayBefore(t, c) ==
    LET k == (t + c.zone) \div Span - 1
    IN  [period |-> k, start |-> k * Span - c.zone,
         end |-> (k + 1) * Span - c.zone]

\* InterfaceSummary: bytes sent in [from, to).
Sent(from, to) == MapThenSumSet(LAMBDA t : tx[t], {t \in DOMAIN tx : from <= t /\ t < to})

\* currentMonthPolicy: what a month is measured by.
Policy(threshold, cycle) == [threshold |-> threshold, cycle |-> cycle]

\* What a pass finds.  listed: the table takes the reason (the reasons
\* auth_state_capacity and auth_state_unknown it does not); known: the
\* updater's metadata was read, and sched is what it says.
Found(c) == [condition |-> c, listed |-> TRUE, known |-> FALSE, sched |-> FALSE]

\* observeGeoHealth: missing metadata is a failure of an updater that was
\* scheduled; otherwise the rule is disabled, or unknown where databases are
\* configured or the metadata cannot be read.
GeoFindings(d) ==
    {[Found(c) EXCEPT !.known = TRUE, !.sched = b] :
        c \in {"healthy", "failed", "unknown"}, b \in BOOLEAN}
      \cup (IF d.sched THEN {Found("failed")} ELSE {Found("unknown"), Found("disabled")})

Findings(d) ==
    CASE ~cfg.enabled     -> {Found("disabled")}
      [] rule = "geo" /\ cfg.enabled    -> GeoFindings(d)
      [] rule = "ssh" /\ cfg.enabled    ->
            {Found("healthy"), Found("failed"), [Found("failed") EXCEPT !.listed = FALSE]}
      [] rule = "health" /\ cfg.enabled -> {Found(c) : c \in {"healthy", "failed", "unknown"}}

\* observeHealth and its parts reduce every source to a condition; a failed
\* journal or storage may be reported with the time it began.
HealthObservations(d) ==
    {[now |-> now, condition |-> f.condition, since |-> s, closing |-> FALSE, period |-> 0,
      listed |-> f.listed, known |-> f.known, sched |-> f.sched,
      bad |-> IF f.condition = "healthy" THEN lastBad ELSE now] :
        f \in Findings(d), s \in {0, now - 1} \ (IF rule = "geo" THEN {now - 1} ELSE {})}

\* validateMonitorStatus, of the status an observation leads to.
ValidStatus(o) == IsHealth /\ o.condition = "failed" => o.listed

\* observeBudgets: the current month up to now, or the completed day, read
\* from the interface counters unless that read fails.
BudgetObservation(available) ==
    LET p == IF rule = "month" THEN MonthOf(now, cfg) ELSE DayBefore(now, cfg)
    IN  [now |-> now, closing |-> FALSE, available |-> available, bad |-> 0,
         period |-> p.period, start |-> p.start, end |-> p.end,
         observed |-> Sent(p.start, IF rule = "month" THEN now ELSE p.end),
         threshold |-> cfg.threshold,
         policy |-> IF available /\ rule = "month"
                    THEN Policy(cfg.threshold, cfg.cycle) ELSE None]

\* billingCycleChanged
CycleChanged(d, o) ==
    /\ rule = "month" /\ ~o.closing
    /\ d.period # 0 /\ o.policy # None
    /\ o.policy.cycle # (IF d.policy = None THEN 0 ELSE d.policy.cycle)

\* monitorRollback
Rollback(d, o) ==
    \/ o.now < d.at
    \/ o.period # 0 /\ d.period # 0 /\ o.period < d.period /\ ~CycleChanged(d, o)

\* needsMonthClose
NeedsClose(d, o) ==
    /\ rule = "month" /\ ~CycleChanged(d, o)
    /\ d.period # 0 /\ o.period > d.period /\ ~d.final

\* closingObservation: the recorded month, measured by its recorded policy.
ClosingObservation(d) ==
    [now |-> now, closing |-> TRUE, available |-> d.policy # None, bad |-> 0,
     period |-> d.period, start |-> d.start, end |-> d.end,
     observed |-> Sent(d.start, d.end),
     threshold |-> IF d.policy = None THEN 0 ELSE d.policy.threshold,
     policy |-> d.policy]

\* closingObservation before the recorded interval is over.
CanClose(d) == d.end <= now

---------------------------------------------------------------------------
(* evaluateMonitor *)

EvaluateHealth(d, o, id) ==
    LET n       == [d EXCEPT !.at = o.now, !.sched = IF o.known THEN o.sched ELSE @]
        startup == o.now < started + Grace
        since   == IF d.since # 0 THEN d.since
                   ELSE IF o.since # 0 THEN o.since ELSE o.now
        bad     == [n EXCEPT !.recov = 0, !.since = since]
        healing == [n EXCEPT !.recov = IF @ = 0 THEN o.now ELSE @]
        well    == [n EXCEPT !.since = 0, !.recov = 0]
    IN  CASE o.condition = "disabled" ->
                Quiet([well EXCEPT !.active = FALSE, !.inc = 0])
          [] o.condition = "unknown" ->
                Quiet([n EXCEPT !.recov = 0, !.since = IF d.active THEN @ ELSE 0])
          [] o.condition = "failed" /\ ~d.active ->
                IF startup \/ o.now - since < Grace THEN Quiet(bad)
                ELSE Loud([bad EXCEPT !.active = TRUE, !.inc = id, !.last = o.now],
                          o, "start")
          [] o.condition = "failed" /\ d.active ->
                IF ~startup /\ Reminder > 0 /\ o.now - d.last >= Reminder
                THEN Loud([bad EXCEPT !.last = o.now], o, "update")
                ELSE Quiet(bad)
          [] o.condition = "healthy" /\ startup -> Quiet([n EXCEPT !.recov = 0])
          [] o.condition = "healthy" /\ ~startup /\ ~d.active -> Quiet(well)
          [] o.condition = "healthy" /\ ~startup /\ d.active ->
                IF o.now - healing.recov < Recovery THEN Quiet(healing)
                ELSE Loud([well EXCEPT !.active = FALSE, !.last = o.now], o, "recovery")

\* The milestone an amount reaches; 80% is rounded up without overflow.
Milestone(observed, threshold) ==
    IF observed >= threshold THEN 100
    ELSE IF rule = "month"
            /\ observed >= (threshold \div 5) * 4 + ((threshold % 5) * 4 + 4) \div 5
         THEN 80 ELSE 0

\* The period an observation enters, with the old one's alerts forgotten.
EnterPeriod(d, o) ==
    IF d.period = o.period /\ ~CycleChanged(d, o) THEN [d EXCEPT !.at = o.now]
    ELSE [d EXCEPT !.at = o.now, !.period = o.period, !.start = o.start, !.end = o.end,
                   !.milestone = 0, !.evaluated = FALSE, !.inc = 0, !.last = 0,
                   !.final = FALSE, !.policy = None,
                   !.prev = IF CycleChanged(d, o)
                            THEN [period |-> d.period, milestone |-> d.milestone,
                                  evaluated |-> FALSE]
                            ELSE @]

Finalized(d, o, evaluated) ==
    IF ~o.closing THEN d
    ELSE [d EXCEPT !.final = TRUE,
                   !.prev = [period |-> d.period, milestone |-> d.milestone,
                             evaluated |-> evaluated]]

EvaluateBudget(d, o, id) ==
    LET entered == EnterPeriod(d, o)
        n == IF rule = "month" /\ ~o.closing
             THEN [entered EXCEPT !.start = o.start, !.end = o.end, !.policy = o.policy]
             ELSE [entered EXCEPT !.evaluated = (rule = "day")]
        reached == Milestone(o.observed, o.threshold)
        alerted == [n EXCEPT !.milestone = reached, !.last = o.now,
                             !.inc = IF n.milestone = 0 THEN id ELSE @]
    IN  CASE o.closing /\ d.final -> Quiet(d)
          [] o.closing /\ ~d.final /\ ~o.available ->
                Quiet(Finalized([d EXCEPT !.at = o.now], o, FALSE))
          [] ~o.closing /\ ~o.available -> Quiet([d EXCEPT !.at = o.now])
          [] ~o.closing /\ o.available /\ rule = "day"
                /\ d.period = o.period /\ d.evaluated -> Quiet([d EXCEPT !.at = o.now])
          [] OTHER ->
                IF reached > n.milestone
                THEN Loud(Finalized(alerted, o, TRUE), o,
                          IF n.milestone = 0 THEN "start" ELSE "update")
                ELSE Quiet(Finalized(n, o, TRUE))

Evaluate(d, o, id) ==
    IF Rollback(d, o) THEN Quiet(d)
    ELSE IF IsHealth THEN EvaluateHealth(d, o, id) ELSE EvaluateBudget(d, o, id)

---------------------------------------------------------------------------
(* Storing a transition.  These operators take and return w == [disk, mon], *)
(* so that a pass, which no other writer of the table can interrupt, is the *)
(* composition of its stores.                                               *)

\* A transition waiting in memory for its commit.
Pending(e, o, rev) ==
    [obs |-> o, next |-> e.data, event |-> e.event, expected |-> rev]

\* reload
Reload(w) ==
    [w EXCEPT !.mon.loaded = TRUE,
              !.mon.rec = [rev |-> w.disk.rev, data |-> w.disk.data]]

\* CommitMonitorState: state and event in one transaction.
Written(w) ==
    LET p == w.mon.pending
    IN  [w EXCEPT !.disk = [rev  |-> p.expected + 1, data |-> p.next,
                            log  |-> IF p.event = None THEN @.log
                                     ELSE Append(@.log, p.event)]]

\* CommitMonitorState refuses a time before the stored one.
InOrder(w) == w.mon.pending.next.at >= w.disk.data.at

Acknowledged(w) ==
    LET p == w.mon.pending
    IN  [w EXCEPT !.mon.pending = None,
                  !.mon.rec = [rev |-> p.expected + 1, data |-> p.next]]

\* The end of one commit: done, failed, or done and reported as failed.
Ended(w, outcome) ==
    CASE ~InOrder(w) \/ outcome = "failed"   -> w
      [] InOrder(w) /\ outcome = "doubtful"  -> Written(w)
      [] InOrder(w) /\ outcome = "done"      -> Acknowledged(Written(w))

Dropped(w) == [w EXCEPT !.mon.pending = None]

Fresh(w) == [w EXCEPT !.mon.ids = @ + 1]

\* The conflict branch of commit, after its reload: the durable state wins,
\* and the observation is evaluated against it and written once more.
Reconciled(w, outcome) ==
    LET d == w.mon.rec.data
        o == w.mon.pending.obs
        e == Evaluate(d, o, w.mon.ids)
    IN  IF d.at > o.now \/ d = w.mon.pending.next THEN Dropped(w)
        ELSE Ended(Fresh([w EXCEPT !.mon.pending = Pending(e, o, w.mon.rec.rev)]), outcome)

\* commit: a read of the identical state acknowledges an earlier commit.
Commit(w, outcome, readable) ==
    LET p == w.mon.pending
    IN  IF w.mon.rec.rev > p.expected /\ w.mon.rec.data = p.next THEN Dropped(w)
        ELSE IF w.disk.rev = p.expected THEN Ended(w, outcome)
        ELSE IF ~readable THEN w
        ELSE Reconciled(Reload(w), outcome)

\* storeObservation: a status that would not be valid in the table is shown
\* and forgotten.
Store(w, o, outcome, readable) ==
    LET e == Evaluate(w.mon.rec.data, o, w.mon.ids)
    IN  IF ~ValidStatus(o) \/ (~cfg.enabled /\ w.mon.rec.rev = 0) \/ e.data = w.mon.rec.data THEN w
        ELSE Commit(Fresh([w EXCEPT !.mon.pending = Pending(e, o, w.mon.rec.rev)]),
                    outcome, readable)

\* A transition that carries no event and does not close a month follows the
\* newer observation; every other one is frozen.
MayRevise(p, o) ==
    /\ p.event = None /\ ~p.obs.closing
    /\ ~NeedsClose(p.next, o) /\ ~(o.now < p.next.at)

Revised(w, o) ==
    LET p  == w.mon.pending
        ob == IF IsHealth /\ o.condition = "failed" /\ p.next.since # 0
              THEN [o EXCEPT !.since = p.next.since] ELSE o
        e  == Evaluate(p.next, ob, w.mon.ids)
    IN  IF MayRevise(p, o) /\ ValidStatus(ob) THEN Fresh([w EXCEPT !.mon.pending = Pending(e, ob, p.expected)])
        ELSE w

\* Mutant: the next month is stored whether or not the old one was closed.
FollowUnclosed(w, o, outcomes, readable) ==
    IF Rollback(w.mon.rec.data, o) THEN w ELSE Store(w, o, outcomes[3], readable)

\* The part of applyObservations that follows an empty pending: the recorded
\* month is closed first, and only a closed month is succeeded.
Follow(w, o, outcomes, readable) ==
    LET d      == w.mon.rec.data
        closed == Store(w, ClosingObservation(d), outcomes[2], readable)
    IN  IF Rollback(d, o) THEN w
        ELSE IF ~NeedsClose(d, o) THEN Store(w, o, outcomes[3], readable)
        ELSE IF ~CanClose(d) \/ ~readable THEN w
        ELSE IF closed.mon.pending = None /\ closed.mon.rec.data.final
             THEN Store(closed, o, outcomes[3], readable)
             ELSE closed

\* applyObservations
Apply(w, o, outcomes, readable) ==
    LET settled == IF w.mon.pending = None THEN w
                   ELSE Commit(Revised(w, o), outcomes[1], readable)
    IN  IF (~IsHealth /\ ~cfg.enabled) \/ ~w.mon.loaded THEN w
        ELSE IF settled.mon.pending # None THEN settled
        ELSE Follow(settled, o, outcomes, readable)

---------------------------------------------------------------------------
(* Actions *)

Configs ==
    [zone : IF IsHealth THEN {0} ELSE {0, 1},
     cycle : IF rule = "month" THEN {0, 1} ELSE {0},
     threshold : IF IsHealth THEN {0} ELSE Thresholds,
     enabled : BOOLEAN]

NoRuntime == [loaded |-> FALSE, rec |-> [rev |-> 0, data |-> NoData],
              pending |-> None, ids |-> 1]

Init ==
    /\ rule \in Rules
    /\ disk = [rev |-> 0, data |-> NoData, log |-> <<>>]
    /\ mon = NoRuntime
    /\ cfg \in {c \in Configs : c.zone = 0 /\ c.cycle = 0 /\ c.enabled}
    /\ now = 3 * Span /\ started = now
    /\ tx = [t \in Times |-> 0]
    /\ lastBad = 0 /\ failing = 0 /\ off = FALSE /\ epoch = 0 /\ spent = 0

Observations(d) ==
    IF IsHealth THEN {<<o, 0>> : o \in HealthObservations(d)}
    ELSE {<<BudgetObservation(TRUE), 0>>, <<BudgetObservation(FALSE), 1>>}

Count(S) == Cardinality({i \in DOMAIN S : S[i]})

Troubles(outcomes) == Count([i \in DOMAIN outcomes |-> outcomes[i] # "done"])

\* At most one commit of a pass fails; the pass then ends or the rest of it
\* is what a failed commit leaves.
Outcomes == {f \in [1 .. 3 -> {"done", "failed", "doubtful"}] : Troubles(f) <= 1}

\* One pass of the worker.  fresh: its first read of monitor_state succeeds;
\* readable: the later reads do.
Pass ==
    \E outcomes \in Outcomes, fresh, readable \in BOOLEAN :
        LET w0 == [disk |-> disk, mon |-> mon]
            w1 == IF fresh THEN Reload(w0) ELSE w0
        IN  \E ob \in Observations(w1.mon.rec.data) :
            LET o    == ob[1]
                cost == ob[2] + Troubles(outcomes) + Count(<<~fresh, ~readable>>)
                w2   == Apply(w1, o, outcomes, readable)
            IN  /\ now < MaxTime /\ spent + cost <= MaxTrouble
                /\ spent' = spent + cost
                /\ disk' = w2.disk /\ mon' = w2.mon
                /\ lastBad' = o.bad
                /\ failing' = IF ~IsHealth \/ cost > 0 \/ now < disk.data.at
                                 \/ o.condition # "failed" \/ ~o.listed THEN 0
                              ELSE IF failing = 0 THEN now ELSE failing
                /\ off' = (IsHealth /\ (o.condition = "disabled" \/ (off /\ mon.pending # None)))
                /\ \E b \in IF IsHealth THEN {0} ELSE Amounts :
                        tx' = [tx EXCEPT ![now] = @ + b]
                /\ now' = now + 1
                /\ UNCHANGED <<rule, cfg, started, epoch>>

\* The process stops, for a moment or for longer, and starts again with the
\* configuration it then finds.  What was pending is lost.
Restart ==
    /\ spent < MaxTrouble /\ spent' = spent + 1
    /\ \E t \in {now, now + Span} : t <= MaxTime /\ now' = t /\ started' = t
    /\ cfg' \in Configs
    /\ epoch' = IF cfg'.cycle = cfg.cycle THEN epoch ELSE epoch + 1
    /\ mon' = [NoRuntime EXCEPT !.ids = mon.ids]
    /\ failing' = 0 /\ off' = FALSE
    /\ UNCHANGED <<rule, disk, tx, lastBad>>

\* The wall clock is set back.
ClockBack ==
    /\ spent < MaxTrouble /\ spent' = spent + 1
    /\ now > Span /\ now' = now - 1
    /\ failing' = 0
    /\ UNCHANGED <<rule, disk, mon, cfg, started, tx, lastBad, off, epoch>>

Next == Pass \/ Restart \/ ClockBack

Spec == Init /\ [][Next]_vars

---------------------------------------------------------------------------
(* Properties *)

Log == {disk.log[i] : i \in DOMAIN disk.log}

\* A health incident is announced once and ends at most once, and its events
\* and its durable state agree, whatever became of the commits on the way.
IncidentsTold ==
    IsHealth =>
        /\ \A i, j \in DOMAIN disk.log :
              (i # j /\ disk.log[i].inc = disk.log[j].inc) =>
                  \/ disk.log[i].phase = "update" \/ disk.log[j].phase = "update"
                  \/ i < j /\ disk.log[i].phase = "start" /\ disk.log[j].phase = "recovery"
                  \/ j < i /\ disk.log[j].phase = "start" /\ disk.log[i].phase = "recovery"
        /\ \A e \in Log : \E s \in Log : s.phase = "start" /\ s.inc = e.inc
        /\ disk.data.active =>
              /\ \E e \in Log : e.inc = disk.data.inc
              /\ ~\E e \in Log : e.inc = disk.data.inc /\ e.phase = "recovery"

\* An alert does not vanish: an incident ends with its recovery event, or with
\* a pass that found the rule disabled, by the configuration or, for the
\* updater, because nothing of it is left; through failed and doubtful commits
\* too, no other pass ends one silently.
IncidentsEnd ==
    [][(IsHealth /\ disk.data.active /\ ~disk'.data.active) =>
        \/ off'
        \/ \E i \in DOMAIN disk'.log : /\ disk'.log[i].inc = disk.data.inc
                                       /\ disk'.log[i].phase = "recovery"]_vars

\* A failure that every pass confirms is alerted when its grace period, and
\* the grace period of the process, are over.  It has to have a listed reason:
\* one of the detector of failed logins (auth_state_capacity,
\* auth_state_unknown) is refused by storeObservation in every pass and is
\* never alerted.
AlertInTime ==
    (failing # 0 /\ now - 1 - failing >= Grace /\ now - 1 >= started + Grace)
        => disk.data.active

\* A budget milestone of a period is announced once, unless the billing
\* cycle was edited.
MilestonesOnce ==
    ~IsHealth =>
        \A i, j \in DOMAIN disk.log :
            i # j => <<disk.log[i].period, disk.log[i].milestone, disk.log[i].epoch>>
                       # <<disk.log[j].period, disk.log[j].milestone, disk.log[j].epoch>>

\* Recovery is announced only after a whole recovery period of healthy passes.
RecoveryContinuous ==
    \A e \in Log : e.phase = "recovery" => e.at - e.bad >= Recovery

\* A month gives way to a later one only when it has been closed: its result
\* is kept and counts every byte recorded for it.
Recorded == {disk.data} \cup {p.next : p \in {mon.pending} \ {None}}

MonthsClosed ==
    [][(rule = "month" /\ disk.data.period # 0 /\ disk'.data.period > disk.data.period)
        => /\ disk'.data.prev # None
           /\ \E d \in Recorded :
                 /\ disk'.data.prev.period = d.period
                 /\ disk'.data.prev.evaluated =>
                       /\ d.policy # None
                       /\ disk'.data.prev.milestone >=
                             Milestone(Sent(d.start, d.end), d.policy.threshold)]_vars

=============================================================================
