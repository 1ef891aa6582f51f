------------------------------- MODULE Reports -------------------------------
(***************************************************************************)
(* The daily reports of internal/report: the scheduler that archives the   *)
(* previous civil day and tells every destination about it, its automatic  *)
(* backfill of older days, and the operator's report_backfill request,     *)
(* which share the immutable archive of internal/store/history.go.         *)
(*                                                                         *)
(* The scheduler and the request handler are two goroutines; the archive   *)
(* gate makes one archiveDate a step, everything between two of them       *)
(* interleaves.  The time zone comes from the configuration, so it changes *)
(* only with a restart; a zone is given by the instants of its midnights,  *)
(* and two equal midnights are a civil date the zone skips.                *)
(***************************************************************************)
EXTENDS Integers, FiniteSets, Sequences

CONSTANTS Zones, Start(_, _),       \* Start(z, d): the instant civil date d starts in zone z
          MaxDate,
          Destinations,             \* the configured targets, in order
          Gated,                    \* those with an activation time
          DailyAt, BackfillDays,
          PerCheck,                 \* archives one automatic backfill may add
          MaxSpan,                  \* dates one request may name
          FirstZone, FirstNow, MaxNow, MaxFaults, MaxRestarts

VARIABLES now, zone, up,
          archive,    \* report_snapshots, by date
          runs,       \* report_runs: the (date, destination) pairs decided
          outbox,     \* the daily messages admitted: date, destination, period
          activated,  \* activated_at of the gated destinations, Never if zero
          sched,      \* the scheduler's local variables
          request,    \* those of the report_backfill handler
          faults, restarts

reportVars == <<now, zone, up, archive, runs, outbox, activated, sched, request,
                faults, restarts>>

Dates == 0..MaxDate
Never == -1
None == [start |-> Never, end |-> Never]
Idle == [pc |-> "idle", at |-> 0, date |-> 0, todo |-> <<>>, failed |-> FALSE,
         offset |-> 0, created |-> 0]
NoRequest == [pc |-> "none", from |-> 0, through |-> 0, next |-> 0, states |-> <<>>,
              stopped |-> "no"]

Period(z, d) == [start |-> Start(z, d), end |-> Start(z, d + 1)]
Exists(z, d) == Start(z, d) < Start(z, d + 1)

\* The local civil date of an instant, and the most recent existing date before it.
CivilDate(t, z) == Cardinality({d \in 1..(MaxDate + 1) : Start(z, d) <= t})

PreviousDay(t, z) ==
    LET midnight == Start(z, CivilDate(t, z))
    IN  Cardinality({d \in Dates : Start(z, d) < midnight}) - 1

ReportInit ==
    /\ now = FirstNow /\ zone = FirstZone /\ up = TRUE
    /\ archive = [d \in Dates |-> None]
    /\ runs = {} /\ outbox = {}
    /\ activated = [x \in Gated |-> FirstNow - 2]
    /\ sched = Idle /\ request = NoRequest
    /\ faults = 0 /\ restarts = 0

Tick == now < MaxNow /\ now' = now + 1
        /\ UNCHANGED <<zone, up, archive, runs, outbox, activated, sched, request, faults, restarts>>

-----------------------------------------------------------------------------
(* archiveDate: what it answers for a date, and the row it leaves behind. *)

ArchiveState(d, at) ==
    CASE ~ Exists(zone, d)                     -> "nonexistent_date"
      [] Start(zone, d + 1) > at               -> "unavailable"
      [] archive[d] = Period(zone, d)          -> "already_present"
      [] archive[d] # None                     -> "conflict"
      [] OTHER                                 -> "generated"

Saved(d, state) ==
    IF state = "generated" THEN [archive EXCEPT ![d] = Period(zone, d)] ELSE archive

\* The gate, a read, the document or the write fails, the write perhaps after
\* it was applied; or the archive is saved and cannot be read back.
Broken(d, state) ==
    {[state |-> "unavailable", failed |-> TRUE, archive |-> a, cost |-> 1] : a \in {archive, Saved(d, state)}}
    \cup (IF state = "generated"
          THEN {[state |-> state, failed |-> TRUE, archive |-> Saved(d, state), cost |-> 1]}
          ELSE {})

\* The state and error archiveDate answers with; a conflict's error is handled
\* by each caller on its own.
Answers(d, at) ==
    LET state == ArchiveState(d, at) IN
    {[state |-> state, failed |-> state = "unavailable", archive |-> Saved(d, state), cost |-> 0]}
    \cup (IF faults < MaxFaults THEN Broken(d, state) ELSE {})

ArchiveDate(answer) == archive' = answer.archive /\ faults' = faults + answer.cost

-----------------------------------------------------------------------------
(* The scheduler: checkPrevious, then backfill. *)

Filling(s) == [s EXCEPT !.pc = "fill", !.offset = BackfillDays]

AllGenerated(d) ==
    /\ Destinations # <<>>
    /\ \A i \in DOMAIN Destinations : <<d, Destinations[i]>> \in runs

\* Before the scheduled time, or with every destination decided, only the
\* backfill is left; a period conflict found here does not stop it.
Check ==
    /\ up /\ sched.pc = "idle"
    /\ LET d == PreviousDay(now, zone)
           seen == [Idle EXCEPT !.at = now, !.date = d]
           due == now >= Start(zone, CivilDate(now, zone)) + DailyAt
       IN  /\ d # Never
           /\ sched' = IF ~ due \/ AllGenerated(d) THEN Filling(seen) ELSE [seen EXCEPT !.pc = "archive"]
    /\ UNCHANGED <<now, zone, up, archive, runs, outbox, activated, request, faults, restarts>>

Undecided(d) == SelectSeq(Destinations, LAMBDA x : <<d, x>> \notin runs)

\* Mutant: a date archived with other bounds ends the check.
AfterConflictStop(s) == Idle

\* The conflict of one date does not keep the backfill from the others.
AfterConflict(s) == Filling(s)

ArchivePrevious ==
    /\ up /\ sched.pc = "archive"
    /\ \E answer \in Answers(sched.date, sched.at) :
          /\ ArchiveDate(answer)
          /\ sched' = CASE answer.state = "conflict" -> AfterConflict(sched)
                        [] answer.failed -> Idle
                        [] OTHER -> [sched EXCEPT !.pc = "tell", !.todo = Undecided(sched.date)]
    /\ UNCHANGED <<now, zone, up, runs, outbox, activated, request, restarts>>

AfterTarget(s) == [s EXCEPT !.pc = "tell", !.todo = Tail(s.todo)]

\* A target that was not activated before the period ended is passed over.
Withheld(x, d) ==
    x \in Gated /\ (activated[x] = Never \/ archive[d].end <= activated[x])

\* A target whose activation time or body cannot be had ends the check, one
\* whose message is refused is left for the next check.  Enqueue keeps the row the dedupe key daily:date:destination already names.
Enqueued(d, x) ==
    IF \E m \in outbox : m.date = d /\ m.to = x
    THEN outbox
    ELSE outbox \cup {[date |-> d, to |-> x, period |-> archive[d], at |-> now]}

EnqueueDaily ==
    /\ up /\ sched.pc = "tell" /\ sched.todo # <<>>
    /\ LET x == Head(sched.todo) IN
       \/ /\ Withheld(x, sched.date)
          /\ sched' = AfterTarget(sched)
          /\ UNCHANGED <<outbox, faults>>
       \/ /\ ~ Withheld(x, sched.date)
          /\ outbox' = Enqueued(sched.date, x)
          /\ sched' = [sched EXCEPT !.pc = "mark"]
          /\ UNCHANGED faults
       \/ /\ ~ Withheld(x, sched.date) /\ faults < MaxFaults
          /\ sched' \in {Idle, [AfterTarget(sched) EXCEPT !.failed = TRUE]}
          /\ faults' = faults + 1
          /\ UNCHANGED outbox
    /\ UNCHANGED <<now, zone, up, archive, runs, activated, request, restarts>>

MarkReportGenerated ==
    /\ up /\ sched.pc = "mark"
    /\ \/ /\ runs' = runs \cup {<<sched.date, Head(sched.todo)>>}
          /\ sched' = AfterTarget(sched)
          /\ UNCHANGED faults
       \/ /\ faults < MaxFaults /\ faults' = faults + 1
          /\ sched' = [AfterTarget(sched) EXCEPT !.failed = TRUE]
          /\ UNCHANGED runs
    /\ UNCHANGED <<now, zone, up, archive, outbox, activated, request, restarts>>

\* A target's failure ends the check before the backfill.
TargetsDone ==
    /\ up /\ sched.pc = "tell" /\ sched.todo = <<>>
    /\ sched' = IF sched.failed THEN Idle ELSE Filling(sched)
    /\ UNCHANGED <<now, zone, up, archive, runs, outbox, activated, request, faults, restarts>>

\* Oldest date first, the previous day reserved, a conflicting date passed over.
Backfill ==
    /\ up /\ sched.pc = "fill"
    /\ LET d == CivilDate(sched.at, zone) - sched.offset
           next == [sched EXCEPT !.offset = @ - 1]
       IN  \/ /\ sched.offset = 0 \/ sched.created = PerCheck
              /\ sched' = Idle
              /\ UNCHANGED <<archive, faults>>
           \/ /\ sched.offset > 0 /\ sched.created < PerCheck
              /\ d \notin Dates \/ d >= PreviousDay(sched.at, zone)
              /\ sched' = next
              /\ UNCHANGED <<archive, faults>>
           \/ /\ sched.offset > 0 /\ sched.created < PerCheck
              /\ d \in Dates /\ d < PreviousDay(sched.at, zone)
              /\ \E answer \in Answers(d, sched.at) :
                    /\ ArchiveDate(answer)
                    /\ sched' = IF answer.failed THEN Idle
                                ELSE [next EXCEPT !.created = IF answer.state = "generated" THEN @ + 1 ELSE @]
    /\ UNCHANGED <<now, zone, up, runs, outbox, activated, request, restarts>>

-----------------------------------------------------------------------------
(* The operator's report_backfill. *)

BackfillRequest ==
    /\ up /\ request.pc = "none"
    /\ \E f, t \in Dates :
          /\ f <= t /\ t < f + MaxSpan /\ t < CivilDate(now, zone)
          /\ request' = [NoRequest EXCEPT !.pc = "run", !.from = f, !.through = t, !.next = f]
    /\ UNCHANGED <<now, zone, up, archive, runs, outbox, activated, sched, faults, restarts>>

\* One date of the loop, inspected as of the request's own time (a completed
\* date stays completed, so the clock serves as well).  Past the deadline the
\* loop stops before the date; a date that cannot be inspected is listed with
\* what archiveDate said of it and stops the loop.  Either way it is next, the
\* date to resume from.
RequestDate ==
    /\ up /\ request.pc = "run" /\ request.next <= request.through
    /\ \/ /\ faults < MaxFaults /\ faults' = faults + 1
          /\ request' = [request EXCEPT !.pc = "answer", !.stopped = "cancelled"]
          /\ UNCHANGED archive
       \/ \E answer \in Answers(request.next, now) :
             /\ ArchiveDate(answer)
             /\ LET listed == [request EXCEPT !.states = Append(@, answer.state)]
                IN  IF answer.failed
                    THEN \E why \in {"cancelled", "unavailable"} :
                            request' = [listed EXCEPT !.pc = "answer", !.stopped = why]
                    ELSE request' = [listed EXCEPT !.next = @ + 1]
    /\ UNCHANGED <<now, zone, up, runs, outbox, activated, sched, restarts>>

RequestDone ==
    /\ up /\ request.pc = "run" /\ request.next > request.through
    /\ request' = [request EXCEPT !.pc = "answer"]
    /\ UNCHANGED <<now, zone, up, archive, runs, outbox, activated, sched, faults, restarts>>

\* The operator reads the answer, complete or stopped, and may ask again.
AnswerRead ==
    /\ up /\ request.pc = "answer"
    /\ request' = NoRequest
    /\ UNCHANGED <<now, zone, up, archive, runs, outbox, activated, sched, faults, restarts>>

-----------------------------------------------------------------------------
\* The process ends at any point and comes back, perhaps with another zone or a
\* target that was disabled and enabled again.
Stop ==
    /\ up /\ restarts < MaxRestarts
    /\ up' = FALSE /\ restarts' = restarts + 1
    /\ sched' = Idle /\ request' = NoRequest
    /\ UNCHANGED <<now, zone, archive, runs, outbox, activated, faults>>

Restart ==
    /\ ~ up /\ up' = TRUE
    /\ zone' \in Zones
    /\ \E G \in SUBSET Gated : activated' = [x \in Gated |-> IF x \in G THEN now ELSE activated[x]]
    /\ UNCHANGED <<now, archive, runs, outbox, sched, request, faults, restarts>>

\* The scheduler's goroutine: exactly one of its steps can be taken at a time.
Scheduling ==
    Check \/ ArchivePrevious \/ EnqueueDaily \/ MarkReportGenerated \/ TargetsDone \/ Backfill

ReportNext ==
    \/ Tick \/ Scheduling \/ BackfillRequest \/ RequestDate \/ RequestDone \/ AnswerRead
    \/ Stop \/ Restart

\* The scheduler runs off a 30 second ticker for as long as the process lives,
\* and the service manager restarts the process.
ReportFairness == WF_reportVars(Scheduling) /\ WF_reportVars(Restart)

ReportSpec == ReportInit /\ [][ReportNext]_reportVars /\ ReportFairness

-----------------------------------------------------------------------------
\* An archived report is for good: no later check, backfill, doubtful write or
\* change of zone replaces the period its date was archived with
\* (SaveReportIfAbsent), whether or not anyone was told of it.
ArchiveForGood ==
    [][\A d \in Dates : archive[d] # None => archive'[d] = archive[d]]_reportVars

\* A date was archived only once its period had ended, and what a destination
\* was told of it is what the archive holds.
ArchiveTrue ==
    /\ \A d \in Dates : archive[d] # None => archive[d].end <= now
    /\ \A m \in outbox : m.period = archive[m.date]

\* A destination is told of a date at most once, however often the process dies
\* between the outbox row and the report_runs row, and never of a day that had
\* ended before the target was switched on.
ToldOnce ==
    \A m \in outbox :
        /\ \A n \in outbox : (m.date = n.date /\ m.to = n.to) => m = n
        /\ m.to \in Gated => activated[m.to] < m.period.end \/ activated[m.to] >= m.at

\* What report_backfill has listed is still true when the answer is read, while
\* the scheduler archives the same dates, and an answer that lists a date as
\* unavailable names it as the one to resume from; resuming from next_date
\* leaves no date out, and only an answer that was not stopped is complete.
\* (next_date itself is listed too when it is the date that failed.)
Settled(d) == archive[d] # None \/ ~ Exists(zone, d)

ListedTruly(d, state) ==
    CASE state \in {"generated", "already_present"} -> archive[d] = Period(zone, d)
      [] state = "conflict"                         -> archive[d] \notin {None, Period(zone, d)}
      [] state = "nonexistent_date"                 -> ~ Exists(zone, d)
      [] state = "unavailable"                      -> d = request.next /\ request.stopped # "no"

BackfillHonest ==
    request.pc # "none" =>
        /\ \A i \in DOMAIN request.states : ListedTruly(request.from + i - 1, request.states[i])
        /\ \A d \in request.from..(request.next - 1) : Settled(d)
        /\ request.pc = "answer" => (request.stopped = "no" <=> request.next > request.through)

\* The dates the automatic backfill answers for.
Window == {d \in Dates : /\ d >= CivilDate(now, zone) - BackfillDays
                         /\ d < PreviousDay(now, zone)
                         /\ Exists(zone, d)}

\* Every day within the backfill bound ends up archived, whatever zone the
\* neighbouring days were archived in and however often the daemon was down.
CaughtUp == \A d \in Window : archive[d] # None
BackfillCatchesUp == <>[]CaughtUp

\* Once the hour of the report has passed, every destination that may be told
\* of the previous day is told, unless that day is archived with another period.
DailyTold ==
    LET d == PreviousDay(now, zone) IN
    (d # Never /\ now >= Start(zone, CivilDate(now, zone)) + DailyAt) =>
        \/ archive[d] \notin {None, Period(zone, d)}
        \/ /\ archive[d] # None
           /\ \A i \in DOMAIN Destinations :
                LET x == Destinations[i] IN
                Withheld(x, d) \/ \E m \in outbox : m.date = d /\ m.to = x
DailyArrives == <>[]DailyTold
=============================================================================
