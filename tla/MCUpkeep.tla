------------------------------ MODULE MCUpkeep ------------------------------
(***************************************************************************)
(* Two parts that run on timers and do not call each other: the report     *)
(* scheduler of the daemon and the GeoIP updater of the manager. A         *)
(* behaviour follows one of them, "part", and the other stays in its       *)
(* initial state, so that one run explores every state of each and their   *)
(* state spaces add up instead of multiplying.                             *)
(***************************************************************************)
EXTENDS Integers, Sequences, FiniteSets

VARIABLES
    part,
    \* Reports
    now, zone, up, archive, runs, outbox, activated, sched, request, faults, restarts,
    \* GeoUpdate
    clock, upstream, active, pending, creds, state, health, timer, unit, op, verified,
    scheduled, excused, geoFaults, clockSets, geoRuns

\* Two zones that are one unit apart; the western one skips a date.
Midnight(z, d) == IF z = "utc" THEN 2 * d ELSE IF d = 1 THEN 5 ELSE 2 * d + 1
R == INSTANCE Reports WITH
        Zones <- {"utc", "west"}, Start <- Midnight, MaxDate <- 4,
        Destinations <- <<"native", "webhook">>, Gated <- {"native"}, DailyAt <- 1,
        BackfillDays <- 3, PerCheck <- 1, MaxSpan <- 2, MaxNow <- 8, FirstNow <- 7,
        FirstZone <- "utc", MaxFaults <- 1, MaxRestarts <- 1

G == INSTANCE GeoUpdate WITH
        faults <- geoFaults, runs <- geoRuns, MaxVersion <- 2, MaxFails <- 1, MaxTime <- 3,
        MaxFaults <- 1, MaxClockSets <- 1, MaxRuns <- 1

reports ==
    <<now, zone, up, archive, runs, outbox, activated, sched, request, faults, restarts>>
geo ==
    <<clock, upstream, active, pending, creds, state, health, timer, unit, op, verified,
      scheduled, excused, geoFaults, clockSets, geoRuns>>
vars == <<part, reports, geo>>

Init ==
    /\ part \in {"reports", "geo"}
    /\ R!ReportInit /\ G!GeoInit
    /\ part # "geo" => ~creds

Next ==
    /\ UNCHANGED part
    /\ \/ part = "reports" /\ R!ReportNext /\ UNCHANGED <<geo>>
       \/ part = "geo" /\ G!GeoNext /\ UNCHANGED <<reports>>

\* The fairness each module states, for the part that moves.
Fairness ==
    /\ WF_reports(part = "reports" /\ R!Scheduling)
    /\ WF_reports(part = "reports" /\ R!Restart)
    /\ WF_geo(part = "geo" /\ G!Step)
    /\ WF_geo(part = "geo" /\ G!TimerRefresh)
    /\ SF_geo(part = "geo" /\ G!Reconcile)
    /\ SF_geo(part = "geo" /\ G!RecoverConfig)

Spec == Init /\ [][Next]_vars /\ Fairness

-----------------------------------------------------------------------------

\* Every day within reach is archived once and for good and every destination
\* is told of it once, across restarts, changes of zone and backfills
\* (report/scheduler.go, report/backfill.go).
ReportsKept ==
    /\ R!ArchiveForGood
    /\ [](part = "reports" => R!ArchiveTrue /\ R!ToldOnce /\ R!BackfillHonest)
    /\ <>[](part = "reports" => R!CaughtUp /\ R!DailyTold)

\* The updater's records stay readable and true whatever fails, and once
\* failures stop it reports success for good (manage/geo.go).
UpdaterSound ==
    /\ [](part = "geo" => G!HealthReadable /\ G!ScheduleKept /\ G!ActiveVerified)
    /\ <>[](part = "geo" => G!Updating)
=============================================================================
