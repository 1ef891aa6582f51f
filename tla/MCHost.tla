------------------------------ MODULE MCHost --------------------------------
(***************************************************************************)
(* Six parts that do not call each other, where safety is the question:    *)
(* the detector of failed logins, the traffic monitor, the GeoIP download  *)
(* and the validation of its values, backup and restore, and the paging of *)
(* history. A behaviour follows one of them, "part", and the others stay   *)
(* in their initial states, so that one run explores every state of each   *)
(* and their state spaces add up instead of multiplying.                   *)
(***************************************************************************)
EXTENDS BackupRestore, Integers, Sequences, FiniteSets

CONSTANTS a1, a2, a3   \* source addresses

VARIABLES
    part,
    \* AuthDetector
    det, instant, turn, actual, alerts, authVerdict,
    \* Monitor
    rule, disk, mon, cfg, started, now, tx, lastBad, failing, off, epoch, spent,
    \* GeoDownload
    ctx, pc, edition, dir, staged, members, found, notices, stream, child, before, digest,
    failure, installed, cause, valid, tampers,
    \* HistoryPages
    events, gone, view, steady,
    \* MMDBValues
    data, metadata, offset, stack, control, recordValues, expandedValues, operations, cache,
    verdict

A == INSTANCE AuthDetector WITH
        verdict <- authVerdict, Addresses <- {a1, a2, a3}, MaxSources <- 2, MaxPerSource <- 3,
        EntryLimit <- 4, PruneEvery <- 3, Window <- 1, Cooldown <- 3, Threshold <- 2,
        MaxInstant <- 5, MaxFailures <- 2

M == INSTANCE Monitor WITH
        Rules <- {"health", "ssh", "geo", "month", "day"}, Grace <- 1, Recovery <- 1, Reminder <- 2,
        Span <- 3, Thresholds <- {2, 5}, Amounts <- {0, 4}, MaxTime <- 14, MaxTrouble <- 2

D == INSTANCE GeoDownload WITH file <- staged, MaxMembers <- 3, MaxTampers <- 2

H == INSTANCE HistoryPages WITH
        Ids <- {1, 2, 3}, Incidents <- {0, 1, 2}, Limits <- {1, 2}, MaxMilli <- 2,
        MaxBrowserHistory <- 2

V == INSTANCE MMDBValues WITH
        MaxCells <- 5, DepthLimit <- 3, RecordValueLimit <- 5, ValueLimit <- 9,
        WorkLimit <- 8, CacheSlots <- 2

auth ==
    <<det, instant, turn, actual, alerts, authVerdict>>
monitor ==
    <<rule, disk, mon, cfg, started, now, tx, lastBad, failing, off, epoch, spent>>
download ==
    <<ctx, pc, edition, dir, staged, members, found, notices, stream, child, before, digest,
      failure, installed, cause, valid, tampers>>
backup ==
    <<file, job, daemon, site, begun, troubles>>
history ==
    <<events, gone, view, steady>>
mmdb ==
    <<data, metadata, offset, stack, control, recordValues, expandedValues, operations,
      cache, verdict>>
vars == <<part, auth, monitor, download, backup, history, mmdb>>

\* A part that does not move keeps one of its initial states.
Init ==
    /\ part \in {"auth", "monitor", "download", "backup", "history", "mmdb"}
    /\ A!Init /\ D!DownloadInit /\ H!HistoryInit
    /\ (part # "monitor" => rule = "day" /\ cfg = CHOOSE c \in M!Configs : c.zone = 0 /\ c.cycle = 0 /\ c.enabled) /\ M!Init
    /\ BackupInit /\ (part # "backup" => file["live"].version = 14)
    /\ (part # "mmdb" => data = <<<<"scalar", 0>>>> /\ metadata = FALSE) /\ V!MMDBInit

Next ==
    /\ UNCHANGED part
    /\ \/ /\ part = "auth" /\ A!Next
          /\ UNCHANGED <<monitor, download, backup, history, mmdb>>
       \/ /\ part = "monitor" /\ M!Next
          /\ UNCHANGED <<auth, download, backup, history, mmdb>>
       \/ /\ part = "download" /\ D!DownloadNext
          /\ UNCHANGED <<auth, monitor, backup, history, mmdb>>
       \/ /\ part = "backup" /\ BackupNext
          /\ UNCHANGED <<auth, monitor, download, history, mmdb>>
       \/ /\ part = "history" /\ H!HistoryNext
          /\ UNCHANGED <<auth, monitor, download, backup, mmdb>>
       \/ /\ part = "mmdb" /\ V!MMDBNext
          /\ UNCHANGED <<auth, monitor, download, backup, history>>

Spec == Init /\ [][Next]_vars

-----------------------------------------------------------------------------

\* Failed logins that reach the threshold are alerted once per cooldown and the
\* evidence of a success is complete, or a gap is admitted, though sources are
\* evicted, trimmed and pruned; the totals of entries and slots stay exact
\* (detect/auth.go).
AuthSound ==
    part = "auth" => A!NoSilentMiss /\ A!EvidenceHonest /\ A!NoExcessAlert /\ A!SlotsAccounted

\* Incidents and milestones are announced once and in time, an incident ends
\* with its event and a month gives way only when it is closed, through failed
\* and doubtful commits, restarts, edits and clocks set back (daemon/monitor.go).
MonitorSound ==
    /\ [](part = "monitor" => M!IncidentsTold /\ M!MilestonesOnce /\ M!AlertInTime)
    /\ M!MonthsClosed /\ M!IncidentsEnd

\* A failed download names what really happened, and every installed database
\* was validated as it is (assets/geo.go, assets/validator.go).
DownloadSound == part = "download" => D!FailureTraced /\ D!InstalledIsValidated

\* Paging through events, timelines and incidents while rows come and go skips
\* no untouched row, repeats none and stays within the bounds (store/timeline.go,
\* console/browser.go).
PagesExact == part = "history" => H!NothingSkipped /\ H!NothingTwice /\ H!WithinBounds

\* The validator of GeoIP values accepts exactly what decodes within the limits
\* and charges every record with its expansion, cached or not (assets/mmdb_bounds.go).
ValuesExact == part = "mmdb" => V!VerdictExact /\ V!ChargesExact
=============================================================================
