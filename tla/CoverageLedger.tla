-------------------------- MODULE CoverageLedger ---------------------------
(***************************************************************************)
(* The history of one component's state: component_status and              *)
(* coverage_intervals (internal/store: coverage.go), the integrity view    *)
(* computed from them (integrity.go), and the component that changes most, *)
(* the sensor feed (internal/daemon: sensor_state.go, interfaces.go and    *)
(* the coverage ticker of app.go).                                         *)
(*                                                                         *)
(* Operations happen at instants 0 .. MaxTime; unit t of the history lies  *)
(* between the instants t and t + 1.                                       *)
(***************************************************************************)
EXTENDS Integers, Sequences, FiniteSets, FiniteSetsExt

CONSTANTS
    MaxTime,        \* bound: instants 0 .. MaxTime
    StaleAfter,     \* sensorStaleAfter
    MaxIntervals,   \* maxCoverageIntervals
    MaxTroubles     \* bound: crashes, failed writes and clock changes

VARIABLES
    now,        \* host clock
    proc,       \* the daemon: "down", "starting" or "up"
    batchAt,    \* sensorByInterface: time of the last batch, -1 without one
    discovered, \* not discoveryDegraded, and interfaces observed
    cache,      \* a.sensorState, "" when nothing is known to be recorded
    status,     \* component_status: at most one row [state, at]
    intervals,  \* coverage_intervals; end is Open while it lasts
    decided,    \* history: the state the daemon last decided on
    truth,      \* history: per unit, what the process was in: "down" or a state; {"excused"}
                \* after a failed write and once a running process sees the unit again
    dropped,    \* history: the end of the last evicted interval
    since,      \* history: when this process first recorded a state, -1 before
    mishaps

vars == <<now, proc, batchAt, discovered, cache, status, intervals, decided, truth,
          dropped, since, mishaps>>
ledger == <<cache, status, intervals, decided, dropped, since>>
feed == <<batchAt, discovered>>

Open == -1
Units == 0 .. MaxTime - 1
States == {"running", "degraded"}

Up == proc = "up"
Alive == proc # "down"

Mishap == mishaps < MaxTroubles /\ mishaps' = mishaps + 1

\* A write succeeds, or fails while the bound lasts.
Wrote(ok) == IF ok THEN UNCHANGED mishaps ELSE Mishap

Later(a, b) == IF a > b THEN a ELSE b
Earlier(a, b) == IF a < b THEN a ELSE b

StatusAt == IF status = {} THEN Open ELSE (CHOOSE s \in status : TRUE).at
Recorded == IF status = {} THEN "" ELSE (CHOOSE s \in status : TRUE).state

---------------------------------------------------------------------------
(* The store. *)

CloseOpen(list, at) ==
    [i \in DOMAIN list |->
        IF list[i].end = Open THEN [list[i] EXCEPT !.end = Later(list[i].start, at)] ELSE list[i]]

\* The closed intervals beyond the newest MaxIntervals.
Evicted(list) == {i \in DOMAIN list : list[i].end # Open /\ i <= Len(list) - MaxIntervals}
Keep(list) ==
    LET kept == {i \in DOMAIN list : i \notin Evicted(list)}
    IN  [k \in 1 .. Cardinality(kept) |->
            list[CHOOSE i \in kept : Cardinality({j \in kept : j <= i}) = k]]

\* setCoverage: a change of state ends the open interval and begins another;
\* the time of the last sign of life never goes back.
SetCoverage(state) ==
    LET list == Append(CloseOpen(intervals, now), [state |-> state, start |-> now, end |-> Open])
    IN  /\ intervals' = IF Recorded = state THEN intervals ELSE Keep(list)
        /\ dropped' = IF Recorded = state THEN dropped
                      ELSE Max({dropped} \cup {list[i].end : i \in Evicted(list)})
        /\ status' = {[state |-> state, at |-> Later(StatusAt, now)]}

\* resetCoverage: what was open ends with the last sign of life of the old
\* process; from there to now nothing is known.
ResetCoverage ==
    LET closed == CloseOpen(intervals, Earlier(now, StatusAt))
    IN  /\ intervals' = IF status # {} /\ StatusAt < now
                        THEN Append(closed, [state |-> "unknown", start |-> StatusAt, end |-> now])
                        ELSE closed
        /\ status' = {}

\* HeartbeatCoverage
Heartbeat ==
    {[s EXCEPT !.at = Later(@, now)] : s \in status}

---------------------------------------------------------------------------
(* The daemon. *)

\* sensorCoverageState
Fresh(at) == at # -1 /\ now - at <= StaleAfter /\ at - now <= StaleAfter
SensorCoverageState(at, found) == IF found /\ Fresh(at) THEN "running" ELSE "degraded"

\* Mutant: a failed write is remembered as done.
SetSensorStateTrusting(state, ok, quiet) ==
    /\ decided' = state /\ cache' = state
    /\ IF ok /\ cache # state THEN SetCoverage(state) /\ since' = IF since = -1 THEN now ELSE since
       ELSE status' = quiet /\ UNCHANGED <<intervals, dropped, since>>

\* setSensorState: decided and written under one gate.  A failed write
\* empties the cache, so that the next refresh tries again.  Without a write
\* the status is `quiet'.
SetSensorState(state, ok, quiet) ==
    /\ decided' = state
    /\ IF ok /\ cache # state
       THEN /\ SetCoverage(state) /\ cache' = state
            /\ since' = IF since = -1 THEN now ELSE since
       ELSE /\ cache' = IF cache = state THEN cache ELSE ""
            /\ status' = quiet /\ UNCHANGED <<intervals, dropped, since>>

\* A refresh for a state, whose write fails or not.
Refresh(state) ==
    \E ok \in BOOLEAN : Wrote(ok) /\ SetSensorState(state, ok, status)

\* A batch of the sensor, then the refresh of the state.
HandleBatch ==
    /\ Up
    /\ batchAt' = now /\ UNCHANGED discovered
    /\ Refresh(SensorCoverageState(now, discovered))
    /\ UNCHANGED <<now, proc, truth>>

\* updateDiscovery and updateInterfaces: the interfaces are found, or not.
Discover(found) ==
    /\ Up /\ discovered # found
    /\ discovered' = found /\ UNCHANGED batchAt
    /\ Refresh(SensorCoverageState(batchAt, found))
    /\ UNCHANGED <<now, proc, truth>>

\* The coverage ticker: the heartbeat, then the refresh.
CoverageTick ==
    /\ Up
    /\ \E beat, ok \in BOOLEAN :
        /\ Wrote(beat /\ ok)
        /\ SetSensorState(SensorCoverageState(batchAt, discovered), ok, IF beat THEN Heartbeat ELSE status)
    /\ UNCHANGED <<now, proc, feed, truth>>

Crash ==
    /\ Alive /\ Mishap /\ proc' = "down"
    /\ UNCHANGED <<now, feed, ledger, truth>>

\* Run resets the ledger, then lets the feed begin as degraded.
Start ==
    /\ proc = "down" /\ proc' = "starting"
    /\ ResetCoverage
    /\ cache' = "" /\ decided' = "degraded" /\ since' = -1
    /\ batchAt' = -1 /\ discovered' = FALSE
    /\ UNCHANGED <<now, truth, dropped, mishaps>>

Started ==
    /\ proc = "starting" /\ proc' = "up"
    /\ Refresh("degraded")
    /\ UNCHANGED <<now, feed, truth>>

Init ==
    /\ now = 0 /\ proc = "down" /\ batchAt = -1 /\ discovered = FALSE
    /\ cache = "" /\ status = {} /\ intervals = <<>> /\ decided = "degraded"
    /\ truth = [t \in Units |-> {}]
    /\ dropped = 0 /\ since = -1 /\ mishaps = 0

\* A unit passes.
Excused == {"excused"}
Passed(t) == IF truth[t] = Excused \/ (Alive /\ Recorded # decided) THEN Excused
             ELSE truth[t] \cup {IF Alive THEN decided ELSE "down"}

Advance ==
    /\ now < MaxTime /\ now' = now + 1
    /\ truth' = [truth EXCEPT ![now] = Passed(now)]
    /\ UNCHANGED <<proc, feed, ledger, mishaps>>

\* The clock is set back.
ClockBack ==
    /\ now > 0 /\ Mishap
    /\ now' \in 0 .. now - 1
    /\ truth' = [t \in Units |-> IF Alive /\ t >= now' THEN Excused ELSE truth[t]]
    /\ UNCHANGED <<proc, feed, ledger>>

Next == \/ HandleBatch \/ (\E found \in BOOLEAN : Discover(found)) \/ CoverageTick
        \/ Crash \/ Start \/ Started \/ Advance \/ ClockBack

\* The tickers of a running daemon.
Spec == Init /\ [][Next]_vars /\ WF_vars(Started) /\ WF_vars(CoverageTick)

---------------------------------------------------------------------------
(* integritySegments: the one state with evidence for a unit, else unknown. *)

EndOf(i) == IF intervals[i].end # Open THEN intervals[i].end
            ELSE IF status # {} THEN StatusAt ELSE intervals[i].start
Active(t) == {intervals[i].state : i \in {j \in DOMAIN intervals :
                 intervals[j].start <= t /\ t < Earlier(EndOf(j), now)}}
View(t) == IF Cardinality(Active(t)) = 1 THEN CHOOSE s \in Active(t) : TRUE ELSE "unknown"

(* Properties *)

\* What the integrity view shows of a unit was so: a process lived in it and
\* had decided on that state.  Only a state whose write failed, and a clock
\* that was set back under a running process, may leave another one.
ViewTrue ==
    \A t \in Units : View(t) \in truth[t] \cup {"unknown"} \/ truth[t] = Excused

\* From its first record to its last sign of life, a process has no hole in
\* the view beyond what was evicted.
ViewComplete ==
    (Alive /\ since # -1) =>
        \A t \in Units : (dropped <= t /\ since <= t /\ t < Earlier(StatusAt, now))
                            => View(t) # "unknown" \/ truth[t] = Excused

\* A state that could not be written is written in the end.
StateSettles == []<>(~Alive \/ Recorded = decided)
=============================================================================
