------------------------------ MODULE GeoUpdate ------------------------------
(***************************************************************************)
(* The managed GeoIP update: internal/assets downloads the City and the    *)
(* ASN database and lets a child process validate each one,                *)
(* internal/manage activates the pair, and two metadata files record what  *)
(* happened: geoip-state.json (private, what was installed) and            *)
(* geoip-health.json (public, read by the daemon, who rejects a file that  *)
(* does not satisfy Health.Validate).  A daily timer, an operator and the  *)
(* installer's reconciliation start the operations; the management lock    *)
(* runs one at a time, the process may die after any step, the clock may   *)
(* be set back and systemctl may be used behind the manager's back.        *)
(*                                                                         *)
(* How saveLocked activates a configuration is the module ConfigApply;     *)
(* here it succeeds, rolls back, or leaves its journal behind.             *)
(***************************************************************************)
EXTENDS Integers

CONSTANTS MaxVersion,  \* databases the provider publishes
          MaxFails,    \* where the failure counters saturate
          MaxTime, MaxFaults, MaxClockSets, MaxRuns

VARIABLES clock, upstream,
          active,    \* the pair of databases the configuration names
          pending,   \* an interrupted apply left its journal
          creds,     \* maxmind.credentials.json exists
          state,     \* geoip-state.json
          health,    \* geoip-health.json
          timer,     \* enablement of noderampart-geoip-update.timer
          unit,      \* its service file: absent, legacy, current or custom
          op,        \* the running operation
          verified, scheduled, excused, \* what really happened
          faults, clockSets, runs

geoVars == <<clock, upstream, active, pending, creds, state, health, timer, unit, op,
             verified, scheduled, excused, faults, clockSets, runs>>

NoPair == [city |-> 0, asn |-> 0]
Zero == 0     \* the zero time
NoSchedule == [checked |-> Zero, fails |-> 0, result |-> "none"]
Unknown == [checked |-> Zero, success |-> Zero, fails |-> 0, result |-> "unknown",
            scheduled |-> FALSE, schedule |-> NoSchedule, diagnostic |-> "none"]
Missing == [Unknown EXCEPT !.result = "missing"]
IdleOp == [pc |-> "idle", refresh |-> FALSE, on |-> FALSE, previous |-> Unknown, legacy |-> FALSE,
           pair |-> NoPair, result |-> "unknown", diagnostic |-> "none"]

Bump(n) == IF n < MaxFails THEN n + 1 ELSE n   \* saturates at MaxUint32
Later(a, b) == IF a < b THEN b ELSE a

\* Health.NormalizeLegacy: an old combined failure is split in two.
NormalizeLegacy(h) ==
    IF h.result = "schedule_failed" /\ h.schedule = NoSchedule
    THEN [h EXCEPT !.schedule = [checked |-> Later(h.checked, h.success), fails |-> 1, result |-> "failed"],
                   !.result = "unknown", !.fails = 0, !.checked = h.success]
    ELSE h

\* Health.Validate.
ValidHealth(h) ==
    /\ h.result \in {"ok", "unchanged", "download_failed", "activation_failed", "schedule_failed",
                     "credentials_unavailable", "unknown"}
    /\ h.schedule # NoSchedule =>
         /\ h.result # "schedule_failed"
         /\ h.schedule.checked # Zero
         /\ h.schedule.result = "ok" <=> h.schedule.fails = 0
    /\ h.success # Zero => h.checked # Zero /\ h.success <= h.checked
    /\ h.result \in {"ok", "unchanged"} =>
         h.checked # Zero /\ h.success # Zero /\ h.fails = 0 /\ h.diagnostic = "none"

\* previousGeoHealth: what the file says, or nothing when it is absent or invalid.
PreviousHealth ==
    LET h == NormalizeLegacy(health) IN IF ValidHealth(h) THEN h ELSE Unknown

\* A fresh installation, or an old one with a timer and perhaps old metadata.
GeoInit ==
    /\ clock = 2 /\ upstream = 1 /\ active = NoPair /\ pending = FALSE
    /\ state = [result |-> "none", pair |-> NoPair, built |-> NoPair]
    /\ \/ /\ creds = FALSE /\ timer = FALSE /\ unit = "absent" /\ health = Missing
       \/ /\ creds = TRUE /\ timer = TRUE /\ unit = "legacy"
          /\ health \in {Missing, [Unknown EXCEPT !.result = "schedule_failed", !.checked = 2, !.success = 1,
                                                  !.fails = 1, !.scheduled = TRUE]}
    /\ op = IdleOp /\ verified = {NoPair}
    /\ scheduled = NormalizeLegacy(health).schedule /\ excused = (health = Missing /\ timer)
    /\ faults = 0 /\ clockSets = 0 /\ runs = 0

-----------------------------------------------------------------------------
Fault == faults < MaxFaults /\ faults' = faults + 1
Files == <<active, pending, creds, state, health, timer, unit>>
World == <<clock, upstream, clockSets>>
Go(o) == op' = o
Fail(result, diagnostic) == Go([op EXCEPT !.pc = "finish", !.result = result, !.diagnostic = diagnostic])

Publish ==
    /\ upstream < MaxVersion /\ upstream' = upstream + 1
    /\ UNCHANGED <<clock, clockSets, op, verified, scheduled, excused, faults, runs, Files>>

SetClock ==
    /\ \/ clock < MaxTime /\ clock' = clock + 1 /\ UNCHANGED clockSets
       \/ clockSets < MaxClockSets /\ clockSets' = clockSets + 1 /\ clock' \in 1..(clock - 1)
    /\ UNCHANGED <<upstream, op, verified, scheduled, excused, faults, runs, Files>>

-----------------------------------------------------------------------------
(* updateGeo and updateGeoData. *)

\* A refresh, by the timer or the operator, or the setup with new credentials;
\* "on" is the answer to "update daily?".  An old installation without public
\* metadata has its timer's enablement seeded once.
Begin(refresh, on) ==
    /\ op.pc = "idle"
    /\ Go([IdleOp EXCEPT !.pc = "credentials", !.refresh = refresh, !.on = on, !.previous = PreviousHealth,
                         !.legacy = refresh /\ health = Missing /\ timer])
    /\ UNCHANGED <<World, verified, scheduled, excused, faults, Files>>

TimerRefresh == timer /\ unit # "absent" /\ Begin(TRUE, FALSE) /\ UNCHANGED runs

OperatorUpdate ==
    /\ runs < MaxRuns /\ runs' = runs + 1
    /\ \E on \in BOOLEAN : Begin(FALSE, on) \/ (on /\ Begin(TRUE, on))

\* The configuration, which may not load, and the saved credentials.
Credentials ==
    /\ op.pc = "credentials"
    /\ \/ /\ IF op.refresh /\ ~ creds
             THEN Fail("credentials_unavailable", "credentials")
             ELSE Go([op EXCEPT !.pc = "city"])
          /\ UNCHANGED faults
       \/ Fault /\ Fail("unknown", "configuration")
    /\ UNCHANGED <<World, verified, scheduled, excused, runs, Files>>

\* The defer of updateGeoData: a failed attempt is recorded in geoip-state.json.
StateOf(result) == [state EXCEPT !.result = result]

\* DownloadGeo, one edition at a time; the module GeoDownload has its steps.
\* The legacy unit's sandbox keeps the child that validates a database from
\* dropping its privileges, so a timer's run fails there.
Download(edition, next) ==
    /\ op.pc = edition
    /\ \/ /\ ~ (op.refresh /\ unit = "legacy")
          /\ Go([op EXCEPT !.pc = next, !.pair[edition] = upstream])
          /\ UNCHANGED <<state, faults>>
       \/ /\ \/ op.refresh /\ unit = "legacy" /\ UNCHANGED faults
             \/ Fault
          /\ \E stage \in {"download", "validation"} : Fail("download_failed", stage)
          /\ state' = StateOf("download_failed")
    /\ UNCHANGED <<World, active, pending, creds, health, timer, unit, verified, scheduled, excused, runs>>

Downloads == Download("city", "asn") \/ Download("asn", "activate")

\* Activation: a pending recovery pins the old data; an identical pair is not
\* activated again; otherwise the new pair goes through saveLocked.
Activate ==
    /\ op.pc = "activate"
    /\ creds' = IF pending THEN creds ELSE TRUE
    /\ \/ /\ pending
          /\ Fail("activation_failed", "recovery_pending") /\ state' = StateOf("activation_failed")
          /\ UNCHANGED <<active, pending, faults, verified>>
       \/ /\ ~ pending /\ op.pair = active
          /\ Go([op EXCEPT !.pc = "record", !.result = "unchanged"])
          /\ UNCHANGED <<active, pending, faults, state, verified>>
       \/ /\ ~ pending /\ op.pair # active
          /\ active' = op.pair /\ verified' = verified \cup {op.pair}
          /\ Go([op EXCEPT !.pc = "record", !.result = "ok"])
          /\ UNCHANGED <<pending, faults, state>>
       \/ /\ ~ pending /\ op.pair # active /\ Fault
          /\ active' \in {active, op.pair} /\ pending' \in {active' # active, TRUE}
          /\ verified' = verified \cup {op.pair}
          /\ Fail("activation_failed", "activation") /\ state' = StateOf("activation_failed")
    /\ UNCHANGED <<World, health, timer, unit, scheduled, excused, runs>>

Recorded ==
    IF op.result = "ok" THEN [result |-> "ok", pair |-> op.pair, built |-> op.pair]
    ELSE StateOf("unchanged")

\* geoip-state.json; when it cannot be saved the attempt counts as failed
\* although the data is active.
RecordState ==
    /\ op.pc = "record"
    /\ \/ /\ state' = Recorded
          /\ Go([op EXCEPT !.pc = IF op.refresh THEN "clean" ELSE "schedule"])
          /\ UNCHANGED faults
       \/ /\ Fault /\ UNCHANGED state
          /\ Fail("activation_failed", "metadata_save_failed")
    /\ UNCHANGED <<World, active, pending, creds, health, timer, unit, verified, scheduled, excused, runs>>

CleanGeo ==
    /\ op.pc = "clean"
    /\ \/ Go([op EXCEPT !.pc = "finish"]) /\ UNCHANGED <<state, faults>>
       \/ /\ Fault /\ Fail("activation_failed", "cleanup") /\ state' = StateOf("cleanup_failed")
    /\ UNCHANGED <<World, active, pending, creds, health, timer, unit, verified, scheduled, excused, runs>>

\* The end of updateGeo: the public metadata is read again, because the setup
\* may have recorded a scheduling outcome in between.
Updated(h) ==
    LET at == Later(Later(clock, h.success), op.previous.checked)
        good == op.result \in {"ok", "unchanged"}
    IN  [h EXCEPT !.scheduled = @ \/ op.legacy, !.checked = at,
                  !.success = IF good THEN at ELSE @,
                  !.result = op.result, !.diagnostic = op.diagnostic,
                  !.fails = IF good THEN 0 ELSE Bump(op.previous.fails)]

FinishUpdate ==
    /\ op.pc = "finish"
    /\ Go(IdleOp)
    /\ \/ /\ health' = Updated(PreviousHealth)
          /\ excused' = (excused /\ ~ (op.legacy /\ timer))
          /\ UNCHANGED faults
       \/ Fault /\ UNCHANGED <<health, excused>>
    /\ UNCHANGED <<World, active, pending, creds, state, timer, unit, verified, scheduled, runs>>

-----------------------------------------------------------------------------
(* scheduleGeo: after a setup, or on its own. *)

ScheduleOutcome(h, failed) ==
    [checked |-> Later(Later(clock, h.schedule.checked), Later(h.checked, h.success)),
     fails |-> IF failed THEN Bump(h.schedule.fails) ELSE 0,
     result |-> IF failed THEN "failed" ELSE "ok"]

\* scheduleGeoService: the service file is written before the timer is enabled,
\* and a command that reports a failure may have taken effect.
ScheduledUnit == IF op.on THEN <<"current", TRUE>> ELSE <<unit, FALSE>>
Interrupted == {<<unit, timer>>, ScheduledUnit} \cup (IF op.on THEN {<<"current", timer>>} ELSE {})

ScheduleGeo ==
    /\ op.pc = "schedule"
    /\ \E failed, saved \in BOOLEAN :
          /\ failed \/ ~ saved => faults < MaxFaults
          /\ faults' = IF failed \/ ~ saved THEN faults + 1 ELSE faults
          /\ \E u \in IF failed THEN Interrupted ELSE {ScheduledUnit} : unit' = u[1] /\ timer' = u[2]
          /\ LET h == PreviousHealth
                 outcome == ScheduleOutcome(h, failed)
             IN  /\ health' = IF ~ saved THEN health
                              ELSE [h EXCEPT !.schedule = outcome,
                                             !.scheduled = IF failed THEN @ ELSE op.on]
                 /\ scheduled' = IF saved THEN outcome ELSE scheduled
          /\ excused' = (failed \/ ~ saved)
          /\ Go(IF op.previous = Missing THEN IdleOp
                ELSE IF failed \/ ~ saved THEN [op EXCEPT !.pc = "finish"] ELSE [op EXCEPT !.pc = "clean"])
    /\ UNCHANGED <<World, active, pending, creds, state, verified, runs>>

\* The operator's geo_schedule: enabling needs saved credentials.  An operation
\* of its own, marked by having no snapshot of the metadata.
OperatorSchedule ==
    /\ op.pc = "idle" /\ runs < MaxRuns /\ runs' = runs + 1
    /\ \E on \in BOOLEAN :
          /\ on => creds
          /\ Go([IdleOp EXCEPT !.pc = "schedule", !.on = on, !.previous = Missing])
    /\ UNCHANGED <<World, verified, scheduled, excused, faults, Files>>

\* Mutant: the old service file is not recognized.
ReconcilesUnrecognized(u) == u = "unpublished"

\* reconcileGeoSchedule, run by the installer: only the recognized old service
\* file is replaced; enablement and metadata stay as they are.
Reconciles(u) == u = "legacy"

Reconcile ==
    /\ op.pc = "idle" /\ Reconciles(unit)
    /\ unit' = "current"
    /\ UNCHANGED <<World, active, pending, creds, state, health, timer, op, verified, scheduled, excused, faults, runs>>

-----------------------------------------------------------------------------
\* The operation dies: killed, timed out, power lost.  During an activation the
\* journal stays behind.
Die ==
    /\ op.pc # "idle" /\ Fault
    /\ IF op.pc = "activate" /\ ~ pending /\ op.pair # active
       THEN /\ active' \in {active, op.pair} /\ pending' = TRUE /\ verified' = verified \cup {op.pair}
       ELSE UNCHANGED <<active, pending, verified>>
    /\ Go(IdleOp)
    /\ excused' = (excused \/ op.pc = "schedule")
    /\ \E u \in IF op.pc = "schedule" THEN Interrupted ELSE {<<unit, timer>>} : unit' = u[1] /\ timer' = u[2]
    /\ UNCHANGED <<World, creds, state, health, scheduled, runs>>

\* The operator restores the previous configuration (external: ConfigApply).
RecoverConfig ==
    /\ op.pc = "idle" /\ pending
    /\ pending' = FALSE /\ active' \in verified
    /\ UNCHANGED <<World, creds, state, health, timer, unit, op, verified, scheduled, excused, faults, runs>>

\* systemctl, or an editor, behind the manager's back.
Meddle ==
    /\ runs < MaxRuns /\ runs' = runs + 1
    /\ unit # "absent"
    /\ \/ timer' = ~ timer /\ excused' = TRUE /\ UNCHANGED unit
       \/ unit' = "custom" /\ UNCHANGED <<timer, excused>>
    /\ UNCHANGED <<World, active, pending, creds, state, health, op, verified, scheduled, faults>>

Step ==
    Credentials \/ Downloads \/ Activate \/ RecordState \/ CleanGeo \/ FinishUpdate \/ ScheduleGeo

GeoNext ==
    \/ Publish \/ SetClock \/ TimerRefresh \/ OperatorUpdate \/ OperatorSchedule \/ Step
    \/ Reconcile \/ Die \/ RecoverConfig \/ Meddle

\* An operation runs to its end, the timer elapses every day, the package
\* manager runs the reconciliation and the operator answers a failed apply.
GeoFairness ==
    WF_geoVars(Step) /\ WF_geoVars(TimerRefresh) /\ SF_geoVars(Reconcile) /\ SF_geoVars(RecoverConfig)

GeoSpec == GeoInit /\ [][GeoNext]_geoVars /\ GeoFairness

-----------------------------------------------------------------------------
\* The daemon accepts every geoip-health.json the manager writes (Validate): a
\* clock set back, a failed attempt or a scheduling outcome in between never
\* makes it contradict itself, which would lose the whole record.
HealthReadable == health # Missing => ValidHealth(NormalizeLegacy(health))

\* The scheduling outcome last written survives the end of the update that
\* caused it, and the recorded enablement is the timer's unless a command
\* failed, a write failed or systemctl was used directly.
ScheduleKept ==
    /\ NormalizeLegacy(health).schedule = scheduled
    /\ ~ excused /\ op.pc = "idle" => health.scheduled = timer

\* The pair in use passed validation as one download, and the build dates that
\* geoStatus calls current are those of the files in use.
ActiveVerified ==
    /\ active \in verified
    /\ state.pair = active => state.built = active

\* A scheduled updater ends up reporting success for good once failures stop:
\* a journal left behind, an unsafe old sandbox, lost metadata or a clock set
\* back do not disable it.
Updating == timer /\ creds => health.result \in {"ok", "unchanged"}
UpdatesRecover == <>[]Updating
=============================================================================
