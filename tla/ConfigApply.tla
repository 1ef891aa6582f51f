---------------------------- MODULE ConfigApply ----------------------------
(***************************************************************************)
(* The configuration transaction of internal/manage: every setup action    *)
(* (saving a form, a new credential, a price profile, a GeoIP generation)  *)
(* stages immutable files, journals the previous configuration, replaces   *)
(* the configuration file, restarts the services that ran and either       *)
(* removes the journal or rolls back.  A crash may fall between any two    *)
(* of its writes; "Recover previous configuration" finishes the rollback.  *)
(*                                                                         *)
(* A configuration is its content: a revision, the managed files it names  *)
(* (one per kind) and whether the sensor is enabled.  Comparing digests is *)
(* comparing contents.  Reads of the journal, the configuration and the    *)
(* services happen in steps of their own, so an administrator's edit or a  *)
(* dying service can fall between a check and the write that relies on it. *)
(***************************************************************************)
EXTENDS Naturals, Sequences, FiniteSets

CONSTANTS
    Managers,     \* processes that may run a management operation
    FormOnly,     \* those of them that only save forms (a second console left open)
    Kinds,        \* kinds of managed files: "secret", "profile", "geo"
    None,         \* no file, no configuration, no journal, nobody
    MaxOps,       \* operations begun in one behaviour (recoveries apart)
    MaxTrouble    \* faults, edits and crashes in one behaviour

VARIABLES
    config,    \* content of the configuration file, or None
    journal,   \* .management-apply.json, or None
    files,     \* managed files on disk, <<kind, serial>>
    svc,       \* what systemd runs: state of each unit, configuration the daemon loaded
    masked,    \* units the administrator has masked
    op,        \* the operation each manager process is in
    lock,      \* process that holds the management lock, or None
    child,     \* the systemctl command each process has under way, or None
    serial,    \* names and revisions are random and never used twice
    ops, faults, edits, crashes,   \* used up so far
    blind      \* an edit fell between the last check of the file and its replacement

vars == <<config, journal, files, svc, masked, op, lock, child, serial, ops, faults, edits, crashes, blind>>
counters == <<ops, faults, edits, crashes, blind>>

Units == {"daemon", "sensor"}
Commands == {"stop", "start", "restart"} \X Units

\* What a configuration file and the apply journal can hold.
AnyConfig == [rev : Nat, refs : [Kinds -> (Kinds \X Nat) \cup {None}], sensor : BOOLEAN]
Stages == {"prepared", "candidate_written", "activating", "failed", "recovering",
           "config_restored", "services_restored"}
AnyJournal == [before : AnyConfig \cup {None}, after : AnyConfig, ran : SUBSET Units, stage : Stages]

\* The kinds the operations name exist, and None is none of the things it stands in for.
ASSUME ConfigAssumption ==
    /\ {"secret", "profile", "geo"} \subseteq Kinds
    /\ None \notin Managers
    /\ None \notin AnyConfig /\ None \notin AnyJournal /\ None \notin Commands

NoRefs == [k \in Kinds |-> None]
DefaultConfig == [rev |-> 0, refs |-> NoRefs, sensor |-> TRUE]
Idle == [pc |-> "idle", kind |-> None, snap |-> None, cand |-> None, file |-> None,
         before |-> None, ran |-> {}, steps |-> <<>>, retried |-> FALSE, ok |-> FALSE]

\* Load: a missing file is the built-in default, with an empty fingerprint.
Load(c) == IF c = None THEN DefaultConfig ELSE c
Refs(c) == {Load(c).refs[k] : k \in Kinds} \ {None}
Running(u) == svc[u] = "active"

\* stableServices: an active masked unit, or one in transition, is refused.
StableServices == \A u \in Units : /\ svc[u] # "activating"
                                   /\ ~(Running(u) /\ u \in masked)

\* preflight: everything the configuration names is there and readable for the daemon.
DaemonReadable(f) == f \in files
Preflight(c) == \A f \in Refs(c) : DaemonReadable(f)

\* writeFile renames a synced temporary file and removeFile unlinks; when syncing the
\* directory fails afterwards they report an error although the change is visible.
AfterFailedWrite(old, new) == {old, new}
AfterFailedRemove(old) == {old, None}

\* A first setup, or a running host; where the sensor does not run it is masked.
Init ==
    /\ config \in {None, [DefaultConfig EXCEPT !.refs = [k \in Kinds |-> <<k, 0>>]]}
    /\ files = Refs(config)
    /\ journal = None
    /\ svc \in {[daemon |-> IF config = None THEN "inactive" ELSE "active", sensor |-> s, loaded |-> config] :
               s \in {"inactive"} \cup (IF config = None THEN {} ELSE {"active"})}
    /\ masked = IF svc.sensor = "inactive" /\ config # None THEN {"sensor"} ELSE {}
    /\ op = [p \in Managers |-> Idle]
    /\ lock = None
    /\ child = [p \in Managers |-> None]
    /\ serial = 1
    /\ ops = 0 /\ faults = 0 /\ edits = 0 /\ crashes = 0 /\ blind = FALSE

-----------------------------------------------------------------------------
(* Taking and leaving the lock.  flock does not wait: an operation that    *)
(* finds it taken is refused.  A child keeps the inherited lock alive.     *)

\* Mutant: commands are started without the lock file.
LockedNotInherited == lock # None

Locked == lock # None \/ \E p \in Managers : child[p] # None

Trouble == faults + edits + crashes < MaxTrouble
Fault == Trouble /\ faults' = faults + 1
Same == UNCHANGED <<masked, ops, edits, crashes, blind>>

\* The next step of p's operation; the other fields of its record as given.
At(p, pc) == op[p].pc = pc /\ lock = p /\ child[p] = None
Go(p, pc) == op' = [op EXCEPT ![p].pc = pc]
Post(p, ok) == op' = [op EXCEPT ![p] = [Idle EXCEPT !.pc = "post", !.kind = op[p].kind, !.ok = ok,
                                          !.cand = op[p].cand, !.file = op[p].file]]

\* A console opens a form: the snapshot may be stale when it is saved.
OpenForm(p) ==
    /\ op[p].pc = "idle" /\ ops < MaxOps
    /\ op' = [op EXCEPT ![p] = [Idle EXCEPT !.pc = "form", !.kind = "save", !.snap = config]]
    /\ ops' = ops + 1
    /\ UNCHANGED <<config, journal, files, svc, masked, lock, child, serial, faults, edits, crashes, blind>>

\* Save; what the form changed is the sensor switch.
SaveForm(p) ==
    /\ op[p].pc = "form" /\ ~Locked
    /\ lock' = p
    /\ op' = [op EXCEPT ![p].pc = "read",
                        ![p].cand = [Load(op[p].snap) EXCEPT !.rev = serial, !.sensor = ~@]]
    /\ serial' = serial + 1
    /\ UNCHANGED <<config, journal, files, svc, masked, child, counters>>

Refused(p) ==
    /\ op[p].pc = "form" /\ Locked
    /\ op' = [op EXCEPT ![p] = Idle]
    /\ UNCHANGED <<config, journal, files, svc, masked, lock, child, serial, counters>>

\* An operation starts under the lock from the configuration as it is now.
BeginWith(p, rec) ==
    /\ op[p].pc = "idle" /\ ~Locked /\ ops < MaxOps
    /\ lock' = p
    /\ op' = [op EXCEPT ![p] = rec]
    /\ ops' = ops + 1
    /\ UNCHANGED <<config, journal, files, svc, masked, child, faults, edits, crashes, blind>>

\* One that writes a new managed file first, and one that only changes the configuration.
Staging(kind) == [Idle EXCEPT !.pc = "stage", !.kind = kind, !.snap = config]
Changing(kind, ref) ==
    [Idle EXCEPT !.pc = "read", !.kind = kind, !.snap = config,
       !.cand = [Load(config) EXCEPT !.rev = serial, !.refs[kind] = ref]]

\* A new token, or other settings with the token kept.
Telegram(p) ==
    \/ BeginWith(p, Staging("secret")) /\ UNCHANGED serial
    \/ BeginWith(p, Changing("secret", Load(config).refs["secret"])) /\ serial' = serial + 1

\* Credentials replaced, kept or cleared.
Native(p) ==
    \/ BeginWith(p, Staging("secret")) /\ UNCHANGED serial
    \/ /\ \E ref \in {Load(config).refs["secret"], None} : BeginWith(p, Changing("secret", ref))
       /\ serial' = serial + 1

\* Setup and subscription change the configuration; credentials as in Native.
Official(p) ==
    \/ BeginWith(p, Staging("secret")) /\ UNCHANGED serial
    \/ /\ \E ref \in {Load(config).refs["secret"], None} : BeginWith(p, Changing("secret", ref))
       /\ serial' = serial + 1

\* A configured privacy key is never replaced.
GenerateKey(p) ==
    /\ Load(config).refs["secret"] = None
    /\ BeginWith(p, Staging("secret")) /\ UNCHANGED serial

UseProfile(p) == BeginWith(p, Staging("profile")) /\ UNCHANGED serial

UpdateGeo(p) == BeginWith(p, Staging("geo")) /\ UNCHANGED serial

-----------------------------------------------------------------------------
(* Staging: orphans of the kind go first, then the new file is written.    *)

Orphans(kind, keep) == {f \in files : f[1] = kind /\ f \notin Refs(keep)}

\* Mutant: cleanup ignores a pending recovery.
CleanUnpinned(kind, keep) == files \ Orphans(kind, keep)

\* A pending journal pins every managed file.
Clean(kind, keep) == IF journal = None THEN files \ Orphans(kind, keep) ELSE files

\* The same for GeoIP generations, each a directory removed as a whole.
CleanGeo(keep) == IF journal = None THEN files \ Orphans("geo", keep) ELSE files

\* The staged file is on disk: the candidate is the snapshot naming it.
Staged(p, new) ==
    [op EXCEPT ![p].pc = "read", ![p].file = new,
               ![p].cand = [Load(op[p].snap) EXCEPT !.rev = serial, !.refs[op[p].kind] = new]]

\* newSecret, and useProfile before it saves.
StageFile(p) ==
    /\ At(p, "stage") /\ op[p].kind # "geo"
    /\ LET kind == op[p].kind
           new == <<kind, serial>>
       IN \/ /\ journal # None
             /\ Post(p, FALSE)
             /\ UNCHANGED <<files, serial, faults>>
          \/ /\ journal = None
             /\ files' = Clean(kind, config) \cup {new}
             /\ op' = Staged(p, new)
             /\ serial' = serial + 1
             /\ UNCHANGED faults
          \/ /\ journal = None /\ Fault
             /\ files' = Clean(kind, config)
             /\ Post(p, FALSE)
             /\ UNCHANGED serial
    /\ UNCHANGED <<config, journal, svc, lock, child>> /\ Same

\* updateGeoData: a failed download leaves everything; a pending recovery refuses;
\* a copy that fails half way leaves a generation that the final cleanup removes.
StageGeneration(p) ==
    /\ At(p, "stage") /\ op[p].kind = "geo"
    /\ LET new == <<"geo", serial>>
       IN \/ /\ journal # None
             /\ Post(p, FALSE)
             /\ UNCHANGED <<files, serial, faults>>
          \/ /\ journal = None
             /\ files' = CleanGeo(op[p].snap) \cup {new}
             /\ op' = Staged(p, new)
             /\ serial' = serial + 1
             /\ UNCHANGED faults
          \/ /\ Fault /\ Post(p, FALSE)
             /\ files' \in {files} \cup (IF journal = None THEN {CleanGeo(op[p].snap) \cup {new}} ELSE {})
             /\ serial' = serial + 1
    /\ UNCHANGED <<config, journal, svc, lock, child>> /\ Same

\* Only a complete managed generation counts as the active one.
ActiveGeneration(c) == Load(c).refs["geo"] \in files

\* The downloaded bytes are the active ones: nothing is applied, and an edit
\* since the download began is an error.
GeoUnchanged(p) ==
    /\ At(p, "stage") /\ op[p].kind = "geo" /\ journal = None
    /\ ActiveGeneration(op[p].snap)
    /\ files' = CleanGeo(op[p].snap)
    /\ Post(p, config = op[p].snap)
    /\ UNCHANGED <<config, journal, svc, lock, child, serial, faults>> /\ Same

-----------------------------------------------------------------------------
(* saveLocked.                                                             *)

ReadBefore(p) ==
    /\ At(p, "read")
    /\ \/ /\ Preflight(op[p].cand) /\ journal = None /\ config = op[p].snap /\ StableServices
          /\ op' = [op EXCEPT ![p].pc = "prepare", ![p].before = config, ![p].snap = None,
                              ![p].ran = {u \in Units : Running(u)}]
          /\ UNCHANGED faults
       \/ /\ ~(Preflight(op[p].cand) /\ journal = None /\ config = op[p].snap /\ StableServices)
          /\ Post(p, FALSE)
          /\ UNCHANGED faults
       \/ Fault /\ Post(p, FALSE)
    /\ UNCHANGED <<config, journal, files, svc, lock, child, serial>> /\ Same

Record(p, stage) == [before |-> op[p].before, after |-> op[p].cand, ran |-> op[p].ran, stage |-> stage]

\* recordApply("prepared"); a failed directory sync reports an error for a journal that is there.
Prepare(p) ==
    /\ At(p, "prepare")
    /\ \/ journal' = Record(p, "prepared") /\ Go(p, "recheck") /\ UNCHANGED faults
       \/ journal' \in AfterFailedWrite(journal, Record(p, "prepared")) /\ Post(p, FALSE) /\ Fault
    /\ UNCHANGED <<config, files, svc, lock, child, serial>> /\ Same

\* Mutant: the configuration is not read again.
RecheckSkipped(p) ==
    /\ At(p, "recheck") /\ Go(p, "write")
    /\ UNCHANGED <<journal, faults, config, files, svc, lock, child, serial>> /\ Same

\* The configuration is read again; an edit seen here ends the apply.
Recheck(p) ==
    /\ At(p, "recheck")
    /\ \/ config = op[p].before /\ Go(p, "write") /\ UNCHANGED <<journal, faults>>
       \/ config # op[p].before /\ journal' = None /\ Post(p, FALSE) /\ UNCHANGED faults
       \/ config # op[p].before /\ UNCHANGED journal /\ Post(p, FALSE) /\ Fault
    /\ UNCHANGED <<config, files, svc, lock, child, serial>> /\ Same

\* writeFile of the candidate; the first configuration must not exist yet.
WriteCandidate(p) ==
    /\ At(p, "write")
    /\ \/ /\ op[p].before = None => config = None
          /\ config' = op[p].cand
          /\ Go(p, "candidate_written") /\ UNCHANGED faults
       \/ op[p].before = None /\ config # None /\ Go(p, "failed") /\ UNCHANGED <<config, faults>>
       \/ /\ Fault /\ Go(p, "failed")
          /\ config' \in AfterFailedWrite(config, IF op[p].before = None /\ config # None THEN config ELSE op[p].cand)
    /\ UNCHANGED <<journal, files, svc, lock, child, serial>> /\ Same

ActivateSteps == <<"stopSensor", "restartDaemon", "startSensor", "ready">>

\* Two further stages are recorded before any service is touched.
RecordStages(p) ==
    /\ op[p].pc \in {"candidate_written", "activating"} /\ At(p, op[p].pc)
    /\ \/ /\ journal' = Record(p, op[p].pc)
          /\ op' = IF op[p].pc = "candidate_written" THEN [op EXCEPT ![p].pc = "activating"]
                   ELSE [op EXCEPT ![p].pc = "apply", ![p].steps = ActivateSteps]
          /\ UNCHANGED faults
       \/ Fault /\ Go(p, "failed") /\ UNCHANGED journal
    /\ UNCHANGED <<config, files, svc, lock, child, serial>> /\ Same

\* The journal goes last: with it gone the new configuration is in force.
Commit(p) ==
    /\ At(p, "commit")
    /\ \/ journal' = None /\ Post(p, TRUE) /\ UNCHANGED faults
       \/ journal' \in AfterFailedRemove(journal) /\ Post(p, FALSE) /\ Fault
    /\ UNCHANGED <<config, files, svc, lock, child, serial>> /\ Same

\* A failed apply records it, best effort, and rolls back on its own.
ApplyFailed(p) ==
    /\ At(p, "failed")
    /\ \/ journal' = Record(p, "failed") /\ UNCHANGED faults
       \/ UNCHANGED journal /\ Fault
    /\ Go(p, "rollback")
    /\ UNCHANGED <<config, files, svc, lock, child, serial>> /\ Same

-----------------------------------------------------------------------------
(* rollback and recoverConfig.                                             *)

BeginRecover(p) ==
    /\ op[p].pc = "idle" /\ ~Locked
    /\ journal # None
    /\ lock' = p
    /\ op' = [op EXCEPT ![p] = [Idle EXCEPT !.pc = "rollback", !.kind = "recover",
                !.before = journal.before, !.cand = journal.after, !.ran = journal.ran]]
    /\ UNCHANGED <<config, journal, files, svc, masked, child, serial, counters>>

\* Rollback touches nothing unless the file still holds one side of the apply.
MayRestore(p) ==
    /\ config # None /\ op[p].before # None
    /\ config \in {op[p].before, op[p].cand}
    /\ Preflight(op[p].before)

RollbackCheck(p) ==
    /\ At(p, "rollback")
    /\ \/ MayRestore(p) /\ journal' = Record(p, "recovering") /\ Go(p, "restore") /\ UNCHANGED faults
       \/ ~MayRestore(p) /\ Post(p, FALSE) /\ UNCHANGED <<journal, faults>>
       \/ Fault /\ Post(p, FALSE) /\ UNCHANGED journal
    /\ UNCHANGED <<config, files, svc, lock, child, serial>> /\ Same

RestoreSteps == <<"haltSensor", "haltDaemon", "stopSensor", "restartDaemon", "startSensor", "ready">>

RestoreConfig(p) ==
    /\ At(p, "restore")
    /\ \/ /\ config' = op[p].before
          /\ journal' = Record(p, "config_restored")
          /\ op' = [op EXCEPT ![p].pc = "restoring", ![p].steps = RestoreSteps]
          /\ UNCHANGED faults
       \/ /\ Fault /\ config' \in AfterFailedWrite(config, op[p].before)
          /\ journal' \in {journal, Record(p, "failed")}
          /\ Post(p, FALSE)
    /\ UNCHANGED <<files, svc, lock, child, serial>> /\ Same

Restored(p) ==
    /\ At(p, "restored")
    /\ \/ journal' = None /\ Post(p, op[p].kind = "recover") /\ UNCHANGED faults
       \/ journal' = Record(p, "services_restored") /\ Post(p, FALSE) /\ Fault
       \/ journal' \in AfterFailedRemove(journal) /\ Post(p, FALSE) /\ Fault
    /\ UNCHANGED <<config, files, svc, lock, child, serial>> /\ Same

-----------------------------------------------------------------------------
(* Services: activateServices runs its steps in order, each a systemctl    *)
(* command that changes the unit while the manager waits for it.           *)

ServicePhase(p) == op[p].pc \in {"apply", "restoring", "service"}

\* The sensor comes back when the configuration in force wants it and it ran.
SensorBack(p) ==
    /\ "sensor" \notin masked
    /\ \/ op[p].pc = "service" /\ op[p].kind = "start" /\ op[p].cand.sensor
       \/ op[p].pc = "restoring" /\ "sensor" \in op[p].ran
       \/ op[p].cand.sensor /\ "sensor" \in op[p].ran

\* The command a step issues, as <<verb, unit>>, or None when it has none to issue.
CommandOf(p, step) ==
    CASE step = "haltSensor" -> IF "sensor" \notin op[p].ran THEN <<"stop", "sensor">> ELSE None
      [] step = "haltDaemon" -> IF "daemon" \notin op[p].ran THEN <<"stop", "daemon">> ELSE None
      [] step = "stopSensor" -> IF "sensor" \in op[p].ran THEN <<"stop", "sensor">> ELSE None
      [] step = "restartDaemon" -> IF "daemon" \in op[p].ran THEN <<"restart", "daemon">> ELSE None
      [] step = "startDaemon" -> <<"start", "daemon">>
      [] step = "startSensor" -> IF SensorBack(p) THEN <<"start", "sensor">> ELSE None
      [] step = "sensorOff" -> IF op[p].cand.sensor THEN None ELSE <<"stop", "sensor">>
      [] OTHER -> None

\* Mutant: rollback tries the services again until it succeeds.
StepFailsRetry(p) ==
    CASE op[p].pc = "apply" -> op' = [op EXCEPT ![p].pc = "failed", ![p].steps = <<>>, ![p].retried = FALSE] /\ UNCHANGED journal
      [] op[p].pc = "restoring" -> journal' = Record(p, "failed") /\ op' = [op EXCEPT ![p].steps = RestoreSteps]
      [] OTHER -> Post(p, FALSE) /\ UNCHANGED journal

StepFails(p) ==
    CASE op[p].pc = "apply" -> op' = [op EXCEPT ![p].pc = "failed", ![p].steps = <<>>, ![p].retried = FALSE] /\ UNCHANGED journal
      [] op[p].pc = "restoring" -> journal' = Record(p, "failed") /\ Post(p, FALSE)
      [] OTHER -> Post(p, FALSE) /\ UNCHANGED journal

\* What op becomes once the first remaining step is done.
StepDone(p) ==
    LET rest == Tail(op[p].steps)
        next == CASE op[p].pc = "apply" -> "commit" [] op[p].pc = "restoring" -> "restored" [] OTHER -> "post"
    IN [op EXCEPT ![p].steps = rest, ![p].retried = FALSE,
                  ![p].pc = IF rest = <<>> THEN next ELSE op[p].pc,
                  ![p].ok = (rest = <<>> /\ op[p].pc = "service")]

\* waitReadyConfig: the units run and the daemon reports this very configuration.
ReadyWith(p, c) ==
    /\ ("daemon" \in op[p].ran \/ op[p].kind = "start") => Running("daemon") /\ svc.loaded = c
    /\ SensorBack(p) => Running("sensor")

Issue(p) ==
    /\ ServicePhase(p) /\ At(p, op[p].pc)
    /\ LET step == Head(op[p].steps)
           target == IF op[p].pc = "restoring" THEN op[p].before ELSE op[p].cand
       IN \/ /\ CommandOf(p, step) # None
             /\ child' = [child EXCEPT ![p] = CommandOf(p, step)]
             /\ UNCHANGED <<op, journal, faults>>
          \/ /\ step # "ready" /\ CommandOf(p, step) = None
             /\ op' = StepDone(p)
             /\ UNCHANGED <<child, journal, faults>>
          \/ /\ step = "ready" /\ ReadyWith(p, target)
             /\ op' = StepDone(p)
             /\ UNCHANGED <<child, journal, faults>>
          \/ /\ step = "ready"
             /\ IF ReadyWith(p, target) THEN Fault ELSE UNCHANGED faults
             /\ StepFails(p)
             /\ UNCHANGED child
    /\ UNCHANGED <<config, files, svc, lock, serial>> /\ Same

\* What a command does to its unit; a started daemon loads the file as it is now.
Effect(cmd) ==
    LET u == cmd[2]
        up == u \notin masked /\ ~(u = "daemon" /\ config = None)
    IN CASE cmd[1] = "stop" -> [svc EXCEPT ![u] = "inactive", !.loaded = IF u = "daemon" THEN None ELSE @]
         [] cmd[1] = "start" /\ svc[u] = "active" -> svc
         [] OTHER -> [svc EXCEPT ![u] = IF up THEN "active" ELSE "failed",
                                 !.loaded = IF u # "daemon" THEN @ ELSE IF up THEN config ELSE None]

Survives(p) == op[p].steps # <<>> /\ lock = p

\* serviceOperation: a start refused by systemd's start limit is tried once more.
StartLimited(p, cmd) ==
    /\ Fault /\ Survives(p) /\ ~op[p].retried /\ cmd[1] # "stop"
    /\ op' = [op EXCEPT ![p].retried = TRUE]
    /\ UNCHANGED <<svc, journal>>

\* The command ends.  Killed or failed, it may or may not have taken effect.
\* Without its manager nobody hears of it.
ChildEnds(p) ==
    /\ child[p] # None
    /\ LET cmd == child[p]
           u == cmd[2]
       IN \/ /\ svc' = Effect(cmd)
             /\ CASE ~Survives(p) -> UNCHANGED <<op, journal>>
                  [] Survives(p) /\ Effect(cmd)[u] = "failed" -> StepFails(p)
                  [] OTHER -> op' = StepDone(p) /\ UNCHANGED journal
             /\ UNCHANGED faults
          \/ /\ Fault
             /\ svc' \in {svc, Effect(cmd), [svc EXCEPT ![u] = "failed", !.loaded = IF u = "daemon" THEN None ELSE @]}
             /\ IF Survives(p) THEN StepFails(p) ELSE UNCHANGED <<op, journal>>
          \/ StartLimited(p, cmd)
    /\ child' = [child EXCEPT ![p] = None]
    /\ UNCHANGED <<config, files, lock, serial>> /\ Same

\* serviceAction: stop, restart what ran, or start what is configured.
ServiceAction(p, kind) ==
    /\ op[p].pc = "idle" /\ ~Locked /\ ops < MaxOps
    /\ \/ kind = "stop"
       \/ /\ StableServices /\ Preflight(config)
          /\ kind = "start" => masked \cap ({"daemon"} \cup (IF Load(config).sensor THEN {"sensor"} ELSE {})) = {}
    /\ lock' = p
    /\ op' = [op EXCEPT ![p] = [Idle EXCEPT !.pc = "service", !.kind = kind, !.cand = Load(config),
                !.ran = IF kind = "stop" THEN {} ELSE {u \in Units : Running(u)},
                !.steps = CASE kind = "stop" -> <<"haltSensor", "haltDaemon">>
                            [] kind = "restart" -> ActivateSteps
                            [] OTHER -> <<"startDaemon", "startSensor", "sensorOff", "ready">>]]
    /\ ops' = ops + 1
    /\ UNCHANGED <<config, journal, files, svc, masked, child, serial, faults, edits, crashes, blind>>

-----------------------------------------------------------------------------
(* After the apply: the staged or the replaced file goes, then the lock.   *)

RemoveStaged(p) == IF op[p].file \in Refs(config) THEN files ELSE files \ {op[p].file}

Finish(p) ==
    /\ At(p, "post")
    /\ op' = [op EXCEPT ![p] = Idle]
    /\ lock' = None
    /\ files' \in
         CASE op[p].kind = "secret" /\ op[p].ok -> {files, Clean("secret", op[p].cand)}
           [] op[p].kind = "secret" -> {files, RemoveStaged(p)}
           [] op[p].kind = "profile" -> {files, Clean("profile", config)}
           [] op[p].kind = "geo" -> {files, CleanGeo(config)}
           [] OTHER -> {files}
    /\ UNCHANGED <<config, journal, svc, child, serial, faults>> /\ Same

-----------------------------------------------------------------------------
(* The surroundings: an administrator's editor, a dying service, a crash.  *)

ExternalEdit ==
    /\ Trouble /\ edits' = edits + 1
    /\ config' = [Load(config) EXCEPT !.rev = serial]
    /\ serial' = serial + 1
    /\ blind' = (blind \/ \E p \in Managers : op[p].pc \in {"write", "restore"})
    /\ UNCHANGED <<journal, files, svc, masked, op, lock, child, ops, faults, crashes>>

\* systemd restarts a failed daemon on its own: it is in transition, then loads the file.
ServiceDies(u) ==
    /\ Running(u) /\ Fault
    /\ svc' \in {[svc EXCEPT ![u] = s, !.loaded = IF u = "daemon" THEN None ELSE @] : s \in {"failed", "activating"}}
    /\ UNCHANGED <<config, journal, files, masked, op, lock, child, serial, ops, edits, crashes, blind>>

ServiceReturns(u) ==
    /\ svc[u] = "activating"
    /\ svc' = [svc EXCEPT ![u] = "active", !.loaded = IF u = "daemon" THEN config ELSE @]
    /\ UNCHANGED <<config, journal, files, masked, op, lock, child, serial, counters>>

\* The manager process dies; only a command it started lives on.
Crash(p) ==
    /\ op[p].pc \notin {"idle", "form"} /\ Trouble
    /\ crashes' = crashes + 1
    /\ op' = [op EXCEPT ![p] = Idle]
    /\ lock' = None
    /\ UNCHANGED <<config, journal, files, svc, masked, child, serial, ops, faults, edits, blind>>

Step(p) ==
    \/ Refused(p) \/ StageFile(p) \/ StageGeneration(p) \/ GeoUnchanged(p)
    \/ ReadBefore(p) \/ Prepare(p) \/ Recheck(p) \/ WriteCandidate(p) \/ RecordStages(p)
    \/ Issue(p) \/ Commit(p) \/ ApplyFailed(p)
    \/ RollbackCheck(p) \/ RestoreConfig(p) \/ Restored(p) \/ Finish(p)

Begin(p) ==
    \/ OpenForm(p) \/ SaveForm(p)
    \/ /\ p \notin FormOnly
       /\ \/ Telegram(p) \/ Native(p) \/ Official(p) \/ GenerateKey(p)
          \/ UseProfile(p) \/ UpdateGeo(p) \/ BeginRecover(p)
          \/ \E k \in {"stop", "restart", "start"} : ServiceAction(p, k)

Next ==
    \/ \E p \in Managers : Begin(p) \/ Step(p) \/ ChildEnds(p) \/ Crash(p)
    \/ ExternalEdit
    \/ \E u \in Units : ServiceDies(u) \/ ServiceReturns(u)

\* Every begun operation keeps running, and a command ends (it is killed after 90 s).
Fairness == \A p \in Managers : WF_vars(Step(p)) /\ WF_vars(ChildEnds(p))

Spec == Init /\ [][Next]_vars /\ Fairness

-----------------------------------------------------------------------------
(* Properties.                                                             *)

Files == Kinds \X (0..serial)
Configs == [rev : 0..serial, refs : [Kinds -> Files \cup {None}], sensor : BOOLEAN]
Journals == [before : Configs \cup {None}, after : Configs, ran : SUBSET Units, stage : Stages]

\* Types of the files, the services, the lock and the operations.
TypeInvariant ==
    /\ config \in Configs \cup {None}
    /\ journal \in Journals \cup {None}
    /\ files \subseteq Files
    /\ svc \in [daemon : {"active", "inactive", "failed", "activating"},
                sensor : {"active", "inactive", "failed", "activating"}, loaded : Configs \cup {None}]
    /\ masked \subseteq Units
    /\ \A p \in Managers : /\ op[p].snap \in Configs \cup {None} /\ op[p].cand \in Configs \cup {None}
                           /\ op[p].before \in Configs \cup {None} /\ op[p].file \in Files \cup {None}
                           /\ op[p].ran \subseteq Units /\ op[p].retried \in BOOLEAN /\ op[p].ok \in BOOLEAN
    /\ lock \in Managers \cup {None}
    /\ child \in [Managers -> Commands \cup {None}]

\* No cleanup removes a file that the configuration names, or that the
\* configuration a pending journal would restore names: cleanManagedFiles,
\* cleanGeo and removeUnreferencedSecret run while an apply may have failed at
\* any point, and recovery needs the previous credential and GeoIP generation.
FilesPinned ==
    /\ Refs(config) \subseteq files
    /\ journal # None => Refs(journal.before) \subseteq files

\* Whenever no operation is under way and no journal says otherwise, a running
\* daemon runs the configuration on disk, and the sensor runs only if that
\* configuration enables it; only an administrator's own edit may differ.
RunningIsSaved ==
    ~Locked /\ journal = None /\ edits = 0 =>
        /\ Running("daemon") => svc.loaded = config
        /\ Running("sensor") => Load(config).sensor

\* An interrupted apply over an existing configuration can always be rolled
\* back: as long as nobody edited the file, "Recover previous configuration"
\* finds one of the two contents it accepts and every file it needs.
RecoveryPossible ==
    journal # None /\ journal.before # None /\ edits = 0 /\ lock = None =>
        /\ config \in {journal.before, journal.after}
        /\ Preflight(journal.before)

\* Whatever an operation leaves behind can be undone: the journal and the
\* configuration agree, and no cleanup took a file that either of them needs.
Recoverable == TypeInvariant /\ FilesPinned /\ RecoveryPossible

\* An apply or a rollback replaces only the content it was based on or its own:
\* a change made by anyone else survives, except one that falls between the
\* last check and the rename, which the code does not claim to detect.
ForeignEditsSurvive ==
    [][config' # config /\ lock # None /\ edits' = edits /\ ~blind =>
         config \in {op[lock].before, op[lock].cand}]_vars

\* A finished rollback has put the services back as well: nothing runs that
\* did not run before the apply, and the daemon runs the restored configuration,
\* whatever commands of the failed apply were still under way.
RollbackRestoresServices ==
    [][\A p \in Managers : op[p].pc = "restored" /\ journal' = None /\ journal # None =>
         /\ \A u \in Units : /\ Running(u) => u \in op[p].ran
                             /\ faults = 0 => (u \in op[p].ran => Running(u))
         /\ Running("daemon") /\ edits = 0 => svc.loaded = op[p].before]_vars

\* An apply and its rollback touch what is theirs and put all of it back: the
\* edits of others survive, and a finished rollback restored the services too.
UndoIsExact == ForeignEditsSurvive /\ RollbackRestoresServices

\* Every operation that holds the management lock gives it up again: failed
\* commands, the retry after a start limit and the rollback all come to an end.
OperationsEnd == \A p \in Managers : (lock = p) ~> (lock # p)
=============================================================================
