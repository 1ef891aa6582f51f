---------------------------- MODULE BackupRestore ----------------------------
(***************************************************************************)
(* Opening and migrating a database, backing it up while the daemon runs,   *)
(* restoring a backup at a new path and rehearsing an upgrade in a private  *)
(* directory (internal/store: store.go, backup.go, official_dispatch.go;    *)
(* internal/manage/upgrade.go).                                             *)
(*                                                                         *)
(* Jobs run side by side and beside the daemon, other programs may create   *)
(* the file a job is about to publish, and processes or the whole host may  *)
(* stop at any step.  SQLite transactions and VACUUM INTO are atomic.       *)
(***************************************************************************)
EXTENDS SnapshotSchema

CONSTANTS Jobs,
          Names,        \* paths of databases and backups
          Releases,     \* versions the databases found may have
          MaxBegun, MaxTroubles

ASSUME ReleasesAssumption == Releases \subseteq Nat

VARIABLES file,    \* what each path holds
          job, daemon, \* the path the running daemon uses, or "stopped"
          site,    \* the configuration, as preflight checks it
          begun, troubles

backupVars == <<file, job, daemon, site, begun, troubles>>

\* A file: who created it, the version of its database, the two forms of the hold
\* on paid channels, whether it stems from a restore that nobody has
\* reconciled yet, and what a power failure leaves of it.
NoFile == [maker |-> "nobody", version |-> 0, hold |-> FALSE, marker |-> FALSE,
           restored |-> FALSE, data |-> "none", entry |-> "none"]

NoJob == [pc |-> "idle", op |-> "none", source |-> "none", target |-> "none", temporary |-> NoFile,
          copy |-> NoFile, config |-> 0, linked |-> FALSE]

Found == [NoFile EXCEPT !.maker = "found", !.data = "synced", !.entry = "synced"]

\* A host with the database and a backup of any release, on which the release
\* modelled here is installed; a later one wrote version Current + 1.
BackupInit ==
    /\ \E v \in Releases :
          file = [n \in Names |-> IF n = "new" THEN NoFile ELSE [Found EXCEPT !.version = v]]
    /\ job = [j \in Jobs |-> NoJob] /\ daemon = "stopped"
    /\ site = [config |-> 1, ready |-> TRUE]
    /\ begun = 0 /\ troubles = 0

-----------------------------------------------------------------------------
(* The database. *)

\* migrate: one transaction; version 14 turns the marker into a policy.
Migrated(f) ==
    IF f.version < Current THEN [f EXCEPT !.version = Current, !.hold = f.marker, !.marker = FALSE] ELSE f

Supported(f) == f.data # "torn" /\ f.version \in 1..Current

\* verifySnapshot: schema, integrity, foreign keys.
Accepted == [v \in 1..Current |-> Conforms(SchemaOf[v], v)]
Verified(f) == f.data \notin {"none", "torn"} /\ f.version \in 1..Current /\ Accepted[f.version]

\* openSnapshot: sidecars, or the daemon's exclusive lock, refuse a database in use.
Standalone(n) == daemon # n /\ file[n] # NoFile

NewFile == [Found EXCEPT !.maker = "daemon", !.version = Current]

\* The operator starts the daemon on a path; a missing database is created.
Start(n) ==
    /\ daemon = "stopped"
    /\ \/ /\ file[n] = NoFile
          /\ file' = [file EXCEPT ![n] = NewFile]
       \/ /\ file[n] # NoFile /\ Supported(file[n])
          /\ file' = [file EXCEPT ![n] = Migrated(@)]
    /\ daemon' = n
    /\ UNCHANGED <<job, site, begun, troubles>>

\* ReconcileOfficialPaid: the operator confirms what was sent meanwhile.
ReconcilePaid ==
    /\ daemon # "stopped" /\ file[daemon].hold
    /\ file' = [file EXCEPT ![daemon].hold = FALSE, ![daemon].restored = FALSE]
    /\ UNCHANGED <<job, daemon, site, begun, troubles>>

\* The daemon ends; a backup it was making ends with it and is cleaned up.
Stop ==
    /\ daemon # "stopped" /\ daemon' = "stopped"
    /\ job' = [j \in Jobs |-> IF job[j].op = "backup" THEN NoJob ELSE job[j]]
    /\ UNCHANGED <<file, site, begun, troubles>>

-----------------------------------------------------------------------------
(* Jobs: backup_create, backup_restore and the rehearsal of an upgrade. *)

Others == <<daemon, site, begun, troubles>>
Begin(j, new) == job[j] = NoJob /\ begun < MaxBegun /\ begun' = begun + 1 /\ job' = [job EXCEPT ![j] = new]
Go(j, pc) == job' = [job EXCEPT ![j].pc = pc]

Backup(j, n) ==
    /\ daemon \notin {"stopped", n}
    /\ Begin(j, [NoJob EXCEPT !.pc = "create", !.op = "backup", !.target = n])
    /\ UNCHANGED <<file, daemon, site, troubles>>

RestoreBackup(j, s, n) ==
    /\ daemon = "stopped" /\ s # n
    /\ Begin(j, [NoJob EXCEPT !.pc = "open", !.op = "restore", !.source = s, !.target = n])
    /\ UNCHANGED <<file, daemon, site, troubles>>

\* UpgradePreflight: configuration, recovery state, keys, backup, disk.
RehearseRestore(j, s) ==
    /\ site.ready /\ Standalone(s) /\ Verified(file[s])
    /\ Begin(j, [NoJob EXCEPT !.pc = "isolate", !.op = "rehearse", !.source = s, !.config = site.config])
    /\ UNCHANGED <<file, daemon, site, troubles>>

\* The private directory exists; the configuration must be the one preflighted.
Isolate(j) ==
    /\ job[j].pc = "isolate"
    /\ Go(j, IF site.config = job[j].config THEN "open" ELSE "cleanup")
    /\ UNCHANGED <<file, Others>>

\* The source is opened and verified.
OpenSource(j) ==
    /\ job[j].pc = "open"
    /\ Go(j, IF Standalone(job[j].source) /\ Verified(file[job[j].source]) THEN "create" ELSE "close")
    /\ UNCHANGED <<file, Others>>

\* Where a job publishes: a path, or restored.db in its private directory.
Taken(j) == IF job[j].op = "rehearse" THEN job[j].copy # NoFile ELSE file[job[j].target] # NoFile

\* createSnapshotTarget.
CreateTarget(j) ==
    /\ job[j].pc = "create"
    /\ Go(j, IF Taken(j) THEN "close" ELSE "vacuum")
    /\ UNCHANGED <<file, Others>>

\* VACUUM INTO; a source the daemon has opened since is locked.
Vacuum(j) ==
    /\ job[j].pc = "vacuum"
    /\ LET s == IF job[j].op = "backup" THEN daemon ELSE job[j].source IN
       IF job[j].op # "backup" /\ ~ Standalone(s)
       THEN Go(j, "close")
       ELSE job' = [job EXCEPT ![j].pc = "finish",
                               ![j].temporary = [file[s] EXCEPT !.maker = j, !.data = "written", !.entry = "none",
                                                                !.restored = @ \/ job[j].op # "backup"]]
    /\ UNCHANGED <<file, Others>>

\* markRestoredOfficialHold: before version 14 there is no policy to hold.
Held(f) == IF f.version < Current THEN [f EXCEPT !.marker = TRUE] ELSE [f EXCEPT !.hold = TRUE]

Synced(f) == [f EXCEPT !.data = "synced"]

\* Still in the temporary directory: the hold of a restore, the verification,
\* the permissions and the sync.
Finish(j) ==
    /\ job[j].pc = "finish"
    /\ LET f == IF job[j].op = "backup" THEN job[j].temporary ELSE Held(job[j].temporary) IN
       IF Verified(f) THEN job' = [job EXCEPT ![j].pc = "absent", ![j].temporary = Synced(f)]
       ELSE Go(j, "close")
    /\ UNCHANGED <<file, Others>>

\* publish, first half: ensureAbsent again.
CheckAbsent(j) ==
    /\ job[j].pc = "absent"
    /\ Go(j, IF Taken(j) THEN "close" ELSE "link")
    /\ UNCHANGED <<file, Others>>

\* Mutant: a rename would replace the file.
RefusedNever(j) == FALSE

\* linkat fails when the path exists by now.
Refused(j) == Taken(j)

Link(j) ==
    /\ job[j].pc = "link"
    /\ IF Refused(j) THEN Go(j, "close") /\ UNCHANGED file
       ELSE LET f == [job[j].temporary EXCEPT !.entry = "written"] IN
            IF job[j].op = "rehearse"
            THEN job' = [job EXCEPT ![j].pc = "close", ![j].copy = f, ![j].linked = TRUE] /\ UNCHANGED file
            ELSE /\ file' = [file EXCEPT ![job[j].target] = f]
                 /\ job' = [job EXCEPT ![j].pc = "parent", ![j].linked = TRUE]
    /\ UNCHANGED Others

\* The directory is synced.
SyncParent(j) ==
    /\ job[j].pc = "parent" /\ Go(j, "close")
    /\ file' = [n \in Names |-> IF file[n].entry = "written" THEN [file[n] EXCEPT !.entry = "synced"] ELSE file[n]]
    /\ UNCHANGED Others

\* close: the temporary directory goes, whatever happened.
Close(j) ==
    /\ job[j].pc = "close"
    /\ job' = [job EXCEPT ![j] = IF job[j].op = "rehearse"
                                 THEN [job[j] EXCEPT !.pc = IF job[j].linked THEN "migrate" ELSE "cleanup", !.temporary = NoFile]
                                 ELSE NoJob]
    /\ UNCHANGED <<file, Others>>

\* The copy is opened with the configured budget and verified again.
MigrateCopy(j) ==
    /\ job[j].pc = "migrate" /\ Supported(job[j].copy)
    /\ job' = [job EXCEPT ![j].pc = "cleanup", ![j].copy = Migrated(@)]
    /\ UNCHANGED <<file, Others>>

\* cleanupRehearsal: the fixed SQLite outputs, or nothing at all.
Cleanup(j) ==
    /\ job[j].pc = "cleanup" /\ job' = [job EXCEPT ![j] = NoJob]
    /\ UNCHANGED <<file, Others>>

-----------------------------------------------------------------------------
Trouble == troubles < MaxTroubles /\ troubles' = troubles + 1

\* A step fails: no space, a cancelled context, an error of SQLite or a sync.
StepFails(j) ==
    /\ job[j].pc \in {"open", "create", "vacuum", "finish", "absent", "link", "parent", "migrate"}
    /\ Trouble /\ Go(j, IF job[j].pc = "migrate" THEN "cleanup" ELSE "close")
    /\ UNCHANGED <<file, daemon, site, begun>>

\* The job's process dies; its temporary files stay behind, unnamed here.
Die(j) ==
    /\ job[j] # NoJob /\ Trouble /\ job' = [job EXCEPT ![j] = NoJob]
    /\ UNCHANGED <<file, daemon, site, begun>>

\* After a power failure a directory entry that was not synced may be gone, and
\* data that was not is damaged.
AfterPowerLoss(f) ==
    {[f EXCEPT !.data = IF @ = "written" THEN "torn" ELSE @, !.entry = IF @ = "written" THEN "synced" ELSE @]}
      \cup (IF f.entry = "written" THEN {NoFile} ELSE {})

PowerLoss ==
    /\ Trouble
    /\ \E g \in [Names -> UNION {AfterPowerLoss(file[n]) : n \in Names}] :
          (\A n \in Names : g[n] \in AfterPowerLoss(file[n])) /\ file' = g
    /\ job' = [j \in Jobs |-> NoJob] /\ daemon' = "stopped"
    /\ UNCHANGED <<site, begun>>

\* Another program creates a file; it is no database.
Intrude(n) ==
    /\ file[n] = NoFile /\ Trouble
    /\ file' = [file EXCEPT ![n] = [Found EXCEPT !.maker = "other"]]
    /\ UNCHANGED <<job, daemon, site, begun>>

\* The configuration is edited, or an apply is interrupted, after a preflight.
SiteChanges ==
    /\ Trouble /\ site' \in {[site EXCEPT !.config = 3 - @], [site EXCEPT !.ready = ~ @]}
    /\ UNCHANGED <<file, job, daemon, begun>>

BackupNext ==
    \/ \E n \in Names : Start(n) \/ Intrude(n)
    \/ ReconcilePaid \/ Stop \/ PowerLoss \/ SiteChanges
    \/ \E j \in Jobs :
          \/ \E n \in Names : Backup(j, n) \/ RehearseRestore(j, n) \/ \E s \in Names : RestoreBackup(j, s, n)
          \/ Isolate(j) \/ OpenSource(j) \/ CreateTarget(j) \/ Vacuum(j) \/ Finish(j)
          \/ CheckAbsent(j) \/ Link(j) \/ SyncParent(j)
          \/ Close(j) \/ MigrateCopy(j) \/ Cleanup(j) \/ StepFails(j) \/ Die(j)

BackupSpec == BackupInit /\ [][BackupNext]_backupVars

-----------------------------------------------------------------------------
\* A path never changes from one file to another: neither a job racing another
\* job, the daemon or an unrelated program for the path, nor a power failure
\* makes a backup or a restore replace what is there.
NeverReplaced == [][\A n \in Names : file[n] # NoFile => file'[n] = NoFile \/ file'[n].maker = file[n].maker]_backupVars

\* What a job published is a complete database at every moment, also after a
\* power failure right behind the link.
PublishedWhole == \A n \in Names : file[n].data # "torn"

\* However a restored database came to be where it is (restored at any version,
\* migrated later, backed up and restored again), paid channels are held until
\* the operator has reconciled them.
RestoredHeld ==
    \A f \in {file[n] : n \in Names} \cup {job[j].copy : j \in Jobs} :
        f.restored => IF f.version < Current THEN f.marker ELSE f.hold

\* This release accepts the database of every version up to its own: migrations,
\* list of columns and downgrade of the reference agree on each; and it accepts
\* whatever its own operations made of one.
BackupsAccepted ==
    /\ \A v \in 1..Current : Verified([Found EXCEPT !.version = v])
    /\ \A f \in {file[n] : n \in Names} \cup {job[j].temporary : j \in Jobs} :
          f.version \in 1..Current /\ f.data # "torn" => Verified(f)

\* Backups and restores never replace a file, publish only whole databases that
\* this release accepts, and leave paid channels held (store/backup.go).
BackupSound == [](PublishedWhole /\ RestoredHeld /\ BackupsAccepted) /\ NeverReplaced
=============================================================================
