------------------------- MODULE BackupRestoreProofs -------------------------
(***************************************************************************)
(* Proofs about BackupRestore, for every set of jobs, paths and releases    *)
(* found: no file is replaced, what is published is whole and accepted, and *)
(* a restored database keeps its paid channels held.                        *)
(***************************************************************************)
EXTENDS BackupRestore, TLAPS

Makers == Jobs \cup {"nobody", "found", "daemon", "other"}
File == [maker : Makers, version : Nat, hold : BOOLEAN, marker : BOOLEAN, restored : BOOLEAN,
         data : {"none", "written", "synced", "torn"}, entry : {"none", "written", "synced"}]
Job == [pc : {"idle", "isolate", "open", "create", "vacuum", "finish", "absent", "link", "parent",
              "close", "migrate", "cleanup"},
        op : {"none", "backup", "restore", "rehearse"}, source : Names \cup {"none"},
        target : Names \cup {"none"}, temporary : File, copy : File, config : Int,
        linked : BOOLEAN]
Site == [config : Int, ready : BOOLEAN]

Typed ==
    /\ file \in [Names -> File] /\ job \in [Jobs -> Job]
    /\ daemon \in Names \cup {"stopped"} /\ site \in Site

\* A job has what its operation needs: a backup a running daemon, the others a
\* source, and what is published at a path a path.
Equipped(k) ==
    /\ k.pc # "idle" => k.op # "none"
    /\ k.op = "backup" => daemon # "stopped"
    /\ k.op \in {"restore", "rehearse"} => k.source \in Names
    /\ k.op \in {"backup", "restore"} => k.target \in Names

\* The hold of a restored database, in the form its version has.
Secured(f) == f.restored => IF f.version < Current THEN f.marker ELSE f.hold

\* A file with a database has data; one at a path has all of it on the disk.
Filled(f) == f.version # 0 => f.data # "none"
Durable(f) == f.data \in {"none", "synced"} /\ Filled(f) /\ Secured(f)

\* What a job holds in its temporary directory is a copy of a database, and
\* from the verification on it is synced and held.
Copied(k) ==
    /\ Filled(k.temporary) /\ Secured(k.copy) /\ k.temporary.data # "torn"
    /\ k.pc = "finish" /\ k.op = "backup" => Secured(k.temporary)
    /\ k.pc \in {"absent", "link"} => Secured(k.temporary) /\ k.temporary.data = "synced"

\* The inductive invariant.
FilesDurable == \A n \in Names : Durable(file[n])
JobsSound == \A j \in Jobs : Equipped(job[j]) /\ Copied(job[j])
BackupInv == Typed /\ FilesDurable /\ JobsSound

-----------------------------------------------------------------------------

LEMMA EmptyFile == NoFile \in File /\ Found \in File /\ Durable(NoFile)
  BY DEF NoFile, Found, File, Makers, Durable, Filled, Secured

LEMMA FoundVersion ==
  ASSUME NEW v \in Nat
  PROVE  /\ [Found EXCEPT !.version = v] \in File /\ Durable([Found EXCEPT !.version = v])
         /\ [Found EXCEPT !.version = v].version = v
         /\ [Found EXCEPT !.version = v].data = "synced"
  BY DEF NoFile, Found, File, Makers, Durable, Filled, Secured

LEMMA EmptyJob ==
  /\ NoJob \in Job /\ NoJob.pc = "idle" /\ NoJob.op = "none" /\ Equipped(NoJob) /\ Copied(NoJob)
  <1>1. NoJob \in Job
    BY EmptyFile DEF NoJob, Job
  <1>2. /\ NoJob.pc = "idle" /\ NoJob.op = "none"
        /\ NoJob.temporary = NoFile /\ NoJob.copy = NoFile
    BY DEF NoJob
  <1>3. Filled(NoFile) /\ Secured(NoFile) /\ NoFile.data = "none"
    BY EmptyFile DEF Durable, NoFile
  <1> QED
    BY <1>1, <1>2, <1>3 DEF Equipped, Copied

\* What migration and the hold of a restore make of a file.
LEMMA MigratedFile ==
  ASSUME NEW f \in File
  PROVE  /\ Migrated(f) \in File /\ Migrated(f).maker = f.maker /\ Migrated(f).data = f.data
         /\ Migrated(f).version \in {f.version, Current}
         /\ Secured(f) => Secured(Migrated(f))
  <1>1. CASE f.version < Current
    <2>1. Migrated(f) = [f EXCEPT !.version = Current, !.hold = f.marker, !.marker = FALSE]
      BY <1>1 DEF Migrated
    <2>2. Migrated(f) \in File
      <3>1. f.marker \in BOOLEAN /\ Current \in Nat
        BY DEF File, Current
      <3> QED
        BY <2>1, <3>1 DEF File
    <2>3. /\ Migrated(f).version = Current /\ Migrated(f).hold = f.marker
          /\ Migrated(f).restored = f.restored
          /\ Migrated(f).maker = f.maker /\ Migrated(f).data = f.data
      BY <2>1 DEF File
    <2>4. Secured(f) => Secured(Migrated(f))
      BY <1>1, <2>3 DEF Secured, Current
    <2> QED
      BY <2>2, <2>3, <2>4
  <1>2. CASE ~(f.version < Current)
    BY <1>2 DEF Migrated
  <1> QED
    BY <1>1, <1>2

LEMMA HeldFile ==
  ASSUME NEW f \in File
  PROVE  /\ Held(f) \in File /\ Secured(Held(f))
         /\ Held(f).version = f.version /\ Held(f).data = f.data
  <1>1. CASE f.version < Current
    <2>1. Held(f) = [f EXCEPT !.marker = TRUE]
      BY <1>1 DEF Held
    <2> QED
      BY <1>1, <2>1 DEF File, Secured
  <1>2. CASE ~(f.version < Current)
    <2>1. Held(f) = [f EXCEPT !.hold = TRUE]
      BY <1>2 DEF Held
    <2> QED
      BY <1>2, <2>1 DEF File, Secured
  <1> QED
    BY <1>1, <1>2

\* A step of one job that leaves the daemon alone.
LEMMA JobMoves ==
  ASSUME BackupInv, NEW j \in Jobs, NEW k \in Job, job' = [job EXCEPT ![j] = k],
         Equipped(k), Copied(k), UNCHANGED daemon, site' \in Site,
         file' \in [Names -> File], \A n \in Names : Durable(file'[n])
  PROVE  BackupInv'
  <1>0. job \in [Jobs -> Job]
    BY DEF BackupInv, Typed
  <1>1. /\ job' \in [Jobs -> Job] /\ job'[j] = k
        /\ \A i \in Jobs : i # j => job'[i] = job[i]
    BY <1>0
  <1>2. Typed'
    BY <1>1 DEF BackupInv, Typed
  <1>3. FilesDurable'
    BY DEF FilesDurable, Durable, Filled, Secured
  <1>4. ASSUME NEW i \in Jobs PROVE Equipped(job'[i]) /\ Copied(job'[i])
    BY <1>1 DEF BackupInv, JobsSound
  <1>5. JobsSound'
    BY <1>4 DEF JobsSound, Equipped, Copied, Filled, Secured
  <1> QED
    BY <1>2, <1>3, <1>5 DEF BackupInv

\* A job goes on without a change of what it holds.
LEMMA JobGoes ==
  ASSUME BackupInv, NEW j \in Jobs, job[j].pc # "idle",
         NEW pc \in {"open", "create", "vacuum", "close", "cleanup"},
         Go(j, pc), UNCHANGED <<daemon, site>>,
         file' \in [Names -> File], \A n \in Names : Durable(file'[n])
  PROVE  BackupInv'
  <1> DEFINE k == [job[j] EXCEPT !.pc = pc]
  <1>0. job \in [Jobs -> Job] /\ job[j] \in Job /\ site \in Site
    BY DEF BackupInv, Typed
  <1>1. k \in Job /\ job' = [job EXCEPT ![j] = k]
    BY <1>0 DEF Go, Job
  <1>2. /\ k.pc = pc /\ k.op = job[j].op /\ k.source = job[j].source /\ k.target = job[j].target
        /\ k.temporary = job[j].temporary /\ k.copy = job[j].copy
    BY <1>0 DEF Job
  <1>3. Equipped(job[j]) /\ Copied(job[j])
    BY DEF BackupInv, JobsSound
  <1> HIDE DEF k
  <1>4. Equipped(k) /\ Copied(k)
    BY <1>2, <1>3 DEF Equipped, Copied
  <1> QED
    BY <1>0, <1>1, <1>4, JobMoves

LEMMA FilesKept ==
  ASSUME BackupInv, UNCHANGED file
  PROVE  file' \in [Names -> File] /\ \A n \in Names : Durable(file'[n])
  BY DEF BackupInv, Typed, FilesDurable

\* A new job.
LEMMA BeginKeeps ==
  ASSUME BackupInv, NEW j \in Jobs,
         \E n \in Names : Backup(j, n) \/ RehearseRestore(j, n) \/ \E s \in Names : RestoreBackup(j, s, n)
  PROVE  BackupInv'
  <1>0. NoJob \in Job /\ NoJob.temporary = NoFile /\ NoJob.copy = NoFile
        /\ site.config \in Int /\ site \in Site
    BY EmptyJob DEF NoJob, BackupInv, Typed, Site
  <1>1. Filled(NoFile) /\ Secured(NoFile) /\ NoFile.data # "torn"
    BY EmptyFile DEF Durable, NoFile
  <1>2. UNCHANGED <<file, daemon, site>>
    BY DEF Backup, RehearseRestore, RestoreBackup
  <1>3. PICK k \in Job : job' = [job EXCEPT ![j] = k] /\ Equipped(k) /\ Copied(k)
    <2>1. ASSUME NEW n \in Names, Backup(j, n)
          PROVE  \E k \in Job : job' = [job EXCEPT ![j] = k] /\ Equipped(k) /\ Copied(k)
      <3> DEFINE k == [NoJob EXCEPT !.pc = "create", !.op = "backup", !.target = n]
      <3>1. k \in Job
        BY <1>0 DEF Job
      <3>2. k.pc = "create" /\ k.op = "backup" /\ k.target = n /\ k.temporary = NoFile /\ k.copy = NoFile
        BY <1>0 DEF Job
      <3>3. job' = [job EXCEPT ![j] = k] /\ daemon # "stopped"
        BY <2>1 DEF Backup, Begin
      <3> HIDE DEF k
      <3>4. Equipped(k) /\ Copied(k)
        BY <1>1, <3>2, <3>3 DEF Equipped, Copied
      <3> QED
        BY <3>1, <3>3, <3>4
    <2>2. ASSUME NEW n \in Names, NEW s \in Names, RestoreBackup(j, s, n)
          PROVE  \E k \in Job : job' = [job EXCEPT ![j] = k] /\ Equipped(k) /\ Copied(k)
      <3> DEFINE k == [NoJob EXCEPT !.pc = "open", !.op = "restore", !.source = s, !.target = n]
      <3>1. k \in Job
        BY <1>0 DEF Job
      <3>2. /\ k.pc = "open" /\ k.op = "restore" /\ k.target = n /\ k.source = s
            /\ k.temporary = NoFile /\ k.copy = NoFile
        BY <1>0 DEF Job
      <3>3. job' = [job EXCEPT ![j] = k]
        BY <2>2 DEF RestoreBackup, Begin
      <3> HIDE DEF k
      <3>4. Equipped(k) /\ Copied(k)
        BY <1>1, <3>2 DEF Equipped, Copied
      <3> QED
        BY <3>1, <3>3, <3>4
    <2>3. ASSUME NEW n \in Names, RehearseRestore(j, n)
          PROVE  \E k \in Job : job' = [job EXCEPT ![j] = k] /\ Equipped(k) /\ Copied(k)
      <3> DEFINE k == [NoJob EXCEPT !.pc = "isolate", !.op = "rehearse", !.source = n,
                                    !.config = site.config]
      <3>1. k \in Job
        BY <1>0 DEF Job
      <3>2. /\ k.pc = "isolate" /\ k.op = "rehearse" /\ k.source = n
            /\ k.temporary = NoFile /\ k.copy = NoFile
        BY <1>0 DEF Job
      <3>3. job' = [job EXCEPT ![j] = k]
        BY <2>3 DEF RehearseRestore, Begin
      <3> HIDE DEF k
      <3>4. Equipped(k) /\ Copied(k)
        BY <1>1, <3>2 DEF Equipped, Copied
      <3> QED
        BY <3>1, <3>3, <3>4
    <2> QED
      BY <2>1, <2>2, <2>3
  <1> QED
    BY <1>0, <1>2, <1>3, FilesKept, JobMoves

\* The steps that only decide where to go.
LEMMA DecisionsKeep ==
  ASSUME BackupInv, NEW j \in Jobs,
         Isolate(j) \/ OpenSource(j) \/ CreateTarget(j) \/ StepFails(j)
  PROVE  BackupInv'
  <1>1. UNCHANGED <<file, daemon, site>> /\ job[j].pc # "idle"
    BY DEF Isolate, OpenSource, CreateTarget, StepFails, Others
  <1>2. \E pc \in {"open", "create", "vacuum", "close", "cleanup"} : Go(j, pc)
    BY DEF Isolate, OpenSource, CreateTarget, StepFails
  <1> QED
    BY <1>1, <1>2, FilesKept, JobGoes

\* The copy of a source: a backup keeps the hold its database has.
LEMMA VacuumKeeps ==
  ASSUME BackupInv, NEW j \in Jobs, Vacuum(j)
  PROVE  BackupInv'
  <1> DEFINE s == IF job[j].op = "backup" THEN daemon ELSE job[j].source
             back == job[j].op = "backup"
  <1>0. /\ job \in [Jobs -> Job] /\ job[j] \in Job /\ site \in Site /\ file \in [Names -> File]
        /\ job[j].pc = "vacuum" /\ UNCHANGED <<file, daemon, site>>
        /\ Equipped(job[j]) /\ Copied(job[j])
    BY DEF BackupInv, Typed, JobsSound, Vacuum, Others
  <1>1. CASE Go(j, "close")
    BY <1>0, <1>1, FilesKept, JobGoes
  <1>2. CASE ~Go(j, "close")
    <2>1. s \in Names
      BY <1>0 DEF Equipped, BackupInv, Typed, Job
    <2> DEFINE f == [file[s] EXCEPT !.maker = j, !.data = "written", !.entry = "none",
                                    !.restored = @ \/ ~back]
               k == [job[j] EXCEPT !.pc = "finish", !.temporary = f]
    <2>2. file[s] \in File /\ Secured(file[s])
      BY <1>0, <2>1 DEF BackupInv, FilesDurable, Durable
    <2> HIDE DEF s
    <2>3. /\ f \in File /\ f.data = "written" /\ f.version = file[s].version /\ f.hold = file[s].hold
          /\ f.marker = file[s].marker /\ (back => f.restored = file[s].restored)
      <3>1. file[s].restored \in BOOLEAN /\ (file[s].restored \/ ~back) \in BOOLEAN /\ j \in Makers
        BY <2>2 DEF File, Makers
      <3>2. f \in File
        BY <2>2, <3>1 DEF File
      <3> QED
        BY <2>2, <3>1, <3>2 DEF File
    <2>4. Filled(f) /\ (back => Secured(f))
      BY <2>2, <2>3 DEF Filled, Secured
    <2>5. job' = [job EXCEPT ![j] = k]
      BY <1>0, <1>2 DEF Vacuum, s
    <2> HIDE DEF f
    <2>6. /\ k \in Job /\ k.pc = "finish" /\ k.temporary = f
          /\ k.op = job[j].op /\ k.source = job[j].source /\ k.target = job[j].target
          /\ k.copy = job[j].copy
      BY <1>0, <2>3 DEF Job
    <2> HIDE DEF k
    <2>7. Equipped(k) /\ Copied(k)
      BY <1>0, <2>3, <2>4, <2>6 DEF Equipped, Copied
    <2> QED
      BY <1>0, <2>5, <2>6, <2>7, FilesKept, JobMoves
  <1> QED
    BY <1>1, <1>2

\* What leaves the temporary directory is synced, and held if it was restored.
LEMMA FinishKeeps ==
  ASSUME BackupInv, NEW j \in Jobs, Finish(j)
  PROVE  BackupInv'
  <1> DEFINE f == IF job[j].op = "backup" THEN job[j].temporary ELSE Held(job[j].temporary)
             k == [job[j] EXCEPT !.pc = "absent", !.temporary = Synced(f)]
  <1>0. /\ job \in [Jobs -> Job] /\ job[j] \in Job /\ site \in Site
        /\ job[j].pc = "finish" /\ UNCHANGED <<file, daemon, site>>
        /\ Equipped(job[j]) /\ Copied(job[j]) /\ job[j].temporary \in File
    BY DEF BackupInv, Typed, JobsSound, Finish, Others, Job
  <1>1. CASE Go(j, "close")
    BY <1>0, <1>1, FilesKept, JobGoes
  <1>2. CASE ~Go(j, "close")
    <2>1. f \in File /\ Secured(f)
      BY <1>0, HeldFile DEF Copied
    <2>2. job' = [job EXCEPT ![j] = k]
      BY <1>0, <1>2 DEF Finish
    <2> HIDE DEF f
    <2>3. Synced(f) \in File /\ Synced(f).data = "synced" /\ Filled(Synced(f)) /\ Secured(Synced(f))
      <3>1. /\ Synced(f) \in File /\ Synced(f).data = "synced" /\ Synced(f).version = f.version
            /\ Synced(f).restored = f.restored /\ Synced(f).hold = f.hold
            /\ Synced(f).marker = f.marker
        BY <2>1 DEF Synced, File
      <3> QED
        BY <2>1, <3>1 DEF Filled, Secured
    <2>4. /\ k \in Job /\ k.pc = "absent" /\ k.temporary = Synced(f)
          /\ k.op = job[j].op /\ k.source = job[j].source /\ k.target = job[j].target
          /\ k.copy = job[j].copy
      BY <1>0, <2>3 DEF Job
    <2> HIDE DEF k
    <2>5. Equipped(k) /\ Copied(k)
      BY <1>0, <2>3, <2>4 DEF Equipped, Copied
    <2> QED
      BY <1>0, <2>2, <2>4, <2>5, FilesKept, JobMoves
  <1> QED
    BY <1>1, <1>2

LEMMA CheckKeeps ==
  ASSUME BackupInv, NEW j \in Jobs, CheckAbsent(j)
  PROVE  BackupInv'
  <1> DEFINE k == [job[j] EXCEPT !.pc = "link"]
  <1>0. /\ job \in [Jobs -> Job] /\ job[j] \in Job /\ site \in Site
        /\ job[j].pc = "absent" /\ UNCHANGED <<file, daemon, site>>
        /\ Equipped(job[j]) /\ Copied(job[j])
    BY DEF BackupInv, Typed, JobsSound, CheckAbsent, Others
  <1>1. CASE Go(j, "close")
    BY <1>0, <1>1, FilesKept, JobGoes
  <1>2. CASE Go(j, "link")
    <2>1. job' = [job EXCEPT ![j] = k]
      BY <1>2 DEF Go
    <2>2. /\ k \in Job /\ k.pc = "link" /\ k.temporary = job[j].temporary
          /\ k.op = job[j].op /\ k.source = job[j].source /\ k.target = job[j].target
          /\ k.copy = job[j].copy
      BY <1>0 DEF Job
    <2> HIDE DEF k
    <2>3. Equipped(k) /\ Copied(k)
      BY <1>0, <2>2 DEF Equipped, Copied
    <2> QED
      BY <1>0, <2>1, <2>2, <2>3, FilesKept, JobMoves
  <1> QED
    BY <1>1, <1>2 DEF CheckAbsent

\* Published: at a path, or as the copy of a rehearsal.
LEMMA LinkKeeps ==
  ASSUME BackupInv, NEW j \in Jobs, Link(j)
  PROVE  BackupInv'
  <1> DEFINE f == [job[j].temporary EXCEPT !.entry = "written"]
  <1>0. /\ job \in [Jobs -> Job] /\ job[j] \in Job /\ site \in Site /\ file \in [Names -> File]
        /\ job[j].pc = "link" /\ UNCHANGED <<daemon, site>>
        /\ Equipped(job[j]) /\ Copied(job[j]) /\ job[j].temporary \in File
    BY DEF BackupInv, Typed, JobsSound, Link, Others, Job
  <1>1. f \in File /\ Durable(f)
    <2>1. /\ f \in File /\ f.data = job[j].temporary.data /\ f.version = job[j].temporary.version
          /\ f.restored = job[j].temporary.restored /\ f.hold = job[j].temporary.hold
          /\ f.marker = job[j].temporary.marker
      BY <1>0 DEF File
    <2> HIDE DEF f
    <2>2. Secured(job[j].temporary) /\ job[j].temporary.data = "synced"
      BY <1>0 DEF Copied
    <2> QED
      BY <2>1, <2>2 DEF Durable, Filled, Secured
  <1>2. CASE Refused(j)
    <2>1. Go(j, "close") /\ UNCHANGED file
      BY <1>2 DEF Link
    <2> QED
      BY <1>0, <2>1, FilesKept, JobGoes
  <1>3. CASE ~Refused(j) /\ job[j].op = "rehearse"
    <2> DEFINE k == [job[j] EXCEPT !.pc = "close", !.copy = f, !.linked = TRUE]
    <2>1. job' = [job EXCEPT ![j] = k] /\ UNCHANGED file
      BY <1>0, <1>3 DEF Link
    <2> HIDE DEF f
    <2>2. /\ k \in Job /\ k.pc = "close" /\ k.temporary = job[j].temporary /\ k.copy = f
          /\ k.op = job[j].op /\ k.source = job[j].source /\ k.target = job[j].target
      BY <1>0, <1>1 DEF Job
    <2> HIDE DEF k
    <2>3. Equipped(k) /\ Copied(k)
      BY <1>0, <1>1, <2>2 DEF Equipped, Copied, Durable
    <2> QED
      BY <1>0, <2>1, <2>2, <2>3, FilesKept, JobMoves
  <1>4. CASE ~Refused(j) /\ job[j].op # "rehearse"
    <2> DEFINE k == [job[j] EXCEPT !.pc = "parent", !.linked = TRUE]
    <2>1. job' = [job EXCEPT ![j] = k] /\ file' = [file EXCEPT ![job[j].target] = f]
      BY <1>0, <1>4 DEF Link
    <2> HIDE DEF f
    <2>2. /\ k \in Job /\ k.pc = "parent" /\ k.temporary = job[j].temporary /\ k.copy = job[j].copy
          /\ k.op = job[j].op /\ k.source = job[j].source /\ k.target = job[j].target
      BY <1>0 DEF Job
    <2> HIDE DEF k
    <2>3. Equipped(k) /\ Copied(k)
      BY <1>0, <2>2 DEF Equipped, Copied
    <2>4. file' \in [Names -> File] /\ \A n \in Names : Durable(file'[n])
      <3>1. \A n \in Names : Durable(file[n])
        BY DEF BackupInv, FilesDurable
      <3>2. file' \in [Names -> File] /\ \A n \in Names : file'[n] \in {file[n], f}
        BY <1>0, <1>1, <2>1
      <3> QED
        BY <1>1, <3>1, <3>2
    <2> QED
      BY <1>0, <2>1, <2>2, <2>3, <2>4, JobMoves
  <1> QED
    BY <1>2, <1>3, <1>4

LEMMA SyncKeeps ==
  ASSUME BackupInv, NEW j \in Jobs, SyncParent(j)
  PROVE  BackupInv'
  <1>0. file \in [Names -> File] /\ \A n \in Names : Durable(file[n]) /\ file[n] \in File
    BY DEF BackupInv, Typed, FilesDurable
  <1>1. /\ job[j].pc = "parent" /\ Go(j, "close") /\ UNCHANGED <<daemon, site>>
        /\ file' = [n \in Names |-> IF file[n].entry = "written"
                                    THEN [file[n] EXCEPT !.entry = "synced"] ELSE file[n]]
    BY DEF SyncParent, Others
  <1>2. ASSUME NEW f \in File, Durable(f)
        PROVE  [f EXCEPT !.entry = "synced"] \in File /\ Durable([f EXCEPT !.entry = "synced"])
    <2> DEFINE g == [f EXCEPT !.entry = "synced"]
    <2>1. /\ g \in File /\ g.data = f.data /\ g.version = f.version /\ g.restored = f.restored
          /\ g.hold = f.hold /\ g.marker = f.marker
      BY DEF File
    <2> HIDE DEF g
    <2>2. g \in File /\ Durable(g)
      BY <1>2, <2>1 DEF Durable, Filled, Secured
    <2> QED
      BY <2>2 DEF g
  <1>3. file' \in [Names -> File] /\ \A n \in Names : Durable(file'[n])
    BY <1>0, <1>1, <1>2
  <1> QED
    BY <1>1, <1>3, JobGoes

\* A job ends, or a rehearsal goes on to its copy.
LEMMA EndKeeps ==
  ASSUME BackupInv, NEW j \in Jobs, Close(j) \/ MigrateCopy(j) \/ Cleanup(j) \/ Die(j)
  PROVE  BackupInv'
  <1>0. /\ job \in [Jobs -> Job] /\ job[j] \in Job /\ site \in Site /\ UNCHANGED <<file, daemon, site>>
        /\ Equipped(job[j]) /\ Copied(job[j]) /\ job[j].copy \in File
    BY DEF BackupInv, Typed, JobsSound, Close, MigrateCopy, Cleanup, Die, Others, Job
  <1>1. CASE job' = [job EXCEPT ![j] = NoJob]
    BY <1>0, <1>1, EmptyJob, FilesKept, JobMoves
  <1>2. CASE MigrateCopy(j)
    <2> DEFINE k == [job[j] EXCEPT !.pc = "cleanup", !.copy = Migrated(@)]
    <2>1. job' = [job EXCEPT ![j] = k] /\ job[j].pc = "migrate"
      BY <1>0, <1>2 DEF MigrateCopy
    <2>2. Migrated(job[j].copy) \in File /\ Secured(Migrated(job[j].copy))
      BY <1>0, MigratedFile DEF Copied
    <2>3. /\ k \in Job /\ k.pc = "cleanup" /\ k.temporary = job[j].temporary
          /\ k.copy = Migrated(job[j].copy)
          /\ k.op = job[j].op /\ k.source = job[j].source /\ k.target = job[j].target
      BY <1>0, <2>2 DEF Job
    <2> HIDE DEF k
    <2>4. Equipped(k) /\ Copied(k)
      BY <1>0, <2>1, <2>2, <2>3 DEF Equipped, Copied
    <2> QED
      BY <1>0, <2>1, <2>3, <2>4, FilesKept, JobMoves
  <1>3. CASE Close(j) /\ job[j].op = "rehearse"
    <2> DEFINE k == [job[j] EXCEPT !.pc = IF job[j].linked THEN "migrate" ELSE "cleanup",
                                   !.temporary = NoFile]
    <2>1. job' = [job EXCEPT ![j] = k] /\ job[j].pc = "close"
      BY <1>3 DEF Close
    <2>2. /\ k \in Job /\ k.pc \in {"migrate", "cleanup"} /\ k.temporary = NoFile
          /\ k.copy = job[j].copy
          /\ k.op = job[j].op /\ k.source = job[j].source /\ k.target = job[j].target
      BY <1>0, EmptyFile DEF Job
    <2> HIDE DEF k
    <2>3. Filled(NoFile) /\ NoFile.data # "torn"
      BY EmptyFile DEF Durable, NoFile
    <2>4. Equipped(k) /\ Copied(k)
      BY <1>0, <2>1, <2>2, <2>3 DEF Equipped, Copied
    <2> QED
      BY <1>0, <2>1, <2>2, <2>4, FilesKept, JobMoves
  <1>4. CASE Close(j) /\ job[j].op # "rehearse"
    <2>1. job' = [job EXCEPT ![j] = NoJob]
      BY <1>4 DEF Close
    <2> QED
      BY <1>1, <2>1
  <1>5. Cleanup(j) \/ Die(j) => job' = [job EXCEPT ![j] = NoJob]
    BY DEF Cleanup, Die
  <1> QED
    BY <1>1, <1>2, <1>3, <1>4, <1>5

\* A power failure damages nothing that was synced.
LEMMA PowerLossFiles ==
  ASSUME NEW f \in File, Durable(f), NEW g \in AfterPowerLoss(f)
  PROVE  g \in File /\ Durable(g) /\ (g = NoFile \/ g.maker = f.maker)
  <1>1. CASE g = NoFile
    BY <1>1, EmptyFile
  <1>2. CASE g # NoFile
    <2>1. g = [f EXCEPT !.data = IF @ = "written" THEN "torn" ELSE @,
                        !.entry = IF @ = "written" THEN "synced" ELSE @]
      BY <1>2 DEF AfterPowerLoss
    <2>2. f.data \in {"none", "synced"}
      BY DEF Durable
    <2>3. /\ g \in File /\ g.data = f.data /\ g.version = f.version /\ g.restored = f.restored
          /\ g.hold = f.hold /\ g.marker = f.marker /\ g.maker = f.maker
      BY <2>1, <2>2 DEF File
    <2> QED
      BY <2>3 DEF Durable, Filled, Secured
  <1> QED
    BY <1>1, <1>2

\* The steps of the daemon, of other programs and of the host.
LEMMA OutsideKeeps ==
  ASSUME BackupInv,
         \/ \E n \in Names : Start(n) \/ Intrude(n)
         \/ ReconcilePaid \/ Stop \/ PowerLoss \/ SiteChanges \/ UNCHANGED backupVars
  PROVE  BackupInv'
  <1>0. /\ file \in [Names -> File] /\ job \in [Jobs -> Job] /\ site \in Site
        /\ daemon \in Names \cup {"stopped"}
        /\ \A n \in Names : Durable(file[n]) /\ file[n] \in File
        /\ \A j \in Jobs : Equipped(job[j]) /\ Copied(job[j])
    BY DEF BackupInv, Typed, FilesDurable, JobsSound
  <1>1. site' \in Site
    <2>1. CASE UNCHANGED site
      BY <1>0, <2>1
    <2>2. CASE SiteChanges
      <3>1. site' \in {[site EXCEPT !.config = 3 - @], [site EXCEPT !.ready = ~ @]}
        BY <2>2 DEF SiteChanges
      <3>2. site.config \in Int /\ 3 - site.config \in Int /\ (~site.ready) \in BOOLEAN
        BY <1>0 DEF Site
      <3> QED
        BY <1>0, <3>1, <3>2 DEF Site
    <2> QED
      BY <2>1, <2>2 DEF Start, Intrude, ReconcilePaid, Stop, PowerLoss, backupVars
  <1>2. file' \in [Names -> File] /\ \A n \in Names : Durable(file'[n])
    <2>1. ASSUME NEW n \in Names, Start(n) \/ Intrude(n)
          PROVE  file' \in [Names -> File] /\ \A x \in Names : Durable(file'[x])
      <3>1. NewFile \in File /\ Durable(NewFile)
        BY DEF NewFile, Found, NoFile, File, Makers, Durable, Filled, Secured, Current
      <3>2. [Found EXCEPT !.maker = "other"] \in File /\ Durable([Found EXCEPT !.maker = "other"])
        BY DEF Found, NoFile, File, Makers, Durable, Filled, Secured
      <3>3. ASSUME file[n] # NoFile, Supported(file[n])
            PROVE  Migrated(file[n]) \in File /\ Durable(Migrated(file[n]))
        <4>1. file[n].version # 0
          BY <3>3 DEF Supported
        <4>2. file[n].data = "synced"
          BY <1>0, <4>1 DEF Durable, Filled
        <4> QED
          BY <1>0, <4>2, MigratedFile DEF Durable, Filled
      <3>4. PICK f \in File : Durable(f) /\ file' = [file EXCEPT ![n] = f]
        BY <1>0, <2>1, <3>1, <3>2, <3>3 DEF Start, Intrude
      <3> QED
        BY <1>0, <3>4
    <2>2. CASE ReconcilePaid
      <3> DEFINE f == [file[daemon] EXCEPT !.hold = FALSE, !.restored = FALSE]
      <3>1. daemon \in Names /\ file[daemon] \in File
        BY <1>0, <2>2 DEF ReconcilePaid
      <3>2. file' = [file EXCEPT ![daemon] = f]
        BY <1>0, <2>2, <3>1 DEF ReconcilePaid
      <3>3. /\ f \in File /\ f.data = file[daemon].data /\ f.version = file[daemon].version
            /\ f.restored = FALSE
        BY <3>1 DEF File
      <3> HIDE DEF f
      <3>4. Durable(f)
        BY <1>0, <3>1, <3>3 DEF Durable, Filled, Secured
      <3> QED
        BY <1>0, <3>2, <3>3, <3>4
    <2>3. CASE PowerLoss
      <3>1. /\ \A n \in Names : file'[n] \in AfterPowerLoss(file[n])
            /\ file' \in [Names -> UNION {AfterPowerLoss(file[n]) : n \in Names}]
        BY <2>3 DEF PowerLoss
      <3>2. \A n \in Names : file'[n] \in File /\ Durable(file'[n])
        BY <1>0, <3>1, PowerLossFiles
      <3> QED
        BY <3>1, <3>2
    <2>4. CASE UNCHANGED file
      BY <1>0, <2>4
    <2> QED
      BY <2>1, <2>2, <2>3, <2>4 DEF Stop, SiteChanges, backupVars
  <1>3. /\ job' \in [Jobs -> Job] /\ daemon' \in Names \cup {"stopped"}
        /\ \A j \in Jobs : Copied(job'[j])
        /\ \A j \in Jobs : job'[j] = NoJob \/ (job'[j] = job[j] /\ (job[j].op = "backup" => daemon' # "stopped"))
    <2>1. CASE Stop \/ PowerLoss
      <3>1. daemon' = "stopped" /\ \A j \in Jobs : job'[j] = NoJob \/ (job'[j] = job[j] /\ job[j].op # "backup")
        BY <2>1 DEF Stop, PowerLoss
      <3>2. job' \in [Jobs -> Job]
        BY <1>0, <2>1, EmptyJob DEF Stop, PowerLoss
      <3> QED
        BY <1>0, <3>1, <3>2, EmptyJob
    <2>2. ASSUME NEW n \in Names, Start(n) PROVE UNCHANGED job /\ daemon = "stopped" /\ daemon' = n
      BY <2>2 DEF Start
    <2>3. CASE \E n \in Names : Start(n)
      <3>1. UNCHANGED job /\ daemon = "stopped" /\ daemon' \in Names
        BY <2>2, <2>3
      <3>2. \A j \in Jobs : job[j].op # "backup"
        BY <1>0, <3>1 DEF Equipped
      <3> QED
        BY <1>0, <3>1, <3>2
    <2>4. CASE UNCHANGED <<job, daemon>>
      <3>1. \A j \in Jobs : job[j].op = "backup" => daemon # "stopped"
        BY <1>0 DEF Equipped
      <3> QED
        BY <1>0, <2>4, <3>1
    <2> QED
      BY <2>1, <2>3, <2>4 DEF Intrude, ReconcilePaid, SiteChanges, backupVars
  <1>4. JobsSound'
    <2>1. ASSUME NEW j \in Jobs PROVE Equipped(job[j])'
      <3>1. CASE job'[j] = NoJob
        BY <3>1, EmptyJob DEF Equipped
      <3>2. CASE job'[j] # NoJob
        BY <1>0, <1>3, <3>2 DEF Equipped
      <3> QED
        BY <3>1, <3>2
    <2>2. ASSUME NEW j \in Jobs PROVE Copied(job[j])'
      BY <1>3 DEF Copied, Filled, Secured
    <2> QED
      BY <2>1, <2>2 DEF JobsSound
  <1>5. Typed' /\ FilesDurable'
    BY <1>1, <1>2, <1>3 DEF Typed, FilesDurable, Durable, Filled, Secured
  <1> QED
    BY <1>4, <1>5 DEF BackupInv

LEMMA BackupStarts == BackupInit => BackupInv
  <1> SUFFICES ASSUME BackupInit PROVE BackupInv
    OBVIOUS
  <1>1. PICK v \in Releases :
           file = [n \in Names |-> IF n = "new" THEN NoFile ELSE [Found EXCEPT !.version = v]]
    BY DEF BackupInit
  <1>2. v \in Nat
    BY ReleasesAssumption
  <1>3. file \in [Names -> File] /\ \A n \in Names : Durable(file[n])
    BY <1>1, <1>2, EmptyFile, FoundVersion
  <1>4. job = [j \in Jobs |-> NoJob] /\ daemon = "stopped" /\ site = [config |-> 1, ready |-> TRUE]
    BY DEF BackupInit
  <1>5. Typed
    BY <1>3, <1>4, EmptyJob DEF Typed, Site
  <1>6. JobsSound
    BY <1>4, EmptyJob DEF JobsSound
  <1> QED
    BY <1>3, <1>5, <1>6 DEF BackupInv, FilesDurable

LEMMA BackupSteps ==
  ASSUME BackupInv, [BackupNext]_backupVars
  PROVE  BackupInv'
  <1>1. ASSUME NEW j \in Jobs,
               \/ \E n \in Names : Backup(j, n) \/ RehearseRestore(j, n) \/ \E s \in Names : RestoreBackup(j, s, n)
               \/ Isolate(j) \/ OpenSource(j) \/ CreateTarget(j) \/ Vacuum(j) \/ Finish(j)
               \/ CheckAbsent(j) \/ Link(j) \/ SyncParent(j)
               \/ Close(j) \/ MigrateCopy(j) \/ Cleanup(j) \/ StepFails(j) \/ Die(j)
        PROVE  BackupInv'
    BY <1>1, BeginKeeps, DecisionsKeep, VacuumKeeps, FinishKeeps, CheckKeeps, LinkKeeps, SyncKeeps,
       EndKeeps
  <1> QED
    BY <1>1, OutsideKeeps DEF BackupNext

\* A file at a path keeps its maker or goes.
KeepsFiles == \A n \in Names : file[n] # NoFile => file'[n] = NoFile \/ file'[n].maker = file[n].maker

LEMMA FilesAreKept ==
  ASSUME BackupInv, [BackupNext]_backupVars
  PROVE  KeepsFiles
  <1>0. /\ file \in [Names -> File] /\ \A n \in Names : Durable(file[n]) /\ file[n] \in File
        /\ daemon \in Names \cup {"stopped"}
    BY DEF BackupInv, Typed, FilesDurable
  <1>1. CASE UNCHANGED file
    BY <1>1 DEF KeepsFiles
  <1>2. ASSUME NEW n \in Names, Start(n) \/ Intrude(n) PROVE KeepsFiles
    <2>1. \E f : file' = [file EXCEPT ![n] = f] /\ (file[n] # NoFile => f = Migrated(file[n]))
      BY <1>2 DEF Start, Intrude
    <2>2. Migrated(file[n]).maker = file[n].maker
      BY <1>0, MigratedFile
    <2> QED
      BY <1>0, <2>1, <2>2 DEF KeepsFiles
  <1>3. CASE ReconcilePaid
    <2> DEFINE f == [file[daemon] EXCEPT !.hold = FALSE, !.restored = FALSE]
    <2>1. daemon \in Names /\ file[daemon] \in File
      BY <1>0, <1>3 DEF ReconcilePaid
    <2>2. file' = [file EXCEPT ![daemon] = f]
      BY <1>0, <1>3, <2>1 DEF ReconcilePaid
    <2>3. f.maker = file[daemon].maker
      BY <2>1 DEF File
    <2> HIDE DEF f
    <2> QED
      BY <1>0, <2>2, <2>3 DEF KeepsFiles
  <1>4. CASE PowerLoss
    <2>1. \A n \in Names : file'[n] \in AfterPowerLoss(file[n])
      BY <1>4 DEF PowerLoss
    <2> QED
      BY <1>0, <2>1, PowerLossFiles DEF KeepsFiles
  <1>5. ASSUME NEW j \in Jobs, Link(j) PROVE KeepsFiles
    <2>1. CASE UNCHANGED file
      BY <1>1, <2>1
    <2>2. CASE ~UNCHANGED file
      <3>1. /\ file[job[j].target] = NoFile
            /\ \E f : file' = [file EXCEPT ![job[j].target] = f]
        BY <1>5, <2>2 DEF Link, Refused, Taken
      <3> QED
        BY <1>0, <3>1 DEF KeepsFiles
    <2> QED
      BY <2>1, <2>2
  <1>6. ASSUME NEW j \in Jobs, SyncParent(j) PROVE KeepsFiles
    <2>1. file' = [n \in Names |-> IF file[n].entry = "written"
                                   THEN [file[n] EXCEPT !.entry = "synced"] ELSE file[n]]
      BY <1>6 DEF SyncParent
    <2>2. \A f \in File : [f EXCEPT !.entry = "synced"].maker = f.maker
      BY DEF File
    <2> QED
      BY <1>0, <2>1, <2>2 DEF KeepsFiles
  <1>7. ASSUME NEW j \in Jobs,
               \/ \E n \in Names : Backup(j, n) \/ RehearseRestore(j, n) \/ \E s \in Names : RestoreBackup(j, s, n)
               \/ Isolate(j) \/ OpenSource(j) \/ CreateTarget(j) \/ Vacuum(j) \/ Finish(j)
               \/ CheckAbsent(j) \/ Close(j) \/ MigrateCopy(j) \/ Cleanup(j) \/ StepFails(j) \/ Die(j)
        PROVE  UNCHANGED file
    BY <1>7 DEF Backup, RehearseRestore, RestoreBackup, Isolate, OpenSource, CreateTarget, Vacuum,
       Finish, CheckAbsent, Close, MigrateCopy, Cleanup, StepFails, Die
  <1>8. Stop \/ SiteChanges \/ UNCHANGED backupVars => UNCHANGED file
    BY DEF Stop, SiteChanges, backupVars
  <1> QED
    BY <1>1, <1>2, <1>3, <1>4, <1>5, <1>6, <1>7, <1>8 DEF BackupNext

\* However many jobs, the daemon and other programs race for a path, and at
\* whatever step a process or the host stops: no file is replaced by another, no
\* damaged database is published, and a restored one keeps its paid channels held
\* until they are reconciled, also when it is migrated, backed up and restored
\* again.
THEOREM BackupsAreSafe == BackupSpec => [](PublishedWhole /\ RestoredHeld) /\ NeverReplaced
  <1>1. BackupInv => PublishedWhole /\ RestoredHeld
    BY DEF BackupInv, FilesDurable, JobsSound, Durable, Copied, Secured, PublishedWhole, RestoredHeld
  <1>2. BackupInv /\ [BackupNext]_backupVars => BackupInv'
    BY BackupSteps
  <1>3. BackupInv /\ [BackupNext]_backupVars
          => [\A n \in Names : file[n] # NoFile => file'[n] = NoFile \/ file'[n].maker = file[n].maker]_backupVars
    BY FilesAreKept DEF KeepsFiles
  <1> QED
    BY <1>1, <1>2, <1>3, BackupStarts, PTL DEF BackupSpec, NeverReplaced

\* The whole promise, given that the verification accepts the schema of every
\* version up to the current one, a constant fact that TLC computes.
THEOREM BackupsAreSound ==
  ASSUME \A v \in 1..Current : Accepted[v]
  PROVE  BackupSpec => BackupSound
  <1>1. BackupInv => BackupsAccepted
    <2> SUFFICES ASSUME BackupInv PROVE BackupsAccepted
      OBVIOUS
    <2>1. \A v \in 1..Current : Verified([Found EXCEPT !.version = v])
      <3> SUFFICES ASSUME NEW v \in 1..Current PROVE Verified([Found EXCEPT !.version = v])
        OBVIOUS
      <3>1. v \in Nat
        BY DEF Current
      <3>2. /\ [Found EXCEPT !.version = v].version = v
            /\ [Found EXCEPT !.version = v].data = "synced"
        BY <3>1, FoundVersion
      <3> QED
        BY <3>2 DEF Verified
    <2>2. ASSUME NEW f \in File, Filled(f), f.version \in 1..Current, f.data # "torn"
          PROVE  Verified(f)
      BY <2>2 DEF Filled, Verified
    <2>3. /\ \A n \in Names : file[n] \in File /\ Filled(file[n])
          /\ \A j \in Jobs : job[j].temporary \in File /\ Filled(job[j].temporary)
      BY DEF BackupInv, Typed, FilesDurable, JobsSound, Durable, Copied, Job
    <2> QED
      BY <2>1, <2>2, <2>3 DEF BackupsAccepted
  <1>2. BackupInv /\ [BackupNext]_backupVars => BackupInv'
    BY BackupSteps
  <1> QED
    BY <1>1, <1>2, BackupStarts, BackupsAreSafe, PTL DEF BackupSpec, BackupSound

=============================================================================
