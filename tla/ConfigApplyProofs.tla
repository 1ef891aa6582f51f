------------------------- MODULE ConfigApplyProofs -------------------------
(***************************************************************************)
(* Proofs about the configuration transaction, for any set of managers,    *)
(* any number of operations and any number of faults, edits and crashes.   *)
(*                                                                         *)
(* The argument has two layers.  Kept is about the files: it says, for the *)
(* process that holds the lock, how its step, the journal and the          *)
(* configuration file relate, and is inductive by itself.  Served is about *)
(* the units: which of them can be up at each step of an apply, a rollback *)
(* or a plain service action; it is inductive given Kept.                  *)
(***************************************************************************)
EXTENDS ConfigApply, TLAPS

-----------------------------------------------------------------------------
(* The lists of steps an operation can still have before it.               *)

A4 == <<"stopSensor", "restartDaemon", "startSensor", "ready">>
A3 == <<"restartDaemon", "startSensor", "ready">>
A2 == <<"startSensor", "ready">>
A1 == <<"ready">>
R6 == <<"haltSensor", "haltDaemon", "stopSensor", "restartDaemon", "startSensor", "ready">>
R5 == <<"haltDaemon", "stopSensor", "restartDaemon", "startSensor", "ready">>
D4 == <<"startDaemon", "startSensor", "sensorOff", "ready">>
D3 == <<"startSensor", "sensorOff", "ready">>
D2 == <<"sensorOff", "ready">>
H2 == <<"haltSensor", "haltDaemon">>
H1 == <<"haltDaemon">>

StepLists == {<<>>, A1, A2, A3, A4, R5, R6, D2, D3, D4, H1, H2}

Pcs == {"idle", "form", "stage", "read", "prepare", "recheck", "write", "candidate_written", "activating",
        "apply", "commit", "failed", "rollback", "restore", "restoring", "restored", "service", "post"}
OpKinds == Kinds \cup {None, "save", "recover", "stop", "restart", "start"}
MaybeConfig == AnyConfig \cup {None}
MaybeFile == (Kinds \X Nat) \cup {None}
RanSets == SUBSET Units

OpRec == [pc : Pcs, kind : OpKinds, snap : MaybeConfig, cand : MaybeConfig, file : MaybeFile,
          before : MaybeConfig, ran : RanSets, steps : StepLists, retried : BOOLEAN, ok : BOOLEAN]
UnitStates == {"active", "inactive", "failed", "activating"}
Svc == [daemon : UnitStates, sensor : UnitStates, loaded : MaybeConfig]

-----------------------------------------------------------------------------
(* The invariant about files.                                              *)

\* The variables have the shape their declarations name, whatever the serials in them.
Shape ==
    /\ config \in MaybeConfig
    /\ journal \in AnyJournal \cup {None}
    /\ files \subseteq Kinds \X Nat
    /\ svc \in Svc
    /\ masked \subseteq Units
    /\ child \in [Managers -> Commands \cup {None}]
    /\ serial \in Nat \ {0}
    /\ faults \in Nat /\ edits \in Nat /\ blind \in BOOLEAN

\* A content made so far: its revision and the names in it were drawn already.
Made(c) == c = None \/ (c.rev < serial /\ \A k \in Kinds : c.refs[k] = None \/ c.refs[k][2] < serial)

\* Nothing carries a serial that is still to be drawn: what is on disk or loaded, and operations.
Drawn ==
    /\ Made(config) /\ Made(svc.loaded)
    /\ journal # None => Made(journal.before) /\ Made(journal.after)
    /\ \A f \in files : f[2] < serial
DrawnBy(r) ==
    /\ Made(r.snap) /\ Made(r.cand) /\ Made(r.before)
    /\ r.file = None \/ r.file[2] < serial

Waiting == {"idle", "form"}

\* The process past its form is the one that holds the lock; the others have staged nothing.
OneHolder ==
    \A p \in Managers : /\ (lock = p) <=> op[p].pc \notin Waiting
                        /\ op[p].pc \in Waiting => op[p].file = None /\ op[p].before = None

\* A pending journal covers the configuration file unless somebody edited it.
JournalCovers ==
    journal # None /\ edits = 0 => config \in {journal.before, journal.after}

Early == {"prepare", "recheck", "write"}
Late == {"candidate_written", "activating", "apply", "commit"}
Undo == {"failed", "rollback", "restore", "restoring", "restored"}
Journaled == {"recheck", "write"} \cup Late \cup Undo

ApplyLists == {A1, A2, A3, A4}
RestoreLists == {A1, A2, A3, A4, R5, R6}
StartLists == {A1, D2, D3, D4}
StopLists == {H1, H2}

\* The remaining steps fit the operation.
StepsFit(r) ==
    /\ r.pc = "apply" => r.steps \in ApplyLists
    /\ r.pc = "restoring" => r.steps \in RestoreLists
    /\ r.pc = "service" => /\ r.kind = "stop" => r.steps \in StopLists
                           /\ r.kind = "restart" => r.steps \in ApplyLists
                           /\ r.kind = "start" => r.steps \in StartLists

\* What the operation r of the process that holds the lock relies on.
FilesOf(r) ==
    /\ StepsFit(r)
    /\ r.pc = "stage" => r.kind \in Kinds /\ Refs(config) = Refs(r.snap)
    /\ r.pc \in {"read", "prepare", "service"} \cup Journaled => r.cand # None
    /\ r.file \notin Refs(r.before)
    /\ r.pc = "read" => r.file \notin Refs(r.snap)
    /\ journal # None => r.file \notin Refs(journal.before)
    /\ r.pc = "prepare" => journal = None
    /\ r.pc \in Journaled => /\ journal # None
                             /\ journal.before = r.before /\ journal.after = r.cand /\ journal.ran = r.ran
    /\ r.pc \in Early => /\ Refs(r.before) \subseteq files /\ Refs(r.cand) \subseteq files
                         /\ edits = 0 => config = r.before
    /\ r.pc = "write" /\ ~blind => config = r.before
    /\ r.pc \in Late => /\ Refs(config) = Refs(r.cand)
                        /\ edits = 0 => config = r.cand
    /\ r.pc = "restore" /\ ~blind => config \in {r.before, r.cand}
    /\ r.pc \in {"restoring", "restored"} /\ edits = 0 => config = r.before
    /\ r.pc = "service" => r.kind \in {"stop", "restart", "start"}
    /\ r.pc = "post" /\ r.ok /\ r.kind = "secret" /\ journal = None => Refs(config) \subseteq Refs(r.cand)

\* What holds of the files whoever holds the lock, and with the operations.
OnDisk == Shape /\ Drawn /\ FilesPinned /\ JournalCovers

Kept ==
    /\ OnDisk
    /\ op \in [Managers -> OpRec]
    /\ lock \in Managers \cup {None}
    /\ OneHolder
    /\ \A p \in Managers : DrawnBy(op[p])
    /\ \A p \in Managers : lock = p => FilesOf(op[p])

-----------------------------------------------------------------------------
(* The invariant about units.                                              *)

Down == {"inactive", "failed"}
\* Steps that are behind the operation r.
StoppedSensor(r) == (r.pc = "apply" /\ r.steps \in {A1, A2, A3}) \/ r.pc = "commit"
RestartedDaemon(r) == (r.pc \in {"apply", "restoring"} /\ r.steps \in {A1, A2}) \/ r.pc \in {"commit", "restored"}
HaltedSensor(r) == (r.pc = "restoring" /\ r.steps # R6) \/ r.pc = "restored"
HaltedDaemon(r) == (r.pc = "restoring" /\ r.steps \notin {R6, R5}) \/ r.pc = "restored"

\* What the operation r of the process that holds the lock may assume of the units.
UnitsOf(r) ==
    /\ r.pc = "prepare" => /\ r.ran \cap masked = {}
                           /\ edits = 0 /\ "sensor" \in r.ran => Load(r.before).sensor
    /\ r.pc \in Early \cup Late => \A u \in Units : u \notin r.ran => svc[u] \in Down
    /\ StoppedSensor(r) /\ ~r.cand.sensor => svc.sensor \in Down
    /\ RestartedDaemon(r) /\ edits = 0 /\ svc.daemon = "active" => svc.loaded = config
    /\ HaltedSensor(r) /\ "sensor" \notin r.ran => svc.sensor \in Down
    /\ HaltedDaemon(r) /\ "daemon" \notin r.ran => svc.daemon \in Down
    /\ r.pc = "restored" /\ faults = 0 => \A u \in r.ran : svc[u] = "active"
    /\ r.pc = "service" /\ journal = None /\ edits = 0 => r.cand = Load(config)

\* At most one command is under way, the holder's for its first remaining step.
OneCommand ==
    /\ \A p, q \in Managers : child[p] # None /\ child[q] # None => p = q
    /\ \A p \in Managers : child[p] # None => lock \in {p, None}
    /\ \A p \in Managers : child[p] # None /\ lock = p =>
          ServicePhase(p) /\ child[p] = CommandOf(p, Head(op[p].steps))

\* What a journal promises about the units it lists.
RanOf ==
    journal # None => /\ journal.ran \cap masked = {}
                      /\ edits = 0 /\ "sensor" \in journal.ran => Load(journal.before).sensor

\* Without a journal and without an edit the units run what is saved, and a
\* command that a dead manager left behind keeps it so.
Steady ==
    journal = None /\ edits = 0 =>
        /\ svc.daemon = "active" => svc.loaded = config
        /\ svc.sensor \notin Down => Load(config).sensor
        /\ \A p \in Managers : child[p] # None /\ child[p][2] = "sensor" /\ child[p][1] # "stop" => Load(config).sensor

Served ==
    /\ OneCommand /\ RanOf /\ Steady
    /\ \A p \in Managers : lock = p => UnitsOf(op[p])

-----------------------------------------------------------------------------
(* Facts about the operators.                                              *)

LEMMA HeadsAndTails ==
    /\ ActivateSteps = A4 /\ RestoreSteps = R6
    /\ Head(A1) = "ready" /\ Head(A2) = "startSensor" /\ Head(A3) = "restartDaemon" /\ Head(A4) = "stopSensor"
    /\ Head(R5) = "haltDaemon" /\ Head(R6) = "haltSensor"
    /\ Head(D2) = "sensorOff" /\ Head(D3) = "startSensor" /\ Head(D4) = "startDaemon"
    /\ Head(H1) = "haltDaemon" /\ Head(H2) = "haltSensor"
    /\ Tail(A1) = <<>> /\ Tail(A2) = A1 /\ Tail(A3) = A2 /\ Tail(A4) = A3 /\ Tail(R5) = A4 /\ Tail(R6) = R5
    /\ Tail(D2) = A1 /\ Tail(D3) = D2 /\ Tail(D4) = D3 /\ Tail(H1) = <<>> /\ Tail(H2) = H1
<1>1. ActivateSteps = A4
  BY DEF ActivateSteps, A4
<1>2. RestoreSteps = R6
  BY DEF RestoreSteps, R6
<1>3. /\ Head(A1) = "ready" /\ Head(A2) = "startSensor" /\ Head(A3) = "restartDaemon" /\ Head(A4) = "stopSensor"
      /\ Head(R5) = "haltDaemon" /\ Head(R6) = "haltSensor"
  BY DEF A1, A2, A3, A4, R5, R6
<1>4. /\ Head(D2) = "sensorOff" /\ Head(D3) = "startSensor" /\ Head(D4) = "startDaemon"
      /\ Head(H1) = "haltDaemon" /\ Head(H2) = "haltSensor"
  BY DEF D2, D3, D4, H1, H2
<1>5. Tail(A1) = <<>> /\ Tail(A2) = A1 /\ Tail(A3) = A2 /\ Tail(A4) = A3
  BY DEF A1, A2, A3, A4
<1>6. Tail(R5) = A4 /\ Tail(R6) = R5
  BY DEF A4, R5, R6
<1>7. Tail(D2) = A1 /\ Tail(D3) = D2 /\ Tail(D4) = D3 /\ Tail(H1) = <<>> /\ Tail(H2) = H1
  BY DEF A1, D2, D3, D4, H1, H2
<1> QED BY <1>1, <1>2, <1>3, <1>4, <1>5, <1>6, <1>7

LEMMA ListsDiffer ==
    /\ A4 # A1 /\ A4 # A2 /\ A4 # A3 /\ A3 # A1 /\ A3 # A2 /\ A2 # A1
    /\ R6 # A1 /\ R6 # A2 /\ R6 # A3 /\ R6 # A4 /\ R6 # R5
    /\ R5 # A1 /\ R5 # A2 /\ R5 # A3 /\ R5 # A4
<1>1. Len(A1) = 1 /\ Len(A2) = 2 /\ Len(A3) = 3 /\ Len(A4) = 4 /\ Len(R5) = 5 /\ Len(R6) = 6
  BY DEF A1, A2, A3, A4, R5, R6
<1> QED BY <1>1

LEMMA ListsNotEmpty == <<>> \notin ApplyLists \cup RestoreLists \cup StopLists \cup StartLists
<1>1. <<>> # A1 /\ <<>> # A2 /\ <<>> # A3 /\ <<>> # A4 /\ <<>> # R5 /\ <<>> # R6
  BY DEF A1, A2, A3, A4, R5, R6
<1>2. <<>> # D2 /\ <<>> # D3 /\ <<>> # D4 /\ <<>> # H1 /\ <<>> # H2
  BY DEF D2, D3, D4, H1, H2
<1> QED BY <1>1, <1>2 DEF ApplyLists, RestoreLists, StopLists, StartLists

LEMMA RecFields ==
    ASSUME NEW r \in OpRec
    PROVE  /\ r.pc \in Pcs /\ r.kind \in OpKinds /\ r.snap \in MaybeConfig /\ r.cand \in MaybeConfig
           /\ r.file \in MaybeFile /\ r.before \in MaybeConfig /\ r.ran \in RanSets /\ r.steps \in StepLists
           /\ r.retried \in BOOLEAN /\ r.ok \in BOOLEAN
BY DEF OpRec

(* Each way a step rewrites the record of one process, and what it leaves  *)
(* in the fields.                                                          *)

LEMMA IdleFields ==
    /\ Idle.pc = "idle" /\ Idle.kind = None /\ Idle.snap = None /\ Idle.cand = None /\ Idle.file = None
    /\ Idle.before = None /\ Idle.ran = {} /\ Idle.steps = <<>> /\ Idle.retried = FALSE /\ Idle.ok = FALSE
    /\ Idle \in OpRec
<1>1. /\ Idle.pc = "idle" /\ Idle.kind = None /\ Idle.snap = None /\ Idle.cand = None /\ Idle.file = None
      /\ Idle.before = None /\ Idle.ran = {} /\ Idle.steps = <<>>
  BY DEF Idle
<1>2. Idle.retried = FALSE /\ Idle.ok = FALSE
  BY DEF Idle
<1>3. Idle \in OpRec
  <2>1. "idle" \in Pcs /\ None \in OpKinds /\ None \in MaybeConfig /\ None \in MaybeFile /\ {} \in RanSets /\ <<>> \in StepLists
    BY DEF Pcs, OpKinds, MaybeConfig, MaybeFile, RanSets, StepLists
  <2> QED BY <2>1 DEF Idle, OpRec
<1> QED BY <1>1, <1>2, <1>3

LEMMA Put_pc ==
    ASSUME NEW r \in OpRec, NEW x \in Pcs
    PROVE  /\ [r EXCEPT !.pc = x] \in OpRec
           /\ [r EXCEPT !.pc = x].pc = x /\ [r EXCEPT !.pc = x].kind = r.kind
           /\ [r EXCEPT !.pc = x].snap = r.snap /\ [r EXCEPT !.pc = x].cand = r.cand
           /\ [r EXCEPT !.pc = x].file = r.file /\ [r EXCEPT !.pc = x].before = r.before
           /\ [r EXCEPT !.pc = x].ran = r.ran /\ [r EXCEPT !.pc = x].steps = r.steps
           /\ [r EXCEPT !.pc = x].retried = r.retried /\ [r EXCEPT !.pc = x].ok = r.ok
BY DEF OpRec

LEMMA Put_kind ==
    ASSUME NEW r \in OpRec, NEW x \in OpKinds
    PROVE  /\ [r EXCEPT !.kind = x] \in OpRec
           /\ [r EXCEPT !.kind = x].pc = r.pc /\ [r EXCEPT !.kind = x].kind = x
           /\ [r EXCEPT !.kind = x].snap = r.snap /\ [r EXCEPT !.kind = x].cand = r.cand
           /\ [r EXCEPT !.kind = x].file = r.file /\ [r EXCEPT !.kind = x].before = r.before
           /\ [r EXCEPT !.kind = x].ran = r.ran /\ [r EXCEPT !.kind = x].steps = r.steps
           /\ [r EXCEPT !.kind = x].retried = r.retried /\ [r EXCEPT !.kind = x].ok = r.ok
BY DEF OpRec

LEMMA Put_snap ==
    ASSUME NEW r \in OpRec, NEW x \in MaybeConfig
    PROVE  /\ [r EXCEPT !.snap = x] \in OpRec
           /\ [r EXCEPT !.snap = x].pc = r.pc /\ [r EXCEPT !.snap = x].kind = r.kind
           /\ [r EXCEPT !.snap = x].snap = x /\ [r EXCEPT !.snap = x].cand = r.cand
           /\ [r EXCEPT !.snap = x].file = r.file /\ [r EXCEPT !.snap = x].before = r.before
           /\ [r EXCEPT !.snap = x].ran = r.ran /\ [r EXCEPT !.snap = x].steps = r.steps
           /\ [r EXCEPT !.snap = x].retried = r.retried /\ [r EXCEPT !.snap = x].ok = r.ok
BY DEF OpRec

LEMMA Put_cand ==
    ASSUME NEW r \in OpRec, NEW x \in MaybeConfig
    PROVE  /\ [r EXCEPT !.cand = x] \in OpRec
           /\ [r EXCEPT !.cand = x].pc = r.pc /\ [r EXCEPT !.cand = x].kind = r.kind
           /\ [r EXCEPT !.cand = x].snap = r.snap /\ [r EXCEPT !.cand = x].cand = x
           /\ [r EXCEPT !.cand = x].file = r.file /\ [r EXCEPT !.cand = x].before = r.before
           /\ [r EXCEPT !.cand = x].ran = r.ran /\ [r EXCEPT !.cand = x].steps = r.steps
           /\ [r EXCEPT !.cand = x].retried = r.retried /\ [r EXCEPT !.cand = x].ok = r.ok
BY DEF OpRec

LEMMA Put_file ==
    ASSUME NEW r \in OpRec, NEW x \in MaybeFile
    PROVE  /\ [r EXCEPT !.file = x] \in OpRec
           /\ [r EXCEPT !.file = x].pc = r.pc /\ [r EXCEPT !.file = x].kind = r.kind
           /\ [r EXCEPT !.file = x].snap = r.snap /\ [r EXCEPT !.file = x].cand = r.cand
           /\ [r EXCEPT !.file = x].file = x /\ [r EXCEPT !.file = x].before = r.before
           /\ [r EXCEPT !.file = x].ran = r.ran /\ [r EXCEPT !.file = x].steps = r.steps
           /\ [r EXCEPT !.file = x].retried = r.retried /\ [r EXCEPT !.file = x].ok = r.ok
BY DEF OpRec

LEMMA Put_before ==
    ASSUME NEW r \in OpRec, NEW x \in MaybeConfig
    PROVE  /\ [r EXCEPT !.before = x] \in OpRec
           /\ [r EXCEPT !.before = x].pc = r.pc /\ [r EXCEPT !.before = x].kind = r.kind
           /\ [r EXCEPT !.before = x].snap = r.snap /\ [r EXCEPT !.before = x].cand = r.cand
           /\ [r EXCEPT !.before = x].file = r.file /\ [r EXCEPT !.before = x].before = x
           /\ [r EXCEPT !.before = x].ran = r.ran /\ [r EXCEPT !.before = x].steps = r.steps
           /\ [r EXCEPT !.before = x].retried = r.retried /\ [r EXCEPT !.before = x].ok = r.ok
BY DEF OpRec

LEMMA Put_ran ==
    ASSUME NEW r \in OpRec, NEW x \in RanSets
    PROVE  /\ [r EXCEPT !.ran = x] \in OpRec
           /\ [r EXCEPT !.ran = x].pc = r.pc /\ [r EXCEPT !.ran = x].kind = r.kind
           /\ [r EXCEPT !.ran = x].snap = r.snap /\ [r EXCEPT !.ran = x].cand = r.cand
           /\ [r EXCEPT !.ran = x].file = r.file /\ [r EXCEPT !.ran = x].before = r.before
           /\ [r EXCEPT !.ran = x].ran = x /\ [r EXCEPT !.ran = x].steps = r.steps
           /\ [r EXCEPT !.ran = x].retried = r.retried /\ [r EXCEPT !.ran = x].ok = r.ok
BY DEF OpRec

LEMMA Put_steps ==
    ASSUME NEW r \in OpRec, NEW x \in StepLists
    PROVE  /\ [r EXCEPT !.steps = x] \in OpRec
           /\ [r EXCEPT !.steps = x].pc = r.pc /\ [r EXCEPT !.steps = x].kind = r.kind
           /\ [r EXCEPT !.steps = x].snap = r.snap /\ [r EXCEPT !.steps = x].cand = r.cand
           /\ [r EXCEPT !.steps = x].file = r.file /\ [r EXCEPT !.steps = x].before = r.before
           /\ [r EXCEPT !.steps = x].ran = r.ran /\ [r EXCEPT !.steps = x].steps = x
           /\ [r EXCEPT !.steps = x].retried = r.retried /\ [r EXCEPT !.steps = x].ok = r.ok
BY DEF OpRec

LEMMA Put_retried ==
    ASSUME NEW r \in OpRec, NEW x \in BOOLEAN
    PROVE  /\ [r EXCEPT !.retried = x] \in OpRec
           /\ [r EXCEPT !.retried = x].pc = r.pc /\ [r EXCEPT !.retried = x].kind = r.kind
           /\ [r EXCEPT !.retried = x].snap = r.snap /\ [r EXCEPT !.retried = x].cand = r.cand
           /\ [r EXCEPT !.retried = x].file = r.file /\ [r EXCEPT !.retried = x].before = r.before
           /\ [r EXCEPT !.retried = x].ran = r.ran /\ [r EXCEPT !.retried = x].steps = r.steps
           /\ [r EXCEPT !.retried = x].retried = x /\ [r EXCEPT !.retried = x].ok = r.ok
BY DEF OpRec

LEMMA Put_ok ==
    ASSUME NEW r \in OpRec, NEW x \in BOOLEAN
    PROVE  /\ [r EXCEPT !.ok = x] \in OpRec
           /\ [r EXCEPT !.ok = x].pc = r.pc /\ [r EXCEPT !.ok = x].kind = r.kind
           /\ [r EXCEPT !.ok = x].snap = r.snap /\ [r EXCEPT !.ok = x].cand = r.cand
           /\ [r EXCEPT !.ok = x].file = r.file /\ [r EXCEPT !.ok = x].before = r.before
           /\ [r EXCEPT !.ok = x].ran = r.ran /\ [r EXCEPT !.ok = x].steps = r.steps
           /\ [r EXCEPT !.ok = x].retried = r.retried /\ [r EXCEPT !.ok = x].ok = x
BY DEF OpRec

Posted(p, a, b, c, d, e) ==
    op' = [op EXCEPT ![p] = [Idle EXCEPT !.pc = a, !.kind = b, !.ok = c, !.cand = d, !.file = e]]

LEMMA PostedRec ==
    ASSUME op \in [Managers -> OpRec], NEW p \in Managers, NEW a \in Pcs, NEW b \in OpKinds, NEW c \in BOOLEAN, NEW d \in MaybeConfig, NEW e \in MaybeFile,
           Posted(p, a, b, c, d, e)
    PROVE  \E r \in OpRec : /\ op' = [op EXCEPT ![p] = r]
                             /\ r.pc = a /\ r.kind = b /\ r.snap = Idle.snap /\ r.cand = d
                             /\ r.file = e /\ r.before = Idle.before /\ r.ran = Idle.ran /\ r.steps = Idle.steps
                             /\ r.retried = Idle.retried /\ r.ok = c
<1>0. Idle \in OpRec
  BY IdleFields
<1> DEFINE r1 == [Idle EXCEPT !.pc = a]
<1>1. /\ r1 \in OpRec
      /\ r1.pc = a /\ r1.kind = Idle.kind /\ r1.snap = Idle.snap /\ r1.cand = Idle.cand /\ r1.file = Idle.file
      /\ r1.before = Idle.before /\ r1.ran = Idle.ran /\ r1.steps = Idle.steps /\ r1.retried = Idle.retried /\ r1.ok = Idle.ok
  BY <1>0, Put_pc
<1> HIDE DEF r1
<1> DEFINE r2 == [r1 EXCEPT !.kind = b]
<1>2. /\ r2 \in OpRec
      /\ r2.pc = r1.pc /\ r2.kind = b /\ r2.snap = r1.snap /\ r2.cand = r1.cand /\ r2.file = r1.file
      /\ r2.before = r1.before /\ r2.ran = r1.ran /\ r2.steps = r1.steps /\ r2.retried = r1.retried /\ r2.ok = r1.ok
  BY <1>1, Put_kind
<1> HIDE DEF r2
<1> DEFINE r3 == [r2 EXCEPT !.ok = c]
<1>3. /\ r3 \in OpRec
      /\ r3.pc = r2.pc /\ r3.kind = r2.kind /\ r3.snap = r2.snap /\ r3.cand = r2.cand /\ r3.file = r2.file
      /\ r3.before = r2.before /\ r3.ran = r2.ran /\ r3.steps = r2.steps /\ r3.retried = r2.retried /\ r3.ok = c
  BY <1>2, Put_ok
<1> HIDE DEF r3
<1> DEFINE r4 == [r3 EXCEPT !.cand = d]
<1>4. /\ r4 \in OpRec
      /\ r4.pc = r3.pc /\ r4.kind = r3.kind /\ r4.snap = r3.snap /\ r4.cand = d /\ r4.file = r3.file
      /\ r4.before = r3.before /\ r4.ran = r3.ran /\ r4.steps = r3.steps /\ r4.retried = r3.retried /\ r4.ok = r3.ok
  BY <1>3, Put_cand
<1> HIDE DEF r4
<1> DEFINE r5 == [r4 EXCEPT !.file = e]
<1>5. /\ r5 \in OpRec
      /\ r5.pc = r4.pc /\ r5.kind = r4.kind /\ r5.snap = r4.snap /\ r5.cand = r4.cand /\ r5.file = e
      /\ r5.before = r4.before /\ r5.ran = r4.ran /\ r5.steps = r4.steps /\ r5.retried = r4.retried /\ r5.ok = r4.ok
  BY <1>4, Put_file
<1> HIDE DEF r5
<1>6. op' = [op EXCEPT ![p] = r5]
  BY DEF Posted, r1, r2, r3, r4, r5
<1>7. /\ r5 \in OpRec
      /\ r5.pc = a /\ r5.kind = b /\ r5.snap = Idle.snap /\ r5.cand = d
      /\ r5.file = e /\ r5.before = Idle.before /\ r5.ran = Idle.ran /\ r5.steps = Idle.steps
      /\ r5.retried = Idle.retried /\ r5.ok = c
  BY <1>1, <1>2, <1>3, <1>4, <1>5
<1> QED BY <1>6, <1>7

Opened(p, a, b, c) ==
    op' = [op EXCEPT ![p] = [Idle EXCEPT !.pc = a, !.kind = b, !.snap = c]]

LEMMA OpenedRec ==
    ASSUME op \in [Managers -> OpRec], NEW p \in Managers, NEW a \in Pcs, NEW b \in OpKinds, NEW c \in MaybeConfig,
           Opened(p, a, b, c)
    PROVE  \E r \in OpRec : /\ op' = [op EXCEPT ![p] = r]
                             /\ r.pc = a /\ r.kind = b /\ r.snap = c /\ r.cand = Idle.cand
                             /\ r.file = Idle.file /\ r.before = Idle.before /\ r.ran = Idle.ran /\ r.steps = Idle.steps
                             /\ r.retried = Idle.retried /\ r.ok = Idle.ok
<1>0. Idle \in OpRec
  BY IdleFields
<1> DEFINE r1 == [Idle EXCEPT !.pc = a]
<1>1. /\ r1 \in OpRec
      /\ r1.pc = a /\ r1.kind = Idle.kind /\ r1.snap = Idle.snap /\ r1.cand = Idle.cand /\ r1.file = Idle.file
      /\ r1.before = Idle.before /\ r1.ran = Idle.ran /\ r1.steps = Idle.steps /\ r1.retried = Idle.retried /\ r1.ok = Idle.ok
  BY <1>0, Put_pc
<1> HIDE DEF r1
<1> DEFINE r2 == [r1 EXCEPT !.kind = b]
<1>2. /\ r2 \in OpRec
      /\ r2.pc = r1.pc /\ r2.kind = b /\ r2.snap = r1.snap /\ r2.cand = r1.cand /\ r2.file = r1.file
      /\ r2.before = r1.before /\ r2.ran = r1.ran /\ r2.steps = r1.steps /\ r2.retried = r1.retried /\ r2.ok = r1.ok
  BY <1>1, Put_kind
<1> HIDE DEF r2
<1> DEFINE r3 == [r2 EXCEPT !.snap = c]
<1>3. /\ r3 \in OpRec
      /\ r3.pc = r2.pc /\ r3.kind = r2.kind /\ r3.snap = c /\ r3.cand = r2.cand /\ r3.file = r2.file
      /\ r3.before = r2.before /\ r3.ran = r2.ran /\ r3.steps = r2.steps /\ r3.retried = r2.retried /\ r3.ok = r2.ok
  BY <1>2, Put_snap
<1> HIDE DEF r3
<1>4. op' = [op EXCEPT ![p] = r3]
  BY DEF Opened, r1, r2, r3
<1>5. /\ r3 \in OpRec
      /\ r3.pc = a /\ r3.kind = b /\ r3.snap = c /\ r3.cand = Idle.cand
      /\ r3.file = Idle.file /\ r3.before = Idle.before /\ r3.ran = Idle.ran /\ r3.steps = Idle.steps
      /\ r3.retried = Idle.retried /\ r3.ok = Idle.ok
  BY <1>1, <1>2, <1>3
<1> QED BY <1>4, <1>5

Changed(p, a, b, c, d) ==
    op' = [op EXCEPT ![p] = [Idle EXCEPT !.pc = a, !.kind = b, !.snap = c, !.cand = d]]

LEMMA ChangedRec ==
    ASSUME op \in [Managers -> OpRec], NEW p \in Managers, NEW a \in Pcs, NEW b \in OpKinds, NEW c \in MaybeConfig, NEW d \in MaybeConfig,
           Changed(p, a, b, c, d)
    PROVE  \E r \in OpRec : /\ op' = [op EXCEPT ![p] = r]
                             /\ r.pc = a /\ r.kind = b /\ r.snap = c /\ r.cand = d
                             /\ r.file = Idle.file /\ r.before = Idle.before /\ r.ran = Idle.ran /\ r.steps = Idle.steps
                             /\ r.retried = Idle.retried /\ r.ok = Idle.ok
<1>0. Idle \in OpRec
  BY IdleFields
<1> DEFINE r1 == [Idle EXCEPT !.pc = a]
<1>1. /\ r1 \in OpRec
      /\ r1.pc = a /\ r1.kind = Idle.kind /\ r1.snap = Idle.snap /\ r1.cand = Idle.cand /\ r1.file = Idle.file
      /\ r1.before = Idle.before /\ r1.ran = Idle.ran /\ r1.steps = Idle.steps /\ r1.retried = Idle.retried /\ r1.ok = Idle.ok
  BY <1>0, Put_pc
<1> HIDE DEF r1
<1> DEFINE r2 == [r1 EXCEPT !.kind = b]
<1>2. /\ r2 \in OpRec
      /\ r2.pc = r1.pc /\ r2.kind = b /\ r2.snap = r1.snap /\ r2.cand = r1.cand /\ r2.file = r1.file
      /\ r2.before = r1.before /\ r2.ran = r1.ran /\ r2.steps = r1.steps /\ r2.retried = r1.retried /\ r2.ok = r1.ok
  BY <1>1, Put_kind
<1> HIDE DEF r2
<1> DEFINE r3 == [r2 EXCEPT !.snap = c]
<1>3. /\ r3 \in OpRec
      /\ r3.pc = r2.pc /\ r3.kind = r2.kind /\ r3.snap = c /\ r3.cand = r2.cand /\ r3.file = r2.file
      /\ r3.before = r2.before /\ r3.ran = r2.ran /\ r3.steps = r2.steps /\ r3.retried = r2.retried /\ r3.ok = r2.ok
  BY <1>2, Put_snap
<1> HIDE DEF r3
<1> DEFINE r4 == [r3 EXCEPT !.cand = d]
<1>4. /\ r4 \in OpRec
      /\ r4.pc = r3.pc /\ r4.kind = r3.kind /\ r4.snap = r3.snap /\ r4.cand = d /\ r4.file = r3.file
      /\ r4.before = r3.before /\ r4.ran = r3.ran /\ r4.steps = r3.steps /\ r4.retried = r3.retried /\ r4.ok = r3.ok
  BY <1>3, Put_cand
<1> HIDE DEF r4
<1>5. op' = [op EXCEPT ![p] = r4]
  BY DEF Changed, r1, r2, r3, r4
<1>6. /\ r4 \in OpRec
      /\ r4.pc = a /\ r4.kind = b /\ r4.snap = c /\ r4.cand = d
      /\ r4.file = Idle.file /\ r4.before = Idle.before /\ r4.ran = Idle.ran /\ r4.steps = Idle.steps
      /\ r4.retried = Idle.retried /\ r4.ok = Idle.ok
  BY <1>1, <1>2, <1>3, <1>4
<1> QED BY <1>5, <1>6

Recovering(p, a, b, c, d, e) ==
    op' = [op EXCEPT ![p] = [Idle EXCEPT !.pc = a, !.kind = b, !.before = c, !.cand = d, !.ran = e]]

LEMMA RecoveringRec ==
    ASSUME op \in [Managers -> OpRec], NEW p \in Managers, NEW a \in Pcs, NEW b \in OpKinds, NEW c \in MaybeConfig, NEW d \in MaybeConfig, NEW e \in RanSets,
           Recovering(p, a, b, c, d, e)
    PROVE  \E r \in OpRec : /\ op' = [op EXCEPT ![p] = r]
                             /\ r.pc = a /\ r.kind = b /\ r.snap = Idle.snap /\ r.cand = d
                             /\ r.file = Idle.file /\ r.before = c /\ r.ran = e /\ r.steps = Idle.steps
                             /\ r.retried = Idle.retried /\ r.ok = Idle.ok
<1>0. Idle \in OpRec
  BY IdleFields
<1> DEFINE r1 == [Idle EXCEPT !.pc = a]
<1>1. /\ r1 \in OpRec
      /\ r1.pc = a /\ r1.kind = Idle.kind /\ r1.snap = Idle.snap /\ r1.cand = Idle.cand /\ r1.file = Idle.file
      /\ r1.before = Idle.before /\ r1.ran = Idle.ran /\ r1.steps = Idle.steps /\ r1.retried = Idle.retried /\ r1.ok = Idle.ok
  BY <1>0, Put_pc
<1> HIDE DEF r1
<1> DEFINE r2 == [r1 EXCEPT !.kind = b]
<1>2. /\ r2 \in OpRec
      /\ r2.pc = r1.pc /\ r2.kind = b /\ r2.snap = r1.snap /\ r2.cand = r1.cand /\ r2.file = r1.file
      /\ r2.before = r1.before /\ r2.ran = r1.ran /\ r2.steps = r1.steps /\ r2.retried = r1.retried /\ r2.ok = r1.ok
  BY <1>1, Put_kind
<1> HIDE DEF r2
<1> DEFINE r3 == [r2 EXCEPT !.before = c]
<1>3. /\ r3 \in OpRec
      /\ r3.pc = r2.pc /\ r3.kind = r2.kind /\ r3.snap = r2.snap /\ r3.cand = r2.cand /\ r3.file = r2.file
      /\ r3.before = c /\ r3.ran = r2.ran /\ r3.steps = r2.steps /\ r3.retried = r2.retried /\ r3.ok = r2.ok
  BY <1>2, Put_before
<1> HIDE DEF r3
<1> DEFINE r4 == [r3 EXCEPT !.cand = d]
<1>4. /\ r4 \in OpRec
      /\ r4.pc = r3.pc /\ r4.kind = r3.kind /\ r4.snap = r3.snap /\ r4.cand = d /\ r4.file = r3.file
      /\ r4.before = r3.before /\ r4.ran = r3.ran /\ r4.steps = r3.steps /\ r4.retried = r3.retried /\ r4.ok = r3.ok
  BY <1>3, Put_cand
<1> HIDE DEF r4
<1> DEFINE r5 == [r4 EXCEPT !.ran = e]
<1>5. /\ r5 \in OpRec
      /\ r5.pc = r4.pc /\ r5.kind = r4.kind /\ r5.snap = r4.snap /\ r5.cand = r4.cand /\ r5.file = r4.file
      /\ r5.before = r4.before /\ r5.ran = e /\ r5.steps = r4.steps /\ r5.retried = r4.retried /\ r5.ok = r4.ok
  BY <1>4, Put_ran
<1> HIDE DEF r5
<1>6. op' = [op EXCEPT ![p] = r5]
  BY DEF Recovering, r1, r2, r3, r4, r5
<1>7. /\ r5 \in OpRec
      /\ r5.pc = a /\ r5.kind = b /\ r5.snap = Idle.snap /\ r5.cand = d
      /\ r5.file = Idle.file /\ r5.before = c /\ r5.ran = e /\ r5.steps = Idle.steps
      /\ r5.retried = Idle.retried /\ r5.ok = Idle.ok
  BY <1>1, <1>2, <1>3, <1>4, <1>5
<1> QED BY <1>6, <1>7

Serving(p, a, b, c, d, e) ==
    op' = [op EXCEPT ![p] = [Idle EXCEPT !.pc = a, !.kind = b, !.cand = c, !.ran = d, !.steps = e]]

LEMMA ServingRec ==
    ASSUME op \in [Managers -> OpRec], NEW p \in Managers, NEW a \in Pcs, NEW b \in OpKinds, NEW c \in MaybeConfig, NEW d \in RanSets, NEW e \in StepLists,
           Serving(p, a, b, c, d, e)
    PROVE  \E r \in OpRec : /\ op' = [op EXCEPT ![p] = r]
                             /\ r.pc = a /\ r.kind = b /\ r.snap = Idle.snap /\ r.cand = c
                             /\ r.file = Idle.file /\ r.before = Idle.before /\ r.ran = d /\ r.steps = e
                             /\ r.retried = Idle.retried /\ r.ok = Idle.ok
<1>0. Idle \in OpRec
  BY IdleFields
<1> DEFINE r1 == [Idle EXCEPT !.pc = a]
<1>1. /\ r1 \in OpRec
      /\ r1.pc = a /\ r1.kind = Idle.kind /\ r1.snap = Idle.snap /\ r1.cand = Idle.cand /\ r1.file = Idle.file
      /\ r1.before = Idle.before /\ r1.ran = Idle.ran /\ r1.steps = Idle.steps /\ r1.retried = Idle.retried /\ r1.ok = Idle.ok
  BY <1>0, Put_pc
<1> HIDE DEF r1
<1> DEFINE r2 == [r1 EXCEPT !.kind = b]
<1>2. /\ r2 \in OpRec
      /\ r2.pc = r1.pc /\ r2.kind = b /\ r2.snap = r1.snap /\ r2.cand = r1.cand /\ r2.file = r1.file
      /\ r2.before = r1.before /\ r2.ran = r1.ran /\ r2.steps = r1.steps /\ r2.retried = r1.retried /\ r2.ok = r1.ok
  BY <1>1, Put_kind
<1> HIDE DEF r2
<1> DEFINE r3 == [r2 EXCEPT !.cand = c]
<1>3. /\ r3 \in OpRec
      /\ r3.pc = r2.pc /\ r3.kind = r2.kind /\ r3.snap = r2.snap /\ r3.cand = c /\ r3.file = r2.file
      /\ r3.before = r2.before /\ r3.ran = r2.ran /\ r3.steps = r2.steps /\ r3.retried = r2.retried /\ r3.ok = r2.ok
  BY <1>2, Put_cand
<1> HIDE DEF r3
<1> DEFINE r4 == [r3 EXCEPT !.ran = d]
<1>4. /\ r4 \in OpRec
      /\ r4.pc = r3.pc /\ r4.kind = r3.kind /\ r4.snap = r3.snap /\ r4.cand = r3.cand /\ r4.file = r3.file
      /\ r4.before = r3.before /\ r4.ran = d /\ r4.steps = r3.steps /\ r4.retried = r3.retried /\ r4.ok = r3.ok
  BY <1>3, Put_ran
<1> HIDE DEF r4
<1> DEFINE r5 == [r4 EXCEPT !.steps = e]
<1>5. /\ r5 \in OpRec
      /\ r5.pc = r4.pc /\ r5.kind = r4.kind /\ r5.snap = r4.snap /\ r5.cand = r4.cand /\ r5.file = r4.file
      /\ r5.before = r4.before /\ r5.ran = r4.ran /\ r5.steps = e /\ r5.retried = r4.retried /\ r5.ok = r4.ok
  BY <1>4, Put_steps
<1> HIDE DEF r5
<1>6. op' = [op EXCEPT ![p] = r5]
  BY DEF Serving, r1, r2, r3, r4, r5
<1>7. /\ r5 \in OpRec
      /\ r5.pc = a /\ r5.kind = b /\ r5.snap = Idle.snap /\ r5.cand = c
      /\ r5.file = Idle.file /\ r5.before = Idle.before /\ r5.ran = d /\ r5.steps = e
      /\ r5.retried = Idle.retried /\ r5.ok = Idle.ok
  BY <1>1, <1>2, <1>3, <1>4, <1>5
<1> QED BY <1>6, <1>7

Moved(p, a) ==
    op' = [op EXCEPT ![p].pc = a]

LEMMA MovedRec ==
    ASSUME op \in [Managers -> OpRec], NEW p \in Managers, NEW a \in Pcs,
           Moved(p, a)
    PROVE  \E r \in OpRec : /\ op' = [op EXCEPT ![p] = r]
                             /\ r.pc = a /\ r.kind = op[p].kind /\ r.snap = op[p].snap /\ r.cand = op[p].cand
                             /\ r.file = op[p].file /\ r.before = op[p].before /\ r.ran = op[p].ran /\ r.steps = op[p].steps
                             /\ r.retried = op[p].retried /\ r.ok = op[p].ok
<1>0. op[p] \in OpRec
  OBVIOUS
<1> DEFINE r1 == [op[p] EXCEPT !.pc = a]
<1>1. /\ r1 \in OpRec
      /\ r1.pc = a /\ r1.kind = op[p].kind /\ r1.snap = op[p].snap /\ r1.cand = op[p].cand /\ r1.file = op[p].file
      /\ r1.before = op[p].before /\ r1.ran = op[p].ran /\ r1.steps = op[p].steps /\ r1.retried = op[p].retried /\ r1.ok = op[p].ok
  BY <1>0, Put_pc
<1> HIDE DEF r1
<1>2. op' = [op EXCEPT ![p] = r1]
  BY DEF Moved, r1
<1> QED BY <1>1, <1>2

MovedCand(p, a, b) ==
    op' = [op EXCEPT ![p].pc = a, ![p].cand = b]

LEMMA MovedCandRec ==
    ASSUME op \in [Managers -> OpRec], NEW p \in Managers, NEW a \in Pcs, NEW b \in MaybeConfig,
           MovedCand(p, a, b)
    PROVE  \E r \in OpRec : /\ op' = [op EXCEPT ![p] = r]
                             /\ r.pc = a /\ r.kind = op[p].kind /\ r.snap = op[p].snap /\ r.cand = b
                             /\ r.file = op[p].file /\ r.before = op[p].before /\ r.ran = op[p].ran /\ r.steps = op[p].steps
                             /\ r.retried = op[p].retried /\ r.ok = op[p].ok
<1>0. op[p] \in OpRec
  OBVIOUS
<1> DEFINE r1 == [op[p] EXCEPT !.pc = a]
<1>1. /\ r1 \in OpRec
      /\ r1.pc = a /\ r1.kind = op[p].kind /\ r1.snap = op[p].snap /\ r1.cand = op[p].cand /\ r1.file = op[p].file
      /\ r1.before = op[p].before /\ r1.ran = op[p].ran /\ r1.steps = op[p].steps /\ r1.retried = op[p].retried /\ r1.ok = op[p].ok
  BY <1>0, Put_pc
<1> HIDE DEF r1
<1> DEFINE r2 == [r1 EXCEPT !.cand = b]
<1>2. /\ r2 \in OpRec
      /\ r2.pc = r1.pc /\ r2.kind = r1.kind /\ r2.snap = r1.snap /\ r2.cand = b /\ r2.file = r1.file
      /\ r2.before = r1.before /\ r2.ran = r1.ran /\ r2.steps = r1.steps /\ r2.retried = r1.retried /\ r2.ok = r1.ok
  BY <1>1, Put_cand
<1> HIDE DEF r2
<1>3. op' = [op EXCEPT ![p] = r2]
  BY DEF MovedCand, r1, r2
<1>4. /\ r2 \in OpRec
      /\ r2.pc = a /\ r2.kind = op[p].kind /\ r2.snap = op[p].snap /\ r2.cand = b
      /\ r2.file = op[p].file /\ r2.before = op[p].before /\ r2.ran = op[p].ran /\ r2.steps = op[p].steps
      /\ r2.retried = op[p].retried /\ r2.ok = op[p].ok
  BY <1>1, <1>2
<1> QED BY <1>3, <1>4

MovedStaged(p, a, b, c) ==
    op' = [op EXCEPT ![p].pc = a, ![p].file = b, ![p].cand = c]

LEMMA MovedStagedRec ==
    ASSUME op \in [Managers -> OpRec], NEW p \in Managers, NEW a \in Pcs, NEW b \in MaybeFile, NEW c \in MaybeConfig,
           MovedStaged(p, a, b, c)
    PROVE  \E r \in OpRec : /\ op' = [op EXCEPT ![p] = r]
                             /\ r.pc = a /\ r.kind = op[p].kind /\ r.snap = op[p].snap /\ r.cand = c
                             /\ r.file = b /\ r.before = op[p].before /\ r.ran = op[p].ran /\ r.steps = op[p].steps
                             /\ r.retried = op[p].retried /\ r.ok = op[p].ok
<1>0. op[p] \in OpRec
  OBVIOUS
<1> DEFINE r1 == [op[p] EXCEPT !.pc = a]
<1>1. /\ r1 \in OpRec
      /\ r1.pc = a /\ r1.kind = op[p].kind /\ r1.snap = op[p].snap /\ r1.cand = op[p].cand /\ r1.file = op[p].file
      /\ r1.before = op[p].before /\ r1.ran = op[p].ran /\ r1.steps = op[p].steps /\ r1.retried = op[p].retried /\ r1.ok = op[p].ok
  BY <1>0, Put_pc
<1> HIDE DEF r1
<1> DEFINE r2 == [r1 EXCEPT !.file = b]
<1>2. /\ r2 \in OpRec
      /\ r2.pc = r1.pc /\ r2.kind = r1.kind /\ r2.snap = r1.snap /\ r2.cand = r1.cand /\ r2.file = b
      /\ r2.before = r1.before /\ r2.ran = r1.ran /\ r2.steps = r1.steps /\ r2.retried = r1.retried /\ r2.ok = r1.ok
  BY <1>1, Put_file
<1> HIDE DEF r2
<1> DEFINE r3 == [r2 EXCEPT !.cand = c]
<1>3. /\ r3 \in OpRec
      /\ r3.pc = r2.pc /\ r3.kind = r2.kind /\ r3.snap = r2.snap /\ r3.cand = c /\ r3.file = r2.file
      /\ r3.before = r2.before /\ r3.ran = r2.ran /\ r3.steps = r2.steps /\ r3.retried = r2.retried /\ r3.ok = r2.ok
  BY <1>2, Put_cand
<1> HIDE DEF r3
<1>4. op' = [op EXCEPT ![p] = r3]
  BY DEF MovedStaged, r1, r2, r3
<1>5. /\ r3 \in OpRec
      /\ r3.pc = a /\ r3.kind = op[p].kind /\ r3.snap = op[p].snap /\ r3.cand = c
      /\ r3.file = b /\ r3.before = op[p].before /\ r3.ran = op[p].ran /\ r3.steps = op[p].steps
      /\ r3.retried = op[p].retried /\ r3.ok = op[p].ok
  BY <1>1, <1>2, <1>3
<1> QED BY <1>4, <1>5

MovedRead(p, a, b, c, d) ==
    op' = [op EXCEPT ![p].pc = a, ![p].before = b, ![p].snap = c, ![p].ran = d]

LEMMA MovedReadRec ==
    ASSUME op \in [Managers -> OpRec], NEW p \in Managers, NEW a \in Pcs, NEW b \in MaybeConfig, NEW c \in MaybeConfig, NEW d \in RanSets,
           MovedRead(p, a, b, c, d)
    PROVE  \E r \in OpRec : /\ op' = [op EXCEPT ![p] = r]
                             /\ r.pc = a /\ r.kind = op[p].kind /\ r.snap = c /\ r.cand = op[p].cand
                             /\ r.file = op[p].file /\ r.before = b /\ r.ran = d /\ r.steps = op[p].steps
                             /\ r.retried = op[p].retried /\ r.ok = op[p].ok
<1>0. op[p] \in OpRec
  OBVIOUS
<1> DEFINE r1 == [op[p] EXCEPT !.pc = a]
<1>1. /\ r1 \in OpRec
      /\ r1.pc = a /\ r1.kind = op[p].kind /\ r1.snap = op[p].snap /\ r1.cand = op[p].cand /\ r1.file = op[p].file
      /\ r1.before = op[p].before /\ r1.ran = op[p].ran /\ r1.steps = op[p].steps /\ r1.retried = op[p].retried /\ r1.ok = op[p].ok
  BY <1>0, Put_pc
<1> HIDE DEF r1
<1> DEFINE r2 == [r1 EXCEPT !.before = b]
<1>2. /\ r2 \in OpRec
      /\ r2.pc = r1.pc /\ r2.kind = r1.kind /\ r2.snap = r1.snap /\ r2.cand = r1.cand /\ r2.file = r1.file
      /\ r2.before = b /\ r2.ran = r1.ran /\ r2.steps = r1.steps /\ r2.retried = r1.retried /\ r2.ok = r1.ok
  BY <1>1, Put_before
<1> HIDE DEF r2
<1> DEFINE r3 == [r2 EXCEPT !.snap = c]
<1>3. /\ r3 \in OpRec
      /\ r3.pc = r2.pc /\ r3.kind = r2.kind /\ r3.snap = c /\ r3.cand = r2.cand /\ r3.file = r2.file
      /\ r3.before = r2.before /\ r3.ran = r2.ran /\ r3.steps = r2.steps /\ r3.retried = r2.retried /\ r3.ok = r2.ok
  BY <1>2, Put_snap
<1> HIDE DEF r3
<1> DEFINE r4 == [r3 EXCEPT !.ran = d]
<1>4. /\ r4 \in OpRec
      /\ r4.pc = r3.pc /\ r4.kind = r3.kind /\ r4.snap = r3.snap /\ r4.cand = r3.cand /\ r4.file = r3.file
      /\ r4.before = r3.before /\ r4.ran = d /\ r4.steps = r3.steps /\ r4.retried = r3.retried /\ r4.ok = r3.ok
  BY <1>3, Put_ran
<1> HIDE DEF r4
<1>5. op' = [op EXCEPT ![p] = r4]
  BY DEF MovedRead, r1, r2, r3, r4
<1>6. /\ r4 \in OpRec
      /\ r4.pc = a /\ r4.kind = op[p].kind /\ r4.snap = c /\ r4.cand = op[p].cand
      /\ r4.file = op[p].file /\ r4.before = b /\ r4.ran = d /\ r4.steps = op[p].steps
      /\ r4.retried = op[p].retried /\ r4.ok = op[p].ok
  BY <1>1, <1>2, <1>3, <1>4
<1> QED BY <1>5, <1>6

MovedSteps(p, a, b) ==
    op' = [op EXCEPT ![p].pc = a, ![p].steps = b]

LEMMA MovedStepsRec ==
    ASSUME op \in [Managers -> OpRec], NEW p \in Managers, NEW a \in Pcs, NEW b \in StepLists,
           MovedSteps(p, a, b)
    PROVE  \E r \in OpRec : /\ op' = [op EXCEPT ![p] = r]
                             /\ r.pc = a /\ r.kind = op[p].kind /\ r.snap = op[p].snap /\ r.cand = op[p].cand
                             /\ r.file = op[p].file /\ r.before = op[p].before /\ r.ran = op[p].ran /\ r.steps = b
                             /\ r.retried = op[p].retried /\ r.ok = op[p].ok
<1>0. op[p] \in OpRec
  OBVIOUS
<1> DEFINE r1 == [op[p] EXCEPT !.pc = a]
<1>1. /\ r1 \in OpRec
      /\ r1.pc = a /\ r1.kind = op[p].kind /\ r1.snap = op[p].snap /\ r1.cand = op[p].cand /\ r1.file = op[p].file
      /\ r1.before = op[p].before /\ r1.ran = op[p].ran /\ r1.steps = op[p].steps /\ r1.retried = op[p].retried /\ r1.ok = op[p].ok
  BY <1>0, Put_pc
<1> HIDE DEF r1
<1> DEFINE r2 == [r1 EXCEPT !.steps = b]
<1>2. /\ r2 \in OpRec
      /\ r2.pc = r1.pc /\ r2.kind = r1.kind /\ r2.snap = r1.snap /\ r2.cand = r1.cand /\ r2.file = r1.file
      /\ r2.before = r1.before /\ r2.ran = r1.ran /\ r2.steps = b /\ r2.retried = r1.retried /\ r2.ok = r1.ok
  BY <1>1, Put_steps
<1> HIDE DEF r2
<1>3. op' = [op EXCEPT ![p] = r2]
  BY DEF MovedSteps, r1, r2
<1>4. /\ r2 \in OpRec
      /\ r2.pc = a /\ r2.kind = op[p].kind /\ r2.snap = op[p].snap /\ r2.cand = op[p].cand
      /\ r2.file = op[p].file /\ r2.before = op[p].before /\ r2.ran = op[p].ran /\ r2.steps = b
      /\ r2.retried = op[p].retried /\ r2.ok = op[p].ok
  BY <1>1, <1>2
<1> QED BY <1>3, <1>4

MovedFailed(p, a, b, c) ==
    op' = [op EXCEPT ![p].pc = a, ![p].steps = b, ![p].retried = c]

LEMMA MovedFailedRec ==
    ASSUME op \in [Managers -> OpRec], NEW p \in Managers, NEW a \in Pcs, NEW b \in StepLists, NEW c \in BOOLEAN,
           MovedFailed(p, a, b, c)
    PROVE  \E r \in OpRec : /\ op' = [op EXCEPT ![p] = r]
                             /\ r.pc = a /\ r.kind = op[p].kind /\ r.snap = op[p].snap /\ r.cand = op[p].cand
                             /\ r.file = op[p].file /\ r.before = op[p].before /\ r.ran = op[p].ran /\ r.steps = b
                             /\ r.retried = c /\ r.ok = op[p].ok
<1>0. op[p] \in OpRec
  OBVIOUS
<1> DEFINE r1 == [op[p] EXCEPT !.pc = a]
<1>1. /\ r1 \in OpRec
      /\ r1.pc = a /\ r1.kind = op[p].kind /\ r1.snap = op[p].snap /\ r1.cand = op[p].cand /\ r1.file = op[p].file
      /\ r1.before = op[p].before /\ r1.ran = op[p].ran /\ r1.steps = op[p].steps /\ r1.retried = op[p].retried /\ r1.ok = op[p].ok
  BY <1>0, Put_pc
<1> HIDE DEF r1
<1> DEFINE r2 == [r1 EXCEPT !.steps = b]
<1>2. /\ r2 \in OpRec
      /\ r2.pc = r1.pc /\ r2.kind = r1.kind /\ r2.snap = r1.snap /\ r2.cand = r1.cand /\ r2.file = r1.file
      /\ r2.before = r1.before /\ r2.ran = r1.ran /\ r2.steps = b /\ r2.retried = r1.retried /\ r2.ok = r1.ok
  BY <1>1, Put_steps
<1> HIDE DEF r2
<1> DEFINE r3 == [r2 EXCEPT !.retried = c]
<1>3. /\ r3 \in OpRec
      /\ r3.pc = r2.pc /\ r3.kind = r2.kind /\ r3.snap = r2.snap /\ r3.cand = r2.cand /\ r3.file = r2.file
      /\ r3.before = r2.before /\ r3.ran = r2.ran /\ r3.steps = r2.steps /\ r3.retried = c /\ r3.ok = r2.ok
  BY <1>2, Put_retried
<1> HIDE DEF r3
<1>4. op' = [op EXCEPT ![p] = r3]
  BY DEF MovedFailed, r1, r2, r3
<1>5. /\ r3 \in OpRec
      /\ r3.pc = a /\ r3.kind = op[p].kind /\ r3.snap = op[p].snap /\ r3.cand = op[p].cand
      /\ r3.file = op[p].file /\ r3.before = op[p].before /\ r3.ran = op[p].ran /\ r3.steps = b
      /\ r3.retried = c /\ r3.ok = op[p].ok
  BY <1>1, <1>2, <1>3
<1> QED BY <1>4, <1>5

MovedDone(p, a, b, c, d) ==
    op' = [op EXCEPT ![p].steps = a, ![p].retried = b, ![p].pc = c, ![p].ok = d]

LEMMA MovedDoneRec ==
    ASSUME op \in [Managers -> OpRec], NEW p \in Managers, NEW a \in StepLists, NEW b \in BOOLEAN, NEW c \in Pcs, NEW d \in BOOLEAN,
           MovedDone(p, a, b, c, d)
    PROVE  \E r \in OpRec : /\ op' = [op EXCEPT ![p] = r]
                             /\ r.pc = c /\ r.kind = op[p].kind /\ r.snap = op[p].snap /\ r.cand = op[p].cand
                             /\ r.file = op[p].file /\ r.before = op[p].before /\ r.ran = op[p].ran /\ r.steps = a
                             /\ r.retried = b /\ r.ok = d
<1>0. op[p] \in OpRec
  OBVIOUS
<1> DEFINE r1 == [op[p] EXCEPT !.steps = a]
<1>1. /\ r1 \in OpRec
      /\ r1.pc = op[p].pc /\ r1.kind = op[p].kind /\ r1.snap = op[p].snap /\ r1.cand = op[p].cand /\ r1.file = op[p].file
      /\ r1.before = op[p].before /\ r1.ran = op[p].ran /\ r1.steps = a /\ r1.retried = op[p].retried /\ r1.ok = op[p].ok
  BY <1>0, Put_steps
<1> HIDE DEF r1
<1> DEFINE r2 == [r1 EXCEPT !.retried = b]
<1>2. /\ r2 \in OpRec
      /\ r2.pc = r1.pc /\ r2.kind = r1.kind /\ r2.snap = r1.snap /\ r2.cand = r1.cand /\ r2.file = r1.file
      /\ r2.before = r1.before /\ r2.ran = r1.ran /\ r2.steps = r1.steps /\ r2.retried = b /\ r2.ok = r1.ok
  BY <1>1, Put_retried
<1> HIDE DEF r2
<1> DEFINE r3 == [r2 EXCEPT !.pc = c]
<1>3. /\ r3 \in OpRec
      /\ r3.pc = c /\ r3.kind = r2.kind /\ r3.snap = r2.snap /\ r3.cand = r2.cand /\ r3.file = r2.file
      /\ r3.before = r2.before /\ r3.ran = r2.ran /\ r3.steps = r2.steps /\ r3.retried = r2.retried /\ r3.ok = r2.ok
  BY <1>2, Put_pc
<1> HIDE DEF r3
<1> DEFINE r4 == [r3 EXCEPT !.ok = d]
<1>4. /\ r4 \in OpRec
      /\ r4.pc = r3.pc /\ r4.kind = r3.kind /\ r4.snap = r3.snap /\ r4.cand = r3.cand /\ r4.file = r3.file
      /\ r4.before = r3.before /\ r4.ran = r3.ran /\ r4.steps = r3.steps /\ r4.retried = r3.retried /\ r4.ok = d
  BY <1>3, Put_ok
<1> HIDE DEF r4
<1>5. op' = [op EXCEPT ![p] = r4]
  BY DEF MovedDone, r1, r2, r3, r4
<1>6. /\ r4 \in OpRec
      /\ r4.pc = c /\ r4.kind = op[p].kind /\ r4.snap = op[p].snap /\ r4.cand = op[p].cand
      /\ r4.file = op[p].file /\ r4.before = op[p].before /\ r4.ran = op[p].ran /\ r4.steps = a
      /\ r4.retried = b /\ r4.ok = d
  BY <1>1, <1>2, <1>3, <1>4
<1> QED BY <1>5, <1>6

Retried(p, a) ==
    op' = [op EXCEPT ![p].retried = a]

LEMMA RetriedRec ==
    ASSUME op \in [Managers -> OpRec], NEW p \in Managers, NEW a \in BOOLEAN,
           Retried(p, a)
    PROVE  \E r \in OpRec : /\ op' = [op EXCEPT ![p] = r]
                             /\ r.pc = op[p].pc /\ r.kind = op[p].kind /\ r.snap = op[p].snap /\ r.cand = op[p].cand
                             /\ r.file = op[p].file /\ r.before = op[p].before /\ r.ran = op[p].ran /\ r.steps = op[p].steps
                             /\ r.retried = a /\ r.ok = op[p].ok
<1>0. op[p] \in OpRec
  OBVIOUS
<1> DEFINE r1 == [op[p] EXCEPT !.retried = a]
<1>1. /\ r1 \in OpRec
      /\ r1.pc = op[p].pc /\ r1.kind = op[p].kind /\ r1.snap = op[p].snap /\ r1.cand = op[p].cand /\ r1.file = op[p].file
      /\ r1.before = op[p].before /\ r1.ran = op[p].ran /\ r1.steps = op[p].steps /\ r1.retried = a /\ r1.ok = op[p].ok
  BY <1>0, Put_retried
<1> HIDE DEF r1
<1>2. op' = [op EXCEPT ![p] = r1]
  BY DEF Retried, r1
<1> QED BY <1>1, <1>2

-----------------------------------------------------------------------------
(* Contents and the files they name.                                       *)

LEMMA RefsFacts ==
    ASSUME NEW c \in MaybeConfig
    PROVE  /\ Load(c) \in AnyConfig
           /\ Load(Load(c)) = Load(c)
           /\ Refs(Load(c)) = Refs(c)
           /\ None \notin Refs(c)
           /\ c = None => Refs(c) = {}
           /\ Refs(c) \subseteq Kinds \X Nat
<1>1. NoRefs \in [Kinds -> (Kinds \X Nat) \cup {None}]
  BY DEF NoRefs
<1>2. DefaultConfig \in AnyConfig
  BY <1>1 DEF DefaultConfig, AnyConfig
<1>3. DefaultConfig # None
  BY <1>2, ConfigAssumption
<1>4. Load(c) \in AnyConfig /\ Load(Load(c)) = Load(c)
  BY <1>2, <1>3 DEF Load, MaybeConfig
<1>5. Refs(Load(c)) = Refs(c) /\ None \notin Refs(c)
  BY <1>4 DEF Refs
<1>6. ASSUME c = None PROVE Refs(c) = {}
  <2>1. Load(c).refs = NoRefs
    BY <1>6 DEF Load, DefaultConfig
  <2> QED BY <2>1 DEF Refs, NoRefs
<1>7. Refs(c) \subseteq Kinds \X Nat
  <2>1. Load(c).refs \in [Kinds -> (Kinds \X Nat) \cup {None}]
    BY <1>4 DEF AnyConfig
  <2> QED BY <2>1 DEF Refs
<1> QED BY <1>4, <1>5, <1>6, <1>7

\* Another revision of a configuration names the same files.
LEMMA RefsOfEdit ==
    ASSUME NEW c \in MaybeConfig, NEW n \in Nat
    PROVE  /\ [Load(c) EXCEPT !.rev = n] \in AnyConfig
           /\ Refs([Load(c) EXCEPT !.rev = n]) = Refs(c)
           /\ [Load(c) EXCEPT !.rev = n].rev = n
           /\ [Load(c) EXCEPT !.rev = n].refs = Load(c).refs
           /\ [Load(c) EXCEPT !.rev = n].sensor = Load(c).sensor
<1> DEFINE d == [Load(c) EXCEPT !.rev = n]
<1>1. Load(c) \in AnyConfig
  BY RefsFacts
<1> DEFINE S == [Kinds -> (Kinds \X Nat) \cup {None}]
<1> HIDE DEF S
<1>2. d \in AnyConfig /\ d.rev = n /\ d.refs = Load(c).refs /\ d.sensor = Load(c).sensor
  BY <1>1 DEF AnyConfig, S
<1>3. Load(d) = d
  BY <1>2, ConfigAssumption DEF Load
<1>4. Refs(d) = Refs(c)
  BY ZenonT(40), <1>2, <1>3 DEF Refs
<1> QED BY <1>2, <1>4

LEMMA MadeGrows ==
    ASSUME NEW c \in MaybeConfig, Made(c), serial \in Nat, serial' \in Nat, serial <= serial'
    PROVE  Made(c)'
<1>1. CASE c = None
  BY <1>1 DEF Made
<1>2. CASE c # None
  <2>1. c \in AnyConfig
    BY <1>2 DEF MaybeConfig
  <2>2. c.rev \in Nat /\ c.refs \in [Kinds -> (Kinds \X Nat) \cup {None}]
    BY <2>1 DEF AnyConfig
  <2>3. c.rev < serial'
    BY <1>2, <2>2 DEF Made
  <2>4. ASSUME NEW k \in Kinds, c.refs[k] # None PROVE c.refs[k][2] < serial'
    <3>1. c.refs[k] \in Kinds \X Nat
      BY <2>2, <2>4
    <3>2. c.refs[k][2] \in Nat
      BY <3>1
    <3> QED BY <1>2, <2>4, <3>2 DEF Made
  <2> QED BY <2>3, <2>4 DEF Made
<1> QED BY <1>1, <1>2

LEMMA MadeRefs ==
    ASSUME NEW c \in MaybeConfig, Made(c), NEW f \in Refs(c)
    PROVE  f[2] < serial
<1>1. c # None
  BY RefsFacts
<1>2. PICK k \in Kinds : f = c.refs[k] /\ f # None
  BY <1>1 DEF Refs, Load
<1> QED BY <1>1, <1>2 DEF Made

LEMMA NewContent ==
    ASSUME NEW c \in MaybeConfig, Made(c), serial \in Nat \ {0}, serial' = serial + 1,
           NEW k \in Kinds, NEW new \in MaybeFile, new = None \/ new[2] <= serial,
           NEW d, d = [Load(c) EXCEPT !.rev = serial, !.refs[k] = new]
    PROVE  d \in AnyConfig /\ d # None /\ Made(d)'
<1> DEFINE S == [Kinds -> (Kinds \X Nat) \cup {None}]
           l == Load(c)
           l1 == [l EXCEPT !.rev = serial]
           m == [l.refs EXCEPT ![k] = new]
<1>1. l \in AnyConfig
  BY RefsFacts
<1>2. l.refs \in S
  BY <1>1 DEF AnyConfig
<1>3. m \in S
  BY <1>2 DEF MaybeFile
<1>4. \A j \in Kinds : m[j] = None \/ m[j][2] < serial'
  <2> SUFFICES ASSUME NEW j \in Kinds, m[j] # None PROVE m[j][2] < serial'
    OBVIOUS
  <2>1. CASE j = k
    <3>1. m[j] = new /\ new # None
      BY <1>2, <2>1
    <3>2. new[2] \in Nat
      BY <3>1 DEF MaybeFile
    <3> QED BY <3>1, <3>2
  <2>2. CASE j # k
    <3>1. m[j] = l.refs[j] /\ l.refs[j] # None
      BY <1>2, <2>2
    <3>2. l.refs[j] \in Kinds \X Nat
      BY <3>1, <1>2
    <3>3. l.refs[j][2] \in Nat
      BY <3>2
    <3>4. c # None /\ l.refs[j] = c.refs[j]
      BY <3>1 DEF Load, DefaultConfig, NoRefs
    <3>5. l.refs[j][2] < serial
      BY <3>1, <3>4 DEF Made
    <3> QED BY <3>1, <3>3, <3>5
  <2> QED BY <2>1, <2>2
<1>5. d = [l1 EXCEPT !.refs = m]
  BY <1>1 DEF AnyConfig
<1>6. l1.refs = l.refs
  BY <1>1 DEF AnyConfig
<1> HIDE DEF S, l, m
<1>7. d \in AnyConfig /\ d.rev = serial /\ d.refs = m
  <2>1. l1 \in AnyConfig /\ l1.rev = serial
    BY <1>1 DEF AnyConfig, S
  <2> HIDE DEF l1
  <2> QED BY <1>3, <1>5, <2>1 DEF AnyConfig, S
<1>8. d # None
  BY <1>7, ConfigAssumption
<1>9. d.rev < serial'
  BY <1>7
<1>10. \A j \in Kinds : d.refs[j] = None \/ d.refs[j][2] < serial'
  BY <1>4, <1>7
<1>11. Made(d)'
  BY <1>9, <1>10 DEF Made
<1> QED BY <1>7, <1>8, <1>11

LEMMA SavedContent ==
    ASSUME NEW c \in MaybeConfig, Made(c), serial \in Nat \ {0}, serial' = serial + 1,
           NEW d, d = [Load(c) EXCEPT !.rev = serial, !.sensor = ~@]
    PROVE  d \in AnyConfig /\ d # None /\ Made(d)'
<1> DEFINE l == Load(c)
           S == [Kinds -> (Kinds \X Nat) \cup {None}]
<1>1. l \in AnyConfig
  BY RefsFacts
<1>2. \A j \in Kinds : l.refs[j] = None \/ l.refs[j][2] < serial'
  <2> SUFFICES ASSUME NEW j \in Kinds, l.refs[j] # None PROVE l.refs[j][2] < serial'
    OBVIOUS
  <2>1. l.refs[j] \in Kinds \X Nat
    BY <1>1 DEF AnyConfig
  <2>2. l.refs[j][2] \in Nat
    BY <2>1
  <2>3. c # None /\ l.refs[j] = c.refs[j]
    BY DEF Load, DefaultConfig, NoRefs
  <2> QED BY <2>2, <2>3 DEF Made
<1> HIDE DEF l, S
<1>3. d \in AnyConfig /\ d.rev = serial /\ d.refs = l.refs
  <2>1. d = [l EXCEPT !.rev = serial, !.sensor = ~l.sensor]
    BY DEF l
  <2> QED BY <1>1, <2>1 DEF AnyConfig, S
<1>4. d # None /\ d.rev < serial'
  BY <1>3, ConfigAssumption
<1>5. \A j \in Kinds : d.refs[j] = None \/ d.refs[j][2] < serial'
  BY <1>2, <1>3
<1>6. Made(d)'
  BY <1>4, <1>5 DEF Made
<1> QED BY <1>3, <1>4, <1>6

-----------------------------------------------------------------------------
(* How a step keeps the invariant about files: the process that holds or   *)
(* takes the lock replaces its record; a process gives the lock up or      *)
(* opens a form; or no operation moves.                                    *)

LEMMA DrawnByGrows ==
    ASSUME NEW r \in OpRec, DrawnBy(r), serial \in Nat, serial' \in Nat, serial <= serial'
    PROVE  DrawnBy(r)'
<1>1. r.snap \in MaybeConfig /\ r.cand \in MaybeConfig /\ r.before \in MaybeConfig /\ r.file \in MaybeFile
  BY RecFields
<1>2. Made(r.snap)' /\ Made(r.cand)' /\ Made(r.before)'
  BY <1>1, MadeGrows DEF DrawnBy
<1>3. ASSUME r.file # None PROVE r.file[2] < serial'
  <2>1. r.file[2] \in Nat
    BY <1>1, <1>3 DEF MaybeFile
  <2> QED BY <1>3, <2>1 DEF DrawnBy
<1> QED BY <1>2, <1>3 DEF DrawnBy

LEMMA OthersDrawn ==
    ASSUME Kept, Shape', serial <= serial', NEW p \in Managers, NEW r \in OpRec,
           op' = [op EXCEPT ![p] = r], DrawnBy(r)'
    PROVE  \A q \in Managers : DrawnBy(op[q])'
<1> SUFFICES ASSUME NEW q \in Managers PROVE DrawnBy(op[q])'
  OBVIOUS
<1>0. serial \in Nat /\ serial' \in Nat /\ op \in [Managers -> OpRec]
  BY DEF Kept, OnDisk, Shape
<1>1. CASE q = p
  <2>1. op'[q] = r
    BY <1>0, <1>1
  <2> QED BY <2>1 DEF DrawnBy, Made
<1>2. CASE q # p
  <2>1. PICK t \in OpRec : t = op[q]
    BY <1>0
  <2>2. DrawnBy(t)
    BY <2>1 DEF Kept
  <2>3. DrawnBy(t)'
    BY <1>0, <2>2, DrawnByGrows
  <2>4. op'[q] = t
    BY <1>0, <1>2, <2>1
  <2> QED BY <2>3, <2>4 DEF DrawnBy, Made
<1> QED BY <1>1, <1>2

LEMMA HolderKeeps ==
    ASSUME Kept, OnDisk', serial <= serial', NEW p \in Managers, NEW r \in OpRec,
           op' = [op EXCEPT ![p] = r], lock \in {p, None}, lock' = p,
           r.pc \notin Waiting, DrawnBy(r)', FilesOf(r)'
    PROVE  Kept'
<1>0. op \in [Managers -> OpRec] /\ OneHolder /\ Shape'
  BY DEF Kept, OnDisk
<1>1. op' \in [Managers -> OpRec] /\ op'[p] = r /\ \A q \in Managers : q # p => op'[q] = op[q]
  BY <1>0
<1>2. \A q \in Managers : DrawnBy(op[q])'
  BY <1>0, OthersDrawn
<1>3. OneHolder'
  BY <1>0, <1>1, ConfigAssumption DEF OneHolder
<1>4. FilesOf(op[p])'
  BY <1>1 DEF FilesOf
<1> QED BY <1>1, <1>2, <1>3, <1>4 DEF Kept

LEMMA WaiterKeeps ==
    ASSUME Kept, OnDisk', serial' = serial, NEW p \in Managers, NEW r \in OpRec,
           op' = [op EXCEPT ![p] = r], r.pc \in Waiting, r.file = None, r.before = None, DrawnBy(r)',
           \/ lock = p /\ lock' = None
           \/ lock # p /\ UNCHANGED <<lock, config, journal, files, edits, blind>>
    PROVE  Kept'
<1>0. op \in [Managers -> OpRec] /\ OneHolder /\ Shape' /\ serial \in Nat
  BY DEF Kept, OnDisk, Shape
<1>1. op' \in [Managers -> OpRec] /\ op'[p] = r /\ \A q \in Managers : q # p => op'[q] = op[q]
  BY <1>0
<1>2. \A q \in Managers : DrawnBy(op[q])'
  <2>1. serial <= serial'
    BY <1>0
  <2> QED BY <1>0, <2>1, OthersDrawn
<1>3. OneHolder'
  BY <1>0, <1>1, ConfigAssumption DEF OneHolder
<1>4. lock' \in Managers \cup {None}
  BY DEF Kept
<1>5. ASSUME NEW q \in Managers, lock' = q PROVE FilesOf(op[q])'
  <2>1. q # p /\ lock = q /\ UNCHANGED <<config, journal, files, edits, blind>>
    BY <1>5, ConfigAssumption
  <2>2. FilesOf(op[q])
    BY <2>1 DEF Kept
  <2>3. op'[q] = op[q]
    BY <1>1, <2>1
  <2> QED BY <2>1, <2>2, <2>3 DEF FilesOf
<1> QED BY <1>1, <1>2, <1>3, <1>4, <1>5 DEF Kept

LEMMA NobodyMoves ==
    ASSUME Kept, OnDisk', serial <= serial', UNCHANGED <<op, lock>>,
           \A p \in Managers : lock = p => FilesOf(op[p])'
    PROVE  Kept'
<1>0. op \in [Managers -> OpRec] /\ serial \in Nat /\ serial' \in Nat
  BY DEF Kept, OnDisk, Shape
<1>1. ASSUME NEW q \in Managers PROVE DrawnBy(op[q])'
  <2>1. PICK t \in OpRec : t = op[q]
    BY <1>0
  <2>2. DrawnBy(t)'
    BY <1>0, <2>1, DrawnByGrows DEF Kept
  <2> QED BY <2>1, <2>2 DEF DrawnBy, Made
<1> QED BY <1>1 DEF Kept, OneHolder

\* Steps that leave the files alone.
LEMMA DiskSame ==
    ASSUME OnDisk, UNCHANGED <<config, journal, files, masked, child, serial, edits, blind, svc>>, faults' \in Nat
    PROVE  OnDisk'
BY DEF OnDisk, Shape, Drawn, FilesPinned, JournalCovers, Made

LEMMA FaultCounts == ASSUME Shape, Fault PROVE faults' \in Nat /\ faults' # 0
BY DEF Shape, Fault

\* The steps of an operation that already runs are those of the lock's holder.
LEMMA HolderFacts ==
    ASSUME Kept, NEW p \in Managers, lock = p
    PROVE  /\ op[p] \in OpRec /\ op \in [Managers -> OpRec] /\ op[p].pc \notin Waiting
           /\ DrawnBy(op[p]) /\ FilesOf(op[p]) /\ OnDisk /\ Shape /\ FilesPinned /\ JournalCovers /\ Drawn
BY DEF Kept, OneHolder, OnDisk

LEMMA FreeFacts ==
    ASSUME Kept, NEW p \in Managers
    PROVE  /\ op[p] \in OpRec /\ op \in [Managers -> OpRec] /\ DrawnBy(op[p])
           /\ OnDisk /\ Shape /\ FilesPinned /\ JournalCovers /\ Drawn
           /\ ~Locked => lock = None
BY DEF Kept, OnDisk, Locked

\* A failed or finished operation: only its result is left.
LEMMA PostKeeps ==
    ASSUME Kept, NEW p \in Managers, lock = p, lock' = p, NEW b \in BOOLEAN, Post(p, b),
           OnDisk', serial <= serial',
           journal' # None => op[p].file \notin Refs(journal'.before),
           b /\ op[p].kind = "secret" /\ journal' = None => Refs(config') \subseteq Refs(op[p].cand)
    PROVE  Kept'
<1>0. op[p] \in OpRec /\ DrawnBy(op[p]) /\ serial \in Nat /\ serial' \in Nat /\ op \in [Managers -> OpRec]
  BY HolderFacts DEF OnDisk, Shape
<1>1. Posted(p, "post", op[p].kind, b, op[p].cand, op[p].file)
  BY DEF Post, Posted
<1>2. "post" \in Pcs /\ op[p].kind \in OpKinds /\ op[p].cand \in MaybeConfig /\ op[p].file \in MaybeFile
  BY <1>0, RecFields DEF Pcs
<1>3. PICK r \in OpRec : /\ op' = [op EXCEPT ![p] = r]
                         /\ r.pc = "post" /\ r.kind = op[p].kind /\ r.snap = None /\ r.cand = op[p].cand
                         /\ r.file = op[p].file /\ r.before = None /\ r.ok = b
  BY <1>0, <1>1, <1>2, PostedRec, IdleFields
<1>6. DrawnBy(r)
  BY <1>0, <1>3 DEF DrawnBy, Made
<1>7. DrawnBy(r)'
  BY <1>0, <1>6, DrawnByGrows
<1>8. FilesOf(r)'
  <2>1. Refs(None) = {}
    BY RefsFacts DEF MaybeConfig
  <2> QED BY <1>3, <2>1 DEF FilesOf, StepsFit, Early, Late, Undo, Journaled
<1>9. r.pc \notin Waiting
  BY <1>3 DEF Waiting
<1> QED BY <1>3, <1>7, <1>8, <1>9, HolderKeeps

-----------------------------------------------------------------------------
(* Beginning an operation.                                                 *)

LEMMA NoneInSets == None \in MaybeConfig /\ None \in MaybeFile /\ Refs(None) = {} /\ None \in OpKinds
BY RefsFacts DEF MaybeConfig, MaybeFile, OpKinds

LEMMA OpenFormKept ==
    ASSUME Kept, NEW p \in Managers, OpenForm(p)
    PROVE  Kept'
<1>0. op \in [Managers -> OpRec] /\ OnDisk /\ Shape /\ Made(config) /\ OneHolder
  BY FreeFacts DEF Drawn, Kept
<1>1. OnDisk'
  BY <1>0, DiskSame DEF OpenForm, Shape
<1>2. "form" \in Pcs /\ "save" \in OpKinds /\ config \in MaybeConfig
  BY <1>0 DEF Pcs, OpKinds, Shape
<1>3. Opened(p, "form", "save", config)
  BY DEF OpenForm, Opened
<1>4. PICK r \in OpRec : /\ op' = [op EXCEPT ![p] = r]
                         /\ r.pc = "form" /\ r.snap = config /\ r.cand = None /\ r.file = None /\ r.before = None
  BY <1>0, <1>2, <1>3, OpenedRec, IdleFields
<1>5. DrawnBy(r)'
  BY <1>0, <1>4 DEF DrawnBy, Made, OpenForm
<1>6. lock # p /\ UNCHANGED <<lock, config, journal, files, edits, blind, serial>>
  BY <1>0 DEF OpenForm, OneHolder, Waiting
<1> QED BY <1>1, <1>4, <1>5, <1>6, WaiterKeeps DEF Waiting

LEMMA RefusedKept ==
    ASSUME Kept, NEW p \in Managers, Refused(p)
    PROVE  Kept'
<1>0. op \in [Managers -> OpRec] /\ OnDisk /\ Shape /\ OneHolder
  BY FreeFacts DEF Kept
<1>1. OnDisk'
  BY <1>0, DiskSame DEF Refused, Shape, counters
<1>2. PICK r \in OpRec : r = Idle
  BY IdleFields
<1>3. op' = [op EXCEPT ![p] = r]
  BY <1>2 DEF Refused
<1>4. DrawnBy(r)' /\ r.pc \in Waiting /\ r.file = None /\ r.before = None
  BY <1>2, IdleFields DEF DrawnBy, Made, Waiting
<1>5. lock # p /\ UNCHANGED <<lock, config, journal, files, edits, blind, serial>>
  BY <1>0 DEF Refused, OneHolder, Waiting, counters
<1> QED BY <1>1, <1>3, <1>4, <1>5, WaiterKeeps

LEMMA DiskSerial ==
    ASSUME OnDisk, UNCHANGED <<config, journal, files, masked, child, edits, blind, svc, faults>>, serial' = serial + 1
    PROVE  OnDisk'
<1>0. serial \in Nat /\ serial' \in Nat /\ serial <= serial' /\ serial' # 0 /\ Shape /\ Drawn
  BY DEF OnDisk, Shape
<1>1. Shape' /\ FilesPinned' /\ JournalCovers'
  BY <1>0 DEF OnDisk, Shape, FilesPinned, JournalCovers
<1>2. config \in MaybeConfig /\ svc.loaded \in MaybeConfig
  BY <1>0 DEF Shape, Svc
<1>3. Made(config)' /\ Made(svc.loaded)'
  <2>1. PICK c \in MaybeConfig, l \in MaybeConfig : c = config /\ l = svc.loaded
    BY <1>2
  <2>2. Made(c)' /\ Made(l)'
    BY <1>0, <2>1, MadeGrows DEF Drawn
  <2> QED BY <2>1, <2>2 DEF Made
<1>4. ASSUME journal' # None PROVE Made(journal.before)' /\ Made(journal.after)'
  <2>1. journal.before \in MaybeConfig /\ journal.after \in MaybeConfig
    BY <1>0, <1>4 DEF Shape, AnyJournal, MaybeConfig
  <2>2. PICK b \in MaybeConfig, a \in MaybeConfig : b = journal.before /\ a = journal.after
    BY <2>1
  <2>3. Made(b)' /\ Made(a)'
    BY <1>0, <1>4, <2>2, MadeGrows DEF Drawn
  <2> QED BY <2>2, <2>3 DEF Made
<1>5. \A f \in files' : f[2] < serial'
  BY <1>0 DEF Drawn, Shape
<1> QED BY <1>1, <1>3, <1>4, <1>5 DEF OnDisk, Drawn

LEMMA SaveFormKept ==
    ASSUME Kept, NEW p \in Managers, SaveForm(p)
    PROVE  Kept'
<1>0. op \in [Managers -> OpRec] /\ op[p] \in OpRec /\ OnDisk /\ Shape /\ OneHolder /\ DrawnBy(op[p])
  BY FreeFacts DEF Kept
<1>1. OnDisk' /\ serial \in Nat \ {0} /\ serial' = serial + 1 /\ serial <= serial'
  BY <1>0, DiskSerial DEF SaveForm, Shape, counters
<1>2. PICK d : d = [Load(op[p].snap) EXCEPT !.rev = serial, !.sensor = ~@]
  OBVIOUS
<1>3. op[p].snap \in MaybeConfig /\ Made(op[p].snap)
  BY <1>0, RecFields DEF DrawnBy
<1>4. d \in AnyConfig /\ d # None /\ Made(d)'
  BY <1>1, <1>2, <1>3, SavedContent
<1>5. MovedCand(p, "read", d)
  BY <1>2 DEF SaveForm, MovedCand
<1>6. PICK r \in OpRec : /\ op' = [op EXCEPT ![p] = r]
                         /\ r.pc = "read" /\ r.snap = op[p].snap /\ r.cand = d /\ r.file = op[p].file /\ r.before = op[p].before
  BY <1>0, <1>4, <1>5, MovedCandRec DEF Pcs, MaybeConfig
<1>7. r.file = None /\ r.before = None
  BY <1>0, <1>6 DEF SaveForm, OneHolder, Waiting
<1>8. DrawnBy(r)'
  <2>1. PICK c \in MaybeConfig : c = op[p].snap
    BY <1>3
  <2>2. Made(c)'
    BY <1>1, <1>3, <2>1, MadeGrows
  <2> QED BY <1>4, <1>6, <1>7, <2>1, <2>2 DEF DrawnBy, Made
<1>9. FilesOf(r)'
  <2>1. None \notin Refs(r.snap) /\ (journal' # None => None \notin Refs(journal.before)')
    BY <1>0, <1>3, <1>6, RefsFacts DEF Shape, AnyJournal, MaybeConfig, SaveForm
  <2> QED BY <1>4, <1>6, <1>7, <2>1, NoneInSets DEF FilesOf, StepsFit, Early, Late, Undo, Journaled
<1> QED BY <1>1, <1>6, <1>8, <1>9, HolderKeeps, FreeFacts DEF SaveForm, Waiting

LEMMA StagingKept ==
    ASSUME Kept, NEW p \in Managers, NEW k \in {"secret", "profile", "geo"}, BeginWith(p, Staging(k)), UNCHANGED serial
    PROVE  Kept'
<1>0. op \in [Managers -> OpRec] /\ OnDisk /\ Shape /\ Made(config) /\ lock = None
  BY FreeFacts DEF Drawn, BeginWith
<1>1. OnDisk' /\ serial <= serial'
  BY <1>0, DiskSame DEF BeginWith, Shape
<1>2. "stage" \in Pcs /\ k \in OpKinds /\ k \in Kinds /\ config \in MaybeConfig
  BY <1>0, ConfigAssumption DEF Pcs, OpKinds, Shape
<1>3. Opened(p, "stage", k, config)
  BY DEF BeginWith, Staging, Opened
<1>4. PICK r \in OpRec : /\ op' = [op EXCEPT ![p] = r] /\ r.kind = k
                         /\ r.pc = "stage" /\ r.snap = config /\ r.cand = None /\ r.file = None /\ r.before = None
  BY <1>0, <1>2, <1>3, OpenedRec, IdleFields
<1>5. DrawnBy(r)'
  BY <1>0, <1>4 DEF DrawnBy, Made
<1>6. FilesOf(r)'
  <2>1. journal' # None => None \notin Refs(journal.before)'
    BY <1>0, RefsFacts DEF Shape, AnyJournal, MaybeConfig, BeginWith
  <2> QED BY <1>2, <1>4, <2>1, NoneInSets DEF FilesOf, StepsFit, Early, Late, Undo, Journaled, BeginWith
<1> QED BY <1>0, <1>1, <1>4, <1>5, <1>6, HolderKeeps DEF Waiting, BeginWith

LEMMA ChangingKept ==
    ASSUME Kept, NEW p \in Managers, NEW ref, ref \in {Load(config).refs["secret"], None},
           BeginWith(p, Changing("secret", ref)), serial' = serial + 1
    PROVE  Kept'
<1>0. op \in [Managers -> OpRec] /\ OnDisk /\ Shape /\ Made(config) /\ lock = None
  BY FreeFacts DEF Drawn, BeginWith
<1>1. OnDisk' /\ serial <= serial' /\ serial \in Nat \ {0}
  BY <1>0, DiskSerial DEF BeginWith, Shape
<1>2. "read" \in Pcs /\ "secret" \in OpKinds /\ "secret" \in Kinds /\ config \in MaybeConfig
  BY <1>0, ConfigAssumption DEF Pcs, OpKinds, Shape
<1>3. ref \in MaybeFile /\ (ref = None \/ ref[2] <= serial)
  <2>1. CASE ref = None
    BY <2>1 DEF MaybeFile
  <2>2. CASE ref # None
    <3>1. ref = Load(config).refs["secret"] /\ ref \in Refs(config)
      BY <1>2, <2>2 DEF Refs
    <3>2. ref \in Kinds \X Nat /\ ref[2] < serial
      BY <1>0, <1>2, <3>1, RefsFacts, MadeRefs
    <3>3. ref[2] \in Nat
      BY <3>2
    <3> QED BY <1>1, <3>2, <3>3 DEF MaybeFile
  <2> QED BY <2>1, <2>2
<1>4. PICK d : d = [Load(config) EXCEPT !.rev = serial, !.refs["secret"] = ref]
  OBVIOUS
<1>5. d \in AnyConfig /\ d # None /\ Made(d)'
  BY <1>0, <1>1, <1>2, <1>3, <1>4, NewContent
<1>6. Changed(p, "read", "secret", config, d)
  BY <1>4 DEF BeginWith, Changing, Changed
<1>7. PICK r \in OpRec : /\ op' = [op EXCEPT ![p] = r]
                         /\ r.pc = "read" /\ r.snap = config /\ r.cand = d /\ r.file = None /\ r.before = None
  <2>1. d \in MaybeConfig
    BY <1>5 DEF MaybeConfig
  <2> QED BY <1>0, <1>2, <1>6, <2>1, ChangedRec, IdleFields
<1>8. DrawnBy(r)'
  <2>1. PICK c \in MaybeConfig : c = config
    BY <1>2
  <2>2. Made(c)'
    BY <1>0, <1>1, <2>1, MadeGrows
  <2> QED BY <1>5, <1>7, <2>1, <2>2 DEF DrawnBy, Made
<1>9. FilesOf(r)'
  <2>1. None \notin Refs(config) /\ (journal' # None => None \notin Refs(journal.before)')
    BY <1>0, <1>2, RefsFacts DEF Shape, AnyJournal, MaybeConfig, BeginWith
  <2> QED BY <1>5, <1>7, <2>1, NoneInSets DEF FilesOf, StepsFit, Early, Late, Undo, Journaled
<1> QED BY <1>0, <1>1, <1>7, <1>8, <1>9, HolderKeeps DEF Waiting, BeginWith

LEMMA BeginRecoverKept ==
    ASSUME Kept, NEW p \in Managers, BeginRecover(p)
    PROVE  Kept'
<1>0. op \in [Managers -> OpRec] /\ OnDisk /\ Shape /\ Drawn /\ lock = None
  BY FreeFacts DEF BeginRecover
<1>1. OnDisk' /\ serial <= serial'
  BY <1>0, DiskSame DEF BeginRecover, Shape, counters
<1>2. journal \in AnyJournal /\ journal # None
  BY <1>0 DEF BeginRecover, Shape
<1>3. /\ journal.before \in MaybeConfig /\ journal.after \in MaybeConfig /\ journal.ran \in RanSets
      /\ journal.after # None /\ "rollback" \in Pcs /\ "recover" \in OpKinds
  BY <1>2, ConfigAssumption DEF AnyJournal, MaybeConfig, RanSets, Pcs, OpKinds
<1>4. Recovering(p, "rollback", "recover", journal.before, journal.after, journal.ran)
  BY DEF BeginRecover, Recovering
<1>5. PICK r \in OpRec : /\ op' = [op EXCEPT ![p] = r]
                         /\ r.pc = "rollback" /\ r.snap = None /\ r.cand = journal.after /\ r.file = None
                         /\ r.before = journal.before /\ r.ran = journal.ran
  BY <1>0, <1>3, <1>4, RecoveringRec, IdleFields
<1>6. DrawnBy(r)'
  BY <1>0, <1>2, <1>5 DEF DrawnBy, Made, Drawn, BeginRecover
<1>7. FilesOf(r)'
  <2>1. None \notin Refs(journal.before)
    BY <1>3, RefsFacts
  <2> QED BY <1>2, <1>3, <1>5, <2>1, NoneInSets DEF FilesOf, StepsFit, Early, Late, Undo, Journaled, BeginRecover
<1> QED BY <1>0, <1>1, <1>5, <1>6, <1>7, HolderKeeps DEF Waiting, BeginRecover

LEMMA ServiceActionKept ==
    ASSUME Kept, NEW p \in Managers, NEW k \in {"stop", "restart", "start"}, ServiceAction(p, k)
    PROVE  Kept'
<1>0. op \in [Managers -> OpRec] /\ OnDisk /\ Shape /\ Made(config) /\ lock = None
  BY FreeFacts DEF Drawn, ServiceAction
<1>1. OnDisk' /\ serial <= serial'
  BY <1>0, DiskSame DEF ServiceAction, Shape
<1>2. PICK d, g, h : /\ d = Load(config)
                     /\ g = IF k = "stop" THEN {} ELSE {u \in Units : Running(u)}
                     /\ h = CASE k = "stop" -> <<"haltSensor", "haltDaemon">>
                              [] k = "restart" -> ActivateSteps
                              [] OTHER -> <<"startDaemon", "startSensor", "sensorOff", "ready">>
  OBVIOUS
<1>3. d \in AnyConfig /\ d \in MaybeConfig /\ d # None
  BY <1>0, <1>2, RefsFacts, ConfigAssumption DEF Shape, MaybeConfig
<1>4. g \in RanSets /\ "service" \in Pcs /\ k \in OpKinds
  BY <1>2 DEF RanSets, Pcs, OpKinds
<1>5. h \in StepLists
  BY <1>2, HeadsAndTails DEF StepLists, H2, D4
<1>6. Serving(p, "service", k, d, g, h)
  BY <1>2 DEF ServiceAction, Serving
<1>7. PICK r \in OpRec : /\ op' = [op EXCEPT ![p] = r] /\ r.kind = k /\ r.steps = h
                         /\ r.pc = "service" /\ r.snap = None /\ r.cand = d /\ r.file = None /\ r.before = None
  BY <1>0, <1>3, <1>4, <1>5, <1>6, ServingRec, IdleFields
<1>8. Made(d)'
  <2>1. CASE config = None
    <3>1. d.rev = 0 /\ d.refs = NoRefs
      BY <1>2, <2>1 DEF Load, DefaultConfig
    <3>2. 0 < serial'
      BY <1>1 DEF OnDisk, Shape
    <3>3. \A j \in Kinds : d.refs[j] = None
      BY <3>1 DEF NoRefs
    <3> QED BY <3>1, <3>2, <3>3 DEF Made
  <2>2. CASE config # None
    BY <1>0, <1>2, <2>2 DEF Load, Made, ServiceAction
  <2> QED BY <2>1, <2>2
<1>9. DrawnBy(r)'
  BY <1>7, <1>8 DEF DrawnBy, Made
<1>10. StepsFit(r)
  BY <1>2, <1>7, HeadsAndTails DEF StepsFit, StopLists, ApplyLists, StartLists, H2, D4
<1>11. FilesOf(r)'
  <2>1. journal' # None => None \notin Refs(journal.before)'
    BY <1>0, RefsFacts DEF Shape, AnyJournal, MaybeConfig, ServiceAction
  <2> QED BY <1>3, <1>7, <1>10, <2>1, NoneInSets DEF FilesOf, Early, Late, Undo, Journaled
<1> QED BY <1>0, <1>1, <1>7, <1>9, <1>11, HolderKeeps DEF Waiting, ServiceAction

-----------------------------------------------------------------------------
(* Staging.                                                                *)

LEMMA DiskFiles ==
    ASSUME OnDisk, UNCHANGED <<config, journal, masked, child, edits, blind, svc>>, faults' \in Nat,
           serial' \in {serial, serial + 1}, files' \subseteq Kinds \X Nat, \A f \in files' : f[2] < serial', FilesPinned'
    PROVE  OnDisk'
<1>0. serial \in Nat /\ serial' \in Nat /\ serial <= serial' /\ serial' # 0 /\ Shape /\ Drawn
  BY DEF OnDisk, Shape
<1>1. Shape' /\ JournalCovers'
  BY <1>0 DEF OnDisk, Shape, JournalCovers
<1>2. config \in MaybeConfig /\ svc.loaded \in MaybeConfig
  BY <1>0 DEF Shape, Svc
<1>3. Made(config)' /\ Made(svc.loaded)'
  <2>1. PICK c \in MaybeConfig, l \in MaybeConfig : c = config /\ l = svc.loaded
    BY <1>2
  <2>2. Made(c)' /\ Made(l)'
    BY <1>0, <2>1, MadeGrows DEF Drawn
  <2> QED BY <2>1, <2>2 DEF Made
<1>4. ASSUME journal' # None PROVE Made(journal.before)' /\ Made(journal.after)'
  <2>1. journal.before \in MaybeConfig /\ journal.after \in MaybeConfig
    BY <1>0, <1>4 DEF Shape, AnyJournal, MaybeConfig
  <2>2. PICK b \in MaybeConfig, a \in MaybeConfig : b = journal.before /\ a = journal.after
    BY <2>1
  <2>3. Made(b)' /\ Made(a)'
    BY <1>0, <1>4, <2>2, MadeGrows DEF Drawn
  <2> QED BY <2>2, <2>3 DEF Made
<1> QED BY <1>1, <1>3, <1>4 DEF OnDisk, Drawn

\* The staged file is new: no content made so far names it.
LEMMA StagedKeeps ==
    ASSUME Kept, NEW p \in Managers, lock = p, lock' = p, op[p].pc = "stage", journal = None, journal' = None,
           NEW new \in Kinds \X Nat, new[2] = serial, op' = Staged(p, new), serial' = serial + 1, OnDisk'
    PROVE  Kept'
<1>0. op \in [Managers -> OpRec] /\ op[p] \in OpRec /\ Shape /\ DrawnBy(op[p]) /\ FilesOf(op[p])
  BY HolderFacts
<1>1. serial \in Nat \ {0} /\ serial <= serial' /\ op[p].kind \in Kinds
  BY <1>0 DEF Shape, FilesOf
<1>2. op[p].snap \in MaybeConfig /\ op[p].before \in MaybeConfig /\ Made(op[p].snap) /\ Made(op[p].before)
  BY <1>0, RecFields DEF DrawnBy
<1>3. new \in Kinds \X Nat /\ new[2] = serial /\ new \in MaybeFile /\ new[2] <= serial
  BY <1>1 DEF MaybeFile
<1>4. PICK d : d = [Load(op[p].snap) EXCEPT !.rev = serial, !.refs[op[p].kind] = new]
  OBVIOUS
<1>5. d \in AnyConfig /\ d \in MaybeConfig /\ d # None /\ Made(d)'
  <2>1. PICK c \in MaybeConfig, k \in Kinds : c = op[p].snap /\ k = op[p].kind
    BY <1>1, <1>2
  <2>2. d = [Load(c) EXCEPT !.rev = serial, !.refs[k] = new] /\ Made(c)
    BY <1>2, <1>4, <2>1
  <2>3. d \in AnyConfig /\ d # None /\ Made(d)'
    BY <1>1, <1>3, <2>2, NewContent
  <2> QED BY <2>3 DEF MaybeConfig
<1>6. MovedStaged(p, "read", new, d)
  BY <1>4 DEF Staged, MovedStaged
<1>7. PICK r \in OpRec : /\ op' = [op EXCEPT ![p] = r]
                         /\ r.pc = "read" /\ r.snap = op[p].snap /\ r.cand = d /\ r.file = new /\ r.before = op[p].before
  <2>1. "read" \in Pcs
    BY DEF Pcs
  <2> QED BY <1>0, <1>3, <1>5, <1>6, <2>1, MovedStagedRec
<1>8. DrawnBy(r)'
  <2>1. PICK c \in MaybeConfig, b \in MaybeConfig : c = op[p].snap /\ b = op[p].before
    BY <1>2
  <2>2. Made(c)' /\ Made(b)'
    BY <1>1, <1>2, <2>1, MadeGrows
  <2>3. r.file[2] < serial'
    BY <1>1, <1>3, <1>7
  <2> QED BY <1>5, <1>7, <2>1, <2>2, <2>3 DEF DrawnBy, Made
<1>9. new \notin Refs(op[p].snap) /\ new \notin Refs(op[p].before)
  BY <1>1, <1>2, <1>3, MadeRefs
<1>10. FilesOf(r)'
  BY <1>5, <1>7, <1>9 DEF FilesOf, StepsFit, Early, Late, Undo, Journaled
<1> QED BY <1>1, <1>7, <1>8, <1>10, HolderKeeps DEF Waiting

LEMMA OrphansSpare ==
    ASSUME NEW k, NEW c
    PROVE  /\ files \ Orphans(k, c) \subseteq files
           /\ Refs(c) \subseteq files => Refs(c) \subseteq files \ Orphans(k, c)
BY DEF Orphans

LEMMA StageFileKept ==
    ASSUME Kept, NEW p \in Managers, StageFile(p)
    PROVE  Kept'
<1>0. /\ op \in [Managers -> OpRec] /\ op[p] \in OpRec /\ OnDisk /\ Shape /\ Drawn /\ FilesPinned /\ FilesOf(op[p])
      /\ lock = p /\ lock' = p /\ op[p].pc = "stage"
      /\ UNCHANGED <<config, journal, masked, child, edits, blind, svc>>
  BY HolderFacts DEF StageFile, At, Same
<1>1. serial \in Nat \ {0} /\ op[p].kind \in Kinds /\ faults \in Nat /\ files \subseteq Kinds \X Nat
      /\ Refs(config) \subseteq files /\ (\A f \in files : f[2] < serial)
  BY <1>0 DEF Shape, FilesOf, FilesPinned, Drawn
<1>2. CASE journal # None /\ Post(p, FALSE) /\ UNCHANGED <<files, serial, faults>>
  <2>1. OnDisk' /\ serial <= serial'
    BY <1>0, <1>1, <1>2, DiskSame
  <2>2. journal' # None => op[p].file \notin Refs(journal'.before)
    BY <1>0 DEF FilesOf
  <2> QED BY <1>0, <1>2, <2>1, <2>2, PostKeeps
<1>3. ASSUME journal = None, files' = Clean(op[p].kind, config) \cup {<<op[p].kind, serial>>},
             op' = Staged(p, <<op[p].kind, serial>>), serial' = serial + 1, UNCHANGED faults
      PROVE  Kept'
  <2>1. PICK new : new = <<op[p].kind, serial>>
    OBVIOUS
  <2>2. files' = (files \ Orphans(op[p].kind, config)) \cup {new} /\ new \in Kinds \X Nat /\ new[2] = serial
    BY <1>1, <1>3, <2>1 DEF Clean
  <2>3. FilesPinned'
    BY <1>0, <1>1, <1>3, <2>2, OrphansSpare DEF FilesPinned
  <2>4. \A f \in files' : f[2] < serial'
    <3> SUFFICES ASSUME NEW f \in files' PROVE f[2] < serial'
      OBVIOUS
    <3>1. CASE f \in files
      <4>1. f[2] \in Nat /\ f[2] < serial
        BY <1>1, <3>1
      <4> QED BY <1>1, <1>3, <4>1
    <3>2. CASE f = new
      BY <1>1, <1>3, <2>2, <3>2
    <3> QED BY <2>2, <3>1, <3>2
  <2>5. files' \subseteq Kinds \X Nat
    BY <1>1, <2>2
  <2>6. OnDisk'
    BY <1>0, <1>1, <1>3, <2>3, <2>4, <2>5, DiskFiles
  <2>7. op' = Staged(p, new)
    BY <1>3, <2>1
  <2> QED BY <1>0, <1>3, <2>2, <2>6, <2>7, StagedKeeps
<1>4. ASSUME journal = None, Fault, files' = Clean(op[p].kind, config), Post(p, FALSE), UNCHANGED serial
      PROVE  Kept'
  <2>1. files' = files \ Orphans(op[p].kind, config) /\ faults' \in Nat
    BY <1>0, <1>4, FaultCounts DEF Clean
  <2>2. FilesPinned'
    BY <1>0, <1>1, <1>4, <2>1, OrphansSpare DEF FilesPinned
  <2>3. OnDisk' /\ serial <= serial'
    BY <1>0, <1>1, <1>4, <2>1, <2>2, DiskFiles
  <2> QED BY <1>0, <1>4, <2>3, PostKeeps
<1> QED BY <1>2, <1>3, <1>4 DEF StageFile

\* With or without a new file, the files the configuration names stay.
LEMMA CleanGeoDisk ==
    ASSUME Kept, NEW p \in Managers, lock = p, op[p].pc = "stage", journal = None,
           UNCHANGED <<config, journal, masked, child, edits, blind, svc>>, faults' \in Nat,
           \/ files' = CleanGeo(op[p].snap) \cup {<<"geo", serial>>} /\ serial' = serial + 1
           \/ files' = CleanGeo(op[p].snap) /\ serial' = serial
    PROVE  OnDisk'
<1>0. OnDisk /\ Shape /\ Drawn /\ FilesPinned /\ FilesOf(op[p])
  BY HolderFacts
<1>1. /\ serial \in Nat \ {0} /\ files \subseteq Kinds \X Nat /\ Refs(config) \subseteq files
      /\ (\A f \in files : f[2] < serial) /\ Refs(config) = Refs(op[p].snap)
  BY <1>0 DEF Shape, FilesOf, FilesPinned, Drawn
<1>2. PICK new : new = <<"geo", serial>>
  OBVIOUS
<1>3. new \in Kinds \X Nat /\ new[2] = serial
  BY <1>1, <1>2, ConfigAssumption
<1>4. CleanGeo(op[p].snap) = files \ Orphans("geo", op[p].snap)
  BY DEF CleanGeo
<1>5. Refs(config) \subseteq CleanGeo(op[p].snap) /\ CleanGeo(op[p].snap) \subseteq files
  BY <1>1, <1>4, OrphansSpare
<1>6. FilesPinned' /\ files' \subseteq files \cup {new}
  BY <1>2, <1>5 DEF FilesPinned
<1>7. \A f \in files' : f[2] < serial'
  <2> SUFFICES ASSUME NEW f \in files' PROVE f[2] < serial'
    OBVIOUS
  <2>1. CASE f \in files
    <3>1. f[2] \in Nat /\ f[2] < serial
      BY <1>1, <2>1
    <3> QED BY <1>1, <3>1
  <2>2. CASE f \notin files
    <3>1. f = new /\ serial' = serial + 1
      BY <1>2, <1>5, <2>2
    <3> QED BY <1>1, <1>3, <3>1
  <2> QED BY <2>1, <2>2
<1>8. files' \subseteq Kinds \X Nat
  BY <1>1, <1>3, <1>6
<1> QED BY <1>0, <1>6, <1>7, <1>8, DiskFiles

LEMMA StageGenerationKept ==
    ASSUME Kept, NEW p \in Managers, StageGeneration(p)
    PROVE  Kept'
<1>0. /\ op \in [Managers -> OpRec] /\ op[p] \in OpRec /\ OnDisk /\ Shape /\ FilesOf(op[p])
      /\ lock = p /\ lock' = p /\ op[p].pc = "stage" /\ op[p].kind = "geo"
      /\ UNCHANGED <<config, journal, masked, child, edits, blind, svc>>
  BY HolderFacts DEF StageGeneration, At, Same
<1>1. serial \in Nat \ {0} /\ faults \in Nat
  BY <1>0 DEF Shape
<1>2. journal' # None => op[p].file \notin Refs(journal'.before)
  BY <1>0 DEF FilesOf
<1>3. CASE journal # None /\ Post(p, FALSE) /\ UNCHANGED <<files, serial, faults>>
  <2>1. OnDisk' /\ serial <= serial'
    BY <1>0, <1>1, <1>3, DiskSame
  <2> QED BY <1>0, <1>2, <1>3, <2>1, PostKeeps
<1>4. ASSUME journal = None, files' = CleanGeo(op[p].snap) \cup {<<"geo", serial>>},
             op' = Staged(p, <<"geo", serial>>), serial' = serial + 1, UNCHANGED faults
      PROVE  Kept'
  <2>1. OnDisk'
    BY <1>0, <1>1, <1>4, CleanGeoDisk
  <2>2. PICK new : new = <<"geo", serial>>
    OBVIOUS
  <2>3. new \in Kinds \X Nat /\ new[2] = serial
    BY <1>1, <2>2, ConfigAssumption
  <2>4. op' = Staged(p, new)
    BY <1>4, <2>2
  <2> QED BY <1>0, <1>4, <2>1, <2>3, <2>4, StagedKeeps
<1>5. ASSUME Fault, Post(p, FALSE), serial' = serial + 1,
             files' \in {files} \cup (IF journal = None THEN {CleanGeo(op[p].snap) \cup {<<"geo", serial>>}} ELSE {})
      PROVE  Kept'
  <2>1. faults' \in Nat /\ serial <= serial'
    BY <1>0, <1>1, <1>5, FaultCounts
  <2>2. CASE files' = files
    <3>1. FilesPinned' /\ files' \subseteq Kinds \X Nat /\ \A f \in files' : f[2] < serial'
      <4>1. FilesPinned /\ files \subseteq Kinds \X Nat /\ \A f \in files : f[2] < serial
        BY <1>0 DEF OnDisk, Shape, Drawn
      <4> QED BY <1>0, <1>1, <1>5, <2>2, <4>1 DEF FilesPinned
    <3>2. OnDisk'
      BY <1>0, <1>1, <1>5, <2>1, <3>1, DiskFiles
    <3> QED BY <1>0, <1>2, <1>5, <2>1, <3>2, PostKeeps
  <2>3. CASE journal = None /\ files' = CleanGeo(op[p].snap) \cup {<<"geo", serial>>}
    <3>1. OnDisk'
      BY <1>0, <1>5, <2>1, <2>3, CleanGeoDisk
    <3> QED BY <1>0, <1>2, <1>5, <2>1, <3>1, PostKeeps
  <2> QED BY <1>5, <2>2, <2>3
<1> QED BY <1>3, <1>4, <1>5 DEF StageGeneration

LEMMA GeoUnchangedKept ==
    ASSUME Kept, NEW p \in Managers, GeoUnchanged(p)
    PROVE  Kept'
<1>0. /\ OnDisk /\ Shape /\ FilesOf(op[p])
      /\ lock = p /\ lock' = p /\ op[p].pc = "stage" /\ op[p].kind = "geo" /\ journal = None
      /\ UNCHANGED <<config, journal, masked, child, edits, blind, svc, serial>>
  BY HolderFacts DEF GeoUnchanged, At, Same
<1>1. serial <= serial' /\ faults' \in Nat /\ files' = CleanGeo(op[p].snap)
  BY <1>0 DEF Shape, GeoUnchanged
<1>2. OnDisk'
  BY <1>0, <1>1, CleanGeoDisk
<1>3. PICK b \in BOOLEAN : b = (config = op[p].snap)
  OBVIOUS
<1>4. Post(p, b)
  BY <1>3 DEF GeoUnchanged
<1> QED BY <1>0, <1>1, <1>2, <1>4, PostKeeps

-----------------------------------------------------------------------------
(* saveLocked, rollback and recovery.                                      *)

\* A step that only moves the operation on; FilesOf of the moved record is the caller's.
LEMMA MovesOn ==
    ASSUME Kept, NEW p \in Managers, lock = p, lock' = p, NEW x \in Pcs \ Waiting, Go(p, x), serial' = serial, OnDisk',
           \A r \in OpRec : /\ r.pc = x /\ r.kind = op[p].kind /\ r.snap = op[p].snap /\ r.cand = op[p].cand
                            /\ r.file = op[p].file /\ r.before = op[p].before /\ r.ran = op[p].ran /\ r.steps = op[p].steps
                            => FilesOf(r)'
    PROVE  Kept'
<1>0. op \in [Managers -> OpRec] /\ op[p] \in OpRec /\ DrawnBy(op[p]) /\ serial \in Nat /\ serial <= serial'
  BY HolderFacts DEF Shape
<1>1. Moved(p, x)
  BY DEF Go, Moved
<1>2. PICK r \in OpRec : /\ op' = [op EXCEPT ![p] = r]
                         /\ r.pc = x /\ r.kind = op[p].kind /\ r.snap = op[p].snap /\ r.cand = op[p].cand
                         /\ r.file = op[p].file /\ r.before = op[p].before /\ r.ran = op[p].ran /\ r.steps = op[p].steps
  BY <1>0, <1>1, MovedRec
<1>3. DrawnBy(r)'
  BY <1>0, <1>2 DEF DrawnBy, Made
<1>4. FilesOf(r)'
  BY <1>2
<1> QED BY <1>0, <1>2, <1>3, <1>4, HolderKeeps

LEMMA Counted ==
    ASSUME Shape, Fault \/ UNCHANGED faults, UNCHANGED serial
    PROVE  faults' \in Nat /\ serial \in Nat /\ serial <= serial'
<1>1. faults \in Nat /\ serial \in Nat
  BY DEF Shape
<1>2. faults' \in Nat
  BY <1>1, FaultCounts
<1> QED BY <1>1, <1>2

LEMMA RecordFacts ==
    ASSUME Kept, NEW p \in Managers, lock = p, NEW st \in Stages, op[p].cand # None
    PROVE  /\ Record(p, st) \in AnyJournal /\ Record(p, st) # None
           /\ Record(p, st).before = op[p].before /\ Record(p, st).after = op[p].cand /\ Record(p, st).ran = op[p].ran
           /\ Made(op[p].before) /\ Made(op[p].cand)
<1>0. op[p] \in OpRec /\ DrawnBy(op[p])
  BY HolderFacts
<1>1. op[p].before \in AnyConfig \cup {None} /\ op[p].cand \in AnyConfig /\ op[p].ran \in SUBSET Units
  BY <1>0, RecFields DEF MaybeConfig, RanSets
<1>2. Record(p, st) \in AnyJournal
  <2> DEFINE C == AnyConfig
             U == SUBSET Units
  <2> HIDE DEF C, U
  <2>1. op[p].before \in C \cup {None} /\ op[p].cand \in C /\ op[p].ran \in U
    BY <1>1 DEF C, U
  <2>2. Record(p, st) \in [before : C \cup {None}, after : C, ran : U, stage : Stages]
    BY <2>1 DEF Record
  <2> QED BY <2>2 DEF AnyJournal, C, U
<1>3. Record(p, st) # None
  BY <1>2, ConfigAssumption
<1>4. Record(p, st).before = op[p].before /\ Record(p, st).after = op[p].cand /\ Record(p, st).ran = op[p].ran
  BY DEF Record
<1> QED BY <1>0, <1>2, <1>3, <1>4 DEF DrawnBy

LEMMA StageNames ==
    /\ "prepared" \in Stages /\ "candidate_written" \in Stages /\ "activating" \in Stages /\ "failed" \in Stages
    /\ "recovering" \in Stages /\ "config_restored" \in Stages /\ "services_restored" \in Stages
BY DEF Stages

\* Recording a stage of the operation, whatever it does to the configuration.
LEMMA DiskRecordedUnits ==
    ASSUME Kept, NEW p \in Managers, lock = p, NEW st \in Stages, op[p].cand # None, journal' = Record(p, st),
           UNCHANGED <<files, masked, serial, edits, blind>>, faults' \in Nat,
           svc' \in Svc, Made(svc.loaded)', child' \in [Managers -> Commands \cup {None}],
           config' \in {config, op[p].before, op[p].cand},
           Refs(op[p].before) \subseteq files, Refs(config') \subseteq files,
           edits = 0 => config' \in {op[p].before, op[p].cand}
    PROVE  OnDisk'
<1>0. OnDisk /\ Shape /\ Drawn /\ op[p] \in OpRec
  BY HolderFacts
<1>1. /\ Record(p, st) \in AnyJournal /\ Record(p, st) # None
      /\ Record(p, st).before = op[p].before /\ Record(p, st).after = op[p].cand
      /\ Made(op[p].before) /\ Made(op[p].cand)
  BY RecordFacts
<1>2. op[p].before \in MaybeConfig /\ op[p].cand \in MaybeConfig
  BY <1>0, RecFields
<1>3. Shape'
  BY <1>0, <1>1, <1>2 DEF Shape
<1>4. Made(config)'
  BY <1>0, <1>1 DEF Made, Drawn
<1>5. Made(journal.before)' /\ Made(journal.after)'
  BY <1>1 DEF Made
<1>6. Drawn'
  BY <1>0, <1>4, <1>5 DEF Drawn
<1>7. FilesPinned' /\ JournalCovers'
  BY <1>1 DEF FilesPinned, JournalCovers
<1> QED BY <1>3, <1>6, <1>7 DEF OnDisk

LEMMA DiskRecorded ==
    ASSUME Kept, NEW p \in Managers, lock = p, NEW st \in Stages, op[p].cand # None, journal' = Record(p, st),
           UNCHANGED <<files, masked, child, serial, edits, blind, svc>>, faults' \in Nat,
           config' \in {config, op[p].before, op[p].cand},
           Refs(op[p].before) \subseteq files, Refs(config') \subseteq files,
           edits = 0 => config' \in {op[p].before, op[p].cand}
    PROVE  OnDisk'
<1>1. Shape /\ Made(svc.loaded)
  BY HolderFacts DEF Drawn
<1>2. svc' \in Svc /\ Made(svc.loaded)' /\ child' \in [Managers -> Commands \cup {None}]
  BY <1>1 DEF Shape, Made
<1> QED BY <1>2, DiskRecordedUnits

\* The journal stays or goes; the configuration stays or becomes one side of the operation.
LEMMA DiskUnrecorded ==
    ASSUME Kept, NEW p \in Managers, lock = p, journal' \in {journal, None},
           UNCHANGED <<files, masked, child, serial, edits, blind, svc>>, faults' \in Nat,
           config' \in {config, op[p].before, op[p].cand}, Refs(config') \subseteq files,
           journal' # None /\ edits = 0 => config' \in {journal.before, journal.after}
    PROVE  OnDisk'
<1>0. OnDisk /\ Shape /\ Drawn /\ FilesPinned /\ op[p] \in OpRec /\ DrawnBy(op[p])
  BY HolderFacts
<1>1. op[p].before \in MaybeConfig /\ op[p].cand \in MaybeConfig
  BY <1>0, RecFields
<1>2. Shape'
  BY <1>0, <1>1 DEF Shape
<1>3. Made(config)' /\ Made(svc.loaded)'
  BY <1>0 DEF Made, Drawn, DrawnBy
<1>4. journal' # None => Made(journal.before)' /\ Made(journal.after)'
  BY <1>0 DEF Made, Drawn
<1>5. Drawn'
  BY <1>0, <1>3, <1>4 DEF Drawn
<1>6. FilesPinned' /\ JournalCovers'
  BY <1>0 DEF FilesPinned, JournalCovers
<1> QED BY <1>2, <1>5, <1>6 DEF OnDisk

LEMMA ReadBeforeKept ==
    ASSUME Kept, NEW p \in Managers, ReadBefore(p)
    PROVE  Kept'
<1>0. /\ op \in [Managers -> OpRec] /\ op[p] \in OpRec /\ OnDisk /\ Shape /\ Drawn /\ FilesPinned
      /\ FilesOf(op[p]) /\ DrawnBy(op[p])
      /\ lock = p /\ lock' = p /\ op[p].pc = "read"
      /\ UNCHANGED <<config, journal, files, masked, child, edits, blind, svc, serial>>
  BY HolderFacts DEF ReadBefore, At, Same
<1>1. faults' \in Nat /\ serial \in Nat /\ serial <= serial'
  <2>1. Fault \/ UNCHANGED faults
    BY DEF ReadBefore
  <2> QED BY <1>0, <2>1, Counted
<1>2. OnDisk'
  BY <1>0, <1>1, DiskSame
<1>3. CASE Post(p, FALSE)
  BY <1>0, <1>1, <1>2, <1>3, PostKeeps DEF FilesOf
<1>4. ASSUME Preflight(op[p].cand), journal = None, config = op[p].snap,
             op' = [op EXCEPT ![p].pc = "prepare", ![p].before = config, ![p].snap = None,
                              ![p].ran = {u \in Units : Running(u)}]
      PROVE  Kept'
  <2>1. PICK g \in RanSets : g = {u \in Units : Running(u)}
    BY DEF RanSets
  <2>2. MovedRead(p, "prepare", config, None, g)
    BY <1>4, <2>1 DEF MovedRead
  <2>3. "prepare" \in Pcs /\ config \in MaybeConfig /\ None \in MaybeConfig
    BY <1>0, NoneInSets DEF Pcs, Shape
  <2>4. PICK r \in OpRec : /\ op' = [op EXCEPT ![p] = r]
                           /\ r.pc = "prepare" /\ r.snap = None /\ r.cand = op[p].cand
                           /\ r.file = op[p].file /\ r.before = config
    BY <1>0, <2>2, <2>3, MovedReadRec
  <2>5. DrawnBy(r)'
    BY <1>0, <2>4 DEF DrawnBy, Made, Drawn
  <2>6. Refs(op[p].cand) \subseteq files /\ Refs(config) \subseteq files
    BY <1>0, <1>4 DEF Preflight, DaemonReadable, FilesPinned
  <2>7. op[p].file \notin Refs(config) /\ op[p].cand # None
    BY <1>0, <1>4 DEF FilesOf
  <2>8. FilesOf(r)'
    BY <1>0, <1>4, <2>4, <2>6, <2>7 DEF FilesOf, StepsFit, Early, Late, Undo, Journaled
  <2> QED BY <1>0, <1>1, <1>2, <2>4, <2>5, <2>8, HolderKeeps DEF Waiting
<1> QED BY <1>3, <1>4 DEF ReadBefore

LEMMA PrepareKept ==
    ASSUME Kept, NEW p \in Managers, Prepare(p)
    PROVE  Kept'
<1>0. /\ op \in [Managers -> OpRec] /\ op[p] \in OpRec /\ OnDisk /\ Shape /\ Drawn /\ FilesPinned
      /\ FilesOf(op[p]) /\ DrawnBy(op[p])
      /\ lock = p /\ lock' = p /\ op[p].pc = "prepare"
      /\ UNCHANGED <<config, files, masked, child, edits, blind, svc, serial>>
  BY HolderFacts DEF Prepare, At, Same
<1>1. faults' \in Nat /\ serial \in Nat /\ serial <= serial'
  <2>1. Fault \/ UNCHANGED faults
    BY DEF Prepare
  <2> QED BY <1>0, <2>1, Counted
<1>2. /\ op[p].cand # None /\ journal = None /\ Refs(op[p].before) \subseteq files /\ Refs(op[p].cand) \subseteq files
      /\ (edits = 0 => config = op[p].before) /\ op[p].file \notin Refs(op[p].before) /\ Refs(config) \subseteq files
  BY <1>0 DEF FilesOf, Early, Journaled, FilesPinned
<1>3. /\ Record(p, "prepared") # None /\ Record(p, "prepared").before = op[p].before
      /\ Record(p, "prepared").after = op[p].cand /\ Record(p, "prepared").ran = op[p].ran
  BY <1>0, <1>2, RecordFacts, StageNames
<1>4. ASSUME journal' = Record(p, "prepared") PROVE OnDisk'
  BY <1>0, <1>1, <1>2, <1>4, DiskRecorded, StageNames
<1>5. ASSUME journal' = journal PROVE OnDisk'
  BY <1>0, <1>1, <1>5, DiskSame
<1>6. ASSUME journal' = Record(p, "prepared"), Go(p, "recheck") PROVE Kept'
  <2>1. \A r \in OpRec : /\ r.pc = "recheck" /\ r.cand = op[p].cand
                         /\ r.file = op[p].file /\ r.before = op[p].before /\ r.ran = op[p].ran
                         => FilesOf(r)'
    BY <1>0, <1>2, <1>3, <1>6 DEF FilesOf, StepsFit, Early, Late, Undo, Journaled
  <2>2. "recheck" \in Pcs \ Waiting
    BY DEF Pcs, Waiting
  <2> QED BY <1>0, <1>4, <1>6, <2>1, <2>2, MovesOn
<1>7. ASSUME journal' \in AfterFailedWrite(journal, Record(p, "prepared")), Post(p, FALSE) PROVE Kept'
  <2>1. OnDisk' /\ (journal' # None => op[p].file \notin Refs(journal'.before))
    BY <1>2, <1>3, <1>4, <1>5, <1>7 DEF AfterFailedWrite
  <2> QED BY <1>0, <1>1, <1>7, <2>1, PostKeeps
<1> QED BY <1>6, <1>7 DEF Prepare

LEMMA RecheckKept ==
    ASSUME Kept, NEW p \in Managers, Recheck(p)
    PROVE  Kept'
<1>0. /\ op \in [Managers -> OpRec] /\ op[p] \in OpRec /\ OnDisk /\ Shape /\ Drawn /\ FilesPinned
      /\ FilesOf(op[p]) /\ DrawnBy(op[p])
      /\ lock = p /\ lock' = p /\ op[p].pc = "recheck"
      /\ UNCHANGED <<config, files, masked, child, edits, blind, svc, serial>>
  BY HolderFacts DEF Recheck, At, Same
<1>1. faults' \in Nat /\ serial \in Nat /\ serial <= serial'
  <2>1. Fault \/ UNCHANGED faults
    BY DEF Recheck
  <2> QED BY <1>0, <2>1, Counted
<1>2. journal' \in {journal, None}
  BY DEF Recheck
<1>3. OnDisk'
  BY <1>0, <1>1, <1>2, DiskUnrecorded DEF OnDisk, JournalCovers, FilesPinned
<1>4. ASSUME config = op[p].before, Go(p, "write"), UNCHANGED journal PROVE Kept'
  <2>1. \A r \in OpRec : /\ r.pc = "write" /\ r.cand = op[p].cand
                         /\ r.file = op[p].file /\ r.before = op[p].before /\ r.ran = op[p].ran
                         => FilesOf(r)'
    BY <1>0, <1>4 DEF FilesOf, StepsFit, Early, Late, Undo, Journaled
  <2>2. "write" \in Pcs \ Waiting
    BY DEF Pcs, Waiting
  <2> QED BY <1>0, <1>3, <1>4, <2>1, <2>2, MovesOn
<1>5. ASSUME Post(p, FALSE) PROVE Kept'
  BY <1>0, <1>1, <1>2, <1>3, <1>5, PostKeeps DEF FilesOf
<1> QED BY <1>4, <1>5 DEF Recheck

LEMMA WriteCandidateKept ==
    ASSUME Kept, NEW p \in Managers, WriteCandidate(p)
    PROVE  Kept'
<1>0. /\ op \in [Managers -> OpRec] /\ op[p] \in OpRec /\ OnDisk /\ Shape /\ Drawn /\ FilesPinned
      /\ FilesOf(op[p]) /\ DrawnBy(op[p])
      /\ lock = p /\ lock' = p /\ op[p].pc = "write"
      /\ UNCHANGED <<journal, files, masked, child, edits, blind, svc, serial>>
  BY HolderFacts DEF WriteCandidate, At, Same
<1>1. faults' \in Nat /\ serial \in Nat /\ serial <= serial'
  <2>1. Fault \/ UNCHANGED faults
    BY DEF WriteCandidate
  <2> QED BY <1>0, <2>1, Counted
<1>2. /\ op[p].cand # None /\ journal # None /\ journal.before = op[p].before /\ journal.after = op[p].cand
      /\ journal.ran = op[p].ran /\ Refs(op[p].cand) \subseteq files /\ Refs(config) \subseteq files
      /\ (edits = 0 => config = op[p].before)
      /\ op[p].file \notin Refs(op[p].before) /\ op[p].file \notin Refs(journal.before)
  BY <1>0 DEF FilesOf, Early, Journaled, FilesPinned
<1>3. config' \in {config, op[p].cand}
  BY DEF WriteCandidate, AfterFailedWrite
<1>4. OnDisk'
  BY <1>0, <1>1, <1>2, <1>3, DiskUnrecorded
<1>5. ASSUME config' = op[p].cand, Go(p, "candidate_written") PROVE Kept'
  <2>1. \A r \in OpRec : /\ r.pc = "candidate_written" /\ r.cand = op[p].cand
                         /\ r.file = op[p].file /\ r.before = op[p].before /\ r.ran = op[p].ran
                         => FilesOf(r)'
    BY <1>0, <1>2, <1>5 DEF FilesOf, StepsFit, Early, Late, Undo, Journaled
  <2>2. "candidate_written" \in Pcs \ Waiting
    BY DEF Pcs, Waiting
  <2> QED BY <1>0, <1>4, <1>5, <2>1, <2>2, MovesOn
<1>6. ASSUME Go(p, "failed") PROVE Kept'
  <2>1. \A r \in OpRec : /\ r.pc = "failed" /\ r.cand = op[p].cand
                         /\ r.file = op[p].file /\ r.before = op[p].before /\ r.ran = op[p].ran
                         => FilesOf(r)'
    BY <1>0, <1>2 DEF FilesOf, StepsFit, Early, Late, Undo, Journaled
  <2>2. "failed" \in Pcs \ Waiting
    BY DEF Pcs, Waiting
  <2> QED BY <1>0, <1>4, <1>6, <2>1, <2>2, MovesOn
<1> QED BY <1>5, <1>6 DEF WriteCandidate

\* What the journal of a journaled step says.
LEMMA JournaledFacts ==
    ASSUME Kept, NEW p \in Managers, lock = p, op[p].pc \in Journaled
    PROVE  /\ op[p].cand # None /\ journal # None /\ journal.before = op[p].before /\ journal.after = op[p].cand
           /\ journal.ran = op[p].ran /\ Refs(op[p].before) \subseteq files /\ Refs(config) \subseteq files
           /\ (edits = 0 => config \in {op[p].before, op[p].cand})
           /\ op[p].file \notin Refs(op[p].before) /\ op[p].file \notin Refs(journal.before)
BY HolderFacts DEF FilesOf, FilesPinned, JournalCovers

LEMMA RecordStagesKept ==
    ASSUME Kept, NEW p \in Managers, RecordStages(p)
    PROVE  Kept'
<1>0. /\ op \in [Managers -> OpRec] /\ op[p] \in OpRec /\ OnDisk /\ Shape /\ FilesOf(op[p]) /\ DrawnBy(op[p])
      /\ lock = p /\ lock' = p /\ op[p].pc \in {"candidate_written", "activating"}
      /\ UNCHANGED <<config, files, masked, child, edits, blind, svc, serial>>
  BY HolderFacts DEF RecordStages, At, Same
<1>1. faults' \in Nat /\ serial \in Nat /\ serial <= serial'
  <2>1. Fault \/ UNCHANGED faults
    BY DEF RecordStages
  <2> QED BY <1>0, <2>1, Counted
<1>2. /\ op[p].cand # None /\ journal # None /\ journal.before = op[p].before /\ journal.after = op[p].cand
      /\ journal.ran = op[p].ran /\ Refs(op[p].before) \subseteq files /\ Refs(config) \subseteq files
      /\ (edits = 0 => config = op[p].cand) /\ Refs(config) = Refs(op[p].cand)
      /\ op[p].file \notin Refs(op[p].before) /\ op[p].file \notin Refs(journal.before)
  BY <1>0, JournaledFacts DEF FilesOf, Late, Journaled
<1>3. PICK st \in Stages : st = op[p].pc
  BY <1>0, StageNames
<1>4. /\ Record(p, st) # None /\ Record(p, st).before = op[p].before
      /\ Record(p, st).after = op[p].cand /\ Record(p, st).ran = op[p].ran
  BY <1>0, <1>2, RecordFacts
<1>5. ASSUME journal' = Record(p, st) PROVE OnDisk'
  BY <1>0, <1>1, <1>2, <1>5, DiskRecorded
<1>6. ASSUME journal' = Record(p, op[p].pc), op[p].pc = "candidate_written", op' = [op EXCEPT ![p].pc = "activating"]
      PROVE  Kept'
  <2>1. Go(p, "activating") /\ OnDisk'
    BY <1>3, <1>5, <1>6 DEF Go
  <2>2. \A r \in OpRec : /\ r.pc = "activating" /\ r.cand = op[p].cand
                         /\ r.file = op[p].file /\ r.before = op[p].before /\ r.ran = op[p].ran
                         => FilesOf(r)'
    BY <1>0, <1>2, <1>3, <1>4, <1>6 DEF FilesOf, StepsFit, Early, Late, Undo, Journaled
  <2>3. "activating" \in Pcs \ Waiting
    BY DEF Pcs, Waiting
  <2> QED BY <1>0, <2>1, <2>2, <2>3, MovesOn
<1>7. ASSUME journal' = Record(p, op[p].pc), op' = [op EXCEPT ![p].pc = "apply", ![p].steps = ActivateSteps]
      PROVE  Kept'
  <2>1. MovedSteps(p, "apply", ActivateSteps) /\ OnDisk'
    BY <1>3, <1>5, <1>7 DEF MovedSteps
  <2>2. "apply" \in Pcs /\ ActivateSteps \in StepLists
    BY HeadsAndTails DEF Pcs, StepLists
  <2>3. PICK r \in OpRec : /\ op' = [op EXCEPT ![p] = r]
                           /\ r.pc = "apply" /\ r.snap = op[p].snap /\ r.cand = op[p].cand
                           /\ r.file = op[p].file /\ r.before = op[p].before /\ r.ran = op[p].ran
                           /\ r.steps = ActivateSteps
    BY <1>0, <2>1, <2>2, MovedStepsRec
  <2>4. DrawnBy(r)'
    BY <1>0, <2>3 DEF DrawnBy, Made
  <2>5. StepsFit(r)
    BY <2>3, HeadsAndTails DEF StepsFit, ApplyLists
  <2>6. FilesOf(r)'
    BY <1>0, <1>2, <1>3, <1>4, <1>7, <2>3, <2>5 DEF FilesOf, Early, Late, Undo, Journaled
  <2> QED BY <1>0, <1>1, <2>1, <2>3, <2>4, <2>6, HolderKeeps DEF Waiting
<1>8. ASSUME Go(p, "failed"), UNCHANGED journal PROVE Kept'
  <2>1. \A r \in OpRec : /\ r.pc = "failed" /\ r.cand = op[p].cand
                         /\ r.file = op[p].file /\ r.before = op[p].before /\ r.ran = op[p].ran
                         => FilesOf(r)'
    BY <1>0, <1>2, <1>8 DEF FilesOf, StepsFit, Early, Late, Undo, Journaled
  <2>2. "failed" \in Pcs \ Waiting /\ OnDisk'
    BY <1>0, <1>1, <1>8, DiskSame DEF Pcs, Waiting
  <2> QED BY <1>0, <1>8, <2>1, <2>2, MovesOn
<1> QED BY <1>0, <1>6, <1>7, <1>8 DEF RecordStages

LEMMA CommitKept ==
    ASSUME Kept, NEW p \in Managers, Commit(p)
    PROVE  Kept'
<1>0. /\ OnDisk /\ Shape /\ FilesOf(op[p])
      /\ lock = p /\ lock' = p /\ op[p].pc = "commit"
      /\ UNCHANGED <<config, files, masked, child, edits, blind, svc, serial>>
  BY HolderFacts DEF Commit, At, Same
<1>1. faults' \in Nat /\ serial \in Nat /\ serial <= serial'
  <2>1. Fault \/ UNCHANGED faults
    BY DEF Commit
  <2> QED BY <1>0, <2>1, Counted
<1>2. journal' \in {journal, None}
  BY DEF Commit, AfterFailedRemove
<1>3. OnDisk'
  BY <1>0, <1>1, <1>2, DiskUnrecorded DEF OnDisk, JournalCovers, FilesPinned
<1>4. Refs(config') \subseteq Refs(op[p].cand) /\ (journal' # None => op[p].file \notin Refs(journal'.before))
  BY <1>0, <1>2 DEF FilesOf, Late
<1>5. CASE Post(p, TRUE)
  BY <1>0, <1>1, <1>3, <1>4, <1>5, PostKeeps
<1>6. CASE Post(p, FALSE)
  BY <1>0, <1>1, <1>3, <1>4, <1>6, PostKeeps
<1> QED BY <1>5, <1>6 DEF Commit

LEMMA ApplyFailedKept ==
    ASSUME Kept, NEW p \in Managers, ApplyFailed(p)
    PROVE  Kept'
<1>0. /\ OnDisk /\ Shape /\ FilesOf(op[p])
      /\ lock = p /\ lock' = p /\ op[p].pc = "failed" /\ op[p].pc \in Journaled /\ Go(p, "rollback")
      /\ UNCHANGED <<config, files, masked, child, edits, blind, svc, serial>>
  BY HolderFacts DEF ApplyFailed, At, Same, Journaled, Undo
<1>1. faults' \in Nat /\ serial \in Nat /\ serial <= serial'
  <2>1. Fault \/ UNCHANGED faults
    BY DEF ApplyFailed
  <2> QED BY <1>0, <2>1, Counted
<1>2. /\ op[p].cand # None /\ journal # None /\ journal.before = op[p].before /\ journal.after = op[p].cand
      /\ journal.ran = op[p].ran /\ Refs(op[p].before) \subseteq files /\ Refs(config) \subseteq files
      /\ (edits = 0 => config \in {op[p].before, op[p].cand})
      /\ op[p].file \notin Refs(op[p].before) /\ op[p].file \notin Refs(journal.before)
  BY <1>0, JournaledFacts
<1>3. /\ Record(p, "failed") # None /\ Record(p, "failed").before = op[p].before
      /\ Record(p, "failed").after = op[p].cand /\ Record(p, "failed").ran = op[p].ran
  BY <1>0, <1>2, RecordFacts, StageNames
<1>4. journal' \in {journal, Record(p, "failed")}
  BY DEF ApplyFailed
<1>5. OnDisk'
  <2>1. CASE journal' = journal
    BY <1>0, <1>1, <2>1, DiskSame
  <2>2. CASE journal' = Record(p, "failed")
    BY <1>0, <1>1, <1>2, <2>2, DiskRecorded, StageNames
  <2> QED BY <1>4, <2>1, <2>2
<1>6. \A r \in OpRec : /\ r.pc = "rollback" /\ r.cand = op[p].cand
                       /\ r.file = op[p].file /\ r.before = op[p].before /\ r.ran = op[p].ran
                       => FilesOf(r)'
  BY <1>2, <1>3, <1>4 DEF FilesOf, StepsFit, Early, Late, Undo, Journaled
<1>7. "rollback" \in Pcs \ Waiting
  BY DEF Pcs, Waiting
<1> QED BY <1>0, <1>5, <1>6, <1>7, MovesOn

LEMMA RollbackCheckKept ==
    ASSUME Kept, NEW p \in Managers, RollbackCheck(p)
    PROVE  Kept'
<1>0. /\ OnDisk /\ Shape /\ FilesOf(op[p])
      /\ lock = p /\ lock' = p /\ op[p].pc = "rollback" /\ op[p].pc \in Journaled
      /\ UNCHANGED <<config, files, masked, child, edits, blind, svc, serial>>
  BY HolderFacts DEF RollbackCheck, At, Same, Journaled, Undo
<1>1. faults' \in Nat /\ serial \in Nat /\ serial <= serial'
  <2>1. Fault \/ UNCHANGED faults
    BY DEF RollbackCheck
  <2> QED BY <1>0, <2>1, Counted
<1>2. /\ op[p].cand # None /\ journal # None /\ journal.before = op[p].before /\ journal.after = op[p].cand
      /\ journal.ran = op[p].ran /\ Refs(op[p].before) \subseteq files /\ Refs(config) \subseteq files
      /\ (edits = 0 => config \in {op[p].before, op[p].cand})
      /\ op[p].file \notin Refs(op[p].before) /\ op[p].file \notin Refs(journal.before)
  BY <1>0, JournaledFacts
<1>3. /\ Record(p, "recovering") # None /\ Record(p, "recovering").before = op[p].before
      /\ Record(p, "recovering").after = op[p].cand /\ Record(p, "recovering").ran = op[p].ran
  BY <1>0, <1>2, RecordFacts, StageNames
<1>4. ASSUME MayRestore(p), journal' = Record(p, "recovering"), Go(p, "restore") PROVE Kept'
  <2>1. OnDisk'
    BY <1>0, <1>1, <1>2, <1>4, DiskRecorded, StageNames
  <2>2. config \in {op[p].before, op[p].cand}
    BY <1>4 DEF MayRestore
  <2>3. \A r \in OpRec : /\ r.pc = "restore" /\ r.cand = op[p].cand
                         /\ r.file = op[p].file /\ r.before = op[p].before /\ r.ran = op[p].ran
                         => FilesOf(r)'
    BY <1>0, <1>2, <1>3, <1>4, <2>2 DEF FilesOf, StepsFit, Early, Late, Undo, Journaled
  <2>4. "restore" \in Pcs \ Waiting
    BY DEF Pcs, Waiting
  <2> QED BY <1>0, <1>4, <2>1, <2>3, <2>4, MovesOn
<1>5. ASSUME Post(p, FALSE), UNCHANGED journal PROVE Kept'
  <2>1. OnDisk'
    BY <1>0, <1>1, <1>5, DiskSame
  <2> QED BY <1>0, <1>1, <1>2, <1>5, <2>1, PostKeeps
<1> QED BY <1>4, <1>5 DEF RollbackCheck

LEMMA RestoreConfigKept ==
    ASSUME Kept, NEW p \in Managers, RestoreConfig(p)
    PROVE  Kept'
<1>0. /\ op \in [Managers -> OpRec] /\ OnDisk /\ Shape /\ FilesOf(op[p]) /\ DrawnBy(op[p])
      /\ lock = p /\ lock' = p /\ op[p].pc = "restore" /\ op[p].pc \in Journaled
      /\ UNCHANGED <<files, masked, child, edits, blind, svc, serial>>
  BY HolderFacts DEF RestoreConfig, At, Same, Journaled, Undo
<1>1. faults' \in Nat /\ serial \in Nat /\ serial <= serial'
  <2>1. Fault \/ UNCHANGED faults
    BY DEF RestoreConfig
  <2> QED BY <1>0, <2>1, Counted
<1>2. /\ op[p].cand # None /\ journal # None /\ journal.before = op[p].before /\ journal.after = op[p].cand
      /\ journal.ran = op[p].ran /\ Refs(op[p].before) \subseteq files /\ Refs(config) \subseteq files
      /\ (edits = 0 => config \in {op[p].before, op[p].cand})
      /\ op[p].file \notin Refs(op[p].before) /\ op[p].file \notin Refs(journal.before)
  BY <1>0, JournaledFacts
<1>3. PICK st \in Stages : journal' \in {journal, Record(p, st)} /\ (config' # op[p].before \/ Post(p, FALSE) \/ st = "config_restored")
  BY StageNames DEF RestoreConfig
<1>4. /\ Record(p, st) # None /\ Record(p, st).before = op[p].before
      /\ Record(p, st).after = op[p].cand /\ Record(p, st).ran = op[p].ran
  BY <1>0, <1>2, RecordFacts
<1>5. config' \in {config, op[p].before} /\ (edits = 0 => config' \in {op[p].before, op[p].cand}) /\ Refs(config') \subseteq files
  BY <1>2 DEF RestoreConfig, AfterFailedWrite
<1>6. OnDisk'
  <2>1. CASE journal' = journal
    BY <1>0, <1>1, <1>2, <1>5, <2>1, DiskUnrecorded
  <2>2. CASE journal' = Record(p, st)
    BY <1>0, <1>1, <1>2, <1>5, <2>2, DiskRecorded
  <2> QED BY <1>3, <2>1, <2>2
<1>7. ASSUME config' = op[p].before, op' = [op EXCEPT ![p].pc = "restoring", ![p].steps = RestoreSteps] PROVE Kept'
  <2>1. MovedSteps(p, "restoring", RestoreSteps)
    BY <1>7 DEF MovedSteps
  <2>2. "restoring" \in Pcs /\ RestoreSteps \in StepLists
    BY HeadsAndTails DEF Pcs, StepLists
  <2>3. PICK r \in OpRec : /\ op' = [op EXCEPT ![p] = r]
                           /\ r.pc = "restoring" /\ r.snap = op[p].snap /\ r.cand = op[p].cand
                           /\ r.file = op[p].file /\ r.before = op[p].before /\ r.ran = op[p].ran
                           /\ r.steps = RestoreSteps
    BY <1>0, <2>1, <2>2, MovedStepsRec
  <2>4. DrawnBy(r)'
    BY <1>0, <2>3 DEF DrawnBy, Made
  <2>5. StepsFit(r)
    BY <2>3, HeadsAndTails DEF StepsFit, RestoreLists
  <2>6. FilesOf(r)'
    BY <1>0, <1>2, <1>3, <1>4, <1>7, <2>3, <2>5 DEF FilesOf, Early, Late, Undo, Journaled
  <2> QED BY <1>0, <1>1, <1>6, <2>3, <2>4, <2>6, HolderKeeps DEF Waiting
<1>8. ASSUME Post(p, FALSE) PROVE Kept'
  BY <1>0, <1>1, <1>2, <1>3, <1>4, <1>6, <1>8, PostKeeps
<1> QED BY <1>7, <1>8 DEF RestoreConfig

LEMMA RestoredKept ==
    ASSUME Kept, NEW p \in Managers, Restored(p)
    PROVE  Kept'
<1>0. /\ OnDisk /\ Shape /\ FilesOf(op[p])
      /\ lock = p /\ lock' = p /\ op[p].pc = "restored" /\ op[p].pc \in Journaled
      /\ UNCHANGED <<config, files, masked, child, edits, blind, svc, serial>>
  BY HolderFacts DEF Restored, At, Same, Journaled, Undo
<1>1. faults' \in Nat /\ serial \in Nat /\ serial <= serial'
  <2>1. Fault \/ UNCHANGED faults
    BY DEF Restored
  <2> QED BY <1>0, <2>1, Counted
<1>2. /\ op[p].cand # None /\ journal # None /\ journal.before = op[p].before /\ journal.after = op[p].cand
      /\ journal.ran = op[p].ran /\ Refs(op[p].before) \subseteq files /\ Refs(config) \subseteq files
      /\ (edits = 0 => config \in {op[p].before, op[p].cand})
      /\ op[p].file \notin Refs(op[p].before) /\ op[p].file \notin Refs(journal.before)
  BY <1>0, JournaledFacts
<1>3. /\ Record(p, "services_restored") # None /\ Record(p, "services_restored").before = op[p].before
      /\ Record(p, "services_restored").after = op[p].cand /\ Record(p, "services_restored").ran = op[p].ran
  BY <1>0, <1>2, RecordFacts, StageNames
<1>4. journal' \in {journal, None, Record(p, "services_restored")}
  BY DEF Restored, AfterFailedRemove
<1>5. OnDisk'
  <2>1. CASE journal' \in {journal, None}
    BY <1>0, <1>1, <1>2, <2>1, DiskUnrecorded
  <2>2. CASE journal' = Record(p, "services_restored")
    BY <1>0, <1>1, <1>2, <2>2, DiskRecorded, StageNames
  <2> QED BY <1>4, <2>1, <2>2
<1>6. journal' # None => op[p].file \notin Refs(journal'.before)
  BY <1>2, <1>3, <1>4
<1>7. PICK b \in BOOLEAN : Post(p, b) /\ (b => op[p].kind = "recover")
  <2>1. CASE Post(p, op[p].kind = "recover")
    <3>1. PICK b \in BOOLEAN : b = (op[p].kind = "recover")
      OBVIOUS
    <3> QED BY <2>1, <3>1
  <2>2. CASE Post(p, FALSE)
    BY <2>2
  <2> QED BY <2>1, <2>2 DEF Restored
<1> QED BY <1>0, <1>1, <1>5, <1>6, <1>7, PostKeeps

-----------------------------------------------------------------------------
(* Service steps, finishing, and what happens around.                      *)

LEMMA TailIsList ==
    ASSUME NEW s \in StepLists, s # <<>>
    PROVE  Tail(s) \in StepLists
BY HeadsAndTails DEF StepLists

LEMMA StepDoneRec ==
    ASSUME op \in [Managers -> OpRec], NEW p \in Managers, op[p].steps # <<>>, op' = StepDone(p)
    PROVE  \E r \in OpRec : /\ op' = [op EXCEPT ![p] = r] /\ r.steps = Tail(op[p].steps)
                            /\ r.pc = IF Tail(op[p].steps) # <<>> THEN op[p].pc
                                      ELSE CASE op[p].pc = "apply" -> "commit" [] op[p].pc = "restoring" -> "restored" [] OTHER -> "post"
                            /\ r.kind = op[p].kind /\ r.snap = op[p].snap /\ r.cand = op[p].cand /\ r.file = op[p].file
                            /\ r.before = op[p].before /\ r.ran = op[p].ran
                            /\ r.ok => op[p].pc = "service"
<1>0. op[p] \in OpRec /\ op[p].pc \in Pcs /\ op[p].steps \in StepLists
  BY RecFields
<1>1. PICK t \in StepLists : t = Tail(op[p].steps)
  BY <1>0, TailIsList
<1>2. PICK x \in Pcs : x = IF t # <<>> THEN op[p].pc
                           ELSE CASE op[p].pc = "apply" -> "commit" [] op[p].pc = "restoring" -> "restored" [] OTHER -> "post"
  BY <1>0 DEF Pcs
<1>3. PICK o \in BOOLEAN : o = (t = <<>> /\ op[p].pc = "service")
  OBVIOUS
<1>4. PICK f \in BOOLEAN : f = FALSE
  OBVIOUS
<1>5. MovedDone(p, t, f, x, o)
  BY <1>1, <1>2, <1>3, <1>4 DEF StepDone, MovedDone
<1>6. PICK r \in OpRec : /\ op' = [op EXCEPT ![p] = r] /\ r.steps = t /\ r.pc = x
                         /\ r.kind = op[p].kind /\ r.snap = op[p].snap /\ r.cand = op[p].cand /\ r.file = op[p].file
                         /\ r.before = op[p].before /\ r.ran = op[p].ran /\ r.ok = o
  BY <1>5, MovedDoneRec
<1> QED BY <1>1, <1>2, <1>3, <1>6

LEMMA StepDoneKeeps ==
    ASSUME Kept, NEW p \in Managers, lock = p, lock' = p, op[p].steps # <<>>, op' = StepDone(p),
           OnDisk', UNCHANGED <<config, journal, files, edits, blind, serial>>
    PROVE  Kept'
<1>0. op \in [Managers -> OpRec] /\ op[p] \in OpRec /\ DrawnBy(op[p]) /\ FilesOf(op[p]) /\ serial \in Nat /\ serial <= serial'
  BY HolderFacts DEF Shape
<1>1. PICK r \in OpRec : /\ op' = [op EXCEPT ![p] = r] /\ r.steps = Tail(op[p].steps)
                         /\ r.pc = IF Tail(op[p].steps) # <<>> THEN op[p].pc
                                   ELSE CASE op[p].pc = "apply" -> "commit" [] op[p].pc = "restoring" -> "restored" [] OTHER -> "post"
                         /\ r.kind = op[p].kind /\ r.snap = op[p].snap /\ r.cand = op[p].cand /\ r.file = op[p].file
                         /\ r.before = op[p].before /\ r.ran = op[p].ran
                         /\ r.ok => op[p].pc = "service"
  BY <1>0, StepDoneRec
<1>2. DrawnBy(r)'
  BY <1>0, <1>1 DEF DrawnBy, Made
<1>3. r.pc \notin Waiting
  BY <1>1, HolderFacts DEF Waiting
<1>4. StepsFit(op[p])
  BY <1>0 DEF FilesOf
<1>5. StepsFit(r)
  <2>1. CASE Tail(op[p].steps) # <<>>
    <3>1. r.pc = op[p].pc
      BY <1>1, <2>1
    <3>2. r.pc = "apply" => r.steps \in ApplyLists
      BY ZenonT(40), <1>1, <1>4, <2>1, <3>1, HeadsAndTails DEF StepsFit, ApplyLists
    <3>3. r.pc = "restoring" => r.steps \in RestoreLists
      BY ZenonT(40), <1>1, <1>4, <2>1, <3>1, HeadsAndTails DEF StepsFit, RestoreLists
    <3>4. r.pc = "service" => /\ r.kind = "stop" => r.steps \in StopLists
                              /\ r.kind = "restart" => r.steps \in ApplyLists
                              /\ r.kind = "start" => r.steps \in StartLists
      <4>1. ASSUME r.pc = "service", r.kind = "stop" PROVE r.steps \in StopLists
        BY <1>1, <1>4, <2>1, <3>1, <4>1, HeadsAndTails DEF StepsFit, StopLists
      <4>2. ASSUME r.pc = "service", r.kind = "restart" PROVE r.steps \in ApplyLists
        BY ZenonT(40), <1>1, <1>4, <2>1, <3>1, <4>2, HeadsAndTails DEF StepsFit, ApplyLists
      <4>3. ASSUME r.pc = "service", r.kind = "start" PROVE r.steps \in StartLists
        BY ZenonT(40), <1>1, <1>4, <2>1, <3>1, <4>3, HeadsAndTails DEF StepsFit, StartLists
      <4> QED BY <4>1, <4>2, <4>3
    <3> QED BY <3>2, <3>3, <3>4 DEF StepsFit
  <2>2. CASE Tail(op[p].steps) = <<>>
    BY <1>1, <2>2 DEF StepsFit
  <2> QED BY <2>1, <2>2
<1>6. FilesOf(r)'
  <2>1. CASE r.pc = op[p].pc
    BY <1>0, <1>1, <1>5, <2>1 DEF FilesOf, Early, Late, Undo, Journaled
  <2>2. CASE op[p].pc = "apply" /\ r.pc = "commit"
    BY <1>0, <1>1, <1>5, <2>2 DEF FilesOf, Early, Late, Undo, Journaled
  <2>3. CASE op[p].pc = "restoring" /\ r.pc = "restored"
    BY <1>0, <1>1, <1>5, <2>3 DEF FilesOf, Early, Late, Undo, Journaled
  <2>4. CASE r.pc = "post"
    BY <1>0, <1>1, <1>5, <2>4 DEF FilesOf, Early, Late, Undo, Journaled
  <2> QED BY <1>1, <2>1, <2>2, <2>3, <2>4
<1> QED BY <1>0, <1>1, <1>2, <1>3, <1>6, HolderKeeps

\* Steps that touch only the units.
LEMMA DiskUnits ==
    ASSUME OnDisk, UNCHANGED <<config, journal, files, masked, serial, edits, blind>>, faults' \in Nat,
           svc' \in Svc, Made(svc.loaded)', child' \in [Managers -> Commands \cup {None}]
    PROVE  OnDisk'
BY DEF OnDisk, Shape, Drawn, FilesPinned, JournalCovers, Made

LEMMA StepFailsKeeps ==
    ASSUME Kept, NEW p \in Managers, lock = p, lock' = p, StepFails(p),
           UNCHANGED <<config, files, masked, serial, edits, blind>>, faults' \in Nat,
           svc' \in Svc, Made(svc.loaded)', child' \in [Managers -> Commands \cup {None}]
    PROVE  Kept'
<1>0. op \in [Managers -> OpRec] /\ op[p] \in OpRec /\ OnDisk /\ DrawnBy(op[p]) /\ FilesOf(op[p]) /\ serial \in Nat /\ serial <= serial'
  BY HolderFacts DEF Shape
<1>1. ASSUME UNCHANGED journal PROVE OnDisk'
  BY <1>0, <1>1, DiskUnits
<1>2. ASSUME op[p].pc = "apply", UNCHANGED journal,
             op' = [op EXCEPT ![p].pc = "failed", ![p].steps = <<>>, ![p].retried = FALSE]
      PROVE  Kept'
  <2>1. PICK f \in BOOLEAN : f = FALSE
    OBVIOUS
  <2>2. "failed" \in Pcs /\ <<>> \in StepLists
    BY DEF Pcs, StepLists
  <2>3. PICK s \in StepLists : s = <<>>
    BY <2>2
  <2>4. MovedFailed(p, "failed", s, f)
    BY <1>2, <2>1, <2>3 DEF MovedFailed
  <2>5. PICK r \in OpRec : /\ op' = [op EXCEPT ![p] = r]
                           /\ r.pc = "failed" /\ r.snap = op[p].snap /\ r.cand = op[p].cand
                           /\ r.file = op[p].file /\ r.before = op[p].before /\ r.ran = op[p].ran
    BY <1>0, <2>2, <2>4, MovedFailedRec
  <2>6. DrawnBy(r)'
    BY <1>0, <2>5 DEF DrawnBy, Made
  <2>7. FilesOf(r)'
    BY <1>0, <1>2, <2>5 DEF FilesOf, StepsFit, Early, Late, Undo, Journaled
  <2> QED BY <1>0, <1>1, <1>2, <2>5, <2>6, <2>7, HolderKeeps DEF Waiting
<1>3. ASSUME op[p].pc = "restoring", journal' = Record(p, "failed"), Post(p, FALSE) PROVE Kept'
  <2>1. op[p].pc \in Journaled
    BY <1>3 DEF Journaled, Undo
  <2>2. /\ op[p].cand # None /\ Refs(op[p].before) \subseteq files /\ Refs(config) \subseteq files
        /\ (edits = 0 => config \in {op[p].before, op[p].cand}) /\ op[p].file \notin Refs(op[p].before)
    BY <2>1, JournaledFacts
  <2>3. OnDisk'
    BY <1>3, <2>2, DiskRecordedUnits, StageNames
  <2>4. Record(p, "failed").before = op[p].before
    BY <2>2, RecordFacts, StageNames
  <2> QED BY <1>0, <1>3, <2>2, <2>3, <2>4, PostKeeps
<1>4. ASSUME Post(p, FALSE), UNCHANGED journal PROVE Kept'
  BY <1>0, <1>1, <1>4, PostKeeps DEF FilesOf
<1> QED BY <1>2, <1>3, <1>4 DEF StepFails

LEMMA SvcFields ==
    ASSUME NEW v \in Svc
    PROVE  /\ v.daemon \in UnitStates /\ v.sensor \in UnitStates /\ v.loaded \in MaybeConfig
           /\ v["daemon"] = v.daemon /\ v["sensor"] = v.sensor
BY DEF Svc

\* What a command can do to the units.
LEMMA EffectFacts ==
    ASSUME Shape, NEW cmd \in Commands
    PROVE  /\ Effect(cmd) \in Svc
           /\ Effect(cmd).loaded \in {svc.loaded, None, config}
           /\ cmd[2] = "sensor" => /\ Effect(cmd).daemon = svc.daemon /\ Effect(cmd).loaded = svc.loaded
                                   /\ cmd[1] = "stop" => Effect(cmd).sensor = "inactive"
                                   /\ Effect(cmd).sensor \in {"inactive", "active", "failed"}
                                   /\ Effect(cmd)[cmd[2]] = Effect(cmd).sensor
           /\ cmd[2] = "daemon" => /\ Effect(cmd).sensor = svc.sensor
                                   /\ cmd[1] = "stop" => Effect(cmd).daemon = "inactive"
                                   /\ cmd[1] = "restart" /\ Effect(cmd).daemon = "active" => Effect(cmd).loaded = config
                                   /\ cmd[1] = "start" /\ Effect(cmd).daemon = "active" =>
                                        Effect(cmd).loaded = config \/ Effect(cmd) = svc
                                   /\ Effect(cmd).daemon \in {"inactive", "active", "failed"}
                                   /\ Effect(cmd)[cmd[2]] = Effect(cmd).daemon
<1>0. svc \in Svc /\ config \in MaybeConfig /\ None \in MaybeConfig
  BY NoneInSets DEF Shape
<1>1. cmd[1] \in {"stop", "start", "restart"} /\ cmd[2] \in {"daemon", "sensor"}
  BY DEF Commands, Units
<1> DEFINE e == Effect(cmd)
<1>2. ASSUME cmd[2] = "sensor", cmd[1] = "stop"
      PROVE  e \in Svc /\ e.loaded = svc.loaded /\ e.daemon = svc.daemon /\ e.sensor = "inactive" /\ e["sensor"] = e.sensor
  BY <1>0, <1>2 DEF Effect, Svc, UnitStates
<1>3. ASSUME cmd[2] = "sensor", cmd[1] # "stop"
      PROVE  e \in Svc /\ e.loaded = svc.loaded /\ e.daemon = svc.daemon /\ e.sensor \in {"active", "failed"} /\ e["sensor"] = e.sensor
  BY <1>0, <1>1, <1>3 DEF Effect, Svc, UnitStates
<1>4. ASSUME cmd[2] = "daemon", cmd[1] = "stop"
      PROVE  e \in Svc /\ e.loaded = None /\ e.daemon = "inactive" /\ e.sensor = svc.sensor /\ e["daemon"] = e.daemon
  BY <1>0, <1>4 DEF Effect, Svc, UnitStates
<1>5. ASSUME cmd[2] = "daemon", cmd[1] = "restart"
      PROVE  /\ e \in Svc /\ e.loaded \in {config, None} /\ e.daemon \in {"active", "failed"} /\ e.sensor = svc.sensor
             /\ e.daemon = "active" => e.loaded = config
             /\ e["daemon"] = e.daemon
  BY <1>0, <1>5 DEF Effect, Svc, UnitStates
<1>6. ASSUME cmd[2] = "daemon", cmd[1] = "start"
      PROVE  /\ e \in Svc /\ e.loaded \in {config, None, svc.loaded} /\ e.daemon \in {"active", "failed"} /\ e.sensor = svc.sensor
             /\ e.daemon = "active" => e.loaded = config \/ e = svc
             /\ e["daemon"] = e.daemon
  <2>1. CASE svc["daemon"] = "active"
    <3>1. e = svc
      BY <1>6, <2>1 DEF Effect
    <3> QED BY <1>0, <2>1, <3>1, SvcFields
  <2>2. CASE svc["daemon"] # "active"
    BY <1>0, <1>6, <2>2 DEF Effect, Svc, UnitStates
  <2> QED BY <2>1, <2>2
<1> HIDE DEF e
<1> QED BY <1>1, <1>2, <1>3, <1>4, <1>5, <1>6 DEF e

LEMMA CommandTyped ==
    ASSUME NEW p, NEW step
    PROVE  CommandOf(p, step) \in Commands \cup {None}
<1>1. /\ <<"stop", "sensor">> \in Commands /\ <<"stop", "daemon">> \in Commands /\ <<"restart", "daemon">> \in Commands
      /\ <<"start", "daemon">> \in Commands /\ <<"start", "sensor">> \in Commands
  BY DEF Commands, Units
<1> QED BY <1>1 DEF CommandOf

LEMMA IssueKept ==
    ASSUME Kept, NEW p \in Managers, Issue(p)
    PROVE  Kept'
<1>0. /\ op \in [Managers -> OpRec] /\ op[p] \in OpRec /\ OnDisk /\ Shape /\ Drawn /\ FilesOf(op[p])
      /\ lock = p /\ lock' = p /\ op[p].pc \in {"apply", "restoring", "service"}
      /\ UNCHANGED <<config, files, masked, edits, blind, svc, serial>>
  BY HolderFacts DEF Issue, At, Same, ServicePhase
<1>1. faults' \in Nat /\ serial \in Nat /\ serial <= serial'
  <2>1. Fault \/ UNCHANGED faults
    BY DEF Issue
  <2> QED BY <1>0, <2>1, Counted
<1>2. svc' \in Svc /\ Made(svc.loaded)' /\ child \in [Managers -> Commands \cup {None}]
  BY <1>0 DEF Shape, Drawn, Made
<1>3. op[p].steps # <<>>
  <2>1. op[p].steps \in ApplyLists \cup RestoreLists \cup StopLists \cup StartLists
    BY <1>0 DEF FilesOf, StepsFit
  <2> QED BY <2>1, ListsNotEmpty
<1>4. ASSUME NEW step, child' = [child EXCEPT ![p] = CommandOf(p, step)], UNCHANGED <<op, journal>> PROVE Kept'
  <2>1. child' \in [Managers -> Commands \cup {None}]
    BY <1>2, <1>4, CommandTyped
  <2>2. OnDisk'
    BY <1>0, <1>1, <1>2, <1>4, <2>1, DiskUnits
  <2>3. ASSUME NEW q \in Managers, lock = q PROVE FilesOf(op[q])'
    <3>1. FilesOf(op[q])
      BY <2>3, HolderFacts
    <3> QED BY <1>0, <1>4, <3>1 DEF FilesOf
  <2> QED BY <1>0, <1>1, <1>4, <2>2, <2>3, NobodyMoves
<1>5. ASSUME op' = StepDone(p), UNCHANGED <<child, journal>> PROVE Kept'
  <2>1. OnDisk'
    BY <1>0, <1>1, <1>2, <1>5, DiskUnits
  <2> QED BY <1>0, <1>3, <1>5, <2>1, StepDoneKeeps
<1>6. ASSUME StepFails(p), UNCHANGED child PROVE Kept'
  BY <1>0, <1>1, <1>2, <1>6, StepFailsKeeps
<1> QED BY <1>4, <1>5, <1>6 DEF Issue

LEMMA ChildEndsKept ==
    ASSUME Kept, NEW p \in Managers, ChildEnds(p)
    PROVE  Kept'
<1>0. /\ op \in [Managers -> OpRec] /\ OnDisk /\ Shape /\ Drawn /\ lock' = lock
      /\ UNCHANGED <<config, files, masked, edits, blind, serial>>
  BY FreeFacts DEF ChildEnds, Same
<1>1. faults' \in Nat /\ serial \in Nat /\ serial <= serial'
  <2>1. Fault \/ UNCHANGED faults
    BY DEF ChildEnds, StartLimited
  <2> QED BY <1>0, <2>1, Counted
<1>2. PICK cmd \in Commands : cmd = child[p]
  BY <1>0 DEF ChildEnds, Shape
<1>3. child' \in [Managers -> Commands \cup {None}]
  BY <1>0 DEF ChildEnds, Shape
<1>4. svc' \in Svc /\ Made(svc.loaded)'
  <2>1. PICK u \in Units : u = cmd[2]
    BY <1>2 DEF Commands
  <2>2. svc' \in {svc, Effect(cmd), [svc EXCEPT ![u] = "failed", !.loaded = IF u = "daemon" THEN None ELSE @]}
    BY <1>2, <2>1 DEF ChildEnds, StartLimited
  <2>3. PICK v : v = [svc EXCEPT ![u] = "failed", !.loaded = IF u = "daemon" THEN None ELSE @]
    OBVIOUS
  <2>4. v \in Svc /\ v.loaded \in {svc.loaded, None}
    <3>1. svc \in Svc /\ None \in MaybeConfig /\ u \in {"daemon", "sensor"}
      BY <1>0, NoneInSets DEF Shape, Units
    <3> QED BY <2>3, <3>1 DEF Svc, UnitStates
  <2>5. Effect(cmd) \in Svc /\ Effect(cmd).loaded \in {svc.loaded, None, config}
    BY <1>0, EffectFacts
  <2>6. svc' \in Svc /\ svc'.loaded \in {svc.loaded, None, config}
    BY <1>0, <2>2, <2>3, <2>4, <2>5 DEF Shape
  <2> QED BY <1>0, <2>6 DEF Made, Drawn
<1>5. ASSUME UNCHANGED <<op, journal>> PROVE Kept'
  <2>1. OnDisk'
    BY <1>0, <1>1, <1>3, <1>4, <1>5, DiskUnits
  <2>2. ASSUME NEW q \in Managers, lock = q PROVE FilesOf(op[q])'
    <3>1. FilesOf(op[q])
      BY <2>2, HolderFacts
    <3> QED BY <1>0, <1>5, <3>1 DEF FilesOf
  <2> QED BY <1>0, <1>1, <1>5, <2>1, <2>2, NobodyMoves
<1>6. ASSUME Survives(p), StepFails(p) PROVE Kept'
  <2>1. lock = p
    BY <1>6 DEF Survives
  <2> QED BY <1>0, <1>1, <1>3, <1>4, <1>6, <2>1, StepFailsKeeps
<1>7. ASSUME Survives(p), op' = StepDone(p), UNCHANGED journal PROVE Kept'
  <2>1. lock = p /\ op[p].steps # <<>>
    BY <1>7 DEF Survives
  <2>2. OnDisk'
    BY <1>0, <1>1, <1>3, <1>4, <1>7, DiskUnits
  <2> QED BY <1>0, <1>7, <2>1, <2>2, StepDoneKeeps
<1>8. ASSUME Survives(p), op' = [op EXCEPT ![p].retried = TRUE], UNCHANGED journal PROVE Kept'
  <2>1. lock = p
    BY <1>8 DEF Survives
  <2>2. OnDisk' /\ op[p] \in OpRec /\ FilesOf(op[p]) /\ DrawnBy(op[p]) /\ op[p].pc \notin Waiting
    BY <1>0, <1>1, <1>3, <1>4, <1>8, <2>1, DiskUnits, HolderFacts
  <2>3. PICK t \in BOOLEAN : t = TRUE
    OBVIOUS
  <2>4. Retried(p, t)
    BY <1>8, <2>3 DEF Retried
  <2>5. PICK r \in OpRec : /\ op' = [op EXCEPT ![p] = r]
                           /\ r.pc = op[p].pc /\ r.kind = op[p].kind /\ r.snap = op[p].snap /\ r.cand = op[p].cand
                           /\ r.file = op[p].file /\ r.before = op[p].before /\ r.ran = op[p].ran
                           /\ r.steps = op[p].steps /\ r.ok = op[p].ok
    BY <1>0, <2>4, RetriedRec
  <2>6. DrawnBy(r)'
    BY <1>0, <2>2, <2>5 DEF DrawnBy, Made
  <2>7. FilesOf(r)'
    BY <1>0, <1>8, <2>2, <2>5 DEF FilesOf, StepsFit
  <2> QED BY <1>0, <1>1, <2>1, <2>2, <2>5, <2>6, <2>7, HolderKeeps
<1> QED BY <1>2, <1>5, <1>6, <1>7, <1>8 DEF ChildEnds, StartLimited

LEMMA FinishKept ==
    ASSUME Kept, NEW p \in Managers, Finish(p)
    PROVE  Kept'
<1>0. /\ op \in [Managers -> OpRec] /\ op[p] \in OpRec /\ OnDisk /\ Shape /\ Drawn /\ FilesPinned /\ FilesOf(op[p])
      /\ lock = p /\ lock' = None /\ op[p].pc = "post"
      /\ UNCHANGED <<config, journal, masked, child, edits, blind, svc, serial, faults>>
  BY HolderFacts DEF Finish, At, Same
<1>1. /\ serial \in Nat \ {0} /\ files \subseteq Kinds \X Nat /\ Refs(config) \subseteq files /\ faults \in Nat
      /\ (\A f \in files : f[2] < serial)
      /\ (journal # None => Refs(journal.before) \subseteq files /\ op[p].file \notin Refs(journal.before))
      /\ (op[p].ok /\ op[p].kind = "secret" /\ journal = None => Refs(config) \subseteq Refs(op[p].cand))
  BY <1>0 DEF Shape, FilesOf, FilesPinned, Drawn
<1>2. /\ files' \subseteq files
      /\ Refs(config) \subseteq files'
      /\ journal # None => Refs(journal.before) \subseteq files'
  <2>1. CASE files' = files
    BY <1>1, <2>1
  <2>2. ASSUME op[p].ok, op[p].kind = "secret", files' = Clean("secret", op[p].cand) PROVE <1>2
    <3>1. CASE journal # None
      BY <1>1, <2>2, <3>1 DEF Clean
    <3>2. CASE journal = None
      <4>1. files' = files \ Orphans("secret", op[p].cand) /\ Refs(config) \subseteq Refs(op[p].cand)
        BY <1>1, <2>2, <3>2 DEF Clean
      <4> QED BY <1>1, <3>2, <4>1 DEF Orphans
    <3> QED BY <3>1, <3>2
  <2>3. ASSUME files' = RemoveStaged(p) PROVE <1>2
    BY <1>1, <2>3 DEF RemoveStaged
  <2>4. ASSUME NEW k, files' = Clean(k, config) PROVE <1>2
    BY <1>1, <2>4 DEF Clean, Orphans
  <2>5. ASSUME files' = CleanGeo(config) PROVE <1>2
    BY <1>1, <2>5 DEF CleanGeo, Orphans
  <2> QED BY <2>1, <2>2, <2>3, <2>4, <2>5 DEF Finish
<1>3. FilesPinned' /\ files' \subseteq Kinds \X Nat /\ (\A f \in files' : f[2] < serial')
  BY <1>0, <1>1, <1>2 DEF FilesPinned
<1>4. OnDisk'
  BY <1>0, <1>1, <1>3, DiskFiles
<1>5. PICK r \in OpRec : r = Idle
  BY IdleFields
<1>6. op' = [op EXCEPT ![p] = r]
  BY <1>5 DEF Finish
<1>7. DrawnBy(r)' /\ r.pc \in Waiting /\ r.file = None /\ r.before = None
  BY <1>5, IdleFields DEF DrawnBy, Made, Waiting
<1> QED BY <1>0, <1>4, <1>6, <1>7, WaiterKeeps

LEMMA CrashKept ==
    ASSUME Kept, NEW p \in Managers, Crash(p)
    PROVE  Kept'
<1>0. /\ OnDisk /\ Shape /\ OneHolder /\ lock' = None
      /\ UNCHANGED <<config, journal, files, masked, child, edits, blind, svc, serial, faults>>
  BY FreeFacts DEF Crash, Kept
<1>1. lock = p
  BY <1>0 DEF Crash, OneHolder, Waiting
<1>2. OnDisk'
  BY <1>0, DiskSame DEF Shape
<1>3. PICK r \in OpRec : r = Idle
  BY IdleFields
<1>4. op' = [op EXCEPT ![p] = r]
  BY <1>3 DEF Crash
<1>5. DrawnBy(r)' /\ r.pc \in Waiting /\ r.file = None /\ r.before = None
  BY <1>3, IdleFields DEF DrawnBy, Made, Waiting
<1> QED BY <1>0, <1>1, <1>2, <1>4, <1>5, WaiterKeeps

LEMMA ExternalEditKept ==
    ASSUME Kept, ExternalEdit
    PROVE  Kept'
<1>0. /\ OnDisk /\ Shape /\ Drawn /\ FilesPinned /\ serial \in Nat \ {0} /\ serial' = serial + 1 /\ edits \in Nat
      /\ config \in MaybeConfig /\ Made(config) /\ edits' = edits + 1
      /\ UNCHANGED <<journal, files, svc, masked, op, lock, child, faults>>
  BY DEF Kept, OnDisk, Shape, ExternalEdit, Drawn
<1>1. PICK c : c = [Load(config) EXCEPT !.rev = serial]
  OBVIOUS
<1>2. c \in AnyConfig /\ Refs(c) = Refs(config) /\ c.rev = serial /\ c.refs = Load(config).refs /\ config' = c
  BY <1>0, <1>1, RefsOfEdit DEF ExternalEdit
<1>3. Made(c)'
  <2>1. \A k \in Kinds : c.refs[k] = None \/ c.refs[k][2] < serial'
    <3> SUFFICES ASSUME NEW k \in Kinds, c.refs[k] # None PROVE c.refs[k][2] < serial'
      OBVIOUS
    <3>1. c.refs[k] \in Refs(config)
      BY <1>2 DEF Refs
    <3>2. c.refs[k] \in Kinds \X Nat /\ c.refs[k][2] < serial
      BY <1>0, <3>1, RefsFacts, MadeRefs
    <3>3. c.refs[k][2] \in Nat
      BY <3>2
    <3> QED BY <1>0, <3>2, <3>3
  <2>2. c.rev < serial'
    BY <1>0, <1>2
  <2> QED BY <2>1, <2>2 DEF Made
<1>4. edits' # 0 /\ edits' \in Nat /\ serial' \in Nat \ {0} /\ serial <= serial' /\ serial \in Nat /\ serial' \in Nat
  BY <1>0
<1>5. Shape'
  <2>1. blind' \in BOOLEAN
    BY DEF ExternalEdit
  <2> QED BY <1>0, <1>2, <1>4, <2>1 DEF Shape, MaybeConfig
<1>6. Drawn'
  <2>1. Made(config)'
    BY <1>2, <1>3 DEF Made
  <2>2. Made(svc.loaded)'
    <3>1. PICK l \in MaybeConfig : l = svc.loaded
      BY <1>0 DEF Shape, Svc
    <3>2. Made(l)'
      BY <1>0, <1>4, <3>1, MadeGrows DEF Drawn
    <3> QED BY <1>0, <3>1, <3>2 DEF Made
  <2>3. ASSUME journal' # None PROVE Made(journal.before)' /\ Made(journal.after)'
    <3>1. PICK b \in MaybeConfig, a \in MaybeConfig : b = journal.before /\ a = journal.after
      BY <1>0, <2>3 DEF Shape, AnyJournal, MaybeConfig
    <3>2. Made(b)' /\ Made(a)'
      BY <1>0, <1>4, <2>3, <3>1, MadeGrows DEF Drawn
    <3> QED BY <1>0, <3>1, <3>2 DEF Made
  <2>4. \A f \in files' : f[2] < serial'
    BY <1>0 DEF Drawn, Shape
  <2> QED BY <2>1, <2>2, <2>3, <2>4 DEF Drawn
<1>7. FilesPinned' /\ JournalCovers'
  BY <1>0, <1>2, <1>4 DEF FilesPinned, JournalCovers
<1>8. OnDisk'
  BY <1>5, <1>6, <1>7 DEF OnDisk
<1>9. ASSUME NEW q \in Managers, lock = q PROVE FilesOf(op[q])'
  <2>1. FilesOf(op[q])
    BY <1>9, HolderFacts
  <2>2. op[q].pc \in {"write", "restore"} => blind'
    BY DEF ExternalEdit
  <2> QED BY <1>0, <1>2, <1>4, <2>1, <2>2 DEF FilesOf
<1> QED BY <1>0, <1>4, <1>8, <1>9, NobodyMoves

\* A unit that dies or comes back changes nothing on disk.
LEMMA UnitMoves ==
    ASSUME Kept, NEW u \in Units, ServiceDies(u) \/ ServiceReturns(u)
    PROVE  Kept'
<1>0. /\ OnDisk /\ Shape /\ Drawn /\ svc \in Svc /\ u \in {"daemon", "sensor"} /\ None \in MaybeConfig /\ config \in MaybeConfig
      /\ UNCHANGED <<config, journal, files, masked, op, lock, child, serial, edits, blind>>
  BY NoneInSets DEF Kept, OnDisk, Shape, ServiceDies, ServiceReturns, Units, counters
<1>1. faults' \in Nat /\ serial \in Nat /\ serial <= serial'
  <2>1. Fault \/ UNCHANGED faults
    BY DEF ServiceDies, ServiceReturns, counters
  <2> QED BY <1>0, <2>1, Counted
<1>2. svc' \in Svc /\ svc'.loaded \in {svc.loaded, None, config}
  <2>1. ASSUME NEW s \in {"failed", "activating"}, svc' = [svc EXCEPT ![u] = s, !.loaded = IF u = "daemon" THEN None ELSE @]
        PROVE  <1>2
    BY <1>0, <2>1 DEF Svc, UnitStates
  <2>2. ASSUME svc' = [svc EXCEPT ![u] = "active", !.loaded = IF u = "daemon" THEN config ELSE @]
        PROVE  <1>2
    BY <1>0, <2>2 DEF Svc, UnitStates
  <2> QED BY <2>1, <2>2 DEF ServiceDies, ServiceReturns
<1>3. Made(svc.loaded)' /\ child' \in [Managers -> Commands \cup {None}]
  BY <1>0, <1>2 DEF Made, Drawn, Shape
<1>4. OnDisk'
  BY <1>0, <1>1, <1>2, <1>3, DiskUnits
<1>5. ASSUME NEW q \in Managers, lock = q PROVE FilesOf(op[q])'
  <2>1. FilesOf(op[q])
    BY <1>5, HolderFacts
  <2> QED BY <1>0, <2>1 DEF FilesOf
<1> QED BY <1>0, <1>1, <1>4, <1>5, NobodyMoves

-----------------------------------------------------------------------------
(* The invariant about files holds, and what follows from it.              *)

LEMMA InitKept == Init => Kept
<1> SUFFICES ASSUME Init PROVE Kept
  OBVIOUS
<1>1. PICK c : c = [DefaultConfig EXCEPT !.refs = [k \in Kinds |-> <<k, 0>>]]
  OBVIOUS
<1>2. /\ c \in AnyConfig /\ c # None /\ c.rev = 0
      /\ c.refs = [k \in Kinds |-> <<k, 0>>]
  <2>1. [k \in Kinds |-> <<k, 0>>] \in [Kinds -> (Kinds \X Nat) \cup {None}]
    OBVIOUS
  <2> DEFINE S == [Kinds -> (Kinds \X Nat) \cup {None}]
  <2>2. PICK m \in S : m = [k \in Kinds |-> <<k, 0>>]
    BY <2>1
  <2> HIDE DEF S
  <2>3. c = [DefaultConfig EXCEPT !.refs = m]
    BY <1>1, <2>2
  <2>4. c = [rev |-> 0, refs |-> m, sensor |-> TRUE]
    BY <2>3 DEF DefaultConfig
  <2>5. c \in [rev : Nat, refs : S, sensor : BOOLEAN] /\ c.rev = 0 /\ c.refs = m
    BY <2>4
  <2>6. c \in AnyConfig
    BY <2>5 DEF AnyConfig, S
  <2> QED BY <2>2, <2>5, <2>6, ConfigAssumption
<1>3. config \in MaybeConfig /\ (config = None \/ config = c)
  BY <1>1, <1>2 DEF Init, MaybeConfig
<1>4. Made(config)
  <2>1. \A k \in Kinds : c.refs[k][2] = 0
    BY <1>2
  <2>2. serial = 1
    BY DEF Init
  <2> QED BY <1>2, <1>3, <2>1, <2>2 DEF Made
<1>5. svc \in Svc /\ svc.loaded = config
  <2>1. PICK s \in {"inactive"} \cup (IF config = None THEN {} ELSE {"active"}) :
           svc = [daemon |-> IF config = None THEN "inactive" ELSE "active", sensor |-> s, loaded |-> config]
    BY DEF Init
  <2>2. s \in UnitStates /\ (IF config = None THEN "inactive" ELSE "active") \in UnitStates
    BY <2>1 DEF UnitStates
  <2> QED BY <1>3, <2>1, <2>2 DEF Svc
<1>6. files \subseteq Kinds \X Nat /\ Refs(config) \subseteq files /\ \A f \in files : f[2] < serial
  <2>1. files = Refs(config)
    BY DEF Init
  <2> QED BY <1>3, <1>4, <2>1, RefsFacts, MadeRefs
<1>7. Shape
  <2>1. masked \subseteq Units
    BY DEF Init, Units
  <2>3. child \in [Managers -> Commands \cup {None}]
    <3>1. child = [p \in Managers |-> None]
      BY DEF Init
    <3> QED BY <3>1
  <2>2. serial \in Nat \ {0} /\ faults \in Nat /\ edits \in Nat /\ journal = None
    BY DEF Init
  <2>4. blind \in BOOLEAN
    BY Zenon DEF Init
  <2> QED BY <1>3, <1>5, <1>6, <2>1, <2>2, <2>3, <2>4 DEF Shape
<1>8. OnDisk
  <2>1. journal = None
    BY DEF Init
  <2> QED BY <1>4, <1>5, <1>6, <1>7, <2>1 DEF OnDisk, Drawn, FilesPinned, JournalCovers
<1>9. op \in [Managers -> OpRec] /\ \A p \in Managers : op[p] = Idle
  BY IdleFields DEF Init
<1>10. OneHolder /\ lock = None
  BY <1>9, IdleFields, ConfigAssumption DEF OneHolder, Waiting, Init
<1>11. \A p \in Managers : DrawnBy(op[p])
  BY <1>9, IdleFields DEF DrawnBy, Made
<1> QED BY <1>8, <1>9, <1>10, <1>11, ConfigAssumption DEF Kept

LEMMA StepKept ==
    ASSUME Kept, NEW p \in Managers, Step(p)
    PROVE  Kept'
BY RefusedKept, StageFileKept, StageGenerationKept, GeoUnchangedKept, ReadBeforeKept, PrepareKept, RecheckKept,
   WriteCandidateKept, RecordStagesKept, IssueKept, CommitKept, ApplyFailedKept, RollbackCheckKept,
   RestoreConfigKept, RestoredKept, FinishKept
   DEF Step

LEMMA BeginKept ==
    ASSUME Kept, NEW p \in Managers, Begin(p)
    PROVE  Kept'
<1>1. ASSUME NEW k \in {"secret", "profile", "geo"}, BeginWith(p, Staging(k)), UNCHANGED serial PROVE Kept'
  BY <1>1, StagingKept
<1>2. ASSUME NEW ref \in {Load(config).refs["secret"], None}, BeginWith(p, Changing("secret", ref)), serial' = serial + 1
      PROVE Kept'
  BY <1>2, ChangingKept
<1>3. CASE Telegram(p)
  BY <1>1, <1>2, <1>3 DEF Telegram
<1>4. CASE Native(p)
  BY <1>1, <1>2, <1>4 DEF Native
<1>5. CASE Official(p)
  BY <1>1, <1>2, <1>5 DEF Official
<1>6. CASE GenerateKey(p) \/ UseProfile(p) \/ UpdateGeo(p)
  BY <1>1, <1>6 DEF GenerateKey, UseProfile, UpdateGeo
<1>7. CASE OpenForm(p) \/ SaveForm(p) \/ BeginRecover(p)
  BY <1>7, OpenFormKept, SaveFormKept, BeginRecoverKept
<1>8. CASE \E k \in {"stop", "restart", "start"} : ServiceAction(p, k)
  BY <1>8, ServiceActionKept
<1> QED BY <1>3, <1>4, <1>5, <1>6, <1>7, <1>8 DEF Begin

LEMMA NextKept == Kept /\ [Next]_vars => Kept'
<1> SUFFICES ASSUME Kept, [Next]_vars PROVE Kept'
  OBVIOUS
<1>1. CASE UNCHANGED vars
  <2>1. OnDisk' /\ serial <= serial' /\ UNCHANGED <<op, lock>>
    BY <1>1, DiskSame DEF vars, Kept, OnDisk, Shape
  <2>2. ASSUME NEW q \in Managers, lock = q PROVE FilesOf(op[q])'
    <3>1. FilesOf(op[q])
      BY <2>2, HolderFacts
    <3> QED BY <1>1, <3>1 DEF FilesOf, vars
  <2> QED BY <2>1, <2>2, NobodyMoves
<1>2. ASSUME NEW p \in Managers, Begin(p) PROVE Kept'
  BY <1>2, BeginKept
<1>3. ASSUME NEW p \in Managers, Step(p) PROVE Kept'
  BY <1>3, StepKept
<1>4. ASSUME NEW p \in Managers, ChildEnds(p) PROVE Kept'
  BY <1>4, ChildEndsKept
<1>5. ASSUME NEW p \in Managers, Crash(p) PROVE Kept'
  BY <1>5, CrashKept
<1>6. CASE ExternalEdit
  BY <1>6, ExternalEditKept
<1>7. ASSUME NEW u \in Units, ServiceDies(u) \/ ServiceReturns(u) PROVE Kept'
  BY <1>7, UnitMoves
<1> QED BY <1>1, <1>2, <1>3, <1>4, <1>5, <1>6, <1>7 DEF Next

LEMMA AlwaysKept == Spec => []Kept
BY InitKept, NextKept, PTL DEF Spec

LEMMA MadeTyped ==
    ASSUME NEW c \in MaybeConfig, Made(c), serial \in Nat
    PROVE  c \in Configs \cup {None}
<1>1. CASE c = None
  BY <1>1
<1>2. CASE c # None
  <2>1. c \in AnyConfig
    BY <1>2 DEF MaybeConfig
  <2>2. c.rev \in Nat /\ c.refs \in [Kinds -> (Kinds \X Nat) \cup {None}] /\ c.sensor \in BOOLEAN
        /\ c = [rev |-> c.rev, refs |-> c.refs, sensor |-> c.sensor]
    BY <2>1 DEF AnyConfig
  <2>3. c.rev \in 0 .. serial
    BY <1>2, <2>2 DEF Made
  <2>4. ASSUME NEW k \in Kinds PROVE c.refs[k] \in Files \cup {None}
    <3>1. CASE c.refs[k] = None
      BY <3>1
    <3>2. CASE c.refs[k] # None
      <4>1. c.refs[k] \in Kinds \X Nat /\ c.refs[k][2] < serial
        BY <1>2, <2>2, <3>2 DEF Made
      <4>2. c.refs[k][2] \in 0 .. serial
        BY <4>1
      <4> QED BY <4>1, <4>2 DEF Files
    <3> QED BY <3>1, <3>2
  <2>5. c.refs \in [Kinds -> Files \cup {None}]
    BY <2>2, <2>4
  <2> DEFINE S == [Kinds -> Files \cup {None}]
  <2> HIDE DEF S
  <2>6. c \in [rev : 0 .. serial, refs : S, sensor : BOOLEAN]
    BY <2>2, <2>3, <2>5 DEF S
  <2> QED BY <2>6 DEF Configs, S
<1> QED BY <1>1, <1>2

LEMMA KeptTyped == Kept => TypeInvariant
<1> SUFFICES ASSUME Kept PROVE TypeInvariant
  OBVIOUS
<1>0. Shape /\ Drawn /\ serial \in Nat /\ op \in [Managers -> OpRec] /\ lock \in Managers \cup {None}
  BY DEF Kept, OnDisk, Shape
<1>1. config \in Configs \cup {None}
  BY <1>0, MadeTyped DEF Shape, Drawn
<1>2. journal \in Journals \cup {None}
  <2>1. CASE journal = None
    BY <2>1
  <2>2. CASE journal # None
    <3>1. journal \in AnyJournal /\ Made(journal.before) /\ Made(journal.after)
      BY <1>0, <2>2 DEF Shape, Drawn
    <3>2. /\ journal.before \in MaybeConfig /\ journal.after \in MaybeConfig /\ journal.after # None
          /\ journal.ran \in SUBSET Units /\ journal.stage \in Stages
          /\ journal = [before |-> journal.before, after |-> journal.after, ran |-> journal.ran, stage |-> journal.stage]
      BY <3>1, ConfigAssumption DEF AnyJournal, MaybeConfig
    <3>3. journal.before \in Configs \cup {None} /\ journal.after \in Configs
      BY <1>0, <3>1, <3>2, MadeTyped
    <3> QED BY <3>2, <3>3 DEF Journals
  <2> QED BY <2>1, <2>2
<1>3. files \subseteq Files
  <2> SUFFICES ASSUME NEW f \in files PROVE f \in Files
    OBVIOUS
  <2>1. f \in Kinds \X Nat /\ f[2] < serial
    BY <1>0 DEF Shape, Drawn
  <2>2. f[2] \in 0 .. serial
    BY <1>0, <2>1
  <2> QED BY <2>1, <2>2 DEF Files
<1>4. svc \in [daemon : {"active", "inactive", "failed", "activating"},
               sensor : {"active", "inactive", "failed", "activating"}, loaded : Configs \cup {None}]
  <2>1. svc \in Svc /\ Made(svc.loaded) /\ svc.loaded \in MaybeConfig
    BY <1>0, SvcFields DEF Shape, Drawn
  <2>2. svc.loaded \in Configs \cup {None}
    BY <1>0, <2>1, MadeTyped
  <2> QED BY <2>1, <2>2 DEF Svc, UnitStates
<1>5. ASSUME NEW p \in Managers
      PROVE  /\ op[p].snap \in Configs \cup {None} /\ op[p].cand \in Configs \cup {None}
             /\ op[p].before \in Configs \cup {None} /\ op[p].file \in Files \cup {None}
             /\ op[p].ran \subseteq Units /\ op[p].retried \in BOOLEAN /\ op[p].ok \in BOOLEAN
  <2>1. op[p] \in OpRec /\ DrawnBy(op[p])
    BY DEF Kept
  <2>2. /\ op[p].snap \in MaybeConfig /\ op[p].cand \in MaybeConfig /\ op[p].before \in MaybeConfig /\ op[p].file \in MaybeFile
        /\ op[p].ran \in RanSets /\ op[p].retried \in BOOLEAN /\ op[p].ok \in BOOLEAN
    BY <2>1, RecFields
  <2>3. op[p].snap \in Configs \cup {None} /\ op[p].cand \in Configs \cup {None} /\ op[p].before \in Configs \cup {None}
    BY <1>0, <2>1, <2>2, MadeTyped DEF DrawnBy
  <2>4. op[p].file \in Files \cup {None}
    <3>1. CASE op[p].file = None
      BY <3>1
    <3>2. CASE op[p].file # None
      <4>1. op[p].file \in Kinds \X Nat /\ op[p].file[2] < serial
        BY <2>1, <2>2, <3>2 DEF MaybeFile, DrawnBy
      <4>2. op[p].file[2] \in 0 .. serial
        BY <1>0, <4>1
      <4> QED BY <4>1, <4>2 DEF Files
    <3> QED BY <3>1, <3>2
  <2> QED BY <2>2, <2>3, <2>4 DEF RanSets
<1>6. masked \subseteq Units /\ child \in [Managers -> Commands \cup {None}]
  BY <1>0 DEF Shape
<1> QED BY <1>0, <1>1, <1>2, <1>3, <1>4, <1>5, <1>6 DEF TypeInvariant

\* Whatever an apply, a rollback or a cleanup has done so far, and wherever it was
\* cut off: the files that the configuration and the pending journal name are there,
\* and as long as nobody edited the configuration, rolling back finds what it needs.
THEOREM ApplyIsRecoverable == Spec => []Recoverable
<1>1. Kept => Recoverable
  <2>1. Kept => RecoveryPossible
    BY DEF Kept, OnDisk, FilesPinned, JournalCovers, RecoveryPossible, Preflight, DaemonReadable
  <2> QED BY <2>1, KeptTyped DEF Kept, OnDisk, Recoverable
<1> QED BY <1>1, AlwaysKept, PTL

-----------------------------------------------------------------------------
(* The units: Served, given Kept.                                          *)

\* Steps at which an operation assumes nothing of the units.
Calm == {"stage", "read", "failed", "rollback", "restore", "post"}

LEMMA CalmUnits ==
    ASSUME NEW r, r.pc \in Calm
    PROVE  UnitsOf(r)'
BY DEF UnitsOf, Calm, Early, Late, StoppedSensor, RestartedDaemon, HaltedSensor, HaltedDaemon

LEMMA ServedFacts ==
    ASSUME Served
    PROVE  /\ OneCommand /\ RanOf /\ Steady
           /\ \A p \in Managers : lock = p => UnitsOf(op[p])
BY DEF Served

\* While the holder waits for no command, and when nobody has the lock, none is under way.
LEMMA NoCommand ==
    ASSUME Served, NEW p \in Managers, (lock = p /\ child[p] = None) \/ ~Locked
    PROVE  \A q \in Managers : child[q] = None
<1>1. OneCommand /\ None \notin Managers
  BY ServedFacts, ConfigAssumption
<1> QED BY <1>1 DEF OneCommand, Locked

LEMMA StillNoCommand ==
    ASSUME \A q \in Managers : child[q] = None, UNCHANGED child
    PROVE  OneCommand' /\ (\A q \in Managers : child[q] = None)'
BY DEF OneCommand

\* A step of the holder, or of the process that becomes it, with no command under way.
LEMMA HolderServes ==
    ASSUME Kept, Served, NEW p \in Managers, NEW r \in OpRec, op' = [op EXCEPT ![p] = r], lock' = p,
           \A q \in Managers : child[q] = None, UNCHANGED child,
           RanOf', Steady', UnitsOf(r)'
    PROVE  Served'
<1>1. OneCommand'
  BY StillNoCommand
<1>2. op'[p] = r
  BY FreeFacts
<1>3. ASSUME NEW q \in Managers, lock' = q PROVE UnitsOf(op[q])'
  BY <1>2, <1>3 DEF UnitsOf, StoppedSensor, RestartedDaemon, HaltedSensor, HaltedDaemon
<1> QED BY <1>1, <1>3 DEF Served

\* A process gives the lock up, or moves without having it: the units do not notice.
LEMMA WaiterServes ==
    ASSUME Kept, Served, NEW p \in Managers, NEW r \in OpRec, op' = [op EXCEPT ![p] = r],
           UNCHANGED <<config, journal, svc, masked, child, faults, edits>>,
           (lock = p /\ lock' = None) \/ (lock # p /\ UNCHANGED lock)
    PROVE  Served'
<1>1. OneCommand /\ RanOf /\ Steady /\ None \notin Managers /\ op \in [Managers -> OpRec]
  BY ServedFacts, ConfigAssumption, FreeFacts
<1>2. RanOf'
  BY <1>1 DEF RanOf
<1>3. Steady'
  BY <1>1 DEF Steady
<1>4. ASSUME NEW q \in Managers, lock' = q PROVE lock = q /\ op'[q] = op[q]
  BY <1>1, <1>4
<1>5. OneCommand'
  <2>1. \A q \in Managers : child[q] # None => lock' \in {q, None}
    BY <1>1 DEF OneCommand
  <2>2. ASSUME NEW q \in Managers, child[q] # None, lock' = q
        PROVE  (ServicePhase(q) /\ child[q] = CommandOf(q, Head(op[q].steps)))'
    BY <1>1, <1>4, <2>2 DEF OneCommand, ServicePhase, CommandOf, SensorBack
  <2> QED BY <1>1, <2>1, <2>2 DEF OneCommand
<1>6. ASSUME NEW q \in Managers, lock' = q PROVE UnitsOf(op[q])'
  <2>1. UnitsOf(op[q]) /\ op'[q] = op[q]
    BY <1>4, <1>6, ServedFacts
  <2> QED BY <2>1 DEF UnitsOf, StoppedSensor, RestartedDaemon, HaltedSensor, HaltedDaemon
<1> QED BY <1>2, <1>3, <1>5, <1>6 DEF Served

LEMMA SteadySame ==
    ASSUME Steady, UNCHANGED <<config, svc, edits>>, journal' = None => journal = None,
           (\A q \in Managers : child[q] = None)'
    PROVE  Steady'
BY DEF Steady

\* Where the journal keeps what it says of the units, or goes.
LEMMA RanSame ==
    ASSUME RanOf, UNCHANGED <<masked, edits>>,
           journal' # None => journal # None /\ journal'.ran = journal.ran /\ journal'.before = journal.before
    PROVE  RanOf'
BY DEF RanOf

\* A step to a calm place that leaves the configuration and the journal alone.
LEMMA CalmServes ==
    ASSUME Kept, Served, NEW p \in Managers, NEW r \in OpRec, op' = [op EXCEPT ![p] = r], lock' = p, r.pc \in Calm,
           (lock = p /\ child[p] = None) \/ ~Locked,
           UNCHANGED <<config, journal, svc, masked, child, edits>>
    PROVE  Served'
<1>1. RanOf /\ Steady /\ (\A q \in Managers : child[q] = None)
  BY NoCommand, ServedFacts
<1>2. (\A q \in Managers : child[q] = None)'
  BY <1>1
<1>3. RanOf' /\ Steady'
  BY <1>1, <1>2, RanSame, SteadySame
<1>4. UnitsOf(r)'
  BY CalmUnits
<1> QED BY <1>1, <1>3, <1>4, HolderServes

\* Post leads to a calm place.
LEMMA PostRec ==
    ASSUME Kept, NEW p \in Managers, NEW b \in BOOLEAN, Post(p, b)
    PROVE  \E r \in OpRec : op' = [op EXCEPT ![p] = r] /\ r.pc = "post"
<1>1. op \in [Managers -> OpRec] /\ op[p] \in OpRec
  BY FreeFacts
<1>2. "post" \in Pcs /\ op[p].kind \in OpKinds /\ op[p].cand \in MaybeConfig /\ op[p].file \in MaybeFile
  BY <1>1, RecFields DEF Pcs
<1>3. Posted(p, "post", op[p].kind, b, op[p].cand, op[p].file)
  BY DEF Post, Posted
<1> QED BY <1>1, <1>2, <1>3, PostedRec

LEMMA PostServes ==
    ASSUME Kept, Served, NEW p \in Managers, NEW b \in BOOLEAN, Post(p, b), lock = p, lock' = p, child[p] = None,
           UNCHANGED <<config, journal, svc, masked, child, edits>>
    PROVE  Served'
<1>1. PICK r \in OpRec : op' = [op EXCEPT ![p] = r] /\ r.pc = "post"
  BY PostRec
<1>2. r.pc \in Calm
  BY <1>1 DEF Calm
<1> QED BY <1>1, <1>2, CalmServes

\* Go changes the place alone.
LEMMA GoRec ==
    ASSUME Kept, NEW p \in Managers, NEW x \in Pcs, Go(p, x)
    PROVE  \E r \in OpRec : /\ op' = [op EXCEPT ![p] = r] /\ r.pc = x /\ r.cand = op[p].cand /\ r.before = op[p].before
                            /\ r.ran = op[p].ran /\ r.steps = op[p].steps
<1>1. op \in [Managers -> OpRec] /\ Moved(p, x)
  BY FreeFacts DEF Go, Moved
<1> QED BY <1>1, MovedRec

LEMMA CalmBegins ==
    ASSUME Kept, Served, NEW p \in Managers,
           \/ SaveForm(p) \/ BeginRecover(p)
           \/ \E k \in {"secret", "profile", "geo"} : BeginWith(p, Staging(k))
           \/ \E ref \in {Load(config).refs["secret"], None} : BeginWith(p, Changing("secret", ref)) /\ serial' = serial + 1
    PROVE  Served'
<1>0. /\ ~Locked /\ lock' = p /\ UNCHANGED <<config, journal, svc, masked, child, edits>>
      /\ op \in [Managers -> OpRec] /\ op[p] \in OpRec /\ Shape /\ DrawnBy(op[p]) /\ Drawn
  BY FreeFacts DEF SaveForm, BeginRecover, BeginWith, counters
<1>1. config \in MaybeConfig /\ serial \in Nat \ {0} /\ Made(config)
  BY <1>0 DEF Shape, Drawn
<1>2. ASSUME NEW r \in OpRec, op' = [op EXCEPT ![p] = r], r.pc \in Calm PROVE Served'
  BY <1>0, <1>2, CalmServes
<1>3. CASE SaveForm(p)
  <2>1. op[p].snap \in MaybeConfig /\ Made(op[p].snap) /\ serial' = serial + 1
    BY <1>0, <1>3, RecFields DEF DrawnBy, SaveForm
  <2>2. PICK d : d = [Load(op[p].snap) EXCEPT !.rev = serial, !.sensor = ~@]
    OBVIOUS
  <2>3. d \in MaybeConfig /\ "read" \in Pcs
    BY <1>1, <2>1, <2>2, SavedContent DEF MaybeConfig, Pcs
  <2>4. MovedCand(p, "read", d)
    BY <1>3, <2>2 DEF SaveForm, MovedCand
  <2>5. PICK r \in OpRec : op' = [op EXCEPT ![p] = r] /\ r.pc = "read"
    BY <1>0, <2>3, <2>4, MovedCandRec
  <2> QED BY <1>2, <2>5 DEF Calm
<1>4. CASE BeginRecover(p)
  <2>1. journal \in AnyJournal
    BY <1>0, <1>4 DEF Shape, BeginRecover
  <2>2. journal.before \in MaybeConfig /\ journal.after \in MaybeConfig /\ journal.ran \in RanSets
    BY <2>1 DEF AnyJournal, MaybeConfig, RanSets
  <2>3. "rollback" \in Pcs /\ "recover" \in OpKinds
    BY DEF Pcs, OpKinds
  <2>4. Recovering(p, "rollback", "recover", journal.before, journal.after, journal.ran)
    BY <1>4 DEF BeginRecover, Recovering
  <2>5. PICK r \in OpRec : op' = [op EXCEPT ![p] = r] /\ r.pc = "rollback"
    BY <1>0, <2>2, <2>3, <2>4, RecoveringRec
  <2> QED BY <1>2, <2>5 DEF Calm
<1>5. ASSUME NEW k \in {"secret", "profile", "geo"}, BeginWith(p, Staging(k)) PROVE Served'
  <2>1. "stage" \in Pcs /\ k \in OpKinds
    BY ConfigAssumption DEF Pcs, OpKinds
  <2>2. Opened(p, "stage", k, config)
    BY <1>5 DEF BeginWith, Staging, Opened
  <2>3. PICK r \in OpRec : op' = [op EXCEPT ![p] = r] /\ r.pc = "stage"
    BY <1>0, <1>1, <2>1, <2>2, OpenedRec
  <2> QED BY <1>2, <2>3 DEF Calm
<1>6. ASSUME NEW ref \in {Load(config).refs["secret"], None}, BeginWith(p, Changing("secret", ref)), serial' = serial + 1
      PROVE Served'
  <2>1. PICK d : d = [Load(config) EXCEPT !.rev = serial, !.refs["secret"] = ref]
    OBVIOUS
  <2>2. ref \in MaybeFile /\ (ref = None \/ ref[2] <= serial)
    <3>1. CASE ref = None
      BY <3>1, NoneInSets
    <3>2. CASE ref # None
      <4>1. ref \in Refs(config)
        BY <3>2, ConfigAssumption DEF Refs
      <4>2. ref \in Kinds \X Nat /\ ref[2] < serial
        BY <1>1, <4>1, RefsFacts, MadeRefs
      <4>3. ref[2] \in Nat
        BY <4>2
      <4> QED BY <1>1, <4>2, <4>3 DEF MaybeFile
    <3> QED BY <3>1, <3>2
  <2>3. d \in MaybeConfig /\ "read" \in Pcs /\ "secret" \in OpKinds
    BY <1>1, <1>6, <2>1, <2>2, NewContent, ConfigAssumption DEF MaybeConfig, Pcs, OpKinds
  <2>4. Changed(p, "read", "secret", config, d)
    BY <1>6, <2>1 DEF BeginWith, Changing, Changed
  <2>5. PICK r \in OpRec : op' = [op EXCEPT ![p] = r] /\ r.pc = "read"
    BY <1>0, <1>1, <2>3, <2>4, ChangedRec
  <2> QED BY <1>2, <2>5 DEF Calm
<1> QED BY <1>3, <1>4, <1>5, <1>6

LEMMA FormServed ==
    ASSUME Kept, Served, NEW p \in Managers, OpenForm(p) \/ Refused(p) \/ Finish(p) \/ Crash(p)
    PROVE  Served'
<1>0. /\ op \in [Managers -> OpRec] /\ Shape /\ OneHolder /\ UNCHANGED <<config, journal, svc, masked, child, faults, edits>>
  BY FreeFacts DEF Kept, OpenForm, Refused, Finish, Crash, counters, Same
<1>1. (lock = p /\ lock' = None) \/ (lock # p /\ UNCHANGED lock)
  <2>1. CASE OpenForm(p) \/ Refused(p)
    BY <1>0, <2>1 DEF OneHolder, OpenForm, Refused, Waiting
  <2>2. CASE Finish(p) \/ Crash(p)
    BY <1>0, <2>2 DEF OneHolder, Finish, Crash, At, Waiting
  <2> QED BY <2>1, <2>2
<1>2. \E r \in OpRec : op' = [op EXCEPT ![p] = r]
  <2>1. CASE OpenForm(p)
    <3>1. "form" \in Pcs /\ "save" \in OpKinds /\ config \in MaybeConfig
      BY <1>0 DEF Pcs, OpKinds, Shape
    <3>2. Opened(p, "form", "save", config)
      BY <2>1 DEF OpenForm, Opened
    <3> QED BY <1>0, <3>1, <3>2, OpenedRec
  <2>2. CASE Refused(p) \/ Finish(p) \/ Crash(p)
    BY <2>2, IdleFields DEF Refused, Finish, Crash
  <2> QED BY <2>1, <2>2
<1> QED BY <1>0, <1>1, <1>2, WaiterServes

LEMMA StagingServed ==
    ASSUME Kept, Served, NEW p \in Managers, StageFile(p) \/ StageGeneration(p) \/ GeoUnchanged(p)
    PROVE  Served'
<1>0. /\ lock = p /\ lock' = p /\ child[p] = None /\ op[p].pc = "stage"
      /\ UNCHANGED <<config, journal, svc, masked, child, edits>>
      /\ op \in [Managers -> OpRec] /\ op[p] \in OpRec /\ Shape /\ DrawnBy(op[p]) /\ FilesOf(op[p])
  BY HolderFacts DEF StageFile, StageGeneration, GeoUnchanged, At, Same
<1>1. ASSUME NEW b \in BOOLEAN, Post(p, b) PROVE Served'
  BY <1>0, <1>1, PostServes
<1>2. ASSUME NEW new \in Kinds \X Nat, new[2] = serial, op' = Staged(p, new), serial' = serial + 1 PROVE Served'
  <2>1. /\ op[p].snap \in MaybeConfig /\ Made(op[p].snap) /\ op[p].kind \in Kinds /\ serial \in Nat \ {0}
        /\ new \in MaybeFile /\ "read" \in Pcs /\ new[2] <= serial
    BY <1>0, <1>2, RecFields DEF DrawnBy, FilesOf, Shape, MaybeFile, Pcs
  <2>2. PICK k \in Kinds : k = op[p].kind
    BY <2>1
  <2>3. PICK d : d = [Load(op[p].snap) EXCEPT !.rev = serial, !.refs[k] = new]
    OBVIOUS
  <2>4. d \in MaybeConfig
    BY <1>2, <2>1, <2>3, NewContent DEF MaybeConfig
  <2>5. MovedStaged(p, "read", new, d)
    BY <1>2, <2>2, <2>3 DEF Staged, MovedStaged
  <2>6. PICK r \in OpRec : op' = [op EXCEPT ![p] = r] /\ r.pc = "read"
    BY <1>0, <2>1, <2>4, <2>5, MovedStagedRec
  <2>7. r.pc \in Calm
    BY <2>6 DEF Calm
  <2> QED BY <1>0, <2>6, <2>7, CalmServes
<1>3. CASE StageFile(p)
  <2>1. Post(p, FALSE) \/ (op' = Staged(p, <<op[p].kind, serial>>) /\ serial' = serial + 1)
    BY <1>3 DEF StageFile
  <2>2. PICK new : new = <<op[p].kind, serial>>
    OBVIOUS
  <2>3. new \in Kinds \X Nat /\ new[2] = serial
    BY <1>0, <2>2 DEF FilesOf, Shape
  <2> QED BY <1>1, <1>2, <2>1, <2>2, <2>3
<1>4. CASE StageGeneration(p)
  <2>1. Post(p, FALSE) \/ (op' = Staged(p, <<"geo", serial>>) /\ serial' = serial + 1)
    BY <1>4 DEF StageGeneration
  <2>2. PICK new : new = <<"geo", serial>>
    OBVIOUS
  <2>3. new \in Kinds \X Nat /\ new[2] = serial
    BY <1>0, <2>2, ConfigAssumption DEF Shape
  <2> QED BY <1>1, <1>2, <2>1, <2>2, <2>3
<1>5. CASE GeoUnchanged(p)
  <2>1. PICK b \in BOOLEAN : b = (config = op[p].snap)
    OBVIOUS
  <2>2. Post(p, b)
    BY <1>5, <2>1 DEF GeoUnchanged
  <2> QED BY <1>1, <2>2
<1> QED BY <1>3, <1>4, <1>5

LEMMA ReadBeforeServed ==
    ASSUME Kept, Served, NEW p \in Managers, ReadBefore(p)
    PROVE  Served'
<1>0. /\ lock = p /\ lock' = p /\ child[p] = None
      /\ UNCHANGED <<config, journal, svc, masked, child, edits>>
      /\ op \in [Managers -> OpRec] /\ op[p] \in OpRec /\ Shape
  BY HolderFacts DEF ReadBefore, At, Same
<1>1. CASE Post(p, FALSE)
  BY <1>0, <1>1, PostServes
<1>2. ASSUME journal = None, StableServices,
             op' = [op EXCEPT ![p].pc = "prepare", ![p].before = config, ![p].snap = None,
                              ![p].ran = {u \in Units : Running(u)}]
      PROVE  Served'
  <2>1. PICK d \in RanSets : d = {u \in Units : Running(u)}
    BY DEF RanSets
  <2>2. config \in MaybeConfig /\ "prepare" \in Pcs /\ None \in MaybeConfig
    BY <1>0, NoneInSets DEF Shape, Pcs
  <2>3. MovedRead(p, "prepare", config, None, d)
    BY <1>2, <2>1 DEF MovedRead
  <2>4. PICK r \in OpRec : op' = [op EXCEPT ![p] = r] /\ r.pc = "prepare" /\ r.before = config /\ r.ran = d
    BY <1>0, <2>2, <2>3, MovedReadRec
  <2>5. RanOf /\ Steady /\ (\A q \in Managers : child[q] = None)
    BY <1>0, NoCommand, ServedFacts
  <2>6. (\A q \in Managers : child[q] = None)'
    BY <1>0, <2>5
  <2>7. RanOf' /\ Steady'
    BY <1>0, <2>5, <2>6, RanSame, SteadySame
  <2>8. ASSUME NEW u \in Units, u \notin r.ran PROVE svc[u] \in Down
    <3>1. svc[u] # "active" /\ svc[u] # "activating"
      BY <1>2, <2>1, <2>4, <2>8 DEF Running, StableServices
    <3>2. svc[u] \in UnitStates
      BY <1>0, SvcFields DEF Shape, Units
    <3> QED BY <3>1, <3>2 DEF UnitStates, Down
  <2>9. r.ran \cap masked = {}
    BY <1>2, <2>1, <2>4 DEF StableServices
  <2>10. edits = 0 /\ "sensor" \in r.ran => Load(r.before).sensor
    <3> SUFFICES ASSUME edits = 0, "sensor" \in r.ran PROVE Load(r.before).sensor
      OBVIOUS
    <3>1. svc["sensor"] = "active"
      BY <2>1, <2>4 DEF Running
    <3>2. svc.sensor \notin Down
      BY <1>0, <3>1, SvcFields DEF Shape, Down
    <3> QED BY <1>2, <2>4, <2>5, <3>2 DEF Steady
  <2>11. UnitsOf(r)'
    BY <1>0, <2>4, <2>8, <2>9, <2>10 DEF UnitsOf, StoppedSensor, RestartedDaemon, HaltedSensor, HaltedDaemon
  <2> QED BY <1>0, <2>4, <2>5, <2>7, <2>11, HolderServes
<1> QED BY <1>1, <1>2 DEF ReadBefore

\* The journal's promise about the units is the operation's own.
LEMMA HeldRan ==
    ASSUME Kept, Served, NEW p \in Managers, lock = p, op[p].pc \in Journaled \cup {"prepare"}
    PROVE  /\ op[p].ran \cap masked = {}
           /\ edits = 0 /\ "sensor" \in op[p].ran => Load(op[p].before).sensor
<1>1. CASE op[p].pc \in Journaled
  <2>1. journal # None /\ journal.before = op[p].before /\ journal.ran = op[p].ran /\ RanOf
    BY <1>1, JournaledFacts, ServedFacts
  <2> QED BY <2>1 DEF RanOf
<1>2. CASE op[p].pc = "prepare"
  <2>1. UnitsOf(op[p])
    BY ServedFacts
  <2> QED BY <1>2, <2>1 DEF UnitsOf
<1> QED BY <1>1, <1>2

\* A step of the apply or of the rollback that writes the journal, or leaves it, and
\* perhaps the configuration.
LEMMA JournalServes ==
    ASSUME Kept, Served, NEW p \in Managers, NEW r \in OpRec, op' = [op EXCEPT ![p] = r], lock = p, lock' = p,
           child[p] = None, op[p].pc \in Journaled \cup {"prepare"}, op[p].cand # None,
           UNCHANGED <<svc, masked, child, edits>>,
           \/ journal' = journal /\ op[p].pc # "prepare"
           \/ \E st \in Stages : journal' = Record(p, st),
           UnitsOf(r)'
    PROVE  Served'
<1>1. RanOf /\ Steady /\ (\A q \in Managers : child[q] = None)
  BY NoCommand, ServedFacts
<1>2. journal' # None /\ journal'.ran = op[p].ran /\ journal'.before = op[p].before
  <2>1. CASE journal' = journal /\ op[p].pc # "prepare"
    BY <2>1, JournaledFacts
  <2>2. ASSUME NEW st \in Stages, journal' = Record(p, st) PROVE <1>2
    BY <2>2, RecordFacts
  <2> QED BY <2>1, <2>2
<1>3. op[p].ran \cap masked = {} /\ (edits = 0 /\ "sensor" \in op[p].ran => Load(op[p].before).sensor)
  BY HeldRan
<1>4. RanOf'
  BY <1>2, <1>3 DEF RanOf, Load
<1>5. Steady'
  BY <1>2 DEF Steady
<1> QED BY <1>1, <1>4, <1>5, HolderServes

\* An apply under way: a unit that did not run stays down.
LEMMA EarlyUnits ==
    ASSUME Kept, Served, NEW p \in Managers, lock = p, op[p].pc \in Early \cup {"candidate_written", "activating"},
           NEW r, r.pc \in {"recheck", "write", "candidate_written", "activating", "apply"}, r.ran = op[p].ran,
           r.pc = "apply" => r.steps = A4, UNCHANGED svc
    PROVE  UnitsOf(r)'
<1>1. \A u \in Units : u \notin op[p].ran => svc[u] \in Down
  BY ServedFacts DEF UnitsOf, Early, Late
<1>2. A4 # A1 /\ A4 # A2 /\ A4 # A3
  BY ListsDiffer
<1>3. ~StoppedSensor(r) /\ ~RestartedDaemon(r) /\ ~HaltedSensor(r) /\ ~HaltedDaemon(r)
  BY <1>2 DEF StoppedSensor, RestartedDaemon, HaltedSensor, HaltedDaemon
<1> QED BY <1>1, <1>3 DEF UnitsOf

LEMMA ApplyServed ==
    ASSUME Kept, Served, NEW p \in Managers, Prepare(p) \/ Recheck(p) \/ WriteCandidate(p) \/ RecordStages(p)
    PROVE  Served'
<1>0. /\ lock = p /\ lock' = p /\ child[p] = None /\ UNCHANGED <<svc, masked, child, edits>>
      /\ op[p].pc \in Early \cup {"candidate_written", "activating"}
      /\ op \in [Managers -> OpRec] /\ op[p] \in OpRec /\ FilesOf(op[p])
  BY HolderFacts DEF Prepare, Recheck, WriteCandidate, RecordStages, At, Same, Early
<1>1. op[p].pc \in Journaled \cup {"prepare"} /\ op[p].cand # None
  BY <1>0 DEF Journaled, Early, Late, FilesOf
<1>2. ASSUME NEW r \in OpRec, op' = [op EXCEPT ![p] = r],
             \/ journal' = journal /\ op[p].pc # "prepare"
             \/ \E st \in Stages : journal' = Record(p, st),
             \/ r.pc \in Calm
             \/ /\ r.pc \in {"recheck", "write", "candidate_written", "activating", "apply"} /\ r.ran = op[p].ran
                /\ r.pc = "apply" => r.steps = A4
      PROVE  Served'
  <2>1. UnitsOf(r)'
    BY <1>0, <1>2, CalmUnits, EarlyUnits
  <2> QED BY <1>0, <1>1, <1>2, <2>1, JournalServes
<1>3. ASSUME NEW x \in {"recheck", "write", "candidate_written", "activating", "failed"}, Go(p, x),
             \/ journal' = journal /\ op[p].pc # "prepare"
             \/ \E st \in Stages : journal' = Record(p, st)
      PROVE  Served'
  <2>1. x \in Pcs
    BY <1>3 DEF Pcs
  <2>2. PICK r \in OpRec : op' = [op EXCEPT ![p] = r] /\ r.pc = x /\ r.ran = op[p].ran
    BY <1>3, <2>1, GoRec
  <2>3. r.pc \in Calm \/ r.pc \in {"recheck", "write", "candidate_written", "activating"}
    BY <2>2, <1>3 DEF Calm
  <2> QED BY <1>2, <1>3, <2>2, <2>3
<1>4. ASSUME Post(p, FALSE), \/ journal' = journal /\ op[p].pc # "prepare"
                             \/ \E st \in Stages : journal' = Record(p, st)
      PROVE  Served'
  <2>1. PICK b \in BOOLEAN : b = FALSE
    OBVIOUS
  <2>2. PICK r \in OpRec : op' = [op EXCEPT ![p] = r] /\ r.pc = "post"
    BY <1>4, <2>1, PostRec
  <2>3. r.pc \in Calm
    BY <2>2 DEF Calm
  <2> QED BY <1>2, <1>4, <2>2, <2>3
<1>5. CASE Prepare(p)
  <2>1. op[p].pc = "prepare" /\ UNCHANGED config
    BY <1>5 DEF Prepare, At
  <2>2. CASE journal' = Record(p, "prepared") /\ Go(p, "recheck")
    BY <1>3, <2>2, StageNames
  <2>3. CASE journal' = Record(p, "prepared") /\ Post(p, FALSE)
    BY <1>4, <2>3, StageNames
  <2>4. CASE journal' = journal /\ Post(p, FALSE)
    BY <1>0, <2>1, <2>4, PostServes
  <2> QED BY <1>5, <2>2, <2>3, <2>4 DEF Prepare, AfterFailedWrite
<1>6. CASE Recheck(p)
  <2>1. op[p].pc = "recheck" /\ UNCHANGED config /\ op[p].pc # "prepare"
    BY <1>6 DEF Recheck, At
  <2>2. CASE Go(p, "write") /\ UNCHANGED journal
    BY <1>3, <2>1, <2>2
  <2>3. CASE Post(p, FALSE) /\ UNCHANGED journal
    BY <1>4, <2>1, <2>3
  <2>4. CASE config # op[p].before /\ journal' = None /\ Post(p, FALSE)
    <3>1. PICK b \in BOOLEAN : b = FALSE
      OBVIOUS
    <3>2. PICK r \in OpRec : op' = [op EXCEPT ![p] = r] /\ r.pc = "post"
      BY <2>4, <3>1, PostRec
    <3>3. edits # 0
      BY <1>0, <2>1, <2>4 DEF FilesOf, Early
    <3>4. RanOf' /\ Steady'
      BY <1>0, <2>4, <3>3 DEF RanOf, Steady
    <3>5. UnitsOf(r)' /\ \A q \in Managers : child[q] = None
      BY <1>0, <3>2, CalmUnits, NoCommand DEF Calm
    <3> QED BY <1>0, <3>2, <3>4, <3>5, HolderServes
  <2> QED BY <1>6, <2>2, <2>3, <2>4 DEF Recheck
<1>7. CASE WriteCandidate(p)
  <2>1. op[p].pc # "prepare" /\ journal' = journal /\ (Go(p, "candidate_written") \/ Go(p, "failed"))
    BY <1>7 DEF WriteCandidate, At
  <2> QED BY <1>3, <2>1
<1>8. CASE RecordStages(p)
  <2>1. op[p].pc \in {"candidate_written", "activating"} /\ op[p].pc # "prepare"
    BY <1>8 DEF RecordStages
  <2>2. op[p].pc \in Stages
    BY <2>1, StageNames
  <2>3. CASE Go(p, "failed") /\ UNCHANGED journal
    BY <1>3, <2>1, <2>3
  <2>4. CASE journal' = Record(p, op[p].pc) /\ op' = [op EXCEPT ![p].pc = "activating"]
    BY <1>3, <2>2, <2>4 DEF Go
  <2>5. CASE journal' = Record(p, op[p].pc) /\ op' = [op EXCEPT ![p].pc = "apply", ![p].steps = ActivateSteps]
    <3>1. A4 \in StepLists /\ "apply" \in Pcs /\ MovedSteps(p, "apply", A4)
      BY <2>5, HeadsAndTails DEF StepLists, Pcs, MovedSteps
    <3>2. PICK r \in OpRec : op' = [op EXCEPT ![p] = r] /\ r.pc = "apply" /\ r.steps = A4 /\ r.ran = op[p].ran
      BY <1>0, <3>1, MovedStepsRec
    <3> QED BY <1>2, <2>2, <2>5, <3>2
  <2> QED BY <1>8, <2>1, <2>3, <2>4, <2>5 DEF RecordStages
<1> QED BY <1>5, <1>6, <1>7, <1>8

\* The last step of an apply or a rollback: the journal may go, the units are as it promised.
LEMMA ClosingServes ==
    ASSUME Kept, Served, NEW p \in Managers, NEW b \in BOOLEAN, Post(p, b), lock = p, lock' = p, child[p] = None,
           op[p].pc \in {"commit", "restored"}, UNCHANGED <<config, svc, masked, child, edits>>,
           \/ journal' \in {journal, None}
           \/ \E st \in Stages : journal' = Record(p, st)
    PROVE  Served'
<1>0. op \in [Managers -> OpRec] /\ op[p] \in OpRec /\ FilesOf(op[p]) /\ Shape /\ UnitsOf(op[p]) /\ RanOf
  BY HolderFacts, ServedFacts
<1>1. op[p].pc \in Journaled /\ op[p].cand # None /\ op[p].pc # "prepare"
  BY <1>0 DEF Journaled, Early, Late, Undo, FilesOf
<1>2. PICK r \in OpRec : op' = [op EXCEPT ![p] = r] /\ r.pc = "post"
  BY PostRec
<1>3. UnitsOf(r)' /\ \A q \in Managers : child[q] = None
  BY <1>2, CalmUnits, NoCommand DEF Calm
<1>4. CASE journal' = journal \/ \E st \in Stages : journal' = Record(p, st)
  BY <1>1, <1>2, <1>3, <1>4, JournalServes
<1>5. CASE journal' = None
  <2>1. RanOf'
    BY <1>5 DEF RanOf
  <2>2. ASSUME edits = 0, svc.daemon = "active" PROVE svc.loaded = config
    BY <1>0, <2>2 DEF UnitsOf, RestartedDaemon
  <2>3. ASSUME edits = 0, svc.sensor \notin Down PROVE Load(config).sensor
    <3>1. CASE op[p].pc = "commit"
      <4>1. config = op[p].cand /\ config # None
        BY <1>0, <1>1, <2>3, <3>1 DEF FilesOf, Late
      <4>2. op[p].cand.sensor
        BY <1>0, <2>3, <3>1 DEF UnitsOf, StoppedSensor
      <4> QED BY <4>1, <4>2 DEF Load
    <3>2. CASE op[p].pc = "restored"
      <4>1. config = op[p].before
        BY <1>0, <2>3, <3>2 DEF FilesOf
      <4>2. "sensor" \in op[p].ran
        BY <1>0, <2>3, <3>2 DEF UnitsOf, HaltedSensor
      <4> QED BY <1>1, <2>3, <4>1, <4>2, HeldRan
    <3> QED BY <3>1, <3>2
  <2>4. (\A q \in Managers : child[q] = None)'
    BY <1>3
  <2>5. Steady'
    <3> SUFFICES ASSUME edits = 0 PROVE Steady'
      BY DEF Steady
    <3>1. svc'.daemon = "active" => svc'.loaded = config'
      BY <2>2
    <3>2. svc'.sensor \notin Down => Load(config').sensor
      BY <2>3
    <3> QED BY <2>4, <3>1, <3>2 DEF Steady, Load
  <2> QED BY <1>2, <1>3, <2>1, <2>5, HolderServes
<1> QED BY <1>4, <1>5

LEMMA RollbackServed ==
    ASSUME Kept, Served, NEW p \in Managers,
           Commit(p) \/ ApplyFailed(p) \/ RollbackCheck(p) \/ RestoreConfig(p) \/ Restored(p)
    PROVE  Served'
<1>0. /\ lock = p /\ lock' = p /\ child[p] = None /\ UNCHANGED <<svc, masked, child, edits>>
      /\ op[p].pc \in {"commit", "failed", "rollback", "restore", "restored"}
      /\ op \in [Managers -> OpRec] /\ op[p] \in OpRec /\ FilesOf(op[p])
  BY HolderFacts DEF Commit, ApplyFailed, RollbackCheck, RestoreConfig, Restored, At, Same
<1>1. op[p].pc \in Journaled /\ op[p].cand # None /\ op[p].pc # "prepare"
  BY <1>0 DEF Journaled, Late, Undo, FilesOf
<1>2. ASSUME NEW r \in OpRec, op' = [op EXCEPT ![p] = r],
             journal' = journal \/ \E st \in Stages : journal' = Record(p, st),
             r.pc \in Calm \/ (r.pc = "restoring" /\ r.steps = R6)
      PROVE  Served'
  <2>1. CASE r.pc \in Calm
    <3>1. UnitsOf(r)'
      BY <2>1, CalmUnits
    <3> QED BY <1>0, <1>1, <1>2, <3>1, JournalServes
  <2>2. CASE r.pc = "restoring" /\ r.steps = R6
    <3>1. ~StoppedSensor(r) /\ ~RestartedDaemon(r) /\ ~HaltedSensor(r) /\ ~HaltedDaemon(r)
      BY <2>2, ListsDiffer DEF StoppedSensor, RestartedDaemon, HaltedSensor, HaltedDaemon
    <3>2. UnitsOf(r)'
      BY <2>2, <3>1 DEF UnitsOf, Early, Late
    <3> QED BY <1>0, <1>1, <1>2, <3>2, JournalServes
  <2> QED BY <1>2, <2>1, <2>2
<1>3. ASSUME NEW x \in {"rollback", "restore"}, Go(p, x), journal' = journal \/ \E st \in Stages : journal' = Record(p, st)
      PROVE  Served'
  <2>1. x \in Pcs
    BY <1>3 DEF Pcs
  <2>2. PICK r \in OpRec : op' = [op EXCEPT ![p] = r] /\ r.pc = x
    BY <1>3, <2>1, GoRec
  <2>3. r.pc \in Calm
    BY <2>2, <1>3 DEF Calm
  <2> QED BY <1>2, <1>3, <2>2, <2>3
<1>4. ASSUME Post(p, FALSE), journal' = journal \/ \E st \in Stages : journal' = Record(p, st) PROVE Served'
  <2>1. PICK b \in BOOLEAN : b = FALSE
    OBVIOUS
  <2>2. PICK r \in OpRec : op' = [op EXCEPT ![p] = r] /\ r.pc = "post"
    BY <1>4, <2>1, PostRec
  <2>3. r.pc \in Calm
    BY <2>2 DEF Calm
  <2> QED BY <1>2, <1>4, <2>2, <2>3
<1>5. CASE Commit(p)
  <2>1. op[p].pc = "commit" /\ UNCHANGED config /\ journal' \in {journal, None}
    BY <1>5 DEF Commit, At, AfterFailedRemove
  <2>2. PICK b \in BOOLEAN : Post(p, b)
    BY <1>5 DEF Commit
  <2> QED BY <1>0, <2>1, <2>2, ClosingServes
<1>6. CASE ApplyFailed(p)
  BY <1>3, <1>6, StageNames DEF ApplyFailed
<1>7. CASE RollbackCheck(p)
  <2>1. CASE journal' = Record(p, "recovering") /\ Go(p, "restore")
    BY <1>3, <2>1, StageNames
  <2>2. CASE Post(p, FALSE) /\ UNCHANGED journal
    BY <1>4, <2>2
  <2> QED BY <1>7, <2>1, <2>2 DEF RollbackCheck
<1>8. CASE RestoreConfig(p)
  <2>1. CASE Post(p, FALSE) /\ journal' \in {journal, Record(p, "failed")}
    BY <1>4, <2>1, StageNames
  <2>2. CASE journal' = Record(p, "config_restored") /\ op' = [op EXCEPT ![p].pc = "restoring", ![p].steps = RestoreSteps]
    <3>1. R6 \in StepLists /\ "restoring" \in Pcs /\ MovedSteps(p, "restoring", R6)
      BY <2>2, HeadsAndTails DEF StepLists, Pcs, MovedSteps
    <3>2. PICK r \in OpRec : op' = [op EXCEPT ![p] = r] /\ r.pc = "restoring" /\ r.steps = R6
      BY <1>0, <3>1, MovedStepsRec
    <3> QED BY <1>2, <2>2, <3>2, StageNames
  <2> QED BY <1>8, <2>1, <2>2 DEF RestoreConfig
<1>9. CASE Restored(p)
  <2>1. op[p].pc = "restored" /\ UNCHANGED config
    BY <1>9 DEF Restored, At
  <2>2. journal' \in {journal, None} \/ \E st \in Stages : journal' = Record(p, st)
    BY <1>9, StageNames DEF Restored, AfterFailedRemove
  <2>3. PICK b \in BOOLEAN : Post(p, b)
    <3>1. PICK c \in BOOLEAN : c = (op[p].kind = "recover")
      OBVIOUS
    <3>2. Post(p, c) \/ Post(p, FALSE)
      BY <1>9, <3>1 DEF Restored
    <3> QED BY <3>2
  <2> QED BY <1>0, <2>1, <2>2, <2>3, ClosingServes
<1> QED BY <1>5, <1>6, <1>7, <1>8, <1>9

LEMMA ServiceActionServed ==
    ASSUME Kept, Served, NEW p \in Managers, NEW k \in {"stop", "restart", "start"}, ServiceAction(p, k)
    PROVE  Served'
<1>0. /\ ~Locked /\ lock' = p /\ UNCHANGED <<config, journal, svc, masked, child, edits>>
      /\ op \in [Managers -> OpRec] /\ Shape
  BY FreeFacts DEF ServiceAction
<1>1. PICK d \in RanSets : d = IF k = "stop" THEN {} ELSE {u \in Units : Running(u)}
  BY DEF RanSets
<1>2. PICK e \in StepLists : e = CASE k = "stop" -> <<"haltSensor", "haltDaemon">>
                                   [] k = "restart" -> ActivateSteps
                                   [] OTHER -> <<"startDaemon", "startSensor", "sensorOff", "ready">>
  <2>1. H2 \in StepLists /\ A4 \in StepLists /\ D4 \in StepLists /\ ActivateSteps = A4
    BY HeadsAndTails DEF StepLists
  <2>2. H2 = <<"haltSensor", "haltDaemon">> /\ D4 = <<"startDaemon", "startSensor", "sensorOff", "ready">>
    BY DEF H2, D4
  <2> QED BY <2>1, <2>2
<1>3. PICK c \in MaybeConfig : c = Load(config)
  BY <1>0, RefsFacts DEF Shape, MaybeConfig
<1>4. "service" \in Pcs /\ k \in OpKinds
  BY DEF Pcs, OpKinds
<1>5. Serving(p, "service", k, c, d, e)
  BY <1>1, <1>2, <1>3 DEF ServiceAction, Serving
<1>6. PICK r \in OpRec : op' = [op EXCEPT ![p] = r] /\ r.pc = "service" /\ r.cand = c
  BY <1>0, <1>4, <1>5, ServingRec
<1>7. RanOf /\ Steady /\ (\A q \in Managers : child[q] = None)
  BY <1>0, NoCommand, ServedFacts
<1>8. (\A q \in Managers : child[q] = None)'
  BY <1>0, <1>7
<1>9. RanOf' /\ Steady'
  BY <1>0, <1>7, <1>8, RanSame, SteadySame
<1>10. UnitsOf(r)'
  BY <1>0, <1>3, <1>6 DEF UnitsOf, Early, Late, StoppedSensor, RestartedDaemon, HaltedSensor, HaltedDaemon, Load
<1> QED BY <1>0, <1>6, <1>7, <1>9, <1>10, HolderServes

LEMMA CommandsSame ==
    ASSUME OneCommand, UNCHANGED <<op, lock, child, masked>>
    PROVE  OneCommand'
BY DEF OneCommand, ServicePhase, CommandOf, SensorBack

LEMMA ExternalEditServed ==
    ASSUME Kept, Served, ExternalEdit
    PROVE  Served'
<1>0. /\ OneCommand /\ RanOf /\ edits \in Nat /\ edits' = edits + 1
      /\ UNCHANGED <<journal, svc, masked, op, lock, child, faults>>
  BY ServedFacts DEF Kept, OnDisk, Shape, ExternalEdit
<1>1. edits' # 0
  BY <1>0
<1>2. OneCommand'
  BY <1>0, CommandsSame
<1>3. RanOf' /\ Steady'
  BY <1>0, <1>1 DEF RanOf, Steady
<1>4. ASSUME NEW q \in Managers, lock' = q PROVE UnitsOf(op[q])'
  <2>1. UnitsOf(op[q])
    BY <1>0, <1>4, ServedFacts
  <2> QED BY <1>0, <1>1, <2>1 DEF UnitsOf, StoppedSensor, RestartedDaemon, HaltedSensor, HaltedDaemon
<1> QED BY <1>2, <1>3, <1>4 DEF Served

\* A unit never comes up on its own unless it was on its way: what must stay down does.
LEMMA UnitMovesServed ==
    ASSUME Kept, Served, NEW u \in Units, ServiceDies(u) \/ ServiceReturns(u)
    PROVE  Served'
<1>0. /\ OneCommand /\ RanOf /\ Steady /\ Shape /\ svc \in Svc /\ u \in {"daemon", "sensor"}
      /\ UNCHANGED <<config, journal, masked, op, lock, child, edits>>
  BY ServedFacts DEF Kept, OnDisk, Shape, ServiceDies, ServiceReturns, counters, Units
<1>1. OneCommand' /\ RanOf'
  BY <1>0, CommandsSame, RanSame
<1>2. PICK s \in {"failed", "activating", "active"}, l \in MaybeConfig :
        /\ svc' = [svc EXCEPT ![u] = s, !.loaded = l]
        /\ svc[u] \in {"active", "activating"}
        /\ s = "active" => faults' = faults
        /\ s # "active" => svc[u] = "active" /\ faults' # 0
        /\ u = "daemon" /\ s = "active" => l = config
        /\ u = "sensor" => l = svc.loaded
  <2>0. svc.loaded \in MaybeConfig /\ None \in MaybeConfig /\ config \in MaybeConfig
    BY <1>0, SvcFields, NoneInSets DEF Shape
  <2>1. CASE ServiceDies(u)
    <3>1. faults' # 0 /\ svc[u] = "active"
      BY <1>0, <2>1, FaultCounts DEF ServiceDies, Running
    <3>2. PICK s \in {"failed", "activating"} : svc' = [svc EXCEPT ![u] = s, !.loaded = IF u = "daemon" THEN None ELSE @]
      BY <2>1 DEF ServiceDies
    <3>3. PICK l \in MaybeConfig : l = IF u = "daemon" THEN None ELSE svc.loaded
      BY <2>0
    <3>4. svc' = [svc EXCEPT ![u] = s, !.loaded = l]
      BY <1>0, <3>2, <3>3 DEF Svc
    <3> QED BY <1>0, <3>1, <3>2, <3>3, <3>4
  <2>2. CASE ServiceReturns(u)
    <3>1. svc[u] = "activating" /\ svc' = [svc EXCEPT ![u] = "active", !.loaded = IF u = "daemon" THEN config ELSE @]
          /\ faults' = faults
      BY <2>2 DEF ServiceReturns, counters
    <3>3. PICK l \in MaybeConfig : l = IF u = "daemon" THEN config ELSE svc.loaded
      BY <2>0
    <3>4. svc' = [svc EXCEPT ![u] = "active", !.loaded = l]
      BY <1>0, <3>1, <3>3 DEF Svc
    <3> QED BY <1>0, <3>1, <3>3, <3>4
  <2> QED BY <2>1, <2>2
<1>3. /\ u = "daemon" => svc'.sensor = svc.sensor /\ svc'.daemon = s /\ svc'.loaded = l /\ svc.daemon \in {"active", "activating"}
      /\ u = "sensor" => svc'.daemon = svc.daemon /\ svc'.sensor = s /\ svc'.loaded = svc.loaded /\ svc.sensor \in {"active", "activating"}
      /\ svc'["daemon"] = svc'.daemon /\ svc'["sensor"] = svc'.sensor
      /\ svc["daemon"] = svc.daemon /\ svc["sensor"] = svc.sensor
  BY <1>0, <1>2 DEF Svc
<1>4. Steady'
  BY <1>0, <1>2, <1>3 DEF Steady, Down, Load
<1>5. ASSUME NEW q \in Managers, lock' = q PROVE UnitsOf(op[q])'
  <2>0. UnitsOf(op[q])
    BY <1>0, <1>5, ServedFacts
  <2>1. /\ svc.sensor \in Down => svc'.sensor \in Down
        /\ svc.daemon \in Down => svc'.daemon \in Down
        /\ svc'.daemon = "active" => svc'.loaded = config \/ (svc.daemon = "active" /\ svc'.loaded = svc.loaded)
    BY <1>0, <1>2, <1>3 DEF Down
  <2>2. \A v \in Units : svc[v] \in Down => svc'[v] \in Down
    BY <1>3, <2>1 DEF Units
  <2>3. faults' = 0 => \A v \in Units : svc[v] = "active" => svc'[v] = "active"
    BY <1>0, <1>2, <1>3 DEF Units
  <2>4. faults' = 0 => faults = 0
    BY <1>0, <1>2
  <2>5. op[q].ran \subseteq Units
    BY FreeFacts, RecFields DEF RanSets
  <2> QED BY ZenonT(40), <1>0, <2>0, <2>1, <2>2, <2>3, <2>4, <2>5
          DEF UnitsOf, StoppedSensor, RestartedDaemon, HaltedSensor, HaltedDaemon
<1> QED BY <1>1, <1>4, <1>5 DEF Served

\* What the first remaining step of p has done to the units when it is done.
Did(p) ==
    LET s == Head(op[p].steps)
    IN /\ s = "haltSensor" /\ "sensor" \notin op[p].ran => svc'.sensor \in Down
       /\ s = "haltDaemon" /\ "daemon" \notin op[p].ran => svc'.daemon \in Down
       /\ s = "stopSensor" /\ "sensor" \in op[p].ran => svc'.sensor \in Down
       /\ s = "restartDaemon" /\ "daemon" \in op[p].ran /\ svc'.daemon = "active" => svc'.loaded = config
       /\ \/ svc'.sensor \in Down \/ svc'.sensor = svc.sensor
          \/ s = "startSensor" /\ SensorBack(p)
       /\ \/ svc'.daemon \in Down
          \/ svc'.daemon = svc.daemon /\ svc'.loaded = svc.loaded
          \/ s = "restartDaemon" /\ "daemon" \in op[p].ran
          \/ op[p].pc = "service"
       /\ s = "ready" => /\ UNCHANGED svc
                         /\ op[p].pc = "restoring" => \A u \in op[p].ran : svc[u] = "active"

LEMMA StepDoneUnits ==
    ASSUME Kept, Served, NEW p \in Managers, lock = p, op[p].pc \in {"apply", "restoring", "service"},
           op' = StepDone(p), Did(p), svc \in Svc, svc' \in Svc, UNCHANGED <<config, journal, masked, edits>>
    PROVE  \E r \in OpRec : op' = [op EXCEPT ![p] = r] /\ UnitsOf(r)'
<1>0. op \in [Managers -> OpRec] /\ op[p] \in OpRec /\ FilesOf(op[p]) /\ UnitsOf(op[p])
  BY HolderFacts, ServedFacts
<1>1. StepsFit(op[p]) /\ op[p].steps # <<>>
  <2>1. StepsFit(op[p]) /\ op[p].steps \in ApplyLists \cup RestoreLists \cup StopLists \cup StartLists
    BY <1>0 DEF FilesOf, StepsFit
  <2> QED BY <2>1, ListsNotEmpty
<1>2. PICK r \in OpRec :
        /\ op' = [op EXCEPT ![p] = r] /\ r.steps = Tail(op[p].steps)
        /\ r.pc = IF Tail(op[p].steps) # <<>> THEN op[p].pc
                  ELSE CASE op[p].pc = "apply" -> "commit" [] op[p].pc = "restoring" -> "restored" [] OTHER -> "post"
        /\ r.kind = op[p].kind /\ r.cand = op[p].cand /\ r.before = op[p].before /\ r.ran = op[p].ran
  BY <1>0, <1>1, StepDoneRec
<1>3. /\ svc["daemon"] = svc.daemon /\ svc["sensor"] = svc.sensor
      /\ svc'["daemon"] = svc'.daemon /\ svc'["sensor"] = svc'.sensor
  BY SvcFields
<1>4. UnitsOf(r)'
  <2>1. CASE op[p].pc = "service"
    <3>1. r.pc \in {"service", "post"}
      BY <1>2, <2>1
    <3> QED BY <1>0, <1>2, <2>1, <3>1
            DEF UnitsOf, Early, Late, StoppedSensor, RestartedDaemon, HaltedSensor, HaltedDaemon, Load
  <2>2. CASE op[p].pc = "apply"
    <3>0. \A u \in Units : u \notin op[p].ran => svc[u] \in Down
      BY <1>0, <2>2 DEF UnitsOf, Late
    <3>1. op[p].steps \in {A1, A2, A3, A4}
      BY <1>1, <2>2 DEF StepsFit, ApplyLists
    <3>2. SensorBack(p) => op[p].cand.sensor /\ "sensor" \in op[p].ran
      BY <2>2 DEF SensorBack
    <3>3. CASE op[p].steps = A4
      BY ZenonT(40), <1>0, <1>2, <1>3, <2>2, <3>0, <3>2, <3>3, HeadsAndTails, ListsDiffer, ListsNotEmpty
         DEF UnitsOf, Did, Early, Late, StoppedSensor, RestartedDaemon, HaltedSensor, HaltedDaemon, Units, ApplyLists
    <3>4. CASE op[p].steps = A3
      BY <1>0, <1>2, <1>3, <2>2, <3>0, <3>2, <3>4, HeadsAndTails, ListsDiffer, ListsNotEmpty
         DEF UnitsOf, Did, Early, Late, StoppedSensor, RestartedDaemon, HaltedSensor, HaltedDaemon, Units, ApplyLists, Down
    <3>5. CASE op[p].steps = A2
      BY <1>0, <1>2, <1>3, <2>2, <3>0, <3>2, <3>5, HeadsAndTails, ListsDiffer, ListsNotEmpty
         DEF UnitsOf, Did, Early, Late, StoppedSensor, RestartedDaemon, HaltedSensor, HaltedDaemon, Units, ApplyLists, Down
    <3>6. CASE op[p].steps = A1
      BY <1>0, <1>2, <1>3, <2>2, <3>0, <3>2, <3>6, HeadsAndTails, ListsDiffer, ListsNotEmpty
         DEF UnitsOf, Did, Early, Late, StoppedSensor, RestartedDaemon, HaltedSensor, HaltedDaemon, Units, ApplyLists
    <3> QED BY <3>1, <3>3, <3>4, <3>5, <3>6
  <2>3. CASE op[p].pc = "restoring"
    <3>1. op[p].steps \in {A1, A2, A3, A4, R5, R6}
      BY <1>1, <2>3 DEF StepsFit, RestoreLists
    <3>2. SensorBack(p) => "sensor" \in op[p].ran
      BY <2>3 DEF SensorBack
    <3>3. ~StoppedSensor(r) /\ r.pc \in {"restoring", "restored"}
      BY <1>2, <2>3 DEF StoppedSensor
    <3>4. CASE op[p].steps = R6
      BY <1>0, <1>2, <1>3, <2>3, <3>2, <3>3, <3>4, HeadsAndTails, ListsDiffer, ListsNotEmpty
         DEF UnitsOf, Did, Early, Late, RestartedDaemon, HaltedSensor, HaltedDaemon, RestoreLists
    <3>5. CASE op[p].steps = R5
      BY ZenonT(40), <1>0, <1>2, <1>3, <2>3, <3>2, <3>3, <3>5, HeadsAndTails, ListsDiffer, ListsNotEmpty
         DEF UnitsOf, Did, Early, Late, RestartedDaemon, HaltedSensor, HaltedDaemon, RestoreLists
    <3>6. CASE op[p].steps = A4
      BY ZenonT(40), <1>0, <1>2, <1>3, <2>3, <3>2, <3>3, <3>6, HeadsAndTails, ListsDiffer, ListsNotEmpty
         DEF UnitsOf, Did, Early, Late, RestartedDaemon, HaltedSensor, HaltedDaemon, RestoreLists
    <3>7. CASE op[p].steps = A3
      BY ZenonT(40), <1>0, <1>2, <1>3, <2>3, <3>2, <3>3, <3>7, HeadsAndTails, ListsDiffer, ListsNotEmpty
         DEF UnitsOf, Did, Early, Late, RestartedDaemon, HaltedSensor, HaltedDaemon, RestoreLists, Down
    <3>8. CASE op[p].steps = A2
      <4>1. Head(op[p].steps) = "startSensor" /\ r.steps = A1 /\ A1 # <<>> /\ r.pc = "restoring"
        BY <1>2, <2>3, <3>8, HeadsAndTails, ListsNotEmpty DEF ApplyLists
      <4>2. /\ "sensor" \notin op[p].ran => svc'.sensor \in Down \/ svc'.sensor = svc.sensor
            /\ svc'.daemon \in Down \/ (svc'.daemon = svc.daemon /\ svc'.loaded = svc.loaded)
        BY <2>3, <3>2, <4>1 DEF Did
      <4>3. /\ edits = 0 /\ svc.daemon = "active" => svc.loaded = config
            /\ "sensor" \notin op[p].ran => svc.sensor \in Down
            /\ "daemon" \notin op[p].ran => svc.daemon \in Down
        BY <1>0, <2>3, <3>8, ListsDiffer DEF UnitsOf, RestartedDaemon, HaltedSensor, HaltedDaemon
      <4>4. /\ edits = 0 /\ svc'.daemon = "active" => svc'.loaded = config
            /\ "sensor" \notin op[p].ran => svc'.sensor \in Down
            /\ "daemon" \notin op[p].ran => svc'.daemon \in Down
        BY <4>2, <4>3 DEF Down
      <4> QED BY <1>2, <3>3, <4>1, <4>4 DEF UnitsOf, Early, Late
    <3>9. CASE op[p].steps = A1
      BY <1>0, <1>2, <1>3, <2>3, <3>2, <3>3, <3>9, HeadsAndTails, ListsDiffer, ListsNotEmpty
         DEF UnitsOf, Did, Early, Late, RestartedDaemon, HaltedSensor, HaltedDaemon, RestoreLists
    <3> QED BY <3>1, <3>4, <3>5, <3>6, <3>7, <3>8, <3>9
  <2> QED BY <2>1, <2>2, <2>3
<1> QED BY <1>2, <1>4

\* After a failed step the operation assumes nothing more.
LEMMA StepFailsCalm ==
    ASSUME Kept, NEW p \in Managers, op[p].pc \in {"apply", "restoring", "service"}, lock = p, StepFails(p)
    PROVE  /\ \E r \in OpRec : op' = [op EXCEPT ![p] = r] /\ r.pc \in Calm
           /\ journal' = journal \/ (op[p].pc = "restoring" /\ journal' = Record(p, "failed"))
<1>0. op \in [Managers -> OpRec] /\ op[p] \in OpRec
  BY FreeFacts
<1>1. ASSUME Post(p, FALSE) PROVE \E r \in OpRec : op' = [op EXCEPT ![p] = r] /\ r.pc \in Calm
  <2>1. PICK b \in BOOLEAN : b = FALSE
    OBVIOUS
  <2>2. PICK r \in OpRec : op' = [op EXCEPT ![p] = r] /\ r.pc = "post"
    BY <1>1, <2>1, PostRec
  <2> QED BY <2>2 DEF Calm
<1>2. CASE op[p].pc = "apply"
  <2>1. op' = [op EXCEPT ![p].pc = "failed", ![p].steps = <<>>, ![p].retried = FALSE] /\ UNCHANGED journal
    BY <1>2 DEF StepFails
  <2>2. PICK f \in BOOLEAN : f = FALSE
    OBVIOUS
  <2>3. "failed" \in Pcs /\ <<>> \in StepLists /\ MovedFailed(p, "failed", <<>>, f)
    BY <2>1, <2>2 DEF Pcs, StepLists, MovedFailed
  <2>4. PICK r \in OpRec : op' = [op EXCEPT ![p] = r] /\ r.pc = "failed"
    BY <1>0, <2>3, MovedFailedRec
  <2> QED BY <2>1, <2>4 DEF Calm
<1>3. CASE op[p].pc = "restoring"
  BY <1>1, <1>3 DEF StepFails
<1>4. CASE op[p].pc = "service"
  BY <1>1, <1>4 DEF StepFails
<1> QED BY <1>2, <1>3, <1>4

LEMMA JournalOf ==
    ASSUME Kept, NEW p \in Managers, lock = p, op[p].pc \in {"apply", "restoring"}
    PROVE  journal # None /\ op[p].pc \in Journaled /\ op[p].cand # None
<1>1. op[p].pc \in Journaled
  BY DEF Journaled, Late, Undo
<1> QED BY <1>1, JournaledFacts

\* A step that needs no command, and the wait for readiness, leave the units as they are.
LEMMA QuietDid ==
    ASSUME Kept, Served, NEW p \in Managers, lock = p, op[p].pc \in {"apply", "restoring", "service"}, UNCHANGED svc,
           \/ Head(op[p].steps) # "ready" /\ CommandOf(p, Head(op[p].steps)) = None
           \/ /\ Head(op[p].steps) = "ready"
              /\ ReadyWith(p, IF op[p].pc = "restoring" THEN op[p].before ELSE op[p].cand)
    PROVE  Did(p)
<1>1. <<"stop", "sensor">> \in Commands /\ <<"stop", "daemon">> \in Commands /\ <<"restart", "daemon">> \in Commands
  BY DEF Commands, Units
<1>2. <<"stop", "sensor">> # None /\ <<"stop", "daemon">> # None /\ <<"restart", "daemon">> # None
  BY <1>1, ConfigAssumption
<1>3. ASSUME Head(op[p].steps) # "ready", CommandOf(p, Head(op[p].steps)) = None PROVE Did(p)
  BY <1>2, <1>3 DEF CommandOf, Did
<1>4. ASSUME Head(op[p].steps) = "ready", ReadyWith(p, IF op[p].pc = "restoring" THEN op[p].before ELSE op[p].cand)
      PROVE  Did(p)
  <2>1. ASSUME op[p].pc = "restoring", NEW u \in op[p].ran PROVE svc[u] = "active"
    <3>1. u \in {"daemon", "sensor"}
      BY FreeFacts, RecFields DEF RanSets, Units
    <3>2. "sensor" \in op[p].ran => SensorBack(p)
      <4>1. op[p].ran \cap masked = {}
        BY <2>1, JournalOf, HeldRan
      <4> QED BY <2>1, <4>1 DEF SensorBack
    <3> QED BY <1>4, <3>1, <3>2 DEF ReadyWith, Running
  <2> QED BY <1>4, <2>1 DEF Did
<1> QED BY <1>3, <1>4

LEMMA IssueServed ==
    ASSUME Kept, Served, NEW p \in Managers, Issue(p)
    PROVE  Served'
<1>0. /\ op \in [Managers -> OpRec] /\ op[p] \in OpRec /\ Shape /\ svc \in Svc
      /\ lock = p /\ lock' = p /\ child[p] = None /\ op[p].pc \in {"apply", "restoring", "service"}
      /\ UNCHANGED <<config, masked, edits, svc>>
  BY HolderFacts DEF Issue, At, Same, ServicePhase, Shape
<1>1. /\ OneCommand /\ RanOf /\ Steady /\ UnitsOf(op[p]) /\ FilesOf(op[p])
      /\ \A q \in Managers : child[q] = None
  BY <1>0, NoCommand, ServedFacts, HolderFacts
<1>2. PICK step : step = Head(op[p].steps)
  OBVIOUS
<1>3. ASSUME CommandOf(p, step) # None, child' = [child EXCEPT ![p] = CommandOf(p, step)], UNCHANGED <<op, journal, faults>>
      PROVE  Served'
  <2>0. child \in [Managers -> Commands \cup {None}]
    BY <1>0 DEF Shape
  <2>1. child'[p] = CommandOf(p, step) /\ \A q \in Managers : q # p => child'[q] = None
    BY <1>1, <1>3, <2>0
  <2>2. OneCommand'
    <3>1. (ServicePhase(p) /\ child[p] = CommandOf(p, Head(op[p].steps)))'
      BY <1>0, <1>2, <1>3, <2>1 DEF ServicePhase, CommandOf, SensorBack
    <3>2. \A q \in Managers : child'[q] # None => q = p
      BY <2>1
    <3> QED BY <1>0, <3>1, <3>2 DEF OneCommand
  <2>3. RanOf'
    BY <1>0, <1>1, <1>3 DEF RanOf
  <2>4. Steady'
    <3>1. ASSUME journal = None, edits = 0, child'[p][2] = "sensor", child'[p][1] # "stop" PROVE Load(config).sensor
      <4>1. op[p].pc = "service"
        BY <1>0, <3>1, JournalOf
      <4>2. op[p].cand = Load(config)
        BY <1>1, <3>1, <4>1 DEF UnitsOf
      <4>3. step = "startSensor" /\ SensorBack(p)
        BY <1>3, <2>1, <3>1 DEF CommandOf
      <4> QED BY <4>1, <4>2, <4>3 DEF SensorBack
    <3>2. ASSUME NEW q \in Managers, child'[q] # None, child'[q][2] = "sensor", child'[q][1] # "stop", journal = None, edits = 0
          PROVE  Load(config).sensor
      BY <2>1, <3>1, <3>2
    <3> QED BY <1>0, <1>1, <1>3, <3>2 DEF Steady, Load
  <2>5. ASSUME NEW q \in Managers, lock' = q PROVE UnitsOf(op[q])'
    <3>1. UnitsOf(op[q])
      BY <1>0, <1>1, <2>5
    <3> QED BY <1>0, <1>3, <3>1 DEF UnitsOf, StoppedSensor, RestartedDaemon, HaltedSensor, HaltedDaemon
  <2> QED BY <2>2, <2>3, <2>4, <2>5 DEF Served
<1>4. ASSUME op' = StepDone(p), UNCHANGED <<child, journal, faults>>, Did(p) PROVE Served'
  <2>1. PICK r \in OpRec : op' = [op EXCEPT ![p] = r] /\ UnitsOf(r)'
    BY <1>0, <1>4, StepDoneUnits
  <2>2. (\A q \in Managers : child[q] = None)'
    BY <1>1, <1>4
  <2>3. RanOf' /\ Steady'
    BY <1>0, <1>1, <1>4, <2>2, RanSame, SteadySame
  <2> QED BY <1>0, <1>1, <1>4, <2>1, <2>3, HolderServes
<1>5. ASSUME StepFails(p), UNCHANGED child PROVE Served'
  <2>1. PICK r \in OpRec : op' = [op EXCEPT ![p] = r] /\ r.pc \in Calm
    BY <1>0, <1>5, StepFailsCalm
  <2>2. journal' = journal \/ (op[p].pc = "restoring" /\ journal' = Record(p, "failed"))
    BY <1>0, <1>5, StepFailsCalm
  <2>3. CASE journal' = journal
    BY <1>0, <1>5, <2>1, <2>3, CalmServes
  <2>4. CASE op[p].pc = "restoring" /\ journal' = Record(p, "failed")
    <3>1. op[p].pc \in Journaled /\ op[p].cand # None /\ UnitsOf(r)'
      BY <1>0, <2>1, <2>4, JournalOf, CalmUnits
    <3> QED BY <1>0, <1>5, <2>1, <2>4, <3>1, JournalServes, StageNames
  <2> QED BY <2>2, <2>3, <2>4
<1>6. ASSUME op' = StepDone(p), UNCHANGED <<child, journal, faults>>,
             \/ step # "ready" /\ CommandOf(p, step) = None
             \/ /\ step = "ready"
                /\ ReadyWith(p, IF op[p].pc = "restoring" THEN op[p].before ELSE op[p].cand)
      PROVE  Served'
  <2>1. Did(p)
    BY <1>0, <1>2, <1>6, QuietDid
  <2> QED BY <1>4, <1>6, <2>1
<1> QED BY <1>2, <1>3, <1>5, <1>6 DEF Issue

\* A command that took effect has done the step it was issued for.
LEMMA CommandDid ==
    ASSUME Kept, NEW p \in Managers, lock = p, op[p].pc \in {"apply", "restoring", "service"}, Shape,
           NEW cmd \in Commands, cmd = CommandOf(p, Head(op[p].steps)), svc' = Effect(cmd)
    PROVE  Did(p)
<1>1. cmd # None
  BY ConfigAssumption
<1>2. PICK s : s = Head(op[p].steps)
  OBVIOUS
<1>3. s = "startDaemon" => op[p].pc = "service"
  <2>1. StepsFit(op[p])
    BY HolderFacts DEF FilesOf
  <2>2. op[p].pc # "service" => op[p].steps \in {A1, A2, A3, A4, R5, R6}
    BY <2>1 DEF StepsFit, ApplyLists, RestoreLists
  <2> QED BY <1>2, <2>2, HeadsAndTails
<1>4. \/ s \in {"haltSensor", "stopSensor", "sensorOff"} /\ cmd[1] = "stop" /\ cmd[2] = "sensor"
      \/ s = "haltDaemon" /\ cmd[1] = "stop" /\ cmd[2] = "daemon"
      \/ s = "restartDaemon" /\ cmd[1] = "restart" /\ cmd[2] = "daemon" /\ "daemon" \in op[p].ran
      \/ s = "startDaemon" /\ cmd[1] = "start" /\ cmd[2] = "daemon"
      \/ s = "startSensor" /\ cmd[1] = "start" /\ cmd[2] = "sensor" /\ SensorBack(p)
  BY <1>1, <1>2 DEF CommandOf
<1>5. "inactive" \in Down
  BY DEF Down
<1>6. CASE s \in {"haltSensor", "stopSensor", "sensorOff"} /\ cmd[1] = "stop" /\ cmd[2] = "sensor"
  <2>1. svc'.daemon = svc.daemon /\ svc'.loaded = svc.loaded /\ svc'.sensor \in Down
    BY <1>5, <1>6, EffectFacts
  <2> QED BY <1>2, <1>6, <2>1 DEF Did
<1>7. CASE s = "haltDaemon" /\ cmd[1] = "stop" /\ cmd[2] = "daemon"
  <2>1. svc'.sensor = svc.sensor /\ svc'.daemon \in Down
    BY <1>5, <1>7, EffectFacts
  <2> QED BY <1>2, <1>7, <2>1 DEF Did
<1>8. CASE s = "restartDaemon" /\ cmd[1] = "restart" /\ cmd[2] = "daemon" /\ "daemon" \in op[p].ran
  <2>1. svc'.sensor = svc.sensor /\ (svc'.daemon = "active" => svc'.loaded = config)
    BY <1>8, EffectFacts
  <2> QED BY <1>2, <1>8, <2>1 DEF Did
<1>9. CASE s = "startDaemon" /\ cmd[1] = "start" /\ cmd[2] = "daemon"
  <2>1. svc'.sensor = svc.sensor
    BY <1>9, EffectFacts
  <2> QED BY <1>2, <1>3, <1>9, <2>1 DEF Did
<1>10. CASE s = "startSensor" /\ cmd[1] = "start" /\ cmd[2] = "sensor" /\ SensorBack(p)
  <2>1. svc'.daemon = svc.daemon /\ svc'.loaded = svc.loaded
    BY <1>10, EffectFacts
  <2> QED BY <1>2, <1>10, <2>1 DEF Did
<1> QED BY <1>4, <1>6, <1>7, <1>8, <1>9, <1>10

\* However a command ends, and whether or not somebody waits for it, units that run what is saved still do.
LEMMA EndKeepsSteady ==
    ASSUME Shape, Steady, NEW p \in Managers, NEW cmd \in Commands, cmd = child[p], cmd # None, NEW u \in Units, u = cmd[2],
           svc' \in {svc, Effect(cmd), [svc EXCEPT ![u] = "failed", !.loaded = IF u = "daemon" THEN None ELSE @]},
           UNCHANGED <<config, edits>>, journal' = None => journal = None, (\A q \in Managers : child[q] = None)'
    PROVE  Steady'
<1> SUFFICES ASSUME journal = None, edits = 0
             PROVE  /\ svc'.daemon = "active" => svc'.loaded = config
                    /\ svc'.sensor \notin Down => Load(config).sensor
  BY DEF Steady, Load
<1>0. /\ svc.daemon = "active" => svc.loaded = config
      /\ svc.sensor \notin Down => Load(config).sensor
      /\ cmd[2] = "sensor" /\ cmd[1] # "stop" => Load(config).sensor
      /\ "failed" \in Down /\ "inactive" \in Down /\ u \in {"daemon", "sensor"} /\ svc \in Svc
  BY DEF Steady, Down, Units, Shape
<1>1. CASE svc' = svc
  BY <1>0, <1>1
<1>2. CASE svc' = Effect(cmd)
  <2>1. cmd[1] \in {"stop", "start", "restart"}
    BY DEF Commands
  <2>2. CASE u = "sensor"
    <3>1. /\ svc'.daemon = svc.daemon /\ svc'.loaded = svc.loaded
          /\ cmd[1] = "stop" => svc'.sensor = "inactive"
      BY <1>2, <2>2, EffectFacts
    <3> QED BY <1>0, <2>2, <3>1
  <2>3. CASE u = "daemon"
    <3>1. /\ svc'.sensor = svc.sensor
          /\ cmd[1] = "stop" => svc'.daemon = "inactive"
          /\ cmd[1] = "restart" /\ svc'.daemon = "active" => svc'.loaded = config
          /\ cmd[1] = "start" /\ svc'.daemon = "active" => svc'.loaded = config \/ svc' = svc
      BY <1>2, <2>3, EffectFacts
    <3> QED BY <1>0, <2>1, <3>1
  <2> QED BY <1>0, <2>2, <2>3
<1>3. CASE svc' = [svc EXCEPT ![u] = "failed", !.loaded = IF u = "daemon" THEN None ELSE @]
  <2>1. CASE u = "sensor"
    <3>1. svc'.daemon = svc.daemon /\ svc'.loaded = svc.loaded /\ svc'.sensor = "failed"
      BY <1>0, <1>3, <2>1 DEF Svc
    <3> QED BY <1>0, <3>1
  <2>2. CASE u = "daemon"
    <3>1. svc'.sensor = svc.sensor /\ svc'.daemon = "failed"
      BY <1>0, <1>3, <2>2 DEF Svc
    <3> QED BY <1>0, <3>1
  <2> QED BY <1>0, <2>1, <2>2
<1> QED BY <1>1, <1>2, <1>3

LEMMA ChildEndsServed ==
    ASSUME Kept, Kept', Served, NEW p \in Managers, ChildEnds(p)
    PROVE  Served'
<1>0. /\ op \in [Managers -> OpRec] /\ Shape /\ svc \in Svc /\ svc' \in Svc /\ lock' = lock /\ child[p] # None
      /\ UNCHANGED <<config, masked, edits>> /\ OneCommand /\ RanOf /\ Steady
      /\ child \in [Managers -> Commands \cup {None}] /\ child' = [child EXCEPT ![p] = None]
  BY FreeFacts, ServedFacts DEF ChildEnds, Same, Shape, Kept, OnDisk
<1>1. \A q \in Managers : child'[q] = None
  BY <1>0 DEF OneCommand
<1>2. OneCommand' /\ (\A q \in Managers : child[q] = None)'
  BY <1>1 DEF OneCommand
<1>3. PICK cmd \in Commands : cmd = child[p] /\ cmd # None
  BY <1>0
<1>4. PICK u \in Units : u = cmd[2]
  BY DEF Commands
<1>5. svc' \in {svc, Effect(cmd), [svc EXCEPT ![u] = "failed", !.loaded = IF u = "daemon" THEN None ELSE @]}
  BY <1>3, <1>4 DEF ChildEnds, StartLimited
<1>6. ASSUME journal' = None => journal = None PROVE Steady'
  BY <1>0, <1>2, <1>3, <1>4, <1>5, <1>6, EndKeepsSteady
<1>7. lock = p \/ lock = None
  BY <1>0 DEF OneCommand
<1>8. ASSUME lock = None PROVE Served'
  <2>1. ~Survives(p) /\ None \notin Managers
    BY <1>8, ConfigAssumption DEF Survives
  <2>2. UNCHANGED <<op, journal>>
    BY <2>1 DEF ChildEnds, StartLimited
  <2>3. RanOf' /\ Steady'
    BY <1>0, <1>6, <2>2, RanSame
  <2> QED BY <1>0, <1>2, <1>8, <2>1, <2>3 DEF Served
<1>9. ASSUME lock = p PROVE Served'
  <2>0. /\ op[p] \in OpRec /\ op[p].pc \in {"apply", "restoring", "service"} /\ cmd = CommandOf(p, Head(op[p].steps))
        /\ UnitsOf(op[p]) /\ FilesOf(op[p])
    BY <1>0, <1>3, <1>9, HolderFacts, ServedFacts DEF OneCommand, ServicePhase
  <2>1. Survives(p)
    <3>1. op[p].steps \in ApplyLists \cup RestoreLists \cup StopLists \cup StartLists
      BY <2>0 DEF FilesOf, StepsFit
    <3> QED BY <1>9, <3>1, ListsNotEmpty DEF Survives
  <2>2. ASSUME NEW r \in OpRec, op' = [op EXCEPT ![p] = r], UnitsOf(r)', RanOf', journal' = None => journal = None
        PROVE  Served'
    <3>1. op'[p] = r
      BY <1>0, <2>2
    <3>2. ASSUME NEW q \in Managers, lock' = q PROVE UnitsOf(op[q])'
      <4>1. q = p
        BY <1>0, <1>9, <3>2
      <4> QED BY <2>2, <3>1, <4>1 DEF UnitsOf, StoppedSensor, RestartedDaemon, HaltedSensor, HaltedDaemon
    <3> QED BY <1>2, <1>6, <2>2, <3>2 DEF Served
  <2>3. ASSUME StepFails(p) PROVE Served'
    <3>1. PICK r \in OpRec : op' = [op EXCEPT ![p] = r] /\ r.pc \in Calm
      BY <1>9, <2>0, <2>3, StepFailsCalm
    <3>2. UnitsOf(r)'
      BY <3>1, CalmUnits
    <3>3. journal' = journal \/ (op[p].pc = "restoring" /\ journal' = Record(p, "failed"))
      BY <1>9, <2>0, <2>3, StepFailsCalm
    <3>4. RanOf' /\ (journal' = None => journal = None)
      <4>1. CASE journal' = journal
        BY <1>0, <4>1, RanSame
      <4>2. CASE op[p].pc = "restoring" /\ journal' = Record(p, "failed")
        <5>1. journal # None /\ op[p].pc \in Journaled /\ op[p].cand # None
          BY <1>9, <4>2, JournalOf
        <5>2. journal' # None /\ journal'.ran = journal.ran /\ journal'.before = journal.before
          BY <1>9, <4>2, <5>1, RecordFacts, JournaledFacts, StageNames
        <5> QED BY <1>0, <5>1, <5>2, RanSame
      <4> QED BY <3>3, <4>1, <4>2
    <3> QED BY <2>2, <3>1, <3>2, <3>4
  <2>4. ASSUME svc' = Effect(cmd), op' = StepDone(p), UNCHANGED journal PROVE Served'
    <3>1. Did(p)
      BY <1>0, <1>9, <2>0, <2>4, CommandDid
    <3>2. PICK r \in OpRec : op' = [op EXCEPT ![p] = r] /\ UnitsOf(r)'
      BY <1>0, <1>9, <2>0, <2>4, <3>1, StepDoneUnits
    <3>3. RanOf'
      BY <1>0, <2>4, RanSame
    <3> QED BY <2>2, <2>4, <3>2, <3>3
  <2>5. ASSUME StartLimited(p, cmd) PROVE Served'
    <3>1. op' = [op EXCEPT ![p].retried = TRUE] /\ UNCHANGED <<svc, journal>> /\ faults' # 0
      BY <1>0, <2>5, FaultCounts DEF StartLimited
    <3>2. PICK t \in BOOLEAN : t = TRUE
      OBVIOUS
    <3>3. Retried(p, t)
      BY <3>1, <3>2 DEF Retried
    <3>4. PICK r \in OpRec : /\ op' = [op EXCEPT ![p] = r] /\ r.pc = op[p].pc /\ r.cand = op[p].cand
                             /\ r.before = op[p].before /\ r.ran = op[p].ran /\ r.steps = op[p].steps
      BY <1>0, <3>3, RetriedRec
    <3>5. UnitsOf(r)'
      BY <1>0, <2>0, <3>1, <3>4 DEF UnitsOf, StoppedSensor, RestartedDaemon, HaltedSensor, HaltedDaemon, Load
    <3>6. RanOf'
      BY <1>0, <3>1, RanSame
    <3> QED BY <2>2, <3>1, <3>4, <3>5, <3>6
  <2> QED BY <1>3, <2>1, <2>3, <2>4, <2>5 DEF ChildEnds
<1> QED BY <1>7, <1>8, <1>9

LEMMA InitServed == Init => Served
<1> SUFFICES ASSUME Init PROVE Served
  OBVIOUS
<1>1. journal = None /\ lock = None /\ None \notin Managers /\ \A p \in Managers : child[p] = None
  BY ConfigAssumption DEF Init
<1>2. PICK s \in {"inactive"} \cup (IF config = None THEN {} ELSE {"active"}) :
         svc = [daemon |-> IF config = None THEN "inactive" ELSE "active", sensor |-> s, loaded |-> config]
  BY DEF Init
<1>3. svc.daemon = "active" => svc.loaded = config
  BY <1>2
<1>4. config # None => config.sensor
  <2>1. PICK m : m = [k \in Kinds |-> <<k, 0>>]
    OBVIOUS
  <2>2. config # None => config = [DefaultConfig EXCEPT !.refs = m]
    BY <2>1 DEF Init
  <2>3. config # None => config = [rev |-> 0, refs |-> m, sensor |-> TRUE]
    BY <2>2 DEF DefaultConfig
  <2> QED BY <2>3
<1>5. svc.sensor \notin Down => Load(config).sensor
  BY <1>2, <1>4 DEF Load, Down
<1>6. Steady
  BY <1>1, <1>3, <1>5 DEF Steady
<1> QED BY <1>1, <1>6 DEF Served, OneCommand, RanOf

LEMMA NextServed == Kept /\ Kept' /\ Served /\ [Next]_vars => Served'
<1> SUFFICES ASSUME Kept, Kept', Served, [Next]_vars PROVE Served'
  OBVIOUS
<1>1. CASE UNCHANGED vars
  <2>1. OneCommand /\ RanOf /\ Steady /\ UNCHANGED <<config, journal, svc, masked, op, lock, child, faults, edits>>
    BY <1>1, ServedFacts DEF vars
  <2>2. OneCommand' /\ RanOf' /\ Steady'
    BY <2>1, CommandsSame DEF RanOf, Steady, Load
  <2>3. ASSUME NEW q \in Managers, lock' = q PROVE UnitsOf(op[q])'
    <3>1. UnitsOf(op[q])
      BY <2>1, <2>3, ServedFacts
    <3> QED BY <2>1, <3>1 DEF UnitsOf, StoppedSensor, RestartedDaemon, HaltedSensor, HaltedDaemon, Load
  <2> QED BY <2>2, <2>3 DEF Served
<1>2. ASSUME NEW p \in Managers, Begin(p) PROVE Served'
  <2>1. CASE OpenForm(p)
    BY <2>1, FormServed
  <2>2. CASE SaveForm(p) \/ BeginRecover(p)
    BY <2>2, CalmBegins
  <2>3. CASE Telegram(p)
    BY <2>3, CalmBegins DEF Telegram
  <2>4. CASE Native(p)
    BY <2>4, CalmBegins DEF Native
  <2>5. CASE Official(p)
    BY <2>5, CalmBegins DEF Official
  <2>6. CASE GenerateKey(p) \/ UseProfile(p) \/ UpdateGeo(p)
    BY <2>6, CalmBegins DEF GenerateKey, UseProfile, UpdateGeo
  <2>7. CASE \E k \in {"stop", "restart", "start"} : ServiceAction(p, k)
    BY <2>7, ServiceActionServed
  <2> QED BY <1>2, <2>1, <2>2, <2>3, <2>4, <2>5, <2>6, <2>7 DEF Begin
<1>3. ASSUME NEW p \in Managers, Step(p) PROVE Served'
  BY <1>3, FormServed, StagingServed, ReadBeforeServed, ApplyServed, RollbackServed, IssueServed DEF Step
<1>4. ASSUME NEW p \in Managers, ChildEnds(p) PROVE Served'
  BY <1>4, ChildEndsServed
<1>5. ASSUME NEW p \in Managers, Crash(p) PROVE Served'
  BY <1>5, FormServed
<1>6. CASE ExternalEdit
  BY <1>6, ExternalEditServed
<1>7. ASSUME NEW u \in Units, ServiceDies(u) \/ ServiceReturns(u) PROVE Served'
  BY <1>7, UnitMovesServed
<1> QED BY <1>1, <1>2, <1>3, <1>4, <1>5, <1>6, <1>7 DEF Next

LEMMA AlwaysServed == Spec => [](Kept /\ Served)
<1>1. Init => Kept /\ Served
  BY InitKept, InitServed
<1>2. (Kept /\ Served) /\ [Next]_vars => (Kept /\ Served)'
  BY NextKept, NextServed
<1> QED BY <1>1, <1>2, PTL DEF Spec

\* With no operation, no command of a dead manager and no journal pending, a running
\* daemon runs the configuration on disk and the sensor runs only if that enables it,
\* after any number of applies, rollbacks, service actions, faults and crashes.
THEOREM ServicesRunWhatIsSaved == Spec => []RunningIsSaved
<1>1. Kept /\ Served => RunningIsSaved
  <2> SUFFICES ASSUME Kept, Served, journal = None, edits = 0
               PROVE  /\ Running("daemon") => svc.loaded = config
                      /\ Running("sensor") => Load(config).sensor
    BY DEF RunningIsSaved
  <2>1. Steady /\ svc["daemon"] = svc.daemon /\ svc["sensor"] = svc.sensor
    BY ServedFacts, SvcFields DEF Kept, OnDisk, Shape
  <2> QED BY <2>1 DEF Steady, Running, Down
<1> QED BY <1>1, AlwaysServed, PTL

\* Only the holder of the lock and an editor replace the configuration file.
LEMMA ConfigWriters ==
    ASSUME Kept, [Next]_vars, config' # config
    PROVE  \/ edits' # edits
           \/ \E p \in Managers : lock = p /\ op[p].pc \in {"write", "restore"}
<1>1. CASE UNCHANGED vars
  BY <1>1 DEF vars
<1>2. ASSUME NEW p \in Managers, Begin(p) PROVE FALSE
  BY <1>2 DEF Begin, OpenForm, SaveForm, BeginRecover, ServiceAction, Telegram, Native, Official, GenerateKey,
              UseProfile, UpdateGeo, BeginWith
<1>3. ASSUME NEW p \in Managers, Step(p) PROVE lock = p /\ op[p].pc \in {"write", "restore"}
  <2>1. CASE Refused(p) \/ StageFile(p) \/ StageGeneration(p) \/ GeoUnchanged(p) \/ ReadBefore(p)
    BY <2>1 DEF Refused, StageFile, StageGeneration, GeoUnchanged, ReadBefore
  <2>2. CASE Prepare(p) \/ Recheck(p) \/ RecordStages(p) \/ Commit(p) \/ ApplyFailed(p)
    BY <2>2 DEF Prepare, Recheck, RecordStages, Commit, ApplyFailed
  <2>3. CASE Issue(p) \/ RollbackCheck(p) \/ Restored(p) \/ Finish(p)
    BY <2>3 DEF Issue, RollbackCheck, Restored, Finish
  <2>4. CASE WriteCandidate(p) \/ RestoreConfig(p)
    BY <2>4 DEF WriteCandidate, RestoreConfig, At
  <2> QED BY <1>3, <2>1, <2>2, <2>3, <2>4 DEF Step
<1>4. ASSUME NEW p \in Managers, ChildEnds(p) \/ Crash(p) PROVE FALSE
  BY <1>4 DEF ChildEnds, Crash
<1>5. ASSUME ExternalEdit PROVE edits' # edits
  <2>1. edits \in Nat /\ edits' = edits + 1
    BY <1>5 DEF ExternalEdit, Kept, OnDisk, Shape
  <2> QED BY <2>1
<1>6. ASSUME NEW u \in Units, ServiceDies(u) \/ ServiceReturns(u) PROVE FALSE
  BY <1>6 DEF ServiceDies, ServiceReturns
<1> QED BY <1>1, <1>2, <1>3, <1>4, <1>5, <1>6 DEF Next

\* A rollback that has come to its end finds the units as they were before the apply.
LEMMA RestoredUnits ==
    ASSUME Kept, Served, NEW p \in Managers, op[p].pc = "restored"
    PROVE  /\ \A u \in Units : /\ Running(u) => u \in op[p].ran
                               /\ faults = 0 => (u \in op[p].ran => Running(u))
           /\ Running("daemon") /\ edits = 0 => svc.loaded = op[p].before
<1>1. lock = p
  BY DEF Kept, OneHolder, Waiting
<1>2. UnitsOf(op[p]) /\ FilesOf(op[p]) /\ svc["daemon"] = svc.daemon /\ svc["sensor"] = svc.sensor
  BY <1>1, ServedFacts, HolderFacts, SvcFields DEF Shape
<1>3. /\ "sensor" \notin op[p].ran => svc.sensor \in Down
      /\ "daemon" \notin op[p].ran => svc.daemon \in Down
      /\ faults = 0 => \A u \in op[p].ran : svc[u] = "active"
      /\ edits = 0 /\ svc.daemon = "active" => svc.loaded = config
  BY <1>2 DEF UnitsOf, HaltedSensor, HaltedDaemon, RestartedDaemon
<1>4. edits = 0 => config = op[p].before
  BY <1>2 DEF FilesOf
<1> QED BY <1>2, <1>3, <1>4 DEF Running, Units, Down

\* An apply or a rollback replaces only the content it was based on or its own, so the
\* edits of others survive, and a rollback that ends with its journal removed has put
\* every unit back, whatever commands of the failed apply were still under way.
THEOREM UndoTouchesItsOwn == Spec => UndoIsExact
<1>1. Kept /\ Served /\ [Next]_vars =>
        [config' # config /\ lock # None /\ edits' = edits /\ ~blind => config \in {op[lock].before, op[lock].cand}]_vars
  <2> SUFFICES ASSUME Kept, Served, [Next]_vars, config' # config, edits' = edits, ~blind
               PROVE  config \in {op[lock].before, op[lock].cand}
    OBVIOUS
  <2>1. PICK p \in Managers : lock = p /\ op[p].pc \in {"write", "restore"}
    BY ConfigWriters
  <2>2. FilesOf(op[p])
    BY <2>1, HolderFacts
  <2> QED BY <2>1, <2>2 DEF FilesOf
<1>2. Kept /\ Served /\ [Next]_vars =>
        [\A p \in Managers : op[p].pc = "restored" /\ journal' = None /\ journal # None =>
           /\ \A u \in Units : /\ Running(u) => u \in op[p].ran
                               /\ faults = 0 => (u \in op[p].ran => Running(u))
           /\ Running("daemon") /\ edits = 0 => svc.loaded = op[p].before]_vars
  BY RestoredUnits
<1>3. Spec => ForeignEditsSurvive
  BY <1>1, AlwaysServed, PTL DEF Spec, ForeignEditsSurvive
<1>4. Spec => RollbackRestoresServices
  BY <1>2, AlwaysServed, PTL DEF Spec, RollbackRestoresServices
<1> QED BY <1>3, <1>4 DEF UndoIsExact

=============================================================================
