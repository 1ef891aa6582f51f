--------------------- MODULE OfficialDispatchRefinement ---------------------
(***************************************************************************)
(* What OfficialDispatch shows to the outside: it implements               *)
(* DispatchPromise, and the states of its rows tell what happened.         *)
(***************************************************************************)
EXTENDS OfficialDispatchProofs

-----------------------------------------------------------------------------
(* The promise, step by step *)

Open == Ready \cup {"in_flight"}

\* What a step that admits and delivers nothing may do to a row: keep it,
\* begin an attempt, withdraw it, or give it back when nothing was delivered.
RowMoves(m) ==
    \/ state'[m] = state[m]
    \/ state[m] \in Ready /\ state'[m] = "in_flight"
    \/ state'[m] \notin Open
    \/ state[m] = "in_flight" /\ state'[m] \in Ready /\ deliveries[m] = 0

\* Such a step is a step of the promise.
LEMMA PromiseFrame ==
  ASSUME TypeInvariant, UNCHANGED <<seen, deliveries>>, \A m \in Msgs : RowMoves(m)
  PROVE  [Promise!Next]_(Promise!vars)
  <1>1. deliveries \in [Msgs -> Nat]
    BY DEF TypeInvariant
  <1> SUFFICES ASSUME NEW m \in Msgs
               PROVE  \/ Promise!Admit(m) \/ Promise!Authorize(m) \/ Promise!GiveBack(m)
                      \/ Promise!Close(m) \/ Promise!Deliver(m) \/ Promise!Stay(m)
    BY DEF Promise!Next
  <1>2. Promise!Keep(m)
    BY DEF Promise!Keep
  <1>3. RowMoves(m)
    OBVIOUS
  <1> QED
    BY <1>1, <1>2, <1>3 DEF RowMoves, Open, Ready, Phase, Promise!Authorize,
        Promise!GiveBack, Promise!Close, Promise!Stay

\* The sweep closes rows (recoverOfficialIntents, the outbox TTL).
LEMMA SweepMoves ==
  ASSUME TypeInvariant, ~LINE, NEW m \in Msgs
  PROVE  SweptState[m] = state[m] \/ SweptState[m] \notin Open
  <1>1. RecoveredState(m) = state[m] \/ RecoveredState(m) = "delivery_unknown"
    BY DEF RecoveredState
  <1> QED
    BY <1>1 DEF SweptState, Open, Ready

\* The worker: only BeginOfficialDispatch opens an attempt, and only a proved
\* refusal gives one back.
LEMMA WorkerMovesRows ==
  ASSUME TypeInvariant, Fresh, ~LINE, WorkerStep \/ WorkerError
  PROVE  UNCHANGED <<seen, deliveries>> /\ \A m \in Msgs : RowMoves(m)
  <1>0. /\ state \in [Msgs -> States] /\ worker \in Worker
    BY DEF TypeInvariant
  <1>1. ASSUME BeginRefused PROVE UNCHANGED <<seen, deliveries>> /\ \A m \in Msgs : RowMoves(m)
    <2>1. worker.msg \in Msgs
      BY <1>1, WorkerBusy DEF BeginRefused, Idle
    <2>2. \A unknown : HeldState(unknown) \notin Open
      BY DEF HeldState, Open, Ready
    <2>3. \/ UNCHANGED state
          \/ \E unknown : state' = [state EXCEPT ![worker.msg] = HeldState(unknown)]
      BY <1>1 DEF BeginRefused, Block
    <2> QED
      BY <1>0, <1>1, <2>1, <2>2, <2>3 DEF BeginRefused, RowMoves, ghost
  <1>2. ASSUME BeginOfficialDispatch
        PROVE  UNCHANGED <<seen, deliveries>> /\ \A m \in Msgs : RowMoves(m)
    BY <1>0, <1>2 DEF BeginOfficialDispatch, RowMoves, Eligible, ghost
  <1>3. ASSUME ResolveOfficialDispatch
        PROVE  UNCHANGED <<seen, deliveries>> /\ \A m \in Msgs : RowMoves(m)
    <2>1. worker.msg \in Msgs /\ worker.result.outcome \in {"accepted", "not_accepted", "unknown"}
      BY <1>3, WorkerBusy DEF ResolveOfficialDispatch, Idle, TypeInvariant, Worker
    <2>2. UNCHANGED <<seen, deliveries>>
      BY <1>3 DEF ResolveOfficialDispatch
    <2>3. CASE ~Matches(worker.msg, worker.result, worker.attempt)
      BY <1>3, <2>2, <2>3 DEF ResolveOfficialDispatch, RowMoves
    <2>4. CASE /\ Matches(worker.msg, worker.result, worker.attempt)
               /\ worker.result.outcome = "accepted"
      <3>1. ResolveAccepted(worker.msg)
        BY <1>3, <2>4 DEF ResolveOfficialDispatch
      <3> QED
        BY <1>0, <2>1, <2>2, <3>1 DEF ResolveAccepted, RowMoves, Open, Ready
    <2>5. CASE /\ Matches(worker.msg, worker.result, worker.attempt)
               /\ worker.result.outcome = "unknown"
      <3>1. ResolveUnknown(worker.msg, worker.result)
        BY <1>3, <2>5 DEF ResolveOfficialDispatch
      <3>2. state' = [state EXCEPT ![worker.msg] = "delivery_unknown"]
        BY <3>1 DEF ResolveUnknown, Block, HeldState
      <3> QED
        BY <1>0, <2>1, <2>2, <3>2 DEF RowMoves, Open, Ready
    <2>6. CASE /\ Matches(worker.msg, worker.result, worker.attempt)
               /\ worker.result.outcome = "not_accepted"
      <3>1. ResolveNotAccepted(worker.msg, worker.result)
        BY <1>3, <2>6 DEF ResolveOfficialDispatch
      <3>2. \/ state' = [state EXCEPT ![worker.msg] = "blocked"]
            \/ state' = [state EXCEPT ![worker.msg] = "retry_ready"]
        BY <3>1 DEF ResolveNotAccepted
      <3>3. state[worker.msg] = "in_flight"
        BY <2>6 DEF Matches
      <3>4. deliveries[worker.msg] = 0
        BY <1>3, <2>6 DEF ResolveOfficialDispatch, Fresh, RefusalsAreTrue, NothingSent, Untouched
      <3> QED
        BY <1>0, <2>1, <2>2, <3>2, <3>3, <3>4 DEF RowMoves, Open, Ready
    <2> QED
      BY <2>1, <2>3, <2>4, <2>5, <2>6
  <1>4. ASSUME \/ \E m \in Msgs : ClaimNotification(m) \/ ClaimOfficialPoll(m)
               \/ Recheck \/ Post \/ PostNotSent \/ Answer \/ ReleaseNotificationClaim
               \/ Poll \/ ResolveOfficialPoll \/ WorkerError
        PROVE  UNCHANGED <<seen, deliveries>> /\ \A m \in Msgs : RowMoves(m)
    BY <1>4 DEF ClaimNotification, ClaimOfficialPoll, Recheck, Post, PostNotSent, Answer,
        ReleaseNotificationClaim, Poll, ResolveOfficialPoll, WorkerError, RowMoves, store, ghost
  <1> QED
    BY <1>1, <1>2, <1>3, <1>4 DEF WorkerStep

\* The sweep, the operator and the daemon's restarts only close rows: a
\* reconciliation blocks them, a restored paid channel holds them.
LEMMA OthersMoveRows ==
  ASSUME TypeInvariant, Fresh, ~LINE, Trusted',
         \/ ExpireNotifications \/ OperatorStep \/ ProcessStep \/ Tick
         \/ \E n \in 1 .. MaxBack : ClockBack(n)
         \/ UNCHANGED vars
  PROVE  UNCHANGED <<seen, deliveries>> /\ \A m \in Msgs : RowMoves(m)
  <1>0. state \in [Msgs -> States] /\ counts.restores \in Nat
    BY DEF TypeInvariant
  <1>1. CASE ExpireNotifications
    BY <1>1, SweepMoves DEF ExpireNotifications, RowMoves, ghost
  <1>2. CASE OperatorStep
    <2>1. CASE ReconcileOfficialPaidChannel
      BY <2>1 DEF ReconcileOfficialPaidChannel, RowMoves, Open, Ready, ghost
    <2>2. CASE ~ReconcileOfficialPaidChannel
      BY <1>2, <2>2 DEF OperatorStep, RetryNotification, QuarantineNotification, AddSilence,
          ResumeDestination, DiscardIsolatedNotifications, RowMoves, ghost
    <2> QED
      BY <2>1, <2>2
  <1>3. CASE Crash \/ Backup \/ \E c \in Configs : Start(c)
    BY <1>3 DEF Crash, Backup, Start, RowMoves, store, ghost
  <1>4. ASSUME NEW b \in backup, RestoreBackup(b)
        PROVE  UNCHANGED <<seen, deliveries>> /\ \A m \in Msgs : RowMoves(m)
    <2>1. UNCHANGED <<seen, deliveries>>
      BY <1>4 DEF RestoreBackup, ghost
    <2>2. Paid
      <3>1. counts'.restores = counts.restores + 1
        BY <1>4 DEF RestoreBackup, TypeInvariant
      <3> QED
        BY <1>0, <3>1 DEF Trusted, Paid
    <2>3. ASSUME NEW m \in Msgs PROVE state'[m] \notin Open
      <3>1. /\ b.state[m] \in States
            /\ b.outbox[m].sent => b.state[m] = "accepted"
        BY DEF TypeInvariant, Snapshot, Fresh, SnapshotsKnown
      <3> QED
        BY <1>4, <2>2, <3>1 DEF RestoreBackup, HeldState, Open, Ready, States
    <2> QED
      BY <2>1, <2>3 DEF RowMoves
  <1>5. CASE Tick \/ (\E n \in 1 .. MaxBack : ClockBack(n)) \/ UNCHANGED vars
    BY <1>5 DEF Tick, ClockBack, vars, RowMoves, store, ghost
  <1> QED
    BY <1>1, <1>2, <1>3, <1>4, <1>5 DEF ProcessStep

\* Enqueue admits one message; the sweep it begins with closes others.
LEMMA EnqueuePromised ==
  ASSUME TypeInvariant, ~LINE, NEW m \in Msgs, NEW failure \in BOOLEAN, Enqueue(m, failure)
  PROVE  [Promise!Next]_(Promise!vars)
  <1>0. SweptState \in [Msgs -> States] /\ seen \subseteq Msgs
    BY SweepType DEF TypeInvariant
  <1>1. m \notin seen /\ seen' = seen \cup {m} /\ UNCHANGED deliveries
    BY DEF Enqueue
  <1> SUFFICES ASSUME NEW n \in Msgs
               PROVE  \/ Promise!Admit(n) \/ Promise!Authorize(n) \/ Promise!GiveBack(n)
                      \/ Promise!Close(n) \/ Promise!Deliver(n) \/ Promise!Stay(n)
    BY DEF Promise!Next
  <1>2. Promise!Keep(n)
    BY <1>1 DEF Promise!Keep
  <1>3. CASE n = m
    <2>1. state'[m] \in {"blocked", "prepared"}
      BY <1>0 DEF Enqueue
    <2>2. Promise!Admit(m)
      BY <1>1, <1>2, <1>3, <2>1 DEF Promise!Admit, Phase, Ready
    <2> QED
      BY <1>3, <2>2
  <1>4. CASE n # m
    <2>1. state'[n] = SweptState[n] /\ (n \in seen' <=> n \in seen)
      BY <1>0, <1>1, <1>4 DEF Enqueue
    <2>2. state'[n] = state[n] \/ state'[n] \notin Open
      BY <2>1, SweepMoves
    <2>3. Promise!Close(n) \/ Promise!Stay(n)
      BY <1>2, <2>1, <2>2 DEF Promise!Close, Promise!Stay, Phase, Open, Ready
    <2> QED
      BY <2>3
  <1> QED
    BY <1>3, <1>4

\* The provider decides a request: its message is delivered for the first
\* time, under an intent that was committed (or closed since).
LEMMA ProviderPromised ==
  ASSUME TypeInvariant, Fresh, ~LINE, ProviderStep
  PROVE  [Promise!Next]_(Promise!vars)
  <1>0. PICK r \in wire : ProviderAccepts(r) \/ ProviderRefuses(r) \/ Lost(r)
    BY DEF ProviderStep
  <1>1. UNCHANGED <<seen, state>> /\ r.msg \in Msgs /\ deliveries \in [Msgs -> Nat]
    BY <1>0 DEF ProviderAccepts, ProviderRefuses, Lost, store, ghost, TypeInvariant
  <1>2. CASE ProviderRefuses(r) \/ Lost(r)
    BY <1>1, <1>2, PromiseFrame DEF ProviderRefuses, Lost, RowMoves, ghost
  <1>3. CASE ProviderAccepts(r)
    <2>1. deliveries[r.msg] = 0 /\ r.msg \in seen /\ state[r.msg] \notin Ready
      BY <1>1 DEF Fresh, WireIsFresh, UnseenIsFresh, ReadyIsFresh, Untouched
    <2>2. deliveries' = [deliveries EXCEPT ![r.msg] = 1]
      BY <1>1, <1>3, <2>1 DEF ProviderAccepts, Duplicate
    <2>3. \A n \in Msgs : Phase'[n] = Phase[n]
      BY <1>1 DEF Phase
    <2>4. Promise!Deliver(r.msg)
      BY <1>1, <2>1, <2>2, <2>3 DEF Promise!Deliver, Phase, Ready
    <2>5. \A n \in Msgs : n # r.msg => Promise!Stay(n)
      BY <1>1, <2>2, <2>3 DEF Promise!Stay, Promise!Keep
    <2> QED
      BY <2>4, <2>5 DEF Promise!Next
  <1> QED
    BY <1>0, <1>2, <1>3

\* Every step is a step of the promise.
LEMMA PromiseNext ==
  ASSUME TypeInvariant, FreshAttempts, ~LINE, Trusted', [Next]_vars
  PROVE  [Promise!Next]_(Promise!vars)
  <1>1. Fresh
    BY OnlyGrow DEF FreshAttempts, Trusted, Paid
  <1>2. CASE \E m \in Msgs, failure \in BOOLEAN : Enqueue(m, failure)
    BY <1>2, EnqueuePromised
  <1>3. CASE ProviderStep
    BY <1>1, <1>3, ProviderPromised
  <1>4. CASE WorkerStep \/ WorkerError
    BY <1>1, <1>4, WorkerMovesRows, PromiseFrame
  <1>5. CASE \/ ExpireNotifications \/ OperatorStep \/ ProcessStep \/ Tick
             \/ \E n \in 1 .. MaxBack : ClockBack(n)
             \/ UNCHANGED vars
    BY <1>1, <1>5, OthersMoveRows, PromiseFrame
  <1> QED
    BY <1>2, <1>3, <1>4, <1>5 DEF Next

\* Only RestoreBackup counts a restore.
LEMMA OnlyRestored ==
  ASSUME TypeInvariant, [Next]_vars
  PROVE  counts'.restores = counts.restores \/ \E b \in backup : RestoreBackup(b)
  <1>0. counts \in [restarts : Nat, ops : Nat, restores : Nat]
    BY DEF TypeInvariant
  <1>1. CASE WorkerStep
    BY <1>1 DEF WorkerStep, ClaimNotification, ClaimOfficialPoll, BeginRefused,
         BeginOfficialDispatch, Recheck, Post, PostNotSent, Answer, ResolveOfficialDispatch,
         ReleaseNotificationClaim, Poll, ResolveOfficialPoll
  <1>2. CASE \/ ExpireNotifications \/ ProviderStep \/ WorkerError \/ Tick
             \/ \E m \in Msgs, failure \in BOOLEAN : Enqueue(m, failure)
             \/ \E n \in 1 .. MaxBack : ClockBack(n)
             \/ UNCHANGED vars
    BY <1>2 DEF ExpireNotifications, Enqueue, ProviderStep, ProviderAccepts, ProviderRefuses,
         Lost, WorkerError, Tick, ClockBack, vars
  <1>3. CASE OperatorStep
    <2>1. counts' = [counts EXCEPT !.ops = @ + 1]
      BY <1>3 DEF OperatorStep, RetryNotification, QuarantineNotification, AddSilence,
           ResumeDestination, DiscardIsolatedNotifications, ReconcileOfficialPaidChannel, Command
    <2> QED
      BY <1>0, <2>1
  <1>4. CASE ProcessStep
    BY <1>0, <1>4 DEF ProcessStep, Crash, Start, Backup
  <1> QED
    BY <1>1, <1>2, <1>3, <1>4 DEF Next

\* A step that counts no restore is none.
LEMMA RestoresCount ==
  ASSUME TypeInvariant, counts'.restores = counts.restores
  PROVE  ~\E b \in backup : RestoreBackup(b)
  <1> SUFFICES ASSUME NEW b \in backup, RestoreBackup(b) PROVE FALSE
    OBVIOUS
  <1>1. counts \in [restarts : Nat, ops : Nat, restores : Nat]
    BY DEF TypeInvariant
  <1>2. counts' = [counts EXCEPT !.restores = @ + 1]
    BY DEF RestoreBackup
  <1> QED
    BY <1>1, <1>2

\* A channel that is paid, or never restored, is always trusted.
LEMMA AlwaysTrusted ==
  ASSUME Paid \/ MaxRestores = 0
  PROVE  Spec => []Trusted
  <1>1. Init => Trusted
    BY DEF Init, Trusted
  <1>2. TypeInvariant /\ Trusted /\ [Next]_vars => Trusted'
    <2> SUFFICES ASSUME TypeInvariant, Trusted, [Next]_vars, ~Paid PROVE counts'.restores = 0
      BY DEF Trusted, Paid
    <2>1. MaxRestores = 0 /\ counts.restores = 0
      BY DEF Trusted
    <2>2. CASE \E b \in backup : RestoreBackup(b)
      <3>1. counts.restores < MaxRestores
        BY <2>2 DEF RestoreBackup
      <3> QED
        BY <2>1, <3>1
    <2>3. CASE counts'.restores = counts.restores
      BY <2>1, <2>3
    <2> QED
      BY <2>2, <2>3, OnlyRestored
  <1> QED
    BY <1>1, <1>2, TypeCorrect, PTL DEF Spec

\* A channel without an idempotency key keeps its promise to the recipient: it
\* implements DispatchPromise through crashes, lost answers, operator commands
\* and changes of configuration, and a paid channel (Twilio, WhatsApp) through
\* restored backups too (BeginOfficialDispatch, ResolveOfficialDispatch,
\* recoverOfficialIntents, markRestoredOfficialHold).
THEOREM ImplementsPromise ==
  ASSUME ~LINE, Paid \/ MaxRestores = 0
  PROVE  Spec => KeepsPromise
  <1>1. Init => Promise!Init
    BY DEF Init, Promise!Init, Phase
  <1>2. TypeInvariant /\ FreshAttempts /\ Trusted' /\ [Next]_vars
          => [Promise!Next]_(Promise!vars)
    BY PromiseNext
  <1>3. Spec => []Trusted
    BY AlwaysTrusted
  <1> QED
    BY <1>1, <1>2, <1>3, TypeCorrect, AttemptsAreFresh, PTL DEF Spec, KeepsPromise, Promise!Spec

-----------------------------------------------------------------------------
(* What a receipt says *)

\* A row is marked sent exactly when its state is accepted, which only an
\* accepted message is, and only admitted messages have rows.
RecordTrue(row, st, m) ==
    /\ row.sent <=> st = "accepted"
    /\ st = "accepted" => deliveries[m] > 0
    /\ st # "absent" => m \in seen

\* Rows and snapshots tell the truth, and so does what the worker has heard.
RowsTrue     == \A m \in Msgs : RecordTrue(outbox[m], state[m], m)
CopiesTrue   == \A b \in backup, m \in Msgs : RecordTrue(b.outbox[m], b.state[m], m)
EvidenceTrue ==
    /\ worker.reply = "accepted" => worker.msg \in Msgs /\ deliveries[worker.msg] > 0
    /\ worker.pc = "answered" /\ worker.result.outcome = "accepted" => deliveries[worker.msg] > 0
Records == RowsTrue /\ CopiesTrue /\ EvidenceTrue

\* What a step may do to the record of a message.
SameRow(m)   == state'[m] = state[m] /\ outbox'[m].sent = outbox[m].sent
OpenRow(m)   == /\ state[m] # "accepted" /\ state'[m] # "accepted" /\ ~outbox'[m].sent
                /\ state'[m] # "absent" => state[m] # "absent"
Admitted(m)  == /\ m \notin seen /\ m \in seen' /\ state'[m] # "accepted" /\ ~outbox'[m].sent
Confirmed(m) == /\ worker.pc = "answered" /\ worker.result.outcome = "accepted" /\ worker.msg = m
                /\ state[m] # "absent" /\ state'[m] = "accepted" /\ outbox'[m].sent
RecordMoves(m) == SameRow(m) \/ OpenRow(m) \/ Admitted(m) \/ Confirmed(m)

\* The sweep leaves accepted rows alone.
LEMMA SweepRecords ==
  ASSUME TypeInvariant, RowsTrue, NEW m \in Msgs
  PROVE  \/ SweptState[m] = state[m] /\ SweptOutbox[m].sent = outbox[m].sent
         \/ /\ state[m] # "accepted" /\ SweptState[m] # "accepted" /\ ~SweptOutbox[m].sent
            /\ SweptState[m] # "absent" => state[m] # "absent"
  <1>1. outbox[m] \in Row /\ state[m] \in States /\ RecordTrue(outbox[m], state[m], m)
    BY RowTypes DEF RowsTrue
  <1>2. CASE state[m] = "accepted"
    <2>1. RecoveredState(m) = state[m] /\ ~Expired(m) /\ RecoveredRow(m) = outbox[m]
      BY <1>1, <1>2 DEF RecoveredState, Expired, RecoveredRow, Unsent, RecordTrue, Ready
    <2> QED
      BY <2>1 DEF SweptState, SweptOutbox
  <1>3. CASE state[m] # "accepted"
    <2>1. ~outbox[m].sent /\ ~Held(outbox[m]).sent /\ ~NoRow.sent
      BY <1>1, <1>3 DEF RecordTrue, Held, Row, NoRow
    <2>2. /\ RecoveredState(m) # "accepted"
          /\ RecoveredState(m) # "absent" => state[m] # "absent"
      BY <1>1, <1>3 DEF RecoveredState, HeldState, Ready
    <2>3. ~SweptOutbox[m].sent
      BY <2>1 DEF SweptOutbox, RecoveredRow
    <2> QED
      BY <1>3, <2>2, <2>3 DEF SweptState
  <1> QED
    BY <1>2, <1>3

\* The worker changes the record of its own row only.
LEMMA WorkerRecords ==
  ASSUME TypeInvariant, Records, WorkerStep \/ WorkerError
  PROVE  \A m \in Msgs : RecordMoves(m)
  <1>0. /\ state \in [Msgs -> States] /\ worker \in Worker /\ outbox \in [Msgs -> Row]
        /\ \A m \in Msgs : outbox[m] \in Row /\ RecordTrue(outbox[m], state[m], m)
    BY DEF TypeInvariant, Records, RowsTrue
  <1>h. \A row \in Row : Held(row).sent = row.sent
    BY DEF Held, Row
  <1>1. ASSUME BeginRefused PROVE \A m \in Msgs : RecordMoves(m)
    <2>1. worker.msg \in Msgs
      BY <1>1, WorkerBusy DEF BeginRefused, Idle
    <2>2. CASE UNCHANGED <<state, outbox>>
      BY <2>2 DEF RecordMoves, SameRow
    <2>3. CASE Eligible(worker.msg) /\ \E unknown : Block(worker.msg, unknown)
      <3>1. state[worker.msg] \in Ready /\ ~outbox[worker.msg].sent
        BY <2>3 DEF Eligible, Live, Unsent
      <3>2. PICK unknown : Block(worker.msg, unknown)
        BY <2>3
      <3>3. HeldState(unknown) \in {"blocked", "delivery_unknown"}
        BY DEF HeldState
      <3>4. OpenRow(worker.msg)
        BY <1>0, <1>h, <2>1, <3>1, <3>2, <3>3 DEF Block, OpenRow, Ready
      <3>5. \A m \in Msgs : m # worker.msg => SameRow(m)
        BY <1>0, <2>1, <3>2 DEF Block, SameRow
      <3> QED
        BY <3>4, <3>5 DEF RecordMoves
    <2> QED
      BY <1>1, <2>2, <2>3 DEF BeginRefused
  <1>2. ASSUME BeginOfficialDispatch PROVE \A m \in Msgs : RecordMoves(m)
    <2>1. worker.msg \in Msgs /\ state[worker.msg] \in Ready /\ UNCHANGED outbox
          /\ state' = [state EXCEPT ![worker.msg] = "in_flight"]
      BY <1>2, WorkerBusy DEF BeginOfficialDispatch, Idle, Eligible
    <2> QED
      BY <1>0, <2>1 DEF RecordMoves, SameRow, OpenRow, Ready, RecordTrue
  <1>3. ASSUME ResolveOfficialDispatch PROVE \A m \in Msgs : RecordMoves(m)
    <2>1. worker.msg \in Msgs /\ worker.result.outcome \in {"accepted", "not_accepted", "unknown"}
      BY <1>3, WorkerBusy DEF ResolveOfficialDispatch, Idle, TypeInvariant, Worker
    <2>2. CASE ~Matches(worker.msg, worker.result, worker.attempt)
      BY <1>3, <2>2 DEF ResolveOfficialDispatch, RecordMoves, SameRow
    <2>3. CASE /\ Matches(worker.msg, worker.result, worker.attempt)
               /\ worker.result.outcome = "accepted"
      <3>1. ResolveAccepted(worker.msg)
        BY <1>3, <2>3 DEF ResolveOfficialDispatch
      <3>2. Confirmed(worker.msg)
        BY <1>0, <1>3, <2>1, <2>3, <3>1
          DEF ResolveAccepted, Confirmed, ResolveOfficialDispatch, Matches, Present, Row
      <3>3. \A m \in Msgs : m # worker.msg => SameRow(m)
        BY <1>0, <2>1, <3>1 DEF ResolveAccepted, SameRow
      <3> QED
        BY <3>2, <3>3 DEF RecordMoves
    <2>4. CASE /\ Matches(worker.msg, worker.result, worker.attempt)
               /\ worker.result.outcome = "unknown"
      <3>1. ResolveUnknown(worker.msg, worker.result)
        BY <1>3, <2>4 DEF ResolveOfficialDispatch
      <3>2. state[worker.msg] = "in_flight" /\ ~outbox[worker.msg].sent
        BY <1>0, <2>1, <2>4 DEF Matches, RecordTrue
      <3>3. OpenRow(worker.msg)
        BY SMTT(30), <1>0, <1>h, <2>1, <3>1, <3>2 DEF ResolveUnknown, Block, HeldState, OpenRow, Row
      <3>4. \A m \in Msgs : m # worker.msg => SameRow(m)
        BY <1>0, <2>1, <3>1 DEF ResolveUnknown, Block, SameRow
      <3> QED
        BY <3>3, <3>4 DEF RecordMoves
    <2>5. CASE /\ Matches(worker.msg, worker.result, worker.attempt)
               /\ worker.result.outcome = "not_accepted"
      <3>1. ResolveNotAccepted(worker.msg, worker.result)
        BY <1>3, <2>5 DEF ResolveOfficialDispatch
      <3>2. state[worker.msg] = "in_flight" /\ ~outbox[worker.msg].sent
        BY <1>0, <2>1, <2>5 DEF Matches, RecordTrue
      <3>3. \A t \in Nat : LET row == [outbox[worker.msg] EXCEPT !.lease = 0, !.next = t]
                           IN  row \in Row /\ ~row.sent
        BY <1>0, <2>1, <3>2 DEF Row
      <3>t. Now + Later(worker.result.retry, RefusedWait) \in Nat
        <4>1. worker.result.retry \in Nat
          BY <1>0 DEF Worker, Result
        <4>2. Now \in Nat /\ RefusedWait \in Nat
          BY Durations
        <4>3. Later(worker.result.retry, RefusedWait) \in Nat
          BY <4>1, <4>2, LaterType
        <4> QED
          BY <4>2, <4>3
      <3>4. \E row \in Row : /\ ~row.sent
                             /\ \/ outbox' = [outbox EXCEPT ![worker.msg] = row]
                                \/ outbox' = Withdrawn([outbox EXCEPT ![worker.msg] = row])
        <4> DEFINE retried == [outbox[worker.msg] EXCEPT !.lease = 0,
                                   !.next = Now + Later(worker.result.retry, RefusedWait)]
        <4>1. Held(outbox[worker.msg]) \in Row /\ ~Held(outbox[worker.msg]).sent
          BY <1>0, <1>h, <2>1, <3>2, HeldType
        <4>2. retried \in Row /\ ~retried.sent
          BY <3>3, <3>t
        <4>3. \E row \in {Held(outbox[worker.msg]), retried} :
                \/ outbox' = [outbox EXCEPT ![worker.msg] = row]
                \/ outbox' = Withdrawn([outbox EXCEPT ![worker.msg] = row])
          BY <3>1 DEF ResolveNotAccepted
        <4> QED
          BY <4>1, <4>2, <4>3
      <3>5. \A m \in Msgs : /\ m = worker.msg => ~outbox'[m].sent
                            /\ m # worker.msg => outbox'[m].sent = outbox[m].sent
        <4>1. PICK row \in Row : /\ ~row.sent
                                 /\ \/ outbox' = [outbox EXCEPT ![worker.msg] = row]
                                    \/ outbox' = Withdrawn([outbox EXCEPT ![worker.msg] = row])
          BY <3>4
        <4>2. CASE outbox' = [outbox EXCEPT ![worker.msg] = row]
          BY <1>0, <2>1, <4>1, <4>2
        <4>3. CASE outbox' = Withdrawn([outbox EXCEPT ![worker.msg] = row])
          <5> DEFINE rows == [outbox EXCEPT ![worker.msg] = row]
          <5>1. \A m \in Msgs : rows[m] \in Row /\ rows[m] = IF m = worker.msg THEN row ELSE outbox[m]
            BY <1>0, <2>1
          <5>2. \A m \in Msgs : outbox'[m].sent = rows[m].sent
            BY <4>3, <5>1 DEF Withdrawn, Row
          <5> QED
            BY <4>1, <5>1, <5>2
        <4> QED
          BY <4>1, <4>2, <4>3
      <3>6. /\ state'[worker.msg] \in {"blocked", "retry_ready"}
            /\ \A m \in Msgs : m # worker.msg => state'[m] = state[m]
        BY <1>0, <2>1, <3>1 DEF ResolveNotAccepted
      <3> QED
        BY <2>1, <3>2, <3>5, <3>6 DEF RecordMoves, OpenRow, SameRow
    <2> QED
      BY <2>1, <2>2, <2>3, <2>4, <2>5
  <1>4. ASSUME ResolveOfficialPoll PROVE \A m \in Msgs : RecordMoves(m)
    <2>1. UNCHANGED state /\ (outbox' = outbox \/ outbox' = Withdrawn(outbox))
      BY <1>4 DEF ResolveOfficialPoll
    <2> QED
      BY <1>0, <2>1 DEF RecordMoves, SameRow, Withdrawn, Row
  <1>5. ASSUME \/ (\E m \in Msgs : ClaimNotification(m)) \/ ReleaseNotificationClaim
        PROVE  \A m \in Msgs : RecordMoves(m)
    BY <1>0, <1>5 DEF ClaimNotification, ReleaseNotificationClaim, RecordMoves, SameRow, Row
  <1>6. ASSUME \/ \E m \in Msgs : ClaimOfficialPoll(m)
               \/ Recheck \/ Post \/ PostNotSent \/ Answer \/ Poll \/ WorkerError
        PROVE  \A m \in Msgs : RecordMoves(m)
    BY <1>6 DEF ClaimOfficialPoll, Recheck, Post, PostNotSent, Answer, Poll, WorkerError,
        RecordMoves, SameRow, store
  <1> QED
    BY <1>1, <1>2, <1>3, <1>4, <1>5, <1>6 DEF WorkerStep

\* The sweep, admissions, the provider, the operator and restarts leave the
\* record of an accepted row alone.
LEMMA OtherRecords ==
  ASSUME TypeInvariant, Records,
         \/ ExpireNotifications \/ ProviderStep \/ OperatorStep \/ Tick
         \/ \E m \in Msgs, failure \in BOOLEAN : Enqueue(m, failure)
         \/ Crash \/ (\E c \in Configs : Start(c)) \/ Backup
         \/ \E n \in 1 .. MaxBack : ClockBack(n)
         \/ UNCHANGED vars
  PROVE  \A m \in Msgs : RecordMoves(m)
  <1>0. /\ state \in [Msgs -> States] /\ outbox \in [Msgs -> Row]
        /\ \A m \in Msgs : outbox[m] \in Row /\ RecordTrue(outbox[m], state[m], m)
        /\ RowsTrue
    BY DEF TypeInvariant, Records, RowsTrue
  <1>1. CASE ExpireNotifications
    BY <1>0, <1>1, SweepRecords DEF ExpireNotifications, RecordMoves, SameRow, OpenRow
  <1>2. ASSUME NEW n \in Msgs, NEW failure \in BOOLEAN, Enqueue(n, failure)
        PROVE  \A m \in Msgs : RecordMoves(m)
    <2>1. SweptOutbox \in [Msgs -> Row] /\ SweptState \in [Msgs -> States]
      BY SweepType
    <2>2. Admitted(n)
      BY <1>2, <2>1 DEF Enqueue, Admitted, NoRow
    <2>3. \A m \in Msgs : m # n => state'[m] = SweptState[m] /\ outbox'[m] = SweptOutbox[m]
      BY <1>2, <2>1 DEF Enqueue
    <2> QED
      BY <1>0, <2>2, <2>3, SweepRecords DEF RecordMoves, SameRow, OpenRow
  <1>3. CASE OperatorStep
    <2>1. ASSUME NEW n \in Msgs,
                 RetryNotification(n) \/ QuarantineNotification(n) \/ AddSilence(n)
          PROVE  \A m \in Msgs : RecordMoves(m)
      BY <1>0, <2>1 DEF RetryNotification, QuarantineNotification, AddSilence, RecordMoves,
          SameRow, Row
    <2>2. ASSUME NEW d \in Dests, ResumeDestination(d) PROVE \A m \in Msgs : RecordMoves(m)
      BY <1>0, <2>2 DEF ResumeDestination, RecordMoves, SameRow, Row
    <2>3. CASE DiscardIsolatedNotifications
      BY <1>0, <2>3 DEF DiscardIsolatedNotifications, RecordMoves, SameRow, Row
    <2>4. CASE ReconcileOfficialPaidChannel
      BY <1>0, <2>4 DEF ReconcileOfficialPaidChannel, RecordMoves, SameRow, OpenRow, Held, Row,
          Unsent, Present, RecordTrue
    <2> QED
      BY <1>3, <2>1, <2>2, <2>3, <2>4 DEF OperatorStep
  <1>4. ASSUME NEW c \in Configs, Start(c) PROVE \A m \in Msgs : RecordMoves(m)
    <2>1. \A m \in Msgs : Retargeted(c)[m] \in Row /\ Retargeted(c)[m].sent = outbox[m].sent
      BY <1>0 DEF Retargeted, Row
    <2>2. \A m \in Msgs : Withdrawn(Retargeted(c))[m].sent = Retargeted(c)[m].sent
      BY <2>1 DEF Withdrawn, Row
    <2>3. UNCHANGED state /\ outbox' \in {Retargeted(c), Withdrawn(Retargeted(c))}
      BY <1>4 DEF Start
    <2> QED
      BY <2>1, <2>2, <2>3 DEF RecordMoves, SameRow
  <1>5. CASE \/ ProviderStep \/ Tick \/ (\E n \in 1 .. MaxBack : ClockBack(n)) \/ UNCHANGED vars
             \/ Crash \/ Backup
    BY <1>5 DEF ProviderStep, ProviderAccepts, ProviderRefuses, Lost, Tick, ClockBack, Crash,
        Backup, vars, store, RecordMoves, SameRow
  <1> QED
    BY <1>1, <1>2, <1>3, <1>4, <1>5

\* Nothing that was delivered or admitted is forgotten.
LEMMA ObservationsGrow ==
  ASSUME TypeInvariant, [Next]_vars
  PROVE  /\ seen \subseteq seen' /\ \A m \in Msgs : deliveries[m] > 0 => deliveries'[m] > 0
  <1>0. deliveries \in [Msgs -> Nat]
    BY DEF TypeInvariant
  <1>1. CASE WorkerStep
    BY <1>1 DEF WorkerStep, ClaimNotification, ClaimOfficialPoll, BeginRefused,
         BeginOfficialDispatch, Recheck, Post, PostNotSent, Answer, ResolveOfficialDispatch,
         ReleaseNotificationClaim, Poll, ResolveOfficialPoll, ghost
  <1>2. CASE \/ ExpireNotifications \/ WorkerError \/ Tick \/ UNCHANGED vars
             \/ \E m \in Msgs, failure \in BOOLEAN : Enqueue(m, failure)
             \/ \E n \in 1 .. MaxBack : ClockBack(n)
    BY <1>2 DEF ExpireNotifications, Enqueue, WorkerError, Tick, ClockBack, vars, ghost
  <1>3. CASE OperatorStep \/ ProcessStep
    BY <1>3 DEF OperatorStep, RetryNotification, QuarantineNotification, AddSilence,
         ResumeDestination, DiscardIsolatedNotifications, ReconcileOfficialPaidChannel,
         ProcessStep, Crash, Start, Backup, RestoreBackup, ghost
  <1>4. ASSUME NEW r \in wire, ProviderAccepts(r) \/ ProviderRefuses(r) \/ Lost(r)
        PROVE  /\ seen \subseteq seen' /\ \A m \in Msgs : deliveries[m] > 0 => deliveries'[m] > 0
    <2>1. r.msg \in Msgs
      BY <1>4 DEF TypeInvariant
    <2> QED
      BY <1>0, <1>4, <2>1 DEF ProviderAccepts, ProviderRefuses, Lost, ghost
  <1> QED
    BY <1>1, <1>2, <1>3, <1>4 DEF Next, ProviderStep

\* What the worker hears is true: an acceptance is reported only after the
\* provider accepted, and it is still about the same row when it is resolved.
LEMMA EvidenceNext ==
  ASSUME TypeInvariant, EvidenceTrue, [Next]_vars
  PROVE  EvidenceTrue'
  <1>0. worker \in Worker
    BY DEF TypeInvariant
  <1>1. \A m \in Msgs : deliveries[m] > 0 => deliveries'[m] > 0
    BY ObservationsGrow
  <1>2. ASSUME UNCHANGED worker PROVE EvidenceTrue'
    BY <1>0, <1>1, <1>2, WorkerBusy DEF EvidenceTrue, Idle
  <1>3. ASSUME worker'.reply = "none", worker'.pc # "answered" PROVE EvidenceTrue'
    BY <1>3 DEF EvidenceTrue
  <1>4. ASSUME worker'.msg = worker.msg, worker'.reply = worker.reply, worker'.pc # "answered"
        PROVE  EvidenceTrue'
    BY <1>1, <1>4 DEF EvidenceTrue
  <1>5. ASSUME NEW r, worker' = [worker EXCEPT !.pc = "answered", !.result = r],
               r.outcome = "accepted" => worker.reply = "accepted"
        PROVE  EvidenceTrue'
    <2>1. /\ worker'.msg = worker.msg /\ worker'.reply = worker.reply /\ worker'.result = r
      BY <1>0, <1>5 DEF Worker
    <2> QED
      BY <1>1, <1>5, <2>1 DEF EvidenceTrue
  <1>6. CASE \/ BeginRefused \/ BeginOfficialDispatch \/ Post
             \/ (Recheck /\ DeliveryAllowed(worker.msg))
    <2>1. worker'.msg = worker.msg /\ worker'.reply = worker.reply /\ worker'.pc # "answered"
      <3>1. CASE BeginRefused
        BY <1>0, <3>1 DEF BeginRefused, Worker
      <3>2. CASE BeginOfficialDispatch
        BY <1>0, <3>2 DEF BeginOfficialDispatch, Worker
      <3>3. CASE Post \/ (Recheck /\ DeliveryAllowed(worker.msg))
        BY <1>0, <3>3 DEF Post, Recheck, Worker
      <3> QED
        BY <1>6, <3>1, <3>2, <3>3
    <2> QED
      BY <1>4, <2>1
  <1>7. CASE Recheck /\ ~DeliveryAllowed(worker.msg)
    BY <1>5, <1>7 DEF Recheck, Outcome
  <1>8. CASE PostNotSent
    <2>1. PICK r \in RefusedResults : worker' = [worker EXCEPT !.pc = "answered", !.result = r]
      BY <1>8 DEF PostNotSent
    <2>2. r.outcome # "accepted"
      BY ResultTypes
    <2> QED
      BY <1>5, <2>1, <2>2
  <1>9. CASE Answer
    <2>1. PICK r \in ResultsOf(worker.reply) :
            worker' = [worker EXCEPT !.pc = "answered", !.result = r]
      BY <1>9 DEF Answer
    <2>2. r.outcome = "accepted" => worker.reply = "accepted"
      BY ResultTypes DEF ResultsOf
    <2> QED
      BY <1>5, <2>1, <2>2
  <1>10. CASE \/ (\E m \in Msgs : ClaimNotification(m) \/ ClaimOfficialPoll(m))
              \/ ResolveOfficialDispatch \/ ReleaseNotificationClaim \/ ResolveOfficialPoll
              \/ WorkerError \/ Crash
    <2>1. worker'.reply = "none" /\ worker'.pc # "answered"
      <3>1. CASE \E m \in Msgs : ClaimNotification(m) \/ ClaimOfficialPoll(m)
        BY <3>1 DEF ClaimNotification, ClaimOfficialPoll, At
      <3>2. CASE \/ ResolveOfficialDispatch \/ ReleaseNotificationClaim \/ ResolveOfficialPoll
                 \/ WorkerError \/ Crash
        <4>1. worker' \in {At("idle"), At("down")}
          BY <3>2 DEF ResolveOfficialDispatch, ReleaseNotificationClaim, ResolveOfficialPoll,
              WorkerError, Crash
        <4> QED
          BY <4>1 DEF At
      <3> QED
        BY <1>10, <3>1, <3>2
    <2> QED
      BY <1>3, <2>1
  <1>11. CASE Poll
    <2>1. \/ worker' = At("idle")
          \/ \E r \in PollResults : worker' = [worker EXCEPT !.pc = "polled", !.result = r]
      BY <1>11 DEF Poll
    <2>2. CASE worker' = At("idle")
      BY <1>3, <2>2 DEF At
    <2>3. ASSUME NEW r \in PollResults, worker' = [worker EXCEPT !.pc = "polled", !.result = r]
          PROVE  EvidenceTrue'
      <3>1. worker'.msg = worker.msg /\ worker'.reply = worker.reply /\ worker'.pc # "answered"
        BY <1>0, <2>3 DEF Worker
      <3> QED
        BY <1>4, <3>1
    <2> QED
      BY <2>1, <2>2, <2>3
  <1>12. ASSUME NEW c \in Configs, Start(c) PROVE EvidenceTrue'
    <2>1. worker' = worker \/ worker' = At("idle")
      BY <1>12 DEF Start
    <2> QED
      BY <1>2, <1>3, <2>1 DEF At
  <1>13. ASSUME NEW r \in wire, ProviderAccepts(r) \/ ProviderRefuses(r) PROVE EvidenceTrue'
    <2>1. r.msg \in Msgs /\ deliveries \in [Msgs -> Nat]
      BY DEF TypeInvariant
    <2>2. ProviderAccepts(r) => deliveries'[r.msg] > 0
      BY <2>1 DEF ProviderAccepts, Duplicate
    <2>3. CASE worker.pc = "sending" /\ worker.msg = r.msg /\ worker.attempt = r.attempt
      <3>1. /\ worker'.msg = r.msg /\ worker'.pc = "sending"
            /\ worker'.reply = "accepted" => ProviderAccepts(r)
        BY <1>0, <1>13, <2>3 DEF ProviderAccepts, ProviderRefuses, Heard, Worker
      <3> QED
        BY <2>1, <2>2, <3>1 DEF EvidenceTrue
    <2>4. CASE ~(worker.pc = "sending" /\ worker.msg = r.msg /\ worker.attempt = r.attempt)
      BY <1>2, <1>13, <2>4 DEF ProviderAccepts, ProviderRefuses, Heard
    <2> QED
      BY <2>3, <2>4
  <1>14. CASE \/ ExpireNotifications \/ OperatorStep \/ Tick \/ Backup
              \/ (\E r \in wire : Lost(r))
              \/ (\E m \in Msgs, failure \in BOOLEAN : Enqueue(m, failure))
              \/ (\E b \in backup : RestoreBackup(b))
              \/ \E n \in 1 .. MaxBack : ClockBack(n)
              \/ UNCHANGED vars
    <2>1. UNCHANGED worker
      BY <1>14 DEF ExpireNotifications, OperatorStep, RetryNotification, QuarantineNotification,
          AddSilence, ResumeDestination, DiscardIsolatedNotifications,
          ReconcileOfficialPaidChannel, Tick, Backup, Lost, Enqueue, RestoreBackup, ClockBack, vars
    <2> QED
      BY <1>2, <2>1
  <1> QED
    BY <1>6, <1>7, <1>8, <1>9, <1>10, <1>11, <1>12, <1>13, <1>14
      DEF Next, WorkerStep, ProviderStep, ProcessStep

\* A restored row says what its snapshot said, except that a paid channel's
\* unsent row is held.
LEMMA RestoreRecords ==
  ASSUME TypeInvariant, Records, NEW b \in backup, RestoreBackup(b)
  PROVE  RowsTrue'
  <1> SUFFICES ASSUME NEW m \in Msgs PROVE RecordTrue(outbox[m], state[m], m)'
    BY DEF RowsTrue
  <1>1. /\ b.outbox[m] \in Row /\ b.state[m] \in States
        /\ RecordTrue(b.outbox[m], b.state[m], m)
    BY DEF TypeInvariant, Snapshot, Records, CopiesTrue
  <1>2. UNCHANGED <<deliveries, seen>>
    BY DEF RestoreBackup, ghost
  <1>3. CASE b.state[m] = "accepted"
    <2>1. outbox'[m] = b.outbox[m] /\ state'[m] = b.state[m]
      BY <1>1, <1>3 DEF RestoreBackup, RecordTrue
    <2> QED
      BY <1>1, <1>2, <2>1 DEF RecordTrue
  <1>4. CASE b.state[m] # "accepted"
    <2>1. state'[m] # "accepted" /\ (state'[m] # "absent" => b.state[m] # "absent")
      BY <1>4 DEF RestoreBackup, HeldState
    <2>2. ~outbox'[m].sent
      BY <1>1, <1>4 DEF RestoreBackup, RecordTrue, Held, Row
    <2> QED
      BY <1>1, <1>2, <2>1, <2>2 DEF RecordTrue
  <1> QED
    BY <1>3, <1>4

\* Every step keeps the records true.
LEMMA RecordsNext ==
  ASSUME TypeInvariant, Records, [Next]_vars
  PROVE  Records'
  <1>0. /\ \A m \in Msgs : deliveries[m] > 0 => deliveries'[m] > 0
        /\ seen \subseteq seen'
    BY ObservationsGrow
  <1>1. EvidenceTrue'
    BY EvidenceNext DEF Records
  <1>2. CopiesTrue'
    <2>1. CASE backup' = backup
      BY <1>0, <2>1 DEF Records, CopiesTrue, RecordTrue
    <2>2. CASE Backup
      BY <1>0, <2>2 DEF Backup, Records, CopiesTrue, RowsTrue, RecordTrue
    <2>3. backup' = backup \/ Backup
      <3>1. CASE WorkerStep \/ WorkerError
        BY <3>1 DEF WorkerStep, ClaimNotification, ClaimOfficialPoll, BeginRefused,
            BeginOfficialDispatch, Recheck, Post, PostNotSent, Answer, ResolveOfficialDispatch,
            ReleaseNotificationClaim, Poll, ResolveOfficialPoll, WorkerError
      <3>2. CASE OperatorStep \/ ProcessStep
        BY <3>2 DEF OperatorStep, RetryNotification, QuarantineNotification, AddSilence,
            ResumeDestination, DiscardIsolatedNotifications, ReconcileOfficialPaidChannel,
            ProcessStep, Crash, Start, RestoreBackup
      <3>3. CASE \/ ExpireNotifications \/ ProviderStep \/ Tick \/ UNCHANGED vars
                 \/ (\E m \in Msgs, failure \in BOOLEAN : Enqueue(m, failure))
                 \/ \E n \in 1 .. MaxBack : ClockBack(n)
        BY <3>3 DEF ExpireNotifications, ProviderStep, ProviderAccepts, ProviderRefuses, Lost,
            Tick, vars, Enqueue, ClockBack
      <3> QED
        BY <3>1, <3>2, <3>3 DEF Next
    <2> QED
      BY <2>1, <2>2, <2>3
  <1>3. RowsTrue'
    <2>1. CASE \E b \in backup : RestoreBackup(b)
      BY <2>1, RestoreRecords
    <2>2. CASE ~\E b \in backup : RestoreBackup(b)
      <3>1. \A m \in Msgs : RecordMoves(m)
        BY <2>2, WorkerRecords, OtherRecords DEF Next, ProcessStep
      <3> SUFFICES ASSUME NEW m \in Msgs PROVE RecordTrue(outbox[m], state[m], m)'
        BY DEF RowsTrue
      <3>2. RecordTrue(outbox[m], state[m], m) /\ RecordMoves(m)
        BY <3>1 DEF Records, RowsTrue
      <3>3. CASE Confirmed(m)
        <4>1. deliveries[m] > 0
          BY <3>3 DEF Confirmed, Records, EvidenceTrue
        <4> QED
          BY <1>0, <3>2, <3>3, <4>1 DEF RecordTrue, Confirmed
      <3>4. CASE SameRow(m) \/ OpenRow(m) \/ Admitted(m)
        BY <1>0, <3>2, <3>4 DEF RecordTrue, SameRow, OpenRow, Admitted
      <3> QED
        BY <3>2, <3>3, <3>4 DEF RecordMoves
    <2> QED
      BY <2>1, <2>2
  <1> QED
    BY <1>1, <1>2, <1>3 DEF Records

\* Nothing is recorded at first.
LEMMA RecordsInit == Init => Records
  BY DEF Init, Records, RowsTrue, CopiesTrue, EvidenceTrue, RecordTrue, NoRow, At

\* The records are true in every reachable state of every channel.
LEMMA RecordsHold == Spec => []Records
  BY RecordsInit, RecordsNext, TypeCorrect, PTL DEF Spec

\* An acceptance receipt is final, on every channel: no answer, poll, retry,
\* sweep or reconciliation takes a row out of "accepted".
THEOREM ReceiptsAreFinal == Spec => AcceptedIsFinal
  <1>1. TypeInvariant /\ Records /\ [Next]_vars =>
          [\A m \in Msgs : state[m] = "accepted" /\ counts'.restores = counts.restores
                => state'[m] = "accepted"]_vars
    <2> SUFFICES ASSUME TypeInvariant, Records, [Next]_vars, NEW m \in Msgs,
                        state[m] = "accepted", counts'.restores = counts.restores
                 PROVE  state'[m] = "accepted"
      OBVIOUS
    <2>1. ~\E b \in backup : RestoreBackup(b)
      BY RestoresCount
    <2>2. RecordMoves(m) /\ RecordTrue(outbox[m], state[m], m)
      BY <2>1, WorkerRecords, OtherRecords DEF Next, ProcessStep, Records, RowsTrue
    <2> QED
      BY <2>2 DEF RecordMoves, RecordTrue, SameRow, OpenRow, Admitted, Confirmed
  <1> QED
    BY <1>1, TypeCorrect, RecordsHold, PTL DEF Spec, AcceptedIsFinal

-----------------------------------------------------------------------------
(* Withdrawn rows *)

Gone(m) == outbox[m].isolated \/ outbox[m].suppressed

\* A step that leaves a withdrawn row withdrawn and begins no attempt of it.
StaysGone(m) == state'[m] # "absent" => Gone(m)' /\ intent'[m].attempt = intent[m].attempt

\* A sweep over all rows (an opt-out, a new target) withdraws more of them.
LEMMA WithdrawnMore ==
  ASSUME NEW rows \in [Msgs -> Row], NEW m \in Msgs
  PROVE  /\ rows[m].isolated => Withdrawn(rows)[m].isolated
         /\ rows[m].suppressed => Withdrawn(rows)[m].suppressed
  BY DEF Withdrawn, Row

\* The sweep leaves a withdrawn row withdrawn, or removes it.
LEMMA SweepKeepsGone ==
  ASSUME TypeInvariant, NEW m \in Msgs, Gone(m)
  PROVE  SweptState[m] # "absent" =>
            /\ SweptOutbox[m].isolated \/ SweptOutbox[m].suppressed
            /\ SweptIntent[m].attempt = intent[m].attempt
  <1>1. outbox[m] \in Row /\ intent[m] \in Intent
    BY RowTypes
  <1>2. RecoveredRow(m).isolated \/ RecoveredRow(m).suppressed
    BY <1>1 DEF RecoveredRow, Held, Row, Gone
  <1>3. PollsExpired[m].attempt = intent[m].attempt
    BY <1>1 DEF PollsExpired, Intent
  <1>4. ASSUME SweptState[m] # "absent" PROVE ~Expired(m)
    BY <1>4 DEF SweptState
  <1> QED
    BY <1>2, <1>3, <1>4 DEF SweptOutbox, SweptIntent

\* The worker: BeginOfficialDispatch takes no withdrawn row.
LEMMA WorkerKeepsGone ==
  ASSUME TypeInvariant, WorkerStep \/ WorkerError, NEW m \in Msgs, Gone(m)
  PROVE  StaysGone(m)
  <1>0. /\ worker \in Worker /\ outbox \in [Msgs -> Row] /\ outbox[m] \in Row
        /\ intent \in [Msgs -> Intent] /\ intent[m] \in Intent
    BY RowTypes DEF TypeInvariant
  <1>1. CASE BeginRefused
    <2>1. worker.msg \in Msgs
      BY <1>1, WorkerBusy DEF BeginRefused, Idle
    <2>2. \/ UNCHANGED outbox
          \/ outbox' = [outbox EXCEPT ![worker.msg] = Held(@)]
      BY <1>1 DEF BeginRefused, Block
    <2> QED
      <3>1. Held(outbox[m]).isolated = outbox[m].isolated
            /\ Held(outbox[m]).suppressed = outbox[m].suppressed
        BY <1>0 DEF Held, Row
      <3>2. outbox'[m] = outbox[m] \/ outbox'[m] = Held(outbox[m])
        BY <1>0, <2>1, <2>2
      <3>3. UNCHANGED intent
        BY <1>1 DEF BeginRefused
      <3> QED
        BY <3>1, <3>2, <3>3 DEF StaysGone, Gone
  <1>2. CASE BeginOfficialDispatch
    <2>1. worker.msg # m /\ UNCHANGED outbox
          /\ intent' = [intent EXCEPT ![worker.msg] = Begun(worker.msg)]
      BY <1>2 DEF BeginOfficialDispatch, Eligible, Live, Gone
    <2> QED
      BY <1>0, <2>1 DEF StaysGone, Gone
  <1>3. CASE ResolveOfficialDispatch
    <2>1. worker.msg \in Msgs /\ worker.result.outcome \in {"accepted", "not_accepted", "unknown"}
      BY <1>3, WorkerBusy DEF ResolveOfficialDispatch, Idle, TypeInvariant, Worker
    <2>2. CASE ~Matches(worker.msg, worker.result, worker.attempt)
      BY <1>3, <2>2 DEF ResolveOfficialDispatch, StaysGone, Gone
    <2>3. CASE /\ Matches(worker.msg, worker.result, worker.attempt)
               /\ worker.result.outcome = "accepted"
      <3>1. ResolveAccepted(worker.msg)
        BY <1>3, <2>3 DEF ResolveOfficialDispatch
      <3>2. Gone(m)'
        BY <1>0, <2>1, <3>1 DEF ResolveAccepted, Gone, Row
      <3>3. intent'[m].attempt = intent[m].attempt
        <4>1. PICK s \in {"open", "final"} : intent' = [intent EXCEPT ![worker.msg] =
                [@ EXCEPT !.uncertain = FALSE,
                          !.providerState = IF Twilio THEN s ELSE "open",
                          !.nextPoll = IF Twilio /\ s = "open" THEN Now + PollWait ELSE 0,
                          !.pollDeadline = IF Twilio THEN intent[worker.msg].first + PollDeadline
                                           ELSE 0]]
          BY <3>1 DEF ResolveAccepted
        <4> QED
          BY <1>0, <2>1, <4>1 DEF Intent
      <3> QED
        BY <3>2, <3>3 DEF StaysGone
    <2>4. CASE /\ Matches(worker.msg, worker.result, worker.attempt)
               /\ worker.result.outcome = "unknown"
      <3>1. ResolveUnknown(worker.msg, worker.result)
        BY <1>3, <2>4 DEF ResolveOfficialDispatch
      <3>2. UNCHANGED intent
        BY <3>1 DEF ResolveUnknown
      <3>3. Gone(m)'
        BY ZenonT(40), <1>0, <2>1, <3>1 DEF ResolveUnknown, Block, Held, Gone, Row
      <3> QED
        BY <3>2, <3>3 DEF StaysGone
    <2>5. CASE /\ Matches(worker.msg, worker.result, worker.attempt)
               /\ worker.result.outcome = "not_accepted"
      <3>1. ResolveNotAccepted(worker.msg, worker.result)
        BY <1>3, <2>5 DEF ResolveOfficialDispatch
      <3>2. intent'[m].attempt = intent[m].attempt
        BY <1>0, <2>1, <3>1 DEF ResolveNotAccepted, Intent
      <3> DEFINE next == Now + Later(worker.result.retry, RefusedWait)
                 retried == [outbox[worker.msg] EXCEPT !.lease = 0, !.next = next]
      <3>3. next \in Nat
        <4>1. worker.result.retry \in Nat
          BY <1>0 DEF Worker, Result
        <4>2. Now \in Nat /\ RefusedWait \in Nat
          BY Durations
        <4>3. Later(worker.result.retry, RefusedWait) \in Nat
          BY <4>1, <4>2, LaterType
        <4> QED
          BY <4>2, <4>3
      <3>4. PICK row \in {Held(outbox[worker.msg]), retried} :
              \/ outbox' = [outbox EXCEPT ![worker.msg] = row]
              \/ outbox' = Withdrawn([outbox EXCEPT ![worker.msg] = row])
        BY <3>1 DEF ResolveNotAccepted
      <3>5. /\ row \in Row /\ row.isolated = outbox[worker.msg].isolated
            /\ row.suppressed = outbox[worker.msg].suppressed
        <4>1. outbox[worker.msg] \in Row
          BY <1>0, <2>1
        <4>2. CASE row = Held(outbox[worker.msg])
          BY <4>1, <4>2 DEF Held, Row
        <4>3. CASE row = retried
          BY <3>3, <4>1, <4>3 DEF Row
        <4> QED
          BY <3>4, <4>2, <4>3
      <3> DEFINE rows == [outbox EXCEPT ![worker.msg] = row]
      <3>6. rows \in [Msgs -> Row] /\ (rows[m].isolated \/ rows[m].suppressed)
        BY <1>0, <2>1, <3>5 DEF Gone
      <3>7. outbox' = rows \/ outbox' = Withdrawn(rows)
        BY <3>4
      <3>8. Gone(m)'
        <4> HIDE DEF rows
        <4> QED
          BY <3>6, <3>7, WithdrawnMore DEF Gone
      <3> QED
        BY <3>2, <3>8 DEF StaysGone
    <2> QED
      BY <2>1, <2>2, <2>3, <2>4, <2>5
  <1>4. CASE ResolveOfficialPoll
    <2>1. outbox' = outbox \/ outbox' = Withdrawn(outbox)
      BY <1>4 DEF ResolveOfficialPoll
    <2>2. Gone(m)'
      BY <1>0, <2>1, WithdrawnMore DEF Gone
    <2>3. \/ UNCHANGED intent
          \/ \E next, status : intent' = [intent EXCEPT ![worker.msg] =
                [@ EXCEPT !.pollLease = 0, !.nextPoll = next, !.providerState = status]]
      BY <1>4 DEF ResolveOfficialPoll
    <2>4. worker.msg \in Msgs
      BY <1>4, WorkerBusy DEF ResolveOfficialPoll, Idle
    <2>5. intent'[m].attempt = intent[m].attempt
      <3>1. \A next, status : [intent[m] EXCEPT !.pollLease = 0, !.nextPoll = next,
                                  !.providerState = status].attempt = intent[m].attempt
        BY <1>0 DEF Intent
      <3>2. ASSUME NEW next, NEW status, intent' = [intent EXCEPT ![worker.msg] =
                [@ EXCEPT !.pollLease = 0, !.nextPoll = next, !.providerState = status]]
            PROVE  intent'[m].attempt = intent[m].attempt
        <4>1. CASE m = worker.msg
          BY <1>0, <3>1, <3>2, <4>1
        <4>2. CASE m # worker.msg
          BY <1>0, <3>2, <4>2
        <4> QED
          BY <4>1, <4>2
      <3> QED
        BY <2>3, <3>2
    <2> QED
      BY <2>2, <2>5 DEF StaysGone
  <1>5. ASSUME NEW n \in Msgs, ClaimOfficialPoll(n) PROVE StaysGone(m)
    <2>1. PollsExpired \in [Msgs -> Intent] /\ PollsExpired[m].attempt = intent[m].attempt
      BY <1>0 DEF PollsExpired, Intent
    <2>2. PollClaimed(n).attempt = intent[n].attempt
      BY <1>0 DEF PollClaimed, Intent
    <2> QED
      BY <1>5, <2>1, <2>2 DEF ClaimOfficialPoll, StaysGone, Gone
  <1>6. CASE (\E n \in Msgs : ClaimNotification(n)) \/ ReleaseNotificationClaim
    BY <1>0, <1>6 DEF ClaimNotification, ReleaseNotificationClaim, StaysGone, Gone, Row
  <1>7. CASE Recheck \/ Post \/ PostNotSent \/ Answer \/ Poll \/ WorkerError
    BY <1>7 DEF Recheck, Post, PostNotSent, Answer, Poll, WorkerError, store, StaysGone, Gone
  <1> QED
    BY <1>1, <1>2, <1>3, <1>4, <1>5, <1>6, <1>7 DEF WorkerStep

\* The other actors: an operator revives no withdrawn row and a restart only
\* withdraws more.
LEMMA OthersKeepGone ==
  ASSUME TypeInvariant, RowsTrue, NEW m \in Msgs, Gone(m), Present(m),
         \/ ExpireNotifications \/ ProviderStep \/ OperatorStep \/ Tick
         \/ \E n \in Msgs, failure \in BOOLEAN : Enqueue(n, failure)
         \/ Crash \/ (\E c \in Configs : Start(c)) \/ Backup
         \/ \E n \in 1 .. MaxBack : ClockBack(n)
         \/ UNCHANGED vars
  PROVE  StaysGone(m)
  <1>0. outbox \in [Msgs -> Row] /\ \A n \in Msgs : outbox[n] \in Row
    BY DEF TypeInvariant
  <1>1. CASE ExpireNotifications
    BY <1>1, SweepKeepsGone DEF ExpireNotifications, StaysGone, Gone
  <1>2. ASSUME NEW n \in Msgs, NEW failure \in BOOLEAN, Enqueue(n, failure)
        PROVE  StaysGone(m)
    <2>1. /\ SweptOutbox \in [Msgs -> Row] /\ SweptState \in [Msgs -> States]
          /\ SweptIntent \in [Msgs -> Intent]
      BY SweepType
    <2>2. m # n
      BY <1>2 DEF Enqueue, RowsTrue, RecordTrue, Present
    <2>3. state'[m] = SweptState[m] /\ outbox'[m] = SweptOutbox[m] /\ intent'[m] = SweptIntent[m]
      BY <1>2, <2>1, <2>2 DEF Enqueue
    <2> QED
      BY <2>3, SweepKeepsGone DEF StaysGone, Gone
  <1>3. CASE OperatorStep
    <2>0. UNCHANGED intent
      BY <1>3 DEF OperatorStep, RetryNotification, QuarantineNotification, AddSilence,
          ResumeDestination, DiscardIsolatedNotifications, ReconcileOfficialPaidChannel
    <2>1. ASSUME NEW n \in Msgs,
                 RetryNotification(n) \/ QuarantineNotification(n) \/ AddSilence(n)
          PROVE  Gone(m)'
      BY <1>0, <2>1 DEF RetryNotification, QuarantineNotification, AddSilence, Gone, Row
    <2>2. ASSUME NEW d \in Dests, ResumeDestination(d) PROVE Gone(m)'
      BY <1>0, <2>2 DEF ResumeDestination, Gone, Row
    <2>3. ASSUME DiscardIsolatedNotifications \/ ReconcileOfficialPaidChannel PROVE Gone(m)'
      <3>1. outbox'[m] \in {outbox[m], [outbox[m] EXCEPT !.suppressed = TRUE], Held(outbox[m])}
        BY <2>3 DEF DiscardIsolatedNotifications, ReconcileOfficialPaidChannel
      <3> QED
        BY <1>0, <3>1 DEF Held, Gone, Row
    <2> QED
      BY <1>3, <2>0, <2>1, <2>2, <2>3 DEF OperatorStep, StaysGone
  <1>4. ASSUME NEW c \in Configs, Start(c) PROVE StaysGone(m)
    <2>1. Retargeted(c) \in [Msgs -> Row]
      BY <1>0 DEF Retargeted, Row
    <2>2. Retargeted(c)[m].isolated \/ Retargeted(c)[m].suppressed
      BY <1>0 DEF Retargeted, Gone, Row
    <2>3. UNCHANGED intent /\ outbox' \in {Retargeted(c), Withdrawn(Retargeted(c))}
      BY <1>4 DEF Start
    <2> QED
      BY <2>1, <2>2, <2>3, WithdrawnMore DEF StaysGone, Gone
  <1>5. CASE \/ ProviderStep \/ Tick \/ (\E n \in 1 .. MaxBack : ClockBack(n)) \/ UNCHANGED vars
             \/ Crash \/ Backup
    BY <1>5 DEF ProviderStep, ProviderAccepts, ProviderRefuses, Lost, Tick, ClockBack, Crash,
        Backup, vars, store, StaysGone, Gone
  <1> QED
    BY <1>1, <1>2, <1>3, <1>4, <1>5

\* A row isolated by a change of target or suppressed by a silence, a
\* revocation or an opt-out is never revived and never begins another attempt,
\* on every channel.
THEOREM WithdrawalIsFinal == Spec => WithdrawnForGood
  <1>1. TypeInvariant /\ Records /\ [Next]_vars =>
          [\A m \in Msgs :
            /\ Present(m) /\ (outbox[m].isolated \/ outbox[m].suppressed)
            /\ state'[m] # "absent" /\ counts'.restores = counts.restores
            => /\ outbox'[m].isolated \/ outbox'[m].suppressed
               /\ intent'[m].attempt = intent[m].attempt]_vars
    <2> SUFFICES ASSUME TypeInvariant, Records, [Next]_vars, NEW m \in Msgs,
                        Present(m), Gone(m), state'[m] # "absent",
                        counts'.restores = counts.restores
                 PROVE  Gone(m)' /\ intent'[m].attempt = intent[m].attempt
      BY DEF Gone
    <2>1. ~\E b \in backup : RestoreBackup(b)
      BY RestoresCount
    <2>2. StaysGone(m)
      BY <2>1, WorkerKeepsGone, OthersKeepGone DEF Next, ProcessStep, Records
    <2> QED
      BY <2>2 DEF StaysGone
  <1> QED
    BY <1>1, TypeCorrect, RecordsHold, PTL DEF Spec, WithdrawnForGood

-----------------------------------------------------------------------------
(* Consent *)

\* An opt-out is on record, or a later consent has lifted it, or no consent is
\* left and any new one will be later.
OptoutHeeded ==
    /\ policy.consent <= Now
    /\ \/ policy.optout >= optedOut
       \/ policy.consent > optedOut
       \/ policy.consent = 0 /\ Now > optedOut
MayPost == Subscribed /\ (back = 0 => policy.consent > optedOut)
ConsentCurrent ==
    counts.restores = 0 =>
        /\ back = 0 => OptoutHeeded
        /\ worker.pc = "allowed" => MayPost

\* Wall time, as a difference, grows with true time.
LEMMA LaterDifference ==
  ASSUME NEW a \in Int, NEW b \in Int, NEW c \in Int, NEW d \in Int, a >= c, b <= d
  PROVE  a - b >= c - d
  OBVIOUS

\* Time passes: consents and opt-outs that stay as they are stay in order.
LEMMA HeededFrame ==
  ASSUME TypeInvariant, TypeInvariant', OptoutHeeded, clock' >= clock, back' <= back,
         policy'.consent = policy.consent, policy'.optout = policy.optout, UNCHANGED optedOut
  PROVE  OptoutHeeded'
  <1>1. /\ policy.consent \in Nat /\ optedOut \in Nat /\ policy.optout \in Nat
        /\ Now \in Int /\ Now' \in Int /\ Now' >= Now
    <2>1. /\ policy.consent \in Nat /\ optedOut \in Nat /\ policy.optout \in Nat
      BY DEF TypeInvariant, Policy
    <2>2. clock \in Int /\ clock' \in Int /\ back \in Int /\ back' \in Int
      BY DEF TypeInvariant
    <2>3. Now' = clock' - back' /\ Now = clock - back
      BY DEF Now
    <2>4. clock' - back' >= clock - back
      BY <2>2, LaterDifference
    <2>5. clock' - back' \in Int /\ clock - back \in Int
      BY <2>2
    <2> QED
      BY <2>1, <2>3, <2>4, <2>5
  <1> QED
    BY <1>1 DEF OptoutHeeded

\* A recorded opt-out is heeded from then on.
LEMMA OptoutRecorded ==
  ASSUME TypeInvariant, OptoutHeeded, UNCHANGED <<clock, back>>,
         policy' = [policy EXCEPT !.optout = Later(@, Now)], optedOut' = Now
  PROVE  OptoutHeeded'
  <1>1. policy \in Policy /\ policy.optout \in Nat /\ Now \in Nat
    BY NowType DEF TypeInvariant, Policy
  <1>2. policy'.optout = Later(policy.optout, Now) /\ policy'.consent = policy.consent
    BY <1>1 DEF Policy
  <1>3. policy'.optout >= Now /\ Now' = Now
    BY <1>1, <1>2, LaterType DEF Now
  <1> QED
    BY <1>2, <1>3 DEF OptoutHeeded

\* A restart with another configuration lifts an opt-out only by a consent that
\* is later than it (ConfigureOfficialPolicy).
LEMMA OptoutLifted ==
  ASSUME TypeInvariant, OptoutHeeded, UNCHANGED <<clock, back, optedOut>>,
         NEW c \in Configs, policy' = ConfigureOfficialPolicy(c)
  PROVE  OptoutHeeded'
  <1>1. /\ policy \in Policy /\ policy.optout \in Nat /\ policy.consent \in Nat
        /\ Now \in Nat /\ Now > 0 /\ optedOut \in Nat /\ Now' = Now
    BY NowType DEF TypeInvariant, Policy, Now
  <1>2. ConsentAt(c) \in {0, policy.consent, Now}
    BY DataAssumption DEF ConsentAt
  <1>3. /\ policy'.consent = ConsentAt(c)
        /\ policy'.optout = IF ClearsOptout(c) THEN 0 ELSE policy.optout
    BY <1>1 DEF ConfigureOfficialPolicy, Policy
  <1>4. CASE ClearsOptout(c)
    <2>1. ConsentAt(c) > policy.optout /\ ConsentAt(c) > policy.consent /\ ConsentAt(c) <= Now
      BY <1>4 DEF ClearsOptout, NewConsent, Complete
    <2>2. CASE policy.optout >= optedOut \/ policy.consent > optedOut
      BY <1>1, <1>2, <1>3, <2>1, <2>2 DEF OptoutHeeded
    <2>3. CASE policy.consent = 0 /\ Now > optedOut
      BY <1>1, <1>2, <1>3, <2>1, <2>3 DEF OptoutHeeded
    <2> QED
      BY <2>2, <2>3 DEF OptoutHeeded
  <1>5. CASE ~ClearsOptout(c)
    BY <1>1, <1>2, <1>3, <1>5 DEF OptoutHeeded
  <1> QED
    BY <1>4, <1>5

\* Consent stays current.
LEMMA ConsentNext ==
  ASSUME TypeInvariant, TypeInvariant', ConsentCurrent, [Next]_vars
  PROVE  ConsentCurrent'
  <1>0. /\ worker \in Worker /\ policy \in Policy
        /\ back \in Nat /\ back' \in Nat /\ clock' >= clock /\ back' >= back
    BY OnlyGrow, TimeAssumption DEF TypeInvariant
  <1> SUFFICES ASSUME counts'.restores = 0
               PROVE  /\ back' = 0 => OptoutHeeded'
                      /\ worker'.pc = "allowed" => MayPost'
    BY DEF ConsentCurrent
  <1>1. counts.restores = 0 /\ (back' = 0 => back = 0)
    BY <1>0, OnlyGrow
  <1>2. /\ back = 0 => OptoutHeeded
        /\ worker.pc = "allowed" => MayPost
    BY <1>1 DEF ConsentCurrent
  <1>3. ASSUME policy'.consent = policy.consent, policy'.optout = policy.optout, UNCHANGED optedOut
        PROVE  back' = 0 => OptoutHeeded'
    BY <1>0, <1>1, <1>2, <1>3, HeededFrame
  <1>4. ASSUME UNCHANGED <<policy, optedOut>>, worker'.pc = "allowed" => worker.pc = "allowed"
        PROVE  /\ back' = 0 => OptoutHeeded'
               /\ worker'.pc = "allowed" => MayPost'
    BY <1>1, <1>2, <1>3, <1>4 DEF MayPost, Subscribed
  <1>5. CASE Recheck
    <2>1. UNCHANGED <<policy, optedOut, back>>
      BY <1>5 DEF Recheck, store, ghost
    <2>2. CASE DeliveryAllowed(worker.msg)
      <3>1. Subscribed /\ policy.consent > 0
        BY <2>2 DEF DeliveryAllowed, Consenting
      <3>2. back = 0 => policy.consent > optedOut
        <4>1. policy.optout = 0 /\ optedOut \in Nat
          BY <3>1 DEF Subscribed, TypeInvariant
        <4> QED
          BY <1>0, <1>2, <3>1, <4>1 DEF OptoutHeeded, Policy
      <3> QED
        BY <1>3, <2>1, <3>1, <3>2 DEF MayPost, Subscribed
    <2>3. CASE ~DeliveryAllowed(worker.msg)
      <3>1. worker'.pc = "answered"
        BY <1>0, <1>5, <2>3 DEF Recheck, Worker
      <3> QED
        BY <1>4, <2>1, <3>1
    <2> QED
      BY <2>2, <2>3
  <1>6. CASE BeginOfficialDispatch
    <2>1. worker'.pc = "begun" /\ UNCHANGED optedOut
      BY <1>0, <1>6 DEF BeginOfficialDispatch, Worker, ghost
    <2>2. policy'.consent = policy.consent /\ policy'.optout = policy.optout
      BY <1>0, <1>6 DEF BeginOfficialDispatch, Policy
    <2> QED
      BY <1>3, <2>1, <2>2
  <1>7. CASE ResolveOfficialDispatch \/ ResolveOfficialPoll
    <2>1. worker' = At("idle") /\ UNCHANGED <<clock, back>>
      BY <1>7 DEF ResolveOfficialDispatch, ResolveOfficialPoll
    <2>2. \/ UNCHANGED <<policy, optedOut>>
          \/ policy' = [policy EXCEPT !.optout = Later(@, Now)] /\ optedOut' = Now
      <3>1. CASE ResolveOfficialPoll
        BY <3>1 DEF ResolveOfficialPoll
      <3>2. CASE ResolveOfficialDispatch
        <4>1. worker.result.outcome \in {"accepted", "not_accepted", "unknown"}
          BY <1>0, <3>2 DEF ResolveOfficialDispatch, Worker
        <4> QED
          BY <3>2, <4>1 DEF ResolveOfficialDispatch, ResolveAccepted, ResolveUnknown,
              ResolveNotAccepted
      <3> QED
        BY <1>7, <3>1, <3>2
    <2> QED
      BY <1>1, <1>2, <1>3, <2>1, <2>2, OptoutRecorded DEF At
  <1>8. ASSUME NEW c \in Configs, Start(c)
        PROVE  /\ back' = 0 => OptoutHeeded'
               /\ worker'.pc = "allowed" => MayPost'
    <2>1. UNCHANGED <<clock, back, optedOut>> /\ worker'.pc # "allowed"
      BY <1>8 DEF Start, ghost, At
    <2>2. policy' = policy \/ policy' = ConfigureOfficialPolicy(c)
      BY <1>8 DEF Start
    <2> QED
      BY <1>1, <1>2, <1>3, <2>1, <2>2, OptoutLifted
  <1>9. CASE ReconcileOfficialPaidChannel
    <2>1. /\ policy'.consent = policy.consent /\ policy'.optout = policy.optout
          /\ UNCHANGED <<optedOut, worker>> /\ policy.hold
      BY <1>0, <1>9 DEF ReconcileOfficialPaidChannel, Policy, ghost
    <2> QED
      BY <1>2, <1>3, <2>1 DEF MayPost, Subscribed
  <1>10. CASE \E b \in backup : RestoreBackup(b)
    BY <1>1, <1>10, RestoresCount
  <1>11. CASE \/ BeginRefused \/ Post \/ PostNotSent \/ Answer \/ Poll
    <2>1. UNCHANGED <<policy, optedOut>>
      BY <1>11 DEF BeginRefused, Post, PostNotSent, Answer, Poll, store, ghost
    <2>2. worker'.pc # "allowed"
      <3>1. CASE BeginRefused \/ Post
        BY <1>0, <3>1 DEF BeginRefused, Post, Worker
      <3>2. CASE PostNotSent \/ Answer
        <4>1. \E r : worker' = [worker EXCEPT !.pc = "answered", !.result = r]
          BY <3>2 DEF PostNotSent, Answer
        <4> QED
          BY <1>0, <4>1 DEF Worker
      <3>3. CASE Poll
        <4>1. \/ worker' = At("idle")
              \/ \E r : worker' = [worker EXCEPT !.pc = "polled", !.result = r]
          BY <3>3 DEF Poll
        <4>2. \A r : [worker EXCEPT !.pc = "polled", !.result = r].pc = "polled"
          BY <1>0 DEF Worker
        <4>3. At("idle").pc = "idle"
          BY DEF At
        <4> QED
          BY <4>1, <4>2, <4>3
      <3> QED
        BY <1>11, <3>1, <3>2, <3>3
    <2> QED
      BY <1>4, <2>1, <2>2
  <1>12. CASE \/ \E m \in Msgs : ClaimNotification(m) \/ ClaimOfficialPoll(m)
              \/ ReleaseNotificationClaim \/ WorkerError \/ Crash
    <2>1. UNCHANGED <<policy, optedOut>>
      BY <1>12 DEF ClaimNotification, ClaimOfficialPoll, ReleaseNotificationClaim, WorkerError,
          Crash, store, ghost
    <2>2. worker'.pc # "allowed"
      <3>1. CASE \E m \in Msgs : ClaimNotification(m) \/ ClaimOfficialPoll(m)
        BY <3>1 DEF ClaimNotification, ClaimOfficialPoll, At
      <3>2. CASE ReleaseNotificationClaim \/ WorkerError \/ Crash
        BY <3>2 DEF ReleaseNotificationClaim, WorkerError, Crash, At
      <3> QED
        BY <1>12, <3>1, <3>2
    <2> QED
      BY <1>4, <2>1, <2>2
  <1>13. CASE ProviderStep
    <2>1. UNCHANGED <<policy, optedOut>> /\ worker'.pc = worker.pc
      BY <1>0, <1>13 DEF ProviderStep, ProviderAccepts, ProviderRefuses, Lost, Heard, store,
          ghost, Worker
    <2> QED
      BY <1>4, <2>1
  <1>14. CASE \/ ExpireNotifications \/ Tick \/ Backup \/ UNCHANGED vars
              \/ (OperatorStep /\ ~ReconcileOfficialPaidChannel)
              \/ (\E m \in Msgs, failure \in BOOLEAN : Enqueue(m, failure))
              \/ \E n \in 1 .. MaxBack : ClockBack(n)
    <2>1. UNCHANGED <<policy, optedOut, worker>>
      BY <1>14 DEF ExpireNotifications, Tick, Backup, vars, OperatorStep, RetryNotification,
          QuarantineNotification, AddSilence, ResumeDestination, DiscardIsolatedNotifications,
          Enqueue, ClockBack, store, ghost
    <2> QED
      BY <1>4, <2>1
  <1> QED
    BY <1>5, <1>6, <1>7, <1>8, <1>9, <1>10, <1>11, <1>12, <1>13, <1>14
      DEF Next, WorkerStep, ProcessStep, OperatorStep

\* No POST leaves a channel whose subscription is disabled, revoked, opted out of
\* or on hold, nor before a consent later than the last opt-out (the recheck of
\* NotificationDeliveryAllowed, configureOfficialPolicy, persistOfficialOptout).
THEOREM PostsAreConsented == Spec => PostsFollowConsent
  <1>1. Init => ConsentCurrent
    BY NowType, TypeInit DEF Init, ConsentCurrent, OptoutHeeded, At, Now
  <1>2. TypeInvariant /\ TypeInvariant' /\ ConsentCurrent /\ [Next]_vars => ConsentCurrent'
    BY ConsentNext
  <1>3. TypeInvariant /\ ConsentCurrent /\ [Next]_vars =>
          [counts.restores = 0 /\ wire' \ wire # {} =>
            /\ Subscribed
            /\ back = 0 => policy.consent > optedOut]_vars
    <2> SUFFICES ASSUME ConsentCurrent, [Next]_vars, counts.restores = 0, wire' \ wire # {}
                 PROVE  Subscribed /\ (back = 0 => policy.consent > optedOut)
      OBVIOUS
    <2>1. CASE Post
      BY <2>1 DEF Post, ConsentCurrent, MayPost
    <2>2. Post
      <3>1. CASE WorkerStep \/ WorkerError
        BY <3>1 DEF WorkerStep, ClaimNotification, ClaimOfficialPoll, BeginRefused,
            BeginOfficialDispatch, Recheck, PostNotSent, Answer, ResolveOfficialDispatch,
            ReleaseNotificationClaim, Poll, ResolveOfficialPoll, WorkerError
      <3>2. CASE OperatorStep \/ ProcessStep
        BY <3>2 DEF OperatorStep, RetryNotification, QuarantineNotification, AddSilence,
            ResumeDestination, DiscardIsolatedNotifications, ReconcileOfficialPaidChannel,
            ProcessStep, Crash, Start, Backup, RestoreBackup
      <3>3. CASE \/ ExpireNotifications \/ ProviderStep \/ Tick \/ UNCHANGED vars
                 \/ (\E m \in Msgs, failure \in BOOLEAN : Enqueue(m, failure))
                 \/ \E n \in 1 .. MaxBack : ClockBack(n)
        BY <3>3 DEF ExpireNotifications, ProviderStep, ProviderAccepts, ProviderRefuses, Lost,
            Tick, vars, Enqueue, ClockBack
      <3> QED
        BY <3>1, <3>2, <3>3 DEF Next
    <2> QED
      BY <2>1, <2>2
  <1> QED
    BY <1>1, <1>2, <1>3, TypeCorrect, PTL DEF Spec, PostsFollowConsent

\* Receipts, withdrawals and consents are decisions that hold for good, on every
\* channel.
THEOREM DecisionsAreKept == Spec => DecisionsHold
  BY ReceiptsAreFinal, WithdrawalIsFinal, PostsAreConsented DEF DecisionsHold

-----------------------------------------------------------------------------
(* Blocked rows *)

\* Nothing of a blocked row was sent, is under way or is being attempted; and
\* without a restore no channel is on hold.
BlockedRows ==
    \A m \in Msgs : state[m] = "blocked" => Untouched(m) /\ ~(Attempting /\ worker.msg = m)
BlockedIsFresh == counts.restores = 0 /\ ~LINE => ~policy.hold /\ BlockedRows

\* Only a restore holds a channel.
LEMMA HoldsAreRestores ==
  ASSUME TypeInvariant, [Next]_vars, counts'.restores = counts.restores, ~policy.hold
  PROVE  ~policy'.hold
  <1>0. policy \in Policy /\ worker \in Worker
    BY DEF TypeInvariant
  <1>1. CASE UNCHANGED policy
    BY <1>1
  <1>2. CASE BeginOfficialDispatch
    BY <1>0, <1>2 DEF BeginOfficialDispatch, Policy
  <1>3. CASE ResolveOfficialDispatch \/ ResolveOfficialPoll
    <2>1. UNCHANGED policy \/ policy' = [policy EXCEPT !.optout = Later(@, Now)]
      <3>1. CASE ResolveOfficialPoll
        BY <3>1 DEF ResolveOfficialPoll
      <3>2. CASE ResolveOfficialDispatch
        <4>1. worker.result.outcome \in {"accepted", "not_accepted", "unknown"}
          BY <1>0, <3>2 DEF ResolveOfficialDispatch, Worker
        <4> QED
          BY <3>2, <4>1 DEF ResolveOfficialDispatch, ResolveAccepted, ResolveUnknown,
              ResolveNotAccepted
      <3> QED
        BY <1>3, <3>1, <3>2
    <2> QED
      BY <1>0, <2>1 DEF Policy
  <1>4. ASSUME NEW c \in Configs, Start(c) PROVE ~policy'.hold
    <2>1. policy' = policy \/ policy' = ConfigureOfficialPolicy(c)
      BY <1>4 DEF Start
    <2> QED
      BY <1>0, <2>1 DEF ConfigureOfficialPolicy, Policy
  <1>5. CASE ReconcileOfficialPaidChannel
    BY <1>5 DEF ReconcileOfficialPaidChannel
  <1>6. CASE \E b \in backup : RestoreBackup(b)
    BY <1>6, RestoresCount
  <1>7. \/ UNCHANGED policy \/ BeginOfficialDispatch \/ ResolveOfficialDispatch
        \/ ResolveOfficialPoll \/ (\E c \in Configs : Start(c)) \/ ReconcileOfficialPaidChannel
        \/ \E b \in backup : RestoreBackup(b)
    <2>1. CASE WorkerStep \/ WorkerError
      BY <2>1 DEF WorkerStep, ClaimNotification, ClaimOfficialPoll, BeginRefused, Recheck, Post,
          PostNotSent, Answer, ReleaseNotificationClaim, Poll, WorkerError, store
    <2>2. CASE OperatorStep \/ ProcessStep
      BY <2>2 DEF OperatorStep, RetryNotification, QuarantineNotification, AddSilence,
          ResumeDestination, DiscardIsolatedNotifications, ProcessStep, Crash, Backup, store
    <2>3. CASE \/ ExpireNotifications \/ ProviderStep \/ Tick \/ UNCHANGED vars
               \/ (\E m \in Msgs, failure \in BOOLEAN : Enqueue(m, failure))
               \/ \E n \in 1 .. MaxBack : ClockBack(n)
      BY <2>3 DEF ExpireNotifications, ProviderStep, ProviderAccepts, ProviderRefuses, Lost,
          Tick, vars, Enqueue, ClockBack, store
    <2> QED
      BY <2>1, <2>2, <2>3 DEF Next
  <1> QED
    BY <1>1, <1>2, <1>3, <1>4, <1>5, <1>6, <1>7

\* A step that sends and delivers nothing, and blocks fresh rows only.
LEMMA BlockedFrame ==
  ASSUME BlockedRows, UNCHANGED deliveries, wire' \subseteq wire,
         \/ UNCHANGED worker
         \/ ~Attempting'
         \/ Attempting /\ worker'.msg = worker.msg,
         \A m \in Msgs : state'[m] = "blocked" =>
            state[m] = "blocked" \/ (Untouched(m) /\ ~(Attempting /\ worker.msg = m)')
  PROVE  BlockedRows'
  <1>1. \A m \in Msgs : Untouched(m) => Untouched(m)'
    BY DEF Untouched
  <1>2. \A m \in Msgs : (Attempting /\ worker.msg = m)' => (Attempting /\ worker.msg = m)
    BY DEF Attempting
  <1> QED
    BY <1>1, <1>2 DEF BlockedRows

\* The worker blocks a row it has not posted, or whose refusal is proved.
LEMMA BlockedWorker ==
  ASSUME TypeInvariant, Fresh, BlockedRows, ~LINE, WorkerStep \/ WorkerError
  PROVE  BlockedRows'
  <1>0. state \in [Msgs -> States] /\ worker \in Worker
    BY DEF TypeInvariant
  <1>1. CASE BeginRefused
    <2>1. worker.msg \in Msgs
      BY <1>1, WorkerBusy DEF BeginRefused, Idle
    <2>2. ~Attempting' /\ UNCHANGED <<deliveries, wire>>
      BY <1>0, <1>1 DEF BeginRefused, Attempting, Worker, ghost
    <2>3. \/ UNCHANGED state
          \/ /\ state[worker.msg] \in Ready
             /\ \E unknown : state' = [state EXCEPT ![worker.msg] = HeldState(unknown)]
      BY <1>1 DEF BeginRefused, Block, Eligible
    <2>4. \A m \in Msgs : state[m] \in Ready => Untouched(m)
      BY DEF Fresh, ReadyIsFresh
    <2> QED
      BY <1>0, <2>1, <2>2, <2>3, <2>4, BlockedFrame
  <1>2. CASE BeginOfficialDispatch
    <2>1. /\ worker.msg \in Msgs /\ state' = [state EXCEPT ![worker.msg] = "in_flight"]
          /\ UNCHANGED <<deliveries, wire>>
      BY <1>2, WorkerBusy DEF BeginOfficialDispatch, Idle, ghost
    <2>2. worker'.msg = worker.msg
      BY <1>0, <1>2 DEF BeginOfficialDispatch, Worker
    <2>3. \A m \in Msgs : Untouched(m) => Untouched(m)'
      BY <2>1 DEF Untouched
    <2> QED
      BY <1>0, <2>1, <2>2, <2>3 DEF BlockedRows
  <1>3. CASE Post
    <2>1. /\ worker.msg \in Msgs /\ UNCHANGED <<state, deliveries>> /\ Attempting
          /\ wire' = wire \cup {[msg |-> worker.msg, attempt |-> worker.attempt,
                                 deadline |-> worker.deadline]}
      BY <1>3, WorkerBusy DEF Post, Idle, store, Attempting
    <2>2. worker'.msg = worker.msg
      BY <1>0, <1>3 DEF Post, Worker
    <2>3. \A m \in Msgs : m # worker.msg /\ Untouched(m) => Untouched(m)'
      BY <2>1 DEF Untouched
    <2> QED
      BY <2>1, <2>2, <2>3 DEF BlockedRows
  <1>4. CASE ResolveOfficialDispatch
    <2>0. worker.msg \in Msgs /\ worker.result.outcome \in {"accepted", "not_accepted", "unknown"}
      BY <1>0, <1>4, WorkerBusy DEF ResolveOfficialDispatch, Idle, Worker
    <2>1. UNCHANGED <<deliveries, wire>> /\ ~Attempting'
      BY <1>4 DEF ResolveOfficialDispatch, Attempting, At
    <2>2. CASE worker.result.outcome = "not_accepted"
      <3>1. Untouched(worker.msg)
        BY <1>4, <2>2 DEF ResolveOfficialDispatch, Fresh, RefusalsAreTrue, NothingSent
      <3>2. \A m \in Msgs : m # worker.msg => state'[m] = state[m]
        BY <1>0, <1>4, <2>0, <2>2 DEF ResolveOfficialDispatch, ResolveNotAccepted
      <3> QED
        BY <2>1, <3>1, <3>2, BlockedFrame
    <2>3. CASE worker.result.outcome # "not_accepted"
      <3>1. \/ UNCHANGED state
            \/ state' = [state EXCEPT ![worker.msg] = "accepted"]
            \/ state' = [state EXCEPT ![worker.msg] = "retry_ready"]
            \/ state' = [state EXCEPT ![worker.msg] = "delivery_unknown"]
        BY <1>4, <2>0, <2>3 DEF ResolveOfficialDispatch, ResolveAccepted, ResolveUnknown, Block,
            HeldState
      <3>2. \A m \in Msgs : state'[m] = "blocked" => state[m] = "blocked"
        BY <1>0, <2>0, <3>1
      <3> QED
        BY <2>1, <3>2, BlockedFrame
    <2> QED
      BY <2>2, <2>3
  <1>5. CASE Recheck \/ PostNotSent \/ Answer
    <2>1. UNCHANGED <<state, deliveries, wire>> /\ Attempting
      BY <1>5 DEF Recheck, PostNotSent, Answer, store, ghost, Attempting
    <2>2. \/ \E r : worker' = [worker EXCEPT !.pc = "answered", !.result = r]
          \/ \E d : worker' = [worker EXCEPT !.pc = "allowed", !.deadline = d]
      <3>1. CASE Recheck
        BY <3>1 DEF Recheck
      <3>2. CASE PostNotSent \/ Answer
        BY <3>2 DEF PostNotSent, Answer
      <3> QED
        BY <1>5, <3>1, <3>2
    <2>3. /\ \A r : [worker EXCEPT !.pc = "answered", !.result = r].msg = worker.msg
          /\ \A d : [worker EXCEPT !.pc = "allowed", !.deadline = d].msg = worker.msg
      BY <1>0 DEF Worker
    <2>4. worker'.msg = worker.msg
      <3>1. ASSUME NEW r, worker' = [worker EXCEPT !.pc = "answered", !.result = r]
            PROVE  worker'.msg = worker.msg
        BY <2>3, <3>1
      <3>2. ASSUME NEW d, worker' = [worker EXCEPT !.pc = "allowed", !.deadline = d]
            PROVE  worker'.msg = worker.msg
        BY <2>3, <3>2
      <3> QED
        BY <2>2, <3>1, <3>2
    <2>5. \A m \in Msgs : Untouched(m)' <=> Untouched(m)
      BY <2>1 DEF Untouched
    <2> QED
      BY <2>1, <2>4, <2>5 DEF BlockedRows
  <1>6. CASE \/ \E m \in Msgs : ClaimNotification(m) \/ ClaimOfficialPoll(m)
             \/ ReleaseNotificationClaim \/ Poll \/ ResolveOfficialPoll \/ WorkerError
    <2>1. UNCHANGED <<state, deliveries, wire>>
      BY <1>6 DEF ClaimNotification, ClaimOfficialPoll, ReleaseNotificationClaim, Poll,
          ResolveOfficialPoll, WorkerError, store, ghost
    <2>2. ~Attempting'
      <3>1. CASE \E m \in Msgs : ClaimNotification(m) \/ ClaimOfficialPoll(m)
        BY <3>1 DEF ClaimNotification, ClaimOfficialPoll, At, Attempting
      <3>2. CASE ReleaseNotificationClaim \/ ResolveOfficialPoll \/ WorkerError
        BY <3>2 DEF ReleaseNotificationClaim, ResolveOfficialPoll, WorkerError, At, Attempting
      <3>3. CASE Poll
        <4>1. \/ worker' = At("idle")
              \/ \E r : worker' = [worker EXCEPT !.pc = "polled", !.result = r]
          BY <3>3 DEF Poll
        <4>2. \A r : [worker EXCEPT !.pc = "polled", !.result = r].pc = "polled"
          BY <1>0 DEF Worker
        <4>3. At("idle").pc = "idle"
          BY DEF At
        <4> QED
          BY <4>1, <4>2, <4>3 DEF Attempting
      <3> QED
        BY <1>6, <3>1, <3>2, <3>3
    <2> QED
      BY <2>1, <2>2, BlockedFrame
  <1> QED
    BY <1>1, <1>2, <1>3, <1>4, <1>5, <1>6 DEF WorkerStep

\* Nothing of a blocked row is ever sent.
LEMMA BlockedNext ==
  ASSUME TypeInvariant, FreshAttempts, BlockedIsFresh, [Next]_vars
  PROVE  BlockedIsFresh'
  <1> SUFFICES ASSUME counts'.restores = 0, ~LINE PROVE ~policy'.hold /\ BlockedRows'
    BY DEF BlockedIsFresh, LINE
  <1>0. counts.restores = 0
    BY OnlyGrow
  <1>1. Fresh /\ ~policy.hold /\ BlockedRows
    BY <1>0 DEF FreshAttempts, Trusted, BlockedIsFresh
  <1>2. ~policy'.hold
    BY <1>0, <1>1, HoldsAreRestores
  <1>3. CASE WorkerStep \/ WorkerError
    BY <1>1, <1>2, <1>3, BlockedWorker
  <1>4. CASE ExpireNotifications
    <2>1. \A m \in Msgs : SweptState[m] = "blocked" => state[m] = "blocked"
      BY DEF SweptState, RecoveredState
    <2> QED
      BY <1>1, <1>2, <1>4, <2>1, BlockedFrame DEF ExpireNotifications, ghost
  <1>5. ASSUME NEW n \in Msgs, NEW failure \in BOOLEAN, Enqueue(n, failure) PROVE BlockedRows'
    <2>0. SweptState \in [Msgs -> States]
      BY SweepType
    <2>1. \A m \in Msgs : SweptState[m] = "blocked" => state[m] = "blocked"
      BY DEF SweptState, RecoveredState
    <2>2. Untouched(n) /\ ~(Attempting /\ worker.msg = n)
      BY <1>1, <1>5 DEF Enqueue, Fresh, UnseenIsFresh, Attempting, Idle
    <2>3. UNCHANGED <<deliveries, wire, worker>>
      BY <1>5 DEF Enqueue
    <2>4. \A m \in Msgs : m # n => state'[m] = SweptState[m]
      BY <1>5, <2>0 DEF Enqueue
    <2> QED
      BY <1>1, <2>1, <2>2, <2>3, <2>4, BlockedFrame DEF Attempting
  <1>6. CASE ProviderStep
    <2>1. PICK r \in wire : ProviderAccepts(r) \/ ProviderRefuses(r) \/ Lost(r)
      BY <1>6 DEF ProviderStep
    <2>2. /\ wire' = wire \ {r} /\ UNCHANGED state /\ r.msg \in Msgs
          /\ \A m \in Msgs : m # r.msg => deliveries'[m] = deliveries[m]
      BY <2>1 DEF ProviderAccepts, ProviderRefuses, Lost, store, ghost, TypeInvariant
    <2>3. worker'.pc = worker.pc /\ worker'.msg = worker.msg
      <3>1. worker \in Worker
        BY DEF TypeInvariant
      <3> QED
        BY <2>1, <3>1 DEF ProviderAccepts, ProviderRefuses, Lost, Heard, Worker
    <2>4. ~Untouched(r.msg)
      BY DEF Untouched
    <2>5. \A m \in Msgs : m # r.msg /\ Untouched(m) => Untouched(m)'
      BY <2>2 DEF Untouched
    <2> QED
      BY <1>1, <1>2, <2>2, <2>3, <2>4, <2>5 DEF BlockedRows, Attempting
  <1>7. CASE OperatorStep
    <2>1. ~ReconcileOfficialPaidChannel
      BY <1>1 DEF ReconcileOfficialPaidChannel
    <2>2. UNCHANGED <<state, deliveries, wire, worker>>
      BY <1>7, <2>1 DEF OperatorStep, RetryNotification, QuarantineNotification, AddSilence,
          ResumeDestination, DiscardIsolatedNotifications, ghost
    <2> QED
      BY <1>1, <1>2, <2>2, BlockedFrame
  <1>8. CASE ProcessStep
    <2>1. ~\E b \in backup : RestoreBackup(b)
      BY <1>0, RestoresCount
    <2>2. UNCHANGED <<state, deliveries, wire>> /\ (UNCHANGED worker \/ ~Attempting')
      BY <1>8, <2>1 DEF ProcessStep, Crash, Start, Backup, store, ghost, Attempting, At
    <2> QED
      BY <1>1, <1>2, <2>2, BlockedFrame
  <1>9. CASE Tick \/ (\E n \in 1 .. MaxBack : ClockBack(n)) \/ UNCHANGED vars
    <2>1. UNCHANGED <<state, deliveries, wire, worker>>
      BY <1>9 DEF Tick, ClockBack, vars, store, ghost
    <2> QED
      BY <1>1, <1>2, <2>1, BlockedFrame
  <1> QED
    BY <1>2, <1>3, <1>4, <1>5, <1>6, <1>7, <1>8, <1>9 DEF Next

\* The rows tell the operator the truth: on every channel a row is marked sent
\* only for a message the provider accepted, and on every channel without a
\* retry key a blocked row was not accepted and never will be
\* (ResolveOfficialDispatch, blockOfficial, recoverOfficialIntents).
THEOREM RowsAreTrue == Spec => []RowsTellTruth
  <1>1. Init => BlockedIsFresh
    BY DEF Init, BlockedIsFresh, BlockedRows
  <1>2. TypeInvariant /\ FreshAttempts /\ BlockedIsFresh /\ [Next]_vars => BlockedIsFresh'
    BY BlockedNext
  <1>3. Records /\ BlockedIsFresh => RowsTellTruth
    BY DEF Records, RowsTrue, RecordTrue, BlockedIsFresh, BlockedRows, Untouched,
        RowsTellTruth, SentMeansAccepted, BlockedMeansNotAccepted
  <1> QED
    BY <1>1, <1>2, <1>3, TypeCorrect, AttemptsAreFresh, RecordsHold, PTL DEF Spec

-----------------------------------------------------------------------------
(* Status polls *)

\* No poll of a message can be claimed or made any more, and no answer to a
\* POST of it can start one.
PollsOver(m) ==
    /\ state[m] \notin Open /\ ~(worker.pc \in Posting /\ worker.msg = m)
    /\ intent[m].nextPoll = 0 /\ intent[m].pollLease = 0

\* Every GET was counted in the row before it was made, or the row is one that
\* a restored backup has closed.
PollsAccounted(m) ==
    /\ gets[m] <= MaxPolls /\ intent[m].pollAttempts <= MaxPolls
    /\ gets[m] > 0 =>
        /\ Twilio /\ m \in seen /\ deliveries[m] > 0
        /\ \/ state[m] = "accepted" /\ gets[m] <= intent[m].pollAttempts
           \/ PollsOver(m)
\* A claimed poll whose lease stands has not been made yet.
ClaimIsUnused ==
    worker.pc = "polling" =>
        /\ Twilio
        /\ /\ state[worker.msg] = "accepted" /\ intent[worker.msg].pollLease > 0
           /\ intent[worker.msg].pollAttempts = worker.attempt
           => gets[worker.msg] < intent[worker.msg].pollAttempts
PollsCounted ==
    /\ \A m \in Msgs : PollsAccounted(m)
    /\ \A b \in backup, m \in Msgs : b.intent[m].pollAttempts <= MaxPolls
    /\ ClaimIsUnused

\* What a step that makes no GET leaves of a row's polls.
PollsKept(m) ==
    \/ intent'[m].pollAttempts = intent[m].pollAttempts
    \/ intent'[m].pollAttempts = 0 /\ state'[m] # "accepted"

\* A step that makes and claims no poll keeps the count.
LEMMA PollFrame ==
  ASSUME TypeInvariant, PollsCounted, Records, [Next]_vars, UNCHANGED <<gets, backup>>,
         \A m \in Msgs : RecordMoves(m),
         \A m \in Msgs : PollsKept(m),
         \A m \in Msgs : m \in seen /\ PollsOver(m) => PollsOver(m)',
         worker'.pc = "polling" =>
            UNCHANGED worker /\ (intent'[worker.msg].pollLease > 0 => intent[worker.msg].pollLease > 0)
  PROVE  PollsCounted'
  <1>0. /\ seen \subseteq seen' /\ \A m \in Msgs : deliveries[m] > 0 => deliveries'[m] > 0
        /\ gets \in [Msgs -> Nat] /\ MaxPolls \in Nat /\ worker \in Worker
    BY ObservationsGrow, TimeAssumption DEF TypeInvariant
  <1>1. ASSUME NEW m \in Msgs PROVE PollsAccounted(m)'
    <2>1. /\ PollsAccounted(m) /\ RecordMoves(m) /\ PollsKept(m)
          /\ RecordTrue(outbox[m], state[m], m)
      BY DEF PollsCounted, Records, RowsTrue
    <2>2. state[m] = "accepted" => state'[m] = "accepted"
      BY <2>1 DEF RecordMoves, RecordTrue, SameRow, OpenRow, Admitted, Confirmed
    <2>3. gets'[m] = gets[m]
      OBVIOUS
    <2>4. intent'[m].pollAttempts <= MaxPolls
      BY <1>0, <2>1 DEF PollsAccounted, PollsKept
    <2>5. CASE gets[m] = 0
      BY <1>0, <2>3, <2>4, <2>5 DEF PollsAccounted
    <2>6. CASE state[m] = "accepted" /\ gets[m] <= intent[m].pollAttempts
      BY <1>0, <2>1, <2>2, <2>3, <2>4, <2>6 DEF PollsAccounted, PollsKept
    <2>7. CASE gets[m] > 0 /\ PollsOver(m)
      BY <1>0, <2>1, <2>3, <2>4, <2>7 DEF PollsAccounted
    <2> QED
      BY <1>0, <2>1, <2>5, <2>6, <2>7 DEF PollsAccounted
  <1>2. \A b \in backup', m \in Msgs : b.intent[m].pollAttempts <= MaxPolls
    BY DEF PollsCounted
  <1>3. ClaimIsUnused'
    <2> SUFFICES ASSUME worker'.pc = "polling"
                 PROVE  /\ Twilio
                        /\ /\ state'[worker.msg] = "accepted" /\ intent'[worker.msg].pollLease > 0
                           /\ intent'[worker.msg].pollAttempts = worker.attempt
                           => gets[worker.msg] < intent'[worker.msg].pollAttempts
      BY DEF ClaimIsUnused, Twilio
    <2>1. worker.pc = "polling" /\ worker.msg \in Msgs
      BY <1>0, WorkerBusy DEF Idle
    <2>2. ClaimIsUnused /\ Twilio
      BY <2>1 DEF PollsCounted, ClaimIsUnused
    <2>3. state'[worker.msg] = "accepted" => state[worker.msg] = "accepted"
      BY <2>1 DEF RecordMoves, SameRow, OpenRow, Admitted, Confirmed
    <2>4. PollsKept(worker.msg)
      BY <2>1
    <2> QED
      BY <2>1, <2>2, <2>3, <2>4 DEF ClaimIsUnused, PollsKept
  <1> QED
    BY <1>1, <1>2, <1>3 DEF PollsCounted

\* The sweep ends polls; it starts none.
LEMMA SweepPolls ==
  ASSUME TypeInvariant, RowsTrue, NEW m \in Msgs
  PROVE  /\ \/ SweptIntent[m].pollAttempts = intent[m].pollAttempts
            \/ SweptIntent[m].pollAttempts = 0 /\ SweptState[m] # "accepted"
         /\ state[m] \notin Open => SweptState[m] \notin Open
         /\ intent[m].nextPoll = 0 => SweptIntent[m].nextPoll = 0
         /\ intent[m].pollLease = 0 => SweptIntent[m].pollLease = 0
         /\ SweptIntent[m].pollLease > 0 => intent[m].pollLease > 0
  <1>1. intent[m] \in Intent
    BY RowTypes
  <1>2. NoIntent.pollAttempts = 0 /\ NoIntent.nextPoll = 0 /\ NoIntent.pollLease = 0
    BY DEF NoIntent
  <1>3. PollsExpired[m] = intent[m] \/
        PollsExpired[m] = [intent[m] EXCEPT !.providerState = "unknown", !.nextPoll = 0, !.pollLease = 0]
    BY DEF PollsExpired
  <1>4. /\ PollsExpired[m].pollAttempts = intent[m].pollAttempts
        /\ intent[m].nextPoll = 0 => PollsExpired[m].nextPoll = 0
        /\ intent[m].pollLease = 0 => PollsExpired[m].pollLease = 0
        /\ PollsExpired[m].pollLease > 0 => intent[m].pollLease > 0
    <2>1. CASE PollsExpired[m] = intent[m]
      BY <2>1
    <2>2. CASE PollsExpired[m] # intent[m]
      <3>1. /\ PollsExpired[m].pollAttempts = intent[m].pollAttempts
            /\ PollsExpired[m].nextPoll = 0 /\ PollsExpired[m].pollLease = 0
        BY <1>1, <1>3, <2>2 DEF Intent
      <3> QED
        BY <3>1
    <2> QED
      BY <2>1, <2>2
  <1>5. state[m] \notin Open => RecoveredState(m) = state[m]
    BY DEF RecoveredState, Open, Ready
  <1>6. CASE Expired(m)
    <2>1. SweptIntent[m] = NoIntent /\ SweptState[m] = "absent"
      BY <1>6 DEF SweptIntent, SweptState
    <2> QED
      BY <1>2, <2>1 DEF Open, Ready
  <1>7. CASE ~Expired(m)
    <2>1. SweptIntent[m] = PollsExpired[m] /\ SweptState[m] = RecoveredState(m)
      BY <1>7 DEF SweptIntent, SweptState
    <2> QED
      BY <1>4, <1>5, <2>1
  <1> QED
    BY <1>6, <1>7

\* The POST path starts polls of its own row only, and resolving a poll goes on
\* only under the lease of its claim.
LEMMA WorkerPolls ==
  ASSUME TypeInvariant, WorkerError \/ WorkerStep, ~Poll, ~\E n \in Msgs : ClaimOfficialPoll(n),
         NEW m \in Msgs
  PROVE  /\ PollsKept(m) /\ (PollsOver(m) => PollsOver(m)')
         /\ worker'.pc # "polling" /\ UNCHANGED <<gets, backup>>
  <1>0. /\ worker \in Worker /\ state \in [Msgs -> States]
        /\ intent \in [Msgs -> Intent] /\ intent[m] \in Intent
        /\ worker.pc \notin Idle => worker.msg \in Msgs /\ intent[worker.msg] \in Intent
    BY RowTypes, WorkerBusy DEF TypeInvariant
  <1>1. CASE (\E n \in Msgs : ClaimNotification(n)) \/ ReleaseNotificationClaim \/ WorkerError
    <2>1. UNCHANGED <<state, intent, gets, backup>>
      BY <1>1 DEF ClaimNotification, ReleaseNotificationClaim, WorkerError, store, ghost
    <2>2. \/ worker' = At("idle")
          \/ \E n \in Msgs : state[n] \in Ready /\ worker' = [At("claimed") EXCEPT !.msg = n]
      BY <1>1 DEF ClaimNotification, ReleaseNotificationClaim, WorkerError
    <2>3. At("idle").pc = "idle" /\ \A n : /\ [At("claimed") EXCEPT !.msg = n].pc = "claimed"
                                          /\ [At("claimed") EXCEPT !.msg = n].msg = n
      BY DEF At
    <2>4. worker'.pc # "polling" /\ (worker'.pc \in Posting => worker'.msg \in Msgs /\ state[worker'.msg] \in Ready)
      BY <2>2, <2>3 DEF Posting
    <2> QED
      BY <2>1, <2>4 DEF PollsKept, PollsOver, Open
  <1>2. CASE BeginRefused
    <2>1. worker'.pc = "release" /\ worker'.msg = worker.msg
          /\ worker.pc = "claimed" /\ UNCHANGED <<intent, gets, backup>>
      BY <1>0, <1>2 DEF BeginRefused, Worker, ghost
    <2>2. \/ UNCHANGED state
          \/ \E unknown : state' = [state EXCEPT ![worker.msg] = HeldState(unknown)]
      BY <1>2 DEF BeginRefused, Block
    <2>3. \A unknown : HeldState(unknown) \notin Open
      BY DEF HeldState, Open, Ready
    <2>4. state[m] \notin Open => state'[m] \notin Open
      BY <1>0, <2>1, <2>2, <2>3 DEF Idle
    <2> QED
      BY <2>1, <2>4 DEF PollsKept, PollsOver, Posting
  <1>3. CASE BeginOfficialDispatch
    <2>1. /\ worker.pc = "claimed" /\ worker'.pc = "begun" /\ worker'.msg = worker.msg
          /\ UNCHANGED <<gets, backup>>
      BY <1>0, <1>3 DEF BeginOfficialDispatch, Worker, ghost
    <2>2. worker.msg \in Msgs /\ Begun(worker.msg).pollAttempts = intent[worker.msg].pollAttempts
      BY <1>0, <2>1 DEF Begun, Intent, Idle
    <2>3. /\ state' = [state EXCEPT ![worker.msg] = "in_flight"]
          /\ intent' = [intent EXCEPT ![worker.msg] = Begun(worker.msg)]
      BY <1>3 DEF BeginOfficialDispatch
    <2>4. PollsKept(m)
      BY <1>0, <2>2, <2>3 DEF PollsKept
    <2>5. PollsOver(m) => m # worker.msg
      BY <2>1 DEF PollsOver, Posting
    <2> QED
      BY <1>0, <2>1, <2>2, <2>3, <2>4, <2>5 DEF PollsOver
  <1>4. CASE Recheck \/ Post \/ PostNotSent \/ Answer
    <2>1. UNCHANGED <<state, intent, gets, backup>> /\ worker.pc \in Posting
      BY <1>4 DEF Recheck, Post, PostNotSent, Answer, store, ghost, Posting
    <2>2. \/ \E r : worker' = [worker EXCEPT !.pc = "answered", !.result = r]
          \/ \E d : worker' = [worker EXCEPT !.pc = "allowed", !.deadline = d]
          \/ worker' = [worker EXCEPT !.pc = "sending"]
      <3>1. CASE Recheck
        BY <3>1 DEF Recheck
      <3>2. CASE PostNotSent \/ Answer
        BY <3>2 DEF PostNotSent, Answer
      <3>3. CASE Post
        BY <3>3 DEF Post
      <3> QED
        BY <1>4, <3>1, <3>2, <3>3
    <2>3. worker'.msg = worker.msg /\ worker'.pc # "polling"
      <3>1. ASSUME NEW r, worker' = [worker EXCEPT !.pc = "answered", !.result = r]
            PROVE  worker'.msg = worker.msg /\ worker'.pc # "polling"
        BY <1>0, <3>1 DEF Worker
      <3>2. ASSUME NEW d, worker' = [worker EXCEPT !.pc = "allowed", !.deadline = d]
            PROVE  worker'.msg = worker.msg /\ worker'.pc # "polling"
        BY <1>0, <3>2 DEF Worker
      <3>3. ASSUME worker' = [worker EXCEPT !.pc = "sending"]
            PROVE  worker'.msg = worker.msg /\ worker'.pc # "polling"
        BY <1>0, <3>3 DEF Worker
      <3> QED
        BY <2>2, <3>1, <3>2, <3>3
    <2> QED
      BY <2>1, <2>3 DEF PollsKept, PollsOver
  <1>5. CASE ResolveOfficialDispatch
    <2>1. /\ worker.pc = "answered" /\ worker.msg \in Msgs /\ UNCHANGED <<gets, backup>>
          /\ worker.result.outcome \in {"accepted", "not_accepted", "unknown"}
          /\ worker'.pc = "idle"
      BY <1>0, <1>5 DEF ResolveOfficialDispatch, Idle, Worker, At
    <2>2. \/ UNCHANGED <<state, intent>>
          \/ \E s, i : /\ state' = [state EXCEPT ![worker.msg] = s]
                       /\ intent' = [intent EXCEPT ![worker.msg] = i]
                       /\ i.pollAttempts = intent[worker.msg].pollAttempts
      <3>1. CASE ~Matches(worker.msg, worker.result, worker.attempt)
        BY <1>5, <3>1 DEF ResolveOfficialDispatch
      <3>2. CASE Matches(worker.msg, worker.result, worker.attempt) /\ worker.result.outcome = "accepted"
        <4>1. ResolveAccepted(worker.msg)
          BY <1>5, <3>2 DEF ResolveOfficialDispatch
        <4>2. PICK s \in {"open", "final"} : intent' = [intent EXCEPT ![worker.msg] =
                [@ EXCEPT !.uncertain = FALSE,
                          !.providerState = IF Twilio THEN s ELSE "open",
                          !.nextPoll = IF Twilio /\ s = "open" THEN Now + PollWait ELSE 0,
                          !.pollDeadline = IF Twilio THEN intent[worker.msg].first + PollDeadline
                                           ELSE 0]]
          BY <4>1 DEF ResolveAccepted
        <4> DEFINE i == [intent[worker.msg] EXCEPT !.uncertain = FALSE,
                          !.providerState = IF Twilio THEN s ELSE "open",
                          !.nextPoll = IF Twilio /\ s = "open" THEN Now + PollWait ELSE 0,
                          !.pollDeadline = IF Twilio THEN intent[worker.msg].first + PollDeadline
                                           ELSE 0]
        <4>3. i.pollAttempts = intent[worker.msg].pollAttempts
          BY <1>0, <2>1 DEF Intent, Idle
        <4>4. state' = [state EXCEPT ![worker.msg] = "accepted"] /\ intent' = [intent EXCEPT ![worker.msg] = i]
          BY <4>1, <4>2 DEF ResolveAccepted
        <4> HIDE DEF i
        <4> QED
          BY <4>3, <4>4
      <3>3. CASE Matches(worker.msg, worker.result, worker.attempt) /\ worker.result.outcome = "unknown"
        <4>1. ResolveUnknown(worker.msg, worker.result)
          BY <1>5, <3>3 DEF ResolveOfficialDispatch
        <4>2. /\ \E s : state' = [state EXCEPT ![worker.msg] = s]
              /\ intent' = [intent EXCEPT ![worker.msg] = intent[worker.msg]]
          BY <1>0, <4>1 DEF ResolveUnknown, Block
        <4> QED
          BY <4>2
      <3>4. CASE Matches(worker.msg, worker.result, worker.attempt) /\ worker.result.outcome = "not_accepted"
        <4>1. ResolveNotAccepted(worker.msg, worker.result)
          BY <1>5, <3>4 DEF ResolveOfficialDispatch
        <4>2. /\ \E s : state' = [state EXCEPT ![worker.msg] = s]
              /\ intent' = [intent EXCEPT ![worker.msg] = [@ EXCEPT !.uncertain = FALSE]]
          BY <4>1 DEF ResolveNotAccepted
        <4>3. [intent[worker.msg] EXCEPT !.uncertain = FALSE].pollAttempts
                  = intent[worker.msg].pollAttempts
          BY <1>0, <2>1 DEF Intent, Idle
        <4> QED
          BY <4>2, <4>3
      <3> QED
        BY <2>1, <3>1, <3>2, <3>3, <3>4
    <2>3. PollsKept(m)
      BY <1>0, <2>1, <2>2 DEF PollsKept
    <2>4. PollsOver(m) => m # worker.msg
      BY <2>1 DEF PollsOver, Posting
    <2>5. m # worker.msg => state'[m] = state[m] /\ intent'[m] = intent[m]
      BY <1>0, <2>2
    <2> QED
      BY <2>1, <2>3, <2>4, <2>5 DEF PollsOver, Posting
  <1>6. CASE ResolveOfficialPoll
    <2>1. /\ worker.pc = "polled" /\ worker.msg \in Msgs /\ UNCHANGED <<state, gets, backup>>
          /\ worker'.pc = "idle"
      BY <1>0, <1>6 DEF ResolveOfficialPoll, Idle, At
    <2>2. \/ UNCHANGED intent
          \/ /\ intent[worker.msg].pollLease # 0
             /\ \E next, status : intent' = [intent EXCEPT ![worker.msg] =
                    [@ EXCEPT !.pollLease = 0, !.nextPoll = next, !.providerState = status]]
      <3>1. CASE ~PollMatches(worker.msg)
        BY <1>6, <3>1 DEF ResolveOfficialPoll
      <3>2. CASE PollMatches(worker.msg)
        <4>1. \E next, status : intent' = [intent EXCEPT ![worker.msg] =
                    [@ EXCEPT !.pollLease = 0, !.nextPoll = next, !.providerState = status]]
          BY <1>6, <3>2 DEF ResolveOfficialPoll
        <4> QED
          BY <3>2, <4>1 DEF PollMatches
      <3> QED
        BY <3>1, <3>2
    <2>3. \A next, status : [intent[worker.msg] EXCEPT !.pollLease = 0, !.nextPoll = next,
                  !.providerState = status].pollAttempts = intent[worker.msg].pollAttempts
      BY <1>0, <2>1 DEF Intent, Idle
    <2>4. CASE UNCHANGED intent
      BY <2>1, <2>4 DEF PollsKept, PollsOver, Posting
    <2>5. ASSUME NEW next, NEW status, intent[worker.msg].pollLease # 0,
                 intent' = [intent EXCEPT ![worker.msg] =
                    [@ EXCEPT !.pollLease = 0, !.nextPoll = next, !.providerState = status]]
          PROVE  PollsKept(m) /\ (PollsOver(m) => PollsOver(m)')
      <3>1. PollsKept(m)
        BY <1>0, <2>1, <2>3, <2>5 DEF PollsKept
      <3>2. PollsOver(m) => m # worker.msg
        BY <2>5 DEF PollsOver
      <3>3. m # worker.msg => intent'[m] = intent[m]
        BY <1>0, <2>5
      <3> QED
        BY <2>1, <3>1, <3>2, <3>3 DEF PollsOver, Posting
    <2> QED
      BY <2>1, <2>2, <2>4, <2>5
  <1> QED
    BY <1>1, <1>2, <1>3, <1>4, <1>5, <1>6 DEF WorkerStep

\* The sweep, admissions, the provider, the operator, restarts and the clock
\* neither make nor start a poll.
LEMMA OtherPolls ==
  ASSUME TypeInvariant, Records, NEW m \in Msgs,
         \/ ExpireNotifications \/ ProviderStep \/ OperatorStep \/ Tick
         \/ \E n \in Msgs, failure \in BOOLEAN : Enqueue(n, failure)
         \/ Crash \/ (\E c \in Configs : Start(c))
         \/ \E n \in 1 .. MaxBack : ClockBack(n)
         \/ UNCHANGED vars
  PROVE  /\ UNCHANGED <<gets, backup>> /\ PollsKept(m)
         /\ m \in seen /\ PollsOver(m) => PollsOver(m)'
         /\ worker'.pc = "polling" =>
                UNCHANGED worker /\ (intent'[m].pollLease > 0 => intent[m].pollLease > 0)
  <1>0. /\ worker \in Worker /\ state \in [Msgs -> States] /\ intent \in [Msgs -> Intent]
        /\ RowsTrue
    BY DEF TypeInvariant, Records
  <1>1. CASE ExpireNotifications
    <2>1. /\ UNCHANGED <<gets, backup, worker>>
          /\ state'[m] = SweptState[m] /\ intent'[m] = SweptIntent[m]
      BY <1>1 DEF ExpireNotifications, ghost
    <2> QED
      BY <1>0, <2>1, SweepPolls DEF PollsKept, PollsOver
  <1>2. ASSUME NEW n \in Msgs, NEW failure \in BOOLEAN, Enqueue(n, failure)
        PROVE  /\ UNCHANGED <<gets, backup>> /\ PollsKept(m)
               /\ m \in seen /\ PollsOver(m) => PollsOver(m)'
               /\ worker'.pc = "polling" =>
                      UNCHANGED worker /\ (intent'[m].pollLease > 0 => intent[m].pollLease > 0)
    <2>1. SweptIntent \in [Msgs -> Intent] /\ SweptState \in [Msgs -> States]
      BY SweepType
    <2>2. UNCHANGED <<gets, backup, worker>> /\ n \notin seen
      BY <1>2 DEF Enqueue
    <2>3. CASE m = n
      <3>1. intent'[m] = NoIntent /\ state'[m] # "accepted"
        BY <1>2, <2>1, <2>3 DEF Enqueue
      <3>2. NoIntent.pollAttempts = 0 /\ ~(NoIntent.pollLease > 0)
        BY DEF NoIntent
      <3> QED
        BY <2>2, <2>3, <3>1, <3>2 DEF PollsKept
    <2>4. CASE m # n
      <3>1. state'[m] = SweptState[m] /\ intent'[m] = SweptIntent[m]
        BY <1>2, <2>1, <2>4 DEF Enqueue
      <3> QED
        BY <1>0, <2>2, <3>1, SweepPolls DEF PollsKept, PollsOver
    <2> QED
      BY <2>3, <2>4
  <1>3. CASE ProviderStep
    <2>1. UNCHANGED <<state, intent, gets, backup>>
      BY <1>3 DEF ProviderStep, ProviderAccepts, ProviderRefuses, Lost, store, ghost
    <2>2. UNCHANGED worker \/ \E reply : worker.pc = "sending" /\ worker' = [worker EXCEPT !.reply = reply]
      BY <1>3 DEF ProviderStep, ProviderAccepts, ProviderRefuses, Lost, Heard
    <2>3. worker'.pc = worker.pc /\ worker'.msg = worker.msg
          /\ (worker'.pc = "polling" => UNCHANGED worker)
      BY <1>0, <2>2 DEF Worker
    <2> QED
      BY <2>1, <2>3 DEF PollsKept, PollsOver
  <1>4. CASE OperatorStep
    <2>1. UNCHANGED <<intent, gets, backup, worker>>
      BY <1>4 DEF OperatorStep, RetryNotification, QuarantineNotification, AddSilence,
          ResumeDestination, DiscardIsolatedNotifications, ReconcileOfficialPaidChannel, ghost
    <2>2. state'[m] = state[m] \/ state'[m] = "blocked"
      BY <1>4 DEF OperatorStep, RetryNotification, QuarantineNotification, AddSilence,
          ResumeDestination, DiscardIsolatedNotifications, ReconcileOfficialPaidChannel
    <2>3. "blocked" \notin Open
      BY DEF Open, Ready
    <2> QED
      BY <2>1, <2>2, <2>3 DEF PollsKept, PollsOver
  <1>5. CASE Crash \/ \E c \in Configs : Start(c)
    <2>1. UNCHANGED <<state, intent, gets, backup>>
      BY <1>5 DEF Crash, Start, store, ghost
    <2>2. UNCHANGED worker \/ worker' \in {At("idle"), At("down")}
      BY <1>5 DEF Crash, Start
    <2>3. At("idle").pc = "idle" /\ At("down").pc = "down"
      BY DEF At
    <2> QED
      BY <2>1, <2>2, <2>3 DEF PollsKept, PollsOver, Posting
  <1>6. CASE Tick \/ (\E n \in 1 .. MaxBack : ClockBack(n)) \/ UNCHANGED vars
    <2>1. UNCHANGED <<state, intent, gets, backup, worker>>
      BY <1>6 DEF Tick, ClockBack, vars, store, ghost
    <2> QED
      BY <2>1 DEF PollsKept, PollsOver
  <1> QED
    BY <1>1, <1>2, <1>3, <1>4, <1>5, <1>6

\* A claim counts the poll before it is made.
LEMMA ClaimCounts ==
  ASSUME TypeInvariant, Records, PollsCounted, NEW n \in Msgs, ClaimOfficialPoll(n)
  PROVE  PollsCounted'
  <1>0. /\ intent \in [Msgs -> Intent] /\ gets \in [Msgs -> Nat] /\ MaxPolls \in Nat
        /\ \A m \in Msgs : /\ intent[m] \in Intent /\ intent[m].pollAttempts \in Nat
                           /\ intent[m].nextPoll \in Nat /\ PollsAccounted(m)
    BY TimeAssumption DEF TypeInvariant, Intent, PollsCounted
  <1>1. /\ Twilio /\ state[n] = "accepted" /\ intent[n].nextPoll > 0
        /\ intent[n].pollAttempts < MaxPolls
        /\ UNCHANGED <<state, gets, backup, seen, deliveries>>
        /\ intent' = [PollsExpired EXCEPT ![n] = PollClaimed(n)]
        /\ worker' = [At("polling") EXCEPT !.msg = n, !.attempt = PollClaimed(n).pollAttempts]
    BY DEF ClaimOfficialPoll, PollPermitted, ghost
  <1>2. PollsExpired \in [Msgs -> Intent]
    BY <1>0 DEF PollsExpired, Intent
  <1>3. PollClaimed(n).pollAttempts = intent[n].pollAttempts + 1
    BY <1>0 DEF PollClaimed, Intent
  <1>4. worker'.pc = "polling" /\ worker'.msg = n
    BY <1>1 DEF At
  <1>5. gets[n] <= intent[n].pollAttempts
    BY <1>0, <1>1 DEF PollsAccounted, PollsOver
  <1>6. intent'[n].pollAttempts = intent[n].pollAttempts + 1
    BY <1>1, <1>2, <1>3
  <1>7. ASSUME NEW m \in Msgs PROVE PollsAccounted(m)'
    <2>1. CASE m = n
      BY <1>0, <1>1, <1>5, <1>6, <2>1 DEF PollsAccounted, Twilio, Records, RowsTrue, RecordTrue
    <2>2. CASE m # n
      <3>1. intent'[m] = PollsExpired[m] /\ PollsAccounted(m)
        BY <1>0, <1>1, <1>2, <2>2
      <3>2. PollsExpired[m] = intent[m] \/
            PollsExpired[m] = [intent[m] EXCEPT !.providerState = "unknown", !.nextPoll = 0,
                                                !.pollLease = 0]
        BY DEF PollsExpired
      <3>3. /\ intent'[m].pollAttempts = intent[m].pollAttempts
            /\ intent[m].nextPoll = 0 => intent'[m].nextPoll = 0
            /\ intent[m].pollLease = 0 => intent'[m].pollLease = 0
        <4>1. CASE PollsExpired[m] = intent[m]
          BY <3>1, <4>1
        <4>2. CASE PollsExpired[m] = [intent[m] EXCEPT !.providerState = "unknown",
                                          !.nextPoll = 0, !.pollLease = 0]
          BY <1>0, <3>1, <4>2 DEF Intent
        <4> QED
          BY <3>2, <4>1, <4>2
      <3>4. PollsOver(m) => PollsOver(m)'
        BY <1>1, <1>4, <3>3 DEF PollsOver, Posting
      <3> QED
        BY <1>1, <3>1, <3>3, <3>4 DEF PollsAccounted, Twilio
    <2> QED
      BY <2>1, <2>2
  <1>8. ClaimIsUnused'
    BY <1>0, <1>1, <1>4, <1>5, <1>6 DEF ClaimIsUnused, Twilio
  <1>9. \A b \in backup', m \in Msgs : b.intent[m].pollAttempts <= MaxPolls
    BY <1>1 DEF PollsCounted
  <1> QED
    BY <1>7, <1>8, <1>9 DEF PollsCounted

\* A GET uses up the claim it was made under.
LEMMA PollUsesClaim ==
  ASSUME TypeInvariant, Records, PollsCounted, Poll
  PROVE  PollsCounted'
  <1>0. /\ gets \in [Msgs -> Nat] /\ MaxPolls \in Nat /\ worker \in Worker /\ worker.msg \in Msgs
        /\ \A m \in Msgs : /\ intent[m].pollAttempts \in Nat /\ intent[m].pollLease \in Nat
                           /\ PollsAccounted(m)
        /\ worker.pc = "polling" /\ Twilio /\ ClaimIsUnused
    <2>1. worker.pc = "polling"
      BY DEF Poll
    <2> QED
      BY <2>1, TimeAssumption, WorkerBusy DEF TypeInvariant, Intent, PollsCounted, ClaimIsUnused, Idle
  <1>1. UNCHANGED <<state, intent, backup, seen, deliveries>>
    BY DEF Poll, store
  <1>2. worker'.pc \in {"polled", "idle"}
    <2>1. \/ \E r : worker' = [worker EXCEPT !.pc = "polled", !.result = r]
          \/ worker' = At("idle")
      BY DEF Poll
    <2>2. At("idle").pc = "idle"
      BY DEF At
    <2> QED
      BY <1>0, <2>1, <2>2 DEF Worker
  <1>3. \A m \in Msgs : PollsOver(m) => PollsOver(m)'
    BY <1>1, <1>2 DEF PollsOver, Posting
  <1>4. CASE UNCHANGED gets
    BY <1>0, <1>1, <1>2, <1>3, <1>4 DEF PollsCounted, PollsAccounted, ClaimIsUnused, Twilio
  <1>5. CASE ~UNCHANGED gets
    <2>1. /\ state[worker.msg] = "accepted" /\ intent[worker.msg].pollAttempts = worker.attempt
          /\ intent[worker.msg].pollLease > Now
          /\ gets' = [gets EXCEPT ![worker.msg] = @ + 1]
      BY <1>5 DEF Poll, PollPermitted
    <2>2. intent[worker.msg].pollLease > 0
      BY <1>0, <2>1, NowType
    <2>3. gets[worker.msg] < intent[worker.msg].pollAttempts
      BY <1>0, <2>1, <2>2 DEF ClaimIsUnused
    <2>4. worker.msg \in seen /\ deliveries[worker.msg] > 0
      BY <1>0, <2>1 DEF Records, RowsTrue, RecordTrue
    <2>5. ASSUME NEW m \in Msgs PROVE PollsAccounted(m)'
      <3>1. CASE m = worker.msg
        <4>1. gets'[m] = gets[m] + 1
          BY <1>0, <2>1, <3>1
        <4> QED
          BY <1>0, <1>1, <2>1, <2>3, <2>4, <3>1, <4>1 DEF PollsAccounted, Twilio
      <3>2. CASE m # worker.msg
        BY <1>0, <1>1, <1>3, <2>1, <3>2 DEF PollsAccounted, Twilio
      <3> QED
        BY <3>1, <3>2
    <2> QED
      BY <1>1, <1>2, <2>5 DEF PollsCounted, ClaimIsUnused
  <1> QED
    BY <1>4, <1>5

\* A restored backup closes every poll (markRestoredOfficialHold), so the GETs
\* made since the backup was taken need not be in its rows.
LEMMA RestoreEndsPolls ==
  ASSUME TypeInvariant, Records, PollsCounted, NEW b \in backup, RestoreBackup(b)
  PROVE  PollsCounted'
  <1>0. /\ gets \in [Msgs -> Nat] /\ MaxPolls \in Nat /\ worker.pc = "down"
        /\ UNCHANGED <<gets, backup, worker, seen, deliveries>>
    BY TimeAssumption DEF TypeInvariant, RestoreBackup, ghost
  <1>1. ASSUME NEW m \in Msgs PROVE PollsAccounted(m)'
    <2>1. /\ b.intent[m] \in Intent /\ b.state[m] \in States
          /\ RecordTrue(b.outbox[m], b.state[m], m)
          /\ PollsAccounted(m) /\ b.intent[m].pollAttempts <= MaxPolls
      BY DEF TypeInvariant, Snapshot, Records, CopiesTrue, PollsCounted
    <2>2. intent'[m].pollAttempts = b.intent[m].pollAttempts
      <3>1. CASE Twilio
        BY <2>1, <3>1 DEF RestoreBackup, Intent
      <3>2. CASE ~Twilio
        BY <3>2 DEF RestoreBackup
      <3> QED
        BY <3>1, <3>2
    <2>3. CASE gets[m] = 0
      BY <1>0, <2>1, <2>2, <2>3 DEF PollsAccounted
    <2>4. CASE gets[m] > 0
      <3>1. Twilio /\ Paid /\ m \in seen /\ deliveries[m] > 0
        BY <2>1, <2>4 DEF PollsAccounted, Twilio, Paid
      <3>2. intent'[m].nextPoll = 0 /\ intent'[m].pollLease = 0
        BY <2>1, <3>1 DEF RestoreBackup, Intent
      <3>3. state'[m] \notin Open
        <4>1. state'[m] = IF b.state[m] # "absent" /\ ~b.outbox[m].sent /\ b.state[m] # "accepted"
                          THEN HeldState(b.state[m] = "in_flight") ELSE b.state[m]
          BY <3>1 DEF RestoreBackup
        <4>2. \A unknown : HeldState(unknown) \notin Open
          BY DEF HeldState, Open, Ready
        <4>3. CASE b.state[m] \in Open
          BY <2>1, <4>1, <4>2, <4>3 DEF RecordTrue, Open, Ready
        <4>4. CASE b.state[m] \notin Open
          BY <4>1, <4>2, <4>4
        <4> QED
          BY <4>3, <4>4
      <3>4. PollsOver(m)'
        BY <1>0, <3>2, <3>3 DEF PollsOver, Posting
      <3> QED
        BY <1>0, <2>1, <2>2, <3>1, <3>4 DEF PollsAccounted, Twilio
    <2> QED
      BY <1>0, <2>3, <2>4
  <1> QED
    BY <1>0, <1>1 DEF PollsCounted, ClaimIsUnused

\* Every step keeps the polls counted.
LEMMA PollsNext ==
  ASSUME TypeInvariant, TypeInvariant', Records, PollsCounted, [Next]_vars
  PROVE  PollsCounted'
  <1>0. CASE Msgs = {}
    <2>1. worker'.pc # "polling"
      BY <1>0 DEF TypeInvariant, Worker, Idle
    <2> QED
      BY <1>0, <2>1 DEF PollsCounted, ClaimIsUnused
  <1> SUFFICES ASSUME Msgs # {} PROVE PollsCounted'
    BY <1>0
  <1>1. CASE Poll
    BY <1>1, PollUsesClaim
  <1>2. CASE \E n \in Msgs : ClaimOfficialPoll(n)
    BY <1>2, ClaimCounts
  <1>3. CASE (WorkerError \/ WorkerStep) /\ ~Poll /\ ~\E n \in Msgs : ClaimOfficialPoll(n)
    <2>1. \A m \in Msgs : /\ PollsKept(m) /\ (PollsOver(m) => PollsOver(m)')
                         /\ worker'.pc # "polling" /\ UNCHANGED <<gets, backup>>
      BY <1>3, WorkerPolls
    <2>2. \A m \in Msgs : RecordMoves(m)
      BY <1>3, WorkerRecords
    <2>3. worker'.pc # "polling" /\ UNCHANGED <<gets, backup>>
      BY <2>1
    <2> QED
      BY <2>1, <2>2, <2>3, PollFrame
  <1>4. CASE \E b \in backup : RestoreBackup(b)
    BY <1>4, RestoreEndsPolls
  <1>5. CASE Backup
    <2>1. UNCHANGED <<state, intent, gets, worker, seen, deliveries>>
          /\ \A b \in backup' : b.intent = intent
      BY <1>5 DEF Backup, store, ghost
    <2> QED
      BY <2>1 DEF PollsCounted, PollsAccounted, PollsOver, ClaimIsUnused, Twilio
  <1>6. CASE \/ ExpireNotifications \/ ProviderStep \/ OperatorStep \/ Tick
             \/ \E n \in Msgs, failure \in BOOLEAN : Enqueue(n, failure)
             \/ Crash \/ (\E c \in Configs : Start(c))
             \/ \E n \in 1 .. MaxBack : ClockBack(n)
             \/ UNCHANGED vars
    <2>1. ASSUME NEW m \in Msgs
          PROVE  /\ UNCHANGED <<gets, backup>> /\ PollsKept(m)
                 /\ m \in seen /\ PollsOver(m) => PollsOver(m)'
                 /\ worker'.pc = "polling" =>
                        UNCHANGED worker /\ (intent'[m].pollLease > 0 => intent[m].pollLease > 0)
      BY <1>6, OtherPolls
    <2>2. \A m \in Msgs : RecordMoves(m)
      BY <1>6, OtherRecords
    <2>3. UNCHANGED <<gets, backup>>
      BY <2>1
    <2>4. worker'.pc = "polling" =>
            UNCHANGED worker /\ (intent'[worker.msg].pollLease > 0 => intent[worker.msg].pollLease > 0)
      <3> SUFFICES ASSUME worker'.pc = "polling"
                   PROVE  UNCHANGED worker
                          /\ (intent'[worker.msg].pollLease > 0 => intent[worker.msg].pollLease > 0)
        OBVIOUS
      <3>1. UNCHANGED worker
        BY <2>1
      <3>2. worker.msg \in Msgs
        BY <3>1, WorkerBusy DEF Idle
      <3> QED
        BY <2>1, <3>1, <3>2
    <2> QED
      BY <2>1, <2>2, <2>3, <2>4, PollFrame
  <1> QED
    BY <1>1, <1>2, <1>3, <1>4, <1>5, <1>6 DEF Next, ProcessStep

\* The status of a message is asked for at most MaxPolls times and only after the
\* provider accepted it, on every channel, through crashes between claim, GET and
\* answer, expired leases, restarts, clocks set back and restored backups
\* (ClaimOfficialPoll, OfficialPollAllowed, ResolveOfficialPoll).
THEOREM PollsAreBounded == Spec => []PollsBounded
  <1>1. Init => PollsCounted
    <2> SUFFICES ASSUME Init PROVE PollsCounted
      OBVIOUS
    <2>1. MaxPolls \in Nat /\ NoIntent.pollAttempts = 0 /\ At("idle").pc = "idle"
      BY TimeAssumption DEF NoIntent, At
    <2>2. /\ \A m \in Msgs : gets[m] = 0 /\ intent[m] = NoIntent
          /\ backup = {} /\ worker = At("idle")
      BY DEF Init
    <2> QED
      BY <2>1, <2>2 DEF PollsCounted, PollsAccounted, ClaimIsUnused
  <1>2. TypeInvariant /\ TypeInvariant' /\ Records /\ PollsCounted /\ [Next]_vars => PollsCounted'
    BY PollsNext
  <1>3. PollsCounted => PollsBounded
    BY DEF PollsCounted, PollsAccounted, PollsBounded
  <1> QED
    BY <1>1, <1>2, <1>3, TypeCorrect, RecordsHold, PTL DEF Spec

=============================================================================
