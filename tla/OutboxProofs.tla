---------------------------- MODULE OutboxProofs ----------------------------
(***************************************************************************)
(* What holds of the outbox for every number of messages, receivers,       *)
(* restarts and operator commands and every duration: receivers are paced  *)
(* (invariant Pacing), no event is lost, silences and isolation hold       *)
(* (invariant Accounted), and on channels without pacing a recovery does   *)
(* not overtake the updates it ends (invariant Ordered).                   *)
(***************************************************************************)
EXTENDS Outbox, FiniteSetTheorems, SequenceTheorems, TLAPS

PacingTypes ==
    /\ now \in Nat /\ reserved \in Nat /\ config \in Configs
    /\ cooldown \in [Receivers -> Nat] /\ lastPost \in [Receivers -> Nat]

\* Until when a receiver is closed, the past being over anyway.
ClosedTo(d) == Later(cooldown[d], now)
\* The interval consumed by a receiver's last request is over or recorded.
PostsRecorded ==
    Interval > 0 =>
        \A d \in Receivers : lastPost[d] > 0 => ClosedTo(d) >= lastPost[d] + Interval
\* An interval reserved and not yet used is recorded, and is a new one.
HasReserved == worker.pc \in {"reserved", "ready"} /\ reserved > 0 /\ Interval > 0
ReservedIsRecorded == HasReserved => ClosedTo(config.dest) >= reserved + Interval
ReservedIsNew ==
    HasReserved /\ lastPost[config.dest] > 0 => reserved >= lastPost[config.dest] + Interval

\* The inductive invariant behind PacedRequests.
Pacing == PacingTypes /\ PostsRecorded /\ ReservedIsRecorded /\ ReservedIsNew

-----------------------------------------------------------------------------

LEMMA Constants ==
    /\ Interval \in Nat /\ Forever \in Nat
    /\ \A d \in Holds : d \in Nat
    /\ \A c \in Configs : c.dest \in Receivers
    /\ FirstConfig \in Configs
  BY DataAssumption, TimeAssumption

\* Raising a cooldown keeps the table's type and every pause in it.
LEMMA PauseRaises ==
  ASSUME PacingTypes, NEW d \in Receivers, NEW until \in Nat
  PROVE  /\ Pause(d, until) \in [Receivers -> Nat]
         /\ Pause(d, until)[d] >= until
         /\ \A x \in Receivers : Pause(d, until)[x] >= cooldown[x]
  BY DEF PacingTypes, Pause, Later

\* A step that only lengthens pauses and lets time pass, and changes neither
\* the configuration nor what was reserved and posted, keeps Pacing, provided
\* the worker does not come by a reservation.
LEMMA PausesOnly ==
  ASSUME Pacing, UNCHANGED <<config, reserved, lastPost>>,
         now' \in Nat, now' >= now,
         cooldown' \in [Receivers -> Nat],
         \A d \in Receivers : Later(cooldown'[d], now') >= ClosedTo(d),
         worker'.pc \in {"reserved", "ready"} =>
            worker.pc \in {"reserved", "ready"} \/ Interval = 0
  PROVE  Pacing'
  <1>1. PacingTypes'
    BY DEF Pacing, PacingTypes
  <1>2. \A d \in Receivers : ClosedTo(d) \in Nat /\ ClosedTo(d)' \in Nat /\ ClosedTo(d)' >= ClosedTo(d)
    BY DEF Pacing, PacingTypes, ClosedTo, Later
  <1>3. PostsRecorded'
    BY <1>1, <1>2, Constants DEF Pacing, PacingTypes, PostsRecorded
  <1>4. HasReserved' => HasReserved
    BY DEF HasReserved
  <1>5. config.dest \in Receivers
    BY Constants DEF Pacing, PacingTypes
  <1>6. ReservedIsRecorded'
    BY <1>2, <1>4, <1>5, Constants DEF Pacing, PacingTypes, ReservedIsRecorded
  <1>7. ReservedIsNew'
    BY <1>4 DEF Pacing, ReservedIsNew
  <1> QED
    BY <1>1, <1>3, <1>6, <1>7 DEF Pacing

\* The same for the many steps that leave cooldowns and time alone.
LEMMA NoPacingStep ==
  ASSUME Pacing, UNCHANGED <<now, cooldown, config, reserved, lastPost>>,
         worker'.pc \in {"reserved", "ready"} =>
            worker.pc \in {"reserved", "ready"} \/ Interval = 0
  PROVE  Pacing'
  <1>1. now \in Nat /\ cooldown \in [Receivers -> Nat]
    BY DEF Pacing, PacingTypes
  <1>2. \A d \in Receivers : Later(cooldown[d], now) >= ClosedTo(d)
    BY <1>1 DEF ClosedTo, Later
  <1> QED
    BY <1>1, <1>2, PausesOnly

-----------------------------------------------------------------------------

LEMMA PacingInit == Init => Pacing
  <1> SUFFICES ASSUME Init PROVE Pacing
    OBVIOUS
  <1>1. PacingTypes
    BY Constants DEF Init, PacingTypes
  <1>2. worker.pc = "idle"
    BY DEF Init, At
  <1> QED
    BY <1>1, <1>2 DEF Init, Pacing, PostsRecorded, ReservedIsRecorded, ReservedIsNew, HasReserved

\* Reserving is the step that consumes an interval: it finds the receiver open,
\* so that the interval of its last request is over.
LEMMA PacingReserve ==
  ASSUME Pacing, ReserveNotificationAttempt
  PROVE  Pacing'
  <1> DEFINE m == worker.msg
             d == config.dest
  <1>0. Interval \in Nat /\ d \in Receivers
    BY Constants DEF Pacing, PacingTypes
  <1>1. CASE DeliveryAllowed(m) /\ Cool(rows[m].dest)
    <2>1. rows[m].dest = d
      BY <1>1 DEF DeliveryAllowed, TargetOn
    <2>2. cooldown[d] <= now
      BY <1>1, <2>1 DEF Cool
    <2>3. /\ cooldown' = Pause(d, now + Interval) /\ reserved' = now
          /\ UNCHANGED <<now, config, lastPost>>
      BY <1>1, <2>1 DEF ReserveNotificationAttempt, Paused
    <2>4. now \in Nat /\ now + Interval \in Nat
      BY <1>0 DEF Pacing, PacingTypes
    <2>5. /\ cooldown' \in [Receivers -> Nat] /\ cooldown'[d] >= now + Interval
          /\ \A x \in Receivers : cooldown'[x] >= cooldown[x]
      BY <1>0, <2>3, <2>4, PauseRaises DEF Pacing
    <2>6. PacingTypes'
      BY <2>3, <2>5 DEF Pacing, PacingTypes
    <2>7. PostsRecorded'
      <3> SUFFICES ASSUME Interval > 0, NEW x \in Receivers, lastPost[x] > 0
                   PROVE  Later(cooldown'[x], now) >= lastPost[x] + Interval
        BY <2>3 DEF PostsRecorded, ClosedTo
      <3>1. Later(cooldown[x], now) >= lastPost[x] + Interval
        BY DEF Pacing, PostsRecorded, ClosedTo
      <3>2. cooldown[x] \in Nat /\ cooldown'[x] \in Nat /\ lastPost[x] \in Nat
        BY <2>5 DEF Pacing, PacingTypes
      <3> QED
        BY <3>1, <3>2, <2>4, <2>5, <1>0 DEF Later
    <2>8. ReservedIsRecorded'
      BY <2>3, <2>4, <2>5, <1>0 DEF ReservedIsRecorded, ClosedTo, Later
    <2>9. ReservedIsNew'
      <3> SUFFICES ASSUME Interval > 0, lastPost[d] > 0 PROVE now >= lastPost[d] + Interval
        BY <2>3 DEF ReservedIsNew, HasReserved
      <3>1. Later(cooldown[d], now) >= lastPost[d] + Interval
        BY <1>0 DEF Pacing, PostsRecorded, ClosedTo
      <3>2. cooldown[d] \in Nat /\ lastPost[d] \in Nat
        BY <1>0 DEF Pacing, PacingTypes
      <3> QED
        BY <3>1, <3>2, <2>2, <2>4, <1>0 DEF Later
    <2> QED
      BY <2>6, <2>7, <2>8, <2>9 DEF Pacing
  <1>2. CASE ~(DeliveryAllowed(m) /\ Cool(rows[m].dest))
    <2>1. worker' = [worker EXCEPT !.pc = "release"] /\ worker.pc = "allowed"
          /\ UNCHANGED <<now, cooldown, config, reserved, lastPost>>
      BY <1>2 DEF ReserveNotificationAttempt
    <2>2. worker'.pc \in {"reserved", "ready"} => worker.pc \in {"reserved", "ready"} \/ Interval = 0
      BY <2>1
    <2> QED
      BY <2>1, <2>2, NoPacingStep
  <1> QED
    BY <1>1, <1>2

\* Sending uses the reservation up.
LEMMA PacingSend ==
  ASSUME Pacing, Send
  PROVE  Pacing'
  <1> DEFINE d == config.dest
  <1>0. Interval \in Nat /\ d \in Receivers
    BY Constants DEF Pacing, PacingTypes
  <1>1. /\ worker.pc = "ready" /\ worker' = [worker EXCEPT !.pc = "sending"]
        /\ lastPost' = [lastPost EXCEPT ![d] = reserved]
        /\ UNCHANGED <<now, cooldown, config, reserved>>
    BY DEF Send, tables
  <1>2. PacingTypes'
    BY <1>0, <1>1 DEF Pacing, PacingTypes
  <1>3. ~HasReserved'
    <2>1. worker'.pc \notin {"reserved", "ready"}
      BY <1>1
    <2> QED
      BY <2>1 DEF HasReserved
  <1>4. PostsRecorded'
    <2> SUFFICES ASSUME Interval > 0, NEW x \in Receivers, lastPost'[x] > 0
                 PROVE  ClosedTo(x) >= lastPost'[x] + Interval
      BY <1>1 DEF PostsRecorded, ClosedTo
    <2>1. CASE x = d
      <3>1. lastPost'[x] = reserved
        BY <1>0, <1>1, <2>1 DEF Pacing, PacingTypes
      <3> QED
        BY <1>1, <2>1, <3>1 DEF Pacing, ReservedIsRecorded, HasReserved
    <2>2. CASE x # d
      <3>1. lastPost'[x] = lastPost[x]
        BY <1>1, <2>2 DEF Pacing, PacingTypes
      <3> QED
        BY <3>1 DEF Pacing, PostsRecorded
    <2> QED
      BY <2>1, <2>2
  <1> QED
    BY <1>2, <1>3, <1>4 DEF Pacing, ReservedIsRecorded, ReservedIsNew

\* Recording an answer may lengthen the receiver's pause.
LEMMA PacingRecord ==
  ASSUME Pacing, Record
  PROVE  Pacing'
  <1> DEFINE m == worker.msg
  <1>0. /\ Interval \in Nat /\ Forever \in Nat /\ config.dest \in Receivers /\ now \in Nat
        /\ cooldown \in [Receivers -> Nat]
    BY Constants DEF Pacing, PacingTypes
  <1>1. UNCHANGED <<now, config, reserved, lastPost>>
    BY DEF Record
  <1>2. worker'.pc \in {"pass", "idle"}
    BY DEF Record, MarkSentWithCooldown, MarkFailed, MarkQuarantined, MarkRateLimited, At
  <1>3. \/ cooldown' = cooldown
        \/ \E d \in Receivers, until \in Nat : cooldown' = Pause(d, until)
    <2>1. CASE MarkSentWithCooldown(m)
      <3>1. CASE cooldown' = cooldown
        BY <3>1
      <3>2. CASE cooldown' # cooldown
        <4>1. cooldown' = Pause(rows[m].dest, now + Interval)
          BY <2>1, <3>2 DEF MarkSentWithCooldown
        <4>2. CASE rows[m].dest \in Receivers
          BY <4>1, <4>2, <1>0
        <4>3. CASE rows[m].dest \notin Receivers
          BY <4>1, <4>3, <3>2, <1>0 DEF Pause
        <4> QED
          BY <4>2, <4>3
      <3> QED
        BY <3>1, <3>2
    <2>2. CASE MarkFailed(m) \/ MarkQuarantined(m)
      BY <2>2 DEF MarkFailed, MarkQuarantined
    <2>3. CASE MarkRateLimited(m)
      <3>1. PICK until \in IF worker.result = "suspended" THEN {Forever} ELSE {now + d : d \in Holds} :
               cooldown' = Pause(config.dest, until)
        BY <2>3 DEF MarkRateLimited
      <3>2. until \in Nat
        BY <3>1, <1>0, Constants
      <3> QED
        BY <3>1, <3>2, <1>0
    <2> QED
      BY <2>1, <2>2, <2>3 DEF Record
  <1>4. /\ cooldown' \in [Receivers -> Nat]
        /\ \A x \in Receivers : cooldown'[x] >= cooldown[x]
    <2>1. CASE cooldown' = cooldown
      BY <1>0, <2>1
    <2>2. CASE cooldown' # cooldown
      <3>1. PICK d \in Receivers, until \in Nat : cooldown' = Pause(d, until)
        BY <1>3, <2>2
      <3> QED
        BY <3>1, PauseRaises DEF Pacing
    <2> QED
      BY <2>1, <2>2
  <1>5. \A x \in Receivers : Later(cooldown'[x], now') >= ClosedTo(x)
    BY <1>0, <1>1, <1>4 DEF Later, ClosedTo
  <1> QED
    BY <1>0, <1>1, <1>2, <1>4, <1>5, PausesOnly

\* The sweep forgets only pauses that are over.
LEMMA PacingSweep ==
  ASSUME Pacing, PendingDestination
  PROVE  Pacing'
  <1>0. now \in Nat /\ cooldown \in [Receivers -> Nat]
    BY DEF Pacing, PacingTypes
  <1>1. cooldown' = SweptCooldown /\ UNCHANGED <<now, config, reserved, lastPost>>
    BY DEF PendingDestination, ghost
  <1>2. worker'.pc = "pass"
    BY DEF PendingDestination, At
  <1>3. cooldown' \in [Receivers -> Nat]
    BY <1>0, <1>1 DEF SweptCooldown
  <1>4. \A x \in Receivers : Later(cooldown'[x], now') >= ClosedTo(x)
    BY <1>0, <1>1 DEF SweptCooldown, Cool, Later, ClosedTo
  <1> QED
    BY <1>0, <1>1, <1>2, <1>3, <1>4, PausesOnly

LEMMA PacingTick ==
  ASSUME Pacing, Tick
  PROVE  Pacing'
  <1>0. now \in Nat /\ cooldown \in [Receivers -> Nat]
    BY DEF Pacing, PacingTypes
  <1>1. now' = now + 1 /\ UNCHANGED <<cooldown, config, worker, reserved, lastPost>>
    BY DEF Tick, tables, ghost
  <1>2. \A x \in Receivers : Later(cooldown'[x], now') >= ClosedTo(x)
    BY <1>0, <1>1 DEF Later, ClosedTo
  <1> QED
    BY <1>0, <1>1, <1>2, PausesOnly

\* An operator's resume waives the interval of that receiver, for the request
\* under way and for the next.
LEMMA PacingResume ==
  ASSUME Pacing, NEW d \in Receivers, ResumeDestination(d)
  PROVE  Pacing'
  <1>0. /\ Interval \in Nat /\ config.dest \in Receivers /\ now \in Nat /\ reserved \in Nat
        /\ cooldown \in [Receivers -> Nat] /\ lastPost \in [Receivers -> Nat]
    BY Constants DEF Pacing, PacingTypes
  <1>1. /\ cooldown' = [cooldown EXCEPT ![d] = 0] /\ lastPost' = [lastPost EXCEPT ![d] = 0]
        /\ reserved' = IF d = config.dest THEN 0 ELSE reserved
        /\ UNCHANGED <<now, config, worker>>
    BY DEF ResumeDestination
  <1>2. PacingTypes'
    BY <1>0, <1>1 DEF Pacing, PacingTypes
  <1>3. PostsRecorded'
    <2> SUFFICES ASSUME Interval > 0, NEW x \in Receivers, lastPost'[x] > 0
                 PROVE  Later(cooldown'[x], now) >= lastPost'[x] + Interval
      BY <1>1 DEF PostsRecorded, ClosedTo
    <2>1. x # d
      BY <1>0, <1>1
    <2>2. lastPost'[x] = lastPost[x] /\ cooldown'[x] = cooldown[x]
      BY <1>0, <1>1, <2>1
    <2> QED
      BY <2>2 DEF Pacing, PostsRecorded, ClosedTo
  <1>4. CASE d = config.dest
    BY <1>1, <1>2, <1>3, <1>4 DEF Pacing, ReservedIsRecorded, ReservedIsNew, HasReserved
  <1>5. CASE d # config.dest
    <2>1. /\ lastPost'[config.dest] = lastPost[config.dest]
          /\ cooldown'[config.dest] = cooldown[config.dest]
      BY <1>0, <1>1, <1>5
    <2>2. ReservedIsRecorded' /\ ReservedIsNew'
      BY <1>1, <1>5, <2>1
         DEF Pacing, ReservedIsRecorded, ReservedIsNew, HasReserved, ClosedTo
    <2> QED
      BY <1>2, <1>3, <2>2 DEF Pacing
  <1> QED
    BY <1>4, <1>5

\* A restart may bring another receiver, but no reservation.
LEMMA PacingStart ==
  ASSUME Pacing, NEW c \in Configs, Start(c)
  PROVE  Pacing'
  <1>1. config' = c /\ worker'.pc = "idle" /\ UNCHANGED <<now, cooldown, reserved, lastPost>>
    BY DEF Start, At, ghost
  <1>2. PacingTypes'
    BY <1>1 DEF Pacing, PacingTypes
  <1>3. PostsRecorded'
    BY <1>1 DEF Pacing, PostsRecorded, ClosedTo
  <1> QED
    BY <1>1, <1>2, <1>3 DEF Pacing, ReservedIsRecorded, ReservedIsNew, HasReserved

\* The worker's other steps hand no reservation out: a claimed message of a
\* paced channel goes through "allowed".
LEMMA PacingWorker ==
  ASSUME Pacing, WorkerStep
  PROVE  Pacing'
  <1>1. CASE ClaimNotification \/ PassOver \/ Answer \/ ReleaseNotificationClaim \/ WorkerError
    <2>1. UNCHANGED <<now, cooldown, config, reserved, lastPost>>
      BY <1>1 DEF ClaimNotification, PassOver, Answer, ReleaseNotificationClaim, WorkerError, tables, ghost
    <2>2. worker'.pc \notin {"reserved", "ready"}
      <3>1. CASE ClaimNotification
        <4>1. CASE Due(Head(worker.batch))
          BY <3>1, <4>1 DEF ClaimNotification, At
        <4>2. CASE ~Due(Head(worker.batch))
          BY <3>1, <4>2 DEF ClaimNotification, At
        <4> QED
          BY <4>1, <4>2
      <3>2. CASE PassOver \/ ReleaseNotificationClaim \/ WorkerError
        BY <3>2 DEF PassOver, ReleaseNotificationClaim, WorkerError, At
      <3>3. CASE Answer
        BY <3>3 DEF Answer
      <3> QED
        BY <1>1, <3>1, <3>2, <3>3
    <2> QED
      BY <2>1, <2>2, NoPacingStep
  <1>2. CASE Check
    <2>1. UNCHANGED <<now, cooldown, config, reserved, lastPost>>
      BY <1>2 DEF Check, tables, ghost
    <2>2. worker'.pc \in {"reserved", "ready"} => worker.pc \in {"reserved", "ready"} \/ Interval = 0
      BY <1>2, Constants DEF Check
    <2> QED
      BY <2>1, <2>2, NoPacingStep
  <1> QED
    BY <1>1, <1>2, PacingSweep, PacingReserve, PacingSend, PacingRecord DEF WorkerStep

\* What events, operators and the process do besides.
LEMMA PacingOthers ==
  ASSUME Pacing,
         \/ \E e \in Events : InsertEventNotification(e)
         \/ \E m \in Events : RetryNotification(m) \/ QuarantineNotification(m)
         \/ DiscardIsolatedNotifications
         \/ \E rule \in SilenceRules, d \in SilenceTimes : AddSilence(rule, d)
         \/ \E s \in silences : RemoveSilence(s)
         \/ Crash \/ StopWhileSending
         \/ UNCHANGED vars
  PROVE  Pacing'
  <1>1. UNCHANGED <<now, cooldown, config, reserved, lastPost>>
    BY DEF InsertEventNotification, RetryNotification, QuarantineNotification,
           DiscardIsolatedNotifications, AddSilence, RemoveSilence, Crash, StopWhileSending,
           vars, tables, ghost
  <1>2. worker' = worker \/ worker'.pc = "down"
    <2>1. CASE Crash \/ StopWhileSending
      BY <2>1 DEF Crash, StopWhileSending, At
    <2>2. CASE ~(Crash \/ StopWhileSending)
      BY <2>2 DEF InsertEventNotification, RetryNotification, QuarantineNotification,
                  DiscardIsolatedNotifications, AddSilence, RemoveSilence, vars
    <2> QED
      BY <2>1, <2>2
  <1> QED
    BY <1>1, <1>2, NoPacingStep

\* Pacing is an invariant of the outbox.
LEMMA PacingInvariant == Spec => []Pacing
  <1>1. Pacing /\ [Next]_vars => Pacing'
    BY PacingWorker, PacingResume, PacingStart, PacingTick, PacingOthers DEF Next, OperatorStep
  <1> QED
    BY <1>1, PacingInit, PTL DEF Spec

-----------------------------------------------------------------------------

\* Whatever happens between two requests to a receiver (answers, failures,
\* crashes, restarts, changes of receiver and back), each request consumes an
\* interval of its own (ReserveNotificationAttempt, MarkSentWithCooldown); only
\* an operator's resume waives one.
THEOREM ReceiversArePaced == Spec => PacedRequests
  <1> DEFINE Paces == worker.pc = "ready" /\ worker'.pc = "sending" /\ Interval > 0
                      /\ lastPost[config.dest] > 0 /\ reserved > 0
                        => reserved >= lastPost[config.dest] + Interval
  <1>1. Pacing => Paces
    BY DEF Pacing, ReservedIsNew, HasReserved
  <1>2. Pacing /\ [Next]_vars => [Paces]_vars
    BY <1>1
  <1> QED
    BY <1>2, PacingInvariant, PTL DEF Spec, PacedRequests

-----------------------------------------------------------------------------
(* What becomes of a message: the invariant behind the properties about    *)
(* its events, its silences and its isolation                              *)

Decideds   == {e \in Events : decision[e] # Undecided}
\* The events a message stands for.
Joined(m)  == {e \in Events : decision[e].row = m}
Waiting(m) == Unsent(m) /\ ~Silenced(m)

\* Only a quarantined message has used all its attempts up, and never the one
\* the worker is busy with.
AttemptsLeft ==
    /\ \A m \in Events : ~rows[m].quarantined => rows[m].attempts < MaxAttempts
    /\ worker.pc \in Busy => rows[worker.msg].attempts < MaxAttempts

\* A message is created, or joined, only by events that were decided then; an
\* event is decided once, so that a message that is gone does not come back.
DecidedOnce ==
    /\ IsFiniteSet(Decideds)
    /\ \A m \in Events : rows[m].present \/ Joined(m) # {} => m \in Decideds

\* No message waits under a silence that covers it.
SilencesObeyed ==
    /\ \A s \in silences : s.expires \in Nat
    /\ \A m \in Events, s \in silences :
         Waiting(m) /\ rows[m].expires > now /\ Active(s) => ~Matches(s, m)
WithdrawnStay ==
    \A e, m \in Events : decision[e].row = m /\ decision[e].what = "silenced" => ~Waiting(m)

\* The body of a waiting message, and the one a busy worker holds, count all
\* its events; no event can join the message the worker is busy with.
BodiesCount == \A m \in Events : Waiting(m) => rows[m].body.count = Cardinality(Joined(m))
Closed(m) == Silenced(m) \/ rows[m].lease > 0 \/ rows[m].mergeUntil = 0
ClaimCounts ==
    worker.pc \in Busy =>
        /\ worker.msg \in Decideds
        /\ Unsent(worker.msg) =>
             worker.body.count = Cardinality(Joined(worker.msg)) /\ Closed(worker.msg)

MessagesBounded == Cardinality(Queued) <= MaxMessages

Typed   == TypeInvariant /\ AttemptsLeft
Fates   == DecidedOnce /\ SilencesObeyed /\ WithdrawnStay /\ BodiesCount /\ SentTellsAll
           /\ MessagesBounded
\* The inductive invariant of the outbox.
Accounted == Typed /\ Fates /\ ClaimCounts

-----------------------------------------------------------------------------
(* Constants, rows and small facts *)

LEMMA MoreConstants ==
    /\ NoEvent \notin Events
    /\ Phase \in [Events -> {"start", "update", "recovery"}]
    /\ Unknown \in Receivers
    /\ Lease \in Nat \ {0} /\ TTL \in Nat \ {0} /\ MaxAttempts \in Nat \ {0}
    /\ MaxMessages \in Nat \ {0} /\ PassLimit \in Nat \ {0} /\ MaxClock \in Nat \ {0}
    /\ \A d \in RetryDelays : d \in Nat
    /\ \A d \in SilenceTimes : d \in Nat
    /\ \A c \in Configs : c.window \in Nat
  BY DataAssumption, TimeAssumption DEF NoEvent

LEMMA EmptyValues ==
    /\ NoBody \in Body /\ NoRow \in Row
    /\ ~NoRow.present /\ ~NoRow.quarantined /\ NoRow.attempts = 0 /\ NoRow.lease = 0
    /\ NoRow.suppressed = 0
  BY MoreConstants DEF NoBody, Body, NoRow, Row

\* One column changed, the others kept.
LEMMA RowEdits ==
  ASSUME NEW r \in Row
  PROVE  /\ \A x \in Nat : [r EXCEPT !.lease = x] \in Row
         /\ \A x \in Nat : [r EXCEPT !.next = x] \in Row
         /\ [r EXCEPT !.quarantined = TRUE] \in Row
         /\ [r EXCEPT !.sent = TRUE, !.lease = 0] \in Row
         /\ [r EXCEPT !.isolated = TRUE, !.lease = 0] \in Row
         /\ \A x \in Nat : [r EXCEPT !.suppressed = x, !.body = NoBody] \in Row
         /\ \A x \in Nat : [r EXCEPT !.next = x, !.mergeUntil = 0] \in Row
         /\ \A x \in Nat : [r EXCEPT !.attempts = 0, !.quarantined = FALSE, !.lease = 0,
                                     !.mergeUntil = 0, !.next = x] \in Row
         /\ \A b \in Body : [r EXCEPT !.body = b] \in Row
         /\ \A x \in Nat, a \in 0 .. MaxAttempts, q \in BOOLEAN :
              [r EXCEPT !.lease = 0, !.attempts = a, !.next = x, !.quarantined = q] \in Row
         /\ \A a \in 0 .. MaxAttempts :
              [r EXCEPT !.lease = 0, !.attempts = a, !.quarantined = TRUE] \in Row
  BY MoreConstants, EmptyValues DEF Row

LEMMA WorkerAt ==
  \A p \in {"down", "idle", "pass"}, b \in Seq(Events) :
    /\ At(p, b) \in Worker /\ At(p, b).pc = p /\ At(p, b).batch = b
    /\ At(p, b).pc \notin Busy
  BY EmptyValues DEF At, Worker, Busy

LEMMA RowTyped ==
  ASSUME TypeInvariant, NEW m \in Events
  PROVE  /\ rows[m] \in Row
         /\ rows[m].present \in BOOLEAN /\ rows[m].sent \in BOOLEAN
         /\ rows[m].quarantined \in BOOLEAN /\ rows[m].isolated \in BOOLEAN
         /\ rows[m].dest \in Receivers /\ rows[m].body \in Body /\ rows[m].body.count \in Nat
         /\ rows[m].suppressed \in Nat /\ rows[m].lease \in Nat
         /\ rows[m].attempts \in 0 .. MaxAttempts /\ rows[m].attempts \in Nat
         /\ rows[m].next \in Nat /\ rows[m].mergeUntil \in Nat /\ rows[m].expires \in Nat
         /\ rows[m].created \in Nat
         /\ decision[m] \in Decision /\ now \in Nat /\ now > 0
  <1>1. rows[m] \in Row /\ decision[m] \in Decision /\ now \in Nat /\ now > 0
    BY MoreConstants DEF TypeInvariant
  <1> QED
    BY <1>1, MoreConstants DEF Row, Body

-----------------------------------------------------------------------------
(* Steps that create no message and add no event to one *)

\* What such a step may make of a row: it is dropped, or is still the same
\* message, and what was withheld of it stays withheld.
SameMessage(r, q) ==
    \/ q = NoRow
    \/ /\ q.present = r.present /\ q.expires = r.expires
       /\ q.dest = r.dest /\ q.created = r.created
       /\ r.sent => q.sent
       /\ r.suppressed > 0 => q.suppressed > 0
       /\ q.suppressed > 0 \/ q.body = r.body
       /\ r.isolated => q.isolated
       /\ r.isolated \/ r.sent => q.lease \in {r.lease, 0}
NoNewMessage == \A m \in Events : SameMessage(rows[m], rows'[m])

\* A message that waits has been waiting, with the same body.
LEMMA WaitingBefore ==
  ASSUME TypeInvariant, TypeInvariant', NoNewMessage, NEW m \in Events
  PROVE  /\ Waiting(m)' => /\ Waiting(m) /\ rows'[m].body = rows[m].body
                           /\ rows'[m].expires = rows[m].expires
         /\ rows'[m].present => rows[m].present
         /\ Unsent(m)' => Unsent(m)
  <1>1. CASE rows'[m] = NoRow
    BY <1>1, EmptyValues DEF Waiting, Unsent, Silenced
  <1>2. CASE rows'[m] # NoRow
    <2>1. /\ rows'[m].present = rows[m].present /\ rows'[m].expires = rows[m].expires
          /\ rows'[m].dest = rows[m].dest /\ rows'[m].created = rows[m].created
          /\ rows[m].sent => rows'[m].sent
          /\ rows[m].suppressed > 0 => rows'[m].suppressed > 0
          /\ rows'[m].suppressed > 0 \/ rows'[m].body = rows[m].body
      BY <1>2 DEF NoNewMessage, SameMessage
    <2> QED
      BY <2>1, RowTyped DEF Waiting, Unsent, Silenced
  <1> QED
    BY <1>1, <1>2

\* The decisions keep their messages, and a message some decision newly calls
\* silenced waits no more; a new silence covers no waiting message; a message
\* newly marked sent told all its events.
LEMMA FatesKept ==
  ASSUME TypeInvariant, TypeInvariant', Fates, NoNewMessage,
         now' >= now,
         \A e \in Events : /\ decision'[e].row = decision[e].row
                           /\ decision'[e] = Undecided <=> decision[e] = Undecided
                           /\ \/ decision'[e].what = decision[e].what
                              \/ \A m \in Events : decision[e].row = m => ~Waiting(m)',
         \A s \in silences' :
            \/ s \in silences
            \/ /\ s.expires \in Nat
               /\ \A m \in Events : Waiting(m)' /\ rows'[m].expires > now' => ~Matches(s, m),
         \A m \in Events : rows'[m].present /\ rows'[m].sent =>
            \/ rows[m].sent /\ told'[m] = told[m]
            \/ told'[m].count = Cardinality(Joined(m))
  PROVE  Fates'
  <1>1. Decideds' = Decideds
    BY DEF Decideds
  <1>2. \A m : Joined(m)' = Joined(m)
    BY DEF Joined
  <1>3. DecidedOnce'
    BY <1>1, <1>2, WaitingBefore DEF Fates, DecidedOnce
  <1>4. SilencesObeyed'
    <2>1. \A s \in silences' : s.expires \in Nat
      BY DEF Fates, SilencesObeyed
    <2>2. ASSUME NEW m \in Events, NEW s \in silences', Waiting(m)', rows'[m].expires > now',
                 s.expires > now'
          PROVE  ~Matches(s, m)
      <3>1. CASE s \in silences
        <4>1. Waiting(m) /\ rows[m].expires > now
          BY <2>2, WaitingBefore, RowTyped DEF TypeInvariant
        <4>2. s.expires > now
          BY <2>1, <2>2 DEF TypeInvariant
        <4> QED
          BY <3>1, <4>1, <4>2 DEF Fates, SilencesObeyed, Active
      <3>2. CASE s \notin silences
        BY <2>2, <3>2
      <3> QED
        BY <3>1, <3>2
    <2>3. \A m \in Events, s \in silences' : Matches(s, m)' <=> Matches(s, m)
      BY DEF Matches
    <2> QED
      BY <2>1, <2>2, <2>3 DEF SilencesObeyed, Active
  <1>5. WithdrawnStay'
    <2> SUFFICES ASSUME NEW e \in Events, NEW m \in Events, decision'[e].row = m,
                        decision'[e].what = "silenced", Waiting(m)'
                 PROVE  FALSE
      BY DEF WithdrawnStay
    <2>1. decision'[e].what = decision[e].what /\ decision[e].row = m
      OBVIOUS
    <2> QED
      BY <2>1, WaitingBefore DEF Fates, WithdrawnStay
  <1>6. BodiesCount'
    BY <1>2, WaitingBefore DEF Fates, BodiesCount
  <1>7. SentTellsAll'
    <2> SUFFICES ASSUME NEW m \in Events, rows'[m].present, rows'[m].sent
                 PROVE  told'[m].count = Cardinality(Joined(m))
      BY <1>2 DEF SentTellsAll, Joined
    <2>1. rows[m].present
      BY WaitingBefore
    <2> QED
      BY <2>1 DEF Fates, SentTellsAll, Joined
  <1>8. MessagesBounded'
    <2>1. Queued' \in SUBSET Queued
      BY WaitingBefore DEF Queued, Waiting
    <2>2. Queued \in SUBSET Decideds
      BY DEF Fates, DecidedOnce, Queued, Unsent
    <2>3. IsFiniteSet(Queued)
      BY <2>2, FS_Subset DEF Fates, DecidedOnce
    <2>4. Cardinality(Queued') <= Cardinality(Queued) /\ IsFiniteSet(Queued')
      BY <2>1, <2>3, FS_Subset
    <2>5. Cardinality(Queued') \in Nat /\ Cardinality(Queued) \in Nat
      BY <2>3, <2>4, FS_CardinalityType
    <2> QED
      BY <2>4, <2>5, MoreConstants DEF Fates, MessagesBounded
  <1> QED
    BY <1>3, <1>4, <1>5, <1>6, <1>7, <1>8 DEF Fates

\* The common case: nothing is decided, silenced or told.
LEMMA FatesUntouched ==
  ASSUME TypeInvariant, TypeInvariant', Fates, NoNewMessage,
         now' >= now, UNCHANGED <<decision, told>>, silences' \subseteq silences,
         \A m \in Events : rows'[m].sent => rows[m].sent
  PROVE  Fates'
  <1>1. \A e \in Events : /\ decision'[e].row = decision[e].row
                          /\ decision'[e] = Undecided <=> decision[e] = Undecided
                          /\ decision'[e].what = decision[e].what
    OBVIOUS
  <1> QED
    BY <1>1, FatesKept

\* The worker stays busy with the same message, to which no event can join.
LEMMA ClaimKept ==
  ASSUME ClaimCounts, Decideds \subseteq Decideds',
         \A e \in Events : decision'[e].row = decision[e].row,
         worker'.pc \in Busy =>
            /\ worker.pc \in Busy /\ worker'.msg = worker.msg /\ worker'.body = worker.body
            /\ \A m : m = worker.msg /\ Unsent(m)' => Unsent(m) /\ (Closed(m) => Closed(m)')
  PROVE  ClaimCounts'
  <1> SUFFICES ASSUME worker'.pc \in Busy, NEW m, m = worker'.msg
               PROVE  /\ m \in Decideds'
                      /\ Unsent(m)' => worker'.body.count = Cardinality(Joined(m)') /\ Closed(m)'
    BY DEF ClaimCounts
  <1>1. Joined(m)' = Joined(m)
    BY DEF Joined
  <1> QED
    BY <1>1 DEF ClaimCounts

\* Steps that leave the messages alone.
LEMMA RowsUntouched ==
  ASSUME Accounted, TypeInvariant', UNCHANGED <<rows, decision, told>>, silences' \subseteq silences,
         now' >= now,
         worker'.pc \in Busy => /\ worker.pc \in Busy /\ worker'.msg = worker.msg
                                /\ worker'.body = worker.body
  PROVE  Accounted' /\ NoNewMessage
  <1>1. TypeInvariant /\ AttemptsLeft /\ Fates /\ ClaimCounts
    BY DEF Accounted, Typed
  <1>2. NoNewMessage
    BY <1>1, RowTyped DEF NoNewMessage, SameMessage
  <1>3. AttemptsLeft'
    BY <1>1 DEF AttemptsLeft
  <1>4. Fates'
    BY <1>1, <1>2, FatesUntouched
  <1>5. ClaimCounts'
    <2>1. Decideds' = Decideds
      BY DEF Decideds
    <2> QED
      BY <1>1, <2>1, ClaimKept DEF Unsent, Closed, Silenced
  <1> QED
    BY <1>2, <1>3, <1>4, <1>5 DEF Accounted, Typed

LEMMA WorkerTyped ==
  ASSUME TypeInvariant
  PROVE  /\ worker \in Worker /\ worker.batch \in Seq(Events) /\ worker.body \in Body
         /\ worker.pc \in Busy => worker.msg \in Events
         /\ config \in Configs /\ config.dest \in Receivers /\ config.window \in Nat
  BY Constants, MoreConstants DEF TypeInvariant, Worker

LEMMA AccountedQuiet ==
  ASSUME Accounted, PassOver \/ Check \/ Send \/ Answer \/ WorkerError \/ Crash
                    \/ Tick \/ ReserveNotificationAttempt \/ \E s \in silences : RemoveSilence(s)
  PROVE  Accounted' /\ NoNewMessage
  <1>0. TypeInvariant
    BY DEF Accounted, Typed
  <1>1. UNCHANGED <<rows, decision, told>> /\ silences' \subseteq silences
    BY DEF PassOver, Check, Send, Answer, WorkerError, Crash, Tick, ReserveNotificationAttempt,
           RemoveSilence, tables, ghost
  <1>2. now' >= now /\ now' \in 1 .. MaxClock
    <2>1. CASE Tick
      BY <1>0, <2>1, MoreConstants DEF Tick, TypeInvariant
    <2>2. CASE ~Tick
      <3>1. now' = now
        BY <2>2 DEF PassOver, Check, Send, Answer, WorkerError, Crash, ReserveNotificationAttempt,
                    RemoveSilence
      <3> QED
        BY <1>0, <3>1 DEF TypeInvariant
    <2> QED
      BY <2>1, <2>2
  <1>3. /\ worker' \in Worker
        /\ worker'.pc \in Busy => /\ worker.pc \in Busy /\ worker'.msg = worker.msg
                                  /\ worker'.body = worker.body
    <2>1. CASE PassOver \/ WorkerError \/ Crash
      <3>1. worker' \in {At("idle", <<>>), At("down", <<>>)}
        BY <2>1 DEF PassOver, WorkerError, Crash
      <3>2. <<>> \in Seq(Events)
        OBVIOUS
      <3>3. PICK p \in {"idle", "down"} : worker' = At(p, <<>>)
        BY <3>1
      <3>4. At(p, <<>>) \in Worker /\ At(p, <<>>).pc \notin Busy
        BY <3>2, WorkerAt
      <3> QED
        BY <3>3, <3>4
    <2>2. CASE Check
      <3>1. PICK p \in {"release", "allowed", "ready"} : worker' = [worker EXCEPT !.pc = p]
        BY <2>2 DEF Check
      <3>2. worker.pc \in Busy
        BY <2>2 DEF Check, Busy
      <3> QED
        BY <1>0, <3>1, <3>2, WorkerTyped DEF Worker, Busy
    <2>3. CASE ReserveNotificationAttempt
      <3>1. PICK p \in {"release", "reserved"} : worker' = [worker EXCEPT !.pc = p]
        BY <2>3 DEF ReserveNotificationAttempt
      <3>2. worker.pc \in Busy
        BY <2>3 DEF ReserveNotificationAttempt, Busy
      <3> QED
        BY <1>0, <3>1, <3>2, WorkerTyped DEF Worker, Busy
    <2>4. CASE Send
      BY <1>0, <2>4, WorkerTyped DEF Send, Worker, Busy
    <2>5. CASE Answer
      <3>1. PICK r \in {"ok", "failed", "limited", "suspended", "permanent"} :
               worker' = [worker EXCEPT !.pc = "answered", !.result = r]
        BY <2>5 DEF Answer
      <3>2. worker.pc \in Busy
        BY <2>5 DEF Answer, Busy
      <3> QED
        BY <1>0, <3>1, <3>2, WorkerTyped DEF Worker, Busy
    <2>6. CASE Tick \/ \E s \in silences : RemoveSilence(s)
      BY <1>0, <2>6, WorkerTyped DEF Tick, RemoveSilence
    <2> QED
      BY <2>1, <2>2, <2>3, <2>4, <2>5, <2>6
  <1>4. cooldown' \in [Receivers -> Nat] /\ reserved' \in Nat
    <2>1. CASE ReserveNotificationAttempt
      <3>1. CASE UNCHANGED <<cooldown, reserved>>
        BY <1>0, <3>1 DEF TypeInvariant
      <3>2. CASE ~UNCHANGED <<cooldown, reserved>>
        <4>1. /\ cooldown' = Pause(rows[worker.msg].dest, now + Interval) /\ reserved' = now
              /\ worker.pc = "allowed"
          BY <2>1, <3>2 DEF ReserveNotificationAttempt, Paused
        <4>2. now + Interval \in Nat /\ rows[worker.msg].dest \in Receivers /\ now \in Nat
          BY <1>0, <4>1, Constants, WorkerTyped, RowTyped DEF Busy
        <4> QED
          BY <1>0, <4>1, <4>2 DEF TypeInvariant, Pause, Later
      <3> QED
        BY <3>1, <3>2
    <2>2. CASE ~ReserveNotificationAttempt
      BY <1>0, <2>2 DEF PassOver, Check, Send, Answer, WorkerError, Crash, Tick, RemoveSilence,
                        tables, ghost, TypeInvariant
    <2> QED
      BY <2>1, <2>2
  <1>5. lastPost' \in [Receivers -> Nat]
    BY <1>0, WorkerTyped
       DEF PassOver, Check, Send, Answer, WorkerError, Crash, Tick, ReserveNotificationAttempt,
           RemoveSilence, tables, ghost, TypeInvariant
  <1>6. config' = config /\ handled' = handled /\ counts' \in [restarts : Nat, ops : Nat]
    BY <1>0
       DEF PassOver, Check, Send, Answer, WorkerError, Crash, Tick, ReserveNotificationAttempt,
           RemoveSilence, Command, tables, ghost, TypeInvariant
  <1>7. TypeInvariant'
    BY <1>0, <1>1, <1>2, <1>3, <1>4, <1>5, <1>6 DEF TypeInvariant
  <1> QED
    BY <1>1, <1>2, <1>3, <1>7, RowsUntouched

-----------------------------------------------------------------------------
(* Steps that change messages *)

\* The invariant after a step that leaves decisions, silences and what was
\* told alone and marks nothing sent.
LEMMA RowsOnly ==
  ASSUME Accounted, TypeInvariant', AttemptsLeft', NoNewMessage,
         UNCHANGED <<decision, told>>, silences' = silences, now' = now,
         \A m \in Events : rows'[m].sent => rows[m].sent,
         ClaimCounts'
  PROVE  Accounted' /\ NoNewMessage
  <1>1. now' >= now
    BY DEF Accounted, Typed, TypeInvariant
  <1>2. Fates'
    BY <1>1, FatesUntouched DEF Accounted, Typed
  <1> QED
    BY <1>2 DEF Accounted, Typed

\* Expired messages are dropped; the batch lists due messages.
LEMMA AccountedFetch ==
  ASSUME Accounted, PendingDestination
  PROVE  Accounted' /\ NoNewMessage
  <1>0. TypeInvariant /\ AttemptsLeft /\ Fates
    BY DEF Accounted, Typed
  <1> DEFINE D == {m \in Events : Due(m)}
  <1>1. IsFiniteSet(D) /\ Cardinality(D) \in Nat
    <2>1. D \in SUBSET Decideds
      BY <1>0 DEF Fates, DecidedOnce, Due, Live, Unsent
    <2> QED
      BY <1>0, <2>1, FS_Subset, FS_CardinalityType DEF Fates, DecidedOnce
  <1>2. PICK s \in Orders(D) : worker' = At("pass", SubSeq(s, 1, Earlier(PassLimit, Len(s))))
    BY DEF PendingDestination
  <1>3. s \in Seq(Events) /\ Len(s) \in Nat
    <2>1. s \in [1 .. Cardinality(D) -> D]
      BY <1>2 DEF Orders
    <2>2. s \in [1 .. Cardinality(D) -> Events]
      BY <2>1
    <2> HIDE DEF D
    <2> QED
      BY <1>1, <2>2
  <1>4. SubSeq(s, 1, Earlier(PassLimit, Len(s))) \in Seq(Events)
    <2> DEFINE n == Earlier(PassLimit, Len(s))
    <2>1. n \in Nat /\ n <= Len(s)
      BY <1>3, MoreConstants DEF Earlier
    <2> HIDE DEF n
    <2>2. \A i \in 1 .. n : s[i] \in Events
      BY <1>3, <2>1
    <2>3. SubSeq(s, 1, n) \in Seq(Events)
      BY <2>1, <2>2, SubSeqProperties
    <2> QED
      BY <2>3 DEF n
  <1>5. worker' \in Worker /\ worker'.pc \notin Busy
    BY <1>2, <1>4, WorkerAt
  <1>6. \A m \in Events : rows'[m] = NoRow \/ rows'[m] = rows[m]
    BY DEF PendingDestination, SweptRows
  <1>7. rows' \in [Events -> Row] /\ cooldown' \in [Receivers -> Nat]
    BY <1>0, EmptyValues DEF PendingDestination, SweptRows, SweptCooldown, TypeInvariant
  <1>8. UNCHANGED <<now, decision, silences, config, counts, told, handled, reserved, lastPost>>
    BY DEF PendingDestination, ghost
  <1>9. TypeInvariant'
    BY <1>0, <1>5, <1>7, <1>8 DEF TypeInvariant
  <1>10. AttemptsLeft'
    BY <1>0, <1>5, <1>6, EmptyValues, MoreConstants DEF AttemptsLeft
  <1>11. NoNewMessage
    BY <1>0, <1>6, RowTyped DEF NoNewMessage, SameMessage
  <1>12. ClaimCounts'
    BY <1>5 DEF ClaimCounts
  <1>13. \A m \in Events : rows'[m].sent => rows[m].sent
    BY <1>6 DEF NoRow
  <1> QED
    BY <1>8, <1>9, <1>10, <1>11, <1>12, <1>13, RowsOnly

\* The claim takes a waiting message and a body that counts all its events,
\* and its lease keeps further events out.
LEMMA AccountedClaim ==
  ASSUME Accounted, ClaimNotification
  PROVE  Accounted' /\ NoNewMessage
  <1>0. TypeInvariant /\ AttemptsLeft /\ Fates
    BY DEF Accounted, Typed
  <1>1. PICK m \in Events, b \in Seq(Events) : m = Head(worker.batch) /\ b = Tail(worker.batch)
    <2>1. worker.batch \in Seq(Events) /\ worker.batch # <<>>
      BY <1>0, WorkerTyped DEF ClaimNotification
    <2> QED
      BY <2>1, HeadTailProperties
  <1>2. UNCHANGED <<now, decision, silences, cooldown, config, counts, told, reserved, lastPost>>
    BY DEF ClaimNotification
  <1>3. CASE Due(m)
    <2>1. /\ rows' = [rows EXCEPT ![m].lease = now + Lease]
          /\ handled' = handled \cup {m}
          /\ worker' = [At("claimed", b) EXCEPT !.msg = m, !.body = rows[m].body]
      BY <1>1, <1>3 DEF ClaimNotification
    <2>2. now + Lease \in Nat /\ now + Lease > 0 /\ rows[m] \in Row /\ rows[m].body \in Body
      BY <1>0, <1>1, RowTyped, MoreConstants
    <2>3. /\ worker' \in Worker /\ worker'.pc = "claimed" /\ worker'.msg = m
          /\ worker'.body = rows[m].body
      BY <1>1, <2>1, <2>2, EmptyValues DEF At, Worker, Busy
    <2>4. /\ rows'[m] = [rows[m] EXCEPT !.lease = now + Lease]
          /\ \A x \in Events \ {m} : rows'[x] = rows[x]
          /\ rows' \in [Events -> Row]
      BY <1>0, <1>1, <2>1, <2>2, RowEdits DEF TypeInvariant
    <2>5. TypeInvariant'
      BY <1>0, <1>1, <1>2, <2>1, <2>3, <2>4 DEF TypeInvariant
    <2>6. ~rows[m].quarantined /\ ~rows[m].isolated /\ ~rows[m].sent /\ Waiting(m)
      BY <1>3 DEF Due, Live, Waiting, Unsent
    <2>6a. /\ rows'[m].present = rows[m].present /\ rows'[m].expires = rows[m].expires
           /\ rows'[m].dest = rows[m].dest /\ rows'[m].created = rows[m].created
           /\ rows'[m].sent = rows[m].sent /\ rows'[m].suppressed = rows[m].suppressed
           /\ rows'[m].body = rows[m].body /\ rows'[m].isolated = rows[m].isolated
           /\ rows'[m].attempts = rows[m].attempts /\ rows'[m].quarantined = rows[m].quarantined
           /\ rows'[m].lease = now + Lease
      BY <2>2, <2>4 DEF Row
    <2>7. AttemptsLeft'
      BY <1>0, <1>1, <2>3, <2>4, <2>6, <2>6a DEF AttemptsLeft
    <2>8. NoNewMessage
      BY <1>0, <1>1, <2>4, <2>6, <2>6a, RowTyped DEF NoNewMessage, SameMessage
    <2>9. ClaimCounts'
      <3>1. rows[m].body.count = Cardinality(Joined(m))
        BY <1>0, <1>1, <2>6 DEF Fates, BodiesCount
      <3>2. Joined(m)' = Joined(m)
        BY <1>2 DEF Joined
      <3>3. Closed(m)'
        BY <2>2, <2>6a DEF Closed
      <3>4. m \in Decideds'
        BY <1>0, <1>1, <1>2, <2>6 DEF Decideds, Fates, DecidedOnce, Waiting, Unsent
      <3> QED
        BY <2>3, <3>1, <3>2, <3>3, <3>4 DEF ClaimCounts
    <2>10. \A x \in Events : rows'[x].sent => rows[x].sent
      BY <2>4, <2>6a
    <2> QED
      BY <1>2, <2>5, <2>7, <2>8, <2>9, <2>10, RowsOnly
  <1>4. CASE ~Due(m)
    <2>1. worker' = At("pass", b) /\ UNCHANGED <<rows, handled>>
      BY <1>1, <1>4 DEF ClaimNotification
    <2>2. worker' \in Worker /\ worker'.pc \notin Busy
      BY <1>1, <2>1, WorkerAt
    <2>3. TypeInvariant'
      BY <1>0, <1>2, <2>1, <2>2 DEF TypeInvariant
    <2>4. now' >= now /\ silences' \subseteq silences
      BY <1>0, <1>2 DEF TypeInvariant
    <2> QED
      BY <1>2, <2>1, <2>2, <2>3, <2>4, RowsUntouched
  <1> QED
    BY <1>3, <1>4

\* The row the worker was busy with after an attempt that did not succeed.
LEMMA TriedRow ==
  ASSUME Typed, NEW m \in Events, rows[m].attempts < MaxAttempts, NEW next \in Nat
  PROVE  /\ Tried(m, next) \in [Events -> Row]
         /\ \A x \in Events : /\ SameMessage(rows[x], Tried(m, next)[x])
                              /\ Tried(m, next)[x].sent = rows[x].sent
                              /\ ~Tried(m, next)[x].quarantined =>
                                    Tried(m, next)[x].attempts < MaxAttempts
  <1>0. TypeInvariant /\ AttemptsLeft
    BY DEF Typed
  <1>1. CASE Unsent(m)
    <2> DEFINE q == rows[m].quarantined \/ rows[m].attempts + 1 >= MaxAttempts
               t == [rows[m] EXCEPT !.lease = 0, !.attempts = rows[m].attempts + 1, !.next = next,
                                    !.quarantined = q]
    <2>1. Tried(m, next) = [rows EXCEPT ![m] = t]
      BY <1>1 DEF Tried
    <2>2. q \in BOOLEAN /\ rows[m].attempts + 1 \in 0 .. MaxAttempts
          /\ (~q => rows[m].attempts + 1 < MaxAttempts)
      BY <1>0, RowTyped, MoreConstants
    <2> HIDE DEF q
    <2>2a. rows[m] \in Row /\ t \in Row
      BY <1>0, <2>2, RowTyped, RowEdits
    <2>3. /\ t \in Row /\ t.present = rows[m].present /\ t.expires = rows[m].expires
          /\ t.dest = rows[m].dest /\ t.created = rows[m].created
          /\ t.sent = rows[m].sent /\ t.suppressed = rows[m].suppressed /\ t.body = rows[m].body
          /\ t.isolated = rows[m].isolated /\ t.lease = 0
          /\ t.attempts = rows[m].attempts + 1 /\ t.quarantined = q
      BY <2>2a DEF Row
    <2> HIDE DEF t
    <2>4. Tried(m, next)[m] = t /\ \A x \in Events \ {m} : Tried(m, next)[x] = rows[x]
      BY <1>0, <2>1 DEF TypeInvariant
    <2>5. Tried(m, next) \in [Events -> Row]
      BY <1>0, <2>1, <2>3 DEF TypeInvariant
    <2> QED
      BY <1>0, <2>2, <2>3, <2>4, <2>5, RowTyped DEF SameMessage, AttemptsLeft
  <1>2. CASE ~Unsent(m)
    <2>1. Tried(m, next) = rows
      BY <1>2 DEF Tried
    <2> QED
      BY <1>0, <2>1, RowTyped DEF SameMessage, AttemptsLeft, TypeInvariant
  <1> QED
    BY <1>1, <1>2

\* Every answer leaves the worker free; only a success marks the message sent,
\* with the body that counted all its events.
LEMMA AccountedRecord ==
  ASSUME Accounted, Record
  PROVE  Accounted' /\ NoNewMessage
  <1>0. TypeInvariant /\ AttemptsLeft /\ Fates /\ ClaimCounts /\ Typed /\ worker.pc \in Busy
    BY DEF Accounted, Typed, Record, Busy
  <1>1. PICK m \in Events : m = worker.msg
    BY <1>0, WorkerTyped
  <1>2. /\ rows[m].attempts < MaxAttempts /\ rows[m].attempts \in Nat /\ now \in Nat
        /\ worker.batch \in Seq(Events) /\ <<>> \in Seq(Events)
        /\ rows[m] \in Row /\ config.dest \in Receivers /\ rows[m].dest \in Receivers
    BY <1>0, <1>1, WorkerTyped, RowTyped DEF AttemptsLeft
  <1>3. UNCHANGED <<now, decision, silences, config, counts, handled, reserved, lastPost>>
    BY DEF Record
  <1>4. worker' \in Worker /\ worker'.pc \notin Busy
    <2>1. worker' \in {At("pass", worker.batch), At("pass", <<>>), At("idle", <<>>)}
      BY DEF Record, MarkSentWithCooldown, MarkFailed, MarkQuarantined, MarkRateLimited
    <2>2. CASE worker' = At("pass", worker.batch)
      BY <1>2, <2>2, WorkerAt
    <2>3. CASE worker' = At("pass", <<>>)
      BY <1>2, <2>3, WorkerAt
    <2>4. CASE worker' = At("idle", <<>>)
      BY <1>2, <2>4, WorkerAt
    <2> QED
      BY <2>1, <2>2, <2>3, <2>4
  <1>5. ClaimCounts'
    BY <1>4 DEF ClaimCounts
  <1>6. ASSUME rows' \in [Events -> Row], NoNewMessage, cooldown' \in [Receivers -> Nat],
               UNCHANGED told,
               \A x \in Events : /\ rows'[x].sent = rows[x].sent
                                 /\ ~rows'[x].quarantined => rows'[x].attempts < MaxAttempts
        PROVE  Accounted' /\ NoNewMessage
    <2>1. TypeInvariant'
      BY <1>0, <1>3, <1>4, <1>6 DEF TypeInvariant
    <2>2. AttemptsLeft'
      BY <1>4, <1>6 DEF AttemptsLeft
    <2> QED
      BY <1>3, <1>5, <1>6, <2>1, <2>2, RowsOnly
  <1>7. CASE MarkSentWithCooldown(m)
    <2>1. CASE Unsent(m)
      <3>1. /\ rows' = [rows EXCEPT ![m] = [rows[m] EXCEPT !.sent = TRUE, !.lease = 0]]
            /\ cooldown' = IF Interval > 0 THEN Pause(rows[m].dest, now + Interval) ELSE cooldown
            /\ told' = [told EXCEPT ![m] = worker.body]
        BY <1>7, <2>1 DEF MarkSentWithCooldown
      <3>2. cooldown' \in [Receivers -> Nat] /\ told' \in [Events -> Body]
        <4>1. /\ cooldown \in [Receivers -> Nat] /\ told \in [Events -> Body]
              /\ now \in Nat
          BY <1>0, MoreConstants DEF TypeInvariant
        <4>2. worker.body \in Body /\ rows[m].dest \in Receivers
          BY <1>0, <1>2, WorkerTyped, RowTyped
        <4>3. Later(cooldown[rows[m].dest], now + Interval) \in Nat
          BY <4>1, <4>2, Constants DEF Later
        <4>4. Pause(rows[m].dest, now + Interval) \in [Receivers -> Nat]
          BY <4>1, <4>3 DEF Pause
        <4>5. cooldown' \in [Receivers -> Nat]
          BY <3>1, <4>1, <4>4
        <4>6. told' \in [Events -> Body]
          BY <3>1, <4>1, <4>2
        <4> QED
          BY <4>5, <4>6
      <3>3. /\ rows'[m] = [rows[m] EXCEPT !.sent = TRUE, !.lease = 0]
            /\ \A x \in Events \ {m} : rows'[x] = rows[x] /\ told'[x] = told[x]
            /\ told'[m] = worker.body
            /\ rows' \in [Events -> Row]
        BY <1>0, <1>2, <3>1, RowEdits DEF TypeInvariant
      <3>4. /\ rows'[m].present = rows[m].present /\ rows'[m].expires = rows[m].expires
            /\ rows'[m].dest = rows[m].dest /\ rows'[m].created = rows[m].created
            /\ rows'[m].suppressed = rows[m].suppressed /\ rows'[m].sent
            /\ rows'[m].body = rows[m].body /\ rows'[m].isolated = rows[m].isolated
            /\ rows'[m].attempts = rows[m].attempts /\ rows'[m].lease = 0
        BY <1>2, <3>3 DEF Row
      <3>5. TypeInvariant'
        BY <1>0, <1>3, <1>4, <3>2, <3>3 DEF TypeInvariant
      <3>6. AttemptsLeft'
        BY <1>0, <1>2, <1>4, <3>3, <3>4 DEF AttemptsLeft
      <3>7. NoNewMessage
        BY <1>0, <3>3, <3>4, RowTyped DEF NoNewMessage, SameMessage
      <3>8. worker.body.count = Cardinality(Joined(m))
        BY <1>0, <1>1, <2>1 DEF ClaimCounts
      <3>9. \A x \in Events : rows'[x].present /\ rows'[x].sent =>
               \/ rows[x].sent /\ told'[x] = told[x]
               \/ told'[x].count = Cardinality(Joined(x))
        BY <3>3, <3>8
      <3>10. now' >= now /\ \A s \in silences' : s \in silences
        BY <1>2, <1>3
      <3>11. Fates'
        BY <1>0, <1>3, <3>5, <3>7, <3>9, <3>10, FatesKept
      <3> QED
        BY <1>5, <3>5, <3>6, <3>7, <3>11 DEF Accounted, Typed
    <2>2. CASE ~Unsent(m)
      <3>1. UNCHANGED <<rows, cooldown, told>>
        BY <1>7, <2>2 DEF MarkSentWithCooldown
      <3>2. NoNewMessage
        BY <1>0, <3>1, RowTyped DEF NoNewMessage, SameMessage
      <3> QED
        BY <1>0, <1>6, <3>1, <3>2 DEF TypeInvariant, AttemptsLeft
    <2> QED
      BY <2>1, <2>2
  <1>8. CASE MarkFailed(m)
    <2>1. PICK d \in RetryDelays : rows' = Tried(m, now + Later(d, Interval))
      BY <1>8 DEF MarkFailed
    <2>2. now + Later(d, Interval) \in Nat
      BY <1>2, Constants, MoreConstants DEF Later
    <2>3. UNCHANGED <<cooldown, told>>
      BY <1>8 DEF MarkFailed
    <2> QED
      BY <1>0, <1>2, <1>6, <2>1, <2>2, <2>3, TriedRow DEF NoNewMessage, TypeInvariant
  <1>9. CASE MarkRateLimited(m)
    <2>1. PICK until \in IF worker.result = "suspended" THEN {Forever} ELSE {now + d : d \in Holds} :
             rows' = Tried(m, Later(rows[m].next, until)) /\ cooldown' = Pause(config.dest, until)
      BY <1>9 DEF MarkRateLimited
    <2>2. until \in Nat
      BY <1>2, <2>1, Constants
    <2>3. Later(rows[m].next, until) \in Nat
      BY <1>0, <2>2, RowTyped DEF Later
    <2>4. cooldown' \in [Receivers -> Nat] /\ UNCHANGED told
      BY <1>0, <1>2, <1>9, <2>1, <2>2 DEF MarkRateLimited, Pause, Later, TypeInvariant
    <2> QED
      BY <1>0, <1>2, <1>6, <2>1, <2>3, <2>4, TriedRow DEF NoNewMessage
  <1>10. CASE MarkQuarantined(m)
    <2>0. UNCHANGED <<cooldown, told>>
      BY <1>10 DEF MarkQuarantined
    <2>1. CASE Unsent(m) /\ rows[m].expires > now
      <3> DEFINE t == [rows[m] EXCEPT !.lease = 0, !.attempts = rows[m].attempts + 1,
                                      !.quarantined = TRUE]
      <3>1. rows' = [rows EXCEPT ![m] = t]
        BY <1>10, <2>1 DEF MarkQuarantined
      <3>2. rows[m].attempts + 1 \in 0 .. MaxAttempts
        BY <1>2, MoreConstants
      <3>2a. t \in Row
        BY <1>2, <3>2, RowEdits
      <3>3. /\ t \in Row /\ t.present = rows[m].present /\ t.expires = rows[m].expires
            /\ t.dest = rows[m].dest /\ t.created = rows[m].created
            /\ t.sent = rows[m].sent /\ t.suppressed = rows[m].suppressed /\ t.body = rows[m].body
            /\ t.isolated = rows[m].isolated /\ t.lease = 0 /\ t.quarantined
        BY <1>2, <3>2a DEF Row
      <3> HIDE DEF t
      <3>4. /\ rows'[m] = t /\ \A x \in Events \ {m} : rows'[x] = rows[x]
            /\ rows' \in [Events -> Row]
        BY <1>0, <3>1, <3>3 DEF TypeInvariant
      <3>5. NoNewMessage
        BY <1>0, <3>3, <3>4, RowTyped DEF NoNewMessage, SameMessage
      <3>6. \A x \in Events : /\ rows'[x].sent = rows[x].sent
                              /\ ~rows'[x].quarantined => rows'[x].attempts < MaxAttempts
        BY <1>0, <3>3, <3>4 DEF AttemptsLeft
      <3> QED
        BY <1>0, <1>6, <2>0, <3>4, <3>5, <3>6 DEF TypeInvariant
    <2>2. CASE ~(Unsent(m) /\ rows[m].expires > now)
      <3>1. rows' = rows
        BY <1>10, <2>2 DEF MarkQuarantined
      <3>2. NoNewMessage
        BY <1>0, <3>1, RowTyped DEF NoNewMessage, SameMessage
      <3> QED
        BY <1>0, <1>6, <2>0, <3>1, <3>2 DEF TypeInvariant, AttemptsLeft
    <2> QED
      BY <2>1, <2>2
  <1>11. MarkSentWithCooldown(m) \/ MarkFailed(m) \/ MarkQuarantined(m) \/ MarkRateLimited(m)
    BY <1>1 DEF Record
  <1> QED
    BY <1>7, <1>8, <1>9, <1>10, <1>11

\* A claim given back.
LEMMA AccountedRelease ==
  ASSUME Accounted, ReleaseNotificationClaim \/ StopWhileSending
  PROVE  Accounted' /\ NoNewMessage
  <1>0. TypeInvariant /\ AttemptsLeft /\ worker.pc \in Busy
    BY DEF Accounted, Typed, ReleaseNotificationClaim, StopWhileSending, Busy
  <1>1. PICK m \in Events : m = worker.msg
    BY <1>0, WorkerTyped
  <1>2. /\ rows' = Released(m) /\ counts' \in [restarts : Nat, ops : Nat]
        /\ UNCHANGED <<now, decision, silences, cooldown, config, told, handled, reserved, lastPost>>
    BY <1>0, <1>1 DEF ReleaseNotificationClaim, StopWhileSending, ghost, TypeInvariant
  <1>3. worker' \in Worker /\ worker'.pc \notin Busy
    <2>1. worker.batch \in Seq(Events) /\ <<>> \in Seq(Events)
      BY <1>0, WorkerTyped
    <2>2. CASE worker' = At("pass", worker.batch)
      BY <2>1, <2>2, WorkerAt
    <2>3. CASE worker' = At("down", <<>>)
      BY <2>1, <2>3, WorkerAt
    <2> QED
      BY <2>2, <2>3 DEF ReleaseNotificationClaim, StopWhileSending
  <1>4. /\ rows' \in [Events -> Row]
        /\ \A x \in Events : rows'[x] = rows[x] \/ rows'[x] = [rows[x] EXCEPT !.lease = 0]
    BY <1>0, <1>2, RowTyped, RowEdits DEF Released, TypeInvariant
  <1>5. \A x \in Events : /\ rows'[x].present = rows[x].present /\ rows'[x].expires = rows[x].expires
                          /\ rows'[x].dest = rows[x].dest /\ rows'[x].created = rows[x].created
                          /\ rows'[x].sent = rows[x].sent /\ rows'[x].suppressed = rows[x].suppressed
                          /\ rows'[x].body = rows[x].body /\ rows'[x].isolated = rows[x].isolated
                          /\ rows'[x].attempts = rows[x].attempts
                          /\ rows'[x].quarantined = rows[x].quarantined
                          /\ rows'[x].lease \in {rows[x].lease, 0}
    BY <1>0, <1>4, RowTyped DEF Row
  <1>6. TypeInvariant'
    BY <1>0, <1>2, <1>3, <1>4 DEF TypeInvariant
  <1>7. AttemptsLeft'
    BY <1>0, <1>3, <1>5 DEF AttemptsLeft
  <1>8. NoNewMessage
    BY <1>0, <1>5, RowTyped DEF NoNewMessage, SameMessage
  <1>9. ClaimCounts'
    BY <1>3 DEF ClaimCounts
  <1> QED
    BY <1>2, <1>5, <1>6, <1>7, <1>8, <1>9, RowsOnly

\* Commands act beside the worker: they may take attempts back but open no
\* message to further events.
LEMMA AccountedCommand ==
  ASSUME Accounted, TypeInvariant', NoNewMessage,
         UNCHANGED <<now, decision, silences, told, worker>>,
         \A x \in Events : /\ rows'[x].sent = rows[x].sent
                           /\ rows'[x].attempts \in {rows[x].attempts, 0}
                           /\ ~rows'[x].quarantined => rows'[x].attempts < MaxAttempts
                           /\ Closed(x) => Closed(x)'
  PROVE  Accounted' /\ NoNewMessage
  <1>0. TypeInvariant /\ AttemptsLeft /\ ClaimCounts
    BY DEF Accounted, Typed
  <1>1. AttemptsLeft'
    BY <1>0, WorkerTyped, MoreConstants DEF AttemptsLeft
  <1>2. ClaimCounts'
    <2>1. worker'.pc \in Busy =>
            /\ worker.pc \in Busy /\ worker'.msg = worker.msg /\ worker'.body = worker.body
            /\ \A m : m = worker.msg /\ Unsent(m)' => Unsent(m) /\ (Closed(m) => Closed(m)')
      BY <1>0, WorkerTyped, WaitingBefore
    <2>2. (\A e \in Events : decision'[e].row = decision[e].row) /\ Decideds' = Decideds
      BY DEF Decideds
    <2> QED
      BY <1>0, <2>1, <2>2, ClaimKept
  <1> QED
    BY <1>1, <1>2, RowsOnly

LEMMA AccountedRetry ==
  ASSUME Accounted, NEW m \in Events, RetryNotification(m)
  PROVE  Accounted' /\ NoNewMessage
  <1>0. TypeInvariant /\ AttemptsLeft
    BY DEF Accounted, Typed
  <1> DEFINE t == [rows[m] EXCEPT !.attempts = 0, !.quarantined = FALSE, !.lease = 0,
                                  !.mergeUntil = 0, !.next = now]
  <1>1. /\ rows' = [rows EXCEPT ![m] = t] /\ handled' = handled \cup {m}
        /\ UNCHANGED <<now, decision, silences, cooldown, config, worker, told, reserved, lastPost>>
        /\ counts' = [counts EXCEPT !.ops = @ + 1]
        /\ ~rows[m].isolated /\ ~rows[m].sent
    BY DEF RetryNotification, Command, Unsent
  <1>2. rows[m] \in Row /\ t \in Row
    BY <1>0, RowTyped, RowEdits
  <1>3. /\ t.present = rows[m].present /\ t.expires = rows[m].expires
        /\ t.dest = rows[m].dest /\ t.created = rows[m].created
        /\ t.sent = rows[m].sent /\ t.suppressed = rows[m].suppressed /\ t.body = rows[m].body
        /\ t.isolated = rows[m].isolated /\ t.attempts = 0 /\ t.mergeUntil = 0
    BY <1>2 DEF Row
  <1> HIDE DEF t
  <1>4. rows'[m] = t /\ (\A x \in Events \ {m} : rows'[x] = rows[x]) /\ rows' \in [Events -> Row]
    BY <1>0, <1>1, <1>2 DEF TypeInvariant
  <1>5. TypeInvariant'
    BY <1>0, <1>1, <1>4 DEF TypeInvariant
  <1>6. NoNewMessage
    BY <1>0, <1>1, <1>3, <1>4, RowTyped DEF NoNewMessage, SameMessage
  <1>7. \A x \in Events : /\ rows'[x].sent = rows[x].sent
                          /\ rows'[x].attempts \in {rows[x].attempts, 0}
                          /\ ~rows'[x].quarantined => rows'[x].attempts < MaxAttempts
                          /\ Closed(x) => Closed(x)'
    BY <1>0, <1>3, <1>4, MoreConstants DEF AttemptsLeft, Closed, Silenced
  <1> QED
    BY <1>1, <1>5, <1>6, <1>7, AccountedCommand

LEMMA AccountedQuarantine ==
  ASSUME Accounted, NEW m \in Events, QuarantineNotification(m)
  PROVE  Accounted' /\ NoNewMessage
  <1>0. TypeInvariant /\ AttemptsLeft
    BY DEF Accounted, Typed
  <1> DEFINE t == [rows[m] EXCEPT !.quarantined = TRUE]
  <1>1. /\ rows' = [rows EXCEPT ![m] = t]
        /\ UNCHANGED <<now, decision, silences, cooldown, config, worker, told, handled, reserved,
                       lastPost>>
        /\ counts' = [counts EXCEPT !.ops = @ + 1]
    BY DEF QuarantineNotification, Command, ghost
  <1>2. rows[m] \in Row /\ t \in Row
    BY <1>0, RowTyped, RowEdits
  <1>3. /\ t.present = rows[m].present /\ t.expires = rows[m].expires
        /\ t.dest = rows[m].dest /\ t.created = rows[m].created
        /\ t.sent = rows[m].sent /\ t.suppressed = rows[m].suppressed /\ t.body = rows[m].body
        /\ t.isolated = rows[m].isolated /\ t.attempts = rows[m].attempts /\ t.quarantined
        /\ t.mergeUntil = rows[m].mergeUntil /\ t.lease = rows[m].lease
    BY <1>2 DEF Row
  <1> HIDE DEF t
  <1>4. rows'[m] = t /\ (\A x \in Events \ {m} : rows'[x] = rows[x]) /\ rows' \in [Events -> Row]
    BY <1>0, <1>1, <1>2 DEF TypeInvariant
  <1>5. TypeInvariant'
    BY <1>0, <1>1, <1>4 DEF TypeInvariant
  <1>6. NoNewMessage
    BY <1>0, <1>3, <1>4, RowTyped DEF NoNewMessage, SameMessage
  <1>7. \A x \in Events : /\ rows'[x].sent = rows[x].sent
                          /\ rows'[x].attempts \in {rows[x].attempts, 0}
                          /\ ~rows'[x].quarantined => rows'[x].attempts < MaxAttempts
                          /\ Closed(x) => Closed(x)'
    BY <1>0, <1>3, <1>4 DEF AttemptsLeft, Closed, Silenced
  <1> QED
    BY <1>1, <1>5, <1>6, <1>7, AccountedCommand

LEMMA AccountedResume ==
  ASSUME Accounted, NEW d \in Receivers, ResumeDestination(d)
  PROVE  Accounted' /\ NoNewMessage
  <1>0. TypeInvariant /\ AttemptsLeft
    BY DEF Accounted, Typed
  <1>1. /\ cooldown' = [cooldown EXCEPT ![d] = 0] /\ lastPost' = [lastPost EXCEPT ![d] = 0]
        /\ reserved' \in {0, reserved}
        /\ UNCHANGED <<now, decision, silences, config, worker, told, handled>>
        /\ counts' = [counts EXCEPT !.ops = @ + 1]
    BY DEF ResumeDestination, Command
  <1>2. \A x \in Events : \/ rows'[x] = rows[x]
                          \/ rows'[x] = [rows[x] EXCEPT !.next = Later(now, rows[x].mergeUntil)]
    BY DEF ResumeDestination
  <1>3. \A x \in Events : Later(now, rows[x].mergeUntil) \in Nat
    BY <1>0, RowTyped DEF Later
  <1>4. ASSUME NEW x \in Events PROVE rows[x] \in Row /\ rows'[x] \in Row
    <2>1. rows[x] \in Row
      BY <1>0, RowTyped
    <2>2. [rows[x] EXCEPT !.next = Later(now, rows[x].mergeUntil)] \in Row
      BY <1>3, <2>1, RowEdits
    <2> QED
      BY <1>2, <2>1, <2>2
  <1>5. \A x \in Events : /\ rows'[x].present = rows[x].present /\ rows'[x].expires = rows[x].expires
                          /\ rows'[x].dest = rows[x].dest /\ rows'[x].created = rows[x].created
                          /\ rows'[x].sent = rows[x].sent /\ rows'[x].suppressed = rows[x].suppressed
                          /\ rows'[x].body = rows[x].body /\ rows'[x].isolated = rows[x].isolated
                          /\ rows'[x].attempts = rows[x].attempts
                          /\ rows'[x].quarantined = rows[x].quarantined
                          /\ rows'[x].lease = rows[x].lease
                          /\ rows'[x].mergeUntil = rows[x].mergeUntil
    BY <1>2, <1>4 DEF Row
  <1>6. rows' \in [Events -> Row]
    BY <1>4 DEF ResumeDestination
  <1>7. TypeInvariant'
    BY <1>0, <1>1, <1>6 DEF TypeInvariant
  <1>8. NoNewMessage
    BY <1>0, <1>5, RowTyped DEF NoNewMessage, SameMessage
  <1>9. \A x \in Events : /\ rows'[x].sent = rows[x].sent
                          /\ rows'[x].attempts \in {rows[x].attempts, 0}
                          /\ ~rows'[x].quarantined => rows'[x].attempts < MaxAttempts
                          /\ Closed(x) => Closed(x)'
    BY <1>0, <1>5 DEF AttemptsLeft, Closed, Silenced
  <1> QED
    BY <1>1, <1>7, <1>8, <1>9, AccountedCommand

LEMMA AccountedDiscard ==
  ASSUME Accounted, DiscardIsolatedNotifications
  PROVE  Accounted' /\ NoNewMessage
  <1>0. TypeInvariant /\ AttemptsLeft
    BY DEF Accounted, Typed
  <1>1. /\ UNCHANGED <<now, decision, silences, cooldown, config, worker, told, handled, reserved,
                       lastPost>>
        /\ counts' = [counts EXCEPT !.ops = @ + 1]
    BY DEF DiscardIsolatedNotifications, Command, ghost
  <1>2. \A x \in Events : \/ rows'[x] = rows[x]
                          \/ rows'[x] = [rows[x] EXCEPT !.suppressed = now, !.body = NoBody]
    BY DEF DiscardIsolatedNotifications
  <1>3. ASSUME NEW x \in Events PROVE rows[x] \in Row /\ rows'[x] \in Row /\ now \in Nat /\ now > 0
    <2>1. rows[x] \in Row /\ now \in Nat /\ now > 0
      BY <1>0, RowTyped
    <2>2. [rows[x] EXCEPT !.suppressed = now, !.body = NoBody] \in Row
      BY <2>1, RowEdits
    <2> QED
      BY <1>2, <2>1, <2>2
  <1>4. \A x \in Events : /\ rows'[x].present = rows[x].present /\ rows'[x].expires = rows[x].expires
                          /\ rows'[x].dest = rows[x].dest /\ rows'[x].created = rows[x].created
                          /\ rows'[x].sent = rows[x].sent /\ rows'[x].suppressed \in {rows[x].suppressed, now}
                          /\ rows'[x].suppressed = now \/ rows'[x].body = rows[x].body
                          /\ rows'[x].isolated = rows[x].isolated
                          /\ rows'[x].attempts = rows[x].attempts
                          /\ rows'[x].quarantined = rows[x].quarantined
                          /\ rows'[x].lease = rows[x].lease
                          /\ rows'[x].mergeUntil = rows[x].mergeUntil
    BY <1>2, <1>3 DEF Row
  <1>5. rows' \in [Events -> Row]
    BY <1>3 DEF DiscardIsolatedNotifications
  <1>6. TypeInvariant'
    BY <1>0, <1>1, <1>5 DEF TypeInvariant
  <1>7. NoNewMessage
    BY <1>0, <1>3, <1>4, RowTyped DEF NoNewMessage, SameMessage
  <1>8. \A x \in Events : /\ rows'[x].sent = rows[x].sent
                          /\ rows'[x].attempts \in {rows[x].attempts, 0}
                          /\ ~rows'[x].quarantined => rows'[x].attempts < MaxAttempts
                          /\ Closed(x) => Closed(x)'
    BY <1>0, <1>3, <1>4, RowTyped DEF AttemptsLeft, Closed, Silenced
  <1> QED
    BY <1>1, <1>6, <1>7, <1>8, AccountedCommand

\* A new configuration isolates; the worker has no claim then.
LEMMA AccountedStart ==
  ASSUME Accounted, NEW c \in Configs, Start(c)
  PROVE  Accounted' /\ NoNewMessage
  <1>0. TypeInvariant /\ AttemptsLeft
    BY DEF Accounted, Typed
  <1>1. /\ config' = c /\ worker' = At("idle", <<>>) /\ rows' = Retargeted(c)
        /\ UNCHANGED <<now, decision, silences, cooldown, counts, told, handled, reserved, lastPost>>
    BY DEF Start, ghost
  <1>2. worker' \in Worker /\ worker'.pc \notin Busy
    <2>1. <<>> \in Seq(Events)
      OBVIOUS
    <2> QED
      BY <1>1, <2>1, WorkerAt
  <1>3. \A x \in Events : \/ rows'[x] = rows[x]
                          \/ rows'[x] = [rows[x] EXCEPT !.isolated = TRUE, !.lease = 0]
    BY <1>1 DEF Retargeted
  <1>4. ASSUME NEW x \in Events PROVE rows[x] \in Row /\ rows'[x] \in Row
    BY <1>0, <1>3, RowTyped, RowEdits
  <1>5. \A x \in Events : /\ rows'[x].present = rows[x].present /\ rows'[x].expires = rows[x].expires
                          /\ rows'[x].dest = rows[x].dest /\ rows'[x].created = rows[x].created
                          /\ rows'[x].sent = rows[x].sent /\ rows'[x].suppressed = rows[x].suppressed
                          /\ rows'[x].body = rows[x].body
                          /\ rows[x].isolated => rows'[x].isolated
                          /\ rows'[x].attempts = rows[x].attempts
                          /\ rows'[x].quarantined = rows[x].quarantined
                          /\ rows'[x].lease \in {rows[x].lease, 0}
    <2> SUFFICES ASSUME NEW x \in Events
                 PROVE  /\ rows'[x].present = rows[x].present /\ rows'[x].expires = rows[x].expires
                        /\ rows'[x].dest = rows[x].dest /\ rows'[x].created = rows[x].created
                        /\ rows'[x].sent = rows[x].sent /\ rows'[x].suppressed = rows[x].suppressed
                        /\ rows'[x].body = rows[x].body
                        /\ rows[x].isolated => rows'[x].isolated
                        /\ rows'[x].attempts = rows[x].attempts
                        /\ rows'[x].quarantined = rows[x].quarantined
                        /\ rows'[x].lease \in {rows[x].lease, 0}
      OBVIOUS
    <2>1. CASE rows'[x] = rows[x]
      BY <2>1
    <2>2. CASE rows'[x] = [rows[x] EXCEPT !.isolated = TRUE, !.lease = 0]
      BY <1>4, <2>2 DEF Row
    <2> QED
      BY <1>3, <2>1, <2>2
  <1>6. rows' \in [Events -> Row]
    BY <1>1, <1>4 DEF Retargeted
  <1>7. TypeInvariant'
    BY <1>0, <1>1, <1>2, <1>6 DEF TypeInvariant
  <1>8. AttemptsLeft'
    BY <1>0, <1>2, <1>5 DEF AttemptsLeft
  <1>9. NoNewMessage
    BY <1>0, <1>5, RowTyped DEF NoNewMessage, SameMessage
  <1>10. ClaimCounts'
    BY <1>2 DEF ClaimCounts
  <1> QED
    BY <1>1, <1>5, <1>7, <1>8, <1>9, <1>10, RowsOnly

\* A silence withdraws every waiting message it covers and says so of all the
\* events of these messages.
LEMMA AccountedSilence ==
  ASSUME Accounted, NEW rule \in SilenceRules, NEW d \in SilenceTimes, AddSilence(rule, d)
  PROVE  Accounted' /\ NoNewMessage
  <1>0. TypeInvariant /\ AttemptsLeft /\ Fates /\ ClaimCounts
    BY DEF Accounted, Typed
  <1> DEFINE hits == {m \in Events : Hit(m, rule)}
             cut  == [m \in Events |-> IF m \in hits
                                       THEN [rows[m] EXCEPT !.suppressed = now, !.body = NoBody]
                                       ELSE rows[m]]
             new  == [id |-> counts.ops, incident |-> rule.incident, kind |-> rule.kind,
                      expires |-> now + d]
  <1>1. /\ UNCHANGED <<now, cooldown, config, worker, told, handled, reserved, lastPost>>
        /\ counts' = [counts EXCEPT !.ops = @ + 1]
        /\ \A s \in silences' : s \in silences \/ s = new
        /\ decision' = [e \in Events |-> IF decision[e].row \in hits
                                         THEN [decision[e] EXCEPT !.what = "silenced"]
                                         ELSE decision[e]]
    BY DEF AddSilence, Command, ghost
  <1>2. now \in Nat /\ now > 0 /\ now' >= now /\ now + d \in Nat
    <2>1. now \in Nat /\ now > 0
      BY <1>0, MoreConstants DEF TypeInvariant
    <2>2. d \in Nat
      BY MoreConstants
    <2>3. now' = now
      BY <1>1
    <2> QED
      BY <2>1, <2>2, <2>3
  <1>3. PICK S \in Evictions(cut) : rows' = [m \in Events |-> IF m \in S THEN NoRow ELSE cut[m]]
    BY DEF AddSilence
  <1>4. \A x \in Events : \/ rows'[x] = NoRow
                          \/ ~Hit(x, rule) /\ rows'[x] = rows[x]
                          \/ Hit(x, rule) /\ rows'[x] = [rows[x] EXCEPT !.suppressed = now, !.body = NoBody]
    BY <1>3
  <1> HIDE DEF cut
  <1>5. ASSUME NEW x \in Events PROVE rows[x] \in Row /\ rows'[x] \in Row
    <2>1. rows[x] \in Row
      BY <1>0, RowTyped
    <2>2. [rows[x] EXCEPT !.suppressed = now, !.body = NoBody] \in Row
      BY <1>2, <2>1, RowEdits
    <2> QED
      BY <1>4, <2>1, <2>2, EmptyValues
  <1>6. \A x \in Events :
           \/ rows'[x] = NoRow
           \/ ~Hit(x, rule) /\ rows'[x] = rows[x]
           \/ /\ Hit(x, rule) /\ rows'[x].suppressed = now
              /\ rows'[x].present = rows[x].present /\ rows'[x].expires = rows[x].expires
              /\ rows'[x].dest = rows[x].dest /\ rows'[x].created = rows[x].created
              /\ rows'[x].sent = rows[x].sent /\ rows'[x].isolated = rows[x].isolated
              /\ rows'[x].attempts = rows[x].attempts
              /\ rows'[x].quarantined = rows[x].quarantined
              /\ rows'[x].lease = rows[x].lease
    <2> SUFFICES ASSUME NEW x \in Events, rows'[x] # NoRow, ~(~Hit(x, rule) /\ rows'[x] = rows[x])
                 PROVE  /\ Hit(x, rule) /\ rows'[x].suppressed = now
                        /\ rows'[x].present = rows[x].present /\ rows'[x].expires = rows[x].expires
                        /\ rows'[x].dest = rows[x].dest /\ rows'[x].created = rows[x].created
                        /\ rows'[x].sent = rows[x].sent /\ rows'[x].isolated = rows[x].isolated
                        /\ rows'[x].attempts = rows[x].attempts
                        /\ rows'[x].quarantined = rows[x].quarantined
                        /\ rows'[x].lease = rows[x].lease
      OBVIOUS
    <2>1. Hit(x, rule) /\ rows'[x] = [rows[x] EXCEPT !.suppressed = now, !.body = NoBody]
      BY <1>4
    <2>2. rows[x] \in Row
      BY <1>5
    <2> QED
      BY <2>1, <2>2 DEF Row
  <1>7. rows' \in [Events -> Row]
    BY <1>3, <1>5
  <1>8. decision' \in [Events -> Decision]
    BY <1>0, <1>1 DEF TypeInvariant, Decision
  <1> HIDE DEF hits, cut
  <1>9. TypeInvariant'
    BY <1>0, <1>1, <1>7, <1>8 DEF TypeInvariant
  <1>10. AttemptsLeft'
    <2>1. \A x \in Events : \/ ~rows'[x].quarantined /\ rows'[x].attempts = 0
                            \/ /\ rows'[x].quarantined = rows[x].quarantined
                               /\ rows'[x].attempts = rows[x].attempts
      BY <1>6, EmptyValues
    <2>2. worker' = worker /\ MaxAttempts \in Nat /\ 0 < MaxAttempts
      BY <1>1, MoreConstants
    <2>3. worker.pc \in Busy => worker.msg \in Events
      BY <1>0, WorkerTyped
    <2> QED
      BY <1>0, <2>1, <2>2, <2>3 DEF AttemptsLeft
  <1>11. NoNewMessage
    BY <1>0, <1>2, <1>6, RowTyped DEF NoNewMessage, SameMessage
  <1>12. \A x \in Events : Hit(x, rule) => ~Waiting(x)'
    BY <1>2, <1>6, EmptyValues DEF Waiting, Unsent, Silenced
  <1>13. \A e \in Events : /\ decision'[e].row = decision[e].row
                           /\ decision'[e] = Undecided <=> decision[e] = Undecided
                           /\ \/ decision'[e].what = decision[e].what
                              \/ \A m \in Events : decision[e].row = m => ~Waiting(m)'
    <2> SUFFICES ASSUME NEW e \in Events
                 PROVE  /\ decision'[e].row = decision[e].row
                        /\ decision'[e] = Undecided <=> decision[e] = Undecided
                        /\ \/ decision'[e].what = decision[e].what
                           \/ \A m \in Events : decision[e].row = m => ~Waiting(m)'
      OBVIOUS
    <2>1. CASE decision[e].row \in hits
      <3>1. decision'[e] = [decision[e] EXCEPT !.what = "silenced"]
        BY <1>1, <2>1
      <3>2. decision[e] \in Decision
        BY <1>0, RowTyped
      <3>3. decision'[e].row = decision[e].row
        BY <3>1, <3>2 DEF Decision
      <3>4. decision[e].row # NoEvent /\ \A m \in Events : decision[e].row = m => Hit(m, rule)
        BY <2>1, MoreConstants DEF hits
      <3>5. decision'[e] # Undecided /\ decision[e] # Undecided
        BY <3>3, <3>4 DEF Undecided
      <3> QED
        BY <1>12, <3>3, <3>4, <3>5
    <2>2. CASE decision[e].row \notin hits
      BY <1>1, <2>2
    <2> QED
      BY <2>1, <2>2
  <1>14. \A s \in silences' :
            \/ s \in silences
            \/ /\ s.expires \in Nat
               /\ \A m \in Events : Waiting(m)' /\ rows'[m].expires > now' => ~Matches(s, m)
    <2> SUFFICES ASSUME NEW m \in Events, Waiting(m)', rows'[m].expires > now
                 PROVE  ~Matches(new, m)
      BY <1>1, <1>2
    <2>1. ~Hit(m, rule)
      BY <1>12
    <2>2. rows'[m] = rows[m] /\ Waiting(m)
      BY <1>6, <2>1, EmptyValues DEF Waiting, Unsent, Silenced
    <2>3. ~Matches(rule, m)
      BY <2>1, <2>2 DEF Hit, Waiting
    <2> QED
      BY <2>3 DEF Matches
  <1>15. \A m \in Events : rows'[m].present /\ rows'[m].sent => rows[m].sent /\ told'[m] = told[m]
    BY <1>1, <1>6, EmptyValues
  <1>16. Fates'
    BY <1>0, <1>2, <1>9, <1>11, <1>13, <1>14, <1>15, FatesKept
  <1>17. ClaimCounts'
    <2>1. \A m \in Events : Unsent(m)' => Unsent(m) /\ (Closed(m) => Closed(m)')
      BY <1>2, <1>6, EmptyValues DEF Unsent, Closed, Silenced
    <2>2. worker'.pc \in Busy =>
            /\ worker.pc \in Busy /\ worker'.msg = worker.msg /\ worker'.body = worker.body
            /\ \A m : m = worker.msg /\ Unsent(m)' => Unsent(m) /\ (Closed(m) => Closed(m)')
      BY <1>0, <1>1, <2>1, WorkerTyped
    <2>3. Decideds' = Decideds
      BY <1>13 DEF Decideds
    <2> QED
      BY <1>0, <1>13, <2>2, <2>3, ClaimKept
  <1> QED
    BY <1>9, <1>10, <1>11, <1>16, <1>17 DEF Accounted, Typed

-----------------------------------------------------------------------------
(* The step that decides an event *)

\* What deciding event e for message r does to the sets.
LEMMA DecidedSets ==
  ASSUME Accounted, NEW e \in Events, decision[e] = Undecided,
         NEW w \in {"ineligible", "silenced", "queued", "merged", "rejected"},
         NEW r \in Events \cup {NoEvent},
         decision' = [decision EXCEPT ![e] = Decided(w, r)]
  PROVE  /\ decision' \in [Events -> Decision]
         /\ decision'[e] = Decided(w, r) /\ \A x \in Events \ {e} : decision'[x] = decision[x]
         /\ Decideds' = Decideds \cup {e} /\ IsFiniteSet(Decideds')
         /\ e \notin Decideds /\ Joined(e) = {} /\ ~rows[e].present
         /\ r \in Events => /\ Joined(r)' = Joined(r) \cup {e}
                            /\ Cardinality(Joined(r)') = Cardinality(Joined(r)) + 1
         /\ \A m \in Events \ {r} : Joined(m)' = Joined(m)
  <1>0. TypeInvariant /\ DecidedOnce
    BY DEF Accounted, Typed, Fates
  <1>1. Decided(w, r) \in Decision /\ Decided(w, r) # Undecided /\ Decided(w, r).row = r
    BY DEF Decided, Decision, Undecided
  <1>2. /\ decision'[e] = Decided(w, r) /\ \A x \in Events \ {e} : decision'[x] = decision[x]
    BY <1>0 DEF TypeInvariant
  <1>3. decision' \in [Events -> Decision]
    BY <1>0, <1>1 DEF TypeInvariant
  <1>4. Decideds' = Decideds \cup {e} /\ e \notin Decideds
    BY <1>1, <1>2 DEF Decideds
  <1>5. IsFiniteSet(Decideds')
    BY <1>0, <1>4, FS_AddElement DEF DecidedOnce
  <1>6. Joined(e) = {} /\ ~rows[e].present
    BY <1>0, <1>4 DEF DecidedOnce
  <1>7. decision[e].row = NoEvent
    BY DEF Undecided
  <1>8. \A m \in Events \ {r} : Joined(m)' = Joined(m)
    BY <1>1, <1>2, <1>7, MoreConstants DEF Joined
  <1>9. ASSUME r \in Events
        PROVE  /\ Joined(r)' = Joined(r) \cup {e}
               /\ Cardinality(Joined(r)') = Cardinality(Joined(r)) + 1
    <2>1. Joined(r)' = Joined(r) \cup {e}
      BY <1>1, <1>2 DEF Joined
    <2>2. e \notin Joined(r)
      BY <1>7, <1>9, MoreConstants DEF Joined
    <2>3. Joined(r) \in SUBSET Decideds
      BY <1>9, MoreConstants DEF Joined, Decideds, Undecided
    <2>4. IsFiniteSet(Joined(r))
      BY <1>0, <2>3, FS_Subset DEF DecidedOnce
    <2> QED
      BY <2>1, <2>2, <2>4, FS_AddElement
  <1> QED
    BY <1>2, <1>3, <1>4, <1>5, <1>6, <1>8, <1>9

\* What an expedited update is: due earlier and closed.
ExpediteOnly(r, q) ==
    /\ q.present = r.present /\ q.expires = r.expires /\ q.sent = r.sent
    /\ q.dest = r.dest /\ q.created = r.created
    /\ q.suppressed = r.suppressed /\ q.body = r.body /\ q.isolated = r.isolated
    /\ q.lease = r.lease /\ q.attempts = r.attempts /\ q.quarantined = r.quarantined
    /\ q.mergeUntil \in {r.mergeUntil, 0}

LEMMA ExpeditedRows ==
  ASSUME TypeInvariant, NEW e \in Events
  PROVE  Expedited(e) \in [Events -> Row]
         /\ \A m \in Events : ExpediteOnly(rows[m], Expedited(e)[m])
  <1>1. \A m \in Events : \/ Expedited(e)[m] = rows[m]
                          \/ Expedited(e)[m] = [rows[m] EXCEPT !.next = Earlier(rows[m].next, now),
                                                              !.mergeUntil = 0]
    BY DEF Expedited
  <1>2. ASSUME NEW m \in Events PROVE rows[m] \in Row /\ Expedited(e)[m] \in Row
    <2>1. rows[m] \in Row /\ Earlier(rows[m].next, now) \in Nat
      BY RowTyped DEF Earlier
    <2>2. [rows[m] EXCEPT !.next = Earlier(rows[m].next, now), !.mergeUntil = 0] \in Row
      BY <2>1, RowEdits
    <2> QED
      BY <1>1, <2>1, <2>2
  <1>3. Expedited(e) \in [Events -> Row]
    BY <1>2 DEF Expedited
  <1>4. \A m \in Events : ExpediteOnly(rows[m], Expedited(e)[m])
    <2> SUFFICES ASSUME NEW m \in Events PROVE ExpediteOnly(rows[m], Expedited(e)[m])
      OBVIOUS
    <2>1. CASE Expedited(e)[m] = rows[m]
      BY <2>1 DEF ExpediteOnly
    <2>2. CASE Expedited(e)[m] = [rows[m] EXCEPT !.next = Earlier(rows[m].next, now),
                                                 !.mergeUntil = 0]
      BY <1>2, <2>2 DEF ExpediteOnly, Row
    <2> QED
      BY <1>1, <2>1, <2>2
  <1> QED
    BY <1>3, <1>4

\* The event gets no message of its own and joins none.
LEMMA AccountedNoMessage ==
  ASSUME Accounted, NEW e \in Events, decision[e] = Undecided,
         NEW w \in {"ineligible", "silenced", "rejected"},
         decision' = [decision EXCEPT ![e] = Decided(w, NoEvent)],
         UNCHANGED <<now, silences, cooldown, config, worker, counts, ghost>>,
         rows' \in [Events -> Row],
         \A m \in Events : ExpediteOnly(rows[m], rows'[m])
  PROVE  Accounted' /\ StaysIsolated
  <1>0. TypeInvariant /\ AttemptsLeft /\ Fates /\ ClaimCounts
    BY DEF Accounted, Typed
  <1>1. /\ decision' \in [Events -> Decision]
        /\ Decideds' = Decideds \cup {e} /\ IsFiniteSet(Decideds')
        /\ decision'[e] = Decided(w, NoEvent) /\ \A x \in Events \ {e} : decision'[x] = decision[x]
        /\ \A m \in Events : Joined(m)' = Joined(m)
    <2>1. /\ NoEvent \in Events \cup {NoEvent} /\ Events \ {NoEvent} = Events
          /\ w \in {"ineligible", "silenced", "queued", "merged", "rejected"}
      BY MoreConstants
    <2>2. /\ decision' \in [Events -> Decision]
          /\ decision'[e] = Decided(w, NoEvent) /\ \A x \in Events \ {e} : decision'[x] = decision[x]
          /\ Decideds' = Decideds \cup {e} /\ IsFiniteSet(Decideds')
          /\ \A m \in Events \ {NoEvent} : Joined(m)' = Joined(m)
      BY <2>1, DecidedSets
    <2> QED
      BY <2>1, <2>2
  <1>2. TypeInvariant'
    BY <1>0, <1>1 DEF TypeInvariant, ghost
  <1>3. \A m \in Events : /\ Waiting(m)' <=> Waiting(m)
                          /\ Unsent(m)' <=> Unsent(m)
                          /\ Closed(m) => Closed(m)'
    BY DEF ExpediteOnly, Waiting, Unsent, Silenced, Closed
  <1>4. AttemptsLeft'
    BY <1>0, WorkerTyped DEF AttemptsLeft, ExpediteOnly
  <1>5. DecidedOnce'
    BY <1>0, <1>1 DEF Fates, DecidedOnce, ExpediteOnly
  <1>6. SilencesObeyed'
    BY <1>0, <1>3 DEF Fates, SilencesObeyed, ExpediteOnly, Active, Matches
  <1>7. WithdrawnStay'
    BY <1>0, <1>1, <1>3, MoreConstants DEF Fates, WithdrawnStay, Decided
  <1>8. BodiesCount'
    BY <1>0, <1>1, <1>3 DEF Fates, BodiesCount, ExpediteOnly
  <1>9. SentTellsAll'
    <2>1. \A m \in Events : rows'[m].sent = rows[m].sent /\ rows'[m].present = rows[m].present
      BY DEF ExpediteOnly
    <2>2. UNCHANGED told
      BY DEF ghost
    <2> HIDE DEF ExpediteOnly
    <2> QED
      BY <1>0, <1>1, <2>1, <2>2 DEF Fates, SentTellsAll, Joined
  <1>10. MessagesBounded'
    <2>1. Queued' = Queued
      BY <1>3 DEF Queued, Waiting
    <2> QED
      BY <1>0, <2>1 DEF Fates, MessagesBounded
  <1>11. ClaimCounts'
    <2> SUFFICES ASSUME worker.pc \in Busy, NEW m \in Events, m = worker.msg
                 PROVE  /\ m \in Decideds'
                        /\ Unsent(m)' => worker.body.count = Cardinality(Joined(m)') /\ Closed(m)'
      BY <1>0, WorkerTyped DEF ClaimCounts
    <2> QED
      BY <1>0, <1>1, <1>3 DEF ClaimCounts
  <1>12. StaysIsolated
    BY <1>0, RowTyped DEF StaysIsolated, ExpediteOnly
  <1> QED
    BY <1>2, <1>4, <1>5, <1>6, <1>7, <1>8, <1>9, <1>10, <1>11, <1>12 DEF Accounted, Typed, Fates

\* An event joins a message that is still open: one the worker is not busy
\* with.
LEMMA AccountedJoin ==
  ASSUME Accounted, NEW e \in Events, decision[e] = Undecided,
         NEW r \in Events, Open(r, e),
         rows' = [rows EXCEPT ![r] = [rows[r] EXCEPT !.body = [count |-> rows[r].body.count + 1,
                                                               latest |-> e]]],
         decision' = [decision EXCEPT ![e] = Decided("merged", r)],
         UNCHANGED <<now, silences, cooldown, config, worker, counts, ghost>>
  PROVE  Accounted' /\ StaysIsolated
  <1>0. TypeInvariant /\ AttemptsLeft /\ Fates /\ ClaimCounts
    BY DEF Accounted, Typed
  <1>1. /\ decision' \in [Events -> Decision]
        /\ decision'[e] = Decided("merged", r) /\ \A x \in Events \ {e} : decision'[x] = decision[x]
        /\ Decideds' = Decideds \cup {e} /\ IsFiniteSet(Decideds')
        /\ Cardinality(Joined(r)') = Cardinality(Joined(r)) + 1
        /\ \A m \in Events \ {r} : Joined(m)' = Joined(m)
    BY DecidedSets
  <1> DEFINE b == [count |-> rows[r].body.count + 1, latest |-> e]
             t == [rows[r] EXCEPT !.body = b]
  <1>2. b \in Body /\ rows[r] \in Row
    BY <1>0, RowTyped DEF Body
  <1>3. t \in Row
    BY <1>2, RowEdits
  <1>4. /\ t.present = rows[r].present /\ t.expires = rows[r].expires /\ t.sent = rows[r].sent
        /\ t.dest = rows[r].dest /\ t.created = rows[r].created
        /\ t.suppressed = rows[r].suppressed /\ t.body = b /\ t.isolated = rows[r].isolated
        /\ t.lease = rows[r].lease /\ t.attempts = rows[r].attempts
        /\ t.quarantined = rows[r].quarantined /\ t.mergeUntil = rows[r].mergeUntil
        /\ t.body.count = rows[r].body.count + 1
    BY <1>2 DEF Row
  <1> HIDE DEF t, b
  <1>5. rows'[r] = t /\ (\A x \in Events \ {r} : rows'[x] = rows[x]) /\ rows' \in [Events -> Row]
    BY <1>0, <1>3 DEF TypeInvariant, t, b
  <1>6. TypeInvariant'
    BY <1>0, <1>1, <1>5 DEF TypeInvariant, ghost
  <1>7. Waiting(r) /\ Unsent(r) /\ ~Closed(r) /\ rows[r].present /\ ~rows[r].sent
    BY <1>0, RowTyped DEF Open, Live, Waiting, Unsent, Closed
  <1>8. \A m \in Events : /\ Waiting(m)' <=> Waiting(m)
                          /\ Unsent(m)' <=> Unsent(m)
                          /\ Closed(m)' <=> Closed(m)
    BY <1>4, <1>5 DEF Waiting, Unsent, Silenced, Closed
  <1>9. AttemptsLeft'
    BY <1>0, <1>4, <1>5, WorkerTyped DEF AttemptsLeft
  <1>10. DecidedOnce'
    BY <1>0, <1>1, <1>4, <1>5, <1>7 DEF Fates, DecidedOnce
  <1>11. SilencesObeyed'
    BY <1>0, <1>4, <1>5, <1>8 DEF Fates, SilencesObeyed, Active, Matches
  <1>12. WithdrawnStay'
    BY <1>0, <1>1, <1>8 DEF Fates, WithdrawnStay, Decided
  <1>13. BodiesCount'
    BY <1>0, <1>1, <1>4, <1>5, <1>8 DEF Fates, BodiesCount
  <1>14. SentTellsAll'
    BY <1>0, <1>1, <1>4, <1>5, <1>7 DEF Fates, SentTellsAll, Joined, ghost
  <1>15. MessagesBounded'
    <2>1. Queued' = Queued
      BY <1>8 DEF Queued, Waiting
    <2> QED
      BY <1>0, <2>1 DEF Fates, MessagesBounded
  <1>16. ClaimCounts'
    <2> SUFFICES ASSUME worker.pc \in Busy, NEW m \in Events, m = worker.msg
                 PROVE  /\ m \in Decideds'
                        /\ Unsent(m)' => worker.body.count = Cardinality(Joined(m)') /\ Closed(m)'
      BY <1>0, WorkerTyped DEF ClaimCounts
    <2>1. m # r
      BY <1>0, <1>7 DEF ClaimCounts
    <2> QED
      BY <1>0, <1>1, <1>8, <2>1 DEF ClaimCounts
  <1>17. StaysIsolated
    BY <1>0, <1>4, <1>5, RowTyped DEF StaysIsolated
  <1> QED
    BY <1>6, <1>9, <1>10, <1>11, <1>12, <1>13, <1>14, <1>15, <1>16, <1>17 DEF Accounted, Typed, Fates

\* An event gets a message of its own, which no silence in force covers.
LEMMA AccountedCreate ==
  ASSUME Accounted, NEW e \in Events, decision[e] = Undecided,
         \A s \in silences : Active(s) => ~Matches(s, e),
         Cardinality(Queued) < MaxMessages,
         rows' = [Expedited(e) EXCEPT ![e] = NewRow(e)],
         decision' = [decision EXCEPT ![e] = Decided("queued", e)],
         UNCHANGED <<now, silences, cooldown, config, worker, counts, ghost>>
  PROVE  Accounted' /\ StaysIsolated
  <1>0. TypeInvariant /\ AttemptsLeft /\ Fates /\ ClaimCounts
    BY DEF Accounted, Typed
  <1>1. /\ decision' \in [Events -> Decision]
        /\ decision'[e] = Decided("queued", e) /\ \A x \in Events \ {e} : decision'[x] = decision[x]
        /\ Decideds' = Decideds \cup {e} /\ IsFiniteSet(Decideds')
        /\ e \notin Decideds /\ Joined(e) = {} /\ ~rows[e].present
        /\ Cardinality(Joined(e)') = Cardinality(Joined(e)) + 1
        /\ \A m \in Events \ {e} : Joined(m)' = Joined(m)
    BY DecidedSets
  <1>2. Cardinality(Joined(e)') = 1
    BY <1>1, FS_EmptySet
  <1> DEFINE t == NewRow(e)
  <1>3. /\ t \in Row /\ t.present /\ ~t.sent /\ t.suppressed = 0 /\ t.attempts = 0 /\ t.body.count = 1
    <2>1. now \in Nat /\ config.dest \in Receivers /\ config.window \in Nat /\ TTL \in Nat
      BY <1>0, RowTyped, WorkerTyped, MoreConstants
    <2>2. (config.dest = Unknown) \in BOOLEAN /\ [count |-> 1, latest |-> e] \in Body
      BY DEF Body
    <2> DEFINE k == IF Coalesces(e) THEN now + config.window ELSE now
               u == IF Coalesces(e) THEN now + config.window ELSE 0
    <2>3. k \in Nat /\ u \in Nat /\ now + TTL \in Nat
      BY <2>1
    <2> DEFINE b == [count |-> 1, latest |-> e]
    <2>4. b \in Body /\ b.count = 1
      BY <2>2
    <2>5. t = [NoRow EXCEPT !.present = TRUE, !.dest = config.dest, !.created = now,
                            !.isolated = (config.dest = Unknown), !.next = k, !.mergeUntil = u,
                            !.expires = now + TTL, !.body = b]
      BY DEF NewRow
    <2> HIDE DEF k, u, b, t
    <2>6. t \in Row /\ t.body = b /\ t.present /\ t.sent = NoRow.sent
          /\ t.suppressed = NoRow.suppressed /\ t.attempts = NoRow.attempts
      <3>1. NoRow \in Row
        BY EmptyValues
      <3> QED
        BY <2>1, <2>3, <2>4, <2>5, <3>1 DEF Row
    <2>7. ~NoRow.sent
      BY DEF NoRow
    <2> QED
      BY <2>4, <2>6, <2>7, EmptyValues
  <1> HIDE DEF t
  <1>4. /\ rows'[e] = t /\ rows' \in [Events -> Row]
        /\ \A m \in Events \ {e} : ExpediteOnly(rows[m], rows'[m])
    BY <1>0, <1>3, ExpeditedRows DEF t
  <1>5. TypeInvariant'
    BY <1>0, <1>1, <1>4 DEF TypeInvariant, ghost
  <1>6. \A m \in Events \ {e} : /\ Waiting(m)' <=> Waiting(m)
                                /\ Unsent(m)' <=> Unsent(m)
                                /\ Closed(m) => Closed(m)'
    BY <1>4 DEF ExpediteOnly, Waiting, Unsent, Silenced, Closed
  <1>7. AttemptsLeft'
    BY <1>0, <1>3, <1>4, WorkerTyped, MoreConstants DEF AttemptsLeft, ExpediteOnly
  <1>8. DecidedOnce'
    BY <1>0, <1>1, <1>4 DEF Fates, DecidedOnce, ExpediteOnly
  <1>9. SilencesObeyed'
    BY <1>0, <1>4, <1>6 DEF Fates, SilencesObeyed, ExpediteOnly, Active, Matches
  <1>10. WithdrawnStay'
    <2> SUFFICES ASSUME NEW x \in Events, NEW m \in Events, decision'[x].row = m,
                        decision'[x].what = "silenced"
                 PROVE  ~Waiting(m)'
      BY DEF WithdrawnStay
    <2>1. x # e
      BY <1>1 DEF Decided
    <2>2. decision[x].row = m /\ decision[x].what = "silenced"
      BY <1>1, <2>1
    <2>3. m # e
      BY <1>1, <2>2 DEF Joined
    <2> QED
      BY <1>0, <1>6, <2>2, <2>3 DEF Fates, WithdrawnStay
  <1>11. BodiesCount'
    <2> SUFFICES ASSUME NEW m \in Events, Waiting(m)'
                 PROVE  rows'[m].body.count = Cardinality(Joined(m)')
      BY DEF BodiesCount
    <2>1. CASE m = e
      BY <1>2, <1>3, <1>4, <2>1
    <2>2. CASE m # e
      BY <1>0, <1>1, <1>4, <1>6, <2>2 DEF Fates, BodiesCount, ExpediteOnly
    <2> QED
      BY <2>1, <2>2
  <1>12. SentTellsAll'
    BY <1>0, <1>1, <1>3, <1>4 DEF Fates, SentTellsAll, Joined, ExpediteOnly, ghost
  <1>13. MessagesBounded'
    <2>1. Queued' \in SUBSET (Queued \cup {e})
      BY <1>6 DEF Queued, Waiting
    <2>2. Queued \in SUBSET Decideds
      BY <1>0 DEF Fates, DecidedOnce, Queued, Unsent
    <2>3. IsFiniteSet(Queued)
      BY <1>0, <2>2, FS_Subset DEF Fates, DecidedOnce
    <2>4. /\ IsFiniteSet(Queued \cup {e}) /\ Cardinality(Queued) \in Nat
          /\ Cardinality(Queued \cup {e}) <= Cardinality(Queued) + 1
          /\ Cardinality(Queued \cup {e}) \in Nat
      <3>1. IsFiniteSet(Queued \cup {e})
        BY <2>3, FS_AddElement
      <3>2. Cardinality(Queued) \in Nat /\ Cardinality(Queued \cup {e}) \in Nat
        BY <2>3, <3>1, FS_CardinalityType
      <3>3. Cardinality(Queued \cup {e}) \in {Cardinality(Queued), Cardinality(Queued) + 1}
        BY <2>3, FS_AddElement
      <3> QED
        BY <3>1, <3>2, <3>3
    <2>5. Cardinality(Queued') <= Cardinality(Queued \cup {e}) /\ Cardinality(Queued') \in Nat
      BY <2>1, <2>4, FS_Subset, FS_CardinalityType
    <2> QED
      BY <2>4, <2>5, MoreConstants DEF MessagesBounded
  <1>14. ClaimCounts'
    <2> SUFFICES ASSUME worker.pc \in Busy, NEW m \in Events, m = worker.msg
                 PROVE  /\ m \in Decideds'
                        /\ Unsent(m)' => worker.body.count = Cardinality(Joined(m)') /\ Closed(m)'
      BY <1>0, WorkerTyped DEF ClaimCounts
    <2>1. m # e
      BY <1>0, <1>1 DEF ClaimCounts
    <2> QED
      BY <1>0, <1>1, <1>6, <2>1 DEF ClaimCounts
  <1>15. StaysIsolated
    BY <1>0, <1>1, <1>4, RowTyped DEF StaysIsolated, ExpediteOnly
  <1> QED
    BY <1>5, <1>7, <1>8, <1>9, <1>10, <1>11, <1>12, <1>13, <1>14, <1>15 DEF Accounted, Typed, Fates

LEMMA AccountedInsert ==
  ASSUME Accounted, NEW e \in Events, InsertEventNotification(e)
  PROVE  Accounted' /\ StaysIsolated
  <1>0. TypeInvariant /\ decision[e] = Undecided
        /\ UNCHANGED <<now, silences, cooldown, config, worker, counts, ghost>>
    BY DEF Accounted, Typed, InsertEventNotification
  <1>1. \A m \in Events : ExpediteOnly(rows[m], rows[m])
    BY <1>0, RowTyped DEF ExpediteOnly
  <1>2. rows \in [Events -> Row]
    BY <1>0 DEF TypeInvariant
  <1>3. CASE Withhold(e)
    <2>1. rows' = rows
      BY <1>3 DEF Withhold
    <2>2. CASE ~config.enabled
      BY <1>0, <1>1, <1>2, <1>3, <2>1, <2>2, AccountedNoMessage DEF Withhold
    <2>3. CASE config.enabled
      BY <1>0, <1>1, <1>2, <1>3, <2>1, <2>3, AccountedNoMessage DEF Withhold
    <2> QED
      BY <2>2, <2>3
  <1>4. ASSUME NEW m \in Events, FirstOpen(m, e), Join(e, m) PROVE Accounted' /\ StaysIsolated
    <2>1. CASE RoomToJoin(m, e)
      <3>1. Open(m, e)
        BY <1>4 DEF FirstOpen
      <3>2. /\ rows' = [rows EXCEPT ![m] = [rows[m] EXCEPT !.body = [count |-> rows[m].body.count + 1,
                                                                     latest |-> e]]]
            /\ decision' = [decision EXCEPT ![e] = Decided("merged", m)]
        BY <1>4, <2>1 DEF Join
      <3> QED
        BY <1>0, <3>1, <3>2, AccountedJoin
    <2>2. CASE ~RoomToJoin(m, e)
      BY <1>0, <1>1, <1>2, <1>4, <2>2, AccountedNoMessage DEF Join
    <2> QED
      BY <2>1, <2>2
  <1>5. CASE Create(e) /\ \A s \in silences : Active(s) => ~Matches(s, e)
    <2>1. CASE RoomForNew(e)
      <3>1. /\ rows' = [Expedited(e) EXCEPT ![e] = NewRow(e)]
            /\ decision' = [decision EXCEPT ![e] = Decided("queued", e)]
        BY <1>5, <2>1 DEF Create
      <3>2. Cardinality(Queued) < MaxMessages
        BY <2>1 DEF RoomForNew
      <3> QED
        BY <1>0, <1>5, <3>1, <3>2, AccountedCreate
    <2>2. CASE ~RoomForNew(e)
      <3>1. rows' = Expedited(e) /\ decision' = [decision EXCEPT ![e] = Decided("rejected", NoEvent)]
        BY <1>5, <2>2 DEF Create
      <3>2. rows' \in [Events -> Row] /\ \A m \in Events : ExpediteOnly(rows[m], rows'[m])
        BY <1>0, <3>1, ExpeditedRows
      <3> QED
        BY <1>0, <3>1, <3>2, AccountedNoMessage
    <2> QED
      BY <2>1, <2>2
  <1> QED
    BY <1>3, <1>4, <1>5 DEF InsertEventNotification

-----------------------------------------------------------------------------

LEMMA AccountedInit == Init => Accounted
  <1> SUFFICES ASSUME Init PROVE Accounted
    OBVIOUS
  <1>1. \A m \in Events : rows[m] = NoRow /\ decision[m] = Undecided
    BY DEF Init
  <1>2. worker \in Worker /\ worker.pc \notin Busy
    <2>1. <<>> \in Seq(Events)
      OBVIOUS
    <2> QED
      BY <2>1, WorkerAt DEF Init
  <1>3. Undecided \in Decision /\ Undecided.row = NoEvent
    BY DEF Undecided, Decision
  <1>4. TypeInvariant
    BY <1>2, <1>3, EmptyValues, Constants, MoreConstants DEF Init, TypeInvariant
  <1>5. AttemptsLeft
    BY <1>1, <1>2, EmptyValues, MoreConstants DEF AttemptsLeft
  <1>6. Decideds = {} /\ Queued = {} /\ \A m \in Events : Joined(m) = {} /\ ~rows[m].present
    BY <1>1, <1>3, EmptyValues, MoreConstants DEF Decideds, Queued, Unsent, Joined
  <1>7. DecidedOnce
    BY <1>6, FS_EmptySet DEF DecidedOnce
  <1>8. SilencesObeyed
    BY DEF Init, SilencesObeyed
  <1>9. WithdrawnStay /\ BodiesCount /\ SentTellsAll
    BY <1>6 DEF WithdrawnStay, BodiesCount, SentTellsAll, Waiting, Unsent
  <1>10. MessagesBounded
    BY <1>6, FS_EmptySet, MoreConstants DEF MessagesBounded
  <1>11. ClaimCounts
    BY <1>2 DEF ClaimCounts
  <1> QED
    BY <1>4, <1>5, <1>7, <1>8, <1>9, <1>10, <1>11 DEF Accounted, Typed, Fates

LEMMA IsolatedBefore ==
  ASSUME TypeInvariant, TypeInvariant', NoNewMessage
  PROVE  StaysIsolated
  <1> SUFFICES ASSUME NEW m \in Events, rows[m].present, rows[m].isolated \/ rows[m].sent,
                      rows'[m].present
               PROVE  (rows[m].isolated => rows'[m].isolated) /\ rows'[m].lease <= rows[m].lease
    BY DEF StaysIsolated
  <1>1. rows'[m] # NoRow
    BY EmptyValues
  <1>2. (rows[m].isolated => rows'[m].isolated) /\ rows'[m].lease \in {rows[m].lease, 0}
    BY <1>1 DEF NoNewMessage, SameMessage
  <1> QED
    BY <1>2, RowTyped

\* One step of the outbox.
LEMMA AccountedStep ==
  ASSUME Accounted, [Next]_vars
  PROVE  Accounted' /\ StaysIsolated
  <1>1. ASSUME Accounted' /\ NoNewMessage PROVE StaysIsolated
    BY <1>1, IsolatedBefore DEF Accounted, Typed
  <1>2. CASE \E e \in Events : InsertEventNotification(e)
    BY <1>2, AccountedInsert
  <1>3. CASE WorkerStep
    BY <1>1, <1>3, AccountedQuiet, AccountedFetch, AccountedClaim, AccountedRecord, AccountedRelease
       DEF WorkerStep
  <1>4. CASE OperatorStep
    BY <1>1, <1>4, AccountedQuiet, AccountedRetry, AccountedQuarantine, AccountedResume,
       AccountedDiscard, AccountedSilence
       DEF OperatorStep
  <1>5. CASE Crash \/ StopWhileSending \/ Tick \/ \E c \in Configs : Start(c)
    BY <1>1, <1>5, AccountedQuiet, AccountedRelease, AccountedStart
  <1>6. CASE UNCHANGED vars
    <2>1. TypeInvariant /\ UNCHANGED <<now, rows, decision, silences, cooldown, config, worker, counts,
                                       told, handled, reserved, lastPost>>
      BY <1>6 DEF Accounted, Typed, vars, tables, ghost
    <2>2. TypeInvariant'
      BY <2>1 DEF TypeInvariant
    <2>3. now' >= now /\ silences' \subseteq silences
      BY <2>1 DEF TypeInvariant
    <2> QED
      BY <1>1, <2>1, <2>2, <2>3, RowsUntouched
  <1> QED
    BY <1>2, <1>3, <1>4, <1>5, <1>6 DEF Next

LEMMA AccountedInvariant == Spec => []Accounted
  BY AccountedInit, AccountedStep, PTL DEF Spec

-----------------------------------------------------------------------------

\* The queue keeps the domain of every column, never tries a message more often
\* than MaxDeliveryAttempts without an operator's retry, and holds at most
\* MaxMessages messages (enqueue, outboxAdmissionUsage, MarkFailed).
THEOREM QueueIsWellFormed == Spec => [](TypeInvariant /\ MessagesBounded)
  <1>1. Accounted => TypeInvariant /\ MessagesBounded
    BY DEF Accounted, Typed, Fates
  <1> QED
    BY <1>1, AccountedInvariant, PTL

\* A message marked sent told the receiver of every event that was queued as it
\* or merged into it, although events join until the claim, leases run out
\* during requests, silences and discards empty bodies, and operators retry
\* (recordOneEventNotification, ClaimNotification, MarkSentWithCooldown).
THEOREM NoEventIsLost == Spec => []SentTellsAll
  <1>1. Accounted => SentTellsAll
    BY DEF Accounted, Fates
  <1> QED
    BY <1>1, AccountedInvariant, PTL

\* A message that was isolated from its receiver, or sent, is never claimed
\* again, whatever receiver and privacy mode the configuration returns to
\* (ConfigureNotificationTarget, ClaimNotification).
THEOREM IsolationIsFinal == Spec => [][StaysIsolated]_vars
  <1>1. Accounted /\ [Next]_vars => [StaysIsolated]_vars
    BY AccountedStep
  <1> QED
    BY <1>1, AccountedInvariant, PTL DEF Spec

\* The worker comes by a message only in a claim, which finds it waiting.
LEMMA ClaimsAreDue ==
  ASSUME Accounted, [Next]_vars, worker.pc = "pass", worker'.pc = "claimed"
  PROVE  \E m \in Events : /\ m = worker'.msg /\ Due(m)
                           /\ m = worker.batch[1] /\ 1 \in 1 .. Len(worker.batch)
  <1>0. TypeInvariant
    BY DEF Accounted, Typed
  <1>1. worker' # worker
    OBVIOUS
  <1>2. \A p, b : At(p, b).pc = p
    BY DEF At
  <1>3. ~(PendingDestination \/ PassOver \/ Check \/ ReserveNotificationAttempt \/ Send \/ Answer
          \/ ReleaseNotificationClaim \/ WorkerError)
    <2>1. ~(PendingDestination \/ PassOver)
      BY <1>2 DEF PendingDestination, PassOver
    <2>2. ~(Check \/ ReserveNotificationAttempt \/ Send \/ Answer)
      BY DEF Check, ReserveNotificationAttempt, Send, Answer
    <2>3. ~(ReleaseNotificationClaim \/ WorkerError)
      BY DEF ReleaseNotificationClaim, WorkerError
    <2> QED
      BY <2>1, <2>2, <2>3
  <1>4. ~Record
    BY DEF Record
  <1>5. ~OperatorStep
    BY <1>1 DEF OperatorStep, RetryNotification, QuarantineNotification, ResumeDestination,
                DiscardIsolatedNotifications, AddSilence, RemoveSilence
  <1>6. ~(Crash \/ StopWhileSending \/ \E c \in Configs : Start(c))
    BY DEF Crash, StopWhileSending, Start, At
  <1>7. ~(Tick \/ (\E e \in Events : InsertEventNotification(e)) \/ UNCHANGED vars)
    BY <1>1 DEF Tick, InsertEventNotification, vars
  <1>8. ClaimNotification
    BY <1>3, <1>4, <1>5, <1>6, <1>7 DEF Next, WorkerStep
  <1>9. PICK m \in Events : m = Head(worker.batch)
    <2>1. worker.batch \in Seq(Events) /\ worker.batch # <<>>
      BY <1>0, <1>8, WorkerTyped DEF ClaimNotification
    <2> QED
      BY <2>1, HeadTailProperties
  <1>10. Due(m)
    <2> SUFFICES ASSUME ~Due(m) PROVE FALSE
      OBVIOUS
    <2>1. worker' = At("pass", Tail(worker.batch))
      BY <1>8, <1>9 DEF ClaimNotification
    <2> QED
      BY <1>2, <2>1
  <1>11. worker' = [At("claimed", Tail(worker.batch)) EXCEPT !.msg = m, !.body = rows[m].body]
    BY <1>8, <1>9, <1>10 DEF ClaimNotification
  <1>12. worker'.msg = m
    BY <1>11 DEF At
  <1>13. Head(worker.batch) = worker.batch[1] /\ 1 \in 1 .. Len(worker.batch)
    <2>1. worker.batch \in Seq(Events) /\ worker.batch # <<>>
      BY <1>0, <1>8, WorkerTyped DEF ClaimNotification
    <2> QED
      BY <2>1
  <1> QED
    BY <1>9, <1>10, <1>12, <1>13

\* A silence is obeyed by every claim while it is in force, also by the message
\* that was claimed and failed when the silence was added, and a message that
\* a silence withdrew is never claimed, after its end either (AddSilence,
\* recordOneEventNotification, ClaimNotification).
THEOREM SilencesAreKept == Spec => [][Silent]_vars
  <1>1. ASSUME Accounted, [Next]_vars PROVE Silent
    <2> SUFFICES ASSUME worker.pc = "pass", worker'.pc = "claimed"
                 PROVE  /\ \A s \in silences : Active(s) => ~Matches(s, worker'.msg)
                        /\ \A e \in Events : decision[e].row = worker'.msg =>
                                                decision[e].what # "silenced"
      BY DEF Silent
    <2>1. PICK m \in Events : m = worker'.msg /\ Due(m)
      BY <1>1, ClaimsAreDue
    <2>2. Waiting(m) /\ rows[m].expires > now
      BY <2>1 DEF Due, Live, Waiting
    <2>3. SilencesObeyed /\ WithdrawnStay
      BY <1>1 DEF Accounted, Fates
    <2> QED
      BY <2>1, <2>2, <2>3 DEF SilencesObeyed, WithdrawnStay
  <1> QED
    BY <1>1, AccountedInvariant, PTL DEF Spec

-----------------------------------------------------------------------------
(* Recoveries do not overtake the updates they end, on channels without    *)
(* pacing                                                                  *)

\* r is a recovery of the incident of u, for the same receiver and younger,
\* and u was neither claimed nor retried by hand.
Ends(r, u) ==
    /\ Phase[r] = "recovery" /\ Phase[u] = "update" /\ Incident[u] = Incident[r]
    /\ rows[r].present /\ rows[u].present /\ rows[u].dest = rows[r].dest
    /\ rows[u].created < rows[r].created /\ u \notin handled
\* r would be sent when its time comes.
Ready(r) == Waiting(r) /\ ~rows[r].quarantined /\ rows[r].expires > now

\* Only what was claimed or retried by hand was tried.
Untouched ==
    /\ \A m \in Events \ handled : rows[m].attempts = 0 /\ rows[m].lease = 0
    /\ worker.pc \in Busy => worker.msg \in handled
\* The recovery has made the update due, before itself, and closed it.
UpdatesFirst ==
    /\ \A m \in Events : rows[m].created <= now
    /\ \A r, u \in Events : Ends(r, u) /\ Waiting(u) =>
         /\ rows[u].next <= now /\ rows[u].mergeUntil = 0
         /\ Ready(r) => rows[u].next <= rows[r].next

Position(u, j) == \E i \in 1 .. (j - 1) : worker.batch[i] = u
\* A pass is for the configured receiver, which stays open during the pass, and
\* lists the updates before the recovery that ends them.
BatchOrdered ==
    \A j \in 1 .. Len(worker.batch) : LET r == worker.batch[j] IN
        /\ r \in Decideds /\ TargetOn(config.dest) /\ Cool(config.dest)
        /\ rows[r].present => rows[r].dest = config.dest
        /\ \A u \in Events : Ends(r, u) /\ Live(u) => Position(u, j)
Unpaced == worker.pc \notin {"allowed", "reserved"}

Ordered == Untouched /\ UpdatesFirst /\ BatchOrdered /\ Unpaced

LEMMA NextTyped ==
  ASSUME TypeInvariant', NEW m \in Events
  PROVE  /\ rows'[m].next \in Nat /\ rows'[m].expires \in Nat /\ now' \in Nat
         /\ rows'[m].created \in Nat
  <1>1. rows'[m] \in Row /\ now' \in Nat
    BY MoreConstants DEF TypeInvariant
  <1> QED
    BY <1>1 DEF Row

LEMMA BatchTyped ==
  ASSUME TypeInvariant
  PROVE  /\ worker.batch \in Seq(Events) /\ Len(worker.batch) \in Nat
         /\ \A j \in 1 .. Len(worker.batch) : worker.batch[j] \in Events
  <1>1. worker.batch \in Seq(Events)
    BY WorkerTyped
  <1> QED
    BY <1>1

\* A pair of a recovery and the update it ends was such a pair before.
LEMMA EndsBefore ==
  ASSUME NoNewMessage, handled \subseteq handled', NEW r \in Events, NEW u \in Events, Ends(r, u)'
  PROVE  /\ Ends(r, u) /\ rows'[r] # NoRow /\ rows'[u] # NoRow
         /\ rows'[u].dest = rows[u].dest /\ rows'[r].dest = rows[r].dest
  <1>1. rows'[r] # NoRow /\ rows'[u] # NoRow
    BY EmptyValues DEF Ends
  <1>2. /\ rows'[u].present = rows[u].present /\ rows'[u].dest = rows[u].dest
        /\ rows'[u].created = rows[u].created
        /\ rows'[r].present = rows[r].present /\ rows'[r].dest = rows[r].dest
        /\ rows'[r].created = rows[r].created
    BY <1>1 DEF NoNewMessage, SameMessage
  <1> QED
    BY <1>1, <1>2 DEF Ends

\* Updates stay due before their recovery when untried messages are not put
\* off, and a recovery is not moved forward.
LEMMA UpdatesKept ==
  ASSUME TypeInvariant, TypeInvariant', NoNewMessage, UpdatesFirst, now' >= now,
         handled \subseteq handled',
         \A u \in Events \ handled' : rows'[u] # NoRow =>
            /\ rows'[u].mergeUntil \in {rows[u].mergeUntil, 0}
            /\ \/ rows'[u].next <= rows[u].next
               \/ rows[u].mergeUntil = 0 => rows'[u].next <= now',
         \A r \in Events : Ready(r)' =>
            \/ rows'[r].next >= now'
            \/ /\ Ready(r) /\ rows'[r].next >= rows[r].next
               /\ \A u \in Events \ handled' :
                    rows'[u] # NoRow /\ rows[u].dest = rows[r].dest => rows'[u].next <= rows[u].next
  PROVE  UpdatesFirst'
  <1>1. ASSUME NEW m \in Events PROVE rows'[m].created <= now'
    <2>1. rows[m].created <= now
      BY DEF UpdatesFirst
    <2>2. rows'[m].created \in {0, rows[m].created}
      BY DEF NoNewMessage, SameMessage, NoRow
    <2> QED
      BY <2>1, <2>2, RowTyped DEF TypeInvariant
  <1>2. ASSUME NEW r \in Events, NEW u \in Events, Ends(r, u)', Waiting(u)'
        PROVE  /\ rows'[u].next <= now' /\ rows'[u].mergeUntil = 0
               /\ Ready(r)' => rows'[u].next <= rows'[r].next
    <2>1. /\ Ends(r, u) /\ rows'[u] # NoRow /\ rows[u].dest = rows[r].dest /\ u \notin handled'
      BY <1>2, EndsBefore DEF Ends
    <2>2. Waiting(u)
      BY <1>2, WaitingBefore
    <2>3. /\ rows[u].next <= now /\ rows[u].mergeUntil = 0
          /\ Ready(r) => rows[u].next <= rows[r].next
      BY <2>1, <2>2 DEF UpdatesFirst
    <2>4. /\ rows[u].next \in Nat /\ rows'[u].next \in Nat /\ rows[r].next \in Nat
          /\ rows'[r].next \in Nat /\ now \in Nat /\ now' \in Nat
      BY RowTyped, NextTyped
    <2>5. rows'[u].next <= now' /\ rows'[u].mergeUntil = 0
      BY <2>1, <2>3, <2>4
    <2>6. ASSUME Ready(r)' PROVE rows'[u].next <= rows'[r].next
      BY <2>1, <2>3, <2>4, <2>5, <2>6
    <2> QED
      BY <2>5, <2>6
  <1> QED
    BY <1>1, <1>2 DEF UpdatesFirst

\* A pass stays ordered when its receiver stays open and no quarantine is
\* lifted but by hand.
LEMMA BatchKept ==
  ASSUME TypeInvariant, TypeInvariant', NoNewMessage, BatchOrdered, now' >= now,
         handled \subseteq handled', Decideds \subseteq Decideds', config' = config,
         worker'.batch = worker.batch,
         Cool(config.dest) => cooldown'[config.dest] <= now',
         \A u \in Events \ handled' :
            rows[u].quarantined /\ rows'[u] # NoRow => rows'[u].quarantined
  PROVE  BatchOrdered'
  <1> SUFFICES ASSUME NEW j \in 1 .. Len(worker.batch), NEW r \in Events, r = worker.batch[j]
               PROVE  /\ r \in Decideds' /\ TargetOn(config.dest) /\ cooldown'[config.dest] <= now'
                      /\ rows'[r].present => rows'[r].dest = config.dest
                      /\ \A u \in Events : Ends(r, u)' /\ Live(u)' => Position(u, j)
    BY BatchTyped DEF BatchOrdered, TargetOn, Cool, Position
  <1>1. /\ r \in Decideds /\ TargetOn(config.dest) /\ Cool(config.dest)
        /\ rows[r].present => rows[r].dest = config.dest
        /\ \A u \in Events : Ends(r, u) /\ Live(u) => Position(u, j)
    BY DEF BatchOrdered
  <1>2. rows'[r].present => rows'[r].dest = config.dest
    BY <1>1, EmptyValues DEF NoNewMessage, SameMessage
  <1>3. ASSUME NEW u \in Events, Ends(r, u)', Live(u)' PROVE Position(u, j)
    <2>1. Ends(r, u) /\ rows'[u] # NoRow /\ u \notin handled'
      BY <1>3, EndsBefore DEF Ends
    <2>2. Waiting(u) /\ rows'[u].expires = rows[u].expires
      BY <1>3, WaitingBefore DEF Live, Waiting
    <2>3. rows[u].expires > now
      BY <1>3, <2>2, RowTyped, NextTyped DEF Live
    <2>4. ~rows[u].isolated /\ ~rows[u].quarantined
      BY <1>3, <2>1 DEF Live, NoNewMessage, SameMessage
    <2>5. Live(u)
      BY <2>2, <2>3, <2>4 DEF Live, Waiting
    <2> QED
      BY <1>1, <2>1, <2>5
  <1> QED
    BY <1>1, <1>2, <1>3

LEMMA BatchEmpty ==
  ASSUME worker'.batch = <<>>
  PROVE  BatchOrdered'
  <1>1. Len(worker'.batch) = 0
    OBVIOUS
  <1> QED
    BY <1>1 DEF BatchOrdered

\* What most steps make of a row: it keeps its time.
Calm(r, q) ==
    /\ q.next = r.next /\ q.mergeUntil = r.mergeUntil
    /\ r.quarantined => q.quarantined
    /\ q.attempts = r.attempts /\ q.lease \in {r.lease, 0}
\* A message that was tried or retried goes to the back.
PutBack(m) ==
    /\ m \in handled'
    /\ \/ rows'[m].next >= now'
       \/ rows'[m].next >= rows[m].next /\ (rows[m].quarantined => rows'[m].quarantined)

LEMMA OrderKept ==
  ASSUME TypeInvariant, TypeInvariant', NoNewMessage, Ordered, now' >= now,
         handled \subseteq handled',
         \A m \in Events : rows'[m] = NoRow \/ Calm(rows[m], rows'[m]) \/ PutBack(m),
         worker'.pc \in Busy => worker'.msg \in handled',
         worker'.pc \notin {"allowed", "reserved"},
         \/ worker'.batch = <<>>
         \/ /\ worker'.batch = worker.batch /\ config' = config /\ cooldown' = cooldown
            /\ Decideds' = Decideds
  PROVE  Ordered'
  <1>0. Untouched /\ UpdatesFirst /\ BatchOrdered
    BY DEF Ordered
  <1>1. Untouched'
    BY <1>0, EmptyValues DEF Untouched, Calm, PutBack
  <1>2. UpdatesFirst'
    <2>1. ASSUME NEW u \in Events \ handled', rows'[u] # NoRow
          PROVE  rows'[u].mergeUntil = rows[u].mergeUntil /\ rows'[u].next <= rows[u].next
      BY <2>1, RowTyped DEF Calm, PutBack
    <2>2. ASSUME NEW r \in Events, Ready(r)'
          PROVE  rows'[r].next >= now' \/ (Ready(r) /\ rows'[r].next >= rows[r].next)
      <3>1. rows'[r] # NoRow
        BY <2>2, EmptyValues DEF Ready, Waiting, Unsent
      <3>2. Waiting(r) /\ rows'[r].expires = rows[r].expires
        BY <2>2, WaitingBefore DEF Ready
      <3>3. rows[r].expires > now
        BY <2>2, <3>2, RowTyped, NextTyped DEF Ready
      <3> QED
        BY <2>2, <3>1, <3>2, <3>3, RowTyped DEF Ready, Calm, PutBack
    <2> QED
      BY <1>0, <2>1, <2>2, UpdatesKept
  <1>3. BatchOrdered'
    <2>1. CASE worker'.batch = <<>>
      BY <2>1, BatchEmpty
    <2>2. CASE worker'.batch # <<>>
      <3>1. \A u \in Events \ handled' :
               rows[u].quarantined /\ rows'[u] # NoRow => rows'[u].quarantined
        BY DEF Calm, PutBack
      <3>2. Cool(config.dest) => cooldown'[config.dest] <= now'
        <4>1. config.dest \in Receivers
          BY WorkerTyped
        <4>2. cooldown[config.dest] \in Nat /\ now \in Nat /\ now' \in Nat
          BY <4>1, MoreConstants DEF TypeInvariant
        <4> QED
          BY <2>2, <4>2 DEF Cool
      <3> QED
        BY <1>0, <2>2, <3>1, <3>2, BatchKept
    <2> QED
      BY <2>1, <2>2
  <1> QED
    BY <1>1, <1>2, <1>3 DEF Ordered, Unpaced

LEMMA CalmRow ==
  ASSUME TypeInvariant, NEW m \in Events
  PROVE  /\ Calm(rows[m], rows[m])
         /\ Calm(rows[m], [rows[m] EXCEPT !.lease = 0])
         /\ Calm(rows[m], [rows[m] EXCEPT !.sent = TRUE, !.lease = 0])
         /\ Calm(rows[m], [rows[m] EXCEPT !.isolated = TRUE, !.lease = 0])
         /\ Calm(rows[m], [rows[m] EXCEPT !.quarantined = TRUE])
         /\ Calm(rows[m], [rows[m] EXCEPT !.suppressed = now, !.body = NoBody])
  <1>1. rows[m] \in Row
    BY RowTyped
  <1> QED
    BY <1>1 DEF Calm, Row

\* Steps that leave the rows alone.
LEMMA OrderQuiet ==
  ASSUME Accounted, Accounted', NoNewMessage, Ordered, Interval = 0,
         \/ PassOver \/ Check \/ Send \/ Answer \/ WorkerError \/ Crash \/ Tick
         \/ ReserveNotificationAttempt \/ (\E s \in silences : RemoveSilence(s)) \/ UNCHANGED vars
  PROVE  Ordered'
  <1>0. TypeInvariant /\ TypeInvariant' /\ Untouched /\ Unpaced
    BY DEF Accounted, Typed, Ordered
  <1>1. ~ReserveNotificationAttempt
    BY <1>0 DEF Unpaced, ReserveNotificationAttempt
  <1>2. UNCHANGED <<rows, handled, config, cooldown, decision>>
    BY <1>1 DEF PassOver, Check, Send, Answer, WorkerError, Crash, Tick, RemoveSilence, vars, tables, ghost
  <1>3. now' >= now
    <2>1. now' = now \/ now' = now + 1
      BY <1>1 DEF PassOver, Check, Send, Answer, WorkerError, Crash, Tick, RemoveSilence, vars
    <2> QED
      BY <1>0, <2>1 DEF TypeInvariant
  <1>4. /\ worker'.batch = <<>> \/ worker'.batch = worker.batch
        /\ worker'.pc \in Busy => worker.pc \in Busy /\ worker'.msg = worker.msg
        /\ worker'.pc \notin {"allowed", "reserved"}
    <2>1. CASE PassOver \/ WorkerError \/ Crash
      BY <2>1 DEF PassOver, WorkerError, Crash, At, Busy
    <2>2. CASE Check
      <3>1. PICK p \in {"release", "ready"} : worker' = [worker EXCEPT !.pc = p]
        BY <2>2 DEF Check
      <3>2. worker.pc \in Busy
        BY <2>2 DEF Check, Busy
      <3> QED
        BY <1>0, <3>1, <3>2, WorkerTyped DEF Worker
    <2>3. CASE Send
      BY <1>0, <2>3, WorkerTyped DEF Send, Worker, Busy
    <2>4. CASE Answer
      <3>1. PICK r \in {"ok", "failed", "limited", "suspended", "permanent"} :
               worker' = [worker EXCEPT !.pc = "answered", !.result = r]
        BY <2>4 DEF Answer
      <3>2. worker.pc \in Busy
        BY <2>4 DEF Answer, Busy
      <3> QED
        BY <1>0, <3>1, <3>2, WorkerTyped DEF Worker
    <2>5. CASE Tick \/ (\E s \in silences : RemoveSilence(s)) \/ UNCHANGED vars
      BY <1>0, <2>5 DEF Tick, RemoveSilence, vars, Unpaced
    <2> QED
      BY <1>1, <2>1, <2>2, <2>3, <2>4, <2>5
  <1>5. worker'.pc \in Busy => worker'.msg \in handled'
    BY <1>0, <1>2, <1>4 DEF Untouched
  <1>6. Decideds' = Decideds
    BY <1>2 DEF Decideds
  <1>7. \A m \in Events : Calm(rows[m], rows'[m])
    BY <1>0, <1>2, CalmRow
  <1> QED
    BY <1>0, <1>2, <1>3, <1>4, <1>5, <1>6, <1>7, OrderKept

\* A claim given back, an answer recorded: the message was claimed, so that it
\* is not one the order is about, and it goes to the back.
LEMMA OrderRelease ==
  ASSUME Accounted, Accounted', NoNewMessage, Ordered, ReleaseNotificationClaim \/ StopWhileSending
  PROVE  Ordered'
  <1>0. TypeInvariant /\ TypeInvariant' /\ worker.pc \in Busy
    BY DEF Accounted, Typed, ReleaseNotificationClaim, StopWhileSending, Busy
  <1>1. PICK x \in Events : x = worker.msg
    BY <1>0, WorkerTyped
  <1>2. UNCHANGED <<now, decision, cooldown, config, handled>> /\ rows' = Released(x)
    BY <1>1 DEF ReleaseNotificationClaim, StopWhileSending, ghost
  <1>3. \A m \in Events : rows'[m] = rows[m] \/ rows'[m] = [rows[m] EXCEPT !.lease = 0]
    BY <1>0, <1>2 DEF Released, TypeInvariant
  <1>4. \A m \in Events : Calm(rows[m], rows'[m])
    BY <1>0, <1>3, CalmRow
  <1>5. /\ worker'.batch = <<>> \/ worker'.batch = worker.batch
        /\ worker'.pc \in {"pass", "down"}
    BY DEF ReleaseNotificationClaim, StopWhileSending, At
  <1>6. worker'.pc \notin Busy /\ worker'.pc \notin {"allowed", "reserved"}
    BY <1>5 DEF Busy
  <1>7. Decideds' = Decideds /\ now' >= now /\ handled \subseteq handled'
    BY <1>0, <1>2 DEF Decideds, TypeInvariant
  <1> QED
    BY <1>0, <1>2, <1>4, <1>5, <1>6, <1>7, OrderKept

LEMMA OrderRecord ==
  ASSUME Accounted, Accounted', NoNewMessage, Ordered, Interval = 0, Record
  PROVE  Ordered'
  <1>0. TypeInvariant /\ TypeInvariant' /\ Untouched /\ worker.pc \in Busy
    BY DEF Accounted, Typed, Ordered, Record, Busy
  <1>1. PICK x \in Events : x = worker.msg
    BY <1>0, WorkerTyped
  <1>2. /\ UNCHANGED <<now, decision, config, handled>> /\ x \in handled /\ rows[x] \in Row
        /\ now \in Nat /\ rows[x].next \in Nat
    BY <1>0, <1>1, RowTyped DEF Record, Untouched
  <1>3. Decideds' = Decideds /\ now' >= now /\ handled \subseteq handled'
    BY <1>2 DEF Decideds
  <1>4. worker'.pc \notin Busy /\ worker'.pc \notin {"allowed", "reserved"}
    <2>1. worker'.pc \in {"pass", "idle"}
      BY DEF Record, MarkSentWithCooldown, MarkFailed, MarkQuarantined, MarkRateLimited, At
    <2> QED
      BY <2>1 DEF Busy
  <1>5. \/ worker'.batch = <<>>
        \/ worker'.batch = worker.batch /\ cooldown' = cooldown
    BY DEF Record, MarkSentWithCooldown, MarkFailed, MarkQuarantined, MarkRateLimited, At
  <1>6. ASSUME NEW next \in Nat, next >= now \/ next >= rows[x].next, rows' = Tried(x, next)
        PROVE  \A m \in Events : Calm(rows[m], rows'[m]) \/ PutBack(m)
    <2>1. CASE Unsent(x)
      <3> DEFINE q == rows[x].quarantined \/ rows[x].attempts + 1 >= MaxAttempts
                 t == [rows[x] EXCEPT !.lease = 0, !.attempts = rows[x].attempts + 1, !.next = next,
                                      !.quarantined = q]
      <3>1. rows' = [rows EXCEPT ![x] = t]
        BY <1>6, <2>1 DEF Tried
      <3>2. t.next = next /\ (rows[x].quarantined => t.quarantined)
        BY <1>2 DEF Row
      <3> HIDE DEF t
      <3>3. rows'[x] = t /\ \A m \in Events \ {x} : rows'[m] = rows[m]
        BY <1>0, <3>1 DEF TypeInvariant
      <3>4. PutBack(x)
        BY <1>2, <1>6, <3>2, <3>3 DEF PutBack
      <3> QED
        BY <1>0, <3>3, <3>4, CalmRow
    <2>2. CASE ~Unsent(x)
      BY <1>0, <1>6, <2>2, CalmRow DEF Tried
    <2> QED
      BY <2>1, <2>2
  <1>7. \A m \in Events : Calm(rows[m], rows'[m]) \/ PutBack(m)
    <2>1. CASE MarkSentWithCooldown(x)
      <3>1. \A m \in Events : \/ rows'[m] = rows[m]
                              \/ rows'[m] = [rows[m] EXCEPT !.sent = TRUE, !.lease = 0]
        <4>1. rows' = rows \/ rows' = [rows EXCEPT ![x] = [rows[x] EXCEPT !.sent = TRUE, !.lease = 0]]
          BY <2>1 DEF MarkSentWithCooldown
        <4>2. rows \in [Events -> Row]
          BY <1>0 DEF TypeInvariant
        <4> QED
          BY <4>1, <4>2
      <3> QED
        BY <1>0, <3>1, CalmRow
    <2>2. CASE MarkFailed(x)
      <3>1. PICK d \in RetryDelays : rows' = Tried(x, now + Later(d, Interval))
        BY <2>2 DEF MarkFailed
      <3>2. now + Later(d, Interval) \in Nat /\ now + Later(d, Interval) >= now
        BY <1>2, Constants, MoreConstants DEF Later
      <3> QED
        BY <1>6, <3>1, <3>2
    <2>3. CASE MarkRateLimited(x)
      <3>1. PICK until \in IF worker.result = "suspended" THEN {Forever} ELSE {now + d : d \in Holds} :
               rows' = Tried(x, Later(rows[x].next, until))
        BY <2>3 DEF MarkRateLimited
      <3>2. until \in Nat
        BY <1>2, <3>1, Constants
      <3>3. Later(rows[x].next, until) \in Nat /\ Later(rows[x].next, until) >= rows[x].next
        BY <1>2, <3>2 DEF Later
      <3> QED
        BY <1>6, <3>1, <3>3
    <2>4. CASE MarkQuarantined(x)
      <3>1. CASE rows' = rows
        BY <1>0, <3>1, CalmRow
      <3>2. CASE rows' # rows
        <4> DEFINE t == [rows[x] EXCEPT !.lease = 0, !.attempts = rows[x].attempts + 1,
                                        !.quarantined = TRUE]
        <4>1. rows' = [rows EXCEPT ![x] = t]
          BY <2>4, <3>2 DEF MarkQuarantined
        <4>2. t.next = rows[x].next /\ t.quarantined
          BY <1>2 DEF Row
        <4> HIDE DEF t
        <4>3. rows'[x] = t /\ \A m \in Events \ {x} : rows'[m] = rows[m]
          BY <1>0, <4>1 DEF TypeInvariant
        <4>4. PutBack(x)
          BY <1>2, <4>2, <4>3 DEF PutBack
        <4> QED
          BY <1>0, <4>3, <4>4, CalmRow
      <3> QED
        BY <3>1, <3>2
    <2> QED
      BY <1>1, <2>1, <2>2, <2>3, <2>4 DEF Record
  <1> QED
    BY <1>0, <1>2, <1>3, <1>4, <1>5, <1>7, OrderKept

\* Commands and restarts: what is retried by hand goes to the back.
LEMMA OrderCommand ==
  ASSUME Accounted, Accounted', NoNewMessage, Ordered,
         \/ \E m \in Events : RetryNotification(m) \/ QuarantineNotification(m)
         \/ DiscardIsolatedNotifications
         \/ \E rule \in SilenceRules, d \in SilenceTimes : AddSilence(rule, d)
         \/ \E c \in Configs : Start(c)
  PROVE  Ordered'
  <1>0. TypeInvariant /\ TypeInvariant' /\ Untouched /\ Unpaced
    BY DEF Accounted, Typed, Ordered
  <1>1. now' = now /\ now' >= now /\ handled \subseteq handled' /\ cooldown' = cooldown
    <2>1. UNCHANGED <<now, cooldown>>
      BY DEF RetryNotification, QuarantineNotification, DiscardIsolatedNotifications, AddSilence, Start
    <2>2. handled \subseteq handled'
      BY DEF RetryNotification, QuarantineNotification, DiscardIsolatedNotifications, AddSilence,
             Start, ghost
    <2>3. now \in Nat
      BY <1>0, MoreConstants DEF TypeInvariant
    <2> QED
      BY <2>1, <2>2, <2>3
  <1>2. CASE \E c \in Configs : Start(c)
    <2>1. PICK c \in Configs : Start(c)
      BY <1>2
    <2>2. \A m \in Events : \/ rows'[m] = rows[m]
                            \/ rows'[m] = [rows[m] EXCEPT !.isolated = TRUE, !.lease = 0]
      BY <2>1 DEF Start, Retargeted
    <2>3. worker'.batch = <<>> /\ worker'.pc = "idle"
      BY <2>1 DEF Start, At
    <2>4. worker'.pc \notin Busy
      BY <2>3 DEF Busy
    <2>5. \A m \in Events : Calm(rows[m], rows'[m])
      BY <1>0, <2>2, CalmRow
    <2> QED
      BY <1>0, <1>1, <2>3, <2>4, <2>5, OrderKept
  <1>3. ASSUME ~\E c \in Configs : Start(c),
               \A m \in Events : rows'[m] = NoRow \/ Calm(rows[m], rows'[m]) \/ PutBack(m),
               Decideds' = Decideds
        PROVE  Ordered'
    <2>1. worker' = worker /\ config' = config
      BY <1>3 DEF RetryNotification, QuarantineNotification, DiscardIsolatedNotifications, AddSilence
    <2>2. /\ worker'.pc \in Busy => worker'.msg \in handled'
          /\ worker'.pc \notin {"allowed", "reserved"}
      BY <1>0, <1>1, <2>1 DEF Untouched, Unpaced
    <2> QED
      BY <1>0, <1>1, <1>3, <2>1, <2>2, OrderKept
  <1>4. ASSUME NEW x \in Events, RetryNotification(x), ~\E c \in Configs : Start(c) PROVE Ordered'
    <2> DEFINE t == [rows[x] EXCEPT !.attempts = 0, !.quarantined = FALSE, !.lease = 0,
                                    !.mergeUntil = 0, !.next = now]
    <2>1. rows' = [rows EXCEPT ![x] = t] /\ x \in handled' /\ Decideds' = Decideds
      BY <1>4 DEF RetryNotification, Decideds
    <2>2. t.next = now
      BY <1>0, RowTyped DEF Row
    <2> HIDE DEF t
    <2>3. rows'[x] = t /\ \A m \in Events \ {x} : rows'[m] = rows[m]
      BY <1>0, <2>1 DEF TypeInvariant
    <2>4. PutBack(x)
      BY <1>0, <1>1, <2>1, <2>2, <2>3 DEF PutBack, TypeInvariant
    <2> QED
      BY <1>0, <1>3, <1>4, <2>1, <2>3, <2>4, CalmRow
  <1>5. ASSUME NEW x \in Events, QuarantineNotification(x), ~\E c \in Configs : Start(c) PROVE Ordered'
    <2>1. rows' = [rows EXCEPT ![x] = [rows[x] EXCEPT !.quarantined = TRUE]] /\ Decideds' = Decideds
      BY <1>5 DEF QuarantineNotification, Decideds
    <2>2. \A m \in Events : rows'[m] = rows[m] \/ rows'[m] = [rows[m] EXCEPT !.quarantined = TRUE]
      BY <1>0, <2>1 DEF TypeInvariant
    <2>3. \A m \in Events : Calm(rows[m], rows'[m])
      BY <1>0, <2>2, CalmRow
    <2> QED
      BY <1>3, <1>5, <2>1, <2>3
  <1>6. ASSUME DiscardIsolatedNotifications, ~\E c \in Configs : Start(c) PROVE Ordered'
    <2>1. Decideds' = Decideds
      BY <1>6 DEF DiscardIsolatedNotifications, Decideds
    <2>2. \A m \in Events : \/ rows'[m] = rows[m]
                            \/ rows'[m] = [rows[m] EXCEPT !.suppressed = now, !.body = NoBody]
      BY <1>6 DEF DiscardIsolatedNotifications
    <2>3. \A m \in Events : Calm(rows[m], rows'[m])
      BY <1>0, <2>2, CalmRow
    <2> QED
      BY <1>3, <1>6, <2>1, <2>3
  <1>7. ASSUME NEW rule \in SilenceRules, NEW d \in SilenceTimes, AddSilence(rule, d),
               ~\E c \in Configs : Start(c)
        PROVE  Ordered'
    <2>1. Decideds' = Decideds
      <3>1. ASSUME NEW e \in Events PROVE decision'[e] = Undecided <=> decision[e] = Undecided
        <4>1. \/ decision'[e] = decision[e]
              \/ /\ decision[e].row \in Events
                 /\ decision'[e] = [decision[e] EXCEPT !.what = "silenced"]
          BY <1>7 DEF AddSilence
        <4>2. CASE decision'[e] # decision[e]
          <5>1. decision[e] \in Decision
            BY <1>0, RowTyped
          <5>2. decision'[e].row = decision[e].row
            BY <4>1, <4>2, <5>1 DEF Decision
          <5> QED
            BY <4>1, <4>2, <5>2, MoreConstants DEF Undecided
        <4> QED
          BY <4>2
      <3> QED
        BY <3>1 DEF Decideds
    <2>2. \A m \in Events : \/ rows'[m] = NoRow
                            \/ rows'[m] = rows[m]
                            \/ rows'[m] = [rows[m] EXCEPT !.suppressed = now, !.body = NoBody]
      BY <1>7 DEF AddSilence
    <2>3. \A m \in Events : rows'[m] = NoRow \/ Calm(rows[m], rows'[m])
      BY <1>0, <2>2, CalmRow
    <2> QED
      BY <1>3, <1>7, <2>1, <2>3
  <1> QED
    BY <1>2, <1>4, <1>5, <1>6, <1>7

\* A resume makes a receiver's messages due now, closed updates and recoveries
\* alike.
LEMMA OrderResume ==
  ASSUME Accounted, Accounted', NoNewMessage, Ordered, NEW d \in Receivers, ResumeDestination(d)
  PROVE  Ordered'
  <1>0. TypeInvariant /\ TypeInvariant' /\ Untouched /\ UpdatesFirst /\ BatchOrdered /\ Unpaced
    BY DEF Accounted, Typed, Ordered
  <1>1. /\ UNCHANGED <<now, decision, config, worker, handled>>
        /\ cooldown' = [cooldown EXCEPT ![d] = 0]
    BY DEF ResumeDestination
  <1>2. Decideds' = Decideds /\ now' >= now /\ handled \subseteq handled' /\ now \in Nat
    BY <1>0, <1>1, MoreConstants DEF Decideds, TypeInvariant
  <1> DEFINE Resumed(m) == Waiting(m) /\ rows[m].dest = d /\ ~rows[m].quarantined /\ rows[m].expires > now
  <1>3. \A m \in Events :
           rows'[m] = IF Resumed(m) THEN [rows[m] EXCEPT !.next = Later(now, rows[m].mergeUntil)]
                      ELSE rows[m]
    BY DEF ResumeDestination, Waiting
  <1>4. \A m \in Events : /\ rows'[m].mergeUntil = rows[m].mergeUntil
                          /\ rows'[m].quarantined = rows[m].quarantined
                          /\ rows'[m].attempts = rows[m].attempts /\ rows'[m].lease = rows[m].lease
                          /\ rows'[m].next = IF Resumed(m) THEN Later(now, rows[m].mergeUntil)
                                             ELSE rows[m].next
    <2> SUFFICES ASSUME NEW m \in Events
                 PROVE  /\ rows'[m].mergeUntil = rows[m].mergeUntil
                        /\ rows'[m].quarantined = rows[m].quarantined
                        /\ rows'[m].attempts = rows[m].attempts /\ rows'[m].lease = rows[m].lease
                        /\ rows'[m].next = IF Resumed(m) THEN Later(now, rows[m].mergeUntil)
                                           ELSE rows[m].next
      OBVIOUS
    <2>1. rows[m] \in Row
      BY <1>0, RowTyped
    <2>2. CASE Resumed(m)
      BY <1>3, <2>1, <2>2 DEF Row
    <2>3. CASE ~Resumed(m)
      BY <1>3, <2>3
    <2> QED
      BY <2>2, <2>3
  <1>5. Untouched'
    BY <1>0, <1>1, <1>4 DEF Untouched
  <1>6. UpdatesFirst'
    <2>1. ASSUME NEW u \in Events
          PROVE  /\ rows'[u].mergeUntil = rows[u].mergeUntil
                 /\ \/ rows'[u].next <= rows[u].next
                    \/ rows[u].mergeUntil = 0 => rows'[u].next <= now'
      BY <1>0, <1>1, <1>2, <1>4, RowTyped DEF Later
    <2>2. ASSUME NEW r \in Events, Ready(r)'
          PROVE  \/ rows'[r].next >= now'
                 \/ /\ Ready(r) /\ rows'[r].next >= rows[r].next
                    /\ \A u \in Events \ handled' :
                         rows'[u] # NoRow /\ rows[u].dest = rows[r].dest =>
                            rows'[u].next <= rows[u].next
      <3>1. Ready(r)
        BY <1>0, <1>1, <1>4, <2>2, WaitingBefore DEF Ready
      <3>2. CASE rows[r].dest = d
        <4>1. rows'[r].next = Later(now, rows[r].mergeUntil)
          BY <1>4, <3>1, <3>2 DEF Ready
        <4> QED
          BY <1>0, <1>1, <1>2, <4>1, RowTyped DEF Later
      <3>3. CASE rows[r].dest # d
        BY <1>0, <1>4, <3>1, <3>3, RowTyped
      <3> QED
        BY <3>2, <3>3
    <2> QED
      BY <1>0, <1>2, <2>1, <2>2, UpdatesKept
  <1>7. BatchOrdered'
    <2>1. Cool(config.dest) => cooldown'[config.dest] <= now'
      BY <1>0, <1>1, <1>2, WorkerTyped DEF Cool, TypeInvariant
    <2> QED
      BY <1>0, <1>1, <1>2, <1>4, <2>1, BatchKept
  <1> QED
    BY <1>0, <1>1, <1>5, <1>6, <1>7 DEF Ordered, Unpaced

\* A fetch lists every due message.
LEMMA DueListed ==
  ASSUME NEW D, IsFiniteSet(D), NEW s \in Orders(D), NEW u \in D
  PROVE  /\ s \in [1 .. Cardinality(D) -> D] /\ Cardinality(D) \in Nat
         /\ \E i \in 1 .. Cardinality(D) : s[i] = u
  <1>1. s \in [1 .. Cardinality(D) -> D] /\ Cardinality(D) \in Nat
    BY FS_CardinalityType DEF Orders
  <1>2. PICK n \in Nat : n = Cardinality(D)
    BY <1>1
  <1>3. s \in [1 .. n -> D] /\ \A i, j \in 1 .. n : i < j => s[i] # s[j]
    BY <1>1, <1>2 DEF Orders
  <1>4. IsInjective(s)
    BY <1>3 DEF IsInjective
  <1>5. s \in Injection(1 .. n, D)
    BY <1>3, <1>4 DEF Injection
  <1>6. Cardinality(1 .. n) = n
    BY FS_Interval
  <1>7. s \in Surjection(1 .. n, D)
    BY <1>2, <1>5, <1>6, FS_Injection
  <1> QED
    BY <1>1, <1>2, <1>7 DEF Surjection

\* The fetch lists the due messages by their times, and with a recovery the
\* updates it ends, which are due as well.
LEMMA OrderFetch ==
  ASSUME Accounted, Accounted', NoNewMessage, Ordered, PendingDestination
  PROVE  Ordered'
  <1>0. /\ TypeInvariant /\ TypeInvariant' /\ DecidedOnce
        /\ Untouched /\ UpdatesFirst /\ Unpaced
    BY DEF Accounted, Typed, Fates, Ordered
  <1> DEFINE D == {m \in Events : Due(m)}
  <1>1. IsFiniteSet(D)
    <2>1. D \in SUBSET Decideds
      BY <1>0 DEF DecidedOnce, Due, Live, Unsent
    <2> QED
      BY <1>0, <2>1, FS_Subset DEF DecidedOnce
  <1>2. PICK s \in Orders(D) : worker' = At("pass", SubSeq(s, 1, Earlier(PassLimit, Len(s))))
    BY DEF PendingDestination
  <1>3. PICK n \in Nat : n = Cardinality(D)
    BY <1>1, FS_CardinalityType
  <1>4. /\ s \in [1 .. n -> D]
        /\ \A i, j \in 1 .. n : i < j => Before(s[i], s[j])
        /\ \A u \in D : \E i \in 1 .. n : s[i] = u
    <2> HIDE DEF D
    <2>1. s \in [1 .. n -> D] /\ \A i, j \in 1 .. n : i < j => Before(s[i], s[j])
      BY <1>3 DEF Orders
    <2>2. \A u \in D : \E i \in 1 .. n : s[i] = u
      BY <1>1, <1>3, DueListed
    <2> QED
      BY <2>1, <2>2
  <1>5. Len(s) = n
    <2>1. s \in [1 .. n -> Events]
      BY <1>4
    <2> HIDE DEF D
    <2> QED
      BY <2>1
  <1>6. PICK k \in Nat : k = Earlier(PassLimit, Len(s)) /\ k <= n
    BY <1>5, MoreConstants DEF Earlier
  <1>7. /\ worker'.pc = "pass" /\ Len(worker'.batch) = k
        /\ \A i \in 1 .. k : worker'.batch[i] = s[i]
    <2>1. \A i \in 1 .. k : s[i] \in Events
      BY <1>4, <1>6
    <2>2. /\ Len(SubSeq(s, 1, k)) = IF 1 <= k THEN k - 1 + 1 ELSE 0
          /\ \A i \in 1 .. k - 1 + 1 : SubSeq(s, 1, k)[i] = s[1 + i - 1]
      BY <2>1, <1>6, SubSeqProperties
    <2>3. Len(SubSeq(s, 1, k)) = k /\ \A i \in 1 .. k : SubSeq(s, 1, k)[i] = s[i]
      BY <2>2
    <2>4. worker'.pc = "pass" /\ worker'.batch = SubSeq(s, 1, k)
      BY <1>2, <1>6 DEF At
    <2> QED
      BY <2>3, <2>4
  <1> HIDE DEF D
  <1>8. /\ UNCHANGED <<now, decision, config, handled>> /\ cooldown' = SweptCooldown
        /\ \A m \in Events : rows'[m] = NoRow \/ rows'[m] = rows[m]
    BY DEF PendingDestination, SweptRows, ghost
  <1>9. Untouched'
    BY <1>0, <1>7, <1>8, EmptyValues DEF Untouched, Busy
  <1>10. UpdatesFirst'
    <2>1. now' >= now /\ handled \subseteq handled'
      BY <1>0, <1>8 DEF TypeInvariant
    <2>2. ASSUME NEW u \in Events \ handled', rows'[u] # NoRow
          PROVE  rows'[u].mergeUntil = rows[u].mergeUntil /\ rows'[u].next <= rows[u].next
      BY <1>0, <1>8, <2>2, RowTyped
    <2>3. ASSUME NEW r \in Events, Ready(r)' PROVE Ready(r) /\ rows'[r].next >= rows[r].next
      <3>1. rows'[r] = rows[r]
        BY <1>8, <2>3, EmptyValues DEF Ready, Waiting, Unsent
      <3> QED
        BY <1>0, <1>8, <2>3, <3>1, RowTyped DEF Ready, Waiting, Unsent, Silenced
    <2> QED
      BY <1>0, <2>1, <2>2, <2>3, UpdatesKept
  <1>11. ASSUME NEW j \in 1 .. k, NEW r \in Events, r = s[j]
         PROVE  /\ r \in Decideds' /\ TargetOn(config.dest)' /\ Cool(config.dest)'
                /\ rows'[r].present => rows'[r].dest = config.dest
                /\ \A u \in Events : Ends(r, u)' /\ Live(u)' =>
                      \E i \in 1 .. (j - 1) : worker'.batch[i] = u
    <2>1. Due(r)
      BY <1>4, <1>6, <1>11 DEF D
    <2>2. TargetOn(config.dest) /\ Cool(config.dest) /\ rows[r].dest = config.dest
      BY <2>1 DEF Due, TargetOn
    <2>3. r \in Decideds'
      BY <1>0, <1>8, <2>1 DEF Due, Live, Unsent, DecidedOnce, Decideds
    <2>4. TargetOn(config.dest)' /\ Cool(config.dest)'
      BY <1>0, <1>8, <2>2, WorkerTyped DEF TargetOn, Cool, SweptCooldown, TypeInvariant
    <2>5. rows'[r].present => rows'[r].dest = config.dest
      BY <1>8, <2>2, EmptyValues
    <2>6. ASSUME NEW u \in Events, Ends(r, u)', Live(u)'
          PROVE  \E i \in 1 .. (j - 1) : worker'.batch[i] = u
      <3>1. rows'[u] = rows[u] /\ rows'[r] = rows[r]
        BY <1>8, <2>6, EmptyValues DEF Ends
      <3>2. Ends(r, u) /\ Live(u)
        BY <1>8, <2>6, <3>1 DEF Ends, Live, Unsent, Silenced
      <3>3. Waiting(u) /\ Ready(r)
        BY <2>1, <3>2 DEF Due, Live, Waiting, Ready
      <3>4. rows[u].next <= now /\ rows[u].next <= rows[r].next /\ rows[u].lease = 0
        BY <1>0, <3>2, <3>3 DEF UpdatesFirst, Untouched, Ends
      <3>5. Due(u)
        BY <1>0, <2>1, <3>2, <3>4, RowTyped DEF Due, Ends
      <3>6. PICK i \in 1 .. n : s[i] = u
        BY <1>4, <3>5 DEF D
      <3>7. i # j
        BY <1>11, <3>2, <3>6 DEF Ends
      <3>8. ~Before(r, u)
        BY <1>0, <3>2, <3>4, RowTyped DEF Before, Ends
      <3>9. i < j
        BY <1>4, <1>6, <1>11, <3>6, <3>7, <3>8
      <3> QED
        BY <1>6, <1>7, <3>6, <3>9
    <2> QED
      BY <2>2, <2>3, <2>4, <2>5, <2>6
  <1>12. BatchOrdered'
    <2> SUFFICES ASSUME NEW j \in 1 .. k, NEW r \in Events, r = s[j]
                 PROVE  /\ r \in Decideds' /\ TargetOn(config.dest)' /\ Cool(config.dest)'
                        /\ rows'[r].present => rows'[r].dest = config'.dest
                        /\ \A u \in Events : Ends(r, u)' /\ Live(u)' =>
                              \E i \in 1 .. (j - 1) : worker'.batch[i] = u
      <3>1. \A j \in 1 .. k : s[j] \in Events
        BY <1>4, <1>6 DEF D
      <3> QED
        BY <1>7, <3>1 DEF BatchOrdered, Position
    <2> QED
      BY <1>8, <1>11
  <1> QED
    BY <1>7, <1>9, <1>10, <1>12 DEF Ordered, Unpaced

\* The update a pass lists before its recovery is claimed when its turn comes,
\* being due since the recovery was queued; only then it leaves the list.
LEMMA OrderClaim ==
  ASSUME Accounted, Accounted', NoNewMessage, Ordered, ClaimNotification
  PROVE  Ordered'
  <1>0. /\ TypeInvariant /\ TypeInvariant'
        /\ Untouched /\ UpdatesFirst /\ BatchOrdered /\ Unpaced
    BY DEF Accounted, Typed, Ordered
  <1>1. /\ worker.batch \in Seq(Events) /\ worker.batch # <<>> /\ Len(worker.batch) \in Nat
        /\ Head(worker.batch) \in Events /\ Head(worker.batch) = worker.batch[1]
        /\ Tail(worker.batch) \in Seq(Events)
        /\ Len(Tail(worker.batch)) = Len(worker.batch) - 1
        /\ \A i \in 1 .. Len(Tail(worker.batch)) : Tail(worker.batch)[i] = worker.batch[i + 1]
    <2>1. worker.batch \in Seq(Events) /\ worker.batch # <<>>
      BY <1>0, WorkerTyped DEF ClaimNotification
    <2>2. Head(worker.batch) = worker.batch[1] /\ Len(worker.batch) \in Nat
      BY <2>1
    <2> QED
      BY <2>1, <2>2, HeadTailProperties
  <1>1a. PICK m \in Events, b \in Seq(Events) : m = Head(worker.batch) /\ b = Tail(worker.batch)
    BY <1>1
  <1>1b. /\ m = worker.batch[1] /\ Len(worker.batch) = Len(b) + 1
         /\ \A i \in 1 .. Len(b) : b[i] = worker.batch[i + 1]
    BY <1>1, <1>1a
  <1>2. UNCHANGED <<now, decision, cooldown, config>> /\ now \in Nat
    BY <1>0, MoreConstants DEF ClaimNotification, TypeInvariant
  <1>3. /\ worker'.batch = b /\ worker'.pc \in {"pass", "claimed"}
        /\ worker'.pc = "claimed" => worker'.msg = m /\ m \in handled'
        /\ handled \subseteq handled' /\ (Due(m) => m \in handled')
        /\ rows' = rows \/ (rows' = [rows EXCEPT ![m].lease = now + Lease] /\ m \in handled')
    <2>1. CASE Due(m)
      <3>1. /\ rows' = [rows EXCEPT ![m].lease = now + Lease]
            /\ handled' = handled \cup {m}
            /\ worker' = [At("claimed", b) EXCEPT !.msg = m, !.body = rows[m].body]
        BY <1>1a, <2>1 DEF ClaimNotification
      <3>2. worker'.batch = b /\ worker'.pc = "claimed" /\ worker'.msg = m
        BY <3>1 DEF At
      <3> QED
        BY <3>1, <3>2
    <2>2. CASE ~Due(m)
      <3>1. worker' = At("pass", b) /\ UNCHANGED <<rows, handled>>
        BY <1>1a, <2>2 DEF ClaimNotification
      <3>2. worker'.batch = b /\ worker'.pc = "pass"
        BY <3>1 DEF At
      <3> QED
        BY <2>2, <3>1, <3>2
    <2> QED
      BY <2>1, <2>2
  <1>4. \A x \in Events : /\ rows'[x].next = rows[x].next /\ rows'[x].mergeUntil = rows[x].mergeUntil
                          /\ rows'[x].attempts = rows[x].attempts
                          /\ rows'[x].quarantined = rows[x].quarantined
                          /\ rows'[x].lease = rows[x].lease \/ x \in handled'
                          /\ rows'[x].present = rows[x].present /\ rows'[x].dest = rows[x].dest
                          /\ rows'[x].created = rows[x].created /\ rows'[x].sent = rows[x].sent
                          /\ rows'[x].suppressed = rows[x].suppressed
                          /\ rows'[x].isolated = rows[x].isolated /\ rows'[x].expires = rows[x].expires
    <2>1. CASE rows' = rows
      BY <2>1
    <2>2. CASE rows' = [rows EXCEPT ![m].lease = now + Lease] /\ m \in handled'
      <3>1. rows'[m] = [rows[m] EXCEPT !.lease = now + Lease] /\ rows[m] \in Row
            /\ \A x \in Events \ {m} : rows'[x] = rows[x]
        BY <1>0, <2>2, RowTyped DEF TypeInvariant
      <3>2. /\ rows'[m].next = rows[m].next /\ rows'[m].mergeUntil = rows[m].mergeUntil
            /\ rows'[m].attempts = rows[m].attempts /\ rows'[m].quarantined = rows[m].quarantined
            /\ rows'[m].present = rows[m].present /\ rows'[m].dest = rows[m].dest
            /\ rows'[m].created = rows[m].created /\ rows'[m].sent = rows[m].sent
            /\ rows'[m].suppressed = rows[m].suppressed
            /\ rows'[m].isolated = rows[m].isolated /\ rows'[m].expires = rows[m].expires
        BY <3>1 DEF Row
      <3> QED
        BY <2>2, <3>1, <3>2
    <2> QED
      BY <1>3, <2>1, <2>2
  <1>5. Untouched'
    BY <1>0, <1>3, <1>4 DEF Untouched, Busy
  <1>6. UpdatesFirst'
    <2>1. \A r \in Events : /\ Ready(r)' => Ready(r)
                            /\ rows'[r].next >= rows[r].next /\ rows'[r].next <= rows[r].next
      BY <1>0, <1>2, <1>4, RowTyped DEF Ready, Waiting, Unsent, Silenced
    <2> QED
      BY <1>0, <1>2, <1>3, <1>4, <2>1, UpdatesKept
  <1>7. ASSUME NEW j \in 1 .. Len(b), NEW r \in Events, r = b[j]
        PROVE  /\ r \in Decideds' /\ TargetOn(config.dest) /\ Cool(config.dest)
               /\ rows'[r].present => rows'[r].dest = config.dest
               /\ \A u \in Events : Ends(r, u)' /\ Live(u)' => \E i \in 1 .. (j - 1) : b[i] = u
    <2>1. r = worker.batch[j + 1] /\ j + 1 \in 1 .. Len(worker.batch)
      BY <1>1b, <1>7
    <2>2. /\ r \in Decideds /\ TargetOn(config.dest) /\ Cool(config.dest)
          /\ rows[r].present => rows[r].dest = config.dest
          /\ \A u \in Events : Ends(r, u) /\ Live(u) => Position(u, j + 1)
      BY <1>0, <2>1 DEF BatchOrdered
    <2>3. r \in Decideds'
      BY <1>2, <2>2 DEF Decideds
    <2>4. ASSUME NEW u \in Events, Ends(r, u)', Live(u)' PROVE \E i \in 1 .. (j - 1) : b[i] = u
      <3>1. Ends(r, u) /\ Live(u) /\ u \notin handled'
        BY <1>2, <1>3, <1>4, <2>4 DEF Ends, Live, Unsent, Silenced
      <3>2. PICK i \in 1 .. j : worker.batch[i] = u
        BY <2>2, <3>1 DEF Position
      <3>3. i # 1
        <4> SUFFICES ASSUME i = 1 PROVE FALSE
          OBVIOUS
        <4>1. u = m
          BY <1>1b, <3>2
        <4>2. rows[u].next <= now /\ rows[u].lease = 0
          BY <1>0, <3>1 DEF UpdatesFirst, Untouched, Ends, Live, Waiting
        <4>3. rows[u].dest = config.dest
          BY <2>2, <3>1 DEF Ends
        <4>4. Due(u)
          BY <1>2, <2>2, <3>1, <4>2, <4>3 DEF Due
        <4> QED
          BY <1>3, <3>1, <4>1, <4>4
      <3>4. i - 1 \in 1 .. (j - 1) /\ i - 1 \in 1 .. Len(b) /\ (i - 1) + 1 = i
        BY <1>1b, <3>2, <3>3
      <3>5. b[i - 1] = u
        BY <1>1b, <3>2, <3>4
      <3> QED
        BY <3>4, <3>5
    <2> QED
      BY <1>4, <2>2, <2>3, <2>4
  <1>8. BatchOrdered'
    <2> SUFFICES ASSUME NEW j \in 1 .. Len(b), NEW r \in Events, r = b[j]
                 PROVE  /\ r \in Decideds' /\ TargetOn(config.dest)' /\ Cool(config.dest)'
                        /\ rows'[r].present => rows'[r].dest = config'.dest
                        /\ \A u \in Events : Ends(r, u)' /\ Live(u)' =>
                              \E i \in 1 .. (j - 1) : b[i] = u
      <3>1. \A j \in 1 .. Len(b) : b[j] \in Events
        BY <1>1a
      <3> QED
        BY <1>3, <3>1 DEF BatchOrdered, Position
    <2> QED
      BY <1>2, <1>7 DEF TargetOn, Cool
  <1> QED
    BY <1>3, <1>5, <1>6, <1>8 DEF Ordered, Unpaced

-----------------------------------------------------------------------------
(* An event is decided: the step that makes the order *)

\* What deciding an event makes of the other messages: a body grows, or an
\* update is due earlier.
Hastened(m) ==
    /\ rows'[m].present = rows[m].present /\ rows'[m].expires = rows[m].expires
    /\ rows'[m].sent = rows[m].sent /\ rows'[m].suppressed = rows[m].suppressed
    /\ rows'[m].dest = rows[m].dest /\ rows'[m].created = rows[m].created
    /\ rows'[m].isolated = rows[m].isolated /\ rows'[m].quarantined = rows[m].quarantined
    /\ rows'[m].lease = rows[m].lease /\ rows'[m].attempts = rows[m].attempts
    /\ rows'[m].mergeUntil \in {rows[m].mergeUntil, 0} /\ rows'[m].next <= rows[m].next
    /\ Phase[m] = "recovery" => rows'[m].next = rows[m].next
\* The message of an event decided now, before which a recovery puts the
\* updates it ends.
Founded(m) ==
    /\ rows'[m].created = now /\ rows'[m].lease = 0 /\ rows'[m].attempts = 0
    /\ Phase[m] = "recovery" =>
         /\ rows'[m].next = now
         /\ \A u \in Events : Ends(m, u)' /\ Waiting(u)' =>
              rows'[u].next <= now /\ rows'[u].mergeUntil = 0

LEMMA OrderDecided ==
  ASSUME Accounted, Accounted', Ordered, NEW e \in Events, e \notin Decideds,
         Decideds \subseteq Decideds',
         UNCHANGED <<now, cooldown, config, worker, handled>>,
         \A m \in Events \ {e} : Hastened(m),
         Hastened(e) \/ Founded(e)
  PROVE  Ordered'
  <1>0. /\ TypeInvariant /\ TypeInvariant'
        /\ Untouched /\ UpdatesFirst /\ BatchOrdered /\ Unpaced /\ now \in Nat
    BY MoreConstants DEF Accounted, Typed, Ordered, TypeInvariant
  <1>1. Untouched'
    BY <1>0 DEF Untouched, Hastened, Founded
  <1>2. \A m \in Events : rows'[m].created <= now
    BY <1>0 DEF UpdatesFirst, Hastened, Founded
  <1>3. ASSUME NEW r \in Events, NEW u \in Events, Ends(r, u)', Hastened(r)
        PROVE  /\ Hastened(u) /\ Ends(r, u)
               /\ Waiting(u)' => Waiting(u) /\ (Live(u)' => Live(u))
               /\ Ready(r)' => Ready(r)
    <2>1. Hastened(u)
      <3>1. rows'[u].created < rows'[r].created /\ rows'[r].created <= now
        BY <1>2, <1>3 DEF Ends
      <3>2. rows'[u].created # now
        BY <1>0, <3>1, NextTyped
      <3> QED
        BY <3>2 DEF Founded
    <2>2. Ends(r, u)
      BY <1>3, <2>1 DEF Ends, Hastened
    <2> QED
      BY <1>3, <2>1, <2>2 DEF Hastened, Waiting, Live, Unsent, Silenced, Ready
  <1>4. UpdatesFirst'
    <2> SUFFICES ASSUME NEW r \in Events, NEW u \in Events, Ends(r, u)', Waiting(u)'
                 PROVE  /\ rows'[u].next <= now /\ rows'[u].mergeUntil = 0
                        /\ Ready(r)' => rows'[u].next <= rows'[r].next
      BY <1>2 DEF UpdatesFirst
    <2>1. CASE Hastened(r)
      <3>1. Hastened(u) /\ Ends(r, u) /\ Waiting(u) /\ (Ready(r)' => Ready(r))
        BY <1>3, <2>1
      <3>2. /\ rows[u].next <= now /\ rows[u].mergeUntil = 0
            /\ Ready(r) => rows[u].next <= rows[r].next
        BY <1>0, <3>1 DEF UpdatesFirst
      <3>3. Phase[r] = "recovery"
        BY <3>1 DEF Ends
      <3>4. rows'[u].next \in Nat /\ rows[u].next \in Nat /\ rows[r].next \in Nat
        BY <1>0, RowTyped, NextTyped
      <3> QED
        BY <1>0, <2>1, <3>1, <3>2, <3>3, <3>4 DEF Hastened
    <2>2. CASE ~Hastened(r)
      <3>1. Founded(r) /\ Phase[r] = "recovery"
        BY <2>2 DEF Ends
      <3> QED
        BY <3>1 DEF Founded
    <2> QED
      BY <2>1, <2>2
  <1>5. BatchOrdered'
    <2> SUFFICES ASSUME NEW j \in 1 .. Len(worker.batch), NEW r \in Events, r = worker.batch[j]
                 PROVE  /\ r \in Decideds' /\ TargetOn(config.dest) /\ Cool(config.dest)
                        /\ rows'[r].present => rows'[r].dest = config.dest
                        /\ \A u \in Events : Ends(r, u)' /\ Live(u)' => Position(u, j)
      BY <1>0, BatchTyped DEF BatchOrdered, TargetOn, Cool, Position
    <2>1. /\ r \in Decideds /\ TargetOn(config.dest) /\ Cool(config.dest)
          /\ rows[r].present => rows[r].dest = config.dest
          /\ \A u \in Events : Ends(r, u) /\ Live(u) => Position(u, j)
      BY <1>0 DEF BatchOrdered
    <2>2. Hastened(r) /\ r \in Decideds'
      BY <2>1
    <2>3. ASSUME NEW u \in Events, Ends(r, u)', Live(u)' PROVE Position(u, j)
      <3>1. Waiting(u)'
        BY <2>3 DEF Live, Waiting
      <3>2. Ends(r, u) /\ Live(u)
        BY <1>3, <2>2, <2>3, <3>1
      <3> QED
        BY <2>1, <3>2
    <2> QED
      BY <2>1, <2>2, <2>3 DEF Hastened
  <1> QED
    BY <1>0, <1>1, <1>4, <1>5 DEF Ordered, Unpaced

LEMMA SameRowHastened ==
  ASSUME TypeInvariant, NEW m \in Events, rows'[m] = rows[m]
  PROVE  Hastened(m)
  BY RowTyped DEF Hastened

\* A recovery makes the waiting, untried updates of its incident due.
LEMMA ExpeditedFirst ==
  ASSUME TypeInvariant, NEW e \in Events, NEW m \in Events
  PROVE  /\ Expedited(e)[m].next <= rows[m].next
         /\ Phase[m] = "recovery" => Expedited(e)[m].next = rows[m].next
         /\ /\ Phase[e] = "recovery" /\ Phase[m] = "update" /\ Incident[m] = Incident[e]
            /\ Waiting(m) /\ rows[m].dest = config.dest /\ rows[m].attempts = 0 /\ rows[m].lease = 0
            => Expedited(e)[m].next <= now /\ Expedited(e)[m].mergeUntil = 0
  <1>1. rows[m] \in Row /\ rows[m].next \in Nat /\ now \in Nat
    BY RowTyped
  <1> DEFINE x == Earlier(rows[m].next, now)
             t == [rows[m] EXCEPT !.next = x, !.mergeUntil = 0]
  <1>2. x \in Nat /\ x <= rows[m].next /\ x <= now
    BY <1>1 DEF Earlier
  <1> HIDE DEF x
  <1>3. t.next = x /\ t.mergeUntil = 0
    BY <1>1 DEF Row
  <1> DEFINE P == /\ Phase[e] = "recovery" /\ Phase[m] = "update" /\ Incident[m] = Incident[e]
                  /\ Unsent(m) /\ rows[m].dest = config.dest /\ rows[m].attempts = 0
                  /\ ~Silenced(m) /\ rows[m].lease = 0
  <1>4. Expedited(e)[m] = IF P THEN t ELSE rows[m]
    BY DEF Expedited, x
  <1> HIDE DEF t
  <1>5. CASE P
    BY <1>1, <1>2, <1>3, <1>4, <1>5
  <1>6. CASE ~P
    BY <1>1, <1>4, <1>6 DEF Waiting
  <1> QED
    BY <1>5, <1>6

\* No message is created.
LEMMA OrderRejected ==
  ASSUME Accounted, Accounted', Ordered, NEW e \in Events, decision[e] = Undecided,
         NEW w \in {"ineligible", "silenced", "rejected"},
         decision' = [decision EXCEPT ![e] = Decided(w, NoEvent)],
         UNCHANGED <<now, cooldown, config, worker, handled>>,
         rows' = rows \/ rows' = Expedited(e)
  PROVE  Ordered'
  <1>0. TypeInvariant
    BY DEF Accounted, Typed
  <1>1. e \notin Decideds /\ Decideds \subseteq Decideds'
    BY DecidedSets
  <1>2. ASSUME NEW m \in Events PROVE Hastened(m)
    <2>1. CASE rows' = rows
      BY <1>0, <2>1, SameRowHastened
    <2>2. CASE rows' = Expedited(e)
      BY <1>0, <2>2, ExpeditedRows, ExpeditedFirst DEF Hastened, ExpediteOnly
    <2> QED
      BY <2>1, <2>2
  <1> QED
    BY <1>1, <1>2, OrderDecided

LEMMA OrderJoin ==
  ASSUME Accounted, Accounted', Ordered, NEW e \in Events, decision[e] = Undecided,
         NEW r \in Events,
         rows' = [rows EXCEPT ![r] = [rows[r] EXCEPT !.body = [count |-> rows[r].body.count + 1,
                                                               latest |-> e]]],
         decision' = [decision EXCEPT ![e] = Decided("merged", r)],
         UNCHANGED <<now, cooldown, config, worker, handled>>
  PROVE  Ordered'
  <1>0. TypeInvariant
    BY DEF Accounted, Typed
  <1>1. e \notin Decideds /\ Decideds \subseteq Decideds'
    BY DecidedSets
  <1> DEFINE b == [count |-> rows[r].body.count + 1, latest |-> e]
             t == [rows[r] EXCEPT !.body = b]
  <1>2. rows'[r] = t /\ \A x \in Events \ {r} : rows'[x] = rows[x]
    BY <1>0 DEF TypeInvariant
  <1> HIDE DEF b
  <1>3. rows[r] \in Row
    BY <1>0, RowTyped
  <1>4. /\ t.present = rows[r].present /\ t.expires = rows[r].expires /\ t.sent = rows[r].sent
        /\ t.dest = rows[r].dest /\ t.created = rows[r].created
        /\ t.suppressed = rows[r].suppressed /\ t.isolated = rows[r].isolated
        /\ t.lease = rows[r].lease /\ t.attempts = rows[r].attempts
        /\ t.quarantined = rows[r].quarantined /\ t.mergeUntil = rows[r].mergeUntil
        /\ t.next = rows[r].next
    BY <1>3 DEF Row
  <1> HIDE DEF t
  <1>5. Hastened(r)
    BY <1>0, <1>2, <1>4, RowTyped DEF Hastened
  <1>6. \A m \in Events : Hastened(m)
    BY <1>0, <1>2, <1>5, SameRowHastened
  <1> QED
    BY <1>1, <1>6, OrderDecided

LEMMA OrderCreate ==
  ASSUME Accounted, Accounted', Ordered, NEW e \in Events, decision[e] = Undecided,
         rows' = [Expedited(e) EXCEPT ![e] = NewRow(e)],
         decision' = [decision EXCEPT ![e] = Decided("queued", e)],
         UNCHANGED <<now, cooldown, config, worker, handled>>
  PROVE  Ordered'
  <1>0. TypeInvariant /\ Untouched
    BY DEF Accounted, Typed, Ordered
  <1>1. e \notin Decideds /\ Decideds \subseteq Decideds'
    BY DecidedSets
  <1>2. rows'[e] = NewRow(e) /\ \A m \in Events \ {e} : rows'[m] = Expedited(e)[m]
    BY <1>0, ExpeditedRows
  <1>3. \A m \in Events \ {e} : Hastened(m)
    BY <1>0, <1>2, ExpeditedRows, ExpeditedFirst DEF Hastened, ExpediteOnly
  <1>4. /\ NewRow(e).created = now /\ NewRow(e).lease = 0 /\ NewRow(e).attempts = 0
        /\ NewRow(e).dest = config.dest
        /\ Phase[e] = "recovery" => NewRow(e).next = now
    BY DEF NewRow, NoRow, Coalesces
  <1>5. ASSUME Phase[e] = "recovery", NEW u \in Events, Ends(e, u)', Waiting(u)'
        PROVE  rows'[u].next <= now /\ rows'[u].mergeUntil = 0
    <2>1. /\ Phase[u] = "update" /\ Incident[u] = Incident[e] /\ u \notin handled
          /\ rows'[u].dest = config.dest
      BY <1>2, <1>4, <1>5 DEF Ends
    <2>2. u # e
      BY <1>5, <2>1
    <2>3. Waiting(u) /\ rows[u].dest = config.dest
      BY <1>3, <1>5, <2>1, <2>2 DEF Hastened, Waiting, Unsent, Silenced
    <2>4. rows[u].attempts = 0 /\ rows[u].lease = 0
      BY <1>0, <2>1 DEF Untouched
    <2> QED
      BY <1>0, <1>2, <1>5, <2>1, <2>2, <2>3, <2>4, ExpeditedFirst
  <1>6. Founded(e)
    BY <1>2, <1>4, <1>5 DEF Founded
  <1> QED
    BY <1>1, <1>3, <1>6, OrderDecided

LEMMA OrderInsert ==
  ASSUME Accounted, Accounted', Ordered, NEW e \in Events, InsertEventNotification(e)
  PROVE  Ordered'
  <1>0. decision[e] = Undecided /\ UNCHANGED <<now, cooldown, config, worker, handled>>
    BY DEF InsertEventNotification, ghost
  <1>1. CASE Withhold(e)
    <2>1. CASE ~config.enabled
      BY <1>0, <1>1, <2>1, OrderRejected DEF Withhold
    <2>2. CASE config.enabled
      BY <1>0, <1>1, <2>2, OrderRejected DEF Withhold
    <2> QED
      BY <2>1, <2>2
  <1>2. ASSUME NEW m \in Events, Join(e, m) PROVE Ordered'
    <2>1. CASE RoomToJoin(m, e)
      <3>1. /\ rows' = [rows EXCEPT ![m] = [rows[m] EXCEPT !.body = [count |-> rows[m].body.count + 1,
                                                                     latest |-> e]]]
            /\ decision' = [decision EXCEPT ![e] = Decided("merged", m)]
        BY <1>2, <2>1 DEF Join
      <3> QED
        BY <1>0, <3>1, OrderJoin
    <2>2. CASE ~RoomToJoin(m, e)
      BY <1>0, <1>2, <2>2, OrderRejected DEF Join
    <2> QED
      BY <2>1, <2>2
  <1>3. CASE Create(e)
    BY <1>0, <1>3, OrderCreate, OrderRejected DEF Create
  <1> QED
    BY <1>1, <1>2, <1>3 DEF InsertEventNotification

LEMMA OrderInit == Init => Ordered
  <1> SUFFICES ASSUME Init PROVE Ordered
    OBVIOUS
  <1>1. \A m \in Events : /\ rows[m].attempts = 0 /\ rows[m].lease = 0 /\ rows[m].created = 0
                          /\ ~rows[m].present
    BY EmptyValues DEF Init, NoRow
  <1>2. worker.pc = "idle" /\ Len(worker.batch) = 0 /\ now = 1
    BY DEF Init, At
  <1>3. Untouched /\ Unpaced
    BY <1>1, <1>2 DEF Untouched, Unpaced, Busy
  <1>4. UpdatesFirst
    BY <1>1, <1>2 DEF UpdatesFirst, Ends
  <1>5. BatchOrdered
    BY <1>2 DEF BatchOrdered
  <1> QED
    BY <1>3, <1>4, <1>5 DEF Ordered

LEMMA OrderStep ==
  ASSUME Interval = 0, Accounted, Ordered, [Next]_vars
  PROVE  Ordered'
  <1>1. CASE \E e \in Events : InsertEventNotification(e)
    BY <1>1, AccountedInsert, OrderInsert
  <1>2. CASE PendingDestination
    BY <1>2, AccountedFetch, OrderFetch
  <1>3. CASE ClaimNotification
    BY <1>3, AccountedClaim, OrderClaim
  <1>4. CASE Record
    BY <1>4, AccountedRecord, OrderRecord
  <1>5. CASE ReleaseNotificationClaim \/ StopWhileSending
    BY <1>5, AccountedRelease, OrderRelease
  <1>6. CASE \/ PassOver \/ Check \/ Send \/ Answer \/ WorkerError \/ Crash \/ Tick
             \/ ReserveNotificationAttempt \/ \E s \in silences : RemoveSilence(s)
    BY <1>6, AccountedQuiet, OrderQuiet
  <1>7. CASE \E d \in Receivers : ResumeDestination(d)
    BY <1>7, AccountedResume, OrderResume
  <1>8. CASE \/ \E m \in Events : RetryNotification(m) \/ QuarantineNotification(m)
             \/ DiscardIsolatedNotifications
             \/ \E rule \in SilenceRules, d \in SilenceTimes : AddSilence(rule, d)
             \/ \E c \in Configs : Start(c)
    <2>1. Accounted' /\ NoNewMessage
      BY <1>8, AccountedRetry, AccountedQuarantine, AccountedDiscard, AccountedSilence, AccountedStart
    <2> QED
      BY <1>8, <2>1, OrderCommand
  <1>9. CASE UNCHANGED vars
    <2>1. TypeInvariant /\ UNCHANGED rows
      BY <1>9 DEF Accounted, Typed, vars, tables
    <2>2. NoNewMessage
      BY <2>1, RowTyped DEF NoNewMessage, SameMessage
    <2>3. Accounted'
      BY AccountedStep
    <2> QED
      BY <1>9, <2>2, <2>3, OrderQuiet
  <1> QED
    BY <1>1, <1>2, <1>3, <1>4, <1>5, <1>6, <1>7, <1>8, <1>9 DEF Next, WorkerStep, OperatorStep

LEMMA OrderInvariant ==
  ASSUME Interval = 0
  PROVE  Spec => []Ordered
  <1>1. Init => Ordered
    BY OrderInit
  <1>2. Accounted /\ Ordered /\ [Next]_vars => Ordered'
    BY OrderStep
  <1> QED
    BY <1>1, <1>2, AccountedInvariant, PTL DEF Spec

\* On a channel without pacing a recovery is claimed only when no older update
\* of its incident still waits to be claimed for the first time, whatever
\* merge windows, retries, resumes, silences, restarts and expiries came
\* between (recordOneEventNotification, which makes the updates due;
\* PendingDestination, which orders the pass; ClaimNotification).
THEOREM RecoveriesDoNotOvertake ==
  ASSUME Interval = 0
  PROVE  Spec => [][NotOvertaking]_vars
  <1>1. ASSUME Accounted, Ordered, [Next]_vars PROVE NotOvertaking
    <2> SUFFICES ASSUME worker.pc = "pass", worker'.pc = "claimed", Phase[worker'.msg] = "recovery",
                        NEW u \in Events \ handled, Live(u), Phase[u] = "update",
                        Incident[u] = Incident[worker'.msg], rows[u].dest = rows[worker'.msg].dest,
                        rows[u].created < rows[worker'.msg].created
                 PROVE  FALSE
      <3>1. TypeInvariant
        BY <1>1 DEF Accounted, Typed
      <3>2. worker.pc = "pass" /\ worker'.pc = "claimed" => worker'.msg \in Events
        BY <1>1, ClaimsAreDue
      <3>3. \A x, y \in Events : ~(rows[x].created < rows[y].created) => rows[x].created >= rows[y].created
        BY <3>1, RowTyped
      <3> QED
        BY <3>2, <3>3 DEF NotOvertaking
    <2>1. PICK r \in Events : /\ r = worker'.msg /\ Due(r)
                              /\ r = worker.batch[1] /\ 1 \in 1 .. Len(worker.batch)
      BY <1>1, ClaimsAreDue
    <2>2. Ends(r, u)
      BY <2>1 DEF Ends, Due, Live, Unsent
    <2>3. Position(u, 1)
      BY <1>1, <2>1, <2>2 DEF Ordered, BatchOrdered
    <2> QED
      BY <2>3 DEF Position
  <1>2. Accounted /\ Ordered /\ [Next]_vars => [NotOvertaking]_vars
    BY <1>1
  <1> QED
    BY <1>2, AccountedInvariant, OrderInvariant, PTL DEF Spec

=============================================================================
