----------------------- MODULE OfficialDispatchProofs -----------------------
(***************************************************************************)
(* Proofs about OfficialDispatch, for every channel, set of messages,      *)
(* configuration set, duration and bound the assumptions admit: type       *)
(* correctness, the safety of its rows and decisions, AtMostOnceDelivery   *)
(* (by FreshAttempts without an idempotency key, by WithinKeyLife for      *)
(* LINE) and, by Budgeted, the daily limits.                               *)
(***************************************************************************)
EXTENDS OfficialDispatch, TLAPS, FiniteSetTheorems

-----------------------------------------------------------------------------
(* Facts about the operators *)

\* The later of two natural numbers is one of them.
LEMMA LaterType == \A a, b \in Nat : Later(a, b) \in Nat /\ Later(a, b) >= a /\ Later(a, b) >= b
  BY DEF Later

\* The wall clock shows a positive natural number.
LEMMA NowType == TypeInvariant => Now \in Nat /\ Now > 0
  BY TimeAssumption DEF TypeInvariant, Now

\* Instants have a UTC day.
LEMMA DayType == \A t \in Nat : DayOf(t) \in Nat
  <1>1. Day \in Nat \ {0}
    BY TimeAssumption
  <1> QED
    BY <1>1 DEF DayOf

\* Holding a row keeps its type.
LEMMA HeldType == \A row \in Row : Held(row) \in Row
  BY DEF Held, Row

LEMMA HeldStateType == \A unknown \in BOOLEAN : HeldState(unknown) \in States \ Ready
  BY DEF HeldState, States, Ready

\* Raising a cooldown keeps the table's type.
LEMMA CoolType ==
  ASSUME TypeInvariant, NEW d \in Dests, NEW until \in Nat
  PROVE  Cool(d, until) \in [Dests -> Nat]
  BY LaterType DEF Cool, TypeInvariant

LEMMA OutcomeType ==
  \A o \in {"none", "accepted", "not_accepted", "unknown", "open", "final"}, w \in Nat,
     f \in SUBSET {"permanent", "suspend", "optout"} :
        Outcome(o, w, f) \in Result /\ Outcome(o, w, f).outcome = o
  BY DEF Outcome, Result

\* Every answer a sender reports is a result of its kind.
LEMMA ResultTypes ==
  /\ \A r \in AcceptedResults : r \in Result /\ r.outcome = "accepted"
  /\ \A r \in RefusedResults : r \in Result /\ r.outcome = "not_accepted"
  /\ \A r \in UnknownResults : r \in Result /\ r.outcome = "unknown"
  /\ \A r \in PollResults : r \in Result /\ r.outcome \in {"open", "final", "unknown"}
  <1>1. Interval \in Nat /\ RetryAfters \subseteq Nat /\ 0 \in RetryAfters
    BY TimeAssumption, DataAssumption
  <1>2. \A r \in AcceptedResults : r \in Result /\ r.outcome = "accepted"
    BY OutcomeType DEF AcceptedResults
  <1>3. \A r \in RefusedResults : r \in Result /\ r.outcome = "not_accepted"
    <2>1. \A w \in RetryAfters : Later(w, Interval) \in Nat
      BY <1>1, LaterType
    <2> QED
      BY <2>1, OutcomeType DEF RefusedResults
  <1>4. \A r \in UnknownResults : r \in Result /\ r.outcome = "unknown"
    BY <1>1, OutcomeType DEF UnknownResults
  <1>5. \A r \in PollResults : r \in Result /\ r.outcome \in {"open", "final", "unknown"}
    BY <1>1, OutcomeType DEF PollResults
  <1> QED
    BY <1>2, <1>3, <1>4, <1>5

\* The empty row and the empty intent are well typed.
LEMMA EmptyTypes == NoRow \in Row /\ NoIntent \in Intent
  BY DataAssumption DEF NoRow, NoIntent, Row, Intent

\* A sweep keeps the types of the tables it rewrites.
LEMMA SweepType ==
  ASSUME TypeInvariant
  PROVE  /\ SweptState \in [Msgs -> States]
         /\ SweptOutbox \in [Msgs -> Row]
         /\ SweptIntent \in [Msgs -> Intent]
         /\ SweptCooldown \in [Dests -> Nat]
  <1>1. \A m \in Msgs : RecoveredState(m) \in States
    BY DEF RecoveredState, HeldState, States, TypeInvariant
  <1>2. SweptState \in [Msgs -> States]
    BY <1>1 DEF SweptState, States
  <1>3. \A m \in Msgs : RecoveredRow(m) \in Row
    BY HeldType DEF RecoveredRow, TypeInvariant
  <1>4. SweptOutbox \in [Msgs -> Row]
    BY <1>3, EmptyTypes DEF SweptOutbox
  <1>5. PollsExpired \in [Msgs -> Intent]
    BY ZenonT(40) DEF PollsExpired, Intent, TypeInvariant
  <1>6. SweptIntent \in [Msgs -> Intent]
    BY <1>5, EmptyTypes DEF SweptIntent
  <1>7. SweptCooldown \in [Dests -> Nat]
    BY DEF SweptCooldown, TypeInvariant
  <1> QED
    BY <1>2, <1>4, <1>6, <1>7

\* A worker at rest is well typed.
LEMMA WorkerRests == At("idle") \in Worker /\ At("down") \in Worker
  BY DEF At, Worker, NoResult, Outcome, Result, NoMsg, Idle

\* Moving a busy worker on keeps it busy with the same row.
LEMMA WorkerMoves ==
  ASSUME NEW w \in Worker, w.pc \notin Idle, NEW pc \in Posting \cup Polling
  PROVE  /\ pc \notin {"answered", "polled"} => [w EXCEPT !.pc = pc] \in Worker
         /\ \A r \in Result :
              /\ pc = "answered" /\ r.outcome \in {"accepted", "not_accepted", "unknown"}
                  => [w EXCEPT !.pc = pc, !.result = r] \in Worker
              /\ pc = "polled" /\ r.outcome \in {"open", "final", "unknown"}
                  => [w EXCEPT !.pc = pc, !.result = r] \in Worker
         /\ \A n \in Nat : pc \notin {"answered", "polled"} =>
              [w EXCEPT !.pc = pc, !.deadline = n] \in Worker
  BY DEF Worker

\* The worker goes on with its copy of the committed intent.
LEMMA WorkerBegins ==
  ASSUME NEW w \in Worker, w.pc \notin Idle, NEW n \in Nat, NEW f \in Nat, NEW d \in Int
  PROVE  [w EXCEPT !.pc = "begun", !.attempt = n, !.first = f, !.day = d] \in Worker
  <1> DEFINE new == [w EXCEPT !.pc = "begun", !.attempt = n, !.first = f, !.day = d]
             All == [pc : Idle \cup Posting \cup Polling, msg : Msgs \cup {NoMsg},
                     attempt : Nat, first : Nat, day : Int, deadline : Nat,
                     reply : {"none", "accepted", "refused"}, result : Result]
  <1>1. w \in All /\ w.msg \in Msgs
    BY DEF Worker
  <1>2. new \in All
    BY <1>1 DEF Posting
  <1>3. new.pc = "begun" /\ new.msg = w.msg
    BY <1>1
  <1> HIDE DEF new
  <1> QED
    BY <1>1, <1>2, <1>3 DEF Worker

\* A worker that takes a row up is busy.
LEMMA WorkerTakes ==
  ASSUME NEW m \in Msgs, NEW pc \in {"claimed", "polling"}, NEW n \in Nat
  PROVE  /\ [At(pc) EXCEPT !.msg = m] \in Worker
         /\ [At(pc) EXCEPT !.msg = m, !.attempt = n] \in Worker
  <1>1. At(pc) = [pc |-> pc, msg |-> NoMsg, attempt |-> 0, first |-> 0, day |-> -1,
                  deadline |-> 0, reply |-> "none", result |-> NoResult]
    BY DEF At
  <1>2. NoResult \in Result
    BY DEF NoResult, Outcome, Result
  <1>3. [At(pc) EXCEPT !.msg = m] \in Worker
    BY <1>1, <1>2 DEF Worker, Posting, Polling
  <1>4. [At(pc) EXCEPT !.msg = m, !.attempt = n] \in Worker
    <2> DEFINE w == [At(pc) EXCEPT !.msg = m]
    <2>1. [At(pc) EXCEPT !.msg = m, !.attempt = n] = [w EXCEPT !.attempt = n]
      BY <1>1
    <2>2. w \in Worker
      BY <1>3
    <2>3. w.pc = pc /\ w.msg = m
      BY <1>1
    <2> HIDE DEF w
    <2>4. [w EXCEPT !.attempt = n] \in Worker
      BY <2>2, <2>3 DEF Worker
    <2> QED
      BY <2>1, <2>4
  <1> QED
    BY <1>3, <1>4

\* A worker away from its resting places works on a row.
LEMMA WorkerBusy ==
  ASSUME TypeInvariant, worker.pc \notin Idle
  PROVE  worker \in Worker /\ worker.msg \in Msgs
  BY DEF TypeInvariant, Worker

-----------------------------------------------------------------------------
(* Type correctness *)

\* The first start leaves every table well typed.
LEMMA TypeInit == Init => TypeInvariant
  <1> SUFFICES ASSUME Init PROVE TypeInvariant
    OBVIOUS
  <1>1. clock \in (MaxBack + 1) .. MaxClock /\ back \in 0 .. MaxBack
    BY TimeAssumption DEF Init
  <1>2. policy \in Policy
    BY <1>1, TimeAssumption, DataAssumption DEF Init, Policy
  <1>3. target \in Target
    BY DataAssumption DEF Init, Target
  <1>4. worker \in Worker
    BY WorkerRests DEF Init
  <1>5. outbox \in [Msgs -> Row] /\ intent \in [Msgs -> Intent]
    BY EmptyTypes DEF Init
  <1>6. state \in [Msgs -> States]
    BY DEF Init, States
  <1>7. usage \in Usage
    BY DEF Init, Usage, NoUse
  <1> QED
    BY <1>1, <1>2, <1>3, <1>4, <1>5, <1>6, <1>7 DEF TypeInvariant, Init

\* Facts about rows and intents that several actions share.
LEMMA RowTypes ==
  ASSUME TypeInvariant, NEW m \in Msgs
  PROVE  /\ outbox[m] \in Row /\ intent[m] \in Intent /\ state[m] \in States
         /\ outbox[m].dest \in Dests /\ intent[m].uncertain \in BOOLEAN
         /\ intent[m].first \in Nat /\ intent[m].attempt \in Nat
  BY DEF TypeInvariant, Row, Intent

\* A row keeps its type when a lease or a time is set or it is marked.
LEMMA RowUpdates ==
  ASSUME NEW row \in Row, NEW t \in Nat
  PROVE  /\ [row EXCEPT !.lease = t] \in Row
         /\ [row EXCEPT !.next = t] \in Row
         /\ [row EXCEPT !.lease = 0, !.next = t] \in Row
         /\ [row EXCEPT !.sent = TRUE, !.lease = 0] \in Row
         /\ [row EXCEPT !.suppressed = TRUE, !.lease = 0] \in Row
         /\ [row EXCEPT !.isolated = TRUE, !.lease = 0] \in Row
         /\ [row EXCEPT !.quarantined = FALSE, !.lease = 0, !.next = t] \in Row
         /\ [row EXCEPT !.quarantined = TRUE] \in Row
         /\ [row EXCEPT !.suppressed = TRUE] \in Row
         /\ [row EXCEPT !.isolated = TRUE] \in Row
  BY DEF Row

\* An opt-out's sweep over the outbox keeps its type.
LEMMA WithdrawnType ==
  ASSUME NEW rows \in [Msgs -> Row]
  PROVE  Withdrawn(rows) \in [Msgs -> Row]
  BY RowUpdates DEF Withdrawn

\* Recording an opt-out keeps the policy's type.
LEMMA OptoutType ==
  ASSUME TypeInvariant, NEW t \in Nat
  PROVE  [policy EXCEPT !.optout = Later(@, t)] \in Policy
  BY LaterType DEF TypeInvariant, Policy

\* Blocking a row keeps the types.
LEMMA BlockType ==
  ASSUME TypeInvariant, NEW m \in Msgs, NEW u \in BOOLEAN, Block(m, u)
  PROVE  state' \in [Msgs -> States] /\ outbox' \in [Msgs -> Row]
  BY HeldType, HeldStateType DEF Block, TypeInvariant

\* Values the waits and limits are taken from.
LEMMA Durations ==
  ASSUME TypeInvariant
  PROVE  /\ Now \in Nat /\ DayOf(Now) \in Nat /\ clock \in Nat
         /\ Lease \in Nat /\ Interval \in Nat /\ SendTimeout \in Nat /\ Forever \in Nat
         /\ RefusedWait \in Nat /\ UnknownWait \in Nat /\ PollWait \in Nat
         /\ PollDeadline \in Nat /\ TTL \in Nat
  BY NowType, DayType, TimeAssumption DEF TypeInvariant

\* The three ways a dispatch is resolved.
LEMMA TypeResolved ==
  ASSUME TypeInvariant, NEW m \in Msgs, NEW r \in Result,
         ResolveAccepted(m) \/ ResolveUnknown(m, r) \/ ResolveNotAccepted(m, r)
  PROVE  /\ state' \in [Msgs -> States] /\ outbox' \in [Msgs -> Row]
         /\ intent' \in [Msgs -> Intent] /\ policy' \in Policy
         /\ cooldown' \in [Dests -> Nat] /\ optedOut' \in Nat
  <1>0. /\ outbox[m] \in Row /\ intent[m] \in Intent /\ outbox[m].dest \in Dests
        /\ intent[m].first \in Nat
    BY RowTypes
  <1>1. r.retry \in Nat
    BY DEF Result
  <1>2. /\ state \in [Msgs -> States] /\ outbox \in [Msgs -> Row]
        /\ intent \in [Msgs -> Intent] /\ policy \in Policy
        /\ cooldown \in [Dests -> Nat] /\ optedOut \in Nat
    BY DEF TypeInvariant
  <1>3. CASE ResolveAccepted(m)
    <2>1. state' \in [Msgs -> States]
      BY <1>2, <1>3 DEF ResolveAccepted, States
    <2>2. outbox' \in [Msgs -> Row]
      <3>1. outbox' = [outbox EXCEPT ![m] = [outbox[m] EXCEPT !.sent = TRUE, !.lease = 0]]
        BY <1>0, <1>2, <1>3 DEF ResolveAccepted
      <3> QED
        BY <3>1, <1>0, <1>2, RowUpdates
    <2>3. intent' \in [Msgs -> Intent]
      <3>1. PICK s \in {"open", "final"} : intent' = [intent EXCEPT ![m] =
            [intent[m] EXCEPT !.uncertain = FALSE,
                      !.providerState = IF Twilio THEN s ELSE "open",
                      !.nextPoll = IF Twilio /\ s = "open" THEN Now + PollWait ELSE 0,
                      !.pollDeadline = IF Twilio THEN intent[m].first + PollDeadline ELSE 0]]
        BY <1>2, <1>3 DEF ResolveAccepted
      <3> DEFINE p == IF Twilio THEN s ELSE "open"
                 n == IF Twilio /\ s = "open" THEN Now + PollWait ELSE 0
                 d == IF Twilio THEN intent[m].first + PollDeadline ELSE 0
      <3>2. /\ p \in {"", "open", "final", "unknown"}
            /\ n \in Nat
            /\ d \in Nat
        <4>1. p \in {"", "open", "final", "unknown"}
          OBVIOUS
        <4>2. n \in Nat
          BY Durations
        <4>3. d \in Nat
          BY <1>0, Durations
        <4> QED
          BY <4>1, <4>2, <4>3
      <3> HIDE DEF p, n, d
      <3>3. [intent[m] EXCEPT !.uncertain = FALSE, !.providerState = p, !.nextPoll = n,
                              !.pollDeadline = d] \in Intent
        BY <1>0, <3>2 DEF Intent
      <3> QED
        BY <1>2, <3>1, <3>3 DEF p, n, d
    <2> QED
      BY <1>2, <1>3, <2>1, <2>2, <2>3 DEF ResolveAccepted
  <1>4. CASE ResolveUnknown(m, r)
    <2> DEFINE wait == Later(r.retry, UnknownWait)
    <2>1. wait \in Nat
      BY <1>1, Durations, LaterType
    <2>2. \/ state' = [state EXCEPT ![m] = "retry_ready"]
             /\ outbox' = [outbox EXCEPT ![m] =
                    [outbox[m] EXCEPT !.lease = 0, !.next = Now + wait]]
          \/ Block(m, TRUE)
      BY <1>0, <1>2, <1>4 DEF ResolveUnknown
    <2>3. state' \in [Msgs -> States] /\ outbox' \in [Msgs -> Row]
      <3>1. Now + wait \in Nat
        BY <2>1, Durations
      <3>2. [outbox[m] EXCEPT !.lease = 0, !.next = Now + wait] \in Row
        BY <1>0, <3>1, RowUpdates
      <3> QED
        BY <1>2, <2>2, <3>2, BlockType DEF States
    <2>4. PICK u \in Nat : cooldown' = Cool(outbox[m].dest, u)
      BY <1>4, <2>1, Durations DEF ResolveUnknown
    <2> QED
      BY <1>0, <1>2, <1>4, <2>3, <2>4, CoolType DEF ResolveUnknown
  <1>5. CASE ResolveNotAccepted(m, r)
    <2> DEFINE stop == "permanent" \in r.flags \/ Suspend(r) \/ OptOut(r)
                       \/ intent[m].attempt >= MaxAttempts \/ r.retry > TTL
               wait == Later(r.retry, RefusedWait)
               row  == IF stop THEN Held(outbox[m])
                       ELSE [outbox[m] EXCEPT !.lease = 0, !.next = Now + wait]
               rows == [outbox EXCEPT ![m] = row]
    <2>1. wait \in Nat
      BY <1>1, Durations, LaterType
    <2>2. row \in Row
      <3>1. Now + wait \in Nat
        BY <2>1, Durations
      <3>2. [outbox[m] EXCEPT !.lease = 0, !.next = Now + wait] \in Row
        BY <1>0, <3>1, RowUpdates
      <3>3. Held(outbox[m]) \in Row
        BY <1>0, HeldType
      <3> HIDE DEF stop, wait
      <3> QED
        BY <3>2, <3>3
    <2>3. rows \in [Msgs -> Row]
      BY <1>2, <2>2
    <2>4. outbox' = IF OptOut(r) THEN Withdrawn(rows) ELSE rows
      BY <1>5 DEF ResolveNotAccepted
    <2> HIDE DEF rows
    <2>5. outbox' \in [Msgs -> Row]
      BY <2>3, <2>4, WithdrawnType
    <2>6. state' \in [Msgs -> States]
      BY <1>2, <1>5 DEF ResolveNotAccepted, States
    <2>7. intent' \in [Msgs -> Intent]
      <3>1. [intent[m] EXCEPT !.uncertain = FALSE] \in Intent
        BY <1>0 DEF Intent
      <3>2. intent' = [intent EXCEPT ![m] = [intent[m] EXCEPT !.uncertain = FALSE]]
        BY <1>2, <1>5 DEF ResolveNotAccepted
      <3> QED
        BY <1>2, <3>1, <3>2
    <2>8. PICK u \in Nat : cooldown' = Cool(outbox[m].dest, u)
      BY <1>5, <2>1, Durations DEF ResolveNotAccepted
    <2>9. cooldown' \in [Dests -> Nat]
      BY <1>0, <2>8, CoolType
    <2>10. policy' \in Policy
      BY <1>2, <1>5, OptoutType, Durations DEF ResolveNotAccepted
    <2>11. optedOut' \in Nat
      BY <1>2, <1>5, Durations DEF ResolveNotAccepted
    <2> QED
      BY <2>5, <2>6, <2>7, <2>9, <2>10, <2>11
  <1> QED
    BY <1>3, <1>4, <1>5

\* A committed intent is well typed.
LEMMA BegunType ==
  ASSUME TypeInvariant, NEW m \in Msgs
  PROVE  Begun(m) \in Intent
  <1> DEFINE i     == intent[m]
             first == IF i.first = 0 THEN Now ELSE i.first
             day   == IF i.budgetDay < 0 THEN DayOf(Now) ELSE i.budgetDay
             more  == i.attempt + 1
  <1>1. i \in Intent
    BY RowTypes
  <1>2. i.first \in Nat /\ i.budgetDay \in Int /\ i.attempt \in Nat
    BY <1>1 DEF Intent
  <1>3. Begun(m) = [i EXCEPT !.uncertain = TRUE, !.last = Now, !.attempt = more,
                             !.first = first, !.budgetDay = day]
    BY DEF Begun
  <1> HIDE DEF i
  <1>4. first \in Nat
    BY <1>2, Durations
  <1>5. day \in Int
    BY <1>2, Durations
  <1>6. more \in Nat /\ Now \in Nat
    BY <1>2, Durations
  <1> HIDE DEF first, day, more
  <1> QED
    BY <1>1, <1>3, <1>4, <1>5, <1>6 DEF Intent

\* Every step of the worker keeps the types.
LEMMA TypeWorker ==
  ASSUME TypeInvariant, WorkerStep
  PROVE  TypeInvariant'
  <1>0. /\ outbox \in [Msgs -> Row] /\ state \in [Msgs -> States]
        /\ intent \in [Msgs -> Intent] /\ usage \in Usage
    BY DEF TypeInvariant
  <1>1. ASSUME NEW m \in Msgs, ClaimNotification(m) PROVE TypeInvariant'
    <2>1. outbox' = [outbox EXCEPT ![m] = [outbox[m] EXCEPT !.lease = Now + Lease]]
      BY <1>0, <1>1 DEF ClaimNotification
    <2>2. outbox' \in [Msgs -> Row]
      <3>1. Now + Lease \in Nat /\ outbox[m] \in Row
        BY Durations, RowTypes
      <3>2. [outbox[m] EXCEPT !.lease = Now + Lease] \in Row
        BY <3>1, RowUpdates
      <3> QED
        BY <1>0, <2>1, <3>2
    <2>3. worker' \in Worker
      BY <1>1, WorkerTakes DEF ClaimNotification, Posting
    <2> QED
      BY <1>1, <2>2, <2>3 DEF TypeInvariant, ClaimNotification, ghost
  <1>2. ASSUME NEW m \in Msgs, ClaimOfficialPoll(m) PROVE TypeInvariant'
    <2>1. PollsExpired \in [Msgs -> Intent]
      BY ZenonT(40) DEF PollsExpired, Intent, TypeInvariant
    <2>2. PollClaimed(m) \in Intent /\ PollClaimed(m).pollAttempts \in Nat
      <3>1. Now + Lease \in Nat /\ intent[m] \in Intent
        BY Durations, RowTypes
      <3> DEFINE more  == intent[m].pollAttempts + 1
                 until == Now + Lease
      <3>2. PollClaimed(m) = [intent[m] EXCEPT !.pollAttempts = more, !.pollLease = until]
        BY DEF PollClaimed
      <3>3. intent[m].pollAttempts \in Nat
        BY <3>1 DEF Intent
      <3>4. more \in Nat /\ until \in Nat
        BY <3>3, Durations
      <3> HIDE DEF more, until
      <3> QED
        BY <3>1, <3>2, <3>4 DEF Intent
    <2>3. intent' \in [Msgs -> Intent]
      BY <1>2, <2>1, <2>2 DEF ClaimOfficialPoll
    <2>4. worker' \in Worker
      BY <1>2, <2>2, WorkerTakes DEF ClaimOfficialPoll, Polling
    <2> QED
      BY <1>2, <2>3, <2>4 DEF TypeInvariant, ClaimOfficialPoll, ghost
  <1>3. ASSUME BeginRefused PROVE TypeInvariant'
    <2>0. worker \in Worker /\ worker.pc \notin Idle /\ worker.msg \in Msgs
      BY <1>3, WorkerBusy DEF BeginRefused, Idle
    <2>1. worker' \in Worker
      BY <1>3, <2>0, WorkerMoves DEF BeginRefused, Posting
    <2>2. Debited(worker.msg) \in Usage
      BY <2>0, DataAssumption DEF Debited, Usage, NoUse, TypeInvariant
    <2>3. usage' \in Usage
      BY <1>0, <1>3, <2>2 DEF BeginRefused
    <2>4. intent[worker.msg].uncertain \in BOOLEAN
      BY <2>0, RowTypes
    <2>5. \/ UNCHANGED <<state, outbox>>
          \/ Block(worker.msg, intent[worker.msg].uncertain)
          \/ Block(worker.msg, FALSE)
      BY <1>3 DEF BeginRefused
    <2>6. state' \in [Msgs -> States] /\ outbox' \in [Msgs -> Row]
      BY <1>0, <2>0, <2>4, <2>5, BlockType
    <2> QED
      BY <1>3, <2>1, <2>3, <2>6 DEF TypeInvariant, BeginRefused, ghost
  <1>4. ASSUME BeginOfficialDispatch PROVE TypeInvariant'
    <2>0. worker \in Worker /\ worker.pc \notin Idle /\ worker.msg \in Msgs
      BY <1>4, WorkerBusy DEF BeginOfficialDispatch, Idle
    <2>1. /\ intent[worker.msg] \in Intent /\ outbox[worker.msg].dest \in Dests
          /\ intent[worker.msg].attempt \in Nat
      BY <2>0, RowTypes
    <2>2. worker' \in Worker
      <3> DEFINE n == Begun(worker.msg).attempt
                 f == Begun(worker.msg).first
                 d == Begun(worker.msg).budgetDay
      <3>1. n \in Nat /\ f \in Nat /\ d \in Int
        BY <2>0, BegunType DEF Intent
      <3>2. worker' = [worker EXCEPT !.pc = "begun", !.attempt = n, !.first = f, !.day = d]
        BY <1>4 DEF BeginOfficialDispatch
      <3> HIDE DEF n, f, d
      <3> QED
        BY <2>0, <3>1, <3>2, WorkerBegins
    <2>3. Debited(worker.msg) \in Usage
      BY <2>0, DataAssumption DEF Debited, Usage, NoUse, TypeInvariant
    <2>4. usage' \in Usage
      BY <1>0, <1>4, <2>3 DEF BeginOfficialDispatch
    <2>5. state' \in [Msgs -> States]
      BY <1>0, <1>4 DEF BeginOfficialDispatch, States
    <2>6. intent' \in [Msgs -> Intent]
      <3>1. Begun(worker.msg) \in Intent
        BY <2>0, BegunType
      <3> QED
        BY <1>0, <1>4, <3>1 DEF BeginOfficialDispatch
    <2>7. policy' \in Policy
      <3>1. policy \in Policy
        BY DEF TypeInvariant
      <3>2. Later(policy.clockHigh, Now) \in Nat /\ Later(policy.dayHigh, DayOf(Now)) \in Nat
        BY <3>1, Durations, LaterType DEF Policy
      <3>3. policy' = [policy EXCEPT !.clockHigh = Later(policy.clockHigh, Now),
                                     !.dayHigh = Later(policy.dayHigh, DayOf(Now))]
        BY <1>4 DEF BeginOfficialDispatch
      <3> QED
        BY <3>1, <3>2, <3>3 DEF Policy
    <2>8. cooldown' \in [Dests -> Nat]
      <3>1. Now + Interval \in Nat
        BY Durations
      <3> QED
        BY <1>4, <2>1, <3>1, CoolType DEF BeginOfficialDispatch
    <2> QED
      BY <1>4, <2>2, <2>4, <2>5, <2>6, <2>7, <2>8 DEF TypeInvariant, BeginOfficialDispatch, ghost
  <1>5. ASSUME Recheck PROVE TypeInvariant'
    <2>0. worker \in Worker /\ worker.pc \notin Idle
      BY <1>5, WorkerBusy DEF Recheck, Idle
    <2>1. /\ Outcome("not_accepted", RefusedWait, {}) \in Result
          /\ Outcome("not_accepted", RefusedWait, {}).outcome = "not_accepted"
          /\ clock + SendTimeout \in Nat
      BY OutcomeType, Durations
    <2>2. \/ worker' = [worker EXCEPT !.pc = "allowed", !.deadline = clock + SendTimeout]
          \/ worker' = [worker EXCEPT !.pc = "answered",
                          !.result = Outcome("not_accepted", RefusedWait, {})]
      BY <1>5 DEF Recheck
    <2>3. CASE worker' = [worker EXCEPT !.pc = "allowed", !.deadline = clock + SendTimeout]
      <3>1. worker' \in Worker
        BY <2>0, <2>1, <2>3, WorkerMoves DEF Posting
      <3> QED
        BY <1>5, <3>1 DEF TypeInvariant, Recheck, store, ghost
    <2>4. CASE worker' = [worker EXCEPT !.pc = "answered",
                            !.result = Outcome("not_accepted", RefusedWait, {})]
      <3>1. worker' \in Worker
        BY <2>0, <2>1, <2>4, WorkerMoves DEF Posting
      <3> QED
        BY <1>5, <3>1 DEF TypeInvariant, Recheck, store, ghost
    <2> QED
      BY <2>2, <2>3, <2>4
  <1>6. ASSUME Post PROVE TypeInvariant'
    <2>0. worker \in Worker /\ worker.pc \notin Idle /\ worker.msg \in Msgs
      BY <1>6, WorkerBusy DEF Post, Idle
    <2>1. worker' \in Worker
      BY <1>6, <2>0, WorkerMoves DEF Post, Posting
    <2>2. wire' \subseteq [msg : Msgs, attempt : Nat, deadline : Nat]
      BY <1>6, <2>0 DEF Post, TypeInvariant, Worker
    <2>3. firstPost' \in [Msgs -> Nat]
      BY <1>6, <2>0, Durations DEF Post, TypeInvariant
    <2>4. posted' \subseteq Msgs \X Int
      BY <1>6, <2>0 DEF Post, TypeInvariant, Worker
    <2> QED
      BY <1>6, <2>1, <2>2, <2>3, <2>4 DEF TypeInvariant, Post, store
  <1>7. ASSUME PostNotSent PROVE TypeInvariant'
    <2>0. worker \in Worker /\ worker.pc \notin Idle
      BY <1>7, WorkerBusy DEF PostNotSent, Idle
    <2>1. PICK r \in Result :
              /\ r.outcome = "not_accepted"
              /\ worker' = [worker EXCEPT !.pc = "answered", !.result = r]
      BY <1>7, ResultTypes DEF PostNotSent
    <2>2. worker' \in Worker
      BY <2>0, <2>1, WorkerMoves DEF Posting
    <2> QED
      BY <1>7, <2>2 DEF TypeInvariant, PostNotSent, store, ghost
  <1>8. ASSUME Answer PROVE TypeInvariant'
    <2>0. worker \in Worker /\ worker.pc \notin Idle
      BY <1>8, WorkerBusy DEF Answer, Idle
    <2>1. \A r \in ResultsOf(worker.reply) :
              r \in Result /\ r.outcome \in {"accepted", "not_accepted", "unknown"}
      BY ResultTypes DEF ResultsOf
    <2>2. PICK r \in Result :
              /\ r.outcome \in {"accepted", "not_accepted", "unknown"}
              /\ worker' = [worker EXCEPT !.pc = "answered", !.result = r]
      BY <1>8, <2>1 DEF Answer
    <2>3. worker' \in Worker
      BY <2>0, <2>2, WorkerMoves DEF Posting
    <2> QED
      BY <1>8, <2>3 DEF TypeInvariant, Answer, store, ghost
  <1>9. ASSUME ResolveOfficialDispatch PROVE TypeInvariant'
    <2>0. /\ worker.msg \in Msgs /\ worker.result \in Result
          /\ worker.result.outcome \in {"accepted", "not_accepted", "unknown"}
      BY <1>9, WorkerBusy DEF ResolveOfficialDispatch, Idle, Worker
    <2>1. \/ \/ ResolveAccepted(worker.msg) \/ ResolveUnknown(worker.msg, worker.result)
             \/ ResolveNotAccepted(worker.msg, worker.result)
          \/ UNCHANGED <<state, outbox, intent, policy, cooldown, optedOut>>
      BY <1>9, <2>0 DEF ResolveOfficialDispatch
    <2>2. /\ state' \in [Msgs -> States] /\ outbox' \in [Msgs -> Row]
          /\ intent' \in [Msgs -> Intent] /\ policy' \in Policy
          /\ cooldown' \in [Dests -> Nat] /\ optedOut' \in Nat
      <3>1. CASE UNCHANGED <<state, outbox, intent, policy, cooldown, optedOut>>
        BY <3>1 DEF TypeInvariant
      <3>2. CASE \/ ResolveAccepted(worker.msg) \/ ResolveUnknown(worker.msg, worker.result)
                 \/ ResolveNotAccepted(worker.msg, worker.result)
        BY <2>0, <3>2, TypeResolved
      <3> QED
        BY <2>1, <3>1, <3>2
    <2>3. worker' \in Worker
      BY <1>9, WorkerRests DEF ResolveOfficialDispatch
    <2>4. UNCHANGED <<clock, back, target, usage, wire, backup, counts, seen, deliveries,
                      firstPost, posted, gets>>
      BY <1>9 DEF ResolveOfficialDispatch
    <2> QED
      BY <2>2, <2>3, <2>4 DEF TypeInvariant
  <1>10. ASSUME ReleaseNotificationClaim PROVE TypeInvariant'
    <2>0. worker.msg \in Msgs
      BY <1>10, WorkerBusy DEF ReleaseNotificationClaim, Idle
    <2>1. outbox' = outbox \/ outbox' = [outbox EXCEPT ![worker.msg] =
                                            [outbox[worker.msg] EXCEPT !.lease = 0]]
      BY <1>0, <1>10 DEF ReleaseNotificationClaim
    <2>2. outbox' \in [Msgs -> Row]
      <3>1. [outbox[worker.msg] EXCEPT !.lease = 0] \in Row
        BY <2>0, RowTypes, RowUpdates
      <3> QED
        BY <1>0, <2>1, <3>1
    <2>3. worker' \in Worker
      BY <1>10, WorkerRests DEF ReleaseNotificationClaim
    <2> QED
      BY <1>10, <2>2, <2>3 DEF TypeInvariant, ReleaseNotificationClaim, ghost
  <1>11. ASSUME Poll PROVE TypeInvariant'
    <2>0. worker \in Worker /\ worker.pc \notin Idle /\ worker.msg \in Msgs
      BY <1>11, WorkerBusy DEF Poll, Idle
    <2>1. \/ /\ \E r \in PollResults : worker' = [worker EXCEPT !.pc = "polled", !.result = r]
             /\ gets' = [gets EXCEPT ![worker.msg] = @ + 1]
          \/ worker' = At("idle") /\ UNCHANGED gets
      BY <1>11 DEF Poll
    <2>2. worker' \in Worker
      <3>1. CASE worker' = At("idle")
        BY <3>1, WorkerRests
      <3>2. CASE \E r \in PollResults : worker' = [worker EXCEPT !.pc = "polled", !.result = r]
        <4>1. PICK r \in Result : /\ r.outcome \in {"open", "final", "unknown"}
                                  /\ worker' = [worker EXCEPT !.pc = "polled", !.result = r]
          BY <3>2, ResultTypes
        <4> QED
          BY <2>0, <4>1, WorkerMoves DEF Polling
      <3> QED
        BY <2>1, <3>1, <3>2
    <2>3. gets \in [Msgs -> Nat]
      BY DEF TypeInvariant
    <2>4. gets' \in [Msgs -> Nat]
      <3>1. gets' = gets \/ gets' = [gets EXCEPT ![worker.msg] = @ + 1]
        BY <2>1
      <3> QED
        BY <2>0, <2>3, <3>1
    <2> QED
      BY <1>11, <2>2, <2>4 DEF TypeInvariant, Poll, store
  <1>12. ASSUME ResolveOfficialPoll PROVE TypeInvariant'
    <2>0. /\ worker.msg \in Msgs /\ worker.result \in Result
          /\ worker.result.outcome \in {"open", "final", "unknown"}
      BY <1>12, WorkerBusy DEF ResolveOfficialPoll, Idle, Worker
    <2>1. CASE ~PollMatches(worker.msg)
      <3>1. worker' \in Worker
        BY <1>12, WorkerRests DEF ResolveOfficialPoll
      <3> QED
        BY <1>12, <2>1, <3>1 DEF ResolveOfficialPoll, TypeInvariant
    <2>2. CASE PollMatches(worker.msg)
      <3> DEFINE m == worker.msg
                 r == worker.result
                 status == IF Suspend(r) THEN "unknown" ELSE r.outcome
                 wait   == Later(r.retry, PollWait)
                 again  == /\ status # "final" /\ ~OptOut(r)
                           /\ worker.attempt < MaxPolls /\ wait <= PollDeadline
                           /\ Now + wait < intent[m].pollDeadline
                 n == IF again THEN Now + wait ELSE 0
                 p == CASE OptOut(r) -> "final"
                        [] status = "final" \/ again -> status
                        [] OTHER -> "unknown"
      <3>1. r.retry \in Nat /\ intent[m] \in Intent /\ outbox[m].dest \in Dests
        BY <2>0, RowTypes DEF Result
      <3>2. wait \in Nat
        BY <3>1, Durations, LaterType
      <3>3. n \in Nat
        BY <3>2, Durations
      <3>4. intent' = [intent EXCEPT ![m] = [intent[m] EXCEPT !.pollLease = 0,
                                        !.nextPoll = n, !.providerState = p]]
        BY <1>0, <1>12, <2>0, <2>2 DEF ResolveOfficialPoll
      <3>5. p \in {"", "open", "final", "unknown"}
        BY <2>0
      <3>6. PICK u \in Nat : cooldown' = Cool(outbox[m].dest, u)
        BY <1>12, <2>2, <3>2, Durations DEF ResolveOfficialPoll
      <3>7. cooldown' \in [Dests -> Nat]
        BY <3>1, <3>6, CoolType
      <3>8. policy' \in Policy
        BY <1>12, <2>2, OptoutType, Durations DEF ResolveOfficialPoll, TypeInvariant
      <3>9. outbox' \in [Msgs -> Row]
        BY <1>0, <1>12, <2>2, WithdrawnType DEF ResolveOfficialPoll
      <3>10. optedOut' \in Nat
        BY <1>12, <2>2, Durations DEF ResolveOfficialPoll, TypeInvariant
      <3>11. worker' \in Worker
        BY <1>12, WorkerRests DEF ResolveOfficialPoll
      <3>12. UNCHANGED <<clock, back, state, target, usage, wire, backup, counts, seen,
                         deliveries, firstPost, posted, gets>>
        BY <1>12 DEF ResolveOfficialPoll
      <3> HIDE DEF n, p
      <3>13. intent' \in [Msgs -> Intent]
        <4>1. [intent[m] EXCEPT !.pollLease = 0, !.nextPoll = n, !.providerState = p] \in Intent
          BY <3>1, <3>3, <3>5 DEF Intent
        <4> QED
          BY <1>0, <3>4, <4>1
      <3> QED
        BY <3>7, <3>8, <3>9, <3>10, <3>11, <3>12, <3>13 DEF TypeInvariant
    <2> QED
      BY <2>1, <2>2
  <1> QED
    BY <1>1, <1>2, <1>3, <1>4, <1>5, <1>6, <1>7, <1>8, <1>9, <1>10, <1>11, <1>12 DEF WorkerStep

\* The sweep and the admission of a row keep the types.
LEMMA TypeSweep ==
  ASSUME TypeInvariant,
         ExpireNotifications \/ \E m \in Msgs, failure \in BOOLEAN : Enqueue(m, failure)
  PROVE  TypeInvariant'
  <1>1. CASE ExpireNotifications
    BY <1>1, SweepType DEF TypeInvariant, ExpireNotifications, ghost
  <1>2. ASSUME NEW m \in Msgs, NEW failure \in BOOLEAN, Enqueue(m, failure)
        PROVE  TypeInvariant'
    <2> DEFINE new == [NoRow EXCEPT !.dest = target.dest, !.next = Now, !.expires = Now + TTL,
                                    !.isolated = (target.dest = UnknownDest),
                                    !.quarantined = failure]
    <2>1. new \in Row
      <3>1. target.dest \in Dests
        BY DEF TypeInvariant, Target
      <3>2. Now \in Nat /\ Now + TTL \in Nat
        BY Durations
      <3> QED
        BY <3>1, <3>2, EmptyTypes DEF Row
    <2>2. outbox' = [SweptOutbox EXCEPT ![m] = new]
      BY <1>2 DEF Enqueue
    <2> HIDE DEF new
    <2>3. outbox' \in [Msgs -> Row]
      BY <2>1, <2>2, SweepType
    <2>4. state' \in [Msgs -> States]
      BY <1>2, SweepType DEF Enqueue, States
    <2>5. intent' \in [Msgs -> Intent]
      BY <1>2, SweepType, EmptyTypes DEF Enqueue
    <2>6. cooldown' \in [Dests -> Nat] /\ seen' \subseteq Msgs
      BY <1>2, SweepType DEF Enqueue, TypeInvariant
    <2> QED
      BY <1>2, <2>3, <2>4, <2>5, <2>6 DEF TypeInvariant, Enqueue
  <1> QED
    BY <1>1, <1>2

\* The provider, a failing store and the clocks keep the types.
LEMMA TypeOutside ==
  ASSUME TypeInvariant,
         \/ ProviderStep \/ WorkerError \/ Tick
         \/ \E n \in 1 .. MaxBack : ClockBack(n)
  PROVE  TypeInvariant'
  <1>0. worker \in Worker /\ wire \subseteq [msg : Msgs, attempt : Nat, deadline : Nat]
    BY DEF TypeInvariant
  <1>1. ASSUME NEW r \in wire, NEW reply \in {"accepted", "refused"}, Heard(r, reply)
        PROVE  worker' \in Worker
    <2>1. [worker EXCEPT !.reply = reply] \in Worker
      BY <1>0 DEF Worker
    <2> QED
      BY <1>0, <1>1, <2>1 DEF Heard
  <1>2. ASSUME NEW r \in wire, ProviderAccepts(r) PROVE TypeInvariant'
    <2>1. worker' \in Worker
      BY <1>1, <1>2 DEF ProviderAccepts
    <2>2. deliveries' \in [Msgs -> Nat]
      <3>1. r.msg \in Msgs /\ deliveries \in [Msgs -> Nat]
        BY <1>0 DEF TypeInvariant
      <3> QED
        BY <1>2, <3>1 DEF ProviderAccepts
    <2> QED
      BY <1>2, <2>1, <2>2 DEF TypeInvariant, ProviderAccepts, store
  <1>3. ASSUME NEW r \in wire, ProviderRefuses(r) PROVE TypeInvariant'
    <2>1. worker' \in Worker
      BY <1>1, <1>3 DEF ProviderRefuses
    <2> QED
      BY <1>3, <2>1 DEF TypeInvariant, ProviderRefuses, store, ghost
  <1>4. ASSUME NEW r \in wire, Lost(r) PROVE TypeInvariant'
    BY <1>4 DEF TypeInvariant, Lost, store, ghost
  <1>5. CASE WorkerError
    BY <1>5, WorkerRests DEF TypeInvariant, WorkerError, store, ghost
  <1>6. CASE Tick
    <2>1. clock' \in (MaxBack + 1) .. MaxClock
      BY <1>6, TimeAssumption DEF TypeInvariant, Tick
    <2> QED
      BY <1>6, <2>1 DEF TypeInvariant, Tick, store, ghost
  <1>7. ASSUME NEW n \in 1 .. MaxBack, ClockBack(n) PROVE TypeInvariant'
    <2>1. back' \in 0 .. MaxBack
      BY <1>7, TimeAssumption DEF TypeInvariant, ClockBack
    <2> QED
      BY <1>7, <2>1 DEF TypeInvariant, ClockBack, store, ghost
  <1> QED
    BY <1>2, <1>3, <1>4, <1>5, <1>6, <1>7 DEF ProviderStep

\* The operator's commands keep the types.
LEMMA TypeOperator ==
  ASSUME TypeInvariant, OperatorStep
  PROVE  TypeInvariant'
  <1>0. /\ outbox \in [Msgs -> Row] /\ state \in [Msgs -> States] /\ Now \in Nat
        /\ \A m \in Msgs : outbox[m] \in Row
    BY Durations DEF TypeInvariant
  <1>1. Command => counts' \in [restarts : Nat, ops : Nat, restores : Nat]
    BY DEF Command, TypeInvariant
  <1>2. ASSUME NEW m \in Msgs, RetryNotification(m) PROVE TypeInvariant'
    <2> DEFINE new == [outbox[m] EXCEPT !.quarantined = FALSE, !.lease = 0, !.next = Now]
    <2>1. new \in Row
      BY <1>0, RowUpdates
    <2>2. outbox' = [outbox EXCEPT ![m] = new]
      BY <1>0, <1>2 DEF RetryNotification
    <2> HIDE DEF new
    <2>3. outbox' \in [Msgs -> Row]
      BY <1>0, <2>1, <2>2
    <2> QED
      BY <1>1, <1>2, <2>3 DEF TypeInvariant, RetryNotification, ghost
  <1>3. ASSUME NEW m \in Msgs, QuarantineNotification(m) PROVE TypeInvariant'
    <2>1. [outbox[m] EXCEPT !.quarantined = TRUE] \in Row
      BY <1>0, RowUpdates
    <2>2. outbox' = [outbox EXCEPT ![m] = [outbox[m] EXCEPT !.quarantined = TRUE]]
      BY <1>0, <1>3 DEF QuarantineNotification
    <2>3. outbox' \in [Msgs -> Row]
      BY <1>0, <2>1, <2>2
    <2> QED
      BY <1>1, <1>3, <2>3 DEF TypeInvariant, QuarantineNotification, ghost
  <1>4. ASSUME NEW m \in Msgs, AddSilence(m) PROVE TypeInvariant'
    <2>1. [outbox[m] EXCEPT !.suppressed = TRUE] \in Row
      BY <1>0, RowUpdates
    <2>2. outbox' = [outbox EXCEPT ![m] = [outbox[m] EXCEPT !.suppressed = TRUE]]
      BY <1>0, <1>4 DEF AddSilence
    <2>3. outbox' \in [Msgs -> Row]
      BY <1>0, <2>1, <2>2
    <2> QED
      BY <1>1, <1>4, <2>3 DEF TypeInvariant, AddSilence, ghost
  <1>5. ASSUME NEW d \in Dests, ResumeDestination(d) PROVE TypeInvariant'
    <2>1. \A m \in Msgs : [outbox[m] EXCEPT !.next = Now] \in Row
      BY <1>0, RowUpdates
    <2>2. outbox' \in [Msgs -> Row]
      BY <1>0, <1>5, <2>1 DEF ResumeDestination
    <2>3. cooldown' \in [Dests -> Nat]
      BY <1>5 DEF ResumeDestination, TypeInvariant
    <2> QED
      BY <1>1, <1>5, <2>2, <2>3 DEF TypeInvariant, ResumeDestination, ghost
  <1>6. ASSUME DiscardIsolatedNotifications PROVE TypeInvariant'
    <2>1. \A m \in Msgs : [outbox[m] EXCEPT !.suppressed = TRUE] \in Row
      BY <1>0, RowUpdates
    <2>2. outbox' \in [Msgs -> Row]
      BY <1>0, <1>6, <2>1 DEF DiscardIsolatedNotifications
    <2> QED
      BY <1>1, <1>6, <2>2 DEF TypeInvariant, DiscardIsolatedNotifications, ghost
  <1>7. ASSUME ReconcileOfficialPaidChannel PROVE TypeInvariant'
    <2>0. policy \in Policy /\ usage \in Usage /\ DayOf(Now) \in Nat
      BY Durations DEF TypeInvariant
    <2>1. outbox' \in [Msgs -> Row]
      BY <1>0, <1>7, HeldType DEF ReconcileOfficialPaidChannel
    <2>2. state' \in [Msgs -> States]
      BY <1>0, <1>7 DEF ReconcileOfficialPaidChannel, States
    <2>3. policy' \in Policy
      <3>1. Later(policy.clockHigh, Now) \in Nat /\ Later(policy.dayHigh, DayOf(Now)) \in Nat
        BY <1>0, <2>0, LaterType DEF Policy
      <3>2. policy' = [policy EXCEPT !.hold = FALSE,
                                     !.clockHigh = Later(policy.clockHigh, Now),
                                     !.dayHigh = Later(policy.dayHigh, DayOf(Now))]
        BY <1>7 DEF ReconcileOfficialPaidChannel
      <3> QED
        BY <2>0, <3>1, <3>2 DEF Policy
    <2>4. usage' \in Usage
      <3>1. policy.limits.messages \in Nat /\ policy.limits.segments \in Nat
        BY <2>0 DEF Policy
      <3>2. \A u \in [messages : Nat, segments : Nat] :
                SpentToday(u) \in [messages : Nat, segments : Nat]
        BY <3>1, LaterType DEF SpentToday
      <3>3. usage' = [usage EXCEPT ![DayOf(Now)] = SpentToday(@)]
        BY <1>7 DEF ReconcileOfficialPaidChannel
      <3> QED
        BY <2>0, <3>2, <3>3 DEF Usage
    <2> QED
      BY <1>1, <1>7, <2>1, <2>2, <2>3, <2>4 DEF TypeInvariant, ReconcileOfficialPaidChannel, ghost
  <1> QED
    BY <1>2, <1>3, <1>4, <1>5, <1>6, <1>7 DEF OperatorStep

\* Crashes, starts, backups and restores keep the types.
LEMMA TypeProcess ==
  ASSUME TypeInvariant, ProcessStep
  PROVE  TypeInvariant'
  <1>0. /\ outbox \in [Msgs -> Row] /\ state \in [Msgs -> States] /\ policy \in Policy
        /\ \A m \in Msgs : outbox[m] \in Row
        /\ counts \in [restarts : Nat, ops : Nat, restores : Nat]
    BY DEF TypeInvariant
  <1>1. ASSUME Crash PROVE TypeInvariant'
    <2>1. counts' \in [restarts : Nat, ops : Nat, restores : Nat]
      BY <1>0, <1>1 DEF Crash
    <2>2. worker' \in Worker
      BY <1>1, WorkerRests DEF Crash
    <2> QED
      BY <1>1, <2>1, <2>2 DEF TypeInvariant, Crash, store, ghost
  <1>2. ASSUME NEW c \in Configs, Start(c) PROVE TypeInvariant'
    <2>1. target' \in Target
      BY <1>2, DataAssumption DEF Start, Target
    <2>2. Retargeted(c) \in [Msgs -> Row]
      <3>1. \A m \in Msgs : [outbox[m] EXCEPT !.isolated = TRUE, !.lease = 0] \in Row
        BY <1>0, RowUpdates
      <3> QED
        BY <1>0, <3>1 DEF Retargeted
    <2>3. outbox' \in [Msgs -> Row]
      BY <1>2, <2>2, WithdrawnType DEF Start
    <2>4. ConfigureOfficialPolicy(c) \in Policy
      <3>1. ConsentAt(c) \in Nat
        BY <1>0, DataAssumption, Durations DEF ConsentAt, Policy
      <3> DEFINE out == IF ClearsOptout(c) THEN 0 ELSE policy.optout
      <3>2. out \in Nat
        BY <1>0 DEF Policy
      <3>3. ConfigureOfficialPolicy(c) =
              [policy EXCEPT !.enabled = c.enabled, !.revoked = c.revoked,
                             !.consent = ConsentAt(c), !.documented = c.documented,
                             !.cost = c.cost, !.basis = c.basis, !.kinds = c.kinds,
                             !.limits = c.limits, !.optout = out]
        BY DEF ConfigureOfficialPolicy
      <3> DEFINE at == ConsentAt(c)
      <3>4. /\ c.enabled \in BOOLEAN /\ c.revoked \in BOOLEAN /\ c.documented \in BOOLEAN
            /\ c.cost \in BOOLEAN /\ c.basis \in {k.basis : k \in Configs}
            /\ c.kinds \in {k.kinds : k \in Configs}
            /\ c.limits \in [messages : Nat, segments : Nat, perMessage : Nat]
        BY DataAssumption
      <3> HIDE DEF out, at
      <3>5. [policy EXCEPT !.enabled = c.enabled, !.revoked = c.revoked,
                           !.consent = at, !.documented = c.documented,
                           !.cost = c.cost, !.basis = c.basis, !.kinds = c.kinds,
                           !.limits = c.limits, !.optout = out] \in Policy
        BY <1>0, <3>1, <3>2, <3>4, Zenon DEF Policy, at
      <3> QED
        BY <3>3, <3>5 DEF at
    <2>5. policy' \in Policy
      BY <1>0, <1>2, <2>4 DEF Start
    <2>6. worker' \in Worker
      BY <1>2, WorkerRests DEF Start, TypeInvariant
    <2> QED
      BY <1>2, <2>1, <2>3, <2>5, <2>6 DEF TypeInvariant, Start, ghost
  <1>3. ASSUME Backup PROVE TypeInvariant'
    <2>1. backup' \subseteq Snapshot
      BY <1>3 DEF Backup, TypeInvariant, Snapshot
    <2> QED
      BY <1>3, <2>1 DEF TypeInvariant, Backup, store, ghost
  <1>4. ASSUME NEW b \in backup, RestoreBackup(b) PROVE TypeInvariant'
    <2>0. b \in Snapshot
      BY DEF TypeInvariant
    <2>1. /\ b.outbox \in [Msgs -> Row] /\ b.state \in [Msgs -> States]
          /\ b.intent \in [Msgs -> Intent] /\ b.policy \in Policy /\ b.target \in Target
          /\ b.cooldown \in [Dests -> Nat] /\ b.usage \in Usage
      BY <2>0 DEF Snapshot
    <2>2. policy' \in Policy
      BY <1>4, <2>1 DEF RestoreBackup, Policy
    <2>3. outbox' \in [Msgs -> Row]
      <3>1. \A m \in Msgs : [Held(b.outbox[m]) EXCEPT !.isolated = TRUE] \in Row
        BY <2>1, HeldType, RowUpdates
      <3> QED
        BY <1>4, <2>1, <3>1 DEF RestoreBackup
    <2>4. state' \in [Msgs -> States]
      <3>1. \A m \in Msgs : HeldState(b.state[m] = "in_flight") \in States
        BY HeldStateType
      <3> QED
        BY <1>4, <2>1, <3>1 DEF RestoreBackup
    <2>5. intent' \in [Msgs -> Intent]
      <3> DEFINE closed(m) ==
              [b.intent[m] EXCEPT !.providerState = IF b.intent[m].nextPoll > 0
                                                    THEN "unknown" ELSE b.intent[m].providerState,
                                  !.nextPoll = 0, !.pollLease = 0]
      <3>1. \A i \in Intent : \A p \in {"unknown", i.providerState} :
              [i EXCEPT !.providerState = p, !.nextPoll = 0, !.pollLease = 0] \in Intent
        BY DEF Intent
      <3>2. \A m \in Msgs : closed(m) \in Intent
        BY <2>1, <3>1
      <3>3. intent' = [m \in Msgs |-> IF Twilio THEN closed(m) ELSE b.intent[m]]
        BY <1>4 DEF RestoreBackup
      <3> HIDE DEF closed
      <3> QED
        BY <2>1, <3>2, <3>3
    <2>6. counts' \in [restarts : Nat, ops : Nat, restores : Nat]
      <3>1. counts' = [counts EXCEPT !.restores = @ + 1]
        BY <1>4 DEF RestoreBackup
      <3> QED
        BY <1>0, <3>1
    <2>7. /\ target' = b.target /\ cooldown' = b.cooldown /\ usage' = b.usage
          /\ UNCHANGED <<clock, back, worker, wire, backup, ghost>>
      BY <1>4 DEF RestoreBackup
    <2> QED
      BY <2>1, <2>2, <2>3, <2>4, <2>5, <2>6, <2>7 DEF TypeInvariant, ghost
  <1> QED
    BY <1>1, <1>2, <1>3, <1>4 DEF ProcessStep

\* A step that changes nothing keeps the types.
LEMMA TypeStutter ==
  ASSUME TypeInvariant, UNCHANGED vars
  PROVE  TypeInvariant'
  BY DEF TypeInvariant, vars, store, ghost

\* Every table, the worker and the wire stay well typed, whatever the workers,
\* the provider, the operator, crashes, restores and the clock do.
THEOREM TypeCorrect == Spec => []TypeInvariant
  <1>1. TypeInvariant /\ [Next]_vars => TypeInvariant'
    BY TypeSweep, TypeOutside, TypeWorker, TypeOperator, TypeProcess, TypeStutter DEF Next
  <1> QED
    BY <1>1, TypeInit, PTL DEF Spec


-----------------------------------------------------------------------------
(* Channels without an idempotency key *)

\* Nothing has been admitted, sent or delivered at first.
LEMMA FreshInit == Init => Fresh
  <1> SUFFICES ASSUME Init PROVE Fresh
    OBVIOUS
  <1>1. TypeInvariant
    BY TypeInit
  <1>2. worker.pc = "idle" /\ worker.reply = "none"
    BY DEF Init, At
  <1>3. UnseenIsFresh
    BY <1>2 DEF Init, UnseenIsFresh, Untouched, Idle
  <1>4. ReadyIsFresh
    BY DEF Init, ReadyIsFresh, Ready
  <1>5. SentIsAccepted
    BY DEF Init, SentIsAccepted, NoRow
  <1>6. SnapshotsKnown /\ WireIsFresh
    BY DEF Init, SnapshotsKnown, WireIsFresh
  <1>7. RefusalsAreTrue /\ RepliesInTime
    BY <1>2 DEF RefusalsAreTrue, RepliesInTime, NothingSent
  <1>8. OnceEach
    BY DEF Init, OnceEach
  <1> QED
    BY <1>3, <1>4, <1>5, <1>6, <1>7, <1>8 DEF Fresh

\* A worker that is not attempting anything and works on an admitted row.
Quiet(w) ==
    /\ w.pc \notin {"begun", "allowed", "sending", "answered"} /\ w.reply = "none"
    /\ w.pc \notin Idle => w.msg \in seen

\* A step that sends nothing, makes no row ready and leaves the worker alone
\* or quiet keeps the rows fresh.
LEMMA FreshFrame ==
  ASSUME TypeInvariant, Fresh, UNCHANGED <<seen, deliveries, backup, firstPost>>,
         wire' \subseteq wire,
         worker' = worker \/ Quiet(worker'),
         \A m \in Msgs : state'[m] \in Ready => state[m] \in Ready,
         \A m \in Msgs : state'[m] # "absent" => state[m] # "absent",
         \A m \in Msgs : outbox'[m].sent =>
             state'[m] = "accepted" \/ (outbox[m].sent /\ state'[m] = state[m])
  PROVE  Fresh'
  <1>0. \A m \in Msgs : Untouched(m) => Untouched(m)'
    BY DEF Untouched
  <1>1. UnseenIsFresh'
    BY <1>0 DEF Fresh, UnseenIsFresh, Quiet
  <1>2. ReadyIsFresh'
    BY <1>0 DEF Fresh, ReadyIsFresh, Quiet, Attempting
  <1>3. SentIsAccepted'
    BY DEF Fresh, SentIsAccepted
  <1>4. SnapshotsKnown'
    BY DEF Fresh, SnapshotsKnown
  <1>5. WireIsFresh' /\ OnceEach'
    BY DEF Fresh, WireIsFresh, OnceEach
  <1>6. RefusalsAreTrue'
    BY DEF Fresh, RefusalsAreTrue, NothingSent, Quiet, Untouched
  <1>7. RepliesInTime'
    BY DEF Fresh, RepliesInTime, Quiet
  <1> QED
    BY <1>1, <1>2, <1>3, <1>4, <1>5, <1>6, <1>7 DEF Fresh

\* Workers at rest are quiet.
LEMMA RestIsQuiet == Quiet(At("idle")) /\ Quiet(At("down"))
  BY DEF Quiet, At, Idle

\* A sweep makes no row ready and removes or keeps rows.
LEMMA SweepIsFresh ==
  ASSUME TypeInvariant, Fresh, ~LINE, NEW m \in Msgs
  PROVE  /\ SweptState[m] \in Ready => state[m] \in Ready
         /\ SweptState[m] # "absent" => state[m] # "absent"
         /\ SweptOutbox[m].sent => outbox[m].sent /\ SweptState[m] = state[m]
  <1>1. outbox[m] \in Row /\ state[m] \in States
    BY RowTypes
  <1>2. RecoveredState(m) = state[m] \/
            (state[m] = "in_flight" /\ RecoveredState(m) = "delivery_unknown")
    BY DEF RecoveredState
  <1>3. SweptState[m] = "absent" \/ SweptState[m] = RecoveredState(m)
    BY DEF SweptState
  <1>4. SweptOutbox[m].sent => outbox[m].sent /\ SweptState[m] = RecoveredState(m)
    BY <1>1 DEF SweptOutbox, SweptState, NoRow, RecoveredRow, Held, Row
  <1>5. outbox[m].sent => state[m] # "in_flight"
    BY DEF Fresh, SentIsAccepted
  <1> QED
    BY <1>2, <1>3, <1>4, <1>5 DEF Ready

\* The sweep keeps the rows fresh.
LEMMA FreshSweep ==
  ASSUME TypeInvariant, Fresh, ~LINE, ExpireNotifications
  PROVE  Fresh'
  BY FreshFrame, SweepIsFresh DEF ExpireNotifications, ghost

\* Claims, refused begins, polls and failures of the store.
LEMMA FreshWorkerQuiet ==
  ASSUME TypeInvariant, Fresh,
         \/ \E m \in Msgs : ClaimNotification(m) \/ ClaimOfficialPoll(m)
         \/ BeginRefused \/ ReleaseNotificationClaim \/ Poll \/ ResolveOfficialPoll
         \/ WorkerError
  PROVE  Fresh'
  <1>0. /\ worker \in Worker /\ outbox \in [Msgs -> Row] /\ state \in [Msgs -> States]
        /\ \A m \in Msgs : outbox[m] \in Row
    BY DEF TypeInvariant
  <1>1. \A m \in Msgs : state[m] # "absent" => m \in seen
    BY DEF Fresh, UnseenIsFresh
  <1>2. worker.pc \notin Idle => worker.msg \in Msgs /\ worker.msg \in seen
    BY <1>0, WorkerBusy DEF Fresh, UnseenIsFresh
  <1>3. worker.pc \notin {"sending", "answered"} => worker.reply = "none"
    BY DEF Fresh, RepliesInTime
  <1>4. ASSUME NEW m \in Msgs, ClaimNotification(m) PROVE Fresh'
    <2>1. Quiet(worker')
      BY <1>1, <1>4 DEF ClaimNotification, Quiet, At, Live, Unsent, Present
    <2>2. \A n \in Msgs : outbox'[n].sent = outbox[n].sent
      BY <1>0, <1>4 DEF ClaimNotification, Row
    <2> QED
      BY <1>4, <2>1, <2>2, FreshFrame DEF ClaimNotification, ghost
  <1>5. ASSUME NEW m \in Msgs, ClaimOfficialPoll(m) PROVE Fresh'
    <2>1. Quiet(worker')
      BY <1>1, <1>5 DEF ClaimOfficialPoll, Quiet, At, PollPermitted
    <2> QED
      BY <1>5, <2>1, FreshFrame DEF ClaimOfficialPoll, ghost
  <1>6. ASSUME BeginRefused PROVE Fresh'
    <2>1. Quiet(worker')
      BY <1>0, <1>2, <1>3, <1>6 DEF BeginRefused, Quiet, Worker, Idle
    <2>2. worker.msg \in Msgs
      BY <1>2, <1>6 DEF BeginRefused, Idle
    <2>3. \A n \in Msgs : /\ outbox'[n].sent = outbox[n].sent
                          /\ \/ state'[n] = state[n]
                             \/ state[n] \in Ready /\ state'[n] \in {"blocked", "delivery_unknown"}
      <3>1. ASSUME NEW u \in BOOLEAN, Block(worker.msg, u), state[worker.msg] \in Ready,
                   NEW n \in Msgs
            PROVE  /\ outbox'[n].sent = outbox[n].sent
                   /\ \/ state'[n] = state[n]
                      \/ state[n] \in Ready /\ state'[n] \in {"blocked", "delivery_unknown"}
        BY <1>0, <2>2, <3>1 DEF Block, Held, HeldState, Row
      <3>2. \/ UNCHANGED <<state, outbox>>
            \/ /\ state[worker.msg] \in Ready
               /\ \/ Block(worker.msg, intent[worker.msg].uncertain)
                  \/ Block(worker.msg, FALSE)
        BY <1>6 DEF BeginRefused, Eligible
      <3>3. intent[worker.msg].uncertain \in BOOLEAN
        BY <2>2, RowTypes
      <3> QED
        BY <3>1, <3>2, <3>3
    <2>4. \A n \in Msgs : outbox[n].sent => state[n] \notin Ready
      BY DEF Fresh, SentIsAccepted, Ready
    <2> QED
      BY <1>6, <2>1, <2>3, <2>4, FreshFrame DEF BeginRefused, ghost, Ready
  <1>7. ASSUME ReleaseNotificationClaim PROVE Fresh'
    <2>1. \A n \in Msgs : outbox'[n].sent = outbox[n].sent
      BY <1>0, <1>7 DEF ReleaseNotificationClaim, Row
    <2> QED
      BY <1>7, <2>1, FreshFrame, RestIsQuiet DEF ReleaseNotificationClaim, ghost
  <1>8. ASSUME Poll PROVE Fresh'
    <2>1. worker' = At("idle") \/
            \E r \in PollResults : worker' = [worker EXCEPT !.pc = "polled", !.result = r]
      BY <1>8 DEF Poll
    <2>2. Quiet(worker')
      <3>1. \A r \in PollResults : Quiet([worker EXCEPT !.pc = "polled", !.result = r])
        BY <1>0, <1>2, <1>3, <1>8 DEF Poll, Quiet, Worker, Idle
      <3> QED
        BY <2>1, <3>1, RestIsQuiet DEF Quiet
    <2> QED
      BY <1>8, <2>2, FreshFrame DEF Poll, store
  <1>9. ASSUME ResolveOfficialPoll PROVE Fresh'
    <2>1. outbox' = outbox \/ outbox' = Withdrawn(outbox)
      BY <1>9 DEF ResolveOfficialPoll
    <2>2. \A n \in Msgs : outbox'[n].sent = outbox[n].sent
      BY <1>0, <2>1 DEF Withdrawn, Row
    <2> QED
      BY <1>9, <2>2, FreshFrame, RestIsQuiet DEF ResolveOfficialPoll
  <1>10. CASE WorkerError
    BY <1>10, FreshFrame, RestIsQuiet DEF WorkerError, store, ghost
  <1> QED
    BY <1>4, <1>5, <1>6, <1>7, <1>8, <1>9, <1>10

\* No operator command makes a row ready again.
LEMMA FreshOperator ==
  ASSUME TypeInvariant, Fresh, OperatorStep
  PROVE  Fresh'
  <1>0. /\ outbox \in [Msgs -> Row] /\ state \in [Msgs -> States]
        /\ \A m \in Msgs : outbox[m] \in Row
    BY DEF TypeInvariant
  <1>1. ASSUME NEW m \in Msgs, RetryNotification(m) \/ QuarantineNotification(m) \/ AddSilence(m)
        PROVE  Fresh'
    <2>1. \A n \in Msgs : outbox'[n].sent = outbox[n].sent
      BY <1>0, <1>1 DEF RetryNotification, QuarantineNotification, AddSilence, Row
    <2>2. UNCHANGED <<state, worker, wire, backup, ghost>>
      BY <1>1 DEF RetryNotification, QuarantineNotification, AddSilence
    <2> QED
      BY <2>1, <2>2, FreshFrame DEF ghost
  <1>2. ASSUME NEW d \in Dests, ResumeDestination(d) PROVE Fresh'
    <2>1. \A n \in Msgs : outbox'[n].sent = outbox[n].sent
      BY <1>0, <1>2 DEF ResumeDestination, Row
    <2> QED
      BY <1>2, <2>1, FreshFrame DEF ResumeDestination, ghost
  <1>3. ASSUME DiscardIsolatedNotifications PROVE Fresh'
    <2>1. \A n \in Msgs : outbox'[n].sent = outbox[n].sent
      BY <1>0, <1>3 DEF DiscardIsolatedNotifications, Row
    <2> QED
      BY <1>3, <2>1, FreshFrame DEF DiscardIsolatedNotifications, ghost
  <1>4. ASSUME ReconcileOfficialPaidChannel PROVE Fresh'
    <2>1. \A n \in Msgs : outbox'[n].sent = outbox[n].sent
      BY <1>0, <1>4 DEF ReconcileOfficialPaidChannel, Held, Row
    <2>2. \A n \in Msgs : IF Unsent(n) THEN state'[n] = "blocked" ELSE state'[n] = state[n]
      BY <1>4 DEF ReconcileOfficialPaidChannel
    <2> QED
      BY <1>4, <2>1, <2>2, FreshFrame DEF ReconcileOfficialPaidChannel, ghost, Ready, Unsent, Present
  <1> QED
    BY <1>1, <1>2, <1>3, <1>4 DEF OperatorStep

\* The attempt itself: a begun attempt starts from a fresh row, and only a
\* proved refusal makes the row ready again.
LEMMA FreshAttempt ==
  ASSUME TypeInvariant, Fresh, ~LINE,
         \/ BeginOfficialDispatch \/ Recheck \/ Post \/ PostNotSent \/ Answer
         \/ ResolveOfficialDispatch
  PROVE  Fresh'
  <1>0. /\ worker \in Worker /\ outbox \in [Msgs -> Row] /\ state \in [Msgs -> States]
        /\ \A m \in Msgs : outbox[m] \in Row
    BY DEF TypeInvariant
  <1>1. /\ worker.pc \notin Idle /\ worker.msg \in Msgs
    BY WorkerBusy DEF BeginOfficialDispatch, Recheck, Post, PostNotSent, Answer,
                      ResolveOfficialDispatch, Idle
  <1>2. worker.msg \in seen
    BY <1>1 DEF Fresh, UnseenIsFresh
  <1>3. worker.pc \notin {"sending", "answered"} => worker.reply = "none"
    BY DEF Fresh, RepliesInTime
  <1>4. ASSUME BeginOfficialDispatch PROVE Fresh'
    <2>1. /\ worker'.pc = "begun" /\ worker'.msg = worker.msg /\ worker'.reply = "none"
      BY <1>0, <1>3, <1>4 DEF BeginOfficialDispatch, Worker
    <2>2. /\ state[worker.msg] \in Ready
          /\ state' = [state EXCEPT ![worker.msg] = "in_flight"]
          /\ UNCHANGED <<outbox, wire, backup, ghost>>
      BY <1>4 DEF BeginOfficialDispatch, Eligible
    <2>3. Untouched(worker.msg) /\ \A m \in Msgs : Untouched(m)' <=> Untouched(m)
      BY <1>1, <2>2 DEF Fresh, ReadyIsFresh, Untouched, ghost
    <2>4. UnseenIsFresh'
      BY <1>0, <1>2, <2>1, <2>2, <2>3 DEF Fresh, UnseenIsFresh, ghost
    <2>5. ReadyIsFresh'
      BY <1>0, <2>1, <2>2, <2>3 DEF Fresh, ReadyIsFresh, Ready
    <2>6. SentIsAccepted'
      BY <1>0, <2>2 DEF Fresh, SentIsAccepted, Ready
    <2>7. SnapshotsKnown' /\ WireIsFresh' /\ OnceEach'
      BY <2>2 DEF Fresh, SnapshotsKnown, WireIsFresh, OnceEach, ghost
    <2>8. RefusalsAreTrue' /\ RepliesInTime'
      BY <1>1, <2>1, <2>3 DEF RefusalsAreTrue, RepliesInTime
    <2> QED
      BY <2>4, <2>5, <2>6, <2>7, <2>8 DEF Fresh
  <1>5. ASSUME Recheck \/ PostNotSent \/ Answer PROVE Fresh'
    <2>1. /\ worker'.pc \in {"allowed", "answered"} /\ worker'.msg = worker.msg
          /\ worker'.reply = worker.reply
      <3>1. \A r : /\ [worker EXCEPT !.pc = "answered", !.result = r].pc = "answered"
                   /\ [worker EXCEPT !.pc = "answered", !.result = r].msg = worker.msg
                   /\ [worker EXCEPT !.pc = "answered", !.result = r].reply = worker.reply
        BY <1>0 DEF Worker
      <3>2. \A d : /\ [worker EXCEPT !.pc = "allowed", !.deadline = d].pc = "allowed"
                   /\ [worker EXCEPT !.pc = "allowed", !.deadline = d].msg = worker.msg
                   /\ [worker EXCEPT !.pc = "allowed", !.deadline = d].reply = worker.reply
        BY <1>0 DEF Worker
      <3>3. \/ \E r : worker' = [worker EXCEPT !.pc = "answered", !.result = r]
            \/ \E d : worker' = [worker EXCEPT !.pc = "allowed", !.deadline = d]
        <4>1. CASE Recheck
          BY <4>1 DEF Recheck
        <4>2. CASE PostNotSent
          BY <4>2 DEF PostNotSent
        <4>3. CASE Answer
          BY <4>3 DEF Answer
        <4> QED
          BY <1>5, <4>1, <4>2, <4>3
      <3>4. CASE \E r : worker' = [worker EXCEPT !.pc = "answered", !.result = r]
        <4>1. PICK r : worker' = [worker EXCEPT !.pc = "answered", !.result = r]
          BY <3>4
        <4> QED
          BY <3>1, <4>1
      <3>5. CASE \E d : worker' = [worker EXCEPT !.pc = "allowed", !.deadline = d]
        <4>1. PICK d : worker' = [worker EXCEPT !.pc = "allowed", !.deadline = d]
          BY <3>5
        <4> QED
          BY <3>2, <4>1
      <3> QED
        BY <3>3, <3>4, <3>5
    <2>2. worker'.pc = "allowed" => worker.reply = "none"
      <3>1. CASE Recheck
        BY <1>3, <3>1 DEF Recheck
      <3>2. CASE PostNotSent
        BY <1>3, <3>2 DEF PostNotSent
      <3>3. CASE Answer
        BY <1>0, <3>3 DEF Answer, Worker
      <3> QED
        BY <1>5, <3>1, <3>2, <3>3
    <2>3. UNCHANGED <<outbox, state, wire, backup, seen, deliveries, firstPost>> /\ Attempting
      BY <1>5 DEF Recheck, PostNotSent, Answer, store, ghost, Attempting
    <2>4. \A m \in Msgs : Untouched(m)' <=> Untouched(m)
      BY <2>3 DEF Untouched
    <2>5. UnseenIsFresh'
      BY <1>2, <2>1, <2>3, <2>4 DEF Fresh, UnseenIsFresh
    <2>6. ReadyIsFresh'
      BY <2>1, <2>3, <2>4 DEF Fresh, ReadyIsFresh, Attempting
    <2>7. SentIsAccepted' /\ SnapshotsKnown' /\ WireIsFresh' /\ OnceEach'
      BY <2>3 DEF Fresh, SentIsAccepted, SnapshotsKnown, WireIsFresh, OnceEach
    <2>8. RefusalsAreTrue'
      <3>1. CASE Recheck \/ PostNotSent
        BY <1>1, <2>1, <2>4, <3>1 DEF Fresh, RefusalsAreTrue, NothingSent, Recheck, PostNotSent
      <3>2. CASE Answer
        <4>1. PICK r \in ResultsOf(worker.reply) :
                worker' = [worker EXCEPT !.pc = "answered", !.result = r]
          BY <3>2 DEF Answer
        <4>2. worker'.result = r /\ worker'.pc = "answered"
          BY <1>0, <4>1 DEF Worker
        <4>3. r.outcome = "not_accepted" => worker.reply = "refused"
          BY ResultTypes DEF ResultsOf
        <4> QED
          BY <1>1, <2>1, <2>4, <3>2, <4>2, <4>3 DEF Fresh, RefusalsAreTrue, NothingSent, Answer
      <3> QED
        BY <1>5, <3>1, <3>2
    <2>9. RepliesInTime'
      BY <2>1, <2>2 DEF Fresh, RepliesInTime
    <2> QED
      BY <2>5, <2>6, <2>7, <2>8, <2>9 DEF Fresh
  <1>6. ASSUME Post PROVE Fresh'
    <2>1. /\ worker'.pc = "sending" /\ worker'.msg = worker.msg /\ worker'.reply = "none"
      BY <1>0, <1>3, <1>6 DEF Post, Worker
    <2>2. /\ Untouched(worker.msg) /\ state[worker.msg] \notin Ready
      BY <1>1, <1>6 DEF Post, Fresh, RefusalsAreTrue, NothingSent, ReadyIsFresh, Attempting
    <2>3. /\ wire' = wire \cup {[msg |-> worker.msg, attempt |-> worker.attempt,
                                 deadline |-> worker.deadline]}
          /\ UNCHANGED <<outbox, state, backup, seen, deliveries>>
      BY <1>6 DEF Post, store
    <2>4. \A m \in Msgs : m # worker.msg /\ Untouched(m) => Untouched(m)'
      BY <2>3 DEF Untouched
    <2>5. UnseenIsFresh'
      <3>1. \A m \in Msgs : m # worker.msg => firstPost'[m] = firstPost[m]
        BY <1>6 DEF Post, TypeInvariant
      <3> QED
        BY <1>2, <2>1, <2>3, <2>4, <3>1 DEF Fresh, UnseenIsFresh
    <2>6. ReadyIsFresh'
      BY <2>1, <2>2, <2>3, <2>4 DEF Fresh, ReadyIsFresh
    <2>7. SentIsAccepted' /\ SnapshotsKnown' /\ OnceEach'
      BY <2>3 DEF Fresh, SentIsAccepted, SnapshotsKnown, OnceEach
    <2>8. WireIsFresh'
      BY <2>2, <2>3 DEF Fresh, WireIsFresh, Untouched
    <2>9. RefusalsAreTrue' /\ RepliesInTime'
      BY <2>1 DEF RefusalsAreTrue, RepliesInTime, NothingSent
    <2> QED
      BY <2>5, <2>6, <2>7, <2>8, <2>9 DEF Fresh
  <1>7. ASSUME ResolveOfficialDispatch PROVE Fresh'
    <2> DEFINE m == worker.msg
               r == worker.result
    <2>1. Quiet(worker')
      BY <1>7, RestIsQuiet DEF ResolveOfficialDispatch, Quiet
    <2>2. UNCHANGED <<wire, backup, seen, deliveries, firstPost>>
      BY <1>7 DEF ResolveOfficialDispatch
    <2>3. CASE ~Matches(m, r, worker.attempt)
      BY <1>7, <2>1, <2>2, <2>3, FreshFrame DEF ResolveOfficialDispatch
    <2>4. CASE Matches(m, r, worker.attempt)
      <3>0. /\ Present(m) /\ (~outbox[m].sent \/ state[m] = "accepted")
            /\ r.outcome \in {"accepted", "not_accepted", "unknown"}
        BY <1>0, <1>1, <1>7, <2>4 DEF Matches, ResolveOfficialDispatch, Worker, Fresh, SentIsAccepted
      <3>1. ASSUME ResolveAccepted(m) PROVE Fresh'
        <4>1. \A n \in Msgs : /\ state'[n] = IF n = m THEN "accepted" ELSE state[n]
                              /\ n # m => outbox'[n].sent = outbox[n].sent
          BY <1>0, <1>1, <3>1 DEF ResolveAccepted, Row
        <4> QED
          BY <2>1, <2>2, <2>4, <4>1, FreshFrame DEF Matches, Present, Ready
      <3>2. ASSUME ResolveUnknown(m, r) PROVE Fresh'
        <4>1. Block(m, TRUE)
          BY <3>2 DEF ResolveUnknown
        <4>2. \A n \in Msgs : /\ state'[n] = IF n = m THEN "delivery_unknown" ELSE state[n]
                              /\ outbox'[n].sent = outbox[n].sent
          BY <1>0, <1>1, <4>1 DEF Block, Held, HeldState, Row
        <4>3. ~outbox[m].sent \/ state[m] = "accepted"
          BY <3>0
        <4>4. state[m] # "accepted" /\ state[m] # "absent"
          BY <2>4 DEF Matches, Present
        <4> QED
          BY <2>1, <2>2, <4>2, <4>3, <4>4, FreshFrame DEF Ready
      <3>3. ASSUME ResolveNotAccepted(m, r), r.outcome = "not_accepted" PROVE Fresh'
        <4>1. state[m] = "in_flight" /\ Untouched(m) /\ ~outbox[m].sent
          BY <1>1, <1>7, <2>4, <3>3 DEF Matches, ResolveOfficialDispatch, Fresh, RefusalsAreTrue,
               NothingSent, SentIsAccepted
        <4>2. \A n \in Msgs : /\ n # m => state'[n] = state[n]
                              /\ state'[m] \in {"blocked", "retry_ready"}
          BY <1>0, <1>1, <3>3 DEF ResolveNotAccepted
        <4>3. \A n \in Msgs : outbox'[n].sent = outbox[n].sent
          <5>1. PICK row : /\ row.sent = outbox[m].sent
                           /\ outbox' = IF OptOut(r) THEN Withdrawn([outbox EXCEPT ![m] = row])
                                        ELSE [outbox EXCEPT ![m] = row]
                           /\ row \in Row
            <6> DEFINE wait == Later(r.retry, RefusedWait)
            <6>1. PICK row \in {Held(outbox[m]),
                                [outbox[m] EXCEPT !.lease = 0, !.next = Now + wait]} :
                    outbox' = IF OptOut(r) THEN Withdrawn([outbox EXCEPT ![m] = row])
                              ELSE [outbox EXCEPT ![m] = row]
              BY <3>3 DEF ResolveNotAccepted
            <6>2. Now + wait \in Nat
              <7>1. r.retry \in Nat
                BY <1>0 DEF Worker, Result
              <7> QED
                BY <7>1, LaterType, Durations
            <6>3. row \in Row /\ row.sent = outbox[m].sent
              <7>1. CASE row = Held(outbox[m])
                BY <1>0, <1>1, <7>1, HeldType DEF Held, Row
              <7>2. CASE row = [outbox[m] EXCEPT !.lease = 0, !.next = Now + wait]
                <8>1. row \in Row
                  BY <1>0, <1>1, <6>2, <7>2, RowUpdates
                <8>2. row.sent = outbox[m].sent
                  BY <1>0, <1>1, <7>2 DEF Row
                <8> QED
                  BY <8>1, <8>2
              <7> QED
                BY <7>1, <7>2
            <6> QED
              BY <6>1, <6>3
          <5>2. [outbox EXCEPT ![m] = row] \in [Msgs -> Row]
            BY <1>0, <5>1
          <5>3. \A rows \in [Msgs -> Row], n \in Msgs : Withdrawn(rows)[n].sent = rows[n].sent
            BY DEF Withdrawn, Row
          <5> QED
            BY <1>0, <1>1, <5>1, <5>2, <5>3
        <4>4. \A n \in Msgs : Untouched(n)' <=> Untouched(n)
          BY <2>2 DEF Untouched
        <4>5. UnseenIsFresh'
          BY <1>2, <2>1, <2>2, <4>2, <4>4 DEF Fresh, UnseenIsFresh, Quiet
        <4>6. ReadyIsFresh'
          BY <2>1, <4>1, <4>2, <4>4 DEF Fresh, ReadyIsFresh, Quiet, Attempting
        <4>7. SentIsAccepted'
          BY <4>1, <4>2, <4>3 DEF Fresh, SentIsAccepted
        <4>8. SnapshotsKnown' /\ WireIsFresh' /\ OnceEach'
          BY <2>2 DEF Fresh, SnapshotsKnown, WireIsFresh, OnceEach
        <4>9. RefusalsAreTrue' /\ RepliesInTime'
          BY <2>1 DEF RefusalsAreTrue, RepliesInTime, NothingSent, Quiet
        <4> QED
          BY <4>5, <4>6, <4>7, <4>8, <4>9 DEF Fresh
      <3> QED
        BY <1>7, <2>4, <3>0, <3>1, <3>2, <3>3 DEF ResolveOfficialDispatch
    <2> QED
      BY <2>3, <2>4
  <1> QED
    BY <1>4, <1>5, <1>6, <1>7

\* A new row starts fresh.
LEMMA FreshEnqueue ==
  ASSUME TypeInvariant, Fresh, ~LINE, NEW m \in Msgs, NEW failure \in BOOLEAN,
         Enqueue(m, failure)
  PROVE  Fresh'
  <1>0. SweptOutbox \in [Msgs -> Row] /\ SweptState \in [Msgs -> States]
    BY SweepType
  <1>1. /\ m \notin seen /\ seen' = seen \cup {m}
        /\ UNCHANGED <<worker, wire, backup, deliveries, firstPost>>
    BY DEF Enqueue
  <1>2. \A n \in Msgs : Untouched(n)' <=> Untouched(n)
    BY <1>1 DEF Untouched
  <1>3. \A n \in Msgs : n # m => state'[n] = SweptState[n] /\ outbox'[n] = SweptOutbox[n]
    BY <1>0 DEF Enqueue
  <1>4. state'[m] \in {"blocked", "prepared"} /\ ~outbox'[m].sent
    BY <1>0 DEF Enqueue, NoRow
  <1>5. UnseenIsFresh'
    BY <1>1, <1>2, <1>3, SweepIsFresh DEF Fresh, UnseenIsFresh
  <1>6. ReadyIsFresh'
    <2>1. Untouched(m) /\ ~(Attempting /\ worker.msg = m)
      BY <1>1 DEF Fresh, UnseenIsFresh, Attempting, Idle
    <2> QED
      BY <1>1, <1>2, <1>3, <2>1, SweepIsFresh DEF Fresh, ReadyIsFresh, Attempting
  <1>7. SentIsAccepted'
    BY <1>3, <1>4, SweepIsFresh DEF Fresh, SentIsAccepted
  <1>8. SnapshotsKnown' /\ WireIsFresh' /\ OnceEach'
    BY <1>1 DEF Fresh, SnapshotsKnown, WireIsFresh, OnceEach
  <1>9. RefusalsAreTrue' /\ RepliesInTime'
    BY <1>1 DEF Fresh, RefusalsAreTrue, RepliesInTime, NothingSent, Untouched
  <1> QED
    BY <1>5, <1>6, <1>7, <1>8, <1>9 DEF Fresh

\* The provider decides each request once.
LEMMA FreshProvider ==
  ASSUME TypeInvariant, Fresh, ~LINE, ProviderStep
  PROVE  Fresh'
  <1>0. worker \in Worker /\ \A r \in wire : r.msg \in Msgs
    BY DEF TypeInvariant
  <1>1. ASSUME NEW r \in wire, Lost(r) PROVE Fresh'
    BY <1>1, FreshFrame DEF Lost, store, ghost
  <1>2. ASSUME NEW r \in wire, ProviderAccepts(r) \/ ProviderRefuses(r) PROVE Fresh'
    <2>1. /\ wire' = wire \ {r} /\ UNCHANGED <<outbox, state, backup, seen, firstPost>>
          /\ r.msg \in Msgs /\ deliveries[r.msg] = 0
      BY <1>0, <1>2 DEF ProviderAccepts, ProviderRefuses, store, ghost, Fresh, WireIsFresh
    <2>2. /\ \A m \in Msgs : m # r.msg => deliveries'[m] = deliveries[m]
          /\ deliveries'[r.msg] \in {0, 1}
          /\ ProviderRefuses(r) => deliveries'[r.msg] = 0
      BY <1>2, <2>1 DEF ProviderAccepts, ProviderRefuses, TypeInvariant, Duplicate, ghost
    <2>3. \A m \in Msgs : m # r.msg => (Untouched(m) => Untouched(m)')
      BY <2>1, <2>2 DEF Untouched
    <2>4. ~Untouched(r.msg) /\ (deliveries'[r.msg] = 0 => Untouched(r.msg)')
      BY <2>1 DEF Untouched, Fresh, WireIsFresh
    <2>5. /\ worker'.pc = worker.pc /\ worker'.msg = worker.msg
          /\ worker'.result = worker.result
          /\ worker'.reply # worker.reply =>
                /\ worker.pc = "sending" /\ worker.msg = r.msg
                /\ worker'.reply = "refused" => ProviderRefuses(r)
      <3>1. CASE ProviderAccepts(r)
        BY <1>0, <3>1 DEF ProviderAccepts, Heard, Worker
      <3>2. CASE ProviderRefuses(r)
        BY <1>0, <3>2 DEF ProviderRefuses, Heard, Worker
      <3> QED
        BY <1>2, <3>1, <3>2
    <2>6. UnseenIsFresh'
      BY <2>1, <2>3, <2>4, <2>5 DEF Fresh, UnseenIsFresh
    <2>7. ReadyIsFresh'
      BY <2>1, <2>3, <2>4, <2>5 DEF Fresh, ReadyIsFresh, Attempting
    <2>8. SentIsAccepted' /\ SnapshotsKnown'
      BY <2>1 DEF Fresh, SentIsAccepted, SnapshotsKnown
    <2>9. OnceEach'
      BY <2>2 DEF Fresh, OnceEach
    <2>10. WireIsFresh'
      BY <1>0, <2>1, <2>2 DEF Fresh, WireIsFresh
    <2>11. RefusalsAreTrue'
      <3> SUFFICES ASSUME NothingSent'
                   PROVE  deliveries'[worker.msg] = 0 /\ \A q \in wire' : q.msg # worker.msg
        BY <2>5 DEF RefusalsAreTrue, Untouched
      <3>0. worker.msg \in Msgs
        <4>1. worker'.pc \in {"begun", "allowed", "sending", "answered"}
          BY DEF NothingSent
        <4>2. worker.pc \notin Idle
          BY <2>5, <4>1 DEF Idle
        <4> QED
          BY <4>2, WorkerBusy
      <3>1. CASE NothingSent
        <4>1. Untouched(worker.msg) /\ worker.msg # r.msg
          BY <2>4, <3>1 DEF Fresh, RefusalsAreTrue
        <4> QED
          BY <2>1, <2>2, <3>0, <4>1 DEF Untouched
      <3>2. CASE ~NothingSent
        <4>1. worker.pc = "sending" /\ worker'.reply = "refused" /\ worker.reply # "refused"
          BY <2>5, <3>2 DEF NothingSent
        <4>2. worker.msg = r.msg /\ ProviderRefuses(r)
          BY <2>5, <4>1
        <4> QED
          BY <2>1, <2>2, <4>2 DEF Fresh, WireIsFresh
      <3> QED
        BY <3>1, <3>2
    <2>12. RepliesInTime'
      BY <2>5 DEF Fresh, RepliesInTime
    <2> QED
      BY <2>6, <2>7, <2>8, <2>9, <2>10, <2>11, <2>12 DEF Fresh
  <1> QED
    BY <1>1, <1>2 DEF ProviderStep

\* Restarts leave rows as ready as they were; a paid channel is restored with
\* no row ready.
LEMMA FreshProcess ==
  ASSUME TypeInvariant, Fresh, ProcessStep, Trusted'
  PROVE  Fresh'
  <1>0. /\ outbox \in [Msgs -> Row] /\ state \in [Msgs -> States]
        /\ \A m \in Msgs : outbox[m] \in Row
    BY DEF TypeInvariant
  <1>1. ASSUME Crash PROVE Fresh'
    BY <1>1, FreshFrame, RestIsQuiet DEF Crash, Quiet, store, ghost
  <1>2. ASSUME NEW c \in Configs, Start(c) PROVE Fresh'
    <2>1. \A rows \in [Msgs -> Row], n \in Msgs : Withdrawn(rows)[n].sent = rows[n].sent
      BY DEF Withdrawn, Row
    <2>2. Retargeted(c) \in [Msgs -> Row]
      <3>1. \A m \in Msgs : [outbox[m] EXCEPT !.isolated = TRUE, !.lease = 0] \in Row
        BY <1>0, RowUpdates
      <3> QED
        BY <1>0, <3>1 DEF Retargeted
    <2>3. \A n \in Msgs : Retargeted(c)[n].sent = outbox[n].sent
      BY <1>0 DEF Retargeted, Row
    <2>4. outbox' = Retargeted(c) \/ outbox' = Withdrawn(Retargeted(c))
      BY <1>2 DEF Start
    <2>5. \A n \in Msgs : outbox'[n].sent = outbox[n].sent
      BY <2>1, <2>2, <2>3, <2>4
    <2>6. worker' = worker \/ worker' = At("idle")
      BY <1>2 DEF Start
    <2>7. UNCHANGED <<state, wire, backup, seen, deliveries, firstPost>>
      BY <1>2 DEF Start, ghost
    <2>8. worker' = worker \/ Quiet(worker')
      BY <2>6, RestIsQuiet DEF Quiet
    <2> QED
      BY <2>5, <2>7, <2>8, FreshFrame
  <1>3. ASSUME Backup PROVE Fresh'
    <2>1. /\ UNCHANGED <<outbox, state, worker, wire, seen, deliveries, firstPost>>
          /\ \A b \in backup' : b.state = state /\ b.outbox = outbox
      BY <1>3 DEF Backup, store, ghost
    <2>2. SnapshotsKnown'
      BY <2>1 DEF Fresh, SnapshotsKnown, UnseenIsFresh, SentIsAccepted
    <2>3. /\ UnseenIsFresh' /\ ReadyIsFresh' /\ SentIsAccepted' /\ WireIsFresh'
          /\ RefusalsAreTrue' /\ RepliesInTime' /\ OnceEach'
      BY <2>1 DEF Fresh, UnseenIsFresh, ReadyIsFresh, SentIsAccepted, WireIsFresh,
           RefusalsAreTrue, RepliesInTime, OnceEach, Untouched, NothingSent, Attempting
    <2> QED
      BY <2>2, <2>3 DEF Fresh
  <1>4. ASSUME NEW b \in backup, RestoreBackup(b) PROVE Fresh'
    <2>0. /\ b.outbox \in [Msgs -> Row] /\ b.state \in [Msgs -> States]
      BY DEF TypeInvariant, Snapshot
    <2>1. Paid
      <3>1. counts.restores \in Nat /\ counts' = [counts EXCEPT !.restores = @ + 1]
        BY <1>4 DEF RestoreBackup, TypeInvariant
      <3>2. counts'.restores = counts.restores + 1
        BY <3>1 DEF TypeInvariant
      <3> QED
        BY <3>1, <3>2 DEF Trusted
    <2>2. /\ UNCHANGED <<worker, wire, backup, seen, deliveries, firstPost>>
          /\ worker.pc = "down"
      BY <1>4 DEF RestoreBackup, ghost
    <2>3. \A m \in Msgs : /\ state'[m] # "absent" => m \in seen
                          /\ state'[m] \notin Ready
      <3>1. \A m \in Msgs :
              state'[m] = IF b.state[m] # "absent" /\ ~b.outbox[m].sent /\ b.state[m] # "accepted"
                          THEN HeldState(b.state[m] = "in_flight") ELSE b.state[m]
        BY <1>4, <2>1 DEF RestoreBackup
      <3>2. \A m \in Msgs : b.outbox[m].sent => b.state[m] = "accepted"
        BY DEF Fresh, SnapshotsKnown
      <3>3. \A m \in Msgs : b.state[m] # "absent" => m \in seen
        BY DEF Fresh, SnapshotsKnown
      <3>4. \A u \in BOOLEAN : HeldState(u) \notin Ready /\ HeldState(u) # "absent"
        BY DEF HeldState, Ready
      <3> QED
        BY <3>1, <3>2, <3>3, <3>4 DEF Ready
    <2>4. \A m \in Msgs : outbox'[m].sent => state'[m] = "accepted"
      <3>1. \A m \in Msgs : outbox'[m].sent = b.outbox[m].sent
        BY <1>4, <2>0 DEF RestoreBackup, Held, Row
      <3>2. \A m \in Msgs : b.outbox[m].sent => state'[m] = b.state[m]
        BY <1>4 DEF RestoreBackup
      <3> QED
        BY <3>1, <3>2 DEF Fresh, SnapshotsKnown
    <2>5. \A m \in Msgs : Untouched(m)' <=> Untouched(m)
      BY <2>2 DEF Untouched
    <2>6. UnseenIsFresh' /\ ReadyIsFresh' /\ SentIsAccepted'
      BY <2>2, <2>3, <2>4, <2>5 DEF Fresh, UnseenIsFresh, ReadyIsFresh, SentIsAccepted
    <2>7. SnapshotsKnown' /\ WireIsFresh' /\ OnceEach' /\ RepliesInTime'
      BY <2>2 DEF Fresh, SnapshotsKnown, WireIsFresh, OnceEach, RepliesInTime
    <2>8. RefusalsAreTrue'
      BY <2>2 DEF RefusalsAreTrue, NothingSent
    <2> QED
      BY <2>6, <2>7, <2>8 DEF Fresh
  <1> QED
    BY <1>1, <1>2, <1>3, <1>4 DEF ProcessStep

\* Restores are only ever added, true time and set-back clocks only grow.
LEMMA OnlyGrow ==
  ASSUME TypeInvariant, [Next]_vars
  PROVE  /\ counts.restores \in Nat /\ counts'.restores \in Nat
         /\ counts'.restores >= counts.restores
         /\ clock' >= clock /\ back' >= back
  <1>0. /\ counts \in [restarts : Nat, ops : Nat, restores : Nat]
        /\ clock \in Int /\ back \in Int
    BY DEF TypeInvariant
  <1>1. \/ UNCHANGED <<counts, clock, back>>
        \/ counts' = [counts EXCEPT !.restarts = @ + 1] /\ UNCHANGED <<clock, back>>
        \/ counts' = [counts EXCEPT !.ops = @ + 1] /\ UNCHANGED <<clock, back>>
        \/ counts' = [counts EXCEPT !.restores = @ + 1] /\ UNCHANGED <<clock, back>>
        \/ UNCHANGED <<counts, back>> /\ clock' = clock + 1
        \/ \E n \in 1 .. MaxBack : UNCHANGED <<counts, clock>> /\ back' = back + n
    <2>1. CASE WorkerStep
      BY <2>1 DEF WorkerStep, ClaimNotification, ClaimOfficialPoll, BeginRefused,
           BeginOfficialDispatch, Recheck, Post, PostNotSent, Answer, ResolveOfficialDispatch,
           ReleaseNotificationClaim, Poll, ResolveOfficialPoll
    <2>2. CASE \/ ExpireNotifications
               \/ \E m \in Msgs, failure \in BOOLEAN : Enqueue(m, failure)
      BY <2>2 DEF ExpireNotifications, Enqueue
    <2>3. CASE ProviderStep \/ WorkerError \/ Tick
      BY <2>3 DEF ProviderStep, ProviderAccepts, ProviderRefuses, Lost, WorkerError, Tick
    <2>4. CASE \E n \in 1 .. MaxBack : ClockBack(n)
      BY <2>4 DEF ClockBack
    <2>5. CASE OperatorStep
      BY <2>5 DEF OperatorStep, RetryNotification, QuarantineNotification, AddSilence,
           ResumeDestination, DiscardIsolatedNotifications, ReconcileOfficialPaidChannel, Command
    <2>6. CASE ProcessStep
      BY <2>6 DEF ProcessStep, Crash, Start, Backup, RestoreBackup
    <2>7. CASE UNCHANGED vars
      BY <2>7 DEF vars
    <2> QED
      BY <2>1, <2>2, <2>3, <2>4, <2>5, <2>6, <2>7 DEF Next
  <1> QED
    BY <1>0, <1>1

\* Every step keeps the rows of a channel without an idempotency key fresh.
LEMMA FreshNext ==
  ASSUME TypeInvariant, FreshAttempts, [Next]_vars
  PROVE  FreshAttempts'
  <1> SUFFICES ASSUME Trusted', ~LINE PROVE Fresh'
    BY DEF FreshAttempts, LINE
  <1>1. Trusted
    BY OnlyGrow DEF Trusted, Paid
  <1>2. Fresh
    BY <1>1 DEF FreshAttempts
  <1>3. CASE ExpireNotifications
    BY <1>2, <1>3, FreshSweep
  <1>4. CASE \E m \in Msgs, failure \in BOOLEAN : Enqueue(m, failure)
    BY <1>2, <1>4, FreshEnqueue
  <1>5. CASE WorkerStep \/ WorkerError
    BY <1>2, <1>5, FreshAttempt, FreshWorkerQuiet DEF WorkerStep
  <1>6. CASE ProviderStep
    BY <1>2, <1>6, FreshProvider
  <1>7. CASE OperatorStep
    BY <1>2, <1>7, FreshOperator
  <1>8. CASE ProcessStep
    BY <1>2, <1>8, FreshProcess
  <1>9. CASE \/ Tick \/ \E n \in 1 .. MaxBack : ClockBack(n)
             \/ UNCHANGED vars
    <2>1. UNCHANGED <<outbox, state, worker, wire, backup, seen, deliveries, firstPost>>
      BY <1>9 DEF Tick, ClockBack, vars, store, ghost
    <2> QED
      BY <1>2, <2>1, FreshFrame
  <1> QED
    BY <1>3, <1>4, <1>5, <1>6, <1>7, <1>8, <1>9 DEF Next

-----------------------------------------------------------------------------
(* LINE: a retry key the provider still remembers *)

\* Nothing has been admitted or sent at first.
LEMMA TimelyInit == Init => Timely
  <1> SUFFICES ASSUME Init PROVE Timely
    OBVIOUS
  <1>1. worker.pc = "idle" /\ clock \in Nat /\ Lease \in Nat
    BY TimeAssumption DEF Init, At
  <1>2. UnseenIsFresh
    BY <1>1 DEF Init, UnseenIsFresh, Untouched, Idle
  <1>3. LeasesBounded
    BY <1>1 DEF Init, LeasesBounded, NoRow
  <1>4. FirstIsFirst /\ WireInTime /\ OnceEach
    BY DEF Init, FirstIsFirst, WireInTime, OnceEach, Present
  <1>5. CopyIsCurrent /\ BegunInWindow /\ AllowedInTime
    BY <1>1 DEF CopyIsCurrent, BegunInWindow, AllowedInTime
  <1> QED
    BY <1>2, <1>3, <1>4, <1>5 DEF Timely

\* A worker without an intent of its own.
Calm(w) == w.pc \notin {"begun", "allowed"} /\ (w.pc \notin Idle => w.msg \in seen)

\* A step that sends nothing, begins nothing and extends no lease of a begun
\* attempt keeps the deadlines.
LEMMA TimelyFrame ==
  ASSUME TypeInvariant, Timely, UNCHANGED <<clock, seen, deliveries, firstPost>>,
         wire' \subseteq wire,
         worker' = worker \/ Calm(worker'),
         \A m \in Msgs : state'[m] # "absent" =>
             state[m] # "absent" /\ intent'[m].first = intent[m].first,
         \A m \in Msgs : outbox'[m].lease <= clock + Lease,
         worker' = worker => \A m \in Msgs : /\ outbox'[m].lease \in Nat
                                             /\ outbox'[m].lease <= outbox[m].lease
  PROVE  Timely'
  <1>1. UnseenIsFresh'
    BY DEF Timely, UnseenIsFresh, Calm, Untouched
  <1>2. LeasesBounded'
    BY DEF LeasesBounded
  <1>3. FirstIsFirst'
    BY DEF Timely, FirstIsFirst, Present
  <1>4. worker.pc \in {"begun", "allowed"} => worker.msg \in Msgs /\ worker.first \in Nat
    BY WorkerBusy DEF Idle, Worker
  <1>5. CopyIsCurrent'
    BY <1>4 DEF Timely, CopyIsCurrent, Calm, Present
  <1>6. BegunInWindow'
    <2> SUFFICES ASSUME worker'.pc = "begun"
                 PROVE  outbox'[worker'.msg].lease < worker'.first + LineWindow + Lease
      BY DEF BegunInWindow
    <2>1. worker' = worker
      BY DEF Calm
    <2>2. outbox[worker.msg].lease < worker.first + LineWindow + Lease
      BY <2>1 DEF Timely, BegunInWindow
    <2>3. /\ outbox'[worker.msg].lease \in Nat /\ outbox[worker.msg].lease \in Nat
          /\ outbox'[worker.msg].lease <= outbox[worker.msg].lease
      BY <1>4, <2>1 DEF TypeInvariant, Row
    <2>4. LineWindow \in Nat /\ Lease \in Nat /\ worker.first \in Nat
      BY <1>4, <2>1, TimeAssumption
    <2> QED
      BY <2>1, <2>2, <2>3, <2>4
  <1>7. AllowedInTime'
    BY DEF Timely, AllowedInTime, Calm
  <1>8. WireInTime' /\ OnceEach'
    BY DEF Timely, WireInTime, OnceEach
  <1> QED
    BY <1>1, <1>2, <1>3, <1>5, <1>6, <1>7, <1>8 DEF Timely

\* Every lease is a number and bounded.
LEMMA LeaseFacts ==
  ASSUME TypeInvariant, Timely
  PROVE  /\ Lease \in Nat /\ clock \in Nat
         /\ \A m \in Msgs : outbox[m].lease \in Nat /\ outbox[m].lease <= clock + Lease
  BY Durations DEF TypeInvariant, Row, Timely, LeasesBounded

\* A sweep keeps first attempts and clears leases only.
LEMMA SweepIsTimely ==
  ASSUME TypeInvariant, NEW m \in Msgs
  PROVE  /\ SweptState[m] # "absent" =>
                state[m] # "absent" /\ SweptIntent[m].first = intent[m].first
         /\ SweptOutbox[m].lease \in {0, outbox[m].lease}
  <1>1. outbox[m] \in Row /\ state[m] \in States /\ intent[m] \in Intent
    BY RowTypes
  <1>2. RecoveredState(m) # "absent" => state[m] # "absent"
    BY DEF RecoveredState, Ready
  <1>3. PollsExpired[m].first = intent[m].first
    <2>1. PollsExpired[m] \in {intent[m], [intent[m] EXCEPT !.providerState = "unknown",
                                                           !.nextPoll = 0, !.pollLease = 0]}
      BY DEF PollsExpired
    <2> QED
      BY <1>1, <2>1 DEF Intent
  <1>4. SweptState[m] # "absent" =>
            state[m] # "absent" /\ SweptIntent[m].first = intent[m].first
    BY <1>2, <1>3 DEF SweptState, SweptIntent
  <1>5. SweptOutbox[m].lease \in {0, outbox[m].lease}
    BY <1>1 DEF SweptOutbox, NoRow, RecoveredRow, Held, Row
  <1> QED
    BY <1>4, <1>5

\* The sweep keeps the deadlines.
LEMMA TimelySweep ==
  ASSUME TypeInvariant, Timely, ExpireNotifications
  PROVE  Timely'
  BY TimelyFrame, SweepIsTimely, LeaseFacts DEF ExpireNotifications, ghost

\* A new row has no first attempt.
LEMMA TimelyEnqueue ==
  ASSUME TypeInvariant, Timely, NEW m \in Msgs, NEW failure \in BOOLEAN, Enqueue(m, failure)
  PROVE  Timely'
  <1>0. /\ SweptOutbox \in [Msgs -> Row] /\ SweptState \in [Msgs -> States]
        /\ SweptIntent \in [Msgs -> Intent]
    BY SweepType
  <1>1. /\ m \notin seen /\ seen' = seen \cup {m}
        /\ UNCHANGED <<clock, worker, wire, deliveries, firstPost>>
    BY DEF Enqueue
  <1>2. \A n \in Msgs : n # m => /\ state'[n] = SweptState[n] /\ outbox'[n] = SweptOutbox[n]
                                 /\ intent'[n] = SweptIntent[n]
    BY <1>0 DEF Enqueue
  <1>3. outbox'[m].lease = 0 /\ intent'[m].first = 0 /\ firstPost[m] = 0
    BY <1>0, <1>1 DEF Enqueue, NoRow, NoIntent, Timely, UnseenIsFresh
  <1>4. worker.pc \notin Idle => worker.msg # m /\ worker.msg \in Msgs /\ worker.first \in Nat
    BY <1>1, WorkerBusy DEF Timely, UnseenIsFresh, Worker
  <1>5. \A n \in Msgs : outbox'[n].lease \in {0, outbox[n].lease}
    BY <1>2, <1>3, SweepIsTimely
  <1>6. UnseenIsFresh'
    BY <1>1, <1>2, SweepIsTimely DEF Timely, UnseenIsFresh, Untouched
  <1>7. LeasesBounded'
    BY <1>1, <1>5, LeaseFacts DEF LeasesBounded
  <1>8. FirstIsFirst'
    BY <1>1, <1>2, <1>3, SweepIsTimely, LeaseFacts DEF Timely, FirstIsFirst, Present
  <1>9. CopyIsCurrent'
    BY <1>1, <1>2, <1>4, SweepIsTimely DEF Timely, CopyIsCurrent, Present, Idle
  <1>10. BegunInWindow'
    <2> SUFFICES ASSUME worker.pc = "begun"
                 PROVE  outbox'[worker.msg].lease < worker.first + LineWindow + Lease
      BY <1>1 DEF BegunInWindow
    <2>1. outbox[worker.msg].lease < worker.first + LineWindow + Lease
      BY DEF Timely, BegunInWindow
    <2>2. worker.msg \in Msgs /\ worker.first \in Nat /\ LineWindow \in Nat \ {0}
      BY <1>4, TimeAssumption DEF Idle
    <2> QED
      BY <1>5, <2>1, <2>2, LeaseFacts
  <1>11. AllowedInTime' /\ WireInTime' /\ OnceEach'
    BY <1>1 DEF Timely, AllowedInTime, WireInTime, OnceEach
  <1> QED
    BY <1>6, <1>7, <1>8, <1>9, <1>10, <1>11 DEF Timely

\* Worker steps that begin and send nothing.
LEMMA TimelyWorkerCalm ==
  ASSUME TypeInvariant, Timely, back = 0,
         \/ \E m \in Msgs : ClaimNotification(m) \/ ClaimOfficialPoll(m)
         \/ BeginRefused \/ ReleaseNotificationClaim \/ Poll \/ ResolveOfficialPoll
         \/ PostNotSent \/ Answer \/ WorkerError
  PROVE  Timely'
  <1>0. /\ worker \in Worker /\ outbox \in [Msgs -> Row] /\ intent \in [Msgs -> Intent]
        /\ \A m \in Msgs : outbox[m] \in Row /\ intent[m] \in Intent
    BY DEF TypeInvariant
  <1>1. \A m \in Msgs : state[m] # "absent" => m \in seen
    BY DEF Timely, UnseenIsFresh
  <1>2. worker.pc \notin Idle => worker.msg \in Msgs /\ worker.msg \in seen
    BY WorkerBusy DEF Timely, UnseenIsFresh
  <1>3. Calm(At("idle"))
    BY DEF Calm, At, Idle
  <1>4. worker.pc \notin Idle =>
            \A pc \in {"release", "answered", "polled"} : \A r :
                /\ Calm([worker EXCEPT !.pc = pc])
                /\ Calm([worker EXCEPT !.pc = pc, !.result = r])
    BY <1>0, <1>2 DEF Calm, Worker
  <1>5. ASSUME NEW m \in Msgs, ClaimNotification(m) PROVE Timely'
    <2>1. worker'.pc = "claimed" /\ worker'.msg = m
      BY <1>5 DEF ClaimNotification, At
    <2>2. Calm(worker') /\ worker' # worker
      BY <1>1, <1>5, <2>1 DEF ClaimNotification, Calm, Live, Unsent, Present
    <2>3. Now = clock
      BY Durations DEF Now
    <2>4. \A n \in Msgs : outbox'[n].lease \in {outbox[n].lease, clock + Lease}
      BY <1>0, <1>5, <2>3 DEF ClaimNotification, Row
    <2>5. \A n \in Msgs : outbox'[n].lease <= clock + Lease
      BY <2>4, LeaseFacts
    <2> QED
      BY <1>5, <2>2, <2>5, TimelyFrame DEF ClaimNotification, ghost
  <1>6. ASSUME NEW m \in Msgs, ClaimOfficialPoll(m) PROVE Timely'
    <2>1. worker'.pc = "polling" /\ worker'.msg = m
      BY <1>6 DEF ClaimOfficialPoll, At
    <2>2. Calm(worker') /\ worker' # worker
      BY <1>1, <1>6, <2>1 DEF ClaimOfficialPoll, Calm, PollPermitted
    <2>3. \A n \in Msgs : PollsExpired[n].first = intent[n].first
      BY <1>0 DEF PollsExpired, Intent
    <2>4. PollClaimed(m).first = intent[m].first
      BY <1>0 DEF PollClaimed, Intent
    <2>5. \A n \in Msgs : intent'[n].first = intent[n].first
      BY <1>6, <2>3, <2>4 DEF ClaimOfficialPoll, PollsExpired
    <2> QED
      BY <1>6, <2>2, <2>5, TimelyFrame, LeaseFacts DEF ClaimOfficialPoll, ghost
  <1>7. ASSUME BeginRefused PROVE Timely'
    <2>1. Calm(worker') /\ worker' # worker
      <3>1. worker.pc = "claimed" /\ worker' = [worker EXCEPT !.pc = "release"]
        BY <1>7 DEF BeginRefused
      <3>2. worker'.pc = "release"
        BY <1>0, <3>1 DEF Worker
      <3> QED
        BY <1>4, <3>1, <3>2 DEF Idle
    <2>2. \/ UNCHANGED <<state, outbox>>
          \/ Present(worker.msg) /\ \E u : Block(worker.msg, u)
      BY <1>7 DEF BeginRefused, Eligible, Live, Unsent
    <2>3. \A n \in Msgs : /\ state'[n] # "absent" => state[n] # "absent"
                          /\ outbox'[n].lease \in {0, outbox[n].lease}
      <3>1. CASE UNCHANGED <<state, outbox>>
        BY <3>1
      <3>2. ASSUME NEW u, Block(worker.msg, u), Present(worker.msg), NEW n \in Msgs
            PROVE  /\ state'[n] # "absent" => state[n] # "absent"
                   /\ outbox'[n].lease \in {0, outbox[n].lease}
        <4>1. state'[n] # "absent" => state[n] # "absent"
          BY <3>2 DEF Block, Present, TypeInvariant
        <4>2. outbox'[n].lease \in {0, outbox[n].lease}
          BY <1>0, <3>2 DEF Block, Held, Row
        <4> QED
          BY <4>1, <4>2
      <3> QED
        BY <2>2, <3>1, <3>2
    <2> QED
      BY <1>7, <2>1, <2>3, TimelyFrame, LeaseFacts DEF BeginRefused, ghost
  <1>8. ASSUME ReleaseNotificationClaim PROVE Timely'
    <2>1. \A n \in Msgs : outbox'[n].lease \in {0, outbox[n].lease}
      BY <1>0, <1>8 DEF ReleaseNotificationClaim, Row
    <2> QED
      BY <1>3, <1>8, <2>1, TimelyFrame, LeaseFacts DEF ReleaseNotificationClaim, ghost, Calm
  <1>9. ASSUME Poll \/ PostNotSent \/ Answer PROVE Timely'
    <2>1. Calm(worker')
      <3>1. CASE Poll
        BY <1>3, <1>4, <3>1 DEF Poll, Idle, Calm
      <3>2. CASE PostNotSent
        BY <1>4, <3>2 DEF PostNotSent, Idle, Calm
      <3>3. CASE Answer
        BY <1>4, <3>3 DEF Answer, Idle, Calm
      <3> QED
        BY <1>9, <3>1, <3>2, <3>3
    <2>2. UNCHANGED <<clock, outbox, state, intent, wire, seen, deliveries, firstPost>>
      BY <1>9 DEF Poll, PostNotSent, Answer, store, ghost
    <2> QED
      BY <2>1, <2>2, TimelyFrame, LeaseFacts
  <1>10. ASSUME ResolveOfficialPoll PROVE Timely'
    <2>1. outbox' = outbox \/ outbox' = Withdrawn(outbox)
      BY <1>10 DEF ResolveOfficialPoll
    <2>2. \A n \in Msgs : outbox'[n].lease \in {0, outbox[n].lease}
      BY <1>0, <2>1 DEF Withdrawn, Row
    <2>3. \A n \in Msgs : intent'[n].first = intent[n].first
      <3>1. CASE ~PollMatches(worker.msg)
        BY <1>10, <3>1 DEF ResolveOfficialPoll
      <3>2. CASE PollMatches(worker.msg)
        <4>1. PICK t, p : intent' = [intent EXCEPT ![worker.msg] =
                   [intent[worker.msg] EXCEPT !.pollLease = 0, !.nextPoll = t,
                                              !.providerState = p]]
          BY <1>0, <1>10, <3>2 DEF ResolveOfficialPoll
        <4> QED
          BY <1>0, <4>1 DEF Intent
      <3> QED
        BY <3>1, <3>2
    <2> QED
      BY <1>3, <1>10, <2>2, <2>3, TimelyFrame, LeaseFacts DEF ResolveOfficialPoll, Calm
  <1>11. CASE WorkerError
    <2>1. UNCHANGED <<clock, outbox, state, intent, wire, seen, deliveries, firstPost>>
      BY <1>11 DEF WorkerError, store, ghost
    <2>2. Calm(worker')
      BY <1>3, <1>11 DEF WorkerError, Calm
    <2> QED
      BY <2>1, <2>2, TimelyFrame, LeaseFacts
  <1> QED
    BY <1>5, <1>6, <1>7, <1>8, <1>9, <1>10, <1>11

\* A begun attempt carries the first attempt's time, and its lease ends within
\* the window and one lease of it.
LEMMA TimelyBegin ==
  ASSUME TypeInvariant, Timely, LINE, back = 0, BeginOfficialDispatch
  PROVE  Timely'
  <1> DEFINE m == worker.msg
             first == Begun(m).first
  <1>0. /\ worker \in Worker /\ outbox \in [Msgs -> Row] /\ intent \in [Msgs -> Intent]
        /\ worker.msg \in Msgs /\ worker.pc = "claimed" /\ state \in [Msgs -> States]
    BY WorkerBusy DEF TypeInvariant, BeginOfficialDispatch, Idle
  <1>1. Now = clock /\ clock \in Nat /\ clock > 0 /\ LineWindow \in Nat \ {0} /\ Lease \in Nat
    BY NowType, Durations, TimeAssumption DEF Now
  <1>2. intent[m] \in Intent /\ intent[m].first \in Nat /\ m \in Msgs
    BY <1>0, RowTypes
  <1>3. first = IF intent[m].first = 0 THEN clock ELSE intent[m].first
    BY <1>1, <1>2 DEF Begun, Intent
  <1>4. Present(m) /\ m \in seen
    BY <1>0 DEF BeginOfficialDispatch, Eligible, Live, Unsent, Present, Timely, UnseenIsFresh
  <1>5. intent[m].first > 0 => clock - intent[m].first < LineWindow
    BY <1>1, <1>2 DEF BeginOfficialDispatch, Refused, InWindow
  <1>6. /\ intent[m].first <= clock
        /\ firstPost[m] > 0 => intent[m].first > 0 /\ intent[m].first <= firstPost[m]
    BY <1>2, <1>4 DEF Timely, FirstIsFirst
  <1>7. first \in Nat /\ first > 0 /\ first <= clock /\ clock < first + LineWindow
    BY <1>1, <1>2, <1>3, <1>5, <1>6
  <1>8. firstPost[m] > 0 => first <= firstPost[m]
    BY <1>2, <1>3, <1>6
  <1>9. /\ worker'.pc = "begun" /\ worker'.msg = m /\ worker'.first = first
    BY <1>0 DEF BeginOfficialDispatch, Worker
  <1>10. /\ UNCHANGED <<clock, outbox, wire, seen, deliveries, firstPost>>
         /\ state' = [state EXCEPT ![m] = "in_flight"]
         /\ intent' = [intent EXCEPT ![m] = Begun(m)]
    BY DEF BeginOfficialDispatch, ghost
  <1>11. \A n \in Msgs : /\ state'[n] # "absent" => state[n] # "absent"
                         /\ n # m => intent'[n] = intent[n]
    BY <1>0, <1>4, <1>10 DEF Present
  <1>12. intent'[m].first = first
    BY <1>0, <1>10
  <1> HIDE DEF first
  <1>13. UnseenIsFresh'
    BY <1>4, <1>9, <1>10, <1>11 DEF Timely, UnseenIsFresh, Untouched
  <1>14. LeasesBounded'
    BY <1>10 DEF Timely, LeasesBounded
  <1>15. FirstIsFirst'
    BY <1>7, <1>8, <1>10, <1>11, <1>12 DEF Timely, FirstIsFirst, Present
  <1>16. CopyIsCurrent'
    BY <1>7, <1>8, <1>9, <1>10, <1>12 DEF CopyIsCurrent
  <1>17. BegunInWindow'
    <2>1. outbox[m].lease \in Nat /\ outbox[m].lease <= clock + Lease
      BY <1>2, LeaseFacts
    <2>2. outbox[m].lease < first + LineWindow + Lease
      BY <1>1, <1>7, <2>1
    <2> QED
      BY <1>9, <1>10, <2>2 DEF BegunInWindow
  <1>18. AllowedInTime' /\ WireInTime' /\ OnceEach'
    BY <1>9, <1>10 DEF Timely, AllowedInTime, WireInTime, OnceEach
  <1> QED
    BY <1>13, <1>14, <1>15, <1>16, <1>17, <1>18 DEF Timely

\* The recheck's lease bounds the request's deadline.
LEMMA TimelyRecheck ==
  ASSUME TypeInvariant, Timely, back = 0, Recheck
  PROVE  Timely'
  <1>0. /\ worker \in Worker /\ worker.msg \in Msgs /\ worker.pc = "begun"
        /\ worker.first \in Nat /\ worker.msg \in seen
    BY WorkerBusy DEF TypeInvariant, Recheck, Idle, Worker, Timely, UnseenIsFresh
  <1>1. UNCHANGED <<clock, outbox, state, intent, wire, seen, deliveries, firstPost>>
    BY DEF Recheck, store, ghost
  <1>2. CASE ~DeliveryAllowed(worker.msg)
    <2>1. Calm(worker')
      BY <1>0, <1>2 DEF Recheck, Calm, Worker
    <2> QED
      BY <1>1, <2>1, TimelyFrame, LeaseFacts
  <1>3. CASE DeliveryAllowed(worker.msg)
    <2>1. /\ worker'.pc = "allowed" /\ worker'.msg = worker.msg /\ worker'.first = worker.first
          /\ worker'.deadline = clock + SendTimeout
      BY <1>0, <1>3 DEF Recheck, Worker
    <2>2. clock < outbox[worker.msg].lease /\ clock \in Nat
      BY <1>3, Durations DEF DeliveryAllowed, Now
    <2>3. outbox[worker.msg].lease < worker.first + LineWindow + Lease
      BY <1>0 DEF Timely, BegunInWindow
    <2>4. clock <= clock + SendTimeout /\ clock + SendTimeout < worker.first + KeyLife
      <3>1. /\ SendTimeout \in Nat /\ LineWindow \in Nat /\ Lease \in Nat /\ KeyLife \in Nat
            /\ LineWindow + Lease + SendTimeout <= KeyLife
        BY TimeAssumption, WindowAssumption
      <3>2. outbox[worker.msg].lease \in Nat
        BY <1>0, LeaseFacts
      <3> QED
        BY <1>0, <2>2, <2>3, <3>1, <3>2
    <2>5. UnseenIsFresh'
      BY <1>0, <1>1, <2>1 DEF Timely, UnseenIsFresh, Untouched
    <2>6. LeasesBounded' /\ FirstIsFirst' /\ WireInTime' /\ OnceEach'
      BY <1>1 DEF Timely, LeasesBounded, FirstIsFirst, WireInTime, OnceEach, Present
    <2>7. CopyIsCurrent'
      BY <1>0, <1>1, <2>1 DEF Timely, CopyIsCurrent, Present
    <2>8. BegunInWindow' /\ AllowedInTime'
      BY <1>1, <2>1, <2>4 DEF BegunInWindow, AllowedInTime
    <2> QED
      BY <2>5, <2>6, <2>7, <2>8 DEF Timely
  <1> QED
    BY <1>2, <1>3

\* A POST leaves with a deadline inside the key's life.
LEMMA TimelyPost ==
  ASSUME TypeInvariant, Timely, Post
  PROVE  Timely'
  <1> DEFINE m == worker.msg
             new == [msg |-> m, attempt |-> worker.attempt, deadline |-> worker.deadline]
  <1>0. /\ worker \in Worker /\ m \in Msgs /\ worker.pc = "allowed" /\ m \in seen
        /\ worker.first \in Nat /\ worker.deadline \in Nat /\ clock \in Nat /\ KeyLife \in Nat
        /\ firstPost \in [Msgs -> Nat]
    BY WorkerBusy, Durations, TimeAssumption
       DEF TypeInvariant, Post, Idle, Worker, Timely, UnseenIsFresh
  <1>1. /\ UNCHANGED <<clock, outbox, state, intent, seen, deliveries>>
        /\ wire' = wire \cup {new}
        /\ firstPost' = [firstPost EXCEPT ![m] = IF @ = 0 THEN clock ELSE @]
    BY DEF Post, store
  <1>2. worker'.pc = "sending" /\ worker'.msg = m
    BY <1>0 DEF Post, Worker
  <1>3. /\ worker.first > 0 /\ worker.first <= clock
        /\ firstPost[m] > 0 => worker.first <= firstPost[m]
        /\ Present(m) => intent[m].first = worker.first
        /\ clock <= worker.deadline /\ worker.deadline < worker.first + KeyLife
    BY <1>0 DEF Timely, CopyIsCurrent, AllowedInTime
  <1>4. /\ firstPost'[m] \in Nat /\ firstPost'[m] >= firstPost[m]
        /\ firstPost'[m] >= worker.first
    BY <1>0, <1>1, <1>3
  <1>5. \A n \in Msgs : n # m => firstPost'[n] = firstPost[n]
    BY <1>0, <1>1
  <1>6. UnseenIsFresh'
    BY <1>0, <1>1, <1>2, <1>5 DEF Timely, UnseenIsFresh, Untouched
  <1>7. LeasesBounded' /\ OnceEach'
    BY <1>1 DEF Timely, LeasesBounded, OnceEach
  <1>8. FirstIsFirst'
    BY <1>0, <1>1, <1>3, <1>4, <1>5 DEF Timely, FirstIsFirst, Present
  <1>9. CopyIsCurrent' /\ BegunInWindow' /\ AllowedInTime'
    BY <1>2 DEF CopyIsCurrent, BegunInWindow, AllowedInTime
  <1>10. WireInTime'
    <2> SUFFICES ASSUME NEW q \in wire'
                 PROVE  clock <= q.deadline /\ q.deadline < firstPost'[q.msg] + KeyLife
      BY <1>1 DEF WireInTime
    <2>1. CASE q = new
      BY <1>0, <1>3, <1>4, <2>1
    <2>2. CASE q \in wire
      <3>1. /\ q.msg \in Msgs /\ q.deadline \in Nat
            /\ clock <= q.deadline /\ q.deadline < firstPost[q.msg] + KeyLife
        BY <2>2 DEF Timely, WireInTime, TypeInvariant
      <3>2. firstPost'[q.msg] \in Nat /\ firstPost'[q.msg] >= firstPost[q.msg]
        BY <1>0, <1>4, <1>5, <3>1
      <3> QED
        BY <1>0, <3>1, <3>2
    <2> QED
      BY <1>1, <2>1, <2>2
  <1> QED
    BY <1>6, <1>7, <1>8, <1>9, <1>10 DEF Timely

\* Resolving an attempt changes no first attempt and extends no lease.
LEMMA TimelyResolve ==
  ASSUME TypeInvariant, Timely, ResolveOfficialDispatch
  PROVE  Timely'
  <1> DEFINE m == worker.msg
             r == worker.result
  <1>0. /\ worker \in Worker /\ outbox \in [Msgs -> Row] /\ intent \in [Msgs -> Intent]
        /\ state \in [Msgs -> States] /\ m \in Msgs /\ outbox[m] \in Row
        /\ \A n \in Msgs : outbox[n] \in Row /\ intent[n] \in Intent
        /\ r.outcome \in {"accepted", "not_accepted", "unknown"}
    BY WorkerBusy DEF TypeInvariant, ResolveOfficialDispatch, Idle, Worker
  <1>1. Calm(worker') /\ UNCHANGED <<clock, wire, seen, deliveries, firstPost>>
    BY DEF ResolveOfficialDispatch, Calm, At, Idle
  <1>2. \A n \in Msgs : /\ state'[n] # "absent" => state[n] # "absent"
                        /\ intent'[n].first = intent[n].first
                        /\ outbox'[n].lease \in {0, outbox[n].lease}
    <2>1. CASE ~Matches(m, r, worker.attempt)
      BY <2>1 DEF ResolveOfficialDispatch
    <2>2. CASE Matches(m, r, worker.attempt)
      <3>0. state[m] # "absent"
        BY <2>2 DEF Matches, Present
      <3>1. CASE ResolveAccepted(m)
        <4>1. \A n \in Msgs : state'[n] # "absent" => state[n] # "absent"
          BY <1>0, <3>0, <3>1 DEF ResolveAccepted
        <4>2. \A n \in Msgs : intent'[n].first = intent[n].first
          <5>1. PICK p, t, d : intent' = [intent EXCEPT ![m] =
                  [intent[m] EXCEPT !.uncertain = FALSE, !.providerState = p, !.nextPoll = t,
                                    !.pollDeadline = d]]
            BY <1>0, <3>1 DEF ResolveAccepted
          <5> QED
            BY <1>0, <5>1 DEF Intent
        <4>3. \A n \in Msgs : outbox'[n].lease \in {0, outbox[n].lease}
          BY <1>0, <3>1 DEF ResolveAccepted, Row
        <4> QED
          BY <4>1, <4>2, <4>3
      <3>2. CASE ResolveUnknown(m, r)
        <4>1. \/ /\ state' = [state EXCEPT ![m] = "retry_ready"]
                 /\ \E t : outbox' = [outbox EXCEPT ![m] =
                                        [outbox[m] EXCEPT !.lease = 0, !.next = t]]
              \/ Block(m, TRUE)
          BY <1>0, <3>2 DEF ResolveUnknown
        <4>2. \A n \in Msgs : state'[n] # "absent" => state[n] # "absent"
          BY <1>0, <3>0, <4>1 DEF Block
        <4>3. \A n \in Msgs : outbox'[n].lease \in {0, outbox[n].lease}
          <5>1. CASE Block(m, TRUE)
            BY <1>0, <5>1 DEF Block, Held, Row
          <5>2. ASSUME NEW t, outbox' = [outbox EXCEPT ![m] =
                                           [outbox[m] EXCEPT !.lease = 0, !.next = t]]
                PROVE  \A n \in Msgs : outbox'[n].lease \in {0, outbox[n].lease}
            BY <1>0, <5>2 DEF Row
          <5> QED
            BY <4>1, <5>1, <5>2
        <4> QED
          BY <3>2, <4>2, <4>3 DEF ResolveUnknown
      <3>3. CASE ResolveNotAccepted(m, r)
        <4>1. \A n \in Msgs : state'[n] # "absent" => state[n] # "absent"
          BY <1>0, <3>0, <3>3 DEF ResolveNotAccepted
        <4>2. \A n \in Msgs : intent'[n].first = intent[n].first
          BY <1>0, <3>3 DEF ResolveNotAccepted, Intent
        <4>3. \A n \in Msgs : outbox'[n].lease \in {0, outbox[n].lease}
          <5>1. PICK row : /\ row = Held(outbox[m])
                              \/ \E t : row = [outbox[m] EXCEPT !.lease = 0, !.next = t]
                           /\ outbox' = IF OptOut(r) THEN Withdrawn([outbox EXCEPT ![m] = row])
                                        ELSE [outbox EXCEPT ![m] = row]
            BY <3>3 DEF ResolveNotAccepted
          <5>2. row.lease = 0 /\ DOMAIN row = DOMAIN outbox[m]
            BY <1>0, <5>1 DEF Held, Row
          <5>3. "lease" \in DOMAIN row /\ \A n \in Msgs : "lease" \in DOMAIN outbox[n]
            BY <1>0, <5>2 DEF Row
          <5>4. \A n \in Msgs : [outbox EXCEPT ![m] = row][n] = IF n = m THEN row ELSE outbox[n]
            BY <1>0
          <5> DEFINE rows == [outbox EXCEPT ![m] = row]
          <5>5. \A n \in Msgs : rows[n].lease \in {0, outbox[n].lease}
            BY <5>2, <5>4
          <5>6. \A n \in Msgs : "lease" \in DOMAIN rows[n]
            BY <5>3, <5>4
          <5> HIDE DEF rows
          <5>7. \A n \in Msgs : Withdrawn(rows)[n].lease \in {0, rows[n].lease}
            BY <5>6 DEF Withdrawn
          <5>8. outbox' = rows \/ outbox' = Withdrawn(rows)
            BY <5>1 DEF rows
          <5> QED
            BY <5>5, <5>7, <5>8
        <4> QED
          BY <4>1, <4>2, <4>3
      <3> QED
        BY <1>0, <2>2, <3>1, <3>2, <3>3 DEF ResolveOfficialDispatch
    <2> QED
      BY <2>1, <2>2
  <1> QED
    BY <1>1, <1>2, TimelyFrame, LeaseFacts

\* A repeated POST is decided while the provider remembers its key, so that it
\* is answered with the earlier acceptance.
LEMMA TimelyProvider ==
  ASSUME TypeInvariant, Timely, LINE, ProviderStep
  PROVE  Timely'
  <1>0. worker \in Worker /\ \A r \in wire : r.msg \in Msgs
    BY DEF TypeInvariant
  <1>1. ASSUME NEW r \in wire, Lost(r) PROVE Timely'
    <2>1. UNCHANGED <<clock, outbox, state, intent, worker, seen, deliveries, firstPost>>
      BY <1>1 DEF Lost, store, ghost
    <2> QED
      BY <1>1, <2>1, TimelyFrame, LeaseFacts DEF Lost
  <1>2. ASSUME NEW r \in wire, ProviderAccepts(r) \/ ProviderRefuses(r) PROVE Timely'
    <2>1. /\ wire' = wire \ {r} /\ r.msg \in Msgs
          /\ UNCHANGED <<clock, outbox, state, intent, seen, firstPost>>
      BY <1>0, <1>2 DEF ProviderAccepts, ProviderRefuses, store, ghost
    <2>2. /\ worker'.pc = worker.pc /\ worker'.msg = worker.msg
          /\ worker'.first = worker.first /\ worker'.deadline = worker.deadline
      <3>1. CASE ProviderAccepts(r)
        BY <1>0, <3>1 DEF ProviderAccepts, Heard, Worker
      <3>2. CASE ProviderRefuses(r)
        BY <1>0, <3>2 DEF ProviderRefuses, Heard, Worker
      <3> QED
        BY <1>2, <3>1, <3>2
    <2>3. OnceEach'
      <3>1. CASE ProviderRefuses(r)
        BY <3>1 DEF ProviderRefuses, ghost, Timely, OnceEach
      <3>2. CASE ProviderAccepts(r)
        <4>1. clock < firstPost[r.msg] + KeyLife
          <5>1. clock <= r.deadline /\ r.deadline < firstPost[r.msg] + KeyLife
            BY DEF Timely, WireInTime
          <5>2. /\ clock \in Nat /\ r.deadline \in Nat /\ firstPost[r.msg] \in Nat
                /\ KeyLife \in Nat
            BY <2>1, TimeAssumption, Durations DEF TypeInvariant
          <5> QED
            BY <5>1, <5>2
        <4>2. deliveries' = [deliveries EXCEPT ![r.msg] =
                                IF deliveries[r.msg] > 0 THEN @ ELSE @ + 1]
          BY <3>2, <4>1 DEF ProviderAccepts, Duplicate
        <4> QED
          BY <2>1, <4>2 DEF Timely, OnceEach, TypeInvariant
      <3> QED
        BY <1>2, <3>1, <3>2
    <2>4. \A m \in Msgs : m # r.msg => deliveries'[m] = deliveries[m]
      BY <1>2 DEF ProviderAccepts, ProviderRefuses, TypeInvariant, ghost
    <2>5. r.msg \in seen
      BY <2>1 DEF Timely, UnseenIsFresh, Untouched
    <2>6. UnseenIsFresh'
      BY <2>1, <2>2, <2>4, <2>5 DEF Timely, UnseenIsFresh, Untouched
    <2>7. LeasesBounded' /\ FirstIsFirst' /\ WireInTime'
      BY <2>1 DEF Timely, LeasesBounded, FirstIsFirst, WireInTime, Present
    <2>8. CopyIsCurrent' /\ BegunInWindow' /\ AllowedInTime'
      BY <2>1, <2>2 DEF Timely, CopyIsCurrent, BegunInWindow, AllowedInTime, Present
    <2> QED
      BY <2>3, <2>6, <2>7, <2>8 DEF Timely
  <1> QED
    BY <1>1, <1>2 DEF ProviderStep

\* Time passes only while every request under way has time left.
LEMMA TimelyTick ==
  ASSUME TypeInvariant, Timely, Tick
  PROVE  Timely'
  <1>0. /\ clock \in Nat /\ clock' = clock + 1 /\ Lease \in Nat
        /\ UNCHANGED <<outbox, state, intent, worker, wire, seen, deliveries, firstPost>>
        /\ \A m \in Msgs : outbox[m].lease \in Nat /\ intent[m].first \in Nat
    BY LeaseFacts, RowTypes DEF Tick, store, ghost
  <1>1. UnseenIsFresh' /\ OnceEach'
    BY <1>0 DEF Timely, UnseenIsFresh, OnceEach, Untouched
  <1>2. LeasesBounded'
    BY <1>0 DEF Timely, LeasesBounded
  <1>3. FirstIsFirst'
    BY <1>0 DEF Timely, FirstIsFirst, Present
  <1>4. CopyIsCurrent' /\ BegunInWindow'
    <2>1. worker.first \in Nat
      BY DEF TypeInvariant, Worker
    <2> QED
      BY <1>0, <2>1 DEF Timely, CopyIsCurrent, BegunInWindow, Present
  <1>5. AllowedInTime'
    <2>1. worker.pc = "allowed" => clock < worker.deadline
      BY DEF Tick
    <2>2. worker.deadline \in Nat
      BY DEF TypeInvariant, Worker
    <2> QED
      BY <1>0, <2>1, <2>2 DEF Timely, AllowedInTime
  <1>6. WireInTime'
    <2>1. \A r \in wire : clock < r.deadline /\ r.deadline \in Nat
      BY DEF Tick, TypeInvariant
    <2> QED
      BY <1>0, <2>1 DEF Timely, WireInTime
  <1> QED
    BY <1>1, <1>2, <1>3, <1>4, <1>5, <1>6 DEF Timely

\* The operator, crashes, starts and backups touch no deadline.
LEMMA TimelyAdmin ==
  ASSUME TypeInvariant, Timely,
         \/ OperatorStep \/ Crash \/ Backup
         \/ \E c \in Configs : Start(c)
  PROVE  Timely'
  <1>0. /\ outbox \in [Msgs -> Row] /\ state \in [Msgs -> States]
        /\ \A m \in Msgs : outbox[m] \in Row
    BY DEF TypeInvariant
  <1>1. Calm(At("idle")) /\ Calm(At("down"))
    BY DEF Calm, At, Idle
  <1>2. worker' = worker \/ Calm(worker')
    <2>1. worker' \in {worker, At("idle"), At("down")}
      BY DEF OperatorStep, RetryNotification, QuarantineNotification, AddSilence,
           ResumeDestination, DiscardIsolatedNotifications, ReconcileOfficialPaidChannel,
           Crash, Backup, Start
    <2>2. UNCHANGED seen
      BY DEF OperatorStep, RetryNotification, QuarantineNotification, AddSilence,
           ResumeDestination, DiscardIsolatedNotifications, ReconcileOfficialPaidChannel,
           Crash, Backup, Start, ghost
    <2> QED
      BY <1>1, <2>1, <2>2 DEF Calm
  <1>3. UNCHANGED <<clock, intent, wire, seen, deliveries, firstPost>>
    BY DEF OperatorStep, RetryNotification, QuarantineNotification, AddSilence,
         ResumeDestination, DiscardIsolatedNotifications, ReconcileOfficialPaidChannel,
         Crash, Backup, Start, store, ghost
  <1>4. \A n \in Msgs : /\ state'[n] # "absent" => state[n] # "absent"
                        /\ outbox'[n].lease \in {0, outbox[n].lease}
    <2>1. ASSUME NEW m \in Msgs, RetryNotification(m) PROVE <1>4!:
      BY <1>0, <2>1 DEF RetryNotification, Row
    <2>2. ASSUME NEW m \in Msgs, QuarantineNotification(m) PROVE <1>4!:
      BY <1>0, <2>2 DEF QuarantineNotification, Row
    <2>3. ASSUME NEW m \in Msgs, AddSilence(m) PROVE <1>4!:
      BY <1>0, <2>3 DEF AddSilence, Row
    <2>4. ASSUME NEW d \in Dests, ResumeDestination(d) PROVE <1>4!:
      BY <1>0, <2>4 DEF ResumeDestination, Row
    <2>5. ASSUME DiscardIsolatedNotifications PROVE <1>4!:
      BY <1>0, <2>5 DEF DiscardIsolatedNotifications, Row
    <2>6. ASSUME ReconcileOfficialPaidChannel PROVE <1>4!:
      <3>1. \A n \in Msgs : outbox'[n].lease \in {0, outbox[n].lease}
        BY <1>0, <2>6 DEF ReconcileOfficialPaidChannel, Held, Row
      <3>2. \A n \in Msgs : state'[n] # "absent" => state[n] # "absent"
        BY <2>6 DEF ReconcileOfficialPaidChannel, Unsent, Present
      <3> QED
        BY <3>1, <3>2
    <2>7. ASSUME Crash \/ Backup PROVE <1>4!:
      BY <2>7 DEF Crash, Backup, store
    <2>8. ASSUME NEW c \in Configs, Start(c) PROVE <1>4!:
      <3>1. Retargeted(c) \in [Msgs -> Row]
        <4>1. \A m \in Msgs : [outbox[m] EXCEPT !.isolated = TRUE, !.lease = 0] \in Row
          BY <1>0, RowUpdates
        <4> QED
          BY <1>0, <4>1 DEF Retargeted
      <3>2. \A n \in Msgs : Retargeted(c)[n].lease \in {0, outbox[n].lease}
        BY <1>0 DEF Retargeted, Row
      <3>3. \A rows \in [Msgs -> Row] : \A n \in Msgs :
                Withdrawn(rows)[n].lease \in {0, rows[n].lease}
        BY DEF Withdrawn, Row
      <3>4. outbox' = Retargeted(c) \/ outbox' = Withdrawn(Retargeted(c))
        BY <2>8 DEF Start
      <3>5. \A n \in Msgs : outbox'[n].lease \in {0, outbox[n].lease}
        BY <3>1, <3>2, <3>3, <3>4
      <3>6. state' = state
        BY <2>8 DEF Start
      <3> QED
        BY <3>5, <3>6
    <2> QED
      BY <2>1, <2>2, <2>3, <2>4, <2>5, <2>6, <2>7, <2>8 DEF OperatorStep
  <1> QED
    BY <1>2, <1>3, <1>4, TimelyFrame, LeaseFacts

\* Every step keeps LINE's requests within the life of their key.
LEMMA TimelyNext ==
  ASSUME TypeInvariant, WithinKeyLife, [Next]_vars
  PROVE  WithinKeyLife'
  <1> SUFFICES ASSUME LINE, counts'.restores = 0, back' = 0 PROVE Timely'
    BY DEF WithinKeyLife, LINE
  <1>1. counts.restores = 0 /\ back = 0
    BY OnlyGrow DEF TypeInvariant
  <1>2. Timely
    BY <1>1 DEF WithinKeyLife
  <1>3. CASE ExpireNotifications
    BY <1>2, <1>3, TimelySweep
  <1>4. CASE \E m \in Msgs, failure \in BOOLEAN : Enqueue(m, failure)
    BY <1>2, <1>4, TimelyEnqueue
  <1>5. CASE WorkerStep \/ WorkerError
    BY <1>1, <1>2, <1>5, TimelyWorkerCalm, TimelyBegin, TimelyRecheck, TimelyPost, TimelyResolve
       DEF WorkerStep
  <1>6. CASE ProviderStep
    BY <1>2, <1>6, TimelyProvider
  <1>7. CASE OperatorStep
    BY <1>2, <1>7, TimelyAdmin
  <1>8. CASE ProcessStep
    <2>1. ~(\E b \in backup : RestoreBackup(b))
      <3> SUFFICES ASSUME NEW b \in backup, RestoreBackup(b) PROVE FALSE
        OBVIOUS
      <3>1. counts \in [restarts : Nat, ops : Nat, restores : Nat]
        BY DEF TypeInvariant
      <3>2. counts' = [counts EXCEPT !.restores = @ + 1]
        BY DEF RestoreBackup
      <3> QED
        BY <1>1, <3>1, <3>2
    <2> QED
      BY <1>2, <1>8, <2>1, TimelyAdmin DEF ProcessStep
  <1>9. CASE Tick
    BY <1>2, <1>9, TimelyTick
  <1>10. CASE (\E n \in 1 .. MaxBack : ClockBack(n)) \/ UNCHANGED vars
    <2>1. UNCHANGED <<clock, outbox, state, intent, worker, wire, seen, deliveries, firstPost>>
      BY <1>10 DEF ClockBack, vars, store, ghost
    <2> QED
      BY <1>2, <2>1, TimelyFrame, LeaseFacts
  <1> QED
    BY <1>3, <1>4, <1>5, <1>6, <1>7, <1>8, <1>9, <1>10 DEF Next

-----------------------------------------------------------------------------

\* A row is begun only while nothing of it was delivered or is under way, on
\* every channel without an idempotency key (BeginOfficialDispatch,
\* ResolveOfficialDispatch, recoverOfficialIntents, markRestoredOfficialHold).
THEOREM AttemptsAreFresh == Spec => []FreshAttempts
  <1>1. Init => FreshAttempts
    BY FreshInit DEF FreshAttempts
  <1>2. TypeInvariant /\ FreshAttempts /\ [Next]_vars => FreshAttempts'
    BY FreshNext
  <1> QED
    BY <1>1, <1>2, TypeCorrect, PTL DEF Spec

\* On LINE with a wall clock that is never set back every POST is decided
\* within the life of its retry key.
THEOREM PostsWithinKeyLife == Spec => []WithinKeyLife
  <1>1. Init => WithinKeyLife
    BY TimelyInit DEF WithinKeyLife
  <1>2. TypeInvariant /\ WithinKeyLife /\ [Next]_vars => WithinKeyLife'
    BY TimelyNext
  <1> QED
    BY <1>1, <1>2, TypeCorrect, PTL DEF Spec

\* No message reaches its recipient twice, on any channel.
THEOREM AtMostOnce == Spec => []AtMostOnceDelivery
  <1>1. FreshAttempts /\ WithinKeyLife => AtMostOnceDelivery
    <2> SUFFICES ASSUME FreshAttempts, WithinKeyLife, counts.restores = 0 \/ Paid,
                        LINE => back = 0
                 PROVE  OnceEach
      BY DEF AtMostOnceDelivery, OnceEach
    <2>1. CASE ~LINE
      BY <2>1 DEF FreshAttempts, Trusted, Fresh
    <2>2. CASE LINE
      BY <2>2 DEF WithinKeyLife, Timely, LINE, Paid
    <2> QED
      BY <2>1, <2>2
  <1> QED
    BY <1>1, AttemptsAreFresh, PostsWithinKeyLife, PTL

-----------------------------------------------------------------------------
(* What a channel may spend *)

\* The messages that have taken a share of the budget of day d: posted, or
\* debited and not posted yet, in the table, in the worker's copy of the intent
\* or in a backup that may be restored.
Charged(d) ==
    {m \in Msgs : \/ <<m, d>> \in posted
                  \/ intent[m].budgetDay = d
                  \/ worker.pc \in {"begun", "allowed"} /\ worker.msg = m /\ worker.day = d
                  \/ \E b \in backup : b.intent[m].budgetDay = d}

\* An intent without a debit has made no attempt.
DebitedFirst(i) == i.budgetDay < 0 => i.attempt = 0
DebitsComeFirst ==
    /\ \A m \in Msgs : DebitedFirst(intent[m])
    /\ \A b \in backup, m \in Msgs : DebitedFirst(b.intent[m])

\* The limits in force were configured.
LimitsConfigured ==
    /\ \E c \in Configs : policy.limits = c.limits
    /\ \A b \in backup : \E c \in Configs : b.policy.limits = c.limits

\* Nothing is charged to a day to come, and only a restore holds a channel.
ChargedSoFar == \A d \in Days : d > DayOf(clock) => Charged(d) = {}
HeldByRestore == counts.restores = 0 => ~policy.hold

\* What was charged to a day is within the limits, and the usage of the days
\* that may still be debited shows it: those from the high-water mark on, and
\* after a restore, which may bring an old mark back, from today on.
FiniteCharge(ms) == IsFiniteSet(ms) /\ IsFiniteSet(SegmentsOf(ms))
StillOpen(d) == d >= policy.dayHigh /\ (counts.restores > 0 => d >= DayOf(clock))
ChargesBounded ==
    BudgetTrusted => \A d \in Days : /\ FiniteCharge(Charged(d))
                                     /\ \E c \in Configs : Within(Charged(d), c.limits)
ChargesShown ==
    BudgetTrusted /\ ~policy.hold => \A d \in Days : StillOpen(d) => Within(Charged(d), usage[d])

\* The inductive invariant.
Budgeted == /\ DebitsComeFirst /\ LimitsConfigured /\ ChargedSoFar /\ HeldByRestore
            /\ ChargesBounded /\ ChargesShown

-----------------------------------------------------------------------------

LEMMA DayMonotone ==
  ASSUME NEW s \in Nat, NEW t \in Nat, s <= t
  PROVE  DayOf(s) <= DayOf(t)
  <1>1. Day \in Nat /\ Day > 0
    BY TimeAssumption
  <1> QED
    BY <1>1 DEF DayOf

\* Today is one of the days, and no later than the true one.
LEMMA TodayIsADay ==
  ASSUME TypeInvariant
  PROVE  /\ DayOf(Now) \in Days /\ DayOf(Now) \in Nat /\ DayOf(clock) \in Nat
         /\ DayOf(Now) <= DayOf(clock) /\ DayOf(clock) <= DayOf(MaxClock)
         /\ \A d \in Days : d \in Nat
  <1>1. /\ clock \in Nat /\ MaxClock \in Nat /\ Now \in Nat /\ Now <= clock /\ clock <= MaxClock
    BY NowType, TimeAssumption DEF TypeInvariant, Now
  <1>2. DayOf(Now) \in Nat /\ DayOf(clock) \in Nat /\ DayOf(MaxClock) \in Nat
    BY <1>1, DayType
  <1>3. DayOf(Now) <= DayOf(clock) /\ DayOf(clock) <= DayOf(MaxClock)
    BY <1>1, DayMonotone
  <1> QED
    BY <1>2, <1>3 DEF Days

\* Fewer messages fit as well.
LEMMA FewerFit ==
  ASSUME NEW T, NEW S \in SUBSET T, FiniteCharge(T)
  PROVE  /\ FiniteCharge(S)
         /\ Cardinality(S) <= Cardinality(T)
         /\ Cardinality(SegmentsOf(S)) <= Cardinality(SegmentsOf(T))
  <1>1. IsFiniteSet(T) /\ IsFiniteSet(SegmentsOf(T))
    BY DEF FiniteCharge
  <1>2. SegmentsOf(S) \in SUBSET SegmentsOf(T)
    BY DEF SegmentsOf
  <1>3. IsFiniteSet(S) /\ Cardinality(S) <= Cardinality(T)
    BY <1>1, FS_Subset
  <1>4. IsFiniteSet(SegmentsOf(S)) /\ Cardinality(SegmentsOf(S)) <= Cardinality(SegmentsOf(T))
    BY <1>1, <1>2, FS_Subset
  <1> QED
    BY <1>3, <1>4 DEF FiniteCharge

\* One more message takes at most one share and its own segments.
LEMMA OneMore ==
  ASSUME NEW S, FiniteCharge(S), NEW m \in Msgs
  PROVE  /\ FiniteCharge(S \cup {m})
         /\ Cardinality(S \cup {m}) <= Cardinality(S) + 1
         /\ Cardinality(SegmentsOf(S \cup {m})) <= Cardinality(SegmentsOf(S)) + Segments[m]
         /\ Cardinality(S) \in Nat /\ Cardinality(SegmentsOf(S)) \in Nat
         /\ Cardinality(S \cup {m}) \in Nat /\ Cardinality(SegmentsOf(S \cup {m})) \in Nat
  <1> DEFINE own == {m} \X (1 .. Segments[m])
  <1>0. IsFiniteSet(S) /\ IsFiniteSet(SegmentsOf(S)) /\ Segments[m] \in Nat
    BY DataAssumption DEF FiniteCharge
  <1>1. /\ IsFiniteSet(S \cup {m}) /\ Cardinality(S \cup {m}) <= Cardinality(S) + 1
        /\ Cardinality(S) \in Nat /\ Cardinality(S \cup {m}) \in Nat
    <2>1. Cardinality(S) \in Nat
      BY <1>0, FS_CardinalityType
    <2>2. /\ IsFiniteSet(S \cup {m})
          /\ Cardinality(S \cup {m}) = IF m \in S THEN Cardinality(S) ELSE Cardinality(S) + 1
      BY <1>0, FS_AddElement
    <2> QED
      BY <2>1, <2>2
  <1>2. IsFiniteSet(1 .. Segments[m]) /\ Cardinality(1 .. Segments[m]) = Segments[m]
    BY <1>0, FS_Interval
  <1>3. IsFiniteSet({m}) /\ Cardinality({m}) = 1
    BY FS_Singleton
  <1>4. IsFiniteSet(own) /\ Cardinality(own) = Segments[m]
    <2>1. IsFiniteSet(own) /\ Cardinality(own) = Cardinality({m}) * Cardinality(1 .. Segments[m])
      BY <1>2, <1>3, FS_Product
    <2> QED
      BY <1>0, <1>2, <1>3, <2>1
  <1>5. SegmentsOf(S \cup {m}) = SegmentsOf(S) \cup own
    BY DEF SegmentsOf
  <1> HIDE DEF own
  <1>6. /\ IsFiniteSet(SegmentsOf(S) \cup own)
        /\ Cardinality(SegmentsOf(S) \cup own)
             = Cardinality(SegmentsOf(S)) + Cardinality(own) - Cardinality(SegmentsOf(S) \cap own)
    BY <1>0, <1>4, FS_Union
  <1>7. IsFiniteSet(SegmentsOf(S) \cap own)
    BY <1>0, FS_Intersection
  <1>8. /\ Cardinality(SegmentsOf(S) \cap own) \in Nat /\ Cardinality(SegmentsOf(S)) \in Nat
        /\ Cardinality(SegmentsOf(S) \cup own) \in Nat
    BY <1>0, <1>6, <1>7, FS_CardinalityType
  <1>9. Cardinality(SegmentsOf(S \cup {m})) <= Cardinality(SegmentsOf(S)) + Segments[m]
    <2>1. ASSUME NEW x, NEW y \in Nat, NEW z \in Nat, NEW n \in Nat, x = y + n - z
          PROVE  x <= y + n
      BY <2>1
    <2>2. Cardinality(SegmentsOf(S) \cup own) <= Cardinality(SegmentsOf(S)) + Segments[m]
      BY <1>0, <1>4, <1>6, <1>8, <2>1
    <2> QED
      BY <1>5, <2>2, Zenon
  <1>10. FiniteCharge(S \cup {m}) /\ Cardinality(SegmentsOf(S \cup {m})) \in Nat
    BY <1>1, <1>5, <1>6, <1>8 DEF FiniteCharge
  <1> QED
    BY <1>1, <1>8, <1>9, <1>10

LEMMA FewerWithin ==
  ASSUME NEW T, NEW S \in SUBSET T, FiniteCharge(T), NEW u, u.messages \in Nat, u.segments \in Nat,
         Within(T, u)
  PROVE  Within(S, u)
  <1>1. /\ FiniteCharge(S) /\ Cardinality(S) <= Cardinality(T)
        /\ Cardinality(SegmentsOf(S)) <= Cardinality(SegmentsOf(T))
    BY FewerFit
  <1>2. /\ Cardinality(S) \in Nat /\ Cardinality(T) \in Nat
        /\ Cardinality(SegmentsOf(S)) \in Nat /\ Cardinality(SegmentsOf(T)) \in Nat
    BY <1>1, FS_CardinalityType DEF FiniteCharge
  <1> QED
    BY <1>1, <1>2 DEF Within

\* Numbers the budget is made of.
LEMMA BudgetTypes ==
  ASSUME TypeInvariant
  PROVE  /\ policy.dayHigh \in Nat /\ policy.limits.messages \in Nat /\ policy.limits.segments \in Nat
         /\ counts.restores \in Nat /\ back \in Nat /\ clock \in Nat
         /\ \A d \in Days : usage[d].messages \in Nat /\ usage[d].segments \in Nat
         /\ \A c \in Configs : c.limits.messages \in Nat /\ c.limits.segments \in Nat
  <1>1. policy.dayHigh \in Nat /\ policy.limits \in [messages : Nat, segments : Nat, perMessage : Nat]
    BY DEF TypeInvariant, Policy
  <1>2. /\ counts \in [restarts : Nat, ops : Nat, restores : Nat] /\ back \in 0 .. MaxBack
        /\ clock \in (MaxBack + 1) .. MaxClock /\ MaxBack \in Nat
    BY TimeAssumption DEF TypeInvariant
  <1>3. usage \in [Days -> [messages : Nat, segments : Nat]]
    BY DEF TypeInvariant, Usage
  <1>4. \A c \in Configs : c.limits \in [messages : Nat, segments : Nat, perMessage : Nat]
    BY DataAssumption
  <1>5. counts.restores \in Nat /\ back \in Nat /\ clock \in Nat
    BY <1>2
  <1> QED
    BY <1>1, <1>3, <1>4, <1>5

\* A step that charges nothing, and moves time and the marks only forward.
LEMMA BudgetFrame ==
  ASSUME TypeInvariant, TypeInvariant', Budgeted,
         \A d \in Days : Charged(d)' \subseteq Charged(d),
         DebitsComeFirst', LimitsConfigured',
         counts'.restores = counts.restores, clock' >= clock, back' >= back,
         policy'.hold = policy.hold, policy'.dayHigh = policy.dayHigh, UNCHANGED usage
  PROVE  Budgeted'
  <1>1. /\ clock \in Nat /\ clock' \in Nat /\ back \in Nat /\ back' \in Nat
        /\ counts.restores \in Nat
    <2>1. clock \in Nat /\ back \in Nat /\ counts.restores \in Nat
      BY BudgetTypes
    <2>2. clock' \in Nat /\ back' \in Nat
      BY TimeAssumption DEF TypeInvariant
    <2> QED
      BY <2>1, <2>2
  <1>2. /\ DayOf(clock) <= DayOf(clock') /\ DayOf(clock) \in Nat /\ DayOf(clock') \in Nat
        /\ \A d \in Days : d \in Nat
    BY <1>1, DayMonotone, DayType, TodayIsADay
  <1>3. DayOf(clock)' = DayOf(clock')
    BY DEF DayOf
  <1>4. ChargedSoFar'
    <2> SUFFICES ASSUME NEW d \in Days, d > DayOf(clock') PROVE Charged(d)' = {}
      BY <1>3 DEF ChargedSoFar, Days
    <2>1. d > DayOf(clock)
      BY <1>2
    <2>2. Charged(d) = {}
      BY <2>1 DEF Budgeted, ChargedSoFar
    <2> QED
      BY <2>2
  <1>5. HeldByRestore'
    BY DEF Budgeted, HeldByRestore
  <1>6. BudgetTrusted' => BudgetTrusted
    BY <1>1 DEF BudgetTrusted, Paid, OneLimit
  <1>7. ASSUME BudgetTrusted', NEW d \in Days
        PROVE  /\ FiniteCharge(Charged(d)')
               /\ \E c \in Configs : Within(Charged(d)', c.limits)
    <2>1. FiniteCharge(Charged(d)) /\ \E c \in Configs : Within(Charged(d), c.limits)
      BY <1>6, <1>7 DEF Budgeted, ChargesBounded
    <2>2. Charged(d)' \in SUBSET Charged(d)
      OBVIOUS
    <2>3. FiniteCharge(Charged(d)')
      BY <2>1, <2>2, FewerFit
    <2>4. PICK c \in Configs : Within(Charged(d), c.limits)
      BY <2>1
    <2>5. c.limits.messages \in Nat /\ c.limits.segments \in Nat
      BY BudgetTypes
    <2>6. Within(Charged(d)', c.limits)
      BY <2>1, <2>2, <2>4, <2>5, FewerWithin
    <2> QED
      BY <2>3, <2>6
  <1>8. ASSUME BudgetTrusted', ~policy'.hold, NEW d \in Days, StillOpen(d)'
        PROVE  Within(Charged(d)', usage'[d])
    <2>1. StillOpen(d)
      BY <1>2, <1>3, <1>8 DEF StillOpen
    <2>2. Within(Charged(d), usage[d]) /\ FiniteCharge(Charged(d))
      BY <1>6, <1>8, <2>1 DEF Budgeted, ChargesShown, ChargesBounded
    <2>3. usage[d].messages \in Nat /\ usage[d].segments \in Nat
      BY BudgetTypes
    <2>4. Charged(d)' \in SUBSET Charged(d)
      OBVIOUS
    <2>5. Within(Charged(d)', usage[d])
      BY <2>2, <2>3, <2>4, FewerWithin
    <2> QED
      BY <2>5
  <1>9. ChargesBounded'
    BY <1>7 DEF ChargesBounded, FiniteCharge, Within, SegmentsOf, Days, Twilio
  <1>10. ChargesShown'
    BY <1>8 DEF ChargesShown, Within, SegmentsOf, Days, Twilio
  <1> QED
    BY <1>4, <1>5, <1>9, <1>10 DEF Budgeted

\* What a step that begins no attempt leaves of an intent and of the worker's
\* copy of one.
DebitKept(m) ==
    \/ intent'[m].budgetDay = intent[m].budgetDay /\ intent'[m].attempt = intent[m].attempt
    \/ intent'[m].budgetDay = -1 /\ intent'[m].attempt = 0
CopyKept ==
    worker'.pc \in {"begun", "allowed"} =>
        worker.pc \in {"begun", "allowed"} /\ worker'.msg = worker.msg /\ worker'.day = worker.day

LEMMA ChargeFrame ==
  ASSUME TypeInvariant, TypeInvariant', Budgeted, CopyKept, \A m \in Msgs : DebitKept(m),
         UNCHANGED <<usage, backup, posted>>,
         policy'.limits = policy.limits \/ \E c \in Configs : policy'.limits = c.limits,
         counts'.restores = counts.restores, clock' >= clock, back' >= back,
         policy'.hold = policy.hold, policy'.dayHigh = policy.dayHigh
  PROVE  Budgeted'
  <1>1. \A d \in Days : Charged(d)' \subseteq Charged(d)
    <2>1. \A d \in Days : d # -1
      BY TodayIsADay
    <2> QED
      BY <2>1 DEF Charged, CopyKept, DebitKept
  <1>2. DebitsComeFirst'
    BY DEF Budgeted, DebitsComeFirst, DebitedFirst, DebitKept
  <1>3. LimitsConfigured'
    BY DEF Budgeted, LimitsConfigured
  <1> QED
    BY <1>1, <1>2, <1>3, BudgetFrame

\* A sweep ends intents; it begins none.
LEMMA SweepDebits ==
  ASSUME TypeInvariant, NEW m \in Msgs
  PROVE  /\ \/ /\ SweptIntent[m].budgetDay = intent[m].budgetDay
               /\ SweptIntent[m].attempt = intent[m].attempt
            \/ SweptIntent[m].budgetDay = -1 /\ SweptIntent[m].attempt = 0
         /\ PollsExpired[m].budgetDay = intent[m].budgetDay
         /\ PollsExpired[m].attempt = intent[m].attempt
         /\ NoIntent.budgetDay = -1 /\ NoIntent.attempt = 0
  <1>1. intent[m] \in Intent
    BY RowTypes
  <1>2. NoIntent.budgetDay = -1 /\ NoIntent.attempt = 0
    BY DEF NoIntent
  <1>3. \/ PollsExpired[m] = intent[m]
        \/ PollsExpired[m] = [intent[m] EXCEPT !.providerState = "unknown", !.nextPoll = 0, !.pollLease = 0]
    BY DEF PollsExpired
  <1>4. PollsExpired[m].budgetDay = intent[m].budgetDay /\ PollsExpired[m].attempt = intent[m].attempt
    <2>1. CASE PollsExpired[m] = intent[m]
      BY <2>1
    <2>2. CASE PollsExpired[m] # intent[m]
      BY <1>1, <1>3, <2>2 DEF Intent
    <2> QED
      BY <2>1, <2>2
  <1>5. SweptIntent[m] = NoIntent \/ SweptIntent[m] = PollsExpired[m]
    BY DEF SweptIntent
  <1> QED
    BY <1>2, <1>4, <1>5

LEMMA BudgetSweep ==
  ASSUME TypeInvariant, TypeInvariant', Budgeted,
         \/ ExpireNotifications
         \/ \E m \in Msgs, failure \in BOOLEAN : Enqueue(m, failure)
  PROVE  Budgeted'
  <1>1. /\ UNCHANGED <<clock, back, policy, usage, worker, backup, counts, posted>>
        /\ \/ intent' = SweptIntent
           \/ \E m \in Msgs : intent' = [SweptIntent EXCEPT ![m] = NoIntent]
    BY DEF ExpireNotifications, Enqueue, ghost
  <1>2. SweptIntent \in [Msgs -> Intent]
    BY SweepType
  <1>3. \A m \in Msgs : intent'[m] = SweptIntent[m] \/ intent'[m] = NoIntent
    BY <1>1, <1>2
  <1>4. \A m \in Msgs : DebitKept(m)
    BY <1>3, SweepDebits DEF DebitKept
  <1>5. clock' >= clock /\ back' >= back
    BY <1>1, BudgetTypes
  <1>6. CopyKept
    BY <1>1 DEF CopyKept
  <1> QED
    BY <1>1, <1>4, <1>5, <1>6, ChargeFrame

\* The provider, the clock, a crash, a start and the commands but for the
\* reconciliation touch neither the budget nor what was charged.
LEMMA BudgetOutside ==
  ASSUME TypeInvariant, TypeInvariant', Budgeted, [Next]_vars,
         \/ ProviderStep \/ Tick \/ Crash \/ UNCHANGED vars
         \/ \E n \in 1 .. MaxBack : ClockBack(n)
         \/ \E m \in Msgs : RetryNotification(m) \/ QuarantineNotification(m) \/ AddSilence(m)
         \/ \E d \in Dests : ResumeDestination(d)
         \/ DiscardIsolatedNotifications
  PROVE  Budgeted'
  <1>1. UNCHANGED <<intent, policy, usage, backup, posted>>
    <2>1. CASE ProviderStep
      BY <2>1 DEF ProviderStep, ProviderAccepts, ProviderRefuses, Lost, store, ghost
    <2>2. CASE Tick \/ Crash \/ UNCHANGED vars
      BY <2>2 DEF Tick, Crash, vars, store, ghost
    <2>3. CASE \E n \in 1 .. MaxBack : ClockBack(n)
      BY <2>3 DEF ClockBack, store, ghost
    <2>4. CASE \E m \in Msgs : RetryNotification(m) \/ QuarantineNotification(m) \/ AddSilence(m)
      BY <2>4 DEF RetryNotification, QuarantineNotification, AddSilence, ghost
    <2>5. CASE DiscardIsolatedNotifications \/ \E d \in Dests : ResumeDestination(d)
      BY <2>5 DEF ResumeDestination, DiscardIsolatedNotifications, ghost
    <2> QED
      BY <2>1, <2>2, <2>3, <2>4, <2>5
  <1>2. counts'.restores = counts.restores
    <2>1. counts \in [restarts : Nat, ops : Nat, restores : Nat]
      BY DEF TypeInvariant
    <2>2. \/ UNCHANGED counts \/ counts' = [counts EXCEPT !.ops = @ + 1]
          \/ counts' = [counts EXCEPT !.restarts = @ + 1]
      <3>1. CASE ProviderStep
        BY <3>1 DEF ProviderStep, ProviderAccepts, ProviderRefuses, Lost
      <3>2. CASE Tick \/ Crash \/ UNCHANGED vars
        BY <3>2 DEF Tick, Crash, vars
      <3>3. CASE \E n \in 1 .. MaxBack : ClockBack(n)
        BY <3>3 DEF ClockBack
      <3>4. CASE \E m \in Msgs : RetryNotification(m) \/ QuarantineNotification(m) \/ AddSilence(m)
        BY <3>4 DEF RetryNotification, QuarantineNotification, AddSilence, Command
      <3>5. CASE DiscardIsolatedNotifications \/ \E d \in Dests : ResumeDestination(d)
        BY <3>5 DEF ResumeDestination, DiscardIsolatedNotifications, Command
      <3> QED
        BY <3>1, <3>2, <3>3, <3>4, <3>5
    <2> QED
      BY <2>1, <2>2
  <1>3. CopyKept
    <2>1. CASE ProviderStep
      <3>1. worker' = worker \/ (worker.pc = "sending" /\ worker'.pc = "sending")
        <4>1. worker \in Worker
          BY DEF TypeInvariant
        <4>2. \/ worker' = worker
              \/ \E x \in {"accepted", "refused"} :
                    worker.pc = "sending" /\ worker' = [worker EXCEPT !.reply = x]
          BY <2>1 DEF ProviderStep, ProviderAccepts, ProviderRefuses, Lost, Heard
        <4> QED
          BY <4>1, <4>2 DEF Worker
      <3> QED
        BY <3>1 DEF CopyKept
    <2>2. CASE Crash
      <3>1. worker'.pc = "down"
        BY <2>2 DEF Crash, At
      <3> QED
        BY <3>1 DEF CopyKept
    <2>3. CASE ~ProviderStep /\ ~Crash
      <3>1. CASE Tick \/ UNCHANGED vars
        BY <3>1 DEF CopyKept, Tick, vars
      <3>2. CASE \E n \in 1 .. MaxBack : ClockBack(n)
        BY <3>2 DEF CopyKept, ClockBack
      <3>3. CASE \E m \in Msgs : RetryNotification(m) \/ QuarantineNotification(m) \/ AddSilence(m)
        BY <3>3 DEF CopyKept, RetryNotification, QuarantineNotification, AddSilence
      <3>4. CASE DiscardIsolatedNotifications \/ \E d \in Dests : ResumeDestination(d)
        BY <3>4 DEF CopyKept, DiscardIsolatedNotifications, ResumeDestination
      <3> QED
        BY <2>3, <3>1, <3>2, <3>3, <3>4
    <2> QED
      BY <2>1, <2>2, <2>3
  <1>4. \A m \in Msgs : DebitKept(m)
    BY <1>1 DEF DebitKept
  <1>5. clock' >= clock /\ back' >= back
    BY OnlyGrow
  <1> QED
    BY <1>1, <1>2, <1>3, <1>4, <1>5, ChargeFrame

LEMMA BudgetStart ==
  ASSUME TypeInvariant, TypeInvariant', Budgeted, NEW c \in Configs, Start(c)
  PROVE  Budgeted'
  <1>1. /\ UNCHANGED <<clock, back, intent, usage, backup, counts, posted>>
        /\ worker' \in {worker, At("idle")}
        /\ policy' = policy \/ policy' = ConfigureOfficialPolicy(c)
    BY DEF Start, ghost
  <1>2. policy \in Policy
    BY DEF TypeInvariant
  <1>3. /\ policy'.limits = policy.limits \/ policy'.limits = c.limits
        /\ policy'.hold = policy.hold /\ policy'.dayHigh = policy.dayHigh
    BY <1>1, <1>2 DEF ConfigureOfficialPolicy, Policy
  <1>4. CopyKept
    <2>1. At("idle").pc = "idle"
      BY DEF At
    <2> QED
      BY <1>1, <2>1 DEF CopyKept
  <1>5. \A m \in Msgs : DebitKept(m)
    BY <1>1 DEF DebitKept
  <1>6. clock' >= clock /\ back' >= back
    BY <1>1, BudgetTypes
  <1> QED
    BY <1>1, <1>3, <1>4, <1>5, <1>6, ChargeFrame

\* What a receipt leaves of the budget's columns.
LEMMA ResolvedDebits ==
  ASSUME TypeInvariant, ResolveOfficialDispatch
  PROVE  /\ \A m \in Msgs : DebitKept(m)
         /\ policy'.limits = policy.limits /\ policy'.hold = policy.hold
         /\ policy'.dayHigh = policy.dayHigh
  <1> DEFINE m == worker.msg
             r == worker.result
  <1>0. m \in Msgs /\ intent \in [Msgs -> Intent] /\ policy \in Policy /\ intent[m] \in Intent
    BY WorkerBusy DEF ResolveOfficialDispatch, TypeInvariant, Idle
  <1>1. \/ UNCHANGED intent
        \/ \E s \in {"open", "final"} :
             intent' = [intent EXCEPT ![m] =
                [@ EXCEPT !.uncertain = FALSE,
                          !.providerState = IF Twilio THEN s ELSE "open",
                          !.nextPoll = IF Twilio /\ s = "open" THEN Now + PollWait ELSE 0,
                          !.pollDeadline = IF Twilio THEN intent[m].first + PollDeadline ELSE 0]]
        \/ intent' = [intent EXCEPT ![m].uncertain = FALSE]
    <2>1. CASE ~Matches(m, r, worker.attempt)
      BY <2>1 DEF ResolveOfficialDispatch
    <2>2. CASE Matches(m, r, worker.attempt) /\ r.outcome = "accepted"
      <3>1. ResolveAccepted(m)
        BY <2>2 DEF ResolveOfficialDispatch
      <3> QED
        BY <3>1 DEF ResolveAccepted
    <2>3. CASE Matches(m, r, worker.attempt) /\ r.outcome = "unknown"
      <3>1. ResolveUnknown(m, r)
        BY <2>3 DEF ResolveOfficialDispatch
      <3> QED
        BY <3>1 DEF ResolveUnknown
    <2>4. CASE Matches(m, r, worker.attempt) /\ r.outcome = "not_accepted"
      <3>1. ResolveNotAccepted(m, r)
        BY <2>4 DEF ResolveOfficialDispatch
      <3> QED
        BY <3>1 DEF ResolveNotAccepted
    <2>5. r.outcome \in {"accepted", "not_accepted", "unknown"}
      BY WorkerBusy DEF ResolveOfficialDispatch, TypeInvariant, Worker
    <2> QED
      BY <2>1, <2>2, <2>3, <2>4, <2>5
  <1>2. policy' = policy \/ policy' = [policy EXCEPT !.optout = Later(@, Now)]
    <2>1. CASE ~Matches(m, r, worker.attempt)
      BY <2>1 DEF ResolveOfficialDispatch
    <2>2. CASE Matches(m, r, worker.attempt)
      <3>1. ResolveAccepted(m) \/ ResolveUnknown(m, r) \/ ResolveNotAccepted(m, r)
        <4>1. r.outcome \in {"accepted", "not_accepted", "unknown"}
          BY WorkerBusy DEF ResolveOfficialDispatch, TypeInvariant, Worker
        <4> QED
          BY <2>2, <4>1 DEF ResolveOfficialDispatch
      <3> QED
        BY <3>1 DEF ResolveAccepted, ResolveUnknown, ResolveNotAccepted
    <2> QED
      BY <2>1, <2>2
  <1>3. /\ policy'.limits = policy.limits /\ policy'.hold = policy.hold
        /\ policy'.dayHigh = policy.dayHigh
    BY <1>0, <1>2 DEF Policy
  <1> HIDE DEF m
  <1>4. \A x \in Msgs : x # m => intent'[x] = intent[x]
    BY <1>0, <1>1
  <1>5. intent'[m].budgetDay = intent[m].budgetDay /\ intent'[m].attempt = intent[m].attempt
    <2>1. CASE UNCHANGED intent
      BY <2>1
    <2>2. CASE intent' = [intent EXCEPT ![m].uncertain = FALSE]
      BY <1>0, <2>2 DEF Intent
    <2>3. ASSUME NEW p, NEW n, NEW q,
                 intent' = [intent EXCEPT ![m] = [@ EXCEPT !.uncertain = FALSE, !.providerState = p,
                                                           !.nextPoll = n, !.pollDeadline = q]]
          PROVE  intent'[m].budgetDay = intent[m].budgetDay /\ intent'[m].attempt = intent[m].attempt
      <3>1. intent'[m] = [intent[m] EXCEPT !.uncertain = FALSE, !.providerState = p,
                                           !.nextPoll = n, !.pollDeadline = q]
        BY <1>0, <2>3
      <3> QED
        BY <1>0, <3>1 DEF Intent
    <2> QED
      BY <1>1, <2>1, <2>2, <2>3
  <1> QED
    BY <1>3, <1>4, <1>5 DEF DebitKept

LEMMA PolledDebits ==
  ASSUME TypeInvariant, ResolveOfficialPoll
  PROVE  /\ \A m \in Msgs : DebitKept(m)
         /\ policy'.limits = policy.limits /\ policy'.hold = policy.hold
         /\ policy'.dayHigh = policy.dayHigh
  <1> DEFINE m == worker.msg
  <1>0. m \in Msgs /\ intent \in [Msgs -> Intent] /\ policy \in Policy /\ intent[m] \in Intent
    BY WorkerBusy DEF ResolveOfficialPoll, TypeInvariant, Idle
  <1>1. \/ UNCHANGED intent
        \/ \E n, p : intent' = [intent EXCEPT ![m] = [@ EXCEPT !.pollLease = 0, !.nextPoll = n,
                                                               !.providerState = p]]
    BY DEF ResolveOfficialPoll
  <1>2. policy' = policy \/ policy' = [policy EXCEPT !.optout = Later(@, Now)]
    BY DEF ResolveOfficialPoll
  <1>3. /\ policy'.limits = policy.limits /\ policy'.hold = policy.hold
        /\ policy'.dayHigh = policy.dayHigh
    BY <1>0, <1>2 DEF Policy
  <1> HIDE DEF m
  <1>4. \A x \in Msgs : x # m => intent'[x] = intent[x]
    BY <1>0, <1>1
  <1>5. intent'[m].budgetDay = intent[m].budgetDay /\ intent'[m].attempt = intent[m].attempt
    <2>1. CASE UNCHANGED intent
      BY <2>1
    <2>2. ASSUME NEW n, NEW p,
                 intent' = [intent EXCEPT ![m] = [@ EXCEPT !.pollLease = 0, !.nextPoll = n,
                                                           !.providerState = p]]
          PROVE  intent'[m].budgetDay = intent[m].budgetDay /\ intent'[m].attempt = intent[m].attempt
      <3>1. intent'[m] = [intent[m] EXCEPT !.pollLease = 0, !.nextPoll = n, !.providerState = p]
        BY <1>0, <2>2
      <3> QED
        BY <1>0, <3>1 DEF Intent
    <2> QED
      BY <1>1, <2>1, <2>2
  <1> QED
    BY <1>3, <1>4, <1>5 DEF DebitKept

\* A refused attempt is not debited: one that has used its attempts up was
\* debited when the first of them began.
LEMMA RefusedUsage ==
  ASSUME TypeInvariant, Budgeted, BeginRefused
  PROVE  UNCHANGED usage
  <1> DEFINE m == worker.msg
  <1>0. m \in Msgs
    BY WorkerBusy DEF BeginRefused, TypeInvariant, Idle
  <1>1. intent[m].budgetDay < 0 => intent[m].attempt = 0
    BY <1>0 DEF Budgeted, DebitsComeFirst, DebitedFirst
  <1>2. MaxAttempts \in Nat /\ MaxAttempts > 0
    BY TimeAssumption
  <1>3. intent[m].attempt >= MaxAttempts => ~NeedsDebit(m)
    BY <1>0, <1>1, <1>2 DEF NeedsDebit
  <1> QED
    BY <1>3 DEF BeginRefused

LEMMA BudgetWorkerCalm ==
  ASSUME TypeInvariant, TypeInvariant', Budgeted,
         \/ \E m \in Msgs : ClaimNotification(m) \/ ClaimOfficialPoll(m)
         \/ BeginRefused \/ Recheck \/ PostNotSent \/ Answer \/ ResolveOfficialDispatch
         \/ ReleaseNotificationClaim \/ Poll \/ ResolveOfficialPoll \/ WorkerError
  PROVE  Budgeted'
  <1>0. worker \in Worker /\ intent \in [Msgs -> Intent]
    BY DEF TypeInvariant
  <1>1. ASSUME UNCHANGED <<clock, back, usage, backup, counts, posted>>, CopyKept,
               \A m \in Msgs : DebitKept(m),
               policy'.limits = policy.limits /\ policy'.hold = policy.hold
                 /\ policy'.dayHigh = policy.dayHigh
        PROVE  Budgeted'
    <2>1. clock' >= clock /\ back' >= back
      BY <1>1, BudgetTypes
    <2> QED
      BY <1>1, <2>1, ChargeFrame
  <1>2. ASSUME UNCHANGED intent PROVE \A m \in Msgs : DebitKept(m)
    BY <1>2 DEF DebitKept
  <1>3. ASSUME worker'.pc \notin {"begun", "allowed"} PROVE CopyKept
    BY <1>3 DEF CopyKept
  <1>4. /\ At("idle").pc = "idle"
        /\ \A m \in Msgs : /\ [At("claimed") EXCEPT !.msg = m].pc = "claimed"
                           /\ \A a \in Nat : [At("polling") EXCEPT !.msg = m, !.attempt = a].pc = "polling"
    BY DEF At
  <1>5. CASE \E m \in Msgs : ClaimNotification(m)
    <2>1. UNCHANGED <<clock, back, usage, backup, counts, posted, intent, policy>>
      BY <1>5 DEF ClaimNotification, ghost
    <2>2. worker'.pc = "claimed"
      BY <1>4, <1>5 DEF ClaimNotification
    <2> QED
      BY <1>1, <1>2, <1>3, <2>1, <2>2
  <1>6. ASSUME NEW m \in Msgs, ClaimOfficialPoll(m) PROVE Budgeted'
    <2>1. UNCHANGED <<clock, back, usage, backup, counts, posted, policy>>
      BY <1>6 DEF ClaimOfficialPoll, ghost
    <2>2. worker'.pc = "polling"
      <3>1. worker' = [At("polling") EXCEPT !.msg = m, !.attempt = PollClaimed(m).pollAttempts]
        BY <1>6 DEF ClaimOfficialPoll
      <3> QED
        BY <3>1 DEF At
    <2>3. PollsExpired \in [Msgs -> Intent] /\ intent[m] \in Intent
      <3>1. DOMAIN PollsExpired = Msgs /\ \A x \in Msgs : PollsExpired[x] = SweptIntent[x] \/ SweptIntent[x] = NoIntent
        BY DEF PollsExpired, SweptIntent
      <3>2. intent' \in [Msgs -> Intent] /\ intent' = [PollsExpired EXCEPT ![m] = PollClaimed(m)]
        BY <1>6 DEF TypeInvariant, ClaimOfficialPoll
      <3> QED
        BY ZenonT(40), <1>0 DEF PollsExpired, Intent
    <2>4. intent' = [PollsExpired EXCEPT ![m] = PollClaimed(m)]
      BY <1>6 DEF ClaimOfficialPoll
    <2>5. PollClaimed(m).budgetDay = intent[m].budgetDay /\ PollClaimed(m).attempt = intent[m].attempt
      BY <2>3 DEF PollClaimed, Intent
    <2>6. \A x \in Msgs : intent'[x] = PollsExpired[x] \/ (x = m /\ intent'[x] = PollClaimed(m))
      BY <2>3, <2>4
    <2>7. \A x \in Msgs : DebitKept(x)
      BY <2>5, <2>6, SweepDebits DEF DebitKept
    <2> QED
      BY <1>1, <1>3, <2>1, <2>2, <2>7
  <1>7. CASE BeginRefused
    <2>1. UNCHANGED <<clock, back, backup, counts, posted, intent, policy>> /\ UNCHANGED usage
      BY <1>7, RefusedUsage DEF BeginRefused, ghost
    <2>2. worker'.pc = "release"
      BY <1>0, <1>7 DEF BeginRefused, Worker
    <2> QED
      BY <1>1, <1>2, <1>3, <2>1, <2>2
  <1>8. CASE Recheck
    <2>1. UNCHANGED <<clock, back, usage, backup, counts, posted, intent, policy>>
      BY <1>8 DEF Recheck, store, ghost
    <2>2. \/ worker' = [worker EXCEPT !.pc = "allowed", !.deadline = clock + SendTimeout]
          \/ worker' = [worker EXCEPT !.pc = "answered",
                          !.result = Outcome("not_accepted", RefusedWait, {})]
      BY <1>8 DEF Recheck
    <2>3. worker'.msg = worker.msg /\ worker'.day = worker.day /\ worker.pc = "begun"
      BY <1>0, <1>8, <2>2 DEF Worker, Recheck
    <2>4. CopyKept
      BY <2>3 DEF CopyKept
    <2> QED
      BY <1>1, <1>2, <2>1, <2>4
  <1>9. CASE PostNotSent \/ Answer
    <2>1. UNCHANGED <<clock, back, usage, backup, counts, posted, intent, policy>>
      BY <1>9 DEF PostNotSent, Answer, store, ghost
    <2>2. \E r : worker' = [worker EXCEPT !.pc = "answered", !.result = r]
      BY <1>9 DEF PostNotSent, Answer
    <2>3. worker'.pc = "answered"
      BY <1>0, <2>2 DEF Worker
    <2> QED
      BY <1>1, <1>2, <1>3, <2>1, <2>3
  <1>10. CASE ResolveOfficialDispatch
    <2>1. UNCHANGED <<clock, back, usage, backup, counts, posted>> /\ worker' = At("idle")
      BY <1>10 DEF ResolveOfficialDispatch
    <2> QED
      BY <1>1, <1>3, <1>4, <1>10, <2>1, ResolvedDebits
  <1>11. CASE ReleaseNotificationClaim \/ WorkerError
    <2>1. UNCHANGED <<clock, back, usage, backup, counts, posted, intent, policy>>
          /\ worker' = At("idle")
      BY <1>11 DEF ReleaseNotificationClaim, WorkerError, store, ghost
    <2> QED
      BY <1>1, <1>2, <1>3, <1>4, <2>1
  <1>12. CASE Poll
    <2>1. UNCHANGED <<clock, back, usage, backup, counts, posted, intent, policy>>
      BY <1>12 DEF Poll, store
    <2>2. worker' = At("idle") \/ \E r : worker' = [worker EXCEPT !.pc = "polled", !.result = r]
      BY <1>12 DEF Poll
    <2>3. worker'.pc \in {"idle", "polled"}
      BY <1>0, <1>4, <2>2 DEF Worker
    <2> QED
      BY <1>1, <1>2, <1>3, <2>1, <2>3
  <1>13. CASE ResolveOfficialPoll
    <2>1. UNCHANGED <<clock, back, usage, backup, counts, posted>> /\ worker' = At("idle")
      BY <1>13 DEF ResolveOfficialPoll
    <2> QED
      BY <1>1, <1>3, <1>4, <1>13, <2>1, PolledDebits
  <1> QED
    BY <1>5, <1>6, <1>7, <1>8, <1>9, <1>10, <1>11, <1>12, <1>13

\* What is posted was charged when its attempt began.
LEMMA BudgetPost ==
  ASSUME TypeInvariant, TypeInvariant', Budgeted, Post
  PROVE  Budgeted'
  <1>1. /\ UNCHANGED <<clock, back, intent, policy, usage, backup, counts>>
        /\ worker.pc = "allowed" /\ posted' = posted \cup {<<worker.msg, worker.day>>}
        /\ worker' = [worker EXCEPT !.pc = "sending"]
    BY DEF Post, store
  <1>2. worker'.pc = "sending"
    BY <1>1 DEF TypeInvariant, Worker
  <1>3. \A d \in Days : Charged(d)' \subseteq Charged(d)
    <2> SUFFICES ASSUME NEW d \in Days, NEW m \in Charged(d)' PROVE m \in Charged(d)
      OBVIOUS
    <2>1. CASE <<m, d>> = <<worker.msg, worker.day>>
      BY <1>1, <2>1 DEF Charged
    <2>2. CASE <<m, d>> # <<worker.msg, worker.day>>
      BY <1>1, <1>2, <2>2 DEF Charged
    <2> QED
      BY <2>1, <2>2
  <1>4. DebitsComeFirst' /\ LimitsConfigured'
    BY <1>1 DEF Budgeted, DebitsComeFirst, LimitsConfigured
  <1>5. clock' >= clock /\ back' >= back
    BY <1>1, BudgetTypes
  <1> QED
    BY <1>1, <1>3, <1>4, <1>5, BudgetFrame

\* A backup is charged with what it holds of the present.
LEMMA BudgetBackup ==
  ASSUME TypeInvariant, TypeInvariant', Budgeted, Backup
  PROVE  Budgeted'
  <1>1. /\ UNCHANGED <<clock, back, intent, policy, usage, worker, counts, posted>>
        /\ \A b \in backup' : b.intent = intent /\ b.policy = policy
    BY DEF Backup, store, ghost
  <1>2. \A d \in Days : Charged(d)' \subseteq Charged(d)
    BY <1>1 DEF Charged
  <1>3. DebitsComeFirst' /\ LimitsConfigured'
    BY <1>1 DEF Budgeted, DebitsComeFirst, LimitsConfigured
  <1>4. clock' >= clock /\ back' >= back
    BY <1>1, BudgetTypes
  <1> QED
    BY <1>1, <1>2, <1>3, <1>4, BudgetFrame

\* An attempt is charged before it is made, and only to a day with room for it.
LEMMA BudgetBegin ==
  ASSUME TypeInvariant, TypeInvariant', Budgeted, BeginOfficialDispatch
  PROVE  Budgeted'
  <1> DEFINE m == worker.msg
             today == DayOf(Now)
             more(d) == IF d = today /\ NeedsDebit(m) THEN {m} ELSE {}
  <1>0. /\ m \in Msgs /\ intent \in [Msgs -> Intent] /\ intent[m] \in Intent
        /\ policy \in Policy /\ worker \in Worker
        /\ intent[m].budgetDay \in Int /\ intent[m].attempt \in Nat
    BY WorkerBusy DEF BeginOfficialDispatch, TypeInvariant, Idle, Intent
  <1>1. /\ UNCHANGED <<clock, back, backup, counts, posted>>
        /\ intent' = [intent EXCEPT ![m] = Begun(m)]
        /\ usage' = IF NeedsDebit(m) THEN Debited(m) ELSE usage
        /\ ~Refused(m) /\ (NeedsDebit(m) => ~Exhausted(m))
    BY DEF BeginOfficialDispatch, ghost
  <1>2. /\ worker' = [worker EXCEPT !.pc = "begun", !.attempt = Begun(m).attempt,
                                    !.first = Begun(m).first, !.day = Begun(m).budgetDay]
        /\ policy' = [policy EXCEPT !.clockHigh = Later(@, Now), !.dayHigh = Later(@, today)]
    BY DEF BeginOfficialDispatch
  <1>3. worker'.pc = "begun" /\ worker'.msg = m /\ worker'.day = Begun(m).budgetDay
    BY <1>0, <1>2 DEF Worker
  <1>4. /\ policy'.limits = policy.limits /\ policy'.hold = policy.hold
        /\ policy'.dayHigh = Later(policy.dayHigh, today)
    BY <1>0, <1>2 DEF Policy
  <1>5. ~policy.hold /\ ~(today < policy.dayHigh)
    BY <1>1 DEF Refused, Subscribed
  <1>6. /\ today \in Days /\ today \in Nat /\ DayOf(clock) \in Nat /\ today <= DayOf(clock)
        /\ policy.dayHigh \in Nat /\ \A d \in Days : d \in Nat
    BY BudgetTypes, TodayIsADay
  <1>7. policy'.dayHigh = today
    BY <1>4, <1>5, <1>6 DEF Later
  <1>8. /\ Begun(m).budgetDay = IF intent[m].budgetDay < 0 THEN today ELSE intent[m].budgetDay
        /\ intent'[m] = Begun(m) /\ \A x \in Msgs : x # m => intent'[x] = intent[x]
    <2>1. Begun(m).budgetDay = IF intent[m].budgetDay < 0 THEN today ELSE intent[m].budgetDay
      BY <1>0 DEF Begun, Intent
    <2> HIDE DEF m
    <2>2. intent'[m] = Begun(m) /\ \A x \in Msgs : x # m => intent'[x] = intent[x]
      BY <1>0, <1>1
    <2> QED
      BY <2>1, <2>2
  <1>9. Begun(m).budgetDay >= 0
    BY <1>0, <1>6, <1>8
  <1> HIDE DEF m, today
  <1>10. \A d \in Days : Charged(d)' \subseteq Charged(d) \cup more(d)
    <2> SUFFICES ASSUME NEW d \in Days, NEW x \in Charged(d)' PROVE x \in Charged(d) \cup more(d)
      OBVIOUS
    <2>1. CASE <<x, d>> \in posted \/ \E b \in backup : b.intent[x].budgetDay = d
      BY <2>1 DEF Charged
    <2>2. CASE x # m
      BY <1>1, <1>3, <1>8, <2>2 DEF Charged
    <2>3. CASE x = m /\ Begun(m).budgetDay = d
      BY <1>0, <1>8, <2>3 DEF Charged, NeedsDebit
    <2>4. CASE x = m /\ Begun(m).budgetDay # d
      BY <1>1, <1>3, <1>8, <2>1, <2>4 DEF Charged
    <2> QED
      BY <2>2, <2>3, <2>4
  <1>11. DebitsComeFirst' /\ LimitsConfigured'
    <2>1. \A x \in Msgs : DebitedFirst(intent[x]) /\ DebitedFirst(intent'[x])
      <3>1. \A x \in Msgs : DebitedFirst(intent[x])
        BY DEF Budgeted, DebitsComeFirst
      <3>2. DebitedFirst(intent'[m])
        <4>1. ~(intent'[m].budgetDay < 0)
          BY <1>0, <1>6, <1>8, <1>9
        <4> QED
          BY <4>1 DEF DebitedFirst
      <3> QED
        BY <1>8, <3>1, <3>2
    <2>2. DebitsComeFirst'
      BY <1>1, <2>1 DEF Budgeted, DebitsComeFirst, DebitedFirst
    <2> QED
      BY <1>1, <1>4, <2>2 DEF Budgeted, LimitsConfigured
  <1>12. ChargedSoFar' /\ HeldByRestore'
    <2>1. DayOf(clock)' = DayOf(clock)
      BY <1>1 DEF DayOf
    <2>2. ASSUME NEW d \in Days, d > DayOf(clock) PROVE Charged(d)' = {}
      <3>1. d # today
        BY <1>6, <2>2
      <3>2. Charged(d) = {}
        BY <2>2 DEF Budgeted, ChargedSoFar
      <3> QED
        BY <1>10, <3>1, <3>2
    <2> QED
      BY <1>1, <1>4, <2>1, <2>2 DEF ChargedSoFar, Days, HeldByRestore, Budgeted
  <1>13. BudgetTrusted' => BudgetTrusted
    BY <1>1 DEF BudgetTrusted, Paid, OneLimit
  <1>14. ASSUME BudgetTrusted
         PROVE  FiniteCharge(Charged(today)) /\ Within(Charged(today), usage[today])
    <2>1. counts.restores > 0 => today = DayOf(clock)
      BY <1>14, BudgetTypes DEF BudgetTrusted, Now, today
    <2>2. StillOpen(today)
      BY <1>5, <1>6, <2>1 DEF StillOpen
    <2> QED
      BY <1>5, <1>6, <1>14, <2>2 DEF Budgeted, ChargesBounded, ChargesShown
  <1>15. ASSUME BudgetTrusted, NeedsDebit(m)
         PROVE  /\ FiniteCharge(Charged(today) \cup {m})
                /\ Within(Charged(today) \cup {m}, policy.limits)
                /\ Within(Charged(today) \cup {m}, usage'[today])
    <2> DEFINE ms == Charged(today)
               all == Charged(today) \cup {m}
    <2>1. FiniteCharge(ms) /\ Within(ms, usage[today])
      BY <1>14, <1>15
    <2>2. /\ FiniteCharge(all)
          /\ Cardinality(all) <= Cardinality(ms) + 1
          /\ Cardinality(SegmentsOf(all)) <= Cardinality(SegmentsOf(ms)) + Segments[m]
          /\ Cardinality(ms) \in Nat /\ Cardinality(SegmentsOf(ms)) \in Nat
          /\ Cardinality(all) \in Nat /\ Cardinality(SegmentsOf(all)) \in Nat
      BY <1>0, <2>1, OneMore
    <2>3. /\ usage[today].messages \in Nat /\ usage[today].segments \in Nat
          /\ policy.limits.messages \in Nat /\ policy.limits.segments \in Nat
          /\ Segments[m] \in Nat
      BY <1>0, <1>6, BudgetTypes, DataAssumption
    <2>4. /\ ~(usage[today].messages >= policy.limits.messages)
          /\ Twilio => ~(usage[today].segments + Segments[m] > policy.limits.segments)
      BY <1>1, <1>15 DEF Exhausted, today
    <2>5. /\ usage'[today].messages = usage[today].messages + 1
          /\ usage'[today].segments = usage[today].segments + Segments[m]
      BY <1>1, <1>6, <1>15 DEF Debited, today
    <2> HIDE DEF ms, all
    <2>6. Within(all, policy.limits)
      BY <2>1, <2>2, <2>3, <2>4 DEF Within
    <2>7. Within(all, usage'[today])
      BY <2>1, <2>2, <2>3, <2>5 DEF Within
    <2> QED
      BY <2>2, <2>6, <2>7 DEF all
  <1>16. ASSUME BudgetTrusted', NEW d \in Days
         PROVE  /\ FiniteCharge(Charged(d)')
                /\ \E c \in Configs : Within(Charged(d)', c.limits)
    <2>1. PICK ms : /\ FiniteCharge(ms) /\ Charged(d)' \in SUBSET ms
                    /\ \E c \in Configs : Within(ms, c.limits)
      <3>1. CASE d = today /\ NeedsDebit(m)
        <4>1. PICK c \in Configs : policy.limits = c.limits
          BY DEF Budgeted, LimitsConfigured
        <4>2. FiniteCharge(Charged(today) \cup {m}) /\ Within(Charged(today) \cup {m}, c.limits)
          BY <1>13, <1>15, <1>16, <3>1, <4>1
        <4>3. Charged(d)' \in SUBSET (Charged(today) \cup {m})
          BY <1>10, <3>1
        <4> QED
          BY <4>2, <4>3
      <3>2. CASE ~(d = today /\ NeedsDebit(m))
        <4>1. FiniteCharge(Charged(d)) /\ \E c \in Configs : Within(Charged(d), c.limits)
          BY <1>13, <1>16 DEF Budgeted, ChargesBounded
        <4>2. Charged(d)' \in SUBSET Charged(d)
          BY <1>10, <3>2
        <4> QED
          BY <4>1, <4>2
      <3> QED
        BY <3>1, <3>2
    <2>2. FiniteCharge(Charged(d)')
      BY <2>1, FewerFit
    <2>3. PICK c \in Configs : Within(ms, c.limits)
      BY <2>1
    <2>4. c.limits.messages \in Nat /\ c.limits.segments \in Nat
      BY BudgetTypes
    <2>5. Within(Charged(d)', c.limits)
      BY <2>1, <2>3, <2>4, FewerWithin
    <2> QED
      BY <2>2, <2>5
  <1>17. ASSUME BudgetTrusted', NEW d \in Days, StillOpen(d)'
         PROVE  Within(Charged(d)', usage'[d])
    <2>1. d >= today /\ StillOpen(d)
      <3>1. d >= today /\ (counts.restores > 0 => d >= DayOf(clock))
        BY <1>1, <1>7, <1>17 DEF StillOpen, DayOf
      <3>2. d >= policy.dayHigh
        BY <1>5, <1>6, <3>1
      <3> QED
        BY <3>1, <3>2 DEF StillOpen
    <2>2. Within(Charged(d), usage[d]) /\ FiniteCharge(Charged(d))
      BY <1>5, <1>13, <1>17, <2>1 DEF Budgeted, ChargesShown, ChargesBounded
    <2>3. usage[d].messages \in Nat /\ usage[d].segments \in Nat
      BY BudgetTypes
    <2>4. usage'[d].messages \in Nat /\ usage'[d].segments \in Nat
      BY DEF TypeInvariant, Usage, Days
    <2>5. CASE d = today /\ NeedsDebit(m)
      <3>1. FiniteCharge(Charged(today) \cup {m}) /\ Within(Charged(today) \cup {m}, usage'[d])
        BY <1>13, <1>15, <1>17, <2>5
      <3>2. Charged(d)' \in SUBSET (Charged(today) \cup {m})
        BY <1>10, <2>5
      <3> QED
        BY <2>4, <3>1, <3>2, FewerWithin
    <2>6. CASE ~(d = today /\ NeedsDebit(m))
      <3>1. Charged(d)' \in SUBSET Charged(d)
        BY <1>10, <2>6
      <3>2. usage'[d] = usage[d]
        <4>1. CASE ~NeedsDebit(m)
          BY <1>1, <4>1
        <4>2. CASE NeedsDebit(m) /\ d # today
          <5>1. BudgetDays \in Nat \ {0}
            BY TimeAssumption
          <5>2. ~(d < today - (BudgetDays - 1))
            BY <1>6, <2>1, <5>1
          <5> QED
            BY <1>1, <4>2, <5>2 DEF Debited, today
        <4> QED
          BY <2>6, <4>1, <4>2
      <3>3. Within(Charged(d)', usage[d])
        BY <2>2, <2>3, <3>1, FewerWithin
      <3> QED
        BY <3>2, <3>3
    <2> QED
      BY <2>5, <2>6
  <1>18. ChargesBounded'
    BY <1>16 DEF ChargesBounded, FiniteCharge, Within, SegmentsOf, Days, Twilio
  <1>19. ChargesShown'
    BY <1>17 DEF ChargesShown, Within, SegmentsOf, Days, Twilio
  <1> QED
    BY <1>11, <1>12, <1>18, <1>19 DEF Budgeted

\* A reconciliation counts the whole of today as spent, and nothing is charged
\* to the days after it.
LEMMA BudgetReconcile ==
  ASSUME TypeInvariant, TypeInvariant', Budgeted, ReconcileOfficialPaidChannel
  PROVE  Budgeted'
  <1> DEFINE today == DayOf(Now)
  <1>0. /\ policy \in Policy /\ usage \in Usage
        /\ counts \in [restarts : Nat, ops : Nat, restores : Nat]
    BY DEF TypeInvariant
  <1>1. /\ UNCHANGED <<clock, back, intent, worker, backup, posted>> /\ policy.hold
        /\ usage' = [usage EXCEPT ![today] = SpentToday(@)]
    BY DEF ReconcileOfficialPaidChannel, ghost
  <1>2. policy'.limits = policy.limits /\ ~policy'.hold
    <2>1. policy' = [policy EXCEPT !.hold = FALSE, !.clockHigh = Later(@, Now),
                                   !.dayHigh = Later(@, today)]
      BY DEF ReconcileOfficialPaidChannel
    <2> QED
      BY <1>0, <2>1 DEF Policy
  <1>3. counts'.restores = counts.restores
    BY <1>0 DEF ReconcileOfficialPaidChannel, Command
  <1>4. counts.restores \in Nat /\ counts.restores # 0
    BY <1>1, BudgetTypes DEF Budgeted, HeldByRestore
  <1>5. \A d \in Days : Charged(d)' = Charged(d)
    BY <1>1 DEF Charged
  <1>6. DebitsComeFirst' /\ LimitsConfigured'
    BY <1>1, <1>2 DEF Budgeted, DebitsComeFirst, LimitsConfigured
  <1>7. DayOf(clock)' = DayOf(clock)
    BY <1>1 DEF DayOf
  <1>8. ChargedSoFar' /\ HeldByRestore'
    BY <1>2, <1>3, <1>5, <1>7 DEF Budgeted, ChargedSoFar, HeldByRestore, Days
  <1>9. BudgetTrusted' => BudgetTrusted /\ back = 0 /\ OneLimit
    BY <1>1, <1>3, <1>4 DEF BudgetTrusted, Paid, OneLimit
  <1>10. ChargesBounded'
    <2>1. BudgetTrusted' => \A d \in Days : /\ FiniteCharge(Charged(d)')
                                            /\ \E c \in Configs : Within(Charged(d)', c.limits)
      BY <1>5, <1>9 DEF Budgeted, ChargesBounded
    <2> QED
      BY <2>1 DEF ChargesBounded, FiniteCharge, Within, SegmentsOf, Days, Twilio
  <1>11. ASSUME BudgetTrusted', NEW d \in Days, StillOpen(d)'
         PROVE  Within(Charged(d), usage'[d])
    <2>1. today = DayOf(clock) /\ today \in Nat /\ d \in Nat /\ today \in Days
      BY <1>9, <1>11, BudgetTypes, TodayIsADay DEF Now
    <2>2. d >= today
      BY <1>3, <1>4, <1>7, <1>11, <2>1 DEF StillOpen
    <2>3. FiniteCharge(Charged(d)) /\ \E c \in Configs : Within(Charged(d), c.limits)
      BY <1>9, <1>11 DEF Budgeted, ChargesBounded
    <2>4. /\ Cardinality(Charged(d)) \in Nat /\ Cardinality(SegmentsOf(Charged(d))) \in Nat
          /\ usage[d].messages \in Nat /\ usage[d].segments \in Nat
          /\ policy.limits.messages \in Nat /\ policy.limits.segments \in Nat
      BY <2>3, FS_CardinalityType, BudgetTypes DEF FiniteCharge
    <2>5. CASE d = today
      <3>1. Within(Charged(d), policy.limits)
        <4>1. PICK c \in Configs : policy.limits = c.limits
          BY DEF Budgeted, LimitsConfigured
        <4>2. PICK e \in Configs : Within(Charged(d), e.limits)
          BY <2>3
        <4>3. e.limits = policy.limits
          BY <1>9, <1>11, <4>1, <4>2 DEF OneLimit
        <4> QED
          BY <4>2, <4>3
      <3>2. usage'[d] = SpentToday(usage[d])
        BY <1>0, <1>1, <2>1, <2>5 DEF Usage
      <3>3. /\ usage'[d].messages = Later(usage[d].messages, policy.limits.messages)
            /\ usage'[d].segments = Later(usage[d].segments, policy.limits.segments)
        BY <3>2 DEF SpentToday
      <3>4. /\ usage'[d].messages \in Nat /\ usage'[d].messages >= policy.limits.messages
            /\ usage'[d].segments \in Nat /\ usage'[d].segments >= policy.limits.segments
        BY <2>4, <3>3, LaterType
      <3> HIDE DEF today
      <3> QED
        BY <2>4, <3>1, <3>4 DEF Within
    <2>6. CASE d # today
      <3>1. d > DayOf(clock)
        BY <2>1, <2>2, <2>6
      <3>2. Charged(d) = {} /\ SegmentsOf({}) = {}
        BY <3>1 DEF Budgeted, ChargedSoFar, SegmentsOf
      <3>3. Cardinality({}) = 0
        BY FS_EmptySet
      <3>4. usage'[d].messages \in Nat /\ usage'[d].segments \in Nat
        BY DEF TypeInvariant, Usage, Days
      <3> QED
        BY <3>2, <3>3, <3>4 DEF Within
    <2> QED
      BY <2>5, <2>6
  <1>12. ChargesShown'
    <2>1. \A d \in Days : BudgetTrusted' /\ StillOpen(d)' => Within(Charged(d)', usage'[d])
      BY <1>5, <1>11
    <2> QED
      BY <2>1 DEF ChargesShown, Within, SegmentsOf, Days, Twilio
  <1> QED
    BY <1>6, <1>8, <1>10, <1>12 DEF Budgeted

\* A restored paid channel is held; what the backup holds was charged.
LEMMA BudgetRestore ==
  ASSUME TypeInvariant, TypeInvariant', Budgeted, NEW b \in backup, RestoreBackup(b)
  PROVE  Budgeted'
  <1>0. /\ b.intent \in [Msgs -> Intent] /\ b.policy \in Policy
        /\ counts \in [restarts : Nat, ops : Nat, restores : Nat]
    BY DEF TypeInvariant, Snapshot
  <1>1. /\ UNCHANGED <<clock, back, worker, backup, posted>>
        /\ policy' = [b.policy EXCEPT !.hold = @ \/ Paid]
        /\ counts' = [counts EXCEPT !.restores = @ + 1]
    BY DEF RestoreBackup, ghost
  <1>2. policy'.limits = b.policy.limits /\ (Paid => policy'.hold)
    BY <1>0, <1>1 DEF Policy
  <1>3. counts'.restores \in Nat /\ counts'.restores # 0
    BY <1>0, <1>1
  <1>4. ASSUME NEW m \in Msgs
        PROVE  intent'[m].budgetDay = b.intent[m].budgetDay /\ intent'[m].attempt = b.intent[m].attempt
    <2>1. b.intent[m] \in Intent
      BY <1>0
    <2>2. \/ intent'[m] = b.intent[m]
          \/ intent'[m] = [b.intent[m] EXCEPT !.providerState = IF b.intent[m].nextPoll > 0
                                                                THEN "unknown" ELSE @,
                                              !.nextPoll = 0, !.pollLease = 0]
      BY DEF RestoreBackup
    <2> QED
      BY <2>1, <2>2 DEF Intent
  <1>5. \A d \in Days : Charged(d)' \subseteq Charged(d)
    BY <1>1, <1>4 DEF Charged
  <1>6. DebitsComeFirst' /\ LimitsConfigured'
    BY <1>1, <1>2, <1>4 DEF Budgeted, DebitsComeFirst, DebitedFirst, LimitsConfigured
  <1>7. ChargedSoFar' /\ HeldByRestore'
    <2>1. DayOf(clock)' = DayOf(clock)
      BY <1>1 DEF DayOf
    <2>2. \A d \in Days : d > DayOf(clock) => Charged(d)' = {}
      BY <1>5 DEF Budgeted, ChargedSoFar
    <2> QED
      BY <1>3, <2>1, <2>2 DEF ChargedSoFar, HeldByRestore, Days
  <1>8. BudgetTrusted' => BudgetTrusted /\ Paid
    BY <1>1, <1>3 DEF BudgetTrusted, Paid, OneLimit
  <1>9. ASSUME BudgetTrusted', NEW d \in Days
        PROVE  /\ FiniteCharge(Charged(d)')
               /\ \E c \in Configs : Within(Charged(d)', c.limits)
    <2>1. FiniteCharge(Charged(d)) /\ \E c \in Configs : Within(Charged(d), c.limits)
      BY <1>8, <1>9 DEF Budgeted, ChargesBounded
    <2>2. Charged(d)' \in SUBSET Charged(d)
      BY <1>5
    <2>3. FiniteCharge(Charged(d)')
      BY <2>1, <2>2, FewerFit
    <2>4. PICK c \in Configs : Within(Charged(d), c.limits)
      BY <2>1
    <2>5. c.limits.messages \in Nat /\ c.limits.segments \in Nat
      BY BudgetTypes
    <2>6. Within(Charged(d)', c.limits)
      BY <2>1, <2>2, <2>4, <2>5, FewerWithin
    <2> QED
      BY <2>3, <2>6
  <1>10. ChargesBounded'
    BY <1>9 DEF ChargesBounded, FiniteCharge, Within, SegmentsOf, Days, Twilio
  <1>11. ChargesShown'
    BY <1>2, <1>8 DEF ChargesShown, Paid
  <1> QED
    BY <1>6, <1>7, <1>10, <1>11 DEF Budgeted

LEMMA BudgetInit == Init => Budgeted
  <1> SUFFICES ASSUME Init PROVE Budgeted
    OBVIOUS
  <1>0. TypeInvariant
    BY TypeInit
  <1>1. /\ \A m \in Msgs : intent[m].budgetDay = -1 /\ intent[m].attempt = 0
        /\ backup = {} /\ posted = {} /\ worker.pc = "idle"
    BY DEF Init, NoIntent, At
  <1>2. /\ policy.limits = FirstConfig.limits /\ FirstConfig \in Configs
        /\ ~policy.hold
    BY DataAssumption DEF Init
  <1>3. \A d \in Days : Charged(d) = {}
    <2>1. \A d \in Days : d # -1
      BY <1>0, TodayIsADay
    <2> QED
      BY <1>1, <2>1 DEF Charged
  <1>4. FiniteCharge({}) /\ Cardinality({}) = 0 /\ SegmentsOf({}) = {}
    <2>1. SegmentsOf({}) = {}
      BY DEF SegmentsOf
    <2> QED
      BY <2>1, FS_EmptySet DEF FiniteCharge
  <1>5. ASSUME NEW u, u.messages \in Nat, u.segments \in Nat
        PROVE  Within({}, u)
    BY <1>4, <1>5 DEF Within
  <1>6. ChargesBounded
    <2>1. Within({}, FirstConfig.limits)
      BY <1>0, <1>2, <1>5, BudgetTypes
    <2> QED
      BY <1>2, <1>3, <1>4, <2>1 DEF ChargesBounded
  <1>7. ChargesShown
    BY <1>0, <1>3, <1>5, BudgetTypes DEF ChargesShown
  <1>8. DebitsComeFirst /\ LimitsConfigured
    BY <1>1, <1>2 DEF DebitsComeFirst, DebitedFirst, LimitsConfigured
  <1> QED
    BY <1>2, <1>3, <1>6, <1>7, <1>8 DEF Budgeted, ChargedSoFar, HeldByRestore

LEMMA BudgetNext ==
  ASSUME TypeInvariant, TypeInvariant', Budgeted, [Next]_vars
  PROVE  Budgeted'
  <1>1. CASE ExpireNotifications \/ \E m \in Msgs, failure \in BOOLEAN : Enqueue(m, failure)
    BY <1>1, BudgetSweep
  <1>2. CASE WorkerStep \/ WorkerError
    BY <1>2, BudgetWorkerCalm, BudgetBegin, BudgetPost DEF WorkerStep
  <1>3. CASE OperatorStep
    BY <1>3, BudgetOutside, BudgetReconcile DEF OperatorStep
  <1>4. CASE ProcessStep
    BY <1>4, BudgetOutside, BudgetStart, BudgetBackup, BudgetRestore DEF ProcessStep
  <1>5. CASE ProviderStep \/ Tick \/ UNCHANGED vars \/ \E n \in 1 .. MaxBack : ClockBack(n)
    BY <1>5, BudgetOutside
  <1> QED
    BY <1>1, <1>2, <1>3, <1>4, <1>5 DEF Next

\* On no UTC day does a channel post more messages, or SMS segments, than a
\* configured daily limit, for any number of messages, configurations, crashes,
\* retries, clock changes and, on a paid channel, restores of older backups.
THEOREM LimitsAreKept == Spec => []DailyLimit
  <1>1. Budgeted => DailyLimit
    <2> SUFFICES ASSUME Budgeted, BudgetTrusted, NEW d \in Days
                 PROVE  \E c \in Configs : Within(PostedOn(d), c.limits)
      BY DEF DailyLimit
    <2>1. FiniteCharge(Charged(d)) /\ \E c \in Configs : Within(Charged(d), c.limits)
      BY DEF Budgeted, ChargesBounded
    <2>2. PICK c \in Configs : Within(Charged(d), c.limits)
      BY <2>1
    <2>3. PostedOn(d) \in SUBSET Charged(d)
      BY DEF PostedOn, Charged
    <2>4. c.limits.messages \in Nat /\ c.limits.segments \in Nat
      BY DataAssumption
    <2> QED
      BY <2>1, <2>2, <2>3, <2>4, FewerWithin
  <1>2. TypeInvariant /\ TypeInvariant' /\ Budgeted /\ [Next]_vars => Budgeted'
    BY BudgetNext
  <1> QED
    BY <1>1, <1>2, BudgetInit, TypeCorrect, PTL DEF Spec

=============================================================================
