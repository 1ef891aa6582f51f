-------------------------- MODULE EventQueueProofs --------------------------
(***************************************************************************)
(* What holds of the daemon's event queue for every number of events, every *)
(* capacity and every sequence of failed and doubtful writes, stops and    *)
(* crashes: no event disappears without a trace, and events are saved once *)
(* and in the order of their detection.                                    *)
(***************************************************************************)
EXTENDS EventQueue, SequenceTheorems, TLAPS

\* Only events that were detected are anywhere, and the losses are a record
\* for each kind.
Typed ==
    /\ detected \in Nat
    /\ queue \in Seq(Nat) /\ saved \in Seq(Nat)
    /\ \A i \in 1 .. Len(queue) : queue[i] <= detected
    /\ \A i \in 1 .. Len(saved) : saved[i] <= detected
    /\ loss \in [Kinds -> [active : BOOLEAN, events : SUBSET Nat]]

\* A marker stands for events that died, and a process that is down holds
\* none: the next one starts with nothing counted.
MarkersTrue ==
    /\ marked \subseteq gone
    /\ stage = "down" => queue = <<>> /\ Counting = {}

\* The queue is in the order of detection and behind all that was saved; only
\* its head may be saved already, by a write that was reported as failed.
QueueBehind ==
    /\ \A i, j \in 1 .. Len(queue) : i < j => queue[i] < queue[j]
    /\ \A i, j \in 1 .. Len(saved) : i < j => saved[i] < saved[j]
    /\ \A i \in 1 .. Len(saved), j \in 1 .. Len(queue) : saved[i] <= queue[j]

\* The inductive invariant.
Traced == Typed /\ MarkersTrue /\ QueueBehind /\ EventsAccounted

-----------------------------------------------------------------------------

LEMMA SetsOfSequences ==
  ASSUME Typed
  PROVE  /\ Pending = {queue[i] : i \in 1 .. Len(queue)}
         /\ Saved = {saved[i] : i \in 1 .. Len(saved)}
         /\ Len(queue) \in Nat /\ Len(saved) \in Nat
         /\ DOMAIN queue = 1 .. Len(queue) /\ DOMAIN saved = 1 .. Len(saved)
  BY DEF Typed, Pending, Saved

\* A write that is reported as done was applied.
LEMMA OutcomesTrue == \A o \in Outcomes : o[2] => o[1]
  <1>1. ~<<FALSE, FALSE>>[2] /\ <<TRUE, TRUE>>[1] /\ <<TRUE, FALSE>>[1]
    OBVIOUS
  <1> QED
    BY <1>1 DEF Outcomes

LEMMA InitTraced == Init => Traced
  <1> SUFFICES ASSUME Init PROVE Traced
    OBVIOUS
  <1>1. loss \in [Kinds -> [active : BOOLEAN, events : SUBSET Nat]] /\ Counting = {}
    BY DEF Init, NoLoss, Counting
  <1>2. Typed
    BY <1>1 DEF Init, Typed
  <1>3. MarkersTrue /\ QueueBehind
    BY <1>1 DEF Init, MarkersTrue, QueueBehind
  <1>4. EventsAccounted
    BY DEF Init, EventsAccounted
  <1> QED
    BY <1>2, <1>3, <1>4 DEF Traced

\* Steps that touch neither events nor counts.
LEMMA QuietTraced ==
  ASSUME Traced, UNCHANGED <<detected, queue, loss, saved, recorded, gone>>,
         stage' = "down" <=> stage = "down"
  PROVE  Traced'
  <1>1. /\ Pending' = Pending /\ Saved' = Saved /\ Counting' = Counting
    BY DEF Pending, Saved, Counting
  <1>2. UNCHANGED <<counted, marked>>
    BY DEF recorded
  <1>3. Typed'
    BY DEF Traced, Typed
  <1>4. MarkersTrue'
    BY <1>1, <1>2 DEF Traced, MarkersTrue
  <1>5. QueueBehind'
    BY DEF Traced, QueueBehind
  <1>6. EventsAccounted'
    BY <1>1, <1>2 DEF Traced, EventsAccounted
  <1> QED
    BY <1>3, <1>4, <1>5, <1>6 DEF Traced

\* A detected event is queued behind all others or counted.
LEMMA DetectTraced ==
  ASSUME Traced, Detect
  PROVE  Traced'
  <1>0. Typed /\ MarkersTrue /\ QueueBehind /\ EventsAccounted
    BY DEF Traced
  <1>1. PICK e \in Nat : e = detected + 1
    BY <1>0 DEF Typed
  <1>2. /\ detected' = e /\ UNCHANGED <<saved, counted, marked, gone>>
        /\ stage # "down" /\ stage' # "down"
        /\ QueueEvent(e)
    BY <1>1 DEF Detect, recorded
  <1>3. Saved' = Saved
    BY <1>2 DEF Saved
  <1>4. CASE loss' = loss /\ queue' = Append(queue, e)
    <2>1. /\ queue' \in Seq(Nat) /\ Len(queue') = Len(queue) + 1
          /\ \A i \in 1 .. Len(queue) : queue'[i] = queue[i]
          /\ queue'[Len(queue) + 1] = e
      BY <1>0, <1>4, AppendProperties DEF Typed
    <2>2. Len(queue) \in Nat /\ \A i \in 1 .. Len(queue') : i \in 1 .. Len(queue) \/ i = Len(queue) + 1
      BY <1>0, <2>1 DEF Typed
    <2>3. Typed'
      BY <1>0, <1>1, <1>2, <1>4, <2>1, <2>2 DEF Typed
    <2>4. Counting' = Counting
      BY <1>4 DEF Counting
    <2>5. MarkersTrue'
      BY <1>0, <1>2 DEF MarkersTrue
    <2>6. QueueBehind'
      <3>1. \A i \in 1 .. Len(queue) : queue[i] < e /\ queue[i] \in Nat
        BY <1>0, <1>1 DEF Typed
      <3>2. \A i \in 1 .. Len(saved) : saved[i] < e /\ saved[i] \in Nat
        BY <1>0, <1>1 DEF Typed
      <3>3. ASSUME NEW i \in 1 .. Len(queue'), NEW j \in 1 .. Len(queue'), i < j
            PROVE  queue'[i] < queue'[j]
        <4>1. i \in 1 .. Len(queue)
          BY <2>1, <2>2, <3>3
        <4> QED
          BY <1>0, <2>1, <2>2, <3>1, <3>3, <4>1 DEF QueueBehind
      <3>4. ASSUME NEW i \in 1 .. Len(saved), NEW j \in 1 .. Len(queue')
            PROVE  saved[i] <= queue'[j]
        <4>1. CASE j \in 1 .. Len(queue)
          BY <1>0, <2>1, <4>1 DEF QueueBehind
        <4>2. CASE j = Len(queue) + 1
          BY <1>1, <2>1, <3>2, <4>2
        <4> QED
          BY <2>2, <4>1, <4>2
      <3> QED
        BY <1>0, <1>2, <3>3, <3>4 DEF QueueBehind
    <2>7. Pending' = Pending \cup {e}
      <3>1. Pending' = {queue'[i] : i \in 1 .. Len(queue')} /\ Len(queue) + 1 \in 1 .. Len(queue')
        <4>1. Len(queue') \in Nat /\ DOMAIN queue' = 1 .. Len(queue')
          BY <2>1
        <4> QED
          BY <2>1, <2>2, <4>1 DEF Pending
      <3> QED
        BY <1>0, <2>1, <2>2, <3>1, SetsOfSequences
    <2>8. EventsAccounted'
      BY <1>0, <1>1, <1>2, <1>3, <1>4, <2>4, <2>7 DEF EventsAccounted, Typed
    <2> QED
      BY <2>3, <2>5, <2>6, <2>8 DEF Traced
  <1>5. ASSUME NEW k \in {"invalid", "capacity"}, loss' = Noted(k, e), queue' = queue
        PROVE  Traced'
    <2>1. k \in Kinds /\ k # "restart" /\ "restart" \in Kinds
      BY DEF Kinds
    <2>2. /\ loss' \in [Kinds -> [active : BOOLEAN, events : SUBSET Nat]]
          /\ loss'["restart"] = loss["restart"]
          /\ loss'[k].events = loss[k].events \cup {e}
          /\ \A x \in Kinds \ {k} : loss'[x] = loss[x]
      BY <1>0, <1>1, <1>5, <2>1 DEF Typed, Noted
    <2>3. Counting' = Counting \cup {e}
      BY <2>1, <2>2 DEF Counting
    <2>4. Typed'
      BY <1>0, <1>1, <1>2, <1>5, <2>2 DEF Typed
    <2>5. MarkersTrue' /\ QueueBehind'
      BY <1>0, <1>2, <1>5 DEF MarkersTrue, QueueBehind
    <2>6. Pending' = Pending
      BY <1>5 DEF Pending
    <2>7. EventsAccounted'
      BY <1>0, <1>1, <1>2, <1>3, <2>2, <2>3, <2>6 DEF EventsAccounted, Typed
    <2> QED
      BY <2>4, <2>5, <2>7 DEF Traced
  <1> QED
    BY <1>2, <1>4, <1>5 DEF QueueEvent

\* A write keeps the event at the head until it is reported as done, and a
\* repeated one adds nothing.
LEMMA InsertTraced ==
  ASSUME Traced, Insert
  PROVE  Traced'
  <1>0. Typed /\ MarkersTrue /\ QueueBehind /\ EventsAccounted
    BY DEF Traced
  <1>1. /\ queue # <<>> /\ UNCHANGED <<stage, detected, loss, counted, marked, gone>>
        /\ stage # "down"
    BY DEF Insert, WritesDone, recorded
  <1>2. PICK h \in Nat : h = Head(queue) /\ h = queue[1] /\ 1 \in 1 .. Len(queue)
    BY <1>0, <1>1 DEF Typed
  <1>3. PICK o \in Outcomes :
           /\ saved' = IF o[1] /\ \A i \in DOMAIN saved : saved[i] # h THEN Append(saved, h) ELSE saved
           /\ queue' = IF o[2] THEN Tail(queue) ELSE queue
    <2>1. PICK o \in Outcomes :
             /\ saved' = IF o[1] /\ \A i \in DOMAIN saved : saved[i] # Head(queue)
                         THEN Append(saved, Head(queue)) ELSE saved
             /\ IF o[2] THEN queue' = Tail(queue) ELSE queue' = queue
      BY DEF Insert, WriteNext
    <2>2. queue' = IF o[2] THEN Tail(queue) ELSE queue
      BY <2>1
    <2> QED
      BY <1>2, <2>1, <2>2
  <1>4. o[2] => o[1]
    BY OutcomesTrue
  <1>5. \/ saved' = saved /\ (o[1] => h \in Saved)
        \/ saved' = Append(saved, h) /\ h \notin Saved
    BY <1>0, <1>3, SetsOfSequences
  <1>6. /\ saved' \in Seq(Nat) /\ Saved \subseteq Saved' /\ (o[1] => h \in Saved')
        /\ \A i \in 1 .. Len(saved') : \/ i \in 1 .. Len(saved) /\ saved'[i] = saved[i]
                                       \/ i = Len(saved) + 1 /\ saved'[i] = h /\ h \notin Saved
    <2>1. CASE saved' = saved /\ (o[1] => h \in Saved)
      BY <1>0, <2>1 DEF Typed, Saved
    <2>2. CASE saved' = Append(saved, h) /\ h \notin Saved
      <3>1. /\ saved' \in Seq(Nat) /\ Len(saved') = Len(saved) + 1
            /\ \A i \in 1 .. Len(saved) : saved'[i] = saved[i]
            /\ saved'[Len(saved) + 1] = h /\ Len(saved) \in Nat
        BY <1>0, <2>2, AppendProperties DEF Typed
      <3>2. DOMAIN saved' = 1 .. Len(saved) + 1
        BY <3>1
      <3>3. Saved \subseteq Saved' /\ h \in Saved'
        BY <1>0, <3>1, <3>2, SetsOfSequences DEF Saved
      <3> QED
        BY <2>2, <3>1, <3>3
    <2> QED
      BY <1>5, <2>1, <2>2
  <1>7. /\ queue' \in Seq(Nat) /\ Pending \subseteq Pending' \cup Saved'
        /\ \E d \in {0, 1} : /\ Len(queue') = Len(queue) - d
                             /\ \A i \in 1 .. Len(queue') : queue'[i] = queue[i + d]
    <2>1. CASE queue' = queue
      <3>1. Len(queue') = Len(queue) - 0 /\ \A i \in 1 .. Len(queue') : queue'[i] = queue[i + 0]
        BY <1>0, <2>1 DEF Typed
      <3> QED
        BY <1>0, <2>1, <3>1 DEF Typed, Pending
    <2>2. CASE queue' = Tail(queue) /\ o[1]
      <3>1. /\ queue' \in Seq(Nat) /\ Len(queue') = Len(queue) - 1
            /\ \A i \in 1 .. Len(queue') : queue'[i] = queue[i + 1]
        BY <1>0, <1>1, <2>2, HeadTailProperties DEF Typed
      <3>2. ASSUME NEW x \in Pending PROVE x \in Pending' \cup Saved'
        <4>1. PICK i \in 1 .. Len(queue) : x = queue[i]
          BY <1>0, SetsOfSequences
        <4>2. CASE i = 1
          BY <1>2, <1>6, <2>2, <4>1, <4>2
        <4>3. CASE i # 1
          <5>1. i - 1 \in DOMAIN queue' /\ queue'[i - 1] = x
            <6>1. Len(queue) \in Nat /\ DOMAIN queue' = 1 .. Len(queue')
              BY <1>0, <3>1 DEF Typed
            <6>2. i - 1 \in 1 .. Len(queue') /\ (i - 1) + 1 = i
              BY <3>1, <4>1, <4>3, <6>1
            <6> QED
              BY <3>1, <4>1, <6>1, <6>2
          <5> QED
            BY <5>1 DEF Pending
        <4> QED
          BY <4>2, <4>3
      <3> QED
        BY <3>1, <3>2
    <2> QED
      BY <1>3, <1>4, <2>1, <2>2
  <1>8. PICK d \in {0, 1} : /\ Len(queue') = Len(queue) - d
                            /\ \A i \in 1 .. Len(queue') : queue'[i] = queue[i + d]
    BY <1>7
  <1>9. /\ Len(queue) \in Nat /\ \A i \in 1 .. Len(queue') : i + d \in 1 .. Len(queue)
        /\ \A i \in 1 .. Len(queue) : queue[i] \in Nat
        /\ \A i \in 1 .. Len(saved) : saved[i] \in Nat
    BY <1>0, <1>8 DEF Typed
  <1>10. Typed'
    BY <1>0, <1>1, <1>2, <1>6, <1>7, <1>8, <1>9 DEF Typed
  <1>11. \A i \in 1 .. Len(saved) : h \notin Saved => saved[i] < h
    <2>1. \A i \in 1 .. Len(saved) : saved[i] <= h
      BY <1>0, <1>2 DEF QueueBehind
    <2> QED
      BY <1>0, <1>9, <2>1, SetsOfSequences
  <1>12. \A j \in 1 .. Len(queue) : h <= queue[j]
    <2> SUFFICES ASSUME NEW j \in 1 .. Len(queue) PROVE h <= queue[j]
      OBVIOUS
    <2>1. CASE j = 1
      BY <1>2, <2>1
    <2>2. CASE j # 1
      <3>1. 1 < j
        BY <1>9, <2>2
      <3>2. h < queue[j]
        BY <1>0, <1>2, <3>1 DEF QueueBehind
      <3> QED
        BY <1>9, <3>2
    <2> QED
      BY <2>1, <2>2
  <1>13. QueueBehind'
    <2>1. ASSUME NEW i \in 1 .. Len(queue'), NEW j \in 1 .. Len(queue'), i < j
          PROVE  queue'[i] < queue'[j]
      <3>1. i + d \in 1 .. Len(queue) /\ j + d \in 1 .. Len(queue) /\ i + d < j + d
        BY <1>9, <2>1
      <3>2. queue[i + d] < queue[j + d]
        BY <1>0, <3>1 DEF QueueBehind
      <3> QED
        BY <1>8, <3>2
    <2>2. ASSUME NEW i \in 1 .. Len(saved'), NEW j \in 1 .. Len(saved'), i < j
          PROVE  saved'[i] < saved'[j]
      <3>1. Len(saved) \in Nat
        BY <1>0 DEF Typed
      <3>2. i \in 1 .. Len(saved)
        BY <1>6, <2>2, <3>1
      <3> QED
        BY <1>0, <1>6, <1>11, <2>2, <3>1, <3>2 DEF QueueBehind
    <2>3. ASSUME NEW i \in 1 .. Len(saved'), NEW j \in 1 .. Len(queue')
          PROVE  saved'[i] <= queue'[j]
      BY <1>0, <1>6, <1>8, <1>9, <1>12 DEF QueueBehind
    <2> QED
      BY <2>1, <2>2, <2>3 DEF QueueBehind
  <1>14. MarkersTrue'
    BY <1>0, <1>1 DEF MarkersTrue
  <1>15. EventsAccounted'
    <2>1. Counting' = Counting
      BY <1>1 DEF Counting
    <2> QED
      BY <1>0, <1>1, <1>6, <1>7, <2>1 DEF EventsAccounted
  <1> QED
    BY <1>10, <1>13, <1>14, <1>15 DEF Traced

\* A count is cleared only when it is recorded, and the marker of a restart
\* covers all that died before.
LEMMA RecordTraced ==
  ASSUME Traced, NEW k \in Kinds, RecordLoss(k)
  PROVE  Traced'
  <1>0. Typed /\ MarkersTrue /\ QueueBehind /\ EventsAccounted
    BY DEF Traced
  <1>1. UNCHANGED <<stage, detected, queue, saved, gone>> /\ stage # "down"
    BY DEF RecordLoss
  <1>2. PICK o \in Outcomes :
           /\ counted' = IF o[1] THEN counted \cup loss[k].events ELSE counted
           /\ marked' = IF o[1] /\ k = "restart" THEN gone ELSE marked
           /\ loss' = Recorded(k, o[2])
    BY DEF RecordLoss
  <1>3. o[2] => o[1]
    BY OutcomesTrue
  <1>4. /\ \/ loss' = loss
           \/ /\ o[1] /\ loss' = [loss EXCEPT ![k] = NoLoss[k]]
        /\ counted \subseteq counted' /\ marked \subseteq marked' /\ marked' \subseteq gone
    BY <1>0, <1>2, <1>3 DEF Recorded, MarkersTrue
  <1>5. /\ loss' \in [Kinds -> [active : BOOLEAN, events : SUBSET Nat]]
        /\ \A x \in Kinds : loss'[x] = loss[x] \/ (x = k /\ o[1])
    <2>1. NoLoss[k] \in [active : BOOLEAN, events : SUBSET Nat]
      BY DEF NoLoss
    <2> QED
      BY <1>0, <1>4, <2>1 DEF Typed
  <1>6. Counting \subseteq Counting' \cup counted'
    BY <1>2, <1>5 DEF Counting
  <1>7. loss["restart"].active => loss'["restart"].active \/ gone \subseteq marked'
    BY <1>2, <1>5 DEF Kinds
  <1>8. Pending' = Pending /\ Saved' = Saved
    BY <1>1 DEF Pending, Saved
  <1>9. Typed' /\ QueueBehind'
    BY <1>0, <1>1, <1>5 DEF Typed, QueueBehind
  <1>10. MarkersTrue'
    BY <1>0, <1>1, <1>4 DEF MarkersTrue
  <1>11. EventsAccounted'
    BY <1>0, <1>1, <1>4, <1>6, <1>7, <1>8 DEF EventsAccounted
  <1> QED
    BY <1>9, <1>10, <1>11 DEF Traced

\* What dies with the process is gone, until a later start is marked.
LEMMA DiesTraced ==
  ASSUME Traced, Dies, counted \subseteq counted'
  PROVE  Traced'
  <1>0. Typed /\ MarkersTrue /\ QueueBehind /\ EventsAccounted
    BY DEF Traced
  <1>1. /\ stage' = "down" /\ queue' = <<>> /\ loss' = NoLoss
        /\ gone' = gone \cup Pending \cup Counting
        /\ UNCHANGED <<detected, saved, marked>>
    BY DEF Dies
  <1>2. /\ loss' \in [Kinds -> [active : BOOLEAN, events : SUBSET Nat]] /\ Counting' = {}
        /\ Saved' = Saved
    BY <1>1 DEF NoLoss, Counting, Saved
  <1>3. Typed'
    BY <1>0, <1>1, <1>2 DEF Typed
  <1>4. MarkersTrue' /\ QueueBehind'
    BY <1>0, <1>1, <1>2 DEF MarkersTrue, QueueBehind
  <1>5. EventsAccounted'
    BY <1>0, <1>1, <1>2 DEF EventsAccounted
  <1> QED
    BY <1>3, <1>4, <1>5 DEF Traced

LEMMA StartTraced ==
  ASSUME Traced, Start
  PROVE  Traced'
  <1>0. Typed /\ MarkersTrue /\ QueueBehind /\ EventsAccounted
    BY DEF Traced
  <1>1. /\ stage = "down" /\ stage' = "idle" /\ loss' = StartLoss
        /\ UNCHANGED <<detected, queue, saved, counted, marked, gone>>
    BY DEF Start, recorded
  <1>2. /\ loss' \in [Kinds -> [active : BOOLEAN, events : SUBSET Nat]]
        /\ loss'["restart"].active /\ \A k \in Kinds : loss'[k].events = {}
    BY <1>1 DEF StartLoss, NoLoss, Kinds
  <1>3. Counting' = {} /\ Counting = {} /\ Pending' = Pending /\ Saved' = Saved
    BY <1>0, <1>1, <1>2 DEF Counting, Pending, Saved, MarkersTrue
  <1>4. Typed' /\ QueueBehind'
    BY <1>0, <1>1, <1>2 DEF Typed, QueueBehind
  <1>5. MarkersTrue'
    BY <1>0, <1>1 DEF MarkersTrue
  <1>6. EventsAccounted'
    BY <1>0, <1>1, <1>2, <1>3 DEF EventsAccounted
  <1> QED
    BY <1>4, <1>5, <1>6 DEF Traced

LEMMA StepTraced ==
  ASSUME Traced, [Next]_vars
  PROVE  Traced'
  <1>1. CASE BeginFlush \/ EndFlush \/ Stop \/ StopRound \/ UNCHANGED vars
    <2>1. UNCHANGED <<detected, queue, loss, saved, recorded, gone>>
      <3>1. CASE BeginFlush
        BY <3>1 DEF BeginFlush
      <3>2. CASE EndFlush
        BY <3>2 DEF EndFlush
      <3>3. CASE Stop
        BY <3>3 DEF Stop
      <3>4. CASE StopRound
        BY <3>4 DEF StopRound
      <3>5. CASE UNCHANGED vars
        BY <3>5 DEF vars, recorded
      <3> QED
        BY <1>1, <3>1, <3>2, <3>3, <3>4, <3>5
    <2>2. stage' = "down" <=> stage = "down"
      <3>1. CASE BeginFlush \/ EndFlush \/ Stop
        BY <3>1 DEF BeginFlush, EndFlush, Stop
      <3>2. CASE StopRound
        BY <3>2 DEF StopRound
      <3>3. CASE UNCHANGED vars
        BY <3>3 DEF vars
      <3> QED
        BY <1>1, <3>1, <3>2, <3>3
    <2> QED
      BY <2>1, <2>2, QuietTraced
  <1>2. CASE MarkShutdown \/ Crash
    BY <1>2, DiesTraced DEF MarkShutdown, Crash
  <1> QED
    BY <1>1, <1>2, DetectTraced, InsertTraced, RecordTraced, StartTraced DEF Next

LEMMA TracedInvariant == Spec => []Traced
  BY InitTraced, StepTraced, PTL DEF Spec

-----------------------------------------------------------------------------

\* Every detected event is saved, pending, counted as lost, or covered by the
\* marker a later start records, whatever writes fail, are applied though
\* reported as failed, and whenever the process ends (queueEvent, flushEvents,
\* finishEvents, noteEventLoss).
THEOREM NoEventVanishes == Spec => []EventsAccounted
  <1>1. Traced => EventsAccounted
    BY DEF Traced
  <1> QED
    BY <1>1, TracedInvariant, PTL

\* No event is saved twice and none out of the order of detection, although a
\* write that was applied and reported as failed is repeated (flushEvents,
\* InsertEventNotification).
THEOREM EventsAreSavedInOrder == Spec => []SavedInOrder
  <1>1. Traced => SavedInOrder
    BY SetsOfSequences DEF Traced, QueueBehind, SavedInOrder
  <1> QED
    BY <1>1, TracedInvariant, PTL
=============================================================================
