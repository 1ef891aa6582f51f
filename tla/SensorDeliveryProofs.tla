------------------------ MODULE SensorDeliveryProofs ------------------------
(***************************************************************************)
(* Proofs about SensorDelivery: exact accounting of health and gaps, the   *)
(* meaning of an acknowledgement, and the order of recorded windows, for   *)
(* every number of interfaces, sessions, faults and watermarks.            *)
(***************************************************************************)
EXTENDS SensorDelivery, FiniteSetTheorems, SequenceTheorems, WellFoundedInduction, TLAPS

-----------------------------------------------------------------------------
(* The inductive invariant *)

\* What keeps the types: the batch at work is a new one, and there is always
\* another row id.
NewBatch == daemon.pc = "observed" => daemon.frame.sequence > marks[daemon.frame.session].sequence
RowsBounded == \E b \in Nat : \A s \in Sessions : marks[s].row <= b
Typed == TypeInvariant /\ NewBatch /\ RowsBounded

\* Cumulative counters h continue g with at most n batches lost in between.
Grown(h, g, n) == Continues(h, g) /\ h.lost - g.lost <= n

\* The frames that may still be recorded, in the order they were sent.
Flying == {wire[k] : k \in DOMAIN wire} \cup (IF daemon.pc = "observed" THEN {daemon.frame} ELSE {})

\* Frame f was sent before g, or g is a copy of it.
Follows(f, g) ==
    /\ f.session = g.session =>
        /\ f.iface = g.iface
        /\ \/ f.sequence = g.sequence /\ f.health = g.health
           \/ f.sequence < g.sequence /\ Grown(g.health, f.health, g.sequence - f.sequence - 1)
    /\ f.iface = g.iface => f.session <= g.session
FramesInOrder ==
    /\ \A j, k \in DOMAIN wire : j < k => Follows(wire[j], wire[k])
    /\ daemon.pc = "observed" => \A k \in DOMAIN wire : Follows(daemon.frame, wire[k])

\* The batches the daemon has worked on.
Heard == daemon.observed \cup daemon.pending \cup stored

\* Sessions are numbered as they are opened; what is known of a session is of
\* one that was opened.
SessionsKnown ==
    /\ \A f \in Flying : f.session <= counts.sessions
    /\ \A s \in Sessions : Marked(s) => s <= counts.sessions
    /\ \A id \in Heard : id[1] <= counts.sessions
    /\ \A i \in Ifaces : /\ delivery[i].session <= counts.sessions
                         /\ daemon.prepared[i].session <= counts.sessions

\* A watermark never counts more losses than batches; without a row there is
\* nothing to go on from.
MarksSound ==
    \A s \in Sessions : /\ marks[s].health.lost <= marks[s].sequence
                        /\ ~Marked(s) => marks[s].health = NoHealth

\* The sensor's counters are ahead of every frame and every watermark.
SenderAhead(i) ==
    LET d == delivery[i] IN
    d.session # 0 =>
        /\ \A j \in Ifaces : delivery[j].session = d.session => j = i
        /\ d.health.seen <= truth[d.session].seen /\ d.health.lost <= truth[d.session].lost
        /\ d.health.lost <= d.sent
        /\ \A f \in Flying :
            /\ f.session = d.session =>
                f.iface = i /\ f.sequence <= d.sent /\ Grown(d.health, f.health, d.sent - f.sequence)
            /\ f.iface = i => f.session <= d.session
        /\ LET w == marks[d.session] IN
            w.sequence <= d.sent /\ Grown(d.health, w.health, d.sent - w.sequence)
        /\ Marked(d.session) => marks[d.session].iface = i
        /\ \A s \in Sessions : Marked(s) /\ marks[s].iface = i => s <= d.session
        /\ \A id \in Heard : id[1] = d.session => id[2] <= d.sent
        /\ daemon.prepared[i].session <= d.session

\* Every frame is ahead of the watermark of its session.
FrameAhead(f) ==
    LET w == marks[f.session] IN
    /\ f.health.seen <= truth[f.session].seen /\ f.health.lost <= truth[f.session].lost
    /\ f.health.lost < f.sequence
    /\ f.sequence > w.sequence => Grown(f.health, w.health, f.sequence - w.sequence - 1)
    /\ Marked(f.session) => w.iface = f.iface
    /\ \A s \in Sessions : Marked(s) /\ marks[s].iface = f.iface => s <= f.session
Delivered ==
    /\ FramesInOrder /\ SessionsKnown /\ MarksSound
    /\ \A i \in Ifaces : SenderAhead(i)
    /\ \A f \in Flying : FrameAhead(f)

\* The books of a session whose watermark is kept.
Balanced(s) ==
    /\ \A c \in Committed(s) : c.sequence <= marks[s].sequence
    /\ recorded[s].seen = marks[s].health.seen /\ recorded[s].lost = marks[s].health.lost
    /\ marks[s].sequence = Cardinality(Committed(s)) + marks[s].gaps
    /\ marks[s].health.lost <= marks[s].gaps
Books ==
    /\ IsFiniteSet(committed)
    /\ \A s \in Sessions : /\ marks[s].health.seen <= truth[s].seen
                           /\ marks[s].health.lost <= truth[s].lost
    /\ \A s \in Sessions \ gone : Balanced(s)

\* The end of an interface's last recorded window is still in the table, or it
\* was retired and nothing of that interface passes for a known session.
LatestKept(i) == \E s \in Sessions : Marked(s) /\ marks[s].iface = i /\ marks[s].sentAt >= ended[i]
LatestRetired(i) ==
    /\ ended[i] <= retiredBefore
    /\ \A f \in Flying : f.iface = i => ~Marked(f.session)
    /\ delivery[i].session # 0 => ~Marked(delivery[i].session)
Windows ==
    /\ \A f \in Flying : f.sentAt <= clock
    /\ \A s \in Sessions : marks[s].sentAt <= clock
    /\ \A s, t \in Sessions :
        Marked(s) /\ Marked(t) /\ marks[s].iface = marks[t].iface /\ s < t
            => marks[s].sentAt < marks[t].sentAt
    /\ \A i \in Ifaces : LatestKept(i) \/ LatestRetired(i) \/ ended[i] = 0

\* A batch was committed complete, and none of its events waits in memory.
CompleteFor(s, n) ==
    /\ [session |-> s, sequence |-> n, complete |-> TRUE] \in committed
    /\ s \notin gone => <<s, n>> \notin daemon.pending
AckTrue(a) ==
    /\ a.durable => \E c \in Committed(a.session) : c.sequence = a.committed
    /\ a.complete => CompleteFor(a.session, a.sequence)
MarkTrue(s) ==
    Marked(s) => /\ \E c \in Committed(s) : c.sequence = marks[s].sequence
                 /\ marks[s].complete => CompleteFor(s, marks[s].sequence)
SensorTold(i) ==
    /\ delivery[i].committed > 0 =>
        \E c \in Committed(delivery[i].session) : c.sequence = delivery[i].committed
    /\ delivery[i].complete => CompleteFor(delivery[i].session, delivery[i].sent)
Told ==
    /\ \A k \in DOMAIN acks : AckTrue(acks[k])
    /\ \A s \in Sessions : MarkTrue(s)
    /\ \A i \in Ifaces : SensorTold(i)

\* What the detector was shown: a frame that it was shown before and that
\* arrives again is a duplicate or the batch in preparation.
IdOf(f) == <<f.session, f.sequence>>
ShownBefore(f) ==
    /\ IdOf(f) \in stored => IdOf(f) \in daemon.observed
    /\ f.session \notin gone /\ IdOf(f) \in daemon.observed =>
        f.sequence <= marks[f.session].sequence \/ IsPrepared(f)
PreparedFor(i) ==
    LET p == daemon.prepared[i] IN
    /\ p.session # 0 => <<p.session, p.sequence>> \in daemon.observed
    /\ p.session \notin gone /\ <<p.session, p.sequence>> \in daemon.pending =>
        <<p.session, p.sequence>> \in p.events
    /\ \A f \in Flying : f.iface = i =>
        p.session <= f.session /\ (p.session = f.session => p.sequence <= f.sequence)
Shown ==
    /\ \A k \in DOMAIN wire : ShownBefore(wire[k])
    /\ \A i \in Ifaces : PreparedFor(i)
    /\ daemon.pc = "observed" => IsPrepared(daemon.frame)
    /\ daemon.pending \subseteq daemon.observed
    /\ \A id \in daemon.pending : id[1] \notin gone => id \notin stored
    /\ ObservedOnce

-----------------------------------------------------------------------------
(* Facts about the model's data *)

\* The wall clock is positive.
LEMMA NowIsTime == TypeInvariant => Now \in Nat /\ Now <= clock
  BY BoundAssumption DEF TypeInvariant, Now

\* What is written on empty rows, and in memory after a start.
LEMMA EmptyTypes ==
  /\ NoHealth \in Health /\ NoMark \in Mark /\ NoMark.row = 0 /\ NoMark.sequence = 0
  /\ NoState \in Delivery
  /\ NoPrepared \in Prepared /\ NoPrepared.session = 0 /\ Rested \in Daemon /\ Rested.pc = "idle"
  <1>1. NoHealth \in Health
    BY BoundAssumption DEF NoHealth, Health
  <1>2. NoMark \in Mark /\ NoMark.row = 0 /\ NoMark.sequence = 0
    BY <1>1 DEF NoMark, Mark
  <1>3. NoPrepared \in Prepared /\ NoPrepared.session = 0
    BY DEF NoPrepared, Prepared
  <1>4. Rested \in Daemon /\ Rested.pc = "idle"
    BY <1>3 DEF Rested, Daemon, Frames
  <1> QED
    BY <1>1, <1>2, <1>3, <1>4 DEF NoState, Delivery

\* A counter only grows, by what is added to it or up to its limit.
LEMMA AddLost ==
  ASSUME NEW h \in Health, NEW n \in Nat
  PROVE  /\ Add(h, "lost", n) \in Health /\ Continues(Add(h, "lost", n), h)
         /\ Add(h, "lost", n).lost <= h.lost + n /\ Add(h, "lost", n).seen = h.seen
  <1> DEFINE a == Add(h, "lost", n)
  <1>0. /\ MaxHealth \in Nat /\ h.lost \in 0 .. MaxHealth /\ h.seen \in 0 .. MaxHealth
        /\ h.saturated \in BOOLEAN
    BY BoundAssumption DEF Health
  <1>1. \/ a = [h EXCEPT !.lost = MaxHealth, !.saturated = TRUE] /\ n > MaxHealth - h.lost
        \/ a = [h EXCEPT !.lost = h.lost + n] /\ n <= MaxHealth - h.lost
    <2>1. CASE n > MaxHealth - h.lost
      BY <2>1 DEF Add
    <2>2. CASE ~(n > MaxHealth - h.lost)
      <3>1. ~(h["lost"] > MaxHealth \/ n > MaxHealth - h["lost"]) /\ n <= MaxHealth - h.lost
        BY <1>0, <2>2
      <3> QED
        BY <3>1 DEF Add
    <2> QED
      BY <2>1, <2>2
  <1>2. CASE a = [h EXCEPT !.lost = MaxHealth, !.saturated = TRUE] /\ n > MaxHealth - h.lost
    <2>1. a \in Health
      <3> DEFINE b == [h EXCEPT !.lost = MaxHealth]
      <3>1. b \in Health
        BY <1>0 DEF Health
      <3>2. [b EXCEPT !.saturated = TRUE] \in Health
        BY <3>1 DEF Health
      <3>3. [h EXCEPT !.lost = MaxHealth, !.saturated = TRUE] = [b EXCEPT !.saturated = TRUE]
        OBVIOUS
      <3> QED
        BY <1>2, <3>2, <3>3
    <2>2. a.lost = MaxHealth /\ a.seen = h.seen /\ a.saturated
      BY <1>2 DEF Health
    <2> QED
      BY <1>0, <1>2, <2>1, <2>2 DEF Continues
  <1>3. CASE a = [h EXCEPT !.lost = h.lost + n] /\ n <= MaxHealth - h.lost
    <2>1. a \in Health /\ a.lost = h.lost + n /\ a.seen = h.seen /\ a.saturated = h.saturated
      BY <1>0, <1>3 DEF Health
    <2> QED
      BY <1>0, <1>3, <2>1 DEF Continues
  <1> QED
    BY <1>1, <1>2, <1>3

LEMMA AddSeen ==
  ASSUME NEW h \in Health, NEW n \in Nat
  PROVE  /\ Add(h, "seen", n) \in Health /\ Continues(Add(h, "seen", n), h)
         /\ Add(h, "seen", n).seen <= h.seen + n /\ Add(h, "seen", n).lost = h.lost
  <1> DEFINE a == Add(h, "seen", n)
  <1>0. /\ MaxHealth \in Nat /\ h.lost \in 0 .. MaxHealth /\ h.seen \in 0 .. MaxHealth
        /\ h.saturated \in BOOLEAN
    BY BoundAssumption DEF Health
  <1>1. \/ a = [h EXCEPT !.seen = MaxHealth, !.saturated = TRUE] /\ n > MaxHealth - h.seen
        \/ a = [h EXCEPT !.seen = h.seen + n] /\ n <= MaxHealth - h.seen
    <2>1. CASE n > MaxHealth - h.seen
      BY <2>1 DEF Add
    <2>2. CASE ~(n > MaxHealth - h.seen)
      <3>1. ~(h["seen"] > MaxHealth \/ n > MaxHealth - h["seen"]) /\ n <= MaxHealth - h.seen
        BY <1>0, <2>2
      <3> QED
        BY <3>1 DEF Add
    <2> QED
      BY <2>1, <2>2
  <1>2. CASE a = [h EXCEPT !.seen = MaxHealth, !.saturated = TRUE] /\ n > MaxHealth - h.seen
    <2>1. a \in Health
      <3> DEFINE b == [h EXCEPT !.seen = MaxHealth]
      <3>1. b \in Health
        BY <1>0 DEF Health
      <3>2. [b EXCEPT !.saturated = TRUE] \in Health
        BY <3>1 DEF Health
      <3>3. [h EXCEPT !.seen = MaxHealth, !.saturated = TRUE] = [b EXCEPT !.saturated = TRUE]
        OBVIOUS
      <3> QED
        BY <1>2, <3>2, <3>3
    <2>2. a.seen = MaxHealth /\ a.lost = h.lost /\ a.saturated
      BY <1>2 DEF Health
    <2> QED
      BY <1>0, <1>2, <2>1, <2>2 DEF Continues
  <1>3. CASE a = [h EXCEPT !.seen = h.seen + n] /\ n <= MaxHealth - h.seen
    <2>1. a \in Health /\ a.seen = h.seen + n /\ a.lost = h.lost /\ a.saturated = h.saturated
      BY <1>0, <1>3 DEF Health
    <2> QED
      BY <1>0, <1>3, <2>1 DEF Continues
  <1> QED
    BY <1>1, <1>2, <1>3

\* The daemon's memory, field by field.
LEMMA DaemonTypes ==
  ASSUME TypeInvariant
  PROVE  /\ daemon \in Daemon /\ daemon.pc \in {"idle", "observed"} /\ daemon.frame \in Frames
         /\ daemon.conn \in Nat /\ daemon.last \in [Ifaces -> Frames]
         /\ daemon.prepared \in [Ifaces -> Prepared] /\ daemon.pending \in SUBSET Id
         /\ daemon.observed \in SUBSET Id /\ daemon.again \in SUBSET Id
  BY DEF TypeInvariant, Daemon

\* The oldest frame, and the wire without it.
LEMMA WireHead ==
  ASSUME TypeInvariant, wire # <<>>
  PROVE  /\ Len(wire) \in Nat \ {0} /\ DOMAIN wire = 1 .. Len(wire) /\ 1 \in DOMAIN wire
         /\ Head(wire) = wire[1] /\ Head(wire) \in Batch
         /\ Tail(wire) \in Seq(Batch) /\ Len(Tail(wire)) = Len(wire) - 1
         /\ DOMAIN Tail(wire) = 1 .. Len(wire) - 1
         /\ \A k \in DOMAIN Tail(wire) : k + 1 \in DOMAIN wire /\ Tail(wire)[k] = wire[k + 1]
  <1>1. wire \in Seq(Batch)
    BY DEF TypeInvariant
  <1>2. Len(wire) \in Nat \ {0} /\ DOMAIN wire = 1 .. Len(wire) /\ wire \in [1 .. Len(wire) -> Batch]
    BY <1>1, EmptySeq, LenProperties
  <1>3. Head(wire) = wire[1] /\ Head(wire) \in Batch
    BY <1>1, <1>2, HeadTailProperties
  <1>4. /\ Tail(wire) \in Seq(Batch) /\ Len(Tail(wire)) = Len(wire) - 1
        /\ \A k \in 1 .. Len(Tail(wire)) : Tail(wire)[k] = wire[k + 1]
    BY <1>1, HeadTailProperties
  <1>5. DOMAIN Tail(wire) = 1 .. Len(wire) - 1
    BY <1>4, LenProperties
  <1> QED
    BY <1>2, <1>3, <1>4, <1>5

\* A frame that is read leaves the daemon's memory well typed.
LEMMA ReceivedTypes ==
  ASSUME TypeInvariant, NEW f \in Batch
  PROVE  /\ Received(f) \in Daemon /\ Received(f).pc = daemon.pc
         /\ Received(f).frame = daemon.frame /\ Received(f).prepared = daemon.prepared
         /\ Received(f).pending = daemon.pending /\ Received(f).observed = daemon.observed
         /\ Received(f).again = daemon.again
  <1> DEFINE last == [i \in Ifaces |->
                        IF i = f.iface /\ ~Repeats(f) THEN f
                        ELSE IF f.conn = daemon.conn THEN daemon.last[i] ELSE NoFrame]
             d == [daemon EXCEPT !.conn = f.conn]
  <1>1. f.conn \in Nat /\ f \in Frames /\ NoFrame \in Frames
    BY DEF Batch, Frames
  <1>2. last \in [Ifaces -> Frames]
    BY <1>1, DaemonTypes
  <1>3. d \in Daemon
    BY <1>1, DaemonTypes DEF Daemon
  <1>4. [d EXCEPT !.last = last] \in Daemon
    BY <1>2, <1>3 DEF Daemon
  <1>5. Received(f) = [d EXCEPT !.last = last]
    BY DEF Received
  <1>6. Received(f) \in Daemon
    BY <1>4, <1>5
  <1>7. /\ Received(f).pc = daemon.pc
        /\ Received(f).frame = daemon.frame /\ Received(f).prepared = daemon.prepared
        /\ Received(f).pending = daemon.pending /\ Received(f).observed = daemon.observed
        /\ Received(f).again = daemon.again
    BY DaemonTypes DEF Received, Daemon
  <1> QED
    BY <1>6, <1>7

\* The state a batch is identified from: the interface's own, or a new session.
Opened(i) ==
    IF delivery[i].session = 0 THEN [NoState EXCEPT !.session = counts.sessions + 1] ELSE delivery[i]

\* A batch gets the next number of an opened session.
LEMMA Identification ==
  ASSUME TypeInvariant, NEW i \in Ifaces, NEW n \in Nat, SessionsWith(i) <= MaxSessions
  PROVE  LET state == Identified(i, n)  o == Opened(i) IN
         /\ state \in Delivery /\ o \in Delivery /\ SessionsWith(i) \in 0 .. MaxSessions
         /\ state.session \in Sessions /\ o.session = state.session
         /\ state.sent = o.sent + 1 /\ state.committed = o.committed /\ state.complete = FALSE
         /\ state.health = Add(o.health, "seen", n)
  <1> DEFINE o == Opened(i)
             a == [o EXCEPT !.sent = o.sent + 1]
             b == [a EXCEPT !.complete = FALSE]
             c == [b EXCEPT !.health = Add(o.health, "seen", n)]
  <1>1. /\ delivery[i] \in Delivery /\ counts.sessions \in 0 .. MaxSessions /\ MaxSessions \in Nat
        /\ delivery[i].session \in Sessions \cup {0}
    BY BoundAssumption DEF TypeInvariant, Delivery, Counts
  <1>2. o \in Delivery /\ o.session \in Sessions /\ SessionsWith(i) \in 0 .. MaxSessions
    <2>1. CASE delivery[i].session = 0
      <3>1. SessionsWith(i) = counts.sessions + 1
        BY <2>1 DEF SessionsWith
      <3>2. counts.sessions + 1 \in Sessions
        BY <1>1, <3>1 DEF Sessions
      <3>3. o = [NoState EXCEPT !.session = counts.sessions + 1]
        BY <2>1 DEF Opened
      <3> QED
        BY <1>1, <3>1, <3>2, <3>3, EmptyTypes DEF Delivery
    <2>2. CASE delivery[i].session # 0
      <3>1. SessionsWith(i) = counts.sessions
        BY <1>1, <2>2 DEF SessionsWith
      <3> QED
        BY <1>1, <2>2, <3>1 DEF Opened
    <2> QED
      BY <2>1, <2>2
  <1>3. o.sent \in Nat /\ o.health \in Health /\ Add(o.health, "seen", n) \in Health
    BY <1>2, AddSeen DEF Delivery
  <1>4. a \in Delivery
    BY <1>2, <1>3 DEF Delivery
  <1>5. b \in Delivery
    BY <1>4 DEF Delivery
  <1>6. c \in Delivery
    BY <1>3, <1>5 DEF Delivery
  <1>7. Identified(i, n) = c
    BY DEF Identified, Opened
  <1>8. /\ c.session = o.session /\ c.sent = o.sent + 1 /\ c.committed = o.committed
        /\ c.complete = FALSE /\ c.health = Add(o.health, "seen", n)
    BY <1>2 DEF Delivery
  <1> QED
    BY <1>2, <1>6, <1>7, <1>8

LEMMA LossRetention ==
  ASSUME NEW state \in Delivery
  PROVE  LET l == LossRetained(state) IN
         /\ l \in Delivery /\ l.session = state.session /\ l.sent = state.sent
         /\ l.committed = state.committed /\ l.complete = FALSE
         /\ l.health = Add(state.health, "lost", 1)
  <1> DEFINE a == [state EXCEPT !.complete = FALSE]
             b == [a EXCEPT !.health = Add(state.health, "lost", 1)]
  <1>1. Add(state.health, "lost", 1) \in Health
    BY AddLost DEF Delivery
  <1>2. a \in Delivery
    BY DEF Delivery
  <1>3. b \in Delivery
    BY <1>1, <1>2 DEF Delivery
  <1>4. LossRetained(state) = b
    BY DEF LossRetained
  <1>5. /\ b.session = state.session /\ b.sent = state.sent /\ b.committed = state.committed
        /\ b.complete = FALSE /\ b.health = Add(state.health, "lost", 1)
    BY DEF Delivery
  <1> QED
    BY <1>3, <1>4, <1>5

\* A frame is a batch of its session.
LEMMA FrameTypes ==
  ASSUME TypeInvariant, NEW i \in Ifaces, NEW state \in Delivery,
         state.session \in Sessions, state.sent # 0
  PROVE  LET f == Frame(i, state) IN
         /\ f \in Batch /\ f.iface = i /\ f.session = state.session /\ f.sequence = state.sent
         /\ f.sentAt = Now /\ f.health = state.health
  <1>1. link.up \in BOOLEAN /\ link.conn \in Nat
    BY DEF TypeInvariant
  <1>2. (IF link.up THEN link.conn ELSE link.conn + 1) \in Nat
    BY <1>1
  <1>3. state.sent \in Nat \ {0} /\ state.health \in Health
    BY DEF Delivery
  <1> QED
    BY <1>2, <1>3, NowIsTime DEF Frame, Batch

\* Appending to a queue.
LEMMA Appending ==
  ASSUME NEW S, NEW q \in Seq(S), NEW e \in S
  PROVE  /\ Append(q, e) \in Seq(S) /\ Len(q) \in Nat /\ Len(Append(q, e)) = Len(q) + 1
         /\ DOMAIN q = 1 .. Len(q) /\ DOMAIN Append(q, e) = 1 .. Len(q) + 1
         /\ \A k \in DOMAIN q : Append(q, e)[k] = q[k]
         /\ Append(q, e)[Len(q) + 1] = e
  BY AppendProperties, LenProperties

\* Adding to the totals of a session.
LEMMA PlusTotals ==
  ASSUME NEW t \in Totals, NEW u \in Nat, NEW v \in Nat
  PROVE  Plus(t, u, v) \in Totals /\ Plus(t, u, v).seen = t.seen + u /\ Plus(t, u, v).lost = t.lost + v
  <1> DEFINE a == [t EXCEPT !.seen = t.seen + u]
             b == [a EXCEPT !.lost = t.lost + v]
  <1>1. t.seen \in Nat /\ t.lost \in Nat
    BY DEF Totals
  <1>2. a \in Totals
    BY <1>1 DEF Totals
  <1>3. b \in Totals
    <2> HIDE DEF a
    <2> QED
      BY <1>1, <1>2 DEF Totals
  <1>4. b = Plus(t, u, v) /\ b.seen = t.seen + u /\ b.lost = t.lost + v
    BY DEF Totals, Plus
  <1> QED
    BY <1>3, <1>4

\* What a window adds to the truth about its session.
LEMMA WitnessTypes ==
  ASSUME TypeInvariant, NEW s \in Sessions, NEW n \in Nat, NEW k \in Nat, Witness(s, n, k)
  PROVE  /\ truth' \in [Sessions -> Totals]
         /\ truth'[s].seen = truth[s].seen + n /\ truth'[s].lost = truth[s].lost + k
         /\ \A t \in Sessions : /\ t # s => truth'[t] = truth[t]
                                /\ truth'[t].seen \in Nat /\ truth'[t].lost \in Nat
                                /\ truth'[t].seen >= truth[t].seen
                                /\ truth'[t].lost >= truth[t].lost
  <1> DEFINE b == Plus(truth[s], n, k)
  <1>1. truth \in [Sessions -> Totals] /\ truth[s] \in Totals
    BY DEF TypeInvariant
  <1>2. truth[s].seen \in Nat /\ truth[s].lost \in Nat
    BY <1>1 DEF Totals
  <1>4. b \in Totals /\ b.seen = truth[s].seen + n /\ b.lost = truth[s].lost + k
    BY <1>1, PlusTotals
  <1>5. truth' = [truth EXCEPT ![s] = b]
    BY DEF Witness
  <1> HIDE DEF b
  <1>7. truth' \in [Sessions -> Totals] /\ truth'[s] = b /\ \A t \in Sessions : t # s => truth'[t] = truth[t]
    BY <1>1, <1>4, <1>5
  <1>8. ASSUME NEW t \in Sessions
        PROVE  /\ truth'[t].seen \in Nat /\ truth'[t].lost \in Nat
               /\ truth'[t].seen >= truth[t].seen /\ truth'[t].lost >= truth[t].lost
    <2>1. truth[t].seen \in Nat /\ truth[t].lost \in Nat
      BY <1>1 DEF Totals
    <2> QED
      BY <1>2, <1>4, <1>7, <2>1
  <1> QED
    BY <1>4, <1>7, <1>8

LEMMA SendTypes ==
  ASSUME TypeInvariant, NEW i \in Ifaces, NEW n \in Units, Send(i, n)
  PROVE  TypeInvariant'
  <1> DEFINE state == Identified(i, n)
             f == Frame(i, state)
  <1>1. n \in Nat /\ Flushes(i) /\ SessionsWith(i) <= MaxSessions
    BY BoundAssumption DEF Send, Flushes
  <1>2. /\ state \in Delivery /\ state.session \in Sessions /\ SessionsWith(i) \in 0 .. MaxSessions
        /\ state.sent # 0
    <2>1. /\ state \in Delivery /\ state.session \in Sessions
          /\ SessionsWith(i) \in 0 .. MaxSessions
          /\ Opened(i) \in Delivery /\ state.sent = Opened(i).sent + 1
      BY <1>1, Identification
    <2>2. Opened(i).sent \in Nat
      BY <2>1 DEF Delivery
    <2> QED
      BY <2>1, <2>2
  <1>3. f \in Batch /\ f.conn \in Nat
    BY <1>2, FrameTypes DEF Batch
  <1>4. delivery' \in [Ifaces -> Delivery]
    BY <1>2 DEF Send, TypeInvariant
  <1>5. flushed' \in [Ifaces -> Nat]
    BY <1>1 DEF Flushes, TypeInvariant
  <1>6. wire' \in Seq(Batch) /\ link' \in [up : BOOLEAN, conn : Nat] /\ acks' \in Seq(Acks)
    <2>1. acks' \in Seq(Acks)
      BY DEF Send, TypeInvariant
    <2>2. /\ wire' \in {wire, Append(wire, f)} /\ wire \in Seq(Batch)
          /\ \E b \in BOOLEAN : link' = [up |-> b, conn |-> f.conn]
      BY DEF Send, TypeInvariant
    <2>3. link' \in [up : BOOLEAN, conn : Nat]
      BY <1>3, <2>2
    <2> QED
      BY <1>3, <2>1, <2>2, <2>3, Appending
  <1>7. counts' \in Counts
    BY <1>2 DEF Send, TypeInvariant, Counts
  <1>8. truth' \in [Sessions -> Totals]
    BY <1>1, <1>2, WitnessTypes DEF Send
  <1>9. UNCHANGED <<clock, back, daemon, marks, retiredBefore, stored, recorded, committed, gone, ended>>
    BY <1>1 DEF Flushes, durable
  <1> QED
    BY <1>4, <1>5, <1>6, <1>7, <1>8, <1>9 DEF TypeInvariant

LEMMA SendFailsTypes ==
  ASSUME TypeInvariant, NEW i \in Ifaces, NEW n \in Units, SendFails(i, n)
  PROVE  TypeInvariant'
  <1> DEFINE state == Identified(i, n)
  <1>1. n \in Nat /\ Flushes(i) /\ SessionsWith(i) <= MaxSessions
    BY BoundAssumption DEF SendFails, Flushes
  <1>2. /\ state \in Delivery /\ state.session \in Sessions
        /\ SessionsWith(i) \in 0 .. MaxSessions
    BY <1>1, Identification
  <1>3. LossRetained(state) \in Delivery /\ LossRetained(state).session \in Sessions
    BY <1>2, LossRetention
  <1>4. delivery' \in [Ifaces -> Delivery]
    BY <1>3 DEF SendFails, TypeInvariant
  <1>5. flushed' \in [Ifaces -> Nat]
    BY <1>1 DEF Flushes, TypeInvariant
  <1>6. link' \in [up : BOOLEAN, conn : Nat] /\ acks' \in Seq(Acks) /\ wire' = wire
    BY EmptySeq DEF SendFails, TypeInvariant
  <1>7. counts' \in Counts
    <2> DEFINE c == [counts EXCEPT !.sessions = SessionsWith(i)]
    <2>1. c \in Counts
      BY <1>2 DEF TypeInvariant, Counts
    <2>2. counts' = [c EXCEPT !.failures = counts.failures + 1] /\ counts.failures \in Nat
      BY DEF SendFails, TypeInvariant, Counts
    <2> HIDE DEF c
    <2> QED
      BY <2>1, <2>2 DEF Counts
  <1>8. truth' \in [Sessions -> Totals]
    BY <1>1, <1>3, WitnessTypes DEF SendFails
  <1>9. UNCHANGED <<clock, back, daemon, marks, retiredBefore, stored, recorded, committed, gone, ended>>
    BY <1>1 DEF Flushes, durable
  <1> QED
    BY <1>4, <1>5, <1>6, <1>7, <1>8, <1>9 DEF TypeInvariant

LEMMA RetireInterfaceTypes ==
  ASSUME TypeInvariant, NEW i \in Ifaces, RetireInterface(i)
  PROVE  TypeInvariant'
  <1>1. delivery' \in [Ifaces -> Delivery]
    BY EmptyTypes DEF RetireInterface, TypeInvariant
  <1>2. link' \in [up : BOOLEAN, conn : Nat] /\ acks' \in Seq(Acks)
    BY EmptySeq DEF RetireInterface, TypeInvariant
  <1>3. UNCHANGED <<clock, back, flushed, wire, daemon, marks, retiredBefore, stored, counts, truth,
                    recorded, committed, gone, ended>>
    BY DEF RetireInterface, durable, ghost
  <1> QED
    BY <1>1, <1>2, <1>3 DEF TypeInvariant

\* An acknowledgement that is read changes at most what the sensor knows of
\* its own interface, never the session or the counters.
LEMMA AckRead ==
  ASSUME TypeInvariant, ReadACK
  PROVE  /\ acks \in Seq(Acks) /\ acks # <<>> /\ Head(acks) \in Acks /\ acks' = Tail(acks)
         /\ acks' \in Seq(Acks) /\ delivery' \in [Ifaces -> Delivery]
         /\ \A i \in Ifaces :
             /\ delivery'[i].session = delivery[i].session /\ delivery'[i].sent = delivery[i].sent
             /\ delivery'[i].health = delivery[i].health
             /\ \/ delivery'[i] = delivery[i]
                \/ /\ i = Head(acks).iface /\ Head(acks).session = delivery[i].session
                   /\ \/ delivery'[i].committed = delivery[i].committed
                      \/ Head(acks).durable /\ delivery'[i].committed = Head(acks).committed
                   /\ \/ delivery'[i].complete = delivery[i].complete
                      \/ /\ Head(acks).sequence = delivery[i].sent
                         /\ delivery'[i].complete = Head(acks).complete
  <1> DEFINE a == Head(acks)
             state == delivery[a.iface]
             c == IF a.durable THEN Later(state.committed, a.committed) ELSE state.committed
             d == [state EXCEPT !.committed = c]
             e == [d EXCEPT !.complete = Completes(state, a)]
  <1>1. acks \in Seq(Acks) /\ acks # <<>> /\ delivery \in [Ifaces -> Delivery] /\ acks' = Tail(acks)
    BY DEF TypeInvariant, ReadACK
  <1>2. a \in Acks /\ acks' \in Seq(Acks)
    BY <1>1, HeadTailProperties
  <1>3. /\ a.iface \in Ifaces /\ a.committed \in Nat /\ a.durable \in BOOLEAN /\ a.complete \in BOOLEAN
        /\ state \in Delivery
    BY <1>1, <1>2 DEF Acks
  <1>4. state.committed \in Nat /\ state.complete \in BOOLEAN
    BY <1>3 DEF Delivery
  <1>5. /\ c \in Nat /\ (c = state.committed \/ (a.durable /\ c = a.committed))
        /\ Completes(state, a) \in BOOLEAN
        /\ \/ Completes(state, a) = state.complete
           \/ a.sequence = state.sent /\ Completes(state, a) = a.complete
    <2>1. c \in Nat /\ (c = state.committed \/ (a.durable /\ c = a.committed))
      <3>1. Later(state.committed, a.committed) \in {state.committed, a.committed}
        BY DEF Later
      <3>2. CASE a.durable
        <4>1. c = Later(state.committed, a.committed)
          BY <3>2
        <4> HIDE DEF c
        <4> QED
          BY <1>3, <1>4, <3>1, <3>2, <4>1
      <3>3. CASE ~a.durable
        <4>1. c = state.committed
          BY <3>3
        <4> HIDE DEF c
        <4> QED
          BY <1>4, <4>1
      <3> QED
        BY <3>2, <3>3
    <2>2. CASE a.sequence = state.sent
      BY <1>3, <2>1, <2>2 DEF Completes
    <2>3. CASE a.sequence # state.sent
      BY <1>4, <2>1, <2>3 DEF Completes
    <2> QED
      BY <2>2, <2>3
  <1>6. d \in Delivery
    <2> HIDE DEF c
    <2> QED
      BY <1>3, <1>5 DEF Delivery
  <1>7. e \in Delivery
    <2> HIDE DEF d
    <2> QED
      BY <1>5, <1>6 DEF Delivery
  <1>8. /\ e.session = state.session /\ e.sent = state.sent /\ e.health = state.health
        /\ e.committed = c /\ e.complete = Completes(state, a)
    <2> HIDE DEF c
    <2> QED
      BY <1>3 DEF Delivery
  <1>9. \/ delivery' = delivery
        \/ state.session = a.session /\ delivery' = [delivery EXCEPT ![a.iface] = e]
    BY DEF ReadACK
  <1> HIDE DEF e, d, c
  <1>10. delivery' \in [Ifaces -> Delivery]
    BY <1>1, <1>3, <1>7, <1>9
  <1>11. ASSUME NEW i \in Ifaces
         PROVE  \/ delivery'[i] = delivery[i]
                \/ i = a.iface /\ state.session = a.session /\ delivery'[i] = e
    BY <1>1, <1>3, <1>9
  <1> QED
    BY <1>1, <1>2, <1>5, <1>8, <1>10, <1>11

LEMMA ReadACKTypes ==
  ASSUME TypeInvariant, ReadACK
  PROVE  TypeInvariant'
  <1>1. UNCHANGED <<clock, back, flushed, link, wire, daemon, marks, retiredBefore, stored, counts,
                    truth, recorded, committed, gone, ended>>
    BY DEF ReadACK, durable, ghost
  <1>2. acks' \in Seq(Acks) /\ delivery' \in [Ifaces -> Delivery]
    BY AckRead
  <1> QED
    BY <1>1, <1>2 DEF TypeInvariant

\* The wire without its m oldest frames.
WireDrops(m) ==
    /\ m \in 0 .. Len(wire) /\ wire' \in Seq(Batch)
    /\ DOMAIN wire' = 1 .. Len(wire) - m
    /\ \A k \in DOMAIN wire' : k + m \in DOMAIN wire /\ wire'[k] = wire[k + m]

LEMMA WireTypes ==
  ASSUME TypeInvariant
  PROVE  /\ wire \in Seq(Batch) /\ Len(wire) \in Nat /\ DOMAIN wire = 1 .. Len(wire)
         /\ \A k \in DOMAIN wire : wire[k] \in Batch
  <1>1. wire \in Seq(Batch)
    BY DEF TypeInvariant
  <1> QED
    BY <1>1, LenProperties, ElementOfSeq

LEMMA WireUnchanged ==
  ASSUME TypeInvariant, wire' = wire
  PROVE  WireDrops(0)
  BY WireTypes DEF WireDrops

LEMMA WireTail ==
  ASSUME TypeInvariant, wire # <<>>, wire' = Tail(wire)
  PROVE  WireDrops(1)
  BY WireHead DEF WireDrops

LEMMA WireAbandoned ==
  ASSUME TypeInvariant, NEW conn, Abandons(conn)
  PROVE  \E m \in 0 .. Len(wire) : WireDrops(m)
  <1>1. PICK m \in DOMAIN wire : wire' = SubSeq(wire, m + 1, Len(wire))
    BY DEF Abandons
  <1>2. Len(wire) \in Nat /\ m \in 1 .. Len(wire) /\ wire \in Seq(Batch)
    BY WireTypes
  <1>3. /\ SubSeq(wire, m + 1, Len(wire)) \in Seq(Batch)
        /\ Len(SubSeq(wire, m + 1, Len(wire))) = IF m + 1 <= Len(wire) THEN Len(wire) - (m + 1) + 1 ELSE 0
        /\ \A k \in 1 .. Len(wire) - (m + 1) + 1 : SubSeq(wire, m + 1, Len(wire))[k] = wire[m + 1 + k - 1]
    BY <1>2, SubSeqProperties
  <1>4. DOMAIN wire' = 1 .. Len(wire) - m /\ wire' \in Seq(Batch)
    <2>1. Len(wire') = Len(wire) - m
      BY <1>1, <1>2, <1>3
    <2> QED
      BY <1>1, <1>3, <2>1, LenProperties
  <1>5. ASSUME NEW k \in DOMAIN wire'
        PROVE  k + m \in DOMAIN wire /\ wire'[k] = wire[k + m]
    <2>1. k \in 1 .. Len(wire) - m /\ m + 1 + k - 1 = k + m
      BY <1>2, <1>4
    <2>2. wire'[k] = wire[m + 1 + k - 1]
      BY SMTT(30), <1>1, <1>2, <1>3, <2>1
    <2> QED
      BY <1>2, <2>1, <2>2, WireTypes
  <1> QED
    BY <1>2, <1>4, <1>5 DEF WireDrops

LEMMA WireCut ==
  ASSUME TypeInvariant, wire' = <<>>
  PROVE  WireDrops(Len(wire))
  <1>1. wire' \in Seq(Batch) /\ DOMAIN wire' = {}
    BY EmptySeq
  <1>2. Len(wire) \in Nat /\ 1 .. Len(wire) - Len(wire) = {}
    BY WireTypes
  <1> QED
    BY <1>1, <1>2 DEF WireDrops

LEMMA ConnectionRejectedTypes ==
  ASSUME TypeInvariant, ConnectionRejected
  PROVE  TypeInvariant'
  <1>1. wire' \in Seq(Batch)
    BY WireAbandoned DEF ConnectionRejected, WireDrops
  <1>2. link' \in [up : BOOLEAN, conn : Nat]
    BY DEF ConnectionRejected, TypeInvariant
  <1>3. UNCHANGED <<clock, back, delivery, flushed, acks, daemon, marks, retiredBefore, stored, counts,
                    truth, recorded, committed, gone, ended>>
    BY DEF ConnectionRejected, durable, ghost
  <1> QED
    BY <1>1, <1>2, <1>3 DEF TypeInvariant

\* An acknowledgement is well typed, and is queued or lost.
LEMMA AckTypes ==
  ASSUME TypeInvariant, NEW f \in Batch, NEW seq \in Nat, NEW kept \in BOOLEAN,
         NEW complete \in BOOLEAN, Acknowledge(f, Ack(f, seq, kept, complete))
  PROVE  /\ Ack(f, seq, kept, complete) \in Acks /\ acks' \in Seq(Acks)
         /\ acks' \in {acks, Append(acks, Ack(f, seq, kept, complete))}
  <1>1. Ack(f, seq, kept, complete) \in Acks
    BY DEF Ack, Acks, Batch
  <1>2. acks \in Seq(Acks) /\ acks' \in {acks, Append(acks, Ack(f, seq, kept, complete))}
    BY DEF TypeInvariant, Acknowledge
  <1> QED
    BY <1>1, <1>2, Appending

\* The fields of one watermark.
LEMMA MarkFields ==
  ASSUME TypeInvariant, NEW s \in Sessions
  PROVE  /\ marks[s].sequence \in Nat /\ marks[s].sentAt \in Nat /\ marks[s].complete \in BOOLEAN
         /\ marks[s].gaps \in Nat /\ marks[s].duplicates \in Nat /\ marks[s].health \in Health
         /\ marks[s].committedAt \in Nat /\ marks[s].row \in Nat /\ marks[s].iface \in Ifaces \cup {"none"}
  BY DEF TypeInvariant, Mark

\* A repeated batch changes a watermark's count of repetitions only.
LEMMA DuplicateCounted ==
  ASSUME TypeInvariant, ReceiveDuplicate
  PROVE  /\ marks' \in [Sessions -> Mark]
         /\ \A s \in Sessions :
             /\ marks'[s].sequence = marks[s].sequence /\ marks'[s].iface = marks[s].iface
             /\ marks'[s].health = marks[s].health /\ marks'[s].sentAt = marks[s].sentAt
             /\ marks'[s].complete = marks[s].complete /\ marks'[s].gaps = marks[s].gaps
             /\ marks'[s].committedAt = marks[s].committedAt /\ marks'[s].row = marks[s].row
  <1> DEFINE f == Head(wire)
             w == [marks[f.session] EXCEPT !.duplicates = marks[f.session].duplicates + 1]
  <1>1. f \in Batch /\ f.session \in Sessions
    BY WireHead DEF ReceiveDuplicate, Batch
  <1>2. marks' = [marks EXCEPT ![f.session] = w] /\ marks \in [Sessions -> Mark]
    BY DEF ReceiveDuplicate, TypeInvariant
  <1>3. \A s \in Sessions : marks[s] \in Mark /\ marks[s].duplicates \in Nat
    BY MarkFields DEF TypeInvariant
  <1>4. w \in Mark
    BY <1>1, <1>3 DEF Mark
  <1>5. /\ w.sequence = marks[f.session].sequence /\ w.iface = marks[f.session].iface
        /\ w.health = marks[f.session].health /\ w.sentAt = marks[f.session].sentAt
        /\ w.complete = marks[f.session].complete /\ w.gaps = marks[f.session].gaps
        /\ w.committedAt = marks[f.session].committedAt /\ w.row = marks[f.session].row
    BY <1>1, <1>3 DEF Mark
  <1> HIDE DEF w
  <1>6. \A s \in Sessions : marks'[s] = IF s = f.session THEN w ELSE marks[s]
    BY <1>1, <1>2
  <1>7. marks' \in [Sessions -> Mark]
    BY <1>2, <1>4
  <1> QED
    BY <1>5, <1>6, <1>7

LEMMA ReceiveDuplicateTypes ==
  ASSUME TypeInvariant, ReceiveDuplicate
  PROVE  TypeInvariant'
  <1> DEFINE f == Head(wire)
             w == marks[f.session]
  <1>1. wire # <<>> /\ f \in Batch /\ f.session \in Sessions /\ wire' \in Seq(Batch)
    BY WireHead DEF ReceiveDuplicate, Batch
  <1>2. acks' \in Seq(Acks)
    <2>1. w.sequence \in Nat /\ w.complete \in BOOLEAN
      BY <1>1, MarkFields
    <2>2. (w.complete /\ f.sequence = w.sequence) \in BOOLEAN
      OBVIOUS
    <2>3. Acknowledge(f, Ack(f, w.sequence, TRUE, w.complete /\ f.sequence = w.sequence))
      BY DEF ReceiveDuplicate
    <2> QED
      BY <1>1, <2>1, <2>2, <2>3, AckTypes
  <1>3. daemon' \in Daemon /\ daemon'.pc = "idle"
    BY <1>1, ReceivedTypes DEF ReceiveDuplicate
  <1>4. UNCHANGED <<clock, back, delivery, flushed, link, retiredBefore, stored, counts, truth,
                    recorded, committed, gone, ended>>
    BY DEF ReceiveDuplicate, sensor, ghost
  <1> QED
    BY <1>1, <1>2, <1>3, <1>4, DuplicateCounted DEF TypeInvariant

\* A new batch is the daemon's work; it was in preparation, or it is shown to
\* the detector now.
LEMMA Reception ==
  ASSUME TypeInvariant, Receive
  PROVE  LET f == wire[1]  p == daemon.prepared  q == daemon'.prepared IN
         /\ wire # <<>> /\ f \in Batch /\ daemon.pc = "idle" /\ ~Duplicate(f) /\ WireDrops(1)
         /\ daemon' \in Daemon /\ daemon'.pc = "observed" /\ daemon'.frame = f
         /\ \/ /\ IsPrepared(f) /\ q = p
               /\ daemon'.pending = daemon.pending /\ daemon'.observed = daemon.observed
               /\ daemon'.again = daemon.again
            \/ /\ ~IsPrepared(f) /\ daemon'.observed = daemon.observed \cup {IdOf(f)}
               /\ \A i \in Ifaces \ {f.iface} : q[i] = p[i]
               /\ q[f.iface].session = f.session /\ q[f.iface].sequence = f.sequence
               /\ q[f.iface].events \in {{}, {IdOf(f)}}
               /\ daemon'.pending = daemon.pending \cup q[f.iface].events
               /\ \/ daemon'.again = daemon.again
                  \/ IdOf(f) \in daemon.observed /\ daemon'.again = daemon.again \cup {IdOf(f)}
  <1> DEFINE f == wire[1]
             id == <<f.session, f.sequence>>
             r == Received(f)
  <1>1. /\ wire # <<>> /\ f = Head(wire) /\ f \in Batch /\ daemon.pc = "idle" /\ ~Duplicate(f)
        /\ wire' = Tail(wire)
    BY WireHead DEF Receive
  <1>2. WireDrops(1)
    BY <1>1, WireTail
  <1>3. /\ r \in Daemon /\ r.pc = daemon.pc /\ r.frame = daemon.frame /\ r.prepared = daemon.prepared
        /\ r.pending = daemon.pending /\ r.observed = daemon.observed /\ r.again = daemon.again
    BY <1>1, ReceivedTypes
  <1>4. f \in Frames /\ f.iface \in Ifaces /\ id \in Id /\ f.session \in Sessions /\ f.sequence \in Nat
    BY <1>1 DEF Batch, Frames, Id
  <1> HIDE DEF f, r
  <1>5. CASE IsPrepared(f)
    <2> DEFINE a == [r EXCEPT !.pc = "observed"]
               b == [a EXCEPT !.frame = f]
    <2>1. a \in Daemon
      BY <1>3 DEF Daemon
    <2>2. b \in Daemon
      <3> HIDE DEF a
      <3> QED
        BY <1>4, <2>1 DEF Daemon
    <2>3. /\ b.pc = "observed" /\ b.frame = f /\ b.prepared = r.prepared /\ b.pending = r.pending
          /\ b.observed = r.observed /\ b.again = r.again
      BY <1>3 DEF Daemon
    <2>4. daemon' = b
      BY <1>1, <1>5 DEF Receive, f, r
    <2> QED
      BY <1>1, <1>2, <1>3, <1>5, <2>2, <2>3, <2>4 DEF f
  <1>6. CASE ~IsPrepared(f)
    <2>1. PICK d \in Derivations :
            LET events == IF d.raised THEN {id} ELSE {} IN
            daemon' = [r EXCEPT
                !.pc = "observed", !.frame = f,
                !.pending = @ \cup events,
                !.prepared[f.iface] = [session |-> f.session, sequence |-> f.sequence,
                                       events |-> events, rejected |-> d.rejected],
                !.observed = @ \cup {id},
                !.again = IF id \in daemon.observed THEN @ \cup {id} ELSE @]
      BY <1>1, <1>6 DEF Receive, f, r
    <2> DEFINE events == IF d.raised THEN {id} ELSE {}
               p == [session |-> f.session, sequence |-> f.sequence,
                     events |-> events, rejected |-> d.rejected]
               q == [daemon.prepared EXCEPT ![f.iface] = p]
               new == IF id \in daemon.observed THEN daemon.again \cup {id} ELSE daemon.again
               r1 == [r EXCEPT !.pc = "observed"]
               r2 == [r1 EXCEPT !.frame = f]
               r3 == [r2 EXCEPT !.pending = daemon.pending \cup events]
               r4 == [r3 EXCEPT !.prepared = q]
               r5 == [r4 EXCEPT !.observed = daemon.observed \cup {id}]
               r6 == [r5 EXCEPT !.again = new]
    <2>2. d.raised \in BOOLEAN /\ d.rejected \in BOOLEAN
      BY BoundAssumption
    <2>3. events \in {{}, {id}} /\ events \in SUBSET Id
      BY <1>4, <2>2
    <2> HIDE DEF events
    <2>4. p \in Prepared /\ p.session = f.session /\ p.sequence = f.sequence /\ p.events = events
      BY <1>4, <2>2, <2>3 DEF Prepared
    <2> HIDE DEF p
    <2>5. /\ q \in [Ifaces -> Prepared] /\ q[f.iface] = p
          /\ \A i \in Ifaces \ {f.iface} : q[i] = daemon.prepared[i]
      BY <1>4, <2>4, DaemonTypes
    <2>6. /\ new \in SUBSET Id
          /\ new = daemon.again \/ (id \in daemon.observed /\ new = daemon.again \cup {id})
      <3>1. daemon.again \in SUBSET Id /\ daemon.again \cup {id} \in SUBSET Id
        BY <1>4, DaemonTypes
      <3>2. new = daemon.again \/ (id \in daemon.observed /\ new = daemon.again \cup {id})
        OBVIOUS
      <3> HIDE DEF new
      <3> QED
        BY <3>1, <3>2
    <2>7. daemon' = r6
      BY <1>3, <2>1 DEF Daemon, events, p
    <2> HIDE DEF q, new
    <2>8. /\ daemon.pending \cup events \in SUBSET Id /\ daemon.observed \cup {id} \in SUBSET Id
      BY <1>4, <2>3, DaemonTypes
    <2>9. r1 \in Daemon /\ r1.pc = "observed"
      BY <1>3 DEF Daemon
    <2> HIDE DEF r1, id
    <2>10. r2 \in Daemon /\ r2.pc = "observed" /\ r2.frame = f
      BY <1>4, <2>9 DEF Daemon
    <2> HIDE DEF r2
    <2>11. r3 \in Daemon /\ r3.pc = "observed" /\ r3.frame = f /\ r3.pending = daemon.pending \cup events
      BY <2>8, <2>10 DEF Daemon
    <2> HIDE DEF r3
    <2>12. /\ r4 \in Daemon /\ r4.pc = "observed" /\ r4.frame = f /\ r4.prepared = q
           /\ r4.pending = daemon.pending \cup events
      BY <2>5, <2>11 DEF Daemon
    <2> HIDE DEF r4
    <2>13. /\ r5 \in Daemon /\ r5.pc = "observed" /\ r5.frame = f /\ r5.prepared = q
           /\ r5.pending = daemon.pending \cup events /\ r5.observed = daemon.observed \cup {id}
      BY <2>8, <2>12 DEF Daemon
    <2> HIDE DEF r5
    <2>14. /\ r6 \in Daemon /\ r6.pc = "observed" /\ r6.frame = f /\ r6.prepared = q
           /\ r6.pending = daemon.pending \cup events /\ r6.observed = daemon.observed \cup {id}
           /\ r6.again = new
      BY <2>6, <2>13 DEF Daemon
    <2> HIDE DEF r6
    <2>15. id = IdOf(f)
      BY DEF id, IdOf
    <2> QED
      BY <1>1, <1>2, <1>6, <2>3, <2>4, <2>5, <2>6, <2>7, <2>14, <2>15 DEF f
  <1> QED
    BY <1>5, <1>6

LEMMA ReceiveTypes ==
  ASSUME TypeInvariant, Receive
  PROVE  TypeInvariant'
  <1>1. UNCHANGED <<clock, back, delivery, flushed, link, acks, marks, retiredBefore, stored, counts,
                    truth, recorded, committed, gone, ended>>
    BY DEF Receive, sensor, durable, ghost
  <1>2. wire' \in Seq(Batch) /\ daemon' \in Daemon /\ daemon'.frame \in Batch
    BY Reception DEF WireDrops
  <1> QED
    BY <1>1, <1>2 DEF TypeInvariant

\* Queued events become stored ones.
LEMMA EventsFlushed ==
  ASSUME TypeInvariant, FlushEvents
  PROVE  /\ daemon' \in Daemon /\ daemon'.pending = {} /\ stored' = stored \cup daemon.pending
         /\ daemon'.pc = daemon.pc /\ daemon'.frame = daemon.frame
         /\ daemon'.prepared = daemon.prepared /\ daemon'.observed = daemon.observed
         /\ daemon'.again = daemon.again
  <1>1. daemon' = [daemon EXCEPT !.pending = {}] /\ stored' = stored \cup daemon.pending
    BY DEF FlushEvents
  <1> QED
    BY <1>1, DaemonTypes DEF Daemon

LEMMA FlushEventsTypes ==
  ASSUME TypeInvariant, FlushEvents
  PROVE  TypeInvariant'
  <1>1. UNCHANGED <<clock, back, delivery, flushed, link, wire, acks, marks, retiredBefore, counts,
                    truth, recorded, committed, gone, ended>>
    BY DEF FlushEvents, sensor, ghost
  <1>2. stored' \subseteq Id
    BY EventsFlushed, DaemonTypes DEF TypeInvariant
  <1> QED
    BY <1>1, <1>2, EventsFlushed DEF TypeInvariant

\* The daemon is idle again after a commit, and after one that failed.
LEMMA WorkEnds ==
  ASSUME TypeInvariant, daemon.pc = "observed", CommitSensorBatch \/ CommitFails
  PROVE  /\ daemon.frame \in Batch /\ daemon' \in Daemon /\ daemon'.pc = "idle"
         /\ daemon'.pending = daemon.pending /\ daemon'.observed = daemon.observed
         /\ daemon'.again = daemon.again
         /\ \A i \in Ifaces : \/ daemon'.prepared[i] = daemon.prepared[i]
                              \/ daemon'.prepared[i] = NoPrepared /\ i = daemon.frame.iface
         /\ CommitSensorBatch =>
              /\ daemon'.prepared[daemon.frame.iface] = NoPrepared
              /\ \A i \in Ifaces \ {daemon.frame.iface} : daemon'.prepared[i] = daemon.prepared[i]
         /\ ~CommitSensorBatch => daemon'.prepared = daemon.prepared
  <1> DEFINE i == daemon.frame.iface
             a == [daemon EXCEPT !.pc = "idle"]
             b == [a EXCEPT !.frame = NoFrame]
             q == [daemon.prepared EXCEPT ![i] = NoPrepared]
             c == [b EXCEPT !.prepared = q]
  <1>1. daemon.frame \in Batch /\ i \in Ifaces
    BY DEF TypeInvariant, Batch
  <1>2. a \in Daemon
    BY DaemonTypes DEF Daemon
  <1>3. b \in Daemon
    <2> HIDE DEF a
    <2> QED
      BY <1>2 DEF Daemon, Frames
  <1>4. /\ b.pc = "idle" /\ b.pending = daemon.pending /\ b.observed = daemon.observed
        /\ b.again = daemon.again /\ b.prepared = daemon.prepared
    BY DaemonTypes DEF Daemon
  <1>5. CASE ~CommitSensorBatch
    <2>1. daemon' = b
      BY <1>5 DEF CommitFails
    <2> HIDE DEF b
    <2> QED
      BY <1>1, <1>3, <1>4, <1>5, <2>1
  <1>6. CASE CommitSensorBatch
    <2>1. daemon' = c
      BY <1>6, DaemonTypes DEF CommitSensorBatch, Daemon
    <2>2. /\ q \in [Ifaces -> Prepared] /\ q[i] = NoPrepared
          /\ \A j \in Ifaces : j # i => q[j] = daemon.prepared[j]
      BY <1>1, DaemonTypes, EmptyTypes
    <2> HIDE DEF b, q
    <2>3. c \in Daemon
      BY <1>3, <2>2 DEF Daemon
    <2>4. /\ c.pc = b.pc /\ c.pending = b.pending /\ c.observed = b.observed /\ c.again = b.again
          /\ c.prepared = q
      BY <1>3 DEF Daemon
    <2> HIDE DEF c
    <2> QED
      BY <1>1, <1>4, <1>6, <2>1, <2>2, <2>3, <2>4
  <1> QED
    BY <1>5, <1>6

LEMMA CommitFailsTypes ==
  ASSUME TypeInvariant, CommitFails
  PROVE  TypeInvariant'
  <1>1. daemon.pc = "observed" /\ daemon.frame \in Batch /\ daemon' \in Daemon /\ daemon'.pc = "idle"
    BY WorkEnds DEF CommitFails
  <1>2. acks' \in Seq(Acks)
    BY <1>1, AckTypes DEF CommitFails
  <1>3. counts' \in Counts
    <2>1. counts' = counts \/ counts' = [counts EXCEPT !.failures = counts.failures + 1]
      BY DEF CommitFails
    <2>2. counts \in Counts
      BY DEF TypeInvariant
    <2> QED
      BY <2>1, <2>2 DEF Counts
  <1>4. UNCHANGED <<clock, back, delivery, flushed, link, wire, marks, retiredBefore, stored,
                    truth, recorded, committed, gone, ended>>
    BY DEF CommitFails, sensor, durable, ghost
  <1> QED
    BY <1>1, <1>2, <1>3, <1>4 DEF TypeInvariant

\* The table with the batch's row, before the oldest row is retired.
Updated(complete) ==
    [marks EXCEPT ![daemon.frame.session] = Watermark(daemon.frame, complete)]

\* What a commit writes, given what became of the batch's events.
Commits(complete) ==
    LET f == daemon.frame
        w == Updated(complete)
        d == Delta(f.health, marks[f.session].health)
    IN  /\ marks' = Kept(w) /\ retiredBefore' = RetiredTo(w)
        /\ gone' = gone \cup (Rows(w) \ Rows(marks'))
        /\ recorded' = [recorded EXCEPT ![f.session] = Plus(@, d.seen, d.lost)]
        /\ committed' = committed \cup
                {[session |-> f.session, sequence |-> f.sequence, complete |-> complete]}
        /\ ended' = [ended EXCEPT ![f.iface] = f.sentAt]
        /\ Acknowledge(f, Ack(f, f.sequence, TRUE, complete))
        /\ complete => daemon.prepared[f.iface].events \subseteq stored

LEMMA Commitment ==
  ASSUME TypeInvariant, CommitSensorBatch
  PROVE  /\ daemon.pc = "observed" /\ daemon.frame \in Batch /\ ~Refused(daemon.frame)
         /\ UNCHANGED <<clock, back, delivery, flushed, link, wire, stored, counts, truth>>
         /\ \E complete \in BOOLEAN : Commits(complete)
  <1>1. /\ daemon.pc = "observed" /\ daemon.frame \in Batch /\ ~Refused(daemon.frame)
        /\ UNCHANGED <<clock, back, delivery, flushed, link, wire, stored, counts, truth>>
    BY DEF CommitSensorBatch, sensor, TypeInvariant
  <1>2. PICK admitted \in BOOLEAN :
          LET f == daemon.frame
              complete == Done(f, admitted)
              w == [marks EXCEPT ![f.session] = Watermark(f, complete)]
              d == Delta(f.health, marks[f.session].health)
          IN  /\ marks' = Kept(w) /\ retiredBefore' = RetiredTo(w)
              /\ gone' = gone \cup (Rows(w) \ Rows(marks'))
              /\ recorded' = [recorded EXCEPT ![f.session] = Plus(@, d.seen, d.lost)]
              /\ committed' = committed \cup
                    {[session |-> f.session, sequence |-> f.sequence, complete |-> complete]}
              /\ ended' = [ended EXCEPT ![f.iface] = f.sentAt]
              /\ Acknowledge(f, Ack(f, f.sequence, TRUE, complete))
    BY DEF CommitSensorBatch
  <1> DEFINE complete == Done(daemon.frame, admitted)
  <1>3. complete \in BOOLEAN /\ (complete => daemon.prepared[daemon.frame.iface].events \subseteq stored)
    BY DEF Done
  <1>4. Commits(complete)
    <2> HIDE DEF complete
    <2> QED
      BY <1>2, <1>3 DEF Commits, Updated, complete
  <1> QED
    BY <1>1, <1>3, <1>4

\* A set of numbers has a least one, and a greatest if it is bounded.
LEMMA MinExists ==
  ASSUME NEW S \in SUBSET Nat, S # {}
  PROVE  \E m \in S : \A x \in S : m <= x
  <1>1. PICK m \in S : \A x \in S : ~(<<x, m>> \in OpToRel(<, Nat))
    BY NatLessThanWellFounded, WFMin
  <1>2. \A x \in S : ~(x < m)
    BY <1>1 DEF OpToRel
  <1> QED
    BY <1>2

LEMMA MaxExists ==
  ASSUME NEW S \in SUBSET Nat, S # {}, NEW b \in Nat, \A x \in S : x <= b
  PROVE  \E m \in S : \A x \in S : x <= m
  <1> DEFINE U == {n \in Nat : \A x \in S : x <= n}
  <1>1. U \in SUBSET Nat /\ U # {}
    OBVIOUS
  <1>2. PICK m \in U : \A n \in U : m <= n
    <2> HIDE DEF U
    <2> QED
      BY <1>1, MinExists
  <1>3. ASSUME m \notin S PROVE FALSE
    <2>1. \A x \in S : x < m /\ x \in Nat
      BY <1>2, <1>3
    <2>2. PICK x \in S : x \in Nat /\ x < m
      BY <2>1
    <2>3. m - 1 \in U
      BY <1>2, <2>1, <2>2
    <2> QED
      BY <1>2, <2>3
  <1> QED
    BY <1>2, <1>3

\* There is always another row id.
LEMMA NextRowTypes ==
  ASSUME TypeInvariant, RowsBounded, NEW f \in Batch
  PROVE  /\ NextRow(f) \in Nat
         /\ \E b \in Nat : NextRow(f) <= b /\ \A s \in Sessions : marks[s].row <= b
  <1> DEFINE R == {marks[s].row : s \in Sessions}
             m == CHOOSE r \in R : \A s \in Sessions : marks[s].row <= r
  <1>1. f.session \in Sessions /\ \A s \in Sessions : marks[s].row \in Nat
    BY MarkFields DEF Batch
  <1>2. PICK b \in Nat : \A s \in Sessions : marks[s].row <= b
    BY DEF RowsBounded
  <1>3. R \in SUBSET Nat /\ R # {} /\ \A x \in R : x <= b
    BY <1>1, <1>2
  <1>4. \E r \in R : \A x \in R : x <= r
    <2> HIDE DEF R
    <2> QED
      BY <1>3, MaxExists
  <1>5. \E r \in R : \A s \in Sessions : marks[s].row <= r
    BY <1>4
  <1>6. m \in R
    <2> HIDE DEF R
    <2> QED
      BY <1>5
  <1>7. m \in Nat /\ m <= b
    BY <1>3, <1>6
  <1> HIDE DEF m, R
  <1>8. NextRow(f) = marks[f.session].row \/ NextRow(f) = 1 + m
    BY DEF NextRow, m, R
  <1>9. NextRow(f) \in Nat /\ NextRow(f) <= b + 1 /\ b + 1 \in Nat
    BY <1>1, <1>2, <1>7, <1>8
  <1>10. \A s \in Sessions : marks[s].row <= b + 1
    BY <1>1, <1>2
  <1> QED
    BY <1>9, <1>10

\* The row a commit writes.
LEMMA WatermarkRow ==
  ASSUME Typed, daemon.pc = "observed", NEW complete \in BOOLEAN
  PROVE  LET f == daemon.frame  w == Watermark(f, complete) IN
         /\ w \in Mark /\ w.sequence = f.sequence /\ w.iface = f.iface
         /\ w.sentAt = f.sentAt /\ w.health = f.health /\ w.complete = complete
         /\ w.gaps = marks[f.session].gaps + (f.sequence - marks[f.session].sequence - 1)
         /\ w.duplicates = marks[f.session].duplicates /\ w.row = NextRow(f)
  <1> DEFINE f == daemon.frame
             w == Watermark(f, complete)
  <1>1. /\ f \in Batch /\ f.session \in Sessions /\ f.sequence \in Nat \ {0} /\ f.iface \in Ifaces
        /\ f.sentAt \in Nat /\ f.health \in Health
    BY DEF Typed, TypeInvariant, Batch
  <1>2. /\ marks[f.session].gaps \in Nat /\ marks[f.session].duplicates \in Nat
        /\ marks[f.session].sequence \in Nat /\ NextRow(f) \in Nat
    BY <1>1, MarkFields, NextRowTypes DEF Typed
  <1>3. marks[f.session].gaps + Gap(f) \in Nat /\ Gap(f) = f.sequence - marks[f.session].sequence - 1
    BY <1>1, <1>2 DEF Typed, NewBatch, Gap
  <1> HIDE DEF f
  <1>4. /\ w.sequence = f.sequence /\ w.iface = f.iface /\ w.row = NextRow(f)
        /\ w.sentAt = f.sentAt /\ w.health = f.health /\ w.complete = complete
        /\ w.gaps = marks[f.session].gaps + Gap(f) /\ w.duplicates = marks[f.session].duplicates
    BY DEF Watermark
  <1>5. w \in Mark
    BY <1>1, <1>2, <1>3, NowIsTime DEF Watermark, Mark, Typed
  <1> QED
    BY <1>3, <1>4, <1>5 DEF f

\* Of the rows of a table, the oldest is one.
LEMMA OldestRow ==
  ASSUME NEW w \in [Sessions -> Mark], NEW x \in Rows(w)
  PROVE  Oldest(w) \in Rows(w)
  <1> DEFINE T == {w[s].committedAt : s \in Rows(w)}
  <1>1. T \in SUBSET Nat /\ T # {}
    BY DEF Rows, Mark
  <1>2. PICK t \in T : \A y \in T : t <= y
    <2> HIDE DEF T
    <2> QED
      BY <1>1, MinExists
  <1> DEFINE A == {s \in Rows(w) : w[s].committedAt = t}
             R == {w[s].row : s \in A}
  <1>3. R \in SUBSET Nat /\ R # {}
    BY <1>2 DEF Rows, Mark
  <1>4. PICK r \in R : \A y \in R : r <= y
    <2> HIDE DEF R
    <2> QED
      BY <1>3, MinExists
  <1>5. PICK s \in A : w[s].row = r
    BY <1>4
  <1>6. ASSUME NEW y \in Rows(w)
        PROVE  \/ w[s].committedAt < w[y].committedAt
               \/ w[s].committedAt = w[y].committedAt /\ w[s].row <= w[y].row
    <2>1. w[s].committedAt = t /\ w[y].committedAt \in Nat /\ t \in Nat /\ t <= w[y].committedAt
      BY <1>1, <1>2, <1>5
    <2>2. CASE w[y].committedAt = t
      BY <1>4, <1>5, <2>1, <2>2
    <2>3. CASE w[y].committedAt # t
      BY <2>1, <2>3
    <2> QED
      BY <2>2, <2>3
  <1>7. s \in Rows(w)
    BY <1>5
  <1> QED
    BY <1>6, <1>7 DEF Oldest

\* Every row of the table afterwards is the new one, an old one, or gone.
LEMMA TableAfter ==
  ASSUME Typed, daemon.pc = "observed", NEW complete \in BOOLEAN, Commits(complete)
  PROVE  LET f == daemon.frame  w == Updated(complete) IN
         /\ w \in [Sessions -> Mark] /\ marks' \in [Sessions -> Mark]
         /\ w[f.session] = Watermark(f, complete) /\ f.session \in Rows(w)
         /\ \A s \in Sessions \ {f.session} : w[s] = marks[s]
         /\ \A s \in Sessions : marks'[s] = w[s] \/ marks'[s] = NoMark
         /\ \A s \in Sessions : \/ marks'[s] = w[s]
                                \/ /\ s \in Rows(w) /\ marks'[s] = NoMark
                                   /\ w[s].sentAt <= retiredBefore'
         /\ retiredBefore' \in Nat /\ retiredBefore' >= retiredBefore
  <1> DEFINE f == daemon.frame
             w == Updated(complete)
             o == Oldest(w)
  <1>1. f.session \in Sessions /\ f.sequence \in Nat \ {0} /\ marks \in [Sessions -> Mark]
    BY DEF Typed, TypeInvariant, Batch
  <1>2. w \in [Sessions -> Mark] /\ w[f.session] = Watermark(f, complete)
    BY <1>1, WatermarkRow DEF Updated
  <1>3. \A s \in Sessions \ {f.session} : w[s] = marks[s]
    BY <1>1 DEF Updated
  <1>4. f.session \in Rows(w)
    BY <1>1, <1>2, WatermarkRow DEF Rows
  <1> HIDE DEF w
  <1>5. o \in Rows(w)
    BY <1>2, <1>4, OldestRow
  <1>6. o \in Sessions /\ w[o].sentAt \in Nat /\ retiredBefore \in Nat
    BY <1>2, <1>5 DEF Rows, Mark, Typed, TypeInvariant
  <1>7. CASE Cardinality(Rows(w)) > MaxWatermarks
    <2>1. marks' = [w EXCEPT ![o] = NoMark] /\ retiredBefore' = Later(retiredBefore, w[o].sentAt)
      BY <1>7 DEF Commits, Kept, RetiredTo, w
    <2>2. retiredBefore' \in Nat /\ retiredBefore' >= retiredBefore /\ w[o].sentAt <= retiredBefore'
      BY <1>6, <2>1 DEF Later
    <2>3. marks' \in [Sessions -> Mark]
      BY <1>2, <2>1, EmptyTypes
    <2>4. \A s \in Sessions : marks'[s] = IF s = o THEN NoMark ELSE w[s]
      BY <1>2, <2>1
    <2> QED
      BY <1>2, <1>3, <1>4, <1>5, <2>2, <2>3, <2>4 DEF w
  <1>8. CASE ~(Cardinality(Rows(w)) > MaxWatermarks)
    <2>1. marks' = w /\ retiredBefore' = retiredBefore
      BY <1>8 DEF Commits, Kept, RetiredTo, w
    <2> QED
      BY <1>2, <1>3, <1>4, <1>6, <2>1 DEF w
  <1> QED
    BY <1>7, <1>8

\* The health a commit adds.
LEMMA RecordedAfter ==
  ASSUME TypeInvariant, daemon.pc = "observed", ~Refused(daemon.frame),
         NEW complete, Commits(complete)
  PROVE  LET f == daemon.frame  w == marks[f.session] IN
         /\ recorded' \in [Sessions -> Totals]
         /\ \A s \in Sessions \ {f.session} : recorded'[s] = recorded[s]
         /\ recorded'[f.session].seen = recorded[f.session].seen + (f.health.seen - w.health.seen)
         /\ recorded'[f.session].lost = recorded[f.session].lost + (f.health.lost - w.health.lost)
  <1> DEFINE f == daemon.frame
             h == marks[f.session].health
             d == Delta(f.health, h)
             t == Plus(recorded[f.session], d.seen, d.lost)
  <1>1. f \in Batch /\ f.session \in Sessions /\ f.health \in Health
    BY DEF TypeInvariant, Batch
  <1>2. h \in Health
    BY <1>1, MarkFields
  <1>3. f.health.lost >= h.lost /\ f.health.seen >= h.seen
    BY DEF Refused, Continues
  <1>4. /\ f.health.lost \in Nat /\ f.health.seen \in Nat /\ h.lost \in Nat /\ h.seen \in Nat
    BY <1>1, <1>2, BoundAssumption DEF Health
  <1>5. d.seen = f.health.seen - h.seen /\ d.lost = f.health.lost - h.lost
    BY <1>1 DEF Delta, Health
  <1>6. d.seen \in Nat /\ d.lost \in Nat
    BY <1>3, <1>4, <1>5
  <1> HIDE DEF d
  <1>7. recorded \in [Sessions -> Totals] /\ recorded[f.session] \in Totals
    BY <1>1 DEF TypeInvariant
  <1>8. t \in Totals /\ t.seen = recorded[f.session].seen + d.seen /\ t.lost = recorded[f.session].lost + d.lost
    BY ZenonT(40), <1>6, <1>7, PlusTotals
  <1>9. recorded' = [recorded EXCEPT ![f.session] = t]
    BY DEF Commits, d
  <1> HIDE DEF t
  <1>10. recorded' \in [Sessions -> Totals] /\ recorded'[f.session] = t
         /\ \A s \in Sessions \ {f.session} : recorded'[s] = recorded[s]
    BY <1>1, <1>7, <1>8, <1>9
  <1> QED
    BY <1>5, <1>8, <1>10

LEMMA CommitTypes ==
  ASSUME Typed, CommitSensorBatch
  PROVE  TypeInvariant'
  <1> DEFINE f == daemon.frame
  <1>0. TypeInvariant
    BY DEF Typed
  <1>1. PICK complete \in BOOLEAN : Commits(complete)
    BY <1>0, Commitment
  <1>2. /\ f \in Batch /\ f.session \in Sessions /\ f.sequence \in Nat /\ f.sentAt \in Nat
        /\ f.iface \in Ifaces /\ daemon.pc = "observed" /\ ~Refused(f)
    BY <1>0, Commitment DEF Batch
  <1>3. marks' \in [Sessions -> Mark] /\ retiredBefore' \in Nat
    BY <1>1, <1>2, TableAfter
  <1>4. recorded' \in [Sessions -> Totals]
    BY <1>0, <1>1, <1>2, RecordedAfter
  <1>5. acks' \in Seq(Acks)
    BY <1>0, <1>1, <1>2, AckTypes DEF Commits
  <1>6. committed' \subseteq [session : Sessions, sequence : Nat, complete : BOOLEAN]
    BY <1>0, <1>1, <1>2 DEF Commits, TypeInvariant
  <1>7. ended' \in [Ifaces -> Nat]
    BY <1>0, <1>1, <1>2 DEF Commits, TypeInvariant
  <1>8. gone' \subseteq Sessions
    BY <1>0, <1>1 DEF Commits, Rows, TypeInvariant
  <1>9. daemon' \in Daemon /\ daemon'.pc = "idle"
    BY <1>0, <1>2, WorkEnds
  <1> QED
    BY <1>0, <1>3, <1>4, <1>5, <1>6, <1>7, <1>8, <1>9, Commitment DEF TypeInvariant

\* A frame that arrives again is the last one on the wire.
LEMMA Resending ==
  ASSUME TypeInvariant, Resend
  PROVE  /\ Len(wire) \in Nat \ {0} /\ Len(wire) \in DOMAIN wire /\ DOMAIN wire = 1 .. Len(wire)
         /\ wire' \in Seq(Batch) /\ DOMAIN wire' = 1 .. Len(wire) + 1
         /\ \A k \in DOMAIN wire : wire'[k] = wire[k]
         /\ wire'[Len(wire) + 1] = wire[Len(wire)]
         /\ counts' = [counts EXCEPT !.resends = counts.resends + 1]
         /\ UNCHANGED <<clock, back, delivery, flushed, link, acks, daemon, marks, retiredBefore,
                        stored, truth, recorded, committed, gone, ended>>
  <1>1. /\ wire # <<>> /\ wire' = Append(wire, wire[Len(wire)])
        /\ counts' = [counts EXCEPT !.resends = counts.resends + 1]
        /\ UNCHANGED <<clock, back, delivery, flushed, link, acks, daemon, marks, retiredBefore,
                       stored, truth, recorded, committed, gone, ended>>
    BY DEF Resend, sensor, durable, ghost
  <1>2. Len(wire) \in Nat \ {0} /\ DOMAIN wire = 1 .. Len(wire)
    BY <1>1, WireHead
  <1>3. Len(wire) \in DOMAIN wire
    BY <1>2
  <1>4. wire[Len(wire)] \in Batch /\ wire \in Seq(Batch)
    BY <1>3, WireTypes
  <1> QED
    BY <1>1, <1>2, <1>3, <1>4, Appending

LEMMA ResendTypes ==
  ASSUME TypeInvariant, Resend
  PROVE  TypeInvariant'
  <1>1. counts' \in Counts
    <2>1. counts \in Counts /\ counts' = [counts EXCEPT !.resends = counts.resends + 1]
      BY Resending DEF TypeInvariant
    <2> QED
      BY <2>1 DEF Counts
  <1> QED
    BY <1>1, Resending DEF TypeInvariant

LEMMA CrashTypes ==
  ASSUME TypeInvariant, Crash
  PROVE  TypeInvariant'
  <1>1. counts' \in Counts
    <2>1. counts \in Counts /\ counts' = [counts EXCEPT !.crashes = counts.crashes + 1]
      BY DEF Crash, TypeInvariant
    <2> QED
      BY <2>1 DEF Counts
  <1>2. daemon' \in Daemon /\ daemon'.pc = "idle"
    BY EmptyTypes DEF Crash
  <1>3. wire' \in Seq(Batch) /\ link' \in [up : BOOLEAN, conn : Nat]
    BY EmptySeq DEF Crash, TypeInvariant
  <1>4. UNCHANGED <<clock, back, delivery, flushed, acks, marks, retiredBefore, stored, truth,
                    recorded, committed, gone, ended>>
    BY DEF Crash, durable, ghost
  <1> QED
    BY <1>1, <1>2, <1>3, <1>4 DEF TypeInvariant

\* Nothing but the clocks changes.
Still == UNCHANGED <<delivery, flushed, link, wire, acks, daemon, marks, retiredBefore, stored, counts,
                     truth, recorded, committed, gone, ended>>

LEMMA ClocksMove ==
  ASSUME TypeInvariant, Tick \/ (\E n \in 1 .. MaxBack : ClockBack(n)) \/ UNCHANGED vars
  PROVE  Still /\ clock' \in Nat /\ clock' >= clock /\ TypeInvariant'
  <1>0. clock \in Nat /\ back \in 0 .. MaxBack /\ clock > MaxBack /\ MaxBack \in Nat
    BY BoundAssumption DEF TypeInvariant
  <1>1. CASE Tick
    <2>1. Still /\ clock' = clock + 1 /\ back' = back
      BY <1>1 DEF Tick, Still, sensor, durable, ghost
    <2> QED
      BY <1>0, <2>1 DEF TypeInvariant, Still
  <1>2. ASSUME NEW n \in 1 .. MaxBack, ClockBack(n)
        PROVE  Still /\ clock' \in Nat /\ clock' >= clock /\ TypeInvariant'
    <2>1. Still /\ clock' = clock /\ back' = back + n /\ back + n <= MaxBack
      BY <1>2 DEF ClockBack, Still, sensor, durable, ghost
    <2>2. back' \in 0 .. MaxBack
      BY <1>0, <2>1
    <2> QED
      BY <1>0, <2>1, <2>2 DEF TypeInvariant, Still
  <1>3. CASE UNCHANGED vars
    <2>1. Still /\ clock' = clock /\ back' = back
      BY <1>3 DEF vars, Still, sensor, durable, ghost
    <2> QED
      BY <1>0, <2>1 DEF TypeInvariant, Still
  <1> QED
    BY <1>1, <1>2, <1>3

LEMMA TypeNext ==
  ASSUME Typed, [Next]_vars
  PROVE  TypeInvariant'
  <1>0. TypeInvariant
    BY DEF Typed
  <1>1. ASSUME NEW i \in Ifaces, NEW n \in Units, Send(i, n) PROVE TypeInvariant'
    BY <1>0, <1>1, SendTypes
  <1>2. ASSUME NEW i \in Ifaces, NEW n \in Units, SendFails(i, n) PROVE TypeInvariant'
    BY <1>0, <1>2, SendFailsTypes
  <1>3. ASSUME NEW i \in Ifaces, RetireInterface(i) PROVE TypeInvariant'
    BY <1>0, <1>3, RetireInterfaceTypes
  <1>4. CASE ReadACK
    BY <1>0, <1>4, ReadACKTypes
  <1>5. CASE ConnectionRejected
    BY <1>0, <1>5, ConnectionRejectedTypes
  <1>6. CASE ReceiveDuplicate
    BY <1>0, <1>6, ReceiveDuplicateTypes
  <1>7. CASE Receive
    BY <1>0, <1>7, ReceiveTypes
  <1>8. CASE FlushEvents
    BY <1>0, <1>8, FlushEventsTypes
  <1>9. CASE CommitSensorBatch
    BY <1>9, CommitTypes
  <1>10. CASE CommitFails
    BY <1>0, <1>10, CommitFailsTypes
  <1>11. CASE Resend
    BY <1>0, <1>11, ResendTypes
  <1>12. CASE Crash
    BY <1>0, <1>12, CrashTypes
  <1>13. CASE Tick \/ (\E n \in 1 .. MaxBack : ClockBack(n)) \/ UNCHANGED vars
    BY <1>0, <1>13, ClocksMove
  <1> QED
    BY <1>1, <1>2, <1>3, <1>4, <1>5, <1>6, <1>7, <1>8, <1>9, <1>10, <1>11, <1>12, <1>13
    DEF Next, SensorStep, DaemonStep

\* The batch at work stays a new one, and row ids stay bounded.
LEMMA TypedNext ==
  ASSUME Typed, [Next]_vars
  PROVE  Typed'
  <1>0. TypeInvariant /\ NewBatch /\ RowsBounded /\ TypeInvariant'
    BY TypeNext DEF Typed
  <1>1. CASE CommitSensorBatch
    <2> DEFINE f == daemon.frame
    <2>1. PICK complete \in BOOLEAN : Commits(complete)
      BY <1>0, <1>1, Commitment
    <2>2. daemon.pc = "observed" /\ f \in Batch /\ daemon'.pc = "idle"
      BY <1>0, <1>1, Commitment, WorkEnds
    <2>3. PICK b \in Nat : NextRow(f) <= b /\ \A s \in Sessions : marks[s].row <= b
      BY <1>0, <2>2, NextRowTypes
    <2>4. \A s \in Sessions : marks'[s].row <= b
      BY <2>1, <2>2, <2>3, TableAfter, WatermarkRow, EmptyTypes
    <2> QED
      BY <1>0, <2>2, <2>4 DEF Typed, NewBatch, RowsBounded
  <1>2. CASE Receive
    <2> DEFINE f == wire[1]
    <2>1. daemon'.frame = f /\ f \in Batch /\ ~Duplicate(f) /\ marks' = marks
      BY <1>0, <1>2, Reception DEF Receive, durable
    <2>2. f.session \in Sessions /\ f.sequence \in Nat \ {0} /\ marks[f.session].sequence \in Nat
      BY <1>0, <2>1, MarkFields DEF Batch
    <2>3. f.sequence > marks[f.session].sequence
      BY <2>1, <2>2 DEF Duplicate, Marked
    <2> QED
      BY <1>0, <2>1, <2>3 DEF Typed, NewBatch, RowsBounded
  <1>3. CASE ReceiveDuplicate
    <2>1. daemon.pc = "idle" /\ Head(wire) \in Batch /\ daemon' = Received(Head(wire))
      BY <1>0, <1>3, WireHead DEF ReceiveDuplicate
    <2>2. daemon'.pc = "idle"
      BY <1>0, <2>1, ReceivedTypes
    <2>3. \A s \in Sessions : marks'[s].row = marks[s].row
      BY <1>0, <1>3, DuplicateCounted
    <2> QED
      BY <1>0, <2>2, <2>3 DEF Typed, NewBatch, RowsBounded
  <1>4. CASE FlushEvents \/ CommitFails \/ Crash
    <2>1. marks' = marks
      BY <1>4 DEF FlushEvents, CommitFails, Crash, durable
    <2>2. daemon'.pc = "idle" \/ (daemon'.pc = daemon.pc /\ daemon'.frame = daemon.frame)
      <3>1. CASE FlushEvents
        BY <1>0, <3>1, EventsFlushed
      <3>2. CASE CommitFails
        BY <1>0, <3>2, WorkEnds DEF CommitFails
      <3>3. CASE Crash
        BY <3>3, EmptyTypes DEF Crash
      <3> QED
        BY <1>4, <3>1, <3>2, <3>3
    <2> QED
      BY <1>0, <2>1, <2>2 DEF Typed, NewBatch, RowsBounded
  <1>5. CASE ~(CommitSensorBatch \/ Receive \/ ReceiveDuplicate \/ FlushEvents \/ CommitFails \/ Crash)
    <2>1. marks' = marks /\ daemon' = daemon
      BY <1>5
      DEF Next, SensorStep, DaemonStep, Send, SendFails, Flushes, RetireInterface, ReadACK,
          ConnectionRejected, Resend, Tick, ClockBack, vars, durable
    <2> QED
      BY <1>0, <2>1 DEF Typed, NewBatch, RowsBounded
  <1> QED
    BY <1>1, <1>2, <1>3, <1>4, <1>5

\* At the start nothing is sent, known or recorded.
LEMMA InitTyped == Init => Typed
  <1> SUFFICES ASSUME Init PROVE Typed
    OBVIOUS
  <1>1. clock = MaxBack + 1 /\ back = 0 /\ MaxBack \in Nat /\ MaxSessions \in Nat
    BY BoundAssumption DEF Init
  <1>2. delivery \in [Ifaces -> Delivery] /\ flushed \in [Ifaces -> Nat]
    BY EmptyTypes DEF Init
  <1>3. link \in [up : BOOLEAN, conn : Nat] /\ wire \in Seq(Batch) /\ acks \in Seq(Acks)
    BY EmptySeq DEF Init
  <1>4. daemon \in Daemon /\ daemon.pc = "idle"
    BY EmptyTypes DEF Init
  <1>5. marks \in [Sessions -> Mark] /\ \A s \in Sessions : marks[s].row <= 0
    BY EmptyTypes DEF Init
  <1>6. retiredBefore = 0 /\ stored = {} /\ gone = {} /\ committed = {}
    BY DEF Init
  <1>7. counts \in Counts
    BY <1>1 DEF Init, Counts
  <1>8. truth \in [Sessions -> Totals] /\ recorded \in [Sessions -> Totals] /\ ended \in [Ifaces -> Nat]
    <2>1. NoHealth \in Totals
      BY DEF NoHealth, Totals
    <2> QED
      BY <2>1 DEF Init
  <1> QED
    BY <1>1, <1>2, <1>3, <1>4, <1>5, <1>6, <1>7, <1>8 DEF Typed, TypeInvariant, NewBatch, RowsBounded

\* Every variable stays in its domain, whatever is lost, repeated or restarted.
THEOREM TypesKept == Spec => []TypeInvariant
  <1>1. Typed /\ [Next]_vars => Typed'
    BY TypedNext
  <1>2. Typed => TypeInvariant
    BY DEF Typed
  <1> QED
    BY <1>1, <1>2, InitTyped, PTL DEF Spec

-----------------------------------------------------------------------------
(* Frames, counters and watermarks advance together *)

LEMMA FlyingTypes ==
  ASSUME TypeInvariant
  PROVE  \A f \in Flying :
            /\ f \in Batch /\ f.iface \in Ifaces /\ f.session \in Sessions /\ f.sequence \in Nat \ {0}
            /\ f.sentAt \in Nat /\ f.health \in Health
  <1> SUFFICES ASSUME NEW f \in Flying PROVE f \in Batch
    BY DEF Batch
  <1>1. CASE \E k \in DOMAIN wire : f = wire[k]
    BY <1>1, WireTypes
  <1>2. CASE daemon.pc = "observed" /\ f = daemon.frame
    BY <1>2 DEF TypeInvariant
  <1> QED
    BY <1>1, <1>2 DEF Flying

\* The counters of a health record.
LEMMA HealthFields ==
  ASSUME NEW h \in Health
  PROVE  h.lost \in Nat /\ h.seen \in Nat /\ h.saturated \in BOOLEAN
  BY BoundAssumption DEF Health

\* The daemon works on the frame it worked on, or on the one it just read.
Works(m) ==
    daemon'.pc = "observed" => \/ daemon.pc = "observed" /\ daemon'.frame = daemon.frame
                               \/ m \in DOMAIN wire /\ daemon'.frame = wire[m]

\* Reading frames, dropping them and losing them keeps their order.
LEMMA OrderKept ==
  ASSUME TypeInvariant, FramesInOrder, NEW m \in Nat, WireDrops(m), Works(m)
  PROVE  FramesInOrder' /\ Flying' \subseteq Flying
  <1>1. \A k \in DOMAIN wire' : k \in Nat /\ k >= 1 /\ k + m \in DOMAIN wire /\ wire'[k] = wire[k + m]
    BY WireTypes DEF WireDrops
  <1>2. \A j, k \in DOMAIN wire' : j < k => Follows(wire'[j], wire'[k])
    <2> SUFFICES ASSUME NEW j \in DOMAIN wire', NEW k \in DOMAIN wire', j < k
                 PROVE  Follows(wire'[j], wire'[k])
      OBVIOUS
    <2>1. j + m < k + m
      BY <1>1
    <2> QED
      BY <1>1, <2>1 DEF FramesInOrder
  <1>3. daemon'.pc = "observed" => \A k \in DOMAIN wire' : Follows(daemon'.frame, wire'[k])
    <2> SUFFICES ASSUME daemon'.pc = "observed", NEW k \in DOMAIN wire'
                 PROVE  Follows(daemon'.frame, wire'[k])
      OBVIOUS
    <2>1. CASE daemon.pc = "observed" /\ daemon'.frame = daemon.frame
      BY <1>1, <2>1 DEF FramesInOrder
    <2>2. CASE m \in DOMAIN wire /\ daemon'.frame = wire[m]
      <3>1. m < k + m
        BY <1>1
      <3> QED
        BY <1>1, <2>2, <3>1 DEF FramesInOrder
    <2> QED
      BY <2>1, <2>2 DEF Works
  <1>4. Flying' \subseteq Flying
    <2> SUFFICES ASSUME NEW f \in Flying' PROVE f \in Flying
      OBVIOUS
    <2>1. CASE \E k \in DOMAIN wire' : f = wire'[k]
      BY <1>1, <2>1 DEF Flying
    <2>2. CASE daemon'.pc = "observed" /\ f = daemon'.frame
      BY <2>2 DEF Flying, Works
    <2> QED
      BY <2>1, <2>2 DEF Flying
  <1>5. FramesInOrder'
    <2>1. (\A j, k \in DOMAIN wire : j < k => Follows(wire[j], wire[k]))'
      BY <1>2 DEF Follows
    <2>2. (daemon.pc = "observed" => \A k \in DOMAIN wire : Follows(daemon.frame, wire[k]))'
      BY <1>3 DEF Follows
    <2> QED
      BY <2>1, <2>2 DEF FramesInOrder
  <1> QED
    BY <1>4, <1>5

\* A step that reads, drops or forgets: nothing new is sent, no watermark moves.
Quiet ==
    /\ Flying' \subseteq Flying
    /\ counts'.sessions = counts.sessions /\ truth' = truth
    /\ \A s \in Sessions : /\ marks'[s].sequence = marks[s].sequence
                           /\ marks'[s].iface = marks[s].iface /\ marks'[s].health = marks[s].health
    /\ \A i \in Ifaces : \/ delivery'[i].session = 0
                         \/ /\ delivery'[i].session = delivery[i].session
                            /\ delivery'[i].sent = delivery[i].sent
                            /\ delivery'[i].health = delivery[i].health
    /\ \A id \in Heard' : id \in Heard \/ \E f \in Flying : id = IdOf(f)
    /\ \A i \in Ifaces : \/ daemon'.prepared[i].session \in {0, daemon.prepared[i].session}
                         \/ \E f \in Flying : f.iface = i /\ daemon'.prepared[i].session = f.session

LEMMA QuietDelivers ==
  ASSUME TypeInvariant, Delivered, Quiet, FramesInOrder'
  PROVE  Delivered'
  <1>1. SessionsKnown'
    <2>1. (\A f \in Flying : f.session <= counts.sessions)'
      BY DEF Delivered, SessionsKnown, Quiet
    <2>2. (\A s \in Sessions : Marked(s) => s <= counts.sessions)'
      BY DEF Delivered, SessionsKnown, Quiet, Marked
    <2>3. (\A id \in Heard : id[1] <= counts.sessions)'
      <3> SUFFICES ASSUME NEW id \in Heard' PROVE id[1] <= counts.sessions
        BY DEF Quiet
      <3>1. CASE id \in Heard
        BY <3>1 DEF Delivered, SessionsKnown
      <3>2. ASSUME NEW f \in Flying, id = IdOf(f) PROVE id[1] <= counts.sessions
        BY <3>2 DEF Delivered, SessionsKnown, IdOf
      <3> QED
        BY <3>1, <3>2 DEF Quiet
    <2>4. (\A i \in Ifaces : /\ delivery[i].session <= counts.sessions
                             /\ daemon.prepared[i].session <= counts.sessions)'
      <3> SUFFICES ASSUME NEW i \in Ifaces
                   PROVE  /\ delivery'[i].session <= counts.sessions
                          /\ daemon'.prepared[i].session <= counts.sessions
        BY DEF Quiet
      <3>1. 0 <= counts.sessions
        BY DEF TypeInvariant, Counts
      <3>2. delivery[i].session <= counts.sessions /\ daemon.prepared[i].session <= counts.sessions
        BY DEF Delivered, SessionsKnown
      <3>3. \A f \in Flying : f.session <= counts.sessions
        BY DEF Delivered, SessionsKnown
      <3> QED
        BY <3>1, <3>2, <3>3 DEF Quiet
    <2> QED
      BY <2>1, <2>2, <2>3, <2>4 DEF SessionsKnown
  <1>2. MarksSound'
    BY DEF Delivered, MarksSound, Quiet, Marked
  <1>3. ASSUME NEW i \in Ifaces PROVE SenderAhead(i)'
    <2> SUFFICES ASSUME delivery'[i].session # 0 PROVE SenderAhead(i)'
      BY DEF SenderAhead
    <2> DEFINE d == delivery[i]
    <2>1. /\ delivery'[i].session = d.session /\ delivery'[i].sent = d.sent
          /\ delivery'[i].health = d.health /\ d.session # 0
      BY DEF Quiet
    <2>2. SenderAhead(i) /\ d.session \in Sessions
      BY <2>1 DEF Delivered, TypeInvariant, Delivery
    <2>3. \A j \in Ifaces : delivery'[j].session = d.session => j = i
      BY <2>1, <2>2 DEF SenderAhead, Quiet
    <2>4. \A id \in Heard' : id[1] = d.session => id[2] <= d.sent
      <3> SUFFICES ASSUME NEW id \in Heard', id[1] = d.session PROVE id[2] <= d.sent
        OBVIOUS
      <3>1. CASE id \in Heard
        BY <2>1, <2>2, <3>1 DEF SenderAhead
      <3>2. ASSUME NEW f \in Flying, id = IdOf(f) PROVE id[2] <= d.sent
        BY <2>1, <2>2, <3>2 DEF SenderAhead, IdOf
      <3> QED
        BY <3>1, <3>2 DEF Quiet
    <2>5. daemon'.prepared[i].session <= d.session
      <3>1. 0 <= d.session /\ daemon.prepared[i].session <= d.session
        BY <2>1, <2>2 DEF SenderAhead, Sessions
      <3>2. \A f \in Flying : f.iface = i => f.session <= d.session
        BY <2>1, <2>2 DEF SenderAhead
      <3> QED
        BY <3>1, <3>2 DEF Quiet
    <2>6. /\ d.health.seen <= truth[d.session].seen /\ d.health.lost <= truth[d.session].lost
          /\ d.health.lost <= d.sent
      BY <2>1, <2>2 DEF SenderAhead
    <2>7. \A f \in Flying' :
            /\ f.session = d.session =>
                f.iface = i /\ f.sequence <= d.sent /\ Grown(d.health, f.health, d.sent - f.sequence)
            /\ f.iface = i => f.session <= d.session
      BY <2>1, <2>2 DEF SenderAhead, Quiet
    <2>8. LET w == marks'[d.session] IN
            w.sequence <= d.sent /\ Grown(d.health, w.health, d.sent - w.sequence)
      BY <2>1, <2>2 DEF SenderAhead, Quiet
    <2>9. /\ marks'[d.session].sequence > 0 => marks'[d.session].iface = i
          /\ \A s \in Sessions : marks'[s].sequence > 0 /\ marks'[s].iface = i => s <= d.session
      BY <2>1, <2>2 DEF SenderAhead, Quiet, Marked
    <2>10. truth' = truth
      BY DEF Quiet
    <2> HIDE DEF d
    <2> QED
      BY <2>1, <2>3, <2>4, <2>5, <2>6, <2>7, <2>8, <2>9, <2>10 DEF SenderAhead, Marked, Grown, Continues
  <1>4. ASSUME NEW f \in Flying' PROVE FrameAhead(f)'
    <2>1. f \in Flying /\ f.session \in Sessions /\ FrameAhead(f)
      BY FlyingTypes DEF Quiet, Delivered
    <2> QED
      BY <2>1 DEF FrameAhead, Quiet, Marked, Grown, Continues
  <1> QED
    BY <1>1, <1>2, <1>3, <1>4 DEF Delivered

\* The steps that neither send nor commit.
QuietStep ==
    \/ \E i \in Ifaces : RetireInterface(i)
    \/ ReadACK \/ ConnectionRejected \/ ReceiveDuplicate \/ Receive \/ FlushEvents
    \/ CommitFails \/ Resend \/ Crash
    \/ Tick \/ (\E n \in 1 .. MaxBack : ClockBack(n)) \/ UNCHANGED vars

LEMMA QuietSteps ==
  ASSUME TypeInvariant, Delivered, QuietStep
  PROVE  Quiet /\ FramesInOrder'
  <1>0. FramesInOrder
    BY DEF Delivered
  <1>a. ASSUME NEW i \in Ifaces, RetireInterface(i) PROVE Quiet /\ FramesInOrder'
    <2>1. UNCHANGED <<wire, daemon, marks, stored, counts, truth>>
      BY <1>a DEF RetireInterface, durable, ghost
    <2>2. WireDrops(0) /\ Works(0)
      BY <2>1, WireUnchanged DEF Works
    <2>3. \A j \in Ifaces : delivery'[j] = delivery[j] \/ delivery'[j].session = 0
      BY <1>a DEF RetireInterface, TypeInvariant, NoState
    <2>4. FramesInOrder' /\ Flying' \subseteq Flying
      BY <1>0, <2>2, OrderKept
    <2> QED
      BY <2>1, <2>3, <2>4 DEF Quiet, Heard
  <1>b. CASE ReadACK
    <2>1. UNCHANGED <<wire, daemon, marks, stored, counts, truth>>
      BY <1>b DEF ReadACK, durable, ghost
    <2>2. WireDrops(0) /\ Works(0)
      BY <2>1, WireUnchanged DEF Works
    <2>3. FramesInOrder' /\ Flying' \subseteq Flying
      BY <1>0, <2>2, OrderKept
    <2> QED
      BY <1>b, <2>1, <2>3, AckRead DEF Quiet, Heard
  <1>c. CASE ConnectionRejected
    <2>1. UNCHANGED <<delivery, daemon, marks, stored, counts, truth>>
      BY <1>c DEF ConnectionRejected, durable, ghost
    <2>2. PICK m \in 0 .. Len(wire) : WireDrops(m)
      BY <1>c, WireAbandoned DEF ConnectionRejected
    <2>3. m \in Nat /\ Works(m)
      BY <2>1, WireTypes DEF Works
    <2>4. FramesInOrder' /\ Flying' \subseteq Flying
      BY <1>0, <2>2, <2>3, OrderKept
    <2> QED
      BY <2>1, <2>4 DEF Quiet, Heard
  <1>d. CASE ReceiveDuplicate
    <2>1. UNCHANGED <<delivery, stored, counts, truth>> /\ wire # <<>> /\ WireDrops(1) /\ daemon.pc = "idle"
      BY <1>d, WireTail DEF ReceiveDuplicate, sensor, ghost
    <2>2. /\ daemon'.pc = "idle" /\ daemon'.prepared = daemon.prepared
          /\ daemon'.pending = daemon.pending /\ daemon'.observed = daemon.observed
      BY <1>d, <2>1, WireHead, ReceivedTypes DEF ReceiveDuplicate
    <2>3. FramesInOrder' /\ Flying' \subseteq Flying
      BY <1>0, <2>1, <2>2, OrderKept DEF Works
    <2> QED
      BY <1>d, <2>1, <2>2, <2>3, DuplicateCounted DEF Quiet, Heard
  <1>e. CASE Receive
    <2> DEFINE f == wire[1]
    <2>1. UNCHANGED <<delivery, marks, stored, counts, truth>>
      BY <1>e DEF Receive, sensor, durable, ghost
    <2>2. WireDrops(1) /\ daemon'.frame = f /\ f \in Batch /\ wire # <<>>
      BY <1>e, Reception
    <2>3. 1 \in DOMAIN wire /\ f \in Flying
      BY <2>2, WireHead DEF Flying
    <2>4. FramesInOrder' /\ Flying' \subseteq Flying
      BY <1>0, <2>2, <2>3, OrderKept DEF Works
    <2>5. CASE IsPrepared(f)
      <3>1. /\ daemon'.prepared = daemon.prepared /\ daemon'.pending = daemon.pending
            /\ daemon'.observed = daemon.observed
        BY <1>e, <2>5, Reception
      <3> QED
        BY <2>1, <2>4, <3>1 DEF Quiet, Heard
    <2>6. CASE ~IsPrepared(f)
      <3>1. /\ daemon'.observed = daemon.observed \cup {IdOf(f)}
            /\ \A i \in Ifaces \ {f.iface} : daemon'.prepared[i] = daemon.prepared[i]
            /\ daemon'.prepared[f.iface].session = f.session
            /\ daemon'.prepared[f.iface].events \in {{}, {IdOf(f)}}
            /\ daemon'.pending = daemon.pending \cup daemon'.prepared[f.iface].events
        BY <1>e, <2>6, Reception
      <3>2. \A id \in Heard' : id \in Heard \/ id = IdOf(f)
        BY <2>1, <3>1 DEF Heard
      <3>3. \A i \in Ifaces : \/ daemon'.prepared[i].session \in {0, daemon.prepared[i].session}
                              \/ \E g \in Flying : g.iface = i /\ daemon'.prepared[i].session = g.session
        BY <2>3, <3>1
      <3> HIDE DEF f
      <3> QED
        BY <2>1, <2>3, <2>4, <3>2, <3>3 DEF Quiet
    <2> QED
      BY <2>5, <2>6
  <1>f. CASE FlushEvents
    <2>1. UNCHANGED <<wire, delivery, marks, counts, truth>>
      BY <1>f DEF FlushEvents, sensor, durable, ghost
    <2>2. WireDrops(0) /\ Works(0)
      BY <1>f, <2>1, WireUnchanged, EventsFlushed DEF Works
    <2>3. FramesInOrder' /\ Flying' \subseteq Flying
      BY <1>0, <2>2, OrderKept
    <2>4. \A id \in Heard' : id \in Heard
      BY <1>f, EventsFlushed DEF Heard
    <2> QED
      BY <1>f, <2>1, <2>3, <2>4, EventsFlushed DEF Quiet
  <1>g. CASE CommitFails
    <2>1. UNCHANGED <<wire, delivery, marks, stored, truth>> /\ counts'.sessions = counts.sessions
      BY <1>g DEF CommitFails, sensor, durable, ghost, TypeInvariant, Counts
    <2>2. /\ daemon'.pc = "idle" /\ daemon'.pending = daemon.pending /\ daemon'.observed = daemon.observed
          /\ \A i \in Ifaces : daemon'.prepared[i] = daemon.prepared[i] \/ daemon'.prepared[i] = NoPrepared
      BY <1>g, WorkEnds DEF CommitFails
    <2>3. FramesInOrder' /\ Flying' \subseteq Flying
      BY <1>0, <2>1, <2>2, WireUnchanged, OrderKept DEF Works
    <2> QED
      BY <2>1, <2>2, <2>3, EmptyTypes DEF Quiet, Heard
  <1>h. CASE Resend
    <2>1. UNCHANGED <<delivery, daemon, marks, stored, truth>> /\ counts'.sessions = counts.sessions
      BY <1>h, Resending DEF TypeInvariant, Counts
    <2>2. Flying' \subseteq Flying
      <3> SUFFICES ASSUME NEW k \in DOMAIN wire' PROVE \E j \in DOMAIN wire : wire'[k] = wire[j]
        BY <2>1 DEF Flying
      <3> QED
        BY <1>h, Resending
    <2>3. FramesInOrder'
      <3> DEFINE n == Len(wire)
      <3>1. /\ n \in Nat \ {0} /\ DOMAIN wire = 1 .. n /\ DOMAIN wire' = 1 .. n + 1
            /\ \A k \in 1 .. n : wire'[k] = wire[k]
            /\ wire'[n + 1] = wire[n]
        BY <1>h, Resending
      <3> HIDE DEF n
      <3>2. \A j, k \in DOMAIN wire' : j < k => Follows(wire'[j], wire'[k])
        <4> SUFFICES ASSUME NEW j \in DOMAIN wire', NEW k \in DOMAIN wire', j < k
                     PROVE  Follows(wire'[j], wire'[k])
          OBVIOUS
        <4>1. CASE k \in 1 .. n
          BY <1>0, <3>1, <4>1 DEF FramesInOrder
        <4>2. CASE k = n + 1 /\ j < n
          BY <1>0, <3>1, <4>2 DEF FramesInOrder
        <4>3. CASE k = n + 1 /\ j = n
          <5>1. wire'[j] = wire[n] /\ wire'[k] = wire[n] /\ wire[n] \in Batch
            BY <3>1, <4>3, WireTypes
          <5>2. wire[n].session \in Nat
            BY <5>1 DEF Batch, Sessions
          <5> QED
            BY <5>1, <5>2 DEF Follows
        <4> QED
          BY <3>1, <4>1, <4>2, <4>3
      <3>3. daemon.pc = "observed" => \A k \in DOMAIN wire' : Follows(daemon.frame, wire'[k])
        <4> SUFFICES ASSUME daemon.pc = "observed", NEW k \in DOMAIN wire'
                     PROVE  Follows(daemon.frame, wire'[k])
          OBVIOUS
        <4>1. \E j \in DOMAIN wire : wire'[k] = wire[j]
          BY <3>1
        <4> QED
          BY <1>0, <4>1 DEF FramesInOrder
      <3>4. (\A j, k \in DOMAIN wire : j < k => Follows(wire[j], wire[k]))'
        BY <3>2 DEF Follows
      <3>5. (daemon.pc = "observed" => \A k \in DOMAIN wire : Follows(daemon.frame, wire[k]))'
        BY <2>1, <3>3 DEF Follows
      <3> QED
        BY <3>4, <3>5 DEF FramesInOrder
    <2> QED
      BY <2>1, <2>2, <2>3 DEF Quiet, Heard
  <1>i. CASE Crash
    <2>1. UNCHANGED <<delivery, marks, stored, truth>> /\ counts'.sessions = counts.sessions
      BY <1>i DEF Crash, durable, ghost, TypeInvariant, Counts
    <2>2. /\ daemon'.pc = "idle" /\ daemon'.pending = {} /\ daemon'.observed = {}
          /\ \A i \in Ifaces : daemon'.prepared[i] = NoPrepared
      BY <1>i DEF Crash, Rested
    <2>3. WireDrops(Len(wire)) /\ Works(Len(wire)) /\ Len(wire) \in Nat
      BY <1>i, <2>2, WireCut, WireTypes DEF Crash, Works
    <2>4. FramesInOrder' /\ Flying' \subseteq Flying
      BY <1>0, <2>3, OrderKept
    <2> QED
      BY <2>1, <2>2, <2>4, EmptyTypes DEF Quiet, Heard
  <1>j. CASE Tick \/ (\E n \in 1 .. MaxBack : ClockBack(n)) \/ UNCHANGED vars
    <2>1. UNCHANGED <<delivery, wire, daemon, marks, stored, counts, truth>>
      BY <1>j, ClocksMove DEF Still
    <2>2. FramesInOrder' /\ Flying' \subseteq Flying
      BY <1>0, <2>1, WireUnchanged, OrderKept DEF Works
    <2> QED
      BY <2>1, <2>2 DEF Quiet, Heard
  <1> QED
    BY <1>a, <1>b, <1>c, <1>d, <1>e, <1>f, <1>g, <1>h, <1>i, <1>j DEF QuietStep

LEMMA QuietNext ==
  ASSUME TypeInvariant, Delivered, QuietStep
  PROVE  Delivered'
  BY QuietSteps, QuietDelivers

\* Before a batch is identified, its session is ahead of all that is known of it.
LEMMA SenderReady ==
  ASSUME TypeInvariant, Delivered, NEW i \in Ifaces, SessionsWith(i) <= MaxSessions
  PROVE  LET o == Opened(i)  s == o.session IN
         /\ s \in Sessions /\ s <= SessionsWith(i) /\ counts.sessions <= SessionsWith(i)
         /\ o.sent \in Nat /\ o.health \in Health
         /\ o.health.lost <= o.sent
         /\ o.health.seen <= truth[s].seen /\ o.health.lost <= truth[s].lost
         /\ \A f \in Flying :
             /\ f.session = s =>
                 f.iface = i /\ f.sequence <= o.sent /\ Grown(o.health, f.health, o.sent - f.sequence)
             /\ f.iface = i => f.session <= s
         /\ marks[s].sequence <= o.sent /\ Grown(o.health, marks[s].health, o.sent - marks[s].sequence)
         /\ Marked(s) => marks[s].iface = i
         /\ \A t \in Sessions : Marked(t) /\ marks[t].iface = i => t <= s
         /\ \A id \in Heard : id[1] = s => id[2] <= o.sent
         /\ daemon.prepared[i].session <= s
         /\ \A j \in Ifaces : delivery[j].session = s => j = i
  <1> DEFINE o == Opened(i)
             s == o.session
  <1>1. s \in Sessions /\ o.sent \in Nat /\ o.health \in Health
    BY Identification DEF Delivery
  <1>2. counts.sessions \in Nat /\ SessionsKnown
    BY DEF TypeInvariant, Counts, Delivered
  <1>3. CASE delivery[i].session = 0
    <2>1. /\ SessionsWith(i) = counts.sessions + 1 /\ s = counts.sessions + 1 /\ o.sent = 0
          /\ o.health = NoHealth
      BY <1>3 DEF SessionsWith, Opened, NoState
    <2>2. \A f \in Flying : f.session \in Nat /\ f.session <= counts.sessions
      BY <1>2, FlyingTypes DEF SessionsKnown, Sessions
    <2>3. ~Marked(s) /\ marks[s].sequence \in Nat
      BY <1>1, <1>2, <2>1, MarkFields DEF SessionsKnown
    <2>4. marks[s].sequence = 0 /\ marks[s].health = NoHealth
      BY <1>1, <2>3 DEF Marked, Delivered, MarksSound
    <2>5. \A t \in Sessions : t \in Nat /\ (Marked(t) => t <= counts.sessions)
      BY <1>2 DEF SessionsKnown, Sessions
    <2>6. \A id \in Heard : id[1] \in Nat /\ id[1] <= counts.sessions
      BY SMTT(30), <1>2, DaemonTypes DEF SessionsKnown, Heard, Id, Sessions, TypeInvariant
    <2>7. \A j \in Ifaces : /\ delivery[j].session \in Nat /\ delivery[j].session <= counts.sessions
                            /\ daemon.prepared[j].session \in Nat
                            /\ daemon.prepared[j].session <= counts.sessions
      <3> SUFFICES ASSUME NEW j \in Ifaces
                   PROVE  /\ delivery[j].session \in Nat /\ delivery[j].session <= counts.sessions
                          /\ daemon.prepared[j].session \in Nat
                          /\ daemon.prepared[j].session <= counts.sessions
        OBVIOUS
      <3>1. delivery[j] \in Delivery /\ daemon.prepared[j] \in Prepared
        BY DaemonTypes DEF TypeInvariant
      <3>2. delivery[j].session \in Nat /\ daemon.prepared[j].session \in Nat
        BY <3>1 DEF Delivery, Prepared, Sessions
      <3> QED
        BY <1>2, <3>2 DEF SessionsKnown
    <2>8. NoHealth.lost = 0 /\ NoHealth.seen = 0 /\ Grown(NoHealth, NoHealth, 0)
      BY DEF NoHealth, Grown, Continues
    <2>9. truth[s].seen \in Nat /\ truth[s].lost \in Nat
      BY <1>1 DEF TypeInvariant, Totals
    <2> QED
      BY <1>1, <1>2, <2>1, <2>2, <2>3, <2>4, <2>5, <2>6, <2>7, <2>8, <2>9
  <1>4. CASE delivery[i].session # 0
    <2>1. o = delivery[i] /\ SessionsWith(i) = counts.sessions
      BY <1>2, <1>4 DEF SessionsWith, Opened
    <2>2. SenderAhead(i) /\ delivery[i].session <= counts.sessions
      BY <1>2 DEF Delivered, SessionsKnown
    <2> QED
      BY SMTT(30), <1>1, <1>2, <1>4, <2>1, <2>2 DEF SenderAhead
  <1> QED
    BY <1>3, <1>4

\* A window of interface i was sent, with frame f on the wire, or not.
Sends(i, f) ==
    LET o == Opened(i)  d == delivery'[i] IN
    /\ f \in Batch /\ f.iface = i /\ f.session = d.session /\ f.sequence = d.sent
    /\ f.health = d.health /\ f.sentAt = Now /\ d.health.lost = o.health.lost
    /\ wire' = Append(wire, f)
Window(i) ==
    LET o == Opened(i)  d == delivery'[i] IN
    /\ d \in Delivery /\ d.session = o.session /\ d.sent = o.sent + 1
    /\ d.committed = o.committed /\ d.complete = FALSE
    /\ Grown(d.health, o.health, 1)
    /\ d.health.seen <= truth'[d.session].seen /\ d.health.lost <= truth'[d.session].lost
    /\ \A j \in Ifaces \ {i} : delivery'[j] = delivery[j]
    /\ counts'.sessions = SessionsWith(i) /\ SessionsWith(i) <= MaxSessions
    /\ \A t \in Sessions : /\ truth'[t].seen \in Nat /\ truth'[t].lost \in Nat
                           /\ truth'[t].seen >= truth[t].seen /\ truth'[t].lost >= truth[t].lost
    /\ UNCHANGED <<clock, back, daemon, marks, retiredBefore, stored, recorded, committed, gone, ended>>
    /\ acks' \in {acks, <<>>}
    /\ wire' = wire \/ \E f : Sends(i, f)

LEMMA SendWindow ==
  ASSUME TypeInvariant, Delivered, NEW i \in Ifaces, NEW n \in Units, Send(i, n)
  PROVE  Window(i)
  <1> DEFINE o == Opened(i)
             state == Identified(i, n)
             f == Frame(i, state)
  <1>1. n \in Nat /\ Flushes(i) /\ SessionsWith(i) <= MaxSessions
    BY BoundAssumption DEF Send, Flushes
  <1>2. /\ state \in Delivery /\ state.session \in Sessions /\ o.session = state.session
        /\ state.sent = o.sent + 1 /\ state.committed = o.committed /\ state.complete = FALSE
        /\ state.health = Add(o.health, "seen", n)
    BY <1>1, Identification
  <1>3. /\ o.sent \in Nat /\ o.health \in Health
        /\ o.health.seen <= truth[state.session].seen /\ o.health.lost <= truth[state.session].lost
    BY <1>1, <1>2, SenderReady
  <1>4. /\ state.health \in Health /\ Continues(state.health, o.health)
        /\ state.health.seen <= o.health.seen + n /\ state.health.lost = o.health.lost
    BY <1>1, <1>2, <1>3, AddSeen
  <1>5. delivery'[i] = state /\ \A j \in Ifaces \ {i} : delivery'[j] = delivery[j]
    BY DEF Send, TypeInvariant
  <1>6. /\ truth'[state.session].seen = truth[state.session].seen + n
        /\ truth'[state.session].lost = truth[state.session].lost
        /\ \A t \in Sessions : /\ truth[t].seen \in Nat /\ truth[t].lost \in Nat
                               /\ truth'[t].seen \in Nat /\ truth'[t].lost \in Nat
                               /\ truth'[t].seen >= truth[t].seen /\ truth'[t].lost >= truth[t].lost
    <2>1. Witness(state.session, n, 0)
      BY DEF Send
    <2>2. \A t \in Sessions : truth[t].seen \in Nat /\ truth[t].lost \in Nat
      BY DEF TypeInvariant, Totals
    <2>3. /\ truth'[state.session].seen = truth[state.session].seen + n
          /\ truth'[state.session].lost = truth[state.session].lost + 0
          /\ \A t \in Sessions : /\ truth'[t].seen \in Nat /\ truth'[t].lost \in Nat
                                 /\ truth'[t].seen >= truth[t].seen /\ truth'[t].lost >= truth[t].lost
      BY <1>1, <1>2, <2>1, WitnessTypes
    <2> QED
      BY <1>2, <2>2, <2>3
  <1>7. Grown(state.health, o.health, 1)
    BY <1>3, <1>4, HealthFields DEF Grown
  <1>8. /\ state.health.seen <= truth'[state.session].seen
        /\ state.health.lost <= truth'[state.session].lost
    <2>1. /\ o.health.seen \in Nat /\ state.health.seen \in Nat /\ o.health.lost \in Nat
      BY <1>3, <1>4, HealthFields
    <2> QED
      BY <1>1, <1>2, <1>3, <1>4, <1>6, <2>1
  <1>9. counts'.sessions = SessionsWith(i)
    BY DEF Send, TypeInvariant, Counts
  <1>10. /\ f \in Batch /\ f.iface = i /\ f.session = state.session /\ f.sequence = state.sent
         /\ f.sentAt = Now /\ f.health = state.health
    <2>1. state.sent # 0
      BY <1>2, <1>3
    <2> QED
      BY <1>2, <2>1, FrameTypes
  <1>11. wire' = wire \/ Sends(i, f)
    <2>1. wire' = wire \/ wire' = Append(wire, f)
      BY DEF Send
    <2> HIDE DEF state, f
    <2> QED
      BY <1>4, <1>5, <1>10, <2>1 DEF Sends
  <1>12. /\ UNCHANGED <<clock, back, daemon, marks, retiredBefore, stored, recorded, committed, gone, ended>>
         /\ acks' \in {acks, <<>>}
    BY <1>1 DEF Flushes, durable, Send
  <1> HIDE DEF state, f
  <1> QED
    BY <1>1, <1>2, <1>5, <1>6, <1>7, <1>8, <1>9, <1>11, <1>12 DEF Window

LEMMA SendFailsWindow ==
  ASSUME TypeInvariant, Delivered, NEW i \in Ifaces, NEW n \in Units, SendFails(i, n)
  PROVE  Window(i)
  <1> DEFINE o == Opened(i)
             state == Identified(i, n)
             l == LossRetained(state)
  <1>1. n \in Nat /\ Flushes(i) /\ SessionsWith(i) <= MaxSessions
    BY BoundAssumption DEF SendFails, Flushes
  <1>2. /\ state \in Delivery /\ state.session \in Sessions /\ o.session = state.session
        /\ state.sent = o.sent + 1 /\ state.committed = o.committed
        /\ state.health = Add(o.health, "seen", n)
    BY <1>1, Identification
  <1>3. /\ o.sent \in Nat /\ o.health \in Health
        /\ o.health.seen <= truth[state.session].seen /\ o.health.lost <= truth[state.session].lost
    BY <1>1, <1>2, SenderReady
  <1>4. /\ state.health \in Health /\ Continues(state.health, o.health)
        /\ state.health.seen <= o.health.seen + n /\ state.health.lost = o.health.lost
    BY <1>1, <1>2, <1>3, AddSeen
  <1>5. /\ l \in Delivery /\ l.session = state.session /\ l.sent = state.sent
        /\ l.committed = state.committed /\ l.complete = FALSE
        /\ l.health = Add(state.health, "lost", 1)
    BY <1>2, LossRetention
  <1>6. /\ l.health \in Health /\ Continues(l.health, state.health)
        /\ l.health.lost <= state.health.lost + 1 /\ l.health.seen = state.health.seen
    BY <1>4, <1>5, AddLost
  <1>7. delivery'[i] = l /\ \A j \in Ifaces \ {i} : delivery'[j] = delivery[j]
    BY DEF SendFails, TypeInvariant
  <1>8. /\ truth'[state.session].seen = truth[state.session].seen + n
        /\ truth'[state.session].lost = truth[state.session].lost + 1
        /\ \A t \in Sessions : /\ truth[t].seen \in Nat /\ truth[t].lost \in Nat
                               /\ truth'[t].seen \in Nat /\ truth'[t].lost \in Nat
                               /\ truth'[t].seen >= truth[t].seen /\ truth'[t].lost >= truth[t].lost
    <2>1. Witness(state.session, n, 1)
      BY <1>5 DEF SendFails
    <2>2. \A t \in Sessions : truth[t].seen \in Nat /\ truth[t].lost \in Nat
      BY DEF TypeInvariant, Totals
    <2> QED
      BY <1>1, <1>2, <2>1, <2>2, WitnessTypes
  <1>9. /\ o.health.seen \in Nat /\ o.health.lost \in Nat /\ state.health.lost \in Nat
        /\ state.health.seen \in Nat /\ l.health.lost \in Nat /\ l.health.seen \in Nat
        /\ state.health.saturated \in BOOLEAN /\ l.health.saturated \in BOOLEAN
    BY <1>3, <1>4, <1>6, HealthFields
  <1>10. Grown(l.health, o.health, 1)
    <2> HIDE DEF state, l
    <2> QED
      BY <1>4, <1>6, <1>9 DEF Grown, Continues
  <1>11. /\ l.health.seen <= truth'[state.session].seen
         /\ l.health.lost <= truth'[state.session].lost
    <2> HIDE DEF state, l
    <2> QED
      BY <1>1, <1>2, <1>3, <1>4, <1>6, <1>8, <1>9
  <1>12. counts'.sessions = SessionsWith(i)
    BY DEF SendFails, TypeInvariant, Counts
  <1>13. /\ UNCHANGED <<clock, back, daemon, marks, retiredBefore, stored, recorded, committed, gone, ended>>
         /\ acks' = <<>> /\ wire' = wire
    BY <1>1 DEF Flushes, durable, SendFails
  <1> HIDE DEF state, l
  <1> QED
    BY <1>1, <1>2, <1>5, <1>7, <1>8, <1>10, <1>11, <1>12, <1>13 DEF Window

\* Counters that continue each other.
LEMMA GrownTrans ==
  ASSUME NEW h \in Health, NEW g \in Health, NEW e \in Health, NEW m \in Int, NEW n \in Int,
         Grown(h, g, m), Grown(g, e, n)
  PROVE  Grown(h, e, m + n)
  <1>1. /\ h.lost \in Nat /\ h.seen \in Nat /\ g.lost \in Nat /\ g.seen \in Nat
        /\ e.lost \in Nat /\ e.seen \in Nat
    BY HealthFields
  <1> QED
    BY <1>1 DEF Grown, Continues

LEMMA GrownExact ==
  ASSUME NEW h \in Health, NEW g \in Health, NEW e \in Health, NEW n \in Int,
         Grown(h, g, 1), h.lost = g.lost, Grown(g, e, n)
  PROVE  Grown(h, e, n)
  <1>1. /\ h.lost \in Nat /\ h.seen \in Nat /\ g.lost \in Nat /\ g.seen \in Nat
        /\ e.lost \in Nat /\ e.seen \in Nat
    BY HealthFields
  <1> QED
    BY <1>1 DEF Grown, Continues

LEMMA WindowDelivers ==
  ASSUME TypeInvariant, Delivered, NEW i \in Ifaces, Window(i)
  PROVE  Delivered'
  <1> DEFINE o == Opened(i)
             s == o.session
             d == delivery'[i]
  <1>1. /\ s \in Sessions /\ s <= SessionsWith(i) /\ counts.sessions <= SessionsWith(i)
        /\ o.sent \in Nat /\ o.health \in Health /\ o.health.lost <= o.sent
        /\ \A f \in Flying :
             /\ f.session = s =>
                 f.iface = i /\ f.sequence <= o.sent /\ Grown(o.health, f.health, o.sent - f.sequence)
             /\ f.iface = i => f.session <= s
        /\ marks[s].sequence <= o.sent /\ Grown(o.health, marks[s].health, o.sent - marks[s].sequence)
        /\ Marked(s) => marks[s].iface = i
        /\ \A t \in Sessions : Marked(t) /\ marks[t].iface = i => t <= s
        /\ \A id \in Heard : id[1] = s => id[2] <= o.sent
        /\ daemon.prepared[i].session <= s
        /\ \A j \in Ifaces : delivery[j].session = s => j = i
    BY SenderReady DEF Window
  <1>2. /\ d \in Delivery /\ d.session = s /\ d.sent = o.sent + 1 /\ Grown(d.health, o.health, 1)
        /\ d.health \in Health /\ d.health.lost \in Nat /\ o.health.lost \in Nat /\ d.health.seen \in Nat
        /\ d.health.seen <= truth'[s].seen /\ d.health.lost <= truth'[s].lost
        /\ d.health.lost <= o.health.lost + 1
    <2>1. /\ d \in Delivery /\ d.session = s /\ d.sent = o.sent + 1 /\ Grown(d.health, o.health, 1)
          /\ d.health.seen <= truth'[s].seen /\ d.health.lost <= truth'[s].lost
      BY DEF Window
    <2>2. d.health \in Health
      BY <2>1 DEF Delivery
    <2>3. d.health.lost \in Nat /\ o.health.lost \in Nat /\ d.health.seen \in Nat
      BY <1>1, <2>2, HealthFields
    <2> QED
      BY <2>1, <2>2, <2>3 DEF Grown
  <1>3. /\ UNCHANGED <<daemon, marks, stored>> /\ counts'.sessions = SessionsWith(i) /\ Heard' = Heard
        /\ \A j \in Ifaces \ {i} : delivery'[j] = delivery[j]
        /\ \A t \in Sessions : /\ truth'[t].seen \in Nat /\ truth'[t].lost \in Nat
                               /\ truth'[t].seen >= truth[t].seen /\ truth'[t].lost >= truth[t].lost
        /\ \A t \in Sessions : truth[t].seen \in Nat /\ truth[t].lost \in Nat
    BY DEF Window, Heard, TypeInvariant, Totals
  <1>4. \A g \in Flying : /\ g \in Batch /\ g.iface \in Ifaces /\ g.session \in Sessions
                          /\ g.sequence \in Nat \ {0} /\ g.health \in Health /\ g.health.lost \in Nat
                          /\ g.health.seen \in Nat
    BY FlyingTypes, HealthFields
  <1>5. /\ marks[s].sequence \in Nat /\ marks[s].health \in Health
    BY <1>1, MarkFields
  <1>6. s \in Nat /\ counts.sessions \in Nat /\ SessionsWith(i) \in Nat
    <2>1. counts.sessions \in Nat
      BY DEF TypeInvariant, Counts
    <2> QED
      BY <1>1, <2>1 DEF Sessions, SessionsWith
  \* What is on the wire afterwards.
  <1>7. ASSUME NEW f, Sends(i, f)
        PROVE  /\ f \in Batch /\ f.iface = i /\ f.session = s /\ f.sequence = o.sent + 1
               /\ f.health = d.health /\ d.health.lost = o.health.lost
               /\ Len(wire) \in Nat /\ DOMAIN wire = 1 .. Len(wire)
               /\ DOMAIN wire' = 1 .. Len(wire) + 1
               /\ \A k \in DOMAIN wire : wire'[k] = wire[k]
               /\ wire'[Len(wire) + 1] = f
               /\ \A g \in Flying : Follows(g, f)
               /\ \A g \in Flying' : g \in Flying \/ g = f
    <2>1. /\ f \in Batch /\ f.iface = i /\ f.session = s /\ f.sequence = o.sent + 1
          /\ f.health = d.health /\ d.health.lost = o.health.lost /\ wire' = Append(wire, f)
      BY <1>2, <1>7 DEF Sends
    <2>2. /\ Len(wire) \in Nat /\ DOMAIN wire = 1 .. Len(wire)
          /\ DOMAIN wire' = 1 .. Len(wire) + 1
          /\ \A k \in DOMAIN wire : wire'[k] = wire[k]
          /\ wire'[Len(wire) + 1] = f
      BY <2>1, WireTypes, Appending
    <2>3. \A g \in Flying' : g \in Flying \/ g = f
      BY <1>3, <2>2 DEF Flying
    <2>4. ASSUME NEW g \in Flying PROVE Follows(g, f)
      <3>1. g.iface = i => g.session <= s
        BY <1>1
      <3>2. CASE g.session = s
        <4>1. g.iface = i /\ g.sequence <= o.sent /\ Grown(o.health, g.health, o.sent - g.sequence)
          BY <1>1, <3>2
        <4>2. g.sequence \in Nat /\ g.health \in Health
          BY <1>4
        <4>3. Grown(d.health, g.health, o.sent - g.sequence)
          BY <1>1, <1>2, <2>1, <4>1, <4>2, GrownExact
        <4>4. f.sequence - g.sequence - 1 = o.sent - g.sequence /\ g.sequence < f.sequence
          BY <1>1, <2>1, <4>1, <4>2
        <4> QED
          BY <2>1, <3>1, <4>1, <4>3, <4>4 DEF Follows
      <3>3. CASE g.session # s
        BY <2>1, <3>1, <3>3 DEF Follows
      <3> QED
        BY <3>2, <3>3
    <2> QED
      BY <2>1, <2>2, <2>3, <2>4
  <1>8. FramesInOrder'
    <2>1. CASE wire' = wire
      BY <1>3, <2>1 DEF FramesInOrder, Follows, Grown, Continues, Delivered
    <2>2. ASSUME NEW f, Sends(i, f) PROVE FramesInOrder'
      <3>1. (\A j, k \in DOMAIN wire : j < k => Follows(wire[j], wire[k]))'
        <4> SUFFICES ASSUME NEW j \in DOMAIN wire', NEW k \in DOMAIN wire', j < k
                     PROVE  Follows(wire'[j], wire'[k])
          BY DEF Follows, Grown, Continues
        <4>1. CASE k \in DOMAIN wire
          BY <1>7, <2>2, <4>1 DEF Delivered, FramesInOrder
        <4>2. CASE k = Len(wire) + 1
          <5>1. j \in DOMAIN wire /\ wire'[k] = f /\ wire'[j] = wire[j]
            BY <1>7, <2>2, <4>2
          <5>2. wire[j] \in Flying
            BY <5>1 DEF Flying
          <5> QED
            BY <1>7, <2>2, <5>1, <5>2
        <4> QED
          BY <1>7, <2>2, <4>1, <4>2
      <3>2. (daemon.pc = "observed" => \A k \in DOMAIN wire : Follows(daemon.frame, wire[k]))'
        <4> SUFFICES ASSUME daemon.pc = "observed", NEW k \in DOMAIN wire'
                     PROVE  Follows(daemon.frame, wire'[k])
          BY <1>3 DEF Follows, Grown, Continues
        <4>1. CASE k \in DOMAIN wire
          BY <1>7, <2>2, <4>1 DEF Delivered, FramesInOrder
        <4>2. CASE k = Len(wire) + 1
          <5>1. daemon.frame \in Flying
            BY DEF Flying
          <5> QED
            BY <1>7, <2>2, <4>2, <5>1
        <4> QED
          BY <1>7, <2>2, <4>1, <4>2
      <3> QED
        BY <3>1, <3>2 DEF FramesInOrder
    <2> QED
      BY <2>1, <2>2 DEF Window
  <1>9. \A g \in Flying' :
           \/ g \in Flying
           \/ /\ g.iface = i /\ g.session = s /\ g.sequence = o.sent + 1 /\ g.health = d.health
              /\ d.health.lost = o.health.lost
    <2>1. CASE wire' = wire
      BY <1>3, <2>1 DEF Flying
    <2>2. ASSUME NEW f, Sends(i, f)
          PROVE  \A g \in Flying' :
                   \/ g \in Flying
                   \/ /\ g.iface = i /\ g.session = s /\ g.sequence = o.sent + 1
                      /\ g.health = d.health /\ d.health.lost = o.health.lost
      BY <1>7, <2>2
    <2> QED
      BY <2>1, <2>2 DEF Window
  <1>10. SessionsKnown'
    <2>1. (\A f \in Flying : f.session <= counts.sessions)'
      <3> SUFFICES ASSUME NEW g \in Flying' PROVE g.session <= SessionsWith(i)
        BY <1>3
      <3>1. CASE g \in Flying
        BY <1>1, <1>4, <1>6, <3>1 DEF Delivered, SessionsKnown, Sessions
      <3>2. CASE g.session = s
        BY <1>1, <3>2
      <3> QED
        BY <1>9, <3>1, <3>2
    <2>2. (\A t \in Sessions : Marked(t) => t <= counts.sessions)'
      BY <1>1, <1>3, <1>6 DEF Delivered, SessionsKnown, Marked, Sessions
    <2>3. (\A id \in Heard : id[1] <= counts.sessions)'
      <3>1. \A id \in Heard : id[1] \in Nat
        BY DaemonTypes DEF Heard, Id, Sessions, TypeInvariant
      <3> QED
        BY <1>1, <1>3, <1>6, <3>1 DEF Delivered, SessionsKnown
    <2>4. (\A j \in Ifaces : /\ delivery[j].session <= counts.sessions
                             /\ daemon.prepared[j].session <= counts.sessions)'
      <3> SUFFICES ASSUME NEW j \in Ifaces
                   PROVE  /\ delivery'[j].session <= SessionsWith(i)
                          /\ daemon.prepared[j].session <= SessionsWith(i)
        BY <1>3
      <3>1. delivery[j] \in Delivery /\ daemon.prepared[j] \in Prepared
        BY DaemonTypes DEF TypeInvariant
      <3>2. delivery[j].session \in Nat /\ daemon.prepared[j].session \in Nat
        BY <3>1 DEF Delivery, Prepared, Sessions
      <3>3. delivery[j].session <= counts.sessions /\ daemon.prepared[j].session <= counts.sessions
        BY DEF Delivered, SessionsKnown
      <3>4. delivery'[j].session = s \/ delivery'[j] = delivery[j]
        BY <1>2, <1>3
      <3> QED
        BY <1>1, <1>6, <3>2, <3>3, <3>4
    <2> QED
      BY <2>1, <2>2, <2>3, <2>4 DEF SessionsKnown
  <1>11. MarksSound'
    BY <1>3 DEF Delivered, MarksSound, Marked
  <1>12. SenderAhead(i)'
    <2>1. \A j \in Ifaces : delivery'[j].session = s => j = i
      BY <1>1, <1>3
    <2>2. \A g \in Flying' :
            /\ g.session = s =>
                g.iface = i /\ g.sequence <= d.sent /\ Grown(d.health, g.health, d.sent - g.sequence)
            /\ g.iface = i => g.session <= s
      <3> SUFFICES ASSUME NEW g \in Flying'
                   PROVE  /\ g.session = s => /\ g.iface = i /\ g.sequence <= d.sent
                                              /\ Grown(d.health, g.health, d.sent - g.sequence)
                          /\ g.iface = i => g.session <= s
        OBVIOUS
      <3>1. CASE g \in Flying
        <4>1. g.iface = i => g.session <= s
          BY <1>1, <3>1
        <4>2. ASSUME g.session = s
              PROVE  g.iface = i /\ g.sequence <= d.sent /\ Grown(d.health, g.health, d.sent - g.sequence)
          <5>1. g.iface = i /\ g.sequence <= o.sent /\ Grown(o.health, g.health, o.sent - g.sequence)
            BY <1>1, <3>1, <4>2
          <5>2. g.sequence \in Nat /\ g.health \in Health
            BY <1>4, <3>1
          <5>3. Grown(d.health, g.health, 1 + (o.sent - g.sequence))
            BY <1>1, <1>2, <5>1, <5>2, GrownTrans
          <5>4. 1 + (o.sent - g.sequence) = d.sent - g.sequence /\ g.sequence <= d.sent
            BY <1>1, <1>2, <5>1, <5>2
          <5> QED
            BY <5>1, <5>3, <5>4
        <4> QED
          BY <4>1, <4>2
      <3>2. CASE /\ g.iface = i /\ g.session = s /\ g.sequence = o.sent + 1 /\ g.health = d.health
                 /\ d.health.lost = o.health.lost
        <4>1. Grown(d.health, d.health, d.sent - d.sent)
          BY <1>1, <1>2 DEF Grown, Continues
        <4> QED
          BY <1>1, <1>2, <1>6, <3>2, <4>1
      <3> QED
        BY <1>9, <3>1, <3>2
    <2>3. marks[s].sequence <= d.sent /\ Grown(d.health, marks[s].health, d.sent - marks[s].sequence)
      <3>1. Grown(d.health, marks[s].health, 1 + (o.sent - marks[s].sequence))
        BY <1>1, <1>2, <1>5, GrownTrans
      <3>2. 1 + (o.sent - marks[s].sequence) = d.sent - marks[s].sequence /\ marks[s].sequence <= d.sent
        BY <1>1, <1>2, <1>5
      <3> QED
        BY <3>1, <3>2
    <2>4. \A id \in Heard : id[1] = s => id[2] <= d.sent
      <3>1. \A id \in Heard : id[2] \in Nat
        BY DaemonTypes DEF Heard, Id, TypeInvariant
      <3> QED
        BY <1>1, <1>2, <3>1
    <2>5. d.health.lost <= d.sent
      BY <1>1, <1>2
    <2> HIDE DEF d, o
    <2> QED
      BY <1>1, <1>2, <1>3, <2>1, <2>2, <2>3, <2>4, <2>5 DEF SenderAhead, Marked, Grown, Continues, d, o
  <1>13. ASSUME NEW j \in Ifaces \ {i} PROVE SenderAhead(j)'
    <2> DEFINE e == delivery[j]
    <2> SUFFICES ASSUME e.session # 0 PROVE SenderAhead(j)'
      BY <1>3 DEF SenderAhead
    <2>1. delivery'[j] = e /\ SenderAhead(j) /\ e.session \in Sessions /\ e.session # s
          /\ e.health \in Health
      BY <1>1, <1>3 DEF Delivered, TypeInvariant, Delivery
    <2>2. \A k \in Ifaces : delivery'[k].session = e.session => k = j
      BY <1>2, <1>3, <2>1 DEF SenderAhead
    <2>3. e.health.seen <= truth'[e.session].seen /\ e.health.lost <= truth'[e.session].lost
      BY <1>3, <2>1, HealthFields DEF SenderAhead
    <2>4. \A g \in Flying' :
            /\ g.session = e.session =>
                g.iface = j /\ g.sequence <= e.sent /\ Grown(e.health, g.health, e.sent - g.sequence)
            /\ g.iface = j => g.session <= e.session
      BY <1>9, <2>1 DEF SenderAhead
    <2> HIDE DEF e
    <2> QED
      BY <1>3, <2>1, <2>2, <2>3, <2>4 DEF SenderAhead, Marked, Grown, Continues, e
  <1>14. ASSUME NEW g \in Flying' PROVE FrameAhead(g)'
    <2>1. CASE g \in Flying
      <3>1. FrameAhead(g) /\ g.session \in Sessions /\ g.health.lost \in Nat /\ g.health.seen \in Nat
        BY <1>4, <2>1 DEF Delivered
      <3>2. g.health.seen <= truth'[g.session].seen /\ g.health.lost <= truth'[g.session].lost
        BY <1>3, <3>1 DEF FrameAhead
      <3> QED
        BY <1>3, <3>1, <3>2 DEF FrameAhead, Marked, Grown, Continues
    <2>2. CASE /\ g.iface = i /\ g.session = s /\ g.sequence = o.sent + 1 /\ g.health = d.health
               /\ d.health.lost = o.health.lost
      <3>1. Grown(d.health, marks[s].health, o.sent - marks[s].sequence)
        BY <1>1, <1>2, <1>5, <2>2, GrownExact
      <3>2. o.sent - marks[s].sequence = g.sequence - marks[s].sequence - 1
        BY <1>1, <1>5, <2>2
      <3>3. g.health.lost < g.sequence
        BY <1>1, <1>2, <2>2
      <3> HIDE DEF d, o
      <3> QED
        BY <1>1, <1>2, <1>3, <2>2, <3>1, <3>2, <3>3 DEF FrameAhead, Marked, Grown, Continues
    <2> QED
      BY <1>9, <2>1, <2>2
  <1> QED
    BY <1>8, <1>10, <1>11, <1>12, <1>13, <1>14 DEF Delivered

\* A commit moves the watermark to the frame the daemon worked on.
LEMMA CommitDelivers ==
  ASSUME Typed, Delivered, CommitSensorBatch
  PROVE  Delivered'
  <1> DEFINE f == daemon.frame
  <1>0. TypeInvariant
    BY DEF Typed
  <1>1. PICK complete \in BOOLEAN : Commits(complete)
    BY <1>0, Commitment
  <1>2. /\ daemon.pc = "observed" /\ f \in Batch /\ f \in Flying
        /\ UNCHANGED <<clock, back, delivery, flushed, link, wire, stored, counts, truth>>
        /\ daemon'.pc = "idle" /\ daemon'.pending = daemon.pending /\ daemon'.observed = daemon.observed
        /\ \A i \in Ifaces : daemon'.prepared[i] = daemon.prepared[i] \/ daemon'.prepared[i] = NoPrepared
    BY <1>0, Commitment, WorkEnds DEF Flying
  <1>3. /\ f.iface \in Ifaces /\ f.session \in Sessions /\ f.sequence \in Nat \ {0}
        /\ f.health \in Health /\ FrameAhead(f) /\ f.health.lost \in Nat /\ f.health.seen \in Nat
    BY <1>0, <1>2, FlyingTypes, HealthFields DEF Delivered
  <1>4. Flying' \subseteq Flying /\ \A g \in Flying' : \E k \in DOMAIN wire : g = wire[k]
    BY <1>2 DEF Flying
  <1>5. \A g \in Flying' : g \in Flying /\ Follows(f, g)
    BY <1>2, <1>4 DEF Delivered, FramesInOrder
  <1>6. FramesInOrder'
    BY <1>2 DEF Delivered, FramesInOrder, Follows, Grown, Continues
  \* A row afterwards: the new one, an unchanged one, or none.
  <1>7. ASSUME NEW s \in Sessions
        PROVE  \/ marks'[s] = NoMark
               \/ /\ s = f.session /\ marks'[s].sequence = f.sequence /\ marks'[s].iface = f.iface
                  /\ marks'[s].health = f.health
               \/ s # f.session /\ marks'[s] = marks[s]
    <2>1. marks'[s] = Updated(complete)[s] \/ marks'[s] = NoMark
      BY <1>1, <1>2, TableAfter
    <2>2. CASE s = f.session
      BY <1>1, <1>2, <2>1, <2>2, TableAfter, WatermarkRow
    <2>3. CASE s # f.session
      BY <1>1, <1>2, <2>1, <2>3, TableAfter
    <2> QED
      BY <2>2, <2>3
  <1>8. NoMark.sequence = 0 /\ NoMark.health = NoHealth /\ NoHealth.lost = 0 /\ NoHealth.seen = 0
        /\ NoHealth.saturated = FALSE
    BY DEF NoMark, NoHealth
  <1>9. SessionsKnown'
    <2>1. (\A g \in Flying : g.session <= counts.sessions)'
      BY <1>2, <1>4 DEF Delivered, SessionsKnown
    <2>2. (\A s \in Sessions : Marked(s) => s <= counts.sessions)'
      <3> SUFFICES ASSUME NEW s \in Sessions, marks'[s].sequence > 0 PROVE s <= counts.sessions
        BY <1>2 DEF Marked
      <3> QED
        BY <1>2, <1>7, <1>8 DEF Delivered, SessionsKnown, Marked
    <2>3. (\A id \in Heard : id[1] <= counts.sessions)'
      BY <1>2 DEF Delivered, SessionsKnown, Heard
    <2>4. (\A i \in Ifaces : /\ delivery[i].session <= counts.sessions
                             /\ daemon.prepared[i].session <= counts.sessions)'
      <3>1. 0 <= counts.sessions
        BY <1>0 DEF TypeInvariant, Counts
      <3> QED
        BY <1>2, <3>1, EmptyTypes DEF Delivered, SessionsKnown
    <2> QED
      BY <2>1, <2>2, <2>3, <2>4 DEF SessionsKnown
  <1>10. MarksSound'
    <2> SUFFICES ASSUME NEW s \in Sessions
                 PROVE  /\ marks'[s].health.lost <= marks'[s].sequence
                        /\ ~(marks'[s].sequence > 0) => marks'[s].health = NoHealth
      BY DEF MarksSound, Marked
    <2>1. CASE marks'[s] = NoMark
      BY <1>8, <2>1
    <2>2. CASE marks'[s].sequence = f.sequence /\ marks'[s].health = f.health
      BY <1>3, <2>2 DEF FrameAhead
    <2>3. CASE marks'[s] = marks[s]
      BY <2>3 DEF Delivered, MarksSound, Marked
    <2> QED
      BY <1>7, <2>1, <2>2, <2>3
  <1>11. ASSUME NEW i \in Ifaces PROVE SenderAhead(i)'
    <2> DEFINE d == delivery[i]
               w == marks'[d.session]
    <2> SUFFICES ASSUME d.session # 0 PROVE SenderAhead(i)'
      BY <1>2 DEF SenderAhead
    <2>1. /\ delivery' = delivery /\ SenderAhead(i) /\ d.session \in Sessions /\ d.health \in Health
          /\ d.sent \in Nat
      BY <1>0, <1>2 DEF Delivered, TypeInvariant, Delivery
    <2>2. w.sequence <= d.sent /\ Grown(d.health, w.health, d.sent - w.sequence)
      <3>1. CASE w = NoMark
        <4>1. d.health.lost \in Nat /\ d.health.seen \in Nat /\ d.health.lost <= d.sent
          BY <2>1, HealthFields DEF SenderAhead
        <4> QED
          BY <1>8, <2>1, <3>1, <4>1 DEF Grown, Continues
      <3>2. CASE d.session = f.session /\ w.sequence = f.sequence /\ w.health = f.health
        BY <1>2, <2>1, <3>2 DEF SenderAhead
      <3>3. CASE w = marks[d.session]
        BY <2>1, <3>3 DEF SenderAhead
      <3> QED
        BY <1>7, <2>1, <3>1, <3>2, <3>3
    <2>3. w.sequence > 0 => w.iface = i
      <3>1. CASE w = NoMark
        BY <1>8, <3>1
      <3>2. CASE d.session = f.session /\ w.iface = f.iface
        BY <1>2, <2>1, <3>2 DEF SenderAhead
      <3>3. CASE w = marks[d.session]
        BY <2>1, <3>3 DEF SenderAhead, Marked
      <3> QED
        BY <1>7, <2>1, <3>1, <3>2, <3>3
    <2>4. \A s \in Sessions : marks'[s].sequence > 0 /\ marks'[s].iface = i => s <= d.session
      <3> SUFFICES ASSUME NEW s \in Sessions, marks'[s].sequence > 0, marks'[s].iface = i
                   PROVE  s <= d.session
        OBVIOUS
      <3>1. CASE s = f.session /\ marks'[s].iface = f.iface
        BY <1>2, <2>1, <3>1 DEF SenderAhead
      <3>2. CASE marks'[s] = marks[s]
        BY <2>1, <3>2 DEF SenderAhead, Marked
      <3> QED
        BY <1>7, <1>8, <3>1, <3>2
    <2>5. \A id \in Heard' : id[1] = d.session => id[2] <= d.sent
      BY <1>2, <2>1 DEF SenderAhead, Heard
    <2>6. daemon'.prepared[i].session <= d.session
      BY <1>2, <2>1, EmptyTypes DEF SenderAhead, Sessions
    <2>7. \A g \in Flying' :
            /\ g.session = d.session =>
                g.iface = i /\ g.sequence <= d.sent /\ Grown(d.health, g.health, d.sent - g.sequence)
            /\ g.iface = i => g.session <= d.session
      BY <1>4, <2>1 DEF SenderAhead
    <2>8. /\ \A j \in Ifaces : delivery[j].session = d.session => j = i
          /\ d.health.seen <= truth[d.session].seen /\ d.health.lost <= truth[d.session].lost
          /\ d.health.lost <= d.sent
      BY <2>1 DEF SenderAhead
    <2> HIDE DEF d
    <2> QED
      BY <1>2, <2>1, <2>2, <2>3, <2>4, <2>5, <2>6, <2>7, <2>8
      DEF SenderAhead, Marked, Grown, Continues, d
  <1>12. ASSUME NEW g \in Flying' PROVE FrameAhead(g)'
    <2> DEFINE w == marks'[g.session]
    <2>1. /\ g \in Flying /\ Follows(f, g) /\ FrameAhead(g) /\ g.session \in Sessions
          /\ g.sequence \in Nat \ {0} /\ g.health \in Health
          /\ g.health.lost \in Nat /\ g.health.seen \in Nat
      BY <1>0, <1>5, FlyingTypes, HealthFields DEF Delivered
    <2>2. w.sequence < g.sequence => Grown(g.health, w.health, g.sequence - w.sequence - 1)
      <3>1. CASE w = NoMark
        BY <1>8, <2>1, <3>1 DEF Grown, Continues, FrameAhead
      <3>2. CASE g.session = f.session /\ w.sequence = f.sequence /\ w.health = f.health
        BY <1>3, <2>1, <3>2 DEF Follows
      <3>3. CASE w = marks[g.session]
        BY <1>0, <2>1, <3>3, MarkFields DEF FrameAhead
      <3> QED
        BY <1>7, <2>1, <3>1, <3>2, <3>3
    <2>3. w.sequence > 0 => w.iface = g.iface
      <3>1. CASE w = NoMark
        BY <1>8, <3>1
      <3>2. CASE g.session = f.session /\ w.iface = f.iface
        BY <2>1, <3>2 DEF Follows
      <3>3. CASE w = marks[g.session]
        BY <2>1, <3>3 DEF FrameAhead, Marked
      <3> QED
        BY <1>7, <2>1, <3>1, <3>2, <3>3
    <2>4. \A s \in Sessions : marks'[s].sequence > 0 /\ marks'[s].iface = g.iface => s <= g.session
      <3> SUFFICES ASSUME NEW s \in Sessions, marks'[s].sequence > 0, marks'[s].iface = g.iface
                   PROVE  s <= g.session
        OBVIOUS
      <3>1. CASE s = f.session /\ marks'[s].iface = f.iface
        BY <2>1, <3>1 DEF Follows
      <3>2. CASE marks'[s] = marks[s]
        BY <2>1, <3>2 DEF FrameAhead, Marked
      <3> QED
        BY <1>7, <1>8, <3>1, <3>2
    <2>5. w.sequence \in Nat /\ (g.sequence > w.sequence => w.sequence < g.sequence)
      BY <1>1, <1>2, <2>1, TableAfter DEF Mark
    <2> QED
      BY <1>2, <2>1, <2>2, <2>3, <2>4, <2>5 DEF FrameAhead, Marked, Grown, Continues
  <1> QED
    BY <1>6, <1>9, <1>10, <1>11, <1>12 DEF Delivered

LEMMA InitDelivered == Init => Delivered
  <1> SUFFICES ASSUME Init PROVE Delivered
    OBVIOUS
  <1>1. /\ wire = <<>> /\ daemon = Rested /\ stored = {} /\ counts.sessions = 0
        /\ \A i \in Ifaces : delivery[i] = NoState
        /\ \A s \in Sessions : marks[s] = NoMark
    BY DEF Init
  <1>2. /\ daemon.pc = "idle" /\ daemon.pending = {} /\ daemon.observed = {}
        /\ \A i \in Ifaces : daemon.prepared[i] = NoPrepared
    BY <1>1 DEF Rested
  <1>3. DOMAIN wire = {} /\ Flying = {} /\ Heard = {}
    <2>1. DOMAIN wire = {}
      BY <1>1, EmptySeq
    <2> QED
      BY <1>1, <1>2, <2>1 DEF Flying, Heard
  <1>4. /\ NoState.session = 0 /\ NoPrepared.session = 0 /\ NoMark.sequence = 0
        /\ NoMark.health = NoHealth /\ NoHealth.lost = 0
    BY DEF NoState, NoPrepared, NoMark, NoHealth
  <1> QED
    BY <1>1, <1>2, <1>3, <1>4
    DEF Delivered, FramesInOrder, SessionsKnown, MarksSound, SenderAhead, Marked

LEMMA DeliveredNext ==
  ASSUME Typed, Delivered, [Next]_vars
  PROVE  Delivered'
  <1>0. TypeInvariant
    BY DEF Typed
  <1>1. ASSUME NEW i \in Ifaces, NEW n \in Units, Send(i, n) PROVE Delivered'
    BY <1>0, <1>1, SendWindow, WindowDelivers
  <1>2. ASSUME NEW i \in Ifaces, NEW n \in Units, SendFails(i, n) PROVE Delivered'
    BY <1>0, <1>2, SendFailsWindow, WindowDelivers
  <1>3. CASE CommitSensorBatch
    BY <1>3, CommitDelivers
  <1>4. CASE QuietStep
    BY <1>0, <1>4, QuietNext
  <1> QED
    BY <1>1, <1>2, <1>3, <1>4 DEF Next, SensorStep, DaemonStep, QuietStep

-----------------------------------------------------------------------------
(* The books *)

\* Only a commit writes the books.
NoCommit ==
    /\ UNCHANGED <<recorded, committed, gone, ended, retiredBefore>>
    /\ \A s \in Sessions :
        /\ marks'[s].sequence = marks[s].sequence /\ marks'[s].iface = marks[s].iface
        /\ marks'[s].health = marks[s].health /\ marks'[s].sentAt = marks[s].sentAt
        /\ marks'[s].complete = marks[s].complete /\ marks'[s].gaps = marks[s].gaps
        /\ truth'[s].seen >= truth[s].seen /\ truth'[s].lost >= truth[s].lost
        /\ truth[s].seen \in Nat /\ truth[s].lost \in Nat
        /\ truth'[s].seen \in Nat /\ truth'[s].lost \in Nat

LEMMA BooksUntouched ==
  ASSUME TypeInvariant, Delivered, [Next]_vars, ~CommitSensorBatch
  PROVE  NoCommit
  <1>0. \A s \in Sessions : truth[s].seen \in Nat /\ truth[s].lost \in Nat
    BY DEF TypeInvariant, Totals
  <1>1. ASSUME NEW i \in Ifaces, NEW n \in Units, Send(i, n) \/ SendFails(i, n) PROVE NoCommit
    <2>1. Window(i)
      BY <1>1, SendWindow, SendFailsWindow
    <2> QED
      BY <1>0, <2>1 DEF Window, NoCommit
  <1>2. CASE ReceiveDuplicate
    <2>1. UNCHANGED <<recorded, committed, gone, ended, retiredBefore, truth>>
      BY <1>2 DEF ReceiveDuplicate, ghost
    <2> QED
      BY <1>0, <1>2, <2>1, DuplicateCounted DEF NoCommit
  <1>3. CASE QuietStep /\ ~ReceiveDuplicate
    <2>1. UNCHANGED <<recorded, committed, gone, ended, retiredBefore, truth, marks>>
      BY <1>3
      DEF QuietStep, RetireInterface, ReadACK, ConnectionRejected, Receive, FlushEvents, CommitFails,
          Resend, Crash, Tick, ClockBack, vars, durable, ghost
    <2> QED
      BY <1>0, <2>1 DEF NoCommit
  <1> QED
    BY <1>1, <1>2, <1>3 DEF Next, SensorStep, DaemonStep, QuietStep

LEMMA BooksNext ==
  ASSUME Typed, Delivered, Books, [Next]_vars
  PROVE  Books'
  <1>0. TypeInvariant
    BY DEF Typed
  <1>1. CASE ~CommitSensorBatch
    <2>1. NoCommit
      BY <1>0, <1>1, BooksUntouched
    <2>2. \A s \in Sessions : marks[s].health.seen \in Nat /\ marks[s].health.lost \in Nat
      BY <1>0, MarkFields, HealthFields
    <2>3. \A s \in Sessions : Committed(s)' = Committed(s)
      BY <2>1 DEF NoCommit, Committed
    <2>4. \A s \in Sessions : marks'[s].health.seen <= truth'[s].seen /\ marks'[s].health.lost <= truth'[s].lost
      BY <2>1, <2>2 DEF NoCommit, Books
    <2>5. \A s \in Sessions \ gone' : Balanced(s)'
      BY <2>1, <2>3 DEF NoCommit, Books, Balanced
    <2> QED
      BY <2>1, <2>4, <2>5 DEF Books, NoCommit
  <1>2. CASE CommitSensorBatch
    <2> DEFINE f == daemon.frame
    <2>0. PICK s \in Sessions : s = f.session
      BY <1>0, <1>2, Commitment DEF Batch
    <2>1. PICK complete \in BOOLEAN : Commits(complete)
      BY <1>0, <1>2, Commitment
    <2> DEFINE w == Updated(complete)
               c == [session |-> s, sequence |-> f.sequence, complete |-> complete]
    <2>2. /\ daemon.pc = "observed" /\ f \in Batch /\ ~Refused(f) /\ truth' = truth
          /\ f.session \in Sessions /\ f.sequence \in Nat \ {0} /\ f.health \in Health
          /\ f \in Flying /\ FrameAhead(f)
      BY <1>0, <1>2, Commitment DEF Flying, Batch, Delivered
    <2>3. /\ f.sequence > marks[s].sequence /\ marks[s].sequence \in Nat /\ marks[s].gaps \in Nat
          /\ marks[s].health \in Health
      BY <1>0, <2>0, <2>2, MarkFields DEF Typed, NewBatch
    <2>4. /\ w[s].sequence = f.sequence /\ w[s].health = f.health /\ s \in Rows(w)
          /\ w[s].gaps = marks[s].gaps + (f.sequence - marks[s].sequence - 1)
      BY <2>0, <2>1, <2>2, TableAfter, WatermarkRow
    <2>5. /\ \A t \in Sessions \ {s} : w[t] = marks[t]
          /\ \A t \in Sessions : marks'[t] = w[t] \/ (t \in Rows(w) /\ marks'[t] = NoMark)
      BY <2>0, <2>1, <2>2, TableAfter
    <2>6. committed' = committed \cup {c} /\ gone' = gone \cup (Rows(w) \ Rows(marks'))
      BY <2>0, <2>1 DEF Commits
    <2> HIDE DEF w
    <2>7. NoMark.sequence = 0 /\ NoMark.health.seen = 0 /\ NoMark.health.lost = 0
      BY DEF NoMark, NoHealth
    <2>8. IsFiniteSet(committed')
      BY <2>6, FS_AddElement DEF Books
    <2>9. \A t \in Sessions : marks'[t].health.seen <= truth'[t].seen /\ marks'[t].health.lost <= truth'[t].lost
      <3> SUFFICES ASSUME NEW t \in Sessions
                   PROVE  marks'[t].health.seen <= truth[t].seen /\ marks'[t].health.lost <= truth[t].lost
        BY <2>2
      <3>1. truth[t].seen \in Nat /\ truth[t].lost \in Nat
        BY <1>0 DEF TypeInvariant, Totals
      <3>2. CASE marks'[t] = NoMark
        BY <2>7, <3>1, <3>2
      <3>3. CASE t = s /\ marks'[t] = w[t]
        BY <2>0, <2>2, <2>4, <3>3 DEF FrameAhead
      <3>4. CASE t # s /\ marks'[t] = marks[t]
        BY <3>4 DEF Books
      <3> QED
        BY <2>5, <3>2, <3>3, <3>4
    \* A session that is not gone kept its row.
    <2>10. ASSUME NEW t \in Sessions \ gone' PROVE t \notin gone /\ marks'[t] = w[t]
      <3>1. t \notin gone /\ (t \in Rows(w) => t \in Rows(marks'))
        BY <2>6
      <3>2. CASE t \in Rows(w) /\ marks'[t] = NoMark
        BY <2>7, <3>1, <3>2 DEF Rows
      <3> QED
        BY <2>5, <3>1, <3>2
    <2>11. ASSUME NEW t \in Sessions \ gone', t # s PROVE Balanced(t)'
      <3>1. Balanced(t) /\ marks'[t] = marks[t]
        BY <2>5, <2>10, <2>11 DEF Books
      <3>2. Committed(t)' = Committed(t)
        BY <2>6, <2>11 DEF Committed
      <3>3. recorded'[t] = recorded[t]
        BY <1>0, <2>0, <2>1, <2>2, <2>11, RecordedAfter
      <3> QED
        BY <3>1, <3>2, <3>3 DEF Balanced
    <2>12. ASSUME s \notin gone' PROVE Balanced(s)'
      <3>1. Balanced(s) /\ marks'[s] = w[s]
        BY <2>2, <2>10, <2>12 DEF Books
      <3>2. Committed(s)' = Committed(s) \cup {c}
        BY <2>6 DEF Committed
      <3>3. c \notin Committed(s)
        BY <2>2, <2>3, <3>1 DEF Balanced
      <3>4. IsFiniteSet(Committed(s)) /\ Cardinality(Committed(s)) \in Nat
        BY FS_Subset, FS_CardinalityType DEF Books, Committed
      <3>5. Cardinality(Committed(s)') = Cardinality(Committed(s)) + 1
        BY <3>2, <3>3, <3>4, FS_AddElement
      <3>6. /\ f.health.seen \in Nat /\ f.health.lost \in Nat
            /\ marks[s].health.seen \in Nat /\ marks[s].health.lost \in Nat
        BY <2>2, <2>3, HealthFields
      <3>7. marks'[s].sequence = Cardinality(Committed(s)') + marks'[s].gaps
        BY <2>2, <2>3, <2>4, <3>1, <3>4, <3>5 DEF Balanced
      <3>8. marks'[s].health.lost <= marks'[s].gaps
        BY <2>0, <2>2, <2>3, <2>4, <3>1, <3>6 DEF Balanced, FrameAhead, Grown
      <3>9. /\ recorded'[s].seen = recorded[s].seen + (f.health.seen - marks[s].health.seen)
            /\ recorded'[s].lost = recorded[s].lost + (f.health.lost - marks[s].health.lost)
        BY <1>0, <2>0, <2>1, <2>2, RecordedAfter
      <3>10. recorded'[s].seen = f.health.seen /\ recorded'[s].lost = f.health.lost
        BY <3>1, <3>6, <3>9 DEF Balanced
      <3>11. \A e \in Committed(s)' : e.sequence <= f.sequence
        <4> SUFFICES ASSUME NEW e \in Committed(s) PROVE e.sequence <= f.sequence
          BY <2>2, <3>2
        <4>1. e.sequence \in Nat
          BY <1>0 DEF Committed, TypeInvariant
        <4> QED
          BY <2>2, <2>3, <3>1, <4>1 DEF Balanced
      <3> QED
        BY <2>4, <3>1, <3>7, <3>8, <3>10, <3>11 DEF Balanced
    <2> QED
      BY <2>8, <2>9, <2>11, <2>12 DEF Books
  <1> QED
    BY <1>1, <1>2

-----------------------------------------------------------------------------
(* The order of recorded windows *)

\* No window of an interface in the table ends later than PreviousEnd.
LEMMA PreviousEndIsLast ==
  ASSUME TypeInvariant, Windows, NEW i, NEW s \in Sessions, marks[s].iface = i
  PROVE  PreviousEnd(i) \in Nat /\ marks[s].sentAt <= PreviousEnd(i)
  <1> DEFINE ends == {marks[t].sentAt : t \in {x \in Sessions : marks[x].iface = i}}
  <1>1. ends \in SUBSET Nat /\ marks[s].sentAt \in ends
    BY MarkFields
  <1>2. clock \in Nat /\ \A e \in ends : e <= clock
    BY DEF Windows, TypeInvariant
  <1>3. \E e \in ends : \A x \in ends : x <= e
    <2> HIDE DEF ends
    <2> QED
      BY <1>1, <1>2, MaxExists
  <1>4. PreviousEnd(i) = CHOOSE e \in ends : \A x \in ends : x <= e
    <2>1. ends # {}
      BY <1>1
    <2> QED
      BY <2>1 DEF PreviousEnd
  <1> HIDE DEF ends
  <1>5. PreviousEnd(i) \in ends /\ \A x \in ends : x <= PreviousEnd(i)
    BY <1>3, <1>4
  <1> QED
    BY <1>1, <1>5

\* What is committed ends after everything recorded for its interface.
LEMMA CommitsLater ==
  ASSUME Typed, Delivered, Windows, CommitSensorBatch
  PROVE  LET f == daemon.frame IN
         /\ \A s \in Sessions : marks[s].iface = f.iface => f.sentAt > marks[s].sentAt
         /\ f.sentAt # ended[f.iface] => f.sentAt > ended[f.iface]
  <1> DEFINE f == daemon.frame
             i == f.iface
  <1>0. TypeInvariant
    BY DEF Typed
  <1>1. /\ f \in Flying /\ i \in Ifaces /\ f.session \in Sessions /\ f.sentAt \in Nat
        /\ ~(~Marked(f.session) /\ f.sentAt <= retiredBefore) /\ ~(f.sentAt <= PreviousEnd(i))
    BY <1>0, Commitment DEF Flying, Batch, Refused
  <1>2. ended[i] \in Nat /\ retiredBefore \in Nat
    BY <1>0, <1>1 DEF TypeInvariant
  <1>3. ASSUME NEW s \in Sessions, marks[s].iface = i PROVE f.sentAt > marks[s].sentAt
    <2>1. PreviousEnd(i) \in Nat /\ marks[s].sentAt <= PreviousEnd(i) /\ marks[s].sentAt \in Nat
      BY <1>0, <1>3, PreviousEndIsLast, MarkFields
    <2> QED
      BY <1>1, <2>1
  <1>4. ASSUME f.sentAt # ended[i] PROVE f.sentAt > ended[i]
    <2>1. CASE LatestKept(i)
      <3>1. PICK s \in Sessions : marks[s].iface = i /\ marks[s].sentAt >= ended[i]
        BY <2>1 DEF LatestKept
      <3>2. f.sentAt > marks[s].sentAt /\ marks[s].sentAt \in Nat
        BY <1>0, <1>3, <3>1, MarkFields
      <3> QED
        BY <1>1, <1>2, <3>1, <3>2
    <2>2. CASE LatestRetired(i)
      BY <1>1, <1>2, <2>2 DEF LatestRetired
    <2>3. CASE ended[i] = 0
      BY <1>1, <1>4, <2>3
    <2> QED
      BY <1>1, <2>1, <2>2, <2>3 DEF Windows
  <1> QED
    BY <1>3, <1>4

LEMMA WindowsCommit ==
  ASSUME Typed, Delivered, Windows, CommitSensorBatch
  PROVE  Windows'
  <1> DEFINE f == daemon.frame
  <1>0. TypeInvariant
    BY DEF Typed
  <1>1. PICK complete \in BOOLEAN : Commits(complete)
    BY <1>0, Commitment
  <1> DEFINE w == Updated(complete)
  <1>2. /\ daemon.pc = "observed" /\ f \in Flying /\ f.iface \in Ifaces /\ f.session \in Sessions
        /\ f.sentAt \in Nat /\ f.sequence \in Nat \ {0}
        /\ UNCHANGED <<clock, delivery, wire>> /\ daemon'.pc = "idle" /\ FrameAhead(f)
    BY <1>0, Commitment, WorkEnds DEF Flying, Batch, Delivered
  <1>3. \A g \in Flying' : g \in Flying /\ Follows(f, g) /\ FrameAhead(g) /\ g.session \in Sessions
    <2>1. \A g \in Flying' : g \in Flying /\ Follows(f, g)
      BY <1>2 DEF Flying, Delivered, FramesInOrder
    <2> QED
      BY <1>0, <2>1, FlyingTypes DEF Delivered
  <1>4. /\ w[f.session].sequence = f.sequence /\ w[f.session].iface = f.iface
        /\ w[f.session].sentAt = f.sentAt
    BY <1>1, <1>2, TableAfter, WatermarkRow
  <1>5. /\ \A s \in Sessions \ {f.session} : w[s] = marks[s]
        /\ \A s \in Sessions : marks'[s] = w[s] \/ (marks'[s] = NoMark /\ w[s].sentAt <= retiredBefore')
        /\ retiredBefore' \in Nat /\ retiredBefore' >= retiredBefore
    BY <1>1, <1>2, TableAfter
  <1> HIDE DEF w
  <1>6. NoMark.sequence = 0 /\ NoMark.sentAt = 0 /\ clock \in Nat
    BY <1>0 DEF NoMark, TypeInvariant
  <1>7. ended' = [ended EXCEPT ![f.iface] = f.sentAt] /\ ended \in [Ifaces -> Nat]
    BY <1>0, <1>1 DEF Commits, TypeInvariant
  <1>8. \A s \in Sessions : marks[s].iface = f.iface => f.sentAt > marks[s].sentAt
    BY CommitsLater
  <1>9. \A s \in Sessions : s \in Nat /\ marks[s].sentAt \in Nat
    BY <1>0, MarkFields DEF Sessions
  <1>10. (\A g \in Flying : g.sentAt <= clock)'
    BY <1>2, <1>3 DEF Windows
  <1>11. (\A s \in Sessions : marks[s].sentAt <= clock)'
    <2> SUFFICES ASSUME NEW s \in Sessions PROVE marks'[s].sentAt <= clock
      BY <1>2
    <2>1. CASE s = f.session /\ marks'[s] = w[s]
      BY <1>2, <1>4, <2>1 DEF Windows
    <2> QED
      BY <1>5, <1>6, <2>1 DEF Windows
  <1>12. ASSUME NEW s \in Sessions, NEW t \in Sessions, marks'[s].sequence > 0, marks'[t].sequence > 0,
                marks'[s].iface = marks'[t].iface, s < t
         PROVE  marks'[s].sentAt < marks'[t].sentAt
    <2>1. marks'[s] = w[s] /\ marks'[t] = w[t]
      BY <1>5, <1>6, <1>12
    <2>2. CASE t = f.session
      <3>1. s # f.session
        BY <1>9, <1>12, <2>2
      <3> QED
        BY <1>4, <1>5, <1>8, <1>12, <2>1, <2>2, <3>1
    <2>3. CASE s = f.session
      <3>1. t # f.session
        BY <1>9, <1>12, <2>3
      <3>2. t <= s
        BY <1>2, <1>4, <1>5, <1>12, <2>1, <2>3, <3>1 DEF FrameAhead, Marked
      <3> QED
        BY <1>9, <1>12, <3>2
    <2>4. CASE s # f.session /\ t # f.session
      BY <1>5, <1>12, <2>1, <2>4 DEF Windows, Marked
    <2> QED
      BY <2>2, <2>3, <2>4
  <1>13. ASSUME NEW i \in Ifaces, i = f.iface
         PROVE  LatestKept(i)' \/ LatestRetired(i)'
    <2>1. ended'[i] = f.sentAt
      BY <1>7, <1>13
    <2>2. CASE marks'[f.session] = w[f.session]
      <3>1. /\ marks'[f.session].sequence > 0 /\ marks'[f.session].iface = i
            /\ marks'[f.session].sentAt >= ended'[i]
        BY <1>2, <1>4, <1>13, <2>1, <2>2
      <3>2. \E s \in Sessions : marks'[s].sequence > 0 /\ marks'[s].iface = i /\ marks'[s].sentAt >= ended'[i]
        BY <1>2, <3>1
      <3> QED
        BY <3>2 DEF LatestKept, Marked
    <2>3. CASE marks'[f.session] = NoMark /\ w[f.session].sentAt <= retiredBefore'
      <3>1. ended'[i] <= retiredBefore'
        BY <1>4, <2>1, <2>3
      <3>2. ASSUME NEW s \in Sessions, f.session <= s, Marked(s) => marks[s].iface = i
            PROVE  ~(marks'[s].sequence > 0)
        <4>1. CASE s = f.session
          BY <1>6, <2>3, <4>1
        <4>2. CASE s # f.session
          <5>1. ~Marked(s)
            BY <1>2, <1>9, <1>13, <3>2, <4>2 DEF FrameAhead
          <5> QED
            BY <1>5, <1>6, <4>2, <5>1 DEF Marked
        <4> QED
          BY <4>1, <4>2
      <3>3. \A g \in Flying' : g.iface = i => ~(marks'[g.session].sequence > 0)
        BY <1>3, <1>13, <3>2 DEF Follows, FrameAhead
      <3>4. delivery[i].session # 0 => ~(marks'[delivery[i].session].sequence > 0)
        <4> SUFFICES ASSUME delivery[i].session # 0
                     PROVE  ~(marks'[delivery[i].session].sequence > 0)
          OBVIOUS
        <4>1. delivery[i].session \in Sessions /\ SenderAhead(i)
          BY <1>0 DEF TypeInvariant, Delivery, Delivered
        <4> QED
          BY <1>2, <1>13, <3>2, <4>1 DEF SenderAhead
      <3> QED
        BY <1>2, <3>1, <3>3, <3>4 DEF LatestRetired, Marked
    <2> QED
      BY <1>2, <1>5, <2>2, <2>3
  <1>14. ASSUME NEW i \in Ifaces, i # f.iface
         PROVE  LatestKept(i)' \/ LatestRetired(i)' \/ ended'[i] = 0
    <2>1. ended'[i] = ended[i] /\ ended[i] \in Nat /\ retiredBefore \in Nat
      BY <1>0, <1>7, <1>14 DEF TypeInvariant
    <2>2. CASE LatestKept(i)
      <3>1. PICK s \in Sessions : Marked(s) /\ marks[s].iface = i /\ marks[s].sentAt >= ended[i]
        BY <2>2 DEF LatestKept
      <3>2. s # f.session /\ w[s] = marks[s]
        BY <1>2, <1>5, <1>14, <3>1 DEF FrameAhead
      <3>3. CASE \E t \in Sessions : /\ marks'[t].sequence > 0 /\ marks'[t].iface = i
                                     /\ marks'[t].sentAt >= ended[i]
        BY <2>1, <3>3 DEF LatestKept, Marked
      <3>4. CASE ~\E t \in Sessions : /\ marks'[t].sequence > 0 /\ marks'[t].iface = i
                                      /\ marks'[t].sentAt >= ended[i]
        <4>1. marks'[s] = NoMark /\ marks[s].sentAt <= retiredBefore'
          BY <1>5, <3>1, <3>2, <3>4 DEF Marked
        <4>2. ended'[i] <= retiredBefore'
          BY <1>5, <1>9, <2>1, <3>1, <4>1
        <4>3. ASSUME NEW t \in Sessions, s <= t, t # f.session, Marked(t) => marks[t].iface = i
              PROVE  ~(marks'[t].sequence > 0)
          <5>1. CASE t = s
            BY <1>6, <4>1, <5>1
          <5>2. CASE t # s
            <6> SUFFICES ASSUME marks'[t].sequence > 0 PROVE FALSE
              OBVIOUS
            <6>1. marks'[t] = marks[t] /\ Marked(t) /\ marks[t].iface = i
              BY <1>5, <1>6, <4>3 DEF Marked
            <6>2. s < t
              BY <1>9, <4>3, <5>2
            <6>3. marks[s].sentAt < marks[t].sentAt
              BY <3>1, <6>1, <6>2 DEF Windows
            <6> QED
              BY <1>9, <2>1, <3>1, <3>4, <6>1, <6>3
          <5> QED
            BY <5>1, <5>2
        <4>4. \A g \in Flying' : g.iface = i => ~(marks'[g.session].sequence > 0)
          BY <1>3, <1>14, <3>1, <4>3 DEF Follows, FrameAhead
        <4>5. delivery[i].session # 0 => ~(marks'[delivery[i].session].sequence > 0)
          <5> SUFFICES ASSUME delivery[i].session # 0
                       PROVE  ~(marks'[delivery[i].session].sequence > 0)
            OBVIOUS
          <5>1. delivery[i].session \in Sessions /\ SenderAhead(i)
            BY <1>0 DEF TypeInvariant, Delivery, Delivered
          <5>2. s <= delivery[i].session /\ delivery[i].session # f.session
            BY <1>2, <1>14, <3>1, <5>1 DEF SenderAhead
          <5> QED
            BY <4>3, <5>1, <5>2 DEF SenderAhead
        <4> QED
          BY <1>2, <4>2, <4>4, <4>5 DEF LatestRetired, Marked
      <3> QED
        BY <3>3, <3>4
    <2>3. CASE LatestRetired(i)
      <3>1. ended'[i] <= retiredBefore'
        BY <1>5, <2>1, <2>3 DEF LatestRetired
      <3>2. ASSUME NEW t \in Sessions, t # f.session, ~Marked(t) PROVE ~(marks'[t].sequence > 0)
        BY <1>5, <1>6, <3>2 DEF Marked
      <3>3. \A g \in Flying' : g.iface = i => ~(marks'[g.session].sequence > 0)
        BY <1>3, <1>14, <2>3, <3>2 DEF Follows, LatestRetired
      <3>4. delivery[i].session # 0 => ~(marks'[delivery[i].session].sequence > 0)
        <4> SUFFICES ASSUME delivery[i].session # 0
                     PROVE  ~(marks'[delivery[i].session].sequence > 0)
          OBVIOUS
        <4>1. delivery[i].session \in Sessions /\ SenderAhead(i)
          BY <1>0 DEF TypeInvariant, Delivery, Delivered
        <4>2. delivery[i].session # f.session
          BY <1>2, <1>14, <4>1 DEF SenderAhead
        <4> QED
          BY <2>3, <3>2, <4>1, <4>2 DEF LatestRetired
      <3> QED
        BY <1>2, <3>1, <3>3, <3>4 DEF LatestRetired, Marked
    <2>4. CASE ended[i] = 0
      BY <2>1, <2>4
    <2> QED
      BY <2>2, <2>3, <2>4 DEF Windows
  <1> QED
    BY <1>10, <1>11, <1>12, <1>13, <1>14 DEF Windows, Marked

\* No clock runs back behind a window that was sent.
LEMMA ClockForward ==
  ASSUME TypeInvariant, [Next]_vars
  PROVE  clock \in Nat /\ clock' \in Nat /\ clock' >= clock
  <1>0. clock \in Nat
    BY DEF TypeInvariant
  <1>1. CASE Tick \/ (\E n \in 1 .. MaxBack : ClockBack(n)) \/ UNCHANGED vars
    BY <1>0, <1>1, ClocksMove
  <1>2. CASE ~(Tick \/ (\E n \in 1 .. MaxBack : ClockBack(n)) \/ UNCHANGED vars)
    <2>1. clock' = clock
      BY <1>2
      DEF Next, SensorStep, DaemonStep, Send, SendFails, Flushes, RetireInterface, ReadACK,
          ConnectionRejected, ReceiveDuplicate, Receive, FlushEvents, CommitSensorBatch, CommitFails,
          Resend, Crash
    <2> QED
      BY <1>0, <2>1
  <1> QED
    BY <1>1, <1>2

\* A step that does not commit: what flies and what the sensor holds of an
\* interface is of a session it already had, or of a new one.
LEMMA WindowsUntouched ==
  ASSUME TypeInvariant, Delivered, Windows, [Next]_vars, NoCommit,
         \A g \in Flying' : /\ g.session \in Sessions
                            /\ g \in Flying \/ (g.sentAt \in Nat /\ g.sentAt <= clock),
         \A i \in Ifaces : LatestRetired(i) =>
            /\ \A g \in Flying' : g.iface = i => ~Marked(g.session)
            /\ delivery'[i].session # 0 =>
                 ~Marked(delivery'[i].session) /\ delivery'[i].session \in Sessions
  PROVE  Windows'
  <1>1. clock \in Nat /\ clock' \in Nat /\ clock' >= clock
    BY ClockForward
  <1>2. (\A g \in Flying : g.sentAt <= clock)'
    <2> SUFFICES ASSUME NEW g \in Flying' PROVE g.sentAt <= clock'
      OBVIOUS
    <2>1. g.sentAt <= clock /\ g.sentAt \in Nat
      BY FlyingTypes DEF Windows
    <2> QED
      BY <1>1, <2>1
  <1>3. (\A s \in Sessions : marks[s].sentAt <= clock)'
    <2> SUFFICES ASSUME NEW s \in Sessions PROVE marks'[s].sentAt <= clock'
      OBVIOUS
    <2>1. marks'[s].sentAt = marks[s].sentAt /\ marks[s].sentAt \in Nat /\ marks[s].sentAt <= clock
      BY MarkFields DEF NoCommit, Windows
    <2> QED
      BY <1>1, <2>1
  <1>4. (\A s, t \in Sessions :
            Marked(s) /\ Marked(t) /\ marks[s].iface = marks[t].iface /\ s < t
                => marks[s].sentAt < marks[t].sentAt)'
    BY DEF NoCommit, Windows, Marked
  <1>5. ASSUME NEW i \in Ifaces PROVE LatestKept(i)' \/ LatestRetired(i)' \/ ended'[i] = 0
    <2>1. CASE LatestKept(i)
      BY <2>1 DEF LatestKept, NoCommit, Marked
    <2>2. CASE LatestRetired(i)
      BY <2>2 DEF LatestRetired, NoCommit, Marked
    <2>3. CASE ended[i] = 0
      BY <2>3 DEF NoCommit
    <2> QED
      BY <2>1, <2>2, <2>3 DEF Windows
  <1> QED
    BY <1>2, <1>3, <1>4, <1>5 DEF Windows

LEMMA WindowsNext ==
  ASSUME Typed, Delivered, Windows, [Next]_vars
  PROVE  Windows'
  <1>0. TypeInvariant
    BY DEF Typed
  <1>1. ASSUME NEW i \in Ifaces, Window(i), NoCommit PROVE Windows'
    <2> DEFINE o == Opened(i)
               s == o.session
    <2>1. s \in Sessions /\ delivery'[i].session = s
      BY <1>0, <1>1, SenderReady DEF Window
    <2>2. \A g \in Flying' : g \in Flying \/ (/\ g.iface = i /\ g.session = s
                                              /\ g.sentAt \in Nat /\ g.sentAt <= clock)
      <3>1. CASE wire' = wire
        BY <1>1, <3>1 DEF Flying, Window
      <3>2. ASSUME NEW f, Sends(i, f)
            PROVE  \A g \in Flying' : g \in Flying \/ (/\ g.iface = i /\ g.session = s
                                                       /\ g.sentAt \in Nat /\ g.sentAt <= clock)
        <4>1. f \in Batch /\ f.iface = i /\ f.session = s /\ f.sentAt = Now /\ wire' = Append(wire, f)
          BY <2>1, <3>2 DEF Sends
        <4>2. /\ Len(wire) \in Nat /\ DOMAIN wire = 1 .. Len(wire)
              /\ DOMAIN wire' = 1 .. Len(wire) + 1
              /\ \A k \in DOMAIN wire : wire'[k] = wire[k]
              /\ wire'[Len(wire) + 1] = f
          BY <1>0, <4>1, WireTypes, Appending
        <4>3. \A g \in Flying' : g \in Flying \/ g = f
          BY <1>1, <4>2 DEF Flying, Window
        <4>4. f.sentAt \in Nat /\ f.sentAt <= clock
          BY <1>0, <4>1, NowIsTime
        <4> QED
          BY <4>1, <4>3, <4>4
      <3> QED
        BY <1>1, <3>1, <3>2 DEF Window
    <2>3. LatestRetired(i) => ~Marked(s)
      <3>1. CASE delivery[i].session = 0
        <4>1. s = counts.sessions + 1 /\ counts.sessions \in Nat
          BY <1>0, <3>1 DEF Opened, NoState, TypeInvariant, Counts
        <4> QED
          BY <2>1, <4>1 DEF Delivered, SessionsKnown
      <3>2. CASE delivery[i].session # 0
        BY <3>2 DEF Opened, LatestRetired
      <3> QED
        BY <3>1, <3>2
    <2>4. \A g \in Flying' : /\ g.session \in Sessions
                             /\ g \in Flying \/ (g.sentAt \in Nat /\ g.sentAt <= clock)
      BY <1>0, <2>1, <2>2, FlyingTypes
    <2>5. ASSUME NEW j \in Ifaces, LatestRetired(j)
          PROVE  /\ \A g \in Flying' : g.iface = j => ~Marked(g.session)
                 /\ delivery'[j].session # 0 =>
                      ~Marked(delivery'[j].session) /\ delivery'[j].session \in Sessions
      <3>1. \A g \in Flying' : g.iface = j => ~Marked(g.session)
        BY <2>2, <2>3, <2>5 DEF LatestRetired
      <3>2. CASE j = i
        BY <2>1, <2>3, <2>5, <3>1, <3>2
      <3>3. CASE j # i
        <4>1. delivery'[j] = delivery[j] /\ delivery[j].session \in Sessions \cup {0}
          BY <1>0, <1>1, <3>3 DEF Window, TypeInvariant, Delivery
        <4> QED
          BY <2>5, <3>1, <4>1 DEF LatestRetired
      <3> QED
        BY <3>2, <3>3
    <2> QED
      BY <1>0, <1>1, <2>4, <2>5, WindowsUntouched
  <1>2. CASE QuietStep /\ ~CommitSensorBatch
    <2>1. Quiet /\ NoCommit
      BY <1>0, <1>2, QuietSteps, BooksUntouched
    <2>2. \A g \in Flying' : g.session \in Sessions /\ g \in Flying
      BY <1>0, <2>1, FlyingTypes DEF Quiet
    <2>3. ASSUME NEW j \in Ifaces, LatestRetired(j)
          PROVE  /\ \A g \in Flying' : g.iface = j => ~Marked(g.session)
                 /\ delivery'[j].session # 0 =>
                      ~Marked(delivery'[j].session) /\ delivery'[j].session \in Sessions
      <3>1. delivery'[j].session \in {0, delivery[j].session} /\ delivery[j].session \in Sessions \cup {0}
        BY <1>0, <2>1 DEF Quiet, TypeInvariant, Delivery
      <3> QED
        BY <2>2, <2>3, <3>1 DEF LatestRetired
    <2> QED
      BY <1>0, <2>1, <2>2, <2>3, WindowsUntouched
  <1>3. CASE CommitSensorBatch
    BY <1>3, WindowsCommit
  <1>4. ASSUME NEW i \in Ifaces, NEW n \in Units, Send(i, n) \/ SendFails(i, n), ~CommitSensorBatch
        PROVE  Windows'
    BY <1>0, <1>1, <1>4, SendWindow, SendFailsWindow, BooksUntouched
  <1> QED
    BY <1>2, <1>3, <1>4 DEF Next, SensorStep, DaemonStep, QuietStep

\* A step that moves the end of an interface's recorded windows moves it on.
LEMMA WindowStep ==
  ASSUME Typed, Delivered, Windows, [Next]_vars
  PROVE  \A i \in Ifaces : ended'[i] # ended[i] => ended'[i] > ended[i]
  <1>0. TypeInvariant
    BY DEF Typed
  <1>1. CASE CommitSensorBatch
    <2>1. PICK complete \in BOOLEAN : Commits(complete)
      BY <1>0, <1>1, Commitment
    <2>2. ended' = [ended EXCEPT ![daemon.frame.iface] = daemon.frame.sentAt]
      BY <2>1 DEF Commits
    <2>3. ended \in [Ifaces -> Nat]
      BY <1>0 DEF TypeInvariant
    <2> QED
      BY <1>1, <2>2, <2>3, CommitsLater
  <1>2. CASE ~CommitSensorBatch
    BY <1>0, <1>2, BooksUntouched DEF NoCommit
  <1> QED
    BY <1>1, <1>2

-----------------------------------------------------------------------------
(* What the detector was shown *)

\* The daemon remembers what it remembered; frames are read, dropped or
\* repeated.
Remembers ==
    /\ \A k \in DOMAIN wire' : \E j \in DOMAIN wire : wire'[k] = wire[j]
    /\ daemon'.observed = daemon.observed /\ daemon'.pending = daemon.pending
    /\ daemon'.prepared = daemon.prepared /\ daemon'.again = daemon.again /\ stored' = stored
    /\ daemon'.pc = "observed" => daemon.pc = "observed" /\ daemon'.frame = daemon.frame

LEMMA ShownRemembered ==
  ASSUME TypeInvariant, Shown, NoCommit, Remembers
  PROVE  Shown'
  <1>1. Flying' \subseteq Flying
    BY DEF Remembers, Flying
  <1>2. ASSUME NEW k \in DOMAIN wire' PROVE ShownBefore(wire[k])'
    <2>1. PICK j \in DOMAIN wire : wire'[k] = wire[j]
      BY DEF Remembers
    <2>2. wire[j].session \in Sessions /\ ShownBefore(wire[j])
      BY WireTypes DEF Shown, Batch
    <2> QED
      BY <2>1, <2>2 DEF ShownBefore, IdOf, IsPrepared, Remembers, NoCommit
  <1>3. ASSUME NEW i \in Ifaces PROVE PreparedFor(i)'
    BY <1>1 DEF Shown, PreparedFor, Remembers, NoCommit
  <1>4. (daemon.pc = "observed" => IsPrepared(daemon.frame))'
    BY DEF Shown, Remembers, IsPrepared
  <1> QED
    BY <1>2, <1>3, <1>4 DEF Shown, Remembers, NoCommit, ObservedOnce

\* A frame that is not a duplicate and not in preparation was not shown yet,
\* unless its session's watermark is gone.
LEMMA NewIsNew ==
  ASSUME TypeInvariant, Shown, Receive, ~IsPrepared(wire[1]), wire[1].session \notin gone
  PROVE  IdOf(wire[1]) \notin daemon.observed \cup daemon.pending \cup stored
  <1> DEFINE f == wire[1]
  <1>1. f \in Batch /\ ~Duplicate(f) /\ 1 \in DOMAIN wire
    BY Reception, WireHead
  <1>2. f.session \in Sessions /\ f.sequence \in Nat \ {0} /\ marks[f.session].sequence \in Nat
    BY <1>1, MarkFields DEF Batch
  <1>3. ~(f.sequence <= marks[f.session].sequence)
    BY <1>1, <1>2 DEF Duplicate, Marked
  <1>4. ShownBefore(f)
    BY <1>1 DEF Shown
  <1>5. IdOf(f) \notin daemon.observed
    BY <1>3, <1>4 DEF ShownBefore
  <1> QED
    BY <1>4, <1>5 DEF ShownBefore, Shown

LEMMA ShownReceive ==
  ASSUME TypeInvariant, Delivered, Shown, Receive, ~CommitSensorBatch
  PROVE  Shown'
  <1> DEFINE f == wire[1]
             id == IdOf(f)
  <1>1. /\ wire # <<>> /\ f \in Batch /\ WireDrops(1) /\ ~Duplicate(f) /\ daemon.pc = "idle"
        /\ daemon'.pc = "observed" /\ daemon'.frame = f
    BY Reception
  <1>2. UNCHANGED <<marks, stored, gone>>
    BY DEF Receive, durable, ghost
  <1>3. 1 \in DOMAIN wire /\ f \in Flying /\ f.iface \in Ifaces /\ f.session \in Sessions
        /\ f.sequence \in Nat
    BY <1>1, WireHead DEF Flying, Batch
  <1>4. ASSUME NEW k \in DOMAIN wire'
        PROVE  /\ k + 1 \in DOMAIN wire /\ wire'[k] = wire[k + 1] /\ wire[k + 1] \in Flying
               /\ Follows(f, wire[k + 1]) /\ ShownBefore(wire[k + 1])
    <2>1. k + 1 \in DOMAIN wire /\ wire'[k] = wire[k + 1] /\ 1 < k + 1
      BY <1>1, WireTypes DEF WireDrops
    <2> QED
      BY <1>3, <2>1 DEF Flying, Shown, Delivered, FramesInOrder
  <1>5. \A g \in Flying' : g \in Flying /\ (g = f \/ Follows(f, g))
    BY <1>1, <1>3, <1>4 DEF Flying
  <1>6. CASE IsPrepared(f)
    <2>1. /\ daemon'.observed = daemon.observed /\ daemon'.pending = daemon.pending
          /\ daemon'.prepared = daemon.prepared /\ daemon'.again = daemon.again
      BY <1>6, Reception
    <2>2. ASSUME NEW k \in DOMAIN wire' PROVE ShownBefore(wire[k])'
      BY <1>2, <1>4, <2>1 DEF ShownBefore, IdOf, IsPrepared
    <2>3. ASSUME NEW i \in Ifaces PROVE PreparedFor(i)'
      BY <1>2, <1>5, <2>1 DEF Shown, PreparedFor
    <2>4. (daemon.pc = "observed" => IsPrepared(daemon.frame))'
      BY <1>1, <1>6, <2>1 DEF IsPrepared
    <2> QED
      BY <1>2, <2>1, <2>2, <2>3, <2>4 DEF Shown, ObservedOnce
  <1>7. CASE ~IsPrepared(f)
    <2> DEFINE q == daemon'.prepared
    <2>1. /\ daemon'.observed = daemon.observed \cup {id}
          /\ \A i \in Ifaces \ {f.iface} : q[i] = daemon.prepared[i]
          /\ q[f.iface].session = f.session /\ q[f.iface].sequence = f.sequence
          /\ q[f.iface].events \in {{}, {id}}
          /\ daemon'.pending = daemon.pending \cup q[f.iface].events
          /\ \/ daemon'.again = daemon.again
             \/ id \in daemon.observed /\ daemon'.again = daemon.again \cup {id}
      BY <1>7, Reception
    <2>2. f.session \notin gone => id \notin daemon.observed \cup daemon.pending \cup stored
      BY <1>7, NewIsNew
    <2>3. id[1] = f.session /\ id[2] = f.sequence
      BY DEF IdOf
    <2>4. ObservedOnce'
      <3> SUFFICES ASSUME NEW x \in daemon'.again PROVE x[1] \in gone
        BY <1>2 DEF ObservedOnce
      <3>1. CASE x \in daemon.again
        BY <3>1 DEF Shown, ObservedOnce
      <3>2. CASE x = id /\ id \in daemon.observed
        BY <2>2, <2>3, <3>2
      <3> QED
        BY <2>1, <3>1, <3>2
    <2>5. ASSUME NEW k \in DOMAIN wire' PROVE ShownBefore(wire[k])'
      <3> DEFINE g == wire[k + 1]
      <3>1. g \in Batch /\ Follows(f, g) /\ ShownBefore(g) /\ wire'[k] = g /\ g \in Flying
        BY <1>4, WireTypes
      <3>2. g.iface \in Ifaces /\ g.session \in Sessions /\ g.sequence \in Nat
        BY <3>1 DEF Batch
      <3>3. IdOf(g) \in stored => IdOf(g) \in daemon'.observed
        BY <2>1, <3>1 DEF ShownBefore
      <3>4. ASSUME g.session \notin gone, IdOf(g) \in daemon'.observed
            PROVE  \/ g.sequence <= marks[g.session].sequence
                   \/ q[g.iface].session = g.session /\ q[g.iface].sequence = g.sequence
        <4>1. CASE IdOf(g) = id
          <5>1. g.session = f.session /\ g.sequence = f.sequence
            BY <4>1 DEF IdOf
          <5>2. g.iface = f.iface
            BY <3>1, <5>1 DEF Follows
          <5> QED
            BY <2>1, <5>1, <5>2
        <4>2. CASE IdOf(g) # id /\ IdOf(g) \in daemon.observed
          <5>1. g.sequence <= marks[g.session].sequence \/ IsPrepared(g)
            BY <3>1, <3>4, <4>2 DEF ShownBefore
          <5>2. CASE IsPrepared(g) /\ g.iface # f.iface
            BY <2>1, <3>2, <5>2 DEF IsPrepared
          <5>3. CASE IsPrepared(g) /\ g.iface = f.iface
            <6>1. g.session <= f.session /\ (g.session = f.session => g.sequence <= f.sequence)
              BY <1>3, <5>3 DEF Shown, PreparedFor, IsPrepared
            <6>2. g.session = f.session
              BY <1>3, <3>1, <3>2, <5>3, <6>1 DEF Follows, Sessions
            <6>3. g.sequence = f.sequence
              BY <1>3, <3>1, <3>2, <6>1, <6>2 DEF Follows
            <6> QED
              BY <4>2, <6>2, <6>3 DEF IdOf
          <5> QED
            BY <5>1, <5>2, <5>3
        <4> QED
          BY <2>1, <3>4, <4>1, <4>2
      <3> HIDE DEF g, q
      <3> QED
        BY <1>2, <3>1, <3>3, <3>4 DEF ShownBefore, IdOf, IsPrepared, q
    <2>6. ASSUME NEW i \in Ifaces, i = f.iface PROVE PreparedFor(i)'
      <3>1. <<q[i].session, q[i].sequence>> = id
        BY <2>1, <2>6 DEF IdOf
      <3>2. id \in daemon'.observed
        BY <2>1
      <3>3. f.session \notin gone /\ id \in daemon'.pending => id \in q[i].events
        BY <2>1, <2>2, <2>6
      <3>4. \A g \in Flying' : g.iface = i =>
               f.session <= g.session /\ (f.session = g.session => f.sequence <= g.sequence)
        <4> SUFFICES ASSUME NEW g \in Flying', g.iface = i
                     PROVE  f.session <= g.session /\ (f.session = g.session => f.sequence <= g.sequence)
          OBVIOUS
        <4>1. g.session \in Nat /\ g.sequence \in Nat
          BY <1>5, FlyingTypes DEF Sessions
        <4> QED
          BY <1>3, <1>5, <2>6, <4>1 DEF Follows, Sessions
      <3> HIDE DEF f, id
      <3> QED
        BY <1>2, <2>1, <2>6, <3>1, <3>2, <3>3, <3>4 DEF PreparedFor
    <2>7. ASSUME NEW i \in Ifaces, i # f.iface PROVE PreparedFor(i)'
      <3> DEFINE p == daemon.prepared[i]
                 x == <<p.session, p.sequence>>
      <3>1. q[i] = p /\ PreparedFor(i)
        BY <2>1, <2>7 DEF Shown
      <3>2. p.session # 0 => x \in daemon'.observed
        BY <2>1, <3>1 DEF PreparedFor
      <3>3. p.session \notin gone /\ x \in daemon'.pending => x \in p.events
        <4> SUFFICES ASSUME p.session \notin gone, x \in daemon'.pending PROVE x \in p.events
          OBVIOUS
        <4>1. CASE x = id
          <5>1. p.session = f.session
            BY <4>1 DEF IdOf
          <5>2. x \in daemon.observed
            BY <1>3, <3>1, <5>1 DEF PreparedFor, Sessions
          <5> QED
            BY <2>2, <4>1, <5>1, <5>2
        <4>2. CASE x \in daemon.pending
          BY <3>1, <4>2 DEF PreparedFor
        <4> QED
          BY <2>1, <4>1, <4>2
      <3>4. \A g \in Flying' : g.iface = i =>
               p.session <= g.session /\ (p.session = g.session => p.sequence <= g.sequence)
        BY <1>5, <3>1 DEF PreparedFor
      <3> QED
        BY <1>2, <3>1, <3>2, <3>3, <3>4 DEF PreparedFor
    <2>8. (daemon.pc = "observed" => IsPrepared(daemon.frame))'
      BY <1>1, <2>1 DEF IsPrepared
    <2>9. daemon'.pending \subseteq daemon'.observed
      BY <2>1 DEF Shown
    <2>10. \A x \in daemon'.pending : x[1] \notin gone => x \notin stored
      BY <2>1, <2>2, <2>3 DEF Shown
    <2> QED
      BY <1>2, <2>4, <2>5, <2>6, <2>7, <2>8, <2>9, <2>10 DEF Shown
  <1> QED
    BY <1>6, <1>7

\* A session that is not gone kept its row.
LEMMA RowKept ==
  ASSUME Typed, daemon.pc = "observed", NEW complete \in BOOLEAN, Commits(complete),
         NEW t \in Sessions, t \notin gone'
  PROVE  /\ t \notin gone /\ marks'[t] = Updated(complete)[t]
         /\ t # daemon.frame.session => marks'[t] = marks[t]
         /\ t = daemon.frame.session => marks'[t].sequence = daemon.frame.sequence
  <1> DEFINE w == Updated(complete)
  <1>1. gone' = gone \cup (Rows(w) \ Rows(marks'))
    BY DEF Commits
  <1>2. marks'[t] = w[t] \/ (t \in Rows(w) /\ marks'[t] = NoMark)
    BY TableAfter
  <1>3. t # daemon.frame.session => w[t] = marks[t]
    BY TableAfter
  <1>4. t = daemon.frame.session => w[t].sequence = daemon.frame.sequence
    BY TableAfter, WatermarkRow
  <1>5. NoMark.sequence = 0
    BY DEF NoMark
  <1> HIDE DEF w
  <1>6. marks'[t] = w[t]
    BY <1>1, <1>2, <1>5 DEF Rows
  <1> QED
    BY <1>1, <1>3, <1>4, <1>6 DEF w

\* After a commit the batch in preparation is one below its watermark.
LEMMA ShownCommit ==
  ASSUME Typed, Delivered, Shown, CommitSensorBatch
  PROVE  Shown'
  <1> DEFINE f == daemon.frame
  <1>0. TypeInvariant
    BY DEF Typed
  <1>1. PICK complete \in BOOLEAN : Commits(complete)
    BY <1>0, Commitment
  <1>2. /\ daemon.pc = "observed" /\ f \in Batch /\ UNCHANGED <<wire, stored>> /\ IsPrepared(f)
        /\ f.iface \in Ifaces /\ f.session \in Sessions /\ f.sequence \in Nat
        /\ f.sequence > marks[f.session].sequence
    BY <1>0, Commitment DEF Shown, Batch, Typed, NewBatch
  <1>3. /\ daemon'.pc = "idle" /\ daemon'.pending = daemon.pending
        /\ daemon'.observed = daemon.observed /\ daemon'.again = daemon.again
        /\ daemon'.prepared[f.iface] = NoPrepared
        /\ \A i \in Ifaces \ {f.iface} : daemon'.prepared[i] = daemon.prepared[i]
    BY <1>0, <1>2, WorkEnds
  <1>4. gone \subseteq gone'
    BY <1>1 DEF Commits
  <1>5. Flying' \subseteq Flying
    BY <1>2, <1>3 DEF Flying
  <1>6. ASSUME NEW k \in DOMAIN wire' PROVE ShownBefore(wire[k])'
    <2>0. PICK g \in Batch : g = wire[k] /\ wire'[k] = g
      BY <1>0, <1>2, WireTypes
    <2>1. /\ g.iface \in Ifaces /\ g.session \in Sessions /\ g.sequence \in Nat /\ ShownBefore(g)
          /\ marks[g.session].sequence \in Nat
      BY <1>0, <1>2, <2>0, MarkFields DEF Batch, Shown
    <2>2. ASSUME g.session \notin gone', IdOf(g) \in daemon.observed
          PROVE  \/ g.sequence <= marks'[g.session].sequence
                 \/ /\ daemon'.prepared[g.iface].session = g.session
                    /\ daemon'.prepared[g.iface].sequence = g.sequence
      <3>1. /\ g.session # f.session => marks'[g.session] = marks[g.session]
            /\ g.session = f.session => marks'[g.session].sequence = f.sequence
        BY <1>1, <1>2, <2>1, <2>2, RowKept
      <3>2. g.sequence <= marks[g.session].sequence \/ IsPrepared(g)
        BY <1>4, <2>1, <2>2 DEF ShownBefore
      <3>3. CASE g.sequence <= marks[g.session].sequence
        BY <1>2, <2>1, <3>1, <3>3
      <3>4. CASE IsPrepared(g) /\ g.iface = f.iface
        BY <1>2, <3>1, <3>4 DEF IsPrepared
      <3>5. CASE IsPrepared(g) /\ g.iface # f.iface
        BY <1>3, <2>1, <3>5 DEF IsPrepared
      <3> QED
        BY <3>2, <3>3, <3>4, <3>5
    <2> QED
      BY <1>2, <1>3, <2>0, <2>1, <2>2 DEF ShownBefore, IdOf, IsPrepared
  <1>7. ASSUME NEW i \in Ifaces PROVE PreparedFor(i)'
    <2>1. CASE i = f.iface
      <3>1. NoPrepared.session = 0 /\ NoPrepared.sequence = 0
        BY DEF NoPrepared
      <3>2. <<0, 0>> \notin daemon.pending
        BY <1>0, DaemonTypes DEF Id, Sessions
      <3>3. \A g \in Flying' : g.session \in Nat /\ 0 <= g.session /\ g.session # 0
        BY <1>0, <1>5, FlyingTypes DEF Sessions
      <3> QED
        BY <1>3, <2>1, <3>1, <3>2, <3>3 DEF PreparedFor
    <2>2. CASE i # f.iface
      BY <1>3, <1>4, <1>5, <2>2 DEF Shown, PreparedFor
    <2> QED
      BY <2>1, <2>2
  <1> QED
    BY <1>2, <1>3, <1>4, <1>6, <1>7 DEF Shown, ObservedOnce

\* Events that are stored were shown before.
LEMMA ShownFlush ==
  ASSUME TypeInvariant, Shown, FlushEvents
  PROVE  Shown'
  <1>1. UNCHANGED <<wire, marks, gone>>
    BY DEF FlushEvents, ghost
  <1>2. Flying' = Flying
    BY <1>1, EventsFlushed DEF Flying
  <1>3. ASSUME NEW k \in DOMAIN wire' PROVE ShownBefore(wire[k])'
    <2>1. ShownBefore(wire[k])
      BY <1>1 DEF Shown
    <2> QED
      BY <1>1, <2>1, EventsFlushed DEF Shown, ShownBefore, IdOf, IsPrepared
  <1>4. ASSUME NEW i \in Ifaces PROVE PreparedFor(i)'
    BY <1>1, <1>2, EventsFlushed DEF Shown, PreparedFor
  <1> QED
    BY <1>1, <1>3, <1>4, EventsFlushed DEF Shown, ObservedOnce, IsPrepared

\* A daemon that starts has shown nothing to its detector.
LEMMA ShownCrash ==
  ASSUME TypeInvariant, Crash
  PROVE  Shown'
  <1>1. wire' = <<>> /\ daemon' = Rested
    BY DEF Crash
  <1>2. /\ daemon'.pc = "idle" /\ daemon'.pending = {} /\ daemon'.observed = {} /\ daemon'.again = {}
        /\ \A i \in Ifaces : daemon'.prepared[i] = NoPrepared
    BY <1>1 DEF Rested
  <1>3. DOMAIN wire' = {}
    BY <1>1, EmptySeq
  <1>4. Flying' = {}
    BY <1>2, <1>3 DEF Flying
  <1>5. NoPrepared.session = 0
    BY DEF NoPrepared
  <1>6. ASSUME NEW i \in Ifaces PROVE PreparedFor(i)'
    BY <1>2, <1>4, <1>5 DEF PreparedFor
  <1> QED
    BY <1>2, <1>3, <1>6 DEF Shown, ObservedOnce

\* A new window is a batch nobody has worked on.
LEMMA ShownWindow ==
  ASSUME TypeInvariant, Delivered, Shown, NoCommit, NEW i \in Ifaces, Window(i)
  PROVE  Shown'
  <1>0. UNCHANGED <<daemon, marks, stored, gone>>
    BY DEF Window
  <1>1. CASE wire' = wire
    BY <1>0, <1>1, ShownRemembered DEF Remembers
  <1>2. ASSUME NEW f, Sends(i, f) PROVE Shown'
    <2> DEFINE o == Opened(i)
               s == o.session
    <2>1. /\ s \in Sessions /\ o.sent \in Nat /\ \A id \in Heard : id[1] = s => id[2] <= o.sent
          /\ daemon.prepared[i].session <= s
      BY SenderReady DEF Window
    <2>2. /\ f \in Batch /\ f.iface = i /\ f.session = s /\ f.sequence = o.sent + 1
          /\ wire' = Append(wire, f)
      BY <1>2 DEF Sends, Window
    <2> HIDE DEF o, s
    <2>3. /\ Len(wire) \in Nat /\ DOMAIN wire = 1 .. Len(wire) /\ DOMAIN wire' = 1 .. Len(wire) + 1
          /\ \A k \in DOMAIN wire : wire'[k] = wire[k]
          /\ wire'[Len(wire) + 1] = f
      BY <2>2, WireTypes, Appending
    <2>4. \A g \in Flying' : g \in Flying \/ g = f
      BY <1>0, <2>3 DEF Flying
    <2>5. IdOf(f) \notin Heard
      <3>1. IdOf(f)[1] = s /\ IdOf(f)[2] = o.sent + 1
        BY <2>2 DEF IdOf
      <3> QED
        BY <2>1, <3>1
    <2>6. ASSUME NEW k \in DOMAIN wire' PROVE ShownBefore(wire[k])'
      <3>1. CASE k \in DOMAIN wire
        <4>1. ShownBefore(wire[k]) /\ wire'[k] = wire[k]
          BY <2>3, <3>1 DEF Shown
        <4> QED
          BY <1>0, <4>1 DEF ShownBefore, IdOf, IsPrepared
      <3>2. CASE k = Len(wire) + 1
        <4>1. wire'[k] = f /\ IdOf(f) \notin stored /\ IdOf(f) \notin daemon.observed
          BY <2>3, <2>5, <3>2 DEF Heard
        <4> QED
          BY <1>0, <4>1 DEF ShownBefore, IdOf
      <3> QED
        BY <2>3, <3>1, <3>2
    <2>7. ASSUME NEW j \in Ifaces PROVE PreparedFor(j)'
      <3> DEFINE p == daemon.prepared[j]
      <3>1. PreparedFor(j)
        BY DEF Shown
      <3>2. j = i => p.session <= s /\ (p.session = s => p.sequence <= f.sequence)
        <4> SUFFICES ASSUME j = i, p.session = s PROVE p.sequence <= f.sequence
          BY <2>1
        <4>1. <<p.session, p.sequence>> \in Heard /\ p.sequence \in Nat
          BY <2>1, <3>1, DaemonTypes DEF PreparedFor, Heard, Sessions, Prepared
        <4>2. p.sequence <= o.sent
          BY <2>1, <4>1
        <4> QED
          BY <2>1, <2>2, <4>1, <4>2
      <3>3. \A g \in Flying' : g.iface = j =>
               p.session <= g.session /\ (p.session = g.session => p.sequence <= g.sequence)
        BY <2>2, <2>4, <3>1, <3>2 DEF PreparedFor
      <3> QED
        BY <1>0, <3>1, <3>3 DEF PreparedFor
    <2> QED
      BY <1>0, <2>6, <2>7 DEF Shown, IsPrepared, ObservedOnce
  <1> QED
    BY <1>1, <1>2 DEF Window

LEMMA ShownNext ==
  ASSUME Typed, Delivered, Shown, [Next]_vars
  PROVE  Shown'
  <1>0. TypeInvariant
    BY DEF Typed
  <1>1. CASE CommitSensorBatch
    BY <1>1, ShownCommit
  <1> SUFFICES ASSUME ~CommitSensorBatch PROVE Shown'
    BY <1>1
  <1>2. NoCommit
    BY <1>0, BooksUntouched
  <1>3. ASSUME NEW i \in Ifaces, NEW n \in Units, Send(i, n) \/ SendFails(i, n) PROVE Shown'
    BY <1>0, <1>2, <1>3, SendWindow, SendFailsWindow, ShownWindow
  <1>4. ASSUME wire' = wire, daemon' = daemon, stored' = stored PROVE Remembers
    BY <1>4 DEF Remembers
  <1>5. ASSUME NEW i \in Ifaces, RetireInterface(i) PROVE Remembers
    BY <1>4, <1>5 DEF RetireInterface, durable
  <1>6. ASSUME ReadACK PROVE Remembers
    BY <1>4, <1>6 DEF ReadACK, durable
  <1>7. ASSUME NEW m \in 0 .. Len(wire), WireDrops(m)
        PROVE  \A k \in DOMAIN wire' : \E j \in DOMAIN wire : wire'[k] = wire[j]
    BY <1>7 DEF WireDrops
  <1>8. ASSUME ConnectionRejected PROVE Remembers
    <2>1. daemon' = daemon /\ stored' = stored
      BY <1>8 DEF ConnectionRejected, durable
    <2>2. \E m \in 0 .. Len(wire) : WireDrops(m)
      BY <1>0, <1>8, WireAbandoned DEF ConnectionRejected
    <2> QED
      BY <1>7, <2>1, <2>2 DEF Remembers
  <1>9. ASSUME ReceiveDuplicate PROVE Remembers
    <2>1. /\ wire # <<>> /\ wire' = Tail(wire) /\ stored' = stored /\ daemon.pc = "idle"
          /\ daemon' = Received(Head(wire)) /\ Head(wire) \in Batch
      BY <1>0, <1>9, WireHead DEF ReceiveDuplicate
    <2>2. WireDrops(1) /\ 1 \in 0 .. Len(wire)
      BY <1>0, <2>1, WireTail DEF WireDrops
    <2> QED
      BY <1>0, <1>7, <2>1, <2>2, ReceivedTypes DEF Remembers
  <1>10. ASSUME CommitFails PROVE Remembers
    <2>1. wire' = wire /\ stored' = stored /\ daemon.pc = "observed"
      BY <1>10 DEF CommitFails, durable
    <2> QED
      BY <1>0, <1>10, <2>1, WorkEnds DEF Remembers
  <1>11. ASSUME Resend PROVE Remembers
    <2>1. /\ daemon' = daemon /\ stored' = stored /\ wire # <<>> /\ wire' = Append(wire, wire[Len(wire)])
      BY <1>11 DEF Resend, durable
    <2>2. /\ Len(wire) \in DOMAIN wire /\ DOMAIN wire' = 1 .. Len(wire) + 1
          /\ DOMAIN wire = 1 .. Len(wire) /\ Len(wire) \in Nat
          /\ \A k \in DOMAIN wire : wire'[k] = wire[k]
          /\ wire'[Len(wire) + 1] = wire[Len(wire)]
      <3>1. wire[Len(wire)] \in Batch /\ Len(wire) \in DOMAIN wire
        BY <1>0, <2>1, WireHead, WireTypes
      <3> QED
        BY <1>0, <2>1, <3>1, WireTypes, Appending
    <2> QED
      BY <2>1, <2>2 DEF Remembers
  <1>12. ASSUME Tick \/ (\E n \in 1 .. MaxBack : ClockBack(n)) \/ UNCHANGED vars PROVE Remembers
    BY <1>0, <1>4, <1>12, ClocksMove DEF Still
  <1>13. CASE Receive
    BY <1>0, <1>13, ShownReceive
  <1>14. CASE FlushEvents
    BY <1>0, <1>14, ShownFlush
  <1>15. CASE Crash
    BY <1>0, <1>15, ShownCrash
  <1>16. Remembers => Shown'
    BY <1>0, <1>2, ShownRemembered
  <1> QED
    BY <1>3, <1>5, <1>6, <1>8, <1>9, <1>10, <1>11, <1>12, <1>13, <1>14, <1>15, <1>16
    DEF Next, SensorStep, DaemonStep

-----------------------------------------------------------------------------
(* What the sensor is told *)

\* Only a batch that is shown to the detector adds to the events in memory.
LEMMA PendingShrinks ==
  ASSUME TypeInvariant, [Next]_vars, ~Receive
  PROVE  daemon'.pending \subseteq daemon.pending
  <1>1. ASSUME NEW i \in Ifaces, NEW n \in Units, Send(i, n) \/ SendFails(i, n)
        PROVE  daemon'.pending \subseteq daemon.pending
    BY <1>1 DEF Send, SendFails, Flushes
  <1>2. ASSUME NEW i \in Ifaces, RetireInterface(i) PROVE daemon'.pending \subseteq daemon.pending
    BY <1>2 DEF RetireInterface
  <1>3. CASE ReadACK \/ ConnectionRejected \/ Resend
    BY <1>3 DEF ReadACK, ConnectionRejected, Resend
  <1>4. CASE ReceiveDuplicate
    <2>1. wire # <<>> /\ daemon' = Received(Head(wire)) /\ Head(wire) \in Batch
      BY <1>4, WireHead DEF ReceiveDuplicate
    <2> QED
      BY <2>1, ReceivedTypes
  <1>5. CASE FlushEvents
    BY <1>5, EventsFlushed
  <1>6. CASE CommitSensorBatch \/ CommitFails
    BY <1>6, WorkEnds DEF CommitSensorBatch, CommitFails
  <1>7. CASE Crash
    BY <1>7 DEF Crash, Rested
  <1>8. CASE Tick \/ (\E n \in 1 .. MaxBack : ClockBack(n)) \/ UNCHANGED vars
    BY <1>8, ClocksMove DEF Still
  <1> QED
    BY <1>1, <1>2, <1>3, <1>4, <1>5, <1>6, <1>7, <1>8 DEF Next, SensorStep, DaemonStep

LEMMA CommittedGrows ==
  ASSUME TypeInvariant, Delivered, [Next]_vars
  PROVE  committed \subseteq committed' /\ gone \subseteq gone'
  <1>1. CASE CommitSensorBatch
    BY <1>1, Commitment DEF Commits
  <1>2. CASE ~CommitSensorBatch
    BY <1>2, BooksUntouched DEF NoCommit
  <1> QED
    BY <1>1, <1>2

\* What is complete stays complete: a batch below its watermark is not worked
\* on again.
LEMMA CompleteKept ==
  ASSUME TypeInvariant, Delivered, Books, [Next]_vars, NEW s, NEW n, CompleteFor(s, n)
  PROVE  CompleteFor(s, n)'
  <1> DEFINE c == [session |-> s, sequence |-> n, complete |-> TRUE]
  <1>1. c \in committed /\ c.session \in Sessions /\ c.sequence \in Nat
    BY DEF CompleteFor, TypeInvariant
  <1>2. s \in Sessions /\ n \in Nat /\ c \in Committed(s)
    BY <1>1 DEF Committed
  <1>3. CASE ~Receive
    BY <1>3, PendingShrinks, CommittedGrows DEF CompleteFor
  <1>4. CASE Receive
    <2> DEFINE f == wire[1]
    <2>1. UNCHANGED <<committed, gone, marks>> /\ f \in Batch /\ ~Duplicate(f)
      BY <1>4, Reception DEF Receive, ghost, durable
    <2>2. f.session \in Sessions /\ f.sequence \in Nat \ {0} /\ marks[f.session].sequence \in Nat
      BY <2>1, MarkFields DEF Batch
    <2>3. ASSUME s \notin gone, <<s, n>> \in daemon'.pending PROVE FALSE
      <3>1. <<s, n>> = IdOf(f)
        BY <1>4, <2>3, Reception DEF CompleteFor
      <3>2. s = f.session /\ n = f.sequence
        BY <3>1 DEF IdOf
      <3>3. n <= marks[s].sequence
        BY <1>2, <2>3 DEF Books, Balanced
      <3> QED
        BY <2>1, <2>2, <3>2, <3>3 DEF Duplicate, Marked
    <2> QED
      BY <2>1, <2>3 DEF CompleteFor
  <1> QED
    BY <1>3, <1>4

\* An acknowledgement that was true stays true.
LEMMA AckKept ==
  ASSUME TypeInvariant, Delivered, Books, [Next]_vars, NEW a \in Acks, AckTrue(a)
  PROVE  AckTrue(a)'
  <1>1. a.durable => \E c \in committed' : c.session = a.session /\ c.sequence = a.committed
    BY CommittedGrows DEF AckTrue, Committed
  <1>2. a.complete => CompleteFor(a.session, a.sequence)'
    BY CompleteKept DEF AckTrue
  <1> QED
    BY <1>1, <1>2 DEF AckTrue, Committed

\* One more acknowledgement, or one less.
LEMMA AcksExtended ==
  ASSUME TypeInvariant, Delivered, Books, Told, [Next]_vars, NEW a \in Acks, AckTrue(a)',
         acks' \in {acks, Append(acks, a)}
  PROVE  \A k \in DOMAIN acks' : AckTrue(acks[k])'
  <1>1. acks \in Seq(Acks) /\ Len(acks) \in Nat /\ DOMAIN acks = 1 .. Len(acks)
        /\ \A k \in DOMAIN acks : acks[k] \in Acks
    <2>1. acks \in Seq(Acks)
      BY DEF TypeInvariant
    <2> QED
      BY <2>1, LenProperties, ElementOfSeq
  <1>2. ASSUME NEW k \in DOMAIN acks' PROVE \E b \in Acks : acks'[k] = b /\ AckTrue(b)'
    <2>1. CASE k \in DOMAIN acks
      <3>1. acks'[k] = acks[k]
        BY <1>1, <2>1, Appending
      <3> QED
        BY <1>1, <2>1, <3>1, AckKept DEF Told
    <2>2. CASE k \notin DOMAIN acks
      <3>1. acks' = Append(acks, a) /\ k = Len(acks) + 1 /\ acks'[k] = a
        BY <1>1, <2>2, Appending
      <3> QED
        BY <3>1
    <2> QED
      BY <2>1, <2>2
  <1> SUFFICES ASSUME NEW k \in DOMAIN acks' PROVE AckTrue(acks[k])'
    OBVIOUS
  <1>3. PICK b \in Acks : acks'[k] = b /\ AckTrue(b)'
    BY <1>2
  <1> QED
    BY <1>3 DEF AckTrue, CompleteFor, Committed

LEMMA AcksShrink ==
  ASSUME TypeInvariant, Delivered, Books, Told, [Next]_vars,
         acks' \in {acks, <<>>} \/ (acks # <<>> /\ acks' = Tail(acks))
  PROVE  \A k \in DOMAIN acks' : AckTrue(acks[k])'
  <1>1. acks \in Seq(Acks) /\ Len(acks) \in Nat /\ DOMAIN acks = 1 .. Len(acks)
        /\ \A k \in DOMAIN acks : acks[k] \in Acks
    <2>1. acks \in Seq(Acks)
      BY DEF TypeInvariant
    <2> QED
      BY <2>1, LenProperties, ElementOfSeq
  <1> SUFFICES ASSUME NEW k \in DOMAIN acks' PROVE AckTrue(acks[k])'
    OBVIOUS
  <1>2. \E j \in DOMAIN acks : acks'[k] = acks[j]
    <2>1. CASE acks' = acks
      BY <2>1
    <2>2. CASE acks' = <<>>
      BY <2>2, EmptySeq
    <2>3. CASE acks # <<>> /\ acks' = Tail(acks)
      <3>1. /\ acks' \in Seq(Acks) /\ Len(acks') = Len(acks) - 1
            /\ \A j \in 1 .. Len(acks') : acks'[j] = acks[j + 1]
        BY <1>1, <2>3, HeadTailProperties
      <3>2. k \in 1 .. Len(acks) - 1
        BY <3>1, LenProperties
      <3> QED
        BY <1>1, <3>1, <3>2
    <2> QED
      BY <2>1, <2>2, <2>3
  <1>3. PICK b \in Acks : acks'[k] = b /\ AckTrue(b)
    BY <1>1, <1>2 DEF Told
  <1>4. AckTrue(b)'
    BY <1>3, AckKept
  <1> QED
    BY <1>3, <1>4 DEF AckTrue, CompleteFor, Committed

\* What the sensor knows of an interface whose state does not change.
LEMMA TellingKept ==
  ASSUME TypeInvariant, Delivered, Books, [Next]_vars, NEW i \in Ifaces, SensorTold(i),
         delivery'[i] = delivery[i]
  PROVE  SensorTold(i)'
  <1>1. delivery[i].committed > 0 =>
          \E c \in committed' : c.session = delivery[i].session /\ c.sequence = delivery[i].committed
    BY CommittedGrows DEF SensorTold, Committed
  <1>2. PICK s, n : s = delivery[i].session /\ n = delivery[i].sent
    OBVIOUS
  <1>3. delivery[i].complete => CompleteFor(s, n)'
    BY <1>2, CompleteKept DEF SensorTold
  <1> QED
    BY <1>1, <1>2, <1>3 DEF SensorTold, CompleteFor, Committed

\* An acknowledgement that is read is believed as it was written.
LEMMA TellingRead ==
  ASSUME TypeInvariant, Delivered, Books, Told, ReadACK, NEW i \in Ifaces
  PROVE  SensorTold(i)'
  <1> DEFINE a == Head(acks)
  <1>1. UNCHANGED <<committed, gone, daemon>>
    BY DEF ReadACK, ghost
  <1>2. acks \in Seq(Acks) /\ acks # <<>> /\ a \in Acks /\ a = acks[1] /\ 1 \in DOMAIN acks
    <2>1. acks \in Seq(Acks) /\ acks # <<>> /\ a \in Acks
      BY AckRead
    <2>2. Len(acks) \in Nat \ {0} /\ DOMAIN acks = 1 .. Len(acks)
      BY <2>1, EmptySeq, LenProperties
    <2> QED
      BY <2>1, <2>2, HeadTailProperties
  <1>3. AckTrue(a) /\ SensorTold(i)
    BY <1>2 DEF Told
  <1> HIDE DEF a
  <1>4. /\ delivery'[i].session = delivery[i].session /\ delivery'[i].sent = delivery[i].sent
        /\ \/ delivery'[i] = delivery[i]
           \/ /\ i = a.iface /\ a.session = delivery[i].session
              /\ \/ delivery'[i].committed = delivery[i].committed
                 \/ a.durable /\ delivery'[i].committed = a.committed
              /\ \/ delivery'[i].complete = delivery[i].complete
                 \/ a.sequence = delivery[i].sent /\ delivery'[i].complete = a.complete
    BY AckRead DEF a
  <1>5. delivery'[i].committed > 0 =>
          \E c \in committed : c.session = delivery[i].session /\ c.sequence = delivery'[i].committed
    BY <1>3, <1>4 DEF AckTrue, SensorTold, Committed
  <1>6. delivery'[i].complete => CompleteFor(delivery[i].session, delivery[i].sent)
    BY <1>3, <1>4 DEF AckTrue, SensorTold
  <1> QED
    BY <1>1, <1>4, <1>5, <1>6 DEF SensorTold, CompleteFor, Committed

\* A new window is not acknowledged yet.
LEMMA TellingWindow ==
  ASSUME TypeInvariant, Delivered, Told, NEW i \in Ifaces, Window(i)
  PROVE  SensorTold(i)'
  <1>1. /\ committed' = committed /\ delivery'[i].complete = FALSE
        /\ delivery'[i].session = Opened(i).session /\ delivery'[i].committed = Opened(i).committed
    BY DEF Window
  <1>2. CASE delivery[i].session = 0
    <2>1. Opened(i).committed = 0
      BY <1>2 DEF Opened, NoState
    <2> QED
      BY <1>1, <2>1 DEF SensorTold
  <1>3. CASE delivery[i].session # 0
    <2>1. Opened(i) = delivery[i] /\ SensorTold(i)
      BY <1>3 DEF Opened, Told
    <2> QED
      BY <1>1, <2>1 DEF SensorTold, Committed
  <1> QED
    BY <1>2, <1>3

LEMMA MarkKept ==
  ASSUME TypeInvariant, Delivered, Books, [Next]_vars, NEW s \in Sessions, MarkTrue(s),
         marks'[s].sequence = marks[s].sequence, marks'[s].complete = marks[s].complete
  PROVE  MarkTrue(s)'
  <1>1. Marked(s) => \E c \in committed' : c.session = s /\ c.sequence = marks[s].sequence
    BY CommittedGrows DEF MarkTrue, Committed
  <1>2. PICK n : n = marks[s].sequence
    OBVIOUS
  <1>3. Marked(s) /\ marks[s].complete => CompleteFor(s, n)'
    BY <1>2, CompleteKept DEF MarkTrue
  <1> QED
    BY <1>1, <1>2, <1>3 DEF MarkTrue, Marked, CompleteFor, Committed

\* A batch that is committed complete has none of its events in memory.
LEMMA CommitIsTrue ==
  ASSUME Typed, Shown, daemon.pc = "observed", CommitSensorBatch, NEW complete \in BOOLEAN,
         Commits(complete), NEW f \in Batch, f = daemon.frame
  PROVE  /\ \E c \in Committed(f.session)' : c.sequence = f.sequence
         /\ complete => CompleteFor(f.session, f.sequence)'
  <1>0. TypeInvariant
    BY DEF Typed
  <1> DEFINE c == [session |-> f.session, sequence |-> f.sequence, complete |-> complete]
             id == <<f.session, f.sequence>>
             p == daemon.prepared[f.iface]
  <1>1. committed' = committed \cup {c} /\ gone \subseteq gone' /\ (complete => p.events \subseteq stored)
    BY DEF Commits
  <1>2. daemon'.pending = daemon.pending
    BY <1>0, WorkEnds
  <1>3. c \in Committed(f.session)' /\ c.sequence = f.sequence
    BY <1>1 DEF Committed
  <1>4. ASSUME complete, f.session \notin gone', id \in daemon.pending PROVE FALSE
    <2>1. f.iface \in Ifaces /\ p.session = f.session /\ p.sequence = f.sequence
      BY DEF Batch, Shown, IsPrepared
    <2>2. id \in p.events
      BY <1>1, <1>4, <2>1 DEF Shown, PreparedFor
    <2>3. id \notin stored
      <3>1. id[1] = f.session
        OBVIOUS
      <3> QED
        BY <1>1, <1>4, <3>1 DEF Shown
    <2> QED
      BY <1>1, <1>4, <2>2, <2>3
  <1>5. complete => CompleteFor(f.session, f.sequence)'
    BY <1>1, <1>2, <1>4 DEF CompleteFor
  <1> QED
    BY <1>3, <1>5

LEMMA ToldCommit ==
  ASSUME Typed, Delivered, Books, Shown, Told, [Next]_vars, CommitSensorBatch
  PROVE  Told'
  <1>0. TypeInvariant
    BY DEF Typed
  <1>1. PICK complete \in BOOLEAN : Commits(complete)
    BY <1>0, Commitment
  <1>2. PICK f \in Batch : f = daemon.frame
    BY <1>0, Commitment
  <1>3. /\ daemon.pc = "observed" /\ delivery' = delivery
        /\ f.session \in Sessions /\ f.sequence \in Nat
    BY <1>0, <1>2, Commitment DEF Batch
  <1>4. /\ \E c \in Committed(f.session)' : c.sequence = f.sequence
        /\ complete => CompleteFor(f.session, f.sequence)'
    BY <1>1, <1>2, <1>3, CommitIsTrue
  <1>5. \A k \in DOMAIN acks' : AckTrue(acks[k])'
    <2>1. PICK a \in Acks : /\ a = Ack(f, f.sequence, TRUE, complete)
                            /\ acks' \in {acks, Append(acks, a)}
      <3>1. Acknowledge(f, Ack(f, f.sequence, TRUE, complete))
        BY <1>1, <1>2 DEF Commits
      <3> QED
        BY <1>0, <1>3, <3>1, AckTypes
    <2>2. /\ a.session = f.session /\ a.sequence = f.sequence /\ a.committed = f.sequence
          /\ a.complete = complete
      BY <2>1 DEF Ack
    <2>3. AckTrue(a)'
      BY <1>4, <2>2 DEF AckTrue
    <2> QED
      BY <1>0, <2>1, <2>3, AcksExtended
  <1>6. ASSUME NEW s \in Sessions PROVE MarkTrue(s)'
    <2> DEFINE w == Updated(complete)
    <2>1. marks'[s] = w[s] \/ marks'[s] = NoMark
      BY <1>1, <1>3, TableAfter
    <2>2. CASE marks'[s] = NoMark
      <3>1. NoMark.sequence = 0
        BY DEF NoMark
      <3> QED
        BY <2>2, <3>1 DEF MarkTrue, Marked
    <2>3. CASE marks'[s] = w[s] /\ s # f.session
      <3>1. marks'[s] = marks[s]
        BY <1>1, <1>2, <1>3, <2>3, TableAfter
      <3> QED
        BY <1>0, <3>1, MarkKept DEF Told
    <2>4. CASE marks'[s] = w[s] /\ s = f.session
      <3>1. marks'[s].sequence = f.sequence /\ marks'[s].complete = complete
        BY <1>1, <1>2, <1>3, <2>4, TableAfter, WatermarkRow
      <3> QED
        BY <1>4, <2>4, <3>1 DEF MarkTrue, CompleteFor, Committed
    <2> QED
      BY <2>1, <2>2, <2>3, <2>4
  <1>7. ASSUME NEW i \in Ifaces PROVE SensorTold(i)'
    BY <1>0, <1>3, TellingKept DEF Told
  <1> QED
    BY <1>5, <1>6, <1>7 DEF Told

\* The answer to a repeated batch, from the watermark.
LEMMA ToldDuplicate ==
  ASSUME TypeInvariant, Delivered, Books, Told, [Next]_vars, ReceiveDuplicate
  PROVE  \A k \in DOMAIN acks' : AckTrue(acks[k])'
  <1> DEFINE f == Head(wire)
             w == marks[f.session]
             complete == w.complete /\ f.sequence = w.sequence
  <1>1. /\ f \in Batch /\ f.session \in Sessions /\ f.sequence \in Nat /\ Marked(f.session)
        /\ Acknowledge(f, Ack(f, w.sequence, TRUE, complete))
    BY WireHead DEF ReceiveDuplicate, Batch, Duplicate
  <1>2. w.sequence \in Nat /\ complete \in BOOLEAN
    BY <1>1, MarkFields
  <1>3. MarkTrue(f.session)
    BY <1>1 DEF Told
  <1> HIDE DEF f
  <1>4. PICK a \in Acks : a = Ack(f, w.sequence, TRUE, complete) /\ acks' \in {acks, Append(acks, a)}
    BY <1>1, <1>2, AckTypes
  <1>5. /\ a.session = f.session /\ a.sequence = f.sequence /\ a.committed = w.sequence
        /\ a.complete = complete
    BY <1>4 DEF Ack
  <1>6. AckTrue(a)
    BY <1>1, <1>3, <1>5 DEF AckTrue, MarkTrue
  <1> QED
    BY <1>4, <1>6, AckKept, AcksExtended

LEMMA ToldNext ==
  ASSUME Typed, Delivered, Books, Shown, Told, [Next]_vars
  PROVE  Told'
  <1>0. TypeInvariant
    BY DEF Typed
  <1>1. CASE CommitSensorBatch
    BY <1>1, ToldCommit
  <1> SUFFICES ASSUME ~CommitSensorBatch PROVE Told'
    BY <1>1
  <1>2. NoCommit
    BY <1>0, BooksUntouched
  <1>3. \A s \in Sessions : MarkTrue(s)'
    BY <1>0, <1>2, MarkKept DEF NoCommit, Told
  <1>4. ASSUME delivery' = delivery PROVE \A i \in Ifaces : SensorTold(i)'
    BY <1>0, <1>4, TellingKept DEF Told
  <1>5. ASSUME acks' \in {acks, <<>>} PROVE \A k \in DOMAIN acks' : AckTrue(acks[k])'
    BY <1>0, <1>5, AcksShrink
  <1>6. ASSUME NEW i \in Ifaces, Window(i) PROVE Told'
    <2>1. acks' \in {acks, <<>>} /\ \A j \in Ifaces \ {i} : delivery'[j] = delivery[j]
      BY <1>6 DEF Window
    <2>2. \A j \in Ifaces : SensorTold(j)'
      BY <1>0, <1>6, <2>1, TellingKept, TellingWindow DEF Told
    <2> QED
      BY <1>3, <1>5, <2>1, <2>2 DEF Told
  <1>7. ASSUME NEW i \in Ifaces, NEW n \in Units, Send(i, n) \/ SendFails(i, n) PROVE Told'
    BY <1>0, <1>6, <1>7, SendWindow, SendFailsWindow
  <1>8. ASSUME NEW i \in Ifaces, RetireInterface(i) PROVE Told'
    <2>1. acks' = <<>> /\ delivery' = [delivery EXCEPT ![i] = NoState]
      BY <1>8 DEF RetireInterface
    <2>2. ASSUME NEW j \in Ifaces PROVE SensorTold(j)'
      <3>1. CASE j = i
        <4>1. delivery'[j].committed = 0 /\ delivery'[j].complete = FALSE
          BY <1>0, <2>1, <3>1 DEF TypeInvariant, NoState
        <4> QED
          BY <4>1 DEF SensorTold
      <3>2. CASE j # i
        <4>1. delivery'[j] = delivery[j]
          BY <1>0, <2>1, <3>2 DEF TypeInvariant
        <4> QED
          BY <1>0, <4>1, TellingKept DEF Told
      <3> QED
        BY <3>1, <3>2
    <2> QED
      BY <1>3, <1>5, <2>1, <2>2 DEF Told
  <1>9. CASE ReadACK
    <2>1. acks # <<>> /\ acks' = Tail(acks)
      BY <1>9 DEF ReadACK
    <2> QED
      BY <1>0, <1>3, <1>9, <2>1, AcksShrink, TellingRead DEF Told
  <1>10. CASE ReceiveDuplicate
    <2>1. delivery' = delivery
      BY <1>10 DEF ReceiveDuplicate, sensor
    <2> QED
      BY <1>0, <1>3, <1>4, <1>10, <2>1, ToldDuplicate DEF Told
  <1>11. CASE CommitFails
    <2>1. /\ delivery' = delivery /\ daemon.frame \in Batch
          /\ Acknowledge(daemon.frame, Ack(daemon.frame, 0, FALSE, FALSE))
      BY <1>0, <1>11 DEF CommitFails, sensor, TypeInvariant
    <2>2. PICK a \in Acks : a = Ack(daemon.frame, 0, FALSE, FALSE) /\ acks' \in {acks, Append(acks, a)}
      BY <1>0, <2>1, AckTypes
    <2>3. a.durable = FALSE /\ a.complete = FALSE
      BY <2>2 DEF Ack
    <2>4. AckTrue(a)'
      BY <2>3 DEF AckTrue
    <2> QED
      BY <1>0, <1>3, <1>4, <2>1, <2>2, <2>4, AcksExtended DEF Told
  <1>12. CASE ConnectionRejected \/ Receive \/ FlushEvents \/ Resend \/ Crash
    <2>1. UNCHANGED <<delivery, acks>>
      BY <1>12 DEF ConnectionRejected, Receive, FlushEvents, Resend, Crash, sensor
    <2> QED
      BY <1>3, <1>4, <1>5, <2>1 DEF Told
  <1>13. CASE Tick \/ (\E n \in 1 .. MaxBack : ClockBack(n)) \/ UNCHANGED vars
    <2>1. UNCHANGED <<delivery, acks>>
      BY <1>0, <1>13, ClocksMove DEF Still
    <2> QED
      BY <1>3, <1>4, <1>5, <2>1 DEF Told
  <1> QED
    BY <1>7, <1>8, <1>9, <1>10, <1>11, <1>12, <1>13 DEF Next, SensorStep, DaemonStep

-----------------------------------------------------------------------------
(* The size of the watermark table *)

LEMMA BoundedNext ==
  ASSUME Typed, Delivered, WatermarksBounded, [Next]_vars
  PROVE  WatermarksBounded'
  <1>0. TypeInvariant
    BY DEF Typed
  <1>1. CASE ~CommitSensorBatch
    <2>1. Rows(marks') = Rows(marks)
      BY <1>0, <1>1, BooksUntouched DEF NoCommit, Rows
    <2> QED
      BY <2>1 DEF WatermarksBounded
  <1>2. CASE CommitSensorBatch
    <2>1. PICK complete \in BOOLEAN : Commits(complete)
      BY <1>0, <1>2, Commitment
    <2> DEFINE w == Updated(complete)
               s == daemon.frame.session
               o == Oldest(w)
    <2>2. daemon.pc = "observed" /\ MaxWatermarks \in Nat
      BY <1>0, <1>2, Commitment, BoundAssumption
    <2>3. w \in [Sessions -> Mark] /\ s \in Rows(w) /\ \A t \in Sessions \ {s} : w[t] = marks[t]
      BY <2>1, <2>2, TableAfter
    <2>4. o \in Rows(w)
      BY <2>3, OldestRow
    <2>5. marks' = Kept(w)
      BY <2>1 DEF Commits
    <2> HIDE DEF w
    <2>6. IsFiniteSet(Rows(marks)) /\ IsFiniteSet(Rows(w))
      <3>1. IsFiniteSet(Sessions)
        BY FS_Interval, BoundAssumption DEF Sessions
      <3>2. Rows(marks) \subseteq Sessions /\ Rows(w) \subseteq Sessions
        BY DEF Rows
      <3> QED
        BY <3>1, <3>2, FS_Subset
    <2>7. /\ Cardinality(Rows(marks)) \in Nat /\ Cardinality(Rows(w)) \in Nat
          /\ Cardinality(Rows(w)) <= MaxWatermarks + 1
      <3>1. Rows(w) \subseteq Rows(marks) \cup {s}
        BY <2>3 DEF Rows
      <3>2. /\ IsFiniteSet(Rows(marks) \cup {s})
            /\ Cardinality(Rows(marks) \cup {s}) \in
                 {Cardinality(Rows(marks)), Cardinality(Rows(marks)) + 1}
        BY <2>6, FS_AddElement
      <3>3. Cardinality(Rows(w)) <= Cardinality(Rows(marks) \cup {s})
        BY <3>1, <3>2, FS_Subset
      <3>4. Cardinality(Rows(marks)) \in Nat /\ Cardinality(Rows(w)) \in Nat
        BY <2>6, FS_CardinalityType
      <3> QED
        BY <2>2, <3>2, <3>3, <3>4 DEF WatermarksBounded
    <2>8. CASE Cardinality(Rows(w)) > MaxWatermarks
      <3>1. marks' = [w EXCEPT ![o] = NoMark] /\ NoMark.sequence = 0
        BY <2>5, <2>8 DEF Kept, NoMark
      <3>2. Rows(marks') = Rows(w) \ {o}
        BY <2>3, <3>1 DEF Rows
      <3>3. Cardinality(Rows(w) \ {o}) = Cardinality(Rows(w)) - 1
        BY <2>4, <2>6, FS_RemoveElement
      <3> QED
        BY <2>2, <2>7, <3>2, <3>3 DEF WatermarksBounded
    <2>9. CASE ~(Cardinality(Rows(w)) > MaxWatermarks)
      <3>1. marks' = w
        BY <2>5, <2>9 DEF Kept
      <3> QED
        BY <2>2, <2>7, <2>9, <3>1 DEF WatermarksBounded
    <2> QED
      BY <2>8, <2>9
  <1> QED
    BY <1>1, <1>2

-----------------------------------------------------------------------------
(* The theorems *)

\* The inductive invariant.
Sound == Typed /\ Delivered /\ Books /\ Windows /\ Shown /\ Told /\ WatermarksBounded

LEMMA InitSound == Init => Sound
  <1> SUFFICES ASSUME Init PROVE Sound
    OBVIOUS
  <1>1. Typed /\ Delivered
    BY InitTyped, InitDelivered
  <1>2. /\ wire = <<>> /\ acks = <<>> /\ daemon = Rested /\ stored = {} /\ gone = {} /\ committed = {}
        /\ clock = MaxBack + 1 /\ MaxBack \in Nat
        /\ \A i \in Ifaces : delivery[i] = NoState /\ ended[i] = 0
        /\ \A s \in Sessions : /\ marks[s] = NoMark /\ truth[s] = NoHealth /\ recorded[s] = NoHealth
    BY BoundAssumption DEF Init
  <1>3. /\ daemon.pc = "idle" /\ daemon.pending = {} /\ daemon.observed = {} /\ daemon.again = {}
        /\ \A i \in Ifaces : daemon.prepared[i] = NoPrepared
    BY <1>2 DEF Rested
  <1>4. DOMAIN wire = {} /\ DOMAIN acks = {} /\ Flying = {}
    <2>1. DOMAIN wire = {} /\ DOMAIN acks = {}
      BY <1>2, EmptySeq
    <2> QED
      BY <1>3, <2>1 DEF Flying
  <1>5. /\ NoMark.sequence = 0 /\ NoMark.sentAt = 0 /\ NoMark.gaps = 0 /\ NoMark.health = NoHealth
        /\ NoHealth.lost = 0 /\ NoHealth.seen = 0
        /\ NoState.committed = 0 /\ NoState.complete = FALSE /\ NoPrepared.session = 0
    BY DEF NoMark, NoHealth, NoState, NoPrepared
  <1>6. Books
    <2>1. \A s \in Sessions : Committed(s) = {}
      BY <1>2 DEF Committed
    <2>2. ASSUME NEW s \in Sessions PROVE Balanced(s)
      <3>1. Committed(s) = {} /\ Cardinality(Committed(s)) = 0
        BY <2>1, FS_EmptySet
      <3>2. /\ recorded[s].seen = marks[s].health.seen /\ recorded[s].lost = marks[s].health.lost
            /\ marks[s].sequence = 0 /\ marks[s].gaps = 0 /\ marks[s].health.lost = 0
        BY <1>2, <1>5
      <3> QED
        BY <3>1, <3>2 DEF Balanced
    <2> QED
      BY <1>2, <1>5, <2>2, FS_EmptySet DEF Books
  <1>7. Windows
    BY <1>2, <1>4, <1>5 DEF Windows, Marked
  <1>8. Shown
    BY <1>2, <1>3, <1>4, <1>5 DEF Shown, PreparedFor, ObservedOnce
  <1>9. Told
    BY <1>2, <1>4, <1>5 DEF Told, MarkTrue, SensorTold, Marked
  <1>10. WatermarksBounded
    <2>1. Rows(marks) = {}
      BY <1>2, <1>5 DEF Rows
    <2> QED
      BY <2>1, FS_EmptySet, BoundAssumption DEF WatermarksBounded
  <1> QED
    BY <1>1, <1>6, <1>7, <1>8, <1>9, <1>10 DEF Sound

LEMMA SoundNext ==
  ASSUME Sound, [Next]_vars
  PROVE  Sound'
  BY TypedNext, DeliveredNext, BooksNext, WindowsNext, ShownNext, ToldNext, BoundedNext DEF Sound

LEMMA SoundAlways == Spec => []Sound
  <1>1. Init => Sound
    BY InitSound
  <1>2. Sound /\ [Next]_vars => Sound'
    BY SoundNext
  <1> QED
    BY <1>1, <1>2, PTL DEF Spec

\* A session's health is recorded exactly once: never more than the session
\* had, and all of it as of its last committed batch, whatever acknowledgements
\* and frames are lost, repeated or refused and however often the daemon dies
\* (handleSequencedBatch and CommitSensorBatch record a difference of
\* cumulative counters in the transaction that moves the watermark).
THEOREM HealthIsExact == Spec => []HealthCountedOnce
  <1>1. Sound => HealthCountedOnce
    BY DEF Sound, Books, Balanced, HealthCountedOnce
  <1> QED
    BY <1>1, SoundAlways, PTL

\* Every sequence number up to a kept watermark is a committed batch or a
\* counted gap, and what the sensor knows it lost is among the gaps
\* (missing_batches of CommitSensorBatch).
THEOREM GapsAreExact == Spec => []GapsAccountedFor
  <1>1. Sound => GapsAccountedFor
    BY DEF Sound, Books, Balanced, GapsAccountedFor
  <1> QED
    BY <1>1, SoundAlways, PTL

\* The windows recorded for an interface never go back, although watermarks
\* are retired and the wall clock may be set back (the checks of
\* CommitSensorBatch against the last window and retired_before_us).
THEOREM WindowsAreOrdered == Spec => WindowsInOrder
  <1>1. Sound /\ [Next]_vars => [\A i \in Ifaces : ended'[i] # ended[i] => ended'[i] > ended[i]]_vars
    BY WindowStep DEF Sound
  <1> QED
    BY <1>1, SoundAlways, PTL DEF Spec, WindowsInOrder

\* What readACKs makes the sensor believe is true: a sequence it takes for
\* committed was committed, and a batch it takes for complete was committed
\* complete with its events stored.
THEOREM AcksAreTrue == Spec => []AckMeansDurable
  <1>1. Sound => AckMeansDurable
    BY DEF Sound, Told, SensorTold, CompleteFor, AckMeansDurable
  <1> QED
    BY <1>1, SoundAlways, PTL

\* A batch is shown to the detector at most once in a life of the daemon,
\* although its commit may fail and the batch arrive again (the prepared batch
\* of handleSequencedBatch).
THEOREM BatchesAreShownOnce == Spec => []ObservedOnce
  <1>1. Sound => ObservedOnce
    BY DEF Sound, Shown
  <1> QED
    BY <1>1, SoundAlways, PTL

\* The watermark table never holds more than MaxWatermarks rows after a commit
\* (the retirement at the end of CommitSensorBatch).
THEOREM WatermarksAreBounded == Spec => []WatermarksBounded
  <1>1. Sound => WatermarksBounded
    BY DEF Sound
  <1> QED
    BY <1>1, SoundAlways, PTL

=============================================================================
