--------------------------- MODULE SensorDelivery ---------------------------
(***************************************************************************)
(* How the sensor's measurements become durable: the BatchSender of        *)
(* internal/sensor/delivery.go, the Unix socket, the daemon's              *)
(* handleSequencedBatch (internal/daemon/sensor_commits.go) and the        *)
(* watermark transaction of internal/store/sensor_commits.go.              *)
(*                                                                         *)
(* A batch is sent once and never again.  What must survive a lost batch   *)
(* or a lost acknowledgement is its health counters: they are cumulative   *)
(* within a session (one per interface and capture), and the daemon        *)
(* records the difference to the counters of the last committed batch.     *)
(*                                                                         *)
(* The nine counters of CollectorHealth behave alike; two stand for them:  *)
(* "lost", the batches the sensor failed to send, and "seen", everything   *)
(* read from the kernel.                                                   *)
(***************************************************************************)
EXTENDS Integers, Sequences, FiniteSets

CONSTANTS
    Ifaces,         \* captured interfaces, at most MaxInterfaces
    MaxWatermarks,  \* MaxSensorWatermarks, 64
    MaxHealth,      \* where a health counter saturates, MaxBatchPackets
    Units,          \* health units a window may add
    Derivations     \* what the detector may make of a batch

CONSTANTS           \* bounds of the state space
    MaxSessions,    \* capture sessions
    MaxClock,       \* last instant explored
    MaxBack,        \* how far the wall clock may be set back in total
    MaxCrashes,     \* daemon crashes
    MaxFailures,    \* failed sends and failed transactions
    MaxResends      \* frames delivered a second time

ASSUME BoundAssumption ==
    /\ {MaxWatermarks, MaxHealth} \subseteq Nat \ {0}
    /\ {MaxSessions, MaxClock, MaxBack, MaxCrashes, MaxFailures, MaxResends} \subseteq Nat
    /\ Units \subseteq Nat
    /\ Derivations \subseteq [raised : BOOLEAN, rejected : BOOLEAN]
\* 64 watermarks for at most 8 interfaces
ASSUME RoomAssumption == IsFiniteSet(Ifaces) /\ MaxWatermarks > Cardinality(Ifaces)

VARIABLES
    clock, back,    \* true time; how far the wall clock has been set back
    delivery,       \* BatchSender.delivery by interface
    flushed,        \* captureSlot.lastFlush by interface (monotonic clock)
    link,           \* the sensor's end of the connection
    wire,           \* frames written and not yet read by the daemon, oldest first
    acks,           \* acknowledgements written and not yet read by the sensor
    daemon,         \* the daemon's memory
    marks,          \* sensor_watermarks by session
    retiredBefore,  \* sensor_commit_state.retired_before_us
    stored,         \* derived events with their notification decision, durable
    counts,         \* bounds: sessions, crashes, failures, resends
    truth,          \* observation: what each session really saw and lost
    recorded,       \* observation: health recorded for each session
    committed,      \* observation: batches committed, with their outcome
    gone,           \* observation: sessions whose watermark was retired
    ended           \* observation: end of the last committed window, by interface

durable == <<marks, retiredBefore, stored>>
ghost   == <<truth, recorded, committed, gone, ended>>
sensor  == <<delivery, flushed, link>>
vars    == <<clock, back, sensor, wire, acks, daemon, durable, counts, ghost>>

Now      == clock - back
Sessions == 1 .. MaxSessions
Later(a, b) == IF a >= b THEN a ELSE b

NoHealth == [lost |-> 0, seen |-> 0, saturated |-> FALSE]
NoState  == [session |-> 0, sent |-> 0, committed |-> 0, complete |-> FALSE,
             health |-> NoHealth]
NoMark   == [sequence |-> 0, iface |-> "none", sentAt |-> 0, committedAt |-> 0, row |-> 0,
             complete |-> FALSE, gaps |-> 0, duplicates |-> 0, health |-> NoHealth]
NoFrame  == [iface |-> "none", session |-> 0, sequence |-> 0, sentAt |-> 0,
             health |-> NoHealth, conn |-> 0]
NoPrepared == [session |-> 0, sequence |-> 0, events |-> {}, rejected |-> FALSE]
Rested   == [pc |-> "idle", frame |-> NoFrame, conn |-> 0,
             last |-> [i \in Ifaces |-> NoFrame],
             prepared |-> [i \in Ifaces |-> NoPrepared],
             pending |-> {}, observed |-> {}, again |-> {}]

-----------------------------------------------------------------------------
(* Health counters *)

\* addHealth
Add(h, field, n) ==
    IF h[field] > MaxHealth \/ n > MaxHealth - h[field]
    THEN [h EXCEPT ![field] = MaxHealth, !.saturated = TRUE]
    ELSE [h EXCEPT ![field] = @ + n]

\* CollectorHealth.Delta; a counter that went back is refused.
\* mutant: the counters are taken as if they were not cumulative
DeltaOfAll(now, before) == [now EXCEPT !.saturated = now.saturated \/ before.saturated]
Delta(now, before) == [now EXCEPT !.lost = @ - before.lost, !.seen = @ - before.seen]
Continues(now, before) ==
    /\ now.lost >= before.lost /\ now.seen >= before.seen
    /\ before.saturated => now.saturated

-----------------------------------------------------------------------------
(* The sensor *)

\* BatchSender.identify: a session for an interface without one, the next
\* sequence number, the batch's counters added to the session's.
Identified(i, n) ==
    LET state == IF delivery[i].session = 0
                 THEN [NoState EXCEPT !.session = counts.sessions + 1] ELSE delivery[i]
    IN  [state EXCEPT !.sent = @ + 1, !.complete = FALSE, !.health = Add(@, "seen", n)]

\* retainLoss: one more batch did not leave.
LossRetained(state) == [state EXCEPT !.complete = FALSE, !.health = Add(@, "lost", 1)]

Frame(i, state) ==
    [iface |-> i, session |-> state.session, sequence |-> state.sent, sentAt |-> Now,
     health |-> state.health, conn |-> IF link.up THEN link.conn ELSE link.conn + 1]

Plus(total, seen, lost) == [total EXCEPT !.seen = @ + seen, !.lost = @ + lost]
Witness(s, seen, lost)  == truth' = [truth EXCEPT ![s] = Plus(@, seen, lost)]

\* One interface's turn in Fleet.flush.
SessionsWith(i) == counts.sessions + (IF delivery[i].session = 0 THEN 1 ELSE 0)
Flushes(i) ==
    /\ clock > flushed[i]
    /\ SessionsWith(i) <= MaxSessions
    /\ flushed' = [flushed EXCEPT ![i] = clock]
    /\ UNCHANGED <<clock, back, daemon, durable, recorded, committed, gone, ended>>

\* sendBefore, frame written.  A new connection forgets unread
\* acknowledgements; the daemon refuses it while it still reads the old one,
\* and then the frame is gone.
Send(i, n) ==
    LET state == Identified(i, n)  f == Frame(i, state) IN
    /\ Flushes(i)
    /\ delivery' = [delivery EXCEPT ![i] = state]
    /\ \/ link' = [up |-> TRUE, conn |-> f.conn] /\ wire' = Append(wire, f)
       \/ ~link.up /\ link' = [up |-> FALSE, conn |-> f.conn] /\ UNCHANGED wire
    /\ acks' = IF link.up THEN acks ELSE <<>>
    /\ counts' = [counts EXCEPT !.sessions = SessionsWith(i)]
    /\ Witness(state.session, n, 0)

\* sendBefore with a failed dial, deadline or write, and discard of a window
\* that ran too long: the loss is retained and the connection closed.
SendFails(i, n) ==
    LET state == LossRetained(Identified(i, n)) IN
    /\ Flushes(i)
    /\ delivery' = [delivery EXCEPT ![i] = state]
    /\ link' = [link EXCEPT !.up = FALSE]
    /\ acks' = <<>>
    /\ counts.failures < MaxFailures
    /\ counts' = [counts EXCEPT !.sessions = SessionsWith(i), !.failures = @ + 1]
    /\ Witness(state.session, n, 1)
    /\ UNCHANGED wire

\* Fleet.retire and BatchSender.RetireInterface: the link's state is dropped,
\* its successor gets a session of its own.
RetireInterface(i) ==
    /\ delivery[i].session # 0
    /\ delivery' = [delivery EXCEPT ![i] = NoState]
    /\ link' = [link EXCEPT !.up = FALSE]
    /\ acks' = <<>>
    /\ UNCHANGED <<clock, back, flushed, wire, daemon, durable, counts, ghost>>

Completes(state, a) == IF a.sequence = state.sent THEN a.complete ELSE state.complete

\* readACKs, one frame
ReadACK ==
    LET a == Head(acks)  state == delivery[a.iface] IN
    /\ acks # <<>>
    /\ acks' = Tail(acks)
    /\ delivery' =
        IF /\ state.session = a.session
           /\ a.sequence <= state.sent /\ a.committed <= state.sent
        THEN [delivery EXCEPT ![a.iface] =
                [state EXCEPT !.committed = IF a.durable THEN Later(@, a.committed) ELSE @,
                              !.complete = Completes(state, a)]]
        ELSE delivery
    /\ UNCHANGED <<clock, back, flushed, link, wire, daemon, durable, counts, ghost>>

-----------------------------------------------------------------------------
(* The daemon *)

Marked(s)    == marks[s].sequence > 0
Ack(f, seq, kept, complete) ==
    [iface |-> f.iface, session |-> f.session, sequence |-> f.sequence,
     committed |-> seq, durable |-> kept, complete |-> complete]
\* An acknowledgement for a connection the sensor has closed reaches nobody.
Acknowledge(f, a) ==
    acks' = IF link.up /\ link.conn = f.conn THEN Append(acks, a) ELSE acks

Duplicate(f) == Marked(f.session) /\ f.sequence <= marks[f.session].sequence

\* serveSensor: the frames of one connection must not step back in time; one
\* that repeats an earlier sequence is passed on as it is.
Previous(f) == IF f.conn = daemon.conn THEN daemon.last[f.iface] ELSE NoFrame
Repeats(f)  == f.session = Previous(f).session /\ f.sequence <= Previous(f).sequence
Accepts(f)  == Repeats(f) \/ f.sentAt > Previous(f).sentAt
Received(f) ==
    [daemon EXCEPT !.conn = f.conn,
                   !.last = [i \in Ifaces |->
                        IF i = f.iface /\ ~Repeats(f) THEN f
                        ELSE IF f.conn = daemon.conn THEN @[i] ELSE NoFrame]]

\* The frames of a closed connection, the oldest on the wire, are never read.
Abandons(conn) ==
    \E k \in DOMAIN wire : /\ \A j \in DOMAIN wire : wire[j].conn = conn <=> j <= k
                          /\ wire' = SubSeq(wire, k + 1, Len(wire))

ConnectionRejected ==
    LET f == Head(wire) IN
    /\ wire # <<>> /\ daemon.pc = "idle"
    /\ ~Accepts(f)
    /\ Abandons(f.conn)
    /\ link' = IF link.conn = f.conn THEN [link EXCEPT !.up = FALSE] ELSE link
    /\ UNCHANGED <<clock, back, delivery, flushed, acks, daemon, durable, counts, ghost>>

\* handleSequencedBatch of a sequence already committed: counted, answered,
\* nothing recorded again.  What became of an older one is no longer known.
ReceiveDuplicate ==
    LET f == Head(wire)  w == marks[f.session] IN
    /\ wire # <<>> /\ daemon.pc = "idle"
    /\ Accepts(f)
    /\ Duplicate(f)
    /\ wire' = Tail(wire)
    /\ marks' = [marks EXCEPT ![f.session].duplicates = @ + 1]
    /\ Acknowledge(f, Ack(f, w.sequence, TRUE, w.complete /\ f.sequence = w.sequence))
    /\ daemon' = Received(f)
    /\ UNCHANGED <<clock, back, sensor, retiredBefore, stored, counts, ghost>>

IsPrepared(f) == /\ daemon.prepared[f.iface].session = f.session
                 /\ daemon.prepared[f.iface].sequence = f.sequence

\* handleSequencedBatch of a new sequence, up to the detector: a batch already
\* shown to the detector (its commit failed) is not shown again.  Of the
\* events the detector derives, each is queued or, at capacity, rejected.
Receive ==
    LET f == Head(wire)  id == <<f.session, f.sequence>> IN
    /\ wire # <<>> /\ daemon.pc = "idle"
    /\ Accepts(f)
    /\ ~Duplicate(f)
    /\ wire' = Tail(wire)
    /\ IF IsPrepared(f)
       THEN daemon' = [Received(f) EXCEPT !.pc = "observed", !.frame = f]
       ELSE \E d \in Derivations : LET events == IF d.raised THEN {id} ELSE {} IN
            daemon' = [Received(f) EXCEPT
                !.pc = "observed", !.frame = f,
                !.pending = @ \cup events,
                !.prepared[f.iface] = [session |-> f.session, sequence |-> f.sequence,
                                       events |-> events, rejected |-> d.rejected],
                !.observed = @ \cup {id},
                !.again = IF id \in daemon.observed THEN @ \cup {id} ELSE @]
    /\ UNCHANGED <<clock, back, sensor, acks, durable, counts, ghost>>

\* flushEvents, before the commit or on the event ticker: each queued event is
\* stored together with its notification decision; a failed write leaves it.
FlushEvents ==
    /\ daemon.pending # {}
    /\ stored' = stored \cup daemon.pending
    /\ daemon' = [daemon EXCEPT !.pending = {}]
    /\ UNCHANGED <<clock, back, sensor, wire, acks, marks, retiredBefore, counts, ghost>>

-----------------------------------------------------------------------------
(* CommitSensorBatch *)

\* The end of the interface's last recorded window.
PreviousEnd(i) ==
    LET ends == {marks[s].sentAt : s \in {x \in Sessions : marks[x].iface = i}}
    IN  IF ends = {} THEN 0 ELSE CHOOSE e \in ends : \A x \in ends : x <= e

\* mutant: only a session already known is checked
RefusedIfKnown(f) == Marked(f.session) /\ f.sentAt <= marks[f.session].sentAt
Refused(f) ==
    \/ ~Marked(f.session) /\ f.sentAt <= retiredBefore
    \/ f.sentAt <= PreviousEnd(f.iface)
    \/ ~Continues(f.health, marks[f.session].health)

\* Batches of the session that were skipped.
\* mutant: a session's first batches are not missed
GapOfKnown(f) == IF Marked(f.session) THEN f.sequence - marks[f.session].sequence - 1 ELSE 0
Gap(f) == f.sequence - marks[f.session].sequence - 1

NextRow(f) == IF Marked(f.session) THEN marks[f.session].row
              ELSE 1 + CHOOSE r \in {marks[s].row : s \in Sessions} :
                            \A s \in Sessions : marks[s].row <= r
Watermark(f, complete) ==
    [sequence |-> f.sequence, iface |-> f.iface, sentAt |-> f.sentAt, committedAt |-> Now,
     row |-> NextRow(f), complete |-> complete, gaps |-> marks[f.session].gaps + Gap(f),
     duplicates |-> marks[f.session].duplicates, health |-> f.health]

\* ORDER BY committed_at, rowid LIMIT 1
Rows(w) == {s \in Sessions : w[s].sequence > 0}
Oldest(w) ==
    CHOOSE s \in Rows(w) : \A x \in Rows(w) :
        \/ w[s].committedAt < w[x].committedAt
        \/ w[s].committedAt = w[x].committedAt /\ w[s].row <= w[x].row

\* One row too many: the oldest goes, and sessions that ended before it are no
\* longer told apart from new ones.
RetiredTo(w) ==
    IF Cardinality(Rows(w)) > MaxWatermarks
    THEN Later(retiredBefore, w[Oldest(w)].sentAt) ELSE retiredBefore
Kept(w) ==
    IF Cardinality(Rows(w)) > MaxWatermarks THEN [w EXCEPT ![Oldest(w)] = NoMark] ELSE w

\* What became of the batch's derived events: SensorEventOutcome and the
\* completeness handleSequencedBatch makes of it.
\* mutant: events still waiting in memory count as stored
DoneThoughPending(f, admitted) == admitted /\ ~daemon.prepared[f.iface].rejected
Done(f, admitted) ==
    /\ daemon.prepared[f.iface].events \subseteq stored
    /\ admitted /\ ~daemon.prepared[f.iface].rejected

\* Health delta, traffic and watermark in one transaction.
CommitSensorBatch ==
    LET f == daemon.frame IN
    /\ daemon.pc = "observed" /\ ~Refused(f)
    /\ \E admitted \in BOOLEAN :
        LET complete == Done(f, admitted)
            w == [marks EXCEPT ![f.session] = Watermark(f, complete)]
            d == Delta(f.health, marks[f.session].health)
        IN  /\ daemon.prepared[f.iface].events = {} => admitted
            /\ marks' = Kept(w) /\ retiredBefore' = RetiredTo(w)
            /\ gone' = gone \cup (Rows(w) \ Rows(marks'))
            /\ recorded' = [recorded EXCEPT ![f.session] = Plus(@, d.seen, d.lost)]
            /\ committed' = committed \cup
                    {[session |-> f.session, sequence |-> f.sequence, complete |-> complete]}
            /\ ended' = [ended EXCEPT ![f.iface] = f.sentAt]
            /\ Acknowledge(f, Ack(f, f.sequence, TRUE, complete))
    /\ daemon' = [daemon EXCEPT !.pc = "idle", !.frame = NoFrame,
                                !.prepared[f.iface] = NoPrepared]
    /\ UNCHANGED <<clock, back, sensor, wire, stored, counts, truth>>

\* The transaction is refused, or fails: the batch's traffic is lost, its
\* health comes with the next one.
CommitFails ==
    /\ daemon.pc = "observed"
    /\ IF Refused(daemon.frame) THEN UNCHANGED counts
       ELSE counts.failures < MaxFailures /\ counts' = [counts EXCEPT !.failures = @ + 1]
    /\ Acknowledge(daemon.frame, Ack(daemon.frame, 0, FALSE, FALSE))
    /\ daemon' = [daemon EXCEPT !.pc = "idle", !.frame = NoFrame]
    /\ UNCHANGED <<clock, back, sensor, wire, durable, ghost>>

-----------------------------------------------------------------------------
(* The environment *)

\* A frame arrives a second time.  The sensor of this repository sends each
\* frame once; the daemon's protocol allows for a peer that repeats its
\* latest one.
Resend ==
    LET f == wire[Len(wire)] IN
    /\ wire # <<>> /\ counts.resends < MaxResends
    /\ wire' = Append(wire, f)
    /\ counts' = [counts EXCEPT !.resends = @ + 1]
    /\ UNCHANGED <<clock, back, sensor, acks, daemon, durable, ghost>>

\* The daemon dies and is started again; the connection breaks.
Crash ==
    /\ counts.crashes < MaxCrashes
    /\ counts' = [counts EXCEPT !.crashes = @ + 1]
    /\ daemon' = Rested /\ wire' = <<>>
    /\ link' = [link EXCEPT !.up = FALSE]
    /\ UNCHANGED <<clock, back, delivery, flushed, acks, durable, ghost>>

Tick ==
    /\ clock < MaxClock
    /\ clock' = clock + 1
    /\ UNCHANGED <<back, sensor, wire, acks, daemon, durable, counts, ghost>>

ClockBack(n) ==
    /\ back + n <= MaxBack
    /\ back' = back + n
    /\ UNCHANGED <<clock, sensor, wire, acks, daemon, durable, counts, ghost>>

-----------------------------------------------------------------------------

Init ==
    /\ clock = MaxBack + 1 /\ back = 0
    /\ delivery = [i \in Ifaces |-> NoState]
    /\ flushed = [i \in Ifaces |-> 0]
    /\ link = [up |-> FALSE, conn |-> 0]
    /\ wire = <<>> /\ acks = <<>>
    /\ daemon = Rested
    /\ marks = [s \in Sessions |-> NoMark]
    /\ retiredBefore = 0 /\ stored = {}
    /\ counts = [sessions |-> 0, crashes |-> 0, failures |-> 0, resends |-> 0]
    /\ truth = [s \in Sessions |-> NoHealth]
    /\ recorded = [s \in Sessions |-> NoHealth]
    /\ committed = {} /\ gone = {}
    /\ ended = [i \in Ifaces |-> 0]

SensorStep == \/ \E i \in Ifaces, n \in Units : Send(i, n) \/ SendFails(i, n)
              \/ \E i \in Ifaces : RetireInterface(i)
              \/ ReadACK
DaemonStep == \/ ConnectionRejected \/ ReceiveDuplicate \/ Receive
              \/ FlushEvents \/ CommitSensorBatch \/ CommitFails
Next == SensorStep \/ DaemonStep \/ Resend \/ Crash \/ Tick \/ \E n \in 1 .. MaxBack : ClockBack(n)

Spec == Init /\ [][Next]_vars

-----------------------------------------------------------------------------
(* Types *)

Health == [lost : 0 .. MaxHealth, seen : 0 .. MaxHealth, saturated : BOOLEAN]
Totals == [lost : Nat, seen : Nat, saturated : BOOLEAN]
Id     == Sessions \X Nat
Delivery == [session : Sessions \cup {0}, sent : Nat, committed : Nat, complete : BOOLEAN,
             health : Health]
Batch  == [iface : Ifaces, session : Sessions, sequence : Nat \ {0}, sentAt : Nat,
           health : Health, conn : Nat]
Frames == Batch \cup {NoFrame}
Acks   == [iface : Ifaces, session : Sessions, sequence : Nat, committed : Nat,
           durable : BOOLEAN, complete : BOOLEAN]
Prepared == [session : Sessions \cup {0}, sequence : Nat, events : SUBSET Id, rejected : BOOLEAN]
Daemon == [pc : {"idle", "observed"}, frame : Frames, conn : Nat, last : [Ifaces -> Frames],
           prepared : [Ifaces -> Prepared], pending : SUBSET Id, observed : SUBSET Id,
           again : SUBSET Id]
Counts == [sessions : 0 .. MaxSessions, crashes : Nat, failures : Nat, resends : Nat]
Mark   == [sequence : Nat, iface : Ifaces \cup {"none"}, sentAt : Nat, committedAt : Nat,
           row : Nat, complete : BOOLEAN, gaps : Nat, duplicates : Nat, health : Health]

\* Every variable stays in its domain; the daemon works on a batch while it is
\* not idle.
TypeInvariant ==
    /\ clock \in Nat /\ back \in 0 .. MaxBack /\ clock > MaxBack
    /\ delivery \in [Ifaces -> Delivery]
    /\ flushed \in [Ifaces -> Nat] /\ link \in [up : BOOLEAN, conn : Nat]
    /\ wire \in Seq(Batch) /\ acks \in Seq(Acks)
    /\ daemon \in Daemon /\ (daemon.pc = "observed" => daemon.frame \in Batch)
    /\ marks \in [Sessions -> Mark]
    /\ retiredBefore \in Nat /\ stored \subseteq Id /\ gone \subseteq Sessions
    /\ counts \in Counts
    /\ truth \in [Sessions -> Totals] /\ recorded \in [Sessions -> Totals]
    /\ committed \subseteq [session : Sessions, sequence : Nat, complete : BOOLEAN]
    /\ ended \in [Ifaces -> Nat]

-----------------------------------------------------------------------------
(* Safety *)

\* However many sessions there were, no more than MaxWatermarks rows are kept.
WatermarksBounded == Cardinality(Rows(marks)) <= MaxWatermarks

\* What is recorded of a session's health is never more than the session
\* really had, and as of its last committed batch it is all of it (up to the
\* counter's saturation): lost acknowledgements, lost and repeated frames and
\* crashes neither repeat nor swallow a count, as long as the session's
\* watermark is kept.
HealthCountedOnce ==
    \A s \in Sessions \ gone :
        /\ recorded[s].seen <= truth[s].seen /\ recorded[s].lost <= truth[s].lost
        /\ Marked(s) => /\ recorded[s].seen = marks[s].health.seen
                        /\ recorded[s].lost = marks[s].health.lost

\* Every sequence number up to the watermark is accounted for, as a committed
\* batch or as a counted gap, and every batch the sensor knows it failed to
\* send is among the gaps.
Committed(s) == {c \in committed : c.session = s}
GapsAccountedFor ==
    \A s \in Sessions \ gone : Marked(s) =>
        /\ marks[s].sequence = Cardinality(Committed(s)) + marks[s].gaps
        /\ marks[s].health.lost <= marks[s].gaps

\* The sensor never believes more than is durable: the sequence it takes for
\* committed was committed, and a batch it takes for complete was committed
\* complete, its derived events stored.  (A batch that is repeated after its
\* session's watermark was retired is taken for a new one; see ObservedOnce.)
AckMeansDurable ==
    \A i \in Ifaces :
        LET d == delivery[i] IN
        /\ d.committed > 0 =>
             \E c \in Committed(d.session) : c.sequence = d.committed
        /\ d.complete =>
             /\ [session |-> d.session, sequence |-> d.sent, complete |-> TRUE] \in committed
             /\ d.session \notin gone => <<d.session, d.sent>> \notin daemon.pending

\* In one life of the daemon the detector is shown each batch at most once,
\* although a batch whose commit failed may arrive again, as long as the
\* watermark of its session is kept.
ObservedOnce == \A id \in daemon.again : id[1] \in gone

\* The windows recorded for an interface never go back in time, across
\* sessions, retired watermarks and a wall clock that is set back: no stretch
\* of time is accounted twice.
WindowsInOrder == [][\A i \in Ifaces : ended'[i] # ended[i] => ended'[i] > ended[i]]_vars

\* A session whose watermark was retired is refused, not "guessed to be new"
\* (docs/ARCHITECTURE.md): otherwise its cumulative counters would be recorded
\* again from zero.
RetiredIsRefused ==
    [][\A s \in gone : ~Marked(s) => marks'[s].sequence = 0]_vars

=============================================================================
