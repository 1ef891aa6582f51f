------------------------ MODULE JournalCursorProofs ------------------------
(***************************************************************************)
(* The readiness the journal reader publishes is honest (ReadyIsHonest).   *)
(* The journal is replayed after lost cursors, failed and doubtful writes, *)
(* exits and restarts, and the cache of committed cursors holds as little  *)
(* as one row.  Nevertheless, while the clock is not set back, no entry is *)
(* taken in twice (EachEntryOnce), and the checkpoint passes over no entry *)
(* whose loss is not known (LossIsKnown).  All three hold for every        *)
(* journal, every window, every bound and every sequence of faults.        *)
(***************************************************************************)
EXTENDS JournalCursor, SequenceTheorems, WellFoundedInduction, TLAPS

-----------------------------------------------------------------------------
(* The published readiness *)

(***************************************************************************)
(* ReadyIsHonest alone is not inductive: a state could publish "retrying"  *)
(* with a marker in the store that the reader has forgotten, and the next  *)
(* launch would publish "running".  The marker in the store implies the    *)
(* reader's own, because the reader sets its own first and both are        *)
(* cleared by the same new, trusted record.                                *)
(***************************************************************************)
Shape ==
    /\ mem = [cursor |-> mem.cursor, at |-> mem.at, force |-> mem.force,
              recovery |-> mem.recovery]
    /\ db = [cursor |-> db.cursor, at |-> db.at, pending |-> db.pending,
             seen |-> db.seen, counted |-> db.counted]
    /\ mem.recovery \in BOOLEAN
    /\ db.pending \in BOOLEAN

MarkerIsKnown == db.pending => mem.recovery

Honest == Shape /\ MarkerIsKnown /\ ReadyIsHonest

\* The first process finds no checkpoint and no marker.
LEMMA HonestInit == Init => Honest
BY DEF Init, Resumed, Honest, Shape, MarkerIsKnown, ReadyIsHonest

\* However an attempt ends, the reader's marker is the one it ends with,
\* and "running" is not published.
LEMMA EndKeepsHonest ==
    ASSUME Shape, NEW reason, NEW recovery \in BOOLEAN, EndAttempt(reason, recovery)
    PROVE  /\ mem'.recovery = recovery
           /\ mem' = [cursor |-> mem'.cursor, at |-> mem'.at, force |-> mem'.force,
                      recovery |-> mem'.recovery]
           /\ status' = "retrying"
BY DEF EndAttempt, Shape

\* A degradation may set the marker in the store and changes nothing else.
LEMMA DegradedKeepsShape ==
    ASSUME Shape, NEW outcome, Degraded(outcome)
    PROVE  /\ db'.pending \in BOOLEAN
           /\ db' = [cursor |-> db'.cursor, at |-> db'.at, pending |-> db'.pending,
                     seen |-> db'.seen, counted |-> db'.counted]
BY DEF Degraded, Shape, Durable

\* What may follow a recorded, or an unrecorded, degradation: the reader
\* knows of it and does not publish "running".
LEMMA AfterLossIsHonest ==
    ASSUME Shape, NEW child1, AfterOpaque \/ AfterDegraded(child1) \/ Unrecorded
    PROVE  /\ mem'.recovery = TRUE
           /\ mem' = [cursor |-> mem'.cursor, at |-> mem'.at, force |-> mem'.force,
                      recovery |-> mem'.recovery]
           /\ status' # "running"
<1>1. CASE AfterOpaque
  <2>1. CASE EndAttempt("backfill_count_limit", TRUE)
    BY <2>1, EndKeepsHonest
  <2>2. CASE mem' = [mem EXCEPT !.recovery = TRUE] /\ status' = "gap"
    BY <2>2 DEF Shape
  <2>3. QED BY <1>1, <2>1, <2>2 DEF AfterOpaque
<1>2. CASE AfterDegraded(child1)
  BY <1>2 DEF AfterDegraded, Shape
<1>3. CASE Unrecorded
  BY <1>3, EndKeepsHonest DEF Unrecorded
<1>4. QED BY <1>1, <1>2, <1>3

\* A commit clears the marker in the store only for a new trusted record.
LEMMA CommitKeepsShape ==
    ASSUME Shape, NEW p
    PROVE  /\ CommitJournal(p).pending = (db.pending /\ ~Recovers(p))
           /\ CommitJournal(p) =
                  [cursor |-> CommitJournal(p).cursor, at |-> CommitJournal(p).at,
                   pending |-> CommitJournal(p).pending, seen |-> CommitJournal(p).seen,
                   counted |-> CommitJournal(p).counted]
<1>1. PICK at1, seen1, counted1 :
          CommitJournal(p) =
              [db EXCEPT !.cursor = p, !.at = at1, !.seen = seen1,
                         !.pending = @ /\ ~(~Seen(p) /\ Trusted(p)), !.counted = counted1]
  BY Zenon DEF CommitJournal
<1>2. db.pending /\ ~(~Seen(p) /\ Trusted(p)) <=> db.pending /\ ~Recovers(p)
  BY DEF Recovers
<1>3. QED
  BY <1>1, <1>2 DEF Shape

\* Every step preserves the invariant.
LEMMA HonestStep == Honest /\ [Next]_vars => Honest'
<1> SUFFICES ASSUME Honest, [Next]_vars PROVE Honest'
  OBVIOUS
<1> USE DEF Honest
<1>0. CASE UNCHANGED <<db, mem, status>>
  BY <1>0 DEF Shape, MarkerIsKnown, ReadyIsHonest
<1>1. CASE \E starts \in BOOLEAN : Launch(starts)
  BY <1>1 DEF Launch, Shape, MarkerIsKnown, ReadyIsHonest
<1>2. ASSUME NEW reason, NEW recovery \in BOOLEAN, EndAttempt(reason, recovery),
             recovery = mem.recovery, UNCHANGED db
      PROVE  Honest'
  BY <1>2, EndKeepsHonest DEF Shape, MarkerIsKnown, ReadyIsHonest
<1>3. CASE Verify \/ TooOld \/ TooMany \/ LookupFails \/ ChildExits
  BY <1>0, <1>2, <1>3
  DEF Verify, TooOld, TooMany, LookupFails, ChildExits, Shape
<1>4. ASSUME NEW outcome \in Outcomes, ReadOpaque(outcome) PROVE Honest'
  <2>1. AfterOpaque \/ Unrecorded
    BY <1>4 DEF ReadOpaque
  <2>2. Degraded(outcome)
    BY <1>4 DEF ReadOpaque
  <2>3. QED
    BY <2>1, <2>2, AfterLossIsHonest, DegradedKeepsShape
    DEF Shape, MarkerIsKnown, ReadyIsHonest
<1>5. ASSUME NEW outcome \in Outcomes, Accept(outcome) PROVE Honest'
  <2>1. CASE UNCHANGED <<db, mem, status>>
    BY <1>0, <2>1
  <2>2. ASSUME NEW child1, Degraded(outcome), AfterDegraded(child1) \/ Unrecorded
        PROVE  Honest'
    BY <2>2, AfterLossIsHonest, DegradedKeepsShape
    DEF Shape, MarkerIsKnown, ReadyIsHonest
  <2>3. QED
    BY <1>5, <2>1, <2>2 DEF Accept
<1>6. ASSUME NEW outcome \in Outcomes, Deliver(outcome) PROVE Honest'
  <2> DEFINE p == child.next
  <2>1. db' = db \/ db' = CommitJournal(p)
    BY <1>6 DEF Deliver
  <2>2. /\ db'.pending \in BOOLEAN
        /\ db'.pending => db.pending
        /\ db' = [cursor |-> db'.cursor, at |-> db'.at, pending |-> db'.pending,
                  seen |-> db'.seen, counted |-> db'.counted]
    BY <2>1, CommitKeepsShape DEF Shape
  <2>3. CASE outcome = "done"
    <3>1. db' = CommitJournal(p)
      BY <1>6, <2>3 DEF Deliver, Durable
    <3>2. db'.pending = (db.pending /\ ~Recovers(p))
      BY <3>1, CommitKeepsShape
    <3>3. /\ mem' = [cursor |-> p, at |-> Later(mem.at, At(p)), force |-> 0,
                     recovery |-> mem.recovery /\ ~Recovers(p)]
          /\ status' = IF mem.recovery /\ Recovers(p) THEN "running" ELSE status
      BY <1>6, <2>3 DEF Deliver
    <3>4. QED
      BY <2>2, <3>2, <3>3 DEF Shape, MarkerIsKnown, ReadyIsHonest
  <2>4. CASE outcome # "done"
    <3>1. EndAttempt("persist_failed", mem.recovery)
      BY <1>6, <2>4 DEF Deliver
    <3>2. QED
      BY <2>2, <3>1, EndKeepsHonest DEF Shape, MarkerIsKnown, ReadyIsHonest
  <2>5. QED BY <2>3, <2>4
<1>7. CASE Restart
  BY <1>7 DEF Restart, Resumed, Shape, MarkerIsKnown, ReadyIsHonest
<1>8. CASE \/ \E kind \in Kinds : Receive(kind)
           \/ \E q \in 1 .. Len(journal) : Vacuum(q)
           \/ Tick
           \/ \E t \in StartTime .. now - 1 : SetBack(t)
           \/ Repeat
  BY <1>0, <1>8 DEF Receive, Vacuum, Tick, SetBack, Repeat
<1>9. CASE UNCHANGED vars
  BY <1>0, <1>9 DEF vars
<1>10. QED
  BY <1>1, <1>3, <1>4, <1>5, <1>6, <1>7, <1>8, <1>9 DEF Next

\* In every behaviour of the journal reader "running" is published only when
\* neither the reader nor the store waits for a trusted record
\* (collector/journal_reliable.go:292 and 361, store/journal.go:110).
THEOREM ReadinessIsHonest == Spec => []ReadyIsHonest
<1>1. Honest => ReadyIsHonest
  BY DEF Honest
<1>2. QED
  BY HonestInit, HonestStep, <1>1, PTL DEF Spec

-----------------------------------------------------------------------------
(* Each entry once, and no unknown loss *)

Records == 1 .. Len(journal)
Running == child.pc # "wait"

\* The record the detector or the store has got furthest with.
Worked == Later(db.cursor, prepared.cursor)

\* No attempt that is launched now would deliver the record again, unless
\* it is the record at the acknowledged cursor itself.
Behind(q) ==
    \/ q \in gone
    \/ At(q) < now - Window
    \/ At(q) < mem.force
    \/ (At(q) <= mem.at /\ (mem.cursor = 0 \/ q <= mem.cursor))

\* What LossIsKnown asks of a record that is passed over.
Known(q) ==
    \/ q \in gone \cup recorded
    \/ At(q) \in reported
    \/ now - At(q) > Window

(***************************************************************************)
(* What holds whatever the clock does.                                     *)
(***************************************************************************)
AtHand ==
    child.pc = "deliver" =>
        /\ child.next \in Records
        /\ Kind(child.next) # "opaque"
        /\ At(child.next) >= child.since
        /\ child.next # child.last
        /\ ~child.verify

Ranges ==
    /\ TypeInvariant
    /\ now >= StartTime
    /\ Len(journal) <= MaxRecords
    /\ (~child.live => child.backfill <= MaxBackfill)
    /\ (Running => child.next >= 1)
    /\ (child.verify => (child.base = child.last /\ child.last # 0))
    /\ ((Running /\ child.last # 0) => child.last = mem.cursor)
    /\ (db.cursor # 0 => Seen(db.cursor))

(***************************************************************************)
(* What holds until the clock is set back.                                 *)
(***************************************************************************)
Timed ==
    /\ \A p, q \in Records : p <= q => At(p) <= At(q)
    /\ \A p \in Records : 1 <= At(p) /\ At(p) <= now
    /\ (db.cursor = 0 => db.at = 0)
    /\ (db.cursor # 0 => db.at = At(db.cursor))
    /\ mem.at <= db.at
    /\ mem.cursor <= db.cursor
    /\ (mem.cursor # 0 => At(mem.cursor) <= mem.at)
    /\ mem.force <= now
    /\ (Running => (mem.force <= child.started /\ child.started <= now))

\* Everything before the furthest record, and before the reading position,
\* is behind the place where a new attempt would start.
WorkIsBehind ==
    \A q \in Records : (Kind(q) # "opaque" /\ q < Worked) => Behind(q)

ReadIsBehind ==
    Running => \A q \in Records : (Kind(q) # "opaque" /\ q < child.next) => Behind(q)

\* The current attempt drops as too old only what is behind.
SinceIsBehind ==
    Running =>
        \/ child.since <= now - Window
        \/ child.since <= mem.force
        \/ (child.since <= mem.at + 1 /\ (mem.cursor = 0 \/ At(mem.cursor) >= child.since))

\* The current attempt delivers nothing that was worked on before.
WorkIsSkipped ==
    Running => \A q \in Records : (Kind(q) # "opaque" /\ q < Worked) =>
        (q < child.next \/ q = child.last \/ q \in gone \/ At(q) < child.since)

HandIsNew == child.pc = "deliver" => child.next >= Worked

Taken ==
    /\ \A q \in Positions : db.counted[q] > 0 => q <= db.cursor
    /\ \A q \in Positions : observed[q] > 0 => q <= Worked
    /\ \A q \in Positions : db.counted[q] <= 1
    /\ \A q \in Positions : observed[q] <= 1

\* What the reader forgets, skips or drops beyond the checkpoint is known.
ForgottenIsKnown ==
    /\ ((mem.cursor = 0 /\ mem.at # 0) => mem.at \in reported)
    /\ \A q \in Records : (q > db.cursor /\ At(q) < mem.force) => Known(q)

DroppedIsKnown ==
    Running =>
        /\ \A q \in Records : (q > db.cursor /\ q < child.next) => Known(q)
        /\ \A q \in Records : (q > db.cursor /\ At(q) < child.since) => Known(q)
        /\ child.since <= now + 1
        /\ (child.since = now + 1 => now \in reported)

Forward ==
    /\ Timed
    /\ WorkIsBehind /\ ReadIsBehind /\ SinceIsBehind /\ WorkIsSkipped /\ HandIsNew
    /\ Taken
    /\ ForgottenIsKnown /\ DroppedIsKnown

Replay == Ranges /\ AtHand /\ (~back => Forward)

(***************************************************************************)
(* The operators.                                                          *)
(***************************************************************************)
\* A set of natural numbers has a least element.
LEMMA LeastNat ==
    ASSUME NEW T, T \subseteq Nat, T # {}
    PROVE  \E x \in T : \A y \in T : x <= y
<1> DEFINE R == OpToRel(<, Nat)
<1>1. \E x \in T : \A y \in T : ~(<<y, x>> \in R)
  <2>1. IsWellFoundedOn(R, Nat)
    BY NatLessThanWellFounded
  <2> HIDE DEF R
  <2>2. QED
    BY <2>1, WFMin
<1>2. PICK x \in T : \A y \in T : ~(<<y, x>> \in R)
  BY <1>1
<1>3. ASSUME NEW y \in T PROVE x <= y
  <2>1. x \in Nat /\ y \in Nat
    BY <1>3
  <2>2. <<y, x>> \in Nat \X Nat /\ <<y, x>>[1] = y /\ <<y, x>>[2] = x
    BY <2>1
  <2>3. ~(y < x)
    BY <1>2, <2>2 DEF OpToRel
  <2>4. QED
    BY <2>1, <2>3
<1>4. QED
  BY <1>3

\* The journal is a sequence of dated records.
LEMMA JournalFacts ==
    ASSUME TypeInvariant
    PROVE  /\ Len(journal) \in Nat
           /\ \A q \in Records : q \in Nat /\ At(q) \in Nat /\ Kind(q) \in Kinds
           /\ gone \subseteq Records
<1> DEFINE Record == [at : Nat, kind : Kinds]
<1>1. journal \in Seq(Record) /\ gone \subseteq 1 .. Len(journal)
  BY Zenon DEF TypeInvariant
<1>2. Len(journal) \in Nat
  BY <1>1
<1>3. ASSUME NEW q \in Records PROVE q \in Nat /\ At(q) \in Nat /\ Kind(q) \in Kinds
  <2>1. q \in 1 .. Len(journal)
    BY DEF Records
  <2>2. journal[q] \in Record
    <3> HIDE DEF Record
    <3> QED BY <1>1, <2>1
  <2>3. QED
    BY <1>2, <2>1, <2>2 DEF At, Kind
<1>4. QED
  BY <1>1, <1>2, <1>3 DEF Records

\* The line that is read next follows records that are gone.
LEMMA NextKeptFacts ==
    ASSUME TypeInvariant, NEW from \in Nat \ {0}
    PROVE  /\ NextKept(from) \in Nat \ {0}
           /\ NextKept(from) <= Len(journal) =>
                 /\ NextKept(from) \in Records
                 /\ NextKept(from) \notin gone
                 /\ NextKept(from) >= from
                 /\ \A q \in Records : (from <= q /\ q < NextKept(from)) => q \in gone
<1> DEFINE kept == {p \in from .. Len(journal) : p \notin gone}
<1>1. Len(journal) \in Nat
  BY JournalFacts
<1>2. CASE kept = {}
  <2>1. NextKept(from) = Len(journal) + 1
    BY <1>2 DEF NextKept
  <2>2. QED
    BY <1>1, <2>1
<1>3. CASE kept # {}
  <2>1. kept \subseteq Nat
    BY <1>1
  <2>2. \E x \in kept : \A y \in kept : x <= y
    BY <1>3, <2>1, LeastNat
  <2>3. NextKept(from) = CHOOSE p \in kept : \A q \in kept : p <= q
    BY <1>3 DEF NextKept
  <2>4. NextKept(from) \in kept /\ \A q \in kept : NextKept(from) <= q
    BY <2>2, <2>3
  <2>5. QED
    BY <1>1, <2>4 DEF Records
<1>4. QED
  BY <1>2, <1>3

\* An attempt without a cursor starts behind records that are gone or too old.
LEMMA SeekFacts ==
    ASSUME TypeInvariant, NEW since \in Nat
    PROVE  /\ Seek(0, since) \in 1 .. Len(journal) + 1
           /\ \A q \in Records : q < Seek(0, since) => (q \in gone \/ At(q) < since)
<1> DEFINE recent == {p \in 1 .. Len(journal) : At(p) >= since /\ p \notin gone}
<1>1. Len(journal) \in Nat
  BY JournalFacts
<1>0. \A q \in Records : At(q) \in Nat
  BY JournalFacts
<1>2. CASE recent = {}
  <2>1. Seek(0, since) = Len(journal) + 1
    BY <1>2 DEF Seek
  <2>2. ASSUME NEW q \in Records PROVE q \in gone \/ At(q) < since
    BY <1>0, <1>2 DEF Records
  <2>3. QED
    BY <1>1, <2>1, <2>2
<1>3. CASE recent # {}
  <2>1. recent \subseteq Nat
    BY <1>1
  <2>2. \E x \in recent : \A y \in recent : x <= y
    BY <1>3, <2>1, LeastNat
  <2>3. Seek(0, since) = CHOOSE p \in recent : \A q \in recent : p <= q
    BY <1>3 DEF Seek
  <2>4. Seek(0, since) \in recent /\ \A q \in recent : Seek(0, since) <= q
    BY <2>2, <2>3
  <2>5. ASSUME NEW q \in Records, q < Seek(0, since) PROVE q \in gone \/ At(q) < since
    <3>1. q \notin recent
      BY <2>4, <2>5, <1>1 DEF Records
    <3>2. QED
      BY <1>0, <3>1 DEF Records
  <2>6. QED
    BY <1>1, <2>4, <2>5
<1>4. QED
  BY <1>2, <1>3

(***************************************************************************)
(* The types, one record at a time.                                        *)
(***************************************************************************)
StoreType == [cursor : 0 .. Len(journal), at : Nat, pending : BOOLEAN,
              seen : Seq(Positions), counted : [Positions -> Nat]]
ReaderType == [cursor : 0 .. Len(journal), at : Nat, force : Nat, recovery : BOOLEAN]
AttemptType == [pc : {"wait", "reading", "deliver"}, base : 0 .. Len(journal),
                since : Nat, started : Nat, next : 0 .. Len(journal) + 1,
                backfill : 0 .. MaxBackfill + 1, verify : BOOLEAN, live : BOOLEAN,
                last : 0 .. Len(journal)]
EnvType ==
    /\ journal \in Seq([at : Nat, kind : Kinds])
    /\ gone \subseteq 1 .. Len(journal)
    /\ now \in Nat
    /\ back \in BOOLEAN
HandlerType ==
    /\ prepared \in [cursor : 0 .. Len(journal), counts : BOOLEAN]
    /\ observed \in [Positions -> Nat]
RestType ==
    /\ status \in {"starting", "running", "retrying", "gap", "degraded"}
    /\ reported \subseteq Nat
    /\ recorded \subseteq 1 .. Len(journal)
    /\ faults \in Nat

LEMMA TypeParts ==
    TypeInvariant <=>
        /\ EnvType
        /\ db \in StoreType /\ Len(db.seen) <= CacheSize
        /\ mem \in ReaderType
        /\ child \in AttemptType
        /\ HandlerType
        /\ RestType
BY Zenon DEF TypeInvariant, EnvType, StoreType, ReaderType, AttemptType, HandlerType, RestType

LEMMA StoreFields ==
    ASSUME TypeInvariant
    PROVE  /\ db.cursor \in 0 .. Len(journal) /\ db.cursor \in Nat
           /\ db.at \in Nat /\ db.pending \in BOOLEAN
           /\ db.seen \in Seq(Positions) /\ Len(db.seen) <= CacheSize
           /\ db.counted \in [Positions -> Nat]
<1>1. db \in StoreType /\ Len(db.seen) <= CacheSize /\ Len(journal) \in Nat
  BY TypeParts, JournalFacts
<1> DEFINE Sequences == Seq(Positions)
<1>2. db \in [cursor : 0 .. Len(journal), at : Nat, pending : BOOLEAN,
              seen : Sequences, counted : [Positions -> Nat]]
  BY <1>1 DEF StoreType
<1> HIDE DEF Sequences
<1>3. /\ db.cursor \in 0 .. Len(journal) /\ db.at \in Nat /\ db.pending \in BOOLEAN
      /\ db.seen \in Sequences /\ db.counted \in [Positions -> Nat]
  BY <1>2
<1>4. QED
  BY <1>1, <1>3 DEF Sequences

LEMMA ReaderFields ==
    ASSUME TypeInvariant
    PROVE  /\ mem.cursor \in 0 .. Len(journal) /\ mem.cursor \in Nat
           /\ mem.at \in Nat /\ mem.force \in Nat /\ mem.recovery \in BOOLEAN
BY TypeParts, JournalFacts DEF ReaderType

LEMMA AttemptFields ==
    ASSUME TypeInvariant
    PROVE  /\ child.pc \in {"wait", "reading", "deliver"}
           /\ child.base \in 0 .. Len(journal) /\ child.base \in Nat
           /\ child.last \in 0 .. Len(journal) /\ child.last \in Nat
           /\ child.since \in Nat /\ child.started \in Nat
           /\ child.next \in 0 .. Len(journal) + 1 /\ child.next \in Nat
           /\ child.backfill \in 0 .. MaxBackfill + 1 /\ child.backfill \in Nat
           /\ child.verify \in BOOLEAN /\ child.live \in BOOLEAN
<1>1. child \in AttemptType /\ Len(journal) \in Nat /\ MaxBackfill \in Nat
  BY TypeParts, JournalFacts, JournalAssumption
<1>2. QED
  BY <1>1 DEF AttemptType

LEMMA HandlerFields ==
    ASSUME TypeInvariant
    PROVE  /\ prepared.cursor \in 0 .. Len(journal) /\ prepared.cursor \in Nat
           /\ prepared.counts \in BOOLEAN
           /\ observed \in [Positions -> Nat]
BY TypeParts, JournalFacts DEF HandlerType

LEMMA RestFields ==
    ASSUME TypeInvariant
    PROVE  now \in Nat /\ back \in BOOLEAN /\ reported \subseteq Nat /\ recorded \subseteq Records
BY TypeParts DEF EnvType, RestType, Records

\* The line at hand is a record that is still there.
LEMMA LineFacts ==
    ASSUME Ranges, Reading
    PROVE  /\ Line \in Records /\ Line \in Nat \ {0} /\ Line <= Len(journal)
           /\ Line + 1 \in 0 .. Len(journal) + 1
           /\ Line \notin gone
           /\ Line >= child.next
           /\ At(Line) \in Nat
           /\ \A q \in Records : (child.next <= q /\ q < Line) => q \in gone
<1>1. TypeInvariant /\ Len(journal) \in Nat /\ child.next \in Nat /\ child.next >= 1
  BY JournalFacts, AttemptFields DEF Ranges, Running, Reading
<1>2. /\ Line \in Records /\ Line \in Nat \ {0} /\ Line <= Len(journal) /\ Line \notin gone
      /\ Line >= child.next
      /\ \A q \in Records : (child.next <= q /\ q < Line) => q \in gone
  BY <1>1, NextKeptFacts DEF Reading, Line
<1>3. QED
  BY <1>1, <1>2, JournalFacts

(***************************************************************************)
(* What the steps of an attempt do, as far as the invariant can see.       *)
(***************************************************************************)
Kept ==
    /\ UNCHANGED <<env, handler>>
    /\ db'.cursor = db.cursor /\ db'.at = db.at /\ db'.seen = db.seen
    /\ db'.counted = db.counted
    /\ recorded \subseteq recorded'
    /\ reported \subseteq reported'

Ends ==
    /\ child' = Idle \/ (child' = child /\ child.pc = "wait")
    /\ mem'.at = mem.at
    /\ mem'.cursor = mem.cursor \/ (mem'.cursor = 0 /\ Gap(mem.at) \subseteq reported')
    /\ mem'.force = mem.force \/ (mem'.force = child.started /\ Gap(mem.at) \subseteq reported'
                                  /\ Running)

Stays ==
    /\ child.pc = "reading"
    /\ mem'.cursor = mem.cursor /\ mem'.at = mem.at /\ mem'.force = mem.force
    /\ child'.base = child.base /\ child'.since = child.since
    /\ child'.started = child.started /\ child'.last = child.last
    /\ (child'.verify => child.verify)
    /\ (~child'.live => child'.backfill <= MaxBackfill)

Skips ==
    /\ Stays
    /\ Reading
    /\ child'.pc = "reading"
    /\ child'.next = Line + 1
    /\ \/ (Kind(Line) = "opaque" /\ Line \in recorded')
       \/ (Line = child.last /\ child.last # 0)
       \/ (Kind(Line) # "opaque" /\ At(Line) < child.since)

Takes ==
    /\ Stays
    /\ Recent
    /\ Line # child.last
    /\ child'.pc = "deliver"
    /\ child'.next = Line
    /\ ~child'.verify

\* However an attempt ends.
LEMMA EndFacts ==
    ASSUME Ranges, NEW reason, NEW recovery \in BOOLEAN, EndAttempt(reason, recovery), Running
    PROVE  /\ Ends
           /\ mem' \in ReaderType
           /\ child' \in AttemptType
           /\ reported \subseteq reported' /\ reported' \subseteq Nat
           /\ status' = "retrying"
<1>1. mem \in ReaderType /\ Len(journal) \in Nat /\ mem.at \in Nat /\ now \in Nat
      /\ reported \subseteq Nat /\ MaxBackfill \in Nat /\ child.started \in Nat
  BY TypeParts, JournalFacts, ReaderFields, RestFields, AttemptFields, JournalAssumption DEF Ranges
<1>2. PICK c, f : /\ mem' = [mem EXCEPT !.recovery = recovery, !.cursor = c, !.force = f]
                  /\ c = mem.cursor \/ (c = 0 /\ Gap(mem.at) \subseteq reported')
                  /\ f = mem.force \/ (f = child.started /\ Gap(mem.at) \subseteq reported')
  <2> DEFINE c == IF reason \in {"cursor_unavailable", "backfill_time_limit",
                                 "backfill_count_limit"} THEN 0 ELSE mem.cursor
             f == IF reason = "backfill_count_limit" THEN child.started ELSE mem.force
  <2>1. mem' = [mem EXCEPT !.recovery = recovery, !.cursor = c, !.force = f]
    BY Zenon, <1>1 DEF EndAttempt
  <2>2. reported' = reported \cup
           (IF reason \in {"process_exited", "persist_failed"} THEN {} ELSE Gap(mem.at))
    BY DEF EndAttempt
  <2>3. c = mem.cursor \/ (c = 0 /\ Gap(mem.at) \subseteq reported')
    BY <2>2
  <2>4. f = mem.force \/ (f = child.started /\ Gap(mem.at) \subseteq reported')
    BY <2>2
  <2> HIDE DEF c, f
  <2>5. QED
    BY <2>1, <2>3, <2>4
<1>3. /\ mem'.cursor = c /\ mem'.force = f /\ mem'.at = mem.at
      /\ mem' \in ReaderType
  <2>1. c \in 0 .. Len(journal) /\ f \in Nat
    BY <1>1, <1>2, ReaderFields DEF Ranges
  <2> DEFINE a == [mem EXCEPT !.recovery = recovery]
             b == [a EXCEPT !.cursor = c]
  <2>2. a \in ReaderType /\ a.at = mem.at
    BY <1>1 DEF ReaderType
  <2> HIDE DEF a
  <2>3. b \in ReaderType /\ b.at = mem.at /\ b.cursor = c
    BY <2>1, <2>2 DEF ReaderType
  <2>4. mem' = [b EXCEPT !.force = f]
    BY <1>2 DEF a
  <2> HIDE DEF b
  <2>5. QED
    BY <2>1, <2>3, <2>4 DEF ReaderType
<1>4. child' = Idle /\ status' = "retrying"
  BY DEF EndAttempt
<1>5. child' \in AttemptType
  BY <1>1, <1>4 DEF Idle, AttemptType
<1>6. Gap(mem.at) \subseteq Nat
  BY <1>1 DEF Gap
<1>7. reported \subseteq reported' /\ reported' \subseteq Nat
  BY <1>1, <1>6 DEF EndAttempt
<1>8. QED
  BY <1>2, <1>3, <1>4, <1>5, <1>7 DEF Ends

\* A step that leaves the journal alone keeps every type if it keeps those of
\* the records it changes.
LEMMA TypesAfter ==
    ASSUME TypeInvariant, UNCHANGED env,
           db' \in StoreType, Len(db'.seen) <= CacheSize,
           mem' \in ReaderType, child' \in AttemptType, HandlerType', RestType'
    PROVE  TypeInvariant'
<1>1. EnvType /\ journal' = journal /\ gone' = gone /\ now' = now /\ back' = back
  BY TypeParts DEF env
<1>2. EnvType'
  BY Zenon, <1>1 DEF EnvType
<1>4. QED
  BY Zenon, <1>1, <1>2
  DEF TypeInvariant, EnvType, StoreType, ReaderType, AttemptType, HandlerType, RestType

\* Changing one field of an attempt changes nothing else.
LEMMA WithNext ==
    ASSUME NEW c \in AttemptType, NEW n \in 0 .. Len(journal) + 1
    PROVE  /\ [c EXCEPT !.next = n] \in AttemptType
           /\ [c EXCEPT !.next = n].next = n
           /\ \A f \in {"pc", "base", "since", "started", "backfill", "verify", "live", "last"} :
                 [c EXCEPT !.next = n][f] = c[f]
BY DEF AttemptType

LEMMA WithBackfill ==
    ASSUME NEW c \in AttemptType, NEW n \in 0 .. MaxBackfill + 1
    PROVE  /\ [c EXCEPT !.backfill = n] \in AttemptType
           /\ [c EXCEPT !.backfill = n].backfill = n
           /\ \A f \in {"pc", "base", "since", "started", "next", "verify", "live", "last"} :
                 [c EXCEPT !.backfill = n][f] = c[f]
BY DEF AttemptType

LEMMA WithVerify ==
    ASSUME NEW c \in AttemptType, NEW b \in BOOLEAN
    PROVE  /\ [c EXCEPT !.verify = b] \in AttemptType
           /\ [c EXCEPT !.verify = b].verify = b
           /\ \A f \in {"pc", "base", "since", "started", "next", "backfill", "live", "last"} :
                 [c EXCEPT !.verify = b][f] = c[f]
BY DEF AttemptType

LEMMA WithLive ==
    ASSUME NEW c \in AttemptType, NEW b \in BOOLEAN
    PROVE  /\ [c EXCEPT !.live = b] \in AttemptType
           /\ [c EXCEPT !.live = b].live = b
           /\ \A f \in {"pc", "base", "since", "started", "next", "backfill", "verify", "last"} :
                 [c EXCEPT !.live = b][f] = c[f]
BY DEF AttemptType

LEMMA WithPc ==
    ASSUME NEW c \in AttemptType, NEW s \in {"wait", "reading", "deliver"}
    PROVE  /\ [c EXCEPT !.pc = s] \in AttemptType
           /\ [c EXCEPT !.pc = s].pc = s
           /\ \A f \in {"base", "since", "started", "next", "backfill", "verify", "live", "last"} :
                 [c EXCEPT !.pc = s][f] = c[f]
BY DEF AttemptType

\* A degradation changes only the marker in the store and what is recorded.
LEMMA DegradedFacts ==
    ASSUME Ranges, Reading, NEW outcome, Degraded(outcome)
    PROVE  /\ db' \in StoreType /\ Len(db'.seen) <= CacheSize
           /\ db'.cursor = db.cursor /\ db'.at = db.at /\ db'.seen = db.seen
           /\ db'.counted = db.counted
           /\ recorded \subseteq recorded' /\ recorded' \subseteq 1 .. Len(journal)
           /\ (outcome = "done" => Line \in recorded')
           /\ faults' \in Nat
<1> DEFINE Sequences == Seq(Positions)
           Counters == [Positions -> Nat]
<1>0. TypeInvariant
  BY DEF Ranges
<1>1. db \in [cursor : 0 .. Len(journal), at : Nat, pending : BOOLEAN,
              seen : Sequences, counted : Counters]
  BY <1>0, TypeParts DEF StoreType
<1>2. Len(db.seen) <= CacheSize
  BY <1>0, StoreFields
<1>3. db' = db \/ db' = [db EXCEPT !.pending = TRUE]
  BY DEF Degraded
<1>4. /\ db' \in [cursor : 0 .. Len(journal), at : Nat, pending : BOOLEAN,
                  seen : Sequences, counted : Counters]
      /\ db'.cursor = db.cursor /\ db'.at = db.at /\ db'.seen = db.seen
      /\ db'.counted = db.counted
  <2> HIDE DEF Sequences, Counters
  <2> QED BY <1>1, <1>3
<1>5. Line \in 1 .. Len(journal) /\ recorded \subseteq 1 .. Len(journal) /\ faults \in Nat
  BY <1>0, LineFacts, TypeParts DEF Records, RestType
<1>6. /\ recorded \subseteq recorded' /\ recorded' \subseteq 1 .. Len(journal)
      /\ (outcome = "done" => Line \in recorded')
  BY <1>5 DEF Degraded, Durable
<1>7. faults' \in Nat
  BY <1>5 DEF Degraded, Writes, Fault
<1>8. QED
  BY <1>2, <1>4, <1>6, <1>7 DEF StoreType

\* The reader's own marker does not matter here.
LEMMA MarkerFacts ==
    ASSUME Ranges, mem' = [mem EXCEPT !.recovery = TRUE]
    PROVE  /\ mem' \in ReaderType
           /\ mem'.cursor = mem.cursor /\ mem'.at = mem.at /\ mem'.force = mem.force
<1>1. mem \in ReaderType
  BY TypeParts DEF Ranges
<1>2. QED
  BY <1>1 DEF ReaderType

\* The backlog stays within its bound until the first live record.
LEMMA BacklogFacts ==
    ASSUME Ranges, NEW live \in BOOLEAN, ~Over(live), child.live => live
    PROVE  /\ Backlog \in 0 .. MaxBackfill + 1
           /\ (~live => Backlog <= MaxBackfill)
<1>1. /\ child.backfill \in 0 .. MaxBackfill + 1 /\ child.live \in BOOLEAN
      /\ MaxBackfill \in Nat /\ (~child.live => child.backfill <= MaxBackfill)
  BY AttemptFields, JournalAssumption DEF Ranges
<1>2. QED
  BY <1>1 DEF Backlog, Over

\* An attempt ends, whatever the reason, without touching the store.
LEMMA EndIsEnds ==
    ASSUME Ranges, NEW reason, NEW recovery \in BOOLEAN, EndAttempt(reason, recovery), Running,
           UNCHANGED <<env, handler>>,
           db' \in StoreType, Len(db'.seen) <= CacheSize,
           db'.cursor = db.cursor, db'.at = db.at, db'.seen = db.seen, db'.counted = db.counted,
           recorded \subseteq recorded', recorded' \subseteq 1 .. Len(journal), faults' \in Nat
    PROVE  Kept /\ Ends /\ TypeInvariant'
<1>1. /\ Ends /\ mem' \in ReaderType /\ child' \in AttemptType
      /\ reported \subseteq reported' /\ reported' \subseteq Nat /\ status' = "retrying"
  BY EndFacts
<1>2. Kept
  BY <1>1 DEF Kept
<1>3. TypeInvariant /\ HandlerType /\ journal' = journal
  BY TypeParts DEF Ranges, env
<1>4. HandlerType' /\ RestType'
  BY <1>1, <1>3 DEF HandlerType, RestType, handler
<1>5. UNCHANGED env
  OBVIOUS
<1>6. QED
  BY <1>1, <1>2, <1>3, <1>4, <1>5, TypesAfter

\* An attempt goes on.
LEMMA StaysTyped ==
    ASSUME Ranges, UNCHANGED <<env, handler>>,
           db' \in StoreType, Len(db'.seen) <= CacheSize,
           mem' \in ReaderType, child' \in AttemptType,
           reported' = reported, recorded' \subseteq 1 .. Len(journal), faults' \in Nat,
           status' = status \/ status' \in {"gap", "degraded"}
    PROVE  TypeInvariant'
<1>3. TypeInvariant /\ HandlerType /\ RestType /\ journal' = journal
  BY TypeParts DEF Ranges, env
<1>4. HandlerType' /\ RestType'
  BY <1>3 DEF HandlerType, RestType, handler
<1>5. UNCHANGED env
  OBVIOUS
<1>6. QED
  BY <1>3, <1>4, <1>5, TypesAfter

\* The store, when nothing is written to it.
LEMMA SameStore ==
    ASSUME Ranges, UNCHANGED db
    PROVE  /\ db' \in StoreType /\ Len(db'.seen) <= CacheSize
           /\ db'.cursor = db.cursor /\ db'.at = db.at /\ db'.seen = db.seen
           /\ db'.counted = db.counted
BY TypeParts DEF Ranges

LEMMA SameRest ==
    ASSUME Ranges
    PROVE  /\ recorded \subseteq 1 .. Len(journal)
           /\ faults \in Nat
           /\ mem \in ReaderType /\ child \in AttemptType
BY TypeParts DEF Ranges, RestType

Steps == Kept /\ (Ends \/ Skips \/ Takes) /\ TypeInvariant'

LEMMA OpaqueSteps ==
    ASSUME Ranges, NEW outcome \in Outcomes, ReadOpaque(outcome)
    PROVE  Steps
<1>1. /\ Reading /\ Kind(Line) = "opaque" /\ Degraded(outcome) /\ UNCHANGED <<env, handler>>
      /\ child.pc = "reading" /\ Running
  BY DEF ReadOpaque, Reading, Running
<1>2. /\ db' \in StoreType /\ Len(db'.seen) <= CacheSize
      /\ db'.cursor = db.cursor /\ db'.at = db.at /\ db'.seen = db.seen
      /\ db'.counted = db.counted
      /\ recorded \subseteq recorded' /\ recorded' \subseteq 1 .. Len(journal)
      /\ (outcome = "done" => Line \in recorded')
      /\ faults' \in Nat
  BY <1>1, DegradedFacts
<1>3. ASSUME NEW reason, EndAttempt(reason, TRUE) PROVE Steps
  BY <1>1, <1>2, <1>3, EndIsEnds DEF Steps
<1>4. CASE outcome # "done"
  BY <1>3, <1>4 DEF ReadOpaque, Unrecorded
<1>5. CASE outcome = "done" /\ Over(child.live)
  BY <1>3, <1>5 DEF ReadOpaque, AfterOpaque
<1>6. CASE outcome = "done" /\ ~Over(child.live)
  <2>1. /\ child' = [child EXCEPT !.next = Line + 1, !.backfill = Backlog]
        /\ mem' = [mem EXCEPT !.recovery = TRUE]
        /\ status' = "gap" /\ reported' = reported
    BY <1>6 DEF ReadOpaque, AfterOpaque
  <2>2. /\ mem' \in ReaderType
        /\ mem'.cursor = mem.cursor /\ mem'.at = mem.at /\ mem'.force = mem.force
    BY <2>1, MarkerFacts
  <2>3. child.live \in BOOLEAN /\ child \in AttemptType /\ Line + 1 \in 0 .. Len(journal) + 1
    BY <1>1, AttemptFields, SameRest, LineFacts DEF Ranges
  <2>4. Backlog \in 0 .. MaxBackfill + 1 /\ (~child.live => Backlog <= MaxBackfill)
    BY <1>6, <2>3, BacklogFacts
  <2> DEFINE a == [child EXCEPT !.next = Line + 1]
  <2>5. /\ a \in AttemptType /\ a.pc = child.pc /\ a.next = Line + 1 /\ a.base = child.base
        /\ a.since = child.since /\ a.started = child.started /\ a.last = child.last
        /\ a.verify = child.verify /\ a.live = child.live
    BY <2>3, WithNext
  <2>6. child' = [a EXCEPT !.backfill = Backlog]
    BY <2>1
  <2> HIDE DEF a
  <2>7. /\ child' \in AttemptType /\ child'.pc = "reading" /\ child'.next = Line + 1
        /\ child'.base = child.base /\ child'.since = child.since
        /\ child'.started = child.started /\ child'.last = child.last
        /\ child'.verify = child.verify /\ child'.live = child.live
        /\ child'.backfill = Backlog
    BY <1>1, <2>4, <2>5, <2>6, WithBackfill
  <2>8. TypeInvariant'
    BY <1>1, <1>2, <2>1, <2>2, <2>7, StaysTyped
  <2>9. Skips
    BY <1>1, <1>2, <1>6, <2>2, <2>4, <2>7 DEF Skips, Stays
  <2>10. Kept
    BY <1>1, <1>2, <2>1 DEF Kept
  <2>11. QED
    BY <2>8, <2>9, <2>10 DEF Steps
<1>7. QED
  BY <1>4, <1>5, <1>6

LEMMA VerifySteps ==
    ASSUME Ranges, Verify
    PROVE  Steps
<1>1. /\ Reading /\ Decoded /\ child.verify /\ UNCHANGED <<env, db, handler, recorded, faults>>
      /\ UNCHANGED <<env, handler>> /\ UNCHANGED db /\ recorded' = recorded /\ faults' = faults
      /\ child.pc = "reading" /\ Running
  BY DEF Verify, Decoded, Reading, Running
<1>2. /\ recorded \subseteq recorded' /\ recorded' \subseteq 1 .. Len(journal)
      /\ faults' \in Nat /\ mem \in ReaderType /\ child \in AttemptType
  BY <1>1, SameRest
<1>3. CASE EndAttempt("cursor_unavailable", mem.recovery)
  <2>1. mem.recovery \in BOOLEAN
    BY ReaderFields DEF Ranges
  <2>2. QED
    BY <1>1, <1>2, <1>3, <2>1, SameStore, EndIsEnds DEF Steps
<1>4. CASE /\ Line = child.base
           /\ child' = [child EXCEPT !.verify = FALSE, !.next = Line + 1]
           /\ UNCHANGED <<mem, status, reported>>
  <2>3. Line + 1 \in 0 .. Len(journal) + 1
    BY <1>1, LineFacts
  <2> DEFINE a == [child EXCEPT !.verify = FALSE]
  <2>5. /\ a \in AttemptType /\ a.pc = child.pc /\ a.verify = FALSE /\ a.base = child.base
        /\ a.since = child.since /\ a.started = child.started /\ a.last = child.last
        /\ a.backfill = child.backfill /\ a.live = child.live
    BY <1>2, WithVerify
  <2>6. child' = [a EXCEPT !.next = Line + 1]
    BY <1>4
  <2> HIDE DEF a
  <2>7. /\ child' \in AttemptType /\ child'.pc = "reading" /\ child'.next = Line + 1
        /\ child'.base = child.base /\ child'.since = child.since
        /\ child'.started = child.started /\ child'.last = child.last
        /\ ~child'.verify /\ child'.live = child.live
        /\ child'.backfill = child.backfill
    BY <1>1, <2>3, <2>5, <2>6, WithNext
  <2>8. TypeInvariant'
    BY <1>1, <1>2, <1>4, <2>7, SameStore, StaysTyped
  <2>9. Skips
    <3>1. Line = child.last /\ child.last # 0
      BY <1>1, <1>4 DEF Ranges
    <3>2. Stays
      BY <1>1, <1>4, <2>7 DEF Stays, Ranges
    <3>3. QED
      BY <1>1, <2>7, <3>1, <3>2 DEF Skips
  <2>10. Kept
    BY <1>1, <1>2, <1>4, SameStore DEF Kept
  <2>11. QED
    BY <2>8, <2>9, <2>10 DEF Steps
<1>5. QED
  BY <1>3, <1>4 DEF Verify

LEMMA TooOldSteps ==
    ASSUME Ranges, TooOld
    PROVE  Steps
<1>1. /\ Reading /\ Kind(Line) # "opaque" /\ ~child.verify /\ At(Line) < child.since
      /\ UNCHANGED <<env, handler>> /\ UNCHANGED db /\ recorded' = recorded /\ faults' = faults
      /\ child.pc = "reading" /\ Running
  BY DEF TooOld, Decoded, Reading, Running
<1>2. /\ recorded \subseteq recorded' /\ recorded' \subseteq 1 .. Len(journal)
      /\ faults' \in Nat /\ mem \in ReaderType /\ child \in AttemptType
  BY <1>1, SameRest
<1>3. ASSUME NEW reason, EndAttempt(reason, mem.recovery) PROVE Steps
  <2>1. mem.recovery \in BOOLEAN
    BY ReaderFields DEF Ranges
  <2>2. QED
    BY <1>1, <1>2, <1>3, <2>1, SameStore, EndIsEnds DEF Steps
<1>4. CASE /\ child.base = 0 /\ ~Over(NowLive)
           /\ child' = [child EXCEPT !.next = Line + 1, !.backfill = Backlog, !.live = NowLive]
           /\ UNCHANGED <<mem, status, reported>>
  <2>3. Line + 1 \in 0 .. Len(journal) + 1 /\ NowLive \in BOOLEAN /\ (child.live => NowLive)
    BY <1>1, LineFacts, AttemptFields DEF NowLive, Ranges
  <2>4. Backlog \in 0 .. MaxBackfill + 1 /\ (~NowLive => Backlog <= MaxBackfill)
    BY <1>4, <2>3, BacklogFacts
  <2> DEFINE a == [child EXCEPT !.next = Line + 1]
             b == [a EXCEPT !.backfill = Backlog]
  <2>5. /\ a \in AttemptType /\ a.pc = child.pc /\ a.verify = child.verify /\ a.base = child.base
        /\ a.since = child.since /\ a.started = child.started /\ a.last = child.last
        /\ a.next = Line + 1
    BY <1>2, <2>3, WithNext
  <2> HIDE DEF a
  <2>6. /\ b \in AttemptType /\ b.pc = child.pc /\ b.verify = child.verify /\ b.base = child.base
        /\ b.since = child.since /\ b.started = child.started /\ b.last = child.last
        /\ b.next = Line + 1 /\ b.backfill = Backlog
    BY <2>4, <2>5, WithBackfill
  <2>7. child' = [b EXCEPT !.live = NowLive]
    BY <1>4 DEF a
  <2> HIDE DEF b
  <2>8. /\ child' \in AttemptType /\ child'.pc = "reading" /\ child'.next = Line + 1
        /\ child'.base = child.base /\ child'.since = child.since
        /\ child'.started = child.started /\ child'.last = child.last
        /\ child'.verify = child.verify /\ child'.live = NowLive
        /\ child'.backfill = Backlog
    BY <1>1, <2>3, <2>6, <2>7, WithLive
  <2>9. TypeInvariant'
    BY <1>1, <1>2, <1>4, <2>8, SameStore, StaysTyped
  <2>10. Stays
    BY <1>1, <1>4, <2>4, <2>8 DEF Stays
  <2>11. Skips
    BY <1>1, <2>8, <2>10 DEF Skips
  <2>12. Kept
    BY <1>1, <1>2, <1>4, SameStore DEF Kept
  <2>13. QED
    BY <2>9, <2>11, <2>12 DEF Steps
<1>5. QED
  BY <1>3, <1>4 DEF TooOld

LEMMA AcceptSteps ==
    ASSUME Ranges, NEW outcome \in Outcomes, Accept(outcome)
    PROVE  Steps
<1>1. /\ Reading /\ Recent /\ Kind(Line) # "opaque" /\ ~child.verify /\ At(Line) >= child.since
      /\ ~Over(NowLive)
      /\ UNCHANGED <<env, handler>>
      /\ child.pc = "reading" /\ Running
  BY DEF Accept, Recent, Decoded, Reading, Running
<1> DEFINE n == IF Line = child.last THEN Line + 1 ELSE Line
           s == IF Line = child.last THEN "reading" ELSE "deliver"
           accepted == [child EXCEPT !.backfill = Backlog, !.live = NowLive, !.next = n, !.pc = s]
<1>2. /\ recorded \subseteq 1 .. Len(journal)
      /\ faults \in Nat /\ mem \in ReaderType /\ child \in AttemptType
  BY <1>1, SameRest
<1>3. /\ NowLive \in BOOLEAN /\ (child.live => NowLive) /\ Line \in Nat \ {0}
      /\ n \in 0 .. Len(journal) + 1 /\ s \in {"wait", "reading", "deliver"}
  BY <1>1, LineFacts, AttemptFields, JournalFacts DEF NowLive, Ranges
<1>4. Backlog \in 0 .. MaxBackfill + 1 /\ (~NowLive => Backlog <= MaxBackfill)
  BY <1>1, <1>3, BacklogFacts
<1>5. /\ accepted \in AttemptType /\ accepted.pc = s /\ accepted.verify = child.verify
      /\ accepted.base = child.base /\ accepted.since = child.since
      /\ accepted.started = child.started /\ accepted.last = child.last
      /\ accepted.next = n /\ accepted.backfill = Backlog /\ accepted.live = NowLive
  <2> DEFINE a == [child EXCEPT !.backfill = Backlog]
             b == [a EXCEPT !.live = NowLive]
             c == [b EXCEPT !.next = n]
  <2>0. accepted = [c EXCEPT !.pc = s]
    <3> HIDE DEF n, s
    <3> QED OBVIOUS
  <2> HIDE DEF n, s
  <2>1. /\ a \in AttemptType /\ a.verify = child.verify /\ a.base = child.base
        /\ a.since = child.since /\ a.started = child.started /\ a.last = child.last
        /\ a.backfill = Backlog
    BY <1>2, <1>4, WithBackfill
  <2> HIDE DEF a
  <2>2. /\ b \in AttemptType /\ b.verify = child.verify /\ b.base = child.base
        /\ b.since = child.since /\ b.started = child.started /\ b.last = child.last
        /\ b.backfill = Backlog /\ b.live = NowLive
    BY <1>3, <2>1, WithLive
  <2> HIDE DEF b
  <2>3. /\ c \in AttemptType /\ c.verify = child.verify /\ c.base = child.base
        /\ c.since = child.since /\ c.started = child.started /\ c.last = child.last
        /\ c.backfill = Backlog /\ c.live = NowLive /\ c.next = n
    BY <1>3, <2>2, WithNext
  <2> HIDE DEF c, accepted
  <2>4. QED
    BY ZenonT(40), <1>3, <2>0, <2>3, WithPc
<1>6. ASSUME child' = accepted, reported' = reported, recorded \subseteq recorded',
             recorded' \subseteq 1 .. Len(journal), faults' \in Nat,
             db' \in StoreType, Len(db'.seen) <= CacheSize,
             db'.cursor = db.cursor, db'.at = db.at, db'.seen = db.seen, db'.counted = db.counted,
             mem' \in ReaderType,
             mem'.cursor = mem.cursor, mem'.at = mem.at, mem'.force = mem.force,
             status' = status \/ status' \in {"gap", "degraded"}
      PROVE  Steps
  <2>0. child' \in AttemptType
    BY <1>5, <1>6
  <2>1. TypeInvariant'
    BY <1>1, <1>6, <2>0, StaysTyped
  <2>2. Stays
    BY <1>1, <1>4, <1>5, <1>6 DEF Stays
  <2>3. CASE Line = child.last
    <3>1. child'.pc = "reading" /\ child'.next = Line + 1
      BY <1>5, <1>6, <2>3
    <3>2. QED
      BY <1>1, <1>3, <1>6, <2>1, <2>2, <2>3, <3>1 DEF Skips, Steps, Kept
  <2>4. CASE Line # child.last
    <3>1. child'.pc = "deliver" /\ child'.next = Line /\ ~child'.verify
      BY <1>1, <1>5, <1>6, <2>4
    <3>2. QED
      BY <1>1, <1>6, <2>1, <2>2, <2>4, <3>1 DEF Takes, Steps, Kept
  <2>5. QED
    BY <2>3, <2>4
<1>7. CASE outcome = "done" /\ child' = accepted /\ UNCHANGED <<db, mem, status, ghosts, faults>>
  BY <1>2, <1>6, <1>7, SameStore DEF ghosts
<1>8. CASE Degraded(outcome) /\ outcome = "done" /\ AfterDegraded(accepted)
  <2> HIDE DEF accepted
  <2>1. /\ child' = accepted /\ mem' = [mem EXCEPT !.recovery = TRUE]
        /\ status' = "degraded" /\ reported' = reported
    BY <1>8 DEF AfterDegraded
  <2>2. QED
    BY <1>1, <1>6, <1>8, <2>1, DegradedFacts, MarkerFacts
<1>9. CASE Degraded(outcome) /\ Unrecorded
  BY <1>1, <1>9, DegradedFacts, EndIsEnds DEF Unrecorded, Steps
<1>10. QED
  BY <1>7, <1>8, <1>9 DEF Accept

LEMMA PlainEndSteps ==
    ASSUME Ranges, TooMany \/ LookupFails \/ ChildExits
    PROVE  Steps
<1>1. PICK reason : EndAttempt(reason, mem.recovery)
  BY DEF TooMany, LookupFails, ChildExits
<1>2. /\ UNCHANGED <<env, handler>> /\ UNCHANGED db /\ recorded' = recorded /\ Running
      /\ (faults' = faults \/ faults' = faults + 1)
  BY DEF TooMany, LookupFails, ChildExits, Fault, Recent, Decoded, Reading, Running
<1>3. recorded \subseteq recorded' /\ recorded' \subseteq 1 .. Len(journal) /\ faults' \in Nat
      /\ mem.recovery \in BOOLEAN
  BY <1>2, SameRest, ReaderFields DEF Ranges
<1>4. QED
  BY <1>1, <1>2, <1>3, SameStore, EndIsEnds DEF Steps

(***************************************************************************)
(* The steps of an attempt preserve the invariant.                         *)
(***************************************************************************)
LEMMA SameEnv ==
    ASSUME UNCHANGED env
    PROVE  /\ journal' = journal /\ gone' = gone /\ now' = now /\ back' = back
           /\ Records' = Records
           /\ \A q : At(q)' = At(q) /\ Kind(q)' = Kind(q)
BY DEF env, Records, At, Kind

LEMMA StepsRanges ==
    ASSUME Ranges, AtHand, Steps
    PROVE  Ranges' /\ AtHand'
<1>1. Kept /\ TypeInvariant' /\ (Ends \/ Skips \/ Takes) /\ UNCHANGED env
  BY DEF Steps, Kept
<1>2. /\ journal' = journal /\ now' = now /\ Records' = Records
      /\ \A q : At(q)' = At(q) /\ Kind(q)' = Kind(q)
  BY <1>1, SameEnv
<1>3. /\ (now >= StartTime)' /\ (Len(journal) <= MaxRecords)'
  BY <1>2 DEF Ranges, StartTime
<1>4. (db.cursor # 0 => Seen(db.cursor))'
  BY <1>1 DEF Ranges, Seen, Kept
<1>5. CASE Ends
  <2>1. child'.pc = "wait"
    BY <1>5 DEF Ends, Idle
  <2>2. MaxBackfill \in Nat
    BY JournalAssumption
  <2>3. /\ (~child.live => child.backfill <= MaxBackfill)'
        /\ (child.verify => (child.base = child.last /\ child.last # 0))'
    <3>1. CASE child' = Idle
      BY <2>2, <3>1 DEF Idle
    <3>2. CASE child' = child
      BY <3>2 DEF Ranges
    <3>3. QED
      BY <1>5, <3>1, <3>2 DEF Ends
  <2>4. QED
    BY <1>1, <1>3, <1>4, <2>1, <2>3 DEF Ranges, AtHand, Running
<1>6. CASE Skips
  <2>1. /\ child'.pc = "reading" /\ child'.next = Line + 1 /\ Stays /\ Reading
    BY <1>6 DEF Skips
  <2>2. Line \in Nat
    BY <2>1, LineFacts
  <2>3. /\ (~child.live => child.backfill <= MaxBackfill)'
        /\ (Running => child.next >= 1)'
        /\ (child.verify => (child.base = child.last /\ child.last # 0))'
    BY <2>1, <2>2 DEF Stays, Ranges
  <2>4. ((Running /\ child.last # 0) => child.last = mem.cursor)'
    BY <2>1 DEF Stays, Ranges, Running
  <2>5. QED
    BY <1>1, <1>3, <1>4, <2>1, <2>3, <2>4 DEF Ranges, AtHand
<1>7. CASE Takes
  <2>1. /\ child'.pc = "deliver" /\ child'.next = Line /\ Stays /\ Recent /\ Reading
        /\ Line # child.last /\ ~child'.verify /\ Kind(Line) # "opaque" /\ At(Line) >= child.since
    BY <1>7 DEF Takes, Recent, Decoded
  <2>2. Line \in Nat \ {0} /\ Line \in Records
    BY <2>1, LineFacts
  <2>3. /\ (~child.live => child.backfill <= MaxBackfill)'
        /\ (Running => child.next >= 1)'
        /\ (child.verify => (child.base = child.last /\ child.last # 0))'
    BY <2>1, <2>2 DEF Stays, Ranges
  <2>4. ((Running /\ child.last # 0) => child.last = mem.cursor)'
    BY <2>1 DEF Stays, Ranges, Running
  <2>5. AtHand'
    <3>1. PICK line : line = Line
      OBVIOUS
    <3>2. /\ child'.next = line /\ line \in Records' /\ Kind(line)' # "opaque"
          /\ At(line)' >= child'.since /\ line # child'.last
      BY <1>2, <2>1, <2>2, <3>1 DEF Stays
    <3>3. QED
      BY <2>1, <3>2 DEF AtHand
  <2>6. QED
    BY <1>1, <1>3, <1>4, <2>3, <2>4, <2>5 DEF Ranges
<1>8. QED
  BY <1>1, <1>5, <1>6, <1>7

\* What is known stays known, and what is behind stays behind when the
\* acknowledged cursor is forgotten or the replay limit rises.
LEMMA KnownStays ==
    ASSUME TypeInvariant, NEW q \in Records, Known(q),
           At(q)' = At(q), gone \subseteq gone', recorded \subseteq recorded',
           reported \subseteq reported', now' \in Nat, now' >= now
    PROVE  Known(q)'
<1>1. At(q) \in Nat /\ now \in Nat /\ Window \in Nat
  BY JournalFacts, RestFields, JournalAssumption
<1>2. QED
  BY <1>1 DEF Known

LEMMA BehindStays ==
    ASSUME TypeInvariant, NEW q \in Records, Behind(q),
           At(q)' = At(q), gone \subseteq gone', now' \in Nat, now' >= now,
           mem'.at = mem.at, mem'.cursor = mem.cursor \/ mem'.cursor = 0,
           mem'.force \in Nat, mem'.force >= mem.force
    PROVE  Behind(q)'
<1>1. At(q) \in Nat /\ now \in Nat /\ Window \in Nat /\ mem.force \in Nat
  BY JournalFacts, RestFields, ReaderFields, JournalAssumption
<1>2. QED
  BY <1>1 DEF Behind

\* The acknowledged time is not in the future, and nothing beyond the
\* checkpoint is older.
LEMMA Horizon ==
    ASSUME TypeInvariant, Timed
    PROVE  /\ mem.at <= now
           /\ \A q \in Records : q > db.cursor => (db.at <= At(q) /\ mem.at <= At(q))
<1>1. /\ mem.at \in Nat /\ db.at \in Nat /\ db.cursor \in Nat /\ now \in Nat
      /\ db.cursor \in 0 .. Len(journal) /\ mem.at <= db.at
      /\ \A q \in Records : q \in Nat /\ At(q) \in Nat
  BY ReaderFields, StoreFields, RestFields, JournalFacts DEF Timed
<1>2. CASE db.cursor = 0
  BY <1>1, <1>2 DEF Timed
<1>3. CASE db.cursor # 0
  <2>1. db.cursor \in Records
    BY <1>1, <1>3 DEF Records
  <2>2. db.at = At(db.cursor) /\ db.at <= now
    BY <1>3, <2>1 DEF Timed
  <2>3. ASSUME NEW q \in Records, q > db.cursor PROVE db.at <= At(q)
    <3>1. db.cursor <= q
      BY <1>1, <2>3
    <3>2. QED
      BY <2>1, <2>2, <3>1 DEF Timed
  <2>4. QED
    BY <1>1, <2>2, <2>3
<1>4. QED
  BY <1>2, <1>3

LEMMA EndsForward ==
    ASSUME Ranges, Forward, Kept, Ends, TypeInvariant'
    PROVE  Forward'
<1>0. TypeInvariant /\ Timed
  BY DEF Forward, Ranges
<1>1. /\ journal' = journal /\ gone' = gone /\ now' = now /\ Records' = Records
      /\ \A q : At(q)' = At(q) /\ Kind(q)' = Kind(q)
      /\ prepared' = prepared /\ observed' = observed
      /\ db'.cursor = db.cursor /\ db'.at = db.at /\ db'.counted = db.counted
      /\ recorded \subseteq recorded' /\ reported \subseteq reported'
  BY SameEnv DEF Kept, handler
<1>2. child'.pc = "wait" /\ ~Running'
  BY DEF Ends, Idle, Running
<1>3. /\ mem.at \in Nat /\ mem.cursor \in Nat /\ mem.force \in Nat /\ now \in Nat
      /\ child.started \in Nat /\ db.cursor \in Nat /\ db.at \in Nat
  BY <1>0, ReaderFields, RestFields, AttemptFields, StoreFields
<1>4. /\ mem'.at = mem.at
      /\ mem'.cursor = mem.cursor \/ mem'.cursor = 0
      /\ mem'.force \in Nat /\ mem'.force >= mem.force /\ mem'.force <= now
  BY <1>0, <1>3 DEF Ends, Timed
<1>5. Worked' = Worked
  BY <1>1 DEF Worked, Later
<1>6. Timed'
  <2>1. /\ (\A p, q \in Records : p <= q => At(p) <= At(q))'
        /\ (\A p \in Records : 1 <= At(p) /\ At(p) <= now)'
    BY <1>0, <1>1 DEF Timed
  <2>2. /\ (db.cursor = 0 => db.at = 0)'
        /\ (db.cursor # 0 => db.at = At(db.cursor))'
        /\ (mem.at <= db.at)' /\ (mem.cursor <= db.cursor)'
        /\ (mem.cursor # 0 => At(mem.cursor) <= mem.at)'
    BY <1>0, <1>1, <1>3, <1>4 DEF Timed, At
  <2>3. QED
    BY <1>1, <1>2, <1>4, <2>1, <2>2 DEF Timed
<1>7. WorkIsBehind'
  <2>1. ASSUME NEW q \in Records, Kind(q) # "opaque", q < Worked PROVE Behind(q)'
    <3>1. Behind(q)
      BY <2>1 DEF Forward, WorkIsBehind
    <3>2. QED
      BY <1>0, <1>1, <1>3, <1>4, <3>1, BehindStays
  <2>2. QED
    BY <1>1, <1>5, <2>1 DEF WorkIsBehind
<1>8. Taken'
  BY <1>1, <1>5 DEF Forward, Taken
<1>9. ForgottenIsKnown'
  <2>1. (mem.cursor = 0 /\ mem.at # 0) => mem.at \in reported
    BY DEF Forward, ForgottenIsKnown
  <2>2. mem.at <= now
    BY <1>0, Horizon
  <2>3. mem.at \in Gap(mem.at)
    BY <1>3, <2>2 DEF Gap
  <2>4. (mem'.cursor = 0 /\ mem'.at # 0) => mem'.at \in reported'
    <3>1. CASE mem'.cursor = mem.cursor
      BY <1>1, <1>4, <2>1, <3>1
    <3>2. CASE Gap(mem.at) \subseteq reported'
      BY <1>4, <2>3, <3>2
    <3>3. QED
      BY <3>1, <3>2 DEF Ends
  <2>5. ASSUME NEW q \in Records, q > db.cursor, At(q) < mem'.force PROVE Known(q)'
    <3>1. At(q) \in Nat /\ At(q) <= now /\ q \in Nat
      BY <1>0, JournalFacts DEF Timed
    <3>2. CASE mem'.force = mem.force
      <4>1. Known(q)
        BY <2>5, <3>2 DEF Forward, ForgottenIsKnown
      <4>2. QED
        BY <1>0, <1>1, <1>3, <4>1, KnownStays
    <3>3. CASE Gap(mem.at) \subseteq reported'
      <4>2. mem.at <= At(q)
        BY <1>0, <2>5, Horizon
      <4>3. At(q) \in reported'
        BY <1>3, <3>1, <3>3, <4>2 DEF Gap
      <4>4. QED
        BY <1>1, <4>3 DEF Known
    <3>4. QED
      BY <3>2, <3>3 DEF Ends
  <2>6. QED
    BY <1>1, <2>4, <2>5 DEF ForgottenIsKnown
<1>10. /\ ReadIsBehind' /\ SinceIsBehind' /\ WorkIsSkipped' /\ HandIsNew' /\ DroppedIsKnown'
  BY <1>2 DEF ReadIsBehind, SinceIsBehind, WorkIsSkipped, HandIsNew, DroppedIsKnown
<1>11. QED
  BY <1>6, <1>7, <1>8, <1>9, <1>10 DEF Forward

\* What is kept by every step with which an attempt goes on.
LEMMA StaysForward ==
    ASSUME Ranges, Forward, Kept, Stays, TypeInvariant', child'.pc # "wait"
    PROVE  /\ Timed' /\ WorkIsBehind' /\ SinceIsBehind' /\ Taken' /\ ForgottenIsKnown'
           /\ (\A q \in Records : (q > db.cursor /\ At(q) < child.since) => Known(q))'
           /\ (child.since <= now + 1)'
           /\ (child.since = now + 1 => now \in reported)'
           /\ Worked' = Worked
           /\ \A q \in Records : Behind(q) => Behind(q)'
           /\ \A q \in Records : Known(q) => Known(q)'
<1>0. /\ TypeInvariant /\ Timed /\ Running
  BY DEF Forward, Ranges, Stays, Running
<1>1. /\ journal' = journal /\ gone' = gone /\ now' = now /\ Records' = Records
      /\ \A q : At(q)' = At(q) /\ Kind(q)' = Kind(q)
      /\ prepared' = prepared /\ observed' = observed
      /\ db'.cursor = db.cursor /\ db'.at = db.at /\ db'.counted = db.counted
      /\ recorded \subseteq recorded' /\ reported \subseteq reported'
  BY SameEnv DEF Kept, handler
<1>2. /\ mem'.cursor = mem.cursor /\ mem'.at = mem.at /\ mem'.force = mem.force
      /\ child'.since = child.since /\ child'.started = child.started
      /\ child'.last = child.last
  BY DEF Stays
<1>3. /\ mem.at \in Nat /\ mem.cursor \in Nat /\ mem.force \in Nat /\ now \in Nat
  BY <1>0, ReaderFields, RestFields
<1>4. Worked' = Worked
  BY <1>1 DEF Worked, Later
<1>5. ASSUME NEW q \in Records, Behind(q) PROVE Behind(q)'
  BY <1>0, <1>1, <1>2, <1>3, <1>5, BehindStays
<1>6. ASSUME NEW q \in Records, Known(q) PROVE Known(q)'
  BY <1>0, <1>1, <1>3, <1>6, KnownStays
<1>7. Timed'
  <2>1. /\ (\A p, q \in Records : p <= q => At(p) <= At(q))'
        /\ (\A p \in Records : 1 <= At(p) /\ At(p) <= now)'
    BY <1>0, <1>1 DEF Timed
  <2>2. /\ (db.cursor = 0 => db.at = 0)'
        /\ (db.cursor # 0 => db.at = At(db.cursor))'
        /\ (mem.at <= db.at)' /\ (mem.cursor <= db.cursor)'
        /\ (mem.cursor # 0 => At(mem.cursor) <= mem.at)'
        /\ (mem.force <= now)'
    BY <1>0, <1>1, <1>2 DEF Timed, At
  <2>3. (mem.force <= child.started /\ child.started <= now)'
    BY <1>0, <1>1, <1>2 DEF Timed
  <2>4. QED
    BY <2>1, <2>2, <2>3 DEF Timed
<1>8. WorkIsBehind'
  BY <1>1, <1>4, <1>5 DEF WorkIsBehind, Forward
<1>9. SinceIsBehind'
  <2>1. At(mem.cursor)' = At(mem.cursor)
    BY <1>1, <1>2 DEF At
  <2>2. QED
    BY <1>0, <1>1, <1>2, <2>1 DEF SinceIsBehind, Forward
<1>10. Taken'
  BY <1>1, <1>4 DEF Forward, Taken
<1>11. ForgottenIsKnown'
  <2>1. (mem'.cursor = 0 /\ mem'.at # 0) => mem'.at \in reported'
    BY <1>1, <1>2 DEF Forward, ForgottenIsKnown
  <2>2. ASSUME NEW q \in Records, q > db.cursor, At(q) < mem.force PROVE Known(q)'
    BY <1>6, <2>2 DEF Forward, ForgottenIsKnown
  <2>3. QED
    BY <1>1, <1>2, <2>1, <2>2 DEF ForgottenIsKnown
<1>12. ASSUME NEW q \in Records, q > db.cursor, At(q) < child.since PROVE Known(q)'
  BY <1>0, <1>6, <1>12 DEF Forward, DroppedIsKnown
<1>13. (\A q \in Records : (q > db.cursor /\ At(q) < child.since) => Known(q))'
  BY <1>1, <1>2, <1>12
<1>14. (child.since <= now + 1)' /\ (child.since = now + 1 => now \in reported)'
  BY <1>0, <1>1, <1>2 DEF Forward, DroppedIsKnown
<1>15. QED
  BY <1>4, <1>5, <1>6, <1>7, <1>8, <1>9, <1>10, <1>11, <1>13, <1>14

\* A record that the current attempt skips is behind, and its loss is known
\* unless it was committed.
LEMMA SkippedLine ==
    ASSUME Ranges, Forward, Skips, TypeInvariant
    PROVE  /\ (Kind(Line) # "opaque" => Behind(Line))
           /\ (Line > db.cursor => (Line \in recorded' \/ Known(Line)))
<1>1. /\ Timed /\ Running /\ Reading
  BY DEF Forward, Skips, Stays, Running
<1>2. /\ Line \in Records /\ Line \in Nat /\ At(Line) \in Nat
  BY <1>1, LineFacts
<1>3. /\ mem.at \in Nat /\ mem.cursor \in Nat /\ mem.force \in Nat /\ now \in Nat
      /\ child.since \in Nat /\ child.last \in Nat /\ db.cursor \in Nat /\ Window \in Nat
  BY ReaderFields, RestFields, AttemptFields, StoreFields, JournalAssumption
<1>4. CASE Kind(Line) = "opaque" /\ Line \in recorded'
  BY <1>4
<1>5. CASE Line = child.last /\ child.last # 0
  <2>1. Line = mem.cursor /\ mem.cursor # 0
    BY <1>1, <1>5 DEF Ranges
  <2>2. At(Line) <= mem.at /\ mem.cursor <= db.cursor
    BY <1>1, <2>1 DEF Timed
  <2>3. QED
    BY <1>2, <1>3, <2>1, <2>2 DEF Behind
<1>6. CASE Kind(Line) # "opaque" /\ At(Line) < child.since
  <2>1. Line > db.cursor => Known(Line)
    BY <1>1, <1>2, <1>6 DEF Forward, DroppedIsKnown
  <2>2. CASE child.since <= now - Window \/ child.since <= mem.force
    BY <1>2, <1>3, <1>6, <2>1, <2>2 DEF Behind
  <2>3. CASE child.since <= mem.at + 1 /\ (mem.cursor = 0 \/ At(mem.cursor) >= child.since)
    <3>1. At(Line) <= mem.at
      BY <1>2, <1>3, <1>6, <2>3
    <3>2. mem.cursor = 0 \/ Line <= mem.cursor
      <4>1. SUFFICES ASSUME mem.cursor # 0, ~(Line <= mem.cursor) PROVE FALSE
        OBVIOUS
      <4>2. mem.cursor \in Records /\ mem.cursor <= Line
        BY <1>2, <1>3, <4>1, ReaderFields DEF Records
      <4>3. At(mem.cursor) <= At(Line) /\ At(mem.cursor) \in Nat
        BY <1>1, <1>2, <4>2, JournalFacts DEF Timed
      <4>4. QED
        BY <1>2, <1>3, <1>6, <2>3, <4>1, <4>3
    <3>3. QED
      BY <2>1, <3>1, <3>2 DEF Behind
  <2>4. QED
    BY <1>1, <2>2, <2>3 DEF Forward, SinceIsBehind
<1>7. QED
  BY <1>4, <1>5, <1>6 DEF Skips

LEMMA SkipsForward ==
    ASSUME Ranges, Forward, Kept, Skips, TypeInvariant'
    PROVE  Forward'
<1>0. /\ TypeInvariant /\ Timed /\ Running /\ Reading /\ Stays
      /\ child'.pc = "reading" /\ child'.next = Line + 1
  BY DEF Forward, Ranges, Skips, Stays, Running
<1>1. /\ journal' = journal /\ gone' = gone /\ now' = now /\ Records' = Records
      /\ \A q : At(q)' = At(q) /\ Kind(q)' = Kind(q)
      /\ db'.cursor = db.cursor
      /\ child'.since = child.since /\ child'.last = child.last
  BY <1>0, SameEnv DEF Kept, Stays
<1>2. /\ Timed' /\ WorkIsBehind' /\ SinceIsBehind' /\ Taken' /\ ForgottenIsKnown'
      /\ (\A q \in Records : (q > db.cursor /\ At(q) < child.since) => Known(q))'
      /\ (child.since <= now + 1)'
      /\ (child.since = now + 1 => now \in reported)'
      /\ Worked' = Worked
      /\ \A q \in Records : Behind(q) => Behind(q)'
      /\ \A q \in Records : Known(q) => Known(q)'
  BY <1>0, StaysForward
<1>3. PICK line : line = Line
  OBVIOUS
<1>4. /\ line \in Nat /\ line >= child.next /\ child'.next = line + 1 /\ line \in Records
      /\ child.next \in Nat
      /\ \A q \in Records : q \in Nat
      /\ \A q \in Records : (child.next <= q /\ q < line) => q \in gone
  BY <1>0, <1>3, LineFacts, JournalFacts, AttemptFields
<1>5. /\ (Kind(line) # "opaque" => Behind(line))
      /\ (line > db.cursor => (line \in recorded' \/ Known(line)))
  BY <1>0, <1>3, SkippedLine
<1>6. ReadIsBehind'
  <2>1. ASSUME NEW q \in Records, Kind(q) # "opaque", q < line + 1 PROVE Behind(q)'
    <3>1. CASE q < child.next
      BY <1>0, <1>2, <2>1, <3>1 DEF Forward, ReadIsBehind
    <3>2. CASE child.next <= q /\ q < line
      BY <1>1, <1>4, <3>2 DEF Behind
    <3>3. CASE q = line
      BY <1>2, <1>5, <2>1, <3>3
    <3>4. QED
      BY <1>4, <2>1, <3>1, <3>2, <3>3
  <2>2. QED
    BY <1>1, <1>4, <2>1 DEF ReadIsBehind
<1>7. WorkIsSkipped'
  <2>1. ASSUME NEW q \in Records, Kind(q) # "opaque", q < Worked
        PROVE  q < line + 1 \/ q = child.last \/ q \in gone \/ At(q) < child.since
    BY <1>0, <1>4, <2>1 DEF Forward, WorkIsSkipped
  <2>2. QED
    BY <1>1, <1>2, <1>4, <2>1 DEF WorkIsSkipped
<1>8. HandIsNew'
  BY <1>0 DEF HandIsNew
<1>9. DroppedIsKnown'
  <2>1. ASSUME NEW q \in Records, q > db.cursor, q < line + 1 PROVE Known(q)'
    <3>1. CASE q < child.next
      BY <1>0, <1>2, <2>1, <3>1 DEF Forward, DroppedIsKnown
    <3>2. CASE child.next <= q /\ q < line
      BY <1>1, <1>4, <3>2 DEF Known
    <3>3. CASE q = line
      <4>1. CASE line \in recorded'
        BY <3>3, <4>1 DEF Known
      <4>2. CASE Known(line)
        BY <1>2, <3>3, <4>2
      <4>3. QED
        BY <1>5, <2>1, <3>3, <4>1, <4>2
    <3>4. QED
      BY <1>4, <2>1, <3>1, <3>2, <3>3
  <2>2. QED
    BY <1>1, <1>2, <1>4, <2>1 DEF DroppedIsKnown
<1>10. QED
  BY <1>2, <1>6, <1>7, <1>8, <1>9 DEF Forward

LEMMA TakesForward ==
    ASSUME Ranges, Forward, Kept, Takes, TypeInvariant'
    PROVE  Forward'
<1>0. /\ TypeInvariant /\ Timed /\ Running /\ Reading /\ Stays
      /\ Kind(Line) # "opaque" /\ At(Line) >= child.since /\ Line # child.last
      /\ child'.pc = "deliver" /\ child'.next = Line
  BY DEF Forward, Ranges, Takes, Stays, Running, Recent, Decoded
<1>1. /\ journal' = journal /\ gone' = gone /\ now' = now /\ Records' = Records
      /\ \A q : At(q)' = At(q) /\ Kind(q)' = Kind(q)
      /\ db'.cursor = db.cursor
      /\ child'.since = child.since /\ child'.last = child.last
  BY <1>0, SameEnv DEF Kept, Stays
<1>2. /\ Timed' /\ WorkIsBehind' /\ SinceIsBehind' /\ Taken' /\ ForgottenIsKnown'
      /\ (\A q \in Records : (q > db.cursor /\ At(q) < child.since) => Known(q))'
      /\ (child.since <= now + 1)'
      /\ (child.since = now + 1 => now \in reported)'
      /\ Worked' = Worked
      /\ \A q \in Records : Behind(q) => Behind(q)'
      /\ \A q \in Records : Known(q) => Known(q)'
  BY <1>0, StaysForward
<1>3. PICK line : line = Line
  OBVIOUS
<1>4. /\ line \in Nat /\ line >= child.next /\ child'.next = line /\ line \in Records
      /\ child.next \in Nat /\ line \notin gone /\ At(line) \in Nat /\ child.since \in Nat
      /\ \A q \in Records : q \in Nat
      /\ \A q \in Records : (child.next <= q /\ q < line) => q \in gone
  BY <1>0, <1>3, LineFacts, JournalFacts, AttemptFields
<1>6. ReadIsBehind'
  <2>1. ASSUME NEW q \in Records, Kind(q) # "opaque", q < line PROVE Behind(q)'
    <3>1. CASE q < child.next
      BY <1>0, <1>2, <2>1, <3>1 DEF Forward, ReadIsBehind
    <3>2. CASE child.next <= q /\ q < line
      BY <1>1, <1>4, <3>2 DEF Behind
    <3>3. QED
      BY <1>4, <2>1, <3>1, <3>2
  <2>2. QED
    BY <1>1, <1>4, <2>1 DEF ReadIsBehind
<1>7. WorkIsSkipped'
  <2>1. ASSUME NEW q \in Records, Kind(q) # "opaque", q < Worked
        PROVE  q < line \/ q = child.last \/ q \in gone \/ At(q) < child.since
    BY <1>0, <1>4, <2>1 DEF Forward, WorkIsSkipped
  <2>2. QED
    BY <1>1, <1>2, <1>4, <2>1 DEF WorkIsSkipped
<1>8. HandIsNew'
  <2>1. Worked \in Nat
    BY <1>0, StoreFields, HandlerFields DEF Worked, Later
  <2>2. ~(line < Worked)
    BY <1>0, <1>3, <1>4 DEF Forward, WorkIsSkipped
  <2>3. QED
    BY <1>2, <1>4, <2>1, <2>2 DEF HandIsNew
<1>9. DroppedIsKnown'
  <2>1. ASSUME NEW q \in Records, q > db.cursor, q < line PROVE Known(q)'
    <3>1. CASE q < child.next
      BY <1>0, <1>2, <2>1, <3>1 DEF Forward, DroppedIsKnown
    <3>2. CASE child.next <= q /\ q < line
      BY <1>1, <1>4, <3>2 DEF Known
    <3>3. QED
      BY <1>4, <2>1, <3>1, <3>2
  <2>2. QED
    BY <1>1, <1>2, <1>4, <2>1 DEF DroppedIsKnown
<1>10. QED
  BY <1>2, <1>6, <1>7, <1>8, <1>9 DEF Forward

\* Every step of an attempt before the delivery preserves the invariant.
LEMMA StepsReplay ==
    ASSUME Replay, Steps
    PROVE  Replay'
<1>1. Ranges' /\ AtHand'
  BY StepsRanges DEF Replay
<1>2. back' = back
  BY SameEnv DEF Steps, Kept
<1>3. ASSUME ~back' PROVE Forward'
  BY <1>2, <1>3, EndsForward, SkipsForward, TakesForward DEF Replay, Steps
<1>4. QED
  BY <1>1, <1>3 DEF Replay

(***************************************************************************)
(* The journal and the clock.                                              *)
(***************************************************************************)
\* The journal grows, loses records, and the clock moves.
Environment ==
    /\ UNCHANGED <<db, mem, child, handler, status, ghosts>>
    /\ EnvType' /\ faults' \in Nat
    /\ now' >= StartTime
    /\ Len(journal) <= Len(journal') /\ Len(journal') <= MaxRecords
    /\ gone \subseteq gone'
    /\ \A q \in Records : At(q)' = At(q) /\ Kind(q)' = Kind(q)
    /\ \A q \in Records' : q \notin Records =>
          (At(q)' = now /\ q = Len(journal) + 1 /\ now' = now)
    /\ (~back' => (~back /\ now' >= now))

LEMMA EnvironmentSteps ==
    ASSUME Ranges, \/ \E kind \in Kinds : Receive(kind)
                   \/ \E p \in 1 .. Len(journal) : Vacuum(p)
                   \/ Tick
                   \/ \E t \in StartTime .. now - 1 : SetBack(t)
    PROVE  Environment
<1> DEFINE Record == [at : Nat, kind : Kinds]
<1>1. /\ TypeInvariant /\ journal \in Seq(Record) /\ gone \subseteq 1 .. Len(journal)
      /\ now \in Nat /\ back \in BOOLEAN /\ faults \in Nat
      /\ now >= StartTime /\ Len(journal) <= MaxRecords /\ StartTime \in Nat
      /\ MaxRecords \in Nat
  BY TypeParts, JournalAssumption DEF Ranges, EnvType, RestType, StartTime
<1>2. Len(journal) \in Nat
  BY <1>1, JournalFacts
<1>3. CASE \E kind \in Kinds : Receive(kind)
  <2>1. PICK kind \in Kinds : Receive(kind)
    BY <1>3
  <2>2. PICK r \in Record : journal' = Append(journal, r) /\ r.at = now
    <3>1. [at |-> now, kind |-> kind] \in Record
      BY <1>1, <2>1
    <3>2. QED
      BY <2>1, <3>1 DEF Receive
  <2>3. /\ UNCHANGED <<db, mem, child, handler, status, ghosts>> /\ faults' = faults
        /\ now' = now /\ gone' = gone /\ back' = back /\ Len(journal) < MaxRecords
    BY <2>1 DEF Receive
  <2>4. /\ journal' \in Seq(Record) /\ Len(journal') = Len(journal) + 1
        /\ \A q \in 1 .. Len(journal) : journal'[q] = journal[q]
        /\ journal'[Len(journal) + 1] = r
    <3> HIDE DEF Record
    <3> QED BY <1>1, <2>2
  <2>5. EnvType'
    <3>1. gone' \subseteq 1 .. Len(journal')
      BY <1>1, <1>2, <2>3, <2>4
    <3>2. QED
      BY Zenon, <1>1, <2>3, <2>4, <3>1 DEF EnvType
  <2>6. \A q \in Records : At(q)' = At(q) /\ Kind(q)' = Kind(q)
    BY <2>4 DEF Records, At, Kind
  <2>7. ASSUME NEW q \in Records', q \notin Records
        PROVE  At(q)' = now /\ q = Len(journal) + 1 /\ now' = now
    <3>1. q = Len(journal) + 1
      BY <1>2, <2>4, <2>7 DEF Records
    <3>2. At(q)' = now
      BY <2>2, <2>4, <3>1 DEF At
    <3>3. QED
      BY <2>3, <3>1, <3>2
  <2>8. QED
    BY <1>1, <1>2, <2>3, <2>4, <2>5, <2>6, <2>7 DEF Environment
<1>4. ASSUME journal' = journal, UNCHANGED <<db, mem, child, handler, status, ghosts>>,
             gone \subseteq gone', gone' \subseteq 1 .. Len(journal), now' \in Nat,
             now' >= StartTime, back' \in BOOLEAN, faults' \in Nat,
             ~back' => (~back /\ now' >= now)
      PROVE  Environment
  <2>1. EnvType'
    BY Zenon, <1>1, <1>4 DEF EnvType
  <2>2. /\ Records' = Records /\ Len(journal') = Len(journal)
        /\ \A q \in Records : At(q)' = At(q) /\ Kind(q)' = Kind(q)
    BY <1>4 DEF Records, At, Kind
  <2>3. QED
    BY <1>1, <1>2, <1>4, <2>1, <2>2 DEF Environment
<1>5. CASE \E p \in 1 .. Len(journal) : Vacuum(p)
  <2>1. PICK p \in 1 .. Len(journal) : Vacuum(p)
    BY <1>5
  <2>2. /\ journal' = journal /\ UNCHANGED <<db, mem, child, handler, status, ghosts>>
        /\ gone' = gone \cup {p} /\ now' = now /\ back' = back /\ faults' = faults + 1
    BY <2>1 DEF Vacuum, Fault
  <2>3. gone \subseteq gone' /\ gone' \subseteq 1 .. Len(journal) /\ faults' \in Nat
    BY <1>1, <2>2
  <2>4. QED
    BY <1>1, <1>4, <2>2, <2>3
<1>6. CASE Tick
  <2>1. /\ journal' = journal /\ UNCHANGED <<db, mem, child, handler, status, ghosts>>
        /\ gone' = gone /\ now' = now + 1 /\ back' = back /\ faults' = faults
    BY <1>6 DEF Tick
  <2>2. now' \in Nat /\ now' >= now /\ now' >= StartTime
    BY <1>1, <2>1
  <2>3. QED
    BY <1>1, <1>4, <2>1, <2>2
<1>7. CASE \E t \in StartTime .. now - 1 : SetBack(t)
  <2>1. /\ journal' = journal /\ UNCHANGED <<db, mem, child, handler, status, ghosts>>
        /\ gone' = gone /\ now' \in StartTime .. now - 1 /\ back' = TRUE /\ faults' = faults + 1
    BY <1>7 DEF SetBack, Fault
  <2>2. now' \in Nat /\ now' >= StartTime /\ faults' \in Nat
    BY <1>1, <2>1
  <2>3. QED
    BY <1>1, <1>4, <2>1, <2>2
<1>8. QED
  BY <1>3, <1>5, <1>6, <1>7

LEMMA EnvironmentTypes ==
    ASSUME TypeInvariant, Environment
    PROVE  TypeInvariant'
<1> DEFINE n == Len(journal)
           m == Len(journal')
           Sequences == Seq(Positions)
           Counters == [Positions -> Nat]
<1>1. /\ EnvType' /\ db' = db /\ mem' = mem /\ child' = child /\ prepared' = prepared
      /\ observed' = observed /\ status' = status /\ reported' = reported
      /\ recorded' = recorded /\ n <= m /\ faults' \in Nat
  BY DEF Environment, handler, ghosts
<1>2. n \in Nat /\ m \in Nat
  <2>1. n \in Nat
    BY JournalFacts
  <2> DEFINE Record == [at : Nat, kind : Kinds]
  <2>2. journal' \in Seq(Record)
    BY <1>1 DEF EnvType
  <2> HIDE DEF Record
  <2>3. QED
    BY <2>1, <2>2
<1>3. 0 .. n \subseteq 0 .. m /\ 1 .. n \subseteq 1 .. m /\ 0 .. n + 1 \subseteq 0 .. m + 1
  BY <1>1, <1>2
<1>4. /\ db \in StoreType /\ Len(db.seen) <= CacheSize /\ mem \in ReaderType
      /\ child \in AttemptType /\ HandlerType /\ RestType
  BY TypeParts
<1>5. db \in [cursor : 0 .. m, at : Nat, pending : BOOLEAN, seen : Sequences, counted : Counters]
  <2>1. db \in [cursor : 0 .. n, at : Nat, pending : BOOLEAN, seen : Sequences, counted : Counters]
    BY <1>4 DEF StoreType
  <2> HIDE DEF n, m, Sequences, Counters
  <2>2. QED
    BY <1>3, <2>1
<1>6. mem \in [cursor : 0 .. m, at : Nat, force : Nat, recovery : BOOLEAN]
  <2>1. mem \in [cursor : 0 .. n, at : Nat, force : Nat, recovery : BOOLEAN]
    BY <1>4 DEF ReaderType
  <2> HIDE DEF n, m
  <2>2. QED
    BY <1>3, <2>1
<1>7. child \in [pc : {"wait", "reading", "deliver"}, base : 0 .. m,
                 since : Nat, started : Nat, next : 0 .. m + 1,
                 backfill : 0 .. MaxBackfill + 1, verify : BOOLEAN, live : BOOLEAN,
                 last : 0 .. m]
  <2>1. child \in [pc : {"wait", "reading", "deliver"}, base : 0 .. n,
                 since : Nat, started : Nat, next : 0 .. n + 1,
                 backfill : 0 .. MaxBackfill + 1, verify : BOOLEAN, live : BOOLEAN,
                 last : 0 .. n]
    BY <1>4 DEF AttemptType
  <2> HIDE DEF n, m
  <2>2. QED
    BY <1>3, <2>1
<1>8. prepared \in [cursor : 0 .. m, counts : BOOLEAN] /\ observed \in Counters
  <2>1. prepared \in [cursor : 0 .. n, counts : BOOLEAN] /\ observed \in Counters
    BY <1>4 DEF HandlerType
  <2> HIDE DEF n, m, Counters
  <2>2. QED
    BY <1>3, <2>1
<1>9. recorded \subseteq 1 .. m
  BY <1>3, <1>4 DEF RestType
<1>10. QED
  BY Zenon, <1>1, <1>4, <1>5, <1>6, <1>7, <1>8, <1>9
  DEF TypeInvariant, EnvType, RestType

LEMMA EnvironmentRanges ==
    ASSUME Ranges, AtHand, Environment
    PROVE  Ranges' /\ AtHand'
<1>1. TypeInvariant'
  BY EnvironmentTypes DEF Ranges
<1>2. /\ db' = db /\ mem' = mem /\ child' = child
      /\ now' >= StartTime /\ Len(journal') <= MaxRecords /\ Len(journal) <= Len(journal')
      /\ \A q \in Records : At(q)' = At(q) /\ Kind(q)' = Kind(q)
  BY DEF Environment
<1>3. Ranges'
  <2>1. (db.cursor # 0 => Seen(db.cursor))'
    BY <1>2 DEF Ranges, Seen
  <2>2. QED
    BY <1>1, <1>2, <2>1 DEF Ranges, Running, StartTime
<1>4. AtHand'
  <2>1. Len(journal) \in Nat /\ Len(journal') \in Nat
    <3> DEFINE Record == [at : Nat, kind : Kinds]
    <3>1. journal' \in Seq(Record)
      BY DEF Environment, EnvType
    <3> HIDE DEF Record
    <3>2. QED
      BY <3>1, JournalFacts DEF Ranges
  <2>2. Records \subseteq Records'
    BY <1>2, <2>1 DEF Records
  <2>3. PICK p : p = child.next
    OBVIOUS
  <2>4. SUFFICES ASSUME child.pc = "deliver" PROVE AtHand'
    BY <1>2 DEF AtHand
  <2>5. /\ p \in Records' /\ Kind(p)' # "opaque" /\ At(p)' >= child.since
        /\ p # child.last /\ ~child.verify
    BY <1>2, <2>2, <2>3, <2>4 DEF AtHand
  <2>6. QED
    BY <1>2, <2>3, <2>5 DEF AtHand
<1>5. QED
  BY <1>3, <1>4

LEMMA EnvironmentForward ==
    ASSUME Ranges, Forward, Environment, ~back'
    PROVE  Forward'
<1>0. /\ TypeInvariant /\ Timed /\ TypeInvariant'
  BY EnvironmentTypes DEF Forward, Ranges
<1>1. /\ db' = db /\ mem' = mem /\ child' = child /\ prepared' = prepared /\ observed' = observed
      /\ reported' = reported /\ recorded' = recorded /\ gone \subseteq gone'
      /\ \A q \in Records : At(q)' = At(q) /\ Kind(q)' = Kind(q)
      /\ \A q \in Records' : q \notin Records =>
            (At(q)' = now /\ q = Len(journal) + 1 /\ now' = now)
      /\ now' >= now /\ Len(journal) <= Len(journal')
  BY DEF Environment, handler, ghosts
<1>2. /\ mem.at \in Nat /\ mem.cursor \in Nat /\ mem.force \in Nat /\ now \in Nat
      /\ child.since \in Nat /\ child.last \in Nat /\ db.cursor \in Nat /\ Window \in Nat
      /\ child.next \in Nat /\ child.started \in Nat
      /\ child.next <= Len(journal) + 1
      /\ prepared.cursor \in Nat /\ Len(journal) \in Nat
      /\ db.cursor <= Len(journal) /\ mem.cursor <= Len(journal)
      /\ prepared.cursor <= Len(journal) /\ now >= 1 /\ db.at \in Nat
  <2>1. /\ mem.at \in Nat /\ mem.cursor \in 0 .. Len(journal) /\ mem.force \in Nat
        /\ mem.cursor \in Nat /\ now \in Nat
    BY <1>0, ReaderFields, RestFields
  <2>2. /\ child.since \in Nat /\ child.last \in Nat /\ child.started \in Nat
        /\ child.next \in Nat /\ child.next \in 0 .. Len(journal) + 1
    BY <1>0, AttemptFields
  <2>3. /\ db.cursor \in Nat /\ db.cursor \in 0 .. Len(journal) /\ db.at \in Nat
    BY <1>0, StoreFields
  <2>4. /\ prepared.cursor \in Nat /\ prepared.cursor \in 0 .. Len(journal)
        /\ Len(journal) \in Nat
    BY <1>0, HandlerFields, JournalFacts
  <2>5. Window \in Nat /\ now >= Window + 1
    BY JournalAssumption DEF Ranges, StartTime
  <2>6. QED
    BY <2>1, <2>2, <2>3, <2>4, <2>5
<1>3. now' \in Nat /\ Len(journal') \in Nat
  <2> DEFINE Record == [at : Nat, kind : Kinds]
  <2>1. journal' \in Seq(Record) /\ now' \in Nat
    BY DEF Environment, EnvType
  <2> HIDE DEF Record
  <2>2. QED
    BY <2>1
<1>4. /\ Records \subseteq Records' /\ \A q \in Records' : q \in Nat /\ q >= 1
      /\ \A q \in Nat : (1 <= q /\ q <= Len(journal)) => q \in Records
      /\ \A q \in Records : q <= Len(journal) /\ At(q) \in Nat
  BY <1>0, <1>1, <1>2, <1>3, JournalFacts DEF Records
<1>5. Worked' = Worked /\ Worked \in Nat /\ Worked <= Len(journal)
  BY <1>1, <1>2 DEF Worked, Later
<1>6. ASSUME NEW q \in Records, Behind(q) PROVE Behind(q)'
  BY <1>0, <1>1, <1>2, <1>3, <1>6, BehindStays
<1>7. ASSUME NEW q \in Records, Known(q) PROVE Known(q)'
  BY <1>0, <1>1, <1>2, <1>3, <1>7, KnownStays
<1>8. Timed'
  <2>1. ASSUME NEW p \in Records', NEW q \in Records', p <= q PROVE At(p)' <= At(q)'
    <3>1. CASE q \in Records
      <4>1. p \in Records
        BY <1>2, <1>4, <2>1, <3>1
      <4>2. QED
        BY <1>0, <1>1, <2>1, <3>1, <4>1 DEF Timed
    <3>2. CASE q \notin Records /\ p \in Records
      BY <1>0, <1>1, <3>2 DEF Timed
    <3>3. CASE q \notin Records /\ p \notin Records
      BY <1>1, <1>2, <3>3
    <3>4. QED
      BY <3>1, <3>2, <3>3
  <2>2. ASSUME NEW p \in Records' PROVE 1 <= At(p)' /\ At(p)' <= now'
    <3>1. CASE p \in Records
      <4>1. At(p)' = At(p) /\ 1 <= At(p) /\ At(p) <= now /\ At(p) \in Nat
        BY <1>0, <1>1, <1>4, <3>1 DEF Timed
      <4>2. QED
        BY <1>1, <1>2, <1>3, <4>1
    <3>2. CASE p \notin Records
      BY <1>1, <1>2, <3>2
    <3>3. QED BY <3>1, <3>2
  <2>3. (db.cursor = 0 => db.at = 0)' /\ (mem.at <= db.at)' /\ (mem.cursor <= db.cursor)'
    BY <1>0, <1>1 DEF Timed
  <2>4. (db.cursor # 0 => db.at = At(db.cursor))'
    <3>1. SUFFICES ASSUME db.cursor # 0 PROVE db.at = At(db.cursor)'
      BY <1>1
    <3>2. db.cursor \in Records
      BY <1>2, <1>4, <3>1
    <3>3. At(db.cursor)' = journal'[db.cursor].at
      BY <1>1 DEF At
    <3>4. QED
      BY <1>0, <1>1, <3>1, <3>2, <3>3 DEF Timed, At
  <2>5. (mem.cursor # 0 => At(mem.cursor) <= mem.at)'
    <3>1. SUFFICES ASSUME mem.cursor # 0 PROVE At(mem.cursor)' <= mem.at
      BY <1>1
    <3>2. mem.cursor \in Records
      BY <1>2, <1>4, <3>1
    <3>3. At(mem.cursor)' = journal'[mem.cursor].at
      BY <1>1 DEF At
    <3>4. QED
      BY <1>0, <1>1, <3>1, <3>2, <3>3 DEF Timed, At
  <2>6. (mem.force <= now)'
    BY <1>0, <1>1, <1>2, <1>3 DEF Timed
  <2>7. (Running => (mem.force <= child.started /\ child.started <= now))'
    BY <1>0, <1>1, <1>2, <1>3 DEF Timed, Running
  <2>8. QED
    BY <2>1, <2>2, <2>3, <2>4, <2>5, <2>6, <2>7 DEF Timed
<1>9. WorkIsBehind'
  <2>1. ASSUME NEW q \in Records', Kind(q)' # "opaque", q < Worked PROVE Behind(q)'
    <3>1. q \in Records
      BY <1>4, <1>5, <1>2, <2>1
    <3>2. QED
      BY <1>1, <1>6, <2>1, <3>1 DEF Forward, WorkIsBehind
  <2>2. QED
    BY <1>5, <2>1 DEF WorkIsBehind
<1>10. ReadIsBehind'
  <2>1. ASSUME NEW q \in Records', Kind(q)' # "opaque", q < child.next, Running PROVE Behind(q)'
    <3>1. q \in Records
      BY <1>4, <1>2, <2>1
    <3>2. QED
      BY <1>1, <1>6, <2>1, <3>1 DEF Forward, ReadIsBehind
  <2>2. QED
    BY <1>1, <2>1 DEF ReadIsBehind, Running
<1>11. SinceIsBehind'
  <2>1. SUFFICES ASSUME Running PROVE SinceIsBehind'
    BY <1>1 DEF SinceIsBehind, Running
  <2>2. CASE child.since <= now - Window \/ child.since <= mem.force
    <3>1. child' = child /\ mem' = mem /\ now' >= now
      BY <1>1
    <3>2. CASE child.since <= now - Window
      <4>1. child'.since <= now' - Window
        BY <1>2, <1>3, <3>1, <3>2
      <4>2. QED
        BY <4>1 DEF SinceIsBehind
    <3>3. CASE child.since <= mem.force
      <4>1. child'.since <= mem'.force
        BY <3>1, <3>3
      <4>2. QED
        BY <4>1 DEF SinceIsBehind
    <3>4. QED
      BY <2>2, <3>2, <3>3
  <2>3. CASE child.since <= mem.at + 1 /\ (mem.cursor = 0 \/ At(mem.cursor) >= child.since)
    <3>1. mem.cursor # 0 => mem.cursor \in Records
      BY <1>2, <1>4
    <3>2. mem.cursor # 0 => At(mem.cursor)' = At(mem.cursor)
      BY <1>1, <3>1 DEF At
    <3>3. QED
      BY <1>1, <2>3, <3>2 DEF SinceIsBehind
  <2>4. QED
    BY <2>1, <2>2, <2>3 DEF Forward, SinceIsBehind
<1>12. WorkIsSkipped'
  <2>1. ASSUME NEW q \in Records', Kind(q)' # "opaque", q < Worked, Running
        PROVE  q < child.next \/ q = child.last \/ q \in gone' \/ At(q)' < child.since
    <3>1. q \in Records
      BY <1>4, <1>5, <1>2, <2>1
    <3>2. QED
      BY <1>1, <2>1, <3>1 DEF Forward, WorkIsSkipped
  <2>2. QED
    BY <1>1, <1>5, <2>1 DEF WorkIsSkipped, Running
<1>13. HandIsNew' /\ Taken'
  BY <1>1, <1>5 DEF Forward, HandIsNew, Taken
<1>14. ForgottenIsKnown'
  <2>1. (mem.cursor = 0 /\ mem.at # 0) => mem.at \in reported
    BY DEF Forward, ForgottenIsKnown
  <2>2. ASSUME NEW q \in Records', q > db.cursor, At(q)' < mem.force PROVE Known(q)'
    <3>1. CASE q \in Records
      BY <1>1, <1>7, <2>2, <3>1 DEF Forward, ForgottenIsKnown
    <3>2. CASE q \notin Records
      BY <1>0, <1>1, <1>2, <2>2, <3>2 DEF Timed
    <3>3. QED BY <3>1, <3>2
  <2>3. QED
    BY <1>1, <2>1, <2>2 DEF ForgottenIsKnown
<1>15. DroppedIsKnown'
  <2>1. SUFFICES ASSUME Running PROVE DroppedIsKnown'
    BY <1>1 DEF DroppedIsKnown, Running
  <2>2. /\ \A q \in Records : (q > db.cursor /\ q < child.next) => Known(q)
        /\ \A q \in Records : (q > db.cursor /\ At(q) < child.since) => Known(q)
        /\ child.since <= now + 1
        /\ (child.since = now + 1 => now \in reported)
    BY <2>1 DEF Forward, DroppedIsKnown
  <2>3. ASSUME NEW q \in Records', q > db.cursor, q < child.next PROVE Known(q)'
    <3>1. q \in Records
      BY <1>4, <1>2, <2>3
    <3>2. QED
      BY <1>7, <2>2, <2>3, <3>1
  <2>4. ASSUME NEW q \in Records', q > db.cursor, At(q)' < child.since PROVE Known(q)'
    <3>1. CASE q \in Records
      BY <1>1, <1>7, <2>2, <2>4, <3>1
    <3>2. CASE q \notin Records
      <4>1. At(q)' = now /\ child.since = now + 1
        BY <1>1, <1>2, <2>2, <2>4, <3>2
      <4>2. QED
        BY <1>1, <2>2, <4>1 DEF Known
    <3>3. QED BY <3>1, <3>2
  <2>5. child.since <= now' + 1 /\ (child.since = now' + 1 => now' \in reported)
    <3>1. CASE now' = now
      BY <2>2, <3>1
    <3>2. CASE now' # now
      BY <1>1, <1>2, <1>3, <2>2, <3>2
    <3>3. QED BY <3>1, <3>2
  <2>6. QED
    BY <1>1, <2>3, <2>4, <2>5 DEF DroppedIsKnown
<1>16. QED
  BY <1>8, <1>9, <1>10, <1>11, <1>12, <1>13, <1>14, <1>15 DEF Forward

LEMMA EnvironmentReplay ==
    ASSUME Replay, Environment
    PROVE  Replay'
<1>1. Ranges' /\ AtHand'
  BY EnvironmentRanges DEF Replay
<1>2. ASSUME ~back' PROVE Forward'
  <2>1. ~back
    BY <1>2 DEF Environment
  <2>2. QED
    BY <1>2, <2>1, EnvironmentForward DEF Replay
<1>3. QED
  BY <1>1, <1>2 DEF Replay

(***************************************************************************)
(* Launching an attempt.                                                   *)
(***************************************************************************)
LEMMA FirstCursorFacts ==
    ASSUME Ranges
    PROVE  /\ FirstCursor \in 0 .. Len(journal) /\ FirstCursor \in Nat
           /\ FirstCursor = mem.cursor \/ (FirstCursor = 0 /\ Outdated)
           /\ (FirstCursor = 0 => (mem.cursor = 0 \/ Outdated))
<1>1. mem.cursor \in 0 .. Len(journal) /\ mem.cursor \in Nat /\ Len(journal) \in Nat
  BY ReaderFields, JournalFacts DEF Ranges
<1>2. QED
  BY <1>1 DEF FirstCursor

\* Where a replay begins.
LEMMA SinceFacts ==
    ASSUME Ranges, NEW c
    PROVE  /\ Since(c) \in Nat
           /\ Since(c) >= now - Window
           /\ Since(c) >= mem.force
           /\ ((c = 0 /\ mem.at # 0) => Since(c) >= mem.at + 1)
           /\ \/ Since(c) = now - Window
              \/ Since(c) = mem.force
              \/ (c = 0 /\ mem.at # 0 /\ Since(c) = mem.at + 1)
<1>1. /\ mem.at \in Nat /\ mem.force \in Nat /\ now \in Nat /\ Window \in Nat
      /\ now >= Window + 1
  BY ReaderFields, RestFields, JournalAssumption DEF Ranges, StartTime
<1>2. CASE c = 0 /\ mem.at # 0
  <2>1. Since(c) = Later(now - Window, Later(mem.force, mem.at + 1))
    BY <1>2 DEF Since, NotAcknowledged
  <2>2. QED
    BY <1>1, <1>2, <2>1 DEF Later
<1>3. CASE ~(c = 0 /\ mem.at # 0)
  <2>1. Since(c) = Later(now - Window, Later(mem.force, 0))
    BY <1>3 DEF Since
  <2>2. QED
    BY <1>1, <1>3, <2>1 DEF Later
<1>4. QED
  BY <1>2, <1>3

LEMMA LaunchReader ==
    ASSUME Ranges, NEW starts, Launch(starts)
    PROVE  /\ mem' \in ReaderType
           /\ mem'.cursor = FirstCursor /\ mem'.at = mem.at /\ mem'.force = mem.force
           /\ reported \subseteq reported' /\ reported' \subseteq Nat
           /\ (Outdated => Gap(mem.at) \subseteq reported')
<1>1. /\ mem \in ReaderType /\ FirstCursor \in 0 .. Len(journal)
      /\ mem' = [mem EXCEPT !.cursor = FirstCursor]
  BY TypeParts, FirstCursorFacts DEF Ranges, Launch
<1>2. /\ mem' \in ReaderType
      /\ mem'.cursor = FirstCursor /\ mem'.at = mem.at /\ mem'.force = mem.force
  BY <1>1 DEF ReaderType
<1>3. /\ mem.at \in Nat /\ now \in Nat /\ Window \in Nat /\ now >= Window + 1
      /\ reported \subseteq Nat
  BY ReaderFields, RestFields, JournalAssumption DEF Ranges, StartTime
<1>4. Gap(mem.at) \subseteq Nat /\ Gap(now - Window) \subseteq Nat
  BY <1>3 DEF Gap
<1>5. reported' = reported \cup (IF Outdated THEN Gap(mem.at) ELSE {})
                           \cup (IF NoHistory THEN Gap(now - Window) ELSE {})
  BY DEF Launch
<1>6. QED
  BY <1>2, <1>3, <1>4, <1>5

LEMMA LaunchFails ==
    ASSUME Ranges, Launch(FALSE)
    PROVE  Steps
<1>1. /\ child.pc = "wait" /\ child' = child /\ status' = "retrying" /\ faults' = faults + 1
      /\ UNCHANGED <<env, handler>> /\ UNCHANGED env /\ UNCHANGED db /\ recorded' = recorded
  BY DEF Launch, Fault
<1>2. /\ mem' \in ReaderType
      /\ mem'.cursor = FirstCursor /\ mem'.at = mem.at /\ mem'.force = mem.force
      /\ reported \subseteq reported' /\ reported' \subseteq Nat
      /\ (Outdated => Gap(mem.at) \subseteq reported')
  BY LaunchReader
<1>3. Ends
  BY <1>1, <1>2, FirstCursorFacts DEF Ends
<1>4. Kept
  BY <1>1, <1>2, SameStore DEF Kept
<1>5. TypeInvariant /\ HandlerType /\ journal' = journal
  BY <1>1, TypeParts DEF Ranges, env
<1>6. HandlerType' /\ RestType' /\ child' \in AttemptType
  BY <1>1, <1>2, <1>5, SameRest DEF HandlerType, RestType, handler
<1>7. TypeInvariant'
  BY <1>1, <1>2, <1>5, <1>6, SameStore, TypesAfter
<1>8. QED
  BY <1>3, <1>4, <1>7 DEF Steps

Launched ==
    /\ child' = [pc |-> "reading", base |-> FirstCursor,
                 since |-> Since(FirstCursor), started |-> now,
                 next |-> Seek(FirstCursor, Since(FirstCursor)), backfill |-> 0,
                 verify |-> FirstCursor # 0, live |-> FALSE, last |-> FirstCursor]
    /\ UNCHANGED <<env, handler>> /\ UNCHANGED env /\ UNCHANGED db /\ recorded' = recorded
    /\ mem' \in ReaderType
    /\ mem'.cursor = FirstCursor /\ mem'.at = mem.at /\ mem'.force = mem.force
    /\ reported \subseteq reported' /\ reported' \subseteq Nat
    /\ (Outdated => Gap(mem.at) \subseteq reported')

\* The attempt starts at the cursor or behind what is gone or too old.
LEMMA StartFacts ==
    ASSUME Ranges
    PROVE  /\ Seek(FirstCursor, Since(FirstCursor)) \in 1 .. Len(journal) + 1
           /\ (FirstCursor # 0 => Seek(FirstCursor, Since(FirstCursor)) = FirstCursor)
           /\ FirstCursor = 0 =>
                 \A q \in Records : q < Seek(FirstCursor, Since(FirstCursor)) =>
                     (q \in gone \/ At(q) < Since(FirstCursor))
<1>1. FirstCursor \in 0 .. Len(journal) /\ Since(FirstCursor) \in Nat /\ Len(journal) \in Nat
      /\ TypeInvariant
  BY FirstCursorFacts, SinceFacts, JournalFacts DEF Ranges
<1>2. CASE FirstCursor # 0
  BY <1>1, <1>2 DEF Seek
<1>3. CASE FirstCursor = 0
  BY <1>1, <1>3, SeekFacts
<1>4. QED
  BY <1>2, <1>3

LEMMA LaunchRanges ==
    ASSUME Ranges, Launch(TRUE)
    PROVE  Launched /\ Ranges' /\ AtHand'
<1>1. /\ child' = [pc |-> "reading", base |-> FirstCursor,
                 since |-> Since(FirstCursor), started |-> now,
                 next |-> Seek(FirstCursor, Since(FirstCursor)), backfill |-> 0,
                 verify |-> FirstCursor # 0, live |-> FALSE, last |-> FirstCursor]
      /\ status' \in {"retrying", "running"} /\ faults' = faults
      /\ UNCHANGED <<env, handler>> /\ UNCHANGED env /\ UNCHANGED db /\ recorded' = recorded
  BY DEF Launch
<1>2. Launched
  BY <1>1, LaunchReader DEF Launched
<1>3. /\ now \in Nat /\ MaxBackfill \in Nat /\ Since(FirstCursor) \in Nat
      /\ Seek(FirstCursor, Since(FirstCursor)) \in 1 .. Len(journal) + 1
      /\ FirstCursor \in 0 .. Len(journal) /\ Len(journal) \in Nat
  BY RestFields, SinceFacts, StartFacts, FirstCursorFacts, JournalFacts, JournalAssumption
  DEF Ranges
<1>4. child' \in AttemptType
  <2> DEFINE n == Seek(FirstCursor, Since(FirstCursor))
             s == Since(FirstCursor)
             v == FirstCursor # 0
  <2>1. v \in BOOLEAN /\ n \in 0 .. Len(journal) + 1 /\ s \in Nat
        /\ 0 \in 0 .. MaxBackfill + 1
    BY <1>3
  <2>2. child' = [pc |-> "reading", base |-> FirstCursor, since |-> s, started |-> now,
                  next |-> n, backfill |-> 0, verify |-> v, live |-> FALSE,
                  last |-> FirstCursor]
    BY <1>1
  <2> HIDE DEF n, s, v
  <2>3. QED
    BY <1>3, <2>1, <2>2 DEF AttemptType
<1>5. TypeInvariant'
  <2>1. TypeInvariant /\ HandlerType /\ journal' = journal
    BY <1>1, TypeParts DEF Ranges, env
  <2>2. HandlerType' /\ RestType'
    BY <1>1, <1>2, <2>1, SameRest DEF HandlerType, RestType, handler, Launched
  <2>3. QED
    BY <1>1, <1>2, <1>4, <2>1, <2>2, SameStore, TypesAfter DEF Launched
<1>6. /\ child'.pc = "reading" /\ child'.base = FirstCursor /\ child'.last = FirstCursor
      /\ child'.next >= 1 /\ child'.backfill = 0 /\ (child'.verify <=> FirstCursor # 0)
  <2>1. child'.verify = (FirstCursor # 0)
    BY Zenon, <1>1
  <2>2. /\ child'.pc = "reading" /\ child'.base = FirstCursor /\ child'.last = FirstCursor
        /\ child'.next = Seek(FirstCursor, Since(FirstCursor)) /\ child'.backfill = 0
    BY Zenon, <1>1
  <2>3. child'.next >= 1
    BY <1>3, <2>2
  <2>4. child'.verify <=> FirstCursor # 0
    BY Zenon, <2>1
  <2>5. QED
    BY Zenon, <2>2, <2>3, <2>4
<1>7. Ranges'
  <2>1. /\ journal' = journal /\ now' = now /\ db' = db /\ mem'.cursor = FirstCursor
    BY <1>1, <1>2 DEF env, Launched
  <2>2. (db.cursor # 0 => Seen(db.cursor))'
    BY <2>1 DEF Ranges, Seen
  <2>3. /\ (now >= StartTime)' /\ (Len(journal) <= MaxRecords)'
    BY <2>1 DEF Ranges, StartTime
  <2>4. /\ (~child.live => child.backfill <= MaxBackfill)'
        /\ (Running => child.next >= 1)'
        /\ (child.verify => (child.base = child.last /\ child.last # 0))'
        /\ ((Running /\ child.last # 0) => child.last = mem.cursor)'
    BY <1>3, <1>6, <2>1
  <2>5. QED
    BY <1>5, <2>2, <2>3, <2>4 DEF Ranges
<1>8. AtHand'
  BY <1>6 DEF AtHand
<1>9. QED
  BY <1>2, <1>7, <1>8

LEMMA LaunchForward ==
    ASSUME Ranges, Forward, Launched, TypeInvariant'
    PROVE  Forward'
<1>0. TypeInvariant /\ Timed
  BY DEF Forward, Ranges
<1>1. /\ journal' = journal /\ gone' = gone /\ now' = now /\ Records' = Records
      /\ \A q : At(q)' = At(q) /\ Kind(q)' = Kind(q)
      /\ prepared' = prepared /\ observed' = observed /\ db' = db
      /\ recorded' = recorded /\ reported \subseteq reported'
      /\ mem'.at = mem.at /\ mem'.force = mem.force
      /\ (Outdated => Gap(mem.at) \subseteq reported')
  BY SameEnv DEF Launched, handler
<1>2. PICK c, s, n : c = FirstCursor /\ s = Since(c) /\ n = Seek(c, s)
  OBVIOUS
<1>3. /\ mem'.cursor = c /\ child'.pc = "reading" /\ child'.since = s /\ child'.started = now
      /\ child'.next = n /\ child'.last = c /\ Running'
  BY <1>2 DEF Launched, Running
<1>4. /\ mem.at \in Nat /\ mem.cursor \in Nat /\ mem.force \in Nat /\ now \in Nat
      /\ db.cursor \in Nat /\ db.at \in Nat /\ Window \in Nat /\ Window >= 1
      /\ Worked \in Nat
      /\ \A q \in Records : q \in Nat /\ At(q) \in Nat
  <2>1. Window \in Nat /\ Window >= 1
    BY JournalAssumption
  <2>2. Worked \in Nat
    BY <1>0, StoreFields, HandlerFields DEF Worked, Later
  <2>3. QED
    BY <1>0, <2>1, <2>2, ReaderFields, RestFields, StoreFields, JournalFacts
<1>5. /\ c \in 0 .. Len(journal) /\ c \in Nat
      /\ c = mem.cursor \/ (c = 0 /\ Outdated)
      /\ s \in Nat /\ s >= now - Window /\ s >= mem.force
      /\ ((c = 0 /\ mem.at # 0) => s >= mem.at + 1)
      /\ \/ s = now - Window
         \/ s = mem.force
         \/ (c = 0 /\ mem.at # 0 /\ s = mem.at + 1)
      /\ n \in 1 .. Len(journal) + 1
      /\ (c # 0 => n = c)
      /\ (c = 0 => \A q \in Records : q < n => (q \in gone \/ At(q) < s))
  BY <1>2, FirstCursorFacts, SinceFacts, StartFacts
<1>6. Worked' = Worked
  BY <1>1 DEF Worked, Later
<1>7. mem.at <= now /\ \A q \in Records : q > db.cursor => (db.at <= At(q) /\ mem.at <= At(q))
  BY <1>0, Horizon
<1>8. ASSUME NEW q \in Records, Behind(q) PROVE Behind(q)'
  BY <1>0, <1>1, <1>3, <1>4, <1>5, <1>8, BehindStays
<1>9. ASSUME NEW q \in Records, Known(q) PROVE Known(q)'
  BY <1>0, <1>1, <1>4, <1>9, KnownStays
<1>10. Timed'
  <2>1. /\ (\A p, q \in Records : p <= q => At(p) <= At(q))'
        /\ (\A p \in Records : 1 <= At(p) /\ At(p) <= now)'
    BY <1>0, <1>1 DEF Timed
  <2>2. /\ (db.cursor = 0 => db.at = 0)' /\ (mem.at <= db.at)' /\ (mem.force <= now)'
        /\ (db.cursor # 0 => db.at = At(db.cursor))'
    BY <1>0, <1>1 DEF Timed, At
  <2>3. (mem.cursor <= db.cursor)' /\ (mem.cursor # 0 => At(mem.cursor) <= mem.at)'
    BY <1>0, <1>1, <1>3, <1>4, <1>5 DEF Timed, At
  <2>4. (mem.force <= child.started /\ child.started <= now)'
    BY <1>0, <1>1, <1>3, <1>4 DEF Timed
  <2>5. QED
    BY <2>1, <2>2, <2>3, <2>4 DEF Timed
<1>11. WorkIsBehind'
  BY <1>1, <1>6, <1>8 DEF Forward, WorkIsBehind
\* Where the cursor is forgotten, what is not after the acknowledged time is behind.
<1>12. ASSUME NEW q \in Records, At(q) < s PROVE Behind(q)' \/ c # 0
  <2>1. CASE s = now - Window \/ s = mem.force
    BY <1>1, <1>12, <2>1 DEF Behind
  <2>2. CASE c = 0 /\ mem.at # 0 /\ s = mem.at + 1
    <3>1. At(q) <= mem.at
      BY <1>4, <1>12, <2>2
    <3>2. QED
      BY <1>1, <1>3, <2>2, <3>1 DEF Behind
  <2>3. QED
    BY <1>5, <2>1, <2>2
<1>13. ReadIsBehind'
  <2>1. ASSUME NEW q \in Records, q < n PROVE Behind(q)'
    <3>1. CASE c = 0
      <4>1. CASE q \in gone
        BY <1>1, <4>1 DEF Behind
      <4>2. CASE At(q) < s
        BY <1>12, <3>1, <4>2
      <4>3. QED
        BY <1>5, <2>1, <3>1, <4>1, <4>2
    <3>2. CASE c # 0
      <4>1. c = mem.cursor /\ q <= c /\ c \in Records
        BY <1>4, <1>5, <2>1, <3>2 DEF Records
      <4>2. At(q) <= At(c) /\ At(c) <= mem.at /\ At(c) \in Nat
        BY <1>0, <1>4, <3>2, <4>1 DEF Timed
      <4>3. At(q) <= mem.at
        BY <1>4, <4>2
      <4>4. QED
        BY <1>1, <1>3, <4>1, <4>3 DEF Behind
    <3>3. QED BY <3>1, <3>2
  <2>2. QED
    BY <1>1, <1>3, <2>1 DEF ReadIsBehind
<1>14. SinceIsBehind'
  BY <1>1, <1>3, <1>4, <1>5 DEF SinceIsBehind
<1>15. WorkIsSkipped'
  <2>1. ASSUME NEW q \in Records, Kind(q) # "opaque", q < Worked
        PROVE  q < n \/ q = c \/ q \in gone \/ At(q) < s
    <3>1. Behind(q)
      BY <2>1 DEF Forward, WorkIsBehind
    <3>2. CASE q \in gone
      BY <3>2
    <3>3. CASE At(q) < now - Window \/ At(q) < mem.force
      BY <1>4, <1>5, <3>3
    <3>4. CASE At(q) <= mem.at /\ (mem.cursor = 0 \/ q <= mem.cursor)
      <4>1. CASE c = 0
        <5>1. At(q) >= 1
          BY <1>0 DEF Timed
        <5>2. mem.at # 0
          BY <1>4, <3>4, <5>1
        <5>3. QED
          BY <1>4, <1>5, <3>4, <4>1, <5>2
      <4>2. CASE c # 0
        BY <1>4, <1>5, <3>4, <4>2
      <4>3. QED BY <4>1, <4>2
    <3>5. QED
      BY <3>1, <3>2, <3>3, <3>4 DEF Behind
  <2>2. QED
    BY <1>1, <1>3, <1>6, <2>1 DEF WorkIsSkipped
<1>16. HandIsNew' /\ Taken'
  BY <1>1, <1>3, <1>6 DEF Forward, HandIsNew, Taken
<1>17. (c = 0 /\ mem.at # 0) => mem.at \in reported'
  <2>1. CASE c = mem.cursor
    BY <1>1, <2>1 DEF Forward, ForgottenIsKnown
  <2>2. CASE Outdated
    <3>1. mem.at \in Gap(mem.at)
      BY <1>4, <1>7 DEF Gap
    <3>2. QED
      BY <1>1, <2>2, <3>1
  <2>3. QED
    BY <1>5, <2>1, <2>2
<1>18. ASSUME NEW q \in Records, q > db.cursor, At(q) < mem.force PROVE Known(q)'
  BY <1>9, <1>18 DEF Forward, ForgottenIsKnown
<1>19. ForgottenIsKnown'
  BY <1>1, <1>3, <1>17, <1>18 DEF ForgottenIsKnown
<1>20. DroppedIsKnown'
  <2>1. ASSUME NEW q \in Records, q > db.cursor, At(q) < s PROVE Known(q)'
    <3>1. CASE s = now - Window
      BY <1>1, <1>4, <2>1, <3>1 DEF Known
    <3>2. CASE s = mem.force
      BY <1>18, <2>1, <3>2
    <3>3. CASE c = 0 /\ mem.at # 0 /\ s = mem.at + 1
      <4>1. At(q) = mem.at
        BY <1>4, <1>7, <2>1, <3>3
      <4>2. QED
        BY <1>1, <1>17, <3>3, <4>1 DEF Known
    <3>4. QED
      BY <1>5, <3>1, <3>2, <3>3
  <2>2. ASSUME NEW q \in Records, q > db.cursor, q < n PROVE Known(q)'
    <3>1. c = 0
      BY <1>0, <1>4, <1>5, <2>2 DEF Timed
    <3>2. CASE q \in gone
      BY <1>1, <3>2 DEF Known
    <3>3. CASE At(q) < s
      BY <2>1, <2>2, <3>3
    <3>4. QED
      BY <1>5, <2>2, <3>1, <3>2, <3>3
  <2>3. s <= now + 1
    BY <1>0, <1>4, <1>5, <1>7 DEF Timed
  <2>4. s = now + 1 => now \in reported'
    <3>1. SUFFICES ASSUME s = now + 1 PROVE now \in reported'
      OBVIOUS
    <3>2. c = 0 /\ mem.at # 0 /\ mem.at = now
      BY <1>0, <1>4, <1>5, <3>1 DEF Timed
    <3>3. QED
      BY <1>17, <3>2
  <2>5. QED
    BY <1>1, <1>3, <2>1, <2>2, <2>3, <2>4 DEF DroppedIsKnown
<1>21. QED
  BY <1>10, <1>11, <1>13, <1>14, <1>15, <1>16, <1>19, <1>20 DEF Forward

LEMMA LaunchReplay ==
    ASSUME Replay, Launch(TRUE)
    PROVE  Replay'
<1>1. Launched /\ Ranges' /\ AtHand'
  BY LaunchRanges DEF Replay
<1>2. back' = back
  BY <1>1, SameEnv DEF Launched
<1>3. ASSUME ~back' PROVE Forward'
  BY <1>1, <1>2, <1>3, LaunchForward DEF Replay, Ranges
<1>4. QED
  BY <1>1, <1>3 DEF Replay

(***************************************************************************)
(* Delivering a record.                                                    *)
(***************************************************************************)
\* The cache keeps its bound and never loses the record it was given last.
LEMMA CacheFacts ==
    ASSUME NEW S, NEW seen \in Seq(S), NEW p \in S, Len(seen) <= CacheSize
    PROVE  /\ Trimmed(Append(seen, p)) \in Seq(S)
           /\ Len(Trimmed(Append(seen, p))) <= CacheSize
           /\ \E i \in 1 .. Len(Trimmed(Append(seen, p))) : Trimmed(Append(seen, p))[i] = p
<1> DEFINE t == Append(seen, p)
<1>1. CacheSize \in Nat /\ CacheSize >= 1 /\ Len(seen) \in Nat
  BY JournalAssumption
<1>2. /\ t \in Seq(S) /\ Len(t) = Len(seen) + 1 /\ t[Len(t)] = p
  OBVIOUS
<1>3. \A i \in 1 .. Len(t) : t[i] \in S
  <2> HIDE DEF t
  <2> QED BY <1>2
<1>4. CASE Len(t) > CacheSize
  <2> DEFINE m == Len(t) - CacheSize + 1
             n == Len(t)
             u == SubSeq(t, m, n)
  <2>1. Trimmed(t) = u
    BY <1>4 DEF Trimmed
  <2>2. m \in Int /\ n \in Int /\ m >= 1 /\ n - m + 1 = CacheSize /\ m <= n
    BY <1>1, <1>2, <1>4
  <2>3. \A i \in m .. n : t[i] \in S
    BY <1>3, <2>2
  <2> HIDE DEF t, m, n
  <2>4. /\ u \in Seq(S) /\ Len(u) = n - m + 1
        /\ \A i \in 1 .. n - m + 1 : u[i] = t[m + i - 1]
    BY <2>2, <2>3, SubSeqProperties
  <2>5. CacheSize \in 1 .. n - m + 1 /\ m + CacheSize - 1 = n
    BY <1>1, <2>2
  <2>6. u[CacheSize] = p
    BY <1>2, <2>4, <2>5 DEF n
  <2> HIDE DEF u
  <2>7. Len(u) = CacheSize /\ CacheSize \in 1 .. Len(u)
    BY <2>2, <2>4, <2>5
  <2>8. /\ Trimmed(t) \in Seq(S) /\ Len(Trimmed(t)) <= CacheSize
        /\ \E i \in 1 .. Len(Trimmed(t)) : Trimmed(t)[i] = p
    BY <1>1, <2>1, <2>4, <2>6, <2>7
  <2>9. QED
    BY <2>8 DEF t
<1>5. CASE ~(Len(t) > CacheSize)
  <2>1. Trimmed(t) = t
    BY <1>5 DEF Trimmed
  <2>2. Len(t) \in 1 .. Len(t) /\ Len(t) <= CacheSize
    BY <1>1, <1>2, <1>5
  <2>3. QED
    BY <1>2, <2>1, <2>2
<1>6. QED
  BY <1>4, <1>5

Counts(p) == ~Seen(p) /\ Prepared(p).counts

\* What a commit leaves in the store.
LEMMA CommitFacts ==
    ASSUME Ranges, NEW p \in Records
    PROVE  /\ CommitJournal(p) \in StoreType
           /\ CommitJournal(p).cursor = p
           /\ CommitJournal(p).at = Later(db.at, At(p))
           /\ Len(CommitJournal(p).seen) <= CacheSize
           /\ \E i \in 1 .. Len(CommitJournal(p).seen) : CommitJournal(p).seen[i] = p
           /\ CommitJournal(p).counted =
                  IF Counts(p) THEN [db.counted EXCEPT ![p] = @ + 1] ELSE db.counted
<1> DEFINE Sequences == Seq(Positions)
           Counters == [Positions -> Nat]
           Store == [cursor : 0 .. Len(journal), at : Nat, pending : BOOLEAN,
                     seen : Sequences, counted : Counters]
<1>0. /\ TypeInvariant /\ Len(journal) \in Nat /\ Len(journal) <= MaxRecords /\ MaxRecords \in Nat
      /\ p \in 0 .. Len(journal) /\ p \in Positions /\ At(p) \in Nat /\ db.at \in Nat
  BY StoreFields, JournalFacts, JournalAssumption DEF Ranges, Records, Positions
<1>1. /\ db \in Store /\ db.pending \in BOOLEAN /\ db.seen \in Seq(Positions)
      /\ Len(db.seen) <= CacheSize /\ db.counted \in [Positions -> Nat]
  BY <1>0, TypeParts, StoreFields DEF StoreType
<1>2. PICK seen1 : seen1 = IF Seen(p) THEN db.seen ELSE Trimmed(Append(db.seen, p))
  OBVIOUS
<1>3. PICK pending1 : pending1 = (db.pending /\ ~(~Seen(p) /\ Trusted(p)))
  OBVIOUS
<1>4. PICK counted1 : counted1 = IF Counts(p) THEN [db.counted EXCEPT ![p] = @ + 1]
                                 ELSE db.counted
  OBVIOUS
<1>5. PICK at1 : at1 = Later(db.at, At(p))
  OBVIOUS
<1>6. CommitJournal(p) = [db EXCEPT !.cursor = p, !.at = at1, !.seen = seen1,
                                    !.pending = pending1, !.counted = counted1]
  <2>1. Aggregates(p) = counted1
    BY <1>4 DEF Counts, Aggregates
  <2>2. QED
    BY Zenon, <1>2, <1>3, <1>5, <2>1 DEF CommitJournal
<1>7. /\ seen1 \in Sequences /\ Len(seen1) <= CacheSize
      /\ \E i \in 1 .. Len(seen1) : seen1[i] = p
  <2>1. CASE Seen(p)
    BY <1>1, <1>2, <2>1 DEF Seen
  <2>2. CASE ~Seen(p)
    <3>1. seen1 = Trimmed(Append(db.seen, p))
      BY <1>2, <2>2
    <3>2. /\ Trimmed(Append(db.seen, p)) \in Seq(Positions)
          /\ Len(Trimmed(Append(db.seen, p))) <= CacheSize
          /\ \E i \in 1 .. Len(Trimmed(Append(db.seen, p))) :
                Trimmed(Append(db.seen, p))[i] = p
      BY <1>0, <1>1, CacheFacts
    <3>3. QED
      BY <3>1, <3>2
  <2>3. QED BY <2>1, <2>2
<1>8. pending1 \in BOOLEAN
  BY <1>3
<1>9. counted1 \in Counters
  <2>1. [db.counted EXCEPT ![p] = @ + 1] \in [Positions -> Nat]
    BY <1>0, <1>1
  <2>2. QED
    BY <1>1, <1>4, <2>1
<1>10. at1 \in Nat
  BY <1>0, <1>5 DEF Later
<1> DEFINE a == [db EXCEPT !.cursor = p]
           b == [a EXCEPT !.at = at1]
           c == [b EXCEPT !.seen = seen1]
           d == [c EXCEPT !.pending = pending1]
           e == [d EXCEPT !.counted = counted1]
<1>11. CommitJournal(p) = e
  BY <1>6
<1> HIDE DEF Sequences, Counters
<1>12. a \in Store /\ a.cursor = p
  BY <1>0, <1>1
<1> HIDE DEF a
<1>13. b \in Store /\ b.cursor = p /\ b.at = at1
  BY <1>10, <1>12
<1> HIDE DEF b
<1>14. c \in Store /\ c.cursor = p /\ c.at = at1 /\ c.seen = seen1
  BY <1>7, <1>13
<1> HIDE DEF c
<1>15. d \in Store /\ d.cursor = p /\ d.at = at1 /\ d.seen = seen1
  BY <1>8, <1>14
<1> HIDE DEF d
<1>16. e \in Store /\ e.cursor = p /\ e.at = at1 /\ e.seen = seen1 /\ e.counted = counted1
  BY <1>9, <1>15
<1> HIDE DEF e
<1>17. CommitJournal(p) \in StoreType
  BY <1>11, <1>16 DEF StoreType, Sequences, Counters
<1> HIDE DEF Store
<1>18. QED
  BY <1>4, <1>5, <1>7, <1>11, <1>16, <1>17

\* A delivery, as far as the invariant can see: the record is committed or
\* not, counted and observed at most once more, and either acknowledged or
\* left to the next attempt.
Committed(p) ==
    /\ db'.cursor = p
    /\ db'.at = Later(db.at, At(p))
    /\ db'.counted = IF Counts(p) THEN [db.counted EXCEPT ![p] = @ + 1] ELSE db.counted

Observes(p) == Unprepared(p) /\ Prepared(p).counts

Delivered(p) ==
    /\ UNCHANGED env
    /\ observed' = IF Observes(p) THEN [observed EXCEPT ![p] = @ + 1] ELSE observed
    /\ reported' = reported /\ recorded' = recorded
    /\ \/ /\ Committed(p)
          /\ prepared'.cursor = 0
          /\ mem'.cursor = p /\ mem'.at = Later(mem.at, At(p)) /\ mem'.force = 0
          /\ child'.pc = "reading" /\ child'.next = p + 1 /\ child'.last = p
          /\ child'.since = child.since /\ child'.started = child.started
       \/ /\ Committed(p) \/ UNCHANGED db
          /\ prepared'.cursor = p
          /\ mem'.cursor = mem.cursor /\ mem'.at = mem.at /\ mem'.force = mem.force
          /\ child'.pc = "wait"

\* An attempt that ends because a write failed forgets nothing.
LEMMA PersistFacts ==
    ASSUME Ranges, EndAttempt("persist_failed", mem.recovery), Running
    PROVE  /\ mem' \in ReaderType /\ child' \in AttemptType /\ child' = Idle
           /\ mem'.cursor = mem.cursor /\ mem'.at = mem.at /\ mem'.force = mem.force
           /\ reported' = reported /\ status' = "retrying"
<1>1. mem \in ReaderType /\ mem.recovery \in BOOLEAN
  BY TypeParts, ReaderFields DEF Ranges
<1>2. mem' \in ReaderType /\ child' \in AttemptType /\ status' = "retrying"
  BY <1>1, EndFacts
<1>3. /\ mem' = [mem EXCEPT !.recovery = mem.recovery, !.cursor = mem.cursor,
                            !.force = mem.force]
      /\ child' = Idle
  BY DEF EndAttempt
<1>4. reported' = reported
  BY DEF EndAttempt
<1>5. /\ mem'.cursor = mem.cursor /\ mem'.at = mem.at /\ mem'.force = mem.force
  BY <1>1, <1>3 DEF ReaderType
<1>6. QED
  BY <1>2, <1>3, <1>4, <1>5

LEMMA PreparedFacts ==
    ASSUME Ranges, NEW p \in Records
    PROVE  /\ Prepared(p) \in [cursor : 0 .. Len(journal), counts : BOOLEAN]
           /\ Prepared(p).cursor = p
           /\ (Unprepared(p) => Prepared(p).counts = (Kind(p) = "login" /\ ~Seen(p)))
<1>1. prepared \in [cursor : 0 .. Len(journal), counts : BOOLEAN] /\ p \in 0 .. Len(journal)
  BY TypeParts, JournalFacts DEF Ranges, HandlerType, Records
<1>2. CASE Unprepared(p)
  <2> DEFINE counts == Kind(p) = "login" /\ ~Seen(p)
  <2>1. Prepared(p) = [cursor |-> p, counts |-> counts]
    BY <1>2 DEF Prepared
  <2>2. counts \in BOOLEAN
    BY DEF Seen
  <2> HIDE DEF counts
  <2>3. /\ Prepared(p) \in [cursor : 0 .. Len(journal), counts : BOOLEAN]
        /\ Prepared(p).cursor = p /\ Prepared(p).counts = counts
    BY <1>1, <2>1, <2>2
  <2>4. QED
    BY <2>3 DEF counts
<1>3. CASE ~Unprepared(p)
  BY <1>1, <1>3 DEF Prepared, Unprepared
<1>4. QED
  BY <1>2, <1>3

LEMMA DeliverRanges ==
    ASSUME Ranges, AtHand, NEW outcome \in Outcomes, Deliver(outcome)
    PROVE  Delivered(child.next) /\ Ranges' /\ AtHand'
<1>1. PICK p : p = child.next
  OBVIOUS
<1>2. /\ child.pc = "deliver" /\ Running /\ p \in Records /\ TypeInvariant
      /\ Writes(outcome) /\ UNCHANGED env /\ recorded' = recorded
      /\ db' = IF Durable(outcome) THEN CommitJournal(p) ELSE db
      /\ observed' = IF Observes(p) THEN [observed EXCEPT ![p] = @ + 1] ELSE observed
  BY <1>1 DEF Deliver, AtHand, Running, Ranges, Observes
<1>3. /\ journal' = journal /\ now' = now
      /\ p \in Positions /\ p \in 0 .. Len(journal) /\ p \in Nat /\ p >= 1 /\ p # 0
      /\ p + 1 \in 0 .. Len(journal) + 1 /\ At(p) \in Nat
  BY <1>2, SameEnv, JournalFacts, JournalAssumption DEF Records, Ranges, Positions
<1>4. /\ db' \in StoreType /\ Len(db'.seen) <= CacheSize
      /\ (Durable(outcome) => Committed(p))
      /\ (~Durable(outcome) => db' = db)
  <2>1. CASE Durable(outcome)
    <3>1. db' = CommitJournal(p)
      BY <1>2, <2>1
    <3>2. QED
      BY <1>2, <2>1, <3>1, CommitFacts DEF Committed
  <2>2. CASE ~Durable(outcome)
    BY <1>2, <2>2, TypeParts
  <2>3. QED BY <2>1, <2>2
<1>5. (db.cursor # 0 => Seen(db.cursor))'
  <2>1. CASE Durable(outcome)
    <3>1. db' = CommitJournal(p)
      BY <1>2, <2>1
    <3>2. db'.cursor = p /\ \E i \in 1 .. Len(db'.seen) : db'.seen[i] = p
      BY <1>2, <3>1, CommitFacts
    <3>3. QED
      BY <3>2 DEF Seen
  <2>2. CASE ~Durable(outcome)
    BY <1>4, <2>2 DEF Ranges, Seen
  <2>3. QED BY <2>1, <2>2
<1>6. observed' \in [Positions -> Nat]
  BY <1>2, <1>3, HandlerFields
<1>7. faults' \in Nat
  BY <1>2, SameRest DEF Writes, Fault
<1>8. recorded' \subseteq 1 .. Len(journal)
  BY <1>2, SameRest
<1>9. CASE outcome = "done"
  <2>1. Durable(outcome)
    BY <1>9 DEF Durable
  <2>2. /\ prepared' = [cursor |-> 0, counts |-> FALSE]
        /\ mem' = [cursor |-> p, at |-> Later(mem.at, At(p)), force |-> 0,
                   recovery |-> mem.recovery /\ ~Recovers(p)]
        /\ status' \in {status, "running"}
        /\ child' = [child EXCEPT !.pc = "reading", !.next = p + 1, !.last = p]
        /\ reported' = reported
    BY <1>1, <1>9 DEF Deliver
  <2>3. /\ mem' \in ReaderType
        /\ mem'.cursor = p /\ mem'.at = Later(mem.at, At(p)) /\ mem'.force = 0
    <3>1. PICK r : r = (mem.recovery /\ ~Recovers(p))
      OBVIOUS
    <3>2. PICK a : a = Later(mem.at, At(p))
      OBVIOUS
    <3>3. r \in BOOLEAN
      BY <3>1
    <3>4. a \in Nat
      BY <1>2, <1>3, <3>2, ReaderFields DEF Later
    <3>5. mem' = [cursor |-> p, at |-> a, force |-> 0, recovery |-> r]
      BY Zenon, <2>2, <3>1, <3>2
    <3>6. QED
      BY <1>3, <3>2, <3>3, <3>4, <3>5 DEF ReaderType
  <2>4. /\ child' \in AttemptType /\ child'.pc = "reading" /\ child'.next = p + 1
        /\ child'.last = p /\ child'.since = child.since /\ child'.started = child.started
        /\ child'.verify = child.verify /\ child'.live = child.live
        /\ child'.backfill = child.backfill
    <3> DEFINE a == [child EXCEPT !.pc = "reading"]
               b == [a EXCEPT !.next = p + 1]
    <3>1. child' = [b EXCEPT !.last = p]
      BY <2>2
    <3>2. /\ a \in AttemptType /\ a.pc = "reading" /\ a.since = child.since
          /\ a.started = child.started /\ a.verify = child.verify /\ a.live = child.live
          /\ a.backfill = child.backfill
      BY SameRest, WithPc
    <3> HIDE DEF a
    <3>3. /\ b \in AttemptType /\ b.pc = "reading" /\ b.since = child.since
          /\ b.started = child.started /\ b.verify = child.verify /\ b.live = child.live
          /\ b.backfill = child.backfill /\ b.next = p + 1
      BY <1>3, <3>2, WithNext
    <3> HIDE DEF b
    <3>4. QED
      BY <1>3, <3>1, <3>3 DEF AttemptType
  <2>5. Delivered(p)
    <3>1. prepared'.cursor = 0
      BY <2>2
    <3>2. QED
      BY <1>2, <1>4, <2>1, <2>2, <2>3, <2>4, <3>1 DEF Delivered
  <2>6. TypeInvariant'
    <3>1. HandlerType'
      <4>1. prepared' \in [cursor : 0 .. Len(journal'), counts : BOOLEAN]
        BY <1>2, <1>3, <2>2, JournalFacts
      <4>2. QED
        BY <1>6, <4>1 DEF HandlerType
    <3>2. RestType'
      BY <1>2, <1>3, <1>7, <1>8, <2>2, TypeParts DEF RestType
    <3>3. QED
      BY <1>2, <1>4, <2>3, <2>4, <3>1, <3>2, TypesAfter
  <2>7. Ranges'
    <3>1. /\ (now >= StartTime)' /\ (Len(journal) <= MaxRecords)'
      BY <1>3 DEF Ranges, StartTime
    <3>2. /\ (~child.live => child.backfill <= MaxBackfill)'
          /\ (Running => child.next >= 1)'
      BY <1>3, <2>4 DEF Ranges
    <3>3. ~child'.verify
      BY <1>2, <2>4 DEF AtHand
    <3>4. ((Running /\ child.last # 0) => child.last = mem.cursor)'
      BY <2>3, <2>4
    <3>5. QED
      BY <1>5, <2>6, <3>1, <3>2, <3>3, <3>4 DEF Ranges
  <2>8. AtHand'
    BY <2>4 DEF AtHand
  <2>9. QED
    BY <1>1, <2>5, <2>7, <2>8
<1>10. CASE outcome # "done"
  <2>1. prepared' = Prepared(p) /\ EndAttempt("persist_failed", mem.recovery)
    BY <1>1, <1>10 DEF Deliver
  <2>2. /\ mem' \in ReaderType /\ child' \in AttemptType /\ child' = Idle
        /\ mem'.cursor = mem.cursor /\ mem'.at = mem.at /\ mem'.force = mem.force
        /\ reported' = reported /\ status' = "retrying"
    BY <1>2, <2>1, PersistFacts
  <2>3. /\ prepared' \in [cursor : 0 .. Len(journal), counts : BOOLEAN]
        /\ prepared'.cursor = p
    BY <1>2, <2>1, PreparedFacts
  <2>4. child'.pc = "wait" /\ child'.live = FALSE /\ child'.backfill = 0 /\ child'.verify = FALSE
    BY <2>2 DEF Idle
  <2>5. Delivered(p)
    BY <1>2, <1>4, <2>2, <2>3, <2>4 DEF Delivered
  <2>6. TypeInvariant'
    <3>1. HandlerType'
      BY <1>3, <1>6, <2>3 DEF HandlerType
    <3>2. RestType'
      BY <1>2, <1>3, <1>7, <1>8, <2>2, TypeParts DEF RestType
    <3>3. QED
      BY <1>2, <1>4, <2>2, <3>1, <3>2, TypesAfter
  <2>7. Ranges'
    <3>1. /\ (now >= StartTime)' /\ (Len(journal) <= MaxRecords)'
      BY <1>3 DEF Ranges, StartTime
    <3>2. MaxBackfill >= 0
      BY JournalAssumption
    <3>3. QED
      BY <1>5, <2>4, <2>6, <3>1, <3>2 DEF Ranges, Running
  <2>8. AtHand'
    BY <2>4 DEF AtHand
  <2>9. QED
    BY <1>1, <2>5, <2>7, <2>8
<1>11. QED
  BY <1>9, <1>10

LEMMA DeliverForward ==
    ASSUME Ranges, AtHand, Forward, NEW p, p = child.next, child.pc = "deliver",
           Delivered(p), TypeInvariant'
    PROVE  Forward'
<1>0. TypeInvariant /\ Timed /\ Running
  BY DEF Forward, Ranges, Running
<1>1. /\ journal' = journal /\ gone' = gone /\ now' = now /\ Records' = Records
      /\ \A q : At(q)' = At(q) /\ Kind(q)' = Kind(q)
      /\ reported' = reported /\ recorded' = recorded
  BY SameEnv DEF Delivered
<1>2. /\ p \in Records /\ p >= Worked /\ At(p) >= child.since
  BY DEF AtHand, Forward, HandIsNew
<1>3. /\ mem.at \in Nat /\ mem.cursor \in Nat /\ mem.force \in Nat /\ now \in Nat
      /\ child.since \in Nat /\ child.started \in Nat
  BY <1>0, ReaderFields, RestFields, AttemptFields
<1>4. /\ db.cursor \in Nat /\ db.at \in Nat /\ prepared.cursor \in Nat
      /\ db.cursor \in 0 .. Len(journal)
  BY <1>0, StoreFields, HandlerFields
<1>5. \A q \in Records : q \in Nat /\ q >= 1 /\ At(q) \in Nat
  BY <1>0, JournalFacts DEF Records
<1>6. /\ p >= db.cursor /\ p >= prepared.cursor /\ p \in Nat /\ p >= 1
  BY <1>2, <1>4, <1>5 DEF Worked, Later
<1>7. Committed(p) \/ UNCHANGED db
  BY DEF Delivered
<1>8. db.at <= At(p)
  <2>1. CASE db.cursor = 0
    BY <1>0, <1>2, <1>5, <2>1 DEF Timed
  <2>2. CASE db.cursor # 0
    <3>1. db.cursor \in Records
      BY <1>4, <2>2 DEF Records
    <3>2. QED
      BY <1>0, <1>2, <1>6, <2>2, <3>1 DEF Timed
  <2>3. QED BY <2>1, <2>2
<1>9. \/ (db'.cursor = p /\ db'.at = At(p))
      \/ (db'.cursor = db.cursor /\ db'.at = db.at)
  <2>1. CASE Committed(p)
    BY <1>2, <1>4, <1>5, <1>8, <2>1 DEF Committed, Later
  <2>2. CASE UNCHANGED db
    BY <2>2
  <2>3. QED BY <1>7, <2>1, <2>2
<1>10. Worked' = p
  BY <1>4, <1>6, <1>9 DEF Delivered, Committed, Worked, Later
<1>11. mem.at <= db.at /\ mem.cursor <= db.cursor /\ mem.force <= now
       /\ mem.force <= child.started /\ child.started <= now
  BY <1>0 DEF Timed
<1>12. ~Seen(p) => p > db.cursor
  BY <1>4, <1>6 DEF Ranges
<1>13. Taken'
  <2>1. /\ \A q \in Positions : db'.counted[q] > 0 => q <= db'.cursor
        /\ \A q \in Positions : db'.counted[q] <= 1
    <3>0. /\ db.counted \in [Positions -> Nat]
          /\ \A q \in Positions : db.counted[q] > 0 => q <= db.cursor
          /\ \A q \in Positions : db.counted[q] <= 1
          /\ \A q \in Positions : q \in Nat
      BY <1>0, StoreFields, JournalAssumption DEF Forward, Taken, Positions
    <3>1. CASE UNCHANGED db
      BY <3>0, <3>1
    <3>2. CASE Committed(p) /\ ~Counts(p)
      <4>1. db'.counted = db.counted /\ db'.cursor = p
        BY <3>2 DEF Committed
      <4>2. QED
        BY <1>4, <1>6, <3>0, <4>1
    <3>3. CASE Committed(p) /\ Counts(p)
      <4>1. /\ db'.counted = [db.counted EXCEPT ![p] = db.counted[p] + 1] /\ db'.cursor = p
        BY <3>3 DEF Committed
      <4>2. p > db.cursor
        BY <1>12, <3>3 DEF Counts
      <4>3. ASSUME NEW q \in Positions
            PROVE  (db'.counted[q] > 0 => q <= p) /\ db'.counted[q] <= 1
        <5>1. CASE q = p
          <6>1. db.counted[q] = 0
            BY <1>4, <1>6, <3>0, <4>2, <5>1
          <6>2. QED
            BY <1>6, <3>0, <4>1, <5>1, <6>1
        <5>2. CASE q # p
          BY <1>4, <1>6, <3>0, <4>1, <5>2
        <5>3. QED BY <5>1, <5>2
      <4>4. QED
        BY <4>1, <4>3
    <3>4. QED
      BY <1>7, <3>1, <3>2, <3>3
  <2>2. /\ \A q \in Positions : observed'[q] > 0 => q <= p
        /\ \A q \in Positions : observed'[q] <= 1
    <3>0. /\ observed \in [Positions -> Nat] /\ Worked \in Nat
          /\ \A q \in Positions : observed[q] > 0 => q <= Worked
          /\ \A q \in Positions : observed[q] <= 1
          /\ \A q \in Positions : q \in Nat
      BY <1>0, <1>4, HandlerFields, JournalAssumption DEF Forward, Taken, Positions, Worked, Later
    <3>1. CASE ~Observes(p)
      <4>1. observed' = observed
        BY <3>1 DEF Delivered
      <4>2. QED
        BY <1>2, <1>6, <3>0, <4>1
    <3>2. CASE Observes(p)
      <4>1. observed' = [observed EXCEPT ![p] = observed[p] + 1]
        BY <3>2 DEF Delivered
      <4>2. ~Seen(p) /\ p # prepared.cursor
        BY <1>2, <3>2, PreparedFacts DEF Observes, Unprepared
      <4>3. p > Worked
        BY <1>4, <1>6, <1>12, <4>2 DEF Worked, Later
      <4>4. ASSUME NEW q \in Positions
            PROVE  (observed'[q] > 0 => q <= p) /\ observed'[q] <= 1
        <5>1. CASE q = p
          <6>1. observed[q] = 0
            BY <1>6, <3>0, <4>3, <5>1
          <6>2. QED
            BY <1>6, <3>0, <4>1, <5>1, <6>1
        <5>2. CASE q # p
          BY <1>2, <1>6, <3>0, <4>1, <5>2
        <5>3. QED BY <5>1, <5>2
      <4>5. QED
        BY <4>4
    <3>3. QED BY <3>1, <3>2
  <2>3. QED
    BY <1>10, <2>1, <2>2 DEF Taken
<1>14. /\ (\A q, r \in Records : q <= r => At(q) <= At(r))'
       /\ (\A q \in Records : 1 <= At(q) /\ At(q) <= now)'
       /\ (db.cursor = 0 => db.at = 0)'
       /\ (db.cursor # 0 => db.at = At(db.cursor))'
  <2>1. /\ (\A q, r \in Records : q <= r => At(q) <= At(r))'
        /\ (\A q \in Records : 1 <= At(q) /\ At(q) <= now)'
    BY <1>0, <1>1 DEF Timed
  <2>2. PICK d : d = db'.cursor
    OBVIOUS
  <2>3. At(d)' = At(d)
    BY <1>1
  <2>4. (d = 0 => db'.at = 0) /\ (d # 0 => db'.at = At(d))
    BY <1>0, <1>6, <1>9, <2>2 DEF Timed
  <2>5. At(db.cursor)' = At(d)'
    BY <2>2 DEF At
  <2>6. QED
    BY <2>1, <2>2, <2>3, <2>4, <2>5
<1>15. CASE child'.pc = "wait"
  <2>1. /\ mem'.cursor = mem.cursor /\ mem'.at = mem.at /\ mem'.force = mem.force
        /\ ~Running'
    BY <1>15 DEF Delivered, Running
  <2>2. Timed'
    <3>1. (mem.cursor # 0 => At(mem.cursor) <= mem.at)'
      BY <1>0, <1>1, <2>1 DEF Timed, At
    <3>2. (mem.at <= db.at)' /\ (mem.cursor <= db.cursor)' /\ (mem.force <= now)'
      BY <1>1, <1>2, <1>3, <1>4, <1>5, <1>6, <1>8, <1>9, <1>11, <2>1
    <3>3. QED
      BY <1>14, <2>1, <3>1, <3>2 DEF Timed
  <2>3. WorkIsBehind'
    <3>1. ASSUME NEW q \in Records, Kind(q) # "opaque", q < p PROVE Behind(q)'
      <4>1. Behind(q)
        BY <1>0, <3>1 DEF Forward, ReadIsBehind
      <4>2. QED
        BY <1>0, <1>1, <1>3, <2>1, <4>1, BehindStays
    <3>2. QED
      BY <1>1, <1>10, <3>1 DEF WorkIsBehind
  <2>4. ForgottenIsKnown'
    <3>1. ASSUME NEW q \in Records, q > db'.cursor, At(q) < mem.force PROVE Known(q)'
      <4>1. q > db.cursor
        BY <1>4, <1>5, <1>6, <1>9, <3>1
      <4>2. Known(q)
        BY <3>1, <4>1 DEF Forward, ForgottenIsKnown
      <4>3. QED
        BY <1>0, <1>1, <1>3, <4>2, KnownStays
    <3>2. (mem.cursor = 0 /\ mem.at # 0) => mem.at \in reported
      BY DEF Forward, ForgottenIsKnown
    <3>3. QED
      BY <1>1, <2>1, <3>1, <3>2 DEF ForgottenIsKnown
  <2>5. /\ ReadIsBehind' /\ SinceIsBehind' /\ WorkIsSkipped' /\ HandIsNew' /\ DroppedIsKnown'
    BY <1>15, <2>1 DEF ReadIsBehind, SinceIsBehind, WorkIsSkipped, HandIsNew, DroppedIsKnown
  <2>6. QED
    BY <1>13, <2>2, <2>3, <2>4, <2>5 DEF Forward
<1>16. CASE child'.pc = "reading"
  <2>1. /\ db'.cursor = p /\ db'.at = At(p)
        /\ mem'.cursor = p /\ mem'.at = Later(mem.at, At(p)) /\ mem'.force = 0
        /\ child'.next = p + 1 /\ child'.last = p
        /\ child'.since = child.since /\ child'.started = child.started /\ Running'
    BY <1>2, <1>4, <1>5, <1>8, <1>16 DEF Delivered, Committed, Later, Running
  <2>2. mem'.at = At(p) /\ At(p) \in Nat /\ At(p) <= now
    BY <1>0, <1>2, <1>3, <1>4, <1>5, <1>8, <1>11, <2>1 DEF Later, Timed
  <2>3. At(mem.cursor)' = At(p)
    BY <1>1, <2>1 DEF At
  <2>4. Timed'
    <3>1. /\ (mem.cursor # 0 => At(mem.cursor) <= mem.at)'
          /\ (mem.at <= db.at)' /\ (mem.cursor <= db.cursor)' /\ (mem.force <= now)'
      BY <1>1, <1>3, <1>6, <2>1, <2>2, <2>3
    <3>2. (mem.force <= child.started /\ child.started <= now)'
      BY <1>1, <1>3, <1>11, <2>1
    <3>3. QED
      BY <1>14, <3>1, <3>2 DEF Timed
  <2>5. ASSUME NEW q \in Records, q <= p PROVE Behind(q)'
    <3>1. At(q) <= At(p)
      BY <1>0, <1>2, <2>5 DEF Timed
    <3>2. QED
      BY <1>1, <2>1, <2>2, <2>5, <3>1 DEF Behind
  <2>6. WorkIsBehind' /\ ReadIsBehind'
    <3>1. \A q \in Records : (q < p \/ q < p + 1) => q <= p
      BY <1>5, <1>6
    <3>2. WorkIsBehind'
      BY <1>1, <1>10, <2>5, <3>1 DEF WorkIsBehind
    <3>3. ReadIsBehind'
      BY <1>1, <2>1, <2>5, <3>1 DEF ReadIsBehind
    <3>4. QED BY <3>2, <3>3
  <2>7. SinceIsBehind'
    <3>1. child.since <= At(p) + 1
      BY <1>2, <1>3, <2>2
    <3>2. QED
      BY <1>2, <2>1, <2>2, <2>3, <3>1 DEF SinceIsBehind
  <2>8. WorkIsSkipped'
    <3>1. \A q \in Records : q < p => q < p + 1
      BY <1>5, <1>6
    <3>2. QED
      BY <1>1, <1>10, <2>1, <3>1 DEF WorkIsSkipped
  <2>9. HandIsNew'
    BY <1>16 DEF HandIsNew
  <2>10. ForgottenIsKnown'
    <3>1. \A q \in Records : ~(At(q) < 0)
      BY <1>5
    <3>2. QED
      BY <1>1, <1>6, <2>1, <3>1 DEF ForgottenIsKnown
  <2>11. DroppedIsKnown'
    <3>1. \A q \in Records : ~(q > p /\ q < p + 1)
      BY <1>5, <1>6
    <3>2. ASSUME NEW q \in Records, q > p PROVE ~(At(q) < child.since)
      <4>1. At(p) <= At(q)
        BY <1>0, <1>2, <1>5, <1>6, <3>2 DEF Timed
      <4>2. QED
        BY <1>2, <1>3, <1>5, <4>1
    <3>3. child.since <= now + 1 /\ (child.since = now + 1 => now \in reported)
      BY <1>0 DEF Forward, DroppedIsKnown
    <3>4. QED
      BY <1>1, <2>1, <3>1, <3>2, <3>3 DEF DroppedIsKnown
  <2>12. QED
    BY <1>13, <2>4, <2>6, <2>7, <2>8, <2>9, <2>10, <2>11 DEF Forward
<1>17. QED
  BY <1>15, <1>16 DEF Delivered

\* A delivery passes over no record whose loss is not known.
LEMMA DeliverLoss ==
    ASSUME Replay, ~back, NEW outcome \in Outcomes, Deliver(outcome),
           NEW q \in db.cursor + 1 .. db'.cursor - 1
    PROVE  Known(q)
<1>0. Ranges /\ AtHand /\ Forward /\ TypeInvariant
  BY DEF Replay, Ranges
<1>1. child.pc = "deliver" /\ Running /\ Delivered(child.next) /\ TypeInvariant'
  BY <1>0, DeliverRanges DEF Deliver, Running, Ranges
<1>2. db'.cursor = child.next \/ db'.cursor = db.cursor
  BY <1>1 DEF Delivered, Committed
<1>3. db.cursor \in Nat /\ child.next \in Records /\ Len(journal) \in Nat /\ child.next \in Nat
  BY <1>0, <1>1, StoreFields, JournalFacts, AttemptFields DEF AtHand
<1>4. q > db.cursor /\ q < child.next
  BY <1>2, <1>3
<1>5. q \in Records
  BY <1>3, <1>4 DEF Records
<1>6. QED
  BY <1>0, <1>1, <1>4, <1>5 DEF Forward, DroppedIsKnown

LEMMA DeliverReplay ==
    ASSUME Replay, NEW outcome \in Outcomes, Deliver(outcome)
    PROVE  Replay'
<1>1. Delivered(child.next) /\ Ranges' /\ AtHand' /\ child.pc = "deliver"
  BY DeliverRanges DEF Replay, Deliver
<1>2. back' = back
  BY <1>1, SameEnv DEF Delivered
<1>3. ASSUME ~back' PROVE Forward'
  BY <1>1, <1>2, <1>3, DeliverForward DEF Replay, Ranges
<1>4. QED
  BY <1>1, <1>3 DEF Replay

(***************************************************************************)
(* A repeated line, a new process, and the theorems.                       *)
(***************************************************************************)
LEMMA RepeatReplay ==
    ASSUME Replay, Repeat
    PROVE  Replay'
<1>0. Ranges /\ TypeInvariant
  BY DEF Replay, Ranges
<1>1. /\ child.pc = "reading" /\ child.last # 0 /\ child.next = child.last + 1
      /\ child' = [child EXCEPT !.next = child.last] /\ faults' = faults + 1
      /\ UNCHANGED <<env, handler>> /\ UNCHANGED env /\ UNCHANGED db /\ UNCHANGED mem
      /\ status' = status /\ reported' = reported /\ recorded' = recorded /\ Running
  BY DEF Repeat, Fault, Running, ghosts
<1>2. /\ child.last \in Nat /\ child.last \in 0 .. Len(journal) + 1 /\ Len(journal) \in Nat
      /\ child.next \in Nat
  BY <1>0, AttemptFields, JournalFacts
<1>3. /\ child' \in AttemptType /\ child'.pc = "reading" /\ child'.next = child.last
      /\ child'.base = child.base /\ child'.since = child.since
      /\ child'.started = child.started /\ child'.last = child.last
      /\ child'.verify = child.verify /\ child'.live = child.live
      /\ child'.backfill = child.backfill
  BY <1>0, <1>1, <1>2, SameRest, WithNext
<1>4. faults' \in Nat /\ recorded' \subseteq 1 .. Len(journal) /\ mem' \in ReaderType
  BY <1>0, <1>1, SameRest
<1>5. TypeInvariant'
  BY <1>0, <1>1, <1>3, <1>4, SameStore, StaysTyped
<1>6. Kept /\ Stays
  <2>1. Kept
    BY <1>1 DEF Kept
  <2>2. Stays
    BY <1>0, <1>1, <1>3 DEF Stays, Ranges
  <2>3. QED BY <2>1, <2>2
<1>7. Ranges'
  <2>1. journal' = journal /\ now' = now
    BY <1>1, SameEnv
  <2>2. (db.cursor # 0 => Seen(db.cursor))'
    BY <1>0, <1>1 DEF Ranges, Seen
  <2>3. /\ (now >= StartTime)' /\ (Len(journal) <= MaxRecords)'
    BY <1>0, <2>1 DEF Ranges, StartTime
  <2>4. /\ (~child.live => child.backfill <= MaxBackfill)'
        /\ (child.verify => (child.base = child.last /\ child.last # 0))'
    BY <1>0, <1>3 DEF Ranges
  <2>5. (Running => child.next >= 1)'
    BY <1>1, <1>2, <1>3
  <2>6. ((Running /\ child.last # 0) => child.last = mem.cursor)'
    BY <1>0, <1>1, <1>3 DEF Ranges
  <2>7. QED
    BY <1>5, <2>2, <2>3, <2>4, <2>5, <2>6 DEF Ranges
<1>8. AtHand'
  BY <1>3 DEF AtHand
<1>9. ASSUME ~back' PROVE Forward'
  <2>0. Forward
    BY <1>1, <1>9, SameEnv DEF Replay
  <2>1. /\ journal' = journal /\ gone' = gone /\ Records' = Records
        /\ \A q : At(q)' = At(q) /\ Kind(q)' = Kind(q)
    BY <1>1, SameEnv
  <2>2. /\ Timed' /\ WorkIsBehind' /\ SinceIsBehind' /\ Taken' /\ ForgottenIsKnown'
        /\ (\A q \in Records : (q > db.cursor /\ At(q) < child.since) => Known(q))'
        /\ (child.since <= now + 1)'
        /\ (child.since = now + 1 => now \in reported)'
        /\ Worked' = Worked
        /\ \A q \in Records : Behind(q) => Behind(q)'
        /\ \A q \in Records : Known(q) => Known(q)'
    BY <1>0, <1>3, <1>5, <1>6, <2>0, StaysForward
  <2>3. \A q \in Records : q \in Nat
    BY <1>0, JournalFacts
  <2>4. \A q \in Records : /\ (q < child.last => q < child.next)
                           /\ (q < child.next => (q < child.last \/ q = child.last))
    BY <1>1, <1>2, <2>3
  <2>5. ReadIsBehind'
    BY <1>1, <1>3, <2>0, <2>1, <2>2, <2>4 DEF Forward, ReadIsBehind
  <2>6. WorkIsSkipped'
    BY <1>1, <1>3, <2>0, <2>1, <2>2, <2>4 DEF Forward, WorkIsSkipped
  <2>7. HandIsNew'
    BY <1>3 DEF HandIsNew
  <2>8. ASSUME NEW q \in Records, q > db.cursor, q < child.last PROVE Known(q)'
    BY <1>1, <2>0, <2>2, <2>4, <2>8 DEF Forward, DroppedIsKnown
  <2>9. DroppedIsKnown'
    BY <1>1, <1>3, <2>1, <2>2, <2>8 DEF DroppedIsKnown
  <2>10. QED
    BY <2>2, <2>5, <2>6, <2>7, <2>9 DEF Forward
<1>10. QED
  BY <1>7, <1>8, <1>9 DEF Replay

LEMMA RestartReplay ==
    ASSUME Replay, Restart
    PROVE  Replay'
<1>0. Ranges /\ TypeInvariant
  BY DEF Replay, Ranges
<1>1. /\ mem' = Resumed /\ child' = Idle /\ prepared' = [cursor |-> 0, counts |-> FALSE]
      /\ observed' = [q \in Positions |-> 0] /\ status' = "starting" /\ faults' = faults + 1
      /\ UNCHANGED env /\ UNCHANGED db /\ reported' = reported /\ recorded' = recorded
  BY DEF Restart, Fault, ghosts
<1>2. /\ journal' = journal /\ gone' = gone /\ now' = now /\ back' = back /\ Records' = Records
      /\ \A q : At(q)' = At(q) /\ Kind(q)' = Kind(q)
  BY <1>1, SameEnv
<1>3. /\ db.cursor \in 0 .. Len(journal) /\ db.cursor \in Nat /\ db.at \in Nat
      /\ db.pending \in BOOLEAN /\ Len(journal) \in Nat /\ MaxBackfill \in Nat /\ now \in Nat
  BY <1>0, StoreFields, JournalFacts, RestFields, JournalAssumption
<1>4. /\ mem' \in ReaderType /\ mem'.cursor = db.cursor /\ mem'.force = 0
      /\ mem'.at = IF db.cursor = 0 THEN 0 ELSE db.at
  <2>1. PICK a : a = IF db.cursor = 0 THEN 0 ELSE db.at
    OBVIOUS
  <2>2. mem' = [cursor |-> db.cursor, at |-> a, force |-> 0, recovery |-> db.pending]
    BY <1>1, <2>1 DEF Resumed
  <2>3. a \in Nat
    BY <1>3, <2>1
  <2>4. QED
    BY <1>3, <2>1, <2>2, <2>3 DEF ReaderType
<1>5. /\ child' \in AttemptType /\ child'.pc = "wait" /\ child'.live = FALSE
      /\ child'.backfill = 0 /\ child'.verify = FALSE
  BY <1>1, <1>3 DEF Idle, AttemptType
<1>6. TypeInvariant'
  <2>1. HandlerType'
    <3>1. prepared' \in [cursor : 0 .. Len(journal'), counts : BOOLEAN]
      BY <1>1, <1>2, <1>3
    <3>2. observed' \in [Positions -> Nat]
      BY <1>1
    <3>3. QED
      BY <3>1, <3>2 DEF HandlerType
  <2>2. RestType'
    BY <1>0, <1>1, <1>2, TypeParts DEF RestType
  <2>3. QED
    BY <1>0, <1>1, <1>4, <1>5, <2>1, <2>2, SameStore, TypesAfter
<1>7. Ranges'
  <2>1. (db.cursor # 0 => Seen(db.cursor))'
    BY <1>0, <1>1 DEF Ranges, Seen
  <2>2. /\ (now >= StartTime)' /\ (Len(journal) <= MaxRecords)'
    BY <1>0, <1>2 DEF Ranges, StartTime
  <2>3. QED
    BY <1>3, <1>5, <1>6, <2>1, <2>2 DEF Ranges, Running
<1>8. AtHand'
  BY <1>5 DEF AtHand
<1>9. ASSUME ~back' PROVE Forward'
  <2>0. Forward /\ Timed
    BY <1>2, <1>9 DEF Replay, Forward
  <2>1. ~Running'
    BY <1>5 DEF Running
  <2>2. Worked' = db.cursor
    BY <1>1, <1>3 DEF Worked, Later
  <2>3. mem'.at = db.at
    BY <1>4, <2>0 DEF Timed
  <2>4. At(db.cursor)' = At(db.cursor) /\ At(mem.cursor)' = At(db.cursor)
    BY <1>1, <1>2, <1>4 DEF At
  <2>5. Timed'
    <3>1. /\ (\A p, q \in Records : p <= q => At(p) <= At(q))'
          /\ (\A p \in Records : 1 <= At(p) /\ At(p) <= now)'
      BY <1>2, <2>0 DEF Timed
    <3>2. (db.cursor = 0 => db.at = 0)' /\ (db.cursor # 0 => db.at = At(db.cursor))'
      BY <1>1, <2>0, <2>4 DEF Timed
    <3>3. /\ (mem.at <= db.at)' /\ (mem.cursor <= db.cursor)' /\ (mem.force <= now)'
      BY <1>1, <1>2, <1>3, <1>4, <2>3
    <3>4. (mem.cursor # 0 => At(mem.cursor) <= mem.at)'
      BY <1>3, <1>4, <2>0, <2>3, <2>4 DEF Timed
    <3>5. QED
      BY <2>1, <3>1, <3>2, <3>3, <3>4 DEF Timed
  <2>6. WorkIsBehind'
    <3>1. ASSUME NEW q \in Records, q < db.cursor PROVE Behind(q)'
      <4>1. q \in Nat /\ q >= 1 /\ At(q) \in Nat
        BY <1>0, JournalFacts DEF Records
      <4>2. db.cursor \in Records /\ db.cursor # 0 /\ q <= db.cursor
        BY <1>3, <3>1, <4>1 DEF Records
      <4>3. At(q) <= db.at
        BY <2>0, <4>2 DEF Timed
      <4>4. QED
        BY <1>2, <1>4, <2>3, <4>2, <4>3 DEF Behind
    <3>2. QED
      BY <1>2, <2>2, <3>1 DEF WorkIsBehind
  <2>7. Taken'
    <3>1. observed' = [q \in Positions |-> 0] /\ db' = db
      BY <1>1
    <3>2. \A q \in Positions : observed'[q] = 0
      BY <3>1
    <3>3. QED
      BY <2>0, <3>1, <3>2 DEF Forward, Taken
  <2>8. ForgottenIsKnown'
    <3>1. \A q \in Records : ~(At(q) < 0)
      BY <1>0, JournalFacts
    <3>2. (mem'.cursor = 0) => mem'.at = 0
      BY <1>4
    <3>3. QED
      BY <1>2, <1>4, <3>1, <3>2 DEF ForgottenIsKnown
  <2>9. /\ ReadIsBehind' /\ SinceIsBehind' /\ WorkIsSkipped' /\ HandIsNew' /\ DroppedIsKnown'
    BY <1>5, <2>1 DEF ReadIsBehind, SinceIsBehind, WorkIsSkipped, HandIsNew, DroppedIsKnown
  <2>10. QED
    BY <2>5, <2>6, <2>7, <2>8, <2>9 DEF Forward
<1>10. QED
  BY <1>7, <1>8, <1>9 DEF Replay

\* The first process finds an empty journal and an empty store.
LEMMA ReplayInit == Init => Replay
<1> SUFFICES ASSUME Init PROVE Replay
  OBVIOUS
<1>1. /\ journal = <<>> /\ gone = {} /\ now = StartTime /\ back = FALSE
      /\ db = [cursor |-> 0, at |-> 0, pending |-> FALSE, seen |-> <<>>,
               counted |-> [p \in Positions |-> 0]]
      /\ mem = Resumed /\ child = Idle
      /\ prepared = [cursor |-> 0, counts |-> FALSE]
      /\ observed = [p \in Positions |-> 0]
      /\ status = "starting" /\ reported = {} /\ recorded = {} /\ faults = 0
  BY DEF Init
<1>2. /\ Window \in Nat /\ MaxBackfill \in Nat /\ CacheSize \in Nat /\ MaxRecords \in Nat
      /\ StartTime \in Nat
  BY JournalAssumption DEF StartTime
<1>3. Len(journal) = 0 /\ Records = {}
  BY <1>1 DEF Records
<1>4. /\ mem.cursor = 0 /\ mem.at = 0 /\ mem.force = 0
      /\ mem = [cursor |-> 0, at |-> 0, force |-> 0, recovery |-> FALSE]
  BY <1>1 DEF Resumed
<1>5. TypeInvariant
  <2> DEFINE Record == [at : Nat, kind : Kinds]
             Sequences == Seq(Positions)
             Counters == [Positions -> Nat]
             zero == [p \in Positions |-> 0]
  <2>1. <<>> \in Seq(Record) /\ <<>> \in Sequences /\ zero \in Counters /\ Len(<<>>) = 0
    OBVIOUS
  <2>2. EnvType
    BY <1>1, <1>2, <1>3, <2>1 DEF EnvType
  <2>3. db \in StoreType /\ Len(db.seen) <= CacheSize
    <3>0. db = [cursor |-> 0, at |-> 0, pending |-> FALSE, seen |-> <<>>, counted |-> zero]
      BY <1>1
    <3> HIDE DEF Sequences, Counters, zero
    <3>1. db \in [cursor : 0 .. Len(journal), at : Nat, pending : BOOLEAN,
                  seen : Sequences, counted : Counters]
      BY <1>3, <2>1, <3>0
    <3>2. Len(db.seen) <= CacheSize
      BY <1>2, <2>1, <3>0
    <3>3. QED
      BY <3>1, <3>2 DEF StoreType, Sequences, Counters
  <2>4. mem \in ReaderType
    BY <1>3, <1>4 DEF ReaderType
  <2>5. child \in AttemptType
    BY <1>1, <1>2, <1>3 DEF Idle, AttemptType
  <2>6. HandlerType /\ RestType
    BY <1>1, <1>3, <2>1 DEF HandlerType, RestType
  <2>7. QED
    BY <2>2, <2>3, <2>4, <2>5, <2>6, TypeParts
<1>6. db.cursor = 0 /\ db.at = 0
  BY <1>1
<1>7. /\ child.pc = "wait" /\ child.live = FALSE /\ child.backfill = 0 /\ child.verify = FALSE
      /\ ~Running
  BY <1>1 DEF Idle, Running
<1>8. Ranges
  BY <1>1, <1>2, <1>3, <1>5, <1>6, <1>7 DEF Ranges
<1>9. AtHand
  BY <1>7 DEF AtHand
<1>10. Timed
  BY <1>1, <1>2, <1>3, <1>4, <1>6, <1>7 DEF Timed
<1>11. Taken
  <2>1. \A p \in Positions : db.counted[p] = 0 /\ observed[p] = 0
    BY <1>1
  <2>2. QED
    BY <2>1 DEF Taken
<1>12. WorkIsBehind /\ ForgottenIsKnown
  BY <1>3, <1>4 DEF WorkIsBehind, ForgottenIsKnown
<1>13. /\ ReadIsBehind /\ SinceIsBehind /\ WorkIsSkipped /\ HandIsNew /\ DroppedIsKnown
  BY <1>7 DEF ReadIsBehind, SinceIsBehind, WorkIsSkipped, HandIsNew, DroppedIsKnown
<1>14. QED
  BY <1>8, <1>9, <1>10, <1>11, <1>12, <1>13 DEF Replay, Forward

\* A step that changes nothing.
LEMMA StutterReplay ==
    ASSUME Replay, UNCHANGED vars
    PROVE  Replay'
<1>1. /\ UNCHANGED <<db, mem, child, handler, status, ghosts>> /\ UNCHANGED faults
      /\ UNCHANGED env
  BY DEF vars
<1>2. Ranges /\ TypeInvariant
  BY DEF Replay, Ranges
<1>3. EnvType'
  <2>1. EnvType /\ journal' = journal /\ gone' = gone /\ now' = now /\ back' = back
    BY <1>1, <1>2, TypeParts DEF env
  <2>2. QED
    BY Zenon, <2>1 DEF EnvType
<1>4. /\ journal' = journal /\ gone' = gone /\ now' = now /\ back' = back /\ Records' = Records
      /\ \A q : At(q)' = At(q) /\ Kind(q)' = Kind(q)
  BY <1>1, SameEnv
<1>5. Len(journal) \in Nat /\ faults' \in Nat /\ now \in Nat /\ now >= StartTime
      /\ Len(journal) <= MaxRecords
  BY <1>1, <1>2, JournalFacts, SameRest, RestFields DEF Ranges
<1>6. Environment
  BY <1>1, <1>3, <1>4, <1>5 DEF Environment
<1>7. QED
  BY <1>6, EnvironmentReplay

\* Every step preserves the invariant.
LEMMA ReplayStep == Replay /\ [Next]_vars => Replay'
<1> SUFFICES ASSUME Replay, [Next]_vars PROVE Replay'
  OBVIOUS
<1>0. Ranges
  BY DEF Replay
<1>1. CASE \/ \E kind \in Kinds : Receive(kind)
           \/ \E p \in 1 .. Len(journal) : Vacuum(p)
           \/ Tick
           \/ \E t \in StartTime .. now - 1 : SetBack(t)
  BY <1>0, <1>1, EnvironmentSteps, EnvironmentReplay
<1>2. CASE Launch(TRUE)
  BY <1>2, LaunchReplay
<1>3. CASE Launch(FALSE)
  BY <1>0, <1>3, LaunchFails, StepsReplay
<1>4. CASE Verify
  BY <1>0, <1>4, VerifySteps, StepsReplay
<1>5. CASE TooOld
  BY <1>0, <1>5, TooOldSteps, StepsReplay
<1>6. CASE TooMany \/ LookupFails \/ ChildExits
  BY <1>0, <1>6, PlainEndSteps, StepsReplay
<1>7. ASSUME NEW outcome \in Outcomes, ReadOpaque(outcome) PROVE Replay'
  BY <1>0, <1>7, OpaqueSteps, StepsReplay
<1>8. ASSUME NEW outcome \in Outcomes, Accept(outcome) PROVE Replay'
  BY <1>0, <1>8, AcceptSteps, StepsReplay
<1>9. ASSUME NEW outcome \in Outcomes, Deliver(outcome) PROVE Replay'
  BY <1>9, DeliverReplay
<1>10. CASE Repeat
  BY <1>10, RepeatReplay
<1>11. CASE Restart
  BY <1>11, RestartReplay
<1>12. CASE UNCHANGED vars
  BY <1>12, StutterReplay
<1>13. QED
  BY <1>1, <1>2, <1>3, <1>4, <1>5, <1>6, <1>7, <1>8, <1>9, <1>10, <1>11, <1>12 DEF Next

\* The invariant gives what the runs check.
LEMMA ReplayGivesOnce == Replay => EachEntryOnce
BY DEF Replay, Ranges, Forward, Taken, EachEntryOnce, CountedOnce, ObservedOnce

\* In every behaviour of the journal reader every variable keeps its type,
\* and while the clock is not set back no record is counted, or seen by the
\* detector of a process, more than once: replay begins behind everything
\* that was worked on (store/journal.go:84, collector/journal_reliable.go:180,
\* daemon/health.go:61).
THEOREM EntriesAreTakenOnce == Spec => []EachEntryOnce
<1>1. QED
  BY ReplayInit, ReplayStep, ReplayGivesOnce, PTL DEF Spec

\* The checkpoint moves only when a record is committed.
LEMMA CheckpointMoves ==
    ASSUME Replay, [Next]_vars, db'.cursor # db.cursor
    PROVE  \E outcome \in Outcomes : Deliver(outcome)
<1>0. Ranges
  BY DEF Replay
<1>1. ASSUME Steps PROVE FALSE
  BY <1>1 DEF Steps, Kept
<1>2. ~(Verify \/ TooOld \/ TooMany \/ LookupFails \/ ChildExits)
  BY <1>0, <1>1, VerifySteps, TooOldSteps, PlainEndSteps
<1>3. \A outcome \in Outcomes : ~ReadOpaque(outcome) /\ ~Accept(outcome)
  BY <1>0, <1>1, OpaqueSteps, AcceptSteps
<1>4. ~UNCHANGED db
  OBVIOUS
<1>5. ~Launch(TRUE) /\ ~Launch(FALSE) /\ ~Repeat /\ ~Restart /\ ~UNCHANGED vars
  BY <1>4 DEF Launch, Repeat, Restart, vars
<1>6. /\ ~\E kind \in Kinds : Receive(kind)
      /\ ~\E p \in 1 .. Len(journal) : Vacuum(p)
      /\ ~Tick
      /\ ~\E t \in StartTime .. now - 1 : SetBack(t)
  BY <1>4 DEF Receive, Vacuum, Tick, SetBack
<1>7. QED
  BY <1>2, <1>3, <1>5, <1>6 DEF Next

\* In every behaviour of the journal reader, until the clock is set back, the
\* checkpoint passes over a record only if it is gone, its degradation is
\* durable, a published gap covers it, or it is older than the backfill
\* window (collector/journal_reliable.go:30 and 172).
THEOREM LossesAreKnown == Spec => LossIsKnown
<1> DEFINE Passed == ~back => \A p \in db.cursor + 1 .. db'.cursor - 1 :
                         \/ p \in gone \cup recorded
                         \/ At(p) \in reported
                         \/ now - At(p) > Window
<1>1. Replay /\ [Next]_vars => [Passed]_vars
  <2> SUFFICES ASSUME Replay, [Next]_vars, ~back, NEW p \in db.cursor + 1 .. db'.cursor - 1
               PROVE  Known(p)
    BY DEF Known
  <2>1. db.cursor \in Nat
    BY StoreFields DEF Replay, Ranges
  <2>2. db'.cursor # db.cursor
    BY <2>1
  <2>3. PICK outcome \in Outcomes : Deliver(outcome)
    BY <2>2, CheckpointMoves
  <2>4. QED
    BY <2>3, DeliverLoss
<1>2. QED
  BY <1>1, ReplayInit, ReplayStep, PTL DEF Spec, LossIsKnown


=============================================================================
