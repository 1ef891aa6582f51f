--------------------------- MODULE JournalCursor ---------------------------
(***************************************************************************)
(* How the daemon follows the SSH authentication journal: the loop that    *)
(* restarts journalctl at the acknowledged cursor or, when that is gone,   *)
(* at a bounded time (internal/collector/journal_reliable.go), the handler *)
(* that runs the detector and commits each entry (internal/daemon/         *)
(* health.go), and the transactions that keep the checkpoint, the cache of *)
(* committed cursors and the pending-recovery marker                       *)
(* (internal/store/journal.go, coverage.go).                               *)
(*                                                                         *)
(* A journal record is known by its position, and its cursor is that       *)
(* position; 0 stands for "no cursor" and for the zero time.  The reader   *)
(* waits for the acknowledgement of every entry, so delivering an entry,   *)
(* handling it and taking the answer are one action; a crash in between    *)
(* leaves what a crash before or after it leaves.                          *)
(***************************************************************************)
EXTENDS Integers, Sequences, FiniteSets

CONSTANTS
    Kinds,          \* kinds of records the journal may receive
    Window,         \* BackfillWindow, 15 minutes
    MaxBackfill,    \* records read before the first live one, 10000
    CacheSize       \* rows of journal_seen kept, 10000

CONSTANTS
    MaxRecords,     \* bound: records the journal receives
    MaxTime,        \* bound: the clock
    MaxFaults       \* bound: crashes, exits, failed writes, lost records

VARIABLES
    journal,        \* records [at, kind], in the order of their cursors
    gone,           \* positions that are no longer in the journal
    now,            \* wall clock of the host
    back,           \* the clock was set back
    db,             \* [cursor, at, pending, seen, counted], the store
    mem,            \* [cursor, at, force, recovery], variables of RunReliable
    child,          \* the current attempt of runReliableAttempt
    prepared,       \* [cursor, counts], pendingJournal
    observed,       \* times the detector of this process saw each record
    status,         \* state of the last published JournalStatus
    reported,       \* times that published gaps cover
    recorded,       \* records whose degradation is durable
    faults

env     == <<journal, gone, now, back>>
handler == <<prepared, observed>>
ghosts  == <<reported, recorded>>
vars    == <<env, db, mem, child, handler, status, ghosts, faults>>

(***************************************************************************)
(* "login" is a trusted entry with an observation, "noise" a trusted one   *)
(* without ("unrecognized_message"), "bad" an entry with a cursor but      *)
(* unusable contents, "opaque" a line without a usable cursor or too long. *)
(***************************************************************************)
ASSUME JournalAssumption ==
    /\ Kinds \subseteq {"login", "noise", "bad", "opaque"}
    /\ Window \in Nat \ {0}
    /\ MaxBackfill \in Nat
    /\ CacheSize \in Nat \ {0}
    /\ {MaxRecords, MaxTime, MaxFaults} \subseteq Nat

Positions == 1 .. MaxRecords
StartTime == Window + 1
At(p)      == journal[p].at
Kind(p)    == journal[p].kind
Trusted(p) == Kind(p) \in {"login", "noise"}
Later(a, b) == IF a > b THEN a ELSE b

Fault == faults < MaxFaults /\ faults' = faults + 1
\* A write is done, or fails, or fails after it became durable.
Writes(outcome) ==
    \/ outcome = "done" /\ UNCHANGED faults
    \/ outcome \in {"failed", "unsure"} /\ Fault
Durable(outcome) == outcome \in {"done", "unsure"}

(***************************************************************************)
(* The journal and the clock.                                              *)
(***************************************************************************)
Receive(kind) ==
    /\ Len(journal) < MaxRecords
    /\ journal' = Append(journal, [at |-> now, kind |-> kind])
    /\ UNCHANGED <<gone, now, back, db, mem, child, handler, status, ghosts, faults>>

Vacuum(p) ==
    /\ Fault
    /\ p \notin gone
    /\ gone' = gone \cup {p}
    /\ UNCHANGED <<journal, now, back, db, mem, child, handler, status, ghosts>>

Tick ==
    /\ now < MaxTime
    /\ now' = now + 1
    /\ UNCHANGED <<journal, gone, back, db, mem, child, handler, status, ghosts, faults>>

SetBack(t) ==
    /\ Fault
    /\ now' = t
    /\ back' = TRUE
    /\ UNCHANGED <<journal, gone, db, mem, child, handler, status, ghosts>>

(***************************************************************************)
(* Attempts.  journalctl starts at the cursor, or at what it finds instead *)
(* of it, or at the first record not older than --since, and then prints   *)
(* every record that follows.                                              *)
(***************************************************************************)
NextKept(from) ==
    LET kept == {p \in from .. Len(journal) : p \notin gone}
    IN  IF kept = {} THEN Len(journal) + 1
        ELSE CHOOSE p \in kept : \A q \in kept : p <= q

Seek(cursor, since) ==
    IF cursor # 0 THEN cursor
    ELSE LET recent == {p \in 1 .. Len(journal) : At(p) >= since /\ p \notin gone}
         IN  IF recent = {} THEN Len(journal) + 1
             ELSE CHOOSE p \in recent : \A q \in recent : p <= q

Idle == [pc |-> "wait", base |-> 0, since |-> 0, started |-> 0, next |-> 0,
         backfill |-> 0, verify |-> FALSE, live |-> FALSE, last |-> 0]

\* A published gap begins at the acknowledged time; without one, anywhere.
Gap(since) == since .. now

\* Mutant: the acknowledged time itself is read again.
NotAcknowledgedIncl(at) == at

\* Records at the acknowledged time may have been acknowledged or not.
NotAcknowledged(at) == at + 1

Since(cursor) ==
    Later(now - Window,
          Later(mem.force, IF cursor = 0 /\ mem.at # 0 THEN NotAcknowledged(mem.at) ELSE 0))

Outdated == mem.cursor # 0 /\ mem.at # 0 /\ mem.at < now - Window
FirstCursor == IF Outdated THEN 0 ELSE mem.cursor
NoHistory == FirstCursor = 0 /\ mem.at = 0 /\ mem.force = 0

Launch(starts) ==
    /\ child.pc = "wait"
    /\ reported' = reported \cup (IF Outdated THEN Gap(mem.at) ELSE {})
                            \cup (IF NoHistory THEN Gap(now - Window) ELSE {})
    /\ mem' = [mem EXCEPT !.cursor = FirstCursor]
    /\ \/ /\ starts
          /\ child' = [pc |-> "reading", base |-> FirstCursor,
                       since |-> Since(FirstCursor), started |-> now,
                       next |-> Seek(FirstCursor, Since(FirstCursor)), backfill |-> 0,
                       verify |-> FirstCursor # 0, live |-> FALSE, last |-> FirstCursor]
          /\ status' = IF mem.recovery THEN "retrying" ELSE "running"
          /\ UNCHANGED faults
       \/ /\ ~starts
          /\ Fault
          /\ status' = "retrying"
          /\ UNCHANGED child
    /\ UNCHANGED <<env, db, handler, recorded>>

\* The end of an attempt: what is known to be lost is reported, and the
\* next attempt starts where nothing is read again without bound.
EndAttempt(reason, recovery) ==
    /\ mem' = [mem EXCEPT
                  !.recovery = recovery,
                  !.cursor = IF reason \in {"cursor_unavailable", "backfill_time_limit",
                                            "backfill_count_limit"} THEN 0 ELSE @,
                  !.force = IF reason = "backfill_count_limit" THEN child.started ELSE @]
    /\ reported' = reported \cup
           (IF reason \in {"process_exited", "persist_failed"} THEN {} ELSE Gap(mem.at))
    /\ status' = "retrying"
    /\ child' = Idle

\* The line that is read next, and how much of the backlog it makes.
Line == NextKept(child.next)
Reading == child.pc = "reading" /\ Line <= Len(journal)
Backlog == child.backfill + (IF child.live THEN 0 ELSE 1)
Over(live) == ~live /\ Backlog > MaxBackfill
NowLive == child.live \/ At(Line) >= child.started

\* OnDegradation: the marker and the gap commit together.
Degraded(outcome) ==
    /\ Writes(outcome)
    /\ db' = IF Durable(outcome) THEN [db EXCEPT !.pending = TRUE] ELSE db
    /\ recorded' = IF Durable(outcome) THEN recorded \cup {Line} ELSE recorded

\* Mutant: the attempt ends at the record, to be met again by the next one.
PoisonRecord(child1) == EndAttempt("process_exited", TRUE)

\* What follows an entry of bad quality once that has been recorded.
AfterDegraded(child1) ==
    /\ child' = child1
    /\ mem' = [mem EXCEPT !.recovery = TRUE]
    /\ status' = "degraded"
    /\ UNCHANGED reported

\* What follows a line without a cursor once its loss has been recorded.
AfterOpaque ==
    \/ /\ Over(child.live)
       /\ EndAttempt("backfill_count_limit", TRUE)
    \/ /\ ~Over(child.live)
       /\ child' = [child EXCEPT !.next = Line + 1, !.backfill = Backlog]
       /\ mem' = [mem EXCEPT !.recovery = TRUE]
       /\ status' = "gap"
       /\ UNCHANGED reported

\* Mutant: reading goes on although the loss was not recorded.
UnrecordedIgnored == AfterOpaque

Unrecorded == EndAttempt("persist_failed", TRUE)

ReadOpaque(outcome) ==
    /\ Reading
    /\ Kind(Line) = "opaque"
    /\ Degraded(outcome)
    /\ IF outcome = "done" THEN AfterOpaque ELSE Unrecorded
    /\ UNCHANGED <<env, handler>>

Decoded == Reading /\ Kind(Line) # "opaque"

Verify ==
    /\ Decoded
    /\ child.verify
    /\ \/ /\ Line = child.base
          /\ child' = [child EXCEPT !.verify = FALSE, !.next = Line + 1]
          /\ UNCHANGED <<mem, status, reported>>
       \/ /\ Line # child.base
          /\ EndAttempt("cursor_unavailable", mem.recovery)
    /\ UNCHANGED <<env, db, handler, recorded, faults>>

\* An entry older than the replay may begin.
TooOld ==
    /\ Decoded
    /\ ~child.verify
    /\ At(Line) < child.since
    /\ \/ /\ child.base # 0
          /\ EndAttempt("backfill_time_limit", mem.recovery)
       \/ /\ child.base = 0 /\ Over(NowLive)
          /\ EndAttempt("backfill_count_limit", mem.recovery)
       \/ /\ child.base = 0 /\ ~Over(NowLive)
          /\ child' = [child EXCEPT !.next = Line + 1, !.backfill = Backlog, !.live = NowLive]
          /\ UNCHANGED <<mem, status, reported>>
    /\ UNCHANGED <<env, db, handler, recorded, faults>>

Recent == Decoded /\ ~child.verify /\ At(Line) >= child.since

TooMany ==
    /\ Recent
    /\ Over(NowLive)
    /\ EndAttempt("backfill_count_limit", mem.recovery)
    /\ UNCHANGED <<env, db, handler, recorded, faults>>

\* The entry is accepted; lost quality is recorded before it is delivered.
Accept(outcome) ==
    /\ Recent
    /\ ~Over(NowLive)
    /\ LET accepted == [child EXCEPT !.backfill = Backlog, !.live = NowLive,
                            !.next = IF Line = child.last THEN Line + 1 ELSE Line,
                            !.pc = IF Line = child.last THEN "reading" ELSE "deliver"]
       IN  \/ /\ Trusted(Line)
              /\ outcome = "done"
              /\ child' = accepted
              /\ UNCHANGED <<db, mem, status, ghosts, faults>>
           \/ /\ ~Trusted(Line)
              /\ Degraded(outcome)
              /\ IF outcome = "done" THEN AfterDegraded(accepted) ELSE Unrecorded
    /\ UNCHANGED <<env, handler>>

(***************************************************************************)
(* Delivery: handleJournal, CommitJournal and the acknowledgement.         *)
(***************************************************************************)
Seen(p) == \E i \in 1 .. Len(db.seen) : db.seen[i] = p

\* The oldest rows beyond the bound are deleted.
Trimmed(seen) ==
    IF Len(seen) > CacheSize THEN SubSeq(seen, Len(seen) - CacheSize + 1, Len(seen)) ELSE seen

\* A result that was prepared for the same cursor is used again.
Unprepared(p) == prepared.cursor # p
Prepared(p) ==
    IF Unprepared(p) THEN [cursor |-> p, counts |-> Kind(p) = "login" /\ ~Seen(p)]
    ELSE prepared

\* What the prepared result adds to the aggregates.
Aggregates(p) ==
    IF ~Seen(p) /\ Prepared(p).counts THEN [db.counted EXCEPT ![p] = @ + 1] ELSE db.counted

CommitJournal(p) ==
    [db EXCEPT !.cursor  = p,
               !.at      = Later(@, At(p)),
               !.seen    = IF Seen(p) THEN @ ELSE Trimmed(Append(@, p)),
               !.pending = @ /\ ~(~Seen(p) /\ Trusted(p)),
               !.counted = Aggregates(p)]

\* Mutant: a trusted entry that was committed before ends it as well.
RecoversAgain(p) == Trusted(p)

\* Only a new trusted entry ends the recovery.
Recovers(p) == ~Seen(p) /\ Trusted(p)

Deliver(outcome) ==
    LET p == child.next IN
    /\ child.pc = "deliver"
    /\ Writes(outcome)
    /\ db' = IF Durable(outcome) THEN CommitJournal(p) ELSE db
    /\ observed' = IF Unprepared(p) /\ Prepared(p).counts
                   THEN [observed EXCEPT ![p] = @ + 1] ELSE observed
    /\ \/ /\ outcome = "done"
          /\ prepared' = [cursor |-> 0, counts |-> FALSE]
          /\ mem' = [cursor |-> p, at |-> Later(mem.at, At(p)), force |-> 0,
                     recovery |-> mem.recovery /\ ~Recovers(p)]
          /\ status' = IF mem.recovery /\ Recovers(p) THEN "running" ELSE status
          /\ child' = [child EXCEPT !.pc = "reading", !.next = p + 1, !.last = p]
          /\ UNCHANGED reported
       \/ /\ outcome # "done"
          /\ prepared' = Prepared(p)
          /\ EndAttempt("persist_failed", mem.recovery)
    /\ UNCHANGED <<env, recorded>>

\* JournalSeen fails: nothing is prepared, nothing written.
LookupFails ==
    /\ child.pc = "deliver"
    /\ Unprepared(child.next)
    /\ Fault
    /\ EndAttempt("persist_failed", mem.recovery)
    /\ UNCHANGED <<env, db, handler, recorded>>

(***************************************************************************)
(* journalctl exits or repeats its last line; the daemon is restarted.     *)
(***************************************************************************)
ChildExits ==
    /\ child.pc = "reading"
    /\ \/ Fault /\ EndAttempt("process_exited", mem.recovery)
       \/ /\ child.base \in gone
          /\ EndAttempt("cursor_unavailable", mem.recovery)
          /\ UNCHANGED faults
    /\ UNCHANGED <<env, db, handler, recorded>>

Repeat ==
    /\ child.pc = "reading"
    /\ child.last # 0
    /\ child.next = child.last + 1
    /\ Fault
    /\ child' = [child EXCEPT !.next = child.last]
    /\ UNCHANGED <<env, db, mem, handler, status, ghosts>>

\* JournalCheckpoint is all a new process knows.
Resumed == [cursor |-> db.cursor, at |-> IF db.cursor = 0 THEN 0 ELSE db.at,
            force |-> 0, recovery |-> db.pending]

Restart ==
    /\ Fault
    /\ mem' = Resumed
    /\ child' = Idle
    /\ prepared' = [cursor |-> 0, counts |-> FALSE]
    /\ observed' = [p \in Positions |-> 0]
    /\ status' = "starting"
    /\ UNCHANGED <<env, db, ghosts>>

Init ==
    /\ journal = <<>>
    /\ gone = {}
    /\ now = StartTime
    /\ back = FALSE
    /\ db = [cursor |-> 0, at |-> 0, pending |-> FALSE, seen |-> <<>>,
             counted |-> [p \in Positions |-> 0]]
    /\ mem = Resumed
    /\ child = Idle
    /\ prepared = [cursor |-> 0, counts |-> FALSE]
    /\ observed = [p \in Positions |-> 0]
    /\ status = "starting"
    /\ reported = {}
    /\ recorded = {}
    /\ faults = 0

Outcomes == {"done", "failed", "unsure"}

Reader ==
    \/ Launch(TRUE)
    \/ Verify \/ TooOld \/ TooMany
    \/ ReadOpaque("done") \/ Accept("done") \/ Deliver("done")

Next ==
    \/ \E kind \in Kinds : Receive(kind)
    \/ \E p \in 1 .. Len(journal) : Vacuum(p)
    \/ Tick
    \/ \E t \in StartTime .. now - 1 : SetBack(t)
    \/ Launch(TRUE) \/ Launch(FALSE)
    \/ Verify \/ TooOld \/ TooMany
    \/ \E outcome \in Outcomes : ReadOpaque(outcome) \/ Accept(outcome) \/ Deliver(outcome)
    \/ LookupFails \/ ChildExits \/ Repeat \/ Restart

Spec == Init /\ [][Next]_vars /\ WF_vars(Reader)

(***************************************************************************)
(* Properties.                                                             *)
(***************************************************************************)
\* Every variable keeps its type, and journal_seen its bound
\* (store/journal.go:138).
TypeInvariant ==
    /\ journal \in Seq([at : Nat, kind : Kinds])
    /\ gone \subseteq 1 .. Len(journal)
    /\ now \in Nat
    /\ back \in BOOLEAN
    /\ db \in [cursor : 0 .. Len(journal), at : Nat, pending : BOOLEAN,
              seen : Seq(Positions), counted : [Positions -> Nat]]
    /\ Len(db.seen) <= CacheSize
    /\ mem \in [cursor : 0 .. Len(journal), at : Nat, force : Nat, recovery : BOOLEAN]
    /\ child \in [pc : {"wait", "reading", "deliver"}, base : 0 .. Len(journal),
                 since : Nat, started : Nat, next : 0 .. Len(journal) + 1,
                 backfill : 0 .. MaxBackfill + 1, verify : BOOLEAN, live : BOOLEAN,
                 last : 0 .. Len(journal)]
    /\ prepared \in [cursor : 0 .. Len(journal), counts : BOOLEAN]
    /\ observed \in [Positions -> Nat]
    /\ status \in {"starting", "running", "retrying", "gap", "degraded"}
    /\ reported \subseteq Nat
    /\ recorded \subseteq 1 .. Len(journal)
    /\ faults \in Nat

\* Unless the clock is set back, no record is added to the stored aggregates, with its event and its
\* notification, more than once, although entries are replayed after failed
\* or doubtful commits, lost cursors and restarts, and the cache of committed
\* cursors is bounded (store/journal.go:84, collector/journal_reliable.go:180).
CountedOnce == ~back => \A p \in Positions : db.counted[p] <= 1

\* Unless the clock is set back, a process runs its detector once per record:
\* a retried commit uses the prepared result again (daemon/health.go:61).
ObservedOnce == ~back => \A p \in Positions : observed[p] <= 1

\* Nothing of a journal entry is taken in twice: neither the aggregates, events
\* and notifications nor the detector see it again when it is replayed.
EachEntryOnce == TypeInvariant /\ CountedOnce /\ ObservedOnce

\* The published state is "running" only if no degradation waits for a
\* trusted record, neither in the reader nor, for the next process, in the
\* store (collector/journal_reliable.go:292 and 361, store/journal.go:110).
ReadyIsHonest == status = "running" => ~mem.recovery /\ ~db.pending

\* Unless the clock is set back, the checkpoint moves past a record that was
\* not committed only if the record is no longer in the journal, its bad
\* quality is durably recorded, a published gap covers it, or it is older
\* than the backfill window (collector/journal_reliable.go:30 and 172).
LossIsKnown ==
    [][~back => \A p \in db.cursor + 1 .. db'.cursor - 1 :
          \/ p \in gone \cup recorded
          \/ At(p) \in reported
          \/ now - At(p) > Window]_vars

\* Every record is eventually committed, or its loss is known: neither a
\* record that cannot be read nor an endless backlog stops the reader
\* (collector/journal_reliable.go:217 and 346).
Settled(p) ==
    \/ p <= db.cursor
    \/ p \in gone
    \/ Kind(p) = "opaque" /\ p \in recorded
    \/ At(p) \in reported
    \/ now - At(p) > Window
    \/ back

RecordsSettle == \A p \in Positions : p <= Len(journal) ~> (p <= Len(journal) /\ Settled(p))
=============================================================================
