---------------------------- MODULE EventQueue -----------------------------
(***************************************************************************)
(* The daemon's retry queue of detected events (internal/daemon:           *)
(* events.go, app.go) in front of InsertEventNotification                  *)
(* (internal/store: journal.go).                                           *)
(*                                                                         *)
(* Events are queued in memory and written one by one by the daemon's      *)
(* loop.  What cannot be queued is counted, and the count is recorded as a *)
(* gap of coverage; what a process takes with it when it dies is covered   *)
(* by the marker every start records.  A write may fail, and may also be   *)
(* applied and still be reported as failed.                                *)
(***************************************************************************)
EXTENDS Integers, Sequences, FiniteSets

CONSTANTS
    MaxEvents,    \* bound: events 1 .. MaxEvents are detected
    Oversized,    \* the events whose metadata is too large to store
    MaxPending,   \* maxPendingEvents
    MaxFlush,     \* maxEventFlush
    MaxFaults     \* bound: failed and doubtful writes, and ends of the process

VARIABLES
    stage,     \* the loop: "down", "idle", "queueing", "write", and while it
               \* stops "stopping" and "marking"
    detected,  \* events detected so far
    queue,     \* a.pendingEvents
    budget,    \* writes left in this flushEvents
    before,    \* queue length when finishEvents began a round
    loss,      \* a.eventLosses: events counted per kind, and active
    told,      \* kinds this flushEvents has still to record
    saved,     \* events table, in order of insertion
    counted,   \* recorded gaps: what each kind counted
    gone,      \* history: events that died with a process
    marked,    \* history: those whose process_restart_pending_unknown is recorded
    faults

vars == <<stage, detected, queue, budget, before, loss, told, saved, counted, gone,
          marked, faults>>
recorded == <<counted, marked>>

Kinds == {"capacity", "invalid", "restart"}
NoLoss == [k \in Kinds |-> [active |-> FALSE, events |-> {}]]

Pending == {queue[i] : i \in DOMAIN queue}
Counting == UNION {loss[k].events : k \in Kinds}
Saved == {saved[i] : i \in DOMAIN saved}

Fault == faults < MaxFaults /\ faults' = faults + 1

\* The outcomes of a write: applied and known to be, refused, applied though
\* reported as failed.
Write(applied, reported) ==
    IF applied /\ reported THEN UNCHANGED faults ELSE (applied \/ ~reported) /\ Fault
Outcomes == {<<TRUE, TRUE>>, <<FALSE, FALSE>>, <<TRUE, FALSE>>}

---------------------------------------------------------------------------
(* Queueing *)

\* noteEventLoss
Noted(kind, e) == [loss EXCEPT ![kind] = [active |-> TRUE, events |-> @.events \cup {e}]]

\* queueEvent
QueueEvent(e) ==
    IF e \in Oversized THEN loss' = Noted("invalid", e) /\ UNCHANGED queue
    ELSE IF Len(queue) >= MaxPending THEN loss' = Noted("capacity", e) /\ UNCHANGED queue
    ELSE queue' = Append(queue, e) /\ UNCHANGED loss

\* The events a detector reports for one observation, one after the other.
Detect ==
    /\ stage \in {"idle", "queueing"} /\ stage' = "queueing"
    /\ detected < MaxEvents /\ detected' = detected + 1
    /\ QueueEvent(detected')
    /\ UNCHANGED <<budget, before, told, saved, recorded, gone, faults>>

\* Mutant: only an event starts a flush.
BeginFlushDriven ==
    /\ stage = "queueing"
    /\ stage' = "write" /\ budget' = MaxFlush
    /\ UNCHANGED <<detected, queue, before, told, loss, saved, recorded, gone, faults>>

\* After them, and on the ticker, the queue is flushed.
BeginFlush ==
    /\ stage = "queueing" \/ (stage = "idle" /\ (queue # <<>> \/ \E k \in Kinds : loss[k].active))
    /\ stage' = "write" /\ budget' = MaxFlush
    /\ UNCHANGED <<detected, queue, before, told, loss, saved, recorded, gone, faults>>

---------------------------------------------------------------------------
(* flushEvents *)

WritesDone == queue = <<>> \/ budget = 0

\* InsertEventNotification ignores an event that is there already.  A failure
\* ends the pass and keeps the event at the head.
WriteNext ==
    \E o \in Outcomes :
        /\ Write(o[1], o[2])
        /\ saved' = IF o[1] /\ \A i \in DOMAIN saved : saved[i] # Head(queue)
                    THEN Append(saved, Head(queue)) ELSE saved
        /\ IF o[2] THEN queue' = Tail(queue) /\ budget' = budget - 1
           ELSE UNCHANGED queue /\ budget' = 0

Insert ==
    /\ stage \in {"write", "stopping"} /\ ~WritesDone
    /\ WriteNext
    /\ UNCHANGED <<stage, detected, before, loss, told, recorded, gone>>

ToRecord == {k \in Kinds : loss[k].active} \ told

\* A count is cleared once it is recorded.
Recorded(kind, ok) == IF ok THEN [loss EXCEPT ![kind] = NoLoss[kind]] ELSE loss

\* One kind of loss is recorded; every kind is tried once in a pass.
RecordLoss(kind) ==
    /\ stage \in {"write", "stopping"} /\ WritesDone /\ kind \in ToRecord
    /\ told' = told \cup {kind}
    /\ \E o \in Outcomes :
        /\ Write(o[1], o[2])
        /\ counted' = IF o[1] THEN counted \cup loss[kind].events ELSE counted
        /\ marked' = IF o[1] /\ kind = "restart" THEN gone ELSE marked
        /\ loss' = Recorded(kind, o[2])
    /\ UNCHANGED <<stage, detected, queue, budget, before, saved, gone>>

EndFlush ==
    /\ stage = "write" /\ WritesDone /\ ToRecord = {} /\ stage' = "idle"
    /\ budget' = 0 /\ before' = 0 /\ told' = {}
    /\ UNCHANGED <<detected, queue, loss, saved, recorded, gone, faults>>

---------------------------------------------------------------------------
(* The end and the start of the process *)

\* finishEvents: flush again while the queue gets shorter and time is left.
Stop ==
    /\ stage = "idle" /\ Fault /\ stage' = "stopping"
    /\ budget' = MaxFlush /\ before' = Len(queue) /\ told' = {}
    /\ UNCHANGED <<detected, queue, loss, saved, recorded, gone>>

StopRound ==
    /\ stage = "stopping" /\ WritesDone /\ ToRecord = {}
    /\ \/ /\ queue = <<>> \/ Len(queue) = before
          /\ stage' = "marking" /\ UNCHANGED <<budget, before, told, faults>>
       \/ /\ queue # <<>> /\ Len(queue) # before
          /\ \/ stage' = "marking" /\ Fault /\ UNCHANGED <<budget, before, told>>
             \/ /\ budget' = MaxFlush /\ before' = Len(queue) /\ told' = {}
                /\ UNCHANGED <<stage, faults>>
    /\ UNCHANGED <<detected, queue, loss, saved, recorded, gone>>

\* What dies with the process.
Dies ==
    /\ stage' = "down" /\ queue' = <<>> /\ loss' = NoLoss
    /\ budget' = 0 /\ before' = 0 /\ told' = {}
    /\ gone' = gone \cup Pending \cup Counting
    /\ UNCHANGED <<detected, saved, marked>>

\* The events left over are counted if that can still be written.
MarkShutdown ==
    /\ stage = "marking"
    /\ \E o \in Outcomes :
        /\ IF queue = <<>> THEN o = <<TRUE, TRUE>> /\ UNCHANGED faults ELSE Write(o[1], o[2])
        /\ counted' = IF o[1] THEN counted \cup Pending ELSE counted
    /\ Dies

Crash == stage # "down" /\ Fault /\ Dies /\ UNCHANGED counted

\* Run: the queue of the process before is unknown.
StartLoss == [NoLoss EXCEPT !["restart"].active = TRUE]

Start ==
    /\ stage = "down" /\ stage' = "idle"
    /\ loss' = StartLoss
    /\ UNCHANGED <<detected, queue, budget, before, told, saved, recorded, gone, faults>>

Init ==
    /\ stage = "down" /\ detected = 0 /\ queue = <<>> /\ budget = 0 /\ before = 0
    /\ loss = NoLoss /\ told = {} /\ saved = <<>> /\ counted = {}
    /\ gone = {} /\ marked = {} /\ faults = 0

Next == \/ Detect \/ BeginFlush \/ Insert \/ EndFlush \/ Stop \/ StopRound \/ MarkShutdown \/ Crash
        \/ Start \/ \E k \in Kinds : RecordLoss(k)

\* The loop, one goroutine, goes on; a supervisor starts the daemon again.
LoopStep == \/ BeginFlush \/ Insert \/ EndFlush \/ StopRound \/ MarkShutdown
            \/ \E k \in Kinds : RecordLoss(k)
Spec == Init /\ [][Next]_vars /\ WF_vars(LoopStep) /\ WF_vars(Start)

---------------------------------------------------------------------------
(* Properties *)

\* No event is lost without a trace, however writes fail and processes end:
\* it is saved, pending, counted, or covered by the marker of a later start.
EventsAccounted ==
    \A e \in 1 .. detected :
        \/ e \in Saved \cup Pending \cup Counting \cup counted \cup marked
        \/ e \in gone /\ (stage = "down" \/ loss["restart"].active)

\* An event is saved once and in the order of detection, though a write that
\* was applied is repeated.
SavedInOrder ==
    \A i, j \in DOMAIN saved : i < j => saved[i] < saved[j]

\* What is queued or counted is written or recorded while the process lives,
\* without another event arriving.
Unwritten == queue # <<>> \/ \E k \in Kinds : loss[k].active
QueueDrains == []<>~Unwritten
=============================================================================
