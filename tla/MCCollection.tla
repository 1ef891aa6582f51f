---------------------------- MODULE MCCollection ----------------------------
(***************************************************************************)
(* Four parts of the daemon between a reading and a stored row that do not *)
(* call each other: the interface counters, the coverage ledger, the event *)
(* queue and the storage budget. A behaviour follows one of them, "part",  *)
(* and the others stay in their initial states, so that one run explores   *)
(* every state of each and their state spaces add up instead of            *)
(* multiplying.                                                            *)
(***************************************************************************)
EXTENDS Integers, Sequences, FiniteSets

VARIABLES
    part,
    \* InterfaceCounters
    link, nextIndex, carried, base, todo, refs, found, phase, healthy, readFailed, reported,
    verdict, sent, lost, dark, chan, detail, total, refused, overflowGap, state, known,
    observed, seenAt, pending, gaps, changes, polls, troubles,
    \* CoverageLedger
    now, proc, batchAt, discovered, cache, status, intervals, decided, truth, dropped,
    since, mishaps,
    \* EventQueue
    stage, detected, queue, budget, before, loss, told, saved, counted, gone, marked, faults,
    \* StoragePressure
    auth, authKeys, traffic, trafKeys, events, losses, totals, evicted, cursor, walked,
    lock, space, hour, sweep, chunks, seen, writes, storageTroubles

C == INSTANCE InterfaceCounters WITH
        Names <- {1, 2}, Volatile <- {1}, MaxDetail <- 1, Capacity <- 1, MaxIndex <- 3,
        MaxBytes <- 2, MaxPolls <- 3, MaxTrouble <- 1

L == INSTANCE CoverageLedger WITH
        MaxTime <- 4, StaleAfter <- 1, MaxIntervals <- 1, MaxTroubles <- 2

Q == INSTANCE EventQueue WITH
        MaxEvents <- 6, Oversized <- {3}, MaxPending <- 2, MaxFlush <- 1, MaxFaults <- 4

S == INSTANCE StoragePressure WITH
        ledger <- losses, troubles <- storageTroubles, MaxHour <- 2, Sources <- {1, 2, 3},
        MaxAuthKeys <- 2, Groups <- {1, 2}, MaxTrafficKeys <- 1, Limit <- 4, Reserve <- 1, Chunk <- 2,
        Passes <- 2, MaxEntries <- 2, MaxWrites <- <<5, 3>>, MaxTrouble <- 1

counters ==
    <<link, nextIndex, carried, base, todo, refs, found, phase, healthy, readFailed,
      reported, verdict, sent, lost, dark, chan, detail, total, refused, overflowGap, state,
      known, observed, seenAt, pending, gaps, changes, polls, troubles>>
ledger ==
    <<now, proc, batchAt, discovered, cache, status, intervals, decided, truth, dropped,
      since, mishaps>>
queueing ==
    <<stage, detected, queue, budget, before, loss, told, saved, counted, gone, marked,
      faults>>
storage ==
    <<auth, authKeys, traffic, trafKeys, events, losses, totals, evicted, cursor, walked,
      lock, space, hour, sweep, chunks, seen, writes, storageTroubles>>
vars == <<part, counters, ledger, queueing, storage>>

Init ==
    /\ part \in {"counters", "ledger", "queueing", "storage"}
    /\ C!Init /\ L!Init /\ Q!Init /\ S!Init

Next ==
    /\ UNCHANGED part
    /\ \/ part = "counters" /\ C!Next /\ UNCHANGED <<ledger, queueing, storage>>
       \/ part = "ledger" /\ L!Next /\ UNCHANGED <<counters, queueing, storage>>
       \/ part = "queueing" /\ Q!Next /\ UNCHANGED <<counters, ledger, storage>>
       \/ part = "storage" /\ S!Next /\ UNCHANGED <<counters, ledger, queueing>>

\* The fairness each module states, for the part that moves.
Fairness ==
    /\ WF_counters(part = "counters" /\ C!PollStep)
    /\ WF_counters(part = "counters" /\ C!AddInterface)
    /\ WF_ledger(part = "ledger" /\ L!CoverageTick)
    /\ WF_ledger(part = "ledger" /\ L!Started)
    /\ WF_queueing(part = "queueing" /\ Q!LoopStep)
    /\ WF_queueing(part = "queueing" /\ Q!Start)
    /\ WF_storage(part = "storage" /\ S!Release)
    /\ SF_storage(part = "storage" /\ S!MaintainBudget)

Spec == Init /\ [][Next]_vars /\ Fairness

-----------------------------------------------------------------------------

\* No byte of an interface is counted twice however links are replaced or fail
\* between two readings, and lost bytes and changed selections are reported
\* (collector/netdev_set.go, daemon/interfaces.go).
CountersHonest ==
    part = "counters" => C!NoByteTwice /\ C!LossIsReported /\ C!SelectionGaps

\* The integrity view shows no state the daemon was not in and has no hole
\* after a process's first record, and the recorded states of the components
\* catch up with what the daemon decided and what the polls found, though
\* writing them failed (store/coverage.go, collector/netdev_set.go).
ViewHonest ==
    /\ [](part = "ledger" => L!ViewTrue /\ L!ViewComplete)
    /\ L!StateSettles
    /\ C!HealthRecorded

\* Every event is saved, pending, counted as lost or covered by a restart
\* marker, is saved once and in order, and does not stay queued
\* (daemon/events.go).
QueueHonest ==
    /\ [](part = "queueing" => Q!EventsAccounted /\ Q!SavedInOrder)
    /\ Q!QueueDrains

\* Merging and evicting under pressure lose no observation and no count, keep
\* the keys of an hour bounded, and are not starved by the writers that
\* reclaim for themselves (store/budget.go, store/retention.go).
PressureHandled ==
    /\ [](part = "storage" => S!ObservationsKept /\ S!LossAccounted /\ S!CardinalityBounded)
    /\ S!PressureRelieved
=============================================================================
