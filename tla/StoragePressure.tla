-------------------------- MODULE StoragePressure --------------------------
(***************************************************************************)
(* The write budget, cardinality limits, pressure reclamation and          *)
(* retention ledger of the database (internal/store: budget.go,            *)
(* budget_auth.go, retention.go and the aggregate writers of store.go).    *)
(*                                                                         *)
(* Every writer first passes the admission of beginWrite, which inspects   *)
(* live pages and free disk space and, under pressure, runs one bounded    *)
(* step of reclamation on the writer's behalf.  Maintenance runs the same  *)
(* step, and only maintenance may go on to delete events.  Whatever        *)
(* deletes or merges rows accounts for them in the ledger in the same      *)
(* transaction.                                                            *)
(*                                                                         *)
(* One row stands for one page.  One authentication kind and one traffic   *)
(* direction are followed; Sources are the address ranges that occur.      *)
(***************************************************************************)
EXTENDS Integers, Sequences, FiniteSets, FiniteSetsExt

CONSTANTS
    MaxHour,        \* bound: hours 1 .. MaxHour pass
    Sources,        \* 1 .. n: address ranges, in key order
    MaxAuthKeys,    \* maxAuthKeysPerHour
    Groups,         \* 1 .. n: attributions of traffic
    MaxTrafficKeys, \* maxTrafficKeysPerHour
    Limit,          \* max_page_count
    Reserve,        \* the eighth kept for critical evidence
    Chunk,          \* rows of one bounded transaction
    Passes,         \* transactions of one table in one Prune
    MaxEntries,     \* maxRetentionEntries
    MaxWrites,      \* bound: observations written and restarts, by the end of each hour
    MaxTrouble      \* bound: changes of free disk space and failed merges

VARIABLES
    auth,      \* auth_hourly: observations per position of the primary key
    authKeys,  \* auth_cardinality_hourly
    traffic,   \* traffic_hourly: rows <<hour, attribution>>
    trafKeys,  \* traffic_cardinality_hourly
    events,    \* events: the hours of the stored ones, oldest first
    ledger,    \* retention_ledger, newest last
    totals,    \* retention_totals: affected rows per dataset and reason
    evicted,   \* retention_meta.evicted_entries
    cursor,    \* budget.authCursor
    walked,    \* budget.authPassCompleted
    lock,      \* budgetMu: "free", or the priority of the writer that holds it
    space,     \* free disk space: "low", "tight" or "ample"
    hour,      \* current hour
    sweep,     \* where Prune is in its list of tables, 0 between two
    chunks,    \* transactions Prune has spent on that table
    seen,      \* history: observations and source rows ever written
    writes,    \* writes and restarts so far
    troubles   \* changes of free disk space and failed merges so far

vars == <<auth, authKeys, traffic, trafKeys, events, ledger, totals, evicted,
          cursor, walked, lock, space, hour, sweep, chunks, seen, writes, troubles>>

tables == <<auth, authKeys, traffic, trafKeys, events>>

---------------------------------------------------------------------------

Hours == 1 .. MaxHour
N == Cardinality(Sources)
Overflow == N + 1        \* '_overflow'
Pressure == N + 2        \* '_storage_pressure'
Datasets == {"auth", "traffic", "events"}

\* Positions of the walk over auth_hourly's primary key; 0 precedes them all.
Positions == 1 .. MaxHour * (N + 2)
HourOf(p) == (p - 1) \div (N + 2) + 1
CellOf(p) == ((p - 1) % (N + 2)) + 1
Position(h, c) == (h - 1) * (N + 2) + c
IsSource(p) == CellOf(p) \in Sources
AuthRows == {p \in Positions : auth[p] > 0}
Observations(S) == MapThenSumSet(LAMBDA p : auth[p], S)

\* budgetStatusLocked: pages in use.
Live == Cardinality(AuthRows) + Cardinality(traffic) + Len(events)

UnderPressure == Live >= Limit - Reserve

\* writeHeadroom: how much free space a priority needs.
SpaceFor(priority) == space = "ample" \/ (priority = "critical" /\ space = "tight")

---------------------------------------------------------------------------
(* The ledger. *)

\* recordRetention: today's entry grows or a new one is made; the oldest
\* beyond the limit is evicted.  Lifetime totals stay.
Record(dataset, reason, rows) ==
    LET same == {i \in DOMAIN ledger : /\ ledger[i].dataset = dataset
                                       /\ ledger[i].reason = reason
                                       /\ ledger[i].day = hour}
        new  == [dataset |-> dataset, reason |-> reason, day |-> hour, rows |-> rows]
        grown == IF same # {}
                 THEN [i \in DOMAIN ledger |->
                         IF i \in same THEN [ledger[i] EXCEPT !.rows = @ + rows] ELSE ledger[i]]
                 ELSE Append(ledger, new)
        over == Len(grown) > MaxEntries
    IN  /\ totals' = IF rows = 0 THEN totals ELSE [totals EXCEPT ![dataset][reason] = @ + rows]
        /\ ledger' = IF rows = 0 THEN ledger ELSE IF over THEN Tail(grown) ELSE grown
        /\ evicted' = IF rows # 0 /\ over THEN evicted + 1 ELSE evicted

NoRecord == UNCHANGED <<ledger, totals, evicted>>

---------------------------------------------------------------------------
(* Reclamation. *)

\* The first k members of a set of hours or positions.
First(S, k) == {x \in S : Cardinality({y \in S : y < x}) < k}

\* The oldest traffic rows of one transaction.
Oldest(rows) ==
    {x \in rows :
        Cardinality({y \in rows : y[1] < x[1] \/ (y[1] = x[1] /\ y[2] < x[2])}) < Chunk}

PruneTraffic ==
    /\ traffic' = traffic \ Oldest(traffic)
    /\ Record("traffic", "pressure", Cardinality(Oldest(traffic)))
    /\ UNCHANGED <<auth, authKeys, trafKeys, events, cursor, walked>>

\* compactAuthChunkLocked reads at most Chunk rows after the cursor and stops
\* where a second hour begins after the first source row.
Window == First({p \in AuthRows : p > cursor}, Chunk)
Scanned ==
    LET sources == {p \in Window : IsSource(p)}
    IN  IF sources = {} THEN Window
        ELSE {p \in Window : p < Min(sources) \/ HourOf(p) = HourOf(Min(sources))}
Selected == {p \in Scanned : IsSource(p)}

\* The rows `gone' are replaced by a summary that counts `total', which leaves
\* `released' keys of the hour free.
Summarise(gone, total, released) ==
    LET h == HourOf(Min(gone))
    IN  /\ auth' = [p \in Positions |->
                      IF p \in gone THEN 0 ELSE IF p = Position(h, Pressure) THEN total ELSE auth[p]]
        /\ authKeys' = [authKeys EXCEPT ![h] = Max({0, @ - released})]
        /\ Record("auth", "pressure", Cardinality(gone))

\* The rows of one hour become its pressure summary.  A sole source without a
\* summary stays as it is.
Merge ==
    LET summary == Position(HourOf(Min(Selected)), Pressure)
        first   == auth[summary] = 0
    IN  IF Cardinality(Selected) = 1 /\ first
        THEN UNCHANGED <<auth, authKeys>> /\ NoRecord
        ELSE Summarise(Selected, Observations(Selected \cup {summary}),
                       Cardinality(Selected) - (IF first THEN 1 ELSE 0))

\* compactAuthChunkLocked that makes progress: rows were read.
CompactAuth ==
    /\ cursor' = IF Scanned = {} THEN 0 ELSE Max(Scanned)
    /\ IF Selected = {} THEN UNCHANGED <<auth, authKeys>> /\ NoRecord ELSE Merge
    /\ UNCHANGED <<traffic, trafKeys, events, walked>>

\* The oldest events of a transaction; the completed walk is used up.
PruneEvents ==
    /\ events' = SubSeq(events, Chunk + 1, Len(events))
    /\ Record("events", "pressure", Min({Chunk, Len(events)}))
    /\ walked' = FALSE
    /\ UNCHANGED <<auth, authKeys, traffic, trafKeys>>

Nothing == UNCHANGED tables /\ NoRecord

HasTraffic == traffic # {}
WalkOver == Window = {}

\* Mutant: a writer's walk is as good as maintenance's, and events wait for
\* the call that happens to end one.
PruneChunkUnlatched(allowEvents) ==
    IF HasTraffic THEN PruneTraffic
    ELSE IF ~WalkOver THEN CompactAuth
    ELSE IF allowEvents THEN PruneEvents /\ cursor' = 0
    ELSE Nothing /\ cursor' = 0 /\ walked' = walked

\* pruneBudgetChunkLocked: one transaction, traffic first, then source detail,
\* then, for maintenance and after a completed walk, events.
PruneChunk(allowEvents) ==
    IF HasTraffic THEN PruneTraffic
    ELSE IF (~allowEvents \/ ~walked) /\ ~WalkOver THEN CompactAuth
    ELSE IF allowEvents
    THEN PruneEvents /\ cursor' = IF walked THEN cursor ELSE 0
    ELSE Nothing /\ cursor' = 0 /\ walked' = TRUE

---------------------------------------------------------------------------
(* Writers. *)

\* beginWrite: take the mutex, inspect, spend one step on reclamation under
\* pressure, inspect again, and hand the mutex to the writer or refuse.
BeginWrite(priority) ==
    /\ lock = "free"
    /\ SpaceFor(priority)
    /\ IF UnderPressure THEN PruneChunk(FALSE)
       ELSE UNCHANGED <<tables, cursor, walked>> /\ NoRecord
    /\ lock' = IF priority # "critical" /\ UnderPressure /\ UnderPressure' THEN "free" ELSE priority
    /\ UNCHANGED <<space, hour, sweep, chunks, seen, writes, troubles>>

\* The transaction of a writer's merge fails (no page left for its output):
\* the writer is refused, the rows stay, the walk has moved past them.
CompactFails ==
    /\ lock = "free" /\ UnderPressure /\ SpaceFor("critical")
    /\ ~HasTraffic /\ Selected # {}
    /\ troubles < MaxTrouble /\ troubles' = troubles + 1
    /\ cursor' = Max(Scanned)
    /\ Nothing /\ UNCHANGED <<walked, lock, space, hour, sweep, chunks, seen, writes>>

\* A write that changes no row count (an update in place), or fails and is
\* rolled back.
Release ==
    /\ lock # "free" /\ lock' = "free"
    /\ UNCHANGED <<tables, ledger, totals, evicted, cursor, walked, space, hour, sweep, chunks,
                   seen, writes, troubles>>

Wrote(dataset, rows, amount) ==
    /\ writes < MaxWrites[hour] /\ writes' = writes + 1
    /\ lock' = "free"
    /\ seen' = [seen EXCEPT ![dataset].rows = @ + rows, ![dataset].amount = @ + amount]
    /\ UNCHANGED <<cursor, walked, space, hour, sweep, chunks, troubles>>

\* addAuth: a new source beyond the hour's keys is counted under _overflow.
AddAuth(h, s) ==
    /\ lock = "critical"
    /\ LET row == Position(h, s)
           overflow == Position(h, Overflow)
       IN  IF auth[row] > 0
           THEN auth' = [auth EXCEPT ![row] = @ + 1] /\ UNCHANGED authKeys /\ NoRecord
                /\ Wrote("auth", 0, 1)
           ELSE IF authKeys[h] < MaxAuthKeys
           THEN /\ Live < Limit
                /\ auth' = [auth EXCEPT ![row] = 1]
                /\ authKeys' = [authKeys EXCEPT ![h] = @ + 1]
                /\ NoRecord /\ Wrote("auth", 1, 1)
           ELSE /\ Live < Limit
                /\ auth' = [auth EXCEPT ![overflow] = @ + 1] /\ UNCHANGED authKeys
                /\ Record("auth", "cardinality", 1) /\ Wrote("auth", 1, 1)
    /\ UNCHANGED <<traffic, trafKeys, events>>

\* addTrafficBatch, one item.
AddTraffic(h, k) ==
    /\ lock = "traffic"
    /\ IF <<h, k>> \in traffic
       THEN UNCHANGED <<traffic, trafKeys>> /\ NoRecord /\ Wrote("traffic", 0, 0)
       ELSE IF trafKeys[h] < MaxTrafficKeys
       THEN /\ Live < Limit
            /\ traffic' = traffic \cup {<<h, k>>}
            /\ trafKeys' = [trafKeys EXCEPT ![h] = @ + 1]
            /\ NoRecord /\ Wrote("traffic", 1, 0)
       ELSE /\ Live < Limit
            /\ traffic' = traffic \cup {<<h, Overflow>>} /\ UNCHANGED trafKeys
            /\ Record("traffic", "cardinality", 1)
            /\ Wrote("traffic", IF <<h, Overflow>> \in traffic THEN 1 ELSE 2, 0)
    /\ UNCHANGED <<auth, authKeys, events>>

\* insertEvent
InsertEvent ==
    /\ lock = "critical" /\ Live < Limit
    /\ events' = Append(events, hour)
    /\ NoRecord /\ Wrote("events", 1, 0)
    /\ UNCHANGED <<auth, authKeys, traffic, trafKeys>>

---------------------------------------------------------------------------
(* Maintenance. *)

\* MaintainBudget
MaintainBudget ==
    /\ lock = "free" /\ UnderPressure /\ SpaceFor("critical")
    /\ PruneChunk(TRUE)
    /\ UNCHANGED <<lock, space, hour, sweep, chunks, seen, writes, troubles>>

\* Prune goes through its tables in this order, a bounded number of
\* transactions each.  Retention is shortened to the current hour.
Tables == <<"events", "traffic", "auth", "authKeys", "trafKeys">>
Old(h) == h < hour

NextTable(full) ==
    IF full /\ chunks + 1 < Passes THEN UNCHANGED sweep /\ chunks' = chunks + 1
    ELSE sweep' = (sweep + 1) % (Len(Tables) + 1) /\ chunks' = 0

\* In the first hour there is nothing to expire.
StartPrune ==
    /\ sweep = 0 /\ hour > 1 /\ lock = "free" /\ sweep' = 1
    /\ UNCHANGED <<tables, ledger, totals, evicted, cursor, walked, lock, space, hour, chunks,
                   seen, writes, troubles>>

PruneOld ==
    /\ sweep > 0 /\ lock = "critical" /\ lock' = "free"
    /\ CASE Tables[sweep] = "events" ->
              LET gone == Min({Chunk, Cardinality({i \in DOMAIN events : Old(events[i])})})
              IN  /\ events' = SubSeq(events, gone + 1, Len(events))
                  /\ Record("events", "expiry", gone) /\ NextTable(gone = Chunk)
                  /\ UNCHANGED <<auth, authKeys, traffic, trafKeys, seen>>
         [] Tables[sweep] = "traffic" ->
              LET gone == Oldest({x \in traffic : Old(x[1])})
              IN  /\ traffic' = traffic \ gone
                  /\ Record("traffic", "expiry", Cardinality(gone))
                  /\ NextTable(Cardinality(gone) = Chunk)
                  /\ UNCHANGED <<auth, authKeys, events, trafKeys, seen>>
         [] Tables[sweep] = "auth" ->
              LET gone == First({p \in AuthRows : Old(HourOf(p))}, Chunk)
              IN  /\ auth' = [p \in Positions |-> IF p \in gone THEN 0 ELSE auth[p]]
                  /\ Record("auth", "expiry", Cardinality(gone)) /\ NextTable(Cardinality(gone) = Chunk)
                  /\ seen' = [seen EXCEPT !["auth"].amount = @ - Observations(gone),
                                          !["auth"].rows = @ + Cardinality({p \in gone : ~IsSource(p)})]
                  /\ UNCHANGED <<authKeys, traffic, trafKeys, events>>
         [] Tables[sweep] = "authKeys" ->
              /\ authKeys' = [h \in Hours |-> IF Old(h) THEN 0 ELSE authKeys[h]]
              /\ NoRecord /\ NextTable(FALSE)
              /\ UNCHANGED <<auth, traffic, trafKeys, events, seen>>
         [] Tables[sweep] = "trafKeys" ->
              /\ trafKeys' = [h \in Hours |-> IF Old(h) THEN 0 ELSE trafKeys[h]]
              /\ NoRecord /\ NextTable(FALSE)
              /\ UNCHANGED <<auth, authKeys, traffic, events, seen>>
    /\ UNCHANGED <<cursor, walked, space, hour, writes, troubles>>

---------------------------------------------------------------------------
(* Surroundings. *)

\* An hour passes.  While a writer holds the mutex it reads neither the clock
\* nor the disk again, so both move between two writers.
Tick == /\ hour < MaxHour /\ lock = "free" /\ hour' = hour + 1
        /\ UNCHANGED <<tables, ledger, totals, evicted, cursor, walked, lock, space, sweep, chunks,
                       seen, writes, troubles>>

\* Other programs use or free disk space.
SpaceChanges ==
    /\ troubles < MaxTrouble /\ lock = "free" /\ troubles' = troubles + 1
    /\ space' \in {"low", "tight", "ample"} \ {space}
    /\ UNCHANGED <<tables, ledger, totals, evicted, cursor, walked, lock, hour, sweep, chunks,
                   seen, writes>>

\* The process restarts: the walk and the sweep are forgotten.
Restart ==
    /\ <<cursor, walked, sweep>> # <<0, FALSE, 0>>
    /\ writes < MaxWrites[hour] /\ writes' = writes + 1
    /\ lock' = "free" /\ cursor' = 0 /\ walked' = FALSE /\ sweep' = 0 /\ chunks' = 0
    /\ UNCHANGED <<tables, ledger, totals, evicted, space, hour, seen, troubles>>

Init ==
    /\ auth = [p \in Positions |-> 0]
    /\ authKeys = [h \in Hours |-> 0]
    /\ traffic = {}
    /\ trafKeys = [h \in Hours |-> 0]
    /\ events = <<>>
    /\ ledger = <<>> /\ evicted = 0
    /\ totals = [d \in Datasets |-> [expiry |-> 0, pressure |-> 0, cardinality |-> 0]]
    /\ cursor = 0 /\ walked = FALSE
    /\ space = "ample"
    /\ hour = 1 /\ sweep = 0 /\ chunks = 0
    /\ seen = [d \in Datasets |-> [rows |-> 0, amount |-> 0]]
    /\ lock = "free" /\ writes = 0 /\ troubles = 0

Write == \/ \E s \in Sources : AddAuth(hour, s)
         \/ \E k \in Groups : AddTraffic(hour, k)
         \/ InsertEvent

Priorities == {"critical", "traffic"}

Next == (\E p \in Priorities : BeginWrite(p)) \/ CompactFails \/ Write \/ Release \/ MaintainBudget
        \/ StartPrune \/ PruneOld \/ Tick \/ SpaceChanges \/ Restart

\* A writer ends its transaction, and maintenance, which polls the mutex, gets
\* it between two writers sooner or later.
Spec == Init /\ [][Next]_vars /\ WF_vars(Release) /\ SF_vars(MaintainBudget)

---------------------------------------------------------------------------
(* Properties *)

\* However often detail is merged, the observations of every hour stay
\* counted until the hour expires.
ObservationsKept ==
    seen["auth"].amount = Observations(AuthRows)

\* The lifetime totals account for every source row that is gone, and the
\* entries tell the same story until an eviction is admitted.
Accounted(d) == totals[d].expiry + totals[d].pressure + totals[d].cardinality
LossAccounted ==
    /\ seen["events"].rows = Len(events) + Accounted("events")
    /\ seen["traffic"].rows = Cardinality(traffic) + Accounted("traffic")
    /\ seen["auth"].rows = Cardinality({p \in AuthRows : IsSource(p)}) + Accounted("auth")
    /\ evicted = 0 => MapThenSumSet(Accounted, Datasets)
                      = MapThenSumSet(LAMBDA i : ledger[i].rows, DOMAIN ledger)

\* The keys of an hour stay limited though merging and pruning remove rows
\* behind the counters.
CardinalityBounded ==
    \A h \in Hours :
        LET keys == {p \in AuthRows : HourOf(p) = h /\ CellOf(p) # Overflow}
        IN  /\ Cardinality(keys) <= MaxAuthKeys
            /\ Cardinality({x \in traffic : x[1] = h /\ x[2] # Overflow}) <= MaxTrafficKeys
            /\ authKeys[h] >= Cardinality(keys) \/ Old(h)

\* Under lasting pressure events are reached: writers that reclaim for
\* themselves cannot keep maintenance from its turn.
PressureRelieved == []<>(~UnderPressure \/ events = <<>> \/ space = "low")
=============================================================================
