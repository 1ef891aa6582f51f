--------------------------- MODULE AuthDetector ----------------------------
(***************************************************************************)
(* The detector of authentication failures (internal/detect: auth.go): a   *)
(* sliding window of failures per source under three limits (sources,      *)
(* failures of a source, slots allocated in all), pruning, a cooldown      *)
(* between two alerts of a source, and the time until which the detector   *)
(* admits that a refused or dropped failure may be missing.                *)
(***************************************************************************)
EXTENDS Integers, Sequences, FiniteSets, FiniteSetsExt

CONSTANTS
    Addresses,     \* source addresses
    MaxSources,    \* maxAuthSources
    MaxPerSource,  \* maxFailuresPerAuthSource
    EntryLimit,    \* maxAuthFailureEntries, in allocated slots
    PruneEvery,    \* failures between two routine prunes (1024)
    Window,        \* config.Window
    Cooldown,      \* config.Cooldown
    Threshold,     \* config.Threshold
    MaxInstant,    \* bound: last instant
    MaxFailures    \* bound: failures of one instant

VARIABLES
    det,      \* Auth: the maps over its sources and the counters
    instant,  \* time of the observations
    turn,     \* failures since the last routine prune, and in this instant
    actual,   \* history: per address, the failures of the window
    alerts,   \* history: per address, when it was last alerted, Never before
    verdict   \* history: what was wrong with the last observation

vars == <<det, instant, turn, actual, alerts, verdict>>

Never == -1000
Fine == [missed |-> FALSE, excess |-> FALSE, early |-> FALSE]

NewAuth == [fails |-> [s \in {} |-> <<>>], caps |-> [s \in {} |-> 0],
            alert |-> [s \in {} |-> 0], seen |-> [s \in {} |-> 0],
            entries |-> 0, capacity |-> 0, until |-> 0, pruned |-> Never]

Held(d) == DOMAIN d.fails
Without(f, S) == [s \in DOMAIN f \ S |-> f[s]]
With(f, s, v) == [x \in DOMAIN f \cup {s} |-> IF x = s THEN v ELSE f[x]]
Lengths(d, S) == MapThenSumSet(LAMBDA s : Len(d.fails[s]), S)
Slots(d, S) == MapThenSumSet(LAMBDA s : d.caps[s], S)

---------------------------------------------------------------------------
(* Pruning *)

After(times, cutoff) == SelectSeq(times, LAMBDA t : t >= cutoff)

\* trim: a slice less than half full is copied to its size.
Shrunk(times, cap) == IF times = <<>> \/ 2 * Len(times) < cap THEN Len(times) ELSE cap

Trim(d, S, cutoff) ==
    LET kept == [s \in Held(d) |-> IF s \in S THEN After(d.fails[s], cutoff) ELSE d.fails[s]]
        e    == [d EXCEPT !.fails = kept,
                          !.caps = [s \in Held(d) |-> IF s \in S THEN Shrunk(kept[s], d.caps[s])
                                                      ELSE d.caps[s]]]
    IN  [e EXCEPT !.entries = @ - (Lengths(d, S) - Lengths(e, S)),
                  !.capacity = @ - (Slots(d, S) - Slots(e, S))]

\* prune: a source is forgotten when neither window nor cooldown can still
\* concern it.
Forgotten(d, t) == {s \in Held(d) : d.seen[s] < t - Window - Cooldown}

Prune(d, t) ==
    LET old == Forgotten(d, t)
        e   == [d EXCEPT !.fails = Without(@, old), !.caps = Without(@, old),
                         !.alert = Without(@, old), !.seen = Without(@, old),
                         !.entries = @ - Lengths(d, old), !.capacity = @ - Slots(d, old)]
    IN  [Trim(e, Held(e), t - Window) EXCEPT !.pruned = t]

PruneIfDue(d, t) == IF t - d.pruned >= 1 THEN Prune(d, t) ELSE d

---------------------------------------------------------------------------
(* Observations *)

\* markIncomplete: one beyond the window, whose end is included.
IncompleteUntil(t) == t + Window + 1

MarkIncomplete(d, t) == [d EXCEPT !.until = Max({@, IncompleteUntil(t)})]

Times(d, s) == IF s \in Held(d) THEN d.fails[s] ELSE <<>>
Slot(d, s) == IF s \in Held(d) THEN d.caps[s] ELSE 0
Full(d, s) == Len(Times(d, s)) = Slot(d, s)

\* The oldest failure of a source makes room for the newest.
DropOldest(d, s, t) ==
    IF Len(Times(d, s)) < MaxPerSource THEN d
    ELSE MarkIncomplete([d EXCEPT !.fails[s] = Tail(@), !.entries = @ - 1], t)

\* The slice is doubled within what the limits leave.
Grow(d, s) ==
    LET cap  == Slot(d, s)
        size == Min({Max({1, 2 * cap}), MaxPerSource, cap + EntryLimit - d.capacity})
    IN  IF ~Full(d, s) THEN d
        ELSE [d EXCEPT !.capacity = @ + size - cap, !.caps = With(@, s, size),
                       !.fails = With(@, s, Times(d, s))]

Remember(d, s, t) ==
    [d EXCEPT !.fails = With(@, s, Append(Times(d, s), t)), !.seen = With(@, s, t), !.entries = @ + 1]

Routine(d, t) == IF turn.routine + 1 = PruneEvery THEN Prune(d, t) ELSE d
Crowded(d, s) == s \notin Held(d) /\ Cardinality(Held(d)) >= MaxSources

\* What Observe makes of a failure: the detector, and whether it was kept.
Accept(d, s, t) ==
    LET trimmed == IF s \in Held(d) THEN DropOldest(Trim(d, {s}, t - Window), s, t) ELSE d
        room    == IF Full(trimmed, s) /\ trimmed.capacity >= EntryLimit
                   THEN PruneIfDue(trimmed, t) ELSE trimmed
    IN  IF Full(room, s) /\ room.capacity >= EntryLimit
        THEN <<MarkIncomplete(room, t), FALSE>>
        ELSE <<Remember(Grow(room, s), s, t), TRUE>>

Admit(d, s, t) ==
    LET pruned == IF Crowded(d, s) THEN PruneIfDue(d, t) ELSE d
    IN  IF Crowded(pruned, s) THEN <<MarkIncomplete(pruned, t), FALSE>>
        ELSE Accept(pruned, s, t)

\* Mutant: a new source has to wait for its cooldown first.
AlertedLate(d, s, t) ==
    Len(Times(d, s)) >= Threshold /\ (IF s \in DOMAIN d.alert THEN t - d.alert[s] >= Cooldown ELSE t >= Cooldown)

Alerted(d, s, t) ==
    Len(Times(d, s)) >= Threshold /\ (s \in DOMAIN d.alert => t - d.alert[s] >= Cooldown)

InWindow(s) == Len(SelectSeq(actual[s], LAMBDA t : t >= instant - Window))

\* A final failure of an address.
Failure(s) ==
    \E result \in {Admit(Routine(det, instant), s, instant)} :
    LET after  == result[1]
        alert  == result[2] /\ Alerted(after, s, instant)
        total  == InWindow(s) + 1
    IN  /\ turn.now < MaxFailures
        /\ turn' = [routine |-> (turn.routine + 1) % PruneEvery, now |-> turn.now + 1]
        /\ det' = IF alert THEN [after EXCEPT !.alert = With(@, s, instant)] ELSE after
        /\ actual' = [actual EXCEPT ![s] = Append(@, instant)]
        /\ alerts' = IF alert THEN [alerts EXCEPT ![s] = instant] ELSE alerts
        /\ verdict' = [missed |-> total >= Threshold /\ ~alert /\ instant - alerts[s] >= Cooldown
                                  /\ instant >= after.until,
                       excess |-> alert /\ Len(Times(after, s)) > total,
                       early  |-> alert /\ instant - alerts[s] < Cooldown]
        /\ UNCHANGED instant

\* The event of a success tells how many failures went before; it changes
\* nothing.
Prior(s) ==
    Len(SelectSeq(Times(det, s), LAMBDA t : t >= instant - Window /\ t <= instant))

Init ==
    /\ det = NewAuth /\ instant = 0 /\ turn = [routine |-> 0, now |-> 0]
    /\ actual = [s \in Addresses |-> <<>>] /\ alerts = [s \in Addresses |-> Never]
    /\ verdict = Fine

Advance ==
    /\ instant < MaxInstant /\ instant' = instant + 1
    /\ turn' = [turn EXCEPT !.now = 0]
    /\ actual' = [s \in Addresses |-> After(actual[s], instant' - Window)]
    /\ verdict' = Fine
    /\ UNCHANGED <<det, alerts>>

Next == Advance \/ \E s \in Addresses : Failure(s)

Spec == Init /\ [][Next]_vars

---------------------------------------------------------------------------
(* Properties *)

\* Enough failures of a source within the window are alerted, unless it was
\* alerted within the cooldown or the detector admits a gap that reaches into
\* the window.
NoSilentMiss == ~verdict.missed

\* The failures a success is reported with are all there were, or the report
\* says that some may be missing.
EvidenceHonest ==
    \A s \in Addresses : Prior(s) <= InWindow(s) /\ (Prior(s) < InWindow(s) => instant < det.until)

\* Pruning, which forgets sources and their last alert, never leads to a
\* second alert within the cooldown, and no count exceeds the failures there
\* were.
NoExcessAlert == ~verdict.early /\ ~verdict.excess

\* The running totals of entries and slots agree with the slices however they
\* were trimmed, shrunk, grown and forgotten, and never exceed the limit.
SlotsAccounted ==
    /\ det.entries = Lengths(det, Held(det))
    /\ det.capacity = Slots(det, Held(det))
    /\ det.capacity <= EntryLimit
    /\ \A s \in Held(det) : Len(det.fails[s]) <= det.caps[s] /\ det.caps[s] <= MaxPerSource

=============================================================================
