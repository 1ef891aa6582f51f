------------------------- MODULE InterfaceCounters -------------------------
(***************************************************************************)
(* The interface poll (internal/collector: netdev.go, netdev_set.go,       *)
(* interfaces.go, routes_linux.go), its callbacks in the daemon            *)
(* (internal/daemon: interfaces.go, app.go) and AddInterface in the store. *)
(*                                                                         *)
(* Every poll resolves the selected interfaces, reads their counters one   *)
(* after the other, sends what passed since the previous reading to the    *)
(* daemon's loop and reports whether the counters are complete.  Links     *)
(* carry traffic, go down and are created anew while it does.              *)
(***************************************************************************)
EXTENDS Integers, Sequences, FiniteSets, FiniteSetsExt

CONSTANTS
    Names,       \* interface names, 1 .. n in their order
    Volatile,    \* the names whose links are replaced, go down and come back
    MaxDetail,   \* interfaces kept apart in one hour (32 in AddInterface)
    Capacity,    \* capacity of the totals channel
    MaxIndex,    \* bound: kernel indexes given out
    MaxBytes,    \* bound: units of traffic carried
    MaxPolls,    \* bound: polls told apart; later ones share the last number
    MaxTrouble   \* bound: failed discoveries, reads and writes

VARIABLES
    link,      \* per name: up, index (0: no such link) and bytes of its counter
    nextIndex, \* next kernel index
    carried,   \* history: bytes each name carried
    base,      \* baselines: index, bytes and valid, per name
    todo,      \* names the poll still has to read
    refs,      \* resolved selection of this poll: index per name, 0 if unavailable
    found,     \* discovery of this poll: "all", "partial" or "failed"
    phase,     \* "wait", "read", "report"
    healthy,   \* allHealthy of this poll
    readFailed,
    reported,  \* what report last delivered: "none", "healthy", "degraded"
    verdict,   \* history: what the last poll meant to deliver
    sent,      \* history: bytes sent, per name
    lost,      \* history: bytes no reading can send any more, per name
    dark,      \* history: 0 unless bytes were lost that no poll has reported, then 1
               \* and the polls that ended healthy since
    chan,      \* totals in flight
    detail,    \* interface_detail_hourly, with _overflow/
    total,     \* interface_hourly
    refused,   \* history: bytes whose write failed
    overflowGap, \* the gap interface_detail_cardinality is recorded
    state,     \* component_status of interface_counter
    known,     \* a.interfaces: index per name of the last selection
    observed,  \* a.interfacesObserved
    seenAt,    \* a.interfaceSelectionAt
    pending,   \* a.interfaceGap: a set of at most one gap
    gaps,      \* recorded gaps interface_selection_changed
    changes,   \* history: the changes of selection and since when
    polls, troubles

poll == <<base, todo, refs, found, phase, healthy, readFailed>>
told == <<reported, state>>
history == <<sent, lost, dark>>
stored == <<detail, total, refused, overflowGap>>
selection == <<known, observed, seenAt, pending, gaps, changes>>
vars == <<link, nextIndex, carried, poll, told, verdict, history, chan, stored, selection, polls, troubles>>

Other == 0      \* _overflow/
NoBase == [index |-> 0, bytes |-> 0, valid |-> FALSE]

\* A step that goes well, or one that fails while the bound lasts.
Outcome(ok) == \/ ok /\ UNCHANGED troubles
               \/ ~ok /\ troubles < MaxTrouble /\ troubles' = troubles + 1

---------------------------------------------------------------------------
(* The host. *)

\* All bytes of a count per name.
All(f) == MapThenSumSet(LAMBDA n : f[n], DOMAIN f)

Carry(n) ==
    /\ link[n].up /\ All(carried) < MaxBytes
    /\ link' = [link EXCEPT ![n].bytes = @ + 1]
    /\ carried' = [carried EXCEPT ![n] = @ + 1]
    /\ UNCHANGED <<nextIndex, poll, told, verdict, history, chan, stored, selection, polls, troubles>>

\* A link is replaced by a new one of the same name, with fresh counters.
Recreate(n) ==
    /\ nextIndex <= MaxIndex /\ nextIndex' = nextIndex + 1
    /\ link' = [link EXCEPT ![n] = [up |-> TRUE, index |-> nextIndex, bytes |-> 0]]
    /\ UNCHANGED <<carried, poll, told, verdict, history, chan, stored, selection, polls, troubles>>

\* A link goes down or comes back; its counters stay.
Flap(n) ==
    /\ troubles < MaxTrouble /\ troubles' = troubles + 1
    /\ link' = [link EXCEPT ![n].up = ~@]
    /\ UNCHANGED <<nextIndex, carried, poll, told, verdict, history, chan, stored, selection, polls>>

---------------------------------------------------------------------------
(* One poll. *)

\* ResolveInterfaces, or the discovery of default routes: a link that is down
\* is selected with index 0; discovery may be partial or fail.
Resolve ==
    /\ phase = "wait" /\ polls' = Min({MaxPolls, polls + 1})
    /\ \E ok \in BOOLEAN : Outcome(ok) /\ found' \in (IF ok THEN {"all"} ELSE {"partial", "failed"})
    /\ refs' = [n \in Names |-> IF link[n].up THEN link[n].index ELSE 0]
    /\ IF found' = "failed"
       THEN phase' = "report" /\ todo' = {} /\ base' = [n \in Names |-> NoBase]
       ELSE phase' = "read" /\ todo' = Names /\ UNCHANGED base
    /\ healthy' = (found' = "all") /\ readFailed' = FALSE
    /\ UNCHANGED <<link, nextIndex, carried, told, verdict, history, chan, stored, selection>>

ReadFails(n) ==
    /\ base' = [base EXCEPT ![n].valid = FALSE]
    /\ readFailed' = TRUE /\ healthy' = FALSE
    /\ UNCHANGED <<chan, history>>

\* A reading that continues the baseline is sent; any other only becomes one.
Continues(n) ==
    base[n].valid /\ base[n].index = refs[n] /\ link[n].bytes >= base[n].bytes

\* What was carried and not sent by the time of a reading is lost.
Lose(n, bytes) ==
    /\ sent' = [sent EXCEPT ![n] = @ + bytes]
    /\ lost' = [lost EXCEPT ![n] = carried[n] - sent'[n]]
    /\ dark' = IF dark = 0 /\ lost'[n] > lost[n] THEN 1 ELSE dark

Send(n) ==
    /\ Len(chan) < Capacity
    /\ chan' = Append(chan, [name |-> n, bytes |-> link[n].bytes - base[n].bytes])
    /\ Lose(n, link[n].bytes - base[n].bytes)
    /\ UNCHANGED healthy

Baseline(n) == [index |-> refs[n], bytes |-> link[n].bytes, valid |-> TRUE]

\* Mutant: the baseline is only set when there is none to continue.
ReadsKeepingBase(n) ==
    /\ IF Continues(n) THEN Send(n) /\ UNCHANGED base
       ELSE /\ healthy' = FALSE /\ Lose(n, 0) /\ UNCHANGED chan
            /\ base' = [base EXCEPT ![n] = Baseline(n)]
    /\ UNCHANGED readFailed

Reads(n) ==
    /\ IF Continues(n) THEN Send(n) ELSE healthy' = FALSE /\ Lose(n, 0) /\ UNCHANGED chan
    /\ base' = [base EXCEPT ![n] = Baseline(n)]
    /\ UNCHANGED readFailed

Read(n) ==
    /\ phase = "read" /\ todo # {} /\ n = Min(todo) /\ todo' = todo \ {n}
    /\ IF refs[n] = 0 THEN ReadFails(n) /\ UNCHANGED troubles
       ELSE \E ok \in BOOLEAN : Outcome(ok) /\ IF ok THEN Reads(n) ELSE ReadFails(n)
    /\ UNCHANGED <<link, nextIndex, carried, refs, found, phase, told, verdict, stored, selection, polls>>

\* report: a change of health is delivered by a callback that writes the
\* component's state; a failed callback leaves the change to the next poll.
Report(wrote, good) ==
    LET new == IF good THEN "healthy" ELSE "degraded"
    IN  IF reported = new \/ ~wrote THEN UNCHANGED told
        ELSE reported' = new /\ state' = new

\* updateInterfaces: an interface with another index than before, or a
\* selection of another size, opens a gap or extends the one not yet recorded.
GapStart == IF pending # {} THEN (CHOOSE g \in pending : TRUE).start ELSE seenAt
Selected == IF found = "failed" THEN [n \in {} |-> 0] ELSE refs
Changed == observed /\ Selected # known
NewGap == IF Changed THEN {[start |-> GapStart, end |-> polls]} ELSE pending

\* The poll ends: its health is reported, then the selection is handed over.
\* A first poll that only sets baselines reports nothing.  A gap that cannot
\* be recorded stays pending and is reported as a failure.
Finish ==
    /\ phase # "wait" /\ todo = {} /\ phase' = "wait"
    /\ \E wrote, recorded \in BOOLEAN :
        LET good  == healthy /\ found = "all" /\ recorded
            quiet == ~healthy /\ found = "all" /\ reported = "none" /\ ~readFailed /\ recorded
        IN  /\ Outcome(wrote /\ recorded)
            /\ ~recorded => NewGap # {}
            /\ IF quiet THEN UNCHANGED <<told, verdict>>
               ELSE Report(wrote, good) /\ verdict' = IF good THEN "healthy" ELSE "degraded"
            /\ dark' = IF good /\ dark > 0 THEN Min({3, dark + 1}) ELSE 0
            /\ gaps' = IF recorded THEN gaps \cup NewGap ELSE gaps
            /\ pending' = IF recorded THEN {} ELSE NewGap
    /\ changes' = IF Changed THEN changes \cup {[start |-> seenAt, end |-> polls]} ELSE changes
    /\ known' = Selected /\ observed' = TRUE /\ seenAt' = polls
    /\ UNCHANGED <<link, nextIndex, carried, base, todo, refs, found, healthy, readFailed,
                   sent, lost, chan, stored, polls>>

---------------------------------------------------------------------------
(* The daemon's loop. *)

\* AddInterface: the total, and the interface's own row or the common one.
RowFor(n) ==
    IF n \in DOMAIN detail THEN n
    ELSE IF Cardinality(DOMAIN detail \ {Other}) >= MaxDetail THEN Other ELSE n

AddTo(row, bytes) ==
    [r \in DOMAIN detail \cup {row} |->
        (IF r \in DOMAIN detail THEN detail[r] ELSE 0) + (IF r = row THEN bytes ELSE 0)]

AddInterface ==
    /\ chan # <<>> /\ chan' = Tail(chan)
    /\ LET d == Head(chan) IN
       \E ok \in BOOLEAN :
        /\ Outcome(ok)
        /\ IF ok
           THEN /\ detail' = AddTo(RowFor(d.name), d.bytes)
                /\ total' = total + d.bytes
                /\ overflowGap' = (overflowGap \/ RowFor(d.name) = Other)
                /\ UNCHANGED refused
           ELSE refused' = refused + d.bytes /\ UNCHANGED <<detail, total, overflowGap>>
    /\ UNCHANGED <<link, nextIndex, carried, poll, told, verdict, history, selection, polls>>

Init ==
    /\ link = [n \in Names |-> [up |-> TRUE, index |-> 1, bytes |-> 0]]
    /\ nextIndex = 2
    /\ carried = [n \in Names |-> 0]
    /\ sent = [n \in Names |-> 0] /\ lost = [n \in Names |-> 0]
    /\ base = [n \in Names |-> NoBase]
    /\ todo = {} /\ refs = [n \in Names |-> 0] /\ found = "failed" /\ phase = "wait"
    /\ healthy = FALSE /\ readFailed = FALSE
    /\ reported = "none" /\ verdict = "none" /\ dark = 0 /\ chan = <<>>
    /\ detail = [r \in {} |-> 0] /\ total = 0 /\ refused = 0 /\ overflowGap = FALSE
    /\ state = "degraded"
    /\ known = [n \in {} |-> 0] /\ observed = FALSE /\ seenAt = 0
    /\ pending = {} /\ gaps = {} /\ changes = {}
    /\ polls = 0 /\ troubles = 0

Next == \/ \E n \in Names : Carry(n) \/ Read(n)
        \/ \E n \in Volatile : Recreate(n) \/ Flap(n)
        \/ Resolve \/ Finish \/ AddInterface

\* The poll, one goroutine, follows its ticker, and the daemon's loop receives
\* from the channel.
PollStep == Resolve \/ (\E n \in Names : Read(n)) \/ Finish
Spec == Init /\ [][Next]_vars /\ WF_vars(PollStep) /\ WF_vars(AddInterface)

---------------------------------------------------------------------------
(* Properties *)

\* However links are replaced, fail or come back between two readings, no byte
\* is counted twice: what was sent was carried, and the rows per interface,
\* the common one included, add up to the total.
NoByteTwice ==
    /\ \A n \in Names : sent[n] <= carried[n]
    /\ total = All(detail)
    /\ total + refused + MapThenSumSet(LAMBDA i : chan[i].bytes, DOMAIN chan) = All(sent)

\* Bytes no reading can send are followed by a poll that reports degraded
\* counters; only the poll in which a link was replaced between its discovery
\* and its reading may still look healthy.
LossIsReported == dark < 3

\* Every change of the selection lies in a recorded or pending gap, however
\* often recording one failed in between.
SelectionGaps ==
    \A c \in changes : \E g \in gaps \cup pending : g.start <= c.start /\ g.end >= c.end

\* What the polls find reaches the component's recorded state: again and again
\* the two agree.
HealthRecorded == []<>(verdict = "none" \/ state = verdict)
=============================================================================
