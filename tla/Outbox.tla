------------------------------- MODULE Outbox -------------------------------
(***************************************************************************)
(* The notification outbox of one channel without durable dispatch intents *)
(* (Telegram, the webhook and the native channels): how an event becomes,  *)
(* joins or is kept from a message (internal/store/alerts.go), what        *)
(* silences and operator commands do to queued messages (silences.go,      *)
(* queue.go), and the worker that claims, paces and sends them             *)
(* (internal/notify/worker.go).  Delivery is at least once: what matters   *)
(* is that no event falls out of its message on the way, that withdrawn    *)
(* messages stay withdrawn, and that receivers are paced.                  *)
(*                                                                         *)
(* A message is known by the event that created it.  Every store method is *)
(* one transaction and one action; between two of them anything may        *)
(* happen.  Times are naturals, 0 stands for NULL.                         *)
(***************************************************************************)
EXTENDS Integers, Sequences, FiniteSets

CONSTANTS
    Events,         \* events, and the messages they may create
    Incident,       \* Events -> incident
    Kind,           \* Events -> detector kind
    Phase,          \* Events -> "start", "update" or "recovery"
    Size,           \* Events -> length of the rendered body
    Receivers,      \* immutable receiver identities
    Unknown,        \* "<channel>:unknown", no usable credential
    Configs,        \* configurations the daemon may be started with
    FirstConfig,    \* the one it is running with initially
    Mergeable,      \* whether bodies of this channel may be coalesced
    Interval,       \* minimum interval between requests, 0 for none
    RetryDelays,    \* what retryDelay may return
    Holds,          \* Retry-After values, or at least 30 seconds
    SilenceRules    \* [incident, kind] of the silences, Any matching all

CONSTANTS
    Lease,          \* claim lease, 2 minutes
    TTL,            \* OutboxTTL, 7 days
    SilenceTimes,   \* how long a silence may last
    MaxSilences,    \* active silences kept
    MaxAttempts,    \* MaxDeliveryAttempts
    MaxMessages,    \* queue capacity left to this channel, in messages
    MaxBytes,       \* ... and in bytes
    MaxSuppressed,  \* withdrawn messages kept, one global queue capacity
    PassLimit,      \* messages fetched by one pass
    Forever         \* 9999-12-31, an operator-released hold

CONSTANTS           \* bounds of the state space
    MaxClock,       \* last instant explored
    MaxRestarts,    \* crashes and restarts
    MaxOps          \* operator commands

ASSUME DataAssumption ==
    /\ "none" \notin Events     \* NoEvent, below
    /\ Phase \in [Events -> {"start", "update", "recovery"}]
    /\ Size \in [Events -> Nat]
    /\ Unknown \in Receivers
    /\ FirstConfig \in Configs
    /\ \A c \in Configs : c.dest \in Receivers /\ c.window \in Nat
                          /\ c.privacy \in {"full", "prefix", "hash"}
                          /\ c.enabled \in BOOLEAN
    /\ Mergeable \in BOOLEAN
ASSUME TimeAssumption ==
    /\ RetryDelays \cup Holds \cup SilenceTimes \subseteq Nat \ {0}
    /\ {Lease, TTL, MaxSilences, MaxAttempts, MaxMessages, MaxBytes, PassLimit,
        MaxSuppressed, MaxClock} \subseteq Nat \ {0}
    /\ {Interval, Forever, MaxRestarts, MaxOps} \subseteq Nat

VARIABLES
    now,        \* the clock
    rows,       \* notification_outbox
    decision,   \* event_notifications: what was decided for each event
    silences,   \* notification_silences in force or expired
    cooldown,   \* notification_cooldowns by receiver
    config,     \* the running configuration, and with it notification_targets
    worker,     \* the channel's delivery goroutine
    counts,     \* bounds: restarts and operator commands
    told,       \* observation: the body that was marked sent
    handled,    \* observation: messages claimed or retried by hand
    reserved,   \* observation: the interval the worker's request consumes
    lastPost    \* observation: the interval each receiver's last request consumed

tables == <<rows, decision, silences, cooldown>>
ghost  == <<told, handled, reserved, lastPost>>
vars   == <<now, tables, config, worker, counts, ghost>>

NoEvent == "none"
Any     == "any"
\* A body says how many events it stands for and shows the latest.
NoBody  == [count |-> 0, latest |-> NoEvent]
NoRow == [present |-> FALSE, dest |-> Unknown, created |-> 0, sent |-> FALSE,
          quarantined |-> FALSE, isolated |-> FALSE, suppressed |-> 0, lease |-> 0,
          attempts |-> 0, next |-> 0, mergeUntil |-> 0, expires |-> 0,
          body |-> NoBody]
Undecided == [what |-> "none", row |-> NoEvent]
Decided(what, m) == [what |-> what, row |-> m]
At(pc, batch) == [pc |-> pc, batch |-> batch, msg |-> NoEvent, body |-> NoBody, result |-> "none"]

Later(a, b)   == IF a >= b THEN a ELSE b
Earlier(a, b) == IF a <= b THEN a ELSE b

-----------------------------------------------------------------------------
(* Conditions the SQL statements share *)

Running     == worker.pc # "down"
Unsent(m)   == rows[m].present /\ ~rows[m].sent
Silenced(m) == rows[m].suppressed > 0
Live(m)     == Unsent(m) /\ ~Silenced(m) /\ ~rows[m].isolated /\ ~rows[m].quarantined
               /\ rows[m].expires > now
TargetOn(d) == config.dest = d /\ config.enabled /\ d # Unknown
Cool(d)     == cooldown[d] <= now
Pause(d, until) == [cooldown EXCEPT ![d] = Later(@, until)]
Active(s)   == s.expires > now
Matches(s, e) == s.incident \in {Any, Incident[e]} /\ s.kind \in {Any, Kind[e]}

Due(m) == /\ Live(m) /\ rows[m].next <= now /\ rows[m].lease <= now
          /\ TargetOn(rows[m].dest) /\ Cool(rows[m].dest)

\* ExpireNotifications
Expired(m)    == Unsent(m) /\ rows[m].expires <= now
SweptRows     == [m \in Events |-> IF Expired(m) THEN NoRow ELSE rows[m]]
SweptCooldown == [d \in Receivers |-> IF Cool(d) THEN 0 ELSE cooldown[d]]

-----------------------------------------------------------------------------
(* Admission: recordOneEventNotification, in the transaction that stores   *)
(* the event                                                               *)

\* outboxAdmissionUsage: everything neither sent nor suppressed counts.
Queued      == {m \in Events : Unsent(m) /\ ~Silenced(m)}
BytesOf(S)  == LET sum[T \in SUBSET S] ==
                     IF T = {} THEN 0
                     ELSE LET m == CHOOSE m \in T : TRUE
                          IN  Size[rows[m].body.latest] + sum[T \ {m}]
               IN  sum[S]

\* A recovery does not wait behind the update it ends: an untried update of
\* its incident becomes due at once and takes no more events.
\* mutant: updates wait for the end of their merge window
NotExpedited(e) == rows
Expedited(e) ==
    [m \in Events |->
        IF /\ Phase[e] = "recovery" /\ Phase[m] = "update" /\ Incident[m] = Incident[e]
           /\ Unsent(m) /\ rows[m].dest = config.dest /\ rows[m].attempts = 0
           /\ ~Silenced(m) /\ rows[m].lease = 0
        THEN [rows[m] EXCEPT !.next = Earlier(@, now), !.mergeUntil = 0]
        ELSE rows[m]]

Coalesces(e) == Mergeable /\ config.dest # Unknown /\ config.window > 0 /\ Phase[e] = "update"
\* The open message an update joins: its window not over, not claimed, not
\* tried, not withdrawn.
Open(m, e) ==
    /\ Live(m) /\ rows[m].dest = config.dest
    /\ Phase[m] = "update" /\ Incident[m] = Incident[e] /\ Kind[m] = Kind[e]
    /\ rows[m].mergeUntil > now /\ rows[m].lease = 0 /\ rows[m].attempts = 0
FirstOpen(m, e) ==
    Open(m, e) /\ \A n \in Events : Open(n, e) => rows[m].mergeUntil <= rows[n].mergeUntil

\* mutant: a joined message may grow past the queue's bytes
RoomToJoinAny(m, e) == m \in Events
RoomToJoin(m, e) == BytesOf(Queued) - Size[rows[m].body.latest] + Size[e] <= MaxBytes
RoomForNew(e)    == Cardinality(Queued) < MaxMessages /\ BytesOf(Queued) + Size[e] <= MaxBytes

NewRow(e) ==
    [NoRow EXCEPT !.present = TRUE, !.dest = config.dest, !.created = now,
                  !.isolated = (config.dest = Unknown),
                  !.next = IF Coalesces(e) THEN now + config.window ELSE now,
                  !.mergeUntil = IF Coalesces(e) THEN now + config.window ELSE 0,
                  !.expires = now + TTL, !.body = [count |-> 1, latest |-> e]]

\* No message was rendered, the channel being disabled; or a silence is in
\* force; either way no message is touched.
Withhold(e) ==
    /\ decision' = [decision EXCEPT ![e] =
            IF ~config.enabled THEN Decided("ineligible", NoEvent)
                               ELSE Decided("silenced", NoEvent)]
    /\ UNCHANGED rows

Join(e, m) ==
    IF RoomToJoin(m, e)
    THEN /\ rows' = [rows EXCEPT ![m].body = [count |-> @.count + 1, latest |-> e]]
         /\ decision' = [decision EXCEPT ![e] = Decided("merged", m)]
    ELSE /\ decision' = [decision EXCEPT ![e] = Decided("rejected", NoEvent)]
         /\ UNCHANGED rows

Create(e) ==
    IF RoomForNew(e)
    THEN /\ rows' = [Expedited(e) EXCEPT ![e] = NewRow(e)]
         /\ decision' = [decision EXCEPT ![e] = Decided("queued", e)]
    ELSE /\ rows' = Expedited(e)
         /\ decision' = [decision EXCEPT ![e] = Decided("rejected", NoEvent)]

InsertEventNotification(e) ==
    /\ Running /\ decision[e] = Undecided
    /\ IF ~config.enabled \/ \E s \in silences : Active(s) /\ Matches(s, e)
       THEN Withhold(e)
       ELSE IF Coalesces(e) /\ \E m \in Events : Open(m, e)
       THEN \E m \in Events : FirstOpen(m, e) /\ Join(e, m)
       ELSE Create(e)
    /\ UNCHANGED <<now, silences, cooldown, config, worker, counts, ghost>>

-----------------------------------------------------------------------------
(* The worker's pass *)

\* Fetch order: next_attempt, created_at; identities are random.
Before(m, n) == \/ rows[m].next < rows[n].next
                \/ rows[m].next = rows[n].next /\ rows[m].created <= rows[n].created
Orders(S) == {s \in [1 .. Cardinality(S) -> S] :
                \A i, j \in DOMAIN s : i < j => s[i] # s[j] /\ Before(s[i], s[j])}

\* PendingDestination: the sweep, then the due messages of this receiver.
PendingDestination ==
    /\ worker.pc = "idle"
    /\ rows' = SweptRows /\ cooldown' = SweptCooldown
    /\ \E s \in Orders({m \in Events : Due(m)}) :
         worker' = At("pass", SubSeq(s, 1, Earlier(PassLimit, Len(s))))
    /\ UNCHANGED <<now, decision, silences, config, counts, ghost>>

\* ClaimNotification: the final body is read in the claiming transaction.
ClaimNotification ==
    LET m == Head(worker.batch) IN
    /\ worker.pc = "pass" /\ worker.batch # <<>>
    /\ IF Due(m)
       THEN /\ rows' = [rows EXCEPT ![m].lease = now + Lease]
            /\ handled' = handled \cup {m}
            /\ worker' = [At("claimed", Tail(worker.batch)) EXCEPT !.msg = m, !.body = rows[m].body]
       ELSE /\ worker' = At("pass", Tail(worker.batch))
            /\ UNCHANGED <<rows, handled>>
    /\ UNCHANGED <<now, decision, silences, cooldown, config, counts, told, reserved, lastPost>>

PassOver ==
    /\ worker.pc = "pass" /\ worker.batch = <<>>
    /\ worker' = At("idle", <<>>)
    /\ UNCHANGED <<now, tables, config, counts, ghost>>

\* NotificationDeliveryAllowed
DeliveryAllowed(m) == Live(m) /\ rows[m].lease > now /\ TargetOn(rows[m].dest)

\* The check after the claim, and once more after a reservation.
Check ==
    /\ worker.pc \in {"claimed", "reserved"}
    /\ worker' = [worker EXCEPT !.pc =
            IF ~DeliveryAllowed(worker.msg) THEN "release"
            ELSE IF worker.pc = "claimed" /\ Interval > 0 THEN "allowed" ELSE "ready"]
    /\ UNCHANGED <<now, tables, config, counts, ghost>>

\* mutant: the interval is not recorded before the request
PausedAfterwards(m) == cooldown
Paused(m) == Pause(rows[m].dest, now + Interval)

ReserveNotificationAttempt ==
    LET m == worker.msg IN
    /\ worker.pc = "allowed"
    /\ IF DeliveryAllowed(m) /\ Cool(rows[m].dest)
       THEN /\ cooldown' = Paused(m)
            /\ worker' = [worker EXCEPT !.pc = "reserved"]
            /\ reserved' = now
       ELSE /\ worker' = [worker EXCEPT !.pc = "release"]
            /\ UNCHANGED <<cooldown, reserved>>
    /\ UNCHANGED <<now, rows, decision, silences, config, counts, told, handled, lastPost>>

\* The request leaves with the body the claim has read.
Send ==
    /\ worker.pc = "ready"
    /\ worker' = [worker EXCEPT !.pc = "sending"]
    /\ lastPost' = [lastPost EXCEPT ![config.dest] = reserved]
    /\ UNCHANGED <<now, tables, config, counts, told, handled, reserved>>

Answer ==
    /\ worker.pc = "sending"
    /\ \E r \in {"ok", "failed", "limited", "suspended", "permanent"} :
         worker' = [worker EXCEPT !.pc = "answered", !.result = r]
    /\ UNCHANGED <<now, tables, config, counts, ghost>>

MarkSentWithCooldown(m) ==
    /\ IF Unsent(m)
       THEN /\ rows' = [rows EXCEPT ![m].sent = TRUE, ![m].lease = 0]
            /\ cooldown' = IF Interval > 0 THEN Pause(rows[m].dest, now + Interval) ELSE cooldown
            /\ told' = [told EXCEPT ![m] = worker.body]
       ELSE UNCHANGED <<rows, cooldown, told>>
    /\ worker' = At("pass", worker.batch)

Tried(m, next) ==
    IF Unsent(m)
    THEN [rows EXCEPT ![m].lease = 0, ![m].attempts = @ + 1, ![m].next = next,
                      ![m].quarantined = @ \/ rows[m].attempts + 1 >= MaxAttempts]
    ELSE rows

MarkFailed(m) ==
    /\ \E d \in RetryDelays : rows' = Tried(m, now + Later(d, Interval))
    /\ UNCHANGED <<cooldown, told>>
    /\ worker' = At("pass", worker.batch)

\* The rest of the pass is for the same receiver and is given up.
MarkRateLimited(m) ==
    /\ \E until \in IF worker.result = "suspended" THEN {Forever} ELSE {now + d : d \in Holds} :
         /\ rows' = Tried(m, Later(rows[m].next, until))
         /\ cooldown' = Pause(config.dest, until)
    /\ UNCHANGED told
    /\ worker' = At("pass", <<>>)

\* An expired message makes quarantine report an error, which ends the pass.
MarkQuarantined(m) ==
    /\ IF Unsent(m) /\ rows[m].expires > now
       THEN /\ rows' = [rows EXCEPT ![m].lease = 0, ![m].attempts = @ + 1, ![m].quarantined = TRUE]
            /\ worker' = At("pass", worker.batch)
       ELSE /\ worker' = At("idle", <<>>)
            /\ UNCHANGED rows
    /\ UNCHANGED <<cooldown, told>>

Record ==
    /\ worker.pc = "answered"
    /\ CASE worker.result = "ok"        -> MarkSentWithCooldown(worker.msg)
         [] worker.result = "failed"    -> MarkFailed(worker.msg)
         [] worker.result = "permanent" -> MarkQuarantined(worker.msg)
         [] OTHER                       -> MarkRateLimited(worker.msg)
    /\ UNCHANGED <<now, decision, silences, config, counts, handled, reserved, lastPost>>

Released(m) == IF Unsent(m) THEN [rows EXCEPT ![m].lease = 0] ELSE rows

ReleaseNotificationClaim ==
    /\ worker.pc = "release"
    /\ rows' = Released(worker.msg)
    /\ worker' = At("pass", worker.batch)
    /\ UNCHANGED <<now, decision, silences, cooldown, config, counts, ghost>>

\* A store error ends the pass; the claim stays until its lease runs out.
WorkerError ==
    /\ worker.pc \in {"claimed", "allowed", "reserved", "release", "answered"}
    /\ worker' = At("idle", <<>>)
    /\ UNCHANGED <<now, tables, config, counts, ghost>>

-----------------------------------------------------------------------------
(* Operator commands *)

Command ==
    /\ Running /\ counts.ops < MaxOps
    /\ counts' = [counts EXCEPT !.ops = @ + 1]

RetryNotification(m) ==
    /\ Command
    /\ Unsent(m) /\ ~rows[m].isolated /\ ~Silenced(m)
    /\ rows[m].lease <= now /\ rows[m].expires > now
    /\ rows' = [rows EXCEPT ![m] = [@ EXCEPT !.attempts = 0, !.quarantined = FALSE, !.lease = 0,
                                             !.mergeUntil = 0, !.next = now]]
    /\ handled' = handled \cup {m}
    /\ UNCHANGED <<now, decision, silences, cooldown, config, worker, told, reserved, lastPost>>

QuarantineNotification(m) ==
    /\ Command
    /\ Unsent(m) /\ rows[m].expires > now
    /\ rows' = [rows EXCEPT ![m].quarantined = TRUE]
    /\ UNCHANGED <<now, decision, silences, cooldown, config, worker, ghost>>

\* The one command that lifts a receiver's pause.
ResumeDestination(d) ==
    /\ Command
    /\ cooldown' = [cooldown EXCEPT ![d] = 0]
    /\ rows' = [m \in Events |->
            IF /\ Unsent(m) /\ rows[m].dest = d /\ ~rows[m].quarantined /\ ~Silenced(m)
               /\ rows[m].expires > now
            THEN [rows[m] EXCEPT !.next = Later(now, rows[m].mergeUntil)] ELSE rows[m]]
    /\ reserved' = IF d = config.dest THEN 0 ELSE reserved
    /\ lastPost' = [lastPost EXCEPT ![d] = 0]
    /\ UNCHANGED <<now, decision, silences, config, worker, told, handled>>

DiscardIsolatedNotifications ==
    /\ Command
    /\ rows' = [m \in Events |->
            IF Unsent(m) /\ rows[m].isolated /\ ~Silenced(m)
            THEN [rows[m] EXCEPT !.suppressed = now, !.body = NoBody] ELSE rows[m]]
    /\ UNCHANGED <<now, decision, silences, cooldown, config, worker, ghost>>

\* What a new silence withdraws, claimed messages included: the request under
\* way may finish, but it is not repeated.
\* mutant: a claimed message is left to its worker
HitIfFree(m, rule) == Unsent(m) /\ ~Silenced(m) /\ rows[m].expires > now /\ Matches(rule, m)
                      /\ rows[m].lease <= now
Hit(m, rule) == Unsent(m) /\ ~Silenced(m) /\ rows[m].expires > now /\ Matches(rule, m)

\* Withdrawn messages are kept up to a limit, claimed and recent ones first;
\* a claimed one is never dropped.
Evictions(r) ==
    LET out == {m \in Events : r[m].present /\ ~r[m].sent /\ r[m].suppressed > 0}
        claimed(m) == r[m].lease > now
        ahead(m, n) == \/ claimed(m) /\ ~claimed(n)
                       \/ claimed(m) = claimed(n) /\ r[m].suppressed > r[n].suppressed
        kept == {K \in SUBSET out :
                    /\ Cardinality(K) = Earlier(Cardinality(out), MaxSuppressed)
                    /\ \A k \in K, n \in out \ K : ~ahead(n, k)}
    IN  {{m \in out \ K : ~claimed(m)} : K \in kept}

AddSilence(rule, d) ==
    LET kept == {s \in silences : Active(s)}
        hits == {m \in Events : Hit(m, rule)}
        cut  == [m \in Events |-> IF m \in hits
                                  THEN [rows[m] EXCEPT !.suppressed = now, !.body = NoBody]
                                  ELSE rows[m]]
    IN
    /\ Command
    /\ Cardinality(kept) < MaxSilences
    /\ silences' = kept \cup {[id |-> counts.ops, incident |-> rule.incident, kind |-> rule.kind,
                               expires |-> now + d]}
    /\ decision' = [e \in Events |-> IF decision[e].row \in hits
                                     THEN [decision[e] EXCEPT !.what = "silenced"]
                                     ELSE decision[e]]
    /\ \E S \in Evictions(cut) : rows' = [m \in Events |-> IF m \in S THEN NoRow ELSE cut[m]]
    /\ UNCHANGED <<now, cooldown, config, worker, ghost>>

RemoveSilence(s) ==
    /\ Command
    /\ silences' = silences \ {s}
    /\ UNCHANGED <<now, rows, decision, cooldown, config, worker, ghost>>

-----------------------------------------------------------------------------
(* Restarts and time *)

Crash ==
    /\ Running /\ counts.restarts < MaxRestarts
    /\ worker' = At("down", <<>>)
    /\ counts' = [counts EXCEPT !.restarts = @ + 1]
    /\ UNCHANGED <<now, tables, config, ghost>>

\* An orderly stop interrupts the request and gives the claim back.
StopWhileSending ==
    /\ worker.pc = "sending" /\ counts.restarts < MaxRestarts
    /\ rows' = Released(worker.msg)
    /\ worker' = At("down", <<>>)
    /\ counts' = [counts EXCEPT !.restarts = @ + 1]
    /\ UNCHANGED <<now, decision, silences, cooldown, config, ghost>>

\* ConfigureNotificationTarget: another receiver or a stricter privacy mode
\* isolates the messages rendered before.
Stricter(c) == c.privacy # config.privacy /\ c.privacy # "full"
Retargeted(c) ==
    [m \in Events |->
        IF /\ Unsent(m) /\ ~Silenced(m) /\ ~rows[m].isolated
           /\ rows[m].dest # c.dest \/ Stricter(c)
        THEN [rows[m] EXCEPT !.isolated = TRUE, !.lease = 0] ELSE rows[m]]

Start(c) ==
    /\ worker.pc = "down"
    /\ rows' = Retargeted(c)
    /\ config' = c
    /\ worker' = At("idle", <<>>)
    /\ UNCHANGED <<now, decision, silences, cooldown, counts, ghost>>

Tick ==
    /\ now < MaxClock
    /\ now' = now + 1
    /\ UNCHANGED <<tables, config, worker, counts, ghost>>

-----------------------------------------------------------------------------

Init ==
    /\ now = 1
    /\ rows = [m \in Events |-> NoRow]
    /\ decision = [e \in Events |-> Undecided]
    /\ silences = {}
    /\ cooldown = [d \in Receivers |-> 0]
    /\ config = FirstConfig
    /\ worker = At("idle", <<>>)
    /\ counts = [restarts |-> 0, ops |-> 0]
    /\ told = [m \in Events |-> NoBody]
    /\ handled = {}
    /\ reserved = 0 /\ lastPost = [d \in Receivers |-> 0]

WorkerStep ==
    \/ PendingDestination \/ ClaimNotification \/ PassOver \/ Check
    \/ ReserveNotificationAttempt \/ Send \/ Answer \/ Record
    \/ ReleaseNotificationClaim \/ WorkerError
OperatorStep ==
    \/ \E m \in Events : RetryNotification(m) \/ QuarantineNotification(m)
    \/ \E d \in Receivers : ResumeDestination(d)
    \/ DiscardIsolatedNotifications
    \/ \E rule \in SilenceRules, d \in SilenceTimes : AddSilence(rule, d)
    \/ \E s \in silences : RemoveSilence(s)

Next ==
    \/ \E e \in Events : InsertEventNotification(e)
    \/ WorkerStep \/ OperatorStep
    \/ Crash \/ StopWhileSending \/ \E c \in Configs : Start(c)
    \/ Tick

Spec == Init /\ [][Next]_vars

-----------------------------------------------------------------------------
(* Types *)

Body == [count : Nat, latest : Events \cup {NoEvent}]
Row == [present : BOOLEAN, dest : Receivers, created : Nat, sent : BOOLEAN,
        quarantined : BOOLEAN, isolated : BOOLEAN, suppressed : Nat, lease : Nat,
        attempts : 0 .. MaxAttempts, next : Nat, mergeUntil : Nat, expires : Nat,
        body : Body]
Decision == [what : {"none", "ineligible", "silenced", "queued", "merged", "rejected"},
             row : Events \cup {NoEvent}]
Busy   == {"claimed", "allowed", "reserved", "ready", "sending", "answered", "release"}
Worker == [pc : {"down", "idle", "pass"} \cup Busy, batch : Seq(Events),
           msg : Events \cup {NoEvent}, body : Body,
           result : {"none", "ok", "failed", "limited", "suspended", "permanent"}]

\* Every column stays in its domain; a message is never tried more often than
\* MaxDeliveryAttempts without an operator's retry.
TypeInvariant ==
    /\ now \in 1 .. MaxClock
    /\ rows \in [Events -> Row]
    /\ decision \in [Events -> Decision]
    /\ cooldown \in [Receivers -> Nat]
    /\ config \in Configs
    /\ worker \in Worker /\ (worker.pc \in Busy => worker.msg \in Events)
    /\ counts \in [restarts : Nat, ops : Nat]
    /\ told \in [Events -> Body] /\ handled \in SUBSET Events
    /\ reserved \in Nat /\ lastPost \in [Receivers -> Nat]

-----------------------------------------------------------------------------
(* Safety *)

\* The queue stays within its messages and bytes although bodies grow when
\* events join them (alerts.go, the admission test of a joined message).
QueueBounded == Cardinality(Queued) <= MaxMessages /\ BytesOf(Queued) <= MaxBytes

\* No event falls out of its message: when a message is marked sent, the body
\* that went out counted every event that was queued as it or merged into it,
\* although events keep joining until the claim (alerts.go: "A stale
\* prefetched body can never race with coalescing").
SentTellsAll ==
    \A m \in Events : rows[m].present /\ rows[m].sent =>
        told[m].count = Cardinality({e \in Events : decision[e].row = m})

\* A silence is obeyed until it ends: no message of its incident is claimed
\* while it is in force, not even one that was claimed and failed when the
\* silence was added, and one withdrawn by it is never claimed at all.
Silent ==
    worker.pc = "pass" /\ worker'.pc = "claimed" =>
        /\ \A s \in silences : Active(s) => ~Matches(s, worker'.msg)
        /\ \A e \in Events : decision[e].row = worker'.msg => decision[e].what # "silenced"

\* A recovery does not overtake the updates it ends: when one is claimed, no
\* earlier update of its incident is still waiting to be claimed for the first
\* time (on the channels without pacing, which are the ones that coalesce and
\* so delay updates).
NotOvertaking ==
    worker.pc = "pass" /\ worker'.pc = "claimed" /\ Phase[worker'.msg] = "recovery" =>
        \A m \in Events \ handled :
            /\ Live(m) /\ Phase[m] = "update" /\ Incident[m] = Incident[worker'.msg]
            /\ rows[m].dest = rows[worker'.msg].dest
            => rows[m].created >= rows[worker'.msg].created

\* A receiver is paced whatever happens between two requests: failures,
\* crashes and restarts, changes of receiver and back.  Each request consumes
\* an interval of its own, and only an operator's resume waives one.
PacedRequests ==
    [][worker.pc = "ready" /\ worker'.pc = "sending" /\ Interval > 0
        /\ lastPost[config.dest] > 0 /\ reserved > 0 =>
            reserved >= lastPost[config.dest] + Interval]_vars

\* A message isolated from its receiver is never sent again, whatever the
\* configuration changes back to, and one that was sent is never claimed.
StaysIsolated ==
    \A m \in Events :
        /\ rows[m].present /\ (rows[m].isolated \/ rows[m].sent) /\ rows'[m].present
        => /\ rows[m].isolated => rows'[m].isolated
           /\ rows'[m].lease <= rows[m].lease
=============================================================================
