-------------------------- MODULE OfficialDispatch --------------------------
(***************************************************************************)
(* One official-account notification channel of noderampartd: the durable  *)
(* outbox rows and dispatch intents of internal/store/official_dispatch.go *)
(* and queue.go, the delivery worker of internal/notify/worker_official.go *)
(* that turns an intent into one HTTPS POST, the operator actions of the   *)
(* control socket, daemon restarts, backup and restore, and the provider   *)
(* at the far end of the wire.                                             *)
(*                                                                         *)
(* Every store method is one SQLite transaction under the writer lock, so  *)
(* it is one action.  Everything the worker does between two transactions  *)
(* is a step of its own: a crash, a tick of the clock, an operator command *)
(* or the provider may come in between.                                    *)
(*                                                                         *)
(* Times are milliseconds in the code and naturals here; an absent time    *)
(* (NULL or 0) is 0.                                                       *)
(***************************************************************************)
EXTENDS Integers, FiniteSets

CONSTANTS
    Channel,        \* the official channel this instance models
    Msgs,           \* outbox row identities (random IDs, never reused)
    Dests,          \* immutable receiver identities
    UnknownDest,    \* "<channel>:unknown", no usable credential
    Kind,           \* Msgs -> logical kind ("event", "daily", "test")
    Segments,       \* Msgs -> estimated SMS segments
    NoBasis,        \* the empty consent basis
    Configs,        \* channel configurations the daemon may be started with
    FirstConfig,    \* the one it is running with initially
    RetryAfters     \* Retry-After values the provider may return (0: none)

CONSTANTS
    Lease,          \* claim lease and poll lease, 2 minutes
    SendTimeout,    \* context timeout around Dispatch, 30 seconds
    Interval,       \* MinimumInterval of the channel
    UnknownWait,    \* least wait after an unknown outcome, 30 seconds
    RefusedWait,    \* least wait after a proved refusal, 1 second
    LineWindow,     \* OfficialLINEWindow, 24h - 5m
    KeyLife,        \* how long LINE remembers a retry key, 24h
    TTL,            \* OutboxTTL, 7 days
    Day,            \* length of a UTC day
    BudgetDays,     \* day rows kept per channel, 400
    MaxAttempts,    \* MaxDeliveryAttempts
    PollWait,       \* least wait between status GETs, 30 seconds
    PollDeadline,   \* OfficialPollDeadline
    MaxPolls,       \* MaxOfficialPollAttempts
    Forever         \* 9999-12-31, an operator-released hold

CONSTANTS           \* bounds of the state space
    MaxClock,       \* last instant explored
    MaxBack,        \* how far the wall clock may be set back in total
    MaxRestarts,    \* crashes and configuration restarts
    MaxOps,         \* operator commands
    MaxRestores     \* restores from a backup

LINE   == Channel = "line"
Twilio == Channel = "twilio_sms"
Paid   == Channel \in {"twilio_sms", "whatsapp_cloud"}

ASSUME ChannelAssumption ==
    Channel \in {"qqbot", "line", "twilio_sms", "whatsapp_cloud"}
ASSUME DataAssumption ==
    /\ UnknownDest \in Dests
    /\ Segments \in [Msgs -> Nat]
    /\ FirstConfig \in Configs
    /\ \A c \in Configs :
         /\ c.dest \in Dests
         /\ {c.enabled, c.revoked, c.documented, c.cost, c.recovery, c.stricter}
              \subseteq BOOLEAN
         /\ c.consent \in {"none", "kept", "renewed"}
         /\ c.limits \in [messages : Nat, segments : Nat, perMessage : Nat]
    /\ RetryAfters \subseteq Nat /\ 0 \in RetryAfters
ASSUME TimeAssumption ==
    /\ {Lease, SendTimeout, Interval, UnknownWait, RefusedWait, LineWindow,
        KeyLife, TTL, Day, BudgetDays, MaxAttempts, PollWait, PollDeadline,
        MaxPolls, Forever} \subseteq Nat \ {0}
    /\ {MaxClock, MaxBack, MaxRestarts, MaxOps, MaxRestores} \subseteq Nat
    /\ Forever > MaxClock /\ MaxBack < MaxClock
\* The five minutes between the local bound and LINE's 24 hours cover the
\* lease and the request timeout.
ASSUME WindowAssumption == LineWindow + Lease + SendTimeout <= KeyLife

VARIABLES
    clock,      \* true time
    back,       \* how far the wall clock has been set back so far
    outbox,     \* notification_outbox rows of the channel
    state,      \* notification_dispatch.state ("absent": no row)
    intent,     \* the other columns of notification_dispatch
    policy,     \* the channel's row of official_channel_policy
    target,     \* the channel's row of notification_targets
    cooldown,   \* notification_cooldowns by destination (0: no row)
    usage,      \* official_budget_usage by UTC day
    worker,     \* the channel's delivery goroutine
    wire,       \* POSTs that left this host and are not decided yet
    backup,     \* the backup file: {} or one snapshot
    counts,     \* bounds: restarts, operator commands, restores
    seen,       \* observation: rows ever admitted
    deliveries, \* observation: messages the provider really accepted
    firstPost,  \* observation: true time of a row's first POST
    posted,     \* observation: <<row, UTC day it was debited on>> of POSTs
    optedOut,   \* observation: wall time of the last platform opt-out
    gets        \* observation: status GETs issued for a row

store == <<outbox, state, intent, policy, target, cooldown, usage>>
ghost == <<seen, deliveries, firstPost, posted, optedOut, gets>>
vars  == <<clock, back, store, worker, wire, backup, counts, ghost>>

Now     == clock - back
DayOf(t) == t \div Day
Days    == 0 .. DayOf(MaxClock)
Later(a, b) == IF a >= b THEN a ELSE b

States == {"absent", "prepared", "in_flight", "retry_ready", "accepted",
           "delivery_unknown", "blocked"}
Ready  == {"prepared", "retry_ready"}

NoMsg    == "none"
NoRow    == [dest |-> UnknownDest, sent |-> FALSE, suppressed |-> FALSE,
             isolated |-> FALSE, quarantined |-> FALSE, lease |-> 0,
             next |-> 0, expires |-> 0]
NoIntent == [uncertain |-> FALSE, first |-> 0, last |-> 0, attempt |-> 0,
             budgetDay |-> -1, providerState |-> "", pollAttempts |-> 0,
             nextPoll |-> 0, pollDeadline |-> 0, pollLease |-> 0]
NoUse    == [messages |-> 0, segments |-> 0]

\* What a request came to, as processOfficialMessage hands it to the store,
\* or, for a status GET, the provider status in place of the outcome.
Outcome(o, retry, flags) == [outcome |-> o, retry |-> retry, flags |-> flags]
Suspend(r) == "suspend" \in r.flags
OptOut(r)  == "optout" \in r.flags
NoResult   == Outcome("none", 0, {})
At(pc)   == [pc |-> pc, msg |-> NoMsg, attempt |-> 0, first |-> 0, day |-> -1,
             deadline |-> 0, reply |-> "none", result |-> NoResult]

-----------------------------------------------------------------------------
(* Conditions several SQL statements share *)

Running      == worker.pc # "down"
Present(m)   == state[m] # "absent"
Unsent(m)    == Present(m) /\ ~outbox[m].sent
LeaseFree(m) == outbox[m].lease <= Now
TargetOn(d)  == target.dest = d /\ target.enabled
CooledDown(d) == cooldown[d] <= Now
Subscribed   == policy.enabled /\ ~policy.revoked /\ policy.optout = 0 /\ ~policy.hold
Consenting   == policy.consent > 0 /\ policy.consent <= Now /\ policy.basis # NoBasis
\* mutant: a row isolated from its receiver is still claimed
LiveThoughIsolated(m) ==
    Unsent(m) /\ ~outbox[m].suppressed /\ ~outbox[m].quarantined /\ outbox[m].expires > Now
\* A channel's unsent rows that no earlier decision has withdrawn.
Live(m)      == Unsent(m) /\ ~outbox[m].suppressed /\ ~outbox[m].isolated
                /\ ~outbox[m].quarantined /\ outbox[m].expires > Now
\* INSERT ... ON CONFLICT DO UPDATE SET until_at=MAX(until_at,...)
Cool(d, until) == [cooldown EXCEPT ![d] = Later(@, until)]
\* mutant: LINE retries without regard to the first attempt
InWindowAlways(m) == m \in Msgs
InWindow(m)  == Now - intent[m].first < LineWindow

\* blockOfficial's effect on a row and its state
Held(row)      == [row EXCEPT !.lease = 0, !.quarantined = TRUE]
\* mutants: the uncertainty of a held row is dropped; a state the schema's
\* CHECK does not know
HeldBlocked(unknown) == "blocked"
HeldQuarantined(unknown) == "quarantined"
HeldState(unknown) == IF unknown THEN "delivery_unknown" ELSE "blocked"

-----------------------------------------------------------------------------
(* ExpireNotifications: recovery of interrupted intents, poll limits, the  *)
(* outbox TTL.  Enqueue, the worker's PendingDestination and Prune run it.  *)

\* mutants: every channel's interrupted intent is retried as LINE's is; an
\* intent whose retry window has passed is overlooked
RecoveredForRetry(m) ==
    IF state[m] = "in_flight" /\ LeaseFree(m) THEN "retry_ready" ELSE state[m]
RecoveredInWindow(m) ==
    IF state[m] = "in_flight" /\ LeaseFree(m) /\ LINE /\ InWindow(m)
    THEN "retry_ready" ELSE state[m]
\* recoverOfficialIntents, first two statements
RecoveredState(m) ==
    CASE state[m] = "in_flight" /\ LeaseFree(m) ->
            IF LINE /\ intent[m].first > 0 /\ intent[m].last <= Now /\ InWindow(m)
            THEN "retry_ready" ELSE "delivery_unknown"
      [] LINE /\ state[m] \in Ready /\ intent[m].first > 0 /\ ~InWindow(m) ->
            HeldState(intent[m].uncertain)
      [] OTHER -> state[m]

Expired(m) == Unsent(m) /\ outbox[m].expires <= Now

\* recoverOfficialIntents, third statement
RecoveredRow(m) ==
    IF /\ Unsent(m) /\ ~outbox[m].suppressed
       /\ RecoveredState(m) \in {"delivery_unknown", "blocked"}
    THEN Held(outbox[m]) ELSE outbox[m]

\* expireOfficialPolls
PollOver(m) ==
    /\ state[m] = "accepted" /\ intent[m].nextPoll > 0
    /\ \/ intent[m].pollDeadline <= Now
       \/ intent[m].pollAttempts >= MaxPolls /\ intent[m].pollLease <= Now
PollsExpired ==
    [m \in Msgs |-> IF PollOver(m)
                    THEN [intent[m] EXCEPT !.providerState = "unknown",
                                           !.nextPoll = 0, !.pollLease = 0]
                    ELSE intent[m]]

SweptState  == [m \in Msgs |-> IF Expired(m) THEN "absent" ELSE RecoveredState(m)]
SweptOutbox == [m \in Msgs |-> IF Expired(m) THEN NoRow ELSE RecoveredRow(m)]
SweptIntent == [m \in Msgs |-> IF Expired(m) THEN NoIntent ELSE PollsExpired[m]]
SweptCooldown == [d \in Dests |-> IF CooledDown(d) THEN 0 ELSE cooldown[d]]

\* The worker's PendingDestination pass and the daily Prune.
ExpireNotifications ==
    /\ Running
    /\ state' = SweptState /\ outbox' = SweptOutbox
    /\ intent' = SweptIntent /\ cooldown' = SweptCooldown
    /\ UNCHANGED <<clock, back, policy, target, usage, worker, wire, backup,
                   counts, ghost>>

\* Enqueue: the sweep, then one row with its prepared intent; a message the
\* preparer could not render is admitted blocked.
Enqueue(m, failure) ==
    /\ Running /\ m \notin seen
    /\ outbox' = [SweptOutbox EXCEPT ![m] =
            [NoRow EXCEPT !.dest = target.dest, !.next = Now, !.expires = Now + TTL,
                          !.isolated = (target.dest = UnknownDest),
                          !.quarantined = failure]]
    /\ state' = [SweptState EXCEPT ![m] = IF failure THEN "blocked" ELSE "prepared"]
    /\ intent' = [SweptIntent EXCEPT ![m] = NoIntent]
    /\ cooldown' = SweptCooldown
    /\ seen' = seen \cup {m}
    /\ UNCHANGED <<clock, back, policy, target, usage, worker, wire, backup, counts,
                   deliveries, firstPost, posted, optedOut, gets>>

-----------------------------------------------------------------------------
(* The worker: claim, begin, recheck, POST, resolve *)

ClaimNotification(m) ==
    /\ worker.pc = "idle"
    /\ Live(m) /\ state[m] \in Ready /\ LeaseFree(m)
    /\ outbox[m].next <= Now
    /\ TargetOn(outbox[m].dest) /\ CooledDown(outbox[m].dest)
    /\ outbox' = [outbox EXCEPT ![m].lease = Now + Lease]
    /\ worker' = [At("claimed") EXCEPT !.msg = m]
    /\ UNCHANGED <<clock, back, state, intent, policy, target, cooldown, usage, wire,
                   backup, counts, ghost>>

\* BeginOfficialDispatch, the row test that refuses without a change
Eligible(m) ==
    /\ Live(m) /\ outbox[m].lease > Now
    /\ TargetOn(outbox[m].dest) /\ CooledDown(outbox[m].dest)
    /\ state[m] \in Ready

\* ... the reasons that block the row
Refused(m) ==
    \/ ~Subscribed \/ ~Consenting \/ ~policy.documented \/ (Paid /\ ~policy.cost)
    \/ policy.limits.messages = 0 \/ Kind[m] \notin policy.kinds
    \/ Now < policy.clockHigh \/ intent[m].last > Now \/ DayOf(Now) < policy.dayHigh
    \/ LINE /\ intent[m].first > 0 /\ ~InWindow(m)
    \/ Twilio /\ (\/ policy.limits.segments = 0 \/ policy.limits.perMessage = 0
                  \/ Segments[m] > policy.limits.perMessage)
    \/ Paid /\ intent[m].budgetDay >= 0 /\ intent[m].budgetDay # DayOf(Now)

NeedsDebit(m) == intent[m].budgetDay < 0
\* mutant: one message too many
ExhaustedLate(m) == usage[DayOf(Now)].messages > policy.limits.messages
Exhausted(m) ==
    LET used == usage[DayOf(Now)]
    IN  \/ used.messages >= policy.limits.messages
        \/ Twilio /\ used.segments + Segments[m] > policy.limits.segments
\* One logical message on today's row, rows older than BudgetDays dropped.
Debited(m) ==
    [d \in Days |->
        IF d = DayOf(Now) THEN [messages |-> usage[d].messages + 1,
                                segments |-> usage[d].segments + Segments[m]]
        ELSE IF d < DayOf(Now) - (BudgetDays - 1) THEN NoUse
        ELSE usage[d]]
Block(m, unknown) ==
    /\ state' = [state EXCEPT ![m] = HeldState(unknown)]
    /\ outbox' = [outbox EXCEPT ![m] = Held(@)]

\* Not allowed: nothing changes, or the row is blocked.  The daily debit of
\* an attempt that then fails the attempt limit stays committed.
BeginRefused ==
    LET m == worker.msg IN
    /\ worker.pc = "claimed"
    /\ \/ /\ ~Eligible(m)
          /\ UNCHANGED <<state, outbox, usage>>
       \/ /\ Eligible(m) /\ Refused(m)
          /\ Block(m, intent[m].uncertain)
          /\ UNCHANGED usage
       \/ /\ Eligible(m) /\ ~Refused(m) /\ NeedsDebit(m) /\ Exhausted(m)
          /\ Block(m, FALSE)
          /\ UNCHANGED usage
       \/ /\ Eligible(m) /\ ~Refused(m) /\ ~(NeedsDebit(m) /\ Exhausted(m))
          /\ intent[m].attempt >= MaxAttempts
          /\ Block(m, intent[m].uncertain)
          /\ usage' = IF NeedsDebit(m) THEN Debited(m) ELSE usage
    /\ worker' = [worker EXCEPT !.pc = "release"]
    /\ UNCHANGED <<clock, back, intent, policy, target, cooldown, wire, backup,
                   counts, ghost>>

\* The intent of one more attempt.
Begun(m) ==
    [intent[m] EXCEPT !.uncertain = TRUE, !.last = Now, !.attempt = @ + 1,
                      !.first = IF @ = 0 THEN Now ELSE @,
                      !.budgetDay = IF @ < 0 THEN DayOf(Now) ELSE @]

\* The committed intent: debit, high-water marks, pacing interval.  The worker
\* goes on with its own copy of the intent.
BeginOfficialDispatch ==
    LET m == worker.msg IN
    /\ worker.pc = "claimed"
    /\ Eligible(m) /\ ~Refused(m) /\ ~(NeedsDebit(m) /\ Exhausted(m))
    /\ intent[m].attempt < MaxAttempts
    /\ usage' = IF NeedsDebit(m) THEN Debited(m) ELSE usage
    /\ state' = [state EXCEPT ![m] = "in_flight"]
    /\ intent' = [intent EXCEPT ![m] = Begun(m)]
    /\ policy' = [policy EXCEPT !.clockHigh = Later(@, Now),
                                !.dayHigh = Later(@, DayOf(Now))]
    /\ cooldown' = Cool(outbox[m].dest, Now + Interval)
    /\ worker' = [worker EXCEPT !.pc = "begun", !.attempt = Begun(m).attempt,
                                !.first = Begun(m).first, !.day = Begun(m).budgetDay]
    /\ UNCHANGED <<clock, back, outbox, target, wire, backup, counts, ghost>>

\* NotificationDeliveryAllowed, read once more before the request is built
DeliveryAllowed(m) ==
    /\ Live(m) /\ outbox[m].lease > Now /\ TargetOn(outbox[m].dest)
    /\ state[m] = "in_flight" /\ intent[m].first > 0
    /\ Subscribed /\ Consenting
    /\ policy.limits.messages > 0 /\ (Paid => policy.cost)
    /\ Kind[m] \in policy.kinds

\* The recheck; the 30-second context starts here.  A refusal is resolved as
\* not accepted, because nothing has been sent.
Recheck ==
    LET m == worker.msg IN
    /\ worker.pc = "begun"
    /\ worker' = IF DeliveryAllowed(m)
                 THEN [worker EXCEPT !.pc = "allowed", !.deadline = clock + SendTimeout]
                 ELSE [worker EXCEPT !.pc = "answered",
                          !.result = Outcome("not_accepted", RefusedWait, {})]
    /\ UNCHANGED <<clock, back, store, wire, backup, counts, ghost>>

\* sender.Dispatch puts one request on the wire.  dispatchLINE refuses outside
\* the provider's own window; any sender may fail before sending anything.
Post ==
    LET m == worker.msg IN
    /\ worker.pc = "allowed"
    /\ LINE => worker.first <= Now /\ Now < worker.first + KeyLife
    /\ wire' = wire \cup {[msg |-> m, attempt |-> worker.attempt,
                           deadline |-> worker.deadline]}
    /\ worker' = [worker EXCEPT !.pc = "sending"]
    /\ firstPost' = [firstPost EXCEPT ![m] = IF @ = 0 THEN clock ELSE @]
    /\ posted' = posted \cup {<<m, worker.day>>}
    /\ UNCHANGED <<clock, back, store, backup, counts, seen, deliveries, optedOut, gets>>

\* What the sender makes of the answer.  Only a proved refusal is reported as
\* not accepted; a lost, late, malformed or 5xx answer is unknown.
AcceptedResults == {Outcome("accepted", 0, {})}
RefusedResults  ==
    {Outcome("not_accepted", Later(w, Interval), f) : w \in RetryAfters, f \in {{}, {"suspend"}}}
    \cup {Outcome("not_accepted", 0, f) :
            f \in {{"permanent"}, {"permanent", "suspend"}, {"permanent", "optout"}}}
UnknownResults  ==
    {Outcome("unknown", w, f) : w \in RetryAfters, f \in {{}, {"suspend"}}}

PostNotSent ==
    /\ worker.pc = "allowed"
    /\ \E r \in RefusedResults :
         /\ ~OptOut(r)
         /\ worker' = [worker EXCEPT !.pc = "answered", !.result = r]
    /\ UNCHANGED <<clock, back, store, wire, backup, counts, ghost>>

\* mutant: an acceptance is believed although the request failed
ResultsTrusting(reply) == UnknownResults \cup AcceptedResults
ResultsOf(reply) ==
    UnknownResults \cup (CASE reply = "accepted" -> AcceptedResults
                           [] reply = "refused"  -> RefusedResults
                           [] OTHER -> {})

Answer ==
    /\ worker.pc = "sending"
    /\ \E r \in ResultsOf(worker.reply) :
         worker' = [worker EXCEPT !.pc = "answered", !.result = r]
    /\ UNCHANGED <<clock, back, store, wire, backup, counts, ghost>>

-----------------------------------------------------------------------------
(* ResolveOfficialDispatch *)

Matches(m, r, attempt) ==
    /\ Present(m) /\ intent[m].attempt = attempt
    /\ \/ state[m] = "in_flight"
       \/ r.outcome = "accepted" /\ state[m] \in {"delivery_unknown", "retry_ready"}

\* persistOfficialOptout on top of an already updated outbox
Withdrawn(rows) ==
    [m \in Msgs |-> IF Present(m) /\ ~rows[m].sent /\ ~rows[m].suppressed
                    THEN [rows[m] EXCEPT !.suppressed = TRUE, !.lease = 0]
                    ELSE rows[m]]

ResolveAccepted(m) ==
    /\ state' = [state EXCEPT ![m] = "accepted"]
    /\ outbox' = [outbox EXCEPT ![m].sent = TRUE, ![m].lease = 0]
    /\ \E s \in {"open", "final"} :
        intent' = [intent EXCEPT ![m] =
            [@ EXCEPT !.uncertain = FALSE,
                      !.providerState = IF Twilio THEN s ELSE "open",
                      !.nextPoll = IF Twilio /\ s = "open" THEN Now + PollWait ELSE 0,
                      !.pollDeadline = IF Twilio THEN intent[m].first + PollDeadline ELSE 0]]
    /\ UNCHANGED <<policy, cooldown, optedOut>>

ResolveUnknown(m, r) ==
    LET wait  == Later(r.retry, UnknownWait)
        again == /\ LINE /\ ~Suspend(r) /\ Now >= intent[m].last /\ wait < LineWindow
                 /\ Now + wait - intent[m].first < LineWindow
    IN  /\ IF again
           THEN /\ state' = [state EXCEPT ![m] = "retry_ready"]
                /\ outbox' = [outbox EXCEPT ![m].lease = 0, ![m].next = Now + wait]
           ELSE Block(m, TRUE)
        /\ cooldown' = Cool(outbox[m].dest,
                            IF Suspend(r) \/ ((r.retry > 0 \/ LINE) /\ wait > TTL) THEN Forever
                            ELSE IF r.retry > 0 \/ LINE THEN Now + wait ELSE 0)
        /\ UNCHANGED <<intent, policy, optedOut>>

ResolveNotAccepted(m, r) ==
    LET stop == "permanent" \in r.flags \/ Suspend(r) \/ OptOut(r)
                \/ intent[m].attempt >= MaxAttempts \/ r.retry > TTL
        wait == Later(r.retry, RefusedWait)
        row  == IF stop THEN Held(outbox[m])
                ELSE [outbox[m] EXCEPT !.lease = 0, !.next = Now + wait]
        rows == [outbox EXCEPT ![m] = row]
    IN  /\ intent' = [intent EXCEPT ![m].uncertain = FALSE]
        /\ state' = [state EXCEPT ![m] = IF stop THEN "blocked" ELSE "retry_ready"]
        /\ outbox' = IF OptOut(r) THEN Withdrawn(rows) ELSE rows
        /\ cooldown' = Cool(outbox[m].dest,
                            IF Suspend(r) THEN Forever
                            ELSE IF ~stop /\ r.retry > 0 THEN Now + wait ELSE 0)
        /\ policy' = IF OptOut(r) THEN [policy EXCEPT !.optout = Later(@, Now)] ELSE policy
        /\ optedOut' = IF OptOut(r) THEN Now ELSE optedOut

ResolveOfficialDispatch ==
    LET m == worker.msg  r == worker.result IN
    /\ worker.pc = "answered"
    /\ IF Matches(m, r, worker.attempt)
       THEN CASE r.outcome = "accepted"     -> ResolveAccepted(m)
              [] r.outcome = "unknown"      -> ResolveUnknown(m, r)
              [] r.outcome = "not_accepted" -> ResolveNotAccepted(m, r)
       ELSE UNCHANGED <<state, outbox, intent, policy, cooldown, optedOut>>
    /\ worker' = At("idle")
    /\ UNCHANGED <<clock, back, target, usage, wire, backup, counts, seen, deliveries,
                   firstPost, posted, gets>>

ReleaseNotificationClaim ==
    LET m == worker.msg IN
    /\ worker.pc = "release"
    /\ outbox' = IF Unsent(m) /\ state[m] # "in_flight"
                 THEN [outbox EXCEPT ![m].lease = 0] ELSE outbox
    /\ worker' = At("idle")
    /\ UNCHANGED <<clock, back, state, intent, policy, target, cooldown, usage, wire,
                   backup, counts, ghost>>

\* A store error (write admission, disk, the 2-second receipt context): the
\* pass ends, whatever it was about to record is lost, the next pass starts.
WorkerError ==
    /\ worker.pc \in {"claimed", "begun", "release", "answered", "polling", "polled"}
    /\ worker' = At("idle")
    /\ UNCHANGED <<clock, back, store, wire, backup, counts, ghost>>

-----------------------------------------------------------------------------
(* Twilio status polling: GETs of an accepted message, bounded in number   *)
(* and time, which never touch the POST path                               *)

PollPermitted(m) ==
    /\ state[m] = "accepted" /\ intent[m].pollDeadline > Now
    /\ TargetOn(outbox[m].dest) /\ Subscribed /\ CooledDown(outbox[m].dest)

\* mutant: the attempt is counted only when it is resolved
PollClaimedOnly(m) == [intent[m] EXCEPT !.pollLease = Now + Lease]
PollClaimed(m) == [intent[m] EXCEPT !.pollAttempts = @ + 1, !.pollLease = Now + Lease]

\* PendingOfficialPolls and ClaimOfficialPoll, both after expireOfficialPolls
ClaimOfficialPoll(m) ==
    /\ Twilio /\ worker.pc = "idle"
    /\ PollPermitted(m) /\ ~PollOver(m)
    /\ intent[m].nextPoll > 0 /\ intent[m].nextPoll <= Now
    /\ intent[m].pollAttempts < MaxPolls /\ intent[m].pollLease <= Now
    /\ intent' = [PollsExpired EXCEPT ![m] = PollClaimed(m)]
    /\ worker' = [At("polling") EXCEPT !.msg = m, !.attempt = PollClaimed(m).pollAttempts]
    /\ UNCHANGED <<clock, back, outbox, state, policy, target, cooldown, usage, wire,
                   backup, counts, ghost>>

PollResults ==
    {Outcome(s, 0, f) : s \in {"open", "final"}, f \in {{}, {"optout"}}}
    \cup {Outcome("unknown", w, f) : w \in RetryAfters, f \in {{}, {"suspend"}}}

\* OfficialPollAllowed, then the GET; a refused claim waits for its lease.
Poll ==
    LET m == worker.msg IN
    /\ worker.pc = "polling"
    /\ IF /\ PollPermitted(m) /\ intent[m].pollAttempts = worker.attempt
          /\ intent[m].pollLease > Now
       THEN /\ \E r \in PollResults :
                 worker' = [worker EXCEPT !.pc = "polled", !.result = r]
            /\ gets' = [gets EXCEPT ![m] = @ + 1]
       ELSE worker' = At("idle") /\ UNCHANGED gets
    /\ UNCHANGED <<clock, back, store, wire, backup, counts, seen, deliveries, firstPost,
                   posted, optedOut>>

PollMatches(m) ==
    state[m] = "accepted" /\ intent[m].pollAttempts = worker.attempt /\ intent[m].pollLease # 0

ResolveOfficialPoll ==
    LET m      == worker.msg
        r      == worker.result
        status == IF Suspend(r) THEN "unknown" ELSE r.outcome
        wait   == Later(r.retry, PollWait)
        again  == /\ status # "final" /\ ~OptOut(r)
                  /\ worker.attempt < MaxPolls /\ wait <= PollDeadline
                  /\ Now + wait < intent[m].pollDeadline
    IN
    /\ worker.pc = "polled"
    /\ IF PollMatches(m)
       THEN /\ intent' = [intent EXCEPT ![m] =
                 [@ EXCEPT !.pollLease = 0,
                           !.nextPoll = IF again THEN Now + wait ELSE 0,
                           !.providerState = CASE OptOut(r) -> "final"
                                               [] status = "final" \/ again -> status
                                               [] OTHER -> "unknown"]]
            /\ cooldown' = Cool(outbox[m].dest,
                                IF Suspend(r) \/ (r.retry > 0 /\ wait > TTL) THEN Forever
                                ELSE IF r.retry > 0 THEN Now + wait ELSE 0)
            /\ policy' = IF OptOut(r) THEN [policy EXCEPT !.optout = Later(@, Now)] ELSE policy
            /\ outbox' = IF OptOut(r) THEN Withdrawn(outbox) ELSE outbox
            /\ optedOut' = IF OptOut(r) THEN Now ELSE optedOut
       ELSE UNCHANGED <<intent, cooldown, policy, outbox, optedOut>>
    /\ worker' = At("idle")
    /\ UNCHANGED <<clock, back, state, target, usage, wire, backup, counts, seen,
                   deliveries, firstPost, posted, gets>>

-----------------------------------------------------------------------------
(* The provider (external) and the clock *)

\* A LINE retry key that was accepted before is answered with the earlier
\* acceptance for KeyLife; every other accepted POST is one more message.
Duplicate(m) == LINE /\ deliveries[m] > 0 /\ clock < firstPost[m] + KeyLife

Heard(r, reply) ==
    worker' = IF worker.pc = "sending" /\ worker.msg = r.msg /\ worker.attempt = r.attempt
              THEN [worker EXCEPT !.reply = reply] ELSE worker

ProviderAccepts(r) ==
    /\ wire' = wire \ {r}
    /\ deliveries' = [deliveries EXCEPT ![r.msg] = IF Duplicate(r.msg) THEN @ ELSE @ + 1]
    /\ Heard(r, "accepted")
    /\ UNCHANGED <<clock, back, store, backup, counts, seen, firstPost, posted, optedOut, gets>>

ProviderRefuses(r) ==
    /\ wire' = wire \ {r}
    /\ Heard(r, "refused")
    /\ UNCHANGED <<clock, back, store, backup, counts, ghost>>

Lost(r) ==
    /\ wire' = wire \ {r}
    /\ UNCHANGED <<clock, back, store, worker, backup, counts, ghost>>

\* A request is decided or lost within its context timeout.
Tick ==
    /\ clock < MaxClock
    /\ \A r \in wire : clock < r.deadline
    /\ worker.pc \in {"allowed", "sending"} => clock < worker.deadline
    /\ clock' = clock + 1
    /\ UNCHANGED <<back, store, worker, wire, backup, counts, ghost>>

\* The wall clock is stepped back; true time goes on.
ClockBack(n) ==
    /\ back + n <= MaxBack
    /\ back' = back + n
    /\ UNCHANGED <<clock, store, worker, wire, backup, counts, ghost>>

-----------------------------------------------------------------------------
(* Daemon restarts: configureOfficialTargets runs before the worker starts *)

Crash ==
    /\ Running /\ counts.restarts < MaxRestarts
    /\ worker' = At("down")
    /\ counts' = [counts EXCEPT !.restarts = @ + 1]
    /\ UNCHANGED <<clock, back, store, wire, backup, ghost>>

\* ConfigureNotificationTarget
Retargeted(c) ==
    [m \in Msgs |->
        IF /\ Unsent(m) /\ ~outbox[m].suppressed /\ ~outbox[m].isolated
           /\ outbox[m].dest # c.dest \/ c.stricter
        THEN [outbox[m] EXCEPT !.isolated = TRUE, !.lease = 0] ELSE outbox[m]]

\* validOfficialPolicy, and the completeness of a consent that may lift an
\* opt-out
ConsentAt(c) == CASE c.consent = "none" -> 0
                  [] c.consent = "kept" -> policy.consent
                  [] c.consent = "renewed" -> Now
Complete(c) ==
    /\ ConsentAt(c) > 0 /\ ConsentAt(c) <= Now
    /\ c.documented /\ c.kinds # {} /\ c.limits.messages > 0
    /\ Paid => c.cost
    /\ Twilio => c.limits.segments > 0 /\ c.limits.perMessage > 0
ValidPolicy(c) == c.enabled /\ ~c.revoked => Complete(c) /\ c.basis # NoBasis

NewConsent(c) ==
    c.basis # NoBasis /\ c.basis # policy.basis /\ ConsentAt(c) > policy.consent /\ ~c.revoked
ClearsOptout(c) ==
    NewConsent(c) /\ Complete(c) /\ c.recovery /\ ConsentAt(c) > policy.optout

ConfigureOfficialPolicy(c) ==
    [policy EXCEPT !.enabled = c.enabled, !.revoked = c.revoked, !.consent = ConsentAt(c),
                   !.documented = c.documented, !.cost = c.cost, !.basis = c.basis,
                   !.kinds = c.kinds, !.limits = c.limits,
                   !.optout = IF ClearsOptout(c) THEN 0 ELSE @]

Start(c) ==
    /\ worker.pc = "down"
    /\ target' = [dest |-> c.dest, enabled |-> c.enabled /\ c.dest # UnknownDest]
    /\ IF ValidPolicy(c)
       THEN /\ policy' = ConfigureOfficialPolicy(c)
            /\ outbox' = IF c.revoked THEN Withdrawn(Retargeted(c)) ELSE Retargeted(c)
            /\ worker' = At("idle")
       ELSE /\ outbox' = Retargeted(c)
            /\ UNCHANGED <<policy, worker>>
    /\ UNCHANGED <<clock, back, state, intent, cooldown, usage, wire, backup, counts, ghost>>

-----------------------------------------------------------------------------
(* Operator commands over the control socket *)

Command ==
    /\ Running /\ counts.ops < MaxOps
    /\ counts' = [counts EXCEPT !.ops = @ + 1]

RetryNotification(m) ==
    /\ Command
    /\ Unsent(m) /\ ~outbox[m].isolated /\ ~outbox[m].suppressed
    /\ LeaseFree(m) /\ outbox[m].expires > Now /\ state[m] \in Ready
    /\ outbox' = [outbox EXCEPT ![m].quarantined = FALSE, ![m].lease = 0, ![m].next = Now]
    /\ UNCHANGED <<clock, back, state, intent, policy, target, cooldown, usage, worker,
                   wire, backup, ghost>>

QuarantineNotification(m) ==
    /\ Command
    /\ Unsent(m) /\ outbox[m].expires > Now
    /\ outbox' = [outbox EXCEPT ![m].quarantined = TRUE]
    /\ UNCHANGED <<clock, back, state, intent, policy, target, cooldown, usage, worker,
                   wire, backup, ghost>>

ResumeDestination(d) ==
    /\ Command
    /\ cooldown' = [cooldown EXCEPT ![d] = 0]
    /\ outbox' = [m \in Msgs |->
            IF /\ Unsent(m) /\ outbox[m].dest = d /\ ~outbox[m].quarantined
               /\ ~outbox[m].suppressed /\ outbox[m].expires > Now
            THEN [outbox[m] EXCEPT !.next = Now] ELSE outbox[m]]
    /\ UNCHANGED <<clock, back, state, intent, policy, target, usage, worker, wire,
                   backup, ghost>>

\* A new silence suppresses the rows it matches, claimed ones included; the
\* lease is left alone.
AddSilence(m) ==
    /\ Command
    /\ Unsent(m) /\ ~outbox[m].suppressed
    /\ outbox' = [outbox EXCEPT ![m].suppressed = TRUE]
    /\ UNCHANGED <<clock, back, state, intent, policy, target, cooldown, usage, worker,
                   wire, backup, ghost>>

DiscardIsolatedNotifications ==
    /\ Command
    /\ \E m \in Msgs : Unsent(m) /\ outbox[m].isolated /\ ~outbox[m].suppressed
    /\ outbox' = [m \in Msgs |-> IF Unsent(m) /\ outbox[m].isolated
                                 THEN [outbox[m] EXCEPT !.suppressed = TRUE] ELSE outbox[m]]
    /\ UNCHANGED <<clock, back, state, intent, policy, target, cooldown, usage, worker,
                   wire, backup, ghost>>

SpentToday(used) ==
    [messages |-> Later(used.messages, policy.limits.messages),
     segments |-> Later(used.segments, policy.limits.segments)]

\* ReconcileOfficialPaidChannel: today's budget counts as spent, the hold is
\* lifted, every unsent row stays blocked.
ReconcileOfficialPaidChannel ==
    LET today == DayOf(Now) IN
    /\ Command /\ Paid
    /\ policy.hold /\ policy.enabled /\ ~policy.revoked /\ policy.cost /\ policy.documented
    /\ Consenting /\ policy.limits.messages > 0 /\ policy.optout = 0
    /\ Now >= policy.clockHigh
    /\ usage' = [usage EXCEPT ![today] = SpentToday(@)]
    /\ policy' = [policy EXCEPT !.hold = FALSE, !.clockHigh = Later(@, Now),
                                !.dayHigh = Later(@, today)]
    /\ state' = [m \in Msgs |-> IF Unsent(m) THEN "blocked" ELSE state[m]]
    /\ outbox' = [m \in Msgs |-> IF Unsent(m) THEN Held(outbox[m]) ELSE outbox[m]]
    /\ UNCHANGED <<clock, back, intent, target, cooldown, worker, wire, backup, ghost>>

-----------------------------------------------------------------------------
(* Backup and restore *)

Backup ==
    /\ MaxRestores > 0 /\ backup = {}
    /\ backup' = {[outbox |-> outbox, state |-> state, intent |-> intent,
                   policy |-> policy, target |-> target, cooldown |-> cooldown,
                   usage |-> usage]}
    /\ UNCHANGED <<clock, back, store, worker, wire, counts, ghost>>

\* RestoreBackup with the daemon stopped.  markRestoredOfficialHold holds a
\* paid channel and withdraws its unsent rows and its open polls; a free
\* channel is restored as it was.
RestoreBackup(b) ==
    LET unsent(m) == b.state[m] # "absent" /\ ~b.outbox[m].sent IN
    /\ worker.pc = "down" /\ counts.restores < MaxRestores
    /\ policy' = [b.policy EXCEPT !.hold = @ \/ Paid]
    /\ state' = [m \in Msgs |->
            IF Paid /\ unsent(m) /\ b.state[m] # "accepted"
            THEN HeldState(b.state[m] = "in_flight") ELSE b.state[m]]
    /\ outbox' = [m \in Msgs |->
            IF Paid /\ unsent(m)
            THEN [Held(b.outbox[m]) EXCEPT !.isolated = TRUE] ELSE b.outbox[m]]
    /\ intent' = [m \in Msgs |->
            IF Twilio
            THEN [b.intent[m] EXCEPT !.providerState = IF b.intent[m].nextPoll > 0
                                                       THEN "unknown" ELSE @,
                                     !.nextPoll = 0, !.pollLease = 0]
            ELSE b.intent[m]]
    /\ target' = b.target /\ cooldown' = b.cooldown /\ usage' = b.usage
    /\ counts' = [counts EXCEPT !.restores = @ + 1]
    /\ UNCHANGED <<clock, back, worker, wire, backup, ghost>>

-----------------------------------------------------------------------------

Init ==
    /\ clock = MaxBack + 1 /\ back = 0
    /\ outbox = [m \in Msgs |-> NoRow]
    /\ state = [m \in Msgs |-> "absent"]
    /\ intent = [m \in Msgs |-> NoIntent]
    /\ policy = [enabled |-> FirstConfig.enabled, revoked |-> FirstConfig.revoked,
                 consent |-> clock, documented |-> FirstConfig.documented,
                 cost |-> FirstConfig.cost, basis |-> FirstConfig.basis,
                 kinds |-> FirstConfig.kinds, limits |-> FirstConfig.limits,
                 optout |-> 0, hold |-> FALSE, clockHigh |-> 0, dayHigh |-> 0]
    /\ target = [dest |-> FirstConfig.dest, enabled |-> FirstConfig.enabled]
    /\ cooldown = [d \in Dests |-> 0]
    /\ usage = [d \in Days |-> NoUse]
    /\ worker = At("idle")
    /\ wire = {} /\ backup = {}
    /\ counts = [restarts |-> 0, ops |-> 0, restores |-> 0]
    /\ seen = {} /\ posted = {} /\ optedOut = 0
    /\ deliveries = [m \in Msgs |-> 0]
    /\ firstPost = [m \in Msgs |-> 0]
    /\ gets = [m \in Msgs |-> 0]

WorkerStep ==
    \/ \E m \in Msgs : ClaimNotification(m) \/ ClaimOfficialPoll(m)
    \/ BeginRefused \/ BeginOfficialDispatch \/ Recheck \/ Post \/ PostNotSent \/ Answer
    \/ ResolveOfficialDispatch \/ ReleaseNotificationClaim
    \/ Poll \/ ResolveOfficialPoll
ProviderStep == \E r \in wire : ProviderAccepts(r) \/ ProviderRefuses(r) \/ Lost(r)
OperatorStep ==
    \/ \E m \in Msgs : RetryNotification(m) \/ QuarantineNotification(m) \/ AddSilence(m)
    \/ \E d \in Dests : ResumeDestination(d)
    \/ DiscardIsolatedNotifications \/ ReconcileOfficialPaidChannel
ProcessStep ==
    \/ Crash \/ \E c \in Configs : Start(c)
    \/ Backup \/ \E b \in backup : RestoreBackup(b)

Next ==
    \/ ExpireNotifications
    \/ \E m \in Msgs, failure \in BOOLEAN : Enqueue(m, failure)
    \/ WorkerStep \/ WorkerError \/ ProviderStep \/ OperatorStep \/ ProcessStep
    \/ Tick \/ \E n \in 1 .. MaxBack : ClockBack(n)

Spec == Init /\ [][Next]_vars

\* Scheduling the code relies on: the worker's 10-second ticker and the
\* daily prune keep running, systemd restarts the daemon, a request ends
\* within its context timeout, time passes.
Fairness ==
    /\ WF_vars(Tick) /\ WF_vars(ProviderStep) /\ WF_vars(WorkerStep)
    /\ WF_vars(ExpireNotifications) /\ WF_vars(\E c \in Configs : Start(c))
FairSpec == Spec /\ Fairness

-----------------------------------------------------------------------------
(* Types *)

Row == [dest : Dests, sent : BOOLEAN, suppressed : BOOLEAN, isolated : BOOLEAN,
        quarantined : BOOLEAN, lease : Nat, next : Nat, expires : Nat]
Intent == [uncertain : BOOLEAN, first : Nat, last : Nat, attempt : Nat, budgetDay : Int,
           providerState : {"", "open", "final", "unknown"}, pollAttempts : Nat,
           nextPoll : Nat, pollDeadline : Nat, pollLease : Nat]
Policy == [enabled : BOOLEAN, revoked : BOOLEAN, consent : Nat, documented : BOOLEAN,
           cost : BOOLEAN, basis : {c.basis : c \in Configs}, kinds : {c.kinds : c \in Configs},
           limits : [messages : Nat, segments : Nat, perMessage : Nat],
           optout : Nat, hold : BOOLEAN, clockHigh : Nat, dayHigh : Nat]
Target == [dest : Dests, enabled : BOOLEAN]
Usage  == [Days -> [messages : Nat, segments : Nat]]
Snapshot == [outbox : [Msgs -> Row], state : [Msgs -> States], intent : [Msgs -> Intent],
             policy : Policy, target : Target, cooldown : [Dests -> Nat], usage : Usage]
Result == [outcome : {"none", "accepted", "not_accepted", "unknown", "open", "final"},
           retry : Nat, flags : SUBSET {"permanent", "suspend", "optout"}]
Idle   == {"down", "idle"}
Posting == {"claimed", "release", "begun", "allowed", "sending", "answered"}
Polling == {"polling", "polled"}
Worker ==
    {w \in [pc : Idle \cup Posting \cup Polling, msg : Msgs \cup {NoMsg}, attempt : Nat,
            first : Nat, day : Int, deadline : Nat, reply : {"none", "accepted", "refused"}, result : Result] :
        /\ w.pc \notin Idle => w.msg \in Msgs
        /\ w.pc = "answered" => w.result.outcome \in {"accepted", "not_accepted", "unknown"}
        /\ w.pc = "polled" => w.result.outcome \in {"open", "final", "unknown"}}

\* Every column stays in its domain; the wall clock never reaches zero; a
\* busy worker works on a row.
TypeInvariant ==
    /\ clock \in (MaxBack + 1) .. MaxClock /\ back \in 0 .. MaxBack
    /\ outbox \in [Msgs -> Row]
    /\ state \in [Msgs -> States]
    /\ intent \in [Msgs -> Intent]
    /\ policy \in Policy /\ target \in Target
    /\ cooldown \in [Dests -> Nat] /\ usage \in Usage
    /\ worker \in Worker
    /\ wire \subseteq [msg : Msgs, attempt : Nat, deadline : Nat]
    /\ backup \subseteq Snapshot
    /\ counts \in [restarts : Nat, ops : Nat, restores : Nat]
    /\ seen \subseteq Msgs
    /\ deliveries \in [Msgs -> Nat] /\ firstPost \in [Msgs -> Nat] /\ gets \in [Msgs -> Nat]
    /\ posted \subseteq Msgs \X Int
    /\ optedOut \in Nat

-----------------------------------------------------------------------------
(* Safety *)

\* No notification reaches the recipient twice: not after a crash between
\* the POST and its receipt, a lost answer, an expired lease, a late answer,
\* an operator's retry or resume, a change of target and back.  LINE repeats
\* a POST, but only while the provider still knows its retry key, which needs
\* a wall clock that was not set back.  Paid channels keep the promise across
\* a restore as well; for free channels a restored disk is out of scope.
AtMostOnceDelivery ==
    (counts.restores = 0 \/ Paid) /\ (LINE => back = 0)
        => \A m \in Msgs : deliveries[m] <= 1

\* "blocked" is kept for rows that were not accepted: every row the provider
\* may have accepted is shown as accepted or delivery_unknown, so that the
\* operator who looks at blocked rows is not misled into sending them again
\* by other means.  (A restored backup cannot know what was accepted since.)
BlockedMeansNotAccepted ==
    \A m \in Msgs : state[m] = "blocked" /\ counts.restores = 0 =>
        deliveries[m] = 0 /\ \A r \in wire : r.msg # m

\* A row is marked sent only for a message the provider accepted, however
\* late, repeated or out of order the answers are.
SentMeansAccepted ==
    \A m \in Msgs : Present(m) /\ outbox[m].sent => deliveries[m] > 0

\* The rows tell the operator the truth.  (On LINE a retry that is refused blocks
\* its row although an earlier POST, whose answer was lost, may have arrived.)
RowsTellTruth == SentMeansAccepted /\ (~LINE => BlockedMeansNotAccepted)

\* The daily limits hold for what really went out: on no UTC day are more
\* messages (and SMS segments) posted than the largest configured limit,
\* through crashes, retries, configuration changes, clocks set back and, on
\* paid channels with an honest clock, a restored budget table.  (After a
\* restore only if the limits stay what they are: the reconciliation counts the
\* limit of that moment as spent, and a larger one set later admits the rest.)
PostedOn(d) == {m \in Msgs : <<m, d>> \in posted}
SegmentsOf(ms) == UNION {{m} \X (1 .. Segments[m]) : m \in ms}
Within(ms, limits) ==
    /\ Cardinality(ms) <= limits.messages
    /\ Twilio => Cardinality(SegmentsOf(ms)) <= limits.segments
OneLimit == \A c, e \in Configs : c.limits = e.limits
BudgetTrusted == counts.restores = 0 \/ (Paid /\ back = 0 /\ OneLimit)
DailyLimit ==
    BudgetTrusted => \A d \in Days : \E c \in Configs : Within(PostedOn(d), c.limits)

\* No POST leaves while the subscription is disabled, revoked, opted out of or
\* on hold, and after a platform opt-out none leaves before a consent given
\* later than it.  (A wall clock set back may date a new consent too early.)
PostsFollowConsent ==
    [][counts.restores = 0 /\ wire' \ wire # {} =>
        /\ Subscribed
        /\ back = 0 => policy.consent > optedOut]_vars

\* A row isolated by a change of target or privacy, or suppressed by a
\* silence, a revocation or an opt-out, is never revived and never begins
\* another attempt, whatever the configuration changes back to.
WithdrawnForGood ==
    [][\A m \in Msgs :
        /\ Present(m) /\ (outbox[m].isolated \/ outbox[m].suppressed)
        /\ state'[m] # "absent" /\ counts'.restores = counts.restores
        => /\ outbox'[m].isolated \/ outbox'[m].suppressed
           /\ intent'[m].attempt = intent[m].attempt]_vars

\* LINE's retry key is presented only while the provider still remembers it:
\* no POST follows a row's first POST by KeyLife or more of true time.
\* docs/OFFICIAL_NOTIFICATION_CHANNELS.md promises this "including restart
\* and clock rollback".
RetryKeyStillKnown ==
    [][\A r \in wire' \ wire :
        firstPost[r.msg] > 0 => clock < firstPost[r.msg] + KeyLife]_vars

\* An acceptance receipt is final: no answer, poll, retry, sweep or
\* reconciliation takes the row out of "accepted".
AcceptedIsFinal ==
    [][\A m \in Msgs : state[m] = "accepted" /\ counts'.restores = counts.restores
        => state'[m] = "accepted"]_vars

\* Decisions of the recipient and of the operator hold for good: an acceptance
\* receipt is never taken back, a row withdrawn by a change of target, a silence,
\* a revocation or an opt-out never begins another attempt, and no POST leaves
\* without a consent newer than the last opt-out.
DecisionsHold == AcceptedIsFinal /\ WithdrawnForGood /\ PostsFollowConsent

\* The status of a message is asked for at most MaxPolls times, and only of
\* messages that were accepted, across crashes between claim and answer,
\* restarts and restores.
PollsBounded ==
    \A m \in Msgs : gets[m] <= MaxPolls /\ (gets[m] > 0 => deliveries[m] > 0)

-----------------------------------------------------------------------------
(* Why AtMostOnceDelivery holds: its inductive strengthenings *)

Trusted      == counts.restores = 0 \/ Paid
Untouched(m) == deliveries[m] = 0 /\ \A r \in wire : r.msg # m
Attempting   == worker.pc \in {"begun", "allowed", "sending", "answered"}
\* The worker has proof that its attempt was not, and will not be, accepted.
NothingSent  ==
    \/ worker.pc \in {"begun", "allowed"}
    \/ worker.pc = "sending" /\ worker.reply = "refused"
    \/ worker.pc = "answered" /\ worker.result.outcome = "not_accepted"

\* A worker that is busy works on an admitted row; nothing is known of others.
UnseenIsFresh ==
    \A m \in Msgs : m \notin seen =>
        /\ state[m] = "absent" /\ Untouched(m) /\ firstPost[m] = 0
        /\ worker.pc \notin Idle => worker.msg # m
ReadyIsFresh ==
    \A m \in Msgs : state[m] \in Ready => Untouched(m) /\ ~(Attempting /\ worker.msg = m)
SentIsAccepted == \A m \in Msgs : outbox[m].sent => state[m] = "accepted"
SnapshotsKnown ==
    \A b \in backup, m \in Msgs : /\ b.state[m] # "absent" => m \in seen
                                  /\ b.outbox[m].sent => b.state[m] = "accepted"
WireIsFresh == /\ \A r \in wire : deliveries[r.msg] = 0
               /\ \A r, q \in wire : r.msg = q.msg => r = q
RefusalsAreTrue == NothingSent => Untouched(worker.msg)
RepliesInTime   == worker.reply # "none" => worker.pc \in {"sending", "answered"}
OnceEach        == \A m \in Msgs : deliveries[m] <= 1

\* Without an idempotency key a row is ready for an attempt only while nothing
\* of it was delivered or is under way and no worker is attempting it, and a
\* worker that will report a refusal reports the truth.
Fresh == /\ UnseenIsFresh /\ ReadyIsFresh /\ SentIsAccepted /\ SnapshotsKnown
         /\ WireIsFresh /\ RefusalsAreTrue /\ RepliesInTime /\ OnceEach
FreshAttempts == Trusted /\ ~LINE => Fresh

LeasesBounded  == \A m \in Msgs : outbox[m].lease <= clock + Lease
FirstIsFirst   ==
    \A m \in Msgs : Present(m) =>
        /\ intent[m].first <= clock
        /\ firstPost[m] > 0 => intent[m].first > 0 /\ intent[m].first <= firstPost[m]
CopyIsCurrent  ==
    worker.pc \in {"begun", "allowed"} =>
        /\ worker.first > 0 /\ worker.first <= clock
        /\ firstPost[worker.msg] > 0 => worker.first <= firstPost[worker.msg]
        /\ Present(worker.msg) => intent[worker.msg].first = worker.first
BegunInWindow  ==
    worker.pc = "begun" => outbox[worker.msg].lease < worker.first + LineWindow + Lease
AllowedInTime  ==
    worker.pc = "allowed" =>
        clock <= worker.deadline /\ worker.deadline < worker.first + KeyLife
WireInTime     ==
    \A r \in wire : clock <= r.deadline /\ r.deadline < firstPost[r.msg] + KeyLife

\* With LINE's retry key every request under way ends while the provider still
\* remembers the key of the row's first POST: first attempt, claim lease and
\* request timeout add up to less than the key's life.
Timely == /\ UnseenIsFresh /\ LeasesBounded /\ FirstIsFirst /\ CopyIsCurrent
          /\ BegunInWindow /\ AllowedInTime /\ WireInTime /\ OnceEach
WithinKeyLife == LINE /\ counts.restores = 0 /\ back = 0 => Timely

(* The promise to the recipient, as an abstract specification *)

Phase == [m \in Msgs |-> CASE m \notin seen -> "new"
                           [] m \in seen /\ state[m] \in Ready -> "ready"
                           [] m \in seen /\ state[m] = "in_flight" -> "intent"
                           [] OTHER -> "closed"]
Promise == INSTANCE DispatchPromise WITH phase <- Phase, delivered <- [m \in Msgs |-> deliveries[m]]

\* A channel without an idempotency key implements DispatchPromise: a row goes
\* back from a committed intent to ready only when nothing was or will be
\* delivered, and a closed row never becomes ready again.
KeepsPromise == Promise!Spec

(* Liveness *)

\* An intent interrupted at any point does not stay in flight: by its lease's
\* end it is resolved or recovered (as far as the explored time reaches).
IntentsSettle ==
    \A m \in Msgs : state[m] = "in_flight" /\ clock + Lease < MaxClock
        ~> state[m] # "in_flight"

=============================================================================
