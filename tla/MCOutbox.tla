------------------------------ MODULE MCOutbox ------------------------------
(***************************************************************************)
(* Small instances of the notification outbox.  Two updates and the        *)
(* recovery of one incident and one update of another; two receivers and   *)
(* the unusable one; configurations that change receiver, privacy or state *)
(* of the channel.                                                         *)
(*                                                                         *)
(* Two instances over the same variables are explored in one run; a        *)
(* behaviour follows one profile, which never changes.                     *)
(*   "paced"  two updates on a channel with an interval between requests,  *)
(*            two operator commands, two restarts, a change of privacy     *)
(*   "merge"  two updates and a recovery on a channel that coalesces, with *)
(*            a full queue and an outage of the channel                    *)
(***************************************************************************)
EXTENDS Outbox

VARIABLE profile

\* Incidents "i" and "j": u1 and u2 update i and r ends it, v updates j.
Incidents(es) == [e \in es |-> IF e = "v" THEN "j" ELSE "i"]
KindsOf(es)   == [e \in es |-> "k"]
Phases(es)    == [e \in es |-> IF e = "r" THEN "recovery" ELSE "update"]
Sizes(es)     == [e \in es |-> IF e = "u2" THEN 3 ELSE 1]

IncidentOf == Incidents(Events)
KindOf     == KindsOf(Events)
PhaseOf    == Phases(Events)
SizeOf     == Sizes(Events)

Config(dest, privacy, enabled, window) ==
    [dest |-> dest, privacy |-> privacy, enabled |-> enabled, window |-> window]
Plain    == Config("A", "full", TRUE, 2)
Outages  == {Plain, Config("A", "full", FALSE, 2), Config("unknown", "full", TRUE, 2)}
Privacies == {Plain, Config("A", "hash", TRUE, 2)}

OneIncident == {[incident |-> "i", kind |-> Any]}
OneKind     == {[incident |-> Any, kind |-> "k"]}

Story == {"u1", "u2", "r"}
Merging == INSTANCE Outbox WITH
    Events <- Story, Incident <- Incidents(Story), Kind <- KindsOf(Story),
    Phase <- Phases(Story), Size <- Sizes(Story), Mergeable <- TRUE, Interval <- 0,
    Configs <- Outages, SilenceRules <- OneIncident, TTL <- 3, MaxClock <- 4,
    MaxRestarts <- 1, MaxOps <- 1

MCInit == \/ profile = "paced" /\ Init
          \/ profile = "merge" /\ Merging!Init
MCNext == /\ \/ profile = "paced" /\ Next
             \/ profile = "merge" /\ Merging!Next
          /\ UNCHANGED profile
MCSpec == MCInit /\ [][MCNext]_<<vars, profile>>

-----------------------------------------------------------------------------

\* The queue is well formed and bounded: every column stays in its domain and
\* the messages that wait, the growing bodies of joined events included, stay
\* within the channel's share of messages and bytes.
WellFormed ==
    \/ profile = "paced" /\ TypeInvariant /\ QueueBounded
    \/ profile = "merge" /\ Merging!TypeInvariant /\ Merging!QueueBounded

\* The recipient is told the whole story in order: a sent body counts every
\* event that joined its message, and no recovery overtakes an update.
TellsAll ==
    /\ [](IF profile = "merge" THEN Merging!SentTellsAll ELSE SentTellsAll)
    /\ [][profile = "merge" => Merging!NotOvertaking]_vars

\* What was withheld stays withheld: a silence also stops the messages that
\* were claimed and failed when it was added, and neither an isolated nor a
\* sent message is ever claimed again.
Withheld ==
    /\ [][IF profile = "merge" THEN Merging!Silent ELSE Silent]_vars
    /\ [][IF profile = "merge" THEN Merging!StaysIsolated ELSE StaysIsolated]_vars
=============================================================================
