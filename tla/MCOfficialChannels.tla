------------------------- MODULE MCOfficialChannels -------------------------
(***************************************************************************)
(* Four channels in one run.  A behaviour follows one profile, which never *)
(* changes: each is an instance of OfficialDispatch over the same          *)
(* variables, with the bounds that make its question interesting, so that  *)
(* the run explores the union of four models.                              *)
(*                                                                         *)
(*   "line"    the channel that repeats a POST under its retry key         *)
(*   "qqbot"   changes of receiver, consent and subscription, two restarts *)
(*   "budget"  two messages, one a day, renewed consents, a clock set back *)
(*   "restore" two messages, one a day, a restored budget table            *)
(***************************************************************************)
EXTENDS MCOfficialDispatch

VARIABLE profile

Both == {m1, m2}
Each(x) == [m \in Both |-> x]

QQBot == INSTANCE OfficialDispatch WITH
    Channel <- "qqbot", Dests <- {d1, d2, nowhere}, Configs <- MCConfigs, Day <- 3,
    MaxRestarts <- 2, TTL <- 3, MaxAttempts <- 2, MaxClock <- 4

Budget == INSTANCE OfficialDispatch WITH
    Channel <- "twilio_sms", Msgs <- Both, Kind <- Each("event"), Segments <- Each(1),
    Configs <- MCConsents, FirstConfig <- Running0, MaxBack <- 1, MaxOps <- 0,
    TTL <- 3, Day <- 2, MaxAttempts <- 2, MaxClock <- 4

Restore == INSTANCE OfficialDispatch WITH
    Channel <- "whatsapp_cloud", Msgs <- Both, Kind <- Each("event"), Segments <- Each(1),
    Configs <- MCTight, FirstConfig <- Running0, TTL <- 3, Day <- 3, MaxAttempts <- 1,
    MaxClock <- 2, MaxRestores <- 1

MCInit ==
    \/ profile = "line" /\ Init
    \/ profile = "qqbot" /\ QQBot!Init
    \/ profile = "budget" /\ Budget!Init
    \/ profile = "restore" /\ Restore!Init

\* The two messages are interchangeable: it is enough to follow the
\* behaviours that admit m1 first.
InOrder == m2 \in seen' => m1 \in seen'

MCNext ==
    /\ \/ profile = "line" /\ Next
       \/ profile = "qqbot" /\ QQBot!Next
       \/ profile = "budget" /\ Budget!Next /\ InOrder
       \/ profile = "restore" /\ Restore!Next /\ InOrder
    /\ UNCHANGED profile

MCSpec == MCInit /\ [][MCNext]_<<vars, profile>>

-----------------------------------------------------------------------------

\* What the rows say is true: sent means accepted, on every channel; on those
\* without a retry key blocked also means not accepted, no attempt is made after
\* anything was delivered, and nothing reaches the recipient twice.
RowsTruthful ==
    /\ profile = "line" => RowsTellTruth
    /\ profile = "qqbot" =>
        QQBot!RowsTellTruth /\ QQBot!AtMostOnceDelivery /\ QQBot!FreshAttempts
    /\ profile = "budget" =>
        Budget!RowsTellTruth /\ Budget!AtMostOnceDelivery /\ Budget!FreshAttempts
    /\ profile = "restore" =>
        Restore!RowsTellTruth /\ Restore!AtMostOnceDelivery /\ Restore!FreshAttempts

\* What a channel may spend is bounded across crashes, clocks set back and
\* restored backups: messages and segments a day by the configured limits.
LimitsKept ==
    /\ profile = "line" => DailyLimit
    /\ profile = "qqbot" => QQBot!DailyLimit
    /\ profile = "budget" => Budget!DailyLimit
    /\ profile = "restore" => Restore!DailyLimit

\* With LINE's retry key every request ends while the provider still knows the
\* key of the row's first POST.
LineTimely == profile = "line" => WithinKeyLife
=============================================================================
