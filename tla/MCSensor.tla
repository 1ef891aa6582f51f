------------------------------ MODULE MCSensor ------------------------------
(***************************************************************************)
(* Two instances of SensorDelivery over the same variables, and the        *)
(* detector of scans and floods that the batches are shown to, in one run: *)
(* a behaviour follows one profile, which never changes.                   *)
(*                                                                         *)
(*   "faults"   two sessions, traffic, derived events, a crash, a repeated *)
(*              frame and a failed transaction                             *)
(*   "sessions" three sessions for two watermarks and a wall clock that is *)
(*              set back twice                                             *)
(*   "detector" the detector alone, given what delivery lets through:      *)
(*              lost, late and incomplete windows, replaced connections    *)
(***************************************************************************)
EXTENDS MCSensorDelivery

VARIABLES
    profile,
    \* NetworkDetector
    fleet, used, sent, conn, asked, calm, scanVerdict

Replaced == INSTANCE SensorDelivery WITH
    MaxSessions <- 3, MaxClock <- 6, MaxBack <- 2, MaxCrashes <- 0, MaxResends <- 0,
    Units <- {0}, Derivations <- Quiet

\* Probes, incoming datagrams and requests of two sources.
Syn(s, p) == [kind |-> "syn", src |-> s, port |-> p]
Udp(s, p) == [kind |-> "udp", src |-> s, port |-> p]
Req(s, p) == [kind |-> "req", src |-> s, port |-> p]
Traffic == {[flows |-> <<>>, rate |-> r] : r \in {"low", "mid", "high"}}
    \cup {[flows |-> fs, rate |-> "low"] : fs \in
            {<<Syn(1, 1), Syn(1, 2)>>, <<Syn(1, 1)>>, <<Syn(2, 2), Syn(1, 2)>>,
             <<Req(1, 1)>>, <<Udp(1, 1)>>, <<Req(1, 1), Udp(1, 1)>>, <<Req(2, 2), Req(1, 1)>>}}
N == INSTANCE NetworkDetector WITH
        verdict <- scanVerdict, Batches <- Traffic, Ifaces <- {1, 2}, FleetLimit <- 1,
        SourceLimit <- 1, RequestLimit <- 2, PortLimit <- 2, ScanWindow <- 1, ScanPorts <- 2,
        ReplyWindow <- 2, RecoveryWindows <- 2, MaxSent <- 4, MaxConnections <- 1

network == <<fleet, used, sent, conn, asked, calm, scanVerdict>>

MCInit ==
    /\ \/ profile \in {"faults", "detector"} /\ Init
       \/ profile = "sessions" /\ Replaced!Init
    /\ N!Init

MCNext ==
    /\ UNCHANGED profile
    /\ \/ profile = "faults" /\ Next /\ UNCHANGED network
       \/ profile = "sessions" /\ Replaced!Next /\ UNCHANGED network
       \/ profile = "detector" /\ N!Next /\ UNCHANGED vars

MCSpec == MCInit /\ [][MCNext]_<<vars, profile, network>>

-----------------------------------------------------------------------------

\* Nothing of a batch is taken in twice, however often it arrives: its health
\* counters are recorded once and the detector is shown it once, in a
\* watermark table that keeps its bound.
EachBatchOnce ==
    /\ ObservedOnce
    /\ IF profile = "sessions"
       THEN Replaced!TypeInvariant /\ Replaced!WatermarksBounded /\ Replaced!HealthCountedOnce
       ELSE TypeInvariant /\ WatermarksBounded /\ HealthCountedOnce

\* Replies are never taken for probes, a flood ends only after enough complete
\* and quiet windows in a row, a scan is alerted or its coverage is called
\* incomplete, and the shared budget of ports stays exact, through lost, late
\* and incomplete batches and evicted interfaces (detect/network.go, fleet.go).
NetworkSound ==
    profile = "detector" => N!NoReplyAsProbe /\ N!RecoveryProven /\ N!NoSilentScan /\ N!BudgetExact
=============================================================================
