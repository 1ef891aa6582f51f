-------------------------- MODULE NetworkDetector --------------------------
(***************************************************************************)
(* The detectors of floods and port scans (internal/detect: network.go)    *)
(* and the fleet that keeps one per interface and one budget of ports for  *)
(* all (fleet.go).                                                         *)
(*                                                                         *)
(* Every instant the sensor closes one window of one interface.  Its batch *)
(* arrives, complete or not, or is lost; the connection may be replaced    *)
(* between two batches, and an old batch may arrive late.                  *)
(***************************************************************************)
EXTENDS Integers, Sequences, FiniteSets, FiniteSetsExt, Folds

CONSTANTS
    Ifaces,          \* interface names, 1 .. n
    FleetLimit,      \* Fleet.limit
    Batches,         \* [flows, rate]: flows are [kind, src, port], where "syn" probes,
                     \* "udp" comes in and "req" goes out; rate is "low", "mid" or "high"
    SourceLimit,     \* Network.scanLimit
    RequestLimit,    \* Network.udpLimit
    PortLimit,       \* scanPortBudget.limit
    ScanWindow,      \* config.ScanWindow
    ScanPorts,       \* config.ScanUniquePorts
    ReplyWindow,     \* udpReplyWindow
    RecoveryWindows, \* config.RecoveryWindows
    MaxSent,         \* bound: windows closed
    MaxConnections   \* bound: replaced connections and late batches

VARIABLES
    fleet,    \* Fleet.interfaces: the detectors kept
    used,     \* scanPortBudget.used
    sent,     \* time of the last window closed
    conn,     \* current connection
    asked,    \* history: per tuple, the last window with a request, per interface
    calm,     \* history: per interface, the windows up to the last that were seen, complete and quiet
    verdict   \* history: what was wrong with the last batch

vars == <<fleet, used, sent, conn, asked, calm, verdict>>

Flows == UNION {{b.flows[n] : n \in DOMAIN b.flows} : b \in Batches}
Tuples == {<<f.src, f.port>> : f \in Flows}
Sources == {f.src : f \in Flows}
Never == -100
Fine == [reply |-> FALSE, hasty |-> FALSE, missed |-> FALSE]

\* newNetworkLimits
NewNetwork(c) ==
    [seen |-> 0, conn |-> c, last |-> 0, reset |-> FALSE, udp |-> [x \in {} |-> 0], udpUntil |-> 0,
     scans |-> [s \in {} |-> 0], scanUntil |-> 0, flood |-> FALSE, quiet |-> 0]

With(f, x, v) == [y \in DOMAIN f \cup {x} |-> IF y = x THEN v ELSE f[y]]
Only(f, S) == [y \in DOMAIN f \cap S |-> f[y]]
PortsIn(scans) == MapThenSumSet(LAMBDA s : Cardinality(scans[s].ports), DOMAIN scans)

---------------------------------------------------------------------------
(* One batch *)

\* ResetContinuity
ResetContinuity(d, c) ==
    [d EXCEPT !.last = 0, !.udp = [x \in {} |-> 0], !.reset = TRUE, !.conn = c]

Continuous(d, t) == d.last = 0 \/ t = d.last + 1

\* markUDPUncertain
UdpUncertain(d, t) == [d EXCEPT !.udpUntil = Max({@, t + ReplyWindow})]

\* prune, and the scans that scanEvents finds idle: the state, and the ports
\* released.
Pruned(d, t) ==
    [d EXCEPT !.scans = Only(@, {s \in DOMAIN d.scans : t - d.scans[s].started <= ScanWindow}),
              !.udp = Only(@, {x \in DOMAIN d.udp : t - d.udp[x] < ReplyWindow})]

\* rememberUDP
Remember(a, x, t) ==
    IF x \notin DOMAIN a.d.udp /\ Cardinality(DOMAIN a.d.udp) >= RequestLimit
    THEN [a EXCEPT !.ignored = TRUE]
    ELSE [a EXCEPT !.d.udp = With(@, x, t)]

\* A probe that finds no room: markScanIncomplete, one beyond the window.
Refuse(a, t) == [a EXCEPT !.refused = TRUE, !.d.scanUntil = Max({@, t + ScanWindow + 1})]

\* observePort: a new source or a known one, then the port.
AddPort(a, s, p, t) ==
    LET scan == a.d.scans[s]
        wanted == ~scan.emitted /\ Cardinality(scan.ports) < ScanPorts /\ p \notin scan.ports
    IN  IF ~wanted THEN a
        ELSE IF a.used >= PortLimit THEN Refuse(a, t)
        ELSE [a EXCEPT !.d.scans[s].ports = @ \cup {p}, !.used = @ + 1]

ObservePort(a, s, p, t) ==
    IF s \in DOMAIN a.d.scans THEN AddPort(a, s, p, t)
    ELSE IF Cardinality(DOMAIN a.d.scans) >= SourceLimit THEN Refuse(a, t)
    ELSE AddPort([a EXCEPT !.d.scans = With(@, s, [started |-> t, ports |-> {}, emitted |-> FALSE])],
                 s, p, t)

\* Outbound requests come first, then what came in.
Outbound(a, f, t) == IF f.kind = "req" THEN Remember(a, <<f.src, f.port>>, t) ELSE a

IsReply(i, x, t) == t - asked'[i][x] < ReplyWindow

Inbound(a, f, i, t) ==
    IF f.kind = "syn" THEN ObservePort(a, f.src, f.port, t)
    ELSE IF f.kind = "udp" /\ <<f.src, f.port>> \notin DOMAIN a.d.udp /\ a.clear
    THEN [ObservePort(a, f.src, f.port, t)
            EXCEPT !.reply = @ \/ IsReply(i, <<f.src, f.port>>, t)]
    ELSE a

\* observeFlood: an incident starts, goes on, or ends after enough reliable
\* quiet windows.
Flood(d, rate, reliable) ==
    IF rate = "high" THEN [d EXCEPT !.flood = TRUE, !.quiet = 0]
    ELSE IF ~d.flood THEN d
    ELSE IF ~reliable \/ rate = "mid" THEN [d EXCEPT !.quiet = 0]
    ELSE IF d.quiet + 1 >= RecoveryWindows THEN [d EXCEPT !.flood = FALSE, !.quiet = 0]
    ELSE [d EXCEPT !.quiet = @ + 1]

\* scanEvents: the sources alerted now.
Due(d) == {s \in DOMAIN d.scans : ~d.scans[s].emitted /\ Cardinality(d.scans[s].ports) >= ScanPorts}
Emit(d) == [d EXCEPT !.scans = [s \in DOMAIN @ |-> [@[s] EXCEPT !.emitted = @ \/ s \in Due(d)]]]

\* Everything Observe makes of a batch.
Observe(d, i, t, flows, rate, complete) ==
    LET continuous == Continuous(d, t)
        doubt    == d.last = 0 \/ ~continuous \/ ~complete
        start    == Pruned([(IF doubt THEN UdpUncertain(d, t) ELSE d) EXCEPT !.last = t], t)
        acc      == [d |-> start, used |-> used - PortsIn(d.scans) + PortsIn(start.scans),
                     ignored |-> FALSE, refused |-> FALSE, reply |-> FALSE, clear |-> FALSE]
        out      == FoldFunction(LAMBDA f, a : Outbound(a, f, t), acc, flows)
        full     == out.ignored \/ Cardinality(DOMAIN out.d.udp) >= RequestLimit
        known    == IF full THEN [out EXCEPT !.d = UdpUncertain(@, t)] ELSE out
        clear    == t >= known.d.udpUntil /\ continuous /\ complete
        in       == FoldFunction(LAMBDA f, a : Inbound(a, f, i, t), [known EXCEPT !.clear = clear], flows)
        reliable == ~d.reset /\ continuous /\ complete /\ ~in.refused /\ ~in.ignored
    IN  [in EXCEPT !.d = [Flood(@, rate, reliable) EXCEPT !.reset = FALSE]]

---------------------------------------------------------------------------
(* Fleet.Observe *)

Oldest == CHOOSE i \in DOMAIN fleet :
            \A j \in DOMAIN fleet : fleet[i].seen < fleet[j].seen
                                    \/ (fleet[i].seen = fleet[j].seen /\ i <= j)

\* Mutant: an evicted detector keeps its share of the ports.
ReleasedNone(evicted) == 0

\* releaseScanState of the evicted detectors.
Released(evicted) == MapThenSumSet(LAMBDA i : PortsIn(fleet[i].scans), evicted)

Evicted(i) ==
    IF i \notin DOMAIN fleet /\ Cardinality(DOMAIN fleet) >= FleetLimit THEN {Oldest} ELSE {}

Entry(i, c) ==
    IF i \notin DOMAIN fleet THEN NewNetwork(c)
    ELSE IF fleet[i].conn # c THEN ResetContinuity(fleet[i], c) ELSE fleet[i]

Calm(i, rate, complete) ==
    [j \in Ifaces |-> IF j = i /\ rate = "low" /\ complete THEN Min({calm[j] + 1, RecoveryWindows}) ELSE 0]

Asked(i, flows, t) ==
    [asked EXCEPT ![i] = [x \in Tuples |->
        IF \E n \in DOMAIN flows : flows[n].kind = "req" /\ x = <<flows[n].src, flows[n].port>> THEN t ELSE @[x]]]

\* A source whose probes of this very batch would do, without an alert.
Missed(d, flows, t) ==
    \E s \in Sources :
        /\ Cardinality({flows[n].port : n \in {m \in DOMAIN flows : flows[m].kind = "syn" /\ flows[m].src = s}})
             >= ScanPorts
        /\ s \notin {x \in DOMAIN d.scans : d.scans[x].emitted}
        /\ t >= d.scanUntil

\* A batch arrives.  asked' already holds its own requests: an answer within
\* the window is a reply.
Arrive(i, flows, rate, complete) ==
    /\ sent < MaxSent /\ sent' = sent + 1
    /\ asked' = Asked(i, flows, sent')
    /\ calm' = Calm(i, rate, complete)
    /\ LET gone == Evicted(i)
           d    == Entry(i, conn)
           r    == Observe(d, i, sent', flows, rate, complete)
           done == [Emit(r.d) EXCEPT !.seen = sent']
       IN  /\ fleet' = With(Only(fleet, Ifaces \ gone), i, done)
           /\ used' = r.used - Released(gone)
           /\ verdict' = [reply |-> r.reply,
                          hasty |-> d.flood /\ ~done.flood /\ calm'[i] < RecoveryWindows,
                          missed |-> Missed(done, flows, sent')]
    /\ UNCHANGED conn

\* A window whose batch never arrives.
Lose(i, flows) ==
    /\ sent < MaxSent /\ sent' = sent + 1
    /\ asked' = Asked(i, flows, sent')
    /\ calm' = [j \in Ifaces |-> 0] /\ verdict' = Fine
    /\ UNCHANGED <<fleet, used, conn>>

\* The sensor connects anew; nothing need be lost.
Reconnect ==
    /\ conn < MaxConnections /\ conn' = conn + 1
    /\ UNCHANGED <<fleet, used, sent, asked, calm>> /\ verdict' = Fine

\* A batch of an earlier connection arrives late and is ignored, but for the
\* change of connection.
Late(i) ==
    /\ i \in DOMAIN fleet /\ conn > 0 /\ fleet[i].conn # conn - 1
    /\ fleet' = [fleet EXCEPT ![i] = ResetContinuity(@, conn - 1)]
    /\ UNCHANGED <<used, sent, conn, asked, calm>> /\ verdict' = Fine

Init ==
    /\ fleet = [i \in {} |-> 0] /\ used = 0 /\ sent = 0 /\ conn = 0
    /\ asked = [i \in Ifaces |-> [x \in Tuples |-> Never]]
    /\ calm = [i \in Ifaces |-> 0] /\ verdict = Fine

Next == \/ \E i \in Ifaces, b \in Batches :
              \/ Lose(i, b.flows)
              \/ \E complete \in BOOLEAN : Arrive(i, b.flows, b.rate, complete)
        \/ Reconnect \/ \E i \in Ifaces : Late(i)

Spec == Init /\ [][Next]_vars

---------------------------------------------------------------------------
(* Properties *)

\* The answer to a request of the last reply window is never taken for a
\* probe, though the batch with the request was lost, the table of requests
\* was full, or the connection or the detector was replaced.
NoReplyAsProbe == ~verdict.reply

\* A flood is reported as over only after enough windows of the interface in
\* a row arrived, complete and quiet.
RecoveryProven == ~verdict.hasty

\* A batch with enough probes of one source is alerted, unless the detector
\* admits that its coverage of scans is incomplete.
NoSilentScan == ~verdict.missed

\* The budget all detectors share is what their sources hold, through
\* refusals, expiry and the eviction of whole interfaces.
BudgetExact ==
    /\ used = MapThenSumSet(LAMBDA i : PortsIn(fleet[i].scans), DOMAIN fleet)
    /\ used <= PortLimit

=============================================================================
