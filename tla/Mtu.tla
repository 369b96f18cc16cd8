--------------------------------- MODULE Mtu --------------------------------
(***************************************************************************)
(* Path MTU discovery (mtud.rs): the binary search of EnabledMtuDiscovery,  *)
(* the BlackHoleDetector, and what acknowledgements and losses of probes    *)
(* and other packets do to them, on a path whose limit may shrink.  Sizes   *)
(* are small numbers; a packet number orders the packets as in the code.    *)
(***************************************************************************)
EXTENDS Integers, Sequences, FiniteSets, SequencesExt

CONSTANTS
    MinMtu,      \* min_mtu
    Initials,    \* values of initial_mtu
    UpperBound,  \* MtuDiscoveryConfig::upper_bound
    MinChange,   \* MtuDiscoveryConfig::minimum_change
    PeerMaxes,   \* values of the peer's max_udp_payload_size
    Limits,      \* packets up to this size get through
    Scenarios,   \* [packets, window, noise]: packets that are sent, packets
                 \* outstanding at once, packets within the limit that may be lost
    BlackHoleThreshold  \* BLACK_HOLE_THRESHOLD

VARIABLES
    mtu,     \* current_mtu
    search,  \* Phase, with SearchState
    hole,    \* BlackHoleDetector
    peerMax,
    limit,   \* [now, before]: of the path, and whether it shrank
    next,    \* next packet number
    out,     \* packets outstanding: [pn, len, through]
    acked,   \* largest packet number acknowledged
    bound,   \* of Scenarios
    noise,   \* packets within the limit that were lost
    fired    \* when a black hole was last detected: before or after the path shrank

vars == <<mtu, search, hole, peerMax, limit, next, out, acked, bound, noise, fired>>

MaxProbeRetransmits == 3
None == -1
Smaller(a, b) == IF a < b THEN a ELSE b
Larger(a, b) == IF a < b THEN b ELSE a
Abs(a) == IF a < 0 THEN -a ELSE a

NotSearching(phase) ==
    [phase |-> phase, lower |-> 0, upper |-> 0, last |-> 0, probe |-> None, lost |-> 0]

NewDetector == [bursts |-> <<>>, current |-> <<>>, post |-> 0, acked |-> MinMtu]

\* MtuDiscovery::new and on_peer_max_udp_payload_size_received
Init ==
    /\ bound \in Scenarios
    /\ peerMax \in PeerMaxes
    /\ \E i \in Initials : mtu = Smaller(i, peerMax)
    /\ \E l \in Limits : l >= mtu /\ limit = [now |-> l, before |-> l]
    /\ search = NotSearching("Initial")
    /\ hole = NewDetector
    /\ next = 1 /\ out = {} /\ acked = None /\ noise = 0 /\ fired = "never"

-----------------------------------------------------------------------------
(* The search                                                              *)

\* SearchState::new
NewSearch ==
    LET lower == Smaller(mtu, peerMax) IN
    [phase |-> "Searching", lower |-> lower,
     upper |-> Larger(lower, Smaller(UpperBound, peerMax)),
     last |-> lower, probe |-> None, lost |-> 0]

\* next_mtu_to_probe: the bounds after the last probe, and the next size
Narrowed(s) ==
    IF s.lost = 0 THEN [s EXCEPT !.lower = s.last] ELSE [s EXCEPT !.upper = s.last - 1]
NextSize(s) ==
    LET middle == (s.lower + s.upper) \div 2 IN
    IF Abs(middle - s.last) >= MinChange THEN middle
    ELSE IF s.upper - s.last >= MinChange THEN s.upper ELSE None

\* EnabledMtuDiscovery::poll_transmit: the state, and the size of the probe
Polled ==
    LET s == IF search.phase = "Searching" THEN search ELSE NewSearch
        n == Narrowed(s)
    IN IF s.probe # None THEN [search |-> s, size |-> None]
       ELSE IF s.lost > 0 /\ s.lost < MaxProbeRetransmits
       THEN [search |-> [s EXCEPT !.probe = next], size |-> s.last]
       ELSE IF NextSize(n) = None
       THEN [search |-> NotSearching("Complete"), size |-> None]
       ELSE [search |-> [n EXCEPT !.probe = next, !.last = NextSize(n), !.lost = 0],
             size |-> NextSize(n)]

\* on_probe_lost
ProbeLost(s) ==
    IF s.phase = "Searching" THEN [s EXCEPT !.probe = None, !.lost = @ + 1] ELSE s

-----------------------------------------------------------------------------
(* The black hole detector                                                 *)

\* finish_loss_burst
FinishBurst(h) ==
    LET b == h.current[1]
        h1 == [h EXCEPT !.current = <<>>,
                        !.acked = IF b.pn > h.post THEN MinMtu ELSE @]
        least == CHOOSE i \in DOMAIN h.bursts : \A j \in DOMAIN h.bursts : h.bursts[i] <= h.bursts[j]
    IN IF h.current = <<>> THEN h
       ELSE IF b.size <= MinMtu \/ (b.pn < h.post /\ b.size <= h.acked)
       THEN [h EXCEPT !.current = <<>>]
       ELSE IF Len(h.bursts) <= BlackHoleThreshold
       THEN [h1 EXCEPT !.bursts = Append(@, b.size)]
       ELSE IF h.bursts[least] < b.size THEN [h1 EXCEPT !.bursts[least] = b.size] ELSE h1

\* on_non_probe_lost
NonProbeLost(h, pk) ==
    LET h1 == IF h.current # <<>> /\ pk.pn - h.current[1].pn # 1 THEN FinishBurst(h) ELSE h
        size == IF h1.current = <<>> THEN pk.len ELSE Smaller(h1.current[1].size, pk.len)
    IN [h1 EXCEPT !.current = << [pn |-> pk.pn, size |-> size] >>]

\* on_non_probe_acked
NonProbeAcked(h, pk) ==
    IF pk.len <= h.acked THEN h
    ELSE [h EXCEPT !.acked = pk.len, !.post = pk.pn,
                   !.bursts = SelectSeq(@, LAMBDA b : b > pk.len)]

\* BlackHoleDetector::on_probe_acked
ProbeAcked(h, pk) == [h EXCEPT !.bursts = <<>>, !.acked = pk.len, !.post = pk.pn]

\* black_hole_detected
IsHole(h) == Len(h.bursts) > BlackHoleThreshold

\* Mutant: the search goes on with the probe that is in flight.
OnHoleSearching(h) == [hole |-> [h EXCEPT !.bursts = <<>>], mtu |-> MinMtu, search |-> search]
\* MtuDiscovery::black_hole_detected: back to the minimum, and no search
OnHole(h) == [hole |-> [h EXCEPT !.bursts = <<>>], mtu |-> MinMtu, search |-> NotSearching("Complete")]

-----------------------------------------------------------------------------
(* Steps of the connection                                                 *)

Send(len, isNoise) ==
    /\ next < bound.packets /\ Cardinality(out) < bound.window
    /\ next' = next + 1
    /\ out' = out \cup {[pn |-> next, len |-> len, through |-> len <= limit.now /\ ~isNoise]}
    /\ noise' = IF isNoise THEN noise + 1 ELSE noise
    /\ ~isNoise \/ (noise < bound.noise /\ len <= limit.now)

\* Packets as large as the MTU, and small ones
SendData ==
    /\ \E len \in {MinMtu, mtu}, n \in BOOLEAN : Send(len, n)
    /\ UNCHANGED <<mtu, search, hole, peerMax, limit, acked, bound, fired>>

\* poll_transmit_mtu_probe; the search may find nothing left to probe.
SendProbe ==
    /\ search.probe = None /\ search.phase # "Complete"
    /\ search' = Polled.search
    /\ IF Polled.size = None THEN UNCHANGED <<next, out, noise>>
       ELSE \E n \in BOOLEAN : Send(Polled.size, n)
    /\ UNCHANGED <<mtu, hole, peerMax, limit, acked, bound, fired>>

\* The interval or the cooldown passed: the search starts again.
Restart ==
    /\ search.phase = "Complete" /\ next < bound.packets
    /\ search' = NewSearch
    /\ UNCHANGED <<mtu, hole, peerMax, limit, next, out, acked, bound, noise, fired>>

\* on_probe_acked
IsProbe(pk) == search.phase = "Searching" /\ search.probe = pk.pn

\* on_acked
Ack ==
    \E pk \in {p \in out : p.through} :
        /\ IF IsProbe(pk)
           THEN /\ search' = [search EXCEPT !.probe = None, !.lost = 0]
                /\ mtu' = search.last
                /\ hole' = ProbeAcked(hole, pk)
           ELSE /\ hole' = NonProbeAcked(hole, pk)
                /\ UNCHANGED <<mtu, search>>
        /\ out' = out \ {pk}
        /\ acked' = Larger(acked, pk.pn)
        /\ UNCHANGED <<peerMax, limit, next, bound, noise, fired>>

\* The path carries less than it did.
Shrank == limit.now # limit.before

\* detect_lost_packets omits the probe from the lost packets.
Regular(lost) == {p \in lost : p.pn # search.probe}

Ascending(S) == SetToSortSeq(S, LAMBDA a, b : a.pn < b.pn)

\* handle_lost_packets: the lost packets in order, black_hole_detected, the probe
Lose ==
    \E lost \in SUBSET {p \in out : ~p.through /\ p.pn < acked} \ {{}} :
        LET regular == Regular(lost)
            h == IF regular = {} THEN hole
                 ELSE FinishBurst(FoldLeft(NonProbeLost, hole, Ascending(regular)))
            isHole == regular # {} /\ IsHole(h)
            new == IF isHole THEN OnHole(h) ELSE [hole |-> h, mtu |-> mtu, search |-> search]
        IN /\ mtu' = new.mtu
           /\ hole' = new.hole
           /\ search' = IF \E p \in lost : p.pn = search.probe THEN ProbeLost(new.search) ELSE new.search
           /\ fired' = IF ~isHole THEN fired ELSE IF Shrank THEN "after" ELSE "before"
           /\ out' = out \ lost
           /\ UNCHANGED <<peerMax, limit, next, acked, bound, noise>>

\* The route changes to one that carries less.
Shrink ==
    /\ limit.now = limit.before
    /\ \E l \in Limits : l < limit.now /\ limit' = [limit EXCEPT !.now = l]
    /\ UNCHANGED <<mtu, search, hole, peerMax, next, out, acked, bound, noise, fired>>

Next == SendData \/ SendProbe \/ Restart \/ Ack \/ Lose \/ Shrink

Spec == Init /\ [][Next]_vars

-----------------------------------------------------------------------------
(* Properties                                                              *)

\* The MTU is a size that the path carries and the peer takes until the path
\* shrinks, and again from the detection of the black hole on, however late the
\* acknowledgement or the loss of a probe comes: after the search ended, among
\* the losses of other packets, after a black hole, during the search after it.
MtuCarried ==
    /\ mtu >= MinMtu /\ mtu <= peerMax
    /\ ~Shrank \/ fired = "after" => mtu <= limit.now

\* Without other losses a search that ends has found what the path carries, up
\* to the smallest change worth a probe.
SearchExact ==
    search.phase = "Complete" /\ ~Shrank /\ noise = 0 =>
        Smaller(Smaller(UpperBound, peerMax), limit.now) - mtu < MinChange

\* A path that carries what is sent is not taken for a black hole: that takes more
\* losses of other packets than the threshold; the loss of the probe that is awaited
\* never counts.  (A probe that is lost after a black hole counts as any packet.)
NoFalseAlarm == fired = "before" => noise > BlackHoleThreshold
=============================================================================
