------------------------------ MODULE Recovery ------------------------------
(***************************************************************************)
(* Loss detection and acknowledgements of one path in the Data space: the   *)
(* sender of Connection::inner_on_ack_received, detect_lost_packets,        *)
(* on_loss_detection_timeout and spaces.rs, and a receiver with its Dedup   *)
(* and PendingAcks, over a network that loses, duplicates and reorders.     *)
(* The path migrates to another 4-tuple and may fall back; until its        *)
(* 4-tuple is validated the sender is a server, which sends no more than    *)
(* three times what it received there.  Round-trip times are choices: which *)
(* packets are too old, and whether a probe timeout comes early.  Sizes     *)
(* count packets.                                                           *)
(***************************************************************************)
EXTENDS Integers, FiniteSets, FiniteSetsExt

CONSTANTS
    Controls,         \* frames kept in Retransmits
    Data,             \* stream data, which the packet only refers to
    AckFrequency,     \* the configuration requests an acknowledgement delay
    PacketThreshold,  \* TransportConfig::packet_threshold
    Window,           \* packets in flight that congestion control admits
    DedupBits,        \* width of Dedup's window: 128 in the code
    MaxBlocks,        \* MAX_ACK_BLOCKS
    MaxTail,          \* MAX_UNACKED_NON_ACK_ELICTING_TAIL
    Skips,            \* candidates for the packet number that is skipped
    Gains,            \* what a datagram of the client allows the server to send
    Scenarios         \* [items, freq, validated, budget]: what waits to be sent, the
                      \* thresholds of eliciting and reordered packets, whether the path
                      \* begins on a validated 4-tuple, how often each Event may happen

VARIABLES
    num,       \* [next, skip, skipped, largestAcked] of the PacketNumberSpace
    sent,      \* sent_packets: packet number -> SentPacket
    tail,      \* [largest, count]: largest_ack_eliciting_sent and the tail after it
    flow,      \* [lossTime, timer, probes, ping, elicited, asked] of loss detection
    path,      \* PathData: [gen, bytes, eliciting, validated, allowance, challenge, probe]
    prev,      \* PathState::prev
    pending,   \* frames and data waiting to be sent
    acked,     \* those whose delivery is confirmed
    ecn,       \* sending_ecn and ecn_feedback
    net,       \* packets under way
    acks,      \* ACK frames under way
    dedup,     \* [next, window]
    pa,        \* PendingAcks of the receiver
    ackTimer,  \* PathTimer::MaxAckDelay
    freq,      \* the receiver's acknowledgement parameters
    got,       \* what the receiver processed: packet numbers
    seen,      \* and the frames and data in them
    heard,     \* largest number of each ACK frame that reached the sender
    budget,    \* what is left of the scenario's budget
    generation,
    error

sender == <<num, sent, tail, flow, path, prev, pending, acked, ecn, generation, error>>
receiver == <<dedup, pa, ackTimer, freq, got, seen>>
vars == <<num, sent, tail, flow, path, prev, pending, acked, ecn, net, acks, dedup,
          pa, ackTimer, freq, got, seen, heard, budget, generation, error>>

None == -1
Items == Controls \cup Data
SetMin(S) == Min(S)
SetMax(S) == Max(S)
Without(f, S) == [x \in DOMAIN f \ S |-> f[x]]

\* Rare events; a scenario bounds each of them.
Event ==
    {"lose", "dup", "early", "ackOnly", "migrate", "mtu"}

ASSUME ConstantsAssumption ==
    /\ AckFrequency \in BOOLEAN /\ PacketThreshold \in Nat
    /\ {Window, DedupBits, MaxBlocks, MaxTail} \subseteq Nat \ {0}
    /\ Skips \subseteq Nat /\ Gains \subseteq Nat
    /\ \A sc \in Scenarios :
           /\ sc.items \subseteq Items /\ sc.freq \in Nat \X Nat
           /\ sc.validated \in BOOLEAN /\ sc.budget \in [Event -> Nat]

Spend(event) == budget[event] > 0 /\ budget' = [budget EXCEPT ![event] = @ - 1]

\* The allowance is three times total_recvd, less total_sent; it no longer counts
\* once the 4-tuple is validated.
NewPath(gen, validated, allowance) ==
    [gen |-> gen, bytes |-> 0, eliciting |-> 0, validated |-> validated,
     allowance |-> allowance, challenge |-> ~validated, probe |-> None]

\* PathData::anti_amplification_blocked
Blocked(p) == ~p.validated /\ p.allowance <= 0

\* inc_total_recvd and inc_total_sent
Allowed(p, n) == IF p.validated THEN p ELSE [p EXCEPT !.allowance = @ + n]

Init ==
    /\ \E sc \in Scenarios :
           /\ budget = sc.budget /\ freq = sc.freq /\ pending = sc.items
           /\ acked = Items \ sc.items /\ seen = Items \ sc.items
           /\ \E gain \in Gains : path = NewPath(0, sc.validated, IF sc.validated THEN 0 ELSE gain)
    /\ \E s \in Skips : num = [next |-> 0, skip |-> s, skipped |-> None, largestAcked |-> None]
    /\ sent = <<>> /\ tail = [largest |-> 0, count |-> 0]
    /\ flow = [lossTime |-> FALSE, timer |-> FALSE, probes |-> 0, ping |-> FALSE,
               elicited |-> FALSE, asked |-> FALSE]
    /\ prev = <<>> /\ generation = 0
    /\ ecn = [on |-> TRUE, feedback |-> 0]
    /\ net = {} /\ acks = {}
    /\ dedup = [next |-> 0, window |-> {}]
    /\ pa = [immediate |-> FALSE, eliciting |-> 0, other |-> 0, ranges |-> {},
             largest |-> None, reported |-> None, waiting |-> FALSE]
    /\ ackTimer = FALSE /\ got = {} /\ heard = {}
    /\ error = "none"

-----------------------------------------------------------------------------
(* Packet number space and counters                                        *)

\* get_tx_number: the number of the packet; the skipped one is passed over.
TxNumber == IF num.next = num.skip THEN num.next + 1 ELSE num.next
TakeNumber ==
    [num EXCEPT !.next = TxNumber + 1,
                !.skipped = IF num.next = num.skip THEN num.skip ELSE @]

\* PacketNumberSpace::sent: the tail, and the packet that is forgotten for it
CountSent(pn, eliciting) ==
    IF eliciting THEN [largest |-> pn, count |-> 0]
    ELSE IF tail.count > MaxTail THEN tail ELSE [tail EXCEPT !.count = @ + 1]
Forgotten(eliciting) ==
    IF eliciting \/ tail.count <= MaxTail THEN {}
    ELSE {SetMin({p \in DOMAIN sent : p > tail.largest})}

\* take, for a set of packets
TailAfter(S) ==
    [tail EXCEPT !.count =
        @ - Cardinality({p \in S : ~sent[p].eliciting /\ p > tail.largest})]

\* Mutant: packets of another generation are taken off as well.
RemoveInFlightAny(p, S) ==
    [p EXCEPT !.bytes = @ - Cardinality({n \in S : sent[n].size > 0}),
              !.eliciting = @ - Cardinality({n \in S : sent[n].eliciting})]
\* PathData::remove_in_flight of a set of packets
RemoveInFlight(p, S) ==
    LET mine == {n \in S : sent[n].gen = p.gen}
    IN [p EXCEPT !.bytes = @ - Cardinality({n \in mine : sent[n].size > 0}),
                 !.eliciting = @ - Cardinality({n \in mine : sent[n].eliciting})]
\* PathState::remove_in_flight also looks at the previous 4-tuple.
RemovePrev(S) == IF prev = <<>> THEN prev ELSE <<RemoveInFlight(prev[1], S)>>

ContentsOf(S) == UNION {sent[p].controls \cup sent[p].data : p \in S}

-----------------------------------------------------------------------------
(* Timers                                                                  *)

\* pto_time_and_space for a path whose peer validated our address
PtoArmed(s, p, elicited) ==
    /\ \E n \in DOMAIN s : s[n].size > 0
    /\ elicited /\ ~Blocked(p) /\ p.eliciting # 0

\* set_loss_detection_timer
Timer(lossTime, s, p, elicited) == lossTime \/ PtoArmed(s, p, elicited)

\* Mutant: a datagram of the client leaves the timer as it is.
RearmedNever(p) == flow
\* handle_event: anti-amplification may have kept the timer from being armed, so
\* it is set again with the allowance that a datagram brought.
Rearmed(p) ==
    IF Blocked(path) THEN [flow EXCEPT !.timer = Timer(flow.lossTime, sent, p, flow.elicited)]
    ELSE flow

\* Mutant: what a lost packet held is only sent again if it was stream data.
RequeueData(S) == ContentsOf(S) \cap Data
\* handle_lost_packets: streams.retransmit and pending |= retransmits
Requeue(S) == ContentsOf(S)

\* Packets below the largest acknowledged one that are lost: those sent before
\* packet number old are too old.
Lost(s, largest, old) ==
    {n \in DOMAIN s : n < largest /\ (n < old \/ largest >= n + PacketThreshold)}

\* detect_lost_packets and handle_lost_packets, after the packets of taken were
\* acknowledged by a datagram that allows gain more.  A lost MTU probe makes
\* nothing wait but the next probe.
DetectLost(taken, largest, old, gain) ==
    LET s == Without(sent, taken)
        lost == Lost(s, largest, old)
        left == Without(s, lost)
        p == Allowed(RemoveInFlight(RemoveInFlight(path, taken), lost), gain)
        lossTime == \E n \in DOMAIN left : n < largest
    IN /\ sent' = left
       /\ tail' = TailAfter(taken \cup lost)
       /\ path' = [p EXCEPT !.probe = IF @ \in taken \cup lost THEN None ELSE @]
       /\ prev' = RemovePrev(lost)
       /\ pending' = pending \cup (Requeue(lost) \ IF path.probe \in lost
                                                   THEN ContentsOf({path.probe}) ELSE {})
       /\ flow' = [flow EXCEPT !.lossTime = lossTime,
                               !.timer = Timer(lossTime, left, p, flow.elicited)]

-----------------------------------------------------------------------------
(* Sending                                                                 *)

\* queue_tail_loss_probe: with nothing new to send, the frames of the oldest
\* packet that has any are sent again; else a PING.
Oldest == {n \in DOMAIN sent : sent[n].controls # {}}
ProbeFrom ==
    IF pending \cap Controls # {} \/ Oldest = {} THEN {} ELSE {SetMin(Oldest)}
ProbeControls == UNION {sent[n].controls : n \in ProbeFrom}

\* poll_transmit schedules ACK_FREQUENCY from scratch every time: it is due when
\* none was sent before (the delay that is asked for stays the same here).
Requested(p) ==
    IF AckFrequency /\ flow.asked THEN p \ {"ack_frequency"} ELSE p

Packet(pn, controls, data, eliciting, size) ==
    [pn |-> pn, eliciting |-> eliciting, controls |-> controls, data |-> data,
     gen |-> path.gen, size |-> size]

\* PacketBuilder::finish_and_track.  s is sent_packets before the packet;
\* total_sent is only raised when poll_transmit returns.
Track(s, pk) ==
    LET gone == Forgotten(pk.eliciting)
        p == RemoveInFlight(path, gone)
        left == Without(s, gone)
        after == [n \in DOMAIN left \cup {pk.pn} |-> IF n = pk.pn THEN pk ELSE left[n]]
        now == [p EXCEPT !.bytes = @ + (IF pk.size > 0 THEN 1 ELSE 0),
                         !.eliciting = @ + (IF pk.eliciting THEN 1 ELSE 0),
                         !.challenge = @ /\ ~pk.eliciting]
        elicited == flow.elicited \/ pk.eliciting
    IN /\ sent' = after
       /\ tail' = CountSent(pk.pn, pk.eliciting)
       /\ path' = Allowed(now, -1)
       /\ num' = TakeNumber
       /\ net' = net \cup {pk}
       /\ flow' = [flow EXCEPT
              !.elicited = elicited,
              !.asked = @ \/ "ack_frequency" \in pk.controls,
              !.probes = IF pk.eliciting /\ @ > 0 THEN @ - 1 ELSE @,
              !.ping = @ /\ ~pk.eliciting,
              !.timer = IF pk.size = 0 THEN @ ELSE Timer(flow.lossTime, after, now, elicited)]

\* path_congestion_check
Admitted == ~Blocked(path) /\ (path.bytes < Window \/ flow.probes > 0)

\* An ack-eliciting packet: some of what waits, or a PING or a PATH_CHALLENGE.
\* A tail-loss probe takes frames out of an older packet first.
Transmit ==
    /\ error = "none" /\ Admitted
    /\ LET probing == flow.probes > 0
           from == IF probing THEN ProbeFrom ELSE {}
           s == [n \in DOMAIN sent |->
                    IF n \in from THEN [sent[n] EXCEPT !.controls = {}] ELSE sent[n]]
           waiting == Requested(pending \cup IF probing THEN ProbeControls ELSE {})
           forced == probing \/ flow.ping \/ path.challenge
       IN /\ waiting # {} \/ forced
          /\ \E part \in (IF waiting = {} THEN {{}} ELSE SUBSET waiting \ {{}}) :
                 /\ Track(s, Packet(TxNumber, part \cap Controls, part \cap Data, TRUE, 1))
                 /\ pending' = waiting \ part
    /\ UNCHANGED <<prev, acked, ecn, acks, receiver, heard, budget, generation, error>>

\* A packet of nothing but acknowledgements for the other direction
TransmitAckOnly ==
    /\ error = "none" /\ ~Blocked(path) /\ Spend("ackOnly")
    /\ Track(sent, Packet(TxNumber, {}, {}, FALSE, 0))
    /\ UNCHANGED <<prev, pending, acked, ecn, acks, receiver, heard, generation, error>>

\* poll_transmit_mtu_probe: a padded PING on a validated path
TransmitMtuProbe ==
    /\ error = "none" /\ Spend("mtu") /\ path.validated /\ ~path.challenge
    /\ path.probe = None
    /\ LET pk == Packet(TxNumber, {}, {}, TRUE, 2)
           after == [n \in DOMAIN sent \cup {pk.pn} |-> IF n = pk.pn THEN pk ELSE sent[n]]
           now == [path EXCEPT !.bytes = @ + 1, !.eliciting = @ + 1, !.probe = pk.pn]
       IN /\ sent' = after /\ path' = now /\ net' = net \cup {pk}
          /\ tail' = CountSent(pk.pn, TRUE) /\ num' = TakeNumber
          /\ flow' = [flow EXCEPT !.elicited = TRUE,
                                  !.timer = Timer(flow.lossTime, after, now, TRUE)]
    /\ UNCHANGED <<prev, pending, acked, ecn, acks, receiver, heard, generation, error>>

\* PendingAcks::can_send
CanSendAck(p) == p.immediate /\ p.ranges # {}

\* on_loss_detection_timeout.  A probe timeout is early when an answer could
\* still arrive.
Timeout ==
    /\ flow.timer
    /\ IF flow.lossTime
       THEN LET cand == {n \in DOMAIN sent : n < num.largestAcked} IN
            /\ \E old \in {n + 1 : n \in cand} : DetectLost({}, num.largestAcked, old, 0)
            /\ UNCHANGED budget
       ELSE /\ \/ net = {} /\ acks = {} /\ ~ackTimer /\ ~CanSendAck(pa)
                  /\ UNCHANGED budget
               \/ Spend("early")
            /\ flow.probes = 0
            /\ flow' = IF PtoArmed(sent, path, flow.elicited)
                       THEN [flow EXCEPT !.probes = @ + 2] ELSE [flow EXCEPT !.timer = FALSE]
            /\ UNCHANGED <<sent, tail, path, prev, pending>>
    /\ UNCHANGED <<num, acked, ecn, net, acks, receiver, heard, generation, error>>

-----------------------------------------------------------------------------
(* Acknowledgements at the sender                                          *)

\* The ranges of a set of numbers, by their first
Starts(S) == {n \in S : n - 1 \notin S}

\* process_ecn and detect_ecn, when the largest number was raised: it is the
\* ranges that are newly acknowledged that are counted.
EcnResult(a, new, newly) ==
    IF ~ecn.on \/ ~new THEN ecn
    ELSE IF a.ecn < ecn.feedback \/ a.ecn - ecn.feedback < Cardinality(Starts(newly))
    THEN [on |-> FALSE, feedback |-> 0]
    ELSE [ecn EXCEPT !.feedback = a.ecn]

\* inner_on_ack_received, in a datagram that allows gain more
OnAck(a, gain) ==
    LET largest == SetMax(a.ranges)
        new == largest > num.largestAcked
        top == IF new THEN largest ELSE num.largestAcked
        newly == DOMAIN sent \cap a.ranges
    IN IF largest >= num.next \/ num.skipped \in a.ranges
       THEN /\ error' = "unsent packet acked"
            /\ UNCHANGED <<num, sent, tail, flow, path, prev, pending, acked, ecn>>
       ELSE /\ num' = [num EXCEPT !.largestAcked = top]
            /\ acked' = acked \cup ContentsOf(newly)
            /\ IF newly = {}
               THEN /\ path' = Allowed(path, gain) /\ flow' = Rearmed(path')
                    /\ UNCHANGED <<sent, tail, prev, pending, ecn>>
               ELSE /\ \E old \in {0} \cup {n + 1 : n \in {m \in DOMAIN sent \ newly : m < top}} :
                           DetectLost(newly, top, old, gain)
                    /\ ecn' = EcnResult(a, new, newly)
            /\ UNCHANGED error

AckArrives ==
    /\ error = "none"
    /\ \E a \in acks, gain \in Gains :
           /\ OnAck(a, gain)
           /\ acks' = acks \ {a}
           /\ heard' = heard \cup {SetMax(a.ranges)}
    /\ UNCHANGED <<net, receiver, budget, generation>>

\* A datagram of the client without acknowledgements, while it is waited for
ClientSends ==
    /\ error = "none" /\ Blocked(path)
    /\ \E gain \in Gains : path' = Allowed(path, gain)
    /\ flow' = Rearmed(path')
    /\ UNCHANGED <<num, sent, tail, prev, pending, acked, ecn, net, acks, receiver, heard,
                   budget, generation, error>>

-----------------------------------------------------------------------------
(* Migration                                                               *)

\* migrate: the counters of the new 4-tuple start afresh, and the datagram that
\* moved the path counts for it; only a 4-tuple that was not validated is kept as
\* the previous one.
Migrate ==
    /\ error = "none" /\ Spend("migrate")
    /\ generation' = generation + 1
    /\ \E keep \in BOOLEAN, gain \in Gains :
           path' = [NewPath(generation + 1, FALSE, gain) EXCEPT
                       !.probe = IF keep THEN path.probe ELSE None]
    /\ prev' = IF path.validated THEN prev ELSE <<path>>
    /\ flow' = Rearmed(path')
    /\ UNCHANGED <<num, sent, tail, pending, acked, ecn, net, acks, receiver, heard, error>>

\* PATH_RESPONSE confirms the 4-tuple; the previous one is kept, but no longer
\* challenged.
Validated ==
    /\ ~path.validated /\ ~path.challenge
    /\ path' = [path EXCEPT !.validated = TRUE, !.allowance = 0]
    /\ prev' = IF prev = <<>> THEN prev ELSE <<[prev[1] EXCEPT !.challenge = FALSE]>>
    /\ flow' = Rearmed(path')
    /\ UNCHANGED <<num, sent, tail, pending, acked, ecn, net, acks, receiver, heard,
                   budget, generation, error>>

\* PathTimer::PathValidationFailed, long after the challenge was sent.  Without
\* a previous 4-tuple nothing but its challenges changes.
ValidationFailed ==
    /\ ~path.validated /\ ~path.challenge /\ prev # <<>>
    /\ path' = [prev[1] EXCEPT !.challenge = FALSE]
    /\ prev' = <<>>
    /\ UNCHANGED <<num, sent, tail, flow, pending, acked, ecn, net, acks, receiver, heard,
                   budget, generation, error>>

-----------------------------------------------------------------------------
(* The receiver                                                            *)

\* Mutant: a number left of the window is taken for new.
IsDuplicateLate(pn) ==
    /\ pn < dedup.next
    /\ pn = dedup.next - 1 \/ pn \in dedup.window
\* Dedup::insert: whether pn might be a duplicate, and the window after it
IsDuplicate(pn) ==
    /\ pn < dedup.next
    /\ pn = dedup.next - 1 \/ pn \in dedup.window \/ dedup.next - 1 - pn > DedupBits
Inserted(pn) ==
    IF pn >= dedup.next
    THEN [next |-> pn + 1,
          window |-> {n \in dedup.window \cup ({dedup.next - 1} \ {-1}) :
                        pn - n <= DedupBits}]
    ELSE [dedup EXCEPT !.window = @ \cup {pn}]

\* smallest_missing_in_interval, between two received numbers
Missing(d, lo, hi) ==
    {n \in (lo + 1) .. (hi - 1) : d.next - 1 - n <= DedupBits /\ n \notin d.window}

\* PendingAcks::is_out_of_order
OutOfOrder(d, pn, prevLargest, largest) ==
    CASE freq[2] = 0 -> FALSE
      [] freq[2] = 1 -> pn < prevLargest \/ Missing(d, prevLargest, pn) # {}
      [] OTHER ->
           /\ pa.reported # None /\ freq[2] <= pa.reported
           /\ LET gaps == Missing(d, pa.reported - freq[2] + 1, largest)
              IN gaps # {} /\ largest - SetMin(gaps) >= freq[2]

\* insert_one: with too many ranges the smallest one goes.
Bounded(S) ==
    IF Cardinality(Starts(S)) <= MaxBlocks THEN S
    ELSE LET lo == SetMin(S) IN {n \in S : \E m \in lo .. n : m \notin S}

\* Mutant: the timer is only armed for the first packet.
ArmsOnce(p) == ~p.waiting /\ p.reported = None
\* packet_received: whether the delay timer is to be armed
Arms(p) == ~p.waiting /\ ~CanSendAck(p)

\* on_packet_authenticated and the end of process_payload
Process(pk) ==
    LET d == Inserted(pk.pn)
        ranges == Bounded(pa.ranges \cup {pk.pn})
        prevLargest == IF pa.largest = None THEN 0 ELSE pa.largest
        largest == SetMax({pa.largest, pk.pn})
        p == [pa EXCEPT !.ranges = ranges, !.largest = largest, !.eliciting = @ + 1,
                        !.immediate = @ \/ pa.eliciting + 1 > freq[1]
                                      \/ OutOfOrder(d, pk.pn, prevLargest, largest)]
    IN /\ dedup' = d
       /\ got' = got \cup {pk.pn}
       /\ seen' = seen \cup pk.controls \cup pk.data
       /\ IF ~pk.eliciting
          THEN pa' = [pa EXCEPT !.ranges = ranges, !.other = @ + 1] /\ UNCHANGED ackTimer
          ELSE /\ pa' = [p EXCEPT !.waiting = @ \/ Arms(p)]
               /\ ackTimer' = (ackTimer \/ Arms(p))

\* A packet arrives; a copy of it may stay under way.
Receive ==
    /\ \E pk \in net, again \in BOOLEAN :
           /\ IF again THEN Spend("dup") /\ UNCHANGED net
              ELSE net' = net \ {pk} /\ UNCHANGED budget
           /\ IF IsDuplicate(pk.pn)
              THEN UNCHANGED <<dedup, pa, ackTimer, got, seen>>
              ELSE Process(pk)
    /\ UNCHANGED <<sender, acks, freq, heard>>

\* on_max_ack_delay_timeout
AckDelayExpires ==
    /\ ackTimer /\ ackTimer' = FALSE
    /\ pa' = [pa EXCEPT !.immediate = pa.eliciting > 0]
    /\ UNCHANGED <<sender, net, acks, dedup, freq, got, seen, heard, budget>>

\* acks_sent
AcksSent(p) ==
    [p EXCEPT !.immediate = FALSE, !.eliciting = 0, !.other = 0, !.waiting = FALSE,
              !.reported = p.largest]

\* populate_acks in a packet of the receiver
SendAck ==
    /\ CanSendAck(pa)
    /\ acks' = acks \cup {[ranges |-> pa.ranges, ecn |-> Cardinality(got)]}
    /\ pa' = AcksSent(pa)
    /\ ackTimer' = FALSE
    /\ UNCHANGED <<sender, net, dedup, freq, got, seen, heard, budget>>

\* The sender acknowledged a packet with an ACK frame: subtract_below
AckAcked ==
    /\ \E l \in heard :
           /\ pa' = [pa EXCEPT !.ranges = {n \in @ : n > l}]
           /\ heard' = heard \ {l}
    /\ UNCHANGED <<sender, net, acks, dedup, ackTimer, freq, got, seen, budget>>

LosePacket ==
    /\ Spend("lose")
    /\ \/ \E pk \in net : net' = net \ {pk} /\ UNCHANGED acks
       \/ \E a \in acks : acks' = acks \ {a} /\ UNCHANGED net
    /\ UNCHANGED <<sender, receiver, heard>>

Next ==
    \/ Transmit \/ TransmitAckOnly \/ TransmitMtuProbe \/ Timeout \/ AckArrives
    \/ ClientSends \/ Migrate \/ Validated \/ ValidationFailed
    \/ Receive \/ AckDelayExpires \/ SendAck \/ AckAcked \/ LosePacket

\* The endpoints act and the network delivers what it does not lose, and the client
\* goes on sending to a server that waits for it; nothing makes the path migrate
\* or the timer fire early.
Fairness ==
    /\ WF_vars(Transmit) /\ WF_vars(Timeout) /\ WF_vars(AckArrives)
    /\ WF_vars(Receive) /\ WF_vars(AckDelayExpires) /\ WF_vars(SendAck)
    /\ WF_vars(ClientSends) /\ WF_vars(ValidationFailed)

Spec == Init /\ [][Next]_vars /\ Fairness

-----------------------------------------------------------------------------
(* Properties                                                              *)

\* Every frame and all stream data wait to be sent, are held by a packet that
\* is neither acknowledged nor lost, or have been acknowledged: losses, probes
\* that take frames out of older packets and late acknowledgements of packets
\* declared lost never make the sender forget anything.
NothingForgotten ==
    error = "none" => Items = pending \cup ContentsOf(DOMAIN sent) \cup acked

\* An honest receiver's acknowledgements are never taken for a violation, and
\* its ECN counts never for bleaching, however acknowledgements are reordered,
\* lost, and trimmed.
HonestReceiverAccepted == error = "none" /\ ecn.on

\* The counters of the path are the packets of its generation that are neither
\* acknowledged nor lost, unless it fell back to an earlier 4-tuple.  The MTU probe
\* it waits for is one of them, unless a path that fell back migrated once more:
\* the probe of the previous 4-tuple is not reset when it is acknowledged, and
\* from_previous copies it.
InFlightExact ==
    LET mine == {n \in DOMAIN sent : sent[n].gen = path.gen} IN
    path.gen = generation =>
        /\ path.bytes = Cardinality({n \in mine : sent[n].size > 0})
        /\ path.eliciting = Cardinality({n \in mine : sent[n].eliciting})
        /\ tail.count >= Cardinality({n \in DOMAIN sent : n > tail.largest})
        /\ path.probe # None /\ generation <= 2 => path.probe \in DOMAIN sent

\* No packet is processed twice although the window of Dedup forgets: the numbers
\* that the receiver would still accept are none that it has processed.
DedupSound ==
    \A n \in 0 .. dedup.next : n \in got => IsDuplicate(n)

\* Whoever received an ack-eliciting packet sends an acknowledgement soon: as
\* long as one waits to be reported, it is due or the delay timer runs.
AckOwed ==
    pa.eliciting > 0 /\ (\E n \in pa.ranges : n > pa.reported) => CanSendAck(pa) \/ ackTimer

\* The receiver neither processes a packet twice nor owes an acknowledgement
\* for ever, and the sender takes what it acknowledges for what it is (Dedup,
\* PendingAcks, on_ack_received).
ReceiverExact == DedupSound /\ AckOwed /\ HonestReceiverAccepted

\* The connection never stands still: while something is not acknowledged the
\* sender has something to send and is admitted, or its timer runs for packets
\* that are in flight.
NeverStalls ==
    error = "none" /\ acked # Items =>
        \/ Admitted /\ (pending # {} \/ flow.ping \/ path.challenge \/ flow.probes > 0)
        \/ flow.timer /\ (flow.lossTime \/ PtoArmed(sent, path, flow.elicited))

\* The same, unless the path fell back to an earlier 4-tuple or the sender is a
\* server that has used up what the client allows it.  A timer that it left
\* unarmed meanwhile runs again as soon as it may send.
NoStall == path.gen = generation /\ ~Blocked(path) => NeverStalls

\* Everything is acknowledged in the end.
Delivered == <>(acked = Items)
=============================================================================
