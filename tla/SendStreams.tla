---------------------------- MODULE SendStreams ----------------------------
(***************************************************************************)
(* The sending half of the streams of one connection: StreamsState, Send,  *)
(* SendBuffer, SendStream and PendingStreamsQueue of noq-proto, together   *)
(* with the parts of Connection that feed them: packets acknowledged and   *)
(* declared lost, a Retry, 0-RTT accepted or rejected.                     *)
(*                                                                         *)
(* Stream data is modelled byte by byte: a stream is the interval          *)
(* 0..offset-1 and the two ArrayRangeSets of a SendBuffer are the sets of  *)
(* offsets they hold (module RangeSet shows that they are sets, kept as    *)
(* maximal runs).  A packet carries one STREAM frame; a packet with more   *)
(* frames is acknowledged or lost like several packets at once.            *)
(***************************************************************************)
EXTENDS Integers, Sequences, FiniteSets, Functions

CONSTANTS
    Streams,            \* locally initiated streams
    Pkts,               \* packets that may be in flight at the same time
    NoStream,           \* the empty `next` slot of PendingStreamsQueue
    MaxOffset,          \* bound on the bytes written to one stream
    MaxFrame,           \* most bytes of stream data in one packet
    MaxQueue,           \* queue length up to which empty writes are tried
    Priorities,         \* stream priorities the application sets
    Windows,            \* values passed to set_send_window
    InitWindow,         \* TransportConfig::send_window
    InitMaxData,        \* initial_max_data the early data relies on
    InitMaxStreamData,  \* initial_max_stream_data_*
    DataLimits,         \* values of MAX_DATA frames
    StreamLimits,       \* values of MAX_STREAM_DATA frames
    RejectLimits,       \* initial_max_data of a server that rejects 0-RTT
    Ops,                \* the rarer operations of this instance
    Fair                \* TransportConfig::send_fairness

ASSUME StreamsAssumption == NoStream \notin Streams /\ IsFiniteSet(Streams)
ASSUME BoundsAssumption ==
    /\ MaxOffset \in Nat /\ MaxFrame \in Nat \ {0} /\ MaxQueue \in Nat
    /\ InitWindow \in Nat /\ Windows \subseteq Nat
    /\ InitMaxData \in Nat /\ DataLimits \subseteq Nat
    /\ InitMaxStreamData \in 0..MaxOffset /\ StreamLimits \subseteq 0..MaxOffset
    /\ RejectLimits \subseteq Nat /\ Priorities \subseteq Int
    /\ Ops \subseteq {"Finish", "Reset", "Stop", "Retry", "Reject"}
    /\ Fair \in BOOLEAN

VARIABLES
    \* one Send per stream
    state,          \* absent before open, SendState, or why it was removed
    finAcked,       \* DataSent { finish_acked }
    finPending,     \* fin_pending
    base,           \* pending.data.offset: first byte still buffered
    unsent,         \* pending.unsent: first byte never sent
    offset,         \* end of the buffered data
    acks,           \* pending.acks
    retransmits,    \* pending.retransmits
    maxStreamData,  \* max_data: stream credit granted by the peer
    stopped,        \* stop_reason is set
    blocked,        \* connection_blocked
    priority,
    \* StreamsState
    maxData,        \* max_data: connection credit granted by the peer
    dataSent,       \* data_sent
    unackedData,    \* unacked_data
    sendWindow,     \* send_window
    queue,          \* pending.streams in the order of their recency
    next,           \* pending.next
    connBlocked,    \* the list connection_blocked
    events,         \* Writable and Stopped events not yet polled; a stream in
                    \* state Finished has also pushed its Finished event
    \* packets
    resetPending,   \* RESET_STREAM frames waiting to be sent
    resetInFlight,  \* RESET_STREAM frames in unacknowledged packets
    sent,           \* STREAM frames in unacknowledged packets
    phase,          \* what became of 0-RTT
    retried,        \* a Retry was received
    \* environment
    waiting,        \* a writer got Blocked and was not woken since
    peerMaxData,    \* the connection credit the peer really granted
    peerHas,        \* bytes of each stream the peer acknowledged
    peerFin         \* streams whose FIN the peer acknowledged

bufVars == <<base, unsent, offset, acks, retransmits>>
queueVars == <<queue, next>>
creditVars == <<maxData, dataSent, unackedData, sendWindow>>
resetVars == <<resetPending, resetInFlight>>
peerVars == <<peerMaxData, peerHas, peerFin>>
sendVars == <<state, finAcked, finPending, bufVars, maxStreamData, stopped,
              blocked, priority>>
vars == <<sendVars, creditVars, queueVars, connBlocked, events, resetVars,
          sent, phase, retried, waiting, peerVars>>

Open_ == {"Ready", "DataSent"}
Live == Open_ \cup {"ResetSent"}

NoFrame == [id |-> NoStream, lo |-> 0, hi |-> 0, fin |-> FALSE]
Frame == [id : Streams, lo : 0..MaxOffset, hi : 0..MaxOffset, fin : BOOLEAN]

Lesser(a, b) == IF a <= b THEN a ELSE b
Greater(a, b) == IF a <= b THEN b ELSE a
Bytes(lo, hi) == lo .. (hi - 1)

\* SendBuffer::has_unsent_data and Send::is_pending
HasUnsentData(s) == unsent[s] # offset[s] \/ retransmits[s] # {}
IsPending(s) == HasUnsentData(s) \/ finPending[s]

\* SendBuffer::unacked, as the set of bytes it counts
Unacked(s) == Bytes(base[s], offset[s]) \ acks[s]

\* Mutant: forgets the credit of the peer.
WriteLimitWindowOnly ==
    IF sendWindow > unackedData THEN sendWindow - unackedData ELSE 0

\* StreamsState::write_limit
WriteLimit ==
    Lesser(maxData - dataSent,
           IF sendWindow > unackedData THEN sendWindow - unackedData ELSE 0)

\* PendingStreamsQueue::push_pending with the current priority of s
Push(q, s) == Append(q, [id |-> s, prio |-> priority[s]])

\* The queue once s has something to send: pushed unless it already had
PushIfIdle(s) == IF IsPending(s) THEN queue ELSE Push(queue, s)

\* Mutant: a blocked writer is not registered.
RegisterNever(s) == connBlocked

\* connection_blocked once s is registered as blocked
Register(s) == IF blocked[s] THEN connBlocked ELSE Append(connBlocked, s)

WithoutIndex(q, i) ==
    [j \in 1 .. (Len(q) - 1) |-> IF j < i THEN q[j] ELSE q[j + 1]]

\* The heap orders by priority, then by recency: oldest entry first.
IsTop(i) == \A j \in 1 .. Len(queue) :
                /\ queue[j].prio <= queue[i].prio
                /\ j < i => queue[j].prio < queue[i].prio

\* PendingStreamsQueue::pop: the popped stream and the queue it leaves
Pops ==
    IF next # NoStream
    THEN {[id |-> next, rest |-> queue]}
    ELSE {[id |-> queue[i].id, rest |-> WithoutIndex(queue, i)] :
             i \in {k \in 1 .. Len(queue) : IsTop(k)}}

\* lo..hi-1 is the lowest run of R, the range pop_min removes
FirstRun(R, lo, hi) ==
    /\ lo \in R /\ \A o \in R : lo <= o
    /\ Bytes(lo, hi) \subseteq R /\ hi \notin R /\ lo < hi

------------------------------------------------------------------------------
Init ==
    /\ state = [s \in Streams |-> "Unopened"]
    /\ finAcked = [s \in Streams |-> FALSE]
    /\ finPending = [s \in Streams |-> FALSE]
    /\ base = [s \in Streams |-> 0]
    /\ unsent = [s \in Streams |-> 0]
    /\ offset = [s \in Streams |-> 0]
    /\ acks = [s \in Streams |-> {}]
    /\ retransmits = [s \in Streams |-> {}]
    /\ maxStreamData = [s \in Streams |-> 0]
    /\ stopped = [s \in Streams |-> FALSE]
    /\ blocked = [s \in Streams |-> FALSE]
    /\ priority = [s \in Streams |-> 0]
    /\ maxData = InitMaxData /\ peerMaxData = InitMaxData
    /\ dataSent = 0 /\ unackedData = 0
    /\ sendWindow = InitWindow
    /\ queue = <<>> /\ next = NoStream
    /\ connBlocked = <<>> /\ events = {}
    /\ resetPending = {} /\ resetInFlight = {}
    /\ sent = [p \in Pkts |-> NoFrame]
    /\ phase = "early" /\ retried = FALSE
    /\ waiting = [s \in Streams |-> FALSE]
    /\ peerHas = [s \in Streams |-> {}]
    /\ peerFin = {}

------------------------------------------------------------------------------
(* The application *)

\* Streams::open (the stream limit is the subject of module StreamLimits)
Open(s) ==
    /\ state[s] = "Unopened"
    /\ state' = [state EXCEPT ![s] = "Ready"]
    /\ maxStreamData' = [maxStreamData EXCEPT ![s] = InitMaxStreamData]
    /\ UNCHANGED <<finAcked, finPending, bufVars, stopped, blocked, priority,
                   creditVars, queueVars, connBlocked, events, resetVars,
                   sent, phase, retried, waiting, peerVars>>

\* write_source when the connection has no credit: any existing stream, even
\* one that is finished, is put on the list of blocked streams.
WriteNoCredit(s) ==
    /\ state[s] \in Live /\ WriteLimit = 0
    /\ blocked' = [blocked EXCEPT ![s] = TRUE]
    /\ connBlocked' = Register(s)
    /\ waiting' = [waiting EXCEPT ![s] = TRUE]
    /\ UNCHANGED <<state, finAcked, finPending, bufVars, maxStreamData,
                   stopped, priority, creditVars, queueVars, events,
                   resetVars, sent, phase, retried, peerVars>>

\* write_source when the stream has no credit
WriteNoBudget(s) ==
    /\ state[s] = "Ready" /\ ~stopped[s] /\ WriteLimit > 0
    /\ maxStreamData[s] = offset[s]
    /\ waiting' = [waiting EXCEPT ![s] = TRUE]
    /\ UNCHANGED <<sendVars, creditVars, queueVars, connBlocked, events,
                   resetVars, sent, phase, retried, peerVars>>

\* write_source and Send::write of n bytes; a write of no bytes still queues
WriteData(s, n) ==
    LET written == Lesser(n, Lesser(WriteLimit, maxStreamData[s] - offset[s]))
    IN  /\ state[s] = "Ready" /\ ~stopped[s] /\ WriteLimit > 0
        /\ maxStreamData[s] > offset[s]
        /\ n = 0 => Len(queue) < MaxQueue
        /\ offset' = [offset EXCEPT ![s] = @ + written]
        /\ dataSent' = dataSent + written
        /\ unackedData' = unackedData + written
        /\ queue' = PushIfIdle(s)
        /\ waiting' = [waiting EXCEPT ![s] = FALSE]
        /\ UNCHANGED <<state, finAcked, finPending, base, unsent, acks,
                       retransmits, maxStreamData, stopped, blocked, priority,
                       maxData, sendWindow, next, connBlocked, events,
                       resetVars, sent, phase, retried, peerVars>>

\* SendStream::finish
Finish(s) ==
    /\ "Finish" \in Ops /\ state[s] = "Ready" /\ ~stopped[s]
    /\ state' = [state EXCEPT ![s] = "DataSent"]
    /\ finPending' = [finPending EXCEPT ![s] = TRUE]
    /\ queue' = PushIfIdle(s)
    /\ waiting' = [waiting EXCEPT ![s] = FALSE]
    /\ UNCHANGED <<finAcked, bufVars, maxStreamData, stopped, blocked,
                   priority, creditVars, next, connBlocked, events, resetVars,
                   sent, phase, retried, peerVars>>

\* Mutant: counts the bytes acknowledged out of order too.
RefundBuffered(s) == offset[s] - base[s]

\* What reset gives back to the send window
Refund(s) == Cardinality(Unacked(s))

\* SendStream::reset
Reset(s) ==
    /\ "Reset" \in Ops /\ state[s] \in Open_
    /\ state' = [state EXCEPT ![s] = "ResetSent"]
    /\ unackedData' = unackedData - Refund(s)
    /\ resetPending' = resetPending \cup {s}
    /\ waiting' = [waiting EXCEPT ![s] = FALSE]
    /\ UNCHANGED <<finAcked, finPending, bufVars, maxStreamData, stopped,
                   blocked, priority, maxData, dataSent, sendWindow, queueVars,
                   connBlocked, events, resetInFlight, sent, phase, retried,
                   peerVars>>

\* SendStream::set_priority: entries already queued keep their priority
SetPriority(s, p) ==
    /\ state[s] \in Live /\ priority[s] # p
    /\ priority' = [priority EXCEPT ![s] = p]
    /\ UNCHANGED <<state, finAcked, finPending, bufVars, maxStreamData,
                   stopped, blocked, creditVars, queueVars, connBlocked,
                   events, resetVars, sent, phase, retried, waiting, peerVars>>

\* Connection::set_send_window: may fall below what is in flight
SetSendWindow(w) ==
    /\ sendWindow # w
    /\ sendWindow' = w
    /\ UNCHANGED <<sendVars, maxData, dataSent, unackedData, queueVars,
                   connBlocked, events, resetVars, sent, phase, retried,
                   waiting, peerVars>>

\* StreamsState::poll while there is credit: pop blocked streams, last one
\* first, up to the first that can be written to (connBlocked[k]; 0 if none).
PollBlocked ==
    /\ WriteLimit > 0 /\ connBlocked # <<>>
    /\ \E k \in 0 .. Len(connBlocked) :
        LET Notify(i) == /\ state[connBlocked[i]] = "Ready"
                         /\ maxStreamData[connBlocked[i]] > offset[connBlocked[i]]
            popped == {connBlocked[i] : i \in Greater(k, 1) .. Len(connBlocked)}
        IN  /\ k > 0 => Notify(k)
            /\ \A i \in (k + 1) .. Len(connBlocked) : ~Notify(i)
            /\ connBlocked' = SubSeq(connBlocked, 1, k - 1)
            /\ blocked' = [s \in Streams |->
                             blocked[s] /\ ~(s \in popped /\ state[s] \in Live)]
            /\ waiting' = [s \in Streams |->
                             waiting[s] /\ ~(k > 0 /\ s = connBlocked[k])]
    /\ UNCHANGED <<state, finAcked, finPending, bufVars, maxStreamData,
                   stopped, priority, creditVars, queueVars, events,
                   resetVars, sent, phase, retried, peerVars>>

\* StreamsState::poll of a queued event, which wakes the writer
PollEvent ==
    /\ WriteLimit = 0 \/ connBlocked = <<>>
    /\ \E e \in events :
        /\ events' = events \ {e}
        /\ waiting' = [waiting EXCEPT ![e.id] = FALSE]
    /\ UNCHANGED <<sendVars, creditVars, queueVars, connBlocked, resetVars,
                   sent, phase, retried, peerVars>>

------------------------------------------------------------------------------
(* Frames from the peer *)

\* received_stop_sending
StopSending(s) ==
    /\ "Stop" \in Ops /\ phase # "early" /\ state[s] \in Live /\ ~stopped[s]
    /\ stopped' = [stopped EXCEPT ![s] = TRUE]
    /\ events' = events \cup {[type |-> "Stopped", id |-> s]}
    /\ UNCHANGED <<state, finAcked, finPending, bufVars, maxStreamData,
                   blocked, priority, creditVars, queueVars, connBlocked,
                   resetVars, sent, phase, retried, waiting, peerVars>>

\* received_max_data
MaxData(n) ==
    /\ phase # "early" /\ n > peerMaxData
    /\ maxData' = Greater(maxData, n)
    /\ peerMaxData' = n
    /\ UNCHANGED <<sendVars, dataSent, unackedData, sendWindow, queueVars,
                   connBlocked, events, resetVars, sent, phase, retried,
                   waiting, peerHas, peerFin>>

\* received_max_stream_data and Send::increase_max_data
MaxStreamData(s, n) ==
    LET wasBlocked == offset[s] = maxStreamData[s]
    IN  /\ phase # "early" /\ state[s] = "Ready" /\ n > maxStreamData[s]
        /\ maxStreamData' = [maxStreamData EXCEPT ![s] = n]
        /\ IF wasBlocked /\ WriteLimit > 0
           THEN /\ events' = events \cup {[type |-> "Writable", id |-> s]}
                /\ UNCHANGED <<blocked, connBlocked>>
           ELSE /\ blocked' = [blocked EXCEPT ![s] = @ \/ wasBlocked]
                /\ connBlocked' = IF wasBlocked THEN Register(s) ELSE connBlocked
                /\ UNCHANGED events
        /\ UNCHANGED <<state, finAcked, finPending, bufVars, stopped, priority,
                       creditVars, queueVars, resetVars, sent, phase, retried,
                       waiting, peerVars>>

------------------------------------------------------------------------------
(* Transmission *)

\* write_stream_frames drops the queue entry of a stream that is gone or reset
DropStale ==
    \E e \in Pops :
        /\ state[e.id] \notin Open_
        /\ queue' = e.rest /\ next' = NoStream
        /\ UNCHANGED <<sendVars, creditVars, connBlocked, events, resetVars,
                       sent, phase, retried, waiting, peerVars>>

\* Mutant: what does not fit in the packet is dropped with the rest.
PopWholeRun(s, lo, hi, end) == retransmits[s] \ Bytes(lo, end)

\* retransmits once lo..hi-1 of its first run lo..end-1 was sent: the rest of
\* the run is inserted again
PopRun(s, lo, hi, end) == retransmits[s] \ Bytes(lo, hi)

\* SendBuffer::poll_transmit: a lost range first, then new data
PollTransmit(s, room, lo, hi) ==
    \/ /\ \E end \in 0 .. MaxOffset :
             /\ FirstRun(retransmits[s], lo, end)
             /\ hi = Lesser(end, lo + room)
             /\ retransmits' = [retransmits EXCEPT ![s] = PopRun(s, lo, hi, end)]
       /\ UNCHANGED unsent
    \/ /\ retransmits[s] = {}
       /\ lo = unsent[s] /\ hi = Lesser(offset[s], lo + room)
       /\ unsent' = [unsent EXCEPT ![s] = hi]
       /\ UNCHANGED retransmits

\* write_stream_frames: one iteration of its loop, put in packet p
TransmitFrame(p) ==
    /\ sent[p] = NoFrame
    /\ \E e \in Pops, room \in 1 .. MaxFrame, lo, hi \in 0 .. MaxOffset :
        LET s == e.id
            fin == hi = offset[s] /\ state[s] = "DataSent"
            stillPending == \/ unsent'[s] # offset[s]
                            \/ retransmits'[s] # {}
                            \/ finPending'[s]
        IN  /\ state[s] \in Open_
            /\ PollTransmit(s, room, lo, hi)
            /\ finPending' = [finPending EXCEPT ![s] = @ /\ ~fin]
            /\ queue' = IF stillPending /\ Fair THEN Push(e.rest, s) ELSE e.rest
            /\ next' = IF stillPending /\ ~Fair THEN s ELSE NoStream
            /\ sent' = [sent EXCEPT ![p] =
                          [id |-> s, lo |-> lo, hi |-> hi, fin |-> fin]]
    /\ UNCHANGED <<state, finAcked, base, offset, acks, maxStreamData, stopped,
                   blocked, priority, creditVars, connBlocked, events,
                   resetVars, phase, retried, waiting, peerVars>>

\* write_control_frames, the RESET_STREAM part
SendReset(s) ==
    /\ s \in resetPending
    /\ resetPending' = resetPending \ {s}
    /\ resetInFlight' = IF state[s] \in Live THEN resetInFlight \cup {s}
                                             ELSE resetInFlight
    /\ UNCHANGED <<sendVars, creditVars, queueVars, connBlocked, events, sent,
                   phase, retried, waiting, peerVars>>

------------------------------------------------------------------------------
(* Acknowledgement and loss; packets of the data space are only            *)
(* acknowledged, and so only declared lost, once there are 1-RTT keys.     *)

\* SendBuffer::ack of lo..hi-1: the contiguous prefix up to b is dropped
AckBuffer(s, lo, hi, b) ==
    LET acked == acks[s] \cup Bytes(Greater(base[s], lo), Greater(base[s], hi))
    IN  /\ base[s] <= b /\ Bytes(base[s], b) \subseteq acked /\ b \notin acked
        /\ base' = [base EXCEPT ![s] = b]
        /\ acks' = [acks EXCEPT ![s] = acked \ Bytes(0, b)]
        /\ retransmits' = [retransmits EXCEPT ![s] = @ \ Bytes(0, b)]

\* Mutant: ignores the buffered data.
FinAcked(s, f, b) == state[s] = "DataSent" /\ (finAcked[s] \/ f.fin)

\* Send::ack returns true: the FIN and, with the buffer at b, all data is acked
AllAcked(s, f, b) ==
    state[s] = "DataSent" /\ (finAcked[s] \/ f.fin) /\ b = offset[s]

\* received_ack_of and Send::ack
ReceivedAckOf(f) ==
    \E b \in 0 .. MaxOffset :
        LET s == f.id
        IN  /\ unackedData' = unackedData - (f.hi - f.lo)
            /\ AckBuffer(s, f.lo, f.hi, b)
            /\ finAcked' = [finAcked EXCEPT ![s] =
                              @ \/ (state[s] = "DataSent" /\ f.fin)]
            /\ state' = IF AllAcked(s, f, b) THEN [state EXCEPT ![s] = "Finished"] ELSE state

\* Mutant: an acknowledgement counts for a reset stream too.
AckAppliesToReset(s) == state[s] \in Live

\* The early returns of received_ack_of: the stream is gone or was reset
AckApplies(s) == state[s] \in Open_

\* on_packet_acked for the STREAM frame of packet p
Ack(p) ==
    LET f == sent[p]
    IN  /\ phase # "early" /\ f # NoFrame
        /\ sent' = [sent EXCEPT ![p] = NoFrame]
        /\ peerHas' = [peerHas EXCEPT ![f.id] = @ \cup Bytes(f.lo, f.hi)]
        /\ peerFin' = IF f.fin THEN peerFin \cup {f.id} ELSE peerFin
        /\ IF AckApplies(f.id)
           THEN ReceivedAckOf(f)
           ELSE UNCHANGED <<unackedData, base, acks, retransmits, finAcked, state>>
        /\ UNCHANGED <<finPending, unsent, offset, maxStreamData, stopped,
                       blocked, priority, maxData, dataSent, sendWindow,
                       queueVars, connBlocked, events, resetVars, phase,
                       retried, waiting, peerMaxData>>

\* fin_pending once frame f is lost
LostFin(s, f) == finPending[s] \/ f.fin

\* handle_lost_packets, StreamsState::retransmit and SendBuffer::retransmit
Lose(p) ==
    LET f == sent[p]
        s == f.id
    IN  /\ phase # "early" /\ f # NoFrame
        /\ sent' = [sent EXCEPT ![p] = NoFrame]
        /\ IF state[s] \in Live
           THEN /\ queue' = PushIfIdle(s)
                /\ finPending' = [finPending EXCEPT ![s] = LostFin(s, f)]
                /\ retransmits' = [retransmits EXCEPT ![s] =
                                     @ \cup Bytes(Greater(f.lo, base[s]), f.hi)]
           ELSE UNCHANGED <<queue, finPending, retransmits>>
        /\ UNCHANGED <<state, finAcked, base, unsent, offset, acks,
                       maxStreamData, stopped, blocked, priority, creditVars,
                       next, connBlocked, events, resetVars, phase, retried,
                       waiting, peerVars>>

\* on_packet_acked and reset_acked
AckReset(s) ==
    /\ phase # "early" /\ s \in resetInFlight
    /\ resetInFlight' = resetInFlight \ {s}
    /\ state' = [state EXCEPT ![s] = IF @ = "ResetSent" THEN "ResetAcked" ELSE @]
    /\ UNCHANGED <<finAcked, finPending, bufVars, maxStreamData, stopped,
                   blocked, priority, creditVars, queueVars, connBlocked,
                   events, resetPending, sent, phase, retried, waiting,
                   peerVars>>

\* Mutant: the RESET_STREAM of a lost packet is not queued again.
LoseResetForgets(s) ==
    /\ phase # "early" /\ s \in resetInFlight
    /\ resetInFlight' = resetInFlight \ {s}
    /\ UNCHANGED <<sendVars, creditVars, queueVars, connBlocked, events, sent,
                   resetPending, phase, retried, waiting, peerVars>>

\* handle_lost_packets puts the control frames of the packet back in `pending`
LoseReset(s) ==
    /\ phase # "early" /\ s \in resetInFlight
    /\ resetInFlight' = resetInFlight \ {s}
    /\ resetPending' = resetPending \cup {s}
    /\ UNCHANGED <<sendVars, creditVars, queueVars, connBlocked, events, sent,
                   phase, retried, waiting, peerVars>>

\* queue_tail_loss_probe with nothing pending takes the control frames of the
\* oldest packet away from it and queues them; STREAM frames stay in flight.
TailLossProbe(s) == resetPending = {} /\ LoseReset(s)

------------------------------------------------------------------------------
(* The end of 0-RTT *)

\* The streams retransmit_all_for_0rtt does not skip
StartOver(s) == state[s] \in Live /\ (base[s] # offset[s] \/ finPending[s])

\* A Retry: every packet is forgotten, resets are queued again and
\* retransmit_all_for_0rtt starts over with the data of each stream.
Retry ==
    /\ "Retry" \in Ops /\ phase = "early" /\ ~retried
    /\ retried' = TRUE
    /\ sent' = [p \in Pkts |-> NoFrame]
    /\ resetPending' = resetPending \cup resetInFlight
    /\ resetInFlight' = {}
    /\ LET again == {s \in Streams : StartOver(s)}
           push == {s \in again : ~IsPending(s)}
       IN  /\ unsent' = [s \in Streams |-> IF s \in again THEN 0 ELSE unsent[s]]
           /\ \E order \in [1 .. Cardinality(push) -> push] :
                /\ Range(order) = push
                /\ queue' = queue \o [i \in 1 .. Cardinality(push) |->
                              [id |-> order[i], prio |-> priority[order[i]]]]
    /\ UNCHANGED <<state, finAcked, finPending, base, offset, acks,
                   retransmits, maxStreamData, stopped, blocked, priority,
                   creditVars, next, connBlocked, events, phase, waiting,
                   peerVars>>

\* 0-RTT accepted: set_params can only raise the limits
ZeroRttAccepted ==
    /\ phase = "early" /\ phase' = "accepted"
    /\ UNCHANGED <<sendVars, creditVars, queueVars, connBlocked, events,
                   resetVars, sent, retried, waiting, peerVars>>

\* 0-RTT rejected: zero_rtt_rejected, queued frames and packets discarded,
\* then set_params with the server's real parameters; the writers are woken.
ZeroRttRejected(n) ==
    /\ "Reject" \in Ops /\ phase = "early" /\ phase' = "rejected"
    /\ state' = [s \in Streams |-> "Unopened"]
    /\ finAcked' = [s \in Streams |-> FALSE]
    /\ finPending' = [s \in Streams |-> FALSE]
    /\ base' = [s \in Streams |-> 0]
    /\ unsent' = [s \in Streams |-> 0]
    /\ offset' = [s \in Streams |-> 0]
    /\ acks' = [s \in Streams |-> {}]
    /\ retransmits' = [s \in Streams |-> {}]
    /\ maxStreamData' = [s \in Streams |-> 0]
    /\ stopped' = [s \in Streams |-> FALSE]
    /\ blocked' = [s \in Streams |-> FALSE]
    /\ priority' = [s \in Streams |-> 0]
    /\ queue' = <<>> /\ next' = NoStream
    /\ dataSent' = 0 /\ connBlocked' = <<>>
    /\ resetPending' = {} /\ resetInFlight' = {}
    /\ sent' = [p \in Pkts |-> NoFrame]
    /\ maxData' = Greater(maxData, n) /\ peerMaxData' = n
    /\ waiting' = [s \in Streams |-> FALSE]
    /\ UNCHANGED <<unackedData, sendWindow, events, retried, peerHas, peerFin>>

------------------------------------------------------------------------------
Application ==
    \/ \E s \in Streams :
         \/ Open(s) \/ WriteNoCredit(s) \/ WriteNoBudget(s)
         \/ \E n \in 0 .. MaxOffset : WriteData(s, n)
         \/ Finish(s) \/ Reset(s)
         \/ \E p \in Priorities : SetPriority(s, p)
    \/ \E w \in Windows : SetSendWindow(w)

Polling == PollBlocked \/ PollEvent

Peer ==
    \/ \E s \in Streams :
         StopSending(s) \/ \E n \in StreamLimits : MaxStreamData(s, n)
    \/ \E n \in DataLimits : MaxData(n)

Transmit ==
    \/ DropStale
    \/ \E p \in Pkts : TransmitFrame(p)
    \/ \E s \in Streams : SendReset(s)

Acknowledge ==
    \/ \E p \in Pkts : Ack(p)
    \/ \E s \in Streams : AckReset(s)

Loss ==
    \/ \E p \in Pkts : Lose(p)
    \/ \E s \in Streams : LoseReset(s) \/ TailLossProbe(s)

EarlyData == Retry \/ ZeroRttAccepted \/ \E n \in RejectLimits : ZeroRttRejected(n)

Next == Application \/ Polling \/ Peer \/ Transmit \/ Acknowledge \/ Loss \/ EarlyData

Spec == Init /\ [][Next]_vars

(* Acknowledgements eventually get through a fair-lossy network, the       *)
(* handshake completes, and the connection driver transmits when it can.   *)
FairSpec ==
    /\ Spec
    /\ WF_vars(ZeroRttAccepted)
    /\ WF_vars(DropStale \/ \E p \in Pkts : TransmitFrame(p))
    /\ \A s \in Streams : WF_vars(SendReset(s)) /\ SF_vars(AckReset(s))
    /\ SF_vars(\E p \in Pkts : Ack(p))
    /\ WF_vars(Polling)

------------------------------------------------------------------------------
(* Properties *)

States == {"Unopened", "Ready", "DataSent", "ResetSent", "Finished", "ResetAcked"}

FlagsOK ==
    /\ finAcked \in [Streams -> BOOLEAN] /\ finPending \in [Streams -> BOOLEAN]
    /\ stopped \in [Streams -> BOOLEAN] /\ blocked \in [Streams -> BOOLEAN]
    /\ waiting \in [Streams -> BOOLEAN] /\ retried \in BOOLEAN

BuffersOK ==
    /\ base \in [Streams -> 0 .. MaxOffset]
    /\ unsent \in [Streams -> 0 .. MaxOffset]
    /\ offset \in [Streams -> 0 .. MaxOffset]
    /\ acks \in [Streams -> SUBSET (0 .. (MaxOffset - 1))]
    /\ retransmits \in [Streams -> SUBSET (0 .. (MaxOffset - 1))]
    /\ maxStreamData \in [Streams -> 0 .. MaxOffset]
    /\ peerHas \in [Streams -> SUBSET (0 .. (MaxOffset - 1))]

CountersOK ==
    /\ maxData \in Nat /\ dataSent \in Nat /\ unackedData \in Nat
    /\ sendWindow \in Nat /\ peerMaxData \in Nat

ListsOK ==
    /\ queue \in Seq([id : Streams, prio : Int])
    /\ priority \in [Streams -> Int]
    /\ next \in Streams \cup {NoStream}
    /\ connBlocked \in Seq(Streams)
    /\ events \subseteq [type : {"Writable", "Stopped"}, id : Streams]
    /\ resetPending \subseteq Streams /\ resetInFlight \subseteq Streams
    /\ peerFin \subseteq Streams

\* Every variable stays in its type.  In particular unacked_data and data_sent
\* never underflow, and no offset leaves the range of the stream.
TypeOK ==
    /\ state \in [Streams -> States]
    /\ phase \in {"early", "accepted", "rejected"}
    /\ sent \in [Pkts -> Frame \cup {NoFrame}]
    /\ FlagsOK /\ BuffersOK /\ CountersOK /\ ListsOK

Flying(p, s) == IF sent[p].id = s THEN Bytes(sent[p].lo, sent[p].hi) ELSE {}

\* Every byte of an open stream that was sent and is still buffered is in
\* exactly one place: acknowledged out of order, waiting to be retransmitted,
\* or in one unacknowledged packet.  So no sent byte is ever forgotten, none
\* is acknowledged twice (which would underflow unacked_data), a range to
\* retransmit is always still in the buffer (the assertion of get_into), and
\* `retransmits` and `acks` never overlap, which the code does not rely on.
SentBytePlaced ==
    \A s \in Streams : state[s] \in Open_ =>
        /\ base[s] <= unsent[s] /\ unsent[s] <= offset[s]
        /\ acks[s] \cap retransmits[s] = {}
        /\ \A p \in Pkts : Flying(p, s) \cap (acks[s] \cup retransmits[s]) = {}
        /\ \A p, q \in Pkts : p # q => Flying(p, s) \cap Flying(q, s) = {}
        /\ acks[s] \cup retransmits[s] \cup UNION {Flying(p, s) : p \in Pkts}
             = Bytes(base[s], unsent[s])

UnackedBytes ==
    {b \in Streams \X (0 .. (MaxOffset - 1)) :
        state[b[1]] \in Open_ /\ b[2] \in Unacked(b[1])}

\* unacked_data is the number of bytes of open streams not yet acknowledged,
\* unless 0-RTT was rejected.
UnackedAccounting ==
    phase # "rejected" => unackedData = Cardinality(UnackedBytes)

\* unacked_data is the "total quantity of unacknowledged outgoing data".
UnackedExact == unackedData = Cardinality(UnackedBytes)

WrittenBytes ==
    {b \in Streams \X (0 .. (MaxOffset - 1)) : b[2] < offset[b[1]]}

\* data_sent is the sum of the offsets of all streams and never exceeds the
\* connection's credit, nor an offset the stream's: the subtractions in
\* write_limit and Send::write do not underflow.
CreditRespected ==
    /\ dataSent = Cardinality(WrittenBytes)
    /\ dataSent <= maxData
    /\ \A s \in Streams : offset[s] <= maxStreamData[s]

\* The credit used is credit the peer granted.
PeerCreditRespected == dataSent <= peerMaxData

Queued(s) == next = s \/ \E i \in 1 .. Len(queue) : queue[i].id = s

\* An open stream with something to send is in the queue of pending streams:
\* push_pending is only called when is_pending() turns true.
PendingQueued ==
    \A s \in Streams : state[s] \in Open_ /\ IsPending(s) => Queued(s)

FinOwed(s) ==
    \/ finPending[s]
    \/ \E p \in Pkts : sent[p].id = s /\ sent[p].fin
    \/ unsent[s] < offset[s]

\* The FIN of a finished stream is waiting to be sent, in flight, or goes out
\* with data that is unsent, until it is acknowledged.
FinNeverForgotten ==
    \A s \in Streams : state[s] = "DataSent" /\ ~finAcked[s] => FinOwed(s)

\* The same, for all streams but those without data that saw a Retry.
FinNotForgotten ==
    \A s \in Streams :
        state[s] = "DataSent" /\ ~finAcked[s] /\ (retried => offset[s] > 0)
            => FinOwed(s)

\* Exactly one copy of the RESET_STREAM of a reset stream is waiting or in
\* flight until it is acknowledged, and no other stream has one.
OneReset ==
    /\ resetPending \cap resetInFlight = {}
    /\ \A s \in Streams : s \in resetPending \cup resetInFlight
                             <=> state[s] = "ResetSent"

\* A blocked writer on a stream that can be written to is certain to be woken:
\* its stream is on the list of blocked streams, its event is queued, or it
\* waits for a MAX_STREAM_DATA frame.
NoLostWakeup ==
    \A s \in Streams : waiting[s] /\ state[s] = "Ready" /\ ~stopped[s] =>
        \/ \E i \in 1 .. Len(connBlocked) : connBlocked[i] = s
        \/ [type |-> "Writable", id |-> s] \in events
        \/ offset[s] = maxStreamData[s]

\* What is still to be sent is on its way to a packet (push_pending, Retry), and
\* whoever is blocked will be woken.
NothingStranded == PendingQueued /\ FinNotForgotten /\ NoLostWakeup

\* Finished is reported only when the peer acknowledged every byte and the FIN.
FinishedIsDelivered ==
    \A s \in Streams : state[s] = "Finished" =>
        /\ peerHas[s] = Bytes(0, offset[s]) /\ s \in peerFin
        /\ Unacked(s) = {}

\* A stream ends as its peer was told: Finished after everything arrived, reset
\* with one RESET_STREAM that is repeated until acknowledged (ack, reset).
EndsOnce == FinishedIsDelivered /\ OneReset

\* A stream that is finished or reset is eventually acknowledged and freed, or
\* thrown away with all rejected early data.
EventuallyFreed ==
    \A s \in Streams :
        state[s] \in {"DataSent", "ResetSent"}
            ~> state[s] \in {"Finished", "ResetAcked", "Unopened"}

\* A writer blocked on the connection is woken once there is credit to stay.
EventuallyWoken ==
    \A s \in Streams :
        []<>(WriteLimit = 0 \/ ~waiting[s] \/ offset[s] = maxStreamData[s]
             \/ state[s] # "Ready")

\* Streams end and writers are served: what ends is freed, and no writer stays
\* blocked while there is credit (received_ack_of, max_data, poll).
SendersServed == EventuallyFreed /\ EventuallyWoken
==============================================================================
