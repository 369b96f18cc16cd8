------------------------------ MODULE Datagrams ------------------------------
(***************************************************************************)
(* Unreliable application datagrams: the two bounded queues of            *)
(* `DatagramState`, the frames written into a packet, the path MTU that    *)
(* shrinks under queued datagrams, and the futures of the async crate that  *)
(* wait for room or for an arrival.  Lengths are in an abstract unit; a     *)
(* datagram is its length.                                                 *)
(***************************************************************************)
EXTENDS Naturals, Sequences, SequencesExt, FiniteSets

CONSTANTS
    Tasks,         \* application tasks that await a datagram future
    Lengths,       \* the lengths the application sends
    SendBuffer,    \* config.datagram_send_buffer_size
    Window,        \* config.datagram_receive_buffer_size
    MinMtu,        \* room for frames in a packet at the base MTU
    MaxMtu,        \* and once MTU discovery has succeeded
    SizeBound,     \* Datagram::SIZE_BOUND, the most the frame header takes
    Header,        \* what the header takes for the lengths in use
    MaxQueued      \* bound on the datagrams queued by dropping sends

VARIABLES
    outgoing,        \* queued lengths, oldest first
    outgoing_total,
    send_blocked,
    incoming,
    recv_buffered,
    mtu,             \* room for frames at the smallest MTU of the paths
    events,          \* the datagram events the connection has queued
    futures          \* the datagram future each task awaits

vars == <<outgoing, outgoing_total, send_blocked, incoming, recv_buffered,
          mtu, events, futures>>

Total(q) == FoldSeq(LAMBDA len, sum : len + sum, 0, q)

NoFuture == [op |-> "none", len |-> 0, awake |-> FALSE]

TypeOK ==
    /\ outgoing \in Seq(Lengths) /\ incoming \in Seq(Lengths)
    /\ outgoing_total \in Nat /\ recv_buffered \in Nat
    /\ send_blocked \in BOOLEAN
    /\ mtu \in {MinMtu, MaxMtu}
    /\ events \subseteq {"received", "unblocked"}
    /\ futures \in [Tasks -> [op : {"none", "send", "read"}, len : Lengths \cup {0},
                              awake : BOOLEAN]]

Init ==
    /\ outgoing = <<>> /\ outgoing_total = 0 /\ send_blocked = FALSE
    /\ incoming = <<>> /\ recv_buffered = 0
    /\ mtu = MinMtu
    /\ events = {}
    /\ futures = [t \in Tasks |-> NoFuture]

\* Datagrams::max_size; the peer's limit is not the smaller one here
MaxSize == mtu - SizeBound

\* Datagram::size
Size(len) == Header + len

SendQueue == <<outgoing, outgoing_total, send_blocked>>
RecvQueue == <<incoming, recv_buffered>>

-----------------------------------------------------------------------------
(* Sending.                                                                *)

\* The queue after the oldest datagrams are dropped until it is no longer
\* over the buffer's size
RECURSIVE Trimmed(_)
Trimmed(q) == IF Total(q) > SendBuffer THEN Trimmed(Tail(q)) ELSE q

\* Connection::send_datagram: a send that drops rather than waits
SendNow(len) ==
    /\ len <= MaxSize
    /\ Len(outgoing) < MaxQueued
    /\ outgoing' = Append(Trimmed(outgoing), len)
    /\ outgoing_total' = Total(Trimmed(outgoing)) + len
    /\ UNCHANGED <<send_blocked, incoming, recv_buffered, mtu, events, futures>>

\* Connection::send_datagram_wait, ::read_datagram: the future is created
Await(t, op, len) ==
    /\ futures[t].op = "none"
    /\ futures' = [futures EXCEPT ![t] = [op |-> op, len |-> len, awake |-> TRUE]]
    /\ UNCHANGED <<SendQueue, RecvQueue, mtu, events>>

Blocked(len) == outgoing_total + len > SendBuffer

\* SendDatagram::poll, under the lock of the connection
PollSend(t) ==
    /\ futures[t].op = "send" /\ futures[t].awake
    /\ LET len == futures[t].len IN
       \/ /\ len > MaxSize                                   \* TooLarge
          /\ futures' = [futures EXCEPT ![t] = NoFuture]
          /\ UNCHANGED SendQueue
       \/ /\ len <= MaxSize /\ Blocked(len)
          /\ send_blocked' = TRUE
          /\ futures' = [futures EXCEPT ![t].awake = FALSE]
          /\ UNCHANGED <<outgoing, outgoing_total>>
       \/ /\ len <= MaxSize /\ ~Blocked(len)
          /\ outgoing' = Append(outgoing, len)
          /\ outgoing_total' = outgoing_total + len
          /\ futures' = [futures EXCEPT ![t] = NoFuture]
          /\ UNCHANGED send_blocked
    /\ UNCHANGED <<RecvQueue, mtu, events>>

\* How many of the queued datagrams a packet with `space` left takes
RECURSIVE Fitting(_, _)
Fitting(q, space) ==
    IF q = <<>> \/ space <= SizeBound \/ space < Size(Head(q))
    THEN 0
    ELSE 1 + Fitting(Tail(q), space - Size(Head(q)))

\* Whether a packet that carried a datagram tells the blocked senders
Unblocks(sent) == send_blocked /\ sent

\* The DATAGRAM part of populate_packet, in a packet with `space` left
Transmit(space) ==
    LET n == Fitting(outgoing, space) IN
    /\ outgoing # <<>>
    /\ outgoing' = SubSeq(outgoing, n + 1, Len(outgoing))
    /\ outgoing_total' = outgoing_total - Total(SubSeq(outgoing, 1, n))
    /\ IF Unblocks(n > 0)
       THEN send_blocked' = FALSE /\ events' = events \cup {"unblocked"}
       ELSE UNCHANGED <<send_blocked, events>>
    /\ UNCHANGED <<RecvQueue, mtu, futures>>

-----------------------------------------------------------------------------
(* The path MTU.                                                           *)

\* DatagramState::drop_oversized: which datagrams stay
Kept(len, max_payload) == len < max_payload

\* Mutant: the senders are only told when some datagrams are still queued
DropUnblocksRest(dropped) == dropped /\ send_blocked /\ outgoing_total' > 0

\* Whether dropping datagrams tells the blocked senders
DropUnblocks(dropped) == dropped /\ send_blocked

\* A larger probe was acknowledged
MtuRaised ==
    /\ mtu = MinMtu
    /\ mtu' = MaxMtu
    /\ UNCHANGED <<SendQueue, RecvQueue, events, futures>>

\* detect_lost_packets finds a black hole
BlackHole ==
    LET kept == SelectSeq(outgoing, LAMBDA len : Kept(len, MinMtu - SizeBound))
        dropped == Len(kept) < Len(outgoing) IN
    /\ mtu = MaxMtu
    /\ mtu' = MinMtu
    /\ outgoing' = kept
    /\ outgoing_total' = Total(kept)
    /\ IF DropUnblocks(dropped)
       THEN send_blocked' = FALSE /\ events' = events \cup {"unblocked"}
       ELSE UNCHANGED <<send_blocked, events>>
    /\ UNCHANGED <<RecvQueue, futures>>

\* The peer migrates to another address, or another path is opened: the
\* smallest MTU is the base MTU again
PathChanged ==
    /\ mtu = MaxMtu
    /\ mtu' = MinMtu
    /\ UNCHANGED <<SendQueue, RecvQueue, events, futures>>

-----------------------------------------------------------------------------
(* Receiving.                                                              *)

\* Mutant: room is made before the arriving datagram is counted
RECURSIVE RoomBefore(_, _)
RoomBefore(q, len) == IF Total(q) > Window THEN RoomBefore(Tail(q), len) ELSE q

\* The queue after the oldest datagrams make room for `len` more
RECURSIVE Room(_, _)
Room(q, len) == IF len + Total(q) > Window THEN Room(Tail(q), len) ELSE q

\* Whether an arrival tells the readers
WasEmpty == recv_buffered = 0

\* DatagramState::received, for a datagram of a peer within the window
Received(len) ==
    LET kept == Room(incoming, len) IN
    /\ len <= Window
    /\ incoming' = Append(kept, len)
    /\ recv_buffered' = Total(kept) + len
    /\ events' = IF WasEmpty THEN events \cup {"received"} ELSE events
    /\ UNCHANGED <<SendQueue, mtu, futures>>

\* ReadDatagram::poll, under the lock of the connection
PollRead(t) ==
    /\ futures[t].op = "read" /\ futures[t].awake
    /\ IF incoming # <<>>
       THEN /\ incoming' = Tail(incoming)
            /\ recv_buffered' = recv_buffered - Head(incoming)
            /\ futures' = [futures EXCEPT ![t] = NoFuture]
       ELSE /\ futures' = [futures EXCEPT ![t].awake = FALSE]
            /\ UNCHANGED RecvQueue
    /\ UNCHANGED <<SendQueue, mtu, events>>

\* State::forward_app_events: a datagram event wakes every future of its kind
Forward ==
    /\ events # {}
    /\ events' = {}
    /\ futures' = [t \in Tasks |->
          IF \/ futures[t].op = "send" /\ "unblocked" \in events
             \/ futures[t].op = "read" /\ "received" \in events
          THEN [futures[t] EXCEPT !.awake = TRUE] ELSE futures[t]]
    /\ UNCHANGED <<SendQueue, RecvQueue, mtu>>

Next ==
    \/ \E len \in Lengths : SendNow(len)
    \/ \E t \in Tasks, len \in Lengths : Await(t, "send", len)
    \/ \E t \in Tasks : Await(t, "read", 0)
    \/ \E t \in Tasks : PollSend(t)
    \/ \E t \in Tasks : PollRead(t)
    \/ \E space \in 0..mtu : Transmit(space)
    \/ MtuRaised
    \/ BlackHole
    \/ PathChanged
    \/ \E len \in Lengths : Received(len)
    \/ Forward

Spec == Init /\ [][Next]_vars

-----------------------------------------------------------------------------
(* What the datagram queues promise.                                       *)

(***************************************************************************)
(* No datagram future sleeps through its event: a parked sender has the    *)
(* `send_blocked` flag and a queued datagram whose sending will tell it, or *)
(* the event is on its way; a parked reader has an empty queue or the event *)
(* on its way.  The event of an arrival is only raised for an empty queue,  *)
(* and the flag is cleared by the first packet that carries a datagram.     *)
(***************************************************************************)
NoLostDatagramWait ==
    \A t \in Tasks : ~futures[t].awake =>
        /\ futures[t].op = "send" =>
              "unblocked" \in events \/ (send_blocked /\ outgoing # <<>>)
        /\ futures[t].op = "read" => "received" \in events \/ incoming = <<>>

(***************************************************************************)
(* The running totals are the queues' contents and the queues stay within  *)
(* their configured sizes: the receive queue never over the window, the    *)
(* send queue over its size by at most the one datagram a dropping send     *)
(* adds, so that the subtractions and the `expect` of the code never fail. *)
(***************************************************************************)
DatagramTotals ==
    /\ outgoing_total = Total(outgoing) /\ recv_buffered = Total(incoming)
    /\ recv_buffered <= Window
    /\ outgoing # <<>> => outgoing_total - Last(outgoing) <= SendBuffer

(***************************************************************************)
(* The comment of `drop_oversized`: "Discard outgoing datagrams with a      *)
(* payload larger than `max_payload` bytes".  A datagram that `send` would   *)
(* accept at the reduced MTU is not discarded when the black hole is found.  *)
(***************************************************************************)
OnlyOversizedDropped ==
    [][BlackHole =>
         \A len \in Lengths :
            len <= MinMtu - SizeBound =>
              Len(SelectSeq(outgoing', LAMBDA l : l = len))
                = Len(SelectSeq(outgoing, LAMBDA l : l = len))]_vars
=============================================================================
