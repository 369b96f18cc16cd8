---------------------------- MODULE RecvStreams ----------------------------
(***************************************************************************)
(* The receiving half of the streams of one connection: Recv, RecvStream,  *)
(* Chunks and the receiving side of StreamsState of noq-proto, with the    *)
(* flow-control frames it sends and the peer that obeys them.              *)
(*                                                                         *)
(* Stream data is modelled byte by byte.  The Assembler of a stream is the *)
(* set `buf` of bytes received and not yet read and the set `got` of bytes *)
(* read (module Assembler models how it is kept); bytes_read is the size   *)
(* of `got`.  The fields of a stream that left the map keep their last     *)
(* values, which only the properties read.  What freeing a stream does to  *)
(* stream limits is in module StreamLimits.                                *)
(***************************************************************************)
EXTENDS Integers, FiniteSets

CONSTANTS
    Streams,        \* streams the peer sends on, known to the application
    MaxOffset,      \* bound on the length of a stream
    StreamWindow,   \* TransportConfig::stream_receive_window
    InitWindow,     \* TransportConfig::receive_window
    Windows,        \* values passed to set_receive_window
    MaxLocal,       \* bound on local_max_data, for set_receive_window
    Fraction,       \* updates are announced from 1/Fraction of a window on: 8
    VarIntMax,      \* VarInt::MAX
    Ops             \* the rarer operations of this instance

ASSUME StreamsAssumption == IsFiniteSet(Streams)
ASSUME BoundsAssumption ==
    /\ MaxOffset \in Nat /\ StreamWindow \in Nat /\ InitWindow \in Nat
    /\ Windows \subseteq Nat /\ MaxLocal \in Nat /\ Fraction \in Nat \ {0}
    /\ VarIntMax \in Nat /\ InitWindow <= VarIntMax
    /\ Ops \subseteq {"Finish", "Reset", "Stop", "Unordered", "Ordered",
                      "Window", "Cheat"}

VARIABLES
    \* one Recv per stream
    rstate,         \* RecvState, or why the stream left the map
    size,           \* its final size, NoSize while unknown
    end,            \* end
    stopped,        \* stopped
    ordered,        \* assembler.state is Ordered
    buf,            \* bytes held by the assembler
    got,            \* bytes read by the application
    sentMaxStream,  \* sent_max_stream_data
    \* StreamsState
    dataRecvd,      \* data_recvd
    localMaxData,   \* local_max_data
    sentMaxData,    \* sent_max_data
    receiveWindow,  \* receive_window
    shrinkDebt,     \* receive_window_shrink_debt
    readable,       \* streams with a Readable event not yet polled
    error,          \* what closed the connection
    \* Retransmits: frames to send
    pendMaxData, pendMaxStream, pendStop,
    \* frames in unacknowledged packets
    flightData, flightStream, flightStop,
    \* the application and the peer
    idle,           \* the reader got Blocked and waits for Readable
    peerEnd,        \* bytes the peer has sent on each stream
    peerFin, peerReset, peerStopped,
    peerMaxData, peerMaxStream

recvVars == <<rstate, size, end, stopped, ordered, buf, got, sentMaxStream>>
connVars == <<dataRecvd, localMaxData, sentMaxData, receiveWindow, shrinkDebt>>
pendVars == <<pendMaxData, pendMaxStream, pendStop>>
flightVars == <<flightData, flightStream, flightStop>>
appVars == <<readable, idle>>
peerVars == <<peerEnd, peerFin, peerReset, peerStopped, peerMaxData,
              peerMaxStream>>
vars == <<recvVars, connVars, appVars, error, pendVars, flightVars, peerVars>>

NoSize == -1
InMap == {"Recv", "ResetRecvd"}
Greater(a, b) == IF a <= b THEN b ELSE a
Lesser(a, b) == IF a <= b THEN a ELSE b
Bytes(lo, hi) == lo .. (hi - 1)

BytesRead(s) == Cardinality(got[s])

\* Recv::final_offset_unknown and Recv::can_send_flow_control
FinalOffsetUnknown(s) == rstate[s] = "Recv" /\ size[s] = NoSize
CanSendFlowControl(s) == FinalOffsetUnknown(s) /\ ~stopped[s]

\* What Assembler::read can return: the bytes without a gap before them, or all
Avail(s, ord) ==
    IF ord
    THEN {o \in buf[s] : Bytes(0, o) \subseteq (buf[s] \cup got[s])}
    ELSE buf[s]

\* Chunks are read from the lowest offset on.
LowestIn(A, T) == T \subseteq A /\ \A o \in A \ T : \A t \in T : t < o

\* Mutant: debt is repaid and the whole credit granted as well.
NewLocalMaxForgivesDebt(c) == localMaxData + c

\* local_max_data after StreamsState::add_read_credits(c)
NewLocalMax(c) ==
    IF c > shrinkDebt THEN localMaxData + (c - shrinkDebt) ELSE localMaxData

\* Whether add_read_credits(c) asks for a MAX_DATA frame
Announce(c) ==
    /\ NewLocalMax(c) <= VarIntMax
    /\ NewLocalMax(c) - sentMaxData >= receiveWindow \div Fraction

\* receive_window_shrink_debt after add_read_credits(c)
NewDebt(c) == Greater(0, shrinkDebt - c)

\* StreamsState::add_read_credits, and its callers queueing MAX_DATA
AddReadCredits(c) ==
    /\ localMaxData' = NewLocalMax(c)
    /\ shrinkDebt' = NewDebt(c)
    /\ pendMaxData' = (pendMaxData \/ Announce(c))

\* Recv::credit_consumed_by fails
CreditExceeded(s, offset) ==
    \/ offset > sentMaxStream[s]
    \/ dataRecvd + Greater(0, offset - end[s]) > localMaxData

Init ==
    /\ rstate = [s \in Streams |-> "Recv"]
    /\ size = [s \in Streams |-> NoSize]
    /\ end = [s \in Streams |-> 0]
    /\ stopped = [s \in Streams |-> FALSE]
    /\ ordered = [s \in Streams |-> TRUE]
    /\ buf = [s \in Streams |-> {}]
    /\ got = [s \in Streams |-> {}]
    /\ sentMaxStream = [s \in Streams |-> StreamWindow]
    /\ dataRecvd = 0
    /\ localMaxData = InitWindow
    /\ sentMaxData = InitWindow
    /\ receiveWindow = InitWindow
    /\ shrinkDebt = 0
    /\ readable = {}
    /\ error = "none"
    /\ pendMaxData = FALSE /\ pendMaxStream = {} /\ pendStop = {}
    /\ flightData = {} /\ flightStream = {} /\ flightStop = {}
    /\ idle = [s \in Streams |-> TRUE]
    /\ peerEnd = [s \in Streams |-> 0]
    /\ peerFin = {} /\ peerReset = {} /\ peerStopped = {}
    /\ peerMaxData = InitWindow
    /\ peerMaxStream = [s \in Streams |-> StreamWindow]

-----------------------------------------------------------------------------
(* The peer                                                                *)

PeerSent == UNION {{s} \X Bytes(0, peerEnd[s]) : s \in Streams}
PeerCanWrite(s) ==
    \/ "Cheat" \in Ops
    \/ peerEnd[s] < peerMaxStream[s] /\ Cardinality(PeerSent) < peerMaxData

PeerWrite(s) ==
    /\ s \notin (peerFin \cup peerReset \cup peerStopped) \/ "Cheat" \in Ops
    /\ peerEnd[s] < MaxOffset /\ PeerCanWrite(s)
    /\ peerEnd' = [peerEnd EXCEPT ![s] = @ + 1]
    /\ UNCHANGED <<recvVars, connVars, appVars, error, pendVars, flightVars,
                   peerFin, peerReset, peerStopped, peerMaxData, peerMaxStream>>

PeerFinish(s) ==
    /\ "Finish" \in Ops /\ s \notin (peerFin \cup peerReset)
    /\ peerFin' = peerFin \cup {s}
    /\ UNCHANGED <<recvVars, connVars, appVars, error, pendVars, flightVars,
                   peerEnd, peerReset, peerStopped, peerMaxData, peerMaxStream>>

\* The peer's application resets, or answers STOP_SENDING
PeerResets(s) ==
    /\ "Reset" \in Ops \/ s \in peerStopped
    /\ s \notin peerReset
    /\ peerReset' = peerReset \cup {s}
    /\ UNCHANGED <<recvVars, connVars, appVars, error, pendVars, flightVars,
                   peerEnd, peerFin, peerStopped, peerMaxData, peerMaxStream>>

-----------------------------------------------------------------------------
(* Frames received; any part of what the peer sent may arrive, at any time *)
(* and any number of times                                                 *)

\* Assembler::clear in Recv::reset; on_stream_frame tells the reader
AfterReset(s) == {}
Notify(s) == IF stopped[s] THEN readable ELSE readable \cup {s}

\* Frames of the peer that stay below its end, as STREAM frames
Arrivable(s, lo, hi, fin) ==
    /\ lo <= hi /\ hi <= peerEnd[s] /\ (lo = hi => fin)
    /\ fin => s \in peerFin /\ hi = peerEnd[s]

\* Recv::ingest fails
IngestFails(s, hi, fin) ==
    \/ size[s] # NoSize /\ (hi > size[s] \/ (fin /\ hi # size[s]))
    \/ CreditExceeded(s, hi)

\* StreamsState::received on a stream that is not stopped.  A frame for a
\* stream that is reset or left the map changes nothing.
ReceiveStream(s, lo, hi, fin) ==
    /\ error = "none" /\ rstate[s] = "Recv" /\ ~stopped[s]
    /\ Arrivable(s, lo, hi, fin) /\ ~IngestFails(s, hi, fin)
    /\ size' = [size EXCEPT ![s] = IF fin THEN hi ELSE @]
    /\ end' = [end EXCEPT ![s] = Greater(@, hi)]
    /\ buf' = [buf EXCEPT ![s] = @ \cup (Bytes(lo, hi) \ got[s])]
    /\ dataRecvd' = dataRecvd + Greater(0, hi - end[s])
    /\ readable' = Notify(s)
    /\ UNCHANGED <<rstate, stopped, ordered, got, sentMaxStream, localMaxData,
                   sentMaxData, receiveWindow, shrinkDebt, idle, error,
                   pendVars, flightVars, peerVars>>

\* StreamsState::received on a stopped stream
ReceiveStopped(s, lo, hi, fin) ==
    /\ error = "none" /\ rstate[s] = "Recv" /\ stopped[s]
    /\ Arrivable(s, lo, hi, fin) /\ ~IngestFails(s, hi, fin)
    /\ rstate' = [rstate EXCEPT ![s] = IF fin THEN "StopFin" ELSE @]
    /\ end' = [end EXCEPT ![s] = Greater(@, hi)]
    /\ dataRecvd' = dataRecvd + Greater(0, hi - end[s])
    /\ AddReadCredits(Greater(0, hi - end[s]))
    /\ UNCHANGED <<size, stopped, ordered, buf, got, sentMaxStream,
                   sentMaxData, receiveWindow, appVars, error, pendMaxStream,
                   pendStop, flightVars, peerVars>>

\* A frame beyond the credit or the final size closes the connection.
ReceiveBad(s, lo, hi, fin) ==
    /\ error = "none" /\ rstate[s] = "Recv"
    /\ Arrivable(s, lo, hi, fin) /\ IngestFails(s, hi, fin)
    /\ error' = "closed"
    /\ UNCHANGED <<recvVars, connVars, appVars, pendVars, flightVars, peerVars>>

\* Recv::reset fails
ResetFails(s, final) ==
    \/ size[s] # NoSize /\ size[s] # final
    \/ size[s] = NoSize /\ end[s] > final
    \/ CreditExceeded(s, final)

\* Mutant: the bytes that never arrive are not counted.
ResetNewBytesNone(s) == 0

\* Bytes a reset adds to data_recvd
ResetNewBytes(s) == peerEnd[s] - end[s]

\* Credit returned by a reset: all that the application did not read
ResetCredit(s) == peerEnd[s] - BytesRead(s)

\* StreamsState::received_reset; a repeated RESET_STREAM changes nothing
ReceiveReset(s) ==
    /\ error = "none" /\ rstate[s] = "Recv" /\ s \in peerReset
    /\ ~ResetFails(s, peerEnd[s])
    /\ rstate' = [rstate EXCEPT ![s] =
                     IF stopped[s] THEN "StopReset" ELSE "ResetRecvd"]
    /\ size' = [size EXCEPT ![s] = peerEnd[s]]
    /\ buf' = [buf EXCEPT ![s] = AfterReset(s)]
    /\ readable' = Notify(s)
    /\ IF BytesRead(s) # peerEnd[s]
       THEN /\ dataRecvd' = dataRecvd + ResetNewBytes(s)
            /\ AddReadCredits(ResetCredit(s))
       ELSE UNCHANGED <<dataRecvd, localMaxData, shrinkDebt, pendMaxData>>
    /\ UNCHANGED <<end, stopped, ordered, got, sentMaxStream, sentMaxData,
                   receiveWindow, idle, error, pendMaxStream, pendStop,
                   flightVars, peerVars>>

ReceiveBadReset(s) ==
    /\ error = "none" /\ rstate[s] \in InMap /\ s \in peerReset
    /\ ResetFails(s, peerEnd[s])
    /\ error' = IF rstate[s] = "Recv" THEN "closed" ELSE "repeated reset"
    /\ UNCHANGED <<recvVars, connVars, appVars, pendVars, flightVars, peerVars>>

-----------------------------------------------------------------------------
(* The application                                                         *)

\* Credit for the data Recv::stop discards
StopCredit(s) == end[s] - BytesRead(s)

\* RecvStream::stop
Stop(s) ==
    /\ "Stop" \in Ops /\ error = "none" /\ rstate[s] \in InMap /\ ~stopped[s]
    /\ stopped' = [stopped EXCEPT ![s] = TRUE]
    /\ buf' = [buf EXCEPT ![s] = {}]
    /\ pendStop' = IF rstate[s] = "Recv" THEN pendStop \cup {s} ELSE pendStop
    /\ rstate' = [rstate EXCEPT ![s] =
                     IF FinalOffsetUnknown(s) THEN @
                     ELSE IF @ = "Recv" THEN "StopFin" ELSE "StopReset"]
    /\ AddReadCredits(StopCredit(s))
    /\ idle' = [idle EXCEPT ![s] = FALSE]
    /\ UNCHANGED <<size, end, ordered, got, sentMaxStream, dataRecvd,
                   sentMaxData, receiveWindow, readable, error, pendMaxStream,
                   flightVars, peerVars>>

\* Chunks::finalize_inner once n bytes are read: MAX_STREAM_DATA if significant
QueueMaxStream(s, n) ==
    IF /\ CanSendFlowControl(s)
       /\ (BytesRead(s) + n + StreamWindow) - sentMaxStream[s]
              >= StreamWindow \div Fraction
    THEN pendMaxStream \cup {s} ELSE pendMaxStream

\* A reader that got Blocked waits for Readable; ensure_ordering must agree.
MayRead(s, ord) ==
    /\ error = "none" /\ rstate[s] \in InMap /\ ~stopped[s] /\ ~idle[s]
    /\ IF ord THEN ordered[s] ELSE "Unordered" \in Ops

\* The part of Chunks::next and Chunks::finalize common to all reads of T
TakeBytes(s, ord, T) ==
    /\ got' = [got EXCEPT ![s] = @ \cup T]
    /\ buf' = [buf EXCEPT ![s] = @ \ T]
    /\ ordered' = [ordered EXCEPT ![s] = ord]
    /\ AddReadCredits(Cardinality(T))
    /\ UNCHANGED <<end, size, stopped, sentMaxStream, dataRecvd, sentMaxData,
                   receiveWindow, readable, error, pendStop, flightVars,
                   peerVars>>

\* Chunks read without reaching the end of what is available
Read(s, ord, T) ==
    /\ MayRead(s, ord)
    /\ T # {} /\ LowestIn(Avail(s, ord), T)
    /\ TakeBytes(s, ord, T)
    /\ pendMaxStream' = QueueMaxStream(s, Cardinality(T))
    /\ UNCHANGED <<rstate, idle>>

\* Mutant: the end is reached once everything received is read.
AtEndOfReceived(s, n) == BytesRead(s) + n = end[s] /\ end[s] > 0

\* Chunks::next: the stream is finished
AtEnd(s, n) == size[s] = end[s] /\ BytesRead(s) + n = end[s]

\* Everything available is read and Chunks::next returns Blocked
ReadBlocked(s, ord) ==
    /\ MayRead(s, ord) /\ rstate[s] = "Recv"
    /\ ~AtEnd(s, Cardinality(Avail(s, ord)))
    /\ TakeBytes(s, ord, Avail(s, ord))
    /\ pendMaxStream' = QueueMaxStream(s, Cardinality(Avail(s, ord)))
    /\ idle' = [idle EXCEPT ![s] = TRUE]
    /\ UNCHANGED rstate

\* Everything available is read and Chunks::next returns None
ReadFinished(s, ord) ==
    /\ MayRead(s, ord) /\ rstate[s] = "Recv"
    /\ AtEnd(s, Cardinality(Avail(s, ord)))
    /\ TakeBytes(s, ord, Avail(s, ord))
    /\ rstate' = [rstate EXCEPT ![s] = "Finished"]
    /\ UNCHANGED <<pendMaxStream, idle>>

\* Chunks::next reports the reset and frees the stream
ReadReset(s, ord) ==
    /\ MayRead(s, ord) /\ rstate[s] = "ResetRecvd" /\ Avail(s, ord) = {}
    /\ TakeBytes(s, ord, {})
    /\ rstate' = [rstate EXCEPT ![s] = "ResetRead"]
    /\ UNCHANGED <<pendMaxStream, idle>>

\* An ordered read after an unordered one: Chunks::new took the stream out of
\* the map before ensure_ordering failed, and drops it.
IllegalOrderedRead(s) ==
    /\ "Ordered" \in Ops /\ error = "none" /\ rstate[s] \in InMap
    /\ ~stopped[s] /\ ~ordered[s]
    /\ rstate' = [rstate EXCEPT ![s] = IF @ = "Recv" THEN "Leaked"
                                                    ELSE "LeakedReset"]
    /\ buf' = [buf EXCEPT ![s] = {}]
    /\ UNCHANGED <<size, end, stopped, ordered, got, sentMaxStream, connVars,
                   appVars, error, pendVars, flightVars, peerVars>>

\* RecvStream::received_reset, when it finds a reset
ReceivedReset(s) ==
    /\ error = "none" /\ rstate[s] = "ResetRecvd" /\ ~stopped[s]
    /\ rstate' = [rstate EXCEPT ![s] = "ResetRead"]
    /\ UNCHANGED <<size, end, stopped, ordered, buf, got, sentMaxStream,
                   connVars, appVars, error, pendVars, flightVars, peerVars>>

\* StreamsState::poll hands out a Readable event and the reader wakes up
PollReadable(s) ==
    /\ s \in readable
    /\ readable' = readable \ {s}
    /\ idle' = [idle EXCEPT ![s] = FALSE]
    /\ UNCHANGED <<recvVars, connVars, error, pendVars, flightVars, peerVars>>

\* Connection::set_receive_window
SetReceiveWindow(w) ==
    /\ "Window" \in Ops /\ error = "none" /\ w # receiveWindow
    /\ localMaxData + w <= MaxLocal
    /\ receiveWindow' = w
    /\ IF w > receiveWindow
       THEN /\ localMaxData' = localMaxData + (w - receiveWindow)
            /\ pendMaxData' = TRUE
            /\ UNCHANGED shrinkDebt
       ELSE /\ shrinkDebt' = shrinkDebt + (receiveWindow - w)
            /\ UNCHANGED <<localMaxData, pendMaxData>>
    /\ UNCHANGED <<recvVars, dataRecvd, sentMaxData, appVars, error,
                   pendMaxStream, pendStop, flightVars, peerVars>>

-----------------------------------------------------------------------------
(* Frames sent: StreamsState::write_control_frames, acknowledgement, loss  *)

SendMaxData ==
    /\ pendMaxData /\ error = "none"
    /\ pendMaxData' = FALSE
    /\ LET max == Lesser(localMaxData, VarIntMax) IN
          /\ sentMaxData' = Greater(sentMaxData, max)
          /\ flightData' = flightData \cup {max}
    /\ UNCHANGED <<recvVars, dataRecvd, localMaxData, receiveWindow, shrinkDebt,
                   appVars, error, pendMaxStream, pendStop, flightStream,
                   flightStop, peerVars>>

\* Mutant: the value sent is not recorded.
RecordNoMaxStream(s, max) == sentMaxStream

\* Recv::record_sent_max_stream_data
RecordMaxStream(s, max) == [sentMaxStream EXCEPT ![s] = Greater(@, max)]

SendMaxStream(s) ==
    /\ s \in pendMaxStream /\ error = "none"
    /\ pendMaxStream' = pendMaxStream \ {s}
    /\ IF CanSendFlowControl(s)
       THEN LET max == BytesRead(s) + StreamWindow IN
               /\ sentMaxStream' = RecordMaxStream(s, max)
               /\ flightStream' = flightStream \cup {<<s, max>>}
       ELSE UNCHANGED <<sentMaxStream, flightStream>>
    /\ UNCHANGED <<rstate, size, end, stopped, ordered, buf, got, connVars,
                   appVars, error, pendMaxData, pendStop, flightData,
                   flightStop, peerVars>>

SendStop(s) ==
    /\ s \in pendStop /\ error = "none"
    /\ pendStop' = pendStop \ {s}
    /\ flightStop' = flightStop \cup {s}
    /\ UNCHANGED <<recvVars, connVars, appVars, error, pendMaxData,
                   pendMaxStream, flightData, flightStream, peerVars>>

\* A frame reaches the peer and is acknowledged
MaxDataAcked(v) ==
    /\ v \in flightData /\ error = "none"
    /\ flightData' = flightData \ {v}
    /\ peerMaxData' = Greater(peerMaxData, v)
    /\ UNCHANGED <<recvVars, connVars, appVars, error, pendVars, flightStream,
                   flightStop, peerEnd, peerFin, peerReset, peerStopped,
                   peerMaxStream>>

MaxStreamAcked(s, v) ==
    /\ <<s, v>> \in flightStream /\ error = "none"
    /\ flightStream' = flightStream \ {<<s, v>>}
    /\ peerMaxStream' = [peerMaxStream EXCEPT ![s] = Greater(@, v)]
    /\ UNCHANGED <<recvVars, connVars, appVars, error, pendVars, flightData,
                   flightStop, peerEnd, peerFin, peerReset, peerStopped,
                   peerMaxData>>

StopAcked(s) ==
    /\ s \in flightStop /\ error = "none"
    /\ flightStop' = flightStop \ {s}
    /\ peerStopped' = peerStopped \cup {s}
    /\ UNCHANGED <<recvVars, connVars, appVars, error, pendVars, flightData,
                   flightStream, peerEnd, peerFin, peerReset, peerMaxData,
                   peerMaxStream>>

\* Mutants: what was lost is not queued again.
RequeueNoMaxData == pendMaxData
RequeueNoStop(s) == pendStop

\* The Retransmits of a lost packet are pending again
RequeueMaxData == TRUE
RequeueStop(s) == pendStop \cup {s}

\* A packet is declared lost, whether or not its frame arrived
LoseMaxData(v, arrived) ==
    /\ v \in flightData /\ error = "none"
    /\ flightData' = flightData \ {v}
    /\ pendMaxData' = RequeueMaxData
    /\ peerMaxData' = IF arrived THEN Greater(peerMaxData, v) ELSE peerMaxData
    /\ UNCHANGED <<recvVars, connVars, appVars, error, pendMaxStream, pendStop,
                   flightStream, flightStop, peerEnd, peerFin, peerReset,
                   peerStopped, peerMaxStream>>

LoseMaxStream(s, v, arrived) ==
    /\ <<s, v>> \in flightStream /\ error = "none"
    /\ flightStream' = flightStream \ {<<s, v>>}
    /\ pendMaxStream' = pendMaxStream \cup {s}
    /\ peerMaxStream' = IF arrived
                        THEN [peerMaxStream EXCEPT ![s] = Greater(@, v)]
                        ELSE peerMaxStream
    /\ UNCHANGED <<recvVars, connVars, appVars, error, pendMaxData, pendStop,
                   flightData, flightStop, peerEnd, peerFin, peerReset,
                   peerStopped, peerMaxData>>

LoseStop(s, arrived) ==
    /\ s \in flightStop /\ error = "none"
    /\ flightStop' = flightStop \ {s}
    /\ pendStop' = RequeueStop(s)
    /\ peerStopped' = IF arrived THEN peerStopped \cup {s} ELSE peerStopped
    /\ UNCHANGED <<recvVars, connVars, appVars, error, pendMaxData,
                   pendMaxStream, flightData, flightStream, peerEnd, peerFin,
                   peerReset, peerMaxData, peerMaxStream>>

-----------------------------------------------------------------------------

Receiving(s) ==
    \E lo, hi \in 0..MaxOffset, fin \in BOOLEAN :
        \/ ReceiveStream(s, lo, hi, fin)
        \/ ReceiveStopped(s, lo, hi, fin)
        \/ ReceiveBad(s, lo, hi, fin)

Reading(s) ==
    \E ord \in BOOLEAN :
        \/ \E T \in SUBSET Avail(s, ord) : Read(s, ord, T)
        \/ ReadBlocked(s, ord)
        \/ ReadFinished(s, ord)
        \/ ReadReset(s, ord)

Next ==
    \/ \E s \in Streams :
        \/ PeerWrite(s) \/ PeerFinish(s) \/ PeerResets(s)
        \/ Receiving(s) \/ ReceiveReset(s) \/ ReceiveBadReset(s)
        \/ Stop(s) \/ Reading(s) \/ IllegalOrderedRead(s) \/ ReceivedReset(s)
        \/ PollReadable(s)
        \/ SendMaxStream(s) \/ SendStop(s) \/ StopAcked(s)
        \/ \E arrived \in BOOLEAN : LoseStop(s, arrived)
    \/ \E w \in Windows : SetReceiveWindow(w)
    \/ SendMaxData
    \/ \E v \in flightData : MaxDataAcked(v)
    \/ \E v \in flightData, arrived \in BOOLEAN : LoseMaxData(v, arrived)
    \/ \E f \in flightStream : MaxStreamAcked(f[1], f[2])
    \/ \E f \in flightStream, arrived \in BOOLEAN :
           LoseMaxStream(f[1], f[2], arrived)

Spec == Init /\ [][Next]_vars

-----------------------------------------------------------------------------
(* Fairness, for the liveness properties: the driver transmits what is     *)
(* pending and polls events, the application reads when it is told to, the *)
(* peer sends what it may and retransmits until it arrives, answers        *)
(* STOP_SENDING, and frames sent again and again do arrive.                *)

Arrives(s) == ReceiveStream(s, 0, peerEnd[s], s \in peerFin)

AnyMaxDataAcked == \E v \in flightData : MaxDataAcked(v)
AnyMaxStreamAcked(s) == \E v \in 0..(MaxOffset + StreamWindow) : MaxStreamAcked(s, v)
Reads(s) ==
    \E ord \in BOOLEAN : ReadBlocked(s, ord) \/ ReadFinished(s, ord) \/ ReadReset(s, ord)
AnswersStop(s) == PeerResets(s) /\ s \in peerStopped

FairSpec ==
    /\ Spec
    /\ WF_vars(SendMaxData) /\ SF_vars(AnyMaxDataAcked)
    /\ \A s \in Streams :
        /\ WF_vars(SendMaxStream(s)) /\ SF_vars(AnyMaxStreamAcked(s))
        /\ WF_vars(SendStop(s)) /\ SF_vars(StopAcked(s))
        /\ WF_vars(PollReadable(s)) /\ WF_vars(Reads(s))
        /\ WF_vars(PeerWrite(s)) /\ WF_vars(AnswersStop(s))
        /\ SF_vars(Arrives(s)) /\ SF_vars(ReceiveReset(s))

-----------------------------------------------------------------------------
(* Properties                                                              *)

Offsets == 0..MaxOffset

\* Every variable has its type; the counters do not underflow.
TypeOK ==
    /\ rstate \in [Streams -> InMap \cup {"Finished", "ResetRead", "StopFin",
                                          "StopReset", "Leaked", "LeakedReset"}]
    /\ size \in [Streams -> Offsets \cup {NoSize}]
    /\ end \in [Streams -> Offsets]
    /\ stopped \in [Streams -> BOOLEAN]
    /\ ordered \in [Streams -> BOOLEAN]
    /\ buf \in [Streams -> SUBSET Bytes(0, MaxOffset)]
    /\ got \in [Streams -> SUBSET Bytes(0, MaxOffset)]
    /\ sentMaxStream \in [Streams -> Nat]
    /\ dataRecvd \in Nat /\ localMaxData \in Nat /\ sentMaxData \in Nat
    /\ receiveWindow \in Nat /\ shrinkDebt \in Nat
    /\ readable \in SUBSET Streams
    /\ error \in {"none", "closed", "repeated reset"}
    /\ pendMaxData \in BOOLEAN
    /\ pendMaxStream \in SUBSET Streams /\ pendStop \in SUBSET Streams
    /\ flightData \in SUBSET Nat
    /\ flightStream \in SUBSET (Streams \X Nat)
    /\ flightStop \in SUBSET Streams
    /\ idle \in [Streams -> BOOLEAN]
    /\ peerEnd \in [Streams -> Offsets]
    /\ peerFin \in SUBSET Streams /\ peerReset \in SUBSET Streams
    /\ peerStopped \in SUBSET Streams
    /\ peerMaxData \in Nat /\ peerMaxStream \in [Streams -> Nat]

WasReset(s) ==
    rstate[s] \in {"ResetRecvd", "ResetRead", "StopReset", "LeakedReset"}

\* The bytes of s that count against the credit of the connection
ConsumedOf(s) == Bytes(0, IF WasReset(s) THEN size[s] ELSE end[s])
Consumed == UNION {{s} \X ConsumedOf(s) : s \in Streams}

\* The bytes of s whose credit goes back to the peer: read or discarded
ReleasedOf(s) ==
    IF WasReset(s) \/ stopped[s] THEN ConsumedOf(s) ELSE got[s]
Released == UNION {{s} \X ReleasedOf(s) : s \in Streams}

\* A peer that stays within the credit it was told of and does not change the
\* length of its streams is never accused of a FLOW_CONTROL_ERROR or a
\* FINAL_SIZE_ERROR, in whatever order its frames and ours arrive (a reset that
\* arrives twice: see RepeatedResetIgnored).
HonestPeerAccepted == error # "closed"

\* A RESET_STREAM that arrives again before the application read the first one is
\* redundant (received_reset).  Recv::reset checks its credit first, and counts
\* the bytes between end and the final size a second time.
RepeatedResetIgnored == error # "repeated reset"

\* data_recvd is the sum of the lengths of all streams as far as they are known,
\* whether the end became known by data, a FIN or a reset.
DataRecvdExact == dataRecvd = Cardinality(Consumed)

\* The bytes of s whose credit goes back twice: stop and reset, in either order,
\* both return that of what had arrived and was not read.
TwiceOf(s) == IF rstate[s] = "StopReset" THEN Bytes(0, end[s]) \ got[s] ELSE {}
Twice == UNION {{s} \X TwiceOf(s) : s \in Streams}

\* The credit of no byte is lost, and that of no byte outside Twice is returned
\* again: the limit grew by every byte that was read, or discarded by stop or by
\* a reset, less the shrinking of the window.
CreditReturned ==
    localMaxData - shrinkDebt
        = receiveWindow + Cardinality(Released) + Cardinality(Twice)

\* Every byte counts against the window once it is known, and gives its credit
\* back when it is read or discarded, once; but for what had arrived unread on a
\* stream both stopped and reset, which gives it back twice (received,
\* received_reset, stop, finalize).
CreditAccounted == DataRecvdExact /\ CreditReturned

\* The peer can have no more unread bytes outstanding than the window allows,
\* plus what it was promised before the window was shrunk, plus what was returned
\* to it twice.
WindowRespected ==
    Cardinality(Consumed) - Cardinality(Released)
        <= receiveWindow + shrinkDebt + Cardinality(Twice)

\* A stream leaves the map only when it was stopped, when it was reset, or when
\* all of it was read.
ClosedHasReason ==
    \A s \in Streams :
        rstate[s] \in InMap \/ stopped[s] \/ s \in peerReset
        \/ (s \in peerFin /\ got[s] = Bytes(0, peerEnd[s]))

\* A reader that was told Blocked and could now read data, the end of the
\* stream or a reset has a Readable event coming.
NoLostReader ==
    \A s \in Streams :
        /\ idle[s] /\ rstate[s] \in InMap /\ ~stopped[s]
        /\ \/ Avail(s, ordered[s]) # {}
           \/ AtEnd(s, 0)
           \/ rstate[s] = "ResetRecvd"
        => s \in readable

\* The reader of a stream is told all of it: the stream stays until then, and no
\* Readable event is lost (received, received_reset, on_stream_frame).
ReaderTold == ClosedHasReason /\ NoLostReader

\* The limits we enforce reach the peer: until it knows the latest value
\* recorded as sent, a frame is queued or in flight, whatever was lost.
LimitsNotLost ==
    /\ peerMaxData = sentMaxData \/ pendMaxData \/ sentMaxData \in flightData
    /\ \A s \in Streams : CanSendFlowControl(s) =>
           \/ peerMaxStream[s] = sentMaxStream[s]
           \/ s \in pendMaxStream
           \/ <<s, sentMaxStream[s]>> \in flightStream

\* An application that keeps reading lets the peer send all it wants: windows
\* smaller than the data are opened again and again, whatever updates are lost.
SentAll(s) ==
    \/ peerEnd[s] = MaxOffset \/ stopped[s]
    \/ s \in (peerFin \cup peerReset \cup peerStopped)
PeerSendsAll == \A s \in Streams : <>SentAll(s)

\* A stopped stream is freed in the end: the peer learns of it and resets it.
StoppedIsFreed ==
    \A s \in Streams : stopped[s] ~> rstate[s] \notin InMap

\* Receiving makes progress: the peer is let send all of a stream, and a stopped
\* stream is freed (write_control_frames, stop, received_reset).
StreamsFinish == PeerSendsAll /\ StoppedIsFreed
=============================================================================
