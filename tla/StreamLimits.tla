---------------------------- MODULE StreamLimits ----------------------------
(***************************************************************************)
(* How many streams of one direction a peer may open.  The opener counts   *)
(* against `max`; the acceptor holds the state of every stream it has      *)
(* given permission for, and gives permission for another one when both    *)
(* halves of one are gone.  MAX_STREAMS, STREAMS_BLOCKED and STOP_SENDING  *)
(* are lost and resent.  Either side may be a client that begins in 0-RTT, *)
(* on the strength of remembered parameters, and is rejected.              *)
(*                                                                         *)
(* A stream is its index.  All data of a stream arrives with its end.      *)
(***************************************************************************)
EXTENDS Integers, FiniteSets, FiniteSetsExt

CONSTANTS
    Bi,             \* the streams are bidirectional
    Initial,        \* max_concurrent_{bidi,uni}_streams of the acceptor
    Counts,         \* arguments of set_max_concurrent_streams
    Remembered,     \* limits a client may remember from another connection
    MaxStreams,     \* bound on the streams opened
    Fraction,       \* the part of the window worth a frame, 8 in the code
    Ops             \* "StopReset": see Stop; "EarlyWait": see Open

ASSUME ConstantsAssumption ==
    /\ Bi \in BOOLEAN /\ Initial \in Nat /\ Counts \subseteq Nat
    /\ Remembered \subseteq Nat /\ MaxStreams \in Nat /\ Fraction \in Nat \ {0}
    /\ Ops \subseteq {"StopReset", "EarlyWait"}
    /\ \E m \in Counts \cup {Initial} : \A c \in Counts \cup {Initial} : m >= c

VARIABLES
    \* The opener: the fields of its StreamsState and its events
    next, max, streamsBlocked, available,
    unackedBlocked, \* a STREAMS_BLOCKED is sent and not acknowledged
    want,       \* a task of its application is "idle", "waiting" for the
                \* event, or "woken"
    ended,      \* how each stream ended, as the opener told
    \* The acceptor
    acc,        \* its StreamsState and pending.max_stream_id
    acceptor,   \* a task waits in accept
    unackedStop,    \* STOP_SENDING queued or sent, and not acknowledged
    flightMax,  \* limits in unacknowledged MAX_STREAMS
    \* The connection
    zeroRtt,    \* which side is a client in 0-RTT, and the fate of that
    error

openVars == <<next, max, streamsBlocked, available, want, ended>>
vars == <<openVars, unackedBlocked, acc, acceptor, unackedStop, flightMax,
          zeroRtt, error>>

HandshakeDone == [client |-> "none", fate |-> "done"]

\* A side reads the packets of the other: those in 0-RTT if it is accepted, and
\* a client those in 1-RTT once its handshake is complete.
Reads(side) ==
    /\ zeroRtt.fate # "rejected"
    /\ zeroRtt.client = side => zeroRtt.fate # "accepted"

\* Streams that the acceptor may come to hold
MaxCount == Max(Counts \cup {Initial})
Index == 0 .. (MaxStreams + MaxCount - 1)

-----------------------------------------------------------------------------
(* StreamsState of the acceptor                                            *)

HasSend(i) == Bi

InitialAcceptor ==
    [recv |-> [i \in Index |-> IF i < Initial THEN "open" ELSE "absent"],
     send |-> [i \in Index |->
                  IF i < Initial /\ HasSend(i) THEN "open" ELSE "absent"],
     maxRemote |-> Initial, sentMaxRemote |-> Initial, allocated |-> Initial,
     maxConcurrent |-> Initial, adjusted |-> FALSE,
     nextRemote |-> 0, opened |-> FALSE, nextReported |-> 0, sendStreams |-> 0,
     pendMax |-> FALSE]

\* ensure_remote_streams
EnsureRemoteStreams(a) ==
    LET n == IF a.maxConcurrent > a.allocated
             THEN a.maxConcurrent - a.allocated ELSE 0
        new == a.maxRemote .. (a.maxRemote + n - 1)
    IN  [a EXCEPT
          !.recv = [i \in Index |-> IF i \in new THEN "open" ELSE @[i]],
          !.send = [i \in Index |->
                       IF i \in new /\ HasSend(i) THEN "open" ELSE @[i]],
          !.allocated = @ + n, !.maxRemote = @ + n]

\* queue_max_stream_id
QueueMaxStreamId(a) ==
    [a EXCEPT !.pendMax =
        @ \/ a.maxRemote - a.sentMaxRemote > a.maxConcurrent \div Fraction]

\* Mutant: a stream counts as closed when one half is.
FullyFreeAlways(a, i) == TRUE

FullyFree(a, i) == a.recv[i] = "absent" /\ a.send[i] = "absent"

\* stream_freed, once the half is removed
StreamFreed(a, i) ==
    IF FullyFree(a, i)
    THEN EnsureRemoteStreams([a EXCEPT !.allocated = @ - 1]) ELSE a

\* stream_recv_freed with the removal, and the same for the sending half
RecvFreed(a, i) == StreamFreed([a EXCEPT !.recv[i] = "absent"], i)
SendFreed(a, i) ==
    StreamFreed([a EXCEPT !.send[i] = "absent", !.sendStreams = @ - 1], i)

\* on_stream_frame, for the opening of streams
OnStreamFrame(a, i) ==
    IF i < a.nextRemote THEN a
    ELSE [a EXCEPT !.nextRemote = i + 1, !.opened = TRUE]

\* received and received_reset: the frame says that the stream goes on, that it
\* is finished or that it is reset.
Received(a, i, end) ==
    LET s == a.recv[i] IN
    IF s \in {"absent", "reset"} THEN a
    ELSE IF s = "stopped"
    THEN IF end = "open" THEN a
         ELSE LET b == RecvFreed(a, i)
              IN  IF end = "reset" THEN OnStreamFrame(b, i) ELSE b
    ELSE OnStreamFrame([a EXCEPT !.recv[i] = IF end = "open" THEN s ELSE end],
                       i)

-----------------------------------------------------------------------------
(* The opener                                                              *)

Init ==
    /\ zeroRtt \in {HandshakeDone} \cup
           [client : {"opener", "acceptor"}, fate : {"accepted", "rejected"}]
    /\ IF zeroRtt.client = "opener"
       THEN max \in {m \in Remembered :
                       zeroRtt.fate = "accepted" => m <= Initial}
       ELSE max = Initial
    /\ next = 0 /\ streamsBlocked = FALSE /\ available = FALSE
    /\ unackedBlocked = FALSE
    /\ want = "idle" /\ ended = [i \in 0..(MaxStreams - 1) |-> "open"]
    /\ acc = InitialAcceptor /\ acceptor = FALSE
    /\ unackedStop = {} /\ flightMax = {} /\ error = "none"

\* Streams::open from poll_open.  Unless "EarlyWait" is in Ops, no task waits
\* for a stream in 0-RTT.
Open ==
    /\ want # "waiting" /\ next < MaxStreams
    /\ next >= max /\ zeroRtt.client = "opener" => "EarlyWait" \in Ops
    /\ IF next >= max
       THEN streamsBlocked' = TRUE /\ want' = "waiting" /\ UNCHANGED next
       ELSE next' = next + 1 /\ want' = "idle" /\ UNCHANGED streamsBlocked
    /\ UNCHANGED <<max, available, ended, unackedBlocked, acc, acceptor,
                   unackedStop, flightMax, zeroRtt, error>>

\* Another task opens a stream in the meantime.
OpenOther ==
    /\ want = "waiting" /\ next < MaxStreams /\ next < max
    /\ next' = next + 1
    /\ UNCHANGED <<max, streamsBlocked, available, want, ended,
                   unackedBlocked, acc, acceptor, unackedStop, flightMax,
                   zeroRtt, error>>

\* poll yields Available: the waiting task tries again.
PollAvailable ==
    /\ available
    /\ available' = FALSE
    /\ want' = IF want = "waiting" THEN "woken" ELSE want
    /\ UNCHANGED <<next, max, streamsBlocked, ended, unackedBlocked, acc,
                   acceptor, unackedStop, flightMax, zeroRtt, error>>

\* The opener finishes stream i, or resets it.
End(i, how) ==
    /\ i < next /\ ended[i] = "open"
    /\ ended' = [ended EXCEPT ![i] = how]
    /\ UNCHANGED <<next, max, streamsBlocked, available, want, unackedBlocked,
                   acc, acceptor, unackedStop, flightMax, zeroRtt, error>>

\* write_control_frames, STREAMS_BLOCKED
SendBlocked ==
    /\ streamsBlocked
    /\ streamsBlocked' = FALSE /\ unackedBlocked' = TRUE
    /\ UNCHANGED <<next, max, available, want, ended, acc, acceptor,
                   unackedStop, flightMax, zeroRtt, error>>

\* Whether a higher limit is worth an event
Notify == TRUE

\* received_max_streams
ReceivedMaxStreams(count) ==
    IF count > max
    THEN /\ max' = count /\ streamsBlocked' = FALSE
         /\ available' = (available \/ Notify)
    ELSE UNCHANGED <<max, streamsBlocked, available>>

\* set_params: the limit is that of the parameters.
LimitOfParams == Initial

\* The handshake of an opener completes: zero_rtt_rejected, and the frames
\* pending and in flight are forgotten; then set_params.  No event tells of the
\* new limit.
HandshakeOpener ==
    /\ zeroRtt.client = "opener"
    /\ IF zeroRtt.fate = "rejected"
       THEN /\ next' = 0 /\ ended' = [i \in DOMAIN ended |-> "open"]
            /\ unackedBlocked' = FALSE
       ELSE UNCHANGED <<next, ended, unackedBlocked>>
    /\ max' = LimitOfParams /\ zeroRtt' = HandshakeDone
    /\ UNCHANGED <<streamsBlocked, available, want, acc, acceptor,
                   unackedStop, flightMax, error>>

-----------------------------------------------------------------------------
(* The acceptor                                                            *)

\* Frames of stream i arrive, in any order and any number of times.
ReceiveStream(i, end) ==
    /\ error = "none" /\ i < next /\ end \in {"open", ended[i]}
    /\ Reads("acceptor")
    /\ IF i >= acc.maxRemote
       THEN error' = "STREAM_LIMIT_ERROR" /\ UNCHANGED acc
       ELSE /\ acc' = QueueMaxStreamId(Received(acc, i, end))
            /\ UNCHANGED error
    /\ UNCHANGED <<openVars, unackedBlocked, acceptor, unackedStop, flightMax,
                   zeroRtt>>

\* The sending half of an accepted stream counts.
CountAccepted(a) == IF Bi THEN [a EXCEPT !.sendStreams = @ + 1] ELSE a

\* Streams::accept from poll_accept
Accept ==
    /\ ~acceptor
    /\ IF acc.nextReported < acc.nextRemote
       THEN /\ acc' = CountAccepted([acc EXCEPT !.nextReported = @ + 1])
            /\ UNCHANGED acceptor
       ELSE acceptor' = TRUE /\ UNCHANGED acc
    /\ UNCHANGED <<openVars, unackedBlocked, unackedStop, flightMax, zeroRtt,
                   error>>

\* poll yields Opened.
PollOpened ==
    /\ acc.opened
    /\ acc' = [acc EXCEPT !.opened = FALSE] /\ acceptor' = FALSE
    /\ UNCHANGED <<openVars, unackedBlocked, unackedStop, flightMax, zeroRtt,
                   error>>

\* Mutant: a read does not announce the streams it frees.
FinalizeQuietly(a) == a

\* The stream ids that Chunks::finalize and received_reset announce
Finalize(a) == QueueMaxStreamId(a)

\* The application reads the end of a stream, or learns that it was reset.
ReadEnd(i) ==
    /\ i < acc.nextReported /\ acc.recv[i] \in {"finished", "reset"}
    /\ acc' = Finalize(RecvFreed(acc, i))
    /\ UNCHANGED <<openVars, unackedBlocked, acceptor, unackedStop, flightMax,
                   zeroRtt, error>>

\* RecvStream::stop.  It frees a stream whose end is known and announces no
\* stream id; unless "StopReset" is in Ops, a reset stream is read instead.
Stop(i) ==
    LET s == acc.recv[i] IN
    /\ i < acc.nextReported /\ s \in {"open", "finished", "reset"}
    /\ "StopReset" \in Ops \/ s # "reset"
    /\ unackedStop' =
           IF s = "reset" THEN unackedStop ELSE unackedStop \cup {i}
    /\ acc' = IF s = "open" THEN [acc EXCEPT !.recv[i] = "stopped"]
              ELSE RecvFreed(acc, i)
    /\ UNCHANGED <<openVars, unackedBlocked, acceptor, flightMax, zeroRtt,
                   error>>

\* The application finishes or resets the sending half, and all of it is
\* acknowledged: received_ack_of and reset_acked.
EndSend(i) ==
    /\ i < acc.nextReported /\ acc.send[i] = "open"
    /\ acc' = QueueMaxStreamId(SendFreed(acc, i))
    /\ UNCHANGED <<openVars, unackedBlocked, acceptor, unackedStop, flightMax,
                   zeroRtt, error>>

\* Connection::set_max_concurrent_streams
SetMaxConcurrentStreams(count) ==
    /\ acc.maxConcurrent # count
    /\ acc' = QueueMaxStreamId(EnsureRemoteStreams(
                  [acc EXCEPT !.maxConcurrent = count, !.adjusted = TRUE]))
    /\ UNCHANGED <<openVars, unackedBlocked, acceptor, unackedStop, flightMax,
                   zeroRtt, error>>

\* zero_rtt_rejected at the acceptor, and its queued frames are discarded
Rejected(a) ==
    [a EXCEPT !.pendMax = FALSE, !.sentMaxRemote = IF a.adjusted THEN 0 ELSE @]

\* The handshake of an acceptor completes.
HandshakeAcceptor ==
    /\ zeroRtt.client = "acceptor"
    /\ IF zeroRtt.fate = "rejected"
       THEN acc' = Rejected(acc) /\ flightMax' = {}
       ELSE UNCHANGED <<acc, flightMax>>
    /\ zeroRtt' = HandshakeDone
    /\ UNCHANGED <<openVars, unackedBlocked, acceptor, unackedStop, error>>

\* A packet arrives at the acceptor with nothing in it for streams: the end of
\* process_payload.
Payload ==
    /\ Reads("acceptor")
    /\ acc' = QueueMaxStreamId(acc)
    /\ UNCHANGED <<openVars, unackedBlocked, acceptor, unackedStop, flightMax,
                   zeroRtt, error>>

\* write_control_frames, MAX_STREAMS
SendMax ==
    /\ acc.pendMax
    /\ acc' = [acc EXCEPT !.pendMax = FALSE, !.sentMaxRemote = acc.maxRemote]
    /\ flightMax' = flightMax \cup {acc.maxRemote}
    /\ UNCHANGED <<openVars, unackedBlocked, acceptor, unackedStop, zeroRtt,
                   error>>

-----------------------------------------------------------------------------
(* The network                                                             *)

\* MAX_STREAMS arrives and the acknowledgement comes back.
MaxArrives(count) ==
    /\ Reads("opener")
    /\ ReceivedMaxStreams(count)
    /\ flightMax' = flightMax \ {count} /\ acc' = QueueMaxStreamId(acc)
    /\ UNCHANGED <<next, want, ended, unackedBlocked, acceptor, unackedStop,
                   zeroRtt, error>>

\* MAX_STREAMS is declared lost, and has or has not arrived.
LoseMax(count, arrived) ==
    /\ flightMax' = flightMax \ {count} /\ acc' = [acc EXCEPT !.pendMax = TRUE]
    /\ IF arrived THEN Reads("opener") /\ ReceivedMaxStreams(count)
                  ELSE UNCHANGED <<max, streamsBlocked, available>>
    /\ UNCHANGED <<next, want, ended, unackedBlocked, acceptor, unackedStop,
                   zeroRtt, error>>

\* STREAMS_BLOCKED arrives, at last; the acceptor does nothing but end
\* process_payload.
BlockedArrives ==
    /\ unackedBlocked /\ Reads("acceptor")
    /\ unackedBlocked' = FALSE /\ acc' = QueueMaxStreamId(acc)
    /\ UNCHANGED <<openVars, acceptor, unackedStop, flightMax, zeroRtt,
                   error>>

\* The acknowledgement of a STOP_SENDING comes back, at last.
StopAcked(i) ==
    /\ i \in unackedStop
    /\ unackedStop' = unackedStop \ {i} /\ acc' = QueueMaxStreamId(acc)
    /\ UNCHANGED <<openVars, unackedBlocked, acceptor, flightMax, zeroRtt,
                   error>>

-----------------------------------------------------------------------------
Streams == 0 .. (MaxStreams - 1)
Ends == {"finished", "reset"}

Next ==
    \/ Open \/ OpenOther \/ PollAvailable \/ SendBlocked
    \/ HandshakeOpener
    \/ \E i \in Streams, how \in Ends : End(i, how)
    \/ \E i \in Streams, end \in Ends \cup {"open"} : ReceiveStream(i, end)
    \/ Accept \/ PollOpened \/ HandshakeAcceptor \/ Payload \/ SendMax
    \/ \E i \in Streams : ReadEnd(i) \/ Stop(i) \/ EndSend(i)
        \/ StopAcked(i)
    \/ \E count \in Counts : SetMaxConcurrentStreams(count)
    \/ \E count \in flightMax :
        MaxArrives(count) \/ \E arrived \in BOOLEAN : LoseMax(count, arrived)
    \/ BlockedArrives

Spec == Init /\ [][Next]_vars

\* What is bound to happen: drivers send and poll, the handshake completes,
\* tasks that are woken run, streams end and are attended to, and what is
\* resent until it is acknowledged arrives once.  After a rejection, when no limit
\* counts as sent, at least HANDSHAKE_DONE arrives.
Drive ==
    \/ SendBlocked \/ PollAvailable \/ PollOpened
    \/ HandshakeOpener \/ HandshakeAcceptor
    \/ (acc.sentMaxRemote < Initial /\ Payload)
Attend ==
    \/ (want = "woken" /\ Open) \/ Accept \/ BlockedArrives
    \/ \E i \in Streams :
        \/ \E how \in Ends :
            \/ End(i, how)
            \/ acc.recv[i] \in {"open", "stopped"} /\ ReceiveStream(i, how)
        \/ ReadEnd(i) \/ (acc.recv[i] # "open" /\ Stop(i))
        \/ EndSend(i) \/ StopAcked(i)

AnyMaxArrives == \E count \in flightMax : MaxArrives(count)

\* MAX_STREAMS may be lost any number of times, but not for ever.
FairSpec ==
    /\ Spec
    /\ WF_vars(Drive) /\ WF_vars(Attend) /\ WF_vars(SendMax)
    /\ SF_vars(AnyMaxArrives)

-----------------------------------------------------------------------------
(* Properties                                                              *)

\* An opener that keeps to `max` is never told STREAM_LIMIT_ERROR by
\* validate_receive_id, whatever was remembered, lost or rejected.
OpenerWithinLimit == error = "none"

Held(i) == acc.recv[i] # "absent" \/ acc.send[i] # "absent"

\* allocated_remote_count is the number of permitted streams that are not fully
\* closed and fills the window; remote_open_streams computes from it how many
\* of them are open.  send_streams is the number of accepted streams whose
\* sending half is in use.
StreamCountsExact ==
    /\ acc.allocated = Cardinality({i \in Index : Held(i)})
    /\ acc.allocated >= acc.maxConcurrent
    /\ acc.nextRemote - (acc.maxRemote - acc.allocated) =
         Cardinality({i \in Index : i < acc.nextRemote /\ Held(i)})
    /\ acc.sendStreams = Cardinality(
         {i \in Index : i < acc.nextReported /\ acc.send[i] # "absent"})

\* A task that waits in open or accept, while there is something to open or to
\* accept, has an event to wake it.
NoLostOpener ==
    /\ want = "waiting" /\ next < max => available
    /\ acceptor /\ acc.nextReported < acc.nextRemote => acc.opened

\* A limit recorded as sent is known to the opener, or on its way, or will be
\* sent again.
LimitNotLost ==
    max < acc.sentMaxRemote /\ Reads("opener") =>
        acc.pendMax \/ acc.sentMaxRemote \in flightMax

\* The opener is within the acceptor's limit, the acceptor's counts are those of
\* its streams, and nobody waits for a limit or a stream of which no event, frame
\* or pending retransmission will tell (validate_receive_id, stream_freed,
\* poll_accept, poll_open, queue_max_stream_id).
LimitsExact ==
    OpenerWithinLimit /\ StreamCountsExact /\ NoLostOpener /\ LimitNotLost

\* As streams end, one who waits for another stream is woken, unless the
\* acceptor wants no streams or the connection failed.
OpenerServed ==
    (want = "waiting" /\ next < MaxStreams)
        ~> (want # "waiting" \/ next = MaxStreams \/ acc.maxConcurrent = 0)
=============================================================================
