---------------------------- MODULE MCReceiving ----------------------------
(***************************************************************************)
(* The receiving half of the streams for TLC, in behaviours of two kinds: a *)
(* stream with small windows that ends in every way, and a receive window   *)
(* that is changed while a peer ignores the limits.  They are two instances *)
(* of RecvStreams that share no state: in each behaviour one of them moves. *)
(***************************************************************************)
EXTENDS RecvStreams, TLC

CONSTANT r1     \* the stream of the second instance

VARIABLES
    cheated,    \* the behaviour is that of the second instance
    rstate2, size2, end2, stopped2, ordered2, buf2, got2, sentMaxStream2,
    dataRecvd2, localMaxData2, sentMaxData2, receiveWindow2, shrinkDebt2,
    readable2, error2, pendMaxData2, pendMaxStream2, pendStop2, flightData2,
    flightStream2, flightStop2, idle2, peerEnd2, peerFin2, peerReset2,
    peerStopped2, peerMaxData2, peerMaxStream2

vars2 ==
    <<rstate2, size2, end2, stopped2, ordered2, buf2, got2, sentMaxStream2,
      dataRecvd2, localMaxData2, sentMaxData2, receiveWindow2, shrinkDebt2,
      readable2, error2, pendMaxData2, pendMaxStream2, pendStop2, flightData2,
      flightStream2, flightStop2, idle2, peerEnd2, peerFin2, peerReset2,
      peerStopped2, peerMaxData2, peerMaxStream2>>

\* A stream of two bytes, with a window of 0 to 2 bytes; limits end at 3.
R == INSTANCE RecvStreams WITH
    Streams <- {r1}, MaxOffset <- 2, StreamWindow <- 2, InitWindow <- 1,
    Windows <- {0, 2}, MaxLocal <- 3, Fraction <- 1, VarIntMax <- 3,
    Ops <- {"Window", "Cheat", "Finish", "Stop", "Reset", "Unordered", "Ordered"},
    rstate <- rstate2, size <- size2, end <- end2, stopped <- stopped2,
    ordered <- ordered2, buf <- buf2, got <- got2,
    sentMaxStream <- sentMaxStream2, dataRecvd <- dataRecvd2,
    localMaxData <- localMaxData2, sentMaxData <- sentMaxData2,
    receiveWindow <- receiveWindow2, shrinkDebt <- shrinkDebt2,
    readable <- readable2, error <- error2, pendMaxData <- pendMaxData2,
    pendMaxStream <- pendMaxStream2, pendStop <- pendStop2,
    flightData <- flightData2, flightStream <- flightStream2,
    flightStop <- flightStop2, idle <- idle2, peerEnd <- peerEnd2,
    peerFin <- peerFin2, peerReset <- peerReset2, peerStopped <- peerStopped2,
    peerMaxData <- peerMaxData2, peerMaxStream <- peerMaxStream2

MCInit == cheated \in BOOLEAN /\ Init /\ R!Init

MCNext ==
    \/ ~cheated /\ Next /\ UNCHANGED <<cheated, vars2>>
    \/ cheated /\ R!Next /\ UNCHANGED <<cheated, vars>>

\* The fairness of FairSpec
MCSpec ==
    /\ MCInit /\ [][MCNext]_<<cheated, vars, vars2>>
    /\ WF_vars(~cheated /\ SendMaxData) /\ SF_vars(~cheated /\ AnyMaxDataAcked)
    /\ \A s \in Streams :
        /\ WF_vars(~cheated /\ SendMaxStream(s))
        /\ SF_vars(~cheated /\ AnyMaxStreamAcked(s))
        /\ WF_vars(~cheated /\ SendStop(s)) /\ SF_vars(~cheated /\ StopAcked(s))
        /\ WF_vars(~cheated /\ PollReadable(s)) /\ WF_vars(~cheated /\ Reads(s))
        /\ WF_vars(~cheated /\ PeerWrite(s)) /\ WF_vars(~cheated /\ AnswersStop(s))
        /\ SF_vars(~cheated /\ Arrives(s)) /\ SF_vars(~cheated /\ ReceiveReset(s))

-----------------------------------------------------------------------------
(* Properties: those of RecvStreams keep their names; the others are about   *)
(* the second instance.                                                     *)

\* The credit of a byte is returned once, by whichever of read, stop, late data on a
\* stopped stream and reset comes first; only what had arrived unread on a stream
\* that was both stopped and reset is returned twice, and no more than that.  A peer
\* that ignores its limits is refused before it has more unread bytes outstanding
\* than the window and those bytes, however the window was changed (RecvStream::read,
\* RecvStream::stop, received, received_reset, set_receive_window,
\* credit_consumed_by).
WindowKept == R!CreditAccounted /\ R!WindowRespected

\* Receiving makes progress: the peer is let send all of a stream, and a stopped
\* stream is freed (write_control_frames, stop, received_reset).
ReceiversServed == ~cheated => StreamsFinish
=============================================================================
