------------------------------- MODULE MCData -------------------------------
(***************************************************************************)
(* How data is written, kept and handed on, for TLC: the frames of a packet, *)
(* the packets of a datagram and the transport parameters are written and    *)
(* read back; ranges, stream data and datagrams are buffered.  These share   *)
(* no state: interleaving their steps would show nothing, so in each         *)
(* behaviour one of them moves.                                              *)
(***************************************************************************)
EXTENDS Naturals, Sequences

CONSTANTS
    Rooms, Bases, Lengths, PadTo, CloseCodes,
    ByteBits, TagLen, SampleSize, MaxNumber, Payloads, Tokens, Deviations

VARIABLES
    part,   \* which one moves
    queued, todo, kept, room, cut,
    plan, dgram, grease,
    side, mine, order, got, seen, fault,
    written, wire, phase, read, err,
    ranges, last,
    ordered, recvd, data, buffered, allocated, bytesRead, end, open, received,
    returned,
    outgoing, outgoing_total, send_blocked, incoming, recv_buffered, mtu, events,
    futures

frames == <<queued, todo, kept, room, cut>>
packets == <<plan, dgram, grease>>
params == <<side, mine, order, got, seen, fault>>
wireVars == <<frames, packets, params, written, wire, phase, read, err>>
rangeVars == <<ranges, last>>
assemblerVars ==
    <<ordered, recvd, data, buffered, allocated, bytesRead, end, open, received,
      returned>>
datagramVars ==
    <<outgoing, outgoing_total, send_blocked, incoming, recv_buffered, mtu, events,
      futures>>
bufferVars == <<rangeVars, assemblerVars, datagramVars>>
vars == <<part, wireVars, bufferVars>>

F == INSTANCE Payload
P == INSTANCE Packets
T == INSTANCE TransportParams

MaxValue == 5
R == INSTANCE RangeSet

\* Four bytes in up to three buffers; data is defragmented from three bytes of
\* over-allocation on.
A == INSTANCE Assembler WITH
    MaxOffset <- 4, MaxBuffers <- 3, Slack <- {0, 3}, MinOverAlloc <- 3,
    Ops <- {"Unordered", "Clear"}

\* Two tasks; datagrams of a byte, and of a size that the
\* smaller MTU does not carry.
D == INSTANCE Datagrams WITH
    Tasks <- {"a", "b"}, Lengths <- {1, 4}, SendBuffer <- 5, Window <- 5,
    MinMtu <- 4, MaxMtu <- 7, SizeBound <- 2, Header <- 1, MaxQueued <- 3

ASSUME AssemblerAssumption == A!BoundsAssumption

Unused == "unused"
FramesUnused == queued = Unused /\ todo = Unused /\ kept = Unused /\ room = Unused /\ cut = Unused
PacketsUnused == plan = Unused /\ dgram = Unused /\ grease = Unused
ParamsUnused ==
    /\ side = Unused /\ mine = Unused /\ order = Unused
    /\ got = Unused /\ seen = Unused /\ fault = Unused

WireUnused ==
    /\ FramesUnused /\ PacketsUnused /\ ParamsUnused /\ written = Unused
    /\ wire = Unused /\ phase = Unused /\ read = Unused /\ err = Unused

BuffersInit == R!Init /\ A!Init /\ D!Init

Init ==
    \/ part = "frames" /\ F!Init /\ PacketsUnused /\ ParamsUnused /\ BuffersInit
    \/ /\ part = "packets" /\ P!Init /\ FramesUnused /\ ParamsUnused
       /\ wire = Unused /\ BuffersInit
    \/ /\ part = "params" /\ T!Init /\ FramesUnused /\ PacketsUnused
       /\ written = Unused /\ read = Unused /\ BuffersInit
    \/ part \in {"ranges", "assembler", "datagrams"} /\ WireUnused /\ BuffersInit

Next ==
    \/ part = "frames" /\ F!Next /\ UNCHANGED <<part, packets, params, bufferVars>>
    \/ part = "packets" /\ P!Next /\ UNCHANGED <<part, frames, params, wire, bufferVars>>
    \/ part = "params" /\ T!Next
       /\ UNCHANGED <<part, frames, packets, written, read, bufferVars>>
    \/ part = "ranges" /\ R!Next
       /\ UNCHANGED <<part, wireVars, assemblerVars, datagramVars>>
    \/ part = "assembler" /\ A!Next
       /\ UNCHANGED <<part, wireVars, rangeVars, datagramVars>>
    \/ part = "datagrams" /\ D!Next
       /\ UNCHANGED <<part, wireVars, rangeVars, assemblerVars>>

Spec == Init /\ [][Next]_vars

-----------------------------------------------------------------------------

(* Properties: those of the modules, each about its own behaviours.        *)

\* Payload: what the peer reads is what was written, frame by frame and to the
\* end; frames never take more than the space the packet has, although each is
\* checked against a bound of its own; and what does not fit into the packet, or
\* only in part, stays queued (populate_packet, frame::Iter).
PayloadIntact ==
    part = "frames" => F!PayloadIntact /\ F!SpaceRespected /\ F!NothingDropped

\* Packets: every packet of a coalesced datagram is read back with its number,
\* token and payload, padding included (PartialDecode after PacketBuilder).
DatagramIntact == part = "packets" => P!DatagramIntact

\* TransportParams: legal parameters are read as they were written whatever
\* their order, and illegal, repeated or cut ones are refused, but for a repeated
\* grease_quic_bit or min_ack_delay, which the code takes.
ParamsIntact == part = "params" => T!ParamsIntact

Abstract == INSTANCE OffsetSet WITH set <- R!Union(ranges)

\* RangeSet: an ArrayRangeSet is a set of offsets: insert and remove change
\* exactly the offsets they are given and tell whether any changed, pop_min
\* takes the first maximal run, and iter_range lists exactly what there is of a
\* range, for what it omits is new data to the Assembler; the array is canonical,
\* as the encoding of ACK ranges needs.
ImplementsOffsetSet ==
    /\ Abstract!Init
    /\ [][part = "ranges" => [Abstract!Next]_(Abstract!vars)]_vars
    /\ [](part = "ranges" => R!Canonical /\ R!IterRangeExact)

\* Assembler: bytes are returned once and, by ordered reads, in order; one at or
\* beyond bytes_read that was received and not returned is there to be read, however
\* duplicates were trimmed and buffers defragmented (that is each of them while reads
\* are ordered; for the others see NothingLost); the counters are those of the heap;
\* and while reads are ordered, new data leaves no more memory allocated than is in
\* proportion to what is buffered.
AssembledExactly ==
    /\ [](part = "assembler" =>
            /\ A!ReturnedOnce /\ A!ReturnedInOrder
            /\ A!NothingAheadLost /\ A!CountersExact)
    /\ [][part = "assembler" /\ ordered /\ received' # received /\ Len(data') # 0
            => A!AllocInProportion']_vars

\* Datagrams: no task sleeps on a datagram future without an event to wake it
\* or a datagram whose departure will, and the queues' totals are exact, so that
\* no subtraction underflows (DatagramState, SendDatagram, ReadDatagram).
NoLostDatagramWait ==
    part = "datagrams" => D!NoLostDatagramWait /\ D!DatagramTotals
=============================================================================
