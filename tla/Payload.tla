------------------------------ MODULE Payload -------------------------------
(***************************************************************************)
(* The payload of one packet: Connection::populate_packet writes the frames *)
(* that wait, in its order and each after its own check of the space left,  *)
(* PacketBuilder pads the packet, and frame::Iter at the peer reads it.     *)
(* Frames that do not fit keep waiting.                                     *)
(***************************************************************************)
EXTENDS Frames

CONSTANTS
    Rooms,     \* space a packet leaves for frames
    Bases,     \* sample values: the fields of a frame lie just above one of them
    Lengths,   \* sample lengths of data
    PadTo,     \* padding goes up to this size
    CloseCodes \* sample error codes of CONNECTION_CLOSE

VARIABLES
    queued,   \* all the frames that waited before the packet
    todo,     \* frames that wait, in the order of populate_packet
    kept,     \* frames that stay queued after it
    written,  \* frames written to this packet
    wire,     \* the payload
    room,     \* space left for frames
    phase,    \* "write", "read" or "done"
    read,     \* frames the peer read
    cut,      \* some bytes at the end are missing
    err       \* how the peer's reading ended

vars == <<queued, todo, kept, written, wire, room, phase, read, cut, err>>

-----------------------------------------------------------------------------
(* The frames that wait                                                    *)

Sample(layout, base) ==
    LET at(f) == CHOOSE i \in DOMAIN layout.write : layout.write[i] = f
        value(f) == IF Kind(f) = "cid" THEN 8 ELSE base + 5 - at(f)
    IN [layout |-> layout,
        v |-> [f \in ToSet(layout.write) |-> value(f)]]
WithData(layout, base, len) ==
    [Sample(layout, base) EXCEPT !.v = [@ EXCEPT !.data = len]]

Plain ==
    {Ping, HandshakeDone, ImmediateAck, PathChallenge, PathResponse, MaxData,
     MaxStreamData, MaxStreams("Bi"), MaxStreams("Uni"), StreamsBlocked("Bi"),
     StreamsBlocked("Uni"), RetireConnectionId(FALSE), RetireConnectionId(TRUE),
     NewConnectionId(FALSE, 8), NewConnectionId(TRUE, 8), ResetStream,
     StopSending, AckFrequency, AddAddress(FALSE), AddAddress(TRUE),
     RemoveAddress, PathAbandon, PathStatusAvailable, PathStatusBackup,
     MaxPathId, PathsBlocked, PathCidsBlocked}
Sized(base) ==
    {ObservedAddr(v6, base + 4) : v6 \in BOOLEAN}
    \cup {ReachOut(v6, base + 4) : v6 \in BOOLEAN}
Layouts ==
    Plain \cup UNION {Sized(b) : b \in Bases}
    \cup {DataBlocked, StreamDataBlocked, Padding, CloseConnection,
          CloseApplication, Crypto, NewToken(0), Datagram(0)}

\* CRYPTO, NEW_TOKEN and DATAGRAM frames of every sample length
DataFrames ==
    UNION {{WithData(Crypto, b, n) : b \in Bases}
           \cup {WithData(NewToken(n), 0, n), WithData(Datagram(n), 0, n)} :
           n \in Lengths}

AckRanges == {<< <<4, 6>> >>, << <<9, 10>>, <<4, 6>>, <<0, 2>> >>}
Acks ==
    {[layout |-> AckLayout(p, e),
      v |-> [f \in {"ranges", "delay"} \cup (IF p THEN {"path_id"} ELSE {})
                   \cup (IF e THEN {"ect0", "ect1", "ce"} ELSE {}) |->
             CASE f = "ranges" -> r [] f = "delay" -> 70 [] f = "ect0" -> 3
               [] f = "ect1" -> 2 [] OTHER -> 1]] :
     p \in BOOLEAN, e \in BOOLEAN, r \in AckRanges}

\* Data of a stream that waits: sending it cuts it to what fits.
StreamLayout == [ty |-> 8, write |-> <<>>, read |-> <<>>, bound |-> 1 + 8 + 8 + 8]
StreamData ==
    {[layout |-> StreamLayout, v |-> [id |-> b + 1, offset |-> o, data |-> n, fin |-> 1]] :
     b \in Bases, o \in {0, 70}, n \in Lengths}

Closes ==
    {[layout |-> CloseConnection,
      v |-> [error_code |-> c, frame_type |-> 25, reason |-> n]] :
     c \in CloseCodes, n \in Lengths}
    \cup {[layout |-> CloseApplication, v |-> [error_code |-> c, reason |-> n]] :
          c \in CloseCodes, n \in Lengths}

Waiting ==
    {Sample(l, b) : l \in Plain, b \in Bases}
    \cup UNION {{Sample(l, b) : l \in Sized(b)} : b \in Bases}
    \cup DataFrames \cup Acks \cup StreamData

\* The order of populate_packet, by frame type
Order == <<{30}, {1}, {31}, {2, 3, 62, 63}, {175}, {26}, {27},
           {4030354, 4030355}, {15989}, {10453414, 10453415}, {6},
           {15990, 15991}, {15994}, {15995}, {15996}, {4}, {5}, {16}, {17},
           {18, 19}, {22, 23}, {24, 15992}, {25, 15993}, {49}, {7},
           {4030352, 4030353}, {4030356}, {8}, {28, 29}>>
Stage(f) == CHOOSE i \in DOMAIN Order : f.layout.ty \in Order[i]

\* Written without a look at the space: HANDSHAKE_DONE, PING, IMMEDIATE_ACK,
\* ACK and ACK_FREQUENCY.  They come first, and the packet has room for them.
Unchecked(f) == Stage(f) <= 5

EncodedSize(f) ==
    IF f.layout.ty \in {2, 3, 62, 63} THEN Bytes(EncodeAck(f)) ELSE Bytes(Encode(f))

\* At most two frames wait, or one CONNECTION_CLOSE.
Queues ==
    {<<f>> : f \in Waiting \cup Closes}
    \cup {<<f, g>> : f, g \in Waiting}

Init ==
    /\ room \in Rooms
    /\ todo \in {q \in Queues :
                 Len(q) = 2 => Stage(q[1]) <= Stage(q[2])}
    /\ FoldLeft(LAMBDA n, f : n + (IF Unchecked(f) THEN EncodedSize(f) ELSE 0), 0, todo)
           <= room
    /\ queued = todo /\ kept = <<>> /\ written = <<>> /\ wire = <<>> /\ phase = "write"
    /\ read = <<>> /\ cut = FALSE /\ err = "none"

-----------------------------------------------------------------------------
(* populate_packet                                                         *)

\* The check before a frame: strict for most, inclusive for some
Fits(f) ==
    LET s == Stage(f) IN
    CASE s <= 5 -> TRUE
      [] s \in {8, 9, 12, 13, 14, 15, 25, 26, 27} -> f.layout.bound <= room
      [] s = 24 -> room > 1 + 8 /\ f.layout.bound <= room
      [] s = 29 -> CloseConnection.bound < room
      [] OTHER -> room > f.layout.bound

\* SendBuffer::poll_transmit: how much of the data, and whether with a length.
\* Without one the frame fills the packet.
StreamChunk(f) ==
    LET space == room - 1 - VarSize(f.v.id)
                 - (IF f.v.offset # 0 THEN VarSize(f.v.offset) ELSE 0)
        enc == f.v.data < space
        most == IF enc THEN space - 8 ELSE space
    IN [len |-> IF f.v.data < most THEN f.v.data ELSE most, encodeLength |-> enc]

\* The CRYPTO data that fits, with two bytes for its length
CryptoChunk(f) ==
    LET most == room - 1 - VarSize(f.v.offset) - 2
    IN IF f.v.data < most THEN f.v.data ELSE most

PutFrame(items, f, rest) ==
    /\ wire' = wire \o items
    /\ room' = room - Bytes(items)
    /\ written' = Append(written, f)
    /\ UNCHANGED kept
    /\ todo' = rest

\* What stays queued of data of which n bytes are written
Rest(f, n) ==
    IF n = f.v.data THEN <<>>
    ELSE << [f EXCEPT !.v = [@ EXCEPT !.offset = @ + n, !.data = @ - n]] >>

WriteCrypto(f) ==
    LET n == CryptoChunk(f)
        g == WithData(Crypto, 0, n)
        part == [g EXCEPT !.v = [@ EXCEPT !.offset = f.v.offset]]
    IN PutFrame(Encode(part), part, Rest(f, n) \o Tail(todo))

WriteStream(f) ==
    LET c == StreamChunk(f)
        fin == c.len = f.v.data
        part == [f EXCEPT !.v = [@ EXCEPT !.data = c.len, !.fin = IF fin THEN 1 ELSE 0]]
    IN PutFrame(EncodeStream(f.v.id, f.v.offset, fin, c.len, c.encodeLength), part,
            Rest(f, c.len) \o Tail(todo))

WriteClose(f) ==
    LET part == [f EXCEPT !.v = [@ EXCEPT !.reason = ReasonLength(f, room)]]
    IN PutFrame(EncodeClose(f, room), part, Tail(todo))

\* One frame of populate_packet; those of its stage that follow one that does
\* not fit keep waiting too.
WriteFrame ==
    /\ phase = "write" /\ todo # <<>>
    /\ LET f == Head(todo)
           s == Stage(f)
       IN IF ~Fits(f)
          THEN /\ kept' = kept \o SelectSeq(todo, LAMBDA g : Stage(g) = s)
               /\ todo' = SelectSeq(todo, LAMBDA g : Stage(g) # s)
               /\ UNCHANGED <<wire, room, written>>
          ELSE CASE s = 11 -> WriteCrypto(f)
                 [] s = 28 -> WriteStream(f)
                 [] s = 29 -> WriteClose(f)
                 [] s = 4 -> PutFrame(EncodeAck(f), f, Tail(todo))
                 [] OTHER -> PutFrame(Encode(f), f, Tail(todo))
    /\ UNCHANGED <<queued, phase, read, cut, err>>

\* PacketBuilder::finish pads with zeros up to min_size: PADDING frames.
Finish ==
    /\ phase = "write" /\ todo = <<>> /\ wire # <<>>
    /\ LET pad == IF Bytes(wire) < PadTo THEN PadTo - Bytes(wire) ELSE 0
       IN wire' = wire \o [i \in 1 .. pad |-> Var(0)]
    /\ phase' = "read"
    /\ UNCHANGED <<queued, todo, kept, written, room, read, cut, err>>

-----------------------------------------------------------------------------
(* The peer                                                                *)

\* The last item is incomplete: what a faulty peer may send
Truncate ==
    /\ phase = "read" /\ read = <<>> /\ ~cut
    /\ Last(wire).n > 1
    /\ wire' = Append(Front(wire), [Last(wire) EXCEPT !.k = "cut", !.n = @ - 1])
    /\ cut' = TRUE
    /\ UNCHANGED <<queued, todo, kept, written, room, phase, read, err>>

\* What Iter::try_next reads after the type
FieldsOf(ty) == (CHOOSE l \in Layouts : l.ty = ty).read

\* Iter::next; the payload is done when it is empty or corrupt.
ReadFrame ==
    /\ phase = "read"
    /\ IF wire = <<>> THEN phase' = "done" /\ UNCHANGED <<wire, read, err>>
       ELSE LET r == Next1(wire, FieldsOf) IN
            /\ wire' = r.rest
            /\ err' = r.err
            /\ phase' = IF r.err = "none" THEN "read" ELSE "done"
            /\ read' = IF r.err # "none" \/ r.ty = 0 THEN read
                       ELSE Append(read, [ty |-> r.ty, v |-> r.v])
    /\ UNCHANGED <<queued, todo, kept, written, room, cut>>

Next == WriteFrame \/ Finish \/ Truncate \/ ReadFrame

Spec == Init /\ [][Next]_vars

-----------------------------------------------------------------------------
(* Properties                                                              *)

\* What the peer should have read of a frame
ValuesOf(f) ==
    LET ty == f.layout.ty
        path == IF "path_id" \in DOMAIN f.v THEN <<f.v.path_id>> ELSE <<>>
        ecn == IF "ect0" \in DOMAIN f.v THEN <<f.v.ect0, f.v.ect1, f.v.ce>> ELSE <<>>
    IN CASE ty \in {2, 3, 62, 63} -> <<f.v.ranges, f.v.delay>> \o path \o ecn
         [] ty = 8 -> <<f.v.id, f.v.offset, f.v.data, f.v.fin>>
         [] ty = 28 -> <<f.v.error_code, f.v.frame_type, f.v.reason>>
         [] ty = 29 -> <<f.v.error_code, f.v.reason>>
         [] OTHER -> [i \in DOMAIN f.layout.write |-> f.v[f.layout.write[i]]]
SameFrame(r, f) ==
    /\ r.ty = f.layout.ty \/ (f.layout.ty = 8 /\ r.ty \in 8 .. 15)
    /\ r.v = ValuesOf(f)

\* A payload that arrives whole is read without an error, as exactly the frames
\* that were written, in their order: encoders and decoders agree, a STREAM
\* frame without a length is the last, and padding is not taken for data.
PayloadIntact ==
    /\ \A i \in DOMAIN read : ~cut =>
           i <= Len(written) /\ SameFrame(read[i], written[i])
    /\ phase = "done" /\ ~cut => err = "none" /\ Len(read) = Len(written)

\* The checks against SIZE_BOUND and size() suffice: the frames never take more
\* than the space of the packet, where writing on would panic.
SpaceRespected == room >= 0

\* Nothing that waits is lost: the data of CRYPTO and STREAM frames, and the
\* frames of the other kinds, are in the packet or still queued, also when a
\* frame is cut to the space left.
Amount(q) ==
    FoldLeft(LAMBDA n, f : n + (IF f.layout.ty \in {6, 8} THEN f.v.data ELSE 1), 0, q)
NothingDropped == Amount(queued) = Amount(written) + Amount(kept) + Amount(todo)
=============================================================================
