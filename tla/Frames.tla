------------------------------- MODULE Frames -------------------------------
(***************************************************************************)
(* The wire format of QUIC frames (frame.rs, varint.rs, coding.rs): how     *)
(* every frame is encoded, how many bytes its encoder claims to need, and   *)
(* how frame::Iter reads it back.  Bytes are grouped into the items that    *)
(* are written and read as one: an integer, an address, a run of payload.   *)
(* A payload is its length.                                                 *)
(***************************************************************************)
EXTENDS Integers, Sequences, SequencesExt, FiniteSets

\* VarInt::size.  TLC's integers end below 2^62, so the longest form stands
\* for every value from 2^30 on.
VarSize(x) ==
    IF x < 2^6 THEN 1 ELSE IF x < 2^14 THEN 2 ELSE IF x < 2^30 THEN 4 ELSE 8

MAX_CID_SIZE == 20
RESET_TOKEN_SIZE == 16

\* What is on the wire: n bytes that hold v, written as a kind k of value
Var(x) == [k |-> "var", n |-> VarSize(x), v |-> x]
Fixed(k, n, x) == [k |-> k, n |-> n, v |-> x]
Raw(n) == IF n = 0 THEN <<>> ELSE <<Fixed("raw", n, n)>>

\* The kinds of value other than a VarInt that frames hold
Kind(field) ==
    CASE field = "token" -> "u64"
      [] field = "port" -> "u16"
      [] field = "ip4" -> "ip4"
      [] field = "ip6" -> "ip6"
      [] field = "cid" -> "cid"
      [] field = "reset_token" -> "reset"
      [] field \in {"data", "reason"} -> "bytes"
      [] OTHER -> "var"

Width == [u8 |-> 1, u16 |-> 2, u64 |-> 8, ip4 |-> 4, ip6 |-> 16,
          reset |-> RESET_TOKEN_SIZE]

\* Encodable::encode of one field
Put(k, x) ==
    CASE k = "var" -> <<Var(x)>>
      [] k = "bytes" -> <<Var(x)>> \o Raw(x)
      [] k = "cid" -> <<Fixed("u8", 1, x)>> \o Raw(x)
      [] OTHER -> <<Fixed(k, Width[k], x)>>

Bytes(items) == FoldLeft(LAMBDA n, i : n + i.n, 0, items)

-----------------------------------------------------------------------------
(* The frames: type, fields in the order they are written and in the order *)
(* they are read, and the size the encoder claims (0 where none is)         *)

Signal(ty) == [ty |-> ty, write |-> <<>>, read |-> <<>>, bound |-> VarSize(ty)]

Padding == Signal(0)
Ping == Signal(1)
HandshakeDone == Signal(30)
ImmediateAck == Signal(31)

Challenge(ty) == [ty |-> ty, write |-> <<"token">>, read |-> <<"token">>, bound |-> 9]
PathChallenge == Challenge(26)
PathResponse == Challenge(27)

DataBlocked == [ty |-> 20, write |-> <<"offset">>, read |-> <<"offset">>, bound |-> 9]
StreamDataBlocked ==
    [ty |-> 21, write |-> <<"id", "offset">>, read |-> <<"id", "offset">>, bound |-> 17]
StreamsBlocked(dir) ==
    [ty |-> IF dir = "Bi" THEN 22 ELSE 23,
     write |-> <<"limit">>, read |-> <<"limit">>, bound |-> 9]

\* write_control_frames reserves 9 bytes for MAX_DATA and MAX_STREAMS and 17
\* for MAX_STREAM_DATA.
MaxData == [ty |-> 16, write |-> <<"offset">>, read |-> <<"offset">>, bound |-> 9]
MaxStreamData ==
    [ty |-> 17, write |-> <<"id", "offset">>, read |-> <<"id", "offset">>, bound |-> 17]
MaxStreams(dir) ==
    [ty |-> IF dir = "Bi" THEN 18 ELSE 19,
     write |-> <<"count">>, read |-> <<"count">>, bound |-> 9]

\* size_bound: a path id is a u32, up to 8 bytes as a VarInt.
RetireConnectionId(path) ==
    LET fs == IF path THEN <<"path_id", "sequence">> ELSE <<"sequence">>
        ty == IF path THEN 15993 ELSE 25
    IN [ty |-> ty, write |-> fs, read |-> fs,
        bound |-> VarSize(ty) + 8 + (IF path THEN 8 ELSE 0)]

\* The bound is size_bound with the length of the ids in use.
NewConnectionId(path, cidLen) ==
    LET fs == (IF path THEN <<"path_id">> ELSE <<>>)
              \o <<"sequence", "retire_prior_to", "cid", "reset_token">>
        ty == IF path THEN 15992 ELSE 24
    IN [ty |-> ty, write |-> fs, read |-> fs,
        bound |-> VarSize(ty) + (IF path THEN 8 ELSE 0) + 8 + 8 + 1 + cidLen
                  + RESET_TOKEN_SIZE]

ResetStream ==
    [ty |-> 4, write |-> <<"id", "error_code", "final_offset">>,
     read |-> <<"id", "error_code", "final_offset">>, bound |-> 1 + 8 + 8 + 8]
StopSending ==
    [ty |-> 5, write |-> <<"id", "error_code">>, read |-> <<"id", "error_code">>,
     bound |-> 1 + 8 + 8]

AckFrequency ==
    LET fs == <<"sequence", "ack_eliciting_threshold", "request_max_ack_delay",
                "reordering_threshold">>
    IN [ty |-> 175, write |-> fs, read |-> fs, bound |-> 2 + 8 + 8 + 8 + 8]

\* OBSERVED_ADDRESS, ADD_ADDRESS and REACH_OUT in the forms of both families;
\* the size is computed from the frame.
AddressFrame(ty4, v6, number, size) ==
    LET fs == <<number, IF v6 THEN "ip6" ELSE "ip4", "port">>
        ty == IF v6 THEN ty4 + 1 ELSE ty4
    IN [ty |-> ty, write |-> fs, read |-> fs,
        bound |-> VarSize(ty) + size + (IF v6 THEN 16 ELSE 4) + 2]
ObservedAddr(v6, seq) == AddressFrame(10453414, v6, "seq_no", VarSize(seq))
AddAddress(v6) == AddressFrame(4030352, v6, "seq_no", 8)
ReachOut(v6, round) == AddressFrame(4030354, v6, "round", VarSize(round))
RemoveAddress ==
    [ty |-> 4030356, write |-> <<"seq_no">>, read |-> <<"seq_no">>,
     bound |-> VarSize(4030356) + 8]

PathAbandon ==
    [ty |-> 15989, write |-> <<"path_id", "error_code">>,
     read |-> <<"path_id", "error_code">>, bound |-> 2 + 8 + 8]
PathStatusAvailable ==
    [ty |-> 15991, write |-> <<"path_id", "status_seq_no">>,
     read |-> <<"path_id", "status_seq_no">>, bound |-> 2 + 8 + 8]
\* The writer checks the bound of PATH_STATUS_AVAILABLE for both.
PathStatusBackup == [PathStatusAvailable EXCEPT !.ty = 15990]
MaxPathId ==
    [ty |-> 15994, write |-> <<"path_id">>, read |-> <<"path_id">>, bound |-> 2 + 8]
PathsBlocked ==
    [ty |-> 15995, write |-> <<"path_id">>, read |-> <<"path_id">>, bound |-> 2 + 8]
PathCidsBlocked ==
    [ty |-> 15996, write |-> <<"path_id", "next_seq">>,
     read |-> <<"path_id", "next_seq">>, bound |-> 2 + 8 + 8]

\* Data frames.  The size of a NEW_TOKEN or DATAGRAM is computed from its data.
Crypto == [ty |-> 6, write |-> <<"offset", "data">>, read |-> <<"offset", "data">>,
           bound |-> 17]
NewToken(len) == [ty |-> 7, write |-> <<"data">>, read |-> <<"data">>,
                  bound |-> 1 + VarSize(len) + len]
Datagram(len) == [ty |-> 49, write |-> <<"data">>, read |-> <<"data">>,
                  bound |-> 1 + VarSize(len) + len]

-----------------------------------------------------------------------------
(* Encoding                                                                *)

\* A frame is its layout and its fields.
Encode(f) ==
    FoldLeft(LAMBDA items, field : items \o Put(Kind(field), f.v[field]),
             <<Var(f.layout.ty)>>, f.layout.write)

\* ConnectionClose::encode and ApplicationClose::encode: the reason is cut to
\* what is left of maxLen, counting 3 bytes for the type and the error code.
CloseConnection == [ty |-> 28, write |-> <<>>, bound |-> 1 + 8 + 8 + 8,
                    read |-> <<"error_code", "frame_type", "reason">>]
CloseApplication == [ty |-> 29, write |-> <<>>, bound |-> 1 + 8 + 8,
                     read |-> <<"error_code", "reason">>]
ReasonLength(f, maxLen) ==
    LET used == 3 + VarSize(f.v.reason)
                + (IF f.layout.ty = 28 THEN VarSize(f.v.frame_type) ELSE 0)
        left == maxLen - used
    IN IF f.v.reason < left THEN f.v.reason ELSE left
EncodeClose(f, maxLen) ==
    <<Var(f.layout.ty), Var(f.v.error_code)>>
    \o (IF f.layout.ty = 28 THEN <<Var(f.v.frame_type)>> ELSE <<>>)
    \o Put("bytes", ReasonLength(f, maxLen))

\* Ack and PathAck; ranges <<start, end>> from the largest to the smallest
AckLayout(path, ecn) ==
    [ty |-> (IF path THEN 62 ELSE 2) + (IF ecn THEN 1 ELSE 0),
     write |-> <<>>, read |-> <<>>, bound |-> 0]
\* Mutant: a gap is written without the one that it holds at least.
AckBlockWide(ranges, i) ==
    <<Var(ranges[i - 1][1] - ranges[i][2]), Var(ranges[i][2] - ranges[i][1] - 1)>>
AckBlock(ranges, i) ==
    <<Var(ranges[i - 1][1] - ranges[i][2] - 1),
      Var(ranges[i][2] - ranges[i][1] - 1)>>
EncodeAck(f) ==
    LET r == f.v.ranges
        blocks == [i \in 1 .. Len(r) - 1 |-> AckBlock(r, i + 1)]
    IN <<Var(f.layout.ty)>>
       \o (IF "path_id" \in DOMAIN f.v THEN <<Var(f.v.path_id)>> ELSE <<>>)
       \o <<Var(r[1][2] - 1), Var(f.v.delay), Var(Len(r) - 1),
            Var(r[1][2] - r[1][1] - 1)>>
       \o FlattenSeq(blocks)
       \o (IF "ect0" \in DOMAIN f.v
           THEN <<Var(f.v.ect0), Var(f.v.ect1), Var(f.v.ce)>> ELSE <<>>)

\* StreamMeta::get_type and StreamMetaEncoder::encode, followed by the data
StreamBits(off, len, fin) ==
    8 + (IF off THEN 4 ELSE 0) + (IF len THEN 2 ELSE 0) + (IF fin THEN 1 ELSE 0)
EncodeStream(id, offset, fin, len, encodeLength) ==
    <<Var(StreamBits(offset # 0, encodeLength, fin)), Var(id)>>
    \o (IF offset # 0 THEN <<Var(offset)>> ELSE <<>>)
    \o (IF encodeLength THEN <<Var(len)>> ELSE <<>>) \o Raw(len)

-----------------------------------------------------------------------------
(* Decoding.  A reader is what was read so far, what is left and an error.  *)

Reader(items) == [v |-> <<>>, rest |-> items, err |-> "none"]
Fails(r, why) == [r EXCEPT !.err = why]

\* A number or an address: UnexpectedEnd without enough bytes.  "misread"
\* stands for bytes that were written as something else.
Get(r, k) ==
    IF r.err # "none" THEN r
    ELSE IF r.rest = <<>> \/ Head(r.rest).k = "cut" THEN Fails(r, "end")
    ELSE IF Head(r.rest).k # k THEN Fails(r, "misread")
    ELSE [r EXCEPT !.v = Append(@, Head(r.rest).v), !.rest = Tail(@)]

\* The bytes that were announced by the number read last
TakeLen(r) ==
    LET len == Last(r.v) IN
    IF r.err # "none" \/ len = 0 THEN r
    ELSE IF len > Bytes(r.rest) THEN Fails(r, "end")
    ELSE IF Head(r.rest).k # "raw" \/ Head(r.rest).n # len THEN Fails(r, "misread")
    ELSE [r EXCEPT !.rest = Tail(@)]

\* The checks of NewConnectionId::read between its fields
CidCheck(r, field) ==
    LET n == Len(r.v) IN
    IF r.err # "none" THEN r
    ELSE IF field = "retire_prior_to" /\ r.v[n] > r.v[n - 1] THEN Fails(r, "malformed")
    ELSE IF field = "cid" /\ (r.v[n] > MAX_CID_SIZE \/ r.v[n] = 0)
         THEN Fails(r, "malformed")
    ELSE r

\* Decodable::decode of one field
GetField(r, field) ==
    LET k == Kind(field) IN
    CASE k = "bytes" -> TakeLen(Get(r, "var"))
      [] k = "cid" -> TakeLen(CidCheck(Get(r, "u8"), field))
      [] OTHER -> CidCheck(Get(r, k), field)

\* read_ack_blocks, one block: its size was read into r1 and the gap before the
\* next block into r2.  checked_sub fails where the result is below zero.
Block(st, i, r1, r2) ==
    LET start == st.largest - Last(r1.v)
        next == st.largest - (Last(r2.v) + 1 + Last(r1.v) + 1)
    IN IF r1.err # "none" THEN [st EXCEPT !.r = r1]
       ELSE IF start < 0 THEN [st EXCEPT !.r = Fails(r1, "malformed")]
       ELSE IF i = st.blocks
       THEN [st EXCEPT !.r = r1, !.ranges = Append(@, <<start, st.largest + 1>>)]
       ELSE IF r2.err # "none" THEN [st EXCEPT !.r = r2]
       ELSE IF next < 0 THEN [st EXCEPT !.r = Fails(r2, "malformed")]
       ELSE [st EXCEPT !.r = r2, !.largest = next,
                       !.ranges = Append(@, <<start, st.largest + 1>>)]
ReadBlock(st, i) == Block(st, i, Get(st.r, "var"), Get(Get(st.r, "var"), "var"))

\* All blocks, of which c read the number last
Blocks(c, largest) ==
    IF c.err # "none" THEN [r |-> c, ranges |-> <<>>]
    ELSE FoldLeft(ReadBlock,
                  [r |-> c, largest |-> largest, blocks |-> Last(c.v), ranges |-> <<>>],
                  [i \in 1 .. Last(c.v) + 1 |-> i - 1])
ReadAckBlocks(r, largest) == Blocks(Get(r, "var"), largest)

\* The arms of Iter::try_next for the acknowledgements: the path id, the largest
\* number and the delay were read into d, then the blocks b and the ECN counts e
AckFrame(d, b, e, path, ecn) ==
    IF d.err # "none" THEN d ELSE IF e.err # "none" THEN e
    ELSE [e EXCEPT !.v = <<b.ranges, d.v[Len(d.v)]>>
                         \o (IF path THEN <<d.v[1]>> ELSE <<>>)
                         \o (IF ecn THEN SubSeq(e.v, Len(e.v) - 2, Len(e.v))
                             ELSE <<>>)]
AckBlocks(d, b, path, ecn) ==
    AckFrame(d, b, IF ecn THEN Get(Get(Get(b.r, "var"), "var"), "var") ELSE b.r, path, ecn)
AckHeader(d, path, ecn) ==
    AckBlocks(d, ReadAckBlocks(d, d.v[Len(d.v) - 1]), path, ecn)
ReadAck(r, path, ecn) ==
    AckHeader(Get(Get(IF path THEN Get(r, "var") ELSE r, "var"), "var"), path, ecn)

\* The arms for STREAM: without a length the frame takes all that remains.
ReadStream(r, ty) ==
    LET bit(b) == (ty \div b) % 2 = 1
        i == Get(r, "var")
        o == IF bit(4) THEN Get(i, "var") ELSE [i EXCEPT !.v = Append(@, 0)]
        l == IF bit(2) THEN TakeLen(Get(o, "var"))
             ELSE [o EXCEPT !.v = Append(@, Bytes(o.rest)), !.rest = <<>>]
    IN [l EXCEPT !.v = Append(@, IF bit(1) THEN 1 ELSE 0)]

\* Iter::next: the next frame or an error, after which nothing is read.
\* fields gives the reading order of a type, <<>> for those without fields.
ReadFields(r, ty, fields(_)) ==
    IF ty \in {2, 3} THEN ReadAck(r, FALSE, ty = 3)
    ELSE IF ty \in {62, 63} THEN ReadAck(r, TRUE, ty = 63)
    ELSE IF ty \in 8 .. 15 THEN ReadStream(r, ty)
    ELSE FoldLeft(GetField, r, fields(ty))
Frame(ty, r) ==
    [ty |-> ty, v |-> r.v, err |-> r.err,
     rest |-> IF r.err = "none" THEN r.rest ELSE <<>>]
Typed(t, fields(_)) ==
    IF t.err # "none" THEN Frame(0, t)
    ELSE Frame(Last(t.v), ReadFields([t EXCEPT !.v = <<>>], Last(t.v), fields))
Next1(items, fields(_)) == Typed(Get(Reader(items), "var"), fields)
=============================================================================
