------------------------------ MODULE Packets -------------------------------
(***************************************************************************)
(* One datagram of coalesced packets (packet.rs, packet_builder.rs): headers *)
(* with truncated packet numbers and a length that is filled in afterwards,  *)
(* the padding that header protection needs, and PartialDecode at the peer,  *)
(* which cuts the datagram into packets again and expands the numbers.       *)
(* Encryption leaves sizes alone apart from the tag and is left out.         *)
(***************************************************************************)
EXTENDS Frames

CONSTANTS
    ByteBits,    \* bits of a packet number per byte: 8 in the code
    TagLen,      \* of the AEAD
    SampleSize,  \* of the header protection
    MaxNumber,   \* largest packet number of the samples
    Payloads,    \* sample sizes of payloads
    Tokens       \* sample sizes of tokens

VARIABLES
    plan,     \* packets to write, with what the peer received before
    dgram,    \* the datagram, as items
    written,
    grease,   \* the peer advertised grease_quic_bit
    phase,    \* "write", "read" or "done"
    read,
    err       \* why reading ended

vars == <<plan, dgram, written, grease, phase, read, err>>

LongKinds == {"Initial", "ZeroRtt", "Handshake"}
Numbered == LongKinds \cup {"Short"}
NoNumber == -1

-----------------------------------------------------------------------------
(* Packet numbers                                                          *)

\* Mutant: the distance to the acknowledged packet is not doubled.
NumberLenNarrow(n, largestAcked) ==
    LET range == n - largestAcked
    IN IF range < 2^ByteBits THEN 1 ELSE IF range < 2^(2 * ByteBits) THEN 2
       ELSE IF range < 2^(3 * ByteBits) THEN 3 ELSE 4
\* PacketNumber::new: the bytes of a number; a larger range panics.
NumberLen(n, largestAcked) ==
    LET range == (n - largestAcked) * 2
    IN IF range < 2^ByteBits THEN 1 ELSE IF range < 2^(2 * ByteBits) THEN 2
       ELSE IF range < 2^(3 * ByteBits) THEN 3 ELSE 4

Truncated(n, len) == n % 2^(ByteBits * len)

\* PacketNumber::expand
Expand(truncated, len, expected) ==
    LET win == 2^(ByteBits * len)
        hwin == win \div 2
        candidate == (expected - (expected % win)) + truncated
    IN IF expected >= hwin /\ candidate <= expected - hwin THEN candidate + win
       ELSE IF candidate > expected + hwin /\ candidate > win THEN candidate - win
       ELSE candidate

\* decrypt_packet_body: the number after the largest received one
Expected(largestReceived) == largestReceived + 1

-----------------------------------------------------------------------------
(* Writing                                                                 *)

\* The first byte; fixed may be flipped when the peer allows it.
First(p, fixed, tag) ==
    Fixed("first", 1, [long |-> p.kind # "Short", kind |-> p.kind, fixed |-> fixed,
                       tag |-> tag])

\* Header::encode.  The length is a placeholder of two bytes.
Header(p, fixed) ==
    LET numLen == IF p.kind \in Numbered THEN NumberLen(p.number, p.acked) ELSE 0
        num == IF numLen = 0 THEN <<>>
               ELSE <<Fixed("pn", numLen, Truncated(p.number, numLen))>>
        cids == Put("cid", p.dcid) \o Put("cid", p.scid)
        long == <<First(p, fixed, numLen), Fixed("u32", 4, p.version)>> \o cids
    IN CASE p.kind = "Initial" ->
                long \o <<Var(p.token)>> \o Raw(p.token) \o <<Fixed("var", 2, 0)>> \o num
         [] p.kind \in {"ZeroRtt", "Handshake"} -> long \o <<Fixed("var", 2, 0)>> \o num
         [] p.kind \in {"Retry", "VersionNegotiate"} -> long
         [] p.kind = "Short" -> <<First(p, fixed, numLen)>> \o Raw(p.dcid) \o num

SatSub(a, b) == IF a < b THEN 0 ELSE a - b
Larger(a, b) == IF a < b THEN b ELSE a

\* PacketBuilder::new: where the frames must reach to
MinSize(start, header, p) ==
    Larger(start + Bytes(header)
               + SatSub(SampleSize + 4, NumberLen(p.number, p.acked) + TagLen),
           start + p.dcid + 6)

\* PartialEncode::finish: the number, the payload and the tag count.
SetLength(header, len) ==
    [i \in DOMAIN header |->
        IF i = Len(header) - 1 THEN [header[i] EXCEPT !.v = len] ELSE header[i]]

\* PacketBuilder::new, the frames, PacketBuilder::finish
Build(start, p, fixed) ==
    LET header == Header(p, fixed)
        end == start + Bytes(header) + p.payload
        body == Larger(end, MinSize(start, header, p)) - start - Bytes(header) + TagLen
        numLen == NumberLen(p.number, p.acked)
    IN IF p.kind \notin Numbered THEN header \o Raw(p.payload)
       ELSE IF p.kind = "Short" THEN header \o Raw(body)
       ELSE SetLength(header, body + numLen) \o Raw(body)

Packet(kind, number, acked, received, payload, token) ==
    [kind |-> kind, number |-> number, acked |-> acked, received |-> received,
     payload |-> payload, token |-> token, dcid |-> 8, scid |-> 8,
     version |-> IF kind = "VersionNegotiate" THEN 0 ELSE 1]

\* Numbers as they can be: the peer has received what it acknowledged, and the
\* largest packet it received may be a later one.
Numbers ==
    {t \in (0 .. MaxNumber) \X (0 .. MaxNumber) \X (-1 .. MaxNumber) :
        /\ t[2] < t[1] \/ t[2] = 0
        /\ t[2] > 0 => t[3] >= t[2]
        /\ t[1] # t[3] /\ t[3] < t[1] + 2^ByteBits}

Sequences1 ==
    {<<"Initial">>, <<"Short">>, <<"Retry">>, <<"VersionNegotiate">>,
     <<"Initial", "ZeroRtt">>, <<"Initial", "Handshake">>, <<"Handshake", "Short">>,
     <<"Initial", "Handshake", "Short">>}

Init ==
    /\ \/ \E t \in Numbers : plan = <<Packet("Short", t[1], t[2], t[3], 1, 0)>>
       \/ \E s \in Sequences1, sizes \in [1 .. 2 -> Payloads], token \in Tokens,
            v \in {1, 2}, cid \in {0, 8} :
              plan = [i \in DOMAIN s |->
                  [Packet(s[i], 1, 0, -1, sizes[1 + (i % 2)], token) EXCEPT
                      !.dcid = cid,
                      !.version = IF s[i] = "VersionNegotiate" THEN 0 ELSE v]]
    /\ grease \in BOOLEAN
    /\ dgram = <<>> /\ written = <<>> /\ phase = "write" /\ read = <<>> /\ err = "none"

\* The next packet of the datagram.  Only a long packet lets another follow.
WritePacket ==
    /\ phase = "write" /\ plan # <<>>
    /\ \E fixed \in (IF grease THEN BOOLEAN ELSE {TRUE}) :
           dgram' = dgram \o Build(Bytes(dgram), Head(plan), fixed)
    /\ written' = Append(written, Head(plan))
    /\ plan' = Tail(plan)
    /\ UNCHANGED <<grease, phase, read, err>>

SendDatagram ==
    /\ phase = "write" /\ plan = <<>>
    /\ phase' = "read"
    /\ UNCHANGED <<plan, dgram, written, grease, read, err>>

-----------------------------------------------------------------------------
(* Reading                                                                 *)

\* The first n bytes of the items, and the others; a number of bytes that ends
\* inside an item stands for a misread datagram.
SplitAt(items, n) ==
    LET here == {i \in 0 .. Len(items) : Bytes(SubSeq(items, 1, i)) = n}
    IN IF here = {} THEN [ok |-> FALSE, first |-> items, rest |-> <<>>]
       ELSE LET i == CHOOSE i \in here : \A j \in here : j <= i
            IN [ok |-> TRUE, first |-> SubSeq(items, 1, i),
                rest |-> SubSeq(items, i + 1, Len(items))]

\* ConnectionId::decode_long
GetCid(r) ==
    LET c == Get(r, "u8")
    IN IF c.err # "none" THEN c
       ELSE IF Last(c.v) > MAX_CID_SIZE THEN Fails(c, "malformed") ELSE TakeLen(c)

\* FixedLengthConnectionIdParser; the endpoint's ids have the length it sent.
GetFixedCid(r, len) ==
    IF r.err # "none" \/ len = 0 THEN r
    ELSE IF Bytes(r.rest) < len THEN Fails(r, "malformed")
    ELSE IF Head(r.rest).n # len THEN Fails(r, "misread")
    ELSE [r EXCEPT !.rest = Tail(@)]

\* ProtectedHeader::decode: what is known before decryption.  The values read
\* are the first byte, the version, the ids, the token and the length.
DecodeHeader(items, cidLen) ==
    LET r == Get(Reader(items), "first")
        first == r.v[1]
        v == Get(r, "u32")
        c == GetCid(GetCid(v))
        token == TakeLen(Get(c, "var"))
    IN IF r.err # "none" THEN r
       ELSE IF ~grease /\ ~first.fixed THEN Fails(r, "fixed bit unset")
       ELSE IF ~first.long THEN GetFixedCid(r, cidLen)
       ELSE IF c.err # "none" \/ v.v[2] = 0 THEN c
       ELSE IF v.v[2] # 1 THEN Fails(c, "unsupported version")
       ELSE CASE first.kind = "Initial" -> Get(token, "var")
              [] first.kind = "Retry" -> c
              [] OTHER -> Get(c, "var")

\* PartialDecode::new: the packet with header h, and the rest of the datagram
Cut(items, h, headerLen) ==
    LET len == IF h.err = "none" /\ h.v[1].kind \in LongKinds
               THEN headerLen + Last(h.v) ELSE Bytes(items)
        parts == SplitAt(items, len)
    IN IF h.err # "none" THEN [h |-> h, first |-> <<>>, rest |-> <<>>, pos |-> 0]
       ELSE IF Bytes(items) < len
       THEN [h |-> Fails(h, "too short"), first |-> <<>>, rest |-> <<>>, pos |-> 0]
       ELSE [h |-> IF parts.ok THEN h ELSE Fails(h, "misread"),
             first |-> parts.first, rest |-> parts.rest, pos |-> headerLen]
PartialDecode(items, h) == Cut(items, h, Bytes(items) - Bytes(h.rest))
Decode(items, cidLen) == PartialDecode(items, DecodeHeader(items, cidLen))

\* PartialDecode::finish and decrypt_header: the number follows the header.
Finish(d, received) ==
    LET kind == d.h.v[1].kind
        body == SplitAt(d.first, d.pos).rest
        num == IF kind \in Numbered THEN Head(body) ELSE [k |-> "none", n |-> 0, v |-> 0]
        token == IF kind = "Initial" THEN d.h.v[5] ELSE 0
        payload == IF kind \in Numbered THEN Bytes(body) - num.n - TagLen ELSE Bytes(body)
    IN IF kind \in Numbered /\ Bytes(d.first) < d.pos + 4 + SampleSize
       THEN [err |-> "no sample"]
       ELSE IF kind \in Numbered /\ (num.k # "pn" \/ num.n # d.h.v[1].tag)
       THEN [err |-> "misread"]
       ELSE [err |-> "none", kind |-> kind, token |-> token, payload |-> payload,
             number |-> IF kind \in Numbered
                        THEN Expand(num.v, num.n, Expected(received)) ELSE NoNumber]

\* handle_coalesced takes the next packet d, decrypted as p
Take(d, p) ==
    LET why == IF d.h.err # "none" THEN d.h.err ELSE p.err
    IN /\ err' = why
       /\ dgram' = d.rest
       /\ read' = IF why = "none" THEN Append(read, p) ELSE read
       /\ phase' = IF d.rest = <<>> \/ why # "none" THEN "done" ELSE "read"
       /\ UNCHANGED <<plan, written, grease>>
Decrypt(d, received) == Take(d, Finish(d, received))
ReadPacket ==
    /\ phase = "read"
    /\ LET sent == written[Len(read) + 1]
       IN Decrypt(Decode(dgram, sent.dcid), sent.received)

Next == WritePacket \/ SendDatagram \/ ReadPacket

Spec == Init /\ [][Next]_vars

-----------------------------------------------------------------------------
(* Properties                                                              *)

\* The window in which a truncated number is unambiguous
InWindow(p) ==
    Expected(p.received) - p.number < 2^(ByteBits * NumberLen(p.number, p.acked)) \div 2

\* Every packet of a datagram is read as it was written, with its whole packet
\* number however far the acknowledgements and the packets received before lag
\* or lead within the window, its token and at least its payload; each is long
\* enough for the sample of header protection; and only a version that is not
\* supported makes reading stop.
DatagramIntact ==
    /\ \A i \in DOMAIN read :
           LET p == written[i] IN
           /\ read[i].kind = p.kind
           /\ p.kind = "Initial" => read[i].token = p.token
           /\ read[i].payload >= p.payload
           /\ p.kind \in Numbered /\ InWindow(p) => read[i].number = p.number
    /\ phase = "done" =>
           \/ err = "none" /\ Len(read) = Len(written)
           \/ err = "unsupported version" /\ \E i \in DOMAIN written : written[i].version = 2
=============================================================================
