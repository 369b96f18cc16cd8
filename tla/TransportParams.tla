--------------------------- MODULE TransportParams ---------------------------
(***************************************************************************)
(* Transport parameters (transport_parameters.rs, address_discovery.rs): one *)
(* side writes those that differ from their defaults, in a random order and  *)
(* with a reserved one among them; the other reads them one by one, refuses  *)
(* what is malformed or illegal, and takes over what both can do.            *)
(***************************************************************************)
EXTENDS Frames

CONSTANTS
    Deviations   \* how many parameters differ from their default

VARIABLES
    side,     \* of the reader
    mine,     \* the parameters of the writer
    order,    \* those to write, in the shuffled order
    wire,     \* items
    got,      \* parameters read so far
    seen,     \* integer parameters read so far
    phase,    \* "write", "read", "done"
    fault,    \* what a faulty writer did: "none", "twice" or "cut"
    err

vars == <<side, mine, order, wire, got, seen, phase, fault, err>>

None == -1

\* apply_params!: the integer parameters and their defaults
IntDefault ==
    [max_idle_timeout |-> 0, max_udp_payload_size |-> 65527, initial_max_data |-> 0,
     initial_max_stream_data_bidi_local |-> 0, initial_max_stream_data_bidi_remote |-> 0,
     initial_max_stream_data_uni |-> 0, initial_max_streams_bidi |-> 0,
     initial_max_streams_uni |-> 0, ack_delay_exponent |-> 3, max_ack_delay |-> 25,
     active_connection_id_limit |-> 2]
Ints == DOMAIN IntDefault
Cids == {"original_dst_cid", "initial_src_cid", "retry_src_cid"}
Flags == {"disable_active_migration", "grease_quic_bit"}
Options == {"max_datagram_frame_size", "min_ack_delay", "initial_max_path_id"}
Other == {"stateless_reset_token", "preferred_address", "address_discovery_role",
          "max_remote_nat_traversal_addresses"}
Names == Ints \cup Cids \cup Flags \cup Options \cup Other

\* TransportParameters::default; a flag is 0 or 1
Default ==
    [n \in Names |-> IF n \in Ints THEN IntDefault[n] ELSE IF n \in Flags THEN 0 ELSE None]

\* 2^60, the limit on streams, is beyond TLC's integers: it is scaled down.
MAX_STREAM_COUNT == 2^20

\* Values at the limits of what is legal and beyond
Values(n) ==
    CASE n = "max_udp_payload_size" -> {1199, 1200}
      [] n = "ack_delay_exponent" -> {20, 21}
      [] n = "max_ack_delay" -> {0, 2^14 - 1, 2^14}
      [] n = "active_connection_id_limit" -> {1, 5}
      [] n \in {"initial_max_streams_bidi", "initial_max_streams_uni"} ->
            {MAX_STREAM_COUNT, MAX_STREAM_COUNT + 1}
      [] n \in Ints -> {63, 2^30}
      [] n \in Cids -> {0, 8}
      [] n \in Flags -> {1}
      [] n = "min_ack_delay" -> {0, 25000, 25001}
      [] n \in Options -> {0, 2^14}
      [] n = "preferred_address" -> {0, 8}    \* the length of its connection id
      [] n = "address_discovery_role" -> {0, 2}
      [] n = "max_remote_nat_traversal_addresses" -> {1, 255}
      [] OTHER -> {1}

-----------------------------------------------------------------------------
(* Writing                                                                 *)

\* The identifier of a parameter, the length of its value and the value
Param(name, len, body) == <<[k |-> "var", n |-> 1, v |-> name], Var(len)>> \o body

\* PreferredAddress::wire_size and write
WireSize(cidLen) == 4 + 2 + 16 + 2 + 1 + cidLen + 16
PreferredAddress(cidLen) ==
    <<Fixed("ip4", 4, 1), Fixed("u16", 2, 1), Fixed("ip6", 16, 1), Fixed("u16", 2, 1)>>
    \o Put("cid", cidLen) \o <<Fixed("reset", 16, 1)>>

\* TransportParameters::write, one parameter
Write(n, x) ==
    CASE n \in Ints \cup Options \cup {"address_discovery_role"} ->
            Param(n, VarSize(x), <<Var(x)>>)
      [] n \in Flags -> Param(n, 0, <<>>)
      [] n \in Cids -> Param(n, x, Raw(x))
      [] n = "stateless_reset_token" -> Param(n, 16, <<Fixed("reset", 16, x)>>)
      [] n = "preferred_address" -> Param(n, WireSize(x), PreferredAddress(x))
      [] n = "max_remote_nat_traversal_addresses" -> Param(n, 1, <<Fixed("u8", 1, x)>>)

\* ReservedTransportParameter::write
Reserved(len) == Param("reserved", len, Raw(len))

Init ==
    /\ side \in {"Client", "Server"}
    /\ order \in {s \in UNION {[1 .. k -> Names] : k \in 0 .. Deviations} :
                    \A i, j \in DOMAIN s : s[i] = s[j] => i = j}
    /\ \E xs \in UNION {[DOMAIN order -> UNION {Values(n) : n \in Names}]} :
           /\ \A i \in DOMAIN order : xs[i] \in Values(order[i])
           /\ mine = [n \in Names |->
                        IF n \in ToSet(order)
                        THEN xs[CHOOSE i \in DOMAIN order : order[i] = n]
                        ELSE Default[n]]
    /\ wire = <<>> /\ got = Default /\ seen = {} /\ phase = "write"
    /\ fault = "none" /\ err = "none"

WriteParam ==
    /\ phase = "write" /\ order # <<>>
    /\ wire' = wire \o Write(Head(order), mine[Head(order)])
    /\ order' = Tail(order)
    /\ UNCHANGED <<side, mine, got, seen, phase, fault, err>>

\* The reserved parameter, and the parameters go out; a faulty writer repeats
\* the first one or leaves the end out.
Send ==
    /\ phase = "write" /\ order = <<>>
    /\ \E len \in {0, 15}, f \in {"none", "twice", "cut"} :
           /\ f = "cut" => wire # <<>> /\ Last(wire).n > 1
           /\ wire' = CASE f = "none" -> Reserved(len) \o wire
                        [] f = "twice" -> wire \o wire
                        [] f = "cut" -> Append(Front(wire),
                                               [Last(wire) EXCEPT !.k = "cut", !.n = @ - 1])
           /\ fault' = f
    /\ phase' = "read"
    /\ UNCHANGED <<side, mine, order, got, seen, err>>

-----------------------------------------------------------------------------
(* Reading                                                                 *)

\* Mutant: min_ack_delay is compared without a change of units.
LegalUnits(p) ==
    /\ p.ack_delay_exponent <= 20 /\ p.max_ack_delay < 2^14
    /\ p.active_connection_id_limit >= 2 /\ p.max_udp_payload_size >= 1200
    /\ p.initial_max_streams_bidi <= MAX_STREAM_COUNT
    /\ p.initial_max_streams_uni <= MAX_STREAM_COUNT
    /\ p.min_ack_delay # None => p.min_ack_delay <= p.max_ack_delay
    /\ side = "Server" =>
           \A n \in {"original_dst_cid", "preferred_address", "retry_src_cid",
                     "stateless_reset_token"} : p[n] = None
    /\ p.preferred_address # 0
\* The semantic validation at the end of read
Legal(p) ==
    /\ p.ack_delay_exponent <= 20 /\ p.max_ack_delay < 2^14
    /\ p.active_connection_id_limit >= 2 /\ p.max_udp_payload_size >= 1200
    /\ p.initial_max_streams_bidi <= MAX_STREAM_COUNT
    /\ p.initial_max_streams_uni <= MAX_STREAM_COUNT
    /\ p.min_ack_delay # None => p.min_ack_delay <= p.max_ack_delay * 1000
    /\ side = "Server" =>
           \A n \in {"original_dst_cid", "preferred_address", "retry_src_cid",
                     "stateless_reset_token"} : p[n] = None
    /\ p.preferred_address # 0

\* PreferredAddress::read takes the id's length from inside the value.
GetPreferred(r) ==
    LET fixed == Get(Get(Get(Get(r, "ip4"), "u16"), "ip6"), "u16")
        c == Get(fixed, "u8")
        t == Get(TakeLen(c), "reset")
    IN IF c.err # "none" THEN c ELSE IF t.err # "none" THEN t
       ELSE [t EXCEPT !.v = SubSeq(c.v, 1, Len(c.v))]

\* Parameters that may not come twice although they are no integers
Unique == (Cids \cup Options \cup Other \cup {"disable_active_migration"}) \ {"min_ack_delay"}

\* One round of the loop of TransportParameters::read
ReadOne(r0) ==
    LET r == Get(Get(r0, "var"), "var")
        name == r.v[1]
        len == r.v[2]
        twice == \/ name \in Unique /\ got[name] # Default[name]
                 \/ name \in seen
        skip == IF len = 0 THEN r ELSE TakeLen(r)
        value == CASE name \in Flags -> IF len = 0 THEN [r EXCEPT !.v = Append(@, 1)]
                                        ELSE Fails(r, "malformed")
                   [] name \in Cids -> IF len > MAX_CID_SIZE THEN Fails(r, "malformed")
                                       ELSE TakeLen(r)
                   [] name = "stateless_reset_token" ->
                        IF len # 16 THEN Fails(r, "malformed") ELSE Get(r, "reset")
                   [] name = "preferred_address" -> GetPreferred(r)
                   [] name = "max_remote_nat_traversal_addresses" ->
                        IF len # 1 THEN Fails(r, "malformed") ELSE Get(r, "u8")
                   [] OTHER -> Get(r, "var")
        checked == IF value.err = "none"
                      /\ name \in Ints \cup {"address_discovery_role", "initial_max_path_id"}
                      /\ len # VarSize(Last(value.v))
                   THEN Fails(value, "malformed") ELSE value
    IN IF r.err # "none" THEN r
       ELSE IF Bytes(r.rest) < len THEN Fails(r, "malformed")
       ELSE IF name = "reserved" THEN [skip EXCEPT !.v = <<name, len>>]
       ELSE IF twice THEN Fails(r, "malformed")
       ELSE IF checked.err = "none" /\ name = "max_remote_nat_traversal_addresses"
               /\ Last(checked.v) = 0 THEN Fails(checked, "illegal")
       ELSE checked

ReadParam ==
    /\ phase = "read" /\ wire # <<>>
    /\ LET r == ReadOne(Reader(wire))
           name == r.v[1]
       IN IF r.err # "none"
          THEN /\ err' = r.err /\ phase' = "done"
               /\ UNCHANGED <<got, seen, wire>>
          ELSE /\ wire' = r.rest
               /\ got' = IF name \in Names THEN [got EXCEPT ![name] = Last(r.v)] ELSE got
               /\ seen' = seen \cup ({name} \cap Ints)
               /\ UNCHANGED <<err, phase>>
    /\ UNCHANGED <<side, mine, order, fault>>

Validate ==
    /\ phase = "read" /\ wire = <<>>
    /\ err' = IF Legal(got) THEN "none" ELSE "illegal"
    /\ phase' = "done"
    /\ UNCHANGED <<side, mine, order, wire, got, seen, fault>>

Next == WriteParam \/ Send \/ ReadParam \/ Validate

Spec == Init /\ [][Next]_vars

-----------------------------------------------------------------------------
(* Properties                                                              *)

\* The limits of RFC 9000, stated over what the writer meant
LegalMine ==
    /\ mine.ack_delay_exponent \in 0 .. 20
    /\ mine.max_ack_delay < 16384
    /\ mine.active_connection_id_limit >= 2
    /\ mine.max_udp_payload_size >= 1200
    /\ \A n \in {"initial_max_streams_bidi", "initial_max_streams_uni"} :
           mine[n] <= MAX_STREAM_COUNT
    /\ mine.min_ack_delay \div 1000 <= mine.max_ack_delay
    /\ mine.min_ack_delay = mine.max_ack_delay * 1000
           \/ mine.min_ack_delay < mine.max_ack_delay * 1000
    /\ mine.preferred_address # 0
    /\ side = "Server" =>
           {n \in {"original_dst_cid", "preferred_address", "retry_src_cid",
                   "stateless_reset_token"} : mine[n] # None} = {}

\* What an honest writer sends is read as exactly its parameters, whatever the
\* order and however long the reserved one, and accepted if and only if they
\* are legal; the end that is missing is noticed; and a parameter that comes
\* twice is refused, but for the two the reader does not check.
ParamsIntact ==
    phase = "done" =>
        /\ fault = "none" => (err = "none" <=> LegalMine)
        /\ fault = "none" /\ err = "none" => got = mine
        /\ fault = "cut" => err # "none"
        /\ fault = "twice" /\ err = "none" =>
               \A n \in Names \ {"grease_quic_bit", "min_ack_delay"} : mine[n] = Default[n]
=============================================================================
