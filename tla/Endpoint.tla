------------------------------- MODULE Endpoint -------------------------------
(***************************************************************************)
(* The endpoint of noq-proto: which datagram belongs to which connection.   *)
(*                                                                          *)
(* The connections and the index are two views of the same facts, kept      *)
(* apart: a connection's entry says what it owns (local ids per path, the   *)
(* initial id, the address, reset tokens), the index says who owns an id,   *)
(* an address or a token.  Events of connections reach the endpoint late    *)
(* and in order, handles are reused, and a connection attempt waits in a    *)
(* buffer of its own until the application has decided about it.            *)
(***************************************************************************)
EXTENDS Naturals, Sequences, FiniteSets, FiniteSetsExt, Functions

CONSTANTS
    Handles,      \* keys of the slab of connections
    Slots,        \* keys of the slab of incoming buffers
    Remotes,      \* peer addresses
    InitCids,     \* ids clients choose for their first packet
    Paths,        \* path ids, 0 included
    MaxIssued,    \* bound: ids issued for one path of a connection
    MaxEvents,    \* bound: events under way to the endpoint
    MaxIncoming, BufferSize, BufferTotal,   \* limits of ServerConfig
    Workloads,    \* bound: what may happen in one behaviour: types of events,
                  \* slots and remotes in use, the number of ids the generator
                  \* can produce (0: zero-length ids), a preferred address,
                  \* sizes of stray datagrams
    AnyTime,      \* whether the server configuration is removed at any time
    AfterDrained  \* whether a connection asks for ids after it has drained, as
                  \* issue_first_path_cids does when the limit of paths is raised then

VARIABLES
    conns,    \* Endpoint.connections: what each connection owns
    index,    \* ConnectionIndex
    buffers,  \* Endpoint.incoming_buffers, with the Incoming the application holds
    leaked,   \* ids of connections whose session could not be started
    total,    \* Endpoint.all_incoming_buffers_total_bytes
    events,   \* endpoint events under way, oldest first
    workload, \* what happens in this behaviour, a member of Workloads
    quiet,    \* less than min_reset_interval since last_stateless_reset
    serving,  \* whether there is a server_config
    panicked  \* an unwrap, an index or a debug assertion has failed

vars == <<conns, index, leaked, buffers, total, events, workload, quiet, serving, panicked>>

Empty == 0                      \* the zero-length connection id
CidSpace == workload.space
Cids == 1..CidSpace
Preferred == workload.preferred
Lengths == 1..BufferSize

Put(map, key, value) == [k \in DOMAIN map \cup {key} |-> IF k = key THEN value ELSE map[k]]
Drop(map, keys) == Restrict(map, DOMAIN map \ keys)
NoMap == [k \in {} |-> 0]
LocalCids(meta) == UNION {{meta.cids[p][s] : s \in DOMAIN meta.cids[p]} : p \in Paths}

Init ==
    /\ conns = NoMap
    /\ index = [ids |-> NoMap, initial |-> NoMap, ins |-> NoMap, outs |-> NoMap, resets |-> NoMap]
    /\ leaked = {}
    /\ buffers = NoMap
    /\ total = 0
    /\ events = <<>>
    /\ workload \in Workloads
    /\ quiet = FALSE
    /\ serving = TRUE
    /\ panicked = FALSE

-----------------------------------------------------------------------------
(* ConnectionIndex.                                                         *)

InsertInitial(ix, dst, to) ==
    IF dst = Empty THEN ix ELSE [ix EXCEPT !.initial = Put(@, dst, to)]

RemoveInitial(ix, dst) ==
    IF dst = Empty THEN ix ELSE [ix EXCEPT !.initial = Drop(@, {dst})]

\* The debug assertion of remove_initial.
InitialKnown(ix, dst) == dst = Empty \/ dst \in DOMAIN ix.initial

\* A zero-length id: the address tells the connections apart.  The 4-tuples of
\* incoming connections have no local address, like those of outgoing ones.
InsertConn(ix, remote, cid, h, side) ==
    IF cid # Empty THEN [ix EXCEPT !.ids = Put(@, cid, <<h, 0>>)]
    ELSE IF side = "server" THEN [ix EXCEPT !.ins = Put(@, remote, h)]
    ELSE [ix EXCEPT !.outs = Put(@, remote, h)]

Remove(ix, meta) ==
    [(IF meta.side = "server" THEN RemoveInitial(ix, meta.init) ELSE ix) EXCEPT
        !.ids = Drop(@, LocalCids(meta)),
        !.ins = Drop(@, {meta.remote}),
        !.outs = Drop(@, {meta.remote}),
        !.resets = Drop(@, Range(meta.tokens))]

\* ConnectionIndex::get: where a datagram goes.  `tail` is what its last
\* sixteen bytes are as a reset token.
Route(ix, kind, dst, remote, tail) ==
    IF dst \in DOMAIN ix.ids THEN <<"connection", ix.ids[dst][1]>>
    ELSE IF kind \in {"initial", "0rtt"} /\ dst \in DOMAIN ix.initial THEN ix.initial[dst]
    ELSE IF dst = Empty /\ remote \in DOMAIN ix.ins THEN <<"connection", ix.ins[remote]>>
    ELSE IF dst = Empty /\ remote \in DOMAIN ix.outs THEN <<"connection", ix.outs[remote]>>
    ELSE IF <<remote, tail>> \in DOMAIN ix.resets THEN <<"connection", ix.resets[<<remote, tail>>]>>
    ELSE <<"nowhere">>

-----------------------------------------------------------------------------
(* Connection ids.                                                          *)

Free(ix) == Cids \ DOMAIN ix.ids

\* new_cid: an id nobody has.  The generator is tried until one is found; the
\* guards of its callers say what happens when there is none.
NewCid(ix) == IF CidSpace = 0 THEN Empty ELSE Min(Free(ix))
HasCid(ix, n) == CidSpace = 0 \/ Cardinality(Free(ix)) >= n

\* cids_exhausted: a quarter of the space stays unused by new connections.
CidsExhausted(ix) == CidSpace # 0 /\ Cardinality(DOMAIN ix.ids) > CidSpace - (CidSpace \div 4)

\* send_new_identifiers, for one identifier of a path.
SendNewIdentifier(h, p) ==
    LET cid == NewCid(index)
        issued == conns[h].issued[p]
    IN  /\ index' = [index EXCEPT !.ids = Put(@, cid, <<h, p>>)]
        /\ conns' = [conns EXCEPT ![h].cids[p] = Put(@, issued, cid), ![h].issued[p] = @ + 1]

\* add_connection: what is kept about a connection, from the ids it starts with.
Meta(side, init, remote, cids) ==
    [side |-> side, init |-> init, remote |-> remote, open |-> TRUE,
     cids |-> [p \in Paths |-> IF p = 0 THEN [s \in 0..Len(cids) - 1 |-> cids[s + 1]] ELSE NoMap],
     issued |-> [p \in Paths |-> IF p = 0 THEN Len(cids) ELSE 0],
     tokens |-> NoMap, shared |-> FALSE]

\* Connections without ids that have one remote at the same time share it.
Fellows(remote) == {g \in DOMAIN conns : CidSpace = 0 /\ conns[g].remote = remote}
Marked(remote) == [g \in DOMAIN conns |->
    IF g \in Fellows(remote) THEN [conns[g] EXCEPT !.shared = TRUE] ELSE conns[g]]
Added(h, meta) ==
    Put(Marked(meta.remote), h, [meta EXCEPT !.shared = Fellows(meta.remote) # {}])

-----------------------------------------------------------------------------
(* Connecting.                                                              *)

Connect(h, remote) ==
    /\ ~CidsExhausted(index)
    /\ h \notin DOMAIN conns
    /\ HasCid(index, 1)
    /\ LET cid == NewCid(index) IN
       /\ conns' = Added(h, Meta("client", Empty, remote, <<cid>>))
       /\ index' = InsertConn(index, remote, cid, h, "client")
    /\ UNCHANGED <<buffers, total, events, leaked, workload, quiet, serving, panicked>>

\* A server name the cryptographic layer refuses: the id is in the index already
\* and stays there.  Bound: once.
ConnectRefused(h) ==
    /\ ~CidsExhausted(index)
    /\ h \notin DOMAIN conns
    /\ CidSpace # 0 /\ HasCid(index, 1)
    /\ leaked = {}
    /\ leaked' = {NewCid(index)}
    /\ index' = InsertConn(index, 0, NewCid(index), h, "client")
    /\ UNCHANGED <<conns, buffers, total, events, workload, quiet, serving, panicked>>

-----------------------------------------------------------------------------
(* Datagrams.                                                               *)

\* How many bytes all buffers hold once `size` more are accepted.
Counted(size) == total + size

Fits(i, size) ==
    /\ buffers[i].bytes + size <= BufferSize
    /\ total + size <= BufferTotal

\* A datagram for a connection attempt the application has not decided about:
\* kept if both limits allow it, dropped otherwise.
HandleIncoming(dst, size) ==
    /\ dst \in DOMAIN index.initial /\ dst \notin DOMAIN index.ids
    /\ LET i == index.initial[dst][2] IN
       /\ index.initial[dst][1] = "incoming"
       /\ IF i \notin DOMAIN buffers \/ ~serving
          THEN panicked' = TRUE /\ UNCHANGED <<buffers, total>>
          ELSE /\ Fits(i, size)
               /\ buffers' = [buffers EXCEPT ![i].bytes = @ + size]
               /\ total' = Counted(size)
               /\ UNCHANGED panicked
    /\ UNCHANGED <<conns, index, events, leaked, workload, quiet, serving>>

\* handle_first_packet: an Initial nobody claims.  The id is the client's, or
\* one of ours from a Retry, which may be empty if the packet has a token;
\* `token` is what from_header made of the token.
HandleFirstPacket(i, dst, remote, token) ==
    /\ serving
    /\ dst = Empty => CidSpace = 0
    /\ Route(index, "initial", dst, remote, <<Empty, Empty>>) = <<"nowhere">>
    /\ ~CidsExhausted(index)
    /\ Cardinality(DOMAIN buffers) < MaxIncoming
    /\ i \in workload.slots
    /\ i \notin DOMAIN buffers
    /\ buffers' = Put(buffers, i, [dst |-> dst, remote |-> remote, token |-> token, bytes |-> 0])
    /\ index' = InsertInitial(index, dst, <<"incoming", i>>)
    /\ UNCHANGED <<conns, total, events, leaked, workload, quiet, serving, panicked>>

\* stateless_reset: a datagram for a connection nobody knows is answered with
\* the token of its id after some padding, smaller than the datagram itself.
\* A range to choose the padding from that is empty would panic, as would the
\* debug assertion on the size.
ResetTokenSize == 16
MinPadding == 5
IdealPadding == MinPadding + 20

Paddings(size) ==
    LET most == size - ResetTokenSize - 1 IN
    IF most <= IdealPadding THEN {most} ELSE IdealPadding..most - 1

StatelessReset(dst, remote, size) ==
    /\ Route(index, "short", dst, remote, <<Empty, Empty>>) = <<"nowhere">>
    /\ ~quiet
    /\ size > ResetTokenSize + MinPadding
    /\ quiet' = TRUE
    /\ panicked' = (panicked \/ Paddings(size) = {} \/ \E n \in Paddings(size) : n + ResetTokenSize >= size)
    /\ UNCHANGED <<conns, index, leaked, buffers, total, events, workload, serving>>

ResetIntervalOver ==
    /\ quiet
    /\ quiet' = FALSE
    /\ UNCHANGED <<conns, index, leaked, buffers, total, events, workload, serving, panicked>>

\* set_server_config
SetServerConfig ==
    /\ workload.slots # {}
    /\ AnyTime \/ buffers = NoMap
    /\ serving' = ~serving
    /\ UNCHANGED <<conns, index, buffers, total, events, leaked, workload, quiet, panicked>>

-----------------------------------------------------------------------------
(* What the application does with an Incoming.                              *)

\* clean_up_incoming
CleanUp(i) ==
    /\ index' = RemoveInitial(index, buffers[i].dst)
    /\ panicked' = (panicked \/ ~InitialKnown(index, buffers[i].dst))
    /\ buffers' = Drop(buffers, {i})
    /\ total' = total - buffers[i].bytes

\* refuse, ignore and retry; the last needs the configuration's key and a
\* client that has not been told to retry before.
Refuse(i) ==
    /\ CleanUp(i)
    /\ UNCHANGED <<conns, events, leaked, workload, quiet, serving>>

Retry(i) ==
    /\ buffers[i].token # "retry"
    /\ IF serving
       THEN CleanUp(i)
       ELSE /\ panicked' = TRUE
            /\ index' = RemoveInitial(index, buffers[i].dst)
            /\ buffers' = Drop(buffers, {i})
            /\ total' = total - buffers[i].bytes
    /\ UNCHANGED <<conns, events, leaked, workload, quiet, serving>>

\* accept, when the packet is too old, no ids are left or it cannot be decrypted.
AcceptRefused(i) ==
    /\ CleanUp(i)
    /\ UNCHANGED <<conns, events, leaked, workload, quiet, serving>>

\* The ids a new server connection starts with, the preferred address's included.
FirstCids ==
    IF CidSpace = 0 THEN <<Empty>>
    ELSE LET one == NewCid(index) IN
         IF Preferred THEN <<one, Min(Free(index) \ {one})>> ELSE <<one>>

\* accept: the buffer is emptied into the new connection; if its first packet
\* cannot be processed the connection is drained at once.
Accept(i, h, works) ==
    /\ serving
    /\ ~CidsExhausted(index)
    /\ h \notin DOMAIN conns
    /\ HasCid(index, IF Preferred THEN 2 ELSE 1)
    /\ LET b == buffers[i]
           cids == FirstCids
           meta == Meta("server", b.dst, b.remote, cids)
           routed == [index EXCEPT !.ids = IF CidSpace = 0 THEN @
                        ELSE [c \in DOMAIN @ \cup Range(cids) |-> IF c \in Range(cids) THEN <<h, 0>> ELSE @[c]]]
           added == InsertInitial(InsertConn(routed, b.remote, cids[1], h, "server"),
                                  b.dst, <<"connection", h>>)
       IN  /\ buffers' = Drop(buffers, {i})
           /\ total' = total - b.bytes
           /\ IF works THEN conns' = Added(h, meta) /\ index' = added
              ELSE conns' = Marked(b.remote) /\ index' = Remove(added, meta)
    /\ UNCHANGED <<events, leaked, workload, quiet, serving, panicked>>

-----------------------------------------------------------------------------
(* Events of connections, sent in order and handled later.                  *)

Events(h) ==
    LET meta == conns[h] IN
    [type : {"need"}, path : {p \in Paths : CidSpace # 0 /\ meta.issued[p] < MaxIssued}]
      \cup [type : {"retire"}, path : Paths, seq : 0..MaxIssued - 1, more : BOOLEAN]
      \cup [type : {"token"}, path : Paths, remote : workload.remotes]
      \cup [type : {"untoken"}, path : Paths]

\* Only what the peer was told of can be retired, and ids are asked for while
\* the connection may hold more.
Emit(h) ==
    /\ Len(events) < MaxEvents
    /\ \E e \in Events(h) :
        /\ conns[h].open \/ (AfterDrained /\ e.type = "need")
        /\ e.type \in workload.types
        /\ e.type = "retire" => e.seq < conns[h].issued[e.path]
        /\ events' = Append(events, <<h, e>>)
    /\ UNCHANGED <<conns, index, buffers, total, leaked, workload, quiet, serving, panicked>>

\* A connection's last event, unless AfterDrained.
EmitDrained(h) ==
    /\ conns[h].open
    /\ conns' = [conns EXCEPT ![h].open = FALSE]
    /\ events' = Append(events, <<h, [type |-> "drained"]>>)
    /\ UNCHANGED <<index, buffers, total, leaked, workload, quiet, serving, panicked>>

\* Mutant: the token that is replaced stays in the index.
ResetTokenAdded(h, e) ==
    LET key == <<e.remote, <<h, e.path>>>> IN
    /\ conns' = [conns EXCEPT ![h].tokens = Put(@, e.path, key)]
    /\ index' = [index EXCEPT !.resets = Put(@, key, h)]

\* The peer's token for the id a path sends to, with the path's address; it
\* replaces the one the path had.
ResetToken(h, e) ==
    LET key == <<e.remote, <<h, e.path>>>>
        old == IF e.path \in DOMAIN conns[h].tokens THEN {conns[h].tokens[e.path]} ELSE {}
    IN  /\ conns' = [conns EXCEPT ![h].tokens = Put(@, e.path, key)]
        /\ index' = [index EXCEPT !.resets = Put(Drop(@, old), key, h)]

RetireResetToken(h, e) ==
    LET old == IF e.path \in DOMAIN conns[h].tokens THEN {conns[h].tokens[e.path]} ELSE {} IN
    /\ conns' = [conns EXCEPT ![h].tokens = Drop(@, {e.path})]
    /\ index' = [index EXCEPT !.resets = Drop(@, old)]

\* An id the peer retired is forgotten, and replaced if the connection allows.
RetireConnectionId(h, e) ==
    IF e.seq \notin DOMAIN conns[h].cids[e.path] THEN UNCHANGED <<conns, index>>
    ELSE LET cid == conns[h].cids[e.path][e.seq]
             kept == Drop(conns[h].cids[e.path], {e.seq})
             ids == Drop(index.ids, {cid})
             next == Min(Cids \ DOMAIN ids)
             issued == conns[h].issued[e.path]
         IN  IF e.more /\ CidSpace # 0 /\ issued < MaxIssued
             THEN /\ index' = [index EXCEPT !.ids = Put(ids, next, <<h, e.path>>)]
                  /\ conns' = [conns EXCEPT ![h].cids[e.path] = Put(kept, issued, next),
                                            ![h].issued[e.path] = @ + 1]
             ELSE /\ index' = [index EXCEPT !.ids = ids]
                  /\ conns' = [conns EXCEPT ![h].cids[e.path] = kept]

Drained(h) ==
    /\ conns' = Drop(conns, {h})
    /\ index' = Remove(index, conns[h])

HandleEvent ==
    /\ events # <<>>
    /\ LET h == Head(events)[1]
           e == Head(events)[2]
       IN  IF h \notin DOMAIN conns
           THEN panicked' = TRUE /\ UNCHANGED <<conns, index>>
           ELSE /\ panicked' = (panicked \/ (/\ e.type = "drained" /\ conns[h].side = "server"
                                             /\ ~InitialKnown(index, conns[h].init)))
                /\ CASE e.type = "need" -> IF conns[h].issued[e.path] < MaxIssued
                                           THEN HasCid(index, 1) /\ SendNewIdentifier(h, e.path)
                                           ELSE UNCHANGED <<conns, index>>
                     [] e.type = "retire" -> RetireConnectionId(h, e)
                     [] e.type = "token" -> ResetToken(h, e)
                     [] e.type = "untoken" -> RetireResetToken(h, e)
                     [] e.type = "drained" -> Drained(h)
    /\ events' = Tail(events)
    /\ UNCHANGED <<buffers, total, leaked, workload, quiet, serving>>

-----------------------------------------------------------------------------

Next ==
    \/ \E h \in Handles, r \in workload.remotes : Connect(h, r)
    \/ \E h \in Handles : ConnectRefused(h)
    \/ \E d \in InitCids, n \in Lengths : HandleIncoming(d, n)
    \/ \E i \in Slots, d \in InitCids \cup {Empty}, r \in workload.remotes, t \in {"none", "retry"} :
          HandleFirstPacket(i, d, r, t)
    \/ \E i \in DOMAIN buffers : Refuse(i) \/ Retry(i) \/ AcceptRefused(i)
    \/ \E i \in DOMAIN buffers, h \in Handles, works \in BOOLEAN : Accept(i, h, works)
    \/ \E h \in DOMAIN conns : Emit(h) \/ EmitDrained(h)
    \/ HandleEvent
    \/ \E d \in Cids, r \in workload.remotes, n \in workload.strays : StatelessReset(d, r, n)
    \/ ResetIntervalOver
    \/ SetServerConfig

Spec == Init /\ [][Next]_vars

-----------------------------------------------------------------------------

\* ConnectionIndex and Endpoint.connections agree at all times: an id, an
\* initial id or a reset token leads to the one connection that owns it and to
\* the right path of it, nothing of a connection that is gone is left, and
\* nothing of one that remains is missing, whatever the order in which ids are
\* issued and retired, tokens replaced and handles reused.  There are two
\* exceptions: the id of a connect whose server name is refused is never removed,
\* and a connection without ids that ever shared its remote with another one may
\* have lost the address entry to it, or with it.
IndexExact ==
    /\ \A c \in DOMAIN index.ids \ leaked :
        /\ index.ids[c][1] \in DOMAIN conns
        /\ c \in Range(conns[index.ids[c][1]].cids[index.ids[c][2]])
    /\ \A h \in DOMAIN conns : LocalCids(conns[h]) \ {Empty} \subseteq DOMAIN index.ids
    /\ index.resets = [k \in UNION {Range(conns[h].tokens) : h \in DOMAIN conns} |-> k[2][1]]
    /\ \A d \in DOMAIN index.initial :
        LET to == index.initial[d] IN
        IF to[1] = "incoming" THEN to[2] \in DOMAIN buffers /\ buffers[to[2]].dst = d
        ELSE to[2] \in DOMAIN conns /\ conns[to[2]].init = d
    /\ \A h \in DOMAIN conns :
        conns[h].side = "server" /\ conns[h].init # Empty =>
            conns[h].init \in DOMAIN index.initial /\ index.initial[conns[h].init] = <<"connection", h>>
    /\ \A h \in Range(index.ins) : h \in DOMAIN conns /\ conns[h].side = "server"
    /\ \A h \in Range(index.outs) : h \in DOMAIN conns /\ conns[h].side = "client"
    /\ \A h \in DOMAIN conns :
        LET map == IF conns[h].side = "server" THEN index.ins ELSE index.outs
            r == conns[h].remote
        IN Empty \in LocalCids(conns[h]) /\ ~conns[h].shared => r \in DOMAIN map /\ map[r] = h

\* The bytes kept for connection attempts are those of the buffers that exist,
\* and never more than either limit (handle, accept, clean_up_incoming): an
\* account that drifts ends in no attempt being buffered, or in too many.
BuffersExact ==
    /\ total = MapThenSumSet(LAMBDA i : buffers[i].bytes, DOMAIN buffers)
    /\ total <= BufferTotal
    /\ \A i \in DOMAIN buffers : buffers[i].bytes <= BufferSize

\* No order of events, decisions and datagrams ends in an index into a slab that
\* has no such entry, in an unwrapped None or in a failed debug assertion.
NoPanic == ~panicked

\* endpoint.rs:951: "We leave some space unused so that `new_cid` can be relied
\* upon to finish quickly": whoever asks for an id finds a free one.
NewCidFinishes ==
    events # <<>> /\ Head(events)[2].type = "need" => HasCid(index, 1)
=============================================================================
