--------------------------- MODULE ConnectionIds ---------------------------
(***************************************************************************)
(* The connection ids of one path in one direction: the issuer, made of    *)
(* the CidState of its connection and of the ids its endpoint routes, and  *)
(* the holder, whose CidQueue says which of them it uses.  The endpoint of *)
(* the issuer answers the events of its connection with a delay; NEW_ and  *)
(* RETIRE_CONNECTION_ID frames are lost, delayed and reordered.            *)
(*                                                                         *)
(* An id is its sequence number.  A frame in flight is acknowledged when   *)
(* it arrives, or is declared lost and arrives all the same or not at all. *)
(***************************************************************************)
EXTENDS Integers, Sequences, FiniteSets

Sets == INSTANCE FiniteSetsExt

CONSTANTS
    QueueLen,   \* CidQueue::LEN, announced as active_connection_id_limit
    FirstIds,   \* ids known from the handshake: 2 with a preferred address
    MaxMoves,   \* bound on `offset` for changes of the active id
    MaxExpired, \* bound on retire_seq for expiries; 0: ids have no lifetime
    MaxLosses,  \* bound on the number of losses
    Server,     \* the holder is a server
    Ops         \* "Race" and "Late": see Receive and Expire

ASSUME BoundsAssumption ==
    /\ QueueLen \in Nat /\ FirstIds \in 1..2 /\ FirstIds <= QueueLen
    /\ MaxMoves \in Nat /\ MaxExpired \in Nat /\ MaxLosses \in Nat
    /\ Server \in BOOLEAN /\ Ops \subseteq {"Race", "Late"}

VARIABLES
    \* CidState of the issuer
    issued, activeSeq, prevRetireSeq, retireSeq,
    retireTimestamp,    \* the sequences of its entries, oldest first
    \* PathLocalCids of the issuer's endpoint
    epIssued, epCids,
    toEndpoint,         \* events from the issuer's connection to its endpoint
    \* CidQueue of the holder: buffer, cursor, offset, cursor_reserved
    cids,
    \* frames to send, and frames in unacknowledged packets; an id that retire_cids
    \* holds twice counts once
    pendNew, flightNew, pendRetire, flightRetire,
    error,              \* the error that closed the connection
    losses              \* packets declared lost so far

stateVars == <<issued, activeSeq, prevRetireSeq, retireSeq, retireTimestamp>>
epVars == <<epIssued, epCids>>
newVars == <<pendNew, flightNew>>
retireVars == <<pendRetire, flightRetire>>
vars == <<stateVars, epVars, toEndpoint, cids, newVars, retireVars, error,
          losses>>

None == -1
Limit == Sets!Min({QueueLen, 12})   \* issue_cids_limit, LOCAL_CID_COUNT
MaxPendingRetired == QueueLen * 10

Need(n) == [type |-> "NeedIdentifiers", n |-> n]
Retire(seq, more) ==
    [type |-> "RetireConnectionId", seq |-> seq, more |-> more]
Seqs(lo, hi) == lo .. (hi - 1)

-----------------------------------------------------------------------------
(* CidQueue                                                                *)

InitialQueue ==
    [buffer |-> [i \in 0..(QueueLen - 1) |-> IF i < FirstIds THEN i ELSE None],
     cursor |-> 0, offset |-> 0, reserved |-> 0]

Slot(q, i) == (q.cursor + i) % QueueLen
At(q, i) == q.buffer[Slot(q, i)]

ReservedLen(q) ==
    IF q.reserved >= q.cursor THEN q.reserved - q.cursor
                              ELSE q.reserved + QueueLen - q.cursor

\* iter_from_active and iter_from_reserved, as the set of their steps
FromActive(q) == {i \in 0..(QueueLen - 1) : At(q, i) # None}
FromReserved(q) ==
    {i \in 0..(QueueLen - 1 - ReservedLen(q)) :
        q.buffer[(q.reserved + i) % QueueLen] # None}

\* iter_from_reserved().nth(1)
HasUnused(q) == Cardinality(FromReserved(q)) > 1
Unused(q) == Sets!Min(FromReserved(q) \ {Sets!Min(FromReserved(q))})

\* CidQueue::next, when there is an unused id: the ids before it are dropped
NextOf(q) ==
    LET r == ReservedLen(q)
        i == Unused(q)
        dropped == {Slot(q, j) : j \in 0..r}
        c == (q.reserved + i) % QueueLen
    IN  [buffer |-> [k \in DOMAIN q.buffer |->
                        IF k \in dropped THEN None ELSE q.buffer[k]],
         cursor |-> c, offset |-> q.offset + i + r, reserved |-> c]

RetiredCount(q, f) ==
    IF f.rpt > q.offset THEN f.rpt - q.offset ELSE 0

\* Mutant: retired ids stay in the buffer.
DiscardNothing(q, n) == q.buffer

\* The buffer without its first n ids
Discard(q, n) ==
    [k \in DOMAIN q.buffer |->
        IF \E i \in 0..(QueueLen - 1) : i < n /\ k = Slot(q, i)
        THEN None ELSE q.buffer[k]]

\* CidQueue::insert, when it succeeds
Inserted(q, f) ==
    LET n == RetiredCount(q, f)
        b == [Discard(q, n) EXCEPT ![Slot(q, f.seq - q.offset)] = f.seq]
        moved == [q EXCEPT !.buffer = b, !.cursor = Slot(q, n)]
        i == Sets!Min(FromActive(moved))
    IN  IF n = 0
        THEN [q EXCEPT !.buffer = b]
        ELSE [buffer |-> b, cursor |-> Slot(moved, i),
              offset |-> f.rpt + i, reserved |-> Slot(moved, i)]

\* The sequence numbers retired by a change from queue q to queue r.  insert
\* leaves out those beyond the window, which it cannot have received.
RetiredBy(q, r) == Seqs(q.offset, Sets!Min({r.offset, q.offset + QueueLen}))

-----------------------------------------------------------------------------
(* The issuer                                                              *)

Init ==
    /\ issued = FirstIds /\ activeSeq = 0..(FirstIds - 1)
    /\ prevRetireSeq = 0 /\ retireSeq = 0
    /\ retireTimestamp = IF MaxExpired = 0 THEN <<>> ELSE <<FirstIds - 1>>
    /\ epIssued = FirstIds /\ epCids = 0..(FirstIds - 1)
    /\ toEndpoint = <<Need(Limit - FirstIds)>>   \* issue_first_cids
    /\ cids = InitialQueue
    /\ pendNew = {} /\ flightNew = {} /\ pendRetire = {} /\ flightRetire = {}
    /\ error = "none" /\ losses = 0

\* CidState::track_lifetime: ids issued at the same instant share an entry.
\* Entries behind the bound on expiries are not kept.
TrackLifetime(seq) ==
    IF retireSeq >= MaxExpired THEN UNCHANGED retireTimestamp
    ELSE \/ retireTimestamp' = Append(retireTimestamp, seq)
         \/ /\ retireTimestamp # <<>>
            /\ retireTimestamp' =
                   [retireTimestamp EXCEPT ![Len(retireTimestamp)] = seq]

\* Endpoint::send_new_identifiers and what the connection does with the event
\* NewIdentifiers: CidState::new_cids, and NEW_CONNECTION_ID frames are queued.
\* The way there and back is one delay, that of the request.
NewIdentifiers(n) ==
    LET ids == Seqs(epIssued, epIssued + n)
    IN  /\ epIssued' = epIssued + n
        /\ issued' = issued + n
        /\ activeSeq' = activeSeq \cup ids
        /\ pendNew' = pendNew \cup ids
        /\ IF n = 0 THEN UNCHANGED retireTimestamp
                    ELSE TrackLifetime(Sets!Max(ids))
        /\ UNCHANGED <<prevRetireSeq, retireSeq, cids, flightNew, retireVars,
                       error, losses>>

\* Endpoint::handle_event, for NeedIdentifiers
HandleNeed ==
    LET e == Head(toEndpoint) IN
    /\ toEndpoint # <<>> /\ e.type = "NeedIdentifiers" /\ error = "none"
    /\ toEndpoint' = Tail(toEndpoint)
    /\ NewIdentifiers(e.n)
    /\ epCids' = epCids \cup Seqs(epIssued, epIssued + e.n)

\* Whether a retired id is replaced by a new one
Replies(e) == e.seq \in epCids /\ e.more

\* Endpoint::handle_event, for RetireConnectionId
HandleRetire ==
    LET e == Head(toEndpoint)
        n == IF Replies(e) THEN 1 ELSE 0
    IN  /\ toEndpoint # <<>> /\ e.type = "RetireConnectionId"
        /\ error = "none"
        /\ toEndpoint' = Tail(toEndpoint)
        /\ NewIdentifiers(n)
        /\ epCids' = (epCids \ {e.seq}) \cup Seqs(epIssued, epIssued + n)

\* An iteration of the PushNewCid timer: CidState::on_cid_timeout and the
\* NeedIdentifiers that it causes (one for no ids has no effect).  Unless "Late"
\* is in Ops, an id expires only after its NEW_CONNECTION_ID was delivered.
Expire ==
    LET entry == Head(retireTimestamp)
        unretired == activeSeq \cap Seqs(prevRetireSeq, retireSeq) # {}
        needed == activeSeq \cap Seqs(retireSeq, entry + 1) # {}
    IN  /\ error = "none" /\ retireTimestamp # <<>>
        /\ retireSeq < MaxExpired
        /\ "Late" \in Ops \/ \A f \in flightNew : f.seq > entry
        /\ "Late" \in Ops \/ \A seq \in pendNew : seq > entry
        /\ retireTimestamp' = Tail(retireTimestamp)
        /\ IF unretired
           THEN UNCHANGED <<prevRetireSeq, retireSeq>>
           ELSE prevRetireSeq' = retireSeq /\ retireSeq' = entry + 1
        /\ toEndpoint' = IF ~unretired /\ needed
                         THEN Append(toEndpoint, Need(1)) ELSE toEndpoint
        /\ UNCHANGED <<issued, activeSeq, epVars, cids, newVars, retireVars,
                       error, losses>>

\* The NEW_CONNECTION_ID frames queued are sent, each with the retire_prior_to
\* of this moment.  They share packets, but their fates are independent.
SendNew ==
    /\ error = "none" /\ pendNew # {}
    /\ pendNew' = {}
    /\ flightNew' = flightNew \cup [seq : pendNew, rpt : {retireSeq}]
    /\ UNCHANGED <<stateVars, epVars, toEndpoint, cids, retireVars, error,
                   losses>>

\* No request of the timer for an id waits for its answer.
TimerServed ==
    \A i \in DOMAIN toEndpoint : toEndpoint[i].type # "NeedIdentifiers"

\* The result of CidState::on_cid_retirement
Allow(active) == Limit > Cardinality(active)

\* RETIRE_CONNECTION_ID arrives at the issuer.  Unless "Race" is in Ops, the
\* endpoint has answered the last request for ids by then.
ReceiveRetire(seq) ==
    /\ error = "none"
    /\ "Race" \in Ops \/ TimerServed
    /\ IF seq > issued
       THEN error' = "unissued" /\ UNCHANGED <<activeSeq, toEndpoint>>
       ELSE /\ activeSeq' = activeSeq \ {seq}
            /\ toEndpoint' = Append(toEndpoint, Retire(seq, Allow(activeSeq')))
            /\ UNCHANGED error
    /\ UNCHANGED <<issued, prevRetireSeq, retireSeq, retireTimestamp, epVars,
                   cids, newVars>>

-----------------------------------------------------------------------------
(* The holder                                                              *)

Accept(f) ==
    LET q == Inserted(cids, f)
        r == IF Server /\ q.offset = 0 /\ HasUnused(q) THEN NextOf(q) ELSE q
        retired == RetiredBy(cids, q)
    IN  IF /\ retired # {}
           /\ Cardinality(pendRetire) + Cardinality(retired) > MaxPendingRetired
        THEN error' = "too many retired" /\ cids' = q /\ UNCHANGED pendRetire
        ELSE /\ cids' = r
             /\ pendRetire' = pendRetire \cup retired \cup RetiredBy(q, r)
             /\ UNCHANGED error

\* NEW_CONNECTION_ID arrives at the holder.
ReceiveNew(f) ==
    /\ error = "none"
    /\ IF f.rpt > f.seq
       THEN error' = "retiring unissued" /\ UNCHANGED <<cids, pendRetire>>
       ELSE IF f.seq < cids.offset
       THEN pendRetire' = pendRetire \cup {f.seq} /\ UNCHANGED <<cids, error>>
       ELSE IF f.seq - cids.offset >= QueueLen + RetiredCount(cids, f)
       THEN error' = "limit" /\ UNCHANGED <<cids, pendRetire>>
       ELSE Accept(f)
    /\ UNCHANGED <<stateVars, epVars, toEndpoint, flightRetire>>

\* Connection::update_remote_cid, and the same for each path when the network
\* changed
UpdateRemoteCid ==
    /\ error = "none" /\ cids.offset < MaxMoves /\ HasUnused(cids)
    /\ cids' = NextOf(cids)
    /\ pendRetire' = pendRetire \cup RetiredBy(cids, cids')
    /\ UNCHANGED <<stateVars, epVars, toEndpoint, newVars, flightRetire, error,
                   losses>>

\* CidQueue::next_reserved, for the answer to a challenge from another address
NextReserved ==
    /\ error = "none" /\ HasUnused(cids)
    /\ cids' = [cids EXCEPT !.reserved = (@ + Unused(cids)) % QueueLen]
    /\ UNCHANGED <<stateVars, epVars, toEndpoint, newVars, retireVars, error,
                   losses>>

\* The RETIRE_CONNECTION_ID frames queued are sent.
SendRetire ==
    /\ error = "none" /\ pendRetire # {}
    /\ pendRetire' = {} /\ flightRetire' = flightRetire \cup pendRetire
    /\ UNCHANGED <<stateVars, epVars, toEndpoint, cids, newVars, error, losses>>

-----------------------------------------------------------------------------
(* The network                                                             *)

NewArrives(f) ==
    /\ ReceiveNew(f)
    /\ flightNew' = flightNew \ {f} /\ UNCHANGED <<pendNew, losses>>

\* The frame of a lost packet is sent again.
RequeueNew(f) == pendNew \cup {f.seq}

LoseNew(f, arrived) ==
    /\ error = "none" /\ losses < MaxLosses /\ losses' = losses + 1
    /\ pendNew' = RequeueNew(f) /\ flightNew' = flightNew \ {f}
    /\ IF arrived THEN ReceiveNew(f)
       ELSE UNCHANGED <<stateVars, epVars, toEndpoint, cids, retireVars, error>>

RetireArrives(seq) ==
    /\ ReceiveRetire(seq)
    /\ flightRetire' = flightRetire \ {seq} /\ UNCHANGED <<pendRetire, losses>>

LoseRetire(seq, arrived) ==
    /\ error = "none" /\ losses < MaxLosses /\ losses' = losses + 1
    /\ pendRetire' = pendRetire \cup {seq}
    /\ flightRetire' = flightRetire \ {seq}
    /\ IF arrived THEN ReceiveRetire(seq)
       ELSE UNCHANGED <<stateVars, epVars, toEndpoint, cids, newVars, error>>

Next ==
    \/ HandleNeed \/ HandleRetire \/ Expire \/ SendNew
    \/ UpdateRemoteCid \/ NextReserved \/ SendRetire
    \/ \E f \in flightNew :
        NewArrives(f) \/ \E arrived \in BOOLEAN : LoseNew(f, arrived)
    \/ \E seq \in flightRetire :
        RetireArrives(seq) \/ \E arrived \in BOOLEAN : LoseRetire(seq, arrived)

Spec == Init /\ [][Next]_vars

-----------------------------------------------------------------------------
(* Properties                                                              *)

Held == {cids.buffer[i] : i \in 0..(QueueLen - 1)} \ {None}

\* The ring buffer never confuses two ids: the slot i steps behind the cursor
\* is empty or holds sequence number offset + i, and the active id is there.
WindowExact ==
    /\ At(cids, 0) = cids.offset
    /\ \A i \in 0..(QueueLen - 1) : At(cids, i) \in {None, cids.offset + i}
    /\ At(cids, ReservedLen(cids)) # None

\* Two noq peers never accuse each other, however frames are reordered, lost
\* and repeated: no CONNECTION_ID_LIMIT_ERROR and no PROTOCOL_VIOLATION.
HonestPeersAgree == error = "none"

\* Whatever id the holder may put on a packet, active or reserved, is one the
\* issuer's endpoint still routes to the connection.
HeldIsRouted == Held \subseteq epCids

\* An id used towards another address never becomes the active one, unless the
\* issuer asked for the retirement of the active one.
ReservedSkipped ==
    [][cids'.offset # cids.offset =>
          cids'.offset > cids.offset + ReservedLen(cids)
          \/ cids.offset < retireSeq]_vars

\* Retired ids are replaced: when nothing is on its way any more, the holder has
\* as many ids as it announced it could hold.
IdsReplenished ==
    /\ error = "none" /\ toEndpoint = <<>>
    /\ pendNew = {} /\ flightNew = {} /\ pendRetire = {} /\ flightRetire = {}
    => Cardinality(Held) = Limit

\* Issuer and holder agree on the ids, whatever is lost, late or repeated: the
\* above together (CidQueue, CidState, on_new_connection_id, retire).
IdsAgree ==
    /\ [](WindowExact /\ HonestPeersAgree /\ HeldIsRouted /\ IdsReplenished)
    /\ ReservedSkipped
=============================================================================
