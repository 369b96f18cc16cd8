-------------------------------- MODULE Tokens --------------------------------
(***************************************************************************)
(* Address validation tokens of noq-proto.  A server hands out a token in a *)
(* Retry packet, bound to an address for a short time, or in NEW_TOKEN      *)
(* frames, bound to an IP for a long one; the latter are kept by the client *)
(* in a bounded cache, one list per server name, and a server recognises    *)
(* the ones that were used by two filters that move along with time.        *)
(* Initial packets are duplicated and delayed at will.                      *)
(***************************************************************************)
EXTENDS Naturals, Sequences, SequencesExt, FiniteSets

CONSTANTS
    Ips, Ports, Names,
    MaxTime,          \* bound: ticks of the clock; a second has two
    RetryLifetime,    \* ServerConfig.retry_token_lifetime, in ticks
    Lifetime,         \* ValidationTokenConfig.lifetime, in ticks
    MaxTokens,        \* bound: tokens ever issued
    MaxServerNames, MaxTokensPerServer,   \* limits of TokenMemoryCache
    FilterMax         \* entries of a filter's hash set before it becomes a Bloom filter

VARIABLES
    now,
    issued,   \* tokens the server made so far; a token's nonce is its number
    cache,    \* TokenMemoryCache, the server name used longest ago first
    wire,     \* Initial packets under way: a token or none, and an address
    log,      \* BloomTokenLog
    taken,    \* how often each token was taken from the cache
    used,     \* how often each token validated an address
    refused   \* a client that did as the Retry packet said was turned away

vars == <<now, issued, cache, wire, log, taken, used, refused>>

\* What the proofs assume of the constants: check_and_insert turns every token away
\* when the lifetime is zero, and never gets to the filters.
TokensConstants ==
    /\ {MaxTime, RetryLifetime, MaxTokens, MaxServerNames, MaxTokensPerServer} \subseteq Nat
    /\ Lifetime \in Nat \ {0} /\ FilterMax \in Nat

Secs(t) == t - (t % 2)        \* a token's time of issue is written in seconds

Init ==
    /\ now = 0
    /\ issued = <<>>
    /\ cache = <<>>
    /\ wire = {}
    /\ log = [start |-> 0, filter1 |-> {}, filter2 |-> {}]
    /\ taken = [n \in 1..MaxTokens |-> 0]
    /\ used = [n \in 1..MaxTokens |-> 0]
    /\ refused = FALSE

Tick ==
    /\ now < MaxTime
    /\ now' = now + 1
    /\ UNCHANGED <<issued, cache, wire, log, taken, used, refused>>

-----------------------------------------------------------------------------
(* TokenMemoryCache.                                                        *)

Entry(name) == SelectInSeq(cache, LAMBDA e : e.name = name)

\* State::store: into the list of the server, or a new one in place of the list
\* used longest ago.
Store(name, nonce) ==
    IF MaxServerNames = 0 \/ MaxTokensPerServer = 0 THEN cache
    ELSE IF Entry(name) # 0
    THEN LET old == cache[Entry(name)].tokens
             kept == IF Len(old) >= MaxTokensPerServer THEN Tail(old) ELSE old
         IN  Append(RemoveAt(cache, Entry(name)), [name |-> name, tokens |-> Append(kept, nonce)])
    ELSE Append(IF Len(cache) >= MaxServerNames THEN Tail(cache) ELSE cache,
                [name |-> name, tokens |-> <<nonce>>])

\* State::take: the oldest token of the server; an empty list goes away.
Take(name) ==
    LET rest == Tail(cache[Entry(name)].tokens)
        others == RemoveAt(cache, Entry(name))
    IN  IF rest = <<>> THEN others ELSE Append(others, [name |-> name, tokens |-> rest])

-----------------------------------------------------------------------------
(* BloomTokenLog.                                                           *)

\* Mutant: the filter of the second period is not moved to the first.
TurnedOverDropped(expires) ==
    LET forward == (expires - log.start) \div Lifetime IN
    IF forward <= 1 THEN log
    ELSE IF forward = 2 THEN [start |-> log.start + Lifetime, filter1 |-> {}, filter2 |-> {}]
    ELSE [start |-> expires, filter1 |-> {}, filter2 |-> {}]

\* The filters once the period in which a token expires is one of the two.
TurnedOver(expires) ==
    LET forward == (expires - log.start) \div Lifetime IN
    IF forward <= 1 THEN log
    ELSE IF forward = 2 THEN [start |-> log.start + Lifetime, filter1 |-> log.filter2, filter2 |-> {}]
    ELSE [start |-> expires, filter1 |-> {}, filter2 |-> {}]

\* check_and_insert: whether the token counts as unused, and the log afterwards.
\* A Bloom filter may take any token for a used one.
CheckAndInsert(nonce, expires) ==
    IF expires < log.start THEN {<<FALSE, log>>}
    ELSE LET turned == TurnedOver(expires)
             first == (expires - turned.start) \div Lifetime = 0
             filter == IF first THEN turned.filter1 ELSE turned.filter2
             kept == [turned EXCEPT !.filter1 = IF first THEN @ \cup {nonce} ELSE @,
                                    !.filter2 = IF first THEN @ ELSE @ \cup {nonce}]
         IN  IF nonce \in filter THEN {<<FALSE, turned>>}
             ELSE IF Cardinality(filter) > FilterMax THEN {<<TRUE, kept>>, <<FALSE, kept>>}
             ELSE {<<TRUE, kept>>}

-----------------------------------------------------------------------------
(* The server and its clients.                                              *)

Initial(nonce, ip, port) == [nonce |-> nonce, ip |-> ip, port |-> port]

\* Endpoint::retry; the client sends its Initial again, from the same address.
Retry(ip, port) ==
    /\ Len(issued) < MaxTokens
    /\ issued' = Append(issued, [kind |-> "retry", ip |-> ip, port |-> port, issued |-> Secs(now), at |-> now])
    /\ wire' = wire \cup {Initial(Len(issued'), ip, port)}
    /\ UNCHANGED <<now, cache, log, taken, used, refused>>

\* A NEW_TOKEN frame, written when it is sent (a lost one is replaced by a fresh
\* token), reaches a client once.
NewToken(ip, name) ==
    /\ Len(issued) < MaxTokens
    /\ issued' = Append(issued, [kind |-> "validation", ip |-> ip, issued |-> Secs(now), at |-> now])
    /\ cache' = Store(name, Len(issued'))
    /\ UNCHANGED <<now, wire, log, taken, used, refused>>

\* ConnectionSide::from: a client's connection starts with a token, if it has one.
Connect(name, ip, port) ==
    /\ Entry(name) # 0
    /\ LET nonce == Head(cache[Entry(name)].tokens) IN
       /\ taken' = [taken EXCEPT ![nonce] = @ + 1]
       /\ wire' = wire \cup {Initial(nonce, ip, port)}
    /\ cache' = Take(name)
    /\ UNCHANGED <<now, issued, log, used, refused>>

Expired(token, lifetime) == token.issued + lifetime < now

\* IncomingToken::from_header for a token from a Retry packet.
FromHeaderRetry(packet) ==
    LET token == issued[packet.nonce]
        own == token.ip = packet.ip /\ token.port = packet.port
    IN  /\ token.kind = "retry"
        /\ IF ~own \/ Expired(token, RetryLifetime)
           THEN /\ refused' = (refused \/ (own /\ now < token.at + RetryLifetime - 1))
                /\ UNCHANGED used
           ELSE /\ used' = [used EXCEPT ![packet.nonce] = @ + 1]
                /\ UNCHANGED refused
        /\ UNCHANGED <<now, issued, cache, wire, log, taken>>

\* The same for a token from a NEW_TOKEN frame: without success the client is
\* merely not validated.
FromHeaderValidation(packet) ==
    LET token == issued[packet.nonce] IN
    /\ token.kind = "validation"
    /\ token.ip = packet.ip
    /\ ~Expired(token, Lifetime)
    /\ \E result \in CheckAndInsert(packet.nonce, token.issued + Lifetime) :
        /\ log' = result[2]
        /\ used' = IF result[1] THEN [used EXCEPT ![packet.nonce] = @ + 1] ELSE used
    /\ UNCHANGED <<now, issued, cache, wire, taken, refused>>

\* Packets under way, from the address they were sent from or another one the
\* client has got since.
Seen == {Initial(p.nonce, ip, port) : p \in wire, ip \in Ips, port \in Ports}

Bounded == \A n \in 1..MaxTokens : used[n] < 2   \* bound: repeated uses of a Retry token

Next ==
    \/ Tick
    \/ \E ip \in Ips, port \in Ports : Retry(ip, port)
    \/ \E ip \in Ips, name \in Names : NewToken(ip, name)
    \/ \E name \in Names, ip \in Ips, port \in Ports : Connect(name, ip, port)
    \/ \E packet \in Seen : Bounded /\ FromHeaderRetry(packet)
    \/ \E packet \in Seen : FromHeaderValidation(packet)

Spec == Init /\ [][Next]_vars

-----------------------------------------------------------------------------

\* A token of a NEW_TOKEN frame leaves the client's cache once and validates an
\* address once, whatever copies of an Initial packet reach the server, however
\* late, and in whatever order tokens from different periods are presented to
\* the two filters (TokenStore::take, TokenLog::check_and_insert).
TokenUsedOnce ==
    \A n \in 1..Len(issued) : issued[n].kind = "validation" => used[n] <= 1 /\ taken[n] <= 1

\* A client that answers a Retry packet from the address it was sent to, more
\* than a second before the token's lifetime is over, is not refused with
\* INVALID_TOKEN, although the time of issue is written in whole seconds.
RetryAnswered == ~refused

\* Both: no token is worth more than it was issued for, and that of a Retry not
\* less.  (Unexpired tokens of NEW_TOKEN frames may be refused.)
TokensSound == TokenUsedOnce /\ RetryAnswered
=============================================================================
