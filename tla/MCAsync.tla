------------------------------ MODULE MCAsync ------------------------------
(***************************************************************************)
(* Endpoints, their tokens and the async drivers, for TLC.  As modelled     *)
(* they share no state: interleaving their steps would show nothing, so in  *)
(* each behaviour one of them moves and the others stay as they were at     *)
(* first.                                                                   *)
(***************************************************************************)
EXTENDS Driver, TLC

CONSTANTS
    Handles,    \* slots of the endpoint's slab of connections
    i1, i2,     \* slots for connection attempts
    r1, r2      \* remote addresses

VARIABLES
    part,       \* which one moves
    conns, index, buffers, leaked, total, events, workload, quiet, serving,
    panicked,
    now, issued, cache, wire, log, taken, used, refused,
    driven, mailbox, accepted, futures, owners, count, waits

protoVars ==
    <<conns, index, buffers, leaked, total, events, workload, quiet, serving,
      panicked>>
tokenVars == <<now, issued, cache, wire, log, taken, used, refused>>
asyncVars == <<driven, mailbox, accepted, futures, owners, count, waits>>

\* Driver: what two tasks wait for, what arrives, and how much of both
Instance(zero_rtt, kinds, packets, arrivals, calls) ==
    [zero_rtt |-> zero_rtt, kinds |-> kinds, packets |-> packets,
     arrivals |-> arrivals, calls |-> calls]

MCScenarios ==
    { Instance("attempted", {"write", "stopped"}, {"rejected", "close"}, 2, 3),
      Instance("none", {"stopped", "write"}, {"accepted", "stopped"}, 2, 3),
      Instance("none", {"open", "accept"}, {"accepted", "open", "accept"}, 2, 3),
      Instance("none", {"readDatagram", "sendDatagram"},
               {"accepted", "readDatagram", "sendDatagram"}, 2, 3),
      Instance("none", {"read", "closed"}, {"accepted", "read", "reset"}, 2, 3),
      Instance("none", {"connecting", "handshake", "onClosed"}, {"hello", "accepted", "reset"}, 2, 3),
      Instance("none", {"confirmed"}, {"accepted", "done", "peerClose"}, 3, 2),
      Instance("none", {"openPath", "onClosed"}, {"accepted", "pathResponse"}, 2, 3) }

\* Endpoint: connection ids, reset tokens and connection attempts get behaviours
\* of their own in which the others are few; the last workload is an endpoint
\* with zero-length ids.
Workload(types, slots, remotes, space, preferred, strays) ==
    [types |-> types, slots |-> slots, remotes |-> remotes, space |-> space,
     preferred |-> preferred, strays |-> strays]

MCWorkloads ==
    {Workload({"need", "retire"}, {}, {r1}, 2, FALSE, {}),
     Workload({"token", "untoken"}, {}, {r1, r2}, 2, FALSE, {}),
     Workload({"untoken"}, {i1, i2}, {r1}, 4, TRUE, {21, 22, 42, 43}),
     Workload({"untoken"}, {i1}, {r1, r2}, 0, FALSE, {})}

E == INSTANCE Endpoint WITH
    Slots <- {i1, i2}, Remotes <- {r1, r2}, InitCids <- {11, 12}, Paths <- {0, 1},
    MaxIssued <- 2, MaxEvents <- 1, MaxIncoming <- 2, BufferSize <- 1,
    BufferTotal <- 1, Workloads <- MCWorkloads, AnyTime <- FALSE,
    AfterDrained <- FALSE

T == INSTANCE Tokens WITH
    Ips <- {1, 2}, Ports <- {1}, Names <- {"a", "b"}, MaxTime <- 5,
    RetryLifetime <- 3, Lifetime <- 2, MaxTokens <- 3, MaxServerNames <- 1,
    MaxTokensPerServer <- 2, FilterMax <- 1

A == INSTANCE EndpointDriver WITH
    Conns <- {"c", "d"}, IoLoopBound <- 1, MaxWaits <- 3,
    endpoint <- driven, events <- mailbox, conns <- accepted, handles <- owners,
    refs <- count

\* What the proofs about EndpointDriver and Tokens assume of their constants
ASSUME EndpointDriverConstants == A!CounterWide
ASSUME TokensBounds == T!TokensConstants

MCInit ==
    /\ part \in {"driver", "endpoint", "tokens", "endpointDriver"}
    /\ Init /\ E!Init /\ T!Init /\ A!Init
    /\ part # "driver" => left.kinds = {"confirmed"}
    /\ part # "endpoint" => workload.space = 0

MCNext ==
    \/ part = "driver" /\ Next
       /\ UNCHANGED <<part, protoVars, tokenVars, asyncVars>>
    \/ part = "endpoint" /\ E!Next
       /\ UNCHANGED <<part, vars, tokenVars, asyncVars>>
    \/ part = "tokens" /\ T!Next
       /\ UNCHANGED <<part, vars, protoVars, asyncVars>>
    \/ part = "endpointDriver" /\ A!Next
       /\ UNCHANGED <<part, vars, protoVars, tokenVars>>

MCSpec == MCInit /\ [][MCNext]_<<part, vars, protoVars, tokenVars, asyncVars>>

HandleSymmetry == Permutations(Handles)

-----------------------------------------------------------------------------
(* Properties: those of Driver keep their names.                            *)

\* Endpoint: ConnectionIndex and the slab of connections agree, whatever the
\* order in which ids are issued and retired, tokens replaced and handles
\* reused, no datagram, event or decision finds a slab entry missing, and the
\* bytes kept for connection attempts are those of the buffers that exist and
\* within both limits (ConnectionIndex, handle, accept, clean_up_incoming).
IndexExact == E!IndexExact /\ E!NoPanic /\ E!BuffersExact

\* Tokens: a token is taken and validates an address once, whatever copies and
\* periods meet in the two filters, and a prompt answer to a Retry is accepted
\* (TokenStore::take, TokenLog::check_and_insert, IncomingToken::from_header).
TokensSound == T!TokensSound

\* EndpointDriver: while the driver runs no task sleeps in accept or wait_idle past
\* what it waits for, and the driver sleeps only with nothing to do and no reason to
\* stop.  (A driver that is dropped wakes accept, but not wait_idle.)
EndpointServed == A!EndpointServed
=============================================================================
