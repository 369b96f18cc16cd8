--------------------------- MODULE EndpointDriver ---------------------------
(***************************************************************************)
(* The task that drives an endpoint, the connections it feeds through       *)
(* channels, and the two futures of the endpoint: `accept` and `wait_idle`.  *)
(* Routing is the subject of Endpoint; here an incoming attempt is a member  *)
(* of Conns, and a connection is known by what its driver has been sent and  *)
(* has sent.                                                                *)
(***************************************************************************)
EXTENDS Integers, Sequences, SequencesExt, FiniteSets

CONSTANTS
    Tasks,        \* application tasks, each holding at most one Endpoint clone
    First,        \* the task that created the endpoint
    Conns,        \* connection attempts, incoming or outgoing
    IoLoopBound,  \* IO_LOOP_BOUND
    MaxWaits,     \* bound on the futures created
    RefModulus    \* the reference counter wraps at this value

VARIABLES
    endpoint,     \* what the lock of EndpointInner protects
    events,       \* the channel from the connections
    conns,        \* each attempt
    futures,      \* what each task awaits
    handles,      \* tasks that hold an Endpoint
    refs,         \* Shared::ref_count
    waits         \* futures created so far

vars == <<endpoint, events, conns, futures, handles, refs, waits>>

\* The counter is wider than what it counts, and a poll handles an event.
CounterWide ==
    /\ IsFiniteSet(Tasks) /\ IsFiniteSet(Conns) /\ First \in Tasks
    /\ IoLoopBound \in Nat \ {0}
    /\ RefModulus \in Nat /\ RefModulus > Cardinality(Tasks) + Cardinality(Conns)

NoFuture == [kind |-> "none", notified |-> FALSE, awake |-> FALSE]

TypeOK ==
    /\ endpoint.senders \subseteq Conns
    /\ events \in Seq(Conns)
    /\ conns \in [Conns -> {"new", "queued", "held", "live", "told", "closed", "ended", "refused"}]
    /\ \A t \in Tasks : futures[t].kind \in {"none", "accept", "idle"}
    /\ handles \subseteq Tasks
    /\ refs \in 0..RefModulus - 1

\* Endpoint::new_with_abstract_socket: the driver's clone is counted
Init ==
    /\ endpoint = [incoming |-> <<>>, senders |-> {}, close |-> FALSE,
                   driver |-> FALSE, scheduled |-> TRUE, lost |-> FALSE, failed |-> FALSE]
    /\ events = <<>>
    /\ conns = [c \in Conns |-> "new"]
    /\ futures = [t \in Tasks |-> NoFuture]
    /\ handles = {First}
    /\ refs = 1
    /\ waits = 0

Wake(e) == IF e.driver THEN [e EXCEPT !.driver = FALSE, !.scheduled = TRUE] ELSE e

Notified(f, kind) ==
    [t \in Tasks |-> IF f[t].kind = kind
                     THEN [f[t] EXCEPT !.notified = TRUE, !.awake = TRUE] ELSE f[t]]

-----------------------------------------------------------------------------
(* The driver.                                                             *)

\* handle_events: Drained events, at most IO_LOOP_BOUND of them
Taken(queue) == SubSeq(queue, 1, IF Len(queue) < IoLoopBound THEN Len(queue) ELSE IoLoopBound)

\* Mutant: the waiters are only told once the endpoint is closed
IdleClosed(handled, after) == handled # <<>> /\ after = {} /\ endpoint.close

\* The last connection has drained: the waiters for an idle endpoint are told
IdleNow(handled, after) == handled # <<>> /\ after = {}

\* EndpointDriver::poll.  `arrived` are the attempts the socket delivers, `more`
\* says that the receive limiter stopped the loop.
Poll(arrived, more) ==
    LET queue == endpoint.incoming \o IF endpoint.close THEN <<>> ELSE arrived
        handled == Taken(events)
        senders == endpoint.senders \ ToSet(handled)
        keep_going == more \/ Len(events) >= IoLoopBound
        idle == IF IdleNow(handled, senders) THEN Notified(futures, "idle") ELSE futures
        told == IF queue # <<>> THEN Notified(idle, "accept") ELSE idle
        stops == senders = {} /\ (refs = 0 \/ endpoint.close)
    IN
    /\ ~endpoint.lost /\ endpoint.scheduled
    /\ \A i \in DOMAIN arrived : conns[arrived[i]] = "new"
    /\ events' = SubSeq(events, Len(handled) + 1, Len(events))
    /\ conns' = [c \in Conns |->
                   IF c \in ToSet(arrived) THEN IF endpoint.close THEN "refused" ELSE "queued"
                   ELSE conns[c]]
    /\ IF stops
       THEN \* the future completes and is dropped
            /\ endpoint' = [endpoint EXCEPT !.incoming = queue, !.senders = {}, !.lost = TRUE]
            /\ futures' = Notified(told, "accept")
            /\ refs' = (refs - 1) % RefModulus
       ELSE /\ endpoint' = [endpoint EXCEPT !.incoming = queue, !.senders = senders,
                                            !.driver = TRUE, !.scheduled = keep_going]
            /\ futures' = told
            /\ UNCHANGED refs
    /\ UNCHANGED <<handles, waits>>

\* The poll whose receive fails: the driver is dropped with the error
PollFails ==
    /\ ~endpoint.lost /\ endpoint.scheduled
    /\ endpoint' = [endpoint EXCEPT !.senders = {}, !.lost = TRUE, !.failed = TRUE]
    /\ futures' = Notified(futures, "accept")
    /\ refs' = (refs - 1) % RefModulus
    /\ UNCHANGED <<events, conns, handles, waits>>

\* The socket becomes readable
Readable ==
    /\ ~endpoint.lost /\ ~endpoint.scheduled
    /\ endpoint' = [endpoint EXCEPT !.scheduled = TRUE]
    /\ UNCHANGED <<events, conns, futures, handles, refs, waits>>

-----------------------------------------------------------------------------
(* The application's calls.                                                *)

\* ConnectionSet::insert: the new connection of a closed endpoint is told at once
OnInsert(c) == IF endpoint.close THEN "told" ELSE "live"

\* Endpoint::connect_with
Connect(t, c) ==
    /\ t \in handles /\ conns[c] = "new"
    /\ ~endpoint.lost /\ ~endpoint.close
    /\ endpoint' = [endpoint EXCEPT !.senders = @ \cup {c}]
    /\ conns' = [conns EXCEPT ![c] = OnInsert(c)]
    /\ UNCHANGED <<events, futures, handles, refs, waits>>

\* EndpointRef::drop, `count` being the counter before it
Dropped(count, e) == IF count > 1 THEN e ELSE Wake(e)

\* EndpointInner::accept and ::refuse (also for a dropped Incoming), which give
\* up the reference the Incoming holds

Accept(c) ==
    /\ conns[c] = "held"
    /\ conns' = [conns EXCEPT ![c] = OnInsert(c)]
    /\ endpoint' = Dropped(refs, [endpoint EXCEPT !.senders = @ \cup {c}])
    /\ refs' = (refs - 1) % RefModulus
    /\ UNCHANGED <<events, futures, handles, waits>>

Refuse(c) ==
    /\ conns[c] = "held"
    /\ conns' = [conns EXCEPT ![c] = "refused"]
    /\ endpoint' = Dropped(refs, endpoint)
    /\ refs' = (refs - 1) % RefModulus
    /\ UNCHANGED <<events, futures, handles, waits>>

\* Endpoint::close
CloseEndpoint(t) ==
    /\ t \in handles /\ ~endpoint.close
    /\ conns' = [c \in Conns |->
                   IF c \in endpoint.senders /\ conns[c] = "live" THEN "told" ELSE conns[c]]
    /\ futures' = Notified(futures, "accept")
    /\ endpoint' = Wake([endpoint EXCEPT !.close = TRUE])
    /\ UNCHANGED <<events, handles, refs, waits>>

\* Endpoint::rebind_abstract, Endpoint::handle_network_change
Rebind(t) ==
    /\ t \in handles /\ endpoint.driver
    /\ endpoint' = Wake(endpoint)
    /\ UNCHANGED <<events, conns, futures, handles, refs, waits>>

\* An Endpoint is cloned for another task, or dropped
CloneEndpoint(t, u) ==
    /\ t \in handles /\ u \notin handles
    /\ handles' = handles \cup {u}
    /\ refs' = (refs + 1) % RefModulus
    /\ UNCHANGED <<endpoint, events, conns, futures, waits>>

DropEndpoint(t) ==
    /\ t \in handles /\ futures[t].kind = "none"
    /\ handles' = handles \ {t}
    /\ refs' = (refs - 1) % RefModulus
    /\ endpoint' = Dropped(refs, endpoint)
    /\ UNCHANGED <<events, conns, futures, waits>>

\* Endpoint::accept and Endpoint::wait_idle: the future is created.  The latter
\* checks for connections first, under the lock.
Start(t, kind) ==
    /\ t \in handles /\ futures[t].kind = "none" /\ waits < MaxWaits
    /\ kind = "idle" => endpoint.senders # {}
    /\ futures' = [futures EXCEPT ![t] = [kind |-> kind, notified |-> FALSE, awake |-> TRUE]]
    /\ waits' = waits + 1
    /\ UNCHANGED <<endpoint, events, conns, handles, refs>>

\* Accept::poll
PollAccept(t) ==
    /\ futures[t].kind = "accept" /\ futures[t].awake
    /\ IF ~endpoint.lost /\ endpoint.incoming # <<>>
       THEN /\ futures' = [futures EXCEPT ![t] = NoFuture]
            /\ conns' = [conns EXCEPT ![Head(endpoint.incoming)] = "held"]
            /\ endpoint' = [endpoint EXCEPT !.incoming = Tail(@)]
            /\ refs' = (refs + 1) % RefModulus
       ELSE /\ futures' = [futures EXCEPT ![t] =
                 IF endpoint.lost \/ endpoint.close THEN NoFuture
                 ELSE [@ EXCEPT !.awake = FALSE, !.notified = FALSE]]
            /\ UNCHANGED <<conns, endpoint, refs>>
    /\ UNCHANGED <<events, handles, waits>>

\* wait_idle: a notification makes it check again, with a new future
PollIdle(t) ==
    /\ futures[t].kind = "idle" /\ futures[t].awake
    /\ futures' = [futures EXCEPT ![t] =
          CASE ~@.notified -> [@ EXCEPT !.awake = FALSE]
            [] @.notified /\ endpoint.senders = {} -> NoFuture
            [] @.notified /\ endpoint.senders # {} -> [@ EXCEPT !.notified = FALSE]]
    /\ UNCHANGED <<endpoint, events, conns, handles, refs, waits>>

\* A connection's driver closes it, when told to or for a reason of its own,
\* and drains it later; a connection whose channel is gone is dropped
ConnCloses(c) ==
    /\ conns[c] \in {"live", "told"}
    /\ conns' = [conns EXCEPT ![c] = "closed"]
    /\ UNCHANGED <<endpoint, events, futures, handles, refs, waits>>

ConnDrained(c) ==
    /\ conns[c] = "closed"
    /\ conns' = [conns EXCEPT ![c] = "ended"]
    /\ events' = Append(events, c)
    /\ endpoint' = [endpoint EXCEPT !.scheduled = ~endpoint.lost]
    /\ UNCHANGED <<futures, handles, refs, waits>>

Arrivals == {<<>>} \cup {<<c>> : c \in Conns}

Next ==
    \/ \E arrived \in Arrivals, more \in BOOLEAN : Poll(arrived, more)
    \/ PollFails
    \/ Readable
    \/ \E t \in Tasks, c \in Conns : Connect(t, c)
    \/ \E c \in Conns : Accept(c)
    \/ \E c \in Conns : Refuse(c)
    \/ \E t \in Tasks : CloseEndpoint(t)
    \/ \E t \in Tasks : Rebind(t)
    \/ \E t, u \in Tasks : CloneEndpoint(t, u)
    \/ \E t \in Tasks : DropEndpoint(t)
    \/ \E t \in Tasks, kind \in {"accept", "idle"} : Start(t, kind)
    \/ \E t \in Tasks : PollAccept(t)
    \/ \E t \in Tasks : PollIdle(t)
    \/ \E c \in Conns : ConnCloses(c)
    \/ \E c \in Conns : ConnDrained(c)

Spec == Init /\ [][Next]_vars

-----------------------------------------------------------------------------
(* What the async endpoint promises.                                       *)

Sleeps(t, kind) == futures[t].kind = kind /\ ~futures[t].awake

(***************************************************************************)
(* A task sleeping in `accept` has nothing to accept on an endpoint that is  *)
(* open and driven, and one sleeping in `wait_idle` has a connection to wait *)
(* for while the driver runs, in whatever order the attempts, the closes and  *)
(* the other tasks' accepts come.                                            *)
(***************************************************************************)
NoLostEndpointWait ==
    \A t \in Tasks :
        /\ Sleeps(t, "accept") => /\ ~endpoint.lost /\ ~endpoint.close
                                  /\ endpoint.incoming = <<>>
        /\ Sleeps(t, "idle") /\ ~futures[t].notified => endpoint.senders # {} \/ endpoint.lost

(***************************************************************************)
(* The endpoint's driver sleeps only with nothing to handle and no reason to *)
(* stop - the last handle dropped, or the endpoint closed, and no connection *)
(* left - and with its waker stored for the next call; and once the endpoint *)
(* is closed no connection it knows, accepted before or after, has not been   *)
(* told to close.                                                            *)
(***************************************************************************)
EndpointShutsDown ==
    /\ ~endpoint.lost /\ ~endpoint.scheduled =>
          /\ events = <<>> /\ endpoint.driver
          /\ ~(endpoint.senders = {} /\ (refs = 0 \/ endpoint.close))
    /\ endpoint.close => \A c \in endpoint.senders : conns[c] # "live"

\* While the driver runs nobody sleeps while there is something for it: neither a
\* task in one of the endpoint's futures nor the driver.  A driver that is gone leaves
\* no task in accept asleep, but perhaps some in wait_idle (IdleReached).
EndpointServed == NoLostEndpointWait /\ EndpointShutsDown

(***************************************************************************)
(* The documentation of `wait_idle`: "Wait for all connections on the         *)
(* endpoint to be cleanly shut down".  A task sleeping in it has a connection *)
(* that is still to end or whose end is about to be handled.                  *)
(***************************************************************************)
IdleReached ==
    \A t \in Tasks : Sleeps(t, "idle") /\ ~futures[t].notified =>
        \E c \in endpoint.senders : conns[c] # "ended" \/ ~endpoint.lost
=============================================================================
