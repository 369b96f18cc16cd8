------------------------------- MODULE Driver -------------------------------
(***************************************************************************)
(* The async face of one connection: the task that drives the protocol     *)
(* state, the futures application tasks await on it, and the counted       *)
(* handles whose last one closes it.  Everything the mutex of              *)
(* `ConnectionInner` protects is the record `conn`; a step that runs under  *)
(* the lock is one action.  The protocol state itself is abstracted to what *)
(* the driver sees of it: whether a wait can complete, the events and the   *)
(* datagrams it has queued, and whether it is closed or drained.            *)
(***************************************************************************)
EXTENDS Integers, Sequences, FiniteSets

CONSTANTS
    Tasks,        \* application tasks
    First,        \* the task that created the connection
    None,         \* no task
    Scenarios,    \* the waits and the packets of an instance, and their bounds
    Cancelled,    \* the waits whose future may be dropped before it completes
    MaxTransmit,  \* MAX_TRANSMIT_DATAGRAMS
    MaxOut,       \* bound on queued datagrams
    RefModulus    \* the reference counter wraps at this value

VARIABLES
    conn,         \* what the lock protects, and the tasks' wake-up flags
    channel,      \* conn_events: what the endpoint has sent to this driver
    endpoint,     \* "up", or "gone" when its driver has ended
    handles,      \* the handle each task holds
    refs,         \* Shared::ref_count
    releasing,    \* tasks between the counter and the lock in ConnectionRef::drop
    told,         \* Drained events the endpoint has been sent
    left          \* the scenario, with the packets and the calls still to come

vars == <<conn, channel, endpoint, handles, refs, releasing, told, left>>

\* Waits on a Notify of `Shared` that is notified for all its waiters
Datagrams == {"readDatagram", "sendDatagram"}
Notifies == {"open", "accept", "confirmed", "closed", "stopped"} \cup Datagrams

\* Waits on a waker stored under the stream's id
Wakers == {"write", "read"}

\* Waits on a channel whose sender is kept until the one message is sent
Channels == {"connecting", "handshake", "onClosed", "openPath"}

\* Waits whose condition the protocol state decides
Resources == {"open", "accept", "stopped", "write", "read"} \cup Datagrams

NoFuture == [kind |-> "none", early |-> FALSE, notified |-> FALSE, awake |-> FALSE]

Errors == {"none", "lost", "closed", "internal"}

TypeOK ==
    /\ conn.state \in {"handshaking", "established", "closed", "drained"}
    /\ conn.ready \subseteq Resources \cup {"handshake"}
    /\ conn.error \in Errors
    /\ conn.out \in 0..MaxOut + 1
    /\ conn.blocked \in [Wakers -> Tasks \cup {None}]
    /\ \A t \in Tasks : conn.futures[t].kind \in Notifies \cup Wakers \cup Channels \cup {"none"}
    /\ handles \in [Tasks -> {"none", "strong", "upgraded"}]
    /\ refs \in 0..RefModulus - 1
    /\ told \in 0..2

\* Connecting::new: the driver's clone is counted, the first handle is not
Init ==
    /\ left \in Scenarios
    /\ conn = [state |-> "handshaking", zero_rtt |-> left.zero_rtt,
               ready |-> {}, events |-> <<>>, out |-> 0, drained |-> FALSE,
               error |-> "none", connected |-> FALSE, confirmed |-> FALSE,
               on_connected |-> TRUE, on_handshake_data |-> TRUE,
               handshake_data_ready |-> TRUE,
               blocked |-> [k \in Wakers |-> None],
               on_closed |-> {}, open_path |-> FALSE, buffered |-> FALSE,
               driver |-> FALSE, scheduled |-> TRUE, alive |-> TRUE,
               failed |-> FALSE, freed |-> FALSE,
               futures |-> [t \in Tasks |-> NoFuture], panicked |-> FALSE]
    /\ channel = <<>>
    /\ endpoint = "up"
    /\ handles = [t \in Tasks |-> IF t = First THEN "strong" ELSE "none"]
    /\ refs = 1
    /\ releasing = {}
    /\ told = 0

IsClosed(c) == c.state \in {"closed", "drained"}

-----------------------------------------------------------------------------
(* Waking.                                                                 *)

\* State::wake
Wake(c) == IF c.driver THEN [c EXCEPT !.driver = FALSE, !.scheduled = TRUE] ELSE c

\* notify_waiters, or a message on a channel, for every future in `who`
Notified(c, who) ==
    [c EXCEPT !.futures = [t \in Tasks |->
        IF t \in who THEN [c.futures[t] EXCEPT !.notified = TRUE, !.awake = TRUE]
                     ELSE c.futures[t]]]

Waiting(c, kinds) == {t \in Tasks : c.futures[t].kind \in kinds}

\* wake_stream: the stored waker is taken and its task woken
WakeStream(c, k) ==
    IF c.blocked[k] = None THEN c
    ELSE [c EXCEPT !.blocked[k] = None, !.futures[c.blocked[k]].awake = TRUE]

WakeStreams(c) == WakeStream(WakeStream(c, "write"), "read")

\* Mutant: the waits for a stream to be stopped are left out
TerminateMost(c, reason) ==
    LET woken == Notified(WakeStreams(c),
                   Waiting(c, (Notifies \ {"stopped"}) \cup {"connecting", "handshake"})
                     \cup c.on_closed)
    IN  [woken EXCEPT !.error = reason, !.on_handshake_data = FALSE,
                      !.on_connected = FALSE, !.on_closed = {}]

\* State::terminate, for every kind of waiter it knows
Terminate(c, reason) ==
    LET woken == Notified(WakeStreams(c),
                   Waiting(c, Notifies \cup {"connecting", "handshake"}) \cup c.on_closed)
    IN  [woken EXCEPT !.error = reason, !.on_handshake_data = FALSE,
                      !.on_connected = FALSE, !.on_closed = {}]

\* State::close, with Connection::close of the protocol state
Close(c) ==
    Wake(Terminate(IF IsClosed(c) THEN c
                   ELSE [c EXCEPT !.state = "closed", !.out = c.out + 1],
                   "closed"))

-----------------------------------------------------------------------------
(* The driver.                                                             *)

\* handle_event for one datagram or endpoint event: what the protocol state
\* makes of it (it ignores packets once closed, except that a stateless reset
\* ends a closed connection)
Handled(c, packet) ==
    CASE packet = "close" -> Close(c)
      [] packet = "reset" ->
           IF c.state = "drained" THEN c
           ELSE [c EXCEPT !.state = "drained", !.drained = TRUE, !.out = 0,
                          !.events = Append(c.events, "lost")]
      [] packet = "peerClose" /\ ~IsClosed(c) ->
           [c EXCEPT !.state = "closed", !.out = c.out + 1,
                     !.events = Append(c.events, "lost")]
      [] packet = "hello" /\ c.state = "handshaking" /\ "handshake" \notin c.ready ->
           [c EXCEPT !.ready = c.ready \cup {"handshake"},
                     !.events = Append(c.events, "handshake")]
      [] packet \in {"accepted", "rejected"} /\ c.state = "handshaking" ->
           [c EXCEPT !.state = "established", !.events = Append(c.events, "connected"),
                     !.ready = c.ready \cup {"handshake"},
                     !.zero_rtt = IF c.zero_rtt = "none" THEN "none" ELSE packet]
      [] packet = "done" /\ c.state = "established" ->
           [c EXCEPT !.events = Append(c.events, "confirmed")]
      [] packet = "pathResponse" /\ c.state = "established" ->
           [c EXCEPT !.events = Append(c.events, "openPath")]
      [] packet \in Resources \ c.ready /\ c.state = "established" ->
           [c EXCEPT !.ready = c.ready \cup {packet}, !.events = Append(c.events, packet)]
      [] OTHER -> c

RECURSIVE HandledAll(_, _)
HandledAll(c, queue) ==
    IF queue = <<>> THEN c ELSE HandledAll(Handled(c, Head(queue)), Tail(queue))

\* A client whose early data was not accepted wakes the streams that carry it
RejectsEarly(c) == c.zero_rtt # "accepted"

\* forward_app_events for one event
Forwarded(c, event) ==
    CASE event = "lost" -> Terminate(c, "lost")
      [] event = "handshake" ->
           [Notified(c, IF c.on_handshake_data THEN Waiting(c, {"handshake"}) ELSE {})
              EXCEPT !.on_handshake_data = FALSE]
      [] event = "connected" ->
           LET told1 == [Notified(c, IF c.on_connected THEN Waiting(c, {"connecting"}) ELSE {})
                           EXCEPT !.connected = TRUE, !.on_connected = FALSE]
           IN  IF RejectsEarly(c) THEN Notified(WakeStreams(told1), Waiting(c, {"stopped"}))
               ELSE told1
      [] event = "confirmed" -> [Notified(c, Waiting(c, {"confirmed"})) EXCEPT !.confirmed = TRUE]
      [] event = "openPath" ->
           [Notified(c, IF c.open_path THEN Waiting(c, {"openPath"}) ELSE {})
              EXCEPT !.open_path = FALSE]
      [] event = "stopped" -> WakeStream(Notified(c, Waiting(c, {"stopped"})), "write")
      [] event \in Wakers -> WakeStream(c, event)
      [] event \in {"open", "accept"} \cup Datagrams -> Notified(c, Waiting(c, {event}))

RECURSIVE ForwardedAll(_)
ForwardedAll(c) ==
    IF c.events = <<>> THEN c
    ELSE ForwardedAll(Forwarded([c EXCEPT !.events = Tail(c.events)], Head(c.events)))

\* drive_transmit: the socket takes what the loop offers, is full, or fails
Transmitted(c, socket) ==
    LET sent == IF c.out < MaxTransmit THEN c.out ELSE MaxTransmit IN
    IF socket = "full"
    THEN [c EXCEPT !.buffered = TRUE, !.out = IF c.buffered THEN c.out ELSE c.out - 1]
    ELSE [c EXCEPT !.buffered = FALSE, !.out = c.out - sent]

\* drive_timer when the deadline has passed: a probe is due, or a closed
\* connection is drained and a silent one given up
TimedOut(c, expired) ==
    CASE expired = "no" \/ c.state = "drained" -> c
      [] expired = "probe" -> [c EXCEPT !.out = IF IsClosed(c) THEN c.out ELSE c.out + 1]
      [] expired = "end" ->
           [c EXCEPT !.state = "drained", !.drained = TRUE, !.out = 0,
                     !.events = IF c.state = "closed" THEN c.events
                                ELSE Append(c.events, "lost")]

\* ConnectionRef::drop of the driver once its future is dropped
DriverEnded(c, count) ==
    LET ended == [c EXCEPT !.alive = FALSE, !.scheduled = FALSE] IN
    IF count > 1 \/ IsClosed(ended) THEN ended ELSE Close(ended)

\* Mutant: the endpoint is told again on the drop
TellsOnDropAgain(c) == IsClosed(c)

\* Drop for State: the endpoint is told unless the protocol state has done so
TellsOnDrop(c) == c.state # "drained"

Freed(c) ==
    [c EXCEPT !.freed = TRUE,
              !.panicked = c.panicked \/ (c.on_closed # {} /\ c.error = "none"),
              !.futures = Notified(c, c.on_closed).futures, !.on_closed = {}]

\* The references left once `gone` (tasks, or the driver) has let go
Unreferenced(held, alive, dropping) ==
    (\A t \in Tasks : held[t] = "none") /\ ~alive /\ dropping = {}

\* A reference is gone, `sent` Drained events having been sent: the state is
\* dropped with the last one
LetGo(c, held, dropping, sent) ==
    IF Unreferenced(held, c.alive, dropping)
    THEN /\ conn' = Freed(c)
         /\ told' = IF endpoint = "up" /\ TellsOnDrop(c) THEN sent + 1 ELSE sent
    ELSE conn' = c /\ told' = sent

\* The end of ConnectionDriver::poll once everything is forwarded
Finish(c, keep_going) ==
    LET forwarded == [c EXCEPT !.drained = FALSE]
        sent == IF c.drained /\ endpoint = "up" THEN told + 1 ELSE told
    IN
    IF c.state # "drained"
    THEN /\ conn' = IF keep_going THEN [forwarded EXCEPT !.scheduled = TRUE]
                    ELSE [forwarded EXCEPT !.driver = TRUE]
         /\ UNCHANGED <<refs, told>>
    ELSE /\ refs' = (refs - 1) % RefModulus
         /\ LetGo(DriverEnded([forwarded EXCEPT !.panicked = @ \/ c.error = "none"], refs),
                  handles, releasing, sent)

\* ConnectionDriver::poll: the whole poll runs under the lock
DriverPoll(socket, expired) ==
    LET started == HandledAll([conn EXCEPT !.scheduled = FALSE], channel)
        busy == started.out > 0 \/ started.buffered
        sent == Transmitted(started, socket)
        keep_going == \/ socket = "ok" /\ started.out >= MaxTransmit
                      \/ expired # "no"
    IN
    /\ conn.alive /\ conn.scheduled
    /\ endpoint = "up"
    /\ socket = "full" => busy
    /\ expired = "probe" => sent.out < MaxOut
    /\ channel' = <<>>
    /\ Finish(ForwardedAll(TimedOut(sent, expired)), keep_going)
    /\ UNCHANGED <<endpoint, handles, releasing, left>>

\* The poll whose transmit fails: the driver ends with the error, without
\* forwarding the events it has just produced
DriverFails ==
    LET started == HandledAll([conn EXCEPT !.scheduled = FALSE], channel) IN
    /\ conn.alive /\ conn.scheduled
    /\ endpoint = "up"
    /\ started.out > 0 \/ started.buffered
    /\ channel' = <<>>
    /\ refs' = (refs - 1) % RefModulus
    /\ LetGo(DriverEnded([started EXCEPT !.failed = TRUE], refs), handles, releasing, told)
    /\ UNCHANGED <<endpoint, handles, releasing, left>>

\* The poll that finds the endpoint's end of the channel gone
DriverAbandoned ==
    LET started == HandledAll([conn EXCEPT !.scheduled = FALSE], channel) IN
    /\ conn.alive /\ conn.scheduled
    /\ endpoint = "gone"
    /\ channel' = <<>>
    /\ refs' = (refs - 1) % RefModulus
    /\ LetGo(DriverEnded(Terminate(started, "internal"), refs), handles, releasing, told)
    /\ UNCHANGED <<endpoint, handles, releasing, left>>

\* The timer or the socket the driver has registered with wakes it
DriverWoken ==
    /\ conn.alive /\ ~conn.scheduled
    /\ conn' = [conn EXCEPT !.scheduled = TRUE]
    /\ UNCHANGED <<channel, endpoint, handles, refs, releasing, told, left>>

\* The endpoint sends this connection an event, waking the driver
Deliver(packet) ==
    /\ endpoint = "up" /\ conn.alive
    /\ packet \in left.packets /\ left.arrivals > 0
    /\ left' = [left EXCEPT !.arrivals = @ - 1]
    /\ channel' = Append(channel, packet)
    /\ conn' = [conn EXCEPT !.scheduled = TRUE]
    /\ UNCHANGED <<endpoint, handles, refs, releasing, told>>

\* Drop for EndpointDriver
EndpointGone ==
    /\ endpoint = "up"
    /\ endpoint' = "gone"
    /\ conn' = [conn EXCEPT !.scheduled = conn.alive]
    /\ UNCHANGED <<channel, handles, refs, releasing, told, left>>

-----------------------------------------------------------------------------
(* The futures.                                                            *)

\* Bound: one more call of the application
Call == left.calls > 0 /\ left' = [left EXCEPT !.calls = @ - 1]

Holds(t) == handles[t] # "none"

\* Connecting::into_0rtt, or the handshake is complete
InUse == conn.connected \/ conn.zero_rtt # "none"

\* The future a task is given when it starts to wait.  `closed` and
\* `handshake_confirmed` check the error, `on_closed` registers its sender and
\* `open_path` asks for the path, all under the lock.
Start(t, k) ==
    LET fresh == [kind |-> k, early |-> ~conn.connected, notified |-> FALSE, awake |-> TRUE]
        c == [conn EXCEPT !.futures[t] = fresh]
    IN
    /\ k \in left.kinds
    /\ Holds(t) /\ conn.futures[t].kind = "none"
    /\ CASE k \in {"open", "accept", "stopped"} \cup Datagrams -> InUse /\ conn' = c
         [] k \in Wakers ->
              /\ InUse /\ conn.blocked[k] \in {None, t}
              /\ Waiting(conn, {k}) = {}
              /\ conn' = c
         [] k = "connecting" -> t = First /\ Waiting(conn, {k}) = {} /\ ~conn.connected
                                 /\ conn' = IF conn.on_connected THEN c
                                            ELSE [c EXCEPT !.futures[t].notified = TRUE]
         [] k = "handshake" ->
              /\ t = First /\ ~conn.connected
              /\ conn' = [c EXCEPT
                   !.handshake_data_ready = FALSE,
                   !.futures[t].notified = ~conn.handshake_data_ready \/ ~conn.on_handshake_data]
         [] k = "closed" -> conn.error = "none" /\ conn' = c
         [] k = "confirmed" -> conn.error = "none" /\ ~conn.confirmed /\ conn' = c
         [] k = "onClosed" ->
              conn' = IF conn.error # "none" THEN [c EXCEPT !.futures[t].notified = TRUE]
                      ELSE [c EXCEPT !.on_closed = @ \cup {t}]
         [] k = "openPath" ->
              /\ conn.connected /\ ~IsClosed(conn) /\ ~conn.open_path
              /\ conn.out < MaxOut
              /\ conn' = Wake([c EXCEPT !.open_path = TRUE, !.out = @ + 1])
    /\ UNCHANGED <<channel, endpoint, handles, refs, releasing, told>>
    /\ Call

\* State::check_0rtt fails for a stream opened before the handshake was done
Rejected(c, t) == c.futures[t].early /\ c.zero_rtt = "rejected"

\* Whether a poll under the lock completes the future
Completes(c, t) ==
    LET k == c.futures[t].kind IN
    IF k \in Resources
    THEN k \in c.ready \/ c.error # "none" \/ (Rejected(c, t) /\ k \in Wakers \cup {"stopped"})
    ELSE c.futures[t].notified

\* What a completed wait expects to find
Expected(c, t) ==
    CASE c.futures[t].kind = "connecting" -> c.connected \/ c.error # "none"
      [] c.futures[t].kind = "handshake" -> c.error # "none" \/ "handshake" \in c.ready
      [] c.futures[t].kind \in {"closed", "onClosed"} -> c.error # "none"
      [] OTHER -> TRUE

\* What completing a wait takes from the protocol state; what it leaves to be
\* sent, be it credit, wakes the driver
Taken(c, k) ==
    IF k \notin c.ready \ {"stopped", "handshake"} THEN c
    ELSE LET taken == [c EXCEPT !.ready = @ \ {k}] IN
         IF k \in {"read", "accept", "write", "sendDatagram"} /\ ~IsClosed(c) /\ c.out < MaxOut
         THEN Wake([taken EXCEPT !.out = @ + 1]) ELSE taken

\* A poll that is pending registers the task: with a new Notified when the old
\* one had fired, or under the stream's id.  `stopped` does not renew its Notified:
\* a poll that was notified for nothing would try again and again.
Parked(c, t) ==
    LET k == c.futures[t].kind
        parked == [c EXCEPT !.futures[t].awake = FALSE, !.futures[t].notified = FALSE]
    IN  IF k = "stopped" /\ c.futures[t].notified THEN c
        ELSE IF k \in Wakers THEN [parked EXCEPT !.blocked[k] = t] ELSE parked

\* A task polls the future it awaits
PollFuture(t) ==
    /\ conn.futures[t].kind # "none" /\ conn.futures[t].awake
    /\ conn' = IF Completes(conn, t)
               THEN [Taken(conn, conn.futures[t].kind) EXCEPT
                       !.futures[t] = NoFuture,
                       !.panicked = @ \/ ~Expected(conn, t)]
               ELSE Parked(conn, t)
    /\ UNCHANGED <<channel, endpoint, handles, refs, releasing, told, left>>

\* Mutant: a handle made from an existing reference is not counted
Uncounted(count) == count

\* ConnectionRef::from_arc
Counted(count) == (count + 1) % RefModulus

\* A task drops the future it awaits.  OnClosed::drop goes through a counted
\* reference of its own; only for a task without a handle can that one be the last
\* (Release drops it).
Cancel(t) ==
    LET upgrades == /\ conn.futures[t].kind = "onClosed" /\ ~Holds(t)
                    /\ ~Unreferenced(handles, conn.alive, releasing)
    IN
    /\ conn.futures[t].kind \in Cancelled /\ t \notin releasing
    /\ conn' = [conn EXCEPT !.futures[t] = NoFuture, !.on_closed = @ \ {t}]
    /\ handles' = IF upgrades THEN [handles EXCEPT ![t] = "upgraded"] ELSE handles
    /\ refs' = IF upgrades THEN Counted(refs) ELSE refs
    /\ UNCHANGED <<channel, endpoint, releasing, told>>
    /\ Call

-----------------------------------------------------------------------------
(* The handles.                                                            *)

\* A call under lock_and_wake that queues frames
Queued(c) == Wake([c EXCEPT !.out = @ + 1])

AppSends(t) ==
    /\ Holds(t) /\ conn.connected /\ conn.error = "none"
    /\ conn.out < MaxOut
    /\ conn' = Queued(conn)
    /\ UNCHANGED <<channel, endpoint, handles, refs, releasing, told>>
    /\ Call

\* Connection::close
AppCloses(t) ==
    /\ Holds(t) /\ conn.error = "none"
    /\ conn' = Close(conn)
    /\ UNCHANGED <<channel, endpoint, handles, refs, releasing, told>>
    /\ Call

\* A handle is cloned for another task
CloneHandle(t, u) ==
    /\ Holds(t) /\ handles[u] = "none" /\ u \notin releasing
    /\ InUse
    /\ handles' = [handles EXCEPT ![u] = handles[t]]
    /\ refs' = Counted(refs)
    /\ UNCHANGED <<conn, channel, endpoint, releasing, told>>
    /\ Call

\* WeakConnectionHandle::upgrade, while anything still refers to the connection
Upgrade(u) ==
    /\ handles[u] = "none" /\ u \notin releasing
    /\ InUse
    /\ ~Unreferenced(handles, conn.alive, releasing)
    /\ handles' = [handles EXCEPT ![u] = "upgraded"]
    /\ refs' = Counted(refs)
    /\ UNCHANGED <<conn, channel, endpoint, releasing, told>>
    /\ Call

\* ConnectionRef::drop: the counter
Release(t) ==
    /\ Holds(t) /\ conn.futures[t].kind \in {"none", "onClosed"}
    /\ handles' = [handles EXCEPT ![t] = "none"]
    /\ refs' = (refs - 1) % RefModulus
    /\ IF refs > 1
       THEN LetGo(conn, handles', releasing, told) /\ UNCHANGED releasing
       ELSE releasing' = releasing \cup {t} /\ UNCHANGED <<conn, told>>
    /\ UNCHANGED <<channel, endpoint, left>>

\* ConnectionRef::drop: the lock, and the implicit close
ReleaseLast(t) ==
    /\ t \in releasing
    /\ releasing' = releasing \ {t}
    /\ LetGo(IF IsClosed(conn) THEN conn ELSE Close(conn), handles, releasing', told)
    /\ UNCHANGED <<channel, endpoint, handles, refs, left>>

Packets == {"hello", "accepted", "rejected", "done", "pathResponse", "peerClose", "reset", "close"} \cup Resources

Next ==
    \/ \E socket \in {"ok", "full"}, expired \in {"no", "probe", "end"} : DriverPoll(socket, expired)
    \/ DriverFails
    \/ DriverAbandoned
    \/ DriverWoken
    \/ \E packet \in Packets : Deliver(packet)
    \/ EndpointGone
    \/ \E t \in Tasks, k \in Notifies \cup Wakers \cup Channels : Start(t, k)
    \/ \E t \in Tasks : PollFuture(t)
    \/ \E t \in Tasks : Cancel(t)
    \/ \E t \in Tasks : AppSends(t)
    \/ \E t \in Tasks : AppCloses(t)
    \/ \E t, u \in Tasks : CloneHandle(t, u)
    \/ \E u \in Tasks : Upgrade(u)
    \/ \E t \in Tasks : Release(t)
    \/ \E t \in Tasks : ReleaseLast(t)

Spec == Init /\ [][Next]_vars

-----------------------------------------------------------------------------
(* What the async connection promises.                                     *)

\* The future of `t` has been polled and waits to be woken
Sleeps(t) == conn.futures[t].kind # "none" /\ ~conn.futures[t].awake

(***************************************************************************)
(* No wait outlives what it waits for.  A sleeping future is still          *)
(* registered with what will wake it: once the connection has an error none  *)
(* sleeps, whatever it waited for and whenever it was created; a wait the    *)
(* protocol state could satisfy has its event queued; the handshake waits    *)
(* sleep only while their sender is kept, and the waits of rejected early    *)
(* data do not sleep.  Exceptions: a wait for a path to open may outlive the *)
(* connection (OpenPathWoken), and after a failure of the socket an event    *)
(* that is queued counts although no driver is left to forward it.           *)
(***************************************************************************)
NoLostWaiter ==
    \A t \in Tasks : Sleeps(t) =>
        LET k == conn.futures[t].kind IN
        /\ k # "openPath" => conn.error = "none"
        /\ k \in Resources /\ k \in conn.ready => \E i \in DOMAIN conn.events : conn.events[i] = k
        /\ k \in Wakers \cup {"stopped"} /\ Rejected(conn, t) =>
              \E i \in DOMAIN conn.events : conn.events[i] = "connected"
        /\ k = "confirmed" => ~conn.confirmed
        /\ k = "connecting" => conn.on_connected
        /\ k = "handshake" => conn.on_handshake_data
        /\ k = "onClosed" => t \in conn.on_closed

(***************************************************************************)
(* The driver sleeps only when it has nothing to do and something to wake   *)
(* it: everything received is processed, every event forwarded, whatever is *)
(* queued waits for the socket alone, and its waker is stored so that the    *)
(* next call on a handle reaches it.                                         *)
(***************************************************************************)
DriverNotNeeded ==
    conn.alive /\ ~conn.scheduled =>
        /\ channel = <<>> /\ conn.events = <<>> /\ ~conn.drained
        /\ conn.out > 0 => conn.buffered
        /\ endpoint = "up"
        /\ conn.driver

\* Nobody sleeps while there is something for it: neither a task of the
\* application, but for a wait for a path to open once the connection has ended and
\* for the waits of a connection whose socket failed, nor the driver.
WaitersServed == NoLostWaiter /\ DriverNotNeeded

(***************************************************************************)
(* The connection is closed exactly when its last handle goes: with no       *)
(* handle left and none being dropped it is closed, although the counter is   *)
(* decremented before the lock is taken; and the implicit close never hits a *)
(* connection whose driver runs while a handle that was not made from a weak  *)
(* one is held.                                                              *)
(***************************************************************************)
LastHandleCloses ==
    [][/\ (\A t \in Tasks : handles'[t] = "none") /\ releasing' = {} => IsClosed(conn)'
       /\ (\E t \in Tasks : ReleaseLast(t)) /\ conn.alive /\ ~IsClosed(conn) =>
             \A t \in Tasks : handles[t] # "strong"]_vars

(***************************************************************************)
(* The endpoint hears of the end of a connection exactly once, from the      *)
(* protocol state or from the drop of the last reference, so that it frees   *)
(* the handle and does not free another connection's; and none of the        *)
(* expectations on the way (an error when drained, when a close is awaited,   *)
(* when the last sender is dropped) fails - for a driver whose socket has not *)
(* failed.                                                                   *)
(***************************************************************************)
EndpointToldOnce ==
    /\ told <= 1
    /\ ~conn.failed => /\ conn.freed /\ endpoint = "up" => told = 1
                       /\ ~conn.panicked

(***************************************************************************)
(* The comment of `OnClosed::poll`: "The `expect` is safe because             *)
(* `State::drop` ensures that all senders are triggered before being          *)
(* dropped", and the field comment of `error`: "Always set to Some before the *)
(* connection becomes drained".  The drop of the state finds a reason.        *)
(***************************************************************************)
DropHasReason == ~conn.panicked

(***************************************************************************)
(* The comment of `terminate`: "Used to wake up all blocked futures when the *)
(* connection becomes closed for any reason".  A task waiting for a path to   *)
(* open is woken too.                                                        *)
(***************************************************************************)
OpenPathWoken ==
    \A t \in Tasks : Sleeps(t) /\ conn.futures[t].kind = "openPath" => conn.error = "none"

(***************************************************************************)
(* The expectation of `Connecting::handshake_data` that its notification is  *)
(* never spurious, for a caller that drops the future and asks again.        *)
(***************************************************************************)
NoSpuriousHandshake == ~conn.panicked
=============================================================================
