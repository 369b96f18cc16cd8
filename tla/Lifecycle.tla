----------------------------- MODULE Lifecycle -----------------------------
(***************************************************************************)
(* The life of a connection, at both of its ends: the handshake with its   *)
(* three packet number spaces, and the closed, draining and drained states *)
(* it goes through to its end (noq-proto/src/connection/state.rs and the   *)
(* handlers of connection/mod.rs that drive it).                           *)
(*                                                                         *)
(* The cryptographic messages are pieces, each of which fills a packet:    *)
(* the client's hello, the server's hello, the server's flight (a set of   *)
(* pieces), the client's finish and HANDSHAKE_DONE; further *)
(* pieces are probes, 0-RTT data and the application's pings.  A packet    *)
(* travels alone: the code may coalesce those of one poll_transmit, and a  *)
(* network that loses or reorders each of them allows more.  Sequencing    *)
(* within a space and loss detection are the subject of Recovery; here a   *)
(* probe timeout retransmits what is outstanding in the space it is for.   *)
(* TLS, the endpoint's stateless answers and the network are external.     *)
(***************************************************************************)
EXTENDS Naturals, FiniteSets, Sequences

CONSTANTS
    Credit,       \* packets a server may send for one it has received
    Scenarios     \* the kind of server, what may happen, and how often

Side == {"client", "server"}
Peer(s) == IF s = "client" THEN "server" ELSE "client"
Space == {"Initial", "Handshake", "Data"}

VARIABLES
    conn,    \* of each side: State, highest_space, keys and the flags below
    data,    \* of each side: the pieces pending, in flight, received; acks
    timers,  \* of each side: the timers that are armed
    path,    \* of the server: is the path validated, what it may still send
    net,     \* the packets under way
    known,   \* the sides whose endpoint still has the connection
    lost,    \* of each side: the reasons its ConnectionLost events gave
    queued,  \* of each side: the endpoint events since the connection drained
    server,  \* does its endpoint ask for a Retry, the pieces of its flight
    budget,  \* how often each fault or request of the application can occur
    panicked \* an assertion or an unwrap of the code failed

vars == <<conn, data, timers, path, net, known, lost, queued, server, budget,
          panicked>>

Event == {"lose", "dup", "early", "close", "bad", "ping", "version", "crash",
          "raise", "zeroRtt"}
Flight == server.flight
SpaceOf(piece) ==
    CASE piece \in {"CH", "SH", "probeInitial"} -> "Initial"
      [] piece \in {"E1", "E2", "E3", "FIN", "probeHandshake"} -> "Handshake"
      [] OTHER -> "Data"
Of(S, space) == {x \in S : SpaceOf(x) = space}

State(st) == [st |-> st, error |-> "none", local |-> FALSE, read |-> FALSE]

Spend(event) == budget[event] > 0 /\ budget' = [budget EXCEPT ![event] = @ - 1]

(* Connection::new: the client's hello waits to be sent; the server's side *)
(* exists once its endpoint accepts the hello.  The idle timer is armed    *)
(* with the first packet that is sent or received.  A scenario may also    *)
(* start with an open connection, the handshake confirmed at both ends.    *)
Fresh(st) == [state |-> State(st), highest |-> "Initial", keys |-> {"Initial"},
              closePending |-> FALSE, authed |-> 0, hello |-> FALSE,
              token |-> FALSE, reset |-> FALSE, validated |-> FALSE]
Empty == [pend |-> {}, flight |-> {}, got |-> {}, acks |-> {}]
Open == [Fresh("established") EXCEPT !.highest = "Data", !.keys = {"Data"}, !.authed = 2,
                                     !.reset = TRUE, !.validated = TRUE]
Init ==
    \E sc \in Scenarios :
        /\ conn = [s \in Side |-> IF sc.open THEN Open
                     ELSE IF s = "client" THEN [Fresh("handshake") EXCEPT !.hello = TRUE]
                     ELSE Fresh("none")]
        /\ data = [s \in Side |-> IF s = "client" /\ ~sc.open
                     THEN [Empty EXCEPT !.pend = {"CH"}] ELSE Empty]
        /\ timers = [s \in Side |-> IF sc.open THEN {"Idle"} ELSE {}]
        /\ path = [validated |-> sc.open, credit |-> 0]
        /\ net = {}
        /\ known = IF sc.open THEN Side ELSE {"client"}
        /\ lost = [s \in Side |-> <<>>]
        /\ queued = [s \in Side |-> <<>>]
        /\ server = [retry |-> sc.retry, flight |-> sc.flight]
        /\ budget = sc.budget
        /\ panicked = FALSE

------------------------------------------------------------------------------
(* State: its five inner states and the transitions between them.          *)

IsClosed(x) == x.st \in {"closed", "draining", "drained"}
IsHandshaking(x) == x.st = "handshake"

(* as_closed and the conversions of CloseReason *)
Unread(x) == x.st = "closed" /\ ~x.read

(* move_to_closed, move_to_closed_local *)
MoveToClosed(x, reason, isLocal) ==
    [st |-> "closed", error |-> reason, local |-> isLocal, read |-> FALSE]

(* move_to_draining: the error of a closed connection that nobody has read *)
(* is kept, unless the application asked for the close itself.             *)
\* Mutant: the closed connection's own error is forgotten.
MoveToDrainingForgets(x, error) ==
    [st |-> "draining", error |-> error, local |-> x.local, read |-> FALSE]
MoveToDraining(x, error) ==
    [st |-> "draining", local |-> x.local, read |-> FALSE,
     error |-> IF error = "none" /\ Unread(x) /\ ~x.local THEN x.error ELSE error]

(* move_to_drained: an error that is given replaces everything; otherwise  *)
(* an error that was not read yet stays to be read.                        *)
MoveToDrained(x, error) ==
    IF error # "none"
      THEN [st |-> "drained", error |-> error, local |-> FALSE, read |-> FALSE]
      ELSE [st |-> "drained", local |-> x.local, read |-> FALSE, error |->
              IF x.st = "draining" \/ Unread(x) THEN x.error ELSE "none"]

(* take_error *)
Surfaces(x) == ~x.local /\ x.error # "none" /\ IsClosed(x) /\ ~x.read
Taken(x) == IF x.st = "closed" THEN [x EXCEPT !.read = TRUE]
            ELSE IF x.st \in {"draining", "drained"} /\ ~x.local
            THEN [x EXCEPT !.error = "none"] ELSE x
------------------------------------------------------------------------------
(* Timers. *)

(* peer_completed_handshake_address_validation *)
PeerValidated(s, c) ==
    s = "server" \/ IsClosed(c.state) \/ c.validated
    \/ ("Data" \in c.keys /\ "Handshake" \notin c.keys)

Confirmed(c) == ~IsHandshaking(c.state) /\ "Handshake" \notin c.keys
Blocked(s, p) == s = "server" /\ ~p.validated /\ p.credit = 0

(* pto_time_and_space: a client arms the timer with nothing in flight      *)
(* while the server may be waiting for its address to be validated.        *)
\* Mutant: only what is in flight arms the timer.
ProbeSpacesInFlight(s, c, d, p) ==
    {sp \in c.keys : /\ Of(d.flight, sp) # {}
                     /\ sp = "Data" => Confirmed(c)
                     /\ ~Blocked(s, p)}
ProbeSpaces(s, c, d, p) ==
    IF d.flight = {} /\ ~PeerValidated(s, c)
      THEN {IF c.highest = "Handshake" THEN "Handshake" ELSE "Initial"}
      ELSE {sp \in c.keys : /\ Of(d.flight, sp) # {}
                            /\ sp = "Data" => Confirmed(c)
                            /\ ~Blocked(s, p)}

(* set_loss_detection_timer does nothing once the connection is closed.    *)
LossTimer(s, t, c, d, p) ==
    IF IsClosed(c.state) THEN t
    ELSE IF ProbeSpaces(s, c, d, p) # {} THEN t \cup {"Pto"} ELSE t \ {"Pto"}

(* close_common, then set_close_timer *)
Closing == {"Close"}

(* discard_space: what is in flight there is no longer waited for.         *)
Discard(d, space) ==
    [d EXCEPT !.flight = @ \ Of(@, space), !.pend = @ \ Of(@, space),
              !.acks = @ \ {space}]

(* What a closed connection still holds to send or has received no longer  *)
(* matters to it.                                                          *)
Keep(s, c, d) ==
    /\ conn' = [conn EXCEPT ![s] = c]
    /\ data' = [data EXCEPT ![s] = IF IsClosed(c.state) THEN Empty ELSE d]
Known == UNCHANGED <<known, lost, server>>
------------------------------------------------------------------------------
(* Sending. *)

Packet(s, space, pieces, close) ==
    [to |-> Peer(s), pieces |-> pieces, close |-> close,
     space |-> IF space = "Data" /\ space \notin conn[s].keys THEN "ZeroRtt" ELSE space,
     token |-> conn[s].token, acks |-> Of(data[s].got, space)]

(* space_can_send: a space needs keys; 0-RTT data is sent before there are *)
(* keys of the data space.                                                 *)
CanSend(s, space) ==
    /\ space \in conn[s].keys \/ "zeroRtt" \in Of(data[s].pend, space)
    /\ Of(data[s].pend, space) # {} \/ (space \in data[s].acks /\ space \in conn[s].keys)
Lowest(S) == IF "Initial" \in S THEN "Initial"
             ELSE IF "Handshake" \in S THEN "Handshake" ELSE "Data"
First(S) == CHOOSE x \in S : TRUE

HasSent(s) == IsClosed(conn[s].state) \/ Blocked(s, path) \/ \A sp \in Space : ~CanSend(s, sp)

(* poll_transmit of an open connection: a packet of the lowest space that  *)
(* has something to send.  A client that sends its first Handshake packet  *)
(* discards the Initial space; sending arms the idle timer and, if the     *)
(* packet is ack-eliciting, the loss detection timer.                      *)
Transmit(s) ==
    /\ s \in known /\ ~panicked
    /\ ~IsClosed(conn[s].state) /\ conn[s].state.st # "none"
    /\ ~Blocked(s, path)
    /\ \E space \in {Lowest({sp \in Space : CanSend(s, sp)})} :
         /\ CanSend(s, space)
         /\ LET waiting == Of(data[s].pend, space)
                pieces == IF waiting = {} THEN {} ELSE {First(waiting)}
                first == s = "client" /\ space = "Handshake" /\ "Initial" \in conn[s].keys
                sentD == [data[s] EXCEPT !.pend = @ \ pieces, !.flight = @ \cup pieces,
                                         !.acks = @ \ {space}]
                d == IF first THEN Discard(sentD, "Initial") ELSE sentD
                c == [conn[s] EXCEPT !.keys = IF first THEN @ \ {"Initial"} ELSE @]
                p == [path EXCEPT !.credit =
                        IF s = "server" /\ ~path.validated THEN @ - 1 ELSE @]
            IN /\ Keep(s, c, d)
               /\ path' = p
               /\ timers' = [timers EXCEPT ![s] =
                    LET t == @ \cup (IF pieces # {} THEN {"Idle"} ELSE {})
                    IN IF pieces # {} \/ first THEN LossTimer(s, t, c, d, p) ELSE t]
               /\ net' = net \cup {Packet(s, space, pieces, "none")}
    /\ Known /\ UNCHANGED <<queued, budget, panicked>>

(* poll_transmit of a closed or draining connection: a CONNECTION_CLOSE in *)
(* every space that has keys.  Below the data space an application's       *)
(* reason is replaced, and a draining connection gives none.               *)
CloseFrame(x, space) ==
    IF x.st = "draining" THEN "noError"
    ELSE IF space = "Data" \/ x.error # "app" THEN x.error ELSE "transport"
TransmitClose(s) ==
    /\ s \in known /\ ~panicked
    /\ conn[s].state.st \in {"closed", "draining"} /\ conn[s].closePending
    /\ ~Blocked(s, path)
    /\ net' = net \cup {Packet(s, sp, {}, CloseFrame(conn[s].state, sp)) : sp \in conn[s].keys}
    /\ conn' = [conn EXCEPT ![s].closePending = FALSE]
    /\ path' = [path EXCEPT !.credit = IF s = "server" /\ ~path.validated THEN @ - 1 ELSE @]
    /\ Known /\ UNCHANGED <<data, timers, queued, budget, panicked>>
------------------------------------------------------------------------------
(* The application. *)

(* close, close_inner *)
AppClose(s) ==
    /\ s \in known /\ ~panicked /\ conn[s].state.st # "none"
    /\ Spend("close")
    /\ ~IsClosed(conn[s].state)
    /\ Keep(s, [conn[s] EXCEPT !.state = MoveToClosed(@, "app", TRUE),
                               !.closePending = TRUE], data[s])
    /\ timers' = [timers EXCEPT ![s] = Closing]
    /\ Known /\ UNCHANGED <<path, net, queued, panicked>>

(* A request that queues a frame, or (the client) 0-RTT data.              *)
AppPing(s) ==
    /\ s \in known /\ ~panicked /\ conn[s].state.st = "established"
    /\ Spend("ping")
    /\ data' = [data EXCEPT ![s].pend = @ \cup {"ping"}]
    /\ Known /\ UNCHANGED <<conn, timers, path, net, queued, panicked>>
AppZeroRtt ==
    /\ conn["client"].state.st = "handshake" /\ "Data" \notin conn["client"].keys
    /\ Spend("zeroRtt")
    /\ data' = [data EXCEPT !["client"].pend = @ \cup {"zeroRtt"}]
    /\ Known /\ UNCHANGED <<conn, timers, path, net, queued, panicked>>

(* set_max_concurrent_paths, issue_first_path_cids: an endpoint event is   *)
(* queued whatever the state.                                              *)
AppRaisePaths(s) ==
    /\ s \in known \/ conn[s].state.st = "drained"
    /\ conn[s].state.st \in {"established", "closed", "draining", "drained"}
    /\ Spend("raise")
    /\ queued' = [queued EXCEPT ![s] =
         IF conn[s].state.st = "drained" THEN Append(@, "NeedIdentifiers") ELSE @]
    /\ Known /\ UNCHANGED <<conn, data, timers, path, net, panicked>>

(* poll: the error of a connection that ended surfaces as ConnectionLost.  *)
Poll(s) ==
    /\ Taken(conn[s].state) # conn[s].state
    /\ lost' = [lost EXCEPT ![s] =
         IF Surfaces(conn[s].state) THEN Append(@, conn[s].state.error) ELSE @]
    /\ conn' = [conn EXCEPT ![s].state = Taken(@)]
    /\ UNCHANGED <<data, timers, path, net, known, queued, server, budget, panicked>>

(* The endpoint handles the Drained event: it forgets the connection.      *)
EndpointDrained(s) ==
    /\ s \in known /\ queued[s] # <<>> /\ Head(queued[s]) = "Drained"
    /\ known' = known \ {s}
    /\ UNCHANGED <<conn, data, timers, path, net, lost, queued, server, budget, panicked>>

(* A process ends without a word: the endpoint that replaces it knows      *)
(* nothing of the connection.                                              *)
Crash(s) ==
    /\ s \in known /\ conn[s].state.st # "none" /\ Spend("crash")
    /\ known' = known \ {s}
    /\ timers' = [timers EXCEPT ![s] = {}]
    /\ conn' = [conn EXCEPT ![s].state = State("gone")]
    /\ queued' = [queued EXCEPT ![s] = <<>>]
    /\ UNCHANGED <<data, path, net, lost, server, panicked>>
------------------------------------------------------------------------------
(* Timeouts. *)

(* on_loss_detection_timeout: what is outstanding in the space is sent     *)
(* again, or a probe if that is nothing; a server that cannot send by now  *)
(* does nothing.  It fires when everything that is *)
(* under way has arrived, but for a bounded number of early ones.          *)
PtoFires(s) ==
    /\ s \in known /\ "Pto" \in timers[s] /\ ~panicked
    /\ \/ net = {} /\ UNCHANGED budget
       \/ net # {} /\ Spend("early")
    /\ \/ \E space \in ProbeSpaces(s, conn[s], data[s], path) :
            LET out == Of(data[s].flight, space)
                d == [data[s] EXCEPT !.pend = @ \cup
                        (IF out = {} THEN {IF space = "Initial" THEN "probeInitial"
                                                                ELSE "probeHandshake"}
                                     ELSE out)]
            IN /\ data' = [data EXCEPT ![s] = d]
               /\ timers' = [timers EXCEPT ![s] = LossTimer(s, @, conn[s], d, path)]
       \/ /\ ProbeSpaces(s, conn[s], data[s], path) = {}
          /\ timers' = [timers EXCEPT ![s] = @ \ {"Pto"}]
          /\ UNCHANGED data
    /\ Known /\ UNCHANGED <<conn, path, net, queued, panicked>>

(* ConnTimer::Close, after three probe timeouts: packets still under way   *)
(* are late ones.                                                          *)
CloseFires(s) ==
    /\ s \in known /\ "Close" \in timers[s] /\ ~panicked
    /\ \/ net = {} /\ UNCHANGED budget
       \/ net # {} /\ Spend("early")
    /\ timers' = [timers EXCEPT ![s] = @ \ {"Close"}]
    /\ panicked' = (conn[s].state.st = "drained")
    /\ conn' = [conn EXCEPT ![s].state = MoveToDrained(@, "none")]
    /\ queued' = [queued EXCEPT ![s] = Append(@, "Drained")]
    /\ Known /\ UNCHANGED <<data, path, net>>

(* ConnTimer::Idle, kill.  It takes longer than the probes do, so it fires *)
(* when the other side is silent or neither has anything left to do.       *)
Silent(s) == conn[s].state.st = "gone" \/ IsClosed(conn[s].state)
Halted == net = {} /\ \A s \in Side : HasSent(s) /\ "Pto" \notin timers[s]
IdleFires(s) ==
    /\ s \in known /\ "Idle" \in timers[s] /\ ~panicked
    /\ {pk \in net : pk.to = s} = {}
    /\ Silent(Peer(s)) \/ Halted
    /\ timers' = [timers EXCEPT ![s] = {}]
    /\ Keep(s, [conn[s] EXCEPT !.state = MoveToDrained(@, "timedOut")], data[s])
    /\ queued' = [queued EXCEPT ![s] = Append(@, "Drained")]
    /\ Known /\ UNCHANGED <<path, net, budget, panicked>>
------------------------------------------------------------------------------
(* Receiving. *)

(* What the session's read_handshake and write_handshake make of a message *)
(* that was received, and write_crypto and upgrade_crypto of that: keys,   *)
(* the highest space and the pieces to send.                               *)
Tls(s, c, d) ==
    IF s = "client"
      THEN LET hello == "SH" \in d.got
               done == hello /\ Flight \subseteq d.got
               fresh == done /\ "Data" \notin c.keys
           IN [keys |-> c.keys \cup (IF hello /\ c.highest = "Initial" THEN {"Handshake"} ELSE {})
                               \cup (IF done THEN {"Data"} ELSE {}),
               highest |-> IF done THEN "Data" ELSE IF hello THEN "Handshake" ELSE c.highest,
               out |-> IF fresh THEN {"FIN"} ELSE {},
               complete |-> done]
      ELSE LET fresh == "CH" \in d.got /\ c.highest = "Initial"
           IN [keys |-> IF fresh THEN c.keys \cup {"Handshake", "Data"} ELSE c.keys,
               highest |-> IF fresh THEN "Data" ELSE c.highest,
               out |-> IF fresh THEN {"SH"} \cup Flight ELSE {},
               complete |-> "FIN" \in d.got]

NumberSpace(pk) == IF pk.space = "ZeroRtt" THEN "Data" ELSE pk.space

(* The frames of an Initial or Handshake packet (process_early_payload) or *)
(* of a 1-RTT or 0-RTT one (process_payload): acknowledgements, messages,  *)
(* and the state they lead to (process_decrypted_packet).                  *)
Processed(s, c, d, pk) ==
    LET newAck == d.flight \cap pk.acks
        d1 == [d EXCEPT !.flight = @ \ pk.acks, !.pend = @ \ pk.acks,
                        !.got = @ \cup pk.pieces,
                        !.acks = IF pk.pieces # {} THEN @ \cup {NumberSpace(pk)} ELSE @]
        c1 == [c EXCEPT !.validated = @ \/ (newAck # {} /\ pk.space # "Initial")]
        tls == Tls(s, c1, d1)
        d2 == [d1 EXCEPT !.pend = @ \cup tls.out]
        c2 == [c1 EXCEPT !.keys = tls.keys, !.highest = tls.highest]
        ends == c2.state.st = "handshake" /\ pk.space = "Handshake" /\ tls.complete
        c3 == IF ends THEN [c2 EXCEPT !.state = State("established"), !.reset = TRUE] ELSE c2
        done == s = "client" /\ "DONE" \in pk.pieces /\ "Handshake" \in c3.keys
    IN IF (ends /\ s = "server") \/ done
         THEN [c |-> [c3 EXCEPT !.keys = @ \ {"Handshake"}],
               d |-> Discard(IF ends THEN [d2 EXCEPT !.pend = @ \cup {"DONE"}] ELSE d2,
                             "Handshake")]
         ELSE [c |-> c3, d |-> d2]

(* The state after a packet that closes, or breaks a rule, in each state   *)
(* of the connection (process_decrypted_packet and the end of              *)
(* handle_packet).                                                         *)
StateAfter(x, pk) ==
    IF x.st = "closed"
      THEN IF pk.close # "none" THEN MoveToDraining(x, "none") ELSE x
    ELSE IF x.st \in {"draining", "drained"} THEN x
    ELSE IF "bad" \in pk.pieces THEN MoveToClosed(x, "violation", FALSE)
    ELSE IF pk.close # "none" THEN MoveToDraining(x, "peer")
    ELSE x

(* on_packet_authenticated, of an open connection: idle timer, and the     *)
(* server's Initial space is discarded with the first Handshake packet.    *)
Authenticated(s, pk) ==
    LET drop == s = "server" /\ pk.space = "Handshake" /\ "Initial" \in conn[s].keys
    IN [c |-> [conn[s] EXCEPT !.authed = IF @ < 2 THEN @ + 1 ELSE @,
                              !.keys = IF drop THEN @ \ {"Initial"} ELSE @],
        d |-> IF drop THEN Discard(data[s], "Initial") ELSE data[s]]

(* What one packet leaves of a connection: handle_packet.                  *)
AfterPacket(s, pk) ==
    LET was == conn[s].state
        auth == IF IsClosed(was) THEN [c |-> conn[s], d |-> data[s]] ELSE Authenticated(s, pk)
        x == StateAfter(was, pk)
        r == IF IsClosed(x) THEN auth ELSE Processed(s, auth.c, auth.d, pk)
    IN [d |-> r.d,
        c |-> [r.c EXCEPT !.state = IF IsClosed(x) THEN x ELSE @,
                 !.closePending =
                    \/ @
                    \/ ~IsClosed(was) /\ x.st = "draining" /\ pk.space = "Data"
                    \/ x.st = "closed" /\ (s = "client" \/ path.validated)]]

(* handle_packet of a packet that opens.  Short packets are dropped during *)
(* the handshake; a packet that closed the connection resets the timers.   *)
Opens(s, pk) ==
    \/ pk.space \in conn[s].keys /\ ~(IsHandshaking(conn[s].state) /\ pk.space = "Data")
    \/ pk.space = "ZeroRtt" /\ "Data" \in conn[s].keys
Rearmed(s, was, t, c, d, p) == IF was THEN LossTimer(s, t, c, d, p) ELSE t
ReceiveFrames(s, pk) ==
    /\ s \in known /\ conn[s].state.st # "none"
    /\ Opens(s, pk)
    /\ LET r == AfterPacket(s, pk)
           p1 == IF s = "server" THEN [path EXCEPT !.credit =
                        IF @ + Credit > 2 * Credit THEN 2 * Credit ELSE @ + Credit] ELSE path
           p == IF s = "server" /\ pk.space = "Handshake" /\ IsHandshaking(conn[s].state)
                  THEN [p1 EXCEPT !.validated = TRUE] ELSE p1
           ended == ~IsClosed(conn[s].state) /\ IsClosed(r.c.state)
           changed == pk.acks \cap data[s].flight # {} \/ r.c.keys # conn[s].keys
           t1 == IF IsClosed(r.c.state) THEN timers[s] ELSE timers[s] \cup {"Idle"}
           t2 == IF changed THEN LossTimer(s, t1, r.c, r.d, p) ELSE t1
       IN /\ Keep(s, r.c, r.d)
          /\ path' = p
          /\ timers' = [timers EXCEPT ![s] = IF ended THEN Closing
                          ELSE Rearmed(s, Blocked(s, path), t2, r.c, r.d, p)]
    /\ UNCHANGED <<known, lost, queued, server, panicked>>

(* A packet without keys, or a short one during the handshake: dropped.    *)
(* What was received still counts for the server's limit.                  *)
ReceiveDropped(s, pk) ==
    /\ s \in known /\ conn[s].state.st # "none"
    /\ ~Opens(s, pk)
    /\ LET p == IF s = "server" THEN [path EXCEPT !.credit =
                       IF @ + Credit > 2 * Credit THEN 2 * Credit ELSE @ + Credit] ELSE path
       IN /\ path' = p
          /\ timers' = [timers EXCEPT ![s] =
                          Rearmed(s, Blocked(s, path), @, conn[s], data[s], p)]
    /\ UNCHANGED <<conn, data, known, lost, queued, server, panicked>>

(* A stateless reset the connection recognises, in any state: it is        *)
(* drained at once and the close timer is stopped.                         *)
ResetTimers(s) == (IF IsClosed(conn[s].state) THEN timers[s] ELSE {}) \ {"Close"}
ReceiveReset(s) ==
    /\ s \in known /\ conn[s].reset
    /\ Keep(s, [conn[s] EXCEPT !.state = MoveToDrained(@, "reset")], data[s])
    /\ timers' = [timers EXCEPT ![s] = ResetTimers(s)]
    /\ queued' = [queued EXCEPT ![s] =
         IF conn[s].state.st = "drained" THEN @ ELSE Append(@, "Drained")]
    /\ UNCHANGED <<path, known, lost, server, panicked>>

(* Retry: only before anything else was received; the hello is sent again  *)
(* with the token.                                                         *)
ReceiveRetry ==
    LET c == [conn["client"] EXCEPT !.authed = IF @ < 2 THEN @ + 1 ELSE @]
        fresh == IsHandshaking(c.state) /\ c.authed <= 1
    IN /\ panicked' = (panicked \/ (fresh /\ ~c.hello))
       /\ conn' = [conn EXCEPT !["client"] =
            IF IsClosed(c.state) THEN @
            ELSE IF fresh THEN [c EXCEPT !.hello = FALSE, !.token = TRUE] ELSE c]
       /\ data' = [data EXCEPT !["client"] =
            IF fresh THEN [Empty EXCEPT !.pend = {"CH"} \cup
                ({"zeroRtt"} \cap (data["client"].pend \cup data["client"].flight))] ELSE @]
       /\ timers' = [timers EXCEPT !["client"] =
            IF IsClosed(c.state) THEN @ ELSE
            LET t == @ \cup {"Idle"}
            IN IF fresh THEN LossTimer("client", t, c, Empty, path) ELSE t]
       /\ UNCHANGED <<path, known, lost, queued, server>>

(* Version negotiation: only before anything else was received.            *)
ReceiveVersion ==
    LET c == [conn["client"] EXCEPT !.authed = IF @ < 2 THEN @ + 1 ELSE @]
        fresh == IsHandshaking(c.state) /\ c.authed <= 1
    IN /\ Keep("client", IF IsClosed(c.state) THEN conn["client"]
                         ELSE IF fresh THEN [c EXCEPT !.state = MoveToDraining(@, "version")]
                         ELSE c, data["client"])
       /\ timers' = [timers EXCEPT !["client"] =
            IF fresh THEN Closing ELSE IF IsClosed(c.state) THEN @ ELSE @ \cup {"Idle"}]
       /\ UNCHANGED <<path, known, lost, queued, server, panicked>>

(* The endpoint of a side that does not know the connection.  The server's *)
(* answers a hello with a Retry or accepts it (handle_first_packet); both  *)
(* answer a short packet with a stateless reset.                           *)
FromEndpoint(s, kind) ==
    [to |-> Peer(s), space |-> kind, pieces |-> {}, close |-> "none", token |-> FALSE,
     acks |-> {}]
Accepted(pk) ==
    /\ pk.to = "server" /\ conn["server"].state.st = "none" /\ "CH" \in pk.pieces
    /\ server.retry => pk.token
Accept(pk) ==
    /\ Accepted(pk)
    /\ known' = known \cup {"server"}
    /\ LET c == [Fresh("handshake") EXCEPT !.authed = 1]
           r == Processed("server", c, Empty, pk)
           p == [path EXCEPT !.credit = Credit, !.validated = pk.token]
       IN Keep("server", r.c, r.d) /\ path' = p
    /\ timers' = [timers EXCEPT !["server"] = {"Idle"}]
    /\ UNCHANGED <<lost, queued, server, panicked>>
Answer(s, pk) ==
    IF s = "server" /\ conn[s].state.st = "none" /\ server.retry /\ "CH" \in pk.pieces /\ ~pk.token
      THEN {FromEndpoint(s, "Retry")}
    ELSE IF pk.space = "Data" THEN {FromEndpoint(s, "Reset")}
    ELSE {}

(* A packet arrives: the connection it belongs to handles it, its endpoint *)
(* accepts it or answers it, or it belongs to nothing.  An open connection *)
(* has sent what it had to send when the next packet is handled.           *)
Arrives(pk) ==
    /\ ~panicked
    /\ \/ net' = net \ {pk} /\ UNCHANGED budget
       \/ pk.space # "Reset" /\ net' = net /\ Spend("dup")
ReceivePacket ==
    \E pk \in net : /\ pk.space \in Space \cup {"ZeroRtt"} /\ HasSent(pk.to) /\ Arrives(pk)
                    /\ ReceiveFrames(pk.to, pk) \/ ReceiveDropped(pk.to, pk) \/ Accept(pk)
ReceiveStateless ==
    \E pk \in net : /\ pk.to \in known /\ Arrives(pk)
                    /\ \/ pk.space = "Reset" /\ ReceiveReset(pk.to)
                       \/ pk.space = "Retry" /\ ReceiveRetry
                       \/ pk.space = "Version" /\ ReceiveVersion
ReceiveUnknown ==
    \E pk \in net :
        /\ \/ pk.to \notin known /\ ~Accepted(pk)
           \/ pk.to \in known /\ pk.space = "Reset" /\ ~conn[pk.to].reset
        /\ net' = (net \ {pk}) \cup (IF pk.to \in known THEN {} ELSE Answer(pk.to, pk))
        /\ UNCHANGED <<conn, data, timers, path, known, lost, queued, server, budget, panicked>>
------------------------------------------------------------------------------
(* The environment: a packet is lost, a peer breaks a rule of the protocol *)
(* in an authenticated packet, a server speaks another version.            *)
Lose ==
    /\ Spend("lose")
    /\ \E pk \in net : net' = net \ {pk}
    /\ UNCHANGED <<conn, data, timers, path, known, lost, queued, server, panicked>>
PeerBreaksRule(s) ==
    /\ s \in known /\ conn[s].state.st = "established" /\ Spend("bad")
    /\ net' = net \cup {Packet(s, "Data", {"bad"}, "none")}
    /\ UNCHANGED <<conn, data, timers, path, known, lost, queued, server, panicked>>
OtherVersion ==
    /\ Spend("version")
    /\ net' = net \cup {FromEndpoint("server", "Version")}
    /\ UNCHANGED <<conn, data, timers, path, known, lost, queued, server, panicked>>

Next ==
    \/ \E s \in Side : Transmit(s)
    \/ \E s \in Side : TransmitClose(s)
    \/ \E s \in Side : AppClose(s)
    \/ \E s \in Side : AppPing(s)
    \/ AppZeroRtt
    \/ \E s \in Side : AppRaisePaths(s)
    \/ \E s \in Side : Poll(s)
    \/ \E s \in Side : EndpointDrained(s)
    \/ \E s \in Side : Crash(s)
    \/ \E s \in Side : PtoFires(s)
    \/ \E s \in Side : CloseFires(s)
    \/ \E s \in Side : IdleFires(s)
    \/ ReceivePacket
    \/ ReceiveStateless
    \/ ReceiveUnknown
    \/ Lose
    \/ \E s \in Side : PeerBreaksRule(s)
    \/ OtherVersion

Spec == Init /\ [][Next]_vars
------------------------------------------------------------------------------
(* Properties. *)

(* A connection that has drained and that its application did not close    *)
(* has told it why, or will when it is polled (the invariant that          *)
(* move_to_draining's comment names): whatever error, close or reset came  *)
(* first, and whichever the peer's answer overtook.                        *)
EndTold ==
    \A s \in Side :
        conn[s].state.st = "drained" /\ ~conn[s].state.local /\ conn[s].state.error = "none"
            => lost[s] # <<>>

(* The endpoint hears of the end of a connection once: the close timer     *)
(* does not drain a connection that an idle timeout or a stateless reset   *)
(* drained before, no packet finds a state the code excludes, and a client *)
(* is asked for a Retry only while it has its hello.                       *)
DrainedOnce ==
    /\ ~panicked
    /\ \A s \in Side : Cardinality({i \in 1 .. Len(queued[s]) : queued[s][i] = "Drained"})
                       = (IF conn[s].state.st = "drained" THEN 1 ELSE 0)

(* The handshake does not come to a halt: with nothing under way, no probe *)
(* due and nothing either side may send, it is complete, or something      *)
(* ended it.  In particular a server that has used up what it may send     *)
(* before the client's address is validated is not left waiting for a      *)
(* client that has nothing to send, and does not forget its own timer when *)
(* it may send again.                                                      *)
Ended == \E s \in Side : Silent(s)
NoHandshakeHalt == Halted => Ended \/ \A s \in Side : conn[s].reset

(* A connection that is closed at either end goes away at both: the closed *)
(* one has a close timer that runs, or is drained and the endpoint is told;*)
(* the one that hears nothing more has its idle timer, or something to     *)
(* send that will arm it.                                                  *)
EndDue ==
    \A s \in known : ~panicked =>
        \/ conn[s].state.st \in {"closed", "draining"} /\ "Close" \in timers[s]
        \/ conn[s].state.st = "drained" /\ queued[s] # <<>>
        \/ ~IsClosed(conn[s].state) /\ ("Idle" \in timers[s] \/ data[s].pend # {})

(* A close that the application asks for does not surface as a             *)
(* ConnectionLost event (move_to_closed_local).                            *)
LocalCloseSilent ==
    [][\A s \in Side : conn[s].state.local => lost'[s] = lost[s] /\ ~Surfaces(conn'[s].state)]_vars

(* Nothing is queued for the endpoint after Drained (handle_timeout).      *)
DrainedIsLast == \A s \in Side : Len(queued[s]) <= 1
=============================================================================
