-------------------------------- MODULE Paths -------------------------------
(***************************************************************************)
(* Multipath path management of connection/mod.rs and paths.rs: a client    *)
(* opens paths, either side abandons them, and PATH_ABANDON, MAX_PATH_ID,   *)
(* path statuses, connection ids and path validation travel over the paths  *)
(* themselves, lost and reordered.  Each packet carries one frame: frames   *)
(* of one packet are handled one by one.                                    *)
(***************************************************************************)
EXTENDS Integers, FiniteSets, TLC

CONSTANTS
    MaxId,      \* largest path id
    InitMax,    \* initial_max_path_id of both sides
    MaxTries,   \* challenges sent for a path
    Scenarios   \* [opens, closes, statuses, losses]: what may still happen;
                \* fresh: the sides that have not issued ids for further paths yet;
                \* tuple: the 4-tuple of further paths, that of path 0 is 0

VARIABLES
    conn,    \* Connection of each side
    net,     \* packets under way
    budget,  \* what is left of the scenario
    refused, \* packets for which a side closed the connection
    orphan,  \* a PATH_ABANDON arrived for a path that was not open
    unheard  \* a path status arrived for a path that was not open

vars == <<conn, net, budget, refused, orphan, unheard>>

Ends == {"client", "server"}
Peer == [client |-> "server", server |-> "client"]
Ids == 0..MaxId
None == -1
Largest(S) == CHOOSE i \in S : \A j \in S : j <= i

\* Retransmits of the Data space; a frame is written with the state of then.
Item(kind, p) == [kind |-> kind, path |-> p]

\* PathData::new and PathStatusState
NewPath(tuple, validated) ==
    [tuple |-> tuple, validated |-> validated, open |-> "Pending", challenge |-> TRUE,
     tries |-> 0, tokens |-> {}, responses |-> {}, draining |-> FALSE,
     status |-> "Available", seq |-> 0, remote |-> [seq |-> None, status |-> "Available"]]

\* The handshake is confirmed; path 0 is open and ids for the others were requested.
Init ==
    \E sc \in Scenarios :
        /\ budget = sc
        /\ conn = [e \in Ends |->
               [paths |-> 0 :> [NewPath(0, TRUE) EXCEPT !.open = "Informed", !.challenge = FALSE],
                abandoned |-> {}, localMax |-> InitMax, remoteMax |-> InitMax,
                cids |-> IF Peer[e] \in sc.fresh THEN {0} ELSE 0..InitMax,
                locals |-> IF e \in sc.fresh THEN {0} ELSE 0..InitMax, withCids |-> InitMax,
                asked |-> IF e \in sc.fresh THEN 1..InitMax ELSE {},
                pending |-> {}, sent |-> {}, timers |-> {}, closed |-> FALSE]]
        /\ net = {} /\ refused = {} /\ orphan = {} /\ unheard = {}

-----------------------------------------------------------------------------
(* The connection                                                          *)

Known(c) == DOMAIN c.paths
Usable(c) == Known(c) \ c.abandoned
Put(c, p, d) == [c EXCEPT !.paths = p :> d @@ @]
\* max_path_id
MaxPathId(c) == IF c.localMax < c.remoteMax THEN c.localMax ELSE c.remoteMax

\* find_validated_path_on_network_path
ValidatedOn(c, tuple) == \E p \in Usable(c) : c.paths[p].validated /\ c.paths[p].tuple = tuple

\* ensure_path
EnsurePath(c, p, tuple) ==
    IF p \in Known(c) THEN c
    ELSE LET c1 == Put(c, p, NewPath(tuple, ValidatedOn(c, tuple))) IN
         [c1 EXCEPT !.timers = @ \ {Item("NoAvailablePath", 0)},
                    !.pending = IF p \in c.cids THEN @ ELSE @ \cup {Item("cids_blocked", p)}]

\* open_path: the next id, whether it may be opened, and the state afterwards.
\* PATHS_BLOCKED is never queued: the limit was compared with both maxima before.
NextId(c) == Largest(Known(c) \cup c.abandoned) + 1
OpenPath(c, tuple, status) ==
    LET p == NextId(c)
        c1 == EnsurePath(c, p, tuple)
    IN IF p > MaxPathId(c) THEN c
       ELSE IF p \notin c.cids THEN [c EXCEPT !.pending = @ \cup {Item("cids_blocked", p)}]
       ELSE IF status = "Available" THEN c1
       ELSE [c1 EXCEPT !.paths[p].status = status, !.paths[p].seq = @ + 1]

\* What is not offered or asked for again once a path is abandoned
OfPath(i, p) == i.path = p /\ i.kind \in {"cid", "cids_blocked", "status"}
Queued(c, p) == {i \in c.pending : ~OfPath(i, p)} \cup {Item("abandon", p)}
Kept(c, p) == {t \in c.timers : t.path # p \/ t.kind = "NoAvailablePath"}

\* Mutant: what packets in flight carry is not cleaned up.
AbandonPathInFlight(c, p) ==
    [c EXCEPT !.pending = Queued(c, p), !.abandoned = @ \cup {p}, !.timers = Kept(c, p)]
\* abandon_path
AbandonPath(c, p) ==
    [c EXCEPT !.pending = Queued(c, p), !.sent = {pk \in @ : ~OfPath(pk, p)},
              !.abandoned = @ \cup {p}, !.timers = Kept(c, p)]

\* close_path_inner: the last path is only given up when the peer does.
ClosePath(c, p, remote) ==
    LET isLast == Usable(c) \subseteq {p}
        c1 == AbandonPath(c, p)
    IN IF p \in c.abandoned \/ p > MaxPathId(c) \/ p \notin Known(c) THEN c
       ELSE IF isLast /\ ~remote THEN c
       ELSE IF isLast THEN [c1 EXCEPT !.timers = @ \cup {Item("NoAvailablePath", 0)}] ELSE c1

\* issue_first_path_cids
IssueFirstCids(c) ==
    [c EXCEPT !.asked = @ \cup (c.withCids + 1)..MaxPathId(c), !.withCids = MaxPathId(c)]

\* set_max_path_id
SetMaxPathId(c, max) ==
    IF max <= c.localMax THEN c
    ELSE IssueFirstCids([c EXCEPT !.localMax = max, !.pending = @ \cup {Item("max", 0)}])

\* scheduling_info
HasValidated(c) == \E p \in Usable(c) \cap c.cids : c.paths[p].validated
HasAvailable(c) ==
    \E p \in Usable(c) \cap c.cids : c.paths[p].validated /\ c.paths[p].status = "Available"
MaySendData(c, p) ==
    /\ p \in Usable(c) \cap c.cids
    /\ c.paths[p].validated
    /\ c.paths[p].status = "Available" \/ ~HasAvailable(c)
MaySelfAbandon(c, p) ==
    /\ p \in c.abandoned \cap c.cids /\ p \in Known(c)
    /\ c.paths[p].validated /\ ~HasValidated(c)

\* poll_transmit_path_space: what goes out on which path
Sendable(c, p, i) ==
    /\ i \in c.pending
    /\ MaySendData(c, p) \/ (i = Item("abandon", p) /\ MaySelfAbandon(c, p))

-----------------------------------------------------------------------------
(* The applications                                                        *)

Running(e) == refused = {} /\ ~conn[e].closed
Spend(what) == budget[what] > 0 /\ budget' = [budget EXCEPT ![what] = @ - 1]

Open(status) ==
    /\ Running("client") /\ Spend("opens") /\ (budget.statuses > 0 \/ status = "Available")
    /\ NextId(conn["client"]) <= MaxId
    /\ conn' = [conn EXCEPT !["client"] = OpenPath(@, budget.tuple, status)]
    /\ UNCHANGED <<net, refused, orphan, unheard>>

\* close_path, and PathIdle that does the same
Close(e, p) ==
    /\ Running(e) /\ Spend("closes")
    /\ conn' = [conn EXCEPT ![e] = ClosePath(@, p, FALSE)]
    /\ UNCHANGED <<net, refused, orphan, unheard>>

\* set_path_status
SetStatus(e, p) ==
    /\ Running(e) /\ Spend("statuses") /\ p \in Known(conn[e])
    /\ LET d == conn[e].paths[p]
           other == IF d.status = "Available" THEN "Backup" ELSE "Available"
       IN conn' = [conn EXCEPT ![e] =
              [Put(@, p, [d EXCEPT !.status = other, !.seq = @ + 1]) EXCEPT
                  !.pending = @ \cup {Item("status", p)}]]
    /\ UNCHANGED <<net, refused, orphan, unheard>>

-----------------------------------------------------------------------------
(* Sending                                                                 *)

Packet(e, p, kind, path, n, status) ==
    [to |-> Peer[e], on |-> p, tuple |-> conn[e].paths[p].tuple,
     kind |-> kind, path |-> path, n |-> n, status |-> status]

\* The number in a frame; the ids of a path are not told apart, so that the next
\* sequence number of PATH_CIDS_BLOCKED says whether there are any.
Number(c, i) ==
    CASE i.kind = "max" -> c.localMax
      [] i.kind = "cids_blocked" -> IF i.path \in c.cids THEN 1 ELSE 0
      [] i.kind = "status" -> c.paths[i.path].seq
      [] OTHER -> 0

\* populate_packet; with PATH_ABANDON the ids of the peer for the path are given up.
Written(c, i, packets) ==
    [c EXCEPT !.pending = @ \ {i}, !.sent = @ \cup packets,
              !.cids = IF i.kind = "abandon" THEN @ \ {i.path} ELSE @]

SendFrame(e, p) ==
    \E i \in conn[e].pending :
        LET c == conn[e]
            unknown == i.kind = "status" /\ i.path \notin Known(c)
            packets == IF unknown THEN {}
                       ELSE {Packet(e, p, i.kind, i.path, Number(c, i),
                                    IF i.kind = "status" THEN c.paths[i.path].status ELSE "")}
        IN /\ Running(e) /\ Sendable(c, p, i)
           /\ conn' = [conn EXCEPT ![e] = Written(c, i, packets)]
           /\ net' = net \cup packets
           /\ UNCHANGED <<budget, refused, orphan, unheard>>

\* PATH_CHALLENGE on the path itself
CanChallenge(c, p) ==
    p \in Usable(c) \cap c.cids /\ c.paths[p].challenge /\ c.paths[p].tries < MaxTries
SendChallenge(e, p) ==
    /\ Running(e) /\ CanChallenge(conn[e], p)
    /\ LET d == conn[e].paths[p]
           timers == {Item("PathChallengeLost", p)} \cup
               (IF d.open = "Pending" THEN {Item("AbandonFromValidation", p)} ELSE {})
       IN /\ conn' = [conn EXCEPT ![e] =
                 [Put(@, p, [d EXCEPT !.challenge = FALSE, !.tries = @ + 1,
                                      !.tokens = @ \cup {d.tries},
                                      !.open = IF @ = "Pending" THEN "Sent" ELSE @]) EXCEPT
                     !.timers = @ \cup timers]]
          /\ net' = net \cup {Packet(e, p, "challenge", p, d.tries, "")}
    /\ UNCHANGED <<budget, refused, orphan, unheard>>

CanRespond(c, p) == p \in Usable(c) \cap c.cids /\ c.paths[p].responses # {}
SendResponse(e, p) ==
    /\ Running(e) /\ CanRespond(conn[e], p)
    /\ \E n \in conn[e].paths[p].responses :
        /\ conn' = [conn EXCEPT ![e].paths[p].responses = @ \ {n}]
        /\ net' = net \cup {Packet(e, p, "response", p, n, "")}
    /\ UNCHANGED <<budget, refused, orphan, unheard>>

\* What packets declared lost still carry is pending again.
Requeued(c, lost) ==
    [c EXCEPT !.pending = @ \cup {Item(pk.kind, pk.path) : pk \in lost}, !.sent = @ \ lost]

\* A packet is declared lost; it may arrive all the same.  One that the peer
\* dropped is never acknowledged.
Lose(e, pk) ==
    /\ pk \in conn[e].sent
    /\ IF pk \in net THEN Spend("losses") ELSE UNCHANGED budget
    /\ \E late \in BOOLEAN : net' = IF late THEN net ELSE net \ {pk}
    /\ conn' = [conn EXCEPT ![e] = Requeued(@, {pk})]
    /\ UNCHANGED <<refused, orphan, unheard>>

-----------------------------------------------------------------------------
(* Receiving                                                               *)

\* on_path_response_received, and the timers it stops
OnResponse(c, p, n) ==
    LET d == c.paths[p] IN
    IF n \notin d.tokens THEN c
    ELSE [Put(c, p, [d EXCEPT !.validated = TRUE, !.tokens = {}, !.challenge = FALSE,
                              !.open = "Informed"]) EXCEPT
             !.timers = @ \ {Item("AbandonFromValidation", p), Item("PathChallengeLost", p)}]

\* Frame::PathAbandon
OnAbandon(c, p) ==
    LET c1 == ClosePath(c, p, TRUE) IN
    IF p \notin Known(c1) \/ c1.paths[p].draining THEN c1
    ELSE SetMaxPathId([c1 EXCEPT !.paths[p].draining = TRUE, !.timers = @ \cup {Item("PathDrained", p)}],
                      c1.localMax + 1)

\* Mutant: the status that arrives last counts.
OnStatusLast(c, p, n, status) ==
    IF p \notin Known(c) THEN c ELSE [c EXCEPT !.paths[p].remote = [seq |-> n, status |-> status]]
\* on_path_status and remote_update
OnStatus(c, p, n, status) ==
    IF p \notin Known(c) \/ c.paths[p].remote.seq >= n THEN c
    ELSE [c EXCEPT !.paths[p].remote = [seq |-> n, status |-> status]]

\* The frames that a side refuses: for a path above the limit, or with a next
\* sequence number although no ids of the path are kept
Illegal(c, pk) ==
    \/ pk.kind \in {"cid", "cids_blocked"} /\ pk.path > c.localMax
    \/ pk.kind = "cids_blocked" /\ pk.n > 0 /\ pk.path \notin c.locals

\* process_payload
OnFrame(c, pk) ==
    CASE pk.kind = "challenge" -> [c EXCEPT !.paths[pk.on].responses = @ \cup {pk.n}]
      [] pk.kind = "response" -> OnResponse(c, pk.on, pk.n)
      [] pk.kind = "abandon" -> OnAbandon(c, pk.path)
      [] pk.kind = "status" -> OnStatus(c, pk.path, pk.n, pk.status)
      [] pk.kind = "max" -> IF pk.n <= c.remoteMax THEN c
                            ELSE IssueFirstCids([c EXCEPT !.remoteMax = pk.n])
      [] pk.kind = "cid" -> IF pk.path \in c.abandoned THEN c
                            ELSE [c EXCEPT !.cids = @ \cup {pk.path}]
      [] OTHER -> c

\* handle_packet: only a server opens the path of a packet; a packet whose
\* connection id was retired, or of a path that is not known, is dropped.  The
\* acknowledgement arrives at once, unless the packet was declared lost before.
Receive(pk) ==
    LET e == pk.to
        c0 == conn[e]
        c1 == IF e = "server" /\ pk.on \notin c0.abandoned THEN EnsurePath(c0, pk.on, pk.tuple) ELSE c0
        dropped == pk.on \notin c0.locals \/ pk.on \notin Known(c1)
        missed == ~dropped /\ pk.path \notin Known(c1) \cup c1.abandoned
    IN /\ Running(e)
       /\ net' = net \ {pk}
       /\ IF dropped THEN UNCHANGED <<conn, refused>>
          ELSE IF Illegal(c1, pk) THEN refused' = {pk} /\ UNCHANGED conn
          ELSE /\ conn' = [conn EXCEPT ![e] = OnFrame(c1, pk), ![Peer[e]].sent = @ \ {pk}]
               /\ UNCHANGED refused
       /\ orphan' = IF missed /\ pk.kind = "abandon" THEN orphan \cup {pk.path} ELSE orphan
       /\ unheard' = IF missed /\ pk.kind = "status" THEN unheard \cup {pk.path} ELSE unheard
       /\ UNCHANGED budget

\* NewIdentifiers: the endpoint answers with ids, perhaps too late.
NewIdentifiers(e, p) ==
    /\ Running(e) /\ p \in conn[e].asked
    /\ conn' = [conn EXCEPT ![e] =
           IF p \in @.abandoned THEN [@ EXCEPT !.asked = @ \ {p}]
           ELSE [@ EXCEPT !.asked = @ \ {p}, !.locals = @ \cup {p},
                          !.pending = @ \cup {Item("cid", p)}]]
    /\ UNCHANGED <<net, budget, refused, orphan, unheard>>

-----------------------------------------------------------------------------
(* Timers                                                                  *)

Fires(e, kind, p) == Running(e) /\ Item(kind, p) \in conn[e].timers
Stopped(c, kind, p) == [c EXCEPT !.timers = @ \ {Item(kind, p)}]

ChallengeLost(e, p) ==
    /\ Fires(e, "PathChallengeLost", p)
    /\ conn' = [conn EXCEPT ![e] =
           [Stopped(@, "PathChallengeLost", p) EXCEPT !.paths[p].challenge = TRUE]]
    /\ UNCHANGED <<net, budget, refused, orphan, unheard>>

ValidationFailed(e, p) ==
    /\ Fires(e, "AbandonFromValidation", p)
    /\ conn' = [conn EXCEPT ![e] =
           ClosePath([Stopped(Stopped(@, "AbandonFromValidation", p), "PathChallengeLost", p)
                         EXCEPT !.paths[p].tokens = {}, !.paths[p].challenge = FALSE], p, FALSE)]
    /\ UNCHANGED <<net, budget, refused, orphan, unheard>>

\* PathDrained and discard_path: packets in flight on it are lost.
Drained(e, p) ==
    /\ Fires(e, "PathDrained", p)
    /\ conn' = [conn EXCEPT ![e] =
           [Requeued(@, {pk \in @.sent : pk.on = p}) EXCEPT
               !.timers = {t \in @ : t.path # p \/ t.kind = "NoAvailablePath"},
               !.locals = @ \ {p},
               !.paths = [q \in DOMAIN @ \ {p} |-> @[q]]]]
    /\ UNCHANGED <<net, budget, refused, orphan, unheard>>

\* NoAvailablePath: the connection is closed.
NoPathLeft(e) ==
    /\ Fires(e, "NoAvailablePath", 0)
    /\ conn' = [conn EXCEPT ![e].closed = TRUE]
    /\ UNCHANGED <<net, budget, refused, orphan, unheard>>

Next ==
    \/ \E s \in {"Available", "Backup"} : Open(s)
    \/ \E e \in Ends, p \in Ids :
        \/ Close(e, p) \/ SetStatus(e, p) \/ NewIdentifiers(e, p)
        \/ SendFrame(e, p) \/ SendChallenge(e, p) \/ SendResponse(e, p)
        \/ ChallengeLost(e, p) \/ ValidationFailed(e, p) \/ Drained(e, p)
    \/ \E e \in Ends : NoPathLeft(e)
    \/ \E pk \in net : Receive(pk)
    \/ \E e \in Ends : \E pk \in conn[e].sent : Lose(e, pk)

Spec == Init /\ [][Next]_vars

-----------------------------------------------------------------------------
(* Properties                                                              *)

\* Nothing is left to send, to arrive or to fire on a side.
AtRest(e) ==
    LET c == conn[e] IN
    /\ c.timers = {} /\ c.asked = {} /\ c.sent = {}
    /\ \A p \in Known(c) :
        ~CanChallenge(c, p) /\ ~CanRespond(c, p) /\ \A i \in c.pending : ~Sendable(c, p, i)
Quiet == net = {} /\ \A e \in Ends : Running(e) /\ AtRest(e)

\* Honest peers never take each other's path frames for a protocol violation,
\* whatever is lost, late or crossing; but for a PATH_CIDS_BLOCKED that was written
\* when its ids had come and arrives after the path was discarded, the ids with it.
PathFramesAccepted ==
    \A pk \in refused :
        /\ pk.kind = "cids_blocked" /\ pk.n > 0
        /\ pk.path \in conn[pk.to].abandoned \ Known(conn[pk.to])

\* Every path that one side gave up is gone on both once nothing is under way,
\* and its id was returned: the client may have as many paths as before.
IdsReturned ==
    Quiet /\ orphan = {} /\ (\E p \in Ids : \A e \in Ends : MaySendData(conn[e], p)) =>
        \A e \in Ends : LET c == conn[e] IN
            /\ c.abandoned \cap Known(c) = {}
            /\ c.abandoned = conn[Peer[e]].abandoned
            /\ c.localMax = InitMax + Cardinality(c.abandoned)

\* A side whose last path was given up has a timer that ends the connection.
NoWedge ==
    \A e \in Ends : Usable(conn[e]) = {} =>
        Item("NoAvailablePath", 0) \in conn[e].timers \/ conn[e].closed

\* No connection ids are offered or asked for on a path that was given up: what
\* was queued, what a lost packet carried and what the endpoint answers late
\* does not come back.
NoStrayIds ==
    \A e \in Ends : \A i \in conn[e].pending :
        i.kind \in {"cid", "cids_blocked"} => i.path \notin conn[e].abandoned

\* What a side announced about a path is what the other believes once nothing
\* is under way, however the announcements overtook each other.
StatusAgreed ==
    Quiet => \A p \in (Known(conn["client"]) \cap Known(conn["server"])) \ unheard : \A e \in Ends :
        LET mine == conn[e].paths[p]
            theirs == conn[Peer[e]].paths[p].remote
        IN theirs.seq # None => theirs = [seq |-> mine.seq, status |-> mine.status]

\* close_path "does allow closing paths which have not yet been opened, as e.g.
\* is the case when receiving a PATH_ABANDON from the peer".
UnopenedClosed == orphan \subseteq conn["server"].abandoned \cup conn["client"].abandoned
=============================================================================
