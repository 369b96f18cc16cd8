---------------------------- MODULE MCTransport ----------------------------
(***************************************************************************)
(* Connection ids, keys, the MTU, paths and the life of a connection, for   *)
(* TLC.  As modelled they share no state: interleaving their steps would    *)
(* show nothing, so in each behaviour one of them moves and the others stay *)
(* as they were at first.                                                   *)
(***************************************************************************)
EXTENDS ConnectionIds, TLC

VARIABLES
    part,       \* which one moves
    keys, flight, forced, refusedKeys, hasty,
    mtu, search, hole, peerMax, limit, next, out, acked, bound, noise, fired,
    paths, net, budget, refused, orphan, unheard,
    conn, data, timers, path, wire, known, lost, queued, server, chances, panicked

keyVars == <<keys, flight, forced, refusedKeys, hasty>>
mtuVars == <<mtu, search, hole, peerMax, limit, next, out, acked, bound, noise, fired>>
pathVars == <<paths, net, budget, refused, orphan, unheard>>
lifeVars ==
    <<conn, data, timers, path, wire, known, lost, queued, server, chances, panicked>>

\* Keys: an endpoint updates twice, or both do at once, one of them a server
\* that also holds 0-RTT keys.
K == INSTANCE Keys WITH
    Paths <- {0}, MaxPn <- 3, PhaseSize <- 2, refused <- refusedKeys,
    Scenarios <-
        {[updates |-> "a" :> 2 @@ "b" :> 0, zero |-> {}],
         [updates |-> "a" :> 1 @@ "b" :> 1, zero |-> {"a"}]}

\* What the proofs about Keys assume of its constants
ASSUME KeysBounds == K!KeysConstants

\* Mtu: sizes from 2 to 8, of which the path carries some and then fewer: a
\* search that is repeated, and a probe that outlives a black hole, which two
\* bursts make (BLACK_HOLE_THRESHOLD is 3 in the code).
M == INSTANCE Mtu WITH
    MinMtu <- 2, Initials <- {2, 3}, UpperBound <- 8, MinChange <- 2,
    PeerMaxes <- {5, 9}, Limits <- {2, 7}, BlackHoleThreshold <- 1,
    Scenarios <- {[packets |-> 10, window |-> 2, noise |-> 1],
                  [packets |-> 7, window |-> 3, noise |-> 2]}

\* Paths: two paths are closed; ids of both sides are still under way when a path
\* is, and packets in flight on it are lost with it; a packet is lost or arrives
\* late, perhaps with ids of the server; statuses overtake each other.
PathScenario(opens, closes, statuses, drops, fresh, tuple) ==
    [opens |-> opens, closes |-> closes, statuses |-> statuses, losses |-> drops,
     fresh |-> fresh, tuple |-> tuple]
P == INSTANCE Paths WITH
    MaxId <- 2, InitMax <- 1, MaxTries <- 1, conn <- paths,
    Scenarios <-
        {PathScenario(1, 2, 0, 0, {}, 1), PathScenario(1, 1, 0, 0, {"client", "server"}, 1),
         PathScenario(1, 1, 0, 1, {"server"}, 1), PathScenario(0, 0, 2, 0, {}, 0)}

\* Lifecycle: what may happen in a handshake, short or long, with or without a
\* Retry, and to an open connection, and how often.
Event == {"lose", "dup", "early", "close", "bad", "ping", "version", "crash",
          "raise", "zeroRtt"}
Quiet == [e \in Event |-> 0]
Short == {"E1"}
Long == {"E1", "E2"}
LifeScenarios ==
    [retry : {FALSE}, open : {FALSE}, flight : {Long}, budget :
        {"lose" :> 2 @@ Quiet,
         "early" :> 1 @@ Quiet}]
    \cup [retry : {FALSE}, open : {FALSE}, flight : {Short}, budget :
        {"close" :> 1 @@ Quiet,
         "version" :> 1 @@ Quiet,
         "zeroRtt" :> 1 @@ Quiet}]
    \cup [retry : {TRUE}, open : {FALSE}, flight : {Short}, budget :
        {"lose" :> 1 @@ "dup" :> 1 @@ Quiet}]
    \cup [retry : {FALSE}, open : {TRUE}, flight : {Short}, budget :
        {"close" :> 1 @@ "bad" :> 1 @@ "lose" :> 1 @@ "early" :> 1
            @@ "raise" :> 1 @@ Quiet,
         "close" :> 1 @@ "ping" :> 1 @@ "crash" :> 1 @@ "lose" :> 1 @@ Quiet}]
L == INSTANCE Lifecycle WITH
    Credit <- 2, net <- wire, budget <- chances, Scenarios <- LifeScenarios

MCInit ==
    /\ part \in {"ids", "keys", "mtu", "paths", "life"}
    /\ Init /\ K!Init /\ M!Init /\ P!Init /\ L!Init
    /\ part # "keys" => forced["b"] = 0
    /\ part # "mtu" => peerMax = 5 /\ limit.now = 2 /\ bound.noise = 1
    /\ part # "paths" => budget.statuses = 2
    /\ part # "life" => chances["zeroRtt"] = 1

MCNext ==
    \/ part = "ids" /\ Next /\ UNCHANGED <<part, keyVars, mtuVars, pathVars, lifeVars>>
    \/ part = "keys" /\ K!Next /\ UNCHANGED <<part, vars, mtuVars, pathVars, lifeVars>>
    \/ part = "mtu" /\ M!Next /\ UNCHANGED <<part, vars, keyVars, pathVars, lifeVars>>
    \/ part = "paths" /\ P!Next /\ UNCHANGED <<part, vars, keyVars, mtuVars, lifeVars>>
    \/ part = "life" /\ L!Next /\ UNCHANGED <<part, vars, keyVars, mtuVars, pathVars>>

MCSpec ==
    MCInit /\ [][MCNext]_<<part, vars, keyVars, mtuVars, pathVars, lifeVars>>

-----------------------------------------------------------------------------
(* Properties: those of ConnectionIds keep their names; the others are about *)
(* the behaviours of their modules.                                         *)

\* Keys: neither endpoint takes the other's key update for an illegal one nor
\* goes deaf to it, and what an update overtook still opens while its keys are
\* kept, however packets around the updates are lost and reordered (update_keys,
\* decrypt_packet_body), as long as no key was discarded before the peer followed.
KeysAgree == part = "keys" => K!KeysAgree

\* Mtu: the MTU is a size that path and peer take until the path shrinks and again
\* from the black hole on, a search that ends has found the largest up to the
\* smallest change, and a path is taken for a black hole only after it shrank or
\* lost more than the threshold, however late a probe's fate is known (MtuDiscovery).
MtuExact == part = "mtu" => M!MtuCarried /\ M!SearchExact /\ M!NoFalseAlarm

\* Paths: honest peers accept each other's path frames, whatever is lost, late
\* or crossing, but for a late PATH_CIDS_BLOCKED of a discarded path; when nothing is under way a path that one side gave up is gone on
\* both, its id is returned and what a side announced about a path is what the
\* other believes (close_path_inner, discard_path, on_path_status).
PathsAgree == part = "paths" => P!PathFramesAccepted /\ P!IdsReturned /\ P!StatusAgreed

\* Paths: giving up a path leaves nothing behind: no connection ids are offered or
\* asked for on it again, although packets in flight then carry some, are lost with
\* the path or later, or the endpoint answers late; and a side without a path has a
\* timer that ends the connection (abandon_path, discard_path, close_path_inner).
PathsCleared == part = "paths" => P!NoWedge /\ P!NoStrayIds

\* Lifecycle: the handshake does not come to a halt with nothing under way and no
\* timer, lost packets and the anti-amplification limit included (pto_time_and_space).
NoHandshakeHalt == part = "life" => L!NoHandshakeHalt

\* Lifecycle: a connection that ends at either side ends at both, the endpoint is
\* told once, and the application is told why (at least once), unless it was its own
\* wish, whatever error, close, reset or timeout came first (State, kill, handle_packet).
EndsExactly == part = "life" => L!EndTold /\ L!DrainedOnce /\ L!EndDue
=============================================================================
