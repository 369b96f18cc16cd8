----------------------------- MODULE MCRecovery -----------------------------
(***************************************************************************)
(* Loss recovery and the migration of a path for TLC, each in behaviours of *)
(* its own: they share no state here (Recovery sees a migration as a change *)
(* of generation), so interleaving their steps would show nothing.  While   *)
(* the path migrates, recovery has nothing to send.                         *)
(***************************************************************************)
EXTENDS Recovery, TLC

VARIABLES
    migrating,  \* the behaviour is Migration's
    data, before, timers, client, inbound, outbound, moves, reached, failed, abandoned

migrationVars ==
    <<data, before, timers, client, inbound, outbound, moves, reached, failed, abandoned>>

\* The client moves once while a packet is forwarded and one is lost, or twice
\* while a validation may time out, or once while it may do so twice.
M == INSTANCE Migration WITH
    prev <- before, budget <- moves, Tuples <- {0, 1}, Capacity <- 2,
    Scenarios <-
        [rebinds : {1}, forwards : {1}, losses : {1}, failures : {0},
         anyPacket : BOOLEAN, others : {FALSE}]
        \cup [rebinds : {2}, forwards : {0}, losses : {0}, failures : {1},
              anyPacket : {TRUE}, others : BOOLEAN]
        \cup [rebinds : {1}, forwards : {0}, losses : {0}, failures : {2},
              anyPacket : {FALSE}, others : BOOLEAN]

\* Which events of Recovery may happen, and how often
Quiet == [e \in Event |-> 0]
MCScenarios ==
    [items : {Items}, freq : {<<1, 1>>}, validated : {TRUE}, budget :
        {"lose" :> 2 @@ Quiet,
         "early" :> 1 @@ Quiet}]
    \cup [items : {Data}, freq : {<<1, 1>>}, validated : BOOLEAN, budget :
        {"migrate" :> 1 @@ Quiet}]
    \cup [items : {Data}, freq : {<<1, 1>>}, validated : {FALSE}, budget :
        {"lose" :> 1 @@ Quiet}]
    \cup [items : {Items}, freq : {<<1, 2>>, <<0, 0>>}, validated : {TRUE}, budget :
        {"lose" :> 1 @@ "dup" :> 1 @@ Quiet}]
    \cup [items : {Controls}, freq : {<<1, 1>>}, validated : {TRUE}, budget :
        {"ackOnly" :> 3 @@ Quiet,
         "mtu" :> 1 @@ "lose" :> 1 @@ Quiet,
         "migrate" :> 1 @@ "mtu" :> 1 @@ Quiet}]
    \cup [items : {{}}, freq : {<<1, 1>>}, validated : {TRUE}, budget : {Quiet}]

MCInit ==
    /\ Init /\ M!Init
    /\ migrating = (pending = {})
    /\ ~migrating => moves.forwards = 1 /\ ~moves.anyPacket

MCNext ==
    \/ ~migrating /\ Next /\ UNCHANGED <<migrating, migrationVars>>
    \/ migrating /\ M!Next /\ UNCHANGED <<migrating, vars>>

\* The fairness of Recovery and of Migration
MCSpec ==
    /\ MCInit /\ [][MCNext]_<<migrating, vars, migrationVars>>
    /\ WF_vars(~migrating /\ Transmit) /\ WF_vars(~migrating /\ Timeout)
    /\ WF_vars(~migrating /\ AckArrives) /\ WF_vars(~migrating /\ Receive)
    /\ WF_vars(~migrating /\ AckDelayExpires) /\ WF_vars(~migrating /\ SendAck)
    /\ WF_vars(~migrating /\ ClientSends) /\ WF_vars(~migrating /\ ValidationFailed)
    /\ WF_migrationVars(migrating /\ M!ClientSend)
    /\ WF_migrationVars(migrating /\ M!Arrive)
    /\ WF_migrationVars(migrating /\ M!SendChallenge)
    /\ WF_migrationVars(migrating /\ M!ChallengeLost)
    /\ SF_migrationVars(migrating /\ M!AnyAnswer)
    /\ WF_migrationVars(migrating /\ M!AnyStray)

-----------------------------------------------------------------------------
(* Properties: those of Recovery keep their names.                          *)

\* A 4-tuple only counts as validated, and the limit of three times what was
\* received is only lifted, where the client has answered: reordered and forwarded
\* packets, and answers that arrive late or from elsewhere, validate no other
\* (on_path_response_received).  And the server ends up on a validated 4-tuple where
\* the client is, whatever moved the path before and whichever challenges were lost
\* on the way, unless a validation timed out (migrate, and the timers of the
\* challenge and the validation).
PathFollows == []M!ValidatedReached /\ <>[](migrating => M!Follows)
=============================================================================
