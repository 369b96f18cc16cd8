------------------------------ MODULE Migration -----------------------------
(***************************************************************************)
(* Migration of one path as the server sees it (migrate, PATH_CHALLENGE and *)
(* PATH_RESPONSE of connection/mod.rs and paths.rs): the client's 4-tuple   *)
(* changes under way, packets from before and after it are reordered, lost  *)
(* or forwarded from elsewhere, and the server follows and validates.       *)
(***************************************************************************)
EXTENDS Integers, Sequences, FiniteSets, SequencesExt

CONSTANTS
    Tuples,     \* 4-tuples; the path begins on 0
    Capacity,   \* packets under way to the server
    Scenarios   \* [rebinds, forwards, losses, failures, anyPacket, others]: how often each
                \* of the first four may happen, whether multipath is negotiated without NAT
                \* traversal, and whether the connection has another path

VARIABLES
    data,     \* PathState::data of the server
    prev,     \* PathState::prev, a set of at most one
    timers,   \* PathValidationFailed, PathChallengeLost, AbandonFromValidation
    client,   \* the 4-tuple that the client's packets have now
    inbound,  \* packets under way to the server, in the order of their numbers
    outbound, \* challenges under way to the client: [tuple, n]
    budget,
    reached,  \* 4-tuples at which the client has answered a challenge
    failed,   \* a validation timed out
    abandoned \* the path was given up

vars == <<data, prev, timers, client, inbound, outbound, budget, reached, failed, abandoned>>

Tokens == 0..8   \* bound on the challenges and answers under way at a time
UnderWay ==
    {ch.n : ch \in outbound} \cup {inbound[i].n : i \in {j \in DOMAIN inbound : inbound[j].probing}}

\* A challenge is made with a token of its own, and those whose challenge and
\* answer are gone cannot be answered any more.
Challenge(d, n) == [d EXCEPT !.challenge = FALSE, !.tokens = (@ \cap UnderWay) \cup {n}]
NewToken == CHOOSE n \in Tokens : n \notin UnderWay

\* PathData::new and from_previous: nothing is known of the new 4-tuple.
NewData(tuple, old) ==
    [tuple |-> tuple, validated |-> FALSE, challenge |-> TRUE, tokens |-> {}, open |-> "Pending"]

Init ==
    /\ data = [tuple |-> 0, validated |-> TRUE, challenge |-> FALSE, tokens |-> {},
               open |-> "Informed"]
    /\ prev = {} /\ timers = {} /\ client = 0
    /\ inbound = <<>> /\ outbound = {}
    /\ budget \in Scenarios
    /\ reached = {0} /\ failed = FALSE /\ abandoned = FALSE

Spend(what) == budget[what] > 0 /\ budget' = [budget EXCEPT ![what] = @ - 1]

-----------------------------------------------------------------------------
(* The network and the client                                              *)

\* The client's packets get another source, as with NAT rebinding.
Rebind ==
    /\ Spend("rebinds")
    /\ \E t \in Tuples \ {client} : client' = t
    /\ UNCHANGED <<data, prev, timers, inbound, outbound, reached, failed, abandoned>>

\* A packet with frames that are not probing
ClientSend ==
    /\ Len(inbound) < Capacity
    /\ inbound' = Append(inbound, [from |-> client, probing |-> FALSE, n |-> 0, old |-> FALSE])
    /\ UNCHANGED <<data, prev, timers, client, outbound, budget, reached, failed, abandoned>>

\* The client answers a challenge that was sent to where it is.
ClientAnswer(ch) ==
    /\ ch.tuple = client /\ Len(inbound) < Capacity
    /\ outbound' = outbound \ {ch}
    /\ inbound' = Append(inbound, [from |-> client, probing |-> TRUE, n |-> ch.n, old |-> FALSE])
    /\ reached' = reached \cup {ch.tuple}
    /\ UNCHANGED <<data, prev, timers, client, budget, failed, abandoned>>

\* A challenge to where the client no longer is, or one that is lost
LoseChallenge(ch) ==
    /\ IF ch.tuple = client THEN Spend("losses") ELSE UNCHANGED budget
    /\ outbound' = outbound \ {ch}
    /\ UNCHANGED <<data, prev, timers, client, inbound, reached, failed, abandoned>>

\* A packet is forwarded and arrives from another address.
Forward ==
    /\ Spend("forwards")
    /\ \E i \in DOMAIN inbound, t \in Tuples : inbound' = [inbound EXCEPT ![i].from = t]
    /\ UNCHANGED <<data, prev, timers, client, outbound, reached, failed, abandoned>>

-----------------------------------------------------------------------------
(* The server                                                              *)

\* on_path_response_received: it validates the 4-tuple that was challenged.
\* v is data, prev and timers.
OnResponse(v, n) ==
    IF n \in v.data.tokens
    THEN [data |-> [v.data EXCEPT !.validated = TRUE, !.tokens = {}, !.challenge = FALSE,
                                  !.open = "Informed"],
          prev |-> {[p EXCEPT !.tokens = {}, !.challenge = FALSE] : p \in v.prev},
          timers |-> {}]
    ELSE v

\* migrate; the previous data is kept if it was not validated.
Migrate(v, tuple) ==
    [data |-> NewData(tuple, v.data),
     prev |-> IF ~v.data.validated THEN {[v.data EXCEPT !.challenge = TRUE]} ELSE v.prev,
     timers |-> v.timers \cup {"PathValidationFailed"}]

\* process_payload: a response is handled first; then a packet with the largest
\* number so far moves the path, one that only probes in multipath without NAT
\* traversal (migrate_on_any_packet).
Receive(i) ==
    LET pk == inbound[i]
        before == [data |-> data, prev |-> prev, timers |-> timers]
        answered == IF pk.probing THEN OnResponse(before, pk.n) ELSE before
        moves == (budget.anyPacket \/ ~pk.probing) /\ ~pk.old /\ pk.from # data.tuple
        after == IF moves THEN Migrate(answered, pk.from) ELSE answered IN
    /\ ~abandoned
    /\ inbound' = [j \in 1..(Len(inbound) - 1) |->
           IF j < i THEN [inbound[j] EXCEPT !.old = TRUE] ELSE inbound[j + 1]]
    /\ data' = after.data /\ prev' = after.prev /\ timers' = after.timers
    /\ UNCHANGED <<client, outbound, budget, reached, failed, abandoned>>

\* populate_packet: PATH_CHALLENGE on the path.  The first one on a 4-tuple limits
\* the time for its validation.
SendChallenge ==
    /\ data.challenge /\ ~abandoned
    /\ data' = [Challenge(data, NewToken) EXCEPT
                   !.open = IF @ = "Pending" THEN "Sent" ELSE @]
    /\ prev' = {[p EXCEPT !.tokens = @ \cap UnderWay] : p \in prev}
    /\ outbound' = outbound \cup {[tuple |-> data.tuple, n |-> NewToken]}
    /\ timers' = timers \cup {"PathChallengeLost"}
           \cup (IF data.open = "Pending" THEN {"AbandonFromValidation"} ELSE {})
    /\ UNCHANGED <<client, inbound, budget, reached, failed, abandoned>>

\* send_prev_path_challenge: once, to where the path was
SendPrevChallenge ==
    \E p \in prev :
        /\ p.challenge /\ ~abandoned
        /\ prev' = {Challenge(p, NewToken)}
        /\ data' = [data EXCEPT !.tokens = @ \cap UnderWay]
        /\ outbound' = outbound \cup {[tuple |-> p.tuple, n |-> NewToken]}
        /\ UNCHANGED <<timers, client, inbound, budget, reached, failed, abandoned>>

\* Mutant: a lost challenge is not repeated.
RepeatedNever(d) == d
Repeated(d) == [d EXCEPT !.challenge = TRUE]

\* PathTimer::PathChallengeLost
ChallengeLost ==
    /\ "PathChallengeLost" \in timers /\ outbound = {} /\ ~abandoned
    /\ \A i \in DOMAIN inbound : ~inbound[i].probing
    /\ data' = Repeated(data)
    /\ timers' = timers \ {"PathChallengeLost"}
    /\ UNCHANGED <<prev, client, inbound, outbound, budget, reached, failed, abandoned>>

\* PathTimer::PathValidationFailed.  AbandonFromValidation is not stopped.
ValidationFailed ==
    /\ "PathValidationFailed" \in timers /\ ~abandoned /\ Spend("failures")
    /\ \E d \in IF prev = {} THEN {data} ELSE prev :
        data' = [d EXCEPT !.tokens = {}, !.challenge = FALSE]
    /\ prev' = {} /\ timers' = timers \ {"PathValidationFailed", "PathChallengeLost"}
    /\ failed' = TRUE
    /\ UNCHANGED <<client, inbound, outbound, reached, abandoned>>

\* PathTimer::AbandonFromValidation: the path is challenged no more; it is only
\* given up if close_path_inner finds another one (see Paths).
AbandonFromValidation ==
    /\ "AbandonFromValidation" \in timers /\ ~abandoned /\ Spend("failures")
    /\ data' = [data EXCEPT !.tokens = {}, !.challenge = FALSE]
    /\ timers' = timers \ {"AbandonFromValidation", "PathChallengeLost"}
    /\ failed' = TRUE /\ abandoned' = budget.others
    /\ UNCHANGED <<prev, client, inbound, outbound, reached>>

Next ==
    \/ Rebind \/ ClientSend \/ Forward \/ \E i \in DOMAIN inbound : Receive(i)
    \/ SendChallenge \/ SendPrevChallenge \/ ChallengeLost \/ ValidationFailed
    \/ AbandonFromValidation
    \/ \E ch \in outbound : ClientAnswer(ch) \/ LoseChallenge(ch)

Arrive == inbound # <<>> /\ Receive(1)
AnyAnswer == \E ch \in outbound : ClientAnswer(ch)
AnyStray == \E ch \in outbound : ch.tuple # client /\ LoseChallenge(ch)

\* Packets and challenges that are not lost arrive, the client goes on sending,
\* and the timer of a lost challenge fires.
Fairness ==
    /\ WF_vars(ClientSend) /\ WF_vars(Arrive)
    /\ WF_vars(SendChallenge) /\ WF_vars(ChallengeLost)
    /\ SF_vars(AnyAnswer) /\ WF_vars(AnyStray)

Spec == Init /\ [][Next]_vars /\ Fairness

-----------------------------------------------------------------------------
(* Properties                                                              *)

\* A 4-tuple only counts as validated if the client has answered there: reordered
\* and forwarded packets, and answers that arrive late or from elsewhere, never
\* validate another one.
ValidatedReached == data.validated => data.tuple \in reached

\* The server ends up sending data to where the client is, whatever moved the
\* path before and whichever challenges were lost on the way, unless it gave up
\* on a validation (FallbackValidated).
Follows == failed \/ (data.tuple = client /\ data.validated)
PathFollows == <>[]Follows

\* After a migration that could not be validated, the path is back on a 4-tuple
\* that was: "Only store this as previous path if it was validated".
FallbackValidated == failed /\ ~abandoned /\ timers = {} => data.validated
=============================================================================
