-------------------------------- MODULE Keys --------------------------------
(***************************************************************************)
(* 1-RTT key updates of packet_crypto.rs between two endpoints: the keys    *)
(* before, of and after the current phase, which of them opens a packet,    *)
(* how an update is noticed, confirmed and forgotten.  A generation stands  *)
(* for a set of keys, its parity for the key phase bit; a packet opens only *)
(* with the generation that protected it.                                  *)
(***************************************************************************)
EXTENDS Integers, FiniteSets

CONSTANTS
    Paths,      \* packet numbers count per path
    MaxPn,      \* packets that an endpoint sends on each path
    PhaseSize,  \* packets after which the keys are updated
    Scenarios   \* [updates, zero]: updates that an endpoint may force, and who
                \* still holds 0-RTT keys

VARIABLES
    keys,    \* CryptoState of each endpoint
    flight,  \* packets under way; one that never arrives is lost
    forced,  \* updates each endpoint may still force
    refused, \* an endpoint closed the connection with KEY_UPDATE_ERROR
    hasty    \* an endpoint went on before its peer had opened a packet of the phase

vars == <<keys, flight, forced, refused, hasty>>

Ends == {"a", "b"}
Peer == [a |-> "b", b |-> "a"]
None == -1

\* What the scenarios and the bounds are
KeysConstants ==
    /\ IsFiniteSet(Paths) /\ MaxPn \in Nat /\ PhaseSize \in Nat
    /\ \A sc \in Scenarios : sc.updates \in [Ends -> Nat]

NoPrev == [gen |-> None, end |-> None, unacked |-> FALSE]

Init ==
    \E sc \in Scenarios :
        /\ forced = sc.updates
        /\ keys = [e \in Ends |->
               [gen |-> 0, prev |-> NoPrev, sent |-> 0, zero |-> e \in sc.zero,
                timer |-> FALSE, next |-> [p \in Paths |-> 0],
                largest |-> [p \in Paths |-> None], heard |-> 0]]
        /\ flight = {} /\ refused = FALSE /\ hasty = FALSE

\* update_keys
UpdateKeys(k, end, remote) ==
    [k EXCEPT !.prev = [gen |-> k.gen, end |-> end, unacked |-> remote],
              !.gen = @ + 1, !.sent = 0]

\* force_key_update: not while the keys before are kept
ForceUpdate(k) == IF k.prev # NoPrev THEN k ELSE UpdateKeys(k, None, FALSE)

\* set_key_discard_timer
SetTimer(k) == [k EXCEPT !.timer = TRUE]

-----------------------------------------------------------------------------

\* Another update begins although no packet of this phase has arrived.
Hasty(e, k) == k.gen > keys[e].gen /\ keys[Peer[e]].heard < keys[e].gen

\* The application asks for an update.
ForceKeyUpdate(e) ==
    /\ forced[e] > 0
    /\ forced' = [forced EXCEPT ![e] = @ - 1]
    /\ keys' = [keys EXCEPT ![e] = ForceUpdate(@)]
    /\ hasty' = (hasty \/ Hasty(e, ForceUpdate(keys[e])))
    /\ UNCHANGED <<flight, refused>>

\* poll_transmit_path_space: building a packet answers the peer's update.
Answered(k) ==
    IF k.prev = NoPrev THEN k ELSE [k EXCEPT !.prev.unacked = FALSE]

\* PacketBuilder::new and finish: the budget of the phase is used up or not.
Send(e, path) ==
    LET k0 == Answered(keys[e])
        k == IF k0.sent >= PhaseSize THEN ForceUpdate(k0) ELSE k0
    IN /\ ~refused /\ k.next[path] < MaxPn
       /\ flight' = flight \cup
              {[to |-> Peer[e], path |-> path, pn |-> k.next[path], gen |-> k.gen]}
       /\ keys' = [keys EXCEPT ![e] = [k EXCEPT !.next[path] = @ + 1, !.sent = @ + 1]]
       /\ hasty' = (hasty \/ Hasty(e, k))
       /\ UNCHANGED <<forced, refused>>

SamePhase(k, pk) == k.gen % 2 = pk.gen % 2

\* Mutant: the previous keys are tried whatever the packet number.
UsesPrevAlways(k, pk) == ~SamePhase(k, pk) /\ k.prev # NoPrev
\* decrypt_packet_body: the keys for a packet
UsesPrev(k, pk) ==
    /\ ~SamePhase(k, pk) /\ k.prev # NoPrev
    /\ k.prev.end = None \/ pk.pn < k.prev.end
IsUpdate(k, pk) == ~SamePhase(k, pk) /\ ~UsesPrev(k, pk)
KeyFor(k, pk) ==
    CASE SamePhase(k, pk) -> k.gen
      [] UsesPrev(k, pk) -> k.prev.gen
      [] OTHER -> k.gen + 1
Opens(k, pk) == KeyFor(k, pk) = pk.gen

\* An update that comes too early or in an old packet
Illegal(k, pk) ==
    IsUpdate(k, pk) /\ (pk.pn <= k.largest[pk.path] \/ k.prev.unacked)

\* The peer follows an update that began here.
Confirmed(k, pk) == k.prev # NoPrev /\ k.prev.end = None /\ SamePhase(k, pk)

\* decrypt_packet and on_packet_authenticated
Opened(k, pk) ==
    LET k1 == IF Confirmed(k, pk) THEN SetTimer([k EXCEPT !.prev.end = pk.pn]) ELSE k
        k2 == IF IsUpdate(k, pk) THEN SetTimer(UpdateKeys(k1, pk.pn, TRUE)) ELSE k1
        k3 == IF k2.zero THEN SetTimer(k2) ELSE k2
    IN [k3 EXCEPT !.largest[pk.path] = IF @ < pk.pn THEN pk.pn ELSE @,
                  !.heard = IF @ < pk.gen THEN pk.gen ELSE @]

Receive(pk) ==
    LET e == pk.to
        k == keys[e]
    IN /\ ~refused
       /\ flight' = flight \ {pk}
       /\ IF ~Opens(k, pk) THEN UNCHANGED <<keys, refused>>
          ELSE IF Illegal(k, pk) THEN refused' = TRUE /\ UNCHANGED keys
          ELSE keys' = [keys EXCEPT ![e] = Opened(k, pk)] /\ UNCHANGED refused
       /\ UNCHANGED <<forced, hasty>>

\* ConnTimer::KeyDiscard and discard_temporary_keys
Discard(e) ==
    /\ keys[e].timer
    /\ keys' = [keys EXCEPT ![e] =
           [@ EXCEPT !.timer = FALSE, !.prev = NoPrev, !.zero = FALSE]]
    /\ hasty' = (hasty \/ (keys[e].prev # NoPrev /\ keys[e].prev.end = None))
    /\ UNCHANGED <<flight, forced, refused>>

Next ==
    \/ \E e \in Ends : ForceKeyUpdate(e) \/ Discard(e) \/ \E p \in Paths : Send(e, p)
    \/ \E pk \in flight : Receive(pk)

Spec == Init /\ [][Next]_vars

-----------------------------------------------------------------------------
(* Properties                                                              *)

\* Peers that both follow update_keys never take the other's update for an
\* illegal one, however packets around the updates are lost and reordered,
\* unless one went on too early (NeverDeaf).
UpdatesAccepted == refused => hasty

\* Neither endpoint goes deaf: a packet that its peer sends now, with a number
\* above all before, opens with one of the keys it has or has precomputed.
CanHear ==
    \A e \in Ends, p \in Paths :
        Opens(keys[e], [to |-> e, path |-> p, pn |-> MaxPn, gen |-> keys[Peer[e]].gen])

\* The same, as long as every update and every discarded key waited until the
\* peer had followed.  The code waits for a packet of the phase from the peer,
\* which is less (CanHear).
NeverDeaf == ~hasty => CanHear

\* A packet that was overtaken by those of the next phase still opens as long
\* as its keys are kept: the packet number tells the phases apart.
OvertakenOpens ==
    Cardinality(Paths) = 1 =>
        \A pk \in flight :
            pk.gen \in {keys[pk.to].gen, keys[pk.to].prev.gen} => Opens(keys[pk.to], pk)

\* Key updates never come between two endpoints that follow the code.
KeysAgree == UpdatesAccepted /\ NeverDeaf /\ OvertakenOpens
=============================================================================
