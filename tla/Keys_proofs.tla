----------------------------- MODULE Keys_proofs -----------------------------
(***************************************************************************)
(* Proofs about Keys: endpoints that follow update_keys accept each other's *)
(* updates and hear each other, as long as none went on before its peer     *)
(* followed, and the packet number tells overtaken packets apart.           *)
(***************************************************************************)
EXTENDS Keys, FiniteSetTheorems, TLAPS

PrevType == [gen : Int, end : Int, unacked : BOOLEAN]
KeyType ==
    [gen : Nat, prev : PrevType, sent : Nat, zero : BOOLEAN, timer : BOOLEAN,
     next : [Paths -> Nat], largest : [Paths -> Int], heard : Nat]
PacketType == [to : Ends, path : Paths, pn : Nat, gen : Nat]

(* The invariant, of keys K, packets F under way and the flag h of haste.   *)

Types(K, F, h) ==
    /\ K \in [Ends -> KeyType] /\ F \in SUBSET PacketType /\ h \in BOOLEAN
    /\ \A e \in Ends, p \in Paths : K[e].next[p] <= MaxPn

\* The packets from a sender carry its numbers and generations in their order,
\* and what comes late is of a generation that was heard.
InOrder(K, F) ==
    /\ \A pk \in F : /\ pk.pn < K[Peer[pk.to]].next[pk.path]
                     /\ pk.gen <= K[Peer[pk.to]].gen
                     /\ pk.pn <= K[pk.to].largest[pk.path] => pk.gen <= K[pk.to].heard
    /\ \A pk, other \in F :
           pk.to = other.to /\ pk.path = other.path /\ pk.pn <= other.pn =>
               pk.gen <= other.gen

\* What endpoint e knows of the other
Knows(K, e) ==
    /\ \A p \in Paths : K[e].largest[p] < K[Peer[e]].next[p]
    /\ K[e].heard <= K[e].gen /\ K[e].heard <= K[Peer[e]].gen
    /\ K[e].prev # NoPrev => K[e].prev.gen = K[e].gen - 1 /\ K[e].prev.gen >= 0
    /\ K[e].prev.end # None => K[e].gen <= K[Peer[e]].gen /\ K[e].prev.end < MaxPn

\* The number that ends the phase before is above all packets of that phase.
EndAbove(K, F, e) ==
    Cardinality(Paths) = 1 /\ K[e].prev.end # None =>
        \A pk \in F : pk.to = e /\ pk.gen < K[e].gen => pk.pn < K[e].prev.end

\* An update that e has not answered yet: the other has heard nothing of it.
Unanswered(K, F, e) ==
    K[e].prev.unacked = TRUE =>
        /\ K[Peer[e]].heard < K[e].gen
        /\ \A pk \in F : pk.to = Peer[e] => pk.gen < K[e].gen

\* As long as nobody went on too early: one phase apart at most, e waits for the
\* other exactly while it has heard nothing of its phase, and nobody is a phase
\* ahead of one that has not heard of the phase it is in.
Calm(K, h, e) ==
    h = FALSE =>
        /\ K[e].gen <= K[Peer[e]].gen + 1
        /\ K[e].prev # NoPrev /\ K[e].prev.end = None <=> K[e].heard < K[e].gen
        /\ K[Peer[e]].gen > K[e].gen => /\ K[e].heard >= K[e].gen
                                        /\ K[Peer[e]].heard >= K[e].gen

Sound(K, F, h) ==
    /\ Types(K, F, h) /\ InOrder(K, F)
    /\ \A e \in Ends : Knows(K, e) /\ EndAbove(K, F, e) /\ Unanswered(K, F, e) /\ Calm(K, h, e)

KeysInv ==
    /\ Sound(keys, flight, hasty)
    /\ refused \in BOOLEAN /\ UpdatesAccepted
    /\ forced \in [Ends -> Nat]

-----------------------------------------------------------------------------
(* The steps, as changes of the keys of one endpoint.                      *)

\* There are two endpoints.
LEMMA PeerFacts ==
    ASSUME NEW e \in Ends
    PROVE  /\ Peer[e] \in Ends /\ Peer[e] # e /\ Peer[Peer[e]] = e
           /\ \A d \in Ends : d = e \/ d = Peer[e]
  <1>1. e = "a" \/ e = "b"
    BY DEF Ends
  <1>2. Peer["a"] = "b" /\ Peer["b"] = "a"
    BY DEF Peer
  <1> QED
    BY <1>1, <1>2 DEF Ends

\* The invariant, seen from one endpoint
LEMMA SoundFor ==
    ASSUME NEW e \in Ends, NEW K, NEW F, NEW h, Types(K, F, h), InOrder(K, F),
           Knows(K, e) /\ EndAbove(K, F, e) /\ Unanswered(K, F, e) /\ Calm(K, h, e),
           Knows(K, Peer[e]) /\ EndAbove(K, F, Peer[e]) /\ Unanswered(K, F, Peer[e])
             /\ Calm(K, h, Peer[e])
    PROVE  Sound(K, F, h)
  BY PeerFacts DEF Sound

\* Fewer packets under way
LEMMA LoseSound ==
    ASSUME NEW K, NEW F, NEW h, Sound(K, F, h), NEW G \in SUBSET F
    PROVE  Sound(K, G, h)
  <1>1. Types(K, G, h) /\ InOrder(K, G)
    BY DEF Sound, Types, InOrder
  <1>2. ASSUME NEW e \in Ends
        PROVE  Knows(K, e) /\ EndAbove(K, G, e) /\ Unanswered(K, G, e) /\ Calm(K, h, e)
    BY DEF Sound, EndAbove, Unanswered
  <1> QED
    BY <1>1, <1>2 DEF Sound

\* What a step of e leaves alone
Same(K, L, e) ==
    /\ L[Peer[e]] = K[Peer[e]]
    /\ L[e].gen = K[e].gen /\ L[e].next = K[e].next
    /\ L[e].largest = K[e].largest /\ L[e].heard = K[e].heard

\* Building a packet answers the peer's update: the flag alone changes.
LEMMA AnswerSound ==
    ASSUME NEW K, NEW F, NEW h, Sound(K, F, h), NEW e \in Ends,
           NEW L \in [Ends -> KeyType], Same(K, L, e),
           L[e].prev.gen = K[e].prev.gen, L[e].prev.end = K[e].prev.end,
           L[e].prev.unacked = FALSE, L[e].prev = NoPrev <=> K[e].prev = NoPrev
    PROVE  Sound(L, F, h)
  <1>1. PICK f \in Ends : f = Peer[e]
    BY PeerFacts
  <1>2. f # e /\ Peer[f] = e /\ \A d \in Ends : d = e \/ d = f
    BY <1>1, PeerFacts
  <1>3. Types(L, F, h)
    BY <1>1, <1>2 DEF Sound, Types, Same
  <1>4. InOrder(L, F)
    <2>1. \A d \in Ends : /\ L[d].gen = K[d].gen /\ L[d].next = K[d].next
                          /\ L[d].largest = K[d].largest /\ L[d].heard = K[d].heard
      BY <1>1, <1>2 DEF Same
    <2>2. \A pk \in F : pk.to \in Ends /\ Peer[pk.to] \in Ends
      BY PeerFacts DEF Sound, Types, PacketType
    <2> QED
      BY <2>1, <2>2 DEF Sound, InOrder
  <1>5. Knows(L, e) /\ EndAbove(L, F, e) /\ Unanswered(L, F, e) /\ Calm(L, h, e)
    BY <1>1 DEF Sound, Same, Knows, EndAbove, Unanswered, Calm
  <1>6. Knows(L, f) /\ EndAbove(L, F, f) /\ Unanswered(L, F, f) /\ Calm(L, h, f)
    BY <1>1, <1>2 DEF Sound, Same, Knows, EndAbove, Unanswered, Calm
  <1> QED
    BY <1>1, <1>3, <1>4, <1>5, <1>6, SoundFor

\* update_keys at the endpoint's own wish: hasty, or the peer has opened a packet
\* of the phase that ends.
LEMMA UpdateSound ==
    ASSUME NEW K, NEW F, NEW h, Sound(K, F, h), NEW e \in Ends,
           NEW L \in [Ends -> KeyType], L[Peer[e]] = K[Peer[e]],
           L[e].gen = K[e].gen + 1, L[e].next = K[e].next,
           L[e].largest = K[e].largest, L[e].heard = K[e].heard,
           K[e].prev = NoPrev,
           L[e].prev.gen = K[e].gen, L[e].prev.end = None, L[e].prev.unacked = FALSE,
           NEW haste \in BOOLEAN,
           haste = FALSE => h = FALSE /\ K[Peer[e]].heard >= K[e].gen
    PROVE  Sound(L, F, haste)
  <1>1. PICK f \in Ends : f = Peer[e]
    BY PeerFacts
  <1>2. f # e /\ Peer[f] = e /\ \A d \in Ends : d = e \/ d = f
    BY <1>1, PeerFacts
  <1>t. /\ K[e].gen \in Nat /\ K[f].gen \in Nat /\ K[e].heard \in Nat /\ K[f].heard \in Nat
        /\ K[e].prev \in PrevType /\ K[f].prev \in PrevType
        /\ F \in SUBSET PacketType
    BY DEF Sound, Types, KeyType
  <1>3. Types(L, F, haste)
    BY <1>1, <1>2 DEF Sound, Types
  <1>p. \A pk \in F : pk.to \in Ends /\ pk.gen \in Nat /\ pk.pn \in Nat /\ pk.path \in Paths
    BY <1>t DEF PacketType
  <1>4. InOrder(L, F)
    <2>1. \A d \in Ends : /\ L[d].next = K[d].next
                          /\ L[d].largest = K[d].largest /\ L[d].heard = K[d].heard
      BY <1>1, <1>2
    <2>2. \A pk \in F : Peer[pk.to] \in Ends
      BY <1>p, PeerFacts
    <2>3. \A d \in Ends : \A g \in Nat : g <= K[d].gen => g <= L[d].gen
      BY <1>1, <1>2, <1>t
    <2> QED
      BY <1>p, <2>1, <2>2, <2>3 DEF Sound, InOrder
  <1>5. Knows(L, e) /\ EndAbove(L, F, e) /\ Unanswered(L, F, e)
    <2>1. L[e].prev.end = None /\ L[e].prev.gen = K[e].gen /\ L[e].prev.unacked = FALSE
      OBVIOUS
    <2>2. Knows(L, e)
      BY <1>1, <1>t, <2>1 DEF Sound, Knows
    <2> QED
      BY <2>1, <2>2 DEF EndAbove, Unanswered
  <1>6. Knows(L, f) /\ EndAbove(L, F, f) /\ Unanswered(L, F, f)
    <2>1. Knows(K, f) /\ EndAbove(K, F, f) /\ Unanswered(K, F, f)
      BY DEF Sound
    <2>2. Knows(L, f)
      BY <1>1, <1>2, <1>t, <2>1 DEF Knows
    <2> QED
      BY <1>1, <1>2, <1>t, <2>1, <2>2 DEF EndAbove, Unanswered
  <1>7. Calm(L, haste, e) /\ Calm(L, haste, f)
    <2>1. SUFFICES ASSUME haste = FALSE PROVE Calm(L, haste, e) /\ Calm(L, haste, f)
      BY DEF Calm
    <2>2. Calm(K, h, e) /\ Calm(K, h, f) /\ Knows(K, e) /\ Knows(K, f) /\ h = FALSE
      BY <2>1 DEF Sound
    <2>3. L[e].prev # NoPrev /\ L[e].prev.end = None
      BY <1>t DEF NoPrev, None
    <2>4. K[e].heard >= K[e].gen /\ K[f].heard >= K[e].gen /\ K[f].gen <= K[e].gen + 1
          /\ K[f].heard <= K[f].gen /\ K[e].heard <= K[e].gen
      BY <1>1, <1>2, <1>t, <2>1, <2>2 DEF Calm, Knows
    <2>5. Calm(L, haste, e)
      BY <1>1, <1>2, <1>t, <2>3, <2>4 DEF Calm
    <2>6. L[f].prev # NoPrev /\ L[f].prev.end = None <=> L[f].heard < L[f].gen
      BY <1>1, <1>2, <2>2 DEF Calm
    <2>7. Calm(L, haste, f)
      BY <1>1, <1>2, <1>t, <2>4, <2>6 DEF Calm
    <2> QED
      BY <2>5, <2>7
  <1> QED
    BY <1>1, <1>3, <1>4, <1>5, <1>6, <1>7, SoundFor

\* A packet of the endpoint's generation, with the next number, goes under way.
LEMMA TransmitSound ==
    ASSUME NEW K, NEW F, NEW h, Sound(K, F, h), NEW e \in Ends, NEW p \in Paths,
           NEW L \in [Ends -> KeyType], L[Peer[e]] = K[Peer[e]],
           L[e].gen = K[e].gen, L[e].next = [K[e].next EXCEPT ![p] = @ + 1],
           L[e].largest = K[e].largest, L[e].heard = K[e].heard, L[e].prev = K[e].prev,
           K[e].prev.unacked = FALSE, K[e].next[p] < MaxPn, MaxPn \in Nat,
           NEW pk, pk = [to |-> Peer[e], path |-> p, pn |-> K[e].next[p], gen |-> K[e].gen]
    PROVE  Sound(L, F \cup {pk}, h)
  <1>1. PICK f \in Ends : f = Peer[e]
    BY PeerFacts
  <1>2. f # e /\ Peer[f] = e /\ \A d \in Ends : d = e \/ d = f
    BY <1>1, PeerFacts
  <1>t. /\ K[e].gen \in Nat /\ K[f].gen \in Nat /\ K[e].heard \in Nat /\ K[f].heard \in Nat
        /\ K[e].prev \in PrevType /\ K[f].prev \in PrevType
        /\ F \in SUBSET PacketType /\ K[e].next \in [Paths -> Nat]
        /\ K[f].next \in [Paths -> Nat]
        /\ K[e].largest \in [Paths -> Int] /\ K[f].largest \in [Paths -> Int]
    BY DEF Sound, Types, KeyType
  <1>n. /\ L[e].next[p] = K[e].next[p] + 1
        /\ \A q \in Paths : L[e].next[q] \in Nat /\ K[e].next[q] <= L[e].next[q]
        /\ \A q \in Paths : L[e].next[q] <= MaxPn
    <2>1. \A q \in Paths : K[e].next[q] <= MaxPn
      BY DEF Sound, Types
    <2> QED
      BY <1>t, <2>1
  <1>p. \A x \in F : x.to \in Ends /\ x.gen \in Nat /\ x.pn \in Nat /\ x.path \in Paths
    BY <1>t DEF PacketType
  <1>q. /\ pk.to = f /\ pk.path = p /\ pk.pn = K[e].next[p] /\ pk.gen = K[e].gen
        /\ pk \in PacketType
    BY <1>1, <1>t DEF PacketType
  <1>3. Types(L, F \cup {pk}, h)
    <2>1. h \in BOOLEAN /\ \A q \in Paths : L[f].next[q] <= MaxPn
      BY <1>1 DEF Sound, Types
    <2> QED
      BY <1>1, <1>2, <1>t, <1>n, <1>q, <2>1 DEF Types
  <1>4. InOrder(L, F \cup {pk})
    <2>0. InOrder(K, F) /\ Knows(K, f)
      BY DEF Sound
    <2>1. ASSUME NEW x \in F
          PROVE  /\ x.pn < L[Peer[x.to]].next[x.path]
                 /\ x.gen <= L[Peer[x.to]].gen
                 /\ x.pn <= L[x.to].largest[x.path] => x.gen <= L[x.to].heard
      <3>1. /\ x.pn < K[Peer[x.to]].next[x.path] /\ x.gen <= K[Peer[x.to]].gen
            /\ x.pn <= K[x.to].largest[x.path] => x.gen <= K[x.to].heard
        BY <2>0 DEF InOrder
      <3>2. CASE x.to = e
        BY <1>1, <1>2, <3>1, <3>2
      <3>3. CASE x.to = f
        BY <1>1, <1>2, <1>n, <1>p, <1>t, <3>1, <3>3
      <3> QED
        BY <1>2, <1>p, <3>2, <3>3
    <2>2. /\ pk.pn < L[Peer[pk.to]].next[pk.path] /\ pk.gen <= L[Peer[pk.to]].gen
          /\ ~(pk.pn <= L[pk.to].largest[pk.path])
      <3>1. K[f].largest[p] < K[e].next[p] /\ K[f].largest[p] \in Int /\ K[e].next[p] \in Nat
        BY <1>2, <1>t, <2>0 DEF Knows
      <3> QED
        BY <1>1, <1>2, <1>n, <1>q, <1>t, <3>1
    <2>3. ASSUME NEW x \in F, x.to = pk.to, x.path = pk.path
          PROVE  x.pn < pk.pn /\ x.gen <= pk.gen
      <3>1. x.pn < K[Peer[x.to]].next[x.path] /\ x.gen <= K[Peer[x.to]].gen
        BY <2>0 DEF InOrder
      <3>2. Peer[x.to] = e /\ x.path = p
        BY <1>2, <1>q, <2>3
      <3> QED
        BY <1>q, <3>1, <3>2
    <2>4. ASSUME NEW x \in F \cup {pk}, NEW y \in F \cup {pk},
                 x.to = y.to, x.path = y.path, x.pn <= y.pn
          PROVE  x.gen <= y.gen
      <3>1. CASE x \in F /\ y \in F
        BY <2>0, <2>4, <3>1 DEF InOrder
      <3>2. CASE x \in F /\ y = pk
        BY <2>3, <2>4, <3>2
      <3>3. CASE x = pk /\ y \in F
        <4>1. y.pn < x.pn /\ y.pn \in Nat /\ x.pn \in Nat
          BY <1>p, <1>q, <1>t, <2>3, <2>4, <3>3
        <4> QED
          BY <2>4, <4>1
      <3>4. CASE x = pk /\ y = pk
        BY <1>q, <1>t, <3>4
      <3> QED
        BY <2>4, <3>1, <3>2, <3>3, <3>4
    <2> QED
      BY <2>1, <2>2, <2>4 DEF InOrder
  <1>5. Knows(L, e) /\ EndAbove(L, F \cup {pk}, e) /\ Unanswered(L, F \cup {pk}, e)
    <2>1. Knows(K, e) /\ EndAbove(K, F, e)
      BY DEF Sound
    <2>2. Knows(L, e)
      BY <1>1, <1>t, <2>1 DEF Knows
    <2>3. EndAbove(L, F \cup {pk}, e)
      BY <1>2, <1>q, <2>1 DEF EndAbove
    <2>4. Unanswered(L, F \cup {pk}, e)
      BY DEF Unanswered
    <2> QED
      BY <2>2, <2>3, <2>4
  <1>6. Knows(L, f) /\ EndAbove(L, F \cup {pk}, f) /\ Unanswered(L, F \cup {pk}, f)
    <2>1. Knows(K, f) /\ EndAbove(K, F, f) /\ Unanswered(K, F, f)
      BY DEF Sound
    <2>2. Knows(L, f)
      <3>1. \A q \in Paths : K[f].largest[q] < L[e].next[q]
        <4>1. \A q \in Paths : K[f].largest[q] < K[e].next[q] /\ K[f].largest[q] \in Int
                               /\ K[e].next[q] \in Nat
          BY <1>2, <1>t, <2>1 DEF Knows
        <4> QED
          BY <1>n, <4>1
      <3> QED
        BY <1>1, <1>2, <2>1, <3>1 DEF Knows
    <2>3. EndAbove(L, F \cup {pk}, f)
      <3>1. K[f].prev.end # None => K[f].gen <= K[e].gen
        BY <1>2, <2>1 DEF Knows
      <3> QED
        BY <1>1, <1>q, <1>t, <2>1, <3>1 DEF EndAbove
    <2>4. Unanswered(L, F \cup {pk}, f)
      BY <1>1, <1>2, <1>q, <2>1 DEF Unanswered
    <2> QED
      BY <2>2, <2>3, <2>4
  <1>7. Calm(L, h, e) /\ Calm(L, h, f)
    BY <1>1, <1>2 DEF Sound, Calm
  <1> QED
    BY <1>1, <1>3, <1>4, <1>5, <1>6, <1>7, SoundFor

\* discard_temporary_keys: hasty, unless the peer has followed.
LEMMA DropSound ==
    ASSUME NEW K, NEW F, NEW h, Sound(K, F, h), NEW e \in Ends,
           NEW L \in [Ends -> KeyType], Same(K, L, e), L[e].prev = NoPrev,
           NEW haste \in BOOLEAN,
           haste = FALSE => h = FALSE /\ (K[e].prev = NoPrev \/ K[e].prev.end # None)
    PROVE  Sound(L, F, haste)
  <1>1. PICK f \in Ends : f = Peer[e]
    BY PeerFacts
  <1>2. f # e /\ Peer[f] = e /\ \A d \in Ends : d = e \/ d = f
    BY <1>1, PeerFacts
  <1>3. Types(L, F, haste)
    BY <1>1, <1>2 DEF Sound, Types, Same
  <1>4. InOrder(L, F)
    <2>1. \A d \in Ends : /\ L[d].gen = K[d].gen /\ L[d].next = K[d].next
                          /\ L[d].largest = K[d].largest /\ L[d].heard = K[d].heard
      BY <1>1, <1>2 DEF Same
    <2>2. \A pk \in F : pk.to \in Ends /\ Peer[pk.to] \in Ends
      BY PeerFacts DEF Sound, Types, PacketType
    <2> QED
      BY <2>1, <2>2 DEF Sound, InOrder
  <1>n. L[e].prev.end = None /\ L[e].prev.unacked = FALSE
    BY DEF NoPrev
  <1>5. Knows(L, e) /\ EndAbove(L, F, e) /\ Unanswered(L, F, e)
    BY <1>1, <1>n DEF Sound, Same, Knows, EndAbove, Unanswered
  <1>6. Knows(L, f) /\ EndAbove(L, F, f) /\ Unanswered(L, F, f)
    BY <1>1, <1>2 DEF Sound, Same, Knows, EndAbove, Unanswered
  <1>7. Calm(L, haste, e) /\ Calm(L, haste, f)
    BY <1>1, <1>2 DEF Sound, Calm, Same
  <1> QED
    BY <1>1, <1>3, <1>4, <1>5, <1>6, <1>7, SoundFor

\* The larger of two numbers is above both and one of them.
LEMMA LargerFacts ==
    ASSUME NEW a \in Int, NEW b \in Int, NEW c, c = IF a < b THEN b ELSE a
    PROVE  c \in Int /\ a <= c /\ b <= c /\ (c = a \/ c = b) /\ (a \in Nat => c \in Nat)
  OBVIOUS

\* Endpoint e has opened packet pk: its number and its generation are heard.
Heard(K, L, e, pk) ==
    /\ L[Peer[e]] = K[Peer[e]] /\ L[e].next = K[e].next
    /\ L[e].largest = [K[e].largest EXCEPT ![pk.path] = IF @ < pk.pn THEN pk.pn ELSE @]
    /\ L[e].heard = IF K[e].heard < pk.gen THEN pk.gen ELSE K[e].heard

\* What holds of the numbers whichever generation the packet was of
LEMMA HeardFacts ==
    ASSUME NEW K, NEW F, NEW h, Sound(K, F, h), NEW e \in Ends,
           NEW L \in [Ends -> KeyType], NEW pk \in F, pk.to = e, Heard(K, L, e, pk),
           L[e].gen >= K[e].gen, pk.gen <= L[e].gen, L[e].gen <= K[Peer[e]].gen \/
           L[e].gen = K[e].gen
    PROVE  /\ Types(L, F, h) /\ InOrder(L, F)
           /\ \A p \in Paths : L[e].largest[p] < L[Peer[e]].next[p]
           /\ L[e].heard <= L[e].gen /\ L[e].heard <= L[Peer[e]].gen
           /\ Knows(L, Peer[e]) /\ EndAbove(L, F, Peer[e])
  <1>1. PICK f \in Ends : f = Peer[e]
    BY PeerFacts
  <1>2. f # e /\ Peer[f] = e /\ \A d \in Ends : d = e \/ d = f
    BY <1>1, PeerFacts
  <1>t. /\ K[e].gen \in Nat /\ K[f].gen \in Nat /\ K[e].heard \in Nat /\ K[f].heard \in Nat
        /\ K[e].prev \in PrevType /\ K[f].prev \in PrevType
        /\ F \in SUBSET PacketType /\ K[e].next \in [Paths -> Nat]
        /\ K[f].next \in [Paths -> Nat]
        /\ K[e].largest \in [Paths -> Int] /\ K[f].largest \in [Paths -> Int]
        /\ L[e].gen \in Nat
    BY DEF Sound, Types, KeyType
  <1>p. \A x \in F : x.to \in Ends /\ x.gen \in Nat /\ x.pn \in Nat /\ x.path \in Paths
    BY <1>t DEF PacketType
  <1>0. InOrder(K, F) /\ Knows(K, e) /\ Knows(K, f) /\ EndAbove(K, F, f)
    BY DEF Sound
  <1>3. Types(L, F, h)
    BY <1>1, <1>2 DEF Sound, Types, Heard
  <1>l. /\ L[e].largest[pk.path] \in Int
        /\ K[e].largest[pk.path] <= L[e].largest[pk.path]
        /\ pk.pn <= L[e].largest[pk.path]
        /\ L[e].largest[pk.path] = K[e].largest[pk.path] \/ L[e].largest[pk.path] = pk.pn
        /\ \A p \in Paths : p # pk.path => L[e].largest[p] = K[e].largest[p]
    BY <1>t, <1>p DEF Heard
  <1>h. /\ L[e].heard \in Nat /\ K[e].heard <= L[e].heard /\ pk.gen <= L[e].heard
        /\ L[e].heard = K[e].heard \/ L[e].heard = pk.gen
    BY <1>t, <1>p DEF Heard
  <1>k. pk.pn < K[f].next[pk.path] /\ pk.gen <= K[f].gen
    BY <1>0, <1>1 DEF InOrder
  <1>4. InOrder(L, F)
    <2>1. ASSUME NEW x \in F
          PROVE  /\ x.pn < L[Peer[x.to]].next[x.path]
                 /\ x.gen <= L[Peer[x.to]].gen
                 /\ x.pn <= L[x.to].largest[x.path] => x.gen <= L[x.to].heard
      <3>1. /\ x.pn < K[Peer[x.to]].next[x.path] /\ x.gen <= K[Peer[x.to]].gen
            /\ x.pn <= K[x.to].largest[x.path] => x.gen <= K[x.to].heard
        BY <1>0 DEF InOrder
      <3>2. CASE x.to = f
        BY <1>1, <1>2, <1>p, <1>t, <3>1, <3>2 DEF Heard
      <3>3. CASE x.to = e
        <4>1. x.pn < L[Peer[x.to]].next[x.path] /\ x.gen <= L[Peer[x.to]].gen
          BY <1>1, <3>1, <3>3 DEF Heard
        <4>2. ASSUME x.pn <= L[e].largest[x.path]
              PROVE  x.gen <= L[e].heard
          <5>1. CASE x.pn <= K[e].largest[x.path]
            BY <1>h, <1>p, <1>t, <3>1, <3>3, <5>1
          <5>2. CASE ~(x.pn <= K[e].largest[x.path])
            <6>1. x.path = pk.path
              BY <1>l, <1>p, <4>2, <5>2
            <6>2. x.pn <= pk.pn
              BY <1>l, <4>2, <5>2, <6>1
            <6>3. x.gen <= pk.gen
              BY <1>0, <3>3, <6>1, <6>2 DEF InOrder
            <6> QED
              BY <1>h, <1>p, <6>3
          <5> QED
            BY <5>1, <5>2
        <4> QED
          BY <3>3, <4>1, <4>2
      <3> QED
        BY <1>2, <1>p, <3>2, <3>3
    <2> QED
      BY <1>0, <2>1 DEF InOrder
  <1>5. \A p \in Paths : L[e].largest[p] < L[Peer[e]].next[p]
    <2>1. \A p \in Paths : K[e].largest[p] < K[f].next[p]
      BY <1>0, <1>1 DEF Knows
    <2>2. L[e].largest[pk.path] < K[f].next[pk.path]
      BY <1>k, <1>l, <1>p, <2>1
    <2> QED
      BY <1>1, <1>l, <2>1, <2>2 DEF Heard
  <1>6. L[e].heard <= L[e].gen /\ L[e].heard <= L[Peer[e]].gen
    BY <1>0, <1>1, <1>h, <1>k, <1>p, <1>t DEF Heard, Knows
  <1>7. Knows(L, f)
    BY <1>0, <1>1, <1>2, <1>t DEF Heard, Knows
  <1>8. EndAbove(L, F, f)
    BY <1>0, <1>1, <1>2 DEF Heard, EndAbove
  <1> QED
    BY <1>1, <1>3, <1>4, <1>5, <1>6, <1>7, <1>8

\* Among the packets on one path those of earlier phases have lower numbers.
LEMMA EarlierBelow ==
    ASSUME NEW K, NEW F, NEW h, Sound(K, F, h), NEW pk \in F, NEW x \in F,
           KeysConstants, Cardinality(Paths) = 1, x.to = pk.to, x.gen < pk.gen
    PROVE  x.pn < pk.pn
  <1>1. F \in SUBSET PacketType /\ InOrder(K, F)
    BY DEF Sound, Types
  <1>2. /\ x.pn \in Nat /\ pk.pn \in Nat /\ x.gen \in Nat /\ pk.gen \in Nat
        /\ x.path \in Paths /\ pk.path \in Paths
    BY <1>1 DEF PacketType
  <1>3. x.path = pk.path
    <2>1. PICK p : Paths = {p}
      <3>1. IsFiniteSet(Paths)
        BY DEF KeysConstants
      <3> QED
        BY <3>1, FS_Singleton
    <2> QED
      BY <1>2, <2>1
  <1>4. pk.pn <= x.pn => pk.gen <= x.gen
    BY <1>1, <1>3 DEF InOrder
  <1> QED
    BY <1>2, <1>4

\* A packet of the current phase: it confirms an update that began here.
LEMMA CurrentSound ==
    ASSUME KeysConstants, NEW K, NEW F, NEW h, Sound(K, F, h), NEW e \in Ends,
           NEW L \in [Ends -> KeyType], NEW pk \in F, pk.to = e, Heard(K, L, e, pk),
           L[e].gen = K[e].gen, pk.gen = K[e].gen,
           L[e].prev = IF K[e].prev # NoPrev /\ K[e].prev.end = None
                       THEN [K[e].prev EXCEPT !.end = pk.pn] ELSE K[e].prev
    PROVE  Sound(L, F, h)
  <1>1. PICK f \in Ends : f = Peer[e]
    BY PeerFacts
  <1>2. f # e /\ Peer[f] = e /\ \A d \in Ends : d = e \/ d = f
    BY <1>1, PeerFacts
  <1>t. /\ K[e].gen \in Nat /\ K[f].gen \in Nat /\ K[e].heard \in Nat /\ K[f].heard \in Nat
        /\ K[e].prev \in PrevType /\ K[f].prev \in PrevType
        /\ F \in SUBSET PacketType /\ K[f].next \in [Paths -> Nat]
        /\ pk.pn \in Nat /\ pk.path \in Paths /\ MaxPn \in Nat
    BY DEF Sound, Types, KeyType, PacketType, KeysConstants
  <1>0. /\ InOrder(K, F) /\ Knows(K, e) /\ Knows(K, f) /\ EndAbove(K, F, e)
        /\ Unanswered(K, F, e) /\ Unanswered(K, F, f) /\ Calm(K, h, e) /\ Calm(K, h, f)
    BY DEF Sound
  <1>3. /\ Types(L, F, h) /\ InOrder(L, F)
        /\ \A p \in Paths : L[e].largest[p] < L[f].next[p]
        /\ L[e].heard <= L[e].gen /\ L[e].heard <= L[f].gen
        /\ Knows(L, f) /\ EndAbove(L, F, f)
    BY <1>1, <1>t, HeardFacts
  <1>k. pk.pn < MaxPn /\ K[e].gen <= K[f].gen
    <2>1. pk.pn < K[f].next[pk.path] /\ pk.gen <= K[f].gen
      BY <1>0, <1>1 DEF InOrder
    <2>2. K[f].next[pk.path] <= MaxPn /\ K[f].next[pk.path] \in Nat
      BY <1>t DEF Sound, Types
    <2> QED
      BY <1>t, <2>1, <2>2
  <1>h. L[e].heard = K[e].gen
    BY <1>0, <1>t DEF Heard, Knows
  <1>g. L[f] = K[f]
    BY <1>1 DEF Heard
  <1>7. Unanswered(L, F, f) /\ Calm(L, h, f)
    <2>1. Unanswered(L, F, f)
      <3>1. K[f].prev.unacked = TRUE => pk.gen < K[f].gen
        BY <1>0, <1>2 DEF Unanswered
      <3> QED
        BY <1>0, <1>2, <1>g, <1>h, <3>1 DEF Unanswered
    <2>2. Calm(L, h, f)
      BY <1>0, <1>2, <1>g, <1>h, <1>t DEF Calm, Knows
    <2> QED
      BY <2>1, <2>2
  <1>4. CASE K[e].prev # NoPrev /\ K[e].prev.end = None
    <2>1. /\ L[e].prev.gen = K[e].prev.gen /\ L[e].prev.end = pk.pn
          /\ L[e].prev.unacked = K[e].prev.unacked
      BY <1>4, <1>t DEF PrevType
    <2>2. Knows(L, e)
      BY <1>0, <1>1, <1>3, <1>4, <1>k, <1>g, <2>1 DEF Knows
    <2>3. EndAbove(L, F, e)
      <3>1. SUFFICES ASSUME Cardinality(Paths) = 1, NEW x \in F, x.to = e, x.gen < K[e].gen
                     PROVE  x.pn < pk.pn
        BY <2>1 DEF EndAbove
      <3> QED
        BY <3>1, EarlierBelow
    <2>4. Unanswered(L, F, e)
      BY <1>0, <1>1, <1>g, <2>1 DEF Unanswered
    <2>5. L[e].prev.end # None
      BY <1>t, <2>1 DEF None
    <2>6. Calm(L, h, e)
      BY <1>0, <1>1, <1>g, <1>h, <1>t, <2>5 DEF Calm
    <2> QED
      BY <2>2, <2>3, <2>4, <2>6, <1>1, <1>3, <1>7, SoundFor
  <1>5. CASE ~(K[e].prev # NoPrev /\ K[e].prev.end = None)
    <2>1. L[e].prev = K[e].prev
      BY <1>5
    <2>2. Knows(L, e) /\ EndAbove(L, F, e) /\ Unanswered(L, F, e)
      BY <1>0, <1>1, <1>3, <1>g, <2>1 DEF Knows, EndAbove, Unanswered
    <2>3. Calm(L, h, e)
      BY <1>0, <1>1, <1>5, <1>g, <1>h, <1>t, <2>1 DEF Calm
    <2> QED
      BY <2>2, <2>3, <1>1, <1>3, <1>7, SoundFor
  <1> QED
    BY <1>4, <1>5

\* A packet of the phase before
LEMMA EarlierSound ==
    ASSUME KeysConstants, NEW K, NEW F, NEW h, Sound(K, F, h), NEW e \in Ends,
           NEW L \in [Ends -> KeyType], NEW pk \in F, pk.to = e, Heard(K, L, e, pk),
           L[e].gen = K[e].gen, pk.gen < K[e].gen, L[e].prev = K[e].prev
    PROVE  Sound(L, F, h)
  <1>1. PICK f \in Ends : f = Peer[e]
    BY PeerFacts
  <1>2. f # e /\ Peer[f] = e /\ \A d \in Ends : d = e \/ d = f
    BY <1>1, PeerFacts
  <1>t. /\ K[e].gen \in Nat /\ K[f].gen \in Nat /\ K[e].heard \in Nat /\ K[f].heard \in Nat
        /\ pk.gen \in Nat
    BY DEF Sound, Types, KeyType, PacketType
  <1>0. /\ Knows(K, e) /\ Knows(K, f) /\ EndAbove(K, F, e)
        /\ Unanswered(K, F, e) /\ Unanswered(K, F, f) /\ Calm(K, h, e) /\ Calm(K, h, f)
    BY DEF Sound
  <1>3. /\ Types(L, F, h) /\ InOrder(L, F)
        /\ \A p \in Paths : L[e].largest[p] < L[f].next[p]
        /\ L[e].heard <= L[e].gen /\ L[e].heard <= L[f].gen
        /\ Knows(L, f) /\ EndAbove(L, F, f)
    BY <1>1, <1>t, HeardFacts
  <1>h. /\ L[e].heard \in Nat /\ K[e].heard <= L[e].heard
        /\ L[e].heard < K[e].gen <=> K[e].heard < K[e].gen
        /\ L[e].heard = K[e].heard \/ L[e].heard = pk.gen
    BY <1>t DEF Heard
  <1>g. L[f] = K[f]
    BY <1>1 DEF Heard
  <1>4. Knows(L, e) /\ EndAbove(L, F, e) /\ Unanswered(L, F, e)
    BY <1>0, <1>1, <1>3, <1>g DEF Knows, EndAbove, Unanswered
  <1>5. Calm(L, h, e)
    BY <1>0, <1>1, <1>g, <1>h, <1>t DEF Calm
  <1>6. Unanswered(L, F, f)
    <2>1. K[f].prev.unacked = TRUE => pk.gen < K[f].gen
      BY <1>0, <1>2 DEF Unanswered
    <2> QED
      BY <1>0, <1>2, <1>g, <1>h, <2>1 DEF Unanswered
  <1>7. Calm(L, h, f)
    BY <1>0, <1>2, <1>g, <1>h, <1>t DEF Calm
  <1> QED
    BY <1>1, <1>3, <1>4, <1>5, <1>6, <1>7, SoundFor

\* A packet of the next phase: update_keys follows the peer.
LEMMA FollowSound ==
    ASSUME KeysConstants, NEW K, NEW F, NEW h, Sound(K, F, h), NEW e \in Ends,
           NEW L \in [Ends -> KeyType], NEW pk \in F, pk.to = e, Heard(K, L, e, pk),
           L[e].gen = K[e].gen + 1, pk.gen = K[e].gen + 1,
           L[e].prev.gen = K[e].gen, L[e].prev.end = pk.pn, L[e].prev.unacked = TRUE
    PROVE  Sound(L, F, h)
  <1>1. PICK f \in Ends : f = Peer[e]
    BY PeerFacts
  <1>2. f # e /\ Peer[f] = e /\ \A d \in Ends : d = e \/ d = f
    BY <1>1, PeerFacts
  <1>t. /\ K[e].gen \in Nat /\ K[f].gen \in Nat /\ K[e].heard \in Nat /\ K[f].heard \in Nat
        /\ K[e].prev \in PrevType /\ K[f].prev \in PrevType
        /\ F \in SUBSET PacketType /\ K[f].next \in [Paths -> Nat]
        /\ pk.pn \in Nat /\ pk.path \in Paths /\ MaxPn \in Nat
    BY DEF Sound, Types, KeyType, PacketType, KeysConstants
  <1>0. /\ InOrder(K, F) /\ Knows(K, e) /\ Knows(K, f) /\ EndAbove(K, F, e)
        /\ Unanswered(K, F, e) /\ Unanswered(K, F, f) /\ Calm(K, h, e) /\ Calm(K, h, f)
    BY DEF Sound
  <1>k. pk.pn < MaxPn /\ K[e].gen + 1 <= K[f].gen
    <2>1. pk.pn < K[f].next[pk.path] /\ pk.gen <= K[f].gen
      BY <1>0, <1>1 DEF InOrder
    <2>2. K[f].next[pk.path] <= MaxPn /\ K[f].next[pk.path] \in Nat
      BY <1>t DEF Sound, Types
    <2> QED
      BY <1>t, <2>1, <2>2
  <1>3. /\ Types(L, F, h) /\ InOrder(L, F)
        /\ \A p \in Paths : L[e].largest[p] < L[f].next[p]
        /\ L[e].heard <= L[e].gen /\ L[e].heard <= L[f].gen
        /\ Knows(L, f) /\ EndAbove(L, F, f)
    <2>1. /\ L[e].gen >= K[e].gen /\ pk.gen <= L[e].gen
          /\ L[e].gen <= K[Peer[e]].gen
      BY <1>1, <1>t, <1>k
    <2> QED
      BY <1>1, <2>1, HeardFacts
  <1>h. L[e].heard = K[e].gen + 1
    BY <1>0, <1>t DEF Heard, Knows
  <1>g. L[f] = K[f]
    BY <1>1 DEF Heard
  <1>v. L[e].prev.gen = K[e].gen /\ L[e].prev.end = pk.pn /\ L[e].prev.end # None
    BY <1>t DEF None
  <1>4. Knows(L, e)
    BY <1>0, <1>1, <1>3, <1>k, <1>g, <1>t, <1>v DEF Knows
  <1>5. EndAbove(L, F, e)
    <2>1. SUFFICES ASSUME Cardinality(Paths) = 1, NEW x \in F, x.to = e, x.gen < K[e].gen + 1
                   PROVE  x.pn < pk.pn
      BY <1>v DEF EndAbove
    <2> QED
      BY <2>1, EarlierBelow
  <1>6. Unanswered(L, F, e)
    <2>1. K[f].heard <= K[e].gen
      BY <1>0, <1>2 DEF Knows
    <2>2. ASSUME NEW x \in F, x.to = f
          PROVE  x.gen < K[e].gen + 1
      <3>1. x.gen <= K[Peer[x.to]].gen /\ x.gen \in Nat
        BY <1>0, <1>t DEF InOrder, PacketType
      <3> QED
        BY <1>2, <1>t, <2>2, <3>1
    <2> QED
      BY <1>1, <1>g, <1>t, <2>1, <2>2 DEF Unanswered
  <1>7. Unanswered(L, F, f)
    <2>1. K[f].prev.unacked = TRUE => pk.gen < K[f].gen
      BY <1>0, <1>2 DEF Unanswered
    <2> QED
      BY <1>0, <1>2, <1>g, <1>h, <2>1 DEF Unanswered
  <1>8. Calm(L, h, e) /\ Calm(L, h, f)
    <2>1. SUFFICES ASSUME h = FALSE PROVE Calm(L, h, e) /\ Calm(L, h, f)
      BY DEF Calm
    <2>2. K[f].gen = K[e].gen + 1
      BY <1>0, <1>2, <1>k, <1>t, <2>1 DEF Calm
    <2>3. Calm(L, h, e)
      BY <1>1, <1>g, <1>h, <1>t, <1>v, <2>2 DEF Calm
    <2>4. L[f].prev # NoPrev /\ L[f].prev.end = None <=> L[f].heard < L[f].gen
      BY <1>0, <1>g, <2>1 DEF Calm
    <2>5. Calm(L, h, f)
      BY <1>1, <1>2, <1>g, <1>t, <2>2, <2>4 DEF Calm
    <2> QED
      BY <2>3, <2>5
  <1> QED
    BY <1>1, <1>3, <1>4, <1>5, <1>6, <1>7, <1>8, SoundFor

-----------------------------------------------------------------------------
(* The actions.                                                            *)

\* Both start with the first keys.
LEMMA InitInv ==
    ASSUME KeysConstants, Init
    PROVE  KeysInv
  <1>1. PICK sc \in Scenarios :
           /\ forced = sc.updates
           /\ keys = [e \in Ends |->
                 [gen |-> 0, prev |-> NoPrev, sent |-> 0, zero |-> e \in sc.zero,
                  timer |-> FALSE, next |-> [p \in Paths |-> 0],
                  largest |-> [p \in Paths |-> None], heard |-> 0]]
           /\ flight = {} /\ refused = FALSE /\ hasty = FALSE
    BY DEF Init
  <1>2. forced \in [Ends -> Nat]
    BY <1>1 DEF KeysConstants
  <1>3. NoPrev \in PrevType /\ NoPrev.end = None /\ NoPrev.unacked = FALSE
    BY DEF NoPrev, PrevType, None
  <1>4. ASSUME NEW e \in Ends
        PROVE  /\ keys[e] \in KeyType /\ keys[e].gen = 0 /\ keys[e].heard = 0
               /\ keys[e].prev = NoPrev
               /\ \A p \in Paths : keys[e].next[p] = 0 /\ keys[e].largest[p] = -1
    <2>1. (e \in sc.zero) \in BOOLEAN
      OBVIOUS
    <2>2. keys[e] = [gen |-> 0, prev |-> NoPrev, sent |-> 0, zero |-> (e \in sc.zero),
                     timer |-> FALSE, next |-> [p \in Paths |-> 0],
                     largest |-> [p \in Paths |-> -1], heard |-> 0]
      BY <1>1 DEF None
    <2>3. [p \in Paths |-> 0] \in [Paths -> Nat] /\ [p \in Paths |-> -1] \in [Paths -> Int]
      OBVIOUS
    <2> QED
      BY <1>3, <2>1, <2>2, <2>3 DEF KeyType
  <1>5. Types(keys, flight, hasty)
    <2>1. keys \in [Ends -> KeyType]
      <3>1. DOMAIN keys = Ends /\ keys = [e \in Ends |-> keys[e]]
        BY <1>1
      <3> QED
        BY <1>4, <3>1
    <2>2. ASSUME NEW e \in Ends, NEW p \in Paths
          PROVE  keys[e].next[p] <= MaxPn
      <3>1. keys[e].next[p] = 0
        BY <1>4
      <3> QED
        BY <3>1 DEF KeysConstants
    <2> QED
      BY <1>1, <2>1, <2>2 DEF Types
  <1>6. InOrder(keys, flight)
    BY <1>1 DEF InOrder
  <1>7. ASSUME NEW e \in Ends
        PROVE  Knows(keys, e) /\ EndAbove(keys, flight, e) /\ Unanswered(keys, flight, e)
               /\ Calm(keys, hasty, e)
    <2>1. Peer[e] \in Ends
      BY PeerFacts
    <2>2. Knows(keys, e)
      BY <1>3, <1>4, <2>1 DEF Knows
    <2>3. EndAbove(keys, flight, e) /\ Unanswered(keys, flight, e)
      BY <1>3, <1>4 DEF EndAbove, Unanswered
    <2>4. Calm(keys, hasty, e)
      BY <1>4, <2>1 DEF Calm
    <2> QED
      BY <2>2, <2>3, <2>4
  <1> QED
    BY <1>1, <1>2, <1>5, <1>6, <1>7 DEF KeysInv, Sound, UpdatesAccepted

\* What update_keys leaves alone, of a record of any fields
LEMMA UpdateRecord ==
    ASSUME NEW P, NEW N, NEW M, NEW v \in P, NEW l,
           NEW k \in [gen : Nat, prev : P, sent : Nat, zero : BOOLEAN, timer : BOOLEAN,
                      next : N, largest : M, heard : Nat],
           l = [k EXCEPT !.prev = v, !.gen = @ + 1, !.sent = 0]
    PROVE  l = [gen |-> k.gen + 1, prev |-> v, sent |-> 0, zero |-> k.zero,
                timer |-> k.timer, next |-> k.next, largest |-> k.largest,
                heard |-> k.heard]
  OBVIOUS

\* What update_keys leaves alone
LEMMA UpdateFields ==
    ASSUME NEW k \in KeyType, NEW end \in Int, NEW remote \in BOOLEAN
    PROVE  /\ UpdateKeys(k, end, remote) \in KeyType
           /\ UpdateKeys(k, end, remote).gen = k.gen + 1
           /\ UpdateKeys(k, end, remote).next = k.next
           /\ UpdateKeys(k, end, remote).largest = k.largest
           /\ UpdateKeys(k, end, remote).heard = k.heard
           /\ UpdateKeys(k, end, remote).zero = k.zero
           /\ UpdateKeys(k, end, remote).prev.gen = k.gen
           /\ UpdateKeys(k, end, remote).prev.end = end
           /\ UpdateKeys(k, end, remote).prev.unacked = remote
  <1>0. /\ k.gen \in Nat /\ k.zero \in BOOLEAN /\ k.timer \in BOOLEAN
        /\ k.next \in [Paths -> Nat] /\ k.largest \in [Paths -> Int] /\ k.heard \in Nat
    BY DEF KeyType
  <1>1. PICK v : v = [gen |-> k.gen, end |-> end, unacked |-> remote]
    OBVIOUS
  <1>2. PICK l : l = [k EXCEPT !.prev = v, !.gen = @ + 1, !.sent = 0]
    OBVIOUS
  <1>3. l = UpdateKeys(k, end, remote)
    BY <1>1, <1>2 DEF UpdateKeys
  <1>4. v \in PrevType
    BY <1>0, <1>1 DEF PrevType
  <1>5. l = [gen |-> k.gen + 1, prev |-> v, sent |-> 0, zero |-> k.zero,
             timer |-> k.timer, next |-> k.next, largest |-> k.largest,
             heard |-> k.heard]
    BY <1>2, <1>4, UpdateRecord DEF KeyType
  <1>6. l \in KeyType
    BY <1>0, <1>4, <1>5 DEF KeyType
  <1> QED
    BY <1>1, <1>3, <1>5, <1>6

\* force_key_update, on the keys of an endpoint
LEMMA ForceType ==
    ASSUME NEW k \in KeyType
    PROVE  ForceUpdate(k) \in KeyType
  <1>1. PICK r \in BOOLEAN : r = FALSE
    OBVIOUS
  <1>2. ForceUpdate(k) = k \/ ForceUpdate(k) = UpdateKeys(k, None, r)
    BY <1>1, Zenon DEF ForceUpdate
  <1>3. None \in Int
    BY DEF None
  <1>4. UpdateKeys(k, None, r) \in KeyType
    BY <1>3, UpdateFields
  <1> QED
    BY <1>2, <1>4

\* force_key_update, on keys that are part of a sound state
LEMMA ForceSound ==
    ASSUME NEW K, NEW F, NEW h, Sound(K, F, h), NEW e \in Ends,
           NEW L \in [Ends -> KeyType], L[e] = ForceUpdate(K[e]), L[Peer[e]] = K[Peer[e]],
           NEW haste \in BOOLEAN, h = TRUE => haste = TRUE,
           haste = FALSE => h = FALSE /\ ~(L[e].gen > K[e].gen /\ K[Peer[e]].heard < K[e].gen)
    PROVE  Sound(L, F, haste)
  <1>1. /\ K \in [Ends -> KeyType] /\ K[e] \in KeyType /\ K[e].gen \in Nat /\ h \in BOOLEAN
        /\ Peer[e] \in Ends /\ Peer[e] # e /\ K[Peer[e]].heard \in Nat
    BY PeerFacts DEF Sound, Types, KeyType
  <1>3. CASE K[e].prev # NoPrev
    <2>1. L[e] = K[e]
      BY <1>3 DEF ForceUpdate
    <2>2. L = K
      <3>1. \A d \in Ends : L[d] = K[d]
        BY <2>1, PeerFacts
      <3> QED
        BY <1>1, <3>1
    <2>3. Sound(K, F, haste)
      BY DEF Sound, Types, Calm
    <2> QED
      BY <2>2, <2>3
  <1>4. CASE K[e].prev = NoPrev
    <2>r. PICK r \in BOOLEAN : r = FALSE
      OBVIOUS
    <2>n. None \in Int
      BY DEF None
    <2>1. L[e] = UpdateKeys(K[e], None, r)
      BY <1>4, <2>r, Zenon DEF ForceUpdate
    <2>2. /\ L[e].gen = K[e].gen + 1 /\ L[e].next = K[e].next
          /\ L[e].largest = K[e].largest /\ L[e].heard = K[e].heard
          /\ L[e].prev.gen = K[e].gen /\ L[e].prev.end = None
          /\ L[e].prev.unacked = FALSE
      BY <1>1, <2>1, <2>n, <2>r, UpdateFields
    <2>3. haste = FALSE => h = FALSE /\ K[Peer[e]].heard >= K[e].gen
      BY <1>1, <2>2
    <2> QED
      BY <1>4, <2>2, <2>3, UpdateSound
  <1> QED
    BY <1>3, <1>4

\* The application asks for an update.
LEMMA ForceInv ==
    ASSUME KeysConstants, KeysInv, NEW e \in Ends, ForceKeyUpdate(e)
    PROVE  KeysInv'
  <1>1. /\ Sound(keys, flight, hasty) /\ refused \in BOOLEAN /\ UpdatesAccepted
        /\ forced \in [Ends -> Nat] /\ keys \in [Ends -> KeyType] /\ hasty \in BOOLEAN
    BY DEF KeysInv, Sound, Types
  <1>2. /\ keys' = [keys EXCEPT ![e] = ForceUpdate(keys[e])]
        /\ hasty' = (hasty \/ (ForceUpdate(keys[e]).gen > keys[e].gen
                                /\ keys[Peer[e]].heard < keys[e].gen))
        /\ flight' = flight /\ refused' = refused
        /\ forced[e] > 0 /\ forced' = [forced EXCEPT ![e] = @ - 1]
    BY DEF ForceKeyUpdate, Hasty
  <1>3. keys'[e] = ForceUpdate(keys[e])
    BY <1>1, <1>2
  <1>4. /\ hasty' \in BOOLEAN /\ (hasty = TRUE => hasty' = TRUE)
        /\ hasty' = FALSE => hasty = FALSE /\ ~(keys'[e].gen > keys[e].gen
                                                /\ keys[Peer[e]].heard < keys[e].gen)
    BY <1>1, <1>2, <1>3, Zenon
  <1>5. Sound(keys', flight, hasty')
    <2>1. PICK L : L = keys'
      OBVIOUS
    <2>2. PICK haste \in BOOLEAN : haste = hasty'
      BY <1>4, Zenon
    <2>3. hasty = TRUE => haste = TRUE
      BY <1>2, <1>4, <2>1, <2>2, Zenon
    <2>k. /\ L \in [Ends -> KeyType] /\ L[e] = ForceUpdate(keys[e])
          /\ L[Peer[e]] = keys[Peer[e]]
      BY <1>1, <1>2, <1>3, <2>1, ForceType, PeerFacts
    <2>4. haste = FALSE => hasty = FALSE /\ ~(L[e].gen > keys[e].gen
                                              /\ keys[Peer[e]].heard < keys[e].gen)
      BY <1>4, <2>1, <2>2, Zenon
    <2>5. Sound(L, flight, haste)
      BY <1>1, <2>3, <2>k, <2>4, ForceSound
    <2> QED
      BY <2>1, <2>2, <2>5, Zenon
  <1>6. forced' \in [Ends -> Nat]
    BY <1>1, <1>2
  <1>7. UpdatesAccepted'
    BY <1>1, <1>2, <1>4 DEF UpdatesAccepted
  <1> QED
    BY <1>1, <1>2, <1>5, <1>6, <1>7 DEF KeysInv

\* What building a packet leaves alone
LEMMA AnswerFields ==
    ASSUME NEW k \in KeyType, k.prev # NoPrev => k.prev.gen >= 0
    PROVE  /\ Answered(k) \in KeyType
           /\ Answered(k).gen = k.gen /\ Answered(k).next = k.next
           /\ Answered(k).largest = k.largest /\ Answered(k).heard = k.heard
           /\ Answered(k).prev.gen = k.prev.gen /\ Answered(k).prev.end = k.prev.end
           /\ Answered(k).prev.unacked = FALSE
           /\ Answered(k).prev = NoPrev <=> k.prev = NoPrev
  <1>1. CASE k.prev = NoPrev
    <2>1. Answered(k) = k
      BY <1>1 DEF Answered
    <2>2. k.prev.unacked = FALSE
      BY <1>1 DEF NoPrev
    <2> QED
      BY <2>1, <2>2
  <1>2. CASE k.prev # NoPrev
    <2>1. PICK v : v = [k.prev EXCEPT !.unacked = FALSE]
      OBVIOUS
    <2>2. k.prev \in PrevType
      BY DEF KeyType
    <2>3. /\ v \in PrevType /\ v.gen = k.prev.gen /\ v.end = k.prev.end
          /\ v.unacked = FALSE
      BY <2>1, <2>2 DEF PrevType
    <2>4. PICK l : l = [k EXCEPT !.prev = v]
      OBVIOUS
    <2>5. Answered(k) = l
      BY <1>2, <2>1, <2>4 DEF Answered
    <2>6. /\ l \in KeyType /\ l.gen = k.gen /\ l.next = k.next
          /\ l.largest = k.largest /\ l.heard = k.heard /\ l.prev = v
      BY <2>3, <2>4 DEF KeyType
    <2>7. v # NoPrev
      BY <1>2, <2>2, <2>3 DEF NoPrev, None
    <2> QED
      BY <1>2, <2>3, <2>5, <2>6, <2>7
  <1> QED
    BY <1>1, <1>2

\* A flag that is raised says less.
LEMMA HasteSound ==
    ASSUME NEW K, NEW F, NEW h, Sound(K, F, h), NEW haste \in BOOLEAN,
           h = TRUE => haste = TRUE
    PROVE  Sound(K, F, haste)
  <1>1. h \in BOOLEAN
    BY DEF Sound, Types
  <1>2. haste = FALSE => h = FALSE
    BY <1>1
  <1> QED
    BY <1>2 DEF Sound, Types, Calm

\* The keys that a packet is built with
Building(k) ==
    IF Answered(k).sent >= PhaseSize THEN ForceUpdate(Answered(k)) ELSE Answered(k)

\* PacketBuilder::new, on the keys of an endpoint
LEMMA BuildType ==
    ASSUME NEW k \in KeyType, k.prev # NoPrev => k.prev.gen >= 0
    PROVE  Building(k) \in KeyType /\ Building(k).prev.unacked = FALSE
  <1>1. PICK b \in KeyType : b = Answered(k)
    BY AnswerFields
  <1>2. b.prev.unacked = FALSE
    BY <1>1, AnswerFields
  <1>3. ForceUpdate(b) \in KeyType
    BY ForceType
  <1>4. ForceUpdate(b).prev.unacked = FALSE
    <2>1. PICK r \in BOOLEAN : r = FALSE
      OBVIOUS
    <2>2. CASE b.prev # NoPrev
      BY <1>2, <2>2 DEF ForceUpdate
    <2>3. CASE b.prev = NoPrev
      <3>1. ForceUpdate(b) = UpdateKeys(b, None, r)
        BY <2>1, <2>3, Zenon DEF ForceUpdate
      <3>2. None \in Int
        BY DEF None
      <3> QED
        BY <2>1, <3>1, <3>2, UpdateFields
    <2> QED
      BY <2>2, <2>3
  <1>5. Building(k) = b \/ Building(k) = ForceUpdate(b)
    BY <1>1 DEF Building
  <1> QED
    BY <1>2, <1>3, <1>4, <1>5

\* PacketBuilder::new answers the peer's update, and begins one when the budget
\* of the phase is used up.
LEMMA BuildSound ==
    ASSUME NEW K, NEW F, NEW h, Sound(K, F, h), NEW e \in Ends,
           NEW L \in [Ends -> KeyType], L[e] = Building(K[e]), L[Peer[e]] = K[Peer[e]],
           NEW haste \in BOOLEAN, h = TRUE => haste = TRUE,
           haste = FALSE => h = FALSE /\ ~(L[e].gen > K[e].gen /\ K[Peer[e]].heard < K[e].gen)
    PROVE  Sound(L, F, haste)
  <1>1. /\ K \in [Ends -> KeyType] /\ K[e] \in KeyType /\ K[e].gen \in Nat /\ h \in BOOLEAN
        /\ Peer[e] \in Ends /\ Peer[e] # e /\ K[Peer[e]].heard \in Nat
        /\ K[e].prev # NoPrev => K[e].prev.gen >= 0
    BY PeerFacts DEF Sound, Types, KeyType, Knows
  <1>2. PICK k \in KeyType : k = K[e]
    BY <1>1
  <1>3. PICK b \in KeyType : b = Answered(k)
    BY <1>1, <1>2, AnswerFields
  <1>4. /\ b.gen = k.gen /\ b.next = k.next /\ b.largest = k.largest /\ b.heard = k.heard
        /\ b.prev.gen = k.prev.gen /\ b.prev.end = k.prev.end /\ b.prev.unacked = FALSE
        /\ b.prev = NoPrev <=> k.prev = NoPrev
    BY <1>1, <1>2, <1>3, AnswerFields
  <1>5. PICK B \in [Ends -> KeyType] : B[e] = b /\ B[Peer[e]] = K[Peer[e]]
    <2>1. [K EXCEPT ![e] = b] \in [Ends -> KeyType]
      BY <1>1
    <2> QED
      BY <1>1, <2>1
  <1>7. Sound(B, F, h)
    <2>1. Same(K, B, e)
      BY <1>2, <1>4, <1>5 DEF Same
    <2>2. /\ B[e].prev.gen = K[e].prev.gen /\ B[e].prev.end = K[e].prev.end
          /\ B[e].prev.unacked = FALSE /\ (B[e].prev = NoPrev <=> K[e].prev = NoPrev)
      BY <1>2, <1>4, <1>5
    <2> QED
      BY <2>1, <2>2, AnswerSound
  <1>8. CASE b.sent >= PhaseSize
    <2>1. L[e] = ForceUpdate(B[e]) /\ L[Peer[e]] = B[Peer[e]]
      BY <1>2, <1>3, <1>5, <1>8 DEF Building
    <2>2. haste = FALSE => h = FALSE /\ ~(L[e].gen > B[e].gen /\ B[Peer[e]].heard < B[e].gen)
      BY <1>2, <1>4, <1>5
    <2> QED
      BY <1>7, <2>1, <2>2, ForceSound
  <1>9. CASE ~(b.sent >= PhaseSize)
    <2>1. L[e] = b
      BY <1>2, <1>3, <1>9 DEF Building
    <2>2. L = B
      <3>1. \A d \in Ends : L[d] = B[d]
        BY <1>5, <2>1, PeerFacts
      <3> QED
        BY <3>1
    <2>3. Sound(B, F, haste)
      BY <1>7, HasteSound
    <2> QED
      BY <2>2, <2>3
  <1> QED
    BY <1>8, <1>9

\* What sending leaves alone, of a record of any fields
LEMMA SendRecord ==
    ASSUME NEW P, NEW N, NEW M, NEW n \in N, NEW l,
           NEW k \in [gen : Nat, prev : P, sent : Nat, zero : BOOLEAN, timer : BOOLEAN,
                      next : N, largest : M, heard : Nat],
           l = [k EXCEPT !.next = n, !.sent = @ + 1]
    PROVE  l = [gen |-> k.gen, prev |-> k.prev, sent |-> k.sent + 1, zero |-> k.zero,
                timer |-> k.timer, next |-> n, largest |-> k.largest,
                heard |-> k.heard]
  OBVIOUS

\* PacketBuilder::new and finish: the packet is under way.
LEMMA SendInv ==
    ASSUME KeysConstants, KeysInv, NEW e \in Ends, NEW p \in Paths, Send(e, p)
    PROVE  KeysInv'
  <1>1. /\ Sound(keys, flight, hasty) /\ refused \in BOOLEAN /\ UpdatesAccepted
        /\ forced \in [Ends -> Nat] /\ keys \in [Ends -> KeyType] /\ hasty \in BOOLEAN
        /\ keys[e].prev # NoPrev => keys[e].prev.gen >= 0
    BY DEF KeysInv, Sound, Types, Knows
  <1>2. PICK k : k = Building(keys[e])
    OBVIOUS
  <1>3. /\ k.next[p] < MaxPn
        /\ flight' = flight \cup
               {[to |-> Peer[e], path |-> p, pn |-> k.next[p], gen |-> k.gen]}
        /\ keys' = [keys EXCEPT ![e] = [k EXCEPT !.next[p] = @ + 1, !.sent = @ + 1]]
        /\ hasty' = (hasty \/ (k.gen > keys[e].gen /\ keys[Peer[e]].heard < keys[e].gen))
        /\ refused' = refused /\ forced' = forced
    BY <1>2 DEF Send, Building, Hasty
  <1>4. k \in KeyType /\ k.prev.unacked = FALSE
    BY <1>1, <1>2, BuildType
  <1>5. PICK haste : haste = hasty'
    OBVIOUS
  <1>6. /\ haste \in BOOLEAN /\ (hasty = TRUE => haste = TRUE)
        /\ haste = FALSE => hasty = FALSE /\ ~(k.gen > keys[e].gen
                                               /\ keys[Peer[e]].heard < keys[e].gen)
    BY <1>1, <1>3, <1>5, Zenon
  <1>7. PICK B \in [Ends -> KeyType] : B[e] = k /\ B[Peer[e]] = keys[Peer[e]]
    <2>1. [keys EXCEPT ![e] = k] \in [Ends -> KeyType]
      BY <1>1, <1>4
    <2> QED
      BY <1>1, <2>1, PeerFacts
  <1>8. Sound(B, flight, haste)
    <2>1. B[e] = Building(keys[e])
      BY <1>2, <1>7
    <2>2. haste = FALSE => hasty = FALSE /\ ~(B[e].gen > keys[e].gen
                                              /\ keys[Peer[e]].heard < keys[e].gen)
      BY <1>6, <1>7
    <2> QED
      BY <1>1, <1>6, <1>7, <2>1, <2>2, BuildSound
  <1>9. PICK l : l = [k EXCEPT !.next[p] = @ + 1, !.sent = @ + 1]
    OBVIOUS
  <1>10. /\ l \in KeyType /\ l.gen = k.gen /\ l.next = [k.next EXCEPT ![p] = @ + 1]
         /\ l.largest = k.largest /\ l.heard = k.heard /\ l.prev = k.prev
    <2>1. PICK n : n = [k.next EXCEPT ![p] = @ + 1]
      OBVIOUS
    <2>2. /\ k.next \in [Paths -> Nat] /\ k.sent \in Nat /\ k.gen \in Nat
          /\ k.largest \in [Paths -> Int] /\ k.heard \in Nat /\ k.prev \in PrevType
          /\ k.zero \in BOOLEAN /\ k.timer \in BOOLEAN
      BY <1>4 DEF KeyType
    <2>3. n \in [Paths -> Nat]
      BY <2>1, <2>2
    <2>4. l = [k EXCEPT !.next = n, !.sent = @ + 1]
      BY <1>9, <2>1
    <2>5. l = [gen |-> k.gen, prev |-> k.prev, sent |-> k.sent + 1, zero |-> k.zero,
               timer |-> k.timer, next |-> n, largest |-> k.largest, heard |-> k.heard]
      BY <1>4, <2>3, <2>4, SendRecord DEF KeyType
    <2> QED
      BY <2>1, <2>2, <2>3, <2>5 DEF KeyType
  <1>11. PICK L \in [Ends -> KeyType] : L = keys'
    <2>1. keys' = [keys EXCEPT ![e] = l]
      BY <1>3, <1>9
    <2> QED
      BY <1>1, <1>10, <2>1
  <1>12. L[e] = l /\ L[Peer[e]] = keys[Peer[e]]
    BY <1>1, <1>3, <1>9, <1>11, PeerFacts
  <1>13. PICK pk : pk = [to |-> Peer[e], path |-> p, pn |-> k.next[p], gen |-> k.gen]
    OBVIOUS
  <1>14. Sound(L, flight \cup {pk}, haste)
    <2>1. /\ L[Peer[e]] = B[Peer[e]] /\ L[e].gen = B[e].gen
          /\ L[e].next = [B[e].next EXCEPT ![p] = @ + 1]
          /\ L[e].largest = B[e].largest /\ L[e].heard = B[e].heard
          /\ L[e].prev = B[e].prev /\ B[e].prev.unacked = FALSE /\ B[e].next[p] < MaxPn
          /\ pk = [to |-> Peer[e], path |-> p, pn |-> B[e].next[p], gen |-> B[e].gen]
      BY <1>3, <1>4, <1>7, <1>10, <1>12, <1>13
    <2>2. MaxPn \in Nat
      BY DEF KeysConstants
    <2> QED
      BY <1>8, <2>1, <2>2, TransmitSound
  <1>15. Sound(keys', flight', hasty')
    <2>1. flight' = flight \cup {pk}
      BY <1>3, <1>13
    <2> QED
      BY <1>5, <1>11, <1>14, <2>1, Zenon
  <1>16. UpdatesAccepted'
    BY <1>1, <1>3, <1>5, <1>6 DEF UpdatesAccepted
  <1> QED
    BY <1>1, <1>3, <1>15, <1>16 DEF KeysInv

\* What forgetting the keys before leaves alone, of a record of any fields
LEMMA DropRecord ==
    ASSUME NEW P, NEW N, NEW M, NEW v \in P, NEW l,
           NEW k \in [gen : Nat, prev : P, sent : Nat, zero : BOOLEAN, timer : BOOLEAN,
                      next : N, largest : M, heard : Nat],
           l = [k EXCEPT !.timer = FALSE, !.prev = v, !.zero = FALSE]
    PROVE  l = [gen |-> k.gen, prev |-> v, sent |-> k.sent, zero |-> FALSE,
                timer |-> FALSE, next |-> k.next, largest |-> k.largest,
                heard |-> k.heard]
  OBVIOUS

\* discard_temporary_keys: the keys before are forgotten.
LEMMA DiscardInv ==
    ASSUME KeysConstants, KeysInv, NEW e \in Ends, Discard(e)
    PROVE  KeysInv'
  <1>1. /\ Sound(keys, flight, hasty) /\ refused \in BOOLEAN /\ UpdatesAccepted
        /\ forced \in [Ends -> Nat] /\ keys \in [Ends -> KeyType] /\ hasty \in BOOLEAN
    BY DEF KeysInv, Sound, Types
  <1>2. PICK k \in KeyType : k = keys[e]
    BY <1>1
  <1>3. /\ keys' = [keys EXCEPT ![e] =
               [k EXCEPT !.timer = FALSE, !.prev = NoPrev, !.zero = FALSE]]
        /\ hasty' = (hasty \/ (k.prev # NoPrev /\ k.prev.end = None))
        /\ flight' = flight /\ refused' = refused /\ forced' = forced
    BY <1>2 DEF Discard
  <1>4. PICK haste : haste = hasty'
    OBVIOUS
  <1>5. /\ haste \in BOOLEAN /\ (hasty = TRUE => haste = TRUE)
        /\ haste = FALSE => hasty = FALSE /\ (k.prev = NoPrev \/ k.prev.end # None)
    BY <1>1, <1>3, <1>4, Zenon
  <1>6. PICK l : l = [k EXCEPT !.timer = FALSE, !.prev = NoPrev, !.zero = FALSE]
    OBVIOUS
  <1>7. /\ l \in KeyType /\ l.gen = k.gen /\ l.next = k.next
        /\ l.largest = k.largest /\ l.heard = k.heard /\ l.prev = NoPrev
    <2>1. NoPrev \in PrevType
      BY DEF NoPrev, PrevType, None
    <2>2. /\ k.next \in [Paths -> Nat] /\ k.sent \in Nat /\ k.gen \in Nat
          /\ k.largest \in [Paths -> Int] /\ k.heard \in Nat
      BY DEF KeyType
    <2>3. l = [gen |-> k.gen, prev |-> NoPrev, sent |-> k.sent, zero |-> FALSE,
               timer |-> FALSE, next |-> k.next, largest |-> k.largest, heard |-> k.heard]
      BY <1>6, <2>1, DropRecord DEF KeyType
    <2> QED
      BY <2>1, <2>2, <2>3 DEF KeyType
  <1>8. PICK L \in [Ends -> KeyType] : L = keys'
    <2>1. keys' = [keys EXCEPT ![e] = l]
      BY <1>3, <1>6
    <2> QED
      BY <1>1, <1>7, <2>1
  <1>9. L[e] = l /\ L[Peer[e]] = keys[Peer[e]]
    BY <1>1, <1>3, <1>6, <1>8, PeerFacts
  <1>10. Sound(L, flight, haste)
    <2>1. Same(keys, L, e) /\ L[e].prev = NoPrev
      BY <1>2, <1>7, <1>9 DEF Same
    <2>2. haste = FALSE => hasty = FALSE /\ (keys[e].prev = NoPrev \/ keys[e].prev.end # None)
      BY <1>2, <1>5
    <2> QED
      BY <1>1, <1>5, <2>1, <2>2, DropSound
  <1>11. Sound(keys', flight', hasty')
    BY <1>3, <1>4, <1>8, <1>10, Zenon
  <1>12. UpdatesAccepted'
    BY <1>1, <1>3, <1>4, <1>5 DEF UpdatesAccepted
  <1> QED
    BY <1>1, <1>3, <1>11, <1>12 DEF KeysInv

\* What opening a packet changes, of a record of any fields
LEMMA OpenRecord ==
    ASSUME NEW P, NEW N, NEW M, NEW m \in M, NEW g \in Nat, NEW l,
           NEW k \in [gen : Nat, prev : P, sent : Nat, zero : BOOLEAN, timer : BOOLEAN,
                      next : N, largest : M, heard : Nat],
           l = [k EXCEPT !.largest = m, !.heard = g]
    PROVE  l = [gen |-> k.gen, prev |-> k.prev, sent |-> k.sent, zero |-> k.zero,
                timer |-> k.timer, next |-> k.next, largest |-> m, heard |-> g]
  OBVIOUS

\* set_key_discard_timer changes the timer alone.
LEMMA TimerFields ==
    ASSUME NEW k \in KeyType
    PROVE  /\ SetTimer(k) \in KeyType /\ SetTimer(k).gen = k.gen
           /\ SetTimer(k).next = k.next /\ SetTimer(k).largest = k.largest
           /\ SetTimer(k).heard = k.heard /\ SetTimer(k).prev = k.prev
           /\ SetTimer(k).zero = k.zero
  <1>1. PICK l : l = [k EXCEPT !.timer = TRUE]
    OBVIOUS
  <1>2. /\ l \in KeyType /\ l.gen = k.gen /\ l.next = k.next /\ l.largest = k.largest
        /\ l.heard = k.heard /\ l.prev = k.prev /\ l.zero = k.zero
    BY <1>1 DEF KeyType
  <1> QED
    BY <1>1, <1>2 DEF SetTimer

\* The keys before, after a packet of the phase
Ended(k, pk) ==
    IF Confirmed(k, pk) THEN [k.prev EXCEPT !.end = pk.pn] ELSE k.prev

\* A packet that confirms the phase ends the one before.
LEMMA ConfirmFields ==
    ASSUME NEW k \in KeyType, NEW pk \in PacketType
    PROVE  \E l \in KeyType :
             /\ l = IF Confirmed(k, pk) THEN SetTimer([k EXCEPT !.prev.end = pk.pn]) ELSE k
             /\ l.gen = k.gen /\ l.next = k.next /\ l.largest = k.largest
             /\ l.heard = k.heard /\ l.prev = Ended(k, pk)
  <1>1. CASE ~Confirmed(k, pk)
    BY <1>1 DEF Ended
  <1>2. CASE Confirmed(k, pk)
    <2>1. PICK v : v = [k.prev EXCEPT !.end = pk.pn]
      OBVIOUS
    <2>2. v \in PrevType
      BY <2>1 DEF KeyType, PrevType, PacketType
    <2>3. PICK l : l = [k EXCEPT !.prev = v]
      OBVIOUS
    <2>4. /\ l \in KeyType /\ l.gen = k.gen /\ l.next = k.next
          /\ l.largest = k.largest /\ l.heard = k.heard /\ l.prev = v
      BY <2>2, <2>3 DEF KeyType
    <2>5. PICK s : s = SetTimer(l)
      OBVIOUS
    <2>6. /\ s \in KeyType /\ s.gen = k.gen /\ s.next = k.next
          /\ s.largest = k.largest /\ s.heard = k.heard /\ s.prev = Ended(k, pk)
      BY <1>2, <2>1, <2>4, <2>5, TimerFields DEF Ended
    <2>7. s = SetTimer([k EXCEPT !.prev.end = pk.pn])
      BY <2>1, <2>3, <2>5
    <2> QED
      BY <1>2, <2>6, <2>7
  <1> QED
    BY <1>1, <1>2

\* What decrypt_packet and on_packet_authenticated change
LEMMA OpenedFields ==
    ASSUME NEW k \in KeyType, NEW pk \in PacketType
    PROVE  \E l \in KeyType :
             /\ l = Opened(k, pk) /\ l.next = k.next
             /\ l.largest = [k.largest EXCEPT ![pk.path] = IF @ < pk.pn THEN pk.pn ELSE @]
             /\ l.heard = IF k.heard < pk.gen THEN pk.gen ELSE k.heard
             /\ ~IsUpdate(k, pk) => l.gen = k.gen /\ l.prev = Ended(k, pk)
             /\ IsUpdate(k, pk) => /\ l.gen = k.gen + 1 /\ l.prev.gen = k.gen
                                   /\ l.prev.end = pk.pn /\ l.prev.unacked = TRUE
  <1>0. /\ pk.pn \in Nat /\ pk.pn \in Int /\ pk.gen \in Nat /\ pk.path \in Paths
        /\ k.largest \in [Paths -> Int] /\ k.heard \in Nat
    BY DEF PacketType, KeyType
  <1>1. PICK k1 \in KeyType :
           /\ k1 = IF Confirmed(k, pk) THEN SetTimer([k EXCEPT !.prev.end = pk.pn]) ELSE k
           /\ k1.gen = k.gen /\ k1.next = k.next /\ k1.largest = k.largest
           /\ k1.heard = k.heard /\ k1.prev = Ended(k, pk)
    BY ConfirmFields
  <1>2. PICK k2 \in KeyType :
           /\ k2 = IF IsUpdate(k, pk) THEN SetTimer(UpdateKeys(k1, pk.pn, TRUE)) ELSE k1
           /\ k2.next = k.next /\ k2.largest = k.largest /\ k2.heard = k.heard
           /\ ~IsUpdate(k, pk) => k2.gen = k.gen /\ k2.prev = Ended(k, pk)
           /\ IsUpdate(k, pk) => /\ k2.gen = k.gen + 1 /\ k2.prev.gen = k.gen
                                 /\ k2.prev.end = pk.pn /\ k2.prev.unacked = TRUE
    <2>1. CASE ~IsUpdate(k, pk)
      BY <1>1, <2>1
    <2>2. CASE IsUpdate(k, pk)
      <3>1. PICK r \in BOOLEAN : r = TRUE
        OBVIOUS
      <3>2. PICK u : u = UpdateKeys(k1, pk.pn, r)
        OBVIOUS
      <3>3. /\ u \in KeyType /\ u.gen = k.gen + 1 /\ u.next = k.next
            /\ u.largest = k.largest /\ u.heard = k.heard
            /\ u.prev.gen = k.gen /\ u.prev.end = pk.pn /\ u.prev.unacked = r
        BY <1>0, <1>1, <3>2, UpdateFields
      <3>4. PICK s : s = SetTimer(u)
        OBVIOUS
      <3>5. /\ s \in KeyType /\ s.gen = k.gen + 1 /\ s.next = k.next
            /\ s.largest = k.largest /\ s.heard = k.heard
            /\ s.prev = u.prev
        BY <3>3, <3>4, TimerFields
      <3>6. s = SetTimer(UpdateKeys(k1, pk.pn, TRUE))
        BY <3>1, <3>2, <3>4, Zenon
      <3>7. s.prev.unacked = TRUE
        BY <3>1, <3>3, <3>5
      <3>8. s = IF IsUpdate(k, pk) THEN SetTimer(UpdateKeys(k1, pk.pn, TRUE)) ELSE k1
        BY <2>2, <3>6, Zenon
      <3>9. s.prev.gen = k.gen /\ s.prev.end = pk.pn
        BY <3>3, <3>5
      <3> QED
        BY <2>2, <3>5, <3>7, <3>8, <3>9, Zenon
    <2> QED
      BY <2>1, <2>2
  <1>3. PICK k3 \in KeyType :
           /\ k3 = IF k2.zero THEN SetTimer(k2) ELSE k2
           /\ k3.gen = k2.gen /\ k3.next = k2.next /\ k3.largest = k2.largest
           /\ k3.heard = k2.heard /\ k3.prev = k2.prev
    <2>1. CASE k2.zero
      BY <2>1, TimerFields, Zenon
    <2>2. CASE ~k2.zero
      BY <2>2, Zenon
    <2> QED
      BY <2>1, <2>2
  <1>4. PICK m : m = [k.largest EXCEPT ![pk.path] = IF @ < pk.pn THEN pk.pn ELSE @]
    OBVIOUS
  <1>5. PICK g : g = IF k.heard < pk.gen THEN pk.gen ELSE k.heard
    OBVIOUS
  <1>6. m \in [Paths -> Int] /\ g \in Nat
    BY <1>0, <1>4, <1>5
  <1>7. PICK l : l = [k3 EXCEPT !.largest = m, !.heard = g]
    OBVIOUS
  <1>8. l = [gen |-> k3.gen, prev |-> k3.prev, sent |-> k3.sent, zero |-> k3.zero,
             timer |-> k3.timer, next |-> k3.next, largest |-> m, heard |-> g]
    BY <1>6, <1>7, OpenRecord DEF KeyType
  <1>9. /\ l \in KeyType /\ l.gen = k3.gen /\ l.prev = k3.prev /\ l.next = k3.next
        /\ l.largest = m /\ l.heard = g
    <2>1. /\ k3.gen \in Nat /\ k3.prev \in PrevType /\ k3.sent \in Nat
          /\ k3.zero \in BOOLEAN /\ k3.timer \in BOOLEAN /\ k3.next \in [Paths -> Nat]
      BY DEF KeyType
    <2> QED
      BY <1>6, <1>8, <2>1 DEF KeyType
  <1>10. l = Opened(k, pk)
    <2>1. k3 = LET a == IF Confirmed(k, pk) THEN SetTimer([k EXCEPT !.prev.end = pk.pn]) ELSE k
                   b == IF IsUpdate(k, pk) THEN SetTimer(UpdateKeys(a, pk.pn, TRUE)) ELSE a
               IN IF b.zero THEN SetTimer(b) ELSE b
      BY <1>1, <1>2, <1>3, Zenon
    <2>2. Opened(k, pk) =
            [k3 EXCEPT !.largest[pk.path] = IF @ < pk.pn THEN pk.pn ELSE @,
                       !.heard = IF @ < pk.gen THEN pk.gen ELSE @]
      BY <2>1, Zenon DEF Opened
    <2>3. k3.largest = k.largest /\ k3.heard = k.heard
      BY <1>2, <1>3
    <2> QED
      BY <1>4, <1>5, <1>7, <2>2, <2>3
  <1>11. /\ l.next = k.next
         /\ ~IsUpdate(k, pk) => l.gen = k.gen /\ l.prev = Ended(k, pk)
         /\ IsUpdate(k, pk) => /\ l.gen = k.gen + 1 /\ l.prev.gen = k.gen
                               /\ l.prev.end = pk.pn /\ l.prev.unacked = TRUE
    BY <1>2, <1>3, <1>9
  <1>12. /\ l.largest = [k.largest EXCEPT ![pk.path] = IF @ < pk.pn THEN pk.pn ELSE @]
         /\ l.heard = IF k.heard < pk.gen THEN pk.gen ELSE k.heard
    BY <1>4, <1>5, <1>9
  <1> QED
    BY <1>9, <1>10, <1>11, <1>12, Zenon

\* The generation that opens a packet
LEMMA OpensFacts ==
    ASSUME NEW k \in KeyType, NEW pk \in PacketType, Opens(k, pk),
           k.prev # NoPrev => k.prev.gen = k.gen - 1
    PROVE  /\ SamePhase(k, pk) => pk.gen = k.gen
           /\ UsesPrev(k, pk) => pk.gen = k.gen - 1 /\ ~SamePhase(k, pk)
           /\ IsUpdate(k, pk) => pk.gen = k.gen + 1 /\ ~SamePhase(k, pk)
           /\ SamePhase(k, pk) \/ UsesPrev(k, pk) \/ IsUpdate(k, pk)
  <1>1. KeyFor(k, pk) = pk.gen
    BY DEF Opens
  <1>2. SamePhase(k, pk) => KeyFor(k, pk) = k.gen /\ ~UsesPrev(k, pk) /\ ~IsUpdate(k, pk)
    BY DEF KeyFor, UsesPrev, IsUpdate
  <1>3. UsesPrev(k, pk) => /\ KeyFor(k, pk) = k.prev.gen /\ ~SamePhase(k, pk)
                           /\ ~IsUpdate(k, pk) /\ k.prev # NoPrev
    BY DEF KeyFor, UsesPrev, IsUpdate
  <1>4. IsUpdate(k, pk) => /\ KeyFor(k, pk) = k.gen + 1 /\ ~SamePhase(k, pk)
                           /\ ~UsesPrev(k, pk)
    BY DEF KeyFor, IsUpdate
  <1>5. SamePhase(k, pk) \/ UsesPrev(k, pk) \/ IsUpdate(k, pk)
    BY DEF IsUpdate
  <1> QED
    BY <1>1, <1>2, <1>3, <1>4, <1>5

\* decrypt_packet of a packet that opens and is legal
LEMMA OpenSound ==
    ASSUME KeysConstants, NEW K, NEW F, NEW h, Sound(K, F, h), NEW pk \in F, NEW e \in Ends,
           pk.to = e, Opens(K[e], pk),
           NEW L \in [Ends -> KeyType], L[e] = Opened(K[e], pk), L[Peer[e]] = K[Peer[e]]
    PROVE  Sound(L, F, h)
  <1>1. /\ K[e] \in KeyType /\ pk \in PacketType /\ K[e].gen \in Nat
        /\ K[e].prev # NoPrev => K[e].prev.gen = K[e].gen - 1
    BY DEF Sound, Types, Knows, KeyType
  <1>2. PICK k \in KeyType : k = K[e]
    BY <1>1
  <1>3. PICK l \in KeyType :
          /\ l = Opened(k, pk) /\ l.next = k.next
          /\ l.largest = [k.largest EXCEPT ![pk.path] = IF @ < pk.pn THEN pk.pn ELSE @]
          /\ l.heard = IF k.heard < pk.gen THEN pk.gen ELSE k.heard
          /\ ~IsUpdate(k, pk) => l.gen = k.gen /\ l.prev = Ended(k, pk)
          /\ IsUpdate(k, pk) => /\ l.gen = k.gen + 1 /\ l.prev.gen = k.gen
                                /\ l.prev.end = pk.pn /\ l.prev.unacked = TRUE
    BY <1>1, OpenedFields
  <1>4. L[e] = l
    BY <1>2, <1>3
  <1>5. Heard(K, L, e, pk)
    BY <1>2, <1>3, <1>4 DEF Heard
  <1>6. /\ SamePhase(k, pk) => pk.gen = k.gen /\ ~IsUpdate(k, pk)
        /\ UsesPrev(k, pk) => pk.gen = k.gen - 1 /\ ~SamePhase(k, pk) /\ ~IsUpdate(k, pk)
        /\ IsUpdate(k, pk) => pk.gen = k.gen + 1 /\ ~SamePhase(k, pk)
        /\ SamePhase(k, pk) \/ UsesPrev(k, pk) \/ IsUpdate(k, pk)
    BY <1>1, <1>2, OpensFacts DEF IsUpdate
  <1>7. CASE SamePhase(k, pk)
    <2>1. L[e].gen = K[e].gen /\ pk.gen = K[e].gen
      BY <1>2, <1>3, <1>4, <1>6, <1>7
    <2>2. L[e].prev = IF K[e].prev # NoPrev /\ K[e].prev.end = None
                      THEN [K[e].prev EXCEPT !.end = pk.pn] ELSE K[e].prev
      BY <1>2, <1>3, <1>4, <1>6, <1>7 DEF Ended, Confirmed
    <2> QED
      BY <1>5, <2>1, <2>2, CurrentSound
  <1>8. CASE UsesPrev(k, pk)
    <2>1. L[e].gen = K[e].gen /\ pk.gen < K[e].gen
      BY <1>1, <1>2, <1>3, <1>4, <1>6, <1>8
    <2>2. L[e].prev = K[e].prev
      BY <1>2, <1>3, <1>4, <1>6, <1>8 DEF Ended, Confirmed
    <2> QED
      BY <1>5, <2>1, <2>2, EarlierSound
  <1>9. CASE IsUpdate(k, pk)
    <2>1. /\ L[e].gen = K[e].gen + 1 /\ pk.gen = K[e].gen + 1
          /\ L[e].prev.gen = K[e].gen /\ L[e].prev.end = pk.pn /\ L[e].prev.unacked = TRUE
      BY <1>2, <1>3, <1>4, <1>6, <1>9
    <2> QED
      BY <1>5, <2>1, FollowSound
  <1> QED
    BY <1>6, <1>7, <1>8, <1>9

\* A peer that waits is never refused.
LEMMA LegalUnlessHasty ==
    ASSUME NEW K, NEW F, NEW h, Sound(K, F, h), NEW pk \in F, NEW e \in Ends,
           pk.to = e, Opens(K[e], pk), Illegal(K[e], pk)
    PROVE  h = TRUE
  <1>1. PICK f \in Ends : f = Peer[e]
    BY PeerFacts
  <1>2. f # e /\ Peer[f] = e
    BY <1>1, PeerFacts
  <1>3. /\ K[e] \in KeyType /\ pk \in PacketType /\ K[e].gen \in Nat /\ K[f].gen \in Nat
        /\ K[e].heard \in Nat /\ K[f].heard \in Nat /\ pk.gen \in Nat
        /\ K[e].prev # NoPrev => K[e].prev.gen = K[e].gen - 1
        /\ h \in BOOLEAN /\ K[e].prev.unacked \in BOOLEAN
    BY <1>1 DEF Sound, Types, Knows, KeyType, PrevType, PacketType
  <1>4. IsUpdate(K[e], pk) /\ pk.gen = K[e].gen + 1
    <2>1. IsUpdate(K[e], pk)
      BY DEF Illegal
    <2> QED
      BY <1>3, <2>1, OpensFacts
  <1>5. pk.pn <= K[e].largest[pk.path] \/ K[e].prev.unacked = TRUE
    BY <1>3 DEF Illegal
  <1>6. ~(pk.pn <= K[e].largest[pk.path])
    <2>1. K[e].heard <= K[e].gen
      BY DEF Sound, Knows
    <2>2. pk.pn <= K[e].largest[pk.path] => pk.gen <= K[e].heard
      BY DEF Sound, InOrder
    <2> QED
      BY <1>3, <1>4, <2>1, <2>2
  <1>7. K[f].heard < K[e].gen
    BY <1>1, <1>5, <1>6 DEF Sound, Unanswered
  <1>8. K[f].gen > K[e].gen
    <2>1. pk.gen <= K[f].gen
      BY <1>1 DEF Sound, InOrder
    <2> QED
      BY <1>3, <1>4, <2>1
  <1>9. h = FALSE => K[f].heard >= K[e].gen
    BY <1>1, <1>8 DEF Sound, Calm
  <1> QED
    BY <1>3, <1>7, <1>9

\* A packet arrives.
LEMMA ReceiveInv ==
    ASSUME KeysConstants, KeysInv, NEW pk \in flight, Receive(pk)
    PROVE  KeysInv'
  <1>1. /\ Sound(keys, flight, hasty) /\ refused \in BOOLEAN /\ UpdatesAccepted
        /\ forced \in [Ends -> Nat] /\ keys \in [Ends -> KeyType] /\ hasty \in BOOLEAN
        /\ pk \in PacketType /\ pk.to \in Ends
    BY DEF KeysInv, Sound, Types, PacketType
  <1>2. PICK e \in Ends : e = pk.to
    BY <1>1
  <1>3. flight' = flight \ {pk} /\ forced' = forced /\ hasty' = hasty
    BY DEF Receive
  <1>4. PICK G : G = flight \ {pk}
    OBVIOUS
  <1>5. CASE ~Opens(keys[e], pk)
    <2>1. keys' = keys /\ refused' = refused
      BY <1>2, <1>5 DEF Receive
    <2>2. Sound(keys, G, hasty)
      BY <1>1, <1>4, LoseSound
    <2> QED
      BY <1>1, <1>3, <1>4, <2>1, <2>2 DEF KeysInv, UpdatesAccepted
  <1>6. CASE Opens(keys[e], pk) /\ Illegal(keys[e], pk)
    <2>1. keys' = keys /\ refused' = TRUE
      BY <1>2, <1>6 DEF Receive
    <2>2. Sound(keys, G, hasty)
      BY <1>1, <1>4, LoseSound
    <2>3. hasty = TRUE
      BY <1>1, <1>2, <1>6, LegalUnlessHasty
    <2> QED
      BY <1>1, <1>3, <1>4, <2>1, <2>2, <2>3 DEF KeysInv, UpdatesAccepted
  <1>7. CASE Opens(keys[e], pk) /\ ~Illegal(keys[e], pk)
    <2>1. keys' = [keys EXCEPT ![e] = Opened(keys[e], pk)] /\ refused' = refused
      BY <1>2, <1>7 DEF Receive
    <2>2. Opened(keys[e], pk) \in KeyType
      <3>1. PICK k \in KeyType : k = keys[e]
        BY <1>1
      <3>2. Opened(k, pk) \in KeyType
        BY <1>1, OpenedFields
      <3> QED
        BY <3>1, <3>2
    <2>3. PICK L \in [Ends -> KeyType] : L = keys'
      BY <1>1, <2>1, <2>2
    <2>4. L[e] = Opened(keys[e], pk) /\ L[Peer[e]] = keys[Peer[e]]
      BY <1>1, <2>1, <2>3, PeerFacts
    <2>5. Sound(L, flight, hasty)
      BY <1>1, <1>2, <1>7, <2>4, OpenSound
    <2>6. Sound(L, G, hasty)
      BY <1>4, <2>5, LoseSound
    <2> QED
      BY <1>1, <1>3, <1>4, <2>1, <2>3, <2>6 DEF KeysInv, UpdatesAccepted
  <1> QED
    BY <1>5, <1>6, <1>7

\* Every step keeps the invariant.
LEMMA NextInv ==
    ASSUME KeysConstants, KeysInv, [Next]_vars
    PROVE  KeysInv'
  <1>1. CASE UNCHANGED vars
    BY <1>1 DEF vars, KeysInv, UpdatesAccepted
  <1>2. ASSUME NEW e \in Ends, ForceKeyUpdate(e)
        PROVE  KeysInv'
    BY <1>2, ForceInv
  <1>3. ASSUME NEW e \in Ends, Discard(e)
        PROVE  KeysInv'
    BY <1>3, DiscardInv
  <1>4. ASSUME NEW e \in Ends, NEW p \in Paths, Send(e, p)
        PROVE  KeysInv'
    BY <1>4, SendInv
  <1>5. ASSUME NEW pk \in flight, Receive(pk)
        PROVE  KeysInv'
    BY <1>5, ReceiveInv
  <1> QED
    BY <1>1, <1>2, <1>3, <1>4, <1>5 DEF Next

-----------------------------------------------------------------------------
(* What the invariant says.                                                *)

\* The key phase bit tells neighbouring generations apart.
LEMMA Parity ==
    ASSUME NEW g \in Nat
    PROVE  (g + 1) % 2 # g % 2
  OBVIOUS

\* The keys that were ended open what they protected.
LEMMA PrevOpens ==
    ASSUME NEW k \in KeyType, NEW pk, pk.gen \in Nat, k.prev # NoPrev,
           k.prev.gen = k.gen - 1, pk.gen = k.gen - 1,
           k.prev.end = None \/ pk.pn < k.prev.end
    PROVE  Opens(k, pk)
  <1>1. k.gen % 2 # pk.gen % 2
    <2>1. k.gen = pk.gen + 1
      BY DEF KeyType
    <2> QED
      BY <2>1, Parity
  <1>2. ~SamePhase(k, pk)
    BY <1>1 DEF SamePhase
  <1>3. UsesPrev(k, pk)
    BY <1>2 DEF UsesPrev
  <1>4. KeyFor(k, pk) = k.prev.gen
    BY <1>2, <1>3 DEF KeyFor
  <1> QED
    BY <1>4 DEF Opens

\* The keys of the phase open its packets.
LEMMA CurrentOpens ==
    ASSUME NEW k, NEW pk, pk.gen = k.gen
    PROVE  Opens(k, pk)
  <1>1. SamePhase(k, pk)
    BY DEF SamePhase
  <1>2. ~UsesPrev(k, pk)
    BY <1>1 DEF UsesPrev
  <1>3. KeyFor(k, pk) = k.gen
    BY <1>1, <1>2 DEF KeyFor
  <1> QED
    BY <1>3 DEF Opens

\* Neither endpoint goes deaf.
LEMMA InvHears ==
    ASSUME KeysInv, KeysConstants
    PROVE  NeverDeaf
  <1>1. SUFFICES ASSUME ~hasty, NEW e \in Ends, NEW p \in Paths
                 PROVE  Opens(keys[e], [to |-> e, path |-> p, pn |-> MaxPn,
                                        gen |-> keys[Peer[e]].gen])
    BY DEF NeverDeaf, CanHear
  <1>2. PICK f \in Ends : f = Peer[e]
    BY PeerFacts
  <1>3. f # e /\ Peer[f] = e
    BY <1>2, PeerFacts
  <1>4. /\ Sound(keys, flight, hasty) /\ keys \in [Ends -> KeyType] /\ hasty \in BOOLEAN
    BY DEF KeysInv, Sound, Types
  <1>5. hasty = FALSE
    BY <1>1, <1>4
  <1>6. PICK k \in KeyType : k = keys[e]
    BY <1>4
  <1>7. PICK g \in Nat : g = keys[f].gen
    BY <1>4 DEF KeyType
  <1>8. PICK pk : pk = [to |-> e, path |-> p, pn |-> MaxPn, gen |-> keys[Peer[e]].gen]
    OBVIOUS
  <1>9. pk.gen = g /\ pk.pn = MaxPn
    BY <1>2, <1>7, <1>8
  <1>t. /\ k.gen \in Nat /\ k.heard \in Nat /\ k.prev.end \in Int /\ MaxPn \in Nat
        /\ keys[f].heard \in Nat
    BY <1>4 DEF KeyType, PrevType, KeysConstants
  <1>10. /\ k.prev # NoPrev => k.prev.gen = k.gen - 1
         /\ k.prev.end # None => k.prev.end < MaxPn
         /\ k.heard <= g
    BY <1>2, <1>4, <1>6, <1>7 DEF Sound, Knows
  <1>11. /\ k.gen <= g + 1 /\ g <= k.gen + 1
         /\ k.prev # NoPrev /\ k.prev.end = None <=> k.heard < k.gen
         /\ g > k.gen => k.heard >= k.gen
    <2>1. Calm(keys, hasty, e) /\ Calm(keys, hasty, f)
      BY <1>4 DEF Sound
    <2> QED
      BY <1>2, <1>3, <1>5, <1>6, <1>7, <2>1 DEF Calm
  <1>12. CASE g = k.gen
    BY <1>6, <1>8, <1>9, <1>12, CurrentOpens
  <1>13. CASE g = k.gen - 1
    <2>1. k.prev # NoPrev /\ k.prev.end = None
      BY <1>t, <1>10, <1>11, <1>13
    <2> QED
      BY <1>6, <1>8, <1>9, <1>10, <1>13, <2>1, PrevOpens
  <1>14. CASE g = k.gen + 1
    <2>1. ~SamePhase(k, pk)
      BY <1>t, <1>9, <1>14, Parity DEF SamePhase
    <2>2. ~UsesPrev(k, pk)
      BY <1>t, <1>9, <1>10, <1>11, <1>14 DEF UsesPrev
    <2>3. KeyFor(k, pk) = k.gen + 1
      BY <2>1, <2>2 DEF KeyFor
    <2> QED
      BY <1>6, <1>8, <1>9, <1>14, <2>3 DEF Opens
  <1>15. g = k.gen \/ g = k.gen - 1 \/ g = k.gen + 1
    BY <1>t, <1>11
  <1> QED
    BY <1>12, <1>13, <1>14, <1>15

\* Overtaken packets open.
LEMMA InvOvertaken ==
    ASSUME KeysInv, KeysConstants
    PROVE  OvertakenOpens
  <1>1. SUFFICES ASSUME Cardinality(Paths) = 1, NEW pk \in flight,
                        pk.gen = keys[pk.to].gen \/ pk.gen = keys[pk.to].prev.gen
                 PROVE  Opens(keys[pk.to], pk)
    BY DEF OvertakenOpens
  <1>2. /\ Sound(keys, flight, hasty) /\ keys \in [Ends -> KeyType]
        /\ pk.to \in Ends /\ pk.gen \in Nat
    BY DEF KeysInv, Sound, Types, PacketType
  <1>3. PICK k \in KeyType : k = keys[pk.to]
    BY <1>2
  <1>4. /\ k.prev # NoPrev => k.prev.gen = k.gen - 1
        /\ k.prev.end # None => \A x \in flight : x.to = pk.to /\ x.gen < k.gen => x.pn < k.prev.end
    BY <1>1, <1>2, <1>3 DEF Sound, Knows, EndAbove
  <1>5. CASE pk.gen = k.gen
    BY <1>3, <1>5, CurrentOpens
  <1>6. CASE pk.gen = k.prev.gen
    <2>1. k.prev # NoPrev
      BY <1>2, <1>6 DEF NoPrev, None
    <2>2. pk.gen = k.gen - 1 /\ pk.gen < k.gen
      BY <1>2, <1>4, <1>6, <2>1 DEF KeyType
    <2>3. k.prev.end = None \/ pk.pn < k.prev.end
      BY <1>4, <2>2
    <2> QED
      BY <1>2, <1>3, <1>4, <2>1, <2>2, <2>3, PrevOpens
  <1> QED
    BY <1>1, <1>3, <1>5, <1>6

\* 1-RTT key updates: endpoints that run packet_crypto.rs never refuse each
\* other's updates and always have a key for what the other sends now, as long as
\* none updates or discards before its peer has followed; and on one path packets
\* that were overtaken by an update open while their keys are kept.  For any
\* number of packets, paths and updates, and whatever is lost or reordered.
THEOREM KeyUpdates ==
    ASSUME KeysConstants
    PROVE  Spec => []KeysAgree
  <1>1. Init => KeysInv
    BY InitInv
  <1>2. KeysInv /\ [Next]_vars => KeysInv'
    BY NextInv
  <1>3. KeysInv => KeysAgree
    BY InvHears, InvOvertaken DEF KeysInv, KeysAgree
  <1> QED
    BY <1>1, <1>2, <1>3, PTL DEF Spec
=============================================================================
