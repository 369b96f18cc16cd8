--------------------------- MODULE Recovery_proofs --------------------------
(***************************************************************************)
(* Machine-checked proofs about Recovery: for any number of packets, any   *)
(* thresholds and windows, and packets and acknowledgements lost,          *)
(* repeated and reordered at will.                                         *)
(***************************************************************************)
EXTENDS Recovery, FiniteSetTheorems, WellFoundedInduction, TLAPS

USE DEF sender, receiver

PacketType ==
    [pn : Nat, eliciting : BOOLEAN, controls : SUBSET Controls, data : SUBSET Data,
     gen : Nat, size : Nat]

PathType ==
    [gen : Nat, bytes : Int, eliciting : Int, validated : BOOLEAN,
     allowance : Int, challenge : BOOLEAN, probe : Nat \cup {None}]

TailOf(s, largest) == {n \in DOMAIN s : n > largest}
Sized(s, g) == {n \in DOMAIN s : s[n].gen = g /\ s[n].size > 0}
Eliciting(s, g) == {n \in DOMAIN s : s[n].gen = g /\ s[n].eliciting}

NumTypes ==
    num \in [next : Nat, skip : Nat, skipped : Nat \cup {None},
             largestAcked : Int]

\* Packets in flight were sent, and each carries what its kind may carry.
SentTypes ==
    /\ num.next \in Nat /\ num.skip \in Nat
    /\ IsFiniteSet(DOMAIN sent)
    /\ \A n \in DOMAIN sent : n \in Nat /\ n < num.next /\ sent[n] \in PacketType
    /\ pending \subseteq Items /\ acked \subseteq Items

\* Acknowledgement-only packets carry nothing; they alone follow the largest
\* ack-eliciting packet.  They are counted, and packet 0 may be as well.
TailExact ==
    /\ tail \in [largest : Nat, count : Int]
    /\ \A n \in DOMAIN sent : sent[n].eliciting = FALSE =>
           sent[n].controls = {} /\ sent[n].data = {} /\ sent[n].size = 0
    /\ \A n \in DOMAIN sent : n > tail.largest => sent[n].eliciting = FALSE
    /\ Cardinality(TailOf(sent, tail.largest)) <= tail.count
    /\ tail.count <= Cardinality(TailOf(sent, tail.largest)) + 1
    /\ num.next = 0 => tail.count = 0 /\ tail.largest = 0
    /\ num.next > 0 => tail.largest < num.next

\* The MTU probe of a 4-tuple was sent, is ack-eliciting and carries nothing.
ProbeEmpty(q) ==
    q.probe # None =>
        /\ q.probe < num.next
        /\ q.probe \in DOMAIN sent =>
               /\ sent[q.probe].controls = {} /\ sent[q.probe].data = {}
               /\ sent[q.probe].eliciting = TRUE

\* Generations of the current and the previous 4-tuple, and their MTU probes
PathsOrdered ==
    /\ path \in PathType /\ generation \in Nat /\ path.gen <= generation
    /\ \A n \in DOMAIN sent : sent[n].gen <= generation
    /\ ProbeEmpty(path)
    /\ prev # <<>> =>
           /\ prev = <<prev[1]>> /\ prev[1] \in PathType /\ prev[1].gen < generation
           /\ prev[1].validated = FALSE
           /\ ProbeEmpty(prev[1])

\* Only a 4-tuple to which the path fell back waits for a probe that is gone, or
\* one that inherits it.
ProbeTracked ==
    /\ path.gen = 0 /\ path.validated = FALSE => path.probe = None
    /\ prev # <<>> /\ prev[1].gen = 0 => prev[1].probe = None
    /\ path.probe # None /\ path.probe \notin DOMAIN sent =>
           generation >= 2 /\ (path.gen = generation => generation >= 3)

\* The counters of the path that did not fall back
Counted ==
    path.gen = generation =>
        /\ path.bytes = Cardinality(Sized(sent, generation))
        /\ path.eliciting = Cardinality(Eliciting(sent, generation))

\* What the sender keeps
SInv == NumTypes /\ SentTypes /\ TailExact /\ PathsOrdered /\ ProbeTracked /\ Counted

PendingAcksType ==
    [immediate : BOOLEAN, eliciting : Nat, other : Nat, ranges : SUBSET Nat,
     largest : Nat \cup {None}, reported : Nat \cup {None}, waiting : BOOLEAN]

\* The numbers that packets were sent with: the skipped one is not among them.
Numbers == {n \in Nat : n < num.next /\ n # num.skip}

\* What is under way or was processed was sent, and what is acknowledged was
\* processed.
Genuine ==
    /\ num.skipped \in {None, num.skip}
    /\ \A pk \in net : pk \in PacketType /\ pk.pn \in Numbers
    /\ got \subseteq Numbers
    /\ pa \in PendingAcksType /\ pa.ranges \subseteq got
    /\ \A a \in acks : a.ranges # {} /\ a.ranges \subseteq got
    /\ error = "none"

\* Dedup takes every number it has seen for a duplicate.
DedupInv ==
    /\ dedup \in [next : Nat, window : SUBSET Nat]
    /\ \A n \in got : /\ n < dedup.next
                      /\ n = dedup.next - 1 \/ n \in dedup.window
                         \/ dedup.next - 1 - n > DedupBits

\* An ack-eliciting packet that is not acknowledged is about to be, or the delay
\* timer runs; it was armed for such a packet.
Owed ==
    /\ ackTimer \in BOOLEAN
    /\ pa.eliciting > 0 => pa.immediate = TRUE \/ ackTimer = TRUE
    /\ pa.waiting = TRUE => pa.eliciting > 0

\* The invariant of both ends
RInv == SInv /\ Genuine /\ DedupInv /\ Owed

-----------------------------------------------------------------------------
(* Sets of packet numbers                                                  *)

\* A set of natural numbers has a least element.
LEMMA LeastNumber ==
    ASSUME NEW S \in SUBSET Nat, S # {}
    PROVE  \E x \in S : \A y \in S : x <= y
  <1> DEFINE R == {p \in Nat \X Nat : p[1] < p[2]}
  <1>1. IsWellFoundedOn(R, Nat)
    BY NatLessThanWellFounded, Zenon DEF OpToRel
  <1>2. \A x, y \in Nat : y < x => <<y, x>> \in R
    OBVIOUS
  <1> HIDE DEF R
  <1>3. PICK x \in S : \A y \in S : ~ (<<y, x>> \in R)
    BY <1>1, WFMin, Zenon
  <1>4. x \in Nat /\ \A y \in S : y \in Nat /\ ~ (y < x)
    BY <1>2, <1>3, Zenon
  <1>5. \A y \in S : x <= y
    BY <1>4
  <1> QED
    BY <1>5

\* SetMin picks it.
LEMMA SetMinLeast ==
    ASSUME NEW S \in SUBSET Nat, S # {}
    PROVE  SetMin(S) \in S /\ \A y \in S : SetMin(S) <= y
  BY LeastNumber DEF SetMin, Min

\* A set of natural numbers that is bounded has a largest element, and SetMax
\* picks it.
LEMMA SetMaxLargest ==
    ASSUME NEW S \in SUBSET Nat, S # {}, NEW b \in Nat, \A y \in S : y <= b
    PROVE  SetMax(S) \in S /\ \A y \in S : y <= SetMax(S)
  <1> DEFINE Above == {m \in Nat : \A y \in S : y <= m}
  <1>1. Above \in SUBSET Nat /\ Above # {}
    OBVIOUS
  <1>2. PICK m \in Above : \A k \in Above : m <= k
    BY <1>1, LeastNumber
  <1>3. m \in S
    <2> SUFFICES ASSUME m \notin S PROVE FALSE
      OBVIOUS
    <2>1. PICK y \in S : TRUE
      OBVIOUS
    <2>2. m - 1 \in Nat /\ \A z \in S : z <= m - 1
      BY <2>1, <1>2
    <2> QED
      BY <2>2, <1>2
  <1>4. \E x \in S : \A y \in S : x >= y
    BY <1>2, <1>3
  <1> QED
    BY <1>4 DEF SetMax, Max

\* Cardinalities of disjoint sets add up.
LEMMA DisjointUnion ==
    ASSUME NEW S, IsFiniteSet(S), NEW T, IsFiniteSet(T), S \cap T = {}
    PROVE  /\ Cardinality(S \cup T) = Cardinality(S) + Cardinality(T)
           /\ Cardinality(S) \in Nat /\ Cardinality(T) \in Nat
  <1>1. /\ Cardinality(S) \in Nat /\ Cardinality(T) \in Nat
        /\ Cardinality(S \cap T) = 0
    BY FS_CardinalityType, FS_EmptySet
  <1>2. Cardinality(S \cup T) =
            Cardinality(S) + Cardinality(T) - Cardinality(S \cap T)
    BY FS_Union
  <1> QED
    BY <1>1, <1>2

\* Taking one part off
LEMMA PartTakenOff ==
    ASSUME NEW S, IsFiniteSet(S), NEW A \in SUBSET S
    PROVE  /\ Cardinality(S \ A) = Cardinality(S) - Cardinality(A)
           /\ Cardinality(S) \in Nat /\ Cardinality(A) \in Nat /\ Cardinality(S \ A) \in Nat
  <1>1. IsFiniteSet(A) /\ IsFiniteSet(S \ A)
    BY FS_Subset
  <1>2. /\ Cardinality((S \ A) \cup A) = Cardinality(S \ A) + Cardinality(A)
        /\ Cardinality(S \ A) \in Nat /\ Cardinality(A) \in Nat
    BY <1>1, DisjointUnion
  <1>3. (S \ A) \cup A = S
    OBVIOUS
  <1>4. Cardinality(S) = Cardinality(S \ A) + Cardinality(A)
    BY <1>2, <1>3, Zenon
  <1> QED
    BY <1>2, <1>4

\* One more element
LEMMA OneMore ==
    ASSUME NEW S, IsFiniteSet(S), NEW x, x \notin S
    PROVE  /\ IsFiniteSet(S \cup {x}) /\ Cardinality(S) \in Nat
           /\ Cardinality(S \cup {x}) = Cardinality(S) + 1
  BY FS_AddElement, FS_CardinalityType


-----------------------------------------------------------------------------
(* Packets that are acknowledged or lost                                   *)

\* What DetectLost does, for the packets it finds lost
Dropped(taken, lost) ==
    /\ lost \subseteq DOMAIN sent \ taken
    /\ sent' = Without(sent, taken \cup lost)
    /\ tail' = TailAfter(taken \cup lost)
    /\ \E gain \in Nat :
           path' = [Allowed(RemoveInFlight(RemoveInFlight(path, taken), lost), gain) EXCEPT
                       !.probe = IF path.probe \in taken \cup lost THEN None ELSE path.probe]
    /\ prev' = RemovePrev(lost)
    /\ pending' = pending \cup (ContentsOf(lost) \ IF path.probe \in lost
                                                   THEN ContentsOf({path.probe}) ELSE {})

\* detect_lost_packets drops the packets of taken and some others.
LEMMA DetectLostDrops ==
    ASSUME NEW taken, NEW largest, NEW old, NEW gain \in Nat,
           DetectLost(taken, largest, old, gain)
    PROVE  \E lost : Dropped(taken, lost)
  <1> DEFINE s == Without(sent, taken)
             lost == Lost(s, largest, old)
             q == Allowed(RemoveInFlight(RemoveInFlight(path, taken), lost), gain)
  <1>1. DOMAIN s = DOMAIN sent \ taken /\ \A n \in DOMAIN s : s[n] = sent[n]
    BY DEF Without
  <1>2. lost \subseteq DOMAIN sent \ taken
    BY <1>1 DEF Lost
  <1>3. Without(s, lost) = Without(sent, taken \cup lost)
    <2>1. DOMAIN s \ lost = DOMAIN sent \ (taken \cup lost)
      BY <1>1
    <2>2. \A n \in DOMAIN s \ lost : s[n] = sent[n]
      BY <1>1
    <2> QED
      BY <2>1, <2>2, Zenon DEF Without
  <1>4. q.probe = path.probe
    BY DEF RemoveInFlight, Allowed
  <1>5. path' = [q EXCEPT !.probe = IF q.probe \in taken \cup lost THEN None ELSE q.probe]
    BY Zenon DEF DetectLost
  <1>6. path' = [q EXCEPT !.probe = IF path.probe \in taken \cup lost THEN None ELSE path.probe]
    BY <1>4, <1>5, Zenon
  <1>7. sent' = Without(s, lost)
    BY Zenon DEF DetectLost
  <1>8. /\ tail' = TailAfter(taken \cup lost) /\ prev' = RemovePrev(lost)
        /\ pending' = pending \cup (ContentsOf(lost) \ IF path.probe \in lost
                                                   THEN ContentsOf({path.probe}) ELSE {})
    BY Zenon DEF DetectLost, Requeue
  <1> HIDE DEF s, q, lost
  <1>9. Dropped(taken, lost)
    <2> USE DEF q
    <2> QED BY <1>2, <1>3, <1>6, <1>7, <1>8, Zenon DEF Dropped
  <1> QED
    BY <1>9

\* The same 4-tuple with the same packets in flight
SameCounts(p, q) ==
    /\ q \in PathType
    /\ q.gen = p.gen /\ q.validated = p.validated /\ q.probe = p.probe
    /\ q.bytes = p.bytes /\ q.eliciting = p.eliciting

\* What a datagram allows changes the allowance of a path and nothing else.
LEMMA AllowedFields ==
    ASSUME NEW q \in PathType, NEW n \in Int
    PROVE  LET r == Allowed(q, n) IN
           /\ r \in PathType
           /\ r.gen = q.gen /\ r.validated = q.validated /\ r.challenge = q.challenge
           /\ r.probe = q.probe /\ r.bytes = q.bytes /\ r.eliciting = q.eliciting
           /\ q.validated = FALSE => r.allowance = q.allowance + n
  BY DEF Allowed, PathType

\* remove_in_flight changes the counters of a path and nothing else.
LEMMA RemoveInFlightFields ==
    ASSUME NEW q \in PathType, NEW S \in SUBSET DOMAIN sent, IsFiniteSet(DOMAIN sent),
           \A n \in DOMAIN sent : sent[n] \in PacketType
    PROVE  LET r == RemoveInFlight(q, S) IN
           /\ r \in PathType
           /\ r.gen = q.gen /\ r.validated = q.validated /\ r.challenge = q.challenge
           /\ r.probe = q.probe /\ r.allowance = q.allowance
           /\ r.bytes = q.bytes - Cardinality(Sized(sent, q.gen) \cap S)
           /\ r.eliciting = q.eliciting - Cardinality(Eliciting(sent, q.gen) \cap S)
           /\ Cardinality(Sized(sent, q.gen) \cap S) \in Nat
           /\ Cardinality(Eliciting(sent, q.gen) \cap S) \in Nat
  <1> DEFINE mine == {n \in S : sent[n].gen = q.gen}
             B == {n \in mine : sent[n].size > 0}
             E == {n \in mine : sent[n].eliciting}
             r == [q EXCEPT !.bytes = @ - Cardinality(B), !.eliciting = @ - Cardinality(E)]
  <1>1. B = Sized(sent, q.gen) \cap S /\ E = Eliciting(sent, q.gen) \cap S
    BY DEF Sized, Eliciting
  <1>2. IsFiniteSet(B) /\ IsFiniteSet(E)
    BY FS_Subset
  <1>3. Cardinality(B) \in Nat /\ Cardinality(E) \in Nat
    BY <1>2, FS_CardinalityType
  <1>4. RemoveInFlight(q, S) = r
    BY Zenon DEF RemoveInFlight
  <1>5. Cardinality(B) = Cardinality(Sized(sent, q.gen) \cap S)
        /\ Cardinality(E) = Cardinality(Eliciting(sent, q.gen) \cap S)
    BY <1>1, Zenon
  <1> HIDE DEF B, E, mine
  <1> DEFINE half == [q EXCEPT !.bytes = q.bytes - Cardinality(B)]
  <1>7. /\ half \in PathType
        /\ half.gen = q.gen /\ half.validated = q.validated /\ half.challenge = q.challenge
        /\ half.probe = q.probe /\ half.eliciting = q.eliciting
        /\ half.allowance = q.allowance
        /\ half.bytes = q.bytes - Cardinality(B)
    BY <1>3 DEF PathType
  <1>8. r = [half EXCEPT !.eliciting = half.eliciting - Cardinality(E)]
    BY DEF PathType
  <1> HIDE DEF half
  <1>6. /\ r \in PathType
        /\ r.gen = q.gen /\ r.validated = q.validated /\ r.challenge = q.challenge
        /\ r.probe = q.probe /\ r.allowance = q.allowance
        /\ r.bytes = q.bytes - Cardinality(B)
        /\ r.eliciting = q.eliciting - Cardinality(E)
    <2> HIDE DEF r
    <2> QED BY <1>3, <1>7, <1>8 DEF PathType
  <1> HIDE DEF r
  <1> QED
    BY <1>3, <1>4, <1>5, <1>6, Zenon

\* What is left in flight is typed, and no packet changes.
LEMMA DropSent ==
    ASSUME SInv, NEW taken \in SUBSET DOMAIN sent, NEW lost, Dropped(taken, lost),
           num'.next = num.next, num'.skip = num.skip, acked' \subseteq Items
    PROVE  /\ SentTypes'
           /\ DOMAIN sent' = DOMAIN sent \ (taken \cup lost)
           /\ \A n \in DOMAIN sent' : sent'[n] = sent[n]
           /\ lost \subseteq DOMAIN sent \ taken
  <1>1. /\ DOMAIN sent' = DOMAIN sent \ (taken \cup lost)
        /\ \A n \in DOMAIN sent' : sent'[n] = sent[n]
    BY DEF Dropped, Without
  <1>2. lost \subseteq DOMAIN sent \ taken
    BY DEF Dropped
  <1>3. SentTypes
    BY DEF SInv
  <1>4. IsFiniteSet(DOMAIN sent')
    BY <1>1, <1>3, FS_Subset DEF SentTypes
  <1>5. \A n \in DOMAIN sent : sent[n].controls \subseteq Items /\ sent[n].data \subseteq Items
    BY <1>3 DEF SentTypes, PacketType, Items
  <1>6. ContentsOf(lost) \subseteq Items
    BY <1>2, <1>5 DEF ContentsOf
  <1>7. pending' \subseteq Items
    BY <1>3, <1>6 DEF Dropped, SentTypes
  <1>8. num'.next \in Nat /\ num'.skip \in Nat
        /\ \A n \in DOMAIN sent' : n \in Nat /\ n < num'.next /\ sent'[n] \in PacketType
    BY <1>1, <1>3 DEF SentTypes
  <1> QED
    BY <1>1, <1>2, <1>4, <1>7, <1>8 DEF SentTypes

\* Packets that leave the tail leave its count.
LEMMA DropTail ==
    ASSUME SInv, NEW taken \in SUBSET DOMAIN sent, NEW lost, Dropped(taken, lost),
           num'.next = num.next, num'.skip = num.skip, acked' \subseteq Items
    PROVE  TailExact'
  <1> DEFINE gone == taken \cup lost
             T == TailOf(sent, tail.largest)
             G == {p \in gone : ~sent[p].eliciting /\ p > tail.largest}
  <1>1. SentTypes /\ TailExact
    BY DEF SInv
  <1>2. /\ DOMAIN sent' = DOMAIN sent \ gone
        /\ \A n \in DOMAIN sent' : sent'[n] = sent[n]
        /\ gone \subseteq DOMAIN sent
    BY DropSent
  <1>3. G \in SUBSET T /\ TailOf(sent', tail.largest) = T \ G
    BY <1>1, <1>2 DEF TailExact, TailOf
  <1>4. IsFiniteSet(T)
    BY <1>1, FS_Subset DEF TailOf, SentTypes
  <1>7. tail' = [tail EXCEPT !.count = @ - Cardinality(G)]
    BY Zenon DEF Dropped, TailAfter
  <1>6. Cardinality({}) = 0
    BY FS_EmptySet
  <1> HIDE DEF G, T
  <1>5. /\ Cardinality(T \ G) = Cardinality(T) - Cardinality(G)
        /\ Cardinality(T) \in Nat /\ Cardinality(G) \in Nat
        /\ Cardinality(T \ G) \in Nat
    BY <1>3, <1>4, PartTakenOff
  <1>8. tail' \in [largest : Nat, count : Int] /\ tail'.largest = tail.largest
        /\ tail'.count = tail.count - Cardinality(G)
    BY <1>1, <1>5, <1>7 DEF TailExact
  <1>9. Cardinality(TailOf(sent', tail'.largest)) = Cardinality(T) - Cardinality(G)
    BY <1>3, <1>5, <1>8
  <1>10. Cardinality(T) <= tail.count /\ tail.count <= Cardinality(T) + 1 /\ tail.count \in Int
    BY <1>1 DEF TailExact, T
  <1>11. /\ Cardinality(TailOf(sent', tail'.largest)) <= tail'.count
         /\ tail'.count <= Cardinality(TailOf(sent', tail'.largest)) + 1
    BY <1>5, <1>8, <1>9, <1>10
  <1>12. /\ \A n \in DOMAIN sent' : sent'[n].eliciting = FALSE =>
                sent'[n].controls = {} /\ sent'[n].data = {} /\ sent'[n].size = 0
         /\ \A n \in DOMAIN sent' : n > tail'.largest => sent'[n].eliciting = FALSE
    BY <1>1, <1>2, <1>8 DEF TailExact
  <1>13. num'.next = 0 => tail'.count = 0 /\ tail'.largest = 0
    <2> SUFFICES ASSUME num'.next = 0 PROVE tail'.count = 0 /\ tail'.largest = 0
      OBVIOUS
    <2>1. tail.count = 0 /\ tail.largest = 0
      BY <1>1 DEF TailExact
    <2>2. ASSUME NEW n \in DOMAIN sent PROVE FALSE
      BY <1>1 DEF SentTypes
    <2>3. G = {}
      BY <2>2, <1>2, Zenon DEF G
    <2> QED
      BY <2>1, <2>3, <1>6, <1>8
  <1>14. num'.next > 0 => tail'.largest < num'.next
    BY <1>1, <1>8 DEF TailExact
  <1> QED
    BY <1>8, <1>11, <1>12, <1>13, <1>14 DEF TailExact


\* What is left of a set of packets
LEMMA DropCounts ==
    ASSUME SInv, NEW taken \in SUBSET DOMAIN sent, NEW lost \in SUBSET (DOMAIN sent \ taken),
           NEW F \in SUBSET DOMAIN sent
    PROVE  /\ Cardinality(F \ (taken \cup lost)) =
                  Cardinality(F) - Cardinality(F \cap taken) - Cardinality(F \cap lost)
           /\ Cardinality(F) \in Nat /\ Cardinality(F \cap taken) \in Nat
           /\ Cardinality(F \cap lost) \in Nat
  <1>1. IsFiniteSet(F)
    BY FS_Subset DEF SInv, SentTypes
  <1> DEFINE A == F \cap taken
             B == F \cap lost
             C == A \cup B
  <1>2. A \cap B = {} /\ F \ (taken \cup lost) = F \ C /\ C \in SUBSET F
    OBVIOUS
  <1>3. IsFiniteSet(A) /\ IsFiniteSet(B)
    BY <1>1, FS_Subset
  <1> HIDE DEF A, B
  <1>4. /\ Cardinality(C) = Cardinality(A) + Cardinality(B)
        /\ Cardinality(A) \in Nat /\ Cardinality(B) \in Nat
    BY <1>2, <1>3, DisjointUnion
  <1> HIDE DEF C
  <1>5. Cardinality(F \ C) = Cardinality(F) - Cardinality(C) /\ Cardinality(F) \in Nat
    BY <1>1, <1>2, PartTakenOff
  <1>6. Cardinality(F \ (taken \cup lost)) = Cardinality(F \ C)
    BY <1>2, Zenon
  <1>7. Cardinality(F \ C) = Cardinality(F) - Cardinality(A) - Cardinality(B)
    BY <1>4, <1>5
  <1>8. Cardinality(F \ (taken \cup lost)) = Cardinality(F) - Cardinality(A) - Cardinality(B)
    BY <1>6, <1>7, Zenon
  <1> QED
    BY <1>4, <1>5, <1>8, Zenon DEF A, B

\* The path after packets were dropped: its counters lose what was its own.
LEMMA DropPath ==
    ASSUME SInv, NEW taken \in SUBSET DOMAIN sent, NEW lost \in SUBSET (DOMAIN sent \ taken),
           Dropped(taken, lost)
    PROVE  /\ path' \in PathType
           /\ path'.gen = path.gen /\ path'.validated = path.validated
           /\ path'.challenge = path.challenge
           /\ path'.probe = IF path.probe \in taken \cup lost THEN None ELSE path.probe
           /\ path'.bytes = path.bytes - Cardinality(Sized(sent, path.gen) \cap taken)
                                       - Cardinality(Sized(sent, path.gen) \cap lost)
           /\ path'.eliciting =
                  path.eliciting - Cardinality(Eliciting(sent, path.gen) \cap taken)
                                 - Cardinality(Eliciting(sent, path.gen) \cap lost)
  <1> DEFINE q == RemoveInFlight(path, taken)
             r0 == RemoveInFlight(q, lost)
  <1>0. PICK gain \in Nat :
            path' = [Allowed(r0, gain) EXCEPT
                        !.probe = IF path.probe \in taken \cup lost THEN None ELSE path.probe]
    BY Zenon DEF Dropped
  <1> DEFINE r == Allowed(r0, gain)
  <1>1. SentTypes /\ path \in PathType
    BY DEF SInv, PathsOrdered
  <1>2. /\ q \in PathType
        /\ q.gen = path.gen /\ q.validated = path.validated /\ q.challenge = path.challenge
        /\ q.probe = path.probe
        /\ q.bytes = path.bytes - Cardinality(Sized(sent, path.gen) \cap taken)
        /\ q.eliciting = path.eliciting - Cardinality(Eliciting(sent, path.gen) \cap taken)
    BY <1>1, RemoveInFlightFields DEF SentTypes
  <1> HIDE DEF q
  <1>3. /\ r \in PathType
        /\ r.gen = q.gen /\ r.validated = q.validated /\ r.challenge = q.challenge
        /\ r.probe = q.probe
        /\ r.bytes = q.bytes - Cardinality(Sized(sent, q.gen) \cap lost)
        /\ r.eliciting = q.eliciting - Cardinality(Eliciting(sent, q.gen) \cap lost)
    <2>1. /\ r0 \in PathType
          /\ r0.gen = q.gen /\ r0.validated = q.validated /\ r0.challenge = q.challenge
          /\ r0.probe = q.probe
          /\ r0.bytes = q.bytes - Cardinality(Sized(sent, q.gen) \cap lost)
          /\ r0.eliciting = q.eliciting - Cardinality(Eliciting(sent, q.gen) \cap lost)
      BY <1>1, <1>2, RemoveInFlightFields DEF SentTypes
    <2> HIDE DEF r0
    <2>3. gain \in Int
      OBVIOUS
    <2>2. /\ r \in PathType
          /\ r.gen = r0.gen /\ r.validated = r0.validated /\ r.challenge = r0.challenge
          /\ r.probe = r0.probe /\ r.bytes = r0.bytes /\ r.eliciting = r0.eliciting
      BY <2>1, <2>3, AllowedFields, Zenon
    <2> HIDE DEF r
    <2> QED
      BY <2>1, <2>2, Zenon
  <1>4. path' = [r EXCEPT !.probe = IF path.probe \in taken \cup lost THEN None ELSE path.probe]
    BY <1>0, Zenon
  <1> HIDE DEF r
  <1> DEFINE b == IF path.probe \in taken \cup lost THEN None ELSE path.probe
  <1>5. b \in Nat \cup {None}
    BY <1>1 DEF PathType
  <1>6. path' = [r EXCEPT !.probe = b]
    BY <1>4
  <1> HIDE DEF b
  <1>7. /\ path' \in PathType
        /\ path'.gen = r.gen /\ path'.validated = r.validated /\ path'.challenge = r.challenge
        /\ path'.probe = b /\ path'.bytes = r.bytes /\ path'.eliciting = r.eliciting
    BY <1>3, <1>5, <1>6 DEF PathType
  <1> QED
    BY <1>2, <1>3, <1>7, Zenon DEF b

\* The counters stay exact.
LEMMA DropCounted ==
    ASSUME SInv, NEW taken \in SUBSET DOMAIN sent, NEW lost \in SUBSET (DOMAIN sent \ taken),
           Dropped(taken, lost), generation' = generation
    PROVE  Counted'
  <1> DEFINE B == Sized(sent, generation)
             E == Eliciting(sent, generation)
  <1>1. /\ DOMAIN sent' = DOMAIN sent \ (taken \cup lost)
        /\ \A n \in DOMAIN sent' : sent'[n] = sent[n]
    BY DEF Dropped, Without
  <1>2. /\ Sized(sent', generation) = B \ (taken \cup lost)
        /\ Eliciting(sent', generation) = E \ (taken \cup lost)
    BY <1>1 DEF Sized, Eliciting
  <1>3. B \in SUBSET DOMAIN sent /\ E \in SUBSET DOMAIN sent
    BY DEF Sized, Eliciting
  <1> SUFFICES ASSUME path'.gen = generation
               PROVE  /\ path'.bytes = Cardinality(Sized(sent', generation))
                      /\ path'.eliciting = Cardinality(Eliciting(sent', generation))
    BY DEF Counted
  <1>4. path.gen = generation
    BY DropPath
  <1>5. path.bytes = Cardinality(B) /\ path.eliciting = Cardinality(E)
    BY <1>4 DEF SInv, Counted
  <1>6. /\ path'.bytes = path.bytes - Cardinality(B \cap taken) - Cardinality(B \cap lost)
        /\ path'.eliciting = path.eliciting - Cardinality(E \cap taken) - Cardinality(E \cap lost)
    <2>1. /\ path'.bytes = path.bytes - Cardinality(Sized(sent, path.gen) \cap taken)
                                       - Cardinality(Sized(sent, path.gen) \cap lost)
          /\ path'.eliciting =
                  path.eliciting - Cardinality(Eliciting(sent, path.gen) \cap taken)
                                 - Cardinality(Eliciting(sent, path.gen) \cap lost)
      BY DropPath
    <2>2. Sized(sent, path.gen) = B /\ Eliciting(sent, path.gen) = E
      BY <1>4
    <2> HIDE DEF B, E
    <2> QED
      BY <2>1, <2>2
  <1> HIDE DEF B, E
  <1>7. Cardinality(B \ (taken \cup lost)) =
            Cardinality(B) - Cardinality(B \cap taken) - Cardinality(B \cap lost)
    BY <1>3, DropCounts
  <1>8. Cardinality(E \ (taken \cup lost)) =
            Cardinality(E) - Cardinality(E \cap taken) - Cardinality(E \cap lost)
    BY <1>3, DropCounts
  <1> QED
    BY <1>2, <1>5, <1>6, <1>7, <1>8

\* The 4-tuples keep their generations, and the current one its probe while that
\* is in flight.
LEMMA DropPaths ==
    ASSUME SInv, NEW taken \in SUBSET DOMAIN sent, NEW lost \in SUBSET (DOMAIN sent \ taken),
           Dropped(taken, lost), generation' = generation, num'.next = num.next
    PROVE  PathsOrdered' /\ ProbeTracked'
  <1>1. /\ DOMAIN sent' = DOMAIN sent \ (taken \cup lost)
        /\ \A n \in DOMAIN sent' : sent'[n] = sent[n]
    BY DEF Dropped, Without
  <1>2. /\ path' \in PathType
        /\ path'.gen = path.gen /\ path'.validated = path.validated
        /\ path'.probe = IF path.probe \in taken \cup lost THEN None ELSE path.probe
    BY DropPath
  <1>3. PathsOrdered /\ ProbeTracked /\ SentTypes
    BY DEF SInv
  <1>4. prev # <<>> =>
            /\ prev' = <<prev'[1]>> /\ prev'[1] \in PathType
            /\ prev'[1].gen = prev[1].gen /\ prev'[1].validated = prev[1].validated
            /\ prev'[1].probe = prev[1].probe
    <2> SUFFICES ASSUME prev # <<>>
                 PROVE  /\ prev' = <<prev'[1]>> /\ prev'[1] \in PathType
                        /\ prev'[1].gen = prev[1].gen /\ prev'[1].validated = prev[1].validated
                        /\ prev'[1].probe = prev[1].probe
      OBVIOUS
    <2>1. prev' = <<RemoveInFlight(prev[1], lost)>>
      BY DEF Dropped, RemovePrev
    <2>2. prev'[1] = RemoveInFlight(prev[1], lost)
      BY <2>1
    <2>3. prev[1] \in PathType
      BY <1>3 DEF PathsOrdered
    <2> QED
      BY <2>1, <2>2, <2>3, <1>3, RemoveInFlightFields DEF SentTypes
  <1>5. prev = <<>> => prev' = <<>>
    BY DEF Dropped, RemovePrev
  <1>6. ProbeEmpty(path)'
    BY <1>1, <1>2, <1>3 DEF ProbeEmpty, PathsOrdered
  <1>7. prev' # <<>> => ProbeEmpty(prev[1])'
    <2> SUFFICES ASSUME prev' # <<>> PROVE ProbeEmpty(prev[1])'
      OBVIOUS
    <2>1. prev # <<>> /\ ProbeEmpty(prev[1]) /\ prev'[1].probe = prev[1].probe
      BY <1>3, <1>4, <1>5 DEF PathsOrdered
    <2> QED
      BY <1>1, <2>1 DEF ProbeEmpty
  <1>8. PathsOrdered'
    BY <1>1, <1>2, <1>3, <1>4, <1>5, <1>6, <1>7 DEF PathsOrdered
  <1>9. ProbeTracked'
    <2>1. path'.gen = 0 /\ path'.validated = FALSE => path'.probe = None
      BY <1>2, <1>3 DEF ProbeTracked
    <2>2. prev' # <<>> /\ prev'[1].gen = 0 => prev'[1].probe = None
      BY <1>3, <1>4, <1>5 DEF ProbeTracked
    <2>3. path'.probe # None /\ path'.probe \notin DOMAIN sent' =>
              path.probe # None /\ path.probe \notin DOMAIN sent
      BY <1>1, <1>2
    <2> QED
      BY <1>2, <1>3, <2>1, <2>2, <2>3 DEF ProbeTracked
  <1> QED
    BY <1>8, <1>9

\* Together: detect_lost_packets keeps the invariant of the sender.
LEMMA DropKeeps ==
    ASSUME SInv, NEW taken \in SUBSET DOMAIN sent, NEW lost, Dropped(taken, lost),
           num'.next = num.next, num'.skip = num.skip, acked' \subseteq Items,
           generation' = generation, NumTypes'
    PROVE  SInv'
  <1>1. lost \in SUBSET (DOMAIN sent \ taken)
    BY DEF Dropped
  <1>2. SentTypes' /\ TailExact'
    BY DropSent, DropTail
  <1>3. Counted' /\ PathsOrdered' /\ ProbeTracked'
    BY <1>1, DropCounted, DropPaths
  <1> QED
    BY <1>2, <1>3 DEF SInv

-----------------------------------------------------------------------------
(* Packets that are sent                                                   *)

\* get_tx_number never gives out a number twice, nor the one that is skipped.
LEMMA FreshNumber ==
    ASSUME SInv
    PROVE  /\ TxNumber \in Nat /\ TxNumber >= num.next /\ TxNumber # num.skip
           /\ TxNumber \notin DOMAIN sent
  <1>1. /\ num.next \in Nat /\ num.skip \in Nat
        /\ \A n \in DOMAIN sent : n \in Nat /\ n < num.next
    BY DEF SInv, SentTypes
  <1>2. TxNumber \in Nat /\ TxNumber >= num.next /\ TxNumber # num.skip
    BY <1>1 DEF TxNumber
  <1> QED
    BY <1>1, <1>2

\* The packet that is forgotten is an acknowledgement after the largest
\* ack-eliciting packet: with that many in the tail there is one.
LEMMA ForgottenInTail ==
    ASSUME SInv, tail.count > MaxTail
    PROVE  SetMin({p \in DOMAIN sent : p > tail.largest}) \in TailOf(sent, tail.largest)
  <1> DEFINE T == TailOf(sent, tail.largest)
  <1>1. SentTypes /\ TailExact
    BY DEF SInv
  <1>2. T \in SUBSET Nat
    BY <1>1 DEF SentTypes, TailOf
  <1>3. tail.count \in Int /\ tail.count <= Cardinality(T) + 1
    BY <1>1 DEF TailExact
  <1>4. MaxTail \in Nat /\ MaxTail # 0
    BY ConstantsAssumption
  <1>5. IsFiniteSet(T)
    BY <1>1, FS_Subset DEF SentTypes, TailOf
  <1>6. Cardinality(T) \in Nat
    BY <1>5, FS_CardinalityType
  <1>7. Cardinality(T) # 0
    BY <1>3, <1>4, <1>6
  <1>8. T # {}
    BY <1>7, FS_EmptySet
  <1>9. SetMin(T) \in T
    BY <1>2, <1>8, SetMinLeast
  <1> QED
    BY <1>9 DEF TailOf

\* What sending packet pk does, gone being the packets that are forgotten for it.
\* A tail-loss probe may have emptied other packets before.
SendStep(pk, gone) ==
    /\ pk \in PacketType /\ pk.pn = TxNumber /\ pk.gen = path.gen
    /\ pk.eliciting = FALSE => pk.controls = {} /\ pk.data = {} /\ pk.size = 0
    /\ pk.eliciting = TRUE => gone = {} /\ tail' = [largest |-> pk.pn, count |-> 0]
    /\ pk.eliciting = FALSE =>
           \/ tail' = tail /\ \E m \in TailOf(sent, tail.largest) : gone = {m}
           \/ tail' = [tail EXCEPT !.count = @ + 1] /\ gone = {}
    /\ DOMAIN sent' = (DOMAIN sent \ gone) \cup {pk.pn} /\ sent'[pk.pn] = pk
    /\ \A n \in DOMAIN sent \ gone :
           sent'[n] = sent[n] \/ sent'[n] = [sent[n] EXCEPT !.controls = {}]
    /\ num' = TakeNumber
    /\ path' \in PathType /\ path'.gen = path.gen /\ path'.validated = path.validated
    /\ path'.bytes = path.bytes + (IF pk.size > 0 THEN 1 ELSE 0)
    /\ path'.eliciting = path.eliciting + (IF pk.eliciting THEN 1 ELSE 0)
    /\ \/ path'.probe = path.probe
       \/ path'.probe = pk.pn /\ pk.controls = {} /\ pk.data = {}
          /\ pk.eliciting = TRUE /\ path.validated = TRUE
    /\ prev' = prev /\ generation' = generation /\ acked' = acked

\* The numbers and packets after the step
LEMMA SendSent ==
    ASSUME SInv, NEW pk, NEW gone, SendStep(pk, gone), pending' \subseteq Items
    PROVE  /\ SentTypes' /\ pk.pn \in Nat /\ pk.pn >= num.next /\ pk.pn \notin DOMAIN sent
           /\ num'.next = pk.pn + 1
           /\ \A n \in DOMAIN sent \ gone :
                  /\ n \in DOMAIN sent' /\ n # pk.pn
                  /\ sent'[n].eliciting = sent[n].eliciting /\ sent'[n].gen = sent[n].gen
                  /\ sent'[n].size = sent[n].size /\ sent'[n].data = sent[n].data
                  /\ sent'[n].controls = sent[n].controls \/ sent'[n].controls = {}
  <1>1. SentTypes
    BY DEF SInv
  <1>2. pk.pn \in Nat /\ pk.pn >= num.next /\ pk.pn # num.skip /\ pk.pn \notin DOMAIN sent
    BY FreshNumber DEF SendStep
  <1>3. num'.next = pk.pn + 1 /\ num'.skip = num.skip
    <2>1. num' = [num EXCEPT !.next = TxNumber + 1,
                    !.skipped = IF num.next = num.skip THEN num.skip ELSE num.skipped]
      BY Zenon DEF SendStep, TakeNumber
    <2>2. num \in [next : {num.next}, skip : {num.skip}, skipped : {num.skipped},
                   largestAcked : {num.largestAcked}]
      BY DEF SInv, NumTypes
    <2> QED
      BY <2>1, <2>2 DEF SendStep
  <1>4. ASSUME NEW n \in DOMAIN sent \ gone
        PROVE  /\ n \in DOMAIN sent' /\ n # pk.pn
               /\ sent'[n].eliciting = sent[n].eliciting /\ sent'[n].gen = sent[n].gen
               /\ sent'[n].size = sent[n].size /\ sent'[n].data = sent[n].data
               /\ sent'[n].controls = sent[n].controls \/ sent'[n].controls = {}
               /\ sent'[n] \in PacketType
    <2>1. sent[n] \in PacketType
      BY <1>1 DEF SentTypes
    <2>2. n \in DOMAIN sent' /\ n # pk.pn
      BY <1>2 DEF SendStep
    <2>3. sent'[n] = sent[n] \/ sent'[n] = [sent[n] EXCEPT !.controls = {}]
      BY DEF SendStep
    <2> QED
      BY <2>1, <2>2, <2>3 DEF PacketType
  <1>5. IsFiniteSet(DOMAIN sent')
    <2>1. IsFiniteSet(DOMAIN sent \ gone)
      BY <1>1, FS_Subset DEF SentTypes
    <2>2. IsFiniteSet((DOMAIN sent \ gone) \cup {pk.pn})
      BY <2>1, FS_AddElement
    <2> QED
      BY <2>2 DEF SendStep
  <1>6. ASSUME NEW n \in DOMAIN sent' PROVE n \in Nat /\ n < num'.next /\ sent'[n] \in PacketType
    <2>1. CASE n = pk.pn
      BY <2>1, <1>2, <1>3 DEF SendStep
    <2>2. CASE n # pk.pn
      <3>1. n \in DOMAIN sent \ gone
        BY <2>2 DEF SendStep
      <3>2. n \in Nat /\ n < num.next /\ num.next \in Nat
        BY <3>1, <1>1 DEF SentTypes
      <3> QED
        BY <3>1, <3>2, <1>2, <1>3, <1>4
    <2> QED
      BY <2>1, <2>2
  <1>7. num'.next \in Nat /\ num'.skip \in Nat /\ acked' \subseteq Items
    BY <1>1, <1>2, <1>3 DEF SentTypes, SendStep
  <1> QED
    BY <1>2, <1>3, <1>4, <1>5, <1>6, <1>7 DEF SentTypes


\* The tail after the step
LEMMA SendTail ==
    ASSUME SInv, NEW pk, NEW gone, SendStep(pk, gone), pending' \subseteq Items
    PROVE  TailExact'
  <1>1. SentTypes /\ TailExact /\ SentTypes'
    BY SendSent DEF SInv
  <1>2. /\ pk.pn \in Nat /\ pk.pn >= num.next /\ pk.pn \notin DOMAIN sent
        /\ num'.next = pk.pn + 1 /\ num.next \in Nat /\ pk \in PacketType
    BY <1>1, SendSent DEF SentTypes, SendStep
  <1>3. \A n \in DOMAIN sent' : n = pk.pn \/ n \in DOMAIN sent \ gone
    BY DEF SendStep
  <1>4. \A n \in DOMAIN sent \ gone :
            /\ n \in DOMAIN sent' /\ sent'[n].eliciting = sent[n].eliciting
            /\ sent'[n].size = sent[n].size /\ sent'[n].data = sent[n].data
            /\ sent'[n].controls = sent[n].controls \/ sent'[n].controls = {}
    BY SendSent
  <1>5. \A n \in DOMAIN sent' : sent'[n].eliciting = FALSE =>
            sent'[n].controls = {} /\ sent'[n].data = {} /\ sent'[n].size = 0
    BY <1>1, <1>3, <1>4 DEF TailExact, SendStep
  <1>6. CASE pk.eliciting = TRUE
    <2>1. tail' = [largest |-> pk.pn, count |-> 0]
      BY <1>6 DEF SendStep
    <2>2. \A n \in DOMAIN sent' : n \in Nat /\ ~ (n > pk.pn)
      BY <1>1, <1>2 DEF SentTypes
    <2>3. TailOf(sent', pk.pn) = {}
      BY <2>2 DEF TailOf
    <2>4. Cardinality(TailOf(sent', pk.pn)) = 0
      BY <2>3, FS_EmptySet
    <2> QED
      BY <1>2, <1>5, <2>1, <2>2, <2>4 DEF TailExact
  <1>7. CASE pk.eliciting = FALSE
    <2> DEFINE T == TailOf(sent, tail.largest)
    <2>1. tail'.largest = tail.largest /\ tail' \in [largest : Nat, count : Int]
      BY <1>1, <1>7 DEF TailExact, SendStep
    <2>2. \A n \in DOMAIN sent' : n > tail'.largest => sent'[n].eliciting = FALSE
      BY <1>1, <1>3, <1>4, <1>7, <2>1 DEF TailExact, SendStep
    <2>3. IsFiniteSet(T) /\ pk.pn \notin T
      BY <1>1, <1>2, FS_Subset DEF TailOf, SentTypes
    <2>4. Cardinality(T) \in Nat
      BY <2>3, FS_CardinalityType
    <2>5. /\ Cardinality(T) <= tail.count /\ tail.count <= Cardinality(T) + 1
          /\ tail.count \in Int /\ tail.largest \in Nat
      BY <1>1 DEF TailExact
    <2>6. /\ Cardinality(TailOf(sent', tail.largest)) <= tail'.count
          /\ tail'.count <= Cardinality(TailOf(sent', tail.largest)) + 1
      <3>1. CASE tail' = tail /\ \E m \in T : gone = {m}
        <4>1. PICK m \in T : gone = {m}
          BY <3>1
        <4>2. pk.pn > tail.largest
          <5>1. m \in Nat /\ m < num.next
            BY <1>1 DEF SentTypes, TailOf
          <5>2. tail.largest < num.next
            BY <1>1, <1>2, <5>1 DEF TailExact
          <5> QED
            BY <1>2, <2>5, <5>2
        <4>3. TailOf(sent', tail.largest) = (T \ {m}) \cup {pk.pn}
          BY <1>3, <1>4, <4>1, <4>2 DEF TailOf, SendStep
        <4> HIDE DEF T
        <4>4. IsFiniteSet(T \ {m}) /\ Cardinality(T \ {m}) = Cardinality(T) - 1
          BY <2>3, FS_RemoveElement
        <4>5. Cardinality((T \ {m}) \cup {pk.pn}) = Cardinality(T \ {m}) + 1
          BY <2>3, <4>4, OneMore
        <4>6. Cardinality(TailOf(sent', tail.largest)) = Cardinality(T)
          BY <2>4, <4>3, <4>4, <4>5
        <4> QED
          BY <2>5, <3>1, <4>6
      <3>2. CASE tail' = [tail EXCEPT !.count = @ + 1] /\ gone = {}
        <4>1. tail'.count = tail.count + 1
          BY <1>1, <3>2 DEF TailExact
        <4>2. CASE pk.pn > tail.largest
          <5>1. TailOf(sent', tail.largest) = T \cup {pk.pn}
            BY <1>3, <1>4, <3>2, <4>2 DEF TailOf, SendStep
          <5> HIDE DEF T
          <5>2. Cardinality(T \cup {pk.pn}) = Cardinality(T) + 1
            BY <2>3, OneMore
          <5> QED
            BY <2>4, <2>5, <4>1, <5>1, <5>2
        <4>3. CASE ~ (pk.pn > tail.largest)
          <5>1. num.next = 0
            BY <1>1, <1>2, <2>5, <4>3 DEF TailExact
          <5>2. tail.count = 0
            BY <1>1, <5>1 DEF TailExact
          <5>3. IsFiniteSet(TailOf(sent', tail.largest))
            BY <1>1, FS_Subset DEF TailOf, SentTypes
          <5>4. \A n \in DOMAIN sent : FALSE
            BY <1>1, <5>1 DEF SentTypes
          <5>5. TailOf(sent', tail.largest) = {}
            BY <1>3, <4>3, <5>4 DEF TailOf
          <5>6. Cardinality(TailOf(sent', tail.largest)) = 0
            BY <5>5, FS_EmptySet
          <5> QED
            BY <4>1, <5>2, <5>6
        <4> QED
          BY <4>2, <4>3
      <3> QED
        BY <1>7, <3>1, <3>2 DEF SendStep
    <2>7. num'.next # 0 /\ tail'.largest < num'.next
      BY <1>1, <1>2, <2>1, <2>5 DEF TailExact
    <2> QED
      BY <1>2, <1>5, <2>1, <2>2, <2>6, <2>7 DEF TailExact
  <1> QED
    BY <1>2, <1>6, <1>7 DEF PacketType


\* The packet is counted where it belongs.
LEMMA SendCounted ==
    ASSUME SInv, NEW pk, NEW gone, SendStep(pk, gone), pending' \subseteq Items
    PROVE  Counted'
  <1> DEFINE B == Sized(sent, generation)
             E == Eliciting(sent, generation)
  <1> SUFFICES ASSUME path'.gen = generation
               PROVE  /\ path'.bytes = Cardinality(Sized(sent', generation))
                      /\ path'.eliciting = Cardinality(Eliciting(sent', generation))
    BY DEF Counted, SendStep
  <1>1. SentTypes /\ TailExact
    BY DEF SInv
  <1>2. path.gen = generation /\ pk.gen = generation /\ pk \in PacketType
    BY DEF SendStep
  <1>3. path.bytes = Cardinality(B) /\ path.eliciting = Cardinality(E)
    BY <1>2 DEF SInv, Counted
  <1>4. \A n \in DOMAIN sent \ gone :
            /\ n \in DOMAIN sent' /\ n # pk.pn
            /\ sent'[n].eliciting = sent[n].eliciting
            /\ sent'[n].size = sent[n].size /\ sent'[n].gen = sent[n].gen
    BY SendSent
  <1>5. \A n \in DOMAIN sent' : n = pk.pn \/ n \in DOMAIN sent \ gone
    BY DEF SendStep
  <1>6. \A n \in DOMAIN sent : n \in gone => sent[n].eliciting = FALSE /\ sent[n].size = 0
    <2>1. \A n \in TailOf(sent, tail.largest) : sent[n].eliciting = FALSE /\ sent[n].size = 0
      BY <1>1 DEF TailExact, TailOf
    <2>2. gone \subseteq TailOf(sent, tail.largest)
      BY <1>2 DEF SendStep, PacketType
    <2> QED
      BY <2>1, <2>2
  <1>7. IsFiniteSet(B) /\ IsFiniteSet(E)
    BY <1>1, FS_Subset DEF SentTypes, Sized, Eliciting
  <1>8. pk.pn \notin B /\ pk.pn \notin E
    BY SendSent DEF Sized, Eliciting
  <1>9. pk.pn \in DOMAIN sent' /\ sent'[pk.pn] = pk
    BY DEF SendStep
  <1>10. Cardinality(B) \in Nat /\ Cardinality(E) \in Nat
    BY <1>7, FS_CardinalityType
  <1>11. /\ Cardinality(B \cup {pk.pn}) = Cardinality(B) + 1
         /\ Cardinality(E \cup {pk.pn}) = Cardinality(E) + 1
    <2> HIDE DEF B, E
    <2> QED
      BY <1>7, <1>8, OneMore
  <1>12. path'.bytes = Cardinality(Sized(sent', generation))
    <2>1. CASE pk.size > 0
      <3>1. Sized(sent', generation) = B \cup {pk.pn}
        BY <1>2, <1>4, <1>5, <1>6, <1>9, <2>1 DEF Sized
      <3>2. path'.bytes = path.bytes + 1
        BY <2>1 DEF SendStep
      <3> HIDE DEF B
      <3> QED
        BY <1>3, <1>11, <3>1, <3>2
    <2>2. CASE ~ (pk.size > 0)
      <3>1. Sized(sent', generation) = B
        BY <1>2, <1>4, <1>5, <1>6, <1>9, <2>2 DEF Sized
      <3>2. path'.bytes = path.bytes + 0
        BY <2>2 DEF SendStep
      <3> HIDE DEF B
      <3> QED
        BY <1>3, <1>10, <3>1, <3>2
    <2> QED
      BY <2>1, <2>2
  <1>13. path'.eliciting = Cardinality(Eliciting(sent', generation))
    <2>1. CASE pk.eliciting = TRUE
      <3>1. Eliciting(sent', generation) = E \cup {pk.pn}
        BY <1>2, <1>4, <1>5, <1>6, <1>9, <2>1 DEF Eliciting
      <3>2. path'.eliciting = path.eliciting + 1
        BY <2>1 DEF SendStep
      <3> HIDE DEF E
      <3> QED
        BY <1>3, <1>11, <3>1, <3>2
    <2>2. CASE pk.eliciting = FALSE
      <3>1. Eliciting(sent', generation) = E
        BY <1>2, <1>4, <1>5, <1>6, <1>9, <2>2 DEF Eliciting
      <3>2. path'.eliciting = path.eliciting + 0
        BY <2>2 DEF SendStep
      <3> HIDE DEF E
      <3> QED
        BY <1>3, <1>10, <3>1, <3>2
    <2> QED
      BY <1>2, <2>1, <2>2 DEF PacketType
  <1> QED
    BY <1>12, <1>13

\* The 4-tuples after the step
LEMMA SendPaths ==
    ASSUME SInv, NEW pk, NEW gone, SendStep(pk, gone), pending' \subseteq Items
    PROVE  PathsOrdered' /\ ProbeTracked'
  <1>1. SentTypes /\ PathsOrdered /\ ProbeTracked /\ TailExact
    BY DEF SInv
  <1>2. /\ pk.pn \in Nat /\ pk.pn >= num.next /\ pk.pn \notin DOMAIN sent
        /\ num'.next = pk.pn + 1 /\ num.next \in Nat
    BY <1>1, SendSent DEF SentTypes
  <1>3. \A n \in DOMAIN sent \ gone :
            /\ n \in DOMAIN sent' /\ n # pk.pn
            /\ sent'[n].gen = sent[n].gen /\ sent'[n].data = sent[n].data
            /\ sent'[n].eliciting = sent[n].eliciting
            /\ sent'[n].controls = sent[n].controls \/ sent'[n].controls = {}
    BY SendSent
  <1>4. \A n \in DOMAIN sent' : n = pk.pn \/ n \in DOMAIN sent \ gone
    BY DEF SendStep
  <1>5. pk.pn \in DOMAIN sent' /\ sent'[pk.pn] = pk /\ pk.gen = path.gen
    BY DEF SendStep
  <1>6. /\ prev' = prev /\ generation' = generation /\ path' \in PathType
        /\ path'.gen = path.gen /\ path'.validated = path.validated
        /\ \/ path'.probe = path.probe
           \/ path'.probe = pk.pn /\ pk.controls = {} /\ pk.data = {}
              /\ pk.eliciting = TRUE /\ path.validated = TRUE
    BY DEF SendStep
  <1>7. \A q \in PathType : ProbeEmpty(q) => ProbeEmpty(q)'
    <2> SUFFICES ASSUME NEW q \in PathType, ProbeEmpty(q), q.probe # None
                 PROVE  /\ q.probe < num'.next
                        /\ q.probe \in DOMAIN sent' =>
                               /\ sent'[q.probe].controls = {} /\ sent'[q.probe].data = {}
                               /\ sent'[q.probe].eliciting = TRUE
      BY DEF ProbeEmpty
    <2>1. q.probe \in Nat /\ q.probe < num.next
      BY DEF ProbeEmpty, PathType
    <2>2. q.probe # pk.pn /\ q.probe < num'.next
      BY <1>2, <2>1
    <2> QED
      BY <1>3, <1>4, <2>2 DEF ProbeEmpty
  <1>8. \A n \in DOMAIN sent' : sent'[n].gen <= generation
    BY <1>1, <1>3, <1>4, <1>5 DEF PathsOrdered
  <1>9. ProbeEmpty(path)'
    <2>1. CASE path'.probe = path.probe
      <3>1. ProbeEmpty(path)
        BY <1>1 DEF PathsOrdered
      <3>2. path.probe # None => path.probe \in Nat /\ path.probe < num.next
        BY <1>1, <3>1 DEF ProbeEmpty, PathsOrdered, PathType
      <3> QED
        BY <1>2, <1>3, <1>4, <2>1, <3>1, <3>2 DEF ProbeEmpty
    <2>2. CASE path'.probe = pk.pn /\ pk.controls = {} /\ pk.data = {} /\ pk.eliciting = TRUE
      BY <1>2, <1>5, <2>2 DEF ProbeEmpty
    <2> QED
      BY <1>6, <2>1, <2>2
  <1>10. PathsOrdered'
    BY <1>1, <1>6, <1>7, <1>8, <1>9 DEF PathsOrdered
  <1>11. path'.gen = 0 /\ path'.validated = FALSE => path'.probe = None
    BY <1>1, <1>6 DEF ProbeTracked
  <1>12. path'.probe # None /\ path'.probe \notin DOMAIN sent' =>
             generation >= 2 /\ (path.gen = generation => generation >= 3)
    <2> SUFFICES ASSUME path'.probe # None, path'.probe \notin DOMAIN sent'
                 PROVE  generation >= 2 /\ (path.gen = generation => generation >= 3)
      OBVIOUS
    <2>1. path'.probe = path.probe
      BY <1>5, <1>6
    <2>2. path.probe \notin DOMAIN sent
      <3> SUFFICES ASSUME path.probe \in DOMAIN sent PROVE FALSE
        OBVIOUS
      <3>1. path.probe \in gone
        BY <1>3, <2>1
      <3>2. sent[path.probe].eliciting = TRUE
        BY <1>1, <2>1 DEF PathsOrdered, ProbeEmpty
      <3>3. gone \subseteq TailOf(sent, tail.largest)
        BY DEF SendStep, PacketType
      <3> QED
        BY <1>1, <3>1, <3>2, <3>3 DEF TailExact, TailOf
    <2> QED
      BY <1>1, <2>1, <2>2 DEF ProbeTracked
  <1>13. ProbeTracked'
    BY <1>1, <1>6, <1>11, <1>12 DEF ProbeTracked
  <1> QED
    BY <1>10, <1>13


\* Sending a packet keeps the invariant of the sender.
LEMMA SendKeeps ==
    ASSUME SInv, NEW pk, NEW gone, SendStep(pk, gone), pending' \subseteq Items
    PROVE  SInv'
  <1>1. SentTypes' /\ TailExact' /\ Counted' /\ PathsOrdered' /\ ProbeTracked'
    BY SendSent, SendTail, SendCounted, SendPaths
  <1>2. NumTypes'
    <2>1. num \in [next : Nat, skip : Nat, skipped : Nat \cup {None}, largestAcked : Int]
      BY DEF SInv, NumTypes
    <2> DEFINE k == IF num.next = num.skip THEN num.skip ELSE num.skipped
    <2>2. k \in Nat \cup {None} /\ TxNumber + 1 \in Nat
      BY <2>1 DEF TxNumber
    <2>3. num' = [num EXCEPT !.next = TxNumber + 1, !.skipped = k]
      BY Zenon DEF SendStep, TakeNumber
    <2> HIDE DEF k
    <2> DEFINE half == [num EXCEPT !.next = TxNumber + 1]
    <2>4. half \in [next : Nat, skip : Nat, skipped : Nat \cup {None}, largestAcked : Int]
      BY <2>1, <2>2
    <2>5. num' = [half EXCEPT !.skipped = k]
      BY <2>1, <2>3
    <2> HIDE DEF half
    <2> QED
      BY <2>2, <2>4, <2>5 DEF NumTypes
  <1> QED
    BY <1>1, <1>2 DEF SInv

\* finish_and_track, whose packet may have emptied others (s) before
LEMMA TrackSends ==
    ASSUME SInv, NEW s, NEW pk, Track(s, pk),
           DOMAIN s = DOMAIN sent,
           \A n \in DOMAIN sent : s[n] = sent[n] \/ s[n] = [sent[n] EXCEPT !.controls = {}],
           pk \in PacketType, pk.pn = TxNumber, pk.gen = path.gen,
           pk.eliciting = FALSE => pk.controls = {} /\ pk.data = {} /\ pk.size = 0,
           prev' = prev, generation' = generation, acked' = acked
    PROVE  SendStep(pk, Forgotten(pk.eliciting))
  <1> DEFINE gone == Forgotten(pk.eliciting)
             q == RemoveInFlight(path, gone)
             left == Without(s, gone)
             b == IF pk.size > 0 THEN 1 ELSE 0
             e == IF pk.eliciting THEN 1 ELSE 0
  <1>1. SentTypes /\ TailExact /\ path \in PathType
    BY DEF SInv, PathsOrdered
  <1>2. /\ pk.eliciting = TRUE => gone = {} /\ tail' = [largest |-> pk.pn, count |-> 0]
        /\ pk.eliciting = FALSE =>
               \/ tail' = tail /\ \E m \in TailOf(sent, tail.largest) : gone = {m}
               \/ tail' = [tail EXCEPT !.count = @ + 1] /\ gone = {}
    <2>1. tail' = CountSent(pk.pn, pk.eliciting)
      BY DEF Track
    <2>2. CASE pk.eliciting = TRUE
      BY <2>1, <2>2 DEF CountSent, Forgotten
    <2>3. CASE pk.eliciting = FALSE /\ tail.count > MaxTail
      <3>1. ~ (tail.count <= MaxTail)
        BY <1>1, <2>3, ConstantsAssumption DEF TailExact
      <3>2. SetMin({p \in DOMAIN sent : p > tail.largest}) \in TailOf(sent, tail.largest)
        BY <2>3, ForgottenInTail
      <3> QED
        BY <2>1, <2>3, <3>1, <3>2, Zenon DEF CountSent, Forgotten
    <2>4. CASE pk.eliciting = FALSE /\ ~ (tail.count > MaxTail)
      <3>1. tail.count <= MaxTail
        BY <1>1, <2>4, ConstantsAssumption DEF TailExact
      <3> QED
        BY <2>1, <2>4, <3>1, Zenon DEF CountSent, Forgotten
    <2> QED
      BY <2>2, <2>3, <2>4 DEF PacketType
  <1>3. gone \subseteq TailOf(sent, tail.largest)
    BY <1>2 DEF PacketType
  <1>4. /\ q \in PathType /\ q.gen = path.gen /\ q.validated = path.validated
        /\ q.probe = path.probe /\ q.bytes = path.bytes /\ q.eliciting = path.eliciting
    <2>1. gone \in SUBSET DOMAIN sent
      BY <1>3 DEF TailOf
    <2>2. Sized(sent, path.gen) \cap gone = {} /\ Eliciting(sent, path.gen) \cap gone = {}
      BY <1>1, <1>3 DEF TailExact, TailOf, Sized, Eliciting
    <2>3. /\ q \in PathType /\ q.gen = path.gen /\ q.validated = path.validated
          /\ q.probe = path.probe
          /\ q.bytes = path.bytes - Cardinality(Sized(sent, path.gen) \cap gone)
          /\ q.eliciting = path.eliciting - Cardinality(Eliciting(sent, path.gen) \cap gone)
      <3> HIDE DEF gone
      <3> QED
        BY <1>1, <2>1, RemoveInFlightFields DEF SentTypes
    <2>4. Cardinality({}) = 0
      BY FS_EmptySet
    <2>5. /\ Cardinality(Sized(sent, path.gen) \cap gone) = 0
          /\ Cardinality(Eliciting(sent, path.gen) \cap gone) = 0
      BY <2>2, <2>4, Zenon
    <2> HIDE DEF q, gone
    <2> QED
      BY <1>1, <2>3, <2>5 DEF PathType
  <1>5. path' = Allowed([q EXCEPT !.bytes = @ + b, !.eliciting = @ + e,
                                  !.challenge = @ /\ ~pk.eliciting], -1)
    BY Zenon DEF Track
  <1>6. b \in Int /\ e \in Int
    OBVIOUS
  <1>7. /\ path' \in PathType /\ path'.gen = q.gen /\ path'.validated = q.validated
        /\ path'.bytes = q.bytes + b /\ path'.eliciting = q.eliciting + e
        /\ path'.probe = q.probe
    <2> HIDE DEF q, b, e
    <2> DEFINE q1 == [q EXCEPT !.bytes = q.bytes + b]
               q2 == [q1 EXCEPT !.eliciting = q1.eliciting + e]
               c == q2.challenge /\ ~pk.eliciting
    <2>1. /\ q1 \in PathType /\ q1.gen = q.gen /\ q1.validated = q.validated
          /\ q1.bytes = q.bytes + b /\ q1.eliciting = q.eliciting /\ q1.probe = q.probe
          /\ q1.challenge = q.challenge
      BY <1>4, <1>6 DEF PathType
    <2> HIDE DEF q1
    <2>2. /\ q2 \in PathType /\ q2.gen = q.gen /\ q2.validated = q.validated
          /\ q2.bytes = q.bytes + b /\ q2.eliciting = q.eliciting + e /\ q2.probe = q.probe
          /\ q2.challenge = q.challenge
      BY <2>1, <1>6 DEF PathType
    <2>3. [q EXCEPT !.bytes = @ + b, !.eliciting = @ + e, !.challenge = @ /\ ~pk.eliciting]
            = [q2 EXCEPT !.challenge = q.challenge /\ ~pk.eliciting]
      BY <1>4 DEF q1, PathType
    <2> HIDE DEF q2, c
    <2>4. c \in BOOLEAN
      BY DEF c
    <2> DEFINE q3 == [q2 EXCEPT !.challenge = c]
    <2>5. path' = Allowed(q3, -1)
      BY <1>5, <2>2, <2>3, Zenon DEF c
    <2>6. /\ q3 \in PathType /\ q3.gen = q.gen /\ q3.validated = q.validated
          /\ q3.bytes = q.bytes + b /\ q3.eliciting = q.eliciting + e /\ q3.probe = q.probe
      BY <2>2, <2>4 DEF PathType
    <2> HIDE DEF q3
    <2>7. -1 \in Int
      OBVIOUS
    <2> QED
      BY <2>5, <2>6, <2>7, AllowedFields, Zenon
  <1>8. /\ DOMAIN sent' = (DOMAIN sent \ gone) \cup {pk.pn} /\ sent'[pk.pn] = pk
        /\ \A n \in DOMAIN sent \ gone :
               sent'[n] = sent[n] \/ sent'[n] = [sent[n] EXCEPT !.controls = {}]
    <2>1. sent' = [n \in DOMAIN left \cup {pk.pn} |-> IF n = pk.pn THEN pk ELSE left[n]]
      BY Zenon DEF Track
    <2>2. DOMAIN left = DOMAIN sent \ gone /\ \A n \in DOMAIN left : left[n] = s[n]
      BY DEF Without
    <2>3. pk.pn \notin DOMAIN sent
      BY FreshNumber
    <2> HIDE DEF left, gone
    <2>4. /\ DOMAIN sent' = (DOMAIN sent \ gone) \cup {pk.pn} /\ sent'[pk.pn] = pk
          /\ \A n \in DOMAIN sent \ gone : sent'[n] = s[n]
      BY <2>1, <2>2, <2>3
    <2> QED
      BY <2>4
  <1>9. num' = TakeNumber
    BY Zenon DEF Track
  <1> HIDE DEF gone, q, left, b, e
  <1>10. path'.gen = path.gen /\ path'.validated = path.validated /\ path'.probe = path.probe
         /\ path'.bytes = path.bytes + b /\ path'.eliciting = path.eliciting + e
    BY <1>4, <1>7
  <1>11. SendStep(pk, gone)
    BY <1>2, <1>7, <1>8, <1>9, <1>10 DEF SendStep, b, e
  <1> QED
    BY <1>11 DEF gone

-----------------------------------------------------------------------------
(* The receiver                                                            *)

\* The variables of the sender do not change.
SenderQuiet == UNCHANGED sender

\* Then its invariant stays.
LEMMA QuietSender ==
    ASSUME SInv, SenderQuiet
    PROVE  SInv' /\ Numbers' = Numbers
  BY DEF SenderQuiet, SInv, NumTypes, SentTypes, TailExact, PathsOrdered, ProbeEmpty, ProbeTracked,
         Counted, Numbers, TailOf, Sized, Eliciting

\* insert_one adds one number and may drop others.
LEMMA BoundedSubset ==
    ASSUME NEW S
    PROVE  Bounded(S) \subseteq S
  BY DEF Bounded

\* What Process leaves in PendingAcks
LEMMA ProcessTypes ==
    ASSUME RInv, NEW pk \in net, Process(pk)
    PROVE  /\ pa' \in PendingAcksType /\ pa'.ranges \subseteq pa.ranges \cup {pk.pn}
           /\ Owed'
  <1> DEFINE d == Inserted(pk.pn)
             ranges == Bounded(pa.ranges \cup {pk.pn})
             prevLargest == IF pa.largest = None THEN 0 ELSE pa.largest
             largest == SetMax({pa.largest, pk.pn})
             imm == (pa.immediate \/ pa.eliciting + 1 > freq[1]
                                  \/ OutOfOrder(d, pk.pn, prevLargest, largest))
             p1 == [pa EXCEPT !.ranges = ranges]
             p2 == [p1 EXCEPT !.largest = largest]
             p3 == [p2 EXCEPT !.eliciting = pa.eliciting + 1]
             p == [p3 EXCEPT !.immediate = imm]
  <1>1. /\ pa \in PendingAcksType /\ pk.pn \in Nat /\ pk.eliciting \in BOOLEAN
        /\ Owed /\ pa.ranges \subseteq Nat
    BY DEF RInv, Genuine, Numbers, PacketType, PendingAcksType
  <1>2. ranges \subseteq pa.ranges \cup {pk.pn}
    BY BoundedSubset
  <1>3. ranges \in SUBSET Nat
    BY <1>1, <1>2
  <1>4. largest \in Nat
    <2>1. pa.largest \in Int /\ pk.pn \in Nat
      BY <1>1 DEF PendingAcksType, None
    <2>2. \E x \in {pa.largest, pk.pn} : \A y \in {pa.largest, pk.pn} : x >= y
      BY <2>1
    <2>3. largest \in {pa.largest, pk.pn} /\ largest >= pk.pn
      BY <2>2 DEF SetMax, Max
    <2> QED
      BY <2>1, <2>3
  <1>5. imm \in BOOLEAN
    OBVIOUS
  <1>6. CASE pk.eliciting = FALSE
    <2>1. pa' = [pa EXCEPT !.ranges = ranges, !.other = @ + 1] /\ ackTimer' = ackTimer
      BY <1>6, Zenon DEF Process
    <2> HIDE DEF ranges, imm, largest
    <2>2. /\ p1 \in PendingAcksType /\ p1.ranges = ranges /\ p1.immediate = pa.immediate
          /\ p1.eliciting = pa.eliciting /\ p1.waiting = pa.waiting /\ p1.other = pa.other
      BY <1>1, <1>3 DEF PendingAcksType
    <2>3. pa' = [p1 EXCEPT !.other = p1.other + 1]
      BY <1>1, <2>1 DEF PendingAcksType
    <2> HIDE DEF p1
    <2>4. /\ pa' \in PendingAcksType /\ pa'.ranges = ranges /\ pa'.immediate = pa.immediate
          /\ pa'.eliciting = pa.eliciting /\ pa'.waiting = pa.waiting
      BY <2>2, <2>3 DEF PendingAcksType
    <2> QED
      BY <1>1, <1>2, <2>1, <2>4 DEF Owed
  <1>7. CASE pk.eliciting = TRUE
    <2> DEFINE q == [pa EXCEPT !.ranges = ranges, !.largest = largest, !.eliciting = @ + 1,
                               !.immediate = @ \/ pa.eliciting + 1 > freq[1]
                                      \/ OutOfOrder(d, pk.pn, prevLargest, largest)]
    <2>1. pa' = [q EXCEPT !.waiting = @ \/ Arms(q)] /\ ackTimer' = (ackTimer \/ Arms(q))
      BY <1>7, Zenon DEF Process
    <2>2. q = [pa EXCEPT !.ranges = ranges, !.largest = largest, !.eliciting = pa.eliciting + 1,
                         !.immediate = imm]
      OBVIOUS
    <2> HIDE DEF ranges, imm, largest, q, d, prevLargest
    <2>3. q = p
      BY <1>1, <2>2 DEF PendingAcksType
    <2>4. /\ p1 \in PendingAcksType /\ p1.ranges = ranges /\ p1.waiting = pa.waiting
      BY <1>1, <1>3 DEF PendingAcksType
    <2> HIDE DEF p1
    <2>5. /\ p2 \in PendingAcksType /\ p2.ranges = ranges /\ p2.waiting = pa.waiting
      BY <1>4, <2>4 DEF PendingAcksType
    <2> HIDE DEF p2
    <2>6. pa.eliciting + 1 \in Nat
      BY <1>1 DEF PendingAcksType
    <2>7. /\ p3 \in PendingAcksType /\ p3.ranges = ranges /\ p3.waiting = pa.waiting
          /\ p3.eliciting = pa.eliciting + 1
      BY <2>5, <2>6 DEF PendingAcksType
    <2> HIDE DEF p3
    <2>8. /\ p \in PendingAcksType /\ p.ranges = ranges /\ p.waiting = pa.waiting
          /\ p.eliciting = pa.eliciting + 1 /\ p.immediate = imm
      BY <1>5, <2>7 DEF PendingAcksType
    <2>9. pa.immediate = TRUE => p.immediate = TRUE
      BY <2>8 DEF imm
    <2> HIDE DEF p
    <2> DEFINE w == p.waiting \/ Arms(p)
    <2>10. pa' = [p EXCEPT !.waiting = w] /\ ackTimer' = (ackTimer \/ Arms(p))
      BY <2>1, <2>3, Zenon
    <2>11. w \in BOOLEAN
      OBVIOUS
    <2>12. w => pa.waiting = TRUE \/ ackTimer' = TRUE
      BY <1>1, <2>8, <2>10, Zenon DEF PendingAcksType
    <2>13. ackTimer' \in BOOLEAN /\ (ackTimer = TRUE => ackTimer' = TRUE)
      BY <2>10, Zenon
    <2>14. ~w => p.immediate = TRUE
      BY <2>8, Zenon DEF Arms, CanSendAck, PendingAcksType
    <2> HIDE DEF w
    <2>15. /\ pa' \in PendingAcksType /\ pa'.ranges = ranges /\ pa'.waiting = w
           /\ pa'.eliciting = pa.eliciting + 1 /\ pa'.immediate = p.immediate
      BY <2>8, <2>10, <2>11 DEF PendingAcksType
    <2>16. pa.eliciting \in Nat /\ pa'.eliciting > 0
      BY <1>1, <2>15 DEF PendingAcksType
    <2>17. pa.waiting = TRUE => pa.immediate = TRUE \/ ackTimer = TRUE
      BY <1>1 DEF Owed
    <2>18. pa'.immediate = TRUE \/ ackTimer' = TRUE
      BY <2>9, <2>11, <2>12, <2>13, <2>14, <2>15, <2>17, Zenon
    <2> QED
      BY <1>2, <2>13, <2>15, <2>16, <2>18 DEF Owed
  <1> QED
    BY <1>1, <1>6, <1>7


\* Dedup::insert remembers the number, and what it forgets it takes for a
\* duplicate from then on.
LEMMA DedupRemembers ==
    ASSUME RInv, NEW pn \in Nat, dedup' = Inserted(pn), got' = got \cup {pn}
    PROVE  DedupInv'
  <1>1. /\ dedup \in [next : Nat, window : SUBSET Nat] /\ DedupBits \in Nat
        /\ \A n \in got : /\ n \in Nat /\ n < dedup.next
                          /\ n = dedup.next - 1 \/ n \in dedup.window
                             \/ dedup.next - 1 - n > DedupBits
    BY ConstantsAssumption DEF RInv, DedupInv, Genuine, Numbers
  <1>2. CASE pn >= dedup.next
    <2> DEFINE w == {n \in dedup.window \cup ({dedup.next - 1} \ {-1}) : pn - n <= DedupBits}
    <2>1. dedup' = [next |-> pn + 1, window |-> w]
      BY <1>2, Zenon DEF Inserted
    <2>2. w \in SUBSET Nat
      BY <1>1
    <2>3. \A n \in got : n \in w \/ pn - n > DedupBits
      <3> SUFFICES ASSUME NEW n \in got PROVE n \in w \/ pn - n > DedupBits
        OBVIOUS
      <3>1. n \in Nat /\ n < dedup.next /\ dedup.next \in Nat
        BY <1>1
      <3>2. n \in dedup.window \cup ({dedup.next - 1} \ {-1}) \/ dedup.next - 1 - n > DedupBits
        BY <1>1, <3>1
      <3>3. pn - n <= DedupBits \/ pn - n > DedupBits
        BY <1>1, <3>1
      <3>4. dedup.next - 1 - n > DedupBits => pn - n > DedupBits
        BY <1>1, <1>2, <3>1
      <3> QED
        BY <3>2, <3>3, <3>4
    <2>4. dedup'.next = pn + 1 /\ dedup'.window = w
      BY <2>1
    <2> HIDE DEF w
    <2>5. dedup' \in [next : Nat, window : SUBSET Nat]
      BY <2>1, <2>2
    <2>6. ASSUME NEW n \in got'
          PROVE  /\ n < dedup'.next
                 /\ n = dedup'.next - 1 \/ n \in dedup'.window
                    \/ dedup'.next - 1 - n > DedupBits
      <3>1. CASE n = pn
        BY <2>4, <3>1
      <3>2. CASE n \in got
        <4>1. n \in Nat /\ n < dedup.next /\ dedup.next \in Nat
          BY <1>1, <3>2
        <4>2. n < dedup'.next
          BY <1>2, <2>4, <4>1
        <4>3. dedup'.next - 1 - n = pn - n
          BY <2>4, <4>1
        <4> QED
          BY <2>3, <2>4, <3>2, <4>2, <4>3
      <3> QED
        BY <3>1, <3>2
    <2> QED
      BY <2>5, <2>6 DEF DedupInv
  <1>3. CASE ~ (pn >= dedup.next)
    <2>1. dedup' = [dedup EXCEPT !.window = @ \cup {pn}]
      BY <1>3, Zenon DEF Inserted
    <2>2. /\ dedup' \in [next : Nat, window : SUBSET Nat] /\ dedup'.next = dedup.next
          /\ dedup'.window = dedup.window \cup {pn}
      BY <1>1, <2>1
    <2>3. pn < dedup.next
      BY <1>1, <1>3
    <2> QED
      BY <1>1, <2>2, <2>3 DEF DedupInv
  <1> QED
    BY <1>2, <1>3

\* A packet arrives.
LEMMA ReceiveKeeps ==
    ASSUME RInv, Receive
    PROVE  RInv'
  <1>1. PICK pk \in net, again \in BOOLEAN :
            /\ IF again THEN Spend("dup") /\ UNCHANGED net
               ELSE net' = net \ {pk} /\ UNCHANGED budget
            /\ IF IsDuplicate(pk.pn) THEN UNCHANGED <<dedup, pa, ackTimer, got, seen>>
               ELSE Process(pk)
    BY DEF Receive
  <1>2. SenderQuiet /\ acks' = acks /\ net' \subseteq net /\ error' = error /\ num' = num
    BY <1>1 DEF Receive, SenderQuiet
  <1>3. SInv' /\ Numbers' = Numbers
    BY <1>2, QuietSender DEF RInv
  <1>4. Genuine /\ pk \in PacketType /\ pk.pn \in Numbers /\ pk.pn \in Nat
    BY DEF RInv, Genuine, Numbers
  <1>5. CASE IsDuplicate(pk.pn)
    <2>1. UNCHANGED <<dedup, pa, ackTimer, got>>
      BY <1>1, <1>5
    <2>2. DedupInv' /\ Owed'
      BY <2>1 DEF RInv, DedupInv, Owed
    <2>3. Genuine'
      BY <1>2, <1>3, <1>4, <2>1 DEF Genuine
    <2> QED
      BY <1>3, <2>2, <2>3 DEF RInv
  <1>6. CASE ~IsDuplicate(pk.pn)
    <2>1. Process(pk)
      BY <1>1, <1>6
    <2>2. dedup' = Inserted(pk.pn) /\ got' = got \cup {pk.pn}
      BY <2>1, Zenon DEF Process
    <2>3. /\ pa' \in PendingAcksType /\ pa'.ranges \subseteq pa.ranges \cup {pk.pn}
          /\ Owed'
      BY <2>1, ProcessTypes
    <2>4. DedupInv'
      BY <1>4, <2>2, DedupRemembers
    <2>5. Genuine'
      BY <1>2, <1>3, <1>4, <2>2, <2>3 DEF Genuine
    <2> QED
      BY <1>3, <2>3, <2>4, <2>5 DEF RInv
  <1> QED
    BY <1>5, <1>6

\* The delay timer expires.
LEMMA AckDelayKeeps ==
    ASSUME RInv, AckDelayExpires
    PROVE  RInv'
  <1> DEFINE i == (pa.eliciting > 0)
  <1>1. /\ SenderQuiet /\ UNCHANGED <<net, acks, dedup, got, error, num>>
        /\ pa' = [pa EXCEPT !.immediate = i] /\ ackTimer' = FALSE
    BY DEF AckDelayExpires, SenderQuiet
  <1>2. SInv' /\ Numbers' = Numbers
    BY <1>1, QuietSender DEF RInv
  <1>3. Genuine /\ DedupInv /\ Owed
    BY DEF RInv
  <1>4. i \in BOOLEAN /\ (pa.eliciting > 0 => i = TRUE)
    OBVIOUS
  <1> HIDE DEF i
  <1>5. /\ pa' \in PendingAcksType /\ pa'.ranges = pa.ranges /\ pa'.immediate = i
        /\ pa'.eliciting = pa.eliciting /\ pa'.waiting = pa.waiting
    BY <1>1, <1>3, <1>4 DEF Genuine, PendingAcksType
  <1>6. Genuine'
    BY <1>1, <1>2, <1>3, <1>5 DEF Genuine
  <1>7. DedupInv'
    BY <1>1, <1>3 DEF DedupInv
  <1>8. Owed'
    BY <1>1, <1>3, <1>4, <1>5 DEF Owed
  <1> QED
    BY <1>2, <1>6, <1>7, <1>8 DEF RInv

\* An acknowledgement is sent.
LEMMA SendAckKeeps ==
    ASSUME RInv, SendAck
    PROVE  RInv'
  <1> DEFINE f == [ranges |-> pa.ranges, ecn |-> Cardinality(got)]
  <1>1. /\ SenderQuiet /\ UNCHANGED <<net, dedup, got, error, num>>
        /\ pa' = AcksSent(pa) /\ ackTimer' = FALSE /\ acks' = acks \cup {f}
        /\ pa.ranges # {}
    BY DEF SendAck, SenderQuiet, CanSendAck
  <1>2. SInv' /\ Numbers' = Numbers
    BY <1>1, QuietSender DEF RInv
  <1>3. Genuine /\ DedupInv /\ Owed
    BY DEF RInv
  <1>4. f.ranges = pa.ranges
    OBVIOUS
  <1> HIDE DEF f
  <1>5. pa' \in PendingAcksType /\ pa'.ranges = pa.ranges /\ pa'.eliciting = 0 /\ pa'.waiting = FALSE
    <2>1. pa \in PendingAcksType
      BY <1>3 DEF Genuine
    <2>2. pa' = [immediate |-> FALSE, eliciting |-> 0, other |-> 0, ranges |-> pa.ranges,
                 largest |-> pa.largest, reported |-> pa.largest, waiting |-> FALSE]
      BY <1>1, <2>1 DEF AcksSent, PendingAcksType
    <2> QED
      BY <2>1, <2>2 DEF PendingAcksType
  <1>6. Genuine'
    BY <1>1, <1>2, <1>3, <1>4, <1>5 DEF Genuine
  <1>7. DedupInv'
    BY <1>1, <1>3 DEF DedupInv
  <1>9. ~ (pa'.eliciting > 0)
    BY <1>5
  <1>8. Owed'
    BY <1>1, <1>5, <1>9, Zenon DEF Owed
  <1> QED
    BY <1>2, <1>6, <1>7, <1>8 DEF RInv

\* An acknowledgement was acknowledged.
LEMMA AckAckedKeeps ==
    ASSUME RInv, AckAcked
    PROVE  RInv'
  <1>1. PICK l \in heard : pa' = [pa EXCEPT !.ranges = {n \in @ : n > l}]
    BY DEF AckAcked
  <1> DEFINE R == {n \in pa.ranges : n > l}
  <1>2. /\ SenderQuiet /\ UNCHANGED <<net, acks, dedup, got, error, num, ackTimer>>
        /\ pa' = [pa EXCEPT !.ranges = R]
    BY <1>1 DEF AckAcked, SenderQuiet
  <1>3. SInv' /\ Numbers' = Numbers
    BY <1>2, QuietSender DEF RInv
  <1>4. Genuine /\ DedupInv /\ Owed
    BY DEF RInv
  <1>5. R \subseteq pa.ranges /\ pa.ranges \subseteq Nat /\ R \in SUBSET Nat
    BY <1>4 DEF Genuine, PendingAcksType
  <1> HIDE DEF R
  <1>6. /\ pa' \in PendingAcksType /\ pa'.ranges = R /\ pa'.immediate = pa.immediate
        /\ pa'.eliciting = pa.eliciting /\ pa'.waiting = pa.waiting
    BY <1>2, <1>4, <1>5 DEF Genuine, PendingAcksType
  <1>7. Genuine'
    BY <1>2, <1>3, <1>4, <1>5, <1>6 DEF Genuine
  <1>8. DedupInv' /\ Owed'
    BY <1>2, <1>4, <1>6 DEF DedupInv, Owed
  <1> QED
    BY <1>3, <1>7, <1>8 DEF RInv

\* The network loses something.
LEMMA LosePacketKeeps ==
    ASSUME RInv, LosePacket
    PROVE  RInv'
  <1>1. /\ SenderQuiet /\ UNCHANGED <<dedup, got, error, num, pa, ackTimer>>
        /\ net' \subseteq net /\ acks' \subseteq acks
    BY DEF LosePacket, SenderQuiet
  <1>2. SInv' /\ Numbers' = Numbers
    BY <1>1, QuietSender DEF RInv
  <1>3. Genuine'
    BY <1>1, <1>2 DEF RInv, Genuine
  <1>4. DedupInv' /\ Owed'
    BY <1>1 DEF RInv, DedupInv, Owed
  <1> QED
    BY <1>2, <1>3, <1>4 DEF RInv

-----------------------------------------------------------------------------
(* The sender                                                              *)

\* Sending a packet keeps the invariant of both ends.
LEMMA SendKeepsAll ==
    ASSUME RInv, NEW pk, NEW gone, SendStep(pk, gone), pending' \subseteq Items,
           net' = net \cup {pk}, UNCHANGED <<acks, receiver, error>>
    PROVE  RInv'
  <1>1. SInv /\ Genuine /\ SInv'
    BY SendKeeps DEF RInv
  <1>2. /\ pk.pn \in Nat /\ pk.pn >= num.next /\ num'.next = pk.pn + 1 /\ num.next \in Nat
        /\ pk.pn # num.skip /\ pk \in PacketType /\ num.skip \in Nat
    BY <1>1, SendSent, FreshNumber DEF SendStep, SInv, SentTypes
  <1>3. num'.skip = num.skip /\ num'.skipped \in {None, num.skip}
    <2>1. num \in [next : Nat, skip : Nat, skipped : Nat \cup {None}, largestAcked : Int]
          /\ num.skipped \in {None, num.skip}
      BY <1>1 DEF SInv, NumTypes, Genuine
    <2>2. num' = [num EXCEPT !.next = TxNumber + 1,
                    !.skipped = IF num.next = num.skip THEN num.skip ELSE num.skipped]
      BY Zenon DEF SendStep, TakeNumber
    <2> QED
      BY <2>1, <2>2
  <1>4. Numbers \subseteq Numbers' /\ pk.pn \in Numbers'
    BY <1>2, <1>3 DEF Numbers
  <1>5. Genuine'
    <2>1. got' = got /\ pa' = pa /\ acks' = acks /\ error' = error
      OBVIOUS
    <2>2. \A p \in net' : p \in PacketType /\ p.pn \in Numbers'
      BY <1>1, <1>2, <1>4 DEF Genuine
    <2>3. num'.skipped \in {None, num'.skip}
      BY <1>3
    <2> QED
      BY <1>1, <1>4, <2>1, <2>2, <2>3 DEF Genuine
  <1>6. DedupInv' /\ Owed'
    BY DEF RInv, DedupInv, Owed
  <1> QED
    BY <1>1, <1>5, <1>6 DEF RInv

\* Frames of a tail-loss probe come from a packet in flight.
LEMMA ProbeFromSent ==
    ASSUME SInv
    PROVE  ProbeFrom \subseteq DOMAIN sent /\ ProbeControls \subseteq Items
  <1>1. SentTypes
    BY DEF SInv
  <1>2. Oldest \in SUBSET Nat /\ Oldest \subseteq DOMAIN sent
    BY <1>1 DEF Oldest, SentTypes
  <1>3. Oldest # {} => SetMin(Oldest) \in Oldest
    BY <1>2, SetMinLeast
  <1>4. ProbeFrom \subseteq DOMAIN sent
    BY <1>2, <1>3 DEF ProbeFrom
  <1>5. \A n \in DOMAIN sent : sent[n].controls \subseteq Items
    BY <1>1 DEF SentTypes, PacketType, Items
  <1> QED
    BY <1>4, <1>5 DEF ProbeControls

\* What Transmit does: part of what waits goes into the packet, and frames that a
\* probe takes out of a packet in flight wait as well.
TransmitStep(pk, from, waiting) ==
    /\ SendStep(pk, {}) /\ pk.eliciting = TRUE
    /\ from \subseteq DOMAIN sent /\ waiting \subseteq Items
    /\ waiting = Requested(pending \cup UNION {sent[n].controls : n \in from})
    /\ \A n \in DOMAIN sent :
           sent'[n] = IF n \in from THEN [sent[n] EXCEPT !.controls = {}] ELSE sent[n]
    /\ pending' \subseteq waiting
    /\ \A x \in waiting : x \in pending' \/ x \in pk.controls \/ x \in pk.data
    /\ net' = net \cup {pk} /\ UNCHANGED <<acks, receiver, error, acked>>

\* finish_and_track of a packet that Transmit builds
LEMMA TransmitSends ==
    ASSUME RInv, Transmit
    PROVE  \E pk, from, waiting : TransmitStep(pk, from, waiting)
  <1> DEFINE probing == flow.probes > 0
             from == IF probing THEN ProbeFrom ELSE {}
             s == [n \in DOMAIN sent |->
                      IF n \in from THEN [sent[n] EXCEPT !.controls = {}] ELSE sent[n]]
             waiting == Requested(pending \cup IF probing THEN ProbeControls ELSE {})
  <1>1. SInv /\ SentTypes /\ PathsOrdered
    BY DEF RInv, SInv
  <1>2. PICK part \in (IF waiting = {} THEN {{}} ELSE SUBSET waiting \ {{}}) :
            /\ Track(s, Packet(TxNumber, part \cap Controls, part \cap Data, TRUE, 1))
            /\ pending' = waiting \ part
    BY Zenon DEF Transmit
  <1> DEFINE pk == Packet(TxNumber, part \cap Controls, part \cap Data, TRUE, 1)
  <1>3. from \in SUBSET DOMAIN sent
    BY <1>1, ProbeFromSent
  <1>4. UNION {sent[n].controls : n \in from} = IF probing THEN ProbeControls ELSE {}
    BY DEF ProbeControls
  <1>5. pending \subseteq Items /\ ProbeControls \subseteq Items
    BY <1>1, ProbeFromSent DEF SentTypes
  <1>6. waiting = Requested(pending \cup UNION {sent[n].controls : n \in from})
    BY <1>4, Zenon
  <1>7. waiting \in SUBSET Items
    BY <1>5 DEF Requested
  <1>8. part \subseteq waiting
    OBVIOUS
  <1>9. /\ pk.pn = TxNumber /\ pk.gen = path.gen /\ pk.eliciting = TRUE
        /\ pk.controls = part \cap Controls /\ pk.data = part \cap Data /\ pk.size = 1
    BY DEF Packet
  <1>10. pk \in PacketType
    <2>1. TxNumber \in Nat /\ path.gen \in Nat
      BY <1>1, FreshNumber DEF PathsOrdered, PathType
    <2> QED
      BY <2>1 DEF Packet, PacketType
  <1>11. /\ prev' = prev /\ generation' = generation /\ acked' = acked
         /\ UNCHANGED <<acks, receiver, error, acked>>
    BY DEF Transmit
  <1>12. DOMAIN s = DOMAIN sent
         /\ \A n \in DOMAIN sent : s[n] = sent[n] \/ s[n] = [sent[n] EXCEPT !.controls = {}]
    OBVIOUS
  <1>13. Track(s, pk) /\ net' = net \cup {pk}
    BY <1>2, Zenon DEF Track
  <1>14. \A x \in waiting : x \in pending' \/ x \in pk.controls \/ x \in pk.data
    BY <1>2, <1>7, <1>9 DEF Items
  <1>15. Forgotten(TRUE) = {}
    BY DEF Forgotten
  <1>16. sent' = [n \in DOMAIN sent \cup {pk.pn} |-> IF n = pk.pn THEN pk ELSE s[n]]
    <2> DEFINE left == Without(s, Forgotten(pk.eliciting))
    <2>1. sent' = [n \in DOMAIN left \cup {pk.pn} |-> IF n = pk.pn THEN pk ELSE left[n]]
      BY <1>13, Zenon DEF Track
    <2>2. DOMAIN left = DOMAIN sent /\ \A n \in DOMAIN sent : left[n] = s[n]
      BY <1>9, <1>12, <1>15 DEF Without
    <2> HIDE DEF left, s, pk
    <2> QED
      BY <2>1, <2>2
  <1>17. pk.pn \notin DOMAIN sent
    BY <1>1, <1>9, FreshNumber
  <1>18. \A n \in DOMAIN sent :
             sent'[n] = IF n \in from THEN [sent[n] EXCEPT !.controls = {}] ELSE sent[n]
    <2> HIDE DEF pk, from
    <2> QED
      BY <1>16, <1>17
  <1> HIDE DEF pk, s, waiting, from
  <1>19. SendStep(pk, Forgotten(pk.eliciting))
    BY <1>1, <1>9, <1>10, <1>11, <1>12, <1>13, TrackSends
  <1>20. SendStep(pk, {})
    BY <1>9, <1>15, <1>19
  <1>21. pending' \subseteq waiting
    BY <1>2
  <1>22. from \subseteq DOMAIN sent /\ waiting \subseteq Items
    BY <1>3, <1>7
  <1>23. TransmitStep(pk, from, waiting)
    BY <1>6, <1>9, <1>11, <1>13, <1>14, <1>18, <1>20, <1>21, <1>22, Zenon DEF TransmitStep
  <1> QED
    BY <1>23


\* An ack-eliciting packet is sent.
LEMMA TransmitKeeps ==
    ASSUME RInv, Transmit
    PROVE  RInv'
  <1>1. PICK pk, from, waiting : TransmitStep(pk, from, waiting)
    BY TransmitSends
  <1>2. SendStep(pk, {}) /\ pending' \subseteq Items /\ net' = net \cup {pk}
        /\ UNCHANGED <<acks, receiver, error>>
    BY <1>1 DEF TransmitStep
  <1> QED
    BY <1>2, SendKeepsAll

\* A packet of acknowledgements is sent; one that carries nothing may be forgotten.
LEMMA AckOnlySends ==
    ASSUME RInv, TransmitAckOnly
    PROVE  \E pk : /\ SendStep(pk, Forgotten(FALSE)) /\ net' = net \cup {pk}
                   /\ UNCHANGED <<acks, receiver, error, acked, pending>>
                   /\ \A n \in DOMAIN sent \ Forgotten(FALSE) : sent'[n] = sent[n]
  <1> DEFINE pk == Packet(TxNumber, {}, {}, FALSE, 0)
  <1>1. SInv /\ PathsOrdered
    BY DEF RInv, SInv
  <1>2. /\ pk.pn = TxNumber /\ pk.gen = path.gen /\ pk.eliciting = FALSE
        /\ pk.controls = {} /\ pk.data = {} /\ pk.size = 0
    BY DEF Packet
  <1>3. pk \in PacketType
    <2>1. TxNumber \in Nat /\ path.gen \in Nat
      BY <1>1, FreshNumber DEF PathsOrdered, PathType
    <2> QED
      BY <2>1 DEF Packet, PacketType
  <1>4. /\ prev' = prev /\ generation' = generation /\ acked' = acked
        /\ UNCHANGED <<acks, receiver, error, acked, pending>>
    BY DEF TransmitAckOnly
  <1>5. Track(sent, pk)
    BY Zenon DEF TransmitAckOnly
  <1> DEFINE left == Without(sent, Forgotten(pk.eliciting))
  <1>6. net' = net \cup {pk}
        /\ sent' = [n \in DOMAIN left \cup {pk.pn} |-> IF n = pk.pn THEN pk ELSE left[n]]
    BY <1>5, Zenon DEF Track
  <1>7. DOMAIN left = DOMAIN sent \ Forgotten(FALSE) /\ \A n \in DOMAIN left : left[n] = sent[n]
    BY <1>2 DEF Without
  <1>8. pk.pn \notin DOMAIN sent
    BY <1>1, <1>2, FreshNumber
  <1> HIDE DEF pk, left
  <1>9. \A n \in DOMAIN sent \ Forgotten(FALSE) : sent'[n] = sent[n]
    BY <1>6, <1>7, <1>8
  <1>10. SendStep(pk, Forgotten(pk.eliciting))
    BY <1>1, <1>2, <1>3, <1>4, <1>5, TrackSends
  <1>11. SendStep(pk, Forgotten(FALSE))
    BY <1>2, <1>10
  <1> QED
    BY <1>4, <1>6, <1>9, <1>11, Zenon

\* So the invariant stays.
LEMMA AckOnlyKeeps ==
    ASSUME RInv, TransmitAckOnly
    PROVE  RInv'
  <1>1. PICK pk : /\ SendStep(pk, Forgotten(FALSE)) /\ net' = net \cup {pk}
                  /\ UNCHANGED <<acks, receiver, error, acked, pending>>
    BY AckOnlySends
  <1>2. pending' \subseteq Items
    BY <1>1 DEF RInv, SInv, SentTypes
  <1> QED
    BY <1>1, <1>2, SendKeepsAll

\* An MTU probe is sent: no other packet changes.
LEMMA MtuProbeSends ==
    ASSUME RInv, TransmitMtuProbe
    PROVE  \E pk : /\ SendStep(pk, {}) /\ net' = net \cup {pk}
                   /\ UNCHANGED <<acks, receiver, error, acked, pending>>
                   /\ \A n \in DOMAIN sent : sent'[n] = sent[n]
  <1> DEFINE pk == Packet(TxNumber, {}, {}, TRUE, 2)
  <1>1. SInv /\ PathsOrdered /\ path \in PathType
    BY DEF RInv, SInv, PathsOrdered
  <1>2. /\ pk.pn = TxNumber /\ pk.gen = path.gen /\ pk.eliciting = TRUE
        /\ pk.controls = {} /\ pk.data = {} /\ pk.size = 2
    BY DEF Packet
  <1>3. pk \in PacketType /\ pk.pn \in Nat
    <2>1. TxNumber \in Nat /\ path.gen \in Nat
      BY <1>1, FreshNumber DEF PathsOrdered, PathType
    <2> QED
      BY <2>1 DEF Packet, PacketType
  <1>4. /\ prev' = prev /\ generation' = generation /\ acked' = acked
        /\ UNCHANGED <<acks, receiver, error, acked, pending>>
        /\ path.validated = TRUE
    BY <1>1 DEF TransmitMtuProbe, PathType
  <1>5. /\ sent' = [n \in DOMAIN sent \cup {pk.pn} |-> IF n = pk.pn THEN pk ELSE sent[n]]
        /\ path' = [path EXCEPT !.bytes = @ + 1, !.eliciting = @ + 1, !.probe = pk.pn]
        /\ net' = net \cup {pk} /\ tail' = CountSent(pk.pn, TRUE) /\ num' = TakeNumber
    BY Zenon DEF TransmitMtuProbe
  <1>6. tail' = [largest |-> pk.pn, count |-> 0]
    BY <1>5 DEF CountSent
  <1>7. pk.pn \notin DOMAIN sent
    BY <1>1, <1>2, FreshNumber
  <1> HIDE DEF pk
  <1>8. /\ path' \in PathType /\ path'.gen = path.gen /\ path'.validated = path.validated
        /\ path'.bytes = path.bytes + 1 /\ path'.eliciting = path.eliciting + 1
        /\ path'.probe = pk.pn
    <2> DEFINE q1 == [path EXCEPT !.bytes = path.bytes + 1]
               q2 == [q1 EXCEPT !.eliciting = path.eliciting + 1]
    <2>1. /\ q1 \in PathType /\ q1.gen = path.gen /\ q1.validated = path.validated
          /\ q1.bytes = path.bytes + 1 /\ q1.eliciting = path.eliciting
      BY <1>1 DEF PathType
    <2>2. path' = [q2 EXCEPT !.probe = pk.pn]
      BY <1>1, <1>5 DEF PathType
    <2>5. path.eliciting + 1 \in Int
      BY <1>1 DEF PathType
    <2> HIDE DEF q1
    <2>3. /\ q2 \in PathType /\ q2.gen = path.gen /\ q2.validated = path.validated
          /\ q2.bytes = path.bytes + 1 /\ q2.eliciting = path.eliciting + 1
      BY <2>1, <2>5 DEF PathType
    <2> HIDE DEF q2
    <2> QED
      BY <1>3, <2>2, <2>3 DEF PathType
  <1>9. /\ DOMAIN sent' = (DOMAIN sent \ {}) \cup {pk.pn} /\ sent'[pk.pn] = pk
        /\ \A n \in DOMAIN sent : sent'[n] = sent[n]
    BY <1>5, <1>7
  <1>11. /\ path'.bytes = path.bytes + (IF pk.size > 0 THEN 1 ELSE 0)
         /\ path'.eliciting = path.eliciting + (IF pk.eliciting THEN 1 ELSE 0)
    BY <1>2, <1>8
  <1>12. \A n \in DOMAIN sent \ {} :
             sent'[n] = sent[n] \/ sent'[n] = [sent[n] EXCEPT !.controls = {}]
    BY <1>9
  <1>10. SendStep(pk, {})
    BY <1>2, <1>3, <1>4, <1>5, <1>6, <1>8, <1>9, <1>11, <1>12, Zenon DEF SendStep
  <1> QED
    BY <1>4, <1>5, <1>9, <1>10, Zenon

\* So the invariant stays.
LEMMA MtuProbeKeeps ==
    ASSUME RInv, TransmitMtuProbe
    PROVE  RInv'
  <1>1. PICK pk : /\ SendStep(pk, {}) /\ net' = net \cup {pk}
                  /\ UNCHANGED <<acks, receiver, error, acked, pending>>
    BY MtuProbeSends
  <1>2. pending' \subseteq Items
    BY <1>1 DEF RInv, SInv, SentTypes
  <1> QED
    BY <1>1, <1>2, SendKeepsAll


\* Dropping packets keeps the invariant of both ends.
LEMMA DropKeepsAll ==
    ASSUME RInv, NEW taken \in SUBSET DOMAIN sent, NEW lost, Dropped(taken, lost),
           NumTypes', num'.next = num.next, num'.skip = num.skip, num'.skipped = num.skipped,
           acked' \subseteq Items, generation' = generation, acks' \subseteq acks,
           UNCHANGED <<net, receiver, error>>
    PROVE  RInv'
  <1>1. SInv'
    BY DropKeeps DEF RInv
  <1>2. Numbers' = Numbers
    BY DEF Numbers
  <1>3. Genuine'
    BY <1>2 DEF RInv, Genuine
  <1>4. DedupInv' /\ Owed'
    BY DEF RInv, DedupInv, Owed
  <1> QED
    BY <1>1, <1>3, <1>4 DEF RInv

\* A step of the sender that leaves its packets and counters alone
LEMMA IdleKeepsAll ==
    ASSUME RInv, UNCHANGED <<sent, tail, prev, pending, generation, net, receiver, error>>,
           SameCounts(path, path'),
           NumTypes', num'.next = num.next, num'.skip = num.skip, num'.skipped = num.skipped,
           acked' \subseteq Items, acks' \subseteq acks
    PROVE  RInv'
  <1>1. SInv'
    BY DEF RInv, SInv, SentTypes, TailExact, PathsOrdered, ProbeEmpty, ProbeTracked,
           Counted, TailOf, Sized, Eliciting, SameCounts
  <1>2. Numbers' = Numbers
    BY DEF Numbers
  <1>3. Genuine'
    BY <1>2 DEF RInv, Genuine
  <1>4. DedupInv' /\ Owed'
    BY DEF RInv, DedupInv, Owed
  <1> QED
    BY <1>1, <1>3, <1>4 DEF RInv

\* The loss-detection timer fires.
LEMMA TimeoutKeeps ==
    ASSUME RInv, Timeout
    PROVE  RInv'
  <1>1. UNCHANGED <<num, acked, ecn, net, acks, receiver, heard, generation, error>>
    BY DEF Timeout
  <1>2. NumTypes' /\ acked' \subseteq Items
    BY <1>1 DEF RInv, SInv, NumTypes, SentTypes
  <1>3. CASE flow.lossTime
    <2>1. PICK old : DetectLost({}, num.largestAcked, old, 0)
      BY <1>3 DEF Timeout
    <2>2. PICK lost : Dropped({}, lost)
      BY <2>1, DetectLostDrops
    <2> QED
      BY <1>1, <1>2, <2>2, DropKeepsAll
  <1>4. CASE ~flow.lossTime
    <2>1. UNCHANGED <<sent, tail, path, prev, pending>>
      BY <1>4 DEF Timeout
    <2>2. SameCounts(path, path')
      BY <2>1 DEF SameCounts, RInv, SInv, PathsOrdered
    <2> QED
      BY <1>1, <1>2, <2>1, <2>2, IdleKeepsAll
  <1> QED
    BY <1>3, <1>4

\* An honest receiver acknowledges numbers that were sent.
LEMMA AckGenuine ==
    ASSUME RInv, NEW a \in acks
    PROVE  /\ SetMax(a.ranges) \in a.ranges /\ \A n \in a.ranges : n <= SetMax(a.ranges)
           /\ SetMax(a.ranges) \in Nat
           /\ ~ (SetMax(a.ranges) >= num.next) /\ num.skipped \notin a.ranges
  <1>1. /\ a.ranges # {} /\ a.ranges \subseteq Numbers /\ num.next \in Nat
        /\ num.skipped \in {None, num.skip}
    BY DEF RInv, Genuine, SInv, SentTypes
  <1>2. a.ranges \in SUBSET Nat /\ \A y \in a.ranges : y <= num.next
    BY <1>1 DEF Numbers
  <1>3. SetMax(a.ranges) \in a.ranges /\ \A n \in a.ranges : n <= SetMax(a.ranges)
    BY <1>1, <1>2, SetMaxLargest
  <1>4. SetMax(a.ranges) \in Nat /\ SetMax(a.ranges) < num.next
    BY <1>1, <1>3 DEF Numbers
  <1>5. num.skipped \notin a.ranges
    BY <1>1 DEF Numbers, None
  <1> QED
    BY <1>1, <1>3, <1>4, <1>5

\* So its acknowledgements take packets off and lose others, and never close the
\* connection.
LEMMA AckTakes ==
    ASSUME RInv, NEW a \in acks, NEW gain \in Gains, OnAck(a, gain)
    PROVE  LET newly == DOMAIN sent \cap a.ranges IN
           /\ error' = error /\ acked' = acked \cup ContentsOf(newly)
           /\ NumTypes' /\ num'.next = num.next /\ num'.skip = num.skip
           /\ num'.skipped = num.skipped
           /\ num'.largestAcked = IF SetMax(a.ranges) > num.largestAcked
                                  THEN SetMax(a.ranges) ELSE num.largestAcked
           /\ \/ /\ newly = {} /\ UNCHANGED <<sent, tail, prev, pending, ecn>>
                 /\ SameCounts(path, path')
              \/ /\ \E lost : Dropped(newly, lost)
                 /\ ecn' = EcnResult(a, SetMax(a.ranges) > num.largestAcked, newly)
  <1> DEFINE largest == SetMax(a.ranges)
             top == IF largest > num.largestAcked THEN largest ELSE num.largestAcked
             newly == DOMAIN sent \cap a.ranges
  <1>1. largest \in Nat /\ ~ (largest >= num.next \/ num.skipped \in a.ranges)
    BY AckGenuine
  <1>2. num \in [next : Nat, skip : Nat, skipped : Nat \cup {None}, largestAcked : Int]
    BY DEF RInv, SInv, NumTypes
  <1>3. top \in Int
    BY <1>1, <1>2
  <1>4. /\ num' = [num EXCEPT !.largestAcked = top]
        /\ acked' = acked \cup ContentsOf(newly)
        /\ error' = error
        /\ IF newly = {}
           THEN path' = Allowed(path, gain) /\ UNCHANGED <<sent, tail, prev, pending, ecn>>
           ELSE /\ \E old \in {0} \cup {n + 1 : n \in {m \in DOMAIN sent \ newly : m < top}} :
                       DetectLost(newly, top, old, gain)
                /\ ecn' = EcnResult(a, largest > num.largestAcked, newly)
    BY <1>1, Zenon DEF OnAck
  <1> HIDE DEF top, largest
  <1>5. /\ NumTypes' /\ num'.next = num.next /\ num'.skip = num.skip
        /\ num'.skipped = num.skipped /\ num'.largestAcked = top
    BY <1>2, <1>3, <1>4 DEF NumTypes
  <1>6. gain \in Nat /\ gain \in Int /\ path \in PathType
    BY ConstantsAssumption DEF RInv, SInv, PathsOrdered
  <1>7. newly # {} => \E lost : Dropped(newly, lost)
    BY <1>4, <1>6, DetectLostDrops
  <1>8. newly = {} => SameCounts(path, path')
    <2>1. newly = {} => path' = Allowed(path, gain)
      BY <1>4, Zenon
    <2>2. SameCounts(path, Allowed(path, gain))
      BY <1>6, AllowedFields DEF SameCounts
    <2> QED
      BY <2>1, <2>2, Zenon
  <1> QED
    BY <1>4, <1>5, <1>7, <1>8, Zenon DEF top, largest

\* An acknowledgement arrives.
LEMMA AckArrivesKeeps ==
    ASSUME RInv, AckArrives
    PROVE  RInv'
  <1>1. PICK a \in acks, gain \in Gains : OnAck(a, gain) /\ acks' = acks \ {a}
    BY DEF AckArrives
  <1> DEFINE newly == DOMAIN sent \cap a.ranges
  <1>2. /\ error' = error /\ acked' = acked \cup ContentsOf(newly)
        /\ NumTypes' /\ num'.next = num.next /\ num'.skip = num.skip
        /\ num'.skipped = num.skipped
        /\ \/ SameCounts(path, path') /\ UNCHANGED <<sent, tail, prev, pending>>
           \/ \E lost : Dropped(newly, lost)
    BY <1>1, AckTakes, Zenon
  <1>3. UNCHANGED <<net, receiver, generation, error>>
    BY <1>2 DEF AckArrives
  <1>4. newly \in SUBSET DOMAIN sent
    OBVIOUS
  <1>5. acked' \subseteq Items
    <2>1. \A n \in DOMAIN sent : sent[n].controls \subseteq Items /\ sent[n].data \subseteq Items
      BY DEF RInv, SInv, SentTypes, PacketType, Items
    <2>2. ContentsOf(newly) \subseteq Items
      BY <1>4, <2>1 DEF ContentsOf
    <2>3. acked \subseteq Items
      BY DEF RInv, SInv, SentTypes
    <2> QED
      BY <1>2, <2>2, <2>3
  <1>6. acks' \subseteq acks
    BY <1>1
  <1> HIDE DEF newly
  <1>7. CASE SameCounts(path, path') /\ UNCHANGED <<sent, tail, prev, pending>>
    BY <1>2, <1>3, <1>5, <1>6, <1>7, IdleKeepsAll
  <1>8. ASSUME NEW lost, Dropped(newly, lost) PROVE RInv'
    BY <1>2, <1>3, <1>4, <1>5, <1>6, <1>8, DropKeepsAll
  <1> QED
    BY <1>2, <1>7, <1>8

\* A datagram of the client arrives at a server that waits for it.
LEMMA ClientSendsKeeps ==
    ASSUME RInv, ClientSends
    PROVE  RInv'
  <1>1. PICK gain \in Gains : path' = Allowed(path, gain)
    BY DEF ClientSends
  <1>2. UNCHANGED <<num, sent, tail, prev, pending, acked, net, acks, receiver, generation, error>>
    BY DEF ClientSends
  <1>3. SameCounts(path, path')
    <2>1. gain \in Int /\ path \in PathType
      BY ConstantsAssumption DEF RInv, SInv, PathsOrdered
    <2> QED
      BY <1>1, <2>1, AllowedFields DEF SameCounts
  <1>4. NumTypes' /\ acked' \subseteq Items
    BY <1>2 DEF RInv, SInv, NumTypes, SentTypes
  <1> QED
    BY <1>2, <1>3, <1>4, IdleKeepsAll

-----------------------------------------------------------------------------
(* Migration                                                               *)

\* Steps that change nothing but the 4-tuples keep the rest.
LEMMA PathStepKeeps ==
    ASSUME RInv, UNCHANGED <<num, sent, tail, pending, acked, net, acks, receiver, error>>,
           PathsOrdered', ProbeTracked', Counted'
    PROVE  RInv'
  <1>1. NumTypes' /\ SentTypes' /\ TailExact'
    BY DEF RInv, SInv, NumTypes, SentTypes, TailExact, TailOf
  <1>2. Genuine' /\ DedupInv' /\ Owed'
    BY DEF RInv, Genuine, DedupInv, Owed, Numbers
  <1> QED
    BY <1>1, <1>2 DEF RInv, SInv

\* No packet of a new generation is in flight.
LEMMA NewGenerationEmpty ==
    ASSUME SInv
    PROVE  /\ Cardinality(Sized(sent, generation + 1)) = 0
           /\ Cardinality(Eliciting(sent, generation + 1)) = 0
  <1>1. \A n \in DOMAIN sent : sent[n].gen \in Nat /\ sent[n].gen <= generation
        /\ generation \in Nat
    BY DEF SInv, SentTypes, PacketType, PathsOrdered
  <1>2. \A n \in DOMAIN sent : sent[n].gen # generation + 1
    BY <1>1
  <1>3. Sized(sent, generation + 1) = {} /\ Eliciting(sent, generation + 1) = {}
    BY <1>2 DEF Sized, Eliciting
  <1> QED
    BY <1>3, FS_EmptySet

\* The path migrates to another 4-tuple.
LEMMA MigrateKeeps ==
    ASSUME RInv, Migrate
    PROVE  RInv'
  <1>1. SInv /\ SentTypes /\ PathsOrdered /\ ProbeTracked
    BY DEF RInv, SInv
  <1>2. PICK keep \in BOOLEAN, gain \in Gains :
            path' = [NewPath(generation + 1, FALSE, gain) EXCEPT
                        !.probe = IF keep THEN path.probe ELSE None]
    BY DEF Migrate
  <1>3. /\ UNCHANGED <<num, sent, tail, pending, acked, net, acks, receiver, error>>
        /\ generation' = generation + 1 /\ prev' = IF path.validated THEN prev ELSE <<path>>
    BY DEF Migrate
  <1>4. path \in PathType /\ generation \in Nat /\ path.gen <= generation /\ path.gen \in Nat
    BY <1>1 DEF PathsOrdered, PathType
  <1> DEFINE b == IF keep THEN path.probe ELSE None
  <1>5. b \in Nat \cup {None}
    BY <1>4 DEF PathType
  <1>6. path' = [NewPath(generation + 1, FALSE, gain) EXCEPT !.probe = b]
    BY <1>2
  <1>7. b = path.probe \/ b = None
    OBVIOUS
  <1> HIDE DEF b
  <1>8. /\ path' \in PathType /\ path'.gen = generation + 1 /\ path'.validated = FALSE
        /\ path'.bytes = 0 /\ path'.eliciting = 0 /\ path'.probe = b
    <2> DEFINE fresh == NewPath(generation + 1, FALSE, gain)
    <2>1. fresh = [gen |-> generation + 1, bytes |-> 0, eliciting |-> 0, validated |-> FALSE,
                   allowance |-> gain, challenge |-> TRUE, probe |-> None]
      BY DEF NewPath
    <2>2. path' = [fresh EXCEPT !.probe = b]
      BY <1>6
    <2> HIDE DEF fresh
    <2>3. path' = [gen |-> generation + 1, bytes |-> 0, eliciting |-> 0, validated |-> FALSE,
                   allowance |-> gain, challenge |-> TRUE, probe |-> b]
      BY <2>1, <2>2
    <2>4. generation + 1 \in Nat /\ gain \in Int
      BY <1>4, ConstantsAssumption
    <2> QED
      BY <1>5, <2>3, <2>4 DEF PathType
  <1>9. \A q : ProbeEmpty(q) => ProbeEmpty(q)'
    BY <1>3 DEF ProbeEmpty
  <1>10. Counted'
    BY <1>1, <1>3, <1>8, NewGenerationEmpty DEF Counted, Sized, Eliciting
  <1>11. ProbeEmpty(path)'
    BY <1>1, <1>3, <1>7, <1>8 DEF PathsOrdered, ProbeEmpty
  <1>12. path.validated = FALSE => prev' = <<path>> /\ prev'[1] = path
    BY <1>3
  <1>13. path.validated = TRUE => prev' = prev
    BY <1>3
  <1>14. path.validated \in BOOLEAN
    BY <1>4 DEF PathType
  <1>15. \A n \in DOMAIN sent' : sent'[n].gen <= generation'
    BY <1>1, <1>3, <1>4 DEF PathsOrdered, SentTypes, PacketType
  <1>16. path'.gen <= generation' /\ generation' \in Nat
    BY <1>3, <1>4, <1>8
  <1>17. prev' # <<>> =>
             /\ prev' = <<prev'[1]>> /\ prev'[1] \in PathType /\ prev'[1].gen < generation'
             /\ prev'[1].validated = FALSE
             /\ ProbeEmpty(prev[1])'
    <2>1. CASE path.validated = FALSE
      <3>1. prev' = <<path>> /\ prev'[1] = path
        BY <1>12, <2>1
      <3>2. path.gen < generation'
        BY <1>3, <1>4
      <3>3. ProbeEmpty(prev[1])'
        BY <1>1, <1>3, <3>1 DEF PathsOrdered, ProbeEmpty
      <3> QED
        BY <1>4, <2>1, <3>1, <3>2, <3>3
    <2>2. CASE path.validated = TRUE
      <3>1. prev' = prev
        BY <1>13, <2>2
      <3>2. prev # <<>> => prev[1].gen < generation'
        BY <1>1, <1>3, <1>4 DEF PathsOrdered, PathType
      <3>3. prev # <<>> => ProbeEmpty(prev[1])'
        BY <1>1, <1>3, <3>1 DEF PathsOrdered, ProbeEmpty
      <3> QED
        BY <1>1, <3>1, <3>2, <3>3 DEF PathsOrdered
    <2> QED
      BY <1>14, <2>1, <2>2
  <1>18. PathsOrdered'
    BY <1>8, <1>11, <1>15, <1>16, <1>17 DEF PathsOrdered
  <1>19. ProbeTracked'
    <2>1. path'.gen # 0
      BY <1>4, <1>8
    <2>2. prev' # <<>> /\ prev'[1].gen = 0 => prev'[1].probe = None
      BY <1>1, <1>12, <1>13, <1>14 DEF ProbeTracked
    <2>3. path'.probe # None /\ path'.probe \notin DOMAIN sent' =>
              generation' >= 2 /\ (path'.gen = generation' => generation' >= 3)
      <3> SUFFICES ASSUME path'.probe # None, path'.probe \notin DOMAIN sent'
                   PROVE  generation' >= 3
        BY <1>3, <1>4
      <3>1. path.probe # None /\ path.probe \notin DOMAIN sent
        BY <1>3, <1>7, <1>8
      <3>2. generation >= 2
        BY <1>1, <3>1 DEF ProbeTracked
      <3> QED
        BY <1>3, <1>4, <3>2
    <2> QED
      BY <2>1, <2>2, <2>3 DEF ProbeTracked
  <1> QED
    BY <1>3, <1>10, <1>18, <1>19, PathStepKeeps

\* The 4-tuple is validated.
LEMMA ValidatedKeeps ==
    ASSUME RInv, Validated
    PROVE  RInv'
  <1>1. SInv /\ PathsOrdered /\ ProbeTracked /\ Counted /\ path \in PathType
    BY DEF RInv, SInv, PathsOrdered
  <1>2. /\ UNCHANGED <<num, sent, tail, pending, acked, net, acks, receiver, error>>
        /\ generation' = generation
        /\ prev' = IF prev = <<>> THEN prev ELSE <<[prev[1] EXCEPT !.challenge = FALSE]>>
        /\ path' = [path EXCEPT !.validated = TRUE, !.allowance = 0]
    BY DEF Validated
  <1>3. /\ path' \in PathType /\ path'.gen = path.gen /\ path'.validated = TRUE
        /\ path'.bytes = path.bytes /\ path'.eliciting = path.eliciting
        /\ path'.probe = path.probe
    <2> DEFINE q == [path EXCEPT !.validated = TRUE]
    <2>1. /\ q \in PathType /\ q.gen = path.gen /\ q.validated = TRUE
          /\ q.bytes = path.bytes /\ q.eliciting = path.eliciting
          /\ q.probe = path.probe
      BY <1>1 DEF PathType
    <2>2. path' = [q EXCEPT !.allowance = 0]
      BY <1>1, <1>2 DEF PathType
    <2> HIDE DEF q
    <2> QED
      BY <2>1, <2>2 DEF PathType
  <1>4. Counted'
    BY <1>1, <1>2, <1>3 DEF Counted, Sized, Eliciting
  <1>5. ProbeEmpty(path)'
    BY <1>1, <1>2, <1>3 DEF PathsOrdered, ProbeEmpty
  <1>8. prev = <<>> => prev' = <<>>
    BY <1>2
  <1>9. prev # <<>> =>
            /\ prev' = <<prev'[1]>> /\ prev'[1] \in PathType /\ prev'[1].gen = prev[1].gen
            /\ prev'[1].validated = FALSE /\ prev'[1].probe = prev[1].probe
    <2> SUFFICES ASSUME prev # <<>>
                 PROVE  /\ prev' = <<prev'[1]>> /\ prev'[1] \in PathType
                        /\ prev'[1].gen = prev[1].gen
                        /\ prev'[1].validated = FALSE /\ prev'[1].probe = prev[1].probe
      OBVIOUS
    <2> DEFINE q == [prev[1] EXCEPT !.challenge = FALSE]
    <2>1. prev' = <<q>>
      BY <1>2
    <2>2. prev[1] \in PathType /\ prev[1].validated = FALSE
      BY <1>1 DEF PathsOrdered
    <2>3. /\ q \in PathType /\ q.gen = prev[1].gen /\ q.validated = FALSE
          /\ q.probe = prev[1].probe
      BY <2>2 DEF PathType
    <2> HIDE DEF q
    <2>4. prev'[1] = q
      BY <2>1
    <2> QED
      BY <2>1, <2>3, <2>4
  <1>10. prev' # <<>> => ProbeEmpty(prev[1])'
    BY <1>1, <1>2, <1>8, <1>9 DEF PathsOrdered, ProbeEmpty
  <1>6. PathsOrdered'
    BY <1>1, <1>2, <1>3, <1>5, <1>8, <1>9, <1>10 DEF PathsOrdered
  <1>7. ProbeTracked'
    BY <1>1, <1>2, <1>3, <1>8, <1>9 DEF ProbeTracked
  <1> QED
    BY <1>2, <1>4, <1>6, <1>7, PathStepKeeps

\* The path falls back to the previous 4-tuple, whose counters are not trusted.
LEMMA ValidationFailedKeeps ==
    ASSUME RInv, ValidationFailed
    PROVE  RInv'
  <1>1. SInv /\ PathsOrdered /\ ProbeTracked /\ prev # <<>>
    BY DEF RInv, SInv, ValidationFailed
  <1>2. /\ UNCHANGED <<num, sent, tail, pending, acked, net, acks, receiver, error>>
        /\ generation' = generation /\ prev' = <<>>
        /\ path' = [prev[1] EXCEPT !.challenge = FALSE]
    BY DEF ValidationFailed
  <1>3. prev[1] \in PathType /\ prev[1].gen < generation /\ generation \in Nat
        /\ prev[1].gen \in Nat /\ ProbeEmpty(prev[1]) /\ prev[1].validated = FALSE
    BY <1>1 DEF PathsOrdered, PathType
  <1>4. /\ path' \in PathType /\ path'.gen = prev[1].gen /\ path'.probe = prev[1].probe
        /\ path'.validated = FALSE
    BY <1>2, <1>3 DEF PathType
  <1>5. path'.gen < generation
    BY <1>3, <1>4
  <1>6. path'.gen # generation /\ path'.gen <= generation
    BY <1>3, <1>4, <1>5
  <1>7. Counted'
    BY <1>2, <1>6 DEF Counted
  <1>8. ProbeEmpty(path)'
    BY <1>2, <1>3, <1>4 DEF ProbeEmpty
  <1>9. PathsOrdered'
    BY <1>1, <1>2, <1>4, <1>6, <1>8 DEF PathsOrdered
  <1>10. path'.probe # None => generation >= 2
    <2> SUFFICES ASSUME path'.probe # None PROVE generation >= 2
      OBVIOUS
    <2>1. prev[1].gen # 0
      BY <1>1, <1>4 DEF ProbeTracked
    <2> QED
      BY <1>3, <2>1
  <1>11. path'.gen = 0 => path'.probe = None
    BY <1>1, <1>4 DEF ProbeTracked
  <1>12. ProbeTracked'
    BY <1>2, <1>6, <1>10, <1>11 DEF ProbeTracked
  <1> QED
    BY <1>2, <1>7, <1>9, <1>12, PathStepKeeps


-----------------------------------------------------------------------------
(* The invariant                                                           *)

\* Nothing was sent yet.
LEMMA InitKeeps == Init => RInv
  <1> SUFFICES ASSUME Init PROVE RInv
    OBVIOUS
  <1>1. PICK sc \in Scenarios : /\ freq = sc.freq /\ pending = sc.items
                                /\ acked = Items \ sc.items
    BY DEF Init
  <1>2. sc.items \subseteq Items
    BY ConstantsAssumption
  <1>3. PICK s \in Skips :
            num = [next |-> 0, skip |-> s, skipped |-> None, largestAcked |-> None]
    BY DEF Init
  <1>4. PICK v \in BOOLEAN, g \in Int : path = NewPath(0, v, g)
    <2>1. PICK sd \in Scenarios, gain \in Gains :
              path = NewPath(0, sd.validated, IF sd.validated THEN 0 ELSE gain)
      BY DEF Init
    <2>2. sd.validated \in BOOLEAN /\ gain \in Int
      BY ConstantsAssumption
    <2> DEFINE g == IF sd.validated THEN 0 ELSE gain
    <2>3. g \in Int /\ path = NewPath(0, sd.validated, g)
      BY <2>1, <2>2
    <2> HIDE DEF g
    <2> QED
      BY <2>2, <2>3
  <1>5. /\ sent = <<>> /\ tail = [largest |-> 0, count |-> 0] /\ prev = <<>> /\ generation = 0
        /\ net = {} /\ acks = {} /\ dedup = [next |-> 0, window |-> {}]
        /\ pa = [immediate |-> FALSE, eliciting |-> 0, other |-> 0, ranges |-> {},
                 largest |-> None, reported |-> None, waiting |-> FALSE]
        /\ ackTimer = FALSE /\ got = {} /\ error = "none"
    BY DEF Init
  <1>6. s \in Nat /\ None \in Int
    BY ConstantsAssumption DEF None
  <1>7. NumTypes /\ num.next = 0 /\ num.skip \in Nat /\ num.skipped = None
    BY <1>3, <1>6 DEF NumTypes
  <1>8. DOMAIN sent = {}
    BY <1>5
  <1>9. SentTypes
    BY <1>1, <1>2, <1>7, <1>8, FS_EmptySet DEF SentTypes
  <1>10. \A S \in SUBSET DOMAIN sent : Cardinality(S) = 0
    BY <1>8, FS_EmptySet
  <1>11. TailExact
    <2>1. Cardinality(TailOf(sent, tail.largest)) = 0
      BY <1>10 DEF TailOf
    <2> QED
      BY <1>5, <1>7, <1>8, <2>1 DEF TailExact
  <1>12. /\ path \in PathType /\ path.gen = 0 /\ path.probe = None /\ path.bytes = 0
         /\ path.eliciting = 0
    <2>1. (~v) \in BOOLEAN
      OBVIOUS
    <2>2. path = [gen |-> 0, bytes |-> 0, eliciting |-> 0, validated |-> v,
                  allowance |-> g, challenge |-> ~v, probe |-> None]
      BY <1>4 DEF NewPath
    <2> QED
      BY <2>1, <2>2 DEF PathType
  <1>13. PathsOrdered /\ ProbeTracked
    BY <1>5, <1>8, <1>12 DEF PathsOrdered, ProbeTracked, ProbeEmpty
  <1>14. Counted
    <2>1. /\ Cardinality(Sized(sent, generation)) = 0
          /\ Cardinality(Eliciting(sent, generation)) = 0
      BY <1>10 DEF Sized, Eliciting
    <2> QED
      BY <1>12, <2>1 DEF Counted
  <1>15. pa \in PendingAcksType /\ pa.ranges = {} /\ pa.waiting = FALSE /\ pa.eliciting = 0
    BY <1>5 DEF PendingAcksType
  <1>16. Genuine
    BY <1>5, <1>7, <1>15 DEF Genuine
  <1>17. DedupInv
    BY <1>5 DEF DedupInv
  <1>18. ~ (pa.eliciting > 0)
    BY <1>15
  <1>19. Owed
    BY <1>5, <1>15, <1>18, Zenon DEF Owed
  <1> QED
    BY <1>7, <1>9, <1>11, <1>13, <1>14, <1>16, <1>17, <1>19 DEF RInv, SInv

\* Every step keeps the invariant.
LEMMA NextKeeps == RInv /\ [Next]_vars => RInv'
  <1> SUFFICES ASSUME RInv, [Next]_vars PROVE RInv'
    OBVIOUS
  <1>1. CASE Transmit
    BY <1>1, TransmitKeeps
  <1>2. CASE TransmitAckOnly
    BY <1>2, AckOnlyKeeps
  <1>3. CASE TransmitMtuProbe
    BY <1>3, MtuProbeKeeps
  <1>4. CASE Timeout
    BY <1>4, TimeoutKeeps
  <1>5. CASE AckArrives
    BY <1>5, AckArrivesKeeps
  <1>15. CASE ClientSends
    BY <1>15, ClientSendsKeeps
  <1>6. CASE Migrate
    BY <1>6, MigrateKeeps
  <1>7. CASE Validated
    BY <1>7, ValidatedKeeps
  <1>8. CASE ValidationFailed
    BY <1>8, ValidationFailedKeeps
  <1>9. CASE Receive
    BY <1>9, ReceiveKeeps
  <1>10. CASE AckDelayExpires
    BY <1>10, AckDelayKeeps
  <1>11. CASE SendAck
    BY <1>11, SendAckKeeps
  <1>12. CASE AckAcked
    BY <1>12, AckAckedKeeps
  <1>13. CASE LosePacket
    BY <1>13, LosePacketKeeps
  <1>14. CASE UNCHANGED vars
    <2>1. /\ UNCHANGED <<sent, tail, path, prev, pending, generation, net, receiver, error>>
          /\ UNCHANGED <<num, acked, acks>>
      BY <1>14 DEF vars
    <2>2. NumTypes' /\ acked' \subseteq Items /\ SameCounts(path, path')
      BY <2>1 DEF RInv, SInv, NumTypes, SentTypes, PathsOrdered, SameCounts
    <2> QED
      BY <2>1, <2>2, IdleKeepsAll
  <1> QED
    BY <1>1, <1>2, <1>3, <1>4, <1>5, <1>6, <1>7, <1>8, <1>9, <1>10, <1>11, <1>12, <1>13,
       <1>14, <1>15 DEF Next

\* RInv is an invariant: what both ends keep is consistent, whatever the network,
\* the timers and migrations do.
THEOREM RecoveryInvariance == Spec => []RInv
  <1>1. Init => RInv
    BY InitKeeps
  <1>2. RInv /\ [Next]_vars => RInv'
    BY NextKeeps
  <1> QED
    BY <1>1, <1>2, PTL DEF Spec

\* in_flight is exact: the counters of a path that did not fall back are those of
\* its packets in flight, and its MTU probe is one of them.
THEOREM InFlightTheorem == Spec => []InFlightExact
  <1>1. ASSUME RInv PROVE InFlightExact
    <2> DEFINE mine == {n \in DOMAIN sent : sent[n].gen = path.gen}
    <2> SUFFICES ASSUME path.gen = generation
                 PROVE  /\ path.bytes = Cardinality({n \in mine : sent[n].size > 0})
                        /\ path.eliciting = Cardinality({n \in mine : sent[n].eliciting})
                        /\ tail.count >= Cardinality({n \in DOMAIN sent : n > tail.largest})
                        /\ path.probe # None /\ generation <= 2 => path.probe \in DOMAIN sent
      BY Zenon DEF InFlightExact
    <2>1. Counted /\ TailExact /\ ProbeTracked /\ generation \in Nat
      BY <1>1 DEF RInv, SInv, PathsOrdered
    <2>2. /\ {n \in mine : sent[n].size > 0} = Sized(sent, generation)
          /\ {n \in mine : sent[n].eliciting} = Eliciting(sent, generation)
      BY DEF Sized, Eliciting
    <2>3. /\ Cardinality({n \in mine : sent[n].size > 0}) = Cardinality(Sized(sent, generation))
          /\ Cardinality({n \in mine : sent[n].eliciting}) =
                 Cardinality(Eliciting(sent, generation))
      BY <2>2, Zenon
    <2>4. /\ path.bytes = Cardinality(Sized(sent, generation))
          /\ path.eliciting = Cardinality(Eliciting(sent, generation))
      BY <2>1 DEF Counted
    <2>5. tail.count >= Cardinality({n \in DOMAIN sent : n > tail.largest})
      <3>1. /\ Cardinality(TailOf(sent, tail.largest)) <= tail.count
      BY <2>1 DEF TailExact
      <3> QED
        BY <3>1 DEF TailOf
    <2>6. path.probe # None /\ generation <= 2 => path.probe \in DOMAIN sent
      BY <2>1 DEF ProbeTracked
    <2> QED
      BY <2>3, <2>4, <2>5, <2>6, Zenon
  <1> QED
    BY <1>1, RecoveryInvariance, PTL

-----------------------------------------------------------------------------
(* Nothing is forgotten                                                    *)

\* x is in a packet in flight.
Carried(x) == \E n \in DOMAIN sent : x \in sent[n].controls \/ x \in sent[n].data

\* NothingForgotten, frame by frame
Placed == \A x \in Items : x \in pending \/ x \in acked \/ Carried(x)

\* The two say the same.
LEMMA PlacedEnough ==
    ASSUME RInv, Placed
    PROVE  NothingForgotten
  <1>1. pending \subseteq Items /\ acked \subseteq Items
    BY DEF RInv, SInv, SentTypes
  <1>2. \A n \in DOMAIN sent : sent[n].controls \subseteq Items /\ sent[n].data \subseteq Items
    BY DEF RInv, SInv, SentTypes, PacketType, Items
  <1>3. ContentsOf(DOMAIN sent) \subseteq Items
    BY <1>2 DEF ContentsOf
  <1>4. \A x \in Items : Carried(x) => x \in ContentsOf(DOMAIN sent)
    BY DEF Carried, ContentsOf
  <1>5. Items \subseteq pending \cup ContentsOf(DOMAIN sent) \cup acked
    BY <1>4 DEF Placed
  <1> QED
    BY <1>1, <1>3, <1>5 DEF NothingForgotten

\* Packets that are dropped were acknowledged, or what they carried is pending.
LEMMA DropPlaced ==
    ASSUME RInv, Placed, NEW taken \in SUBSET DOMAIN sent, NEW lost, Dropped(taken, lost),
           acked' = acked \cup ContentsOf(taken)
    PROVE  Placed'
  <1>1. /\ DOMAIN sent' = DOMAIN sent \ (taken \cup lost)
        /\ \A n \in DOMAIN sent' : sent'[n] = sent[n]
        /\ lost \subseteq DOMAIN sent
    BY DEF Dropped, Without
  <1>2. path.probe \in lost => ContentsOf({path.probe}) = {}
    <2> SUFFICES ASSUME path.probe \in lost PROVE ContentsOf({path.probe}) = {}
      OBVIOUS
    <2>1. ProbeEmpty(path) /\ path.probe \in DOMAIN sent /\ SentTypes
      BY <1>1 DEF RInv, SInv, PathsOrdered
    <2>2. path.probe # None
      BY <2>1 DEF SentTypes, None
    <2>3. sent[path.probe].controls = {} /\ sent[path.probe].data = {}
      BY <2>1, <2>2 DEF ProbeEmpty
    <2> QED
      BY <2>3 DEF ContentsOf
  <1>3. pending' = pending \cup ContentsOf(lost)
    BY <1>2 DEF Dropped
  <1>4. \A n \in lost : sent[n].controls \cup sent[n].data \subseteq pending'
    BY <1>3 DEF ContentsOf
  <1>5. \A n \in taken : sent[n].controls \cup sent[n].data \subseteq acked'
    BY DEF ContentsOf
  <1> SUFFICES ASSUME NEW x \in Items PROVE x \in pending' \/ x \in acked' \/ Carried(x)'
    BY DEF Placed
  <1>6. x \in pending \/ x \in acked \/ Carried(x)
    BY DEF Placed
  <1>7. CASE x \in pending \/ x \in acked
    BY <1>3, <1>7
  <1>8. CASE Carried(x)
    <2>1. PICK n \in DOMAIN sent : x \in sent[n].controls \cup sent[n].data
      BY <1>8 DEF Carried
    <2>2. CASE n \in taken \cup lost
      BY <1>4, <1>5, <2>1, <2>2
    <2>3. CASE n \notin taken \cup lost
      BY <1>1, <2>1, <2>3 DEF Carried
    <2> QED
      BY <2>2, <2>3
  <1> QED
    BY <1>6, <1>7, <1>8

\* A step that keeps what waits, what is confirmed and what packets in flight carry
LEMMA SamePlaced ==
    ASSUME Placed, pending \subseteq pending', acked \subseteq acked',
           \A n \in DOMAIN sent : sent[n].controls # {} \/ sent[n].data # {} =>
               n \in DOMAIN sent' /\ sent'[n] = sent[n]
    PROVE  Placed'
  <1> SUFFICES ASSUME NEW x \in Items PROVE x \in pending' \/ x \in acked' \/ Carried(x)'
    BY DEF Placed
  <1>1. CASE x \in pending \/ x \in acked
    BY <1>1
  <1>2. CASE Carried(x)
    <2>1. PICK n \in DOMAIN sent : x \in sent[n].controls \cup sent[n].data
      BY <1>2 DEF Carried
    <2>2. n \in DOMAIN sent' /\ sent'[n] = sent[n]
      BY <2>1
    <2> QED
      BY <2>1, <2>2 DEF Carried
  <1> QED
    BY <1>1, <1>2 DEF Placed

\* What waits goes into the packet, also what a probe takes out of another.
LEMMA TransmitPlaced ==
    ASSUME RInv, Placed, Transmit, AckFrequency = FALSE
    PROVE  Placed'
  <1>1. PICK pk, from, waiting : TransmitStep(pk, from, waiting)
    BY TransmitSends
  <1>2. waiting = pending \cup UNION {sent[n].controls : n \in from}
    BY <1>1 DEF TransmitStep, Requested
  <1>3. /\ DOMAIN sent' = DOMAIN sent \cup {pk.pn} /\ sent'[pk.pn] = pk
        /\ acked' = acked
    BY <1>1 DEF TransmitStep, SendStep
  <1>4. \A x \in waiting : x \in pending' \/ Carried(x)'
    BY <1>1, <1>3 DEF TransmitStep, Carried
  <1>5. \A n \in DOMAIN sent : sent[n] \in PacketType
    BY DEF RInv, SInv, SentTypes
  <1>6. \A n \in DOMAIN sent :
            sent'[n] = IF n \in from THEN [sent[n] EXCEPT !.controls = {}] ELSE sent[n]
    BY <1>1 DEF TransmitStep
  <1>7. \A n \in DOMAIN sent :
            /\ sent'[n].data = sent[n].data
            /\ n \notin from => sent'[n].controls = sent[n].controls
    BY <1>5, <1>6 DEF PacketType
  <1>8. \A n \in from : sent[n].controls \subseteq waiting
    BY <1>2
  <1> SUFFICES ASSUME NEW x \in Items PROVE x \in pending' \/ x \in acked' \/ Carried(x)'
    BY DEF Placed
  <1>9. CASE x \in pending \/ x \in acked
    BY <1>2, <1>3, <1>4, <1>9
  <1>10. CASE Carried(x)
    <2>1. PICK n \in DOMAIN sent : x \in sent[n].controls \/ x \in sent[n].data
      BY <1>10 DEF Carried
    <2>2. n \in DOMAIN sent'
      BY <1>3
    <2>3. CASE n \in from /\ x \in sent[n].controls
      BY <1>4, <1>8, <2>3
    <2>4. CASE n \notin from \/ x \in sent[n].data
      BY <1>7, <2>1, <2>2, <2>4 DEF Carried
    <2> QED
      BY <2>1, <2>3, <2>4
  <1> QED
    BY <1>9, <1>10 DEF Placed

\* A packet that is forgotten carries nothing.
LEMMA AckOnlyPlaced ==
    ASSUME RInv, Placed, TransmitAckOnly
    PROVE  Placed'
  <1>1. PICK pk : /\ SendStep(pk, Forgotten(FALSE))
                  /\ UNCHANGED <<acks, receiver, error, acked, pending>>
                  /\ \A n \in DOMAIN sent \ Forgotten(FALSE) : sent'[n] = sent[n]
    BY AckOnlySends
  <1> DEFINE gone == Forgotten(FALSE)
  <1>2. DOMAIN sent' = (DOMAIN sent \ gone) \cup {pk.pn} /\ pk \in PacketType
    BY <1>1 DEF SendStep
  <1> HIDE DEF gone
  <1>3. gone \subseteq TailOf(sent, tail.largest)
    BY <1>1, <1>2 DEF SendStep, PacketType, gone
  <1>4. \A n \in gone : sent[n].controls = {} /\ sent[n].data = {}
    BY <1>3 DEF RInv, SInv, TailExact, TailOf
  <1>5. \A n \in DOMAIN sent : sent[n].controls # {} \/ sent[n].data # {} =>
            n \in DOMAIN sent' /\ sent'[n] = sent[n]
    BY <1>1, <1>2, <1>4 DEF gone
  <1> QED
    BY <1>1, <1>5, SamePlaced

\* Every step keeps each frame in its place.
LEMMA NextPlaced ==
    ASSUME RInv, Placed, [Next]_vars, AckFrequency = FALSE
    PROVE  Placed'
  <1>1. CASE Transmit
    BY <1>1, TransmitPlaced
  <1>2. CASE TransmitAckOnly
    BY <1>2, AckOnlyPlaced
  <1>3. CASE TransmitMtuProbe
    <2>1. PICK pk : /\ SendStep(pk, {}) /\ UNCHANGED <<acks, receiver, error, acked, pending>>
                    /\ \A n \in DOMAIN sent : sent'[n] = sent[n]
      BY <1>3, MtuProbeSends
    <2>2. DOMAIN sent \subseteq DOMAIN sent'
      BY <2>1 DEF SendStep
    <2> QED
      BY <2>1, <2>2, SamePlaced
  <1>4. CASE Timeout
    <2>1. CASE flow.lossTime
      <3>1. PICK old : DetectLost({}, num.largestAcked, old, 0)
        BY <1>4, <2>1 DEF Timeout
      <3>2. PICK lost : Dropped({}, lost)
        BY <3>1, DetectLostDrops
      <3>3. acked' = acked \cup ContentsOf({})
        BY <1>4 DEF Timeout, ContentsOf
      <3> QED
        BY <3>2, <3>3, DropPlaced
    <2>2. CASE ~flow.lossTime
      <3>1. UNCHANGED <<sent, pending, acked>>
        BY <1>4, <2>2 DEF Timeout
      <3> QED
        BY <3>1, SamePlaced
    <2> QED
      BY <2>1, <2>2
  <1>5. CASE AckArrives
    <2>1. PICK a \in acks, gain \in Gains : OnAck(a, gain)
      BY <1>5 DEF AckArrives
    <2> DEFINE newly == DOMAIN sent \cap a.ranges
    <2>2. /\ acked' = acked \cup ContentsOf(newly)
          /\ \/ newly = {} /\ UNCHANGED <<sent, tail, prev, pending>>
             \/ \E lost : Dropped(newly, lost)
      BY <2>1, AckTakes, Zenon
    <2>3. newly \in SUBSET DOMAIN sent
      OBVIOUS
    <2> HIDE DEF newly
    <2>4. CASE UNCHANGED <<sent, pending>>
      BY <2>2, <2>4, SamePlaced
    <2>5. ASSUME NEW lost, Dropped(newly, lost) PROVE Placed'
      BY <2>2, <2>3, <2>5, DropPlaced
    <2> QED
      BY <2>2, <2>4, <2>5
  <1>6. CASE UNCHANGED <<sent, pending, acked>>
    BY <1>6, SamePlaced
  <1>7. CASE ClientSends \/ Migrate \/ Validated \/ ValidationFailed
    BY <1>6, <1>7 DEF ClientSends, Migrate, Validated, ValidationFailed
  <1>8. CASE Receive \/ AckDelayExpires \/ SendAck \/ AckAcked \/ LosePacket
    BY <1>6, <1>8 DEF Receive, AckDelayExpires, SendAck, AckAcked, LosePacket
  <1>9. CASE UNCHANGED vars
    BY <1>6, <1>9 DEF vars
  <1> QED
    BY <1>1, <1>2, <1>3, <1>4, <1>5, <1>7, <1>8, <1>9 DEF Next

\* Losses, probes and late acknowledgements never make the sender forget a frame
\* or data, as long as it does not send ACK_FREQUENCY, which poll_transmit writes
\* anew each time.
THEOREM NothingForgottenTheorem ==
    ASSUME AckFrequency = FALSE
    PROVE  Spec => []NothingForgotten
  <1>1. Init => Placed
    BY DEF Init, Placed
  <1>2. RInv /\ Placed /\ [Next]_vars => Placed'
    BY NextPlaced
  <1>3. RInv /\ Placed => NothingForgotten
    BY PlacedEnough
  <1> QED
    BY <1>1, <1>2, <1>3, RecoveryInvariance, PTL DEF Spec

\* Dedup lets no packet through twice although its window forgets, an
\* acknowledgement that is owed is due or its timer runs, and an honest receiver
\* is never accused of acknowledging what was not sent.
THEOREM ReceiverSound == Spec => [](DedupSound /\ AckOwed /\ error = "none")
  <1>1. ASSUME RInv PROVE DedupSound /\ AckOwed /\ error = "none"
    <2>1. DedupSound
      <3> SUFFICES ASSUME NEW n \in got PROVE IsDuplicate(n)
        BY DEF DedupSound
      <3> QED
        BY <1>1 DEF RInv, DedupInv, IsDuplicate
    <2>2. AckOwed
      <3> SUFFICES ASSUME pa.eliciting > 0, NEW n \in pa.ranges
                   PROVE  CanSendAck(pa) \/ ackTimer
        BY DEF AckOwed
      <3>1. pa.immediate = TRUE \/ ackTimer = TRUE
        BY <1>1 DEF RInv, Owed
      <3>2. pa.ranges # {}
        OBVIOUS
      <3> QED
        BY <3>1, <3>2, Zenon DEF CanSendAck
    <2> QED
      BY <1>1, <2>1, <2>2 DEF RInv, Genuine
  <1> QED
    BY <1>1, RecoveryInvariance, PTL

-----------------------------------------------------------------------------
(* The ECN counts: the receiver is never taken for one that lies.          *)

\* ranges raise the largest acknowledged number
Raises(ranges) == \E n \in ranges : n > num.largestAcked

Covers(R, S) == \A n \in R : \E m \in S : n <= m

\* PendingAcks had ranges R when A had been received, and has S later: what was
\* trimmed does not come back, and the top is kept unless it was acknowledged.
Before(R, A, S) == S \cap A \subseteq R /\ (Raises(R) => Covers(R, S))

\* F is what the receiver had when it sent the acknowledgement whose ECN counts
\* were taken last, and G[a] what it had when it sent a.
Snap(F, G) ==
    /\ ecn \in [on : BOOLEAN, feedback : Nat] /\ ecn.on = TRUE
    /\ F \subseteq got /\ ecn.feedback = Cardinality(F)
    /\ pa.ranges \cap F \cap DOMAIN sent = {}
    /\ \A a \in acks :
           /\ a.ranges \subseteq G[a] /\ G[a] \subseteq got /\ a.ecn = Cardinality(G[a])
           /\ Before(a.ranges, G[a], pa.ranges)
           /\ Raises(a.ranges) => F \subseteq G[a] /\ a.ranges \cap F \cap DOMAIN sent = {}
    /\ \A a, b \in acks :
           \/ G[a] \subseteq G[b] /\ Before(a.ranges, G[a], b.ranges)
           \/ G[b] \subseteq G[a] /\ Before(b.ranges, G[b], a.ranges)
    /\ \A l \in heard : l \in Int /\ l <= num.largestAcked

\* The invariant: there are such snapshots.
EcnInv == \E F, G : Snap(F, G)

-----------------------------------------------------------------------------
(* The receiver                                                            *)

\* What was received is finite.
LEMMA GotFinite ==
    ASSUME RInv, NEW S \in SUBSET got
    PROVE  IsFiniteSet(S) /\ Cardinality(S) \in Nat
  <1>1. got \subseteq Numbers /\ num.next \in Nat
    BY DEF RInv, Genuine, SInv, SentTypes
  <1>2. S \subseteq 0 .. num.next
    BY <1>1 DEF Numbers
  <1>3. IsFiniteSet(0 .. num.next)
    BY <1>1, FS_Interval
  <1>4. IsFiniteSet(S)
    BY <1>2, <1>3, FS_Subset
  <1> QED
    BY <1>4, FS_CardinalityType

\* A larger set of received packets counts more.
LEMMA CountMore ==
    ASSUME RInv, NEW A \in SUBSET got, NEW B \in SUBSET A, NEW N \in SUBSET A, N \cap B = {}
    PROVE  /\ Cardinality(A) \in Nat /\ Cardinality(B) \in Nat /\ Cardinality(N) \in Nat
           /\ Cardinality(B) + Cardinality(N) <= Cardinality(A)
  <1> DEFINE C == B \cup N
  <1>1. C \in SUBSET A /\ A \in SUBSET got /\ B \in SUBSET got /\ N \in SUBSET got
    OBVIOUS
  <1>2. IsFiniteSet(A) /\ IsFiniteSet(B) /\ IsFiniteSet(N)
    BY <1>1, GotFinite
  <1>3. /\ Cardinality(C) = Cardinality(B) + Cardinality(N)
        /\ Cardinality(B) \in Nat /\ Cardinality(N) \in Nat
    BY <1>2, DisjointUnion
  <1> HIDE DEF C
  <1>4. /\ Cardinality(A \ C) = Cardinality(A) - Cardinality(C)
        /\ Cardinality(A) \in Nat /\ Cardinality(C) \in Nat /\ Cardinality(A \ C) \in Nat
    BY <1>1, <1>2, PartTakenOff
  <1> QED
    BY <1>3, <1>4

\* insert_one keeps the largest number when it drops a range.
LEMMA BoundedKeepsTop ==
    ASSUME NEW S \in SUBSET Nat, IsFiniteSet(S)
    PROVE  Covers(S, Bounded(S))
  <1> DEFINE St == Starts(S)
             lo == SetMin(S)
             T == {n \in S : \E m \in lo .. n : m \notin S}
  <1>1. CASE Cardinality(St) <= MaxBlocks
    <2>1. Bounded(S) = S
      BY <1>1 DEF Bounded
    <2> QED
      BY <2>1 DEF Covers
  <1>2. CASE ~ (Cardinality(St) <= MaxBlocks)
    <2>1. IsFiniteSet(St) /\ St \subseteq S
      BY FS_Subset DEF Starts
    <2>2. Cardinality(St) \in Nat
      BY <2>1, FS_CardinalityType
    <2>3. MaxBlocks \in Nat /\ MaxBlocks # 0
      BY ConstantsAssumption
    <2>4. Cardinality(St) # 0 /\ Cardinality(St) # 1
      BY <1>2, <2>2, <2>3
    <2>5. St # {}
      BY <2>4, FS_EmptySet
    <2>6. PICK x \in St : TRUE
      BY <2>5
    <2>7. St # {x}
      BY <2>4, FS_Singleton
    <2>8. PICK y \in St : y # x
      BY <2>6, <2>7
    <2>9. lo \in S /\ \A n \in S : lo <= n
      <3>1. S # {}
        BY <2>1, <2>6
      <3> QED
        BY <3>1, SetMinLeast
    <2>10. PICK s \in St : s # lo
      BY <2>6, <2>8
    <2>11. s \in Nat /\ s - 1 \notin S /\ lo \in Nat /\ lo < s /\ s \in S
      <3>1. s \in S /\ s - 1 \notin S
        BY <2>10 DEF Starts
      <3>2. s \in Nat /\ lo \in Nat /\ lo <= s
        BY <2>9, <3>1
      <3> QED
        BY <2>10, <3>1, <3>2
    <2>12. Bounded(S) = T
      BY <1>2, Zenon DEF Bounded
    <2> HIDE DEF lo
    <2>13. ASSUME NEW n \in S PROVE \E m \in T : n <= m
      <3>1. n \in Nat
        OBVIOUS
      <3>2. CASE n >= s
        <4>1. s - 1 \in lo .. n
          BY <2>11, <3>1, <3>2
        <4>2. n \in T
          BY <2>11, <4>1
        <4> QED
          BY <3>1, <4>2
      <3>3. CASE ~ (n >= s)
        <4>1. s - 1 \in lo .. s
          BY <2>11
        <4>2. s \in T
          BY <2>11, <4>1
        <4> QED
          BY <2>11, <3>1, <3>3, <4>2
      <3> QED
        BY <3>2, <3>3
    <2> QED
      BY <2>12, <2>13 DEF Covers
  <1> QED
    BY <1>1, <1>2

\* A step that leaves the acknowledgements alone; packets may be sent, taken off
\* or lost, and acknowledgements lost.
LEMMA QuietSnap ==
    ASSUME RInv, NEW F, NEW G, Snap(F, G),
           got' = got, pa'.ranges = pa.ranges, ecn' = ecn, acks' \subseteq acks,
           heard' = heard, num'.largestAcked = num.largestAcked,
           \A n \in DOMAIN sent' : n \in DOMAIN sent \/ n \notin got
    PROVE  Snap(F, G)'
  <1>1. \A R : Raises(R)' <=> Raises(R)
    BY DEF Raises
  <1>2. \A R, A, S : Before(R, A, S)' <=> Before(R, A, S)
    BY <1>1 DEF Before, Covers
  <1>3. \A R : R \cap F \cap DOMAIN sent = {} => R \cap F \cap DOMAIN sent' = {}
    BY DEF Snap
  <1>4. \A a \in acks' :
           /\ a.ranges \subseteq G[a] /\ G[a] \subseteq got' /\ a.ecn = Cardinality(G[a])
           /\ Before(a.ranges, G[a], pa.ranges)'
           /\ Raises(a.ranges)' => F \subseteq G[a] /\ a.ranges \cap F \cap DOMAIN sent' = {}
    <2> SUFFICES ASSUME NEW a \in acks
                 PROVE /\ a.ranges \subseteq G[a] /\ G[a] \subseteq got /\ a.ecn = Cardinality(G[a])
                       /\ Before(a.ranges, G[a], pa.ranges)'
                       /\ Raises(a.ranges)' =>
                              F \subseteq G[a] /\ a.ranges \cap F \cap DOMAIN sent' = {}
      OBVIOUS
    <2>1. /\ a.ranges \subseteq G[a] /\ G[a] \subseteq got /\ a.ecn = Cardinality(G[a])
          /\ Before(a.ranges, G[a], pa.ranges)
          /\ Raises(a.ranges) => F \subseteq G[a] /\ a.ranges \cap F \cap DOMAIN sent = {}
      BY Zenon DEF Snap
    <2>2. Before(a.ranges, G[a], pa.ranges)'
      BY <1>1, <2>1 DEF Before, Covers
    <2> QED
      BY <1>1, <1>3, <2>1, <2>2
  <1>5. \A a, b \in acks' :
           \/ G[a] \subseteq G[b] /\ Before(a.ranges, G[a], b.ranges)'
           \/ G[b] \subseteq G[a] /\ Before(b.ranges, G[b], a.ranges)'
    BY <1>2 DEF Snap
  <1>6. pa'.ranges \cap F \cap DOMAIN sent' = {}
    BY <1>3 DEF Snap
  <1>7. \A l \in heard' : l \in Int /\ l <= num'.largestAcked
    BY DEF Snap
  <1>8. ecn' \in [on : BOOLEAN, feedback : Nat] /\ ecn'.on = TRUE
        /\ F \subseteq got' /\ ecn'.feedback = Cardinality(F)
    BY DEF Snap
  <1> QED
    BY <1>4, <1>5, <1>6, <1>7, <1>8, Zenon DEF Snap

\* A packet is processed: it is new to every snapshot.
LEMMA ProcessSnap ==
    ASSUME RInv, NEW F, NEW G, Snap(F, G), NEW pk \in net, ~IsDuplicate(pk.pn), Process(pk),
           SenderQuiet, acks' = acks, heard' = heard
    PROVE  Snap(F, G)'
  <1>1. pk.pn \in Nat /\ pa.ranges \subseteq Nat /\ pa.ranges \subseteq got
    BY DEF RInv, Genuine, Numbers, PendingAcksType
  <1>2. got' = got \cup {pk.pn}
    BY Zenon DEF Process
  <1>3. pk.pn \notin got
    BY DEF RInv, DedupInv, IsDuplicate
  <1> DEFINE R == pa.ranges \cup {pk.pn}
  <1>4. pa'.ranges = Bounded(R)
    <2>1. pa \in PendingAcksType /\ pk.eliciting \in BOOLEAN
      BY DEF RInv, Genuine, PacketType
    <2> DEFINE d == Inserted(pk.pn)
               prevLargest == IF pa.largest = None THEN 0 ELSE pa.largest
               largest == SetMax({pa.largest, pk.pn})
               q == [pa EXCEPT !.ranges = Bounded(R), !.largest = largest, !.eliciting = @ + 1,
                               !.immediate = @ \/ pa.eliciting + 1 > freq[1]
                                      \/ OutOfOrder(d, pk.pn, prevLargest, largest)]
    <2>2. \/ pa' = [pa EXCEPT !.ranges = Bounded(R), !.other = @ + 1]
          \/ pa' = [q EXCEPT !.waiting = @ \/ Arms(q)]
      BY Zenon DEF Process
    <2>3. q.ranges = Bounded(R)
      BY <2>1 DEF PendingAcksType
    <2> DEFINE w == q.waiting \/ Arms(q)
    <2>4. [q EXCEPT !.waiting = @ \/ Arms(q)] = [q EXCEPT !.waiting = w]
      OBVIOUS
    <2>5. q = [q EXCEPT !.largest = largest] /\ DOMAIN q = DOMAIN pa
      OBVIOUS
    <2> HIDE DEF q, w
    <2>6. [q EXCEPT !.waiting = w].ranges = Bounded(R)
      BY <2>1, <2>3, <2>5 DEF PendingAcksType
    <2>7. [pa EXCEPT !.ranges = Bounded(R), !.other = @ + 1].ranges = Bounded(R)
      BY <2>1 DEF PendingAcksType
    <2> QED
      BY <2>2, <2>4, <2>6, <2>7, Zenon
  <1>5. Bounded(R) \subseteq R
    BY BoundedSubset
  <1>6. Covers(R, Bounded(R))
    <2>1. IsFiniteSet(pa.ranges)
      BY <1>1, GotFinite
    <2>2. IsFiniteSet(R) /\ R \in SUBSET Nat
      BY <1>1, <2>1, FS_AddElement
    <2> QED
      BY <2>2, BoundedKeepsTop
  <1>7. sent' = sent /\ num' = num /\ ecn' = ecn
    BY DEF SenderQuiet
  <1>8. F \subseteq got /\ \A a \in acks : G[a] \subseteq got
    BY DEF Snap
  <1> HIDE DEF R
  <1>9. \A S : Raises(S)' <=> Raises(S)
    BY <1>7 DEF Raises
  <1>10. ASSUME NEW a \in acks PROVE Before(a.ranges, G[a], pa.ranges)'
    <2>1. Before(a.ranges, G[a], pa.ranges) /\ a.ranges \subseteq Nat
      BY DEF Snap, RInv, Genuine, Numbers
    <2>2. pa'.ranges \cap G[a] \subseteq a.ranges
      <3> SUFFICES ASSUME NEW n \in pa'.ranges, n \in G[a] PROVE n \in a.ranges
        OBVIOUS
      <3>1. n \in pa.ranges \/ n = pk.pn
        BY <1>4, <1>5 DEF R
      <3>2. n # pk.pn
        BY <1>3, <1>8
      <3> QED
        BY <2>1, <3>1, <3>2, Zenon DEF Before
    <2>3. ASSUME Raises(a.ranges), NEW n \in a.ranges PROVE \E m \in pa'.ranges : n <= m
      <3>1. PICK m \in pa.ranges : n <= m
        BY <2>1, <2>3 DEF Before, Covers
      <3>2. m \in R
        BY DEF R
      <3>3. PICK k \in Bounded(R) : m <= k
        BY <1>6, <3>2 DEF Covers
      <3>4. n \in Nat /\ m \in Nat /\ k \in Nat
        BY <1>1, <1>5, <2>1 DEF R
      <3> QED
        BY <1>4, <3>1, <3>3, <3>4
    <2> QED
      BY <1>9, <2>2, <2>3 DEF Before, Covers
  <1>11. pa'.ranges \cap F \cap DOMAIN sent' = {}
    BY <1>3, <1>4, <1>5, <1>7, <1>8 DEF Snap, R
  <1>12. \A a, b \in acks' :
           \/ G[a] \subseteq G[b] /\ Before(a.ranges, G[a], b.ranges)'
           \/ G[b] \subseteq G[a] /\ Before(b.ranges, G[b], a.ranges)'
    BY <1>9 DEF Snap, Before, Covers
  <1>13. \A a \in acks' :
           /\ a.ranges \subseteq G[a] /\ G[a] \subseteq got' /\ a.ecn = Cardinality(G[a])
           /\ Before(a.ranges, G[a], pa.ranges)'
           /\ Raises(a.ranges)' => F \subseteq G[a] /\ a.ranges \cap F \cap DOMAIN sent' = {}
    BY <1>2, <1>7, <1>8, <1>9, <1>10 DEF Snap
  <1>14. ecn' \in [on : BOOLEAN, feedback : Nat] /\ ecn'.on = TRUE
         /\ F \subseteq got' /\ ecn'.feedback = Cardinality(F)
    BY <1>2, <1>7 DEF Snap
  <1>15. \A l \in heard' : l \in Int /\ l <= num'.largestAcked
    BY <1>7 DEF Snap
  <1> QED
    BY <1>11, <1>12, <1>13, <1>14, <1>15, Zenon DEF Snap

\* An acknowledgement is sent: its snapshot is what was received so far.
LEMMA SendAckSnap ==
    ASSUME RInv, NEW F, NEW G, Snap(F, G), SendAck
    PROVE  \E H : Snap(F, H)'
  <1> DEFINE f == [ranges |-> pa.ranges, ecn |-> Cardinality(got)]
  <1>1. UNCHANGED <<sent, num, ecn, got, heard>> /\ acks' = acks \cup {f} /\ pa' = AcksSent(pa)
    BY DEF SendAck
  <1>2. pa'.ranges = pa.ranges
    BY <1>1 DEF RInv, Genuine, PendingAcksType, AcksSent
  <1>3. f.ranges = pa.ranges /\ f.ecn = Cardinality(got) /\ pa.ranges \subseteq got
        /\ pa.ranges \subseteq Nat
    BY DEF RInv, Genuine, PendingAcksType
  <1>18. PICK H : H = [a \in acks \cup {f} |-> IF a = f THEN got ELSE G[a]]
    OBVIOUS
  <1>4. H[f] = got /\ \A a \in acks : a # f => H[a] = G[a]
    BY <1>18
  <1> HIDE DEF f
  <1>5. \A S : Raises(S)' <=> Raises(S)
    BY <1>1 DEF Raises
  <1>6. \A S \in SUBSET Nat : Before(S, got, S)
    BY DEF Before, Covers
  <1>7. ASSUME NEW a \in acks' PROVE a = f \/ (a \in acks /\ H[a] = G[a])
    BY <1>1, <1>4
  <1>8. \A a \in acks : /\ a.ranges \subseteq G[a] /\ G[a] \subseteq got /\ a.ecn = Cardinality(G[a])
                        /\ Before(a.ranges, G[a], pa.ranges)
                        /\ Raises(a.ranges) =>
                               F \subseteq G[a] /\ a.ranges \cap F \cap DOMAIN sent = {}
    BY Zenon DEF Snap
  <1>9. /\ pa.ranges \cap F \cap DOMAIN sent = {} /\ F \subseteq got
        /\ \A l \in heard : l \in Int /\ l <= num.largestAcked
        /\ ecn \in [on : BOOLEAN, feedback : Nat] /\ ecn.on = TRUE
        /\ ecn.feedback = Cardinality(F)
    BY Zenon DEF Snap
  <1>10. Before(f.ranges, got, pa.ranges)
    BY <1>3, <1>6
  <1>11. \A a \in acks' :
           /\ a.ranges \subseteq H[a] /\ H[a] \subseteq got /\ a.ecn = Cardinality(H[a])
           /\ Before(a.ranges, H[a], pa.ranges)
           /\ Raises(a.ranges) => F \subseteq H[a] /\ a.ranges \cap F \cap DOMAIN sent = {}
    BY <1>3, <1>4, <1>7, <1>8, <1>9, <1>10
  <1>12. ASSUME NEW a \in acks', NEW b \in acks'
         PROVE  \/ H[a] \subseteq H[b] /\ Before(a.ranges, H[a], b.ranges)
                \/ H[b] \subseteq H[a] /\ Before(b.ranges, H[b], a.ranges)
    <2>1. CASE a = f
      BY <1>3, <1>4, <1>11, <2>1
    <2>2. CASE b = f
      BY <1>3, <1>4, <1>11, <2>2
    <2>3. CASE a # f /\ b # f
      BY <1>7, <2>3, Zenon DEF Snap
    <2> QED
      BY <2>1, <2>2, <2>3
  <1>13. \A R, A, S : Before(R, A, S) => Before(R, A, S)'
    BY <1>5 DEF Before, Covers
  <1>14. \A a \in acks' :
           /\ a.ranges \subseteq H[a] /\ H[a] \subseteq got' /\ a.ecn = Cardinality(H[a])
           /\ Before(a.ranges, H[a], pa.ranges)'
           /\ Raises(a.ranges)' => F \subseteq H[a] /\ a.ranges \cap F \cap DOMAIN sent' = {}
    <2> SUFFICES ASSUME NEW a \in acks'
                 PROVE /\ a.ranges \subseteq H[a] /\ H[a] \subseteq got'
                       /\ a.ecn = Cardinality(H[a])
                       /\ Before(a.ranges, H[a], pa.ranges)'
                       /\ Raises(a.ranges)' =>
                              F \subseteq H[a] /\ a.ranges \cap F \cap DOMAIN sent' = {}
      OBVIOUS
    <2>1. Before(a.ranges, H[a], pa.ranges)'
      BY <1>2, <1>5, <1>11 DEF Before, Covers
    <2> QED
      BY <1>1, <1>5, <1>11, <2>1
  <1>15. \A a, b \in acks' :
           \/ H[a] \subseteq H[b] /\ Before(a.ranges, H[a], b.ranges)'
           \/ H[b] \subseteq H[a] /\ Before(b.ranges, H[b], a.ranges)'
    BY <1>12, <1>13
  <1>16. /\ pa'.ranges \cap F \cap DOMAIN sent' = {} /\ F \subseteq got'
         /\ \A l \in heard' : l \in Int /\ l <= num'.largestAcked
         /\ ecn' \in [on : BOOLEAN, feedback : Nat] /\ ecn'.on = TRUE
         /\ ecn'.feedback = Cardinality(F)
    BY <1>1, <1>2, <1>9
  <1>17. Snap(F, H)'
    BY <1>14, <1>15, <1>16, Zenon DEF Snap
  <1> QED
    BY <1>17

\* subtract_below drops what the sender knows to be acknowledged.
LEMMA AckAckedSnap ==
    ASSUME RInv, NEW F, NEW G, Snap(F, G), AckAcked
    PROVE  Snap(F, G)'
  <1>1. PICK l \in heard :
            pa' = [pa EXCEPT !.ranges = {n \in @ : n > l}] /\ heard' = heard \ {l}
    BY DEF AckAcked
  <1>2. UNCHANGED <<sent, num, ecn, got, acks>>
    BY DEF AckAcked
  <1>3. pa.ranges \subseteq Nat /\ num.largestAcked \in Int
    BY DEF RInv, Genuine, PendingAcksType, SInv, NumTypes
  <1>4. pa'.ranges = {n \in pa.ranges : n > l}
    BY <1>1 DEF RInv, Genuine, PendingAcksType
  <1>5. l \in Int /\ l <= num.largestAcked
    BY DEF Snap
  <1>6. \A S : Raises(S)' <=> Raises(S)
    BY <1>2 DEF Raises
  <1>7. ASSUME NEW a \in acks PROVE Before(a.ranges, G[a], pa.ranges)'
    <2>1. Before(a.ranges, G[a], pa.ranges)
      BY Zenon DEF Snap
    <2>2. a.ranges \subseteq Nat
      BY DEF RInv, Genuine, Numbers
    <2>3. pa'.ranges \cap G[a] \subseteq a.ranges
      BY <1>4, <2>1 DEF Before
    <2>4. ASSUME Raises(a.ranges), NEW n \in a.ranges PROVE \E m \in pa'.ranges : n <= m
      <3>1. PICK t \in a.ranges : t > num.largestAcked
        BY <2>4 DEF Raises
      <3>2. PICK m \in pa.ranges : t <= m
        BY <2>1, <2>4 DEF Before, Covers
      <3>3. PICK k \in pa.ranges : n <= k
        BY <2>1, <2>4 DEF Before, Covers
      <3>4. t \in Nat /\ m \in Nat /\ k \in Nat /\ n \in Nat
        BY <1>3, <2>2
      <3>5. m > l
        BY <1>3, <1>5, <3>1, <3>2, <3>4
      <3>6. m \in pa'.ranges
        BY <1>4, <3>5
      <3>7. CASE n <= m
        BY <3>6, <3>7
      <3>8. CASE ~ (n <= m)
        <4>1. k > l
          BY <1>5, <3>3, <3>4, <3>5, <3>8
        <4> QED
          BY <1>4, <3>3, <4>1
      <3> QED
        BY <3>7, <3>8
    <2> QED
      BY <1>6, <2>3, <2>4 DEF Before, Covers
  <1>8. pa'.ranges \cap F \cap DOMAIN sent' = {}
    BY <1>2, <1>4 DEF Snap
  <1>9. \A a, b \in acks' :
           \/ G[a] \subseteq G[b] /\ Before(a.ranges, G[a], b.ranges)'
           \/ G[b] \subseteq G[a] /\ Before(b.ranges, G[b], a.ranges)'
    BY <1>2, <1>6 DEF Snap, Before, Covers
  <1>10. \A a \in acks' :
           /\ a.ranges \subseteq G[a] /\ G[a] \subseteq got' /\ a.ecn = Cardinality(G[a])
           /\ Before(a.ranges, G[a], pa.ranges)'
           /\ Raises(a.ranges)' => F \subseteq G[a] /\ a.ranges \cap F \cap DOMAIN sent' = {}
    BY <1>2, <1>6, <1>7 DEF Snap
  <1>11. /\ ecn' \in [on : BOOLEAN, feedback : Nat] /\ ecn'.on = TRUE
         /\ F \subseteq got' /\ ecn'.feedback = Cardinality(F)
         /\ \A k \in heard' : k \in Int /\ k <= num'.largestAcked
    BY <1>1, <1>2 DEF Snap
  <1> QED
    BY <1>8, <1>9, <1>10, <1>11, Zenon DEF Snap

-----------------------------------------------------------------------------
(* The sender                                                              *)

\* The sender takes an acknowledgement, E being what the receiver had for the ECN
\* counts it goes by then.
LEMMA TakeSnap ==
    ASSUME RInv, NEW F, NEW G, Snap(F, G), NEW b \in acks, NEW E \in SUBSET got,
           UNCHANGED <<got, pa>>, acks' \subseteq acks, DOMAIN sent' \subseteq DOMAIN sent,
           num'.largestAcked \in Int, num'.largestAcked >= num.largestAcked,
           heard' = heard \cup {SetMax(b.ranges)}, SetMax(b.ranges) <= num'.largestAcked,
           ecn' \in [on : BOOLEAN, feedback : Nat], ecn'.on = TRUE,
           ecn'.feedback = Cardinality(E),
           pa.ranges \cap E \cap DOMAIN sent' = {},
           \A a \in acks : Raises(a.ranges)' =>
               E \subseteq G[a] /\ a.ranges \cap E \cap DOMAIN sent' = {}
    PROVE  Snap(E, G)'
  <1>1. SetMax(b.ranges) \in Int /\ num.largestAcked \in Int
    BY AckGenuine DEF RInv, SInv, NumTypes
  <1>2. \A S \in SUBSET Nat : Raises(S)' => Raises(S)
    BY <1>1 DEF Raises
  <1>3. \A a \in acks : a.ranges \in SUBSET Nat
    BY DEF RInv, Genuine, Numbers
  <1>4. \A S \in SUBSET Nat : \A A, T : Before(S, A, T) => Before(S, A, T)'
    BY <1>2 DEF Before, Covers
  <1>5. \A a, c \in acks' :
           \/ G[a] \subseteq G[c] /\ Before(a.ranges, G[a], c.ranges)'
           \/ G[c] \subseteq G[a] /\ Before(c.ranges, G[c], a.ranges)'
    BY <1>3, <1>4 DEF Snap
  <1>6. ASSUME NEW a \in acks' 
        PROVE /\ a.ranges \subseteq G[a] /\ G[a] \subseteq got' /\ a.ecn = Cardinality(G[a])
              /\ Before(a.ranges, G[a], pa.ranges)'
              /\ Raises(a.ranges)' => E \subseteq G[a] /\ a.ranges \cap E \cap DOMAIN sent' = {}
    <2>1. a \in acks
      OBVIOUS
    <2>2. /\ a.ranges \subseteq G[a] /\ G[a] \subseteq got /\ a.ecn = Cardinality(G[a])
          /\ Before(a.ranges, G[a], pa.ranges)
      BY <2>1, Zenon DEF Snap
    <2>3. Before(a.ranges, G[a], pa.ranges)'
      BY <1>2, <1>3, <2>1, <2>2 DEF Before, Covers
    <2> QED
      BY <2>1, <2>2, <2>3
  <1>7. \A k \in heard' : k \in Int /\ k <= num'.largestAcked
    BY <1>1 DEF Snap
  <1>8. pa'.ranges \cap E \cap DOMAIN sent' = {} /\ E \subseteq got'
    OBVIOUS
  <1> QED
    BY <1>5, <1>6, <1>7, <1>8, Zenon DEF Snap

\* The ECN counts of an acknowledgement that raises the largest number cover what
\* it newly acknowledges: detect_ecn finds nothing wrong.
LEMMA EcnPasses ==
    ASSUME RInv, NEW F, NEW G, Snap(F, G), NEW b \in acks, SetMax(b.ranges) > num.largestAcked
    PROVE  /\ EcnResult(b, TRUE, DOMAIN sent \cap b.ranges) = [ecn EXCEPT !.feedback = b.ecn]
           /\ b.ecn \in Nat /\ G[b] \subseteq got /\ b.ecn = Cardinality(G[b])
  <1> DEFINE newly == DOMAIN sent \cap b.ranges
  <1>1. Raises(b.ranges)
    BY AckGenuine DEF Raises
  <1>2. /\ b.ranges \subseteq G[b] /\ G[b] \subseteq got /\ b.ecn = Cardinality(G[b])
        /\ F \subseteq G[b] /\ b.ranges \cap F \cap DOMAIN sent = {}
        /\ ecn.on = TRUE /\ ecn.feedback = Cardinality(F)
    BY <1>1, Zenon DEF Snap
  <1> DEFINE first == Starts(newly)
  <1>3. first \in SUBSET G[b] /\ first \cap F = {} /\ F \in SUBSET G[b] /\ G[b] \in SUBSET got
    BY <1>2 DEF Starts
  <1> HIDE DEF first
  <1>4. /\ Cardinality(G[b]) \in Nat /\ Cardinality(F) \in Nat /\ Cardinality(first) \in Nat
        /\ Cardinality(F) + Cardinality(first) <= Cardinality(G[b])
    BY <1>3, CountMore
  <1> HIDE DEF newly
  <1>5. ~ (b.ecn < ecn.feedback) /\ ~ (b.ecn - ecn.feedback < Cardinality(first))
    BY <1>2, <1>4
  <1>6. EcnResult(b, TRUE, newly) = [ecn EXCEPT !.feedback = b.ecn]
    BY <1>2, <1>5, Zenon DEF EcnResult, first
  <1> QED
    BY <1>2, <1>4, <1>6 DEF newly

\* An acknowledgement arrives.
LEMMA AckArrivesSnap ==
    ASSUME RInv, NEW F, NEW G, Snap(F, G), AckArrives
    PROVE  \E E : Snap(E, G)'
  <1>1. PICK b \in acks, gain \in Gains :
            OnAck(b, gain) /\ acks' = acks \ {b} /\ heard' = heard \cup {SetMax(b.ranges)}
    BY DEF AckArrives
  <1> DEFINE newly == DOMAIN sent \cap b.ranges
             top == SetMax(b.ranges)
  <1>2. /\ NumTypes'
        /\ num'.largestAcked = IF top > num.largestAcked THEN top ELSE num.largestAcked
        /\ \/ newly = {} /\ UNCHANGED <<sent, tail, prev, pending, ecn>>
           \/ /\ \E lost : Dropped(newly, lost)
              /\ ecn' = EcnResult(b, top > num.largestAcked, newly)
    BY <1>1, AckTakes, Zenon
  <1>3. UNCHANGED <<got, pa>> /\ acks' \subseteq acks
    BY <1>1 DEF AckArrives
  <1>4. /\ top \in b.ranges /\ (\A n \in b.ranges : n <= top) /\ top \in Nat
        /\ num.largestAcked \in Int
    BY AckGenuine DEF RInv, SInv, NumTypes
  <1>5. num'.largestAcked \in Int /\ num'.largestAcked >= num.largestAcked
        /\ top <= num'.largestAcked
    BY <1>2, <1>4
  <1>6. \A a \in acks : a.ranges \in SUBSET Nat
    BY DEF RInv, Genuine, Numbers
  <1>7. \A a \in acks : Raises(a.ranges)' => Raises(a.ranges)
    BY <1>4, <1>5, <1>6 DEF Raises
  <1>8. DOMAIN sent' \subseteq DOMAIN sent
    BY <1>2 DEF Dropped, Without
  <1>9. CASE ecn' = ecn
    <2>1. /\ F \in SUBSET got /\ ecn \in [on : BOOLEAN, feedback : Nat] /\ ecn.on = TRUE
          /\ ecn.feedback = Cardinality(F) /\ pa.ranges \cap F \cap DOMAIN sent = {}
          /\ \A a \in acks : Raises(a.ranges) =>
                 F \subseteq G[a] /\ a.ranges \cap F \cap DOMAIN sent = {}
      BY Zenon DEF Snap
    <2>2. pa.ranges \cap F \cap DOMAIN sent' = {}
      BY <1>8, <2>1
    <2>3. \A a \in acks : Raises(a.ranges)' =>
              F \subseteq G[a] /\ a.ranges \cap F \cap DOMAIN sent' = {}
      BY <1>7, <1>8, <2>1
    <2>4. Snap(F, G)'
      BY <1>1, <1>3, <1>5, <1>8, <1>9, <2>1, <2>2, <2>3, TakeSnap
    <2> QED
      BY <2>4
  <1>10. CASE (\E lost : Dropped(newly, lost)) /\ top > num.largestAcked
              /\ ecn' = EcnResult(b, TRUE, newly)
    <2> DEFINE E == G[b]
    <2>1. ecn' = [ecn EXCEPT !.feedback = b.ecn] /\ b.ecn \in Nat /\ E \in SUBSET got
          /\ b.ecn = Cardinality(E)
      BY <1>10, EcnPasses
    <2>2. ecn \in [on : BOOLEAN, feedback : Nat] /\ ecn.on = TRUE
      BY Zenon DEF Snap
    <2>3. ecn' \in [on : BOOLEAN, feedback : Nat] /\ ecn'.on = TRUE
          /\ ecn'.feedback = Cardinality(E)
      BY <2>1, <2>2
    <2>4. DOMAIN sent' \cap b.ranges = {}
      BY <1>10 DEF Dropped, Without
    <2>5. pa.ranges \cap E \subseteq b.ranges
      BY Zenon DEF Snap, Before
    <2>6. pa.ranges \cap E \cap DOMAIN sent' = {}
      BY <2>4, <2>5
    <2>7. num'.largestAcked = top
      BY <1>2, <1>10
    <2>8. ASSUME NEW a \in acks, Raises(a.ranges)'
          PROVE  E \subseteq G[a] /\ a.ranges \cap E \cap DOMAIN sent' = {}
      <3>1. \/ G[a] \subseteq G[b] /\ Before(a.ranges, G[a], b.ranges)
            \/ G[b] \subseteq G[a] /\ Before(b.ranges, G[b], a.ranges)
        BY Zenon DEF Snap
      <3>2. CASE Before(a.ranges, G[a], b.ranges)
        <4>1. PICK t \in a.ranges : t > top
          BY <2>7, <2>8 DEF Raises
        <4>2. Covers(a.ranges, b.ranges)
          BY <1>7, <2>8, <3>2 DEF Before
        <4>3. PICK m \in b.ranges : t <= m
          BY <4>2 DEF Covers
        <4>4. t \in Nat /\ m \in Nat /\ m <= top
          BY <1>4, <1>6
        <4> QED
          BY <1>4, <4>1, <4>3, <4>4
      <3>3. CASE G[b] \subseteq G[a] /\ Before(b.ranges, G[b], a.ranges)
        BY <2>4, <3>3 DEF Before
      <3> QED
        BY <3>1, <3>2, <3>3
    <2> HIDE DEF E
    <2>9. Snap(E, G)'
      <3> HIDE DEF top
      <3>1. top = SetMax(b.ranges)
        BY DEF top
      <3> QED
        BY <1>1, <1>3, <1>5, <1>8, <2>1, <2>3, <2>6, <2>8, <3>1, TakeSnap
    <2> QED
      BY <2>9
  <1>11. CASE (\E lost : Dropped(newly, lost)) /\ ~ (top > num.largestAcked)
              /\ ecn' = EcnResult(b, top > num.largestAcked, newly)
    <2>1. ecn' = ecn
      BY <1>11, Zenon DEF EcnResult
    <2> QED
      BY <1>9, <2>1
  <1>12. CASE (\E lost : Dropped(newly, lost)) /\ top > num.largestAcked
              /\ ecn' = EcnResult(b, top > num.largestAcked, newly)
    <2>1. (top > num.largestAcked) = TRUE
      BY <1>12
    <2>2. ecn' = EcnResult(b, TRUE, newly)
      BY <1>12, <2>1, Zenon
    <2> QED
      BY <1>10, <1>12, <2>2, Zenon
  <1> QED
    BY <1>2, <1>9, <1>11, <1>12, Zenon

\* A packet is sent: its number is new to the receiver.
LEMMA SendSnap ==
    ASSUME RInv, NEW F, NEW G, Snap(F, G), NEW pk, NEW gone, SendStep(pk, gone),
           UNCHANGED <<acks, receiver, ecn, heard>>
    PROVE  Snap(F, G)'
  <1>1. pk.pn >= num.next /\ pk.pn \in Nat
    BY FreshNumber DEF RInv, SendStep
  <1>2. num.next \in Nat /\ \A n \in got : n \in Nat /\ n < num.next
    BY DEF RInv, Genuine, SInv, SentTypes, Numbers
  <1>3. \A n \in DOMAIN sent' : n \in DOMAIN sent \/ n \notin got
    BY <1>1, <1>2 DEF SendStep
  <1>4. num'.largestAcked = num.largestAcked
    <2>1. num \in [next : Nat, skip : Nat, skipped : Nat \cup {None}, largestAcked : Int]
      BY DEF RInv, SInv, NumTypes
    <2>2. PICK k, m : num' = [num EXCEPT !.next = m, !.skipped = k]
      BY Zenon DEF SendStep, TakeNumber
    <2> QED
      BY <2>1, <2>2
  <1> QED
    BY <1>3, <1>4, QuietSnap

\* The loss timer fires: packets are taken off, and no acknowledgement changes.
LEMMA TimeoutSnap ==
    ASSUME RInv, NEW F, NEW G, Snap(F, G), Timeout
    PROVE  Snap(F, G)'
  <1>1. UNCHANGED <<num, ecn, acks, receiver, heard>>
    BY DEF Timeout
  <1>2. DOMAIN sent' \subseteq DOMAIN sent
    <2>1. CASE flow.lossTime
      <3>1. PICK old : DetectLost({}, num.largestAcked, old, 0)
        BY <2>1 DEF Timeout
      <3>2. PICK lost : Dropped({}, lost)
        BY <3>1, DetectLostDrops
      <3> QED
        BY <3>2 DEF Dropped, Without
    <2>2. CASE ~flow.lossTime
      BY <2>2 DEF Timeout
    <2> QED
      BY <2>1, <2>2
  <1> QED
    BY <1>1, <1>2, QuietSnap

\* A packet arrives: it is a duplicate, or new to every snapshot.
LEMMA ReceiveSnap ==
    ASSUME RInv, NEW F, NEW G, Snap(F, G), Receive
    PROVE  Snap(F, G)'
  <1>1. PICK pk \in net :
            IF IsDuplicate(pk.pn) THEN UNCHANGED <<dedup, pa, ackTimer, got, seen>>
            ELSE Process(pk)
    BY Zenon DEF Receive
  <1>2. SenderQuiet /\ acks' = acks /\ heard' = heard
    BY DEF Receive, SenderQuiet
  <1>3. CASE IsDuplicate(pk.pn)
    <2>1. UNCHANGED <<pa, got>>
      BY <1>1, <1>3
    <2>2. UNCHANGED <<sent, num, ecn>>
      BY <1>2 DEF SenderQuiet
    <2> QED
      BY <1>2, <2>1, <2>2, QuietSnap
  <1>4. CASE ~IsDuplicate(pk.pn)
    BY <1>1, <1>2, <1>4, ProcessSnap
  <1> QED
    BY <1>3, <1>4

\* Neither end has anything at first.
LEMMA InitEcn == Init => EcnInv
  <1> SUFFICES ASSUME Init PROVE EcnInv
    OBVIOUS
  <1>1. /\ ecn = [on |-> TRUE, feedback |-> 0] /\ acks = {} /\ heard = {}
        /\ pa.ranges = {}
    BY DEF Init
  <1>2. Cardinality({}) = 0
    BY FS_EmptySet
  <1>3. ecn \in [on : BOOLEAN, feedback : Nat] /\ ecn.on = TRUE
        /\ ecn.feedback = Cardinality({})
    BY <1>1, <1>2
  <1>4. Snap({}, {})
    BY <1>1, <1>3, Zenon DEF Snap
  <1> QED
    BY <1>4 DEF EcnInv

\* Every step keeps the snapshots, or makes new ones.
LEMMA NextEcn == RInv /\ EcnInv /\ [Next]_vars => EcnInv'
  <1> SUFFICES ASSUME RInv, EcnInv, [Next]_vars PROVE EcnInv'
    OBVIOUS
  <1>1. PICK F, G : Snap(F, G)
    BY DEF EcnInv
  <1> SUFFICES \E E, H : Snap(E, H)'
    BY DEF EcnInv
  <1>2. CASE Transmit
    <2>1. PICK pk, from, waiting : TransmitStep(pk, from, waiting)
      BY <1>2, TransmitSends
    <2>2. SendStep(pk, {}) /\ UNCHANGED <<acks, receiver, ecn, heard>>
      BY <1>2, <2>1 DEF TransmitStep, Transmit
    <2> QED
      BY <1>1, <2>2, SendSnap
  <1>3. CASE TransmitAckOnly
    <2>1. PICK pk : SendStep(pk, Forgotten(FALSE))
      BY <1>3, AckOnlySends
    <2>2. UNCHANGED <<acks, receiver, ecn, heard>>
      BY <1>3 DEF TransmitAckOnly
    <2> QED
      BY <1>1, <2>1, <2>2, SendSnap
  <1>4. CASE TransmitMtuProbe
    <2>1. PICK pk : SendStep(pk, {})
      BY <1>4, MtuProbeSends
    <2>2. UNCHANGED <<acks, receiver, ecn, heard>>
      BY <1>4 DEF TransmitMtuProbe
    <2> QED
      BY <1>1, <2>1, <2>2, SendSnap
  <1>5. CASE Timeout
    BY <1>1, <1>5, TimeoutSnap
  <1>6. CASE AckArrives
    BY <1>1, <1>6, AckArrivesSnap
  <1>7. CASE ClientSends \/ Migrate \/ Validated \/ ValidationFailed
    <2>1. UNCHANGED <<num, sent, ecn, acks, receiver, heard>>
      BY <1>7 DEF ClientSends, Migrate, Validated, ValidationFailed
    <2> QED
      BY <1>1, <2>1, QuietSnap
  <1>8. CASE Receive
    BY <1>1, <1>8, ReceiveSnap
  <1>9. CASE AckDelayExpires
    <2>1. UNCHANGED <<num, sent, ecn, acks, got, heard>>
          /\ pa' = [pa EXCEPT !.immediate = pa.eliciting > 0]
      BY <1>9 DEF AckDelayExpires
    <2>2. pa'.ranges = pa.ranges
      BY <2>1 DEF RInv, Genuine, PendingAcksType
    <2> QED
      BY <1>1, <2>1, <2>2, QuietSnap
  <1>10. CASE SendAck
    BY <1>1, <1>10, SendAckSnap
  <1>11. CASE AckAcked
    BY <1>1, <1>11, AckAckedSnap
  <1>12. CASE LosePacket
    <2>1. UNCHANGED <<num, sent, ecn, pa, got, heard>> /\ acks' \subseteq acks
      BY <1>12 DEF LosePacket
    <2> QED
      BY <1>1, <2>1, QuietSnap
  <1>13. CASE UNCHANGED vars
    <2>1. UNCHANGED <<num, sent, ecn, pa, got, acks, heard>>
      BY <1>13 DEF vars
    <2> QED
      BY <1>1, <2>1, QuietSnap
  <1> QED
    BY <1>2, <1>3, <1>4, <1>5, <1>6, <1>7, <1>8, <1>9, <1>10, <1>11, <1>12, <1>13 DEF Next

\* The receiver neither processes a packet twice nor owes an acknowledgement for
\* ever, and on_ack_received neither closes the connection over an honest
\* receiver's acknowledgements nor takes their ECN counts for bleaching, however
\* they are lost, reordered and trimmed.
THEOREM ReceiverTheorem == Spec => []ReceiverExact
  <1>1. Init => EcnInv
    BY InitEcn
  <1>2. RInv /\ EcnInv /\ [Next]_vars => EcnInv'
    BY NextEcn
  <1>3. EcnInv => ecn.on
    <2> SUFFICES ASSUME EcnInv PROVE ecn.on
      OBVIOUS
    <2>1. PICK F, G : Snap(F, G)
      BY DEF EcnInv
    <2> QED
      BY <2>1, Zenon DEF Snap
  <1>4. (DedupSound /\ AckOwed /\ error = "none") /\ ecn.on => ReceiverExact
    BY Zenon DEF ReceiverExact, HonestReceiverAccepted
  <1> QED
    BY <1>1, <1>2, <1>3, <1>4, RecoveryInvariance, ReceiverSound, PTL DEF Spec

-----------------------------------------------------------------------------
(* The connection never stands still                                       *)

FlowType ==
    [lossTime : BOOLEAN, timer : BOOLEAN, probes : Nat, ping : BOOLEAN,
     elicited : BOOLEAN, asked : BOOLEAN]

\* Who watches over the packets in flight.  The packets of a new generation were
\* sent after all others.  While one is in flight the timer runs, unless the
\* sender waits for the client to allow it more; when none is, and the new 4-tuple
\* was challenged, whatever is left of the old one is due to be lost and the timer
\* runs for that.
Watched ==
    /\ flow \in FlowType
    /\ \A n \in DOMAIN sent : sent[n].eliciting = TRUE =>
           sent[n].size > 0 /\ flow.elicited = TRUE
    /\ path.gen = generation =>
           /\ \A n, c \in DOMAIN sent :
                  sent[c].gen = generation /\ sent[n].gen # generation => n < c
           /\ Sized(sent, generation) # {} /\ ~Blocked(path) => flow.timer = TRUE
           /\ Sized(sent, generation) = {} /\ path.challenge = FALSE =>
                  \A n \in DOMAIN sent : sent[n].size > 0 =>
                      /\ n < num.largestAcked
                      /\ flow.lossTime = TRUE /\ flow.timer = TRUE

\* A path with ack-eliciting packets in flight arms the timer.
LEMMA BusyArms ==
    ASSUME NEW s, NEW q, NEW g, IsFiniteSet(DOMAIN s), Sized(s, g) # {},
           \A n \in DOMAIN s : s[n] \in PacketType,
           \A n \in DOMAIN s : s[n].eliciting = FALSE => s[n].size = 0,
           q.eliciting = Cardinality(Eliciting(s, g)), ~Blocked(q)
    PROVE  PtoArmed(s, q, TRUE)
  <1>1. PICK c \in DOMAIN s : s[c].gen = g /\ s[c].size > 0
    BY DEF Sized
  <1>2. s[c].eliciting = TRUE
    BY <1>1 DEF PacketType
  <1>3. c \in Eliciting(s, g) /\ Eliciting(s, g) \in SUBSET DOMAIN s
    BY <1>1, <1>2 DEF Eliciting
  <1>4. IsFiniteSet(Eliciting(s, g))
    BY <1>3, FS_Subset
  <1>5. q.eliciting # 0
    BY <1>3, <1>4, FS_EmptySet
  <1> QED
    BY <1>1, <1>5 DEF PtoArmed

\* The timer after detect_lost_packets, of a record of any fields
LEMMA LossFlow ==
    ASSUME NEW f \in FlowType, NEW l, NEW loss \in BOOLEAN, NEW t \in BOOLEAN,
           l = [f EXCEPT !.lossTime = loss, !.timer = t]
    PROVE  /\ l \in FlowType /\ l.lossTime = loss /\ l.timer = t
           /\ l.elicited = f.elicited
  BY DEF FlowType

\* detect_lost_packets drops what was acknowledged and packets below the largest
\* number, and sets the timer for what is left.
LEMMA DetectLostTimer ==
    ASSUME RInv, flow \in FlowType, NEW taken \in SUBSET DOMAIN sent, NEW largest, NEW old,
           NEW gain \in Nat, DetectLost(taken, largest, old, gain)
    PROVE  /\ \A c \in DOMAIN sent : c \notin DOMAIN sent' => c \in taken \/ c < largest
           /\ flow' \in FlowType /\ flow'.elicited = flow.elicited
           /\ (\E n \in DOMAIN sent' : n < largest) => flow'.lossTime = TRUE
           /\ flow'.lossTime = TRUE => flow'.timer = TRUE
           /\ PtoArmed(sent', path', flow.elicited) => flow'.timer = TRUE
           /\ path'.challenge = path.challenge /\ path'.gen = path.gen
  <1> DEFINE s == Without(sent, taken)
             lost == Lost(s, largest, old)
             left == Without(s, lost)
             p == Allowed(RemoveInFlight(RemoveInFlight(path, taken), lost), gain)
             loss == \E n \in DOMAIN left : n < largest
             t == loss \/ PtoArmed(left, p, flow.elicited)
  <1>1. sent' = left
    BY Zenon DEF DetectLost
  <1>2. path' = [p EXCEPT !.probe = IF p.probe \in taken \cup lost THEN None ELSE p.probe]
    BY Zenon DEF DetectLost
  <1>3. flow' = [flow EXCEPT !.lossTime = loss, !.timer = t]
    BY Zenon DEF DetectLost, Timer
  <1>4. DOMAIN s = DOMAIN sent \ taken /\ DOMAIN left = DOMAIN s \ lost
    BY DEF Without
  <1>5. \A c \in lost : c < largest
    BY DEF Lost
  <1>6. /\ path'.eliciting = p.eliciting /\ path'.challenge = path.challenge
        /\ path'.gen = path.gen /\ (Blocked(path') <=> Blocked(p))
    <2>1. path \in PathType /\ SentTypes /\ gain \in Int
      BY DEF RInv, SInv, PathsOrdered
    <2>2. lost \in SUBSET DOMAIN sent
      BY <1>4 DEF Lost
    <2>3. PICK u : u = RemoveInFlight(path, taken)
      OBVIOUS
    <2>4. u \in PathType /\ u.challenge = path.challenge /\ u.gen = path.gen
      BY <2>1, <2>3, RemoveInFlightFields DEF SentTypes
    <2>5. PICK w : w = RemoveInFlight(u, lost)
      OBVIOUS
    <2>6. w \in PathType /\ w.challenge = u.challenge /\ w.gen = u.gen
      <3> HIDE DEF lost
      <3> QED
        BY <2>1, <2>2, <2>4, <2>5, RemoveInFlightFields DEF SentTypes
    <2>7. PICK x : x = Allowed(w, gain)
      OBVIOUS
    <2>8. x \in PathType /\ x.challenge = w.challenge /\ x.gen = w.gen
      BY <2>1, <2>6, <2>7, AllowedFields
    <2>9. p = x
      BY <2>3, <2>5, <2>7
    <2> HIDE DEF p
    <2>10. PICK v : path' = [x EXCEPT !.probe = v]
      BY <1>2, <2>9, Zenon
    <2>11. /\ path'.eliciting = x.eliciting /\ path'.challenge = x.challenge
           /\ path'.gen = x.gen /\ path'.validated = x.validated
           /\ path'.allowance = x.allowance
      BY <2>8, <2>10 DEF PathType
    <2> QED
      BY <2>4, <2>6, <2>8, <2>9, <2>11 DEF Blocked
  <1>7. loss \in BOOLEAN /\ t \in BOOLEAN
    BY DEF PtoArmed
  <1>8. PtoArmed(sent', path', flow.elicited) <=> PtoArmed(left, p, flow.elicited)
    <2> HIDE DEF left, p
    <2> QED
      BY <1>1, <1>6 DEF PtoArmed
  <1>9. /\ (\E n \in DOMAIN sent' : n < largest) => loss
        /\ loss => t
        /\ PtoArmed(sent', path', flow.elicited) => t
    <2> HIDE DEF left, p
    <2> QED
      BY <1>1, <1>8
  <1> HIDE DEF loss, t
  <1>10. /\ flow' \in FlowType /\ flow'.elicited = flow.elicited
         /\ flow'.lossTime = loss /\ flow'.timer = t
    <2>1. PICK f \in FlowType : f = flow
      OBVIOUS
    <2>2. PICK b \in BOOLEAN : b = loss
      BY <1>7, Zenon
    <2>3. PICK d \in BOOLEAN : d = t
      BY <1>7, Zenon
    <2>4. PICK l : l = flow'
      OBVIOUS
    <2>5. l = [f EXCEPT !.lossTime = b, !.timer = d]
      BY <1>3, <2>1, <2>2, <2>3, <2>4, Zenon
    <2>6. l \in FlowType /\ l.lossTime = b /\ l.timer = d /\ l.elicited = f.elicited
      BY <2>5, LossFlow
    <2> QED
      BY <2>1, <2>2, <2>3, <2>4, <2>6, Zenon
  <1>11. /\ (\E n \in DOMAIN sent' : n < largest) => flow'.lossTime = TRUE
         /\ flow'.lossTime = TRUE => flow'.timer = TRUE
         /\ PtoArmed(sent', path', flow.elicited) => flow'.timer = TRUE
    BY <1>7, <1>9, <1>10, Zenon
  <1>12. \A c \in DOMAIN sent : c \notin DOMAIN sent' => c \in taken \/ c < largest
    <2> HIDE DEF s, left, lost
    <2> QED
      BY <1>1, <1>4, <1>5
  <1> QED
    BY <1>6, <1>10, <1>11, <1>12, Zenon

\* What is taken off or lost leaves the rest watched.
LEMMA DropWatched ==
    ASSUME RInv, RInv', Watched, NEW taken \in SUBSET DOMAIN sent, NEW largest \in Int,
           NEW old, NEW gain \in Nat, DetectLost(taken, largest, old, gain),
           generation' = generation,
           num.largestAcked <= largest, num'.largestAcked = largest,
           \A n \in taken : n <= largest
    PROVE  Watched'
  <1>1. /\ \A c \in DOMAIN sent : c \notin DOMAIN sent' => c \in taken \/ c < largest
        /\ flow' \in FlowType /\ flow'.elicited = flow.elicited
        /\ (\E n \in DOMAIN sent' : n < largest) => flow'.lossTime = TRUE
        /\ flow'.lossTime = TRUE => flow'.timer = TRUE
        /\ PtoArmed(sent', path', flow.elicited) => flow'.timer = TRUE
        /\ path'.challenge = path.challenge /\ path'.gen = path.gen
    BY DetectLostTimer DEF Watched
  <1>2. PICK lost : Dropped(taken, lost)
    BY DetectLostDrops
  <1>3. /\ DOMAIN sent' \subseteq DOMAIN sent /\ \A n \in DOMAIN sent' : sent'[n] = sent[n]
    BY <1>2 DEF Dropped, Without
  <1>4. /\ \A n \in DOMAIN sent : n \in Nat /\ sent[n] \in PacketType
        /\ num.largestAcked \in Int
    BY DEF RInv, SInv, SentTypes, NumTypes
  <1>5. \A c \in DOMAIN sent : c \notin DOMAIN sent' => c <= largest
    BY <1>1, <1>4
  <1>6. \A n \in DOMAIN sent' : sent'[n].eliciting = TRUE =>
            sent'[n].size > 0 /\ flow'.elicited = TRUE
    BY <1>1, <1>3 DEF Watched
  <1>7. ASSUME path'.gen = generation'
        PROVE  /\ \A n, c \in DOMAIN sent' :
                      sent'[c].gen = generation' /\ sent'[n].gen # generation' => n < c
               /\ Sized(sent', generation') # {} /\ ~Blocked(path') => flow'.timer = TRUE
               /\ Sized(sent', generation') = {} /\ path'.challenge = FALSE =>
                      \A n \in DOMAIN sent' : sent'[n].size > 0 =>
                          /\ n < num'.largestAcked
                          /\ flow'.lossTime = TRUE /\ flow'.timer = TRUE
    <2>1. path.gen = generation
      BY <1>1, <1>7
    <2>2. \A n, c \in DOMAIN sent' :
              sent'[c].gen = generation' /\ sent'[n].gen # generation' => n < c
      BY <1>3, <2>1 DEF Watched
    <2>3. ASSUME Sized(sent', generation') # {}, ~Blocked(path') PROVE flow'.timer = TRUE
      <3>1. /\ IsFiniteSet(DOMAIN sent') /\ \A n \in DOMAIN sent' : sent'[n] \in PacketType
            /\ \A n \in DOMAIN sent' : sent'[n].eliciting = FALSE => sent'[n].size = 0
            /\ path'.eliciting = Cardinality(Eliciting(sent', generation'))
        BY <1>7 DEF RInv, SInv, SentTypes, TailExact, Counted
      <3>2. PtoArmed(sent', path', TRUE)
        BY <2>3, <3>1, BusyArms
      <3>3. flow.elicited = TRUE
        <4>1. PICK c \in DOMAIN sent' : sent'[c].size > 0
          BY <2>3 DEF Sized
        <4>2. sent'[c].eliciting = TRUE
          BY <3>1, <4>1 DEF PacketType
        <4> QED
          BY <1>1, <1>6, <4>2
      <3> QED
        BY <1>1, <3>2, <3>3, Zenon
    <2>4. ASSUME Sized(sent', generation') = {}, path'.challenge = FALSE,
                 NEW n \in DOMAIN sent', sent'[n].size > 0
          PROVE  n < num'.largestAcked /\ flow'.lossTime = TRUE /\ flow'.timer = TRUE
      <3>1. n < largest
        <4>1. CASE Sized(sent, generation) = {}
          <5>1. n < num.largestAcked
            BY <1>1, <1>3, <2>1, <2>4, <4>1 DEF Watched
          <5> QED
            BY <1>3, <1>4, <5>1
        <4>2. CASE Sized(sent, generation) # {}
          <5>1. PICK c \in DOMAIN sent : sent[c].gen = generation /\ sent[c].size > 0
            BY <4>2 DEF Sized
          <5>2. c \notin DOMAIN sent'
            BY <1>3, <2>4, <5>1 DEF Sized
          <5>3. sent[n].gen # generation
            BY <1>3, <2>4 DEF Sized
          <5>4. n < c
            BY <1>3, <2>1, <5>1, <5>3 DEF Watched
          <5> QED
            BY <1>3, <1>4, <1>5, <5>1, <5>2, <5>4
        <4> QED
          BY <4>1, <4>2
      <3> QED
        BY <1>1, <3>1
    <2> QED
      BY <2>2, <2>3, <2>4, Zenon
  <1> QED
    BY <1>1, <1>6, <1>7, Zenon DEF Watched

\* An ack-eliciting packet that is sent arms the timer for its own generation.
LEMMA SendWatched ==
    ASSUME RInv, RInv', Watched, NEW pk, NEW gone, SendStep(pk, gone), pending' \subseteq Items,
           pk.eliciting = TRUE, pk.size > 0,
           flow' \in FlowType, flow'.elicited = TRUE,
           PtoArmed(sent', path', TRUE) => flow'.timer = TRUE
    PROVE  Watched'
  <1>1. /\ gone = {} /\ DOMAIN sent' = (DOMAIN sent \ gone) \cup {pk.pn} /\ sent'[pk.pn] = pk
        /\ \A n \in DOMAIN sent \ gone :
               sent'[n] = sent[n] \/ sent'[n] = [sent[n] EXCEPT !.controls = {}]
        /\ path'.gen = path.gen /\ generation' = generation /\ pk.gen = path.gen
    BY Zenon DEF SendStep
  <1>2. /\ pk.pn \in Nat /\ pk.pn >= num.next /\ pk.pn \notin DOMAIN sent
    BY SendSent DEF RInv
  <1>3. \A n \in DOMAIN sent : n \in Nat /\ n < num.next /\ sent[n] \in PacketType
        /\ num.next \in Nat
    BY DEF RInv, SInv, SentTypes
  <1>4. \A n \in DOMAIN sent : /\ sent'[n].gen = sent[n].gen /\ sent'[n].size = sent[n].size
                               /\ sent'[n].eliciting = sent[n].eliciting
    BY <1>1, <1>3 DEF PacketType
  <1>5. DOMAIN sent' = DOMAIN sent \cup {pk.pn}
    BY <1>1
  <1>6. \A n \in DOMAIN sent' : sent'[n].eliciting = TRUE =>
            sent'[n].size > 0 /\ flow'.elicited = TRUE
    BY <1>1, <1>4, <1>5 DEF Watched
  <1>7. ASSUME path'.gen = generation'
        PROVE  /\ \A n, c \in DOMAIN sent' :
                      sent'[c].gen = generation' /\ sent'[n].gen # generation' => n < c
               /\ ~Blocked(path') => flow'.timer = TRUE
               /\ Sized(sent', generation') # {}
    <2>1. path.gen = generation /\ pk.gen = generation
      BY <1>1, <1>7
    <2>2. ASSUME NEW n \in DOMAIN sent', NEW c \in DOMAIN sent',
                 sent'[c].gen = generation', sent'[n].gen # generation'
          PROVE  n < c
      <3>1. n \in DOMAIN sent /\ sent[n].gen # generation
        BY <1>1, <1>4, <1>5, <2>1, <2>2
      <3>2. CASE c = pk.pn
        BY <1>2, <1>3, <3>1, <3>2
      <3>3. CASE c \in DOMAIN sent
        <4>1. sent[c].gen = generation
          BY <1>1, <1>4, <2>2, <3>3
        <4> QED
          BY <2>1, <3>1, <3>3, <4>1 DEF Watched
      <3> QED
        BY <1>5, <3>2, <3>3
    <2>3. Sized(sent', generation') # {}
      BY <1>1, <1>5, <2>1 DEF Sized
    <2>4. /\ IsFiniteSet(DOMAIN sent') /\ \A n \in DOMAIN sent' : sent'[n] \in PacketType
          /\ \A n \in DOMAIN sent' : sent'[n].eliciting = FALSE => sent'[n].size = 0
          /\ path'.eliciting = Cardinality(Eliciting(sent', generation'))
      BY <1>7 DEF RInv, SInv, SentTypes, TailExact, Counted
    <2>5. ~Blocked(path') => PtoArmed(sent', path', TRUE)
      BY <2>3, <2>4, BusyArms
    <2> QED
      BY <2>2, <2>3, <2>5, Zenon
  <1> QED
    BY <1>6, <1>7, Zenon DEF Watched

\* The fields that finish_and_track sets, of a record of any fields
LEMMA SendFlow ==
    ASSUME NEW B, NEW N, NEW f \in [lossTime : B, timer : B, probes : N, ping : B,
                                    elicited : B, asked : B],
           NEW l, NEW e \in B, NEW a \in B, NEW p \in N, NEW g \in B, NEW t \in B,
           l = [f EXCEPT !.elicited = e, !.asked = a, !.probes = p, !.ping = g, !.timer = t]
    PROVE  l = [lossTime |-> f.lossTime, timer |-> t, probes |-> p, ping |-> g,
                elicited |-> e, asked |-> a]
  OBVIOUS

\* finish_and_track sets the timer for a packet that counts; after one that does
\* not, loss detection is as before.
LEMMA TrackFlow ==
    ASSUME flow \in FlowType, path \in PathType, NEW s, NEW pk, Track(s, pk), pk \in PacketType
    PROVE  /\ flow' \in FlowType /\ flow'.lossTime = flow.lossTime
           /\ flow'.elicited = (flow.elicited \/ pk.eliciting)
           /\ pk.size > 0 /\ pk.eliciting = TRUE =>
                  (PtoArmed(sent', path', TRUE) => flow'.timer = TRUE)
           /\ pk.size = 0 => flow'.timer = flow.timer
           /\ pk.eliciting = FALSE => path'.challenge = path.challenge
  <1> DEFINE gone == Forgotten(pk.eliciting)
             q == RemoveInFlight(path, gone)
             left == Without(s, gone)
             after == [n \in DOMAIN left \cup {pk.pn} |-> IF n = pk.pn THEN pk ELSE left[n]]
             now == [q EXCEPT !.bytes = @ + (IF pk.size > 0 THEN 1 ELSE 0),
                              !.eliciting = @ + (IF pk.eliciting THEN 1 ELSE 0),
                              !.challenge = @ /\ ~pk.eliciting]
             e == flow.elicited \/ pk.eliciting
             a == flow.asked \/ "ack_frequency" \in pk.controls
             b == IF pk.eliciting /\ flow.probes > 0 THEN flow.probes - 1 ELSE flow.probes
             g == flow.ping /\ ~pk.eliciting
             t == IF pk.size = 0 THEN flow.timer ELSE Timer(flow.lossTime, after, now, e)
  <1>1. sent' = after /\ path' = Allowed(now, -1)
    BY Zenon DEF Track
  <1>2. flow' = [flow EXCEPT !.elicited = e, !.asked = a,
                             !.probes = IF pk.eliciting /\ @ > 0 THEN @ - 1 ELSE @,
                             !.ping = @ /\ ~pk.eliciting,
                             !.timer = IF pk.size = 0 THEN @ ELSE Timer(flow.lossTime, after, now, e)]
    BY Zenon DEF Track
  <1>3. PtoArmed(sent', path', TRUE) => PtoArmed(after, now, TRUE)
    <2>1. path \in PathType
      OBVIOUS
    <2>2. PICK u : u = q
      OBVIOUS
    <2>3. DOMAIN u = DOMAIN path /\ u.allowance = path.allowance
      BY <2>2 DEF RemoveInFlight, PathType
    <2>4. {"eliciting", "allowance", "validated"} \subseteq DOMAIN now
          /\ now.allowance = path.allowance
      BY <2>2, <2>3 DEF PathType
    <2>5. now.allowance \in Int
      BY <2>4 DEF PathType
    <2> HIDE DEF now, after
    <2>6. /\ path'.eliciting = now.eliciting /\ path'.validated = now.validated
          /\ now.validated \/ path'.allowance = now.allowance - 1
      BY <1>1, <2>4 DEF Allowed
    <2>7. ~Blocked(path') => ~Blocked(now)
      BY <2>5, <2>6 DEF Blocked
    <2> QED
      BY <1>1, <2>6, <2>7 DEF PtoArmed
  <1> HIDE DEF after, now
  <1>4. flow' = [flow EXCEPT !.elicited = e, !.asked = a, !.probes = b, !.ping = g, !.timer = t]
    BY <1>2
  <1>5. /\ e \in BOOLEAN /\ a \in BOOLEAN /\ g \in BOOLEAN /\ t \in BOOLEAN /\ b \in Nat
    <2>1. flow.timer \in BOOLEAN /\ flow.probes \in Nat
      BY DEF FlowType
    <2>2. e \in BOOLEAN /\ a \in BOOLEAN /\ g \in BOOLEAN /\ t \in BOOLEAN
      BY <2>1, Zenon DEF Timer, PtoArmed
    <2>3. b \in Nat
      BY <2>1
    <2> QED
      BY <2>2, <2>3, Zenon
  <1>6. /\ pk.size > 0 /\ pk.eliciting = TRUE =>
               (PtoArmed(sent', path', TRUE) => t = TRUE)
        /\ pk.size = 0 => t = flow.timer
    <2>1. pk.size \in Nat /\ pk.eliciting \in BOOLEAN
      BY DEF PacketType
    <2>2. pk.size > 0 => pk.size # 0
      BY <2>1
    <2>3. ASSUME pk.size # 0, pk.eliciting = TRUE, PtoArmed(sent', path', TRUE)
          PROVE  t = TRUE
      <3>1. e = TRUE
        BY <2>3, Zenon
      <3> HIDE DEF e
      <3>2. PtoArmed(after, now, e)
        BY <1>3, <2>3, <3>1, Zenon
      <3> QED
        BY <2>3, <3>2, Zenon DEF Timer
    <2>4. pk.size = 0 => t = flow.timer
      BY Zenon
    <2> QED
      BY <2>2, <2>3, <2>4, Zenon
  <1> HIDE DEF a, b, g, t
  <1>7. /\ flow' \in FlowType /\ flow'.lossTime = flow.lossTime
        /\ flow'.elicited = e /\ flow'.timer = t
    <2> HIDE DEF e
    <2>1. PICK ve \in BOOLEAN, va \in BOOLEAN, vg \in BOOLEAN, vt \in BOOLEAN, vb \in Nat :
              ve = e /\ va = a /\ vg = g /\ vt = t /\ vb = b
      BY <1>5, Zenon
    <2>2. PICK l : l = flow'
      OBVIOUS
    <2>3. l = [flow EXCEPT !.elicited = ve, !.asked = va, !.probes = vb, !.ping = vg, !.timer = vt]
      BY <1>4, <2>1, <2>2, Zenon
    <2>4. flow \in [lossTime : BOOLEAN, timer : BOOLEAN, probes : Nat, ping : BOOLEAN,
                    elicited : BOOLEAN, asked : BOOLEAN]
      BY DEF FlowType
    <2>5. l = [lossTime |-> flow.lossTime, timer |-> vt, probes |-> vb, ping |-> vg,
               elicited |-> ve, asked |-> va]
      BY <2>3, <2>4, SendFlow
    <2>6. flow.lossTime \in BOOLEAN
      BY <2>4
    <2>7. l \in FlowType /\ l.lossTime = flow.lossTime /\ l.elicited = ve /\ l.timer = vt
      BY <2>5, <2>6 DEF FlowType
    <2> QED
      BY <2>1, <2>2, <2>7, Zenon
  <1>8. ASSUME pk.eliciting = FALSE PROVE path'.challenge = path.challenge
    <2>1. path.challenge \in BOOLEAN
      BY DEF PathType
    <2>2. PICK u : u = q
      OBVIOUS
    <2>3. u.challenge = path.challenge /\ DOMAIN u = DOMAIN path
      BY <2>2 DEF RemoveInFlight, PathType
    <2>4. "challenge" \in DOMAIN u
      BY <2>3 DEF PathType
    <2>5. now = [u EXCEPT !.bytes = @ + (IF pk.size > 0 THEN 1 ELSE 0),
                          !.eliciting = @ + (IF pk.eliciting THEN 1 ELSE 0),
                          !.challenge = @ /\ ~pk.eliciting]
      BY <2>2, Zenon DEF now
    <2>6. now.challenge = (u.challenge /\ ~pk.eliciting) /\ "challenge" \in DOMAIN now
      BY <2>4, <2>5
    <2>7. path'.challenge = now.challenge
      BY <1>1, <2>6 DEF Allowed
    <2> QED
      BY <1>8, <2>1, <2>3, <2>6, <2>7, Zenon
  <1> QED
    BY <1>6, <1>7, <1>8, Zenon

\* Transmit
LEMMA TransmitWatched ==
    ASSUME RInv, Watched, Transmit
    PROVE  Watched'
  <1> DEFINE probing == flow.probes > 0
             from == IF probing THEN ProbeFrom ELSE {}
             s == [n \in DOMAIN sent |->
                      IF n \in from THEN [sent[n] EXCEPT !.controls = {}] ELSE sent[n]]
             waiting == Requested(pending \cup IF probing THEN ProbeControls ELSE {})
  <1>1. SInv /\ SentTypes /\ PathsOrdered /\ path \in PathType /\ flow \in FlowType
    BY DEF RInv, SInv, PathsOrdered, Watched
  <1>2. PICK part : Track(s, Packet(TxNumber, part \cap Controls, part \cap Data, TRUE, 1))
    BY Zenon DEF Transmit
  <1> DEFINE pk == Packet(TxNumber, part \cap Controls, part \cap Data, TRUE, 1)
  <1>3. /\ pk.pn = TxNumber /\ pk.gen = path.gen /\ pk.eliciting = TRUE /\ pk.size = 1
    BY DEF Packet
  <1>4. pk \in PacketType
    <2>1. TxNumber \in Nat /\ path.gen \in Nat
      BY <1>1, FreshNumber DEF PathType
    <2> QED
      BY <2>1 DEF Packet, PacketType
  <1>5. prev' = prev /\ generation' = generation /\ acked' = acked
    BY DEF Transmit
  <1>6. DOMAIN s = DOMAIN sent
        /\ \A n \in DOMAIN sent : s[n] = sent[n] \/ s[n] = [sent[n] EXCEPT !.controls = {}]
    OBVIOUS
  <1>7. Track(s, pk)
    BY <1>2
  <1>8. RInv'
    BY TransmitKeeps
  <1>9. pending' \subseteq Items
    BY <1>8 DEF RInv, SInv, SentTypes
  <1> HIDE DEF pk, s
  <1>10. SendStep(pk, Forgotten(pk.eliciting))
    BY <1>1, <1>3, <1>4, <1>5, <1>6, <1>7, TrackSends
  <1>11. /\ flow' \in FlowType /\ flow'.elicited = (flow.elicited \/ pk.eliciting)
         /\ pk.size > 0 /\ pk.eliciting = TRUE =>
                (PtoArmed(sent', path', TRUE) => flow'.timer = TRUE)
    BY <1>1, <1>4, <1>7, TrackFlow, Zenon
  <1>12. flow'.elicited = TRUE
    BY <1>3, <1>11, Zenon
  <1>13. pk.size > 0
    BY <1>3
  <1>14. PtoArmed(sent', path', TRUE) => flow'.timer = TRUE
    BY <1>3, <1>11, <1>13, Zenon
  <1> QED
    BY <1>3, <1>8, <1>9, <1>10, <1>11, <1>12, <1>13, <1>14, SendWatched

\* TransmitMtuProbe
LEMMA MtuProbeWatched ==
    ASSUME RInv, Watched, TransmitMtuProbe
    PROVE  Watched'
  <1> DEFINE pk == Packet(TxNumber, {}, {}, TRUE, 2)
             after == [n \in DOMAIN sent \cup {pk.pn} |-> IF n = pk.pn THEN pk ELSE sent[n]]
             now == [path EXCEPT !.bytes = @ + 1, !.eliciting = @ + 1, !.probe = pk.pn]
             t == Timer(flow.lossTime, after, now, TRUE)
  <1>1. flow \in FlowType /\ RInv'
    BY MtuProbeKeeps DEF Watched
  <1>2. PICK any : SendStep(any, {}) /\ net' = net \cup {any}
    BY MtuProbeSends, Zenon
  <1>3. /\ sent' = after /\ path' = now
        /\ flow' = [flow EXCEPT !.elicited = TRUE, !.timer = t]
    BY Zenon DEF TransmitMtuProbe
  <1>4. any = pk
    <2>1. /\ any.pn = TxNumber /\ sent'[any.pn] = any
      BY <1>2, Zenon DEF SendStep
    <2>2. pk.pn = TxNumber
      BY DEF Packet
    <2> HIDE DEF pk
    <2>3. sent'[pk.pn] = pk
      BY <1>3
    <2> QED
      BY <2>1, <2>2, <2>3, Zenon
  <1>5. pk.eliciting = TRUE /\ pk.size > 0
    BY DEF Packet
  <1>6. PtoArmed(sent', path', TRUE) => t
    <2> HIDE DEF after, now
    <2> QED
      BY <1>3, Zenon DEF Timer
  <1>7. t \in BOOLEAN
    BY DEF Timer
  <1> HIDE DEF t, pk, after, now
  <1>8. flow' \in FlowType /\ flow'.elicited = TRUE /\ flow'.timer = t
    <2>1. PICK v \in BOOLEAN, y \in BOOLEAN : v = t /\ y = TRUE
      BY <1>7, Zenon
    <2>2. PICK l : l = flow'
      OBVIOUS
    <2>3. l = [flow EXCEPT !.elicited = y, !.timer = v]
      BY <1>3, <2>1, <2>2, Zenon
    <2>4. l \in FlowType /\ l.elicited = y /\ l.timer = v
      BY <1>1, <2>3 DEF FlowType
    <2> QED
      BY <2>1, <2>2, <2>4, Zenon
  <1>9. PtoArmed(sent', path', TRUE) => flow'.timer = TRUE
    BY <1>6, <1>7, <1>8, Zenon
  <1>10. pending' \subseteq Items /\ SendStep(pk, {})
    BY <1>1, <1>2, <1>4 DEF RInv, SInv, SentTypes
  <1> QED
    BY <1>1, <1>5, <1>8, <1>9, <1>10, SendWatched

\* TransmitAckOnly: the timers stay, and the packets that count are the same.
LEMMA AckOnlyWatched ==
    ASSUME RInv, Watched, TransmitAckOnly
    PROVE  Watched'
  <1> DEFINE pk == Packet(TxNumber, {}, {}, FALSE, 0)
             gone == Forgotten(FALSE)
  <1>1. SInv /\ path \in PathType /\ flow \in FlowType /\ RInv'
    BY AckOnlyKeeps DEF RInv, SInv, PathsOrdered, Watched
  <1>2. Track(sent, pk) /\ generation' = generation /\ ~Blocked(path)
    BY Zenon DEF TransmitAckOnly
  <1>3. /\ pk.pn = TxNumber /\ pk.gen = path.gen /\ pk.eliciting = FALSE
        /\ pk.controls = {} /\ pk.data = {} /\ pk.size = 0
    BY DEF Packet
  <1>4. pk \in PacketType
    <2>1. TxNumber \in Nat /\ path.gen \in Nat
      BY <1>1, FreshNumber DEF PathType
    <2> QED
      BY <2>1 DEF Packet, PacketType
  <1>5. /\ flow' \in FlowType /\ flow'.lossTime = flow.lossTime
        /\ flow'.elicited = (flow.elicited \/ pk.eliciting)
        /\ flow'.timer = flow.timer /\ path'.challenge = path.challenge
    BY <1>1, <1>2, <1>3, <1>4, TrackFlow, Zenon
  <1>6. flow'.elicited = flow.elicited
    <2>1. flow.elicited \in BOOLEAN
      BY <1>1 DEF FlowType
    <2> QED
      BY <1>3, <1>5, <2>1, Zenon
  <1>7. PICK any : /\ SendStep(any, gone)
                   /\ \A n \in DOMAIN sent \ gone : sent'[n] = sent[n]
    BY AckOnlySends, Zenon
  <1>8. /\ any.pn = TxNumber /\ sent'[any.pn] = any /\ num' = TakeNumber
        /\ DOMAIN sent' = (DOMAIN sent \ gone) \cup {any.pn}
        /\ path'.gen = path.gen
    BY <1>7, Zenon DEF SendStep
  <1>9. any = pk
    <2>1. sent'[pk.pn] = pk
      <3> DEFINE left == Without(sent, Forgotten(pk.eliciting))
      <3>1. sent' = [n \in DOMAIN left \cup {pk.pn} |-> IF n = pk.pn THEN pk ELSE left[n]]
        BY <1>2, Zenon DEF Track
      <3> HIDE DEF pk, left
      <3> QED
        BY <3>1
    <2> QED
      BY <1>3, <1>8, <2>1, Zenon
  <1> HIDE DEF gone, pk
  <1>10. num'.largestAcked = num.largestAcked
    <2>1. num \in [next : Nat, skip : Nat, skipped : Nat \cup {None}, largestAcked : Int]
      BY <1>1 DEF SInv, NumTypes
    <2> DEFINE k == TxNumber + 1
               x == IF num.next = num.skip THEN num.skip ELSE num.skipped
    <2>2. num' = [num EXCEPT !.next = k, !.skipped = x]
      BY <1>8, Zenon DEF TakeNumber
    <2> HIDE DEF k, x
    <2> QED
      BY <2>1, <2>2
  <1>11. \A n \in gone : sent[n].size = 0
    <2>1. gone \subseteq TailOf(sent, tail.largest)
      BY <1>3, <1>7, <1>9 DEF SendStep
    <2>2. \A n \in TailOf(sent, tail.largest) : sent[n].size = 0
      BY <1>1 DEF SInv, TailExact, TailOf
    <2> QED
      BY <2>1, <2>2
  <1>12. /\ pk.pn \in Nat /\ pk.pn >= num.next /\ pk.pn \notin DOMAIN sent
    BY <1>1, <1>3, FreshNumber
  <1>13. \A n \in DOMAIN sent : n \in Nat /\ n < num.next /\ sent[n] \in PacketType
         /\ num.next \in Nat
    BY <1>1 DEF SInv, SentTypes
  <1>14. DOMAIN sent' = (DOMAIN sent \ gone) \cup {pk.pn} /\ sent'[pk.pn] = pk
    BY <1>8, <1>9
  <1>15. \A g : Sized(sent', g) = Sized(sent, g)
    BY <1>3, <1>7, <1>11, <1>13, <1>14 DEF Sized, PacketType
  <1>16. \A n \in DOMAIN sent' : sent'[n].eliciting = TRUE =>
             sent'[n].size > 0 /\ flow'.elicited = TRUE
    BY <1>3, <1>6, <1>7, <1>14 DEF Watched
  <1>17. ASSUME path'.gen = generation'
         PROVE  /\ \A n, c \in DOMAIN sent' :
                       sent'[c].gen = generation' /\ sent'[n].gen # generation' => n < c
                /\ Sized(sent', generation') # {} /\ ~Blocked(path') => flow'.timer = TRUE
                /\ Sized(sent', generation') = {} /\ path'.challenge = FALSE =>
                       \A n \in DOMAIN sent' : sent'[n].size > 0 =>
                           /\ n < num'.largestAcked
                           /\ flow'.lossTime = TRUE /\ flow'.timer = TRUE
    <2>1. path.gen = generation /\ pk.gen = generation
      BY <1>2, <1>3, <1>8, <1>17
    <2>2. ASSUME NEW n \in DOMAIN sent', NEW c \in DOMAIN sent',
                 sent'[c].gen = generation', sent'[n].gen # generation'
          PROVE  n < c
      <3>1. n \in DOMAIN sent /\ sent[n].gen # generation
        BY <1>2, <1>7, <1>14, <2>1, <2>2
      <3>2. CASE c = pk.pn
        BY <1>12, <1>13, <3>1, <3>2
      <3>3. CASE c # pk.pn
        <4>1. c \in DOMAIN sent /\ sent[c].gen = generation
          BY <1>2, <1>7, <1>14, <2>2, <3>3
        <4> QED
          BY <2>1, <3>1, <4>1 DEF Watched
      <3> QED
        BY <3>2, <3>3
    <2>3. Sized(sent', generation') # {} => flow'.timer = TRUE
      BY <1>2, <1>5, <1>15, <2>1 DEF Watched
    <2>4. ASSUME Sized(sent', generation') = {}, path'.challenge = FALSE,
                 NEW n \in DOMAIN sent', sent'[n].size > 0
          PROVE  n < num'.largestAcked /\ flow'.lossTime = TRUE /\ flow'.timer = TRUE
      <3>1. n \in DOMAIN sent /\ sent[n].size > 0
        BY <1>3, <1>7, <1>14, <2>4
      <3> QED
        BY <1>2, <1>5, <1>10, <1>15, <2>1, <2>4, <3>1 DEF Watched
    <2> QED
      BY <2>2, <2>3, <2>4, Zenon
  <1> QED
    BY <1>5, <1>16, <1>17, Zenon DEF Watched

\* Packets of the path's own generation in flight: the probe timeout is armed.
LEMMA FlightArmed ==
    ASSUME RInv, Watched, path.gen = generation, Sized(sent, generation) # {},
           NEW q, q.eliciting = path.eliciting, ~Blocked(q)
    PROVE  PtoArmed(sent, q, flow.elicited)
  <1>1. /\ IsFiniteSet(DOMAIN sent) /\ \A n \in DOMAIN sent : sent[n] \in PacketType
        /\ \A n \in DOMAIN sent : sent[n].eliciting = FALSE => sent[n].size = 0
        /\ path.eliciting = Cardinality(Eliciting(sent, generation))
    BY DEF RInv, SInv, SentTypes, TailExact, Counted
  <1>2. PtoArmed(sent, q, TRUE)
    BY <1>1, BusyArms
  <1>3. PICK c \in DOMAIN sent : sent[c].size > 0
    BY DEF Sized
  <1>4. sent[c].eliciting = TRUE
    BY <1>1, <1>3 DEF PacketType
  <1>5. flow.elicited = TRUE
    BY <1>4 DEF Watched
  <1> QED
    BY <1>2, <1>5, Zenon

\* Nothing that Watched looks at changes, but that the largest acknowledged number
\* may grow.
LEMMA SameWatched ==
    ASSUME RInv, Watched, UNCHANGED <<sent, flow, generation>>,
           path'.gen = path.gen, path'.challenge = path.challenge,
           Blocked(path) => Blocked(path'),
           num'.largestAcked \in Int, num.largestAcked <= num'.largestAcked
    PROVE  Watched'
  <1>1. /\ \A n \in DOMAIN sent : n \in Nat /\ num.largestAcked \in Int
    BY DEF RInv, SInv, SentTypes, NumTypes
  <1>2. \A n \in DOMAIN sent : n < num.largestAcked => n < num'.largestAcked
    BY <1>1
  <1> QED
    BY <1>2 DEF Watched, Sized

\* A datagram that allows the sender more sets the timer that was left unarmed.
LEMMA RearmedFields ==
    ASSUME flow \in FlowType, NEW q, NEW l, l = Rearmed(q)
    PROVE  /\ l \in FlowType /\ l.elicited = flow.elicited /\ l.lossTime = flow.lossTime
           /\ Blocked(path) => l.timer = Timer(flow.lossTime, sent, q, flow.elicited)
           /\ ~Blocked(path) => l = flow
  <1> DEFINE t == Timer(flow.lossTime, sent, q, flow.elicited)
  <1>1. t \in BOOLEAN
    BY DEF Timer, FlowType
  <1>2. CASE Blocked(path)
    <2>1. PICK v \in BOOLEAN : v = t
      BY <1>1, Zenon
    <2>2. l = [flow EXCEPT !.timer = v]
      BY <1>2, <2>1, Zenon DEF Rearmed
    <2>3. l \in FlowType /\ l.elicited = flow.elicited /\ l.lossTime = flow.lossTime
          /\ l.timer = v
      BY <2>2 DEF FlowType
    <2> QED
      BY <1>2, <2>1, <2>3, Zenon
  <1>3. CASE ~Blocked(path)
    <2>1. l = flow
      BY <1>3, Zenon DEF Rearmed
    <2> QED
      BY <1>3, <2>1, Zenon
  <1> QED
    BY <1>2, <1>3, Zenon

LEMMA RearmWatched ==
    ASSUME RInv, Watched, UNCHANGED <<sent, generation>>, flow' = Rearmed(path'),
           path'.gen = path.gen, path'.challenge = path.challenge,
           path'.eliciting = path.eliciting,
           num'.largestAcked \in Int, num.largestAcked <= num'.largestAcked
    PROVE  Watched'
  <1>1. /\ flow' \in FlowType /\ flow'.elicited = flow.elicited
        /\ flow'.lossTime = flow.lossTime
        /\ Blocked(path) => flow'.timer = Timer(flow.lossTime, sent, path', flow.elicited)
        /\ ~Blocked(path) => flow' = flow
    BY RearmedFields DEF Watched
  <1>2. CASE ~Blocked(path)
    BY <1>1, <1>2, SameWatched
  <1>3. CASE Blocked(path)
    <2>1. /\ \A n \in DOMAIN sent : n \in Nat /\ num.largestAcked \in Int
      BY DEF RInv, SInv, SentTypes, NumTypes
    <2>2. \A n \in DOMAIN sent : n < num.largestAcked => n < num'.largestAcked
      BY <2>1
    <2>3. flow.lossTime = TRUE => flow'.timer = TRUE
      BY <1>1, <1>3, Zenon DEF Timer
    <2>4. ASSUME path.gen = generation, Sized(sent, generation) # {}, ~Blocked(path')
          PROVE  flow'.timer = TRUE
      <3>1. PtoArmed(sent, path', flow.elicited)
        BY <2>4, FlightArmed
      <3> QED
        BY <1>1, <1>3, <3>1, Zenon DEF Timer
    <2> QED
      BY <1>1, <2>2, <2>3, <2>4 DEF Watched, Sized
  <1> QED
    BY <1>2, <1>3

\* The loss-detection timer fires: it stays set unless nothing is in flight, or
\* the sender waits for the client.
LEMMA TimeoutWatched ==
    ASSUME RInv, Watched, Timeout
    PROVE  Watched'
  <1>1. UNCHANGED <<num, generation>> /\ RInv' /\ flow \in FlowType
    BY TimeoutKeeps DEF Timeout, Watched
  <1>2. num.largestAcked \in Int
    BY DEF RInv, SInv, NumTypes
  <1>3. CASE flow.lossTime
    <2>1. PICK old : DetectLost({}, num.largestAcked, old, 0)
      BY <1>3 DEF Timeout
    <2> QED
      BY <1>1, <1>2, <2>1, DropWatched
  <1>4. CASE ~flow.lossTime
    <2>1. /\ UNCHANGED <<sent, path>>
          /\ flow' = IF PtoArmed(sent, path, flow.elicited)
                     THEN [flow EXCEPT !.probes = @ + 2] ELSE [flow EXCEPT !.timer = FALSE]
      BY <1>4, Zenon DEF Timeout
    <2>2. CASE PtoArmed(sent, path, flow.elicited)
      <3>1. flow' = [flow EXCEPT !.probes = @ + 2]
        BY <2>1, <2>2, Zenon
      <3>2. /\ flow' \in FlowType /\ flow'.timer = flow.timer /\ flow'.lossTime = flow.lossTime
            /\ flow'.elicited = flow.elicited
        BY <1>1, <3>1 DEF FlowType
      <3> QED
        BY <1>1, <2>1, <3>2 DEF Watched, Sized
    <2>3. CASE ~PtoArmed(sent, path, flow.elicited)
      <3>1. flow' = [flow EXCEPT !.timer = FALSE]
        BY <2>1, <2>3, Zenon
      <3>2. flow' \in FlowType /\ flow'.elicited = flow.elicited
        BY <1>1, <3>1 DEF FlowType
      <3>3. path.gen = generation /\ ~Blocked(path) => Sized(sent, generation) = {}
        BY <2>3, FlightArmed
      <3>4. flow.lossTime = FALSE
        BY <1>1, <1>4, Zenon DEF FlowType
      <3>5. path.gen = generation /\ path.challenge = FALSE /\ Sized(sent, generation) = {} =>
                \A n \in DOMAIN sent : ~(sent[n].size > 0)
        BY <3>4 DEF Watched
      <3> QED
        BY <1>1, <2>1, <3>2, <3>3, <3>5 DEF Watched, Sized
    <2> QED
      BY <2>2, <2>3
  <1> QED
    BY <1>3, <1>4

\* An acknowledgement arrives.
LEMMA AckArrivesWatched ==
    ASSUME RInv, Watched, AckArrives
    PROVE  Watched'
  <1>1. PICK a \in acks, gain \in Gains : OnAck(a, gain)
    BY DEF AckArrives
  <1> DEFINE newly == DOMAIN sent \cap a.ranges
             largest == SetMax(a.ranges)
             top == IF largest > num.largestAcked THEN largest ELSE num.largestAcked
  <1>2. num'.largestAcked = top
    BY <1>1, AckTakes, Zenon
  <1>3. /\ largest \in Nat /\ ~ (largest >= num.next \/ num.skipped \in a.ranges)
        /\ \A n \in a.ranges : n <= largest
    BY AckGenuine
  <1>4. IF newly = {}
        THEN path' = Allowed(path, gain) /\ flow' = Rearmed(path') /\ sent' = sent
        ELSE \E old : DetectLost(newly, top, old, gain)
    BY <1>1, <1>3, Zenon DEF OnAck
  <1>11. gain \in Nat /\ gain \in Int /\ path \in PathType
    BY ConstantsAssumption DEF RInv, SInv, PathsOrdered
  <1>5. num.largestAcked \in Int /\ generation' = generation /\ RInv'
    BY AckArrivesKeeps DEF RInv, SInv, NumTypes, AckArrives
  <1>6. top \in Int /\ num.largestAcked <= top /\ largest <= top
    BY <1>3, <1>5
  <1>7. \A n \in newly : n <= top
    <2>1. \A n \in DOMAIN sent : n \in Nat
      BY DEF RInv, SInv, SentTypes
    <2> HIDE DEF top, largest
    <2> QED
      BY <1>3, <1>6, <2>1
  <1>8. newly \in SUBSET DOMAIN sent
    OBVIOUS
  <1> HIDE DEF newly, top
  <1>9. CASE newly = {}
    <2>1. UNCHANGED <<sent, generation>> /\ flow' = Rearmed(path')
          /\ path' = Allowed(path, gain)
      BY <1>4, <1>5, <1>9
    <2>2. /\ path'.gen = path.gen /\ path'.challenge = path.challenge
          /\ path'.eliciting = path.eliciting
      BY <1>11, <2>1, AllowedFields
    <2> QED
      BY <1>2, <1>6, <2>1, <2>2, RearmWatched
  <1>10. CASE newly # {}
    <2>1. PICK old : DetectLost(newly, top, old, gain)
      BY <1>4, <1>10, Zenon
    <2> QED
      BY <1>2, <1>5, <1>6, <1>7, <1>8, <1>11, <2>1, DropWatched
  <1> QED
    BY <1>9, <1>10

\* The client allows the sender more, or the path changes.
LEMMA PathWatched ==
    ASSUME RInv, Watched, ClientSends \/ Migrate \/ Validated \/ ValidationFailed
    PROVE  Watched'
  <1>1. UNCHANGED <<sent, num>>
    BY DEF ClientSends, Migrate, Validated, ValidationFailed
  <1>2. num.largestAcked \in Int /\ path \in PathType /\ generation \in Nat
    BY DEF RInv, SInv, NumTypes, PathsOrdered
  <1>6. CASE ClientSends
    <2>1. PICK gain \in Gains : path' = Allowed(path, gain)
      BY <1>6 DEF ClientSends
    <2>2. gain \in Int
      BY ConstantsAssumption
    <2>3. /\ path'.gen = path.gen /\ path'.challenge = path.challenge
          /\ path'.eliciting = path.eliciting
      BY <1>2, <2>1, <2>2, AllowedFields
    <2>4. flow' = Rearmed(path') /\ generation' = generation
      BY <1>6 DEF ClientSends
    <2> QED
      BY <1>1, <1>2, <2>3, <2>4, RearmWatched
  <1>3. CASE Migrate
    <2>1. PICK keep \in BOOLEAN, gain \in Gains :
              path' = [NewPath(generation + 1, FALSE, gain) EXCEPT
                          !.probe = IF keep THEN path.probe ELSE None]
      BY <1>3 DEF Migrate
    <2>6. flow' \in FlowType /\ flow'.elicited = flow.elicited
      <3>1. flow' = Rearmed(path')
        BY <1>3 DEF Migrate
      <3> QED
        BY <3>1, RearmedFields DEF Watched
    <2>2. path'.challenge = TRUE /\ generation' = generation + 1
      <3>1. path'.challenge = ~FALSE
        BY <2>1 DEF NewPath
      <3>2. generation' = generation + 1
        BY <1>3 DEF Migrate
      <3> QED
        BY <3>1, <3>2
    <2>3. \A n \in DOMAIN sent : sent[n].gen \in Nat /\ sent[n].gen <= generation
      BY DEF RInv, SInv, SentTypes, PathsOrdered, PacketType
    <2>4. \A n \in DOMAIN sent : sent[n].gen # generation'
      BY <1>2, <2>2, <2>3
    <2>5. Sized(sent, generation') = {}
      BY <2>4 DEF Sized
    <2> QED
      BY <1>1, <2>2, <2>4, <2>5, <2>6 DEF Watched
  <1>4. CASE Validated
    <2>1. /\ path' = [path EXCEPT !.validated = TRUE, !.allowance = 0]
          /\ flow' = Rearmed(path') /\ generation' = generation
      BY <1>4 DEF Validated
    <2>2. /\ path'.gen = path.gen /\ path'.challenge = path.challenge
          /\ path'.eliciting = path.eliciting
      BY <1>2, <2>1 DEF PathType
    <2> QED
      BY <1>1, <1>2, <2>1, <2>2, RearmWatched
  <1>5. CASE ValidationFailed
    <2>1. prev[1] \in PathType /\ prev[1].gen < generation /\ prev[1].gen \in Nat
      BY <1>5 DEF ValidationFailed, RInv, SInv, PathsOrdered, PathType
    <2>2. path'.gen = prev[1].gen /\ generation' = generation
      BY <1>5, <2>1 DEF ValidationFailed, PathType
    <2>3. path'.gen # generation' /\ flow' = flow
      BY <1>2, <1>5, <2>1, <2>2 DEF ValidationFailed
    <2> QED
      BY <1>1, <2>3 DEF Watched
  <1> QED
    BY <1>3, <1>4, <1>5, <1>6

\* Watched stays, whatever happens.
LEMMA NextWatched ==
    ASSUME RInv, Watched, [Next]_vars
    PROVE  Watched'
  <1>1. num.largestAcked \in Int
    BY DEF RInv, SInv, NumTypes
  <1>2. CASE UNCHANGED <<sent, flow, generation, path, num>>
    BY <1>1, <1>2, SameWatched
  <1>3. CASE Receive \/ AckDelayExpires \/ SendAck \/ AckAcked \/ LosePacket
    BY <1>2, <1>3 DEF Receive, AckDelayExpires, SendAck, AckAcked, LosePacket
  <1>4. CASE UNCHANGED vars
    BY <1>2, <1>4 DEF vars
  <1> QED
    BY <1>3, <1>4, TransmitWatched, AckOnlyWatched, MtuProbeWatched, TimeoutWatched,
       AckArrivesWatched, PathWatched DEF Next

\* Nothing is in flight at first.
LEMMA InitWatched == Init => Watched
  <1> SUFFICES ASSUME Init PROVE Watched
    OBVIOUS
  <1>1. /\ sent = <<>>
        /\ flow = [lossTime |-> FALSE, timer |-> FALSE, probes |-> 0, ping |-> FALSE,
                   elicited |-> FALSE, asked |-> FALSE]
    BY DEF Init
  <1>2. DOMAIN sent = {}
    BY <1>1
  <1>3. flow \in FlowType
    BY <1>1 DEF FlowType
  <1>4. Sized(sent, generation) = {}
    BY <1>2 DEF Sized
  <1> QED
    BY <1>2, <1>3, <1>4 DEF Watched

\* A watched connection does not stand still: with packets of its generation in
\* flight the timer runs; with none the window is open, and what is neither
\* pending nor in flight is due to be lost.
LEMMA WatchedMoves ==
    ASSUME RInv, Watched, Placed
    PROVE  NoStall
  <1> SUFFICES ASSUME path.gen = generation, ~Blocked(path), error = "none", acked # Items
               PROVE  \/ Admitted /\ (pending # {} \/ flow.ping \/ path.challenge
                                        \/ flow.probes > 0)
                      \/ flow.timer /\ (flow.lossTime
                                          \/ PtoArmed(sent, path, flow.elicited))
    BY Zenon DEF NoStall, NeverStalls
  <1>1. CASE Sized(sent, generation) # {}
    <2>1. flow.timer = TRUE
      BY <1>1 DEF Watched
    <2>2. PtoArmed(sent, path, flow.elicited)
      BY <1>1, FlightArmed
    <2> QED
      BY <2>1, <2>2, Zenon
  <1>2. CASE Sized(sent, generation) = {}
    <2>1. Admitted
      <3>1. path.bytes = Cardinality(Sized(sent, generation))
        BY DEF RInv, SInv, Counted
      <3>2. path.bytes = 0
        BY <1>2, <3>1, FS_EmptySet
      <3>3. Window \in Nat \ {0}
        BY ConstantsAssumption
      <3>4. path.bytes < Window
        BY <3>2, <3>3
      <3> QED
        BY <3>4, Zenon DEF Admitted
    <2>2. CASE path.challenge = TRUE
      BY <2>1, <2>2, Zenon
    <2>3. CASE pending # {}
      BY <2>1, <2>3, Zenon
    <2>4. CASE path.challenge # TRUE /\ pending = {}
      <3>1. path.challenge = FALSE
        <4>1. path.challenge \in BOOLEAN
          BY DEF RInv, SInv, PathsOrdered, PathType
        <4> QED
          BY <2>4, <4>1, Zenon
      <3>2. PICK x \in Items : x \notin acked
        BY DEF RInv, SInv, SentTypes
      <3>3. PICK n \in DOMAIN sent : x \in sent[n].controls \/ x \in sent[n].data
        BY <2>4, <3>2 DEF Placed, Carried
      <3>4. sent[n] \in PacketType /\ (sent[n].eliciting = FALSE =>
                                           sent[n].controls = {} /\ sent[n].data = {})
        BY DEF RInv, SInv, SentTypes, TailExact
      <3>5. sent[n].eliciting = TRUE
        BY <3>3, <3>4 DEF PacketType
      <3>6. sent[n].size > 0
        BY <3>5 DEF Watched
      <3>7. flow.lossTime = TRUE /\ flow.timer = TRUE
        BY <1>2, <3>1, <3>6 DEF Watched
      <3> QED
        BY <3>7, Zenon
    <2> QED
      BY <2>2, <2>3, <2>4
  <1> QED
    BY <1>1, <1>2

\* The connection never stands still on a path that did not fall back and whose
\* client allows the sender something: while something is not acknowledged,
\* poll_transmit may send and has something to send, or the loss-detection timer
\* runs for packets in flight.
THEOREM NoStallTheorem ==
    ASSUME AckFrequency = FALSE
    PROVE  Spec => []NoStall
  <1>1. Init => Placed
    BY DEF Init, Placed
  <1>2. RInv /\ Placed /\ [Next]_vars => Placed'
    BY NextPlaced
  <1>3. Init => Watched
    BY InitWatched
  <1>4. RInv /\ Watched /\ [Next]_vars => Watched'
    BY NextWatched
  <1>5. RInv /\ Watched /\ Placed => NoStall
    BY WatchedMoves
  <1> QED
    BY <1>1, <1>2, <1>3, <1>4, <1>5, RecoveryInvariance, PTL DEF Spec
=============================================================================
