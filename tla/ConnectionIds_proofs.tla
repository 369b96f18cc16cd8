------------------------ MODULE ConnectionIds_proofs ------------------------
(***************************************************************************)
(* Proofs about ConnectionIds: the ring buffer of CidQueue, what is routed *)
(* and what is held, and the number of ids that issuer and holder count.   *)
(***************************************************************************)
EXTENDS ConnectionIds, FiniteSetTheorems, NaturalsInduction, TLAPS

Slots == 0 .. (QueueLen - 1)

BufferType == [Slots -> Nat \cup {None}]
QueueType ==
    [buffer : BufferType, cursor : Slots, offset : Nat, reserved : Slots]

\* Seen from slot c, buffer b holds nothing but ids from o on, each in its place.
Window(b, c, o) == \A j \in Slots : b[(c + j) % QueueLen] \in {None, o + j}

\* The invariant of CidQueue
QueueInv(q) ==
    /\ q \in QueueType
    /\ Window(q.buffer, q.cursor, q.offset)
    /\ q.buffer[q.cursor] = q.offset
    /\ q.buffer[q.reserved] # None

\* b with the id of place k in it
Put(b, c, o, k) == [b EXCEPT ![(c + k) % QueueLen] = o + k]

HeldIn(b) == {b[k] : k \in Slots} \ {None}
HeldBy(q) == HeldIn(q.buffer)

EventType ==
    {Need(n) : n \in Nat} \cup {Retire(seq, more) : seq \in Nat, more \in BOOLEAN}

IsRetire(e) == e.type = "RetireConnectionId"

\* Ids whose retirement waits for the endpoint
QueuedIn(Q) == {Q[i].seq : i \in {k \in 1 .. Len(Q) : IsRetire(Q[k])}}
Queued == QueuedIn(toEndpoint)

Ids == Seqs(0, issued)

\* Lifetimes end in order, for ids from lo on.
Lifetimes(T, lo, hi) ==
    /\ T \in Seq(Nat)
    /\ \A i \in 1 .. Len(T) : lo <= T[i] /\ T[i] < hi
    /\ \A i, j \in 1 .. Len(T) : i < j => T[i] < T[j]

\* Numbers are in range.
IdTypes ==
    /\ issued \in Nat /\ epIssued = issued
    /\ activeSeq \subseteq Ids /\ epCids \subseteq Ids
    /\ prevRetireSeq \in Nat /\ retireSeq \in Nat
    /\ prevRetireSeq <= retireSeq /\ retireSeq <= issued
    /\ Lifetimes(retireTimestamp, retireSeq, issued)
    /\ toEndpoint \in Seq(EventType)
    /\ pendNew \subseteq Ids
    /\ flightNew \subseteq [seq : Ids, rpt : 0 .. retireSeq]

\* What the holder retired lies before its active id; what lies behind is routed.
Routed ==
    /\ cids.offset < issued
    /\ pendRetire \subseteq Seqs(0, cids.offset) /\ flightRetire \subseteq Seqs(0, cids.offset)
    /\ Queued \subseteq Seqs(0, cids.offset)
    /\ Seqs(cids.offset, issued) \subseteq epCids
    /\ HeldBy(cids) \subseteq Seqs(cids.offset, issued)

\* The invariant that holds whatever the timer and the frames do
CInv == QueueInv(cids) /\ IdTypes /\ Routed

-----------------------------------------------------------------------------
InFlight == {f.seq : f \in flightNew}
Coming == pendNew \cup InFlight

\* Ids expire after their NEW_CONNECTION_ID arrived, and what is not retired at
\* both ends is on its way.
Agreed ==
    /\ \A s \in Coming : s >= retireSeq
    /\ Seqs(cids.offset, issued) \subseteq activeSeq
    /\ activeSeq \subseteq epCids
    /\ epCids \ activeSeq \subseteq Queued
    /\ activeSeq \cap Queued = {}
    /\ Seqs(cids.offset, issued) \subseteq HeldBy(cids) \cup Coming
    /\ activeSeq \cap Seqs(0, cids.offset) \subseteq pendRetire \cup flightRetire \cup Coming

\* The holder is told of every expiry.
Reminded ==
    \/ cids.offset >= retireSeq
    \/ \E i \in DOMAIN toEndpoint : ~IsRetire(toEndpoint[i]) /\ toEndpoint[i].n > 0
    \/ pendNew # {}
    \/ \E f \in flightNew : f.rpt = retireSeq

\* No frame under way exceeds the window of the holder.
Fits == \A f \in flightNew : f.seq < cids.offset + Limit \/ f.seq < f.rpt + Limit

\* Event i of Q makes the endpoint replace an id, when the ids in E are routed:
\* only the first retirement of an id does.
Rewarded(Q, E, i) ==
    Q[i].more /\ Q[i].seq \in E
    /\ \A j \in 1 .. (i - 1) : IsRetire(Q[j]) => Q[j].seq # Q[i].seq

\* How many ids event i makes the endpoint issue
Weight(Q, E, i) ==
    IF ~IsRetire(Q[i]) THEN Q[i].n ELSE IF Rewarded(Q, E, i) THEN 1 ELSE 0

\* start[i] ids are issued when event i is handled.
Ledger(start, Q, E, first) ==
    /\ start \in [1 .. (Len(Q) + 1) -> Nat]
    /\ start[1] = first
    /\ \A i \in 1 .. Len(Q) : start[i + 1] = start[i] + Weight(Q, E, i)
    /\ \A i \in 1 .. (Len(Q) + 1) : start[i] <= start[Len(Q) + 1]

\* With total ids issued in the end, Limit are active, or one more when an expiry
\* is not answered by a retirement yet.
Balanced(total) ==
    \/ Cardinality(activeSeq) + (total - issued) = Limit
    \/ /\ Cardinality(activeSeq) + (total - issued) = Limit + 1
       /\ activeSeq \cap Seqs(prevRetireSeq, retireSeq) # {}
       /\ total = issued \/ ~IsRetire(toEndpoint[Len(toEndpoint)])

Counted ==
    \E start : /\ Ledger(start, toEndpoint, epCids, issued)
               /\ Balanced(start[Len(toEndpoint) + 1])

\* The invariant of a connection without errors, when neither "Race" nor "Late"
\* is in Ops
Alive == Agreed /\ Reminded /\ Fits /\ Counted

\* How far ids get within the bounds
Most == IF MaxMoves >= MaxExpired THEN MaxMoves ELSE MaxExpired
Reach ==
    /\ retireSeq <= Most + 2 * QueueLen
    /\ cids.offset <= Most + QueueLen \/ cids.offset < retireSeq + QueueLen
-----------------------------------------------------------------------------
(* The ring buffer                                                         *)

\* There is room for an id.
LEMMA Room == QueueLen \in Nat /\ QueueLen > 0
  BY BoundsAssumption

\* A step around the ring
LEMMA ModOnce ==
    ASSUME NEW n \in Nat, n > 0, NEW x \in Nat, x < n + n
    PROVE  x % n = IF x < n THEN x ELSE x - n
  OBVIOUS

\* Numbers that differ by less than n and by a multiple of n are equal.
LEMMA SmallMultiple ==
    ASSUME NEW n \in Nat, n > 0, NEW k \in Int, NEW d \in Int, n * k = d, d < n, -n < d
    PROVE  d = 0
  <1>1. CASE k >= 1
    <2>1. n * k >= n
      BY <1>1
    <2> QED
      BY <2>1
  <1>2. CASE k <= -1
    <2>1. n * k <= -n
      BY <1>2
    <2> QED
      BY <2>1
  <1>3. CASE k = 0
    BY <1>3
  <1> QED
    BY <1>1, <1>2, <1>3

\* Steps around the ring add up.
LEMMA ModTwice ==
    ASSUME NEW n \in Nat, n > 0, NEW a \in Nat, NEW k \in Nat
    PROVE  ((a % n) + k) % n = (a + k) % n
  <1> DEFINE b == a % n
             x == (b + k) % n
             y == (a + k) % n
             p == a \div n
             s == (b + k) \div n
             t == (a + k) \div n
  <1>1. b \in Nat /\ p \in Int /\ a = n * p + b
    OBVIOUS
  <1>2. x \in Nat /\ x < n /\ s \in Int /\ b + k = n * s + x
    BY <1>1
  <1>3. y \in Nat /\ y < n /\ t \in Int /\ a + k = n * t + y
    OBVIOUS
  <1> HIDE DEF b, x, y, p, s, t
  <1>4. n * (p + s - t) = y - x
    <2>1. n * p + n * s - n * t = y - x
      <3>1. n * p \in Int /\ n * s \in Int /\ n * t \in Int
        BY <1>1, <1>2, <1>3
      <3> QED
        BY <1>1, <1>2, <1>3, <3>1
    <2>2. n * (p + s - t) = n * p + n * s - n * t
      BY <1>1, <1>2, <1>3
    <2> QED
      BY <2>1, <2>2
  <1>5. y - x = 0
    <2>1. p + s - t \in Int /\ y - x \in Int /\ y - x < n /\ -n < y - x
      BY <1>1, <1>2, <1>3
    <2> QED
      BY <1>4, <2>1, SmallMultiple
  <1>6. x = y
    BY <1>2, <1>3, <1>5
  <1> QED
    BY <1>6 DEF b, x, y

\* Every slot is reached from every other one.
LEMMA SlotReached ==
    ASSUME NEW c \in Slots, NEW k \in Slots
    PROVE  \E j \in Slots : (c + j) % QueueLen = k
  <1>1. QueueLen \in Nat /\ QueueLen > 0
    BY Room
  <1>2. CASE c <= k
    <2>1. k - c \in Slots /\ c + (k - c) = k /\ k \in Nat /\ k < QueueLen + QueueLen
          /\ k < QueueLen
      BY <1>1, <1>2 DEF Slots
    <2>2. k % QueueLen = k
      BY <1>1, <2>1, ModOnce
    <2> QED
      BY <2>1, <2>2
  <1>3. CASE k < c
    <2> DEFINE x == k + QueueLen
    <2>1. x - c \in Slots /\ c + (x - c) = x /\ x \in Nat /\ x < QueueLen + QueueLen
          /\ ~ (x < QueueLen) /\ x - QueueLen = k
      BY <1>1, <1>3 DEF Slots
    <2> HIDE DEF x
    <2>2. x % QueueLen = k
      BY <1>1, <2>1, ModOnce
    <2> QED
      BY <2>1, <2>2
  <1> QED
    BY <1>1, <1>2, <1>3 DEF Slots

\* Where a step from slot c leads
LEMMA StepFrom ==
    ASSUME NEW c \in Slots, NEW i \in Slots
    PROVE  (c + i) % QueueLen = IF c + i < QueueLen THEN c + i ELSE c + i - QueueLen
  <1>1. QueueLen \in Nat /\ QueueLen > 0 /\ c \in Nat /\ i \in Nat
    BY Room DEF Slots
  <1> DEFINE x == c + i
  <1>2. x \in Nat /\ x < QueueLen + QueueLen
    BY <1>1 DEF Slots
  <1> HIDE DEF x
  <1>3. x % QueueLen = IF x < QueueLen THEN x ELSE x - QueueLen
    BY <1>1, <1>2, ModOnce
  <1> QED
    BY <1>1, <1>3 DEF x

\* Two steps that differ lead to different slots.
LEMMA SlotsDiffer ==
    ASSUME NEW c \in Slots, NEW i \in Slots, NEW j \in Slots,
           (c + i) % QueueLen = (c + j) % QueueLen
    PROVE  i = j
  <1>1. QueueLen \in Nat /\ QueueLen > 0
    BY Room
  <1>2. /\ (c + i) % QueueLen = IF c + i < QueueLen THEN c + i ELSE c + i - QueueLen
        /\ (c + j) % QueueLen = IF c + j < QueueLen THEN c + j ELSE c + j - QueueLen
    BY StepFrom
  <1> QED
    BY <1>1, <1>2 DEF Slots

\* A step around the ring ends in a slot.
LEMMA SlotType ==
    ASSUME NEW x \in Nat
    PROVE  x % QueueLen \in Slots
  BY Room DEF Slots

\* The window may move over empty slots.
LEMMA WindowMoves ==
    ASSUME NEW b, NEW c \in Slots, NEW o \in Nat, Window(b, c, o), NEW k \in Slots,
           \A j \in Slots : j < k => b[(c + j) % QueueLen] = None
    PROVE  Window(b, (c + k) % QueueLen, o + k)
  <1> SUFFICES ASSUME NEW j \in Slots
               PROVE  b[(((c + k) % QueueLen) + j) % QueueLen] \in {None, o + k + j}
    BY DEF Window
  <1>1. QueueLen \in Nat /\ QueueLen > 0 /\ c \in Nat /\ k \in Nat /\ j \in Nat
    BY Room DEF Slots
  <1>2. (((c + k) % QueueLen) + j) % QueueLen = (c + k + j) % QueueLen
    <2> DEFINE a == c + k
    <2>1. a \in Nat
      BY <1>1
    <2> HIDE DEF a
    <2>2. ((a % QueueLen) + j) % QueueLen = (a + j) % QueueLen
      BY <1>1, <2>1, ModTwice
    <2> QED
      BY <2>2 DEF a
  <1>3. CASE k + j < QueueLen
    <2>1. k + j \in Slots /\ c + k + j = c + (k + j) /\ o + k + j = o + (k + j)
      BY <1>1, <1>3 DEF Slots
    <2> QED
      BY <1>2, <2>1 DEF Window
  <1>4. CASE ~ (k + j < QueueLen)
    <2> DEFINE m == k + j - QueueLen
    <2>1. m \in Slots /\ m < k
      BY <1>1, <1>4 DEF Slots
    <2>2. (c + k + j) % QueueLen = (c + m) % QueueLen
      <3>1. c + m \in Nat /\ c + m < QueueLen + QueueLen /\ c + k + j = (c + m) + QueueLen
        BY <1>1, <2>1 DEF Slots
      <3>2. c + k \in Nat /\ c + k < QueueLen + QueueLen
        BY <1>1 DEF Slots
      <3>3. CASE c + k < QueueLen
        <4>1. (c + k + j) \in Nat /\ (c + k + j) < QueueLen + QueueLen
              /\ ~ (c + k + j < QueueLen) /\ c + m < QueueLen
              /\ (c + k + j) - QueueLen = c + m
          BY <1>1, <1>4, <2>1, <3>1, <3>3 DEF Slots
        <4> HIDE DEF m
        <4>2. (c + k + j) % QueueLen = (c + k + j) - QueueLen
          BY <1>1, <4>1, ModOnce
        <4>3. (c + m) % QueueLen = c + m
          BY <1>1, <3>1, <4>1, ModOnce
        <4> QED
          BY <4>1, <4>2, <4>3
      <3>4. CASE ~ (c + k < QueueLen)
        <4> DEFINE d == c + k - QueueLen
        <4>1. d \in Nat /\ (c + k) % QueueLen = d
          BY <1>1, <3>2, <3>4, ModOnce
        <4>2. (c + k + j) % QueueLen = (d + j) % QueueLen
          BY <1>2, <4>1
        <4>3. d + j = c + m
          BY <1>1
        <4> QED
          BY <4>2, <4>3
      <3> QED
        BY <3>3, <3>4
    <2> QED
      BY <1>2, <2>1, <2>2
  <1> QED
    BY <1>3, <1>4

\* Every nonempty set of numbers has a least element, and Min picks it.
LEMMA MinLeast ==
    ASSUME NEW S \in SUBSET Nat, S # {}
    PROVE  Sets!Min(S) \in S /\ \A y \in S : Sets!Min(S) <= y
  <1> DEFINE R == {p \in Nat \X Nat : p[1] < p[2]}
  <1>1. IsWellFoundedOn(R, Nat)
    BY NatLessThanWellFounded, Zenon DEF OpToRel
  <1>2. \A x, y \in Nat : y < x => <<y, x>> \in R
    OBVIOUS
  <1> HIDE DEF R
  <1>3. PICK x \in S : \A y \in S : ~ (<<y, x>> \in R)
    BY <1>1, WFMin, Zenon
  <1>4. x \in Nat /\ \A y \in S : y \in Nat /\ ~ (y < x)
    BY <1>2, <1>3, Zenon
  <1>5. \A y \in S : x <= y
    BY <1>4
  <1> QED
    BY <1>3, <1>5 DEF Sets!Min

\* The ids in a window, by their places
LEMMA HeldAt ==
    ASSUME NEW b \in BufferType, NEW c \in Slots, NEW o \in Nat, Window(b, c, o), NEW s
    PROVE  s \in HeldIn(b) <=> \E j \in Slots : s = o + j /\ b[(c + j) % QueueLen] = o + j
  <1>1. ASSUME s \in HeldIn(b)
        PROVE  \E j \in Slots : s = o + j /\ b[(c + j) % QueueLen] = o + j
    <2>1. PICK k \in Slots : s = b[k] /\ s # None
      BY <1>1 DEF HeldIn
    <2>2. PICK j \in Slots : (c + j) % QueueLen = k
      BY SlotReached
    <2> QED
      BY <2>1, <2>2 DEF Window
  <1>2. ASSUME NEW j \in Slots, s = o + j, b[(c + j) % QueueLen] = o + j
        PROVE  s \in HeldIn(b)
    <2>1. c + j \in Nat /\ o + j \in Nat
      BY DEF Slots
    <2>2. (c + j) % QueueLen \in Slots
      BY <2>1, SlotType
    <2> QED
      BY <1>2, <2>1, <2>2 DEF HeldIn, None
  <1> QED
    BY <1>1, <1>2

\* An id is put into its place.
LEMMA PutKeeps ==
    ASSUME NEW b \in BufferType, NEW c \in Slots, NEW o \in Nat, Window(b, c, o),
           NEW k \in Slots
    PROVE  LET d == Put(b, c, o, k) IN
           /\ d \in BufferType /\ Window(d, c, o) /\ HeldIn(d) = HeldIn(b) \cup {o + k}
           /\ d[(c + k) % QueueLen] = o + k
           /\ \A m \in Slots : d[m] = b[m] \/ d[m] = o + k
  <1> DEFINE d == Put(b, c, o, k)
  <1>1. c + k \in Nat /\ o + k \in Nat /\ \A j \in Slots : c + j \in Nat
    BY DEF Slots
  <1>2. (c + k) % QueueLen \in Slots /\ \A j \in Slots : (c + j) % QueueLen \in Slots
    BY <1>1, SlotType
  <1>3. DOMAIN b = Slots
    BY DEF BufferType
  <1>4. /\ d \in BufferType /\ d[(c + k) % QueueLen] = o + k
        /\ \A m \in Slots : m # (c + k) % QueueLen => d[m] = b[m]
    BY <1>1, <1>2, <1>3 DEF BufferType, Put
  <1> HIDE DEF d
  <1>5. Window(d, c, o)
    <2> SUFFICES ASSUME NEW j \in Slots PROVE d[(c + j) % QueueLen] \in {None, o + j}
      BY DEF Window
    <2>1. CASE (c + j) % QueueLen = (c + k) % QueueLen
      BY <1>4, <2>1, SlotsDiffer
    <2>2. CASE (c + j) % QueueLen # (c + k) % QueueLen
      BY <1>2, <1>4, <2>2 DEF Window
    <2> QED
      BY <2>1, <2>2
  <1>6. HeldIn(d) = HeldIn(b) \cup {o + k}
    <2>1. b[(c + k) % QueueLen] \in {None, o + k}
      BY DEF Window
    <2> DEFINE p == (c + k) % QueueLen
    <2>2. p \in Slots /\ d[p] = o + k /\ b[p] \in {None, o + k} /\ o + k # None
      BY <1>1, <1>2, <1>4, <2>1 DEF None
    <2>3. \A m \in Slots : m # p => d[m] = b[m]
      BY <1>4
    <2> HIDE DEF p
    <2> QED
      BY <2>2, <2>3 DEF HeldIn
  <1> QED
    BY <1>4, <1>5, <1>6 DEF d

\* Where the reserved id is
LEMMA ReservedAt ==
    ASSUME NEW q \in QueueType
    PROVE  ReservedLen(q) \in Slots /\ Slot(q, ReservedLen(q)) = q.reserved
  <1>1. q.cursor \in Slots /\ q.reserved \in Slots /\ QueueLen \in Nat /\ QueueLen > 0
    BY Room DEF QueueType
  <1> DEFINE R == ReservedLen(q)
  <1>2. R \in Slots /\ (q.cursor + R = q.reserved \/ q.cursor + R = q.reserved + QueueLen)
    BY <1>1 DEF ReservedLen, Slots
  <1> HIDE DEF R
  <1>3. (q.cursor + R) % QueueLen =
            IF q.cursor + R < QueueLen THEN q.cursor + R ELSE q.cursor + R - QueueLen
    BY <1>1, <1>2, StepFrom
  <1>4. (q.cursor + R) % QueueLen = q.reserved
    BY <1>1, <1>2, <1>3 DEF Slots
  <1> QED
    BY <1>2, <1>4 DEF Slot, R

\* The second id from the reserved one on
LEMMA UnusedExact ==
    ASSUME NEW q, QueueInv(q), HasUnused(q)
    PROVE  /\ Unused(q) \in Nat /\ Unused(q) >= 1 /\ ReservedLen(q) + Unused(q) \in Slots
           /\ (q.reserved + Unused(q)) % QueueLen = Slot(q, ReservedLen(q) + Unused(q))
           /\ q.buffer[Slot(q, ReservedLen(q) + Unused(q))] # None
           /\ \A j \in Slots : ReservedLen(q) < j /\ j < ReservedLen(q) + Unused(q) =>
                  q.buffer[Slot(q, j)] = None
  <1> DEFINE R == ReservedLen(q)
             F == FromReserved(q)
             G == F \ {Sets!Min(F)}
             i == Unused(q)
  <1>1. /\ q \in QueueType /\ q.cursor \in Slots /\ q.reserved \in Slots
        /\ QueueLen \in Nat /\ QueueLen > 0 /\ q.buffer[q.reserved] # None
    BY Room DEF QueueInv, QueueType
  <1>2. R \in Slots /\ R \in Nat /\ Slot(q, R) = q.reserved
    BY <1>1, ReservedAt DEF Slots
  <1>3. F \in SUBSET Nat /\ F \subseteq 0 .. (QueueLen - 1 - R)
    BY <1>1, <1>2 DEF FromReserved
  <1>4. 0 \in F
    <2>1. q.reserved \in Nat /\ q.reserved < QueueLen + QueueLen /\ q.reserved < QueueLen
          /\ q.reserved + 0 = q.reserved
      BY <1>1 DEF Slots
    <2>2. q.reserved % QueueLen = q.reserved
      BY <1>1, <2>1, ModOnce
    <2>3. 0 \in 0 .. (QueueLen - 1 - R)
      BY <1>1, <1>2 DEF Slots
    <2> QED
      BY <1>1, <2>1, <2>2, <2>3 DEF FromReserved
  <1>5. Sets!Min(F) = 0
    BY <1>3, <1>4, MinLeast
  <1>6. G # {}
    <2>1. Cardinality(F) > 1
      BY DEF HasUnused
    <2>2. Cardinality({0}) = 1
      BY FS_Singleton
    <2>3. F # {0}
      BY <2>1, <2>2
    <2> QED
      BY <1>4, <1>5, <2>3
  <1>7. G \in SUBSET Nat
    BY <1>3
  <1>8. i \in G /\ \A y \in G : i <= y
    BY <1>6, <1>7, MinLeast DEF Unused
  <1>9. i \in Nat /\ i >= 1 /\ i <= QueueLen - 1 - R /\ i \in F
    BY <1>1, <1>2, <1>3, <1>5, <1>8
  <1>10. R + i \in Slots
    BY <1>1, <1>2, <1>9 DEF Slots
  <1>11. \A j \in Nat : (q.reserved + j) % QueueLen = Slot(q, R + j)
    <2> SUFFICES ASSUME NEW j \in Nat
                 PROVE  (q.reserved + j) % QueueLen = (q.cursor + (R + j)) % QueueLen
      BY DEF Slot
    <2> DEFINE a == q.cursor + R
    <2>1. a \in Nat /\ a % QueueLen = q.reserved /\ q.cursor + (R + j) = a + j
      BY <1>1, <1>2 DEF Slot, Slots
    <2> HIDE DEF a
    <2>2. ((a % QueueLen) + j) % QueueLen = (a + j) % QueueLen
      BY <1>1, <2>1, ModTwice
    <2> QED
      BY <2>1, <2>2
  <1>12. q.buffer[Slot(q, R + i)] # None
    <2>1. q.buffer[(q.reserved + i) % QueueLen] # None
      BY <1>9 DEF FromReserved
    <2> QED
      BY <1>9, <1>11, <2>1
  <1>13. ASSUME NEW j \in Slots, R < j, j < R + i PROVE q.buffer[Slot(q, j)] = None
    <2> DEFINE k == j - R
    <2>1. k \in Nat /\ k \in 0 .. (QueueLen - 1 - R) /\ k # 0 /\ k < i /\ R + k = j
      BY <1>1, <1>2, <1>9, <1>13 DEF Slots
    <2>2. k \notin F
      BY <1>5, <1>8, <1>9, <2>1
    <2>3. q.buffer[(q.reserved + k) % QueueLen] = None
      BY <2>1, <2>2 DEF FromReserved
    <2> HIDE DEF k
    <2> QED
      BY <1>11, <2>1, <2>3
  <1> HIDE DEF R, i
  <1> QED
    BY <1>9, <1>10, <1>11, <1>12, <1>13 DEF R, i

\* CidQueue::next: what comes before the new active id is dropped, and nothing else.
LEMMA NextExact ==
    ASSUME NEW q, QueueInv(q), HasUnused(q), NEW r, r = NextOf(q)
    PROVE  /\ QueueInv(r)
           /\ r.offset > q.offset + ReservedLen(q) /\ r.offset < q.offset + QueueLen
           /\ HeldBy(r) = {s \in HeldBy(q) : s >= r.offset}
  <1> DEFINE R == ReservedLen(q)
             i == Unused(q)
             c == q.cursor
             o == q.offset
             dropped == {Slot(q, j) : j \in 0 .. R}
  <1>1. /\ q \in QueueType /\ c \in Slots /\ q.buffer \in BufferType
        /\ QueueLen \in Nat /\ QueueLen > 0 /\ o \in Nat /\ Window(q.buffer, c, o)
    BY Room DEF QueueInv, QueueType
  <1>2. R \in Slots /\ R \in Nat
    BY <1>1, ReservedAt DEF Slots
  <1>3. /\ i \in Nat /\ i >= 1 /\ R + i \in Slots
        /\ (q.reserved + i) % QueueLen = Slot(q, R + i)
        /\ q.buffer[Slot(q, R + i)] # None
        /\ \A j \in Slots : R < j /\ j < R + i => q.buffer[Slot(q, j)] = None
    BY UnusedExact
  <1>4. \A j : Slot(q, j) = (c + j) % QueueLen
    BY DEF Slot
  <1>5. PICK D : D = [k \in DOMAIN q.buffer |-> IF k \in dropped THEN None ELSE q.buffer[k]]
    OBVIOUS
  <1>6. D \in BufferType /\ \A k \in Slots : D[k] = IF k \in dropped THEN None ELSE q.buffer[k]
    BY <1>1, <1>5 DEF BufferType
  <1>7. /\ r.buffer = D /\ r.cursor = Slot(q, R + i) /\ r.offset = o + i + R
        /\ r.reserved = Slot(q, R + i)
        /\ r = [buffer |-> D, cursor |-> Slot(q, R + i), offset |-> o + i + R,
                reserved |-> Slot(q, R + i)]
    BY <1>3, <1>5 DEF NextOf
  <1> HIDE DEF R, i
  <1>8. \A j \in Slots : Slot(q, j) \in Slots
    BY <1>1, <1>4, SlotType DEF Slots
  <1>9. \A j \in Slots : Slot(q, j) \in dropped <=> j <= R
    <2> SUFFICES ASSUME NEW j \in Slots PROVE Slot(q, j) \in dropped <=> j <= R
      OBVIOUS
    <2>1. CASE j <= R
      <3>1. j \in 0 .. R
        BY <1>2, <2>1 DEF Slots
      <3> QED
        BY <2>1, <3>1
    <2>2. CASE ~ (j <= R)
      <3>1. ASSUME NEW m \in 0 .. R, Slot(q, j) = Slot(q, m) PROVE FALSE
        <4>1. m \in Slots
          BY <1>1, <1>2 DEF Slots
        <4>2. j = m
          BY <1>1, <1>4, <3>1, <4>1, SlotsDiffer
        <4> QED
          BY <1>2, <2>2, <4>2
      <3> QED
        BY <2>2, <3>1
    <2> QED
      BY <2>1, <2>2
  <1> HIDE DEF dropped
  <1>10. \A j \in Slots : D[Slot(q, j)] = IF j <= R THEN None ELSE q.buffer[Slot(q, j)]
    BY <1>6, <1>8, <1>9
  <1>11. Window(D, c, o)
    BY <1>1, <1>4, <1>10 DEF Window
  <1>12. \A j \in Slots : j < R + i => D[(c + j) % QueueLen] = None
    <2> SUFFICES ASSUME NEW j \in Slots, j < R + i PROVE D[Slot(q, j)] = None
      BY <1>4
    <2>1. CASE j <= R
      BY <1>10, <2>1
    <2>2. CASE R < j
      BY <1>3, <1>10, <2>2
    <2> QED
      BY <1>2, <2>1, <2>2 DEF Slots
  <1> DEFINE k == R + i
  <1>13. k \in Slots /\ k \in Nat /\ o + i + R = o + k /\ R < k /\ k < QueueLen
    BY <1>1, <1>2, <1>3 DEF Slots
  <1>14. Window(D, (c + k) % QueueLen, o + k)
    BY <1>1, <1>11, <1>12, <1>13, WindowMoves
  <1>15. D[Slot(q, k)] = o + k
    <2>1. D[Slot(q, k)] = q.buffer[Slot(q, k)]
      BY <1>2, <1>10, <1>13
    <2>2. q.buffer[(c + k) % QueueLen] \in {None, o + k}
      BY <1>1, <1>13 DEF Window
    <2> QED
      BY <1>3, <1>4, <2>1, <2>2
  <1>16. QueueInv(r)
    <2>1. Slot(q, k) \in Slots /\ o + k \in Nat /\ o + k # None
      BY <1>1, <1>8, <1>13 DEF None
    <2>2. r \in QueueType
      BY <1>6, <1>7, <1>13, <2>1 DEF QueueType
    <2> HIDE DEF k
    <2> QED
      BY <1>4, <1>7, <1>13, <1>14, <1>15, <2>1, <2>2 DEF QueueInv, k
  <1>17. HeldIn(D) = {s \in HeldIn(q.buffer) : s >= o + k}
    <2>1. ASSUME NEW s \in HeldIn(D) PROVE s \in HeldIn(q.buffer) /\ s >= o + k
      <3>1. PICK j \in Slots : s = o + j /\ D[(c + j) % QueueLen] = o + j
        BY <1>1, <1>6, <1>11, HeldAt
      <3>2. o + j # None /\ j \in Nat
        BY <1>1 DEF None, Slots
      <3>3. ~ (j < k)
        BY <1>12, <3>1, <3>2
      <3>4. q.buffer[(c + j) % QueueLen] = o + j
        BY <1>4, <1>10, <3>1, <3>2
      <3>5. s \in HeldIn(q.buffer)
        BY <1>1, <3>1, <3>4, HeldAt
      <3> QED
        BY <1>1, <1>13, <3>1, <3>2, <3>3, <3>5
    <2>2. ASSUME NEW s \in HeldIn(q.buffer), s >= o + k PROVE s \in HeldIn(D)
      <3>1. PICK j \in Slots : s = o + j /\ q.buffer[(c + j) % QueueLen] = o + j
        BY <1>1, HeldAt
      <3>2. ~ (j <= R)
        BY <1>1, <1>2, <1>13, <2>2, <3>1 DEF Slots
      <3>3. D[(c + j) % QueueLen] = o + j
        BY <1>4, <1>10, <3>1, <3>2
      <3> QED
        BY <1>1, <1>6, <1>11, <3>1, <3>3, HeldAt
    <2> QED
      BY <2>1, <2>2
  <1> HIDE DEF k
  <1>18. r.offset = o + k /\ r.buffer = D
    BY <1>7, <1>13
  <1>19. HeldBy(r) = {s \in HeldBy(q) : s >= r.offset}
    BY <1>17, <1>18 DEF HeldBy
  <1>20. r.offset > o + R /\ r.offset < o + QueueLen
    BY <1>1, <1>2, <1>13, <1>18
  <1> QED
    BY <1>16, <1>19, <1>20 DEF R

\* CidQueue::insert: ids below retire_prior_to go, the new one is put into its place,
\* and the least id that is left becomes the active one if the active one went.
LEMMA InsertExact ==
    ASSUME NEW q, QueueInv(q), NEW f, f.seq \in Nat, f.rpt \in Nat, f.rpt <= f.seq,
           q.offset <= f.seq, f.seq - q.offset < QueueLen + RetiredCount(q, f),
           NEW r, r = Inserted(q, f)
    PROVE  /\ QueueInv(r)
           /\ r.offset >= q.offset /\ r.offset >= f.rpt /\ r.offset <= f.seq
           /\ HeldBy(r) = {s \in HeldBy(q) : s >= r.offset} \cup {f.seq}
           /\ RetiredCount(q, f) = 0 =>
                  r.offset = q.offset /\ r.cursor = q.cursor /\ r.reserved = q.reserved
                  /\ f.rpt <= q.offset
           /\ RetiredCount(q, f) # 0 => f.rpt > q.offset
  <1> DEFINE n == RetiredCount(q, f)
             c == q.cursor
             o == q.offset
  <1>1. /\ q \in QueueType /\ c \in Slots /\ q.buffer \in BufferType /\ q.reserved \in Slots
        /\ QueueLen \in Nat /\ QueueLen > 0 /\ o \in Nat /\ Window(q.buffer, c, o)
        /\ q.buffer[c] = o /\ q.buffer[q.reserved] # None
    BY Room DEF QueueInv, QueueType
  <1>2. /\ n \in Nat /\ (n = 0 => f.rpt <= o)
        /\ (n # 0 => f.rpt = o + n /\ f.rpt > o)
    BY <1>1 DEF RetiredCount
  <1>3. \A j : Slot(q, j) = (c + j) % QueueLen
    BY DEF Slot
  <1>4. \A j \in Nat : (c + j) % QueueLen \in Slots
    BY <1>1, SlotType DEF Slots
  <1>5. PICK D : D = Discard(q, n)
    OBVIOUS
  <1>6. /\ D \in BufferType
        /\ \A k \in Slots : D[k] =
               IF \E i \in Slots : i < n /\ k = (c + i) % QueueLen THEN None ELSE q.buffer[k]
    BY <1>1, <1>3, <1>5 DEF Discard, BufferType, Slots
  <1>7. PICK b : b = [D EXCEPT ![Slot(q, f.seq - o)] = f.seq]
    OBVIOUS
  <1>8. CASE n = 0
    <2>1. D = q.buffer
      BY <1>1, <1>6, <1>8 DEF BufferType, Slots
    <2>2. r = [q EXCEPT !.buffer = b]
      BY <1>5, <1>7, <1>8, Zenon DEF Inserted
    <2>3. PICK k \in Slots : k = f.seq - o /\ f.seq = o + k
      <3>1. f.seq - o \in Slots /\ o + (f.seq - o) = f.seq
        BY <1>1, <1>8 DEF Slots
      <3> QED
        BY <3>1
    <2>4. b = Put(q.buffer, c, o, k)
      BY <1>3, <1>7, <2>1, <2>3 DEF Put
    <2>5. /\ b \in BufferType /\ Window(b, c, o) /\ HeldIn(b) = HeldIn(q.buffer) \cup {o + k}
          /\ \A m \in Slots : b[m] = q.buffer[m] \/ b[m] = o + k
      <3>1. LET e == Put(q.buffer, c, o, k) IN
            /\ e \in BufferType /\ Window(e, c, o) /\ HeldIn(e) = HeldIn(q.buffer) \cup {o + k}
            /\ \A m \in Slots : e[m] = q.buffer[m] \/ e[m] = o + k
        <4>1. /\ q.buffer \in BufferType /\ c \in Slots /\ o \in Nat /\ Window(q.buffer, c, o)
              /\ k \in Slots
          BY <1>1, <2>3
        <4> HIDE DEF c, o
        <4> QED
          BY <4>1, PutKeeps
      <3> QED
        BY <2>4, <3>1
    <2>6. b[q.reserved] # None
      BY <1>1, <2>3, <2>5 DEF None
    <2>7. b[c] = o
      <3>1. b[(c + 0) % QueueLen] \in {None, o + 0} /\ c + 0 = c /\ o + 0 = o
        BY <1>1, <2>5 DEF Window, Slots
      <3>2. c % QueueLen = c
        BY <1>1, ModOnce DEF Slots
      <3>3. b[c] # None
        <4>1. o # None /\ o + k # None
          BY <1>1 DEF None, Slots
        <4> QED
          BY <1>1, <2>5, <4>1, Zenon
      <3> QED
        BY <3>1, <3>2, <3>3
    <2>8. r \in QueueType /\ r.buffer = b /\ r.cursor = c /\ r.offset = o
          /\ r.reserved = q.reserved
      BY <1>1, <2>2, <2>5 DEF QueueType
    <2>9. QueueInv(r)
      BY <2>5, <2>6, <2>7, <2>8 DEF QueueInv
    <2>10. \A s \in HeldIn(q.buffer) : s >= o
      <3> SUFFICES ASSUME NEW s \in HeldIn(q.buffer) PROVE s >= o
        OBVIOUS
      <3>1. PICK j \in Slots : s = o + j
        BY <1>1, HeldAt
      <3> QED
        BY <1>1, <3>1 DEF Slots
    <2>11. HeldBy(r) = {s \in HeldBy(q) : s >= r.offset} \cup {f.seq}
      BY <2>3, <2>5, <2>8, <2>10 DEF HeldBy
    <2> QED
      BY <1>1, <1>2, <1>8, <2>8, <2>9, <2>11
  <1>9. CASE n # 0
    <2> DEFINE t == f.rpt
    <2>1. t \in Nat /\ t = o + n /\ t > o
      BY <1>2, <1>9
    <2>2. PICK d \in Slots : d = (c + n) % QueueLen
      BY <1>2, <1>4
    <2>3. Window(D, d, t)
      <3>1. CASE n < QueueLen
        <4>1. n \in Slots
          BY <1>1, <1>2, <3>1 DEF Slots
        <4>2. Window(D, c, o)
          BY <1>1, <1>4, <1>6 DEF Window, Slots
        <4>3. \A j \in Slots : j < n => D[(c + j) % QueueLen] = None
          BY <1>4, <1>6 DEF Slots
        <4>4. Window(D, (c + n) % QueueLen, o + n)
          BY <1>1, <4>1, <4>2, <4>3, WindowMoves
        <4> QED
          BY <2>1, <2>2, <4>4
      <3>2. CASE ~ (n < QueueLen)
        <4>1. ASSUME NEW k \in Slots PROVE D[k] = None
          <5>1. PICK j \in Slots : (c + j) % QueueLen = k
            BY <1>1, SlotReached
          <5>2. j < n
            BY <1>1, <1>2, <3>2 DEF Slots
          <5> QED
            BY <1>6, <5>1, <5>2
        <4>2. \A j \in Slots : (d + j) % QueueLen \in Slots
          BY SlotType DEF Slots
        <4> QED
          BY <4>1, <4>2 DEF Window
      <3> QED
        BY <3>1, <3>2
    <2>4. PICK k \in Slots : f.seq = t + k
      <3>1. f.seq - t \in Slots /\ t + (f.seq - t) = f.seq
        BY <1>1, <1>2, <2>1 DEF Slots
      <3> QED
        BY <3>1
    <2>5. Slot(q, f.seq - o) = (d + k) % QueueLen
      <3> DEFINE a == c + n
      <3>1. a \in Nat /\ k \in Nat /\ c + (f.seq - o) = a + k
        BY <1>1, <1>2, <2>1, <2>4 DEF Slots
      <3>2. d = a % QueueLen
        BY <2>2
      <3> HIDE DEF a
      <3>3. ((a % QueueLen) + k) % QueueLen = (a + k) % QueueLen
        BY <1>1, <3>1, ModTwice
      <3> QED
        BY <1>3, <3>1, <3>2, <3>3
    <2>6. b = Put(D, d, t, k)
      BY <1>7, <2>4, <2>5 DEF Put
    <2>7. /\ b \in BufferType /\ Window(b, d, t) /\ HeldIn(b) = HeldIn(D) \cup {t + k}
          /\ b[(d + k) % QueueLen] = t + k
      <3>1. LET e == Put(D, d, t, k) IN
            /\ e \in BufferType /\ Window(e, d, t) /\ HeldIn(e) = HeldIn(D) \cup {t + k}
            /\ e[(d + k) % QueueLen] = t + k
        BY <1>6, <2>1, <2>2, <2>3, <2>4, PutKeeps
      <3> QED
        BY <2>6, <3>1
    <2> DEFINE moved == [q EXCEPT !.buffer = b, !.cursor = Slot(q, n)]
    <2>8. moved.buffer = b /\ moved.cursor = d
      BY <1>1, <1>3, <2>2 DEF QueueType
    <2> DEFINE A == FromActive(moved)
               i == Sets!Min(A)
    <2>9. r = [buffer |-> b, cursor |-> Slot(moved, i), offset |-> t + i,
               reserved |-> Slot(moved, i)]
      BY <1>5, <1>7, <1>9, Zenon DEF Inserted
    <2> HIDE DEF moved
    <2>10. \A j : Slot(moved, j) = (d + j) % QueueLen
      BY <2>8 DEF Slot
    <2>11. A = {j \in Slots : b[(d + j) % QueueLen] # None}
      BY <2>8, <2>10 DEF FromActive, At, Slots
    <2>12. k \in A
      BY <2>1, <2>4, <2>7, <2>11 DEF None
    <2>13. i \in A /\ \A y \in A : i <= y
      <3>1. A \in SUBSET Nat /\ A # {}
        BY <2>11, <2>12 DEF Slots
      <3> QED
        BY <3>1, MinLeast
    <2> HIDE DEF A, i
    <2>14. i \in Slots /\ i \in Nat /\ i <= k /\ b[(d + i) % QueueLen] # None
      BY <2>11, <2>12, <2>13 DEF Slots
    <2>15. \A j \in Slots : j < i => b[(d + j) % QueueLen] = None
      <3> SUFFICES ASSUME NEW j \in Slots, j < i PROVE b[(d + j) % QueueLen] = None
        OBVIOUS
      <3>1. j \notin A
        BY <2>13, <2>14 DEF Slots
      <3> QED
        BY <2>11, <3>1
    <2>16. Window(b, (d + i) % QueueLen, t + i)
      BY <2>1, <2>7, <2>14, <2>15, WindowMoves
    <2>17. b[(d + i) % QueueLen] = t + i
      BY <2>7, <2>14 DEF Window
    <2>18. (d + i) % QueueLen \in Slots /\ t + i \in Nat
      BY <2>1, <2>14, SlotType DEF Slots
    <2>19. /\ r \in QueueType /\ r.buffer = b /\ r.cursor = (d + i) % QueueLen
           /\ r.reserved = (d + i) % QueueLen /\ r.offset = t + i
      BY <2>7, <2>9, <2>10, <2>18 DEF QueueType
    <2>20. QueueInv(r)
      <3> HIDE DEF t
      <3> QED
        BY <2>14, <2>16, <2>17, <2>19 DEF QueueInv
    <2>21. r.offset >= o /\ r.offset >= f.rpt /\ r.offset <= f.seq
      BY <1>1, <2>1, <2>4, <2>14, <2>19 DEF Slots
    <2>22. ASSUME NEW s PROVE s \in HeldIn(D) <=> s \in HeldIn(q.buffer) /\ s >= t
      <3>1. ASSUME s \in HeldIn(D) PROVE s \in HeldIn(q.buffer) /\ s >= t
        <4>1. PICK j \in Slots : s = t + j
          BY <1>6, <2>1, <2>3, <3>1, HeldAt
        <4>2. s >= t
          BY <2>1, <4>1 DEF Slots
        <4>3. s \in HeldIn(q.buffer)
          BY <1>6, <3>1 DEF HeldIn
        <4> QED
          BY <4>2, <4>3
      <3>2. ASSUME s \in HeldIn(q.buffer), s >= t PROVE s \in HeldIn(D)
        <4>1. PICK j \in Slots : s = o + j /\ q.buffer[(c + j) % QueueLen] = o + j
          BY <1>1, <3>2, HeldAt
        <4>2. j \in Nat /\ j >= n
          BY <1>1, <1>2, <2>1, <3>2, <4>1 DEF Slots
        <4>3. ASSUME NEW m \in Slots, m < n, (c + j) % QueueLen = (c + m) % QueueLen PROVE FALSE
          <5>1. j = m
            BY <1>1, <4>3, SlotsDiffer
          <5> QED
            BY <1>2, <4>2, <4>3, <5>1
        <4>4. D[(c + j) % QueueLen] = o + j
          BY <1>4, <1>6, <4>1, <4>2, <4>3
        <4>5. (c + j) % QueueLen \in Slots /\ o + j # None
          BY <1>1, <1>4, <4>2 DEF None
        <4> QED
          BY <4>1, <4>4, <4>5 DEF HeldIn
      <3> QED
        BY <3>1, <3>2
    <2>23. ASSUME NEW s \in HeldIn(b) PROVE s >= t + i
      <3>1. PICK j \in Slots : s = t + j /\ b[(d + j) % QueueLen] = t + j
        BY <2>1, <2>7, HeldAt
      <3>2. t + j # None /\ j \in Nat
        BY <2>1 DEF None, Slots
      <3>3. ~ (j < i)
        BY <2>15, <3>1, <3>2
      <3> QED
        BY <2>1, <2>14, <3>1, <3>2, <3>3
    <2>24. HeldIn(b) = {s \in HeldIn(q.buffer) : s >= t + i} \cup {f.seq}
      <3>1. ASSUME NEW s \in HeldIn(b)
            PROVE  (s \in HeldIn(q.buffer) /\ s >= t + i) \/ s = f.seq
        BY <2>4, <2>7, <2>22, <2>23
      <3>2. ASSUME NEW s \in HeldIn(q.buffer), s >= t + i PROVE s \in HeldIn(b)
        <4>1. PICK j \in Slots : s = o + j
          BY <1>1, HeldAt
        <4>2. s >= t
          BY <1>1, <2>1, <2>14, <3>2, <4>1 DEF Slots
        <4> QED
          BY <2>7, <2>22, <4>2
      <3>3. f.seq \in HeldIn(b)
        BY <2>4, <2>7
      <3> QED
        BY <3>1, <3>2, <3>3
    <2> HIDE DEF t
    <2>25. HeldBy(r) = {s \in HeldBy(q) : s >= r.offset} \cup {f.seq}
      BY <2>19, <2>24 DEF HeldBy
    <2> QED
      BY <1>2, <1>9, <2>20, <2>21, <2>25
  <1> QED
    BY <1>8, <1>9

-----------------------------------------------------------------------------
(* Operators of the model                                                  *)

\* The endpoint issues as many ids as both ends can keep.
LEMMA LimitType == Limit \in Nat /\ Limit <= QueueLen /\ FirstIds \in Nat /\ 0 < FirstIds
                   /\ FirstIds <= Limit
  <1> DEFINE S == {QueueLen, 12}
  <1>1. S \in SUBSET Nat /\ S # {}
    BY BoundsAssumption
  <1>2. Sets!Min(S) \in S /\ \A y \in S : Sets!Min(S) <= y
    BY <1>1, MinLeast
  <1>3. FirstIds \in 1 .. 2 /\ FirstIds <= QueueLen /\ QueueLen \in Nat
    BY BoundsAssumption
  <1> QED
    BY <1>2, <1>3 DEF Limit

\* What RetiredBy yields
LEMMA RetiredExact ==
    ASSUME NEW q, NEW r, q.offset \in Nat, r.offset \in Nat, NEW s
    PROVE  s \in RetiredBy(q, r) <=> s \in Seqs(q.offset, r.offset) /\ s < q.offset + QueueLen
  <1> DEFINE S == {r.offset, q.offset + QueueLen}
  <1>1. QueueLen \in Nat
    BY Room
  <1>2. S \in SUBSET Nat /\ S # {}
    BY <1>1
  <1>3. Sets!Min(S) \in S /\ \A y \in S : Sets!Min(S) <= y
    BY <1>2, MinLeast
  <1> QED
    BY <1>1, <1>3 DEF RetiredBy, Seqs

\* The last of the ids that are issued at once
LEMMA LastOf ==
    ASSUME NEW a \in Nat, NEW n \in Nat, n > 0
    PROVE  Sets!Max(Seqs(a, a + n)) = a + n - 1
  <1> DEFINE S == Seqs(a, a + n)
             m == a + n - 1
  <1>1. m \in S /\ \A y \in S : m >= y
    BY DEF Seqs
  <1>2. \A x \in S : (\A y \in S : x >= y) => x = m
    BY <1>1 DEF Seqs
  <1> QED
    BY <1>1, <1>2 DEF Sets!Max

\* Events that wait for the endpoint: one more ...
LEMMA AppendQueued ==
    ASSUME NEW Q \in Seq(EventType), NEW e \in EventType
    PROVE  /\ Append(Q, e) \in Seq(EventType)
           /\ QueuedIn(Append(Q, e)) = QueuedIn(Q) \cup (IF IsRetire(e) THEN {e.seq} ELSE {})
  <1> DEFINE P == Append(Q, e)
  <1>1. /\ P \in Seq(EventType) /\ Len(P) = Len(Q) + 1 /\ Len(Q) \in Nat
        /\ P[Len(P)] = e /\ \A i \in 1 .. Len(Q) : P[i] = Q[i]
    OBVIOUS
  <1> HIDE DEF P
  <1>2. \A i \in 1 .. Len(P) : i \in 1 .. Len(Q) \/ i = Len(P)
    BY <1>1
  <1>3. \A i \in 1 .. Len(Q) : i \in 1 .. Len(P)
    BY <1>1
  <1>4. Len(P) \in 1 .. Len(P)
    BY <1>1
  <1>5. QueuedIn(P) = QueuedIn(Q) \cup (IF IsRetire(e) THEN {e.seq} ELSE {})
    BY <1>1, <1>2, <1>3, <1>4 DEF QueuedIn
  <1> QED
    BY <1>1, <1>5 DEF P

\* ... and the first one taken off.
LEMMA TailQueued ==
    ASSUME NEW Q \in Seq(EventType), Q # <<>>
    PROVE  /\ Tail(Q) \in Seq(EventType) /\ Head(Q) \in EventType
           /\ QueuedIn(Q) = QueuedIn(Tail(Q)) \cup
                            (IF IsRetire(Head(Q)) THEN {Head(Q).seq} ELSE {})
  <1> DEFINE P == Tail(Q)
             e == Head(Q)
  <1>1. /\ P \in Seq(EventType) /\ Len(Q) = Len(P) + 1 /\ Len(P) \in Nat
        /\ e = Q[1] /\ e \in EventType /\ \A i \in 1 .. Len(P) : P[i] = Q[i + 1]
    OBVIOUS
  <1> HIDE DEF P, e
  <1>2. \A i \in 1 .. Len(Q) : i = 1 \/ (i - 1 \in 1 .. Len(P) /\ P[i - 1] = Q[i])
    BY <1>1
  <1>3. \A i \in 1 .. Len(P) : i + 1 \in 1 .. Len(Q)
    BY <1>1
  <1>4. 1 \in 1 .. Len(Q)
    BY <1>1
  <1>5. \A s : s \in QueuedIn(Q) <=> s \in QueuedIn(P) \/ (IsRetire(e) /\ s = e.seq)
    <2> SUFFICES ASSUME NEW s
                 PROVE s \in QueuedIn(Q) <=> s \in QueuedIn(P) \/ (IsRetire(e) /\ s = e.seq)
      OBVIOUS
    <2>1. ASSUME s \in QueuedIn(Q) PROVE s \in QueuedIn(P) \/ (IsRetire(e) /\ s = e.seq)
      <3>1. PICK i \in 1 .. Len(Q) : IsRetire(Q[i]) /\ s = Q[i].seq
        BY <2>1 DEF QueuedIn
      <3> QED
        BY <1>1, <1>2, <3>1 DEF QueuedIn
    <2>2. ASSUME s \in QueuedIn(P) PROVE s \in QueuedIn(Q)
      <3>1. PICK i \in 1 .. Len(P) : IsRetire(P[i]) /\ s = P[i].seq
        BY <2>2 DEF QueuedIn
      <3> QED
        BY <1>1, <1>3, <3>1 DEF QueuedIn
    <2>3. ASSUME IsRetire(e), s = e.seq PROVE s \in QueuedIn(Q)
      BY <1>1, <1>4, <2>3 DEF QueuedIn
    <2> QED
      BY <2>1, <2>2, <2>3
  <1> QED
    BY <1>1, <1>5 DEF P, e

\* Events are what they are made of.
LEMMA EventKinds ==
    /\ \A n \in Nat : Need(n) \in EventType /\ ~IsRetire(Need(n)) /\ Need(n).n = n
                      /\ Need(n).type = "NeedIdentifiers"
    /\ \A s \in Nat, m \in BOOLEAN : /\ Retire(s, m) \in EventType /\ IsRetire(Retire(s, m))
                                     /\ Retire(s, m).seq = s /\ Retire(s, m).more = m
    /\ \A e \in EventType :
           \/ e.type = "NeedIdentifiers" /\ ~IsRetire(e) /\ e.n \in Nat
           \/ IsRetire(e) /\ e.seq \in Nat /\ e.more \in BOOLEAN /\ e.type # "NeedIdentifiers"
  <1>1. \A n \in Nat : Need(n) \in EventType /\ ~IsRetire(Need(n)) /\ Need(n).n = n
                       /\ Need(n).type = "NeedIdentifiers"
    <2> TAKE n \in Nat
    <2>1. Need(n) \in EventType
      BY DEF EventType, Need, Retire
    <2>2. Need(n).type = "NeedIdentifiers" /\ Need(n).n = n
      BY DEF Need
    <2> QED
      BY <2>1, <2>2 DEF IsRetire
  <1>2. \A s \in Nat, m \in BOOLEAN : /\ Retire(s, m) \in EventType /\ IsRetire(Retire(s, m))
                                      /\ Retire(s, m).seq = s /\ Retire(s, m).more = m
    <2> TAKE s \in Nat, m \in BOOLEAN
    <2>1. Retire(s, m) \in EventType
      BY DEF EventType, Need, Retire
    <2>2. Retire(s, m).type = "RetireConnectionId" /\ Retire(s, m).seq = s
      BY DEF Retire
    <2>3. Retire(s, m).more = m
      BY Zenon DEF Retire
    <2> QED
      BY <2>1, <2>2, <2>3, Zenon DEF IsRetire
  <1>3. ASSUME NEW e \in EventType
        PROVE  \/ e.type = "NeedIdentifiers" /\ ~IsRetire(e) /\ e.n \in Nat
               \/ IsRetire(e) /\ e.seq \in Nat /\ e.more \in BOOLEAN /\ e.type # "NeedIdentifiers"
    <2>1. (\E n \in Nat : e = Need(n)) \/ (\E s \in Nat, m \in BOOLEAN : e = Retire(s, m))
      BY <1>3 DEF EventType
    <2>2. CASE \E n \in Nat : e = Need(n)
      BY <1>1, <2>2, Zenon
    <2>3. CASE \E s \in Nat, m \in BOOLEAN : e = Retire(s, m)
      <3>1. PICK s \in Nat, m \in BOOLEAN : e = Retire(s, m)
        BY <2>3, Zenon
      <3>2. IsRetire(e) /\ e.seq = s /\ e.more = m
        BY <1>2, <3>1, Zenon
      <3>3. e.type # "NeedIdentifiers"
        BY <3>2 DEF IsRetire
      <3>4. e.seq \in Nat /\ e.more \in BOOLEAN
        BY <3>2, Zenon
      <3> QED
        BY <3>2, <3>3, <3>4, Zenon
    <2> QED
      BY <2>1, <2>2, <2>3, Zenon
  <1> QED
    BY <1>1, <1>2, <1>3, Zenon

-----------------------------------------------------------------------------
(* Lifetimes                                                               *)

\* The first lifetime ends.
LEMMA LifetimesTail ==
    ASSUME NEW T, NEW lo \in Nat, NEW hi \in Nat, Lifetimes(T, lo, hi), T # <<>>
    PROVE  /\ Head(T) \in Nat /\ lo <= Head(T) /\ Head(T) < hi
           /\ Lifetimes(Tail(T), lo, hi) /\ Lifetimes(Tail(T), Head(T) + 1, hi)
  <1> DEFINE P == Tail(T)
             e == Head(T)
  <1>1. T \in Seq(Nat)
    BY DEF Lifetimes
  <1>2. /\ P \in Seq(Nat) /\ Len(T) = Len(P) + 1 /\ Len(P) \in Nat
        /\ e = T[1] /\ e \in Nat /\ \A i \in 1 .. Len(P) : P[i] = T[i + 1]
    BY <1>1
  <1> HIDE DEF P, e
  <1>3. \A i \in 1 .. Len(P) : i + 1 \in 1 .. Len(T) /\ 1 < i + 1
    BY <1>2
  <1>4. 1 \in 1 .. Len(T)
    BY <1>2
  <1>5. lo <= e /\ e < hi
    BY <1>2, <1>4 DEF Lifetimes
  <1>6. \A i \in 1 .. Len(P) : P[i] \in Nat /\ lo <= P[i] /\ P[i] < hi /\ e < P[i]
    <2> TAKE i \in 1 .. Len(P)
    <2>1. i + 1 \in 1 .. Len(T) /\ 1 < i + 1 /\ P[i] = T[i + 1] /\ P[i] \in Nat
      BY <1>2, <1>3
    <2> QED
      BY <1>2, <1>4, <2>1 DEF Lifetimes
  <1>7. \A i, j \in 1 .. Len(P) : i < j => P[i] < P[j]
    <2> SUFFICES ASSUME NEW i \in 1 .. Len(P), NEW j \in 1 .. Len(P), i < j PROVE P[i] < P[j]
      OBVIOUS
    <2>1. i + 1 \in 1 .. Len(T) /\ j + 1 \in 1 .. Len(T) /\ i + 1 < j + 1
      BY <1>3
    <2>2. T[i + 1] < T[j + 1]
      BY <2>1 DEF Lifetimes
    <2> QED
      BY <1>2, <2>2
  <1>8. \A i \in 1 .. Len(P) : e + 1 <= P[i]
    BY <1>2, <1>6
  <1>9. Lifetimes(P, lo, hi) /\ Lifetimes(P, e + 1, hi)
    BY <1>2, <1>6, <1>7, <1>8 DEF Lifetimes
  <1> QED
    BY <1>2, <1>5, <1>9 DEF P, e

\* More ids are issued.
LEMMA LifetimesGrow ==
    ASSUME NEW T, NEW lo \in Nat, NEW hi \in Nat, NEW new \in Nat, Lifetimes(T, lo, hi), hi <= new
    PROVE  Lifetimes(T, lo, new)
  BY DEF Lifetimes

\* Their lifetime has an entry of its own, or the last one.
LEMMA LifetimesAdd ==
    ASSUME NEW T, NEW lo \in Nat, NEW hi \in Nat, NEW new \in Nat, Lifetimes(T, lo, hi),
           NEW s \in Nat, lo <= s, hi <= s, s < new
    PROVE  /\ Lifetimes(Append(T, s), lo, new)
           /\ T # <<>> => Lifetimes([T EXCEPT ![Len(T)] = s], lo, new)
  <1>1. T \in Seq(Nat) /\ Len(T) \in Nat
    BY DEF Lifetimes
  <1>2. Lifetimes(Append(T, s), lo, new)
    <2> DEFINE P == Append(T, s)
    <2>1. /\ P \in Seq(Nat) /\ Len(P) = Len(T) + 1
          /\ P[Len(P)] = s /\ \A i \in 1 .. Len(T) : P[i] = T[i]
      BY <1>1
    <2> HIDE DEF P
    <2>2. \A i \in 1 .. Len(P) : i \in 1 .. Len(T) \/ i = Len(P)
      BY <1>1, <2>1
    <2>3. \A i \in 1 .. Len(T) : P[i] \in Nat /\ lo <= P[i] /\ P[i] < hi
      <3> TAKE i \in 1 .. Len(T)
      <3>1. P[i] = T[i] /\ T[i] \in Nat
        BY <1>1, <2>1
      <3> QED
        BY <3>1 DEF Lifetimes
    <2>4. \A i \in 1 .. Len(P) : lo <= P[i] /\ P[i] < new
      BY <2>1, <2>2, <2>3
    <2>5. \A i, j \in 1 .. Len(P) : i < j => P[i] < P[j]
      <3> SUFFICES ASSUME NEW i \in 1 .. Len(P), NEW j \in 1 .. Len(P), i < j PROVE P[i] < P[j]
        OBVIOUS
      <3>1. i \in 1 .. Len(T)
        BY <1>1, <2>1
      <3>2. CASE j \in 1 .. Len(T)
        BY <2>1, <3>1, <3>2 DEF Lifetimes
      <3>3. CASE j = Len(P)
        BY <2>1, <2>3, <3>1, <3>3
      <3> QED
        BY <2>2, <3>2, <3>3
    <2> QED
      BY <2>1, <2>4, <2>5 DEF Lifetimes, P
  <1>3. ASSUME T # <<>> PROVE Lifetimes([T EXCEPT ![Len(T)] = s], lo, new)
    <2> DEFINE P == [T EXCEPT ![Len(T)] = s]
    <2>1. Len(T) > 0
      BY <1>1, <1>3
    <2>2. /\ P \in Seq(Nat) /\ Len(P) = Len(T)
          /\ P[Len(P)] = s /\ \A i \in 1 .. Len(T) : i < Len(T) => P[i] = T[i]
      BY <1>1, <2>1
    <2> HIDE DEF P
    <2>3. \A i \in 1 .. Len(P) : i < Len(P) \/ i = Len(P)
      BY <1>1, <2>2
    <2>4. \A i \in 1 .. Len(P) : i < Len(P) => P[i] \in Nat /\ lo <= P[i] /\ P[i] < hi
      BY <1>1, <2>2 DEF Lifetimes
    <2>5. \A i \in 1 .. Len(P) : lo <= P[i] /\ P[i] < new
      BY <2>2, <2>3, <2>4
    <2>6. \A i, j \in 1 .. Len(P) : i < j => P[i] < P[j]
      <3> SUFFICES ASSUME NEW i \in 1 .. Len(P), NEW j \in 1 .. Len(P), i < j PROVE P[i] < P[j]
        OBVIOUS
      <3>1. i < Len(T) /\ i \in 1 .. Len(T)
        BY <1>1, <2>2
      <3>2. CASE j < Len(P)
        BY <2>2, <3>1, <3>2 DEF Lifetimes
      <3>3. CASE j = Len(P)
        BY <2>2, <2>4, <3>1, <3>3
      <3> QED
        BY <2>3, <3>2, <3>3
    <2> QED
      BY <2>2, <2>5, <2>6 DEF Lifetimes, P
  <1> QED
    BY <1>2, <1>3

-----------------------------------------------------------------------------
(* The holder                                                              *)

\* What NEW_CONNECTION_ID does to the queue and to the ids to retire
LEMMA ReceiveExact ==
    ASSUME QueueInv(cids), NEW f, f.seq \in Nat, f.rpt \in Nat, ReceiveNew(f)
    PROVE  /\ QueueInv(cids') /\ cids'.offset >= cids.offset
           /\ cids'.offset = cids.offset \/ cids'.offset <= f.seq \/ cids'.offset \in HeldBy(cids)
           /\ HeldBy(cids') \subseteq {s \in HeldBy(cids) \cup {f.seq} : s >= cids'.offset}
           /\ pendRetire \subseteq pendRetire'
           /\ pendRetire' \subseteq pendRetire \cup Seqs(0, cids'.offset)
           /\ cids'.offset # cids.offset =>
                  cids'.offset > cids.offset + ReservedLen(cids) \/ cids.offset < f.rpt
  <1> DEFINE o == cids.offset
  <1>1. /\ o \in Nat /\ cids \in QueueType /\ QueueLen \in Nat /\ ReservedLen(cids) \in Nat
    BY Room, ReservedAt DEF QueueInv, QueueType, Slots
  <1>2. \A s \in HeldBy(cids) : s >= o
    <2>1. cids.buffer \in BufferType /\ cids.cursor \in Slots
          /\ Window(cids.buffer, cids.cursor, cids.offset)
      BY DEF QueueInv, QueueType
    <2> TAKE s \in HeldBy(cids)
    <2>2. PICK j \in Slots : s = o + j
      BY <1>1, <2>1, HeldAt DEF HeldBy
    <2> QED
      BY <1>1, <2>2 DEF Slots
  <1>3. CASE cids' = cids /\ pendRetire' = pendRetire
    BY <1>1, <1>2, <1>3
  <1>4. CASE cids' = cids /\ f.seq < o /\ pendRetire' = pendRetire \cup {f.seq}
    BY <1>1, <1>2, <1>4 DEF Seqs
  <1>5. CASE /\ f.rpt <= f.seq /\ o <= f.seq /\ f.seq - o < QueueLen + RetiredCount(cids, f)
             /\ Accept(f)
    <2>1. PICK q : q = Inserted(cids, f)
      OBVIOUS
    <2>2. /\ QueueInv(q)
          /\ q.offset >= o /\ q.offset >= f.rpt /\ q.offset <= f.seq
          /\ HeldBy(q) = {s \in HeldBy(cids) : s >= q.offset} \cup {f.seq}
          /\ RetiredCount(cids, f) = 0 =>
                 q.offset = o /\ q.cursor = cids.cursor /\ q.reserved = cids.reserved
          /\ RetiredCount(cids, f) # 0 => f.rpt > o
      BY <1>5, <2>1, InsertExact
    <2>3. q.offset \in Nat /\ q \in QueueType
      BY <2>2 DEF QueueInv, QueueType
    <2>4. q.offset # o => o < f.rpt
      BY <2>2
    <2>5. CASE cids' = q /\ pendRetire' = pendRetire
      BY <1>1, <1>2, <2>2, <2>3, <2>4, <2>5
    <2>6. CASE cids' = q /\ pendRetire' = pendRetire \cup RetiredBy(cids, q) \cup RetiredBy(q, q)
      <3>1. \A s \in RetiredBy(cids, q) : s \in Seqs(0, q.offset)
        BY <1>1, <2>3, RetiredExact DEF Seqs
      <3>2. \A s \in RetiredBy(q, q) : s \in Seqs(0, q.offset)
        BY <1>1, <2>3, RetiredExact DEF Seqs
      <3> QED
        BY <1>1, <1>2, <2>2, <2>3, <2>4, <2>6, <3>1, <3>2
    <2>7. ASSUME HasUnused(q), q.offset = 0, cids' = NextOf(q),
                 pendRetire' = pendRetire \cup RetiredBy(cids, q) \cup RetiredBy(q, NextOf(q))
          PROVE  /\ QueueInv(cids') /\ cids'.offset >= o
                 /\ cids'.offset \in HeldBy(q)
                 /\ HeldBy(cids') = {s \in HeldBy(q) : s >= cids'.offset}
                 /\ pendRetire' \subseteq pendRetire \cup Seqs(0, cids'.offset)
                 /\ cids'.offset > o + ReservedLen(cids) \/ o < f.rpt
      <3>1. PICK r : r = NextOf(q)
        OBVIOUS
      <3>2. /\ QueueInv(r) /\ r.offset > q.offset + ReservedLen(q)
            /\ HeldBy(r) = {s \in HeldBy(q) : s >= r.offset}
        BY <2>2, <2>7, <3>1, NextExact
      <3>3. r.offset \in Nat /\ ReservedLen(q) \in Nat
        BY <2>3, <3>2, ReservedAt DEF QueueInv, QueueType, Slots
      <3>4. r.offset \in HeldBy(r)
        BY <3>2 DEF QueueInv, QueueType, HeldBy, HeldIn, None
      <3>5. \A s \in RetiredBy(cids, q) : s \in Seqs(0, r.offset)
        BY <1>1, <2>3, <3>2, <3>3, RetiredExact DEF Seqs
      <3>6. \A s \in RetiredBy(q, r) : s \in Seqs(0, r.offset)
        BY <1>1, <2>3, <3>3, RetiredExact DEF Seqs
      <3>7. o = 0
        BY <1>1, <2>2, <2>7
      <3>8. RetiredCount(cids, f) = 0 => ReservedLen(q) = ReservedLen(cids)
        BY <2>2 DEF ReservedLen
      <3>9. r.offset > o + ReservedLen(cids) \/ o < f.rpt
        BY <1>1, <2>2, <2>7, <3>2, <3>7, <3>8
      <3>10. r.offset >= o
        BY <3>3, <3>7
      <3> QED
        BY <2>7, <3>1, <3>2, <3>4, <3>5, <3>6, <3>9, <3>10
    <2>8. CASE HasUnused(q) /\ q.offset = 0 /\ cids' = NextOf(q)
               /\ pendRetire' = pendRetire \cup RetiredBy(cids, q) \cup RetiredBy(q, NextOf(q))
      <3>1. /\ QueueInv(cids') /\ cids'.offset >= o
            /\ cids'.offset \in HeldBy(q)
            /\ HeldBy(cids') = {s \in HeldBy(q) : s >= cids'.offset}
            /\ pendRetire' \subseteq pendRetire \cup Seqs(0, cids'.offset)
            /\ cids'.offset > o + ReservedLen(cids) \/ o < f.rpt
        BY <2>7, <2>8
      <3>2. cids'.offset \in Nat
        BY <3>1 DEF QueueInv, QueueType
      <3>3. cids'.offset \in HeldBy(cids) \/ cids'.offset = f.seq
        BY <2>2, <3>1
      <3>4. cids'.offset <= f.seq \/ cids'.offset \in HeldBy(cids)
        BY <3>2, <3>3
      <3>5. HeldBy(cids') \subseteq {s \in HeldBy(cids) \cup {f.seq} : s >= cids'.offset}
        BY <2>2, <3>1
      <3>6. pendRetire \subseteq pendRetire'
        BY <2>8
      <3> QED
        BY <3>1, <3>4, <3>5, <3>6
    <2> QED
      BY <1>5, <2>1, <2>5, <2>6, <2>8, Zenon DEF Accept
  <1>6. f.rpt > f.seq \/ f.seq < o \/ f.seq - o >= QueueLen + RetiredCount(cids, f)
        \/ (f.rpt <= f.seq /\ o <= f.seq /\ f.seq - o < QueueLen + RetiredCount(cids, f))
    BY <1>1 DEF RetiredCount
  <1> QED
    BY <1>3, <1>4, <1>5, <1>6, Zenon DEF ReceiveNew

\* What a change of the active id does
LEMMA UpdateExact ==
    ASSUME QueueInv(cids), UpdateRemoteCid
    PROVE  /\ QueueInv(cids') /\ cids'.offset > cids.offset + ReservedLen(cids)
           /\ cids'.offset > cids.offset
           /\ cids'.offset < cids.offset + QueueLen /\ cids'.offset \in HeldBy(cids)
           /\ HeldBy(cids') = {s \in HeldBy(cids) : s >= cids'.offset}
           /\ pendRetire' = pendRetire \cup Seqs(cids.offset, cids'.offset)
  <1>1. PICK r : r = NextOf(cids)
    OBVIOUS
  <1>2. cids' = r /\ HasUnused(cids) /\ pendRetire' = pendRetire \cup RetiredBy(cids, r)
    BY <1>1 DEF UpdateRemoteCid
  <1>3. /\ QueueInv(r) /\ r.offset > cids.offset + ReservedLen(cids)
        /\ r.offset < cids.offset + QueueLen
        /\ HeldBy(r) = {s \in HeldBy(cids) : s >= r.offset}
    BY <1>1, <1>2, NextExact
  <1>4. /\ r.offset \in Nat /\ cids.offset \in Nat /\ cids \in QueueType /\ QueueLen \in Nat
    BY <1>3, Room DEF QueueInv, QueueType
  <1>5. ReservedLen(cids) \in Nat
    BY <1>4, ReservedAt DEF Slots
  <1>6. r.offset \in HeldBy(r)
    BY <1>3 DEF QueueInv, QueueType, HeldBy, HeldIn, None
  <1>7. \A s : s \in RetiredBy(cids, r) <=> s \in Seqs(cids.offset, r.offset)
    <2> SUFFICES ASSUME NEW s
                 PROVE  s \in RetiredBy(cids, r) <=> s \in Seqs(cids.offset, r.offset)
      OBVIOUS
    <2>1. s \in RetiredBy(cids, r) <=> s \in Seqs(cids.offset, r.offset)
          /\ s < cids.offset + QueueLen
      BY <1>4, RetiredExact
    <2> QED
      BY <1>3, <1>4, <2>1 DEF Seqs
  <1>8. RetiredBy(cids, r) = Seqs(cids.offset, r.offset)
    BY <1>7
  <1>9. r.offset > cids.offset
    BY <1>3, <1>4, <1>5
  <1> QED
    BY <1>2, <1>3, <1>6, <1>8, <1>9

\* What reserving an id does
LEMMA ReserveExact ==
    ASSUME QueueInv(cids), NextReserved
    PROVE  /\ QueueInv(cids') /\ cids'.offset = cids.offset /\ HeldBy(cids') = HeldBy(cids)
  <1> DEFINE x == (cids.reserved + Unused(cids)) % QueueLen
  <1>1. cids' = [cids EXCEPT !.reserved = x] /\ HasUnused(cids)
    BY DEF NextReserved
  <1>2. /\ cids \in QueueType /\ cids.reserved \in Nat /\ cids.buffer[cids.cursor] = cids.offset
        /\ Window(cids.buffer, cids.cursor, cids.offset)
    BY DEF QueueInv, QueueType, Slots
  <1>3. Unused(cids) \in Nat /\ cids.buffer[x] # None
    BY <1>1, UnusedExact
  <1>4. x \in Slots
    BY <1>2, <1>3, SlotType
  <1> HIDE DEF x
  <1>5. /\ cids' \in QueueType /\ cids'.buffer = cids.buffer /\ cids'.cursor = cids.cursor
        /\ cids'.offset = cids.offset /\ cids'.reserved = x
    BY <1>1, <1>2, <1>4 DEF QueueType
  <1> QED
    BY <1>2, <1>3, <1>5 DEF QueueInv, HeldBy

-----------------------------------------------------------------------------
(* What is held is routed                                                  *)

\* What the queue holds lies from its active id on.
LEMMA HeldFrom ==
    ASSUME NEW q, QueueInv(q)
    PROVE  /\ q.offset \in Nat /\ q.offset \in HeldBy(q)
           /\ \A s \in HeldBy(q) : s \in Nat /\ s >= q.offset /\ s < q.offset + QueueLen
  <1>1. /\ q.buffer \in BufferType /\ q.cursor \in Slots /\ q.offset \in Nat /\ QueueLen \in Nat
        /\ Window(q.buffer, q.cursor, q.offset) /\ q.buffer[q.cursor] = q.offset
    BY Room DEF QueueInv, QueueType
  <1>2. q.offset \in HeldBy(q)
    BY <1>1 DEF HeldBy, HeldIn, None
  <1>3. ASSUME NEW s \in HeldBy(q) PROVE s \in Nat /\ s >= q.offset /\ s < q.offset + QueueLen
    <2>1. PICK j \in Slots : s = q.offset + j
      BY <1>1, <1>3, HeldAt DEF HeldBy
    <2> QED
      BY <1>1, <2>1 DEF Slots
  <1> QED
    BY <1>1, <1>2, <1>3

\* The first state has its ids in place.
LEMMA InitQueue == Init => QueueInv(cids) /\ HeldBy(cids) = 0 .. (FirstIds - 1) /\ cids.offset = 0
  <1> SUFFICES ASSUME Init
               PROVE  QueueInv(cids) /\ HeldBy(cids) = 0 .. (FirstIds - 1) /\ cids.offset = 0
    OBVIOUS
  <1>1. /\ QueueLen \in Nat /\ QueueLen > 0 /\ FirstIds \in Nat /\ 0 < FirstIds
           /\ FirstIds <= QueueLen
        /\ 0 \in Slots
    BY Room, LimitType, BoundsAssumption DEF Slots
  <1> DEFINE b == [i \in Slots |-> IF i < FirstIds THEN i ELSE None]
  <1>2. cids = [buffer |-> b, cursor |-> 0, offset |-> 0, reserved |-> 0]
    BY DEF Init, InitialQueue, Slots
  <1>3. /\ b \in BufferType /\ b[0] = 0 /\ \A i \in Slots : b[i] = IF i < FirstIds THEN i ELSE None
    BY <1>1 DEF BufferType, Slots, None
  <1> HIDE DEF b
  <1>4. cids \in QueueType /\ cids.buffer = b /\ cids.cursor = 0 /\ cids.offset = 0
        /\ cids.reserved = 0
    BY <1>1, <1>2, <1>3 DEF QueueType
  <1>5. Window(b, 0, 0)
    <2> SUFFICES ASSUME NEW j \in Slots PROVE b[(0 + j) % QueueLen] \in {None, 0 + j}
      BY DEF Window
    <2>1. (0 + j) % QueueLen = j
      <3>1. (0 + j) % QueueLen = IF 0 + j < QueueLen THEN 0 + j ELSE 0 + j - QueueLen
        BY <1>1, StepFrom
      <3> QED
        BY <1>1, <3>1 DEF Slots
    <2>2. 0 + j = j
      BY <1>1 DEF Slots
    <2> QED
      BY <1>3, <2>1, <2>2
  <1>6. HeldIn(b) = 0 .. (FirstIds - 1)
    BY <1>1, <1>3 DEF HeldIn, None, Slots
  <1> QED
    BY <1>3, <1>4, <1>5, <1>6 DEF QueueInv, HeldBy, None

\* It satisfies the invariant.
LEMMA InitCInv == Init => CInv
  <1> SUFFICES ASSUME Init PROVE CInv
    OBVIOUS
  <1>1. QueueInv(cids) /\ HeldBy(cids) = 0 .. (FirstIds - 1) /\ cids.offset = 0
    BY InitQueue
  <1>2. FirstIds \in Nat /\ 0 < FirstIds /\ FirstIds <= Limit /\ Limit \in Nat
    BY LimitType
  <1>3. Lifetimes(retireTimestamp, 0, FirstIds)
    <2>1. CASE retireTimestamp = <<>>
      BY <2>1 DEF Lifetimes
    <2>2. CASE retireTimestamp = <<FirstIds - 1>>
      <3>1. retireTimestamp \in Seq(Nat) /\ Len(retireTimestamp) = 1
            /\ retireTimestamp[1] = FirstIds - 1
        BY <1>2, <2>2
      <3> QED
        BY <1>2, <3>1 DEF Lifetimes
    <2> QED
      BY <2>1, <2>2 DEF Init
  <1>4. Limit - FirstIds \in Nat
    BY <1>2
  <1>5. Need(Limit - FirstIds) \in EventType /\ ~IsRetire(Need(Limit - FirstIds))
    BY <1>4, EventKinds
  <1>6. toEndpoint = <<Need(Limit - FirstIds)>>
    BY DEF Init
  <1>7. toEndpoint \in Seq(EventType) /\ Queued = {}
    BY <1>5, <1>6 DEF Queued, QueuedIn
  <1>8. IdTypes
    BY <1>2, <1>3, <1>7 DEF Init, IdTypes, Ids, Seqs
  <1>9. Routed
    BY <1>1, <1>2, <1>7 DEF Init, Routed, Seqs
  <1> QED
    BY <1>1, <1>8, <1>9 DEF CInv

\* Issuing ids
LEMMA IssueTypes ==
    ASSUME IdTypes, NEW n \in Nat, NewIdentifiers(n), toEndpoint' \in Seq(EventType),
           epCids' \subseteq epCids \cup Seqs(epIssued, epIssued + n)
    PROVE  IdTypes'
  <1>1. /\ issued \in Nat /\ epIssued = issued /\ retireSeq \in Nat /\ retireSeq <= issued
        /\ Lifetimes(retireTimestamp, retireSeq, issued)
    BY DEF IdTypes
  <1>2. /\ issued' = issued + n /\ epIssued' = issued + n
           /\ activeSeq' = activeSeq \cup Seqs(issued, issued + n)
        /\ pendNew' = pendNew \cup Seqs(issued, issued + n) /\ flightNew' = flightNew
        /\ prevRetireSeq' = prevRetireSeq /\ retireSeq' = retireSeq
    BY <1>1 DEF NewIdentifiers
  <1>3. Lifetimes(retireTimestamp', retireSeq, issued + n)
    <2>1. CASE retireTimestamp' = retireTimestamp
      BY <1>1, <2>1, LifetimesGrow
    <2>2. CASE n # 0
      <3>1. PICK s : s = Sets!Max(Seqs(issued, issued + n))
        OBVIOUS
      <3>2. s \in Nat /\ retireSeq <= s /\ issued <= s /\ s < issued + n
        <4>1. n > 0
          BY <2>2
        <4>2. s = issued + n - 1
          BY <1>1, <3>1, <4>1, LastOf
        <4> QED
          BY <1>1, <4>1, <4>2
      <3>3. TrackLifetime(s)
        BY <1>1, <2>2, <3>1 DEF NewIdentifiers
      <3>4. /\ Lifetimes(Append(retireTimestamp, s), retireSeq, issued + n)
            /\ retireTimestamp # <<>> =>
                   Lifetimes([retireTimestamp EXCEPT ![Len(retireTimestamp)] = s], retireSeq,
                   issued + n)
        BY <1>1, <3>2, LifetimesAdd
      <3> QED
        BY <2>1, <3>3, <3>4 DEF TrackLifetime
    <2> QED
      BY <2>1, <2>2 DEF NewIdentifiers
  <1>4. Seqs(0, issued) \subseteq Seqs(0, issued + n)
        /\ Seqs(issued, issued + n) \subseteq Seqs(0, issued + n)
    BY <1>1 DEF Seqs
  <1>5. flightNew' \subseteq [seq : Ids', rpt : 0 .. retireSeq']
    <2>1. flightNew \subseteq [seq : Ids, rpt : 0 .. retireSeq]
      BY DEF IdTypes
    <2>2. Ids \subseteq Ids'
      BY <1>2, <1>4 DEF Ids
    <2> QED
      BY <1>2, <2>1, <2>2
  <1>6. activeSeq' \subseteq Ids' /\ epCids' \subseteq Ids' /\ pendNew' \subseteq Ids'
    BY <1>1, <1>2, <1>4 DEF IdTypes, Ids
  <1>7. prevRetireSeq' \in Nat /\ prevRetireSeq' <= retireSeq' /\ retireSeq' <= issued'
        /\ issued' \in Nat
    BY <1>1, <1>2 DEF IdTypes
  <1> QED
    BY <1>1, <1>2, <1>3, <1>5, <1>6, <1>7 DEF IdTypes

\* HandleNeed keeps the invariant: the new ids are routed.
LEMMA NeedCInv == CInv /\ HandleNeed => CInv'
  <1> SUFFICES ASSUME CInv, HandleNeed PROVE CInv'
    OBVIOUS
  <1>1. PICK e : e = Head(toEndpoint)
    OBVIOUS
  <1>2. PICK n : n = e.n
    OBVIOUS
  <1>3. /\ toEndpoint # <<>> /\ e.type = "NeedIdentifiers" /\ toEndpoint' = Tail(toEndpoint)
        /\ NewIdentifiers(n) /\ epCids' = epCids \cup Seqs(epIssued, epIssued + n)
    BY <1>1, <1>2 DEF HandleNeed
  <1>4. toEndpoint \in Seq(EventType) /\ issued \in Nat /\ epIssued = issued
    BY DEF CInv, IdTypes
  <1>5. /\ toEndpoint' \in Seq(EventType) /\ e \in EventType
        /\ Queued = Queued' \cup (IF IsRetire(e) THEN {e.seq} ELSE {})
    BY <1>1, <1>3, <1>4, TailQueued DEF Queued
  <1>6. n \in Nat /\ ~IsRetire(e)
    BY <1>2, <1>3, <1>5, EventKinds DEF IsRetire
  <1>7. IdTypes'
    BY <1>3, <1>5, <1>6, IssueTypes DEF CInv
  <1>8. /\ issued' = issued + n /\ cids' = cids /\ pendRetire' = pendRetire
           /\ flightRetire' = flightRetire
    BY <1>3 DEF NewIdentifiers, retireVars
  <1>9. QueueInv(cids')
    BY <1>8 DEF CInv
  <1>10. cids.offset \in Nat /\ \A s \in HeldBy(cids) : s \in Nat
    BY HeldFrom DEF CInv
  <1>11. Routed'
    <2>1. Queued' = Queued
      BY <1>5, <1>6
    <2>2. Seqs(cids.offset, issued + n) = Seqs(cids.offset, issued) \cup Seqs(issued, issued + n)
      BY <1>4, <1>6, <1>10 DEF Seqs, CInv, Routed
    <2>3. cids'.offset < issued'
      BY <1>4, <1>6, <1>8, <1>10 DEF CInv, Routed
    <2> QED
      BY <1>3, <1>4, <1>8, <2>1, <2>2, <2>3 DEF CInv, Routed
  <1> QED
    BY <1>7, <1>9, <1>11 DEF CInv

\* HandleRetire keeps it: the id that is no longer routed lies before the active one.
LEMMA RetireCInv == CInv /\ HandleRetire => CInv'
  <1> SUFFICES ASSUME CInv, HandleRetire PROVE CInv'
    OBVIOUS
  <1>1. PICK e : e = Head(toEndpoint)
    OBVIOUS
  <1>2. PICK n : n = IF Replies(e) THEN 1 ELSE 0
    OBVIOUS
  <1>3. /\ toEndpoint # <<>> /\ e.type = "RetireConnectionId" /\ toEndpoint' = Tail(toEndpoint)
        /\ NewIdentifiers(n) /\ epCids' = (epCids \ {e.seq}) \cup Seqs(epIssued, epIssued + n)
    BY <1>1, <1>2 DEF HandleRetire
  <1>4. toEndpoint \in Seq(EventType) /\ issued \in Nat /\ epIssued = issued
    BY DEF CInv, IdTypes
  <1>5. /\ toEndpoint' \in Seq(EventType)
        /\ Queued = Queued' \cup (IF IsRetire(e) THEN {e.seq} ELSE {})
    BY <1>1, <1>3, <1>4, TailQueued DEF Queued
  <1>6. n \in Nat /\ IsRetire(e) /\ e.seq \in Queued
    BY <1>2, <1>3, <1>5 DEF IsRetire
  <1>7. IdTypes'
    BY <1>3, <1>5, <1>6, IssueTypes DEF CInv
  <1>8. /\ issued' = issued + n /\ cids' = cids /\ pendRetire' = pendRetire
           /\ flightRetire' = flightRetire
    BY <1>3 DEF NewIdentifiers, retireVars
  <1>9. QueueInv(cids')
    BY <1>8 DEF CInv
  <1>10. cids.offset \in Nat /\ \A s \in HeldBy(cids) : s \in Nat
    BY HeldFrom DEF CInv
  <1>11. Routed'
    <2>1. Queued' \subseteq Queued
      BY <1>5
    <2>2. Seqs(cids.offset, issued + n) = Seqs(cids.offset, issued) \cup Seqs(issued, issued + n)
      BY <1>4, <1>6, <1>10 DEF Seqs, CInv, Routed
    <2>3. cids'.offset < issued'
      BY <1>4, <1>6, <1>8, <1>10 DEF CInv, Routed
    <2>4. e.seq \notin Seqs(cids.offset, issued)
      BY <1>4, <1>6, <1>10 DEF CInv, Routed, Seqs
    <2> QED
      BY <1>3, <1>4, <1>8, <2>1, <2>2, <2>3, <2>4 DEF CInv, Routed
  <1> QED
    BY <1>7, <1>9, <1>11 DEF CInv

\* Expire keeps it.
LEMMA ExpireCInv == CInv /\ Expire => CInv'
  <1> SUFFICES ASSUME CInv, Expire PROVE CInv'
    OBVIOUS
  <1>1. PICK e : e = Head(retireTimestamp)
    OBVIOUS
  <1>2. /\ retireTimestamp # <<>> /\ retireTimestamp' = Tail(retireTimestamp)
        /\ \/ prevRetireSeq' = prevRetireSeq /\ retireSeq' = retireSeq
           \/ prevRetireSeq' = retireSeq /\ retireSeq' = e + 1
        /\ toEndpoint' = Append(toEndpoint, Need(1)) \/ toEndpoint' = toEndpoint
        /\ issued' = issued /\ activeSeq' = activeSeq /\ epIssued' = epIssued /\ epCids' = epCids
        /\ cids' = cids /\ pendNew' = pendNew /\ flightNew' = flightNew
        /\ pendRetire' = pendRetire /\ flightRetire' = flightRetire
    BY <1>1 DEF Expire, epVars, newVars, retireVars
  <1>3. /\ issued \in Nat /\ retireSeq \in Nat /\ prevRetireSeq \in Nat
           /\ prevRetireSeq <= retireSeq
        /\ Lifetimes(retireTimestamp, retireSeq, issued) /\ toEndpoint \in Seq(EventType)
        /\ flightNew \subseteq [seq : Ids, rpt : 0 .. retireSeq]
    BY DEF CInv, IdTypes
  <1>4. /\ e \in Nat /\ retireSeq <= e /\ e < issued
        /\ Lifetimes(retireTimestamp', retireSeq, issued)
           /\ Lifetimes(retireTimestamp', e + 1, issued)
    BY <1>1, <1>2, <1>3, LifetimesTail
  <1>5. toEndpoint' \in Seq(EventType) /\ Queued' = Queued
    <2>1. Need(1) \in EventType /\ ~IsRetire(Need(1))
      BY EventKinds
    <2>2. /\ Append(toEndpoint, Need(1)) \in Seq(EventType)
          /\ QueuedIn(Append(toEndpoint, Need(1))) = QueuedIn(toEndpoint)
      BY <1>3, <2>1, AppendQueued
    <2> QED
      BY <1>2, <1>3, <2>2 DEF Queued
  <1>6. retireSeq' \in Nat /\ retireSeq <= retireSeq' /\ retireSeq' <= issued
        /\ prevRetireSeq' \in Nat /\ prevRetireSeq' <= retireSeq'
        /\ Lifetimes(retireTimestamp', retireSeq', issued)
    BY <1>2, <1>3, <1>4 DEF CInv, IdTypes
  <1>7. flightNew' \subseteq [seq : Ids', rpt : 0 .. retireSeq']
    <2>1. 0 .. retireSeq \subseteq 0 .. retireSeq'
      BY <1>3, <1>6
    <2>2. Ids' = Ids
      BY <1>2 DEF Ids
    <2> QED
      BY <1>2, <1>3, <2>1, <2>2
  <1>8. IdTypes'
    BY <1>2, <1>3, <1>5, <1>6, <1>7 DEF CInv, IdTypes, Ids
  <1>9. QueueInv(cids') /\ Routed'
    BY <1>2, <1>5 DEF CInv, Routed
  <1> QED
    BY <1>8, <1>9 DEF CInv

\* So do the frames that are sent.
LEMMA SendCInv == CInv /\ (SendNew \/ SendRetire) => CInv'
  <1> SUFFICES ASSUME CInv, SendNew \/ SendRetire PROVE CInv'
    OBVIOUS
  <1>1. /\ UNCHANGED <<issued, activeSeq, prevRetireSeq, retireSeq, retireTimestamp, epIssued,
           epCids,
                       toEndpoint, cids>>
    BY DEF SendNew, SendRetire, stateVars, epVars
  <1>2. pendNew' \subseteq Ids /\ flightNew' \subseteq [seq : Ids, rpt : 0 .. retireSeq]
    <2>1. /\ pendNew \subseteq Ids /\ flightNew \subseteq [seq : Ids, rpt : 0 .. retireSeq]
          /\ retireSeq \in 0 .. retireSeq
      BY DEF CInv, IdTypes
    <2>2. CASE SendNew
      BY <2>1, <2>2 DEF SendNew
    <2>3. CASE SendRetire
      BY <2>1, <2>3 DEF SendRetire, newVars
    <2> QED
      BY <2>2, <2>3
  <1>3. /\ pendRetire' \subseteq Seqs(0, cids.offset)
           /\ flightRetire' \subseteq Seqs(0, cids.offset)
    <2>1. CASE SendNew
      BY <2>1 DEF SendNew, retireVars, CInv, Routed
    <2>2. CASE SendRetire
      BY <2>2 DEF SendRetire, CInv, Routed
    <2> QED
      BY <2>1, <2>2
  <1>4. IdTypes'
    BY <1>1, <1>2 DEF CInv, IdTypes, Ids
  <1>5. QueueInv(cids') /\ Routed'
    BY <1>1, <1>3 DEF CInv, Routed, Queued
  <1> QED
    BY <1>4, <1>5 DEF CInv

\* The queue may move among the ids that are issued.
LEMMA MoveCInv ==
    ASSUME CInv, QueueInv(cids'), cids'.offset >= cids.offset, cids'.offset < issued,
           HeldBy(cids') \subseteq Ids,
           pendRetire' \subseteq pendRetire \cup Seqs(0, cids'.offset),
           flightRetire' \subseteq flightRetire,
           UNCHANGED <<issued, activeSeq, prevRetireSeq, retireSeq, retireTimestamp, epIssued,
           epCids,
                       toEndpoint>>,
           pendNew' \subseteq Ids, flightNew' \subseteq flightNew
    PROVE  CInv'
  <1>1. IdTypes'
    BY DEF CInv, IdTypes, Ids
  <1>2. /\ issued \in Nat /\ cids.offset \in Nat /\ cids'.offset \in Nat
        /\ \A s \in HeldBy(cids') : s \in Nat /\ s >= cids'.offset
    BY HeldFrom DEF CInv, IdTypes
  <1>3. /\ Seqs(0, cids.offset) \subseteq Seqs(0, cids'.offset)
        /\ Seqs(cids'.offset, issued) \subseteq Seqs(cids.offset, issued)
        /\ HeldBy(cids') \subseteq Seqs(cids'.offset, issued)
    BY <1>2 DEF Seqs, Ids
  <1>4. Routed'
    BY <1>3 DEF CInv, Routed, Queued
  <1> QED
    BY <1>1, <1>4 DEF CInv

\* Changes of the active id and of the reserved one keep the invariant.
LEMMA HolderCInv == CInv /\ (UpdateRemoteCid \/ NextReserved) => CInv'
  <1> SUFFICES ASSUME CInv, UpdateRemoteCid \/ NextReserved PROVE CInv'
    OBVIOUS
  <1>1. /\ UNCHANGED <<issued, activeSeq, prevRetireSeq, retireSeq, retireTimestamp, epIssued,
           epCids,
                       toEndpoint>>
        /\ pendNew' = pendNew /\ flightNew' = flightNew /\ flightRetire' = flightRetire
    BY DEF UpdateRemoteCid, NextReserved, stateVars, epVars, newVars, retireVars
  <1>2. /\ QueueInv(cids) /\ cids.offset \in Nat /\ issued \in Nat /\ HeldBy(cids) \subseteq Ids
        /\ cids.offset < issued /\ \A s \in HeldBy(cids) : s < issued /\ s >= 0
    <2>1. HeldBy(cids) \subseteq Seqs(cids.offset, issued) /\ QueueInv(cids)
      BY DEF CInv, Routed
    <2> QED
      BY <2>1, HeldFrom DEF CInv, Routed, IdTypes, Ids, Seqs
  <1>3. /\ QueueInv(cids') /\ cids'.offset >= cids.offset /\ cids'.offset < issued
        /\ HeldBy(cids') \subseteq Ids
        /\ pendRetire' \subseteq pendRetire \cup Seqs(0, cids'.offset)
    <2>1. CASE UpdateRemoteCid
      <3>1. /\ QueueInv(cids') /\ cids'.offset > cids.offset /\ cids'.offset \in HeldBy(cids)
            /\ HeldBy(cids') = {s \in HeldBy(cids) : s >= cids'.offset}
            /\ pendRetire' = pendRetire \cup Seqs(cids.offset, cids'.offset)
        BY <1>2, <2>1, UpdateExact
      <3>2. cids'.offset \in Nat
        BY <3>1, HeldFrom
      <3>3. Seqs(cids.offset, cids'.offset) \subseteq Seqs(0, cids'.offset)
        BY <1>2, <3>2 DEF Seqs
      <3>4. cids'.offset >= cids.offset
        BY <1>2, <3>1, <3>2
      <3> QED
        BY <1>2, <3>1, <3>3, <3>4
    <2>2. CASE NextReserved
      <3>1. QueueInv(cids') /\ cids'.offset = cids.offset /\ HeldBy(cids') = HeldBy(cids)
        BY <1>2, <2>2, ReserveExact
      <3>2. pendRetire' = pendRetire
        BY <2>2 DEF NextReserved, retireVars
      <3> QED
        BY <1>2, <3>1, <3>2
    <2> QED
      BY <2>1, <2>2
  <1>4. pendNew \subseteq Ids
    BY DEF CInv, IdTypes
  <1> QED
    BY <1>1, <1>3, <1>4, MoveCInv

\* The frame that arrives may be taken as one of the ids issued.
LEMMA FrameIn ==
    ASSUME IdTypes, NEW f \in flightNew
    PROVE  /\ f.seq \in Ids /\ f.rpt \in 0 .. retireSeq /\ f.seq \in Nat /\ f.rpt \in Nat
           /\ f.seq < issued /\ f.rpt <= retireSeq /\ issued \in Nat /\ retireSeq \in Nat
  <1>1. /\ flightNew \subseteq [seq : Ids, rpt : 0 .. retireSeq]
        /\ issued \in Nat /\ retireSeq \in Nat
    BY DEF IdTypes
  <1>2. f.seq \in Ids /\ f.rpt \in 0 .. retireSeq
    BY <1>1
  <1> QED
    BY <1>1, <1>2 DEF Ids, Seqs

\* NEW_CONNECTION_ID, whether it is acknowledged or declared lost, keeps the invariant.
LEMMA NewCInv ==
    ASSUME CInv, NEW f \in flightNew, NewArrives(f) \/ \E arrived \in BOOLEAN : LoseNew(f, arrived)
    PROVE  CInv'
  <1>1. /\ f.seq \in Ids /\ f.seq \in Nat /\ f.rpt \in Nat /\ f.seq < issued /\ issued \in Nat
    BY FrameIn DEF CInv
  <1>2. /\ UNCHANGED <<issued, activeSeq, prevRetireSeq, retireSeq, retireTimestamp, epIssued,
           epCids,
                       toEndpoint>>
        /\ flightRetire' = flightRetire
    BY DEF NewArrives, LoseNew, ReceiveNew, stateVars, epVars, retireVars
  <1>3. pendNew' \subseteq Ids /\ flightNew' \subseteq flightNew
    <2>1. pendNew \subseteq Ids
      BY DEF CInv, IdTypes
    <2> QED
      BY <1>1, <2>1 DEF NewArrives, LoseNew, RequeueNew
  <1>4. /\ QueueInv(cids) /\ cids.offset \in Nat
        /\ cids.offset < issued /\ \A s \in HeldBy(cids) : s < issued /\ s \in Ids
    <2>1. HeldBy(cids) \subseteq Seqs(cids.offset, issued) /\ QueueInv(cids)
      BY DEF CInv, Routed
    <2> QED
      BY <1>1, <2>1, HeldFrom DEF CInv, Routed, Ids, Seqs
  <1>5. /\ QueueInv(cids') /\ cids'.offset >= cids.offset /\ cids'.offset < issued
        /\ HeldBy(cids') \subseteq Ids
        /\ pendRetire' \subseteq pendRetire \cup Seqs(0, cids'.offset)
    <2>1. CASE ReceiveNew(f)
      <3>1. /\ QueueInv(cids') /\ cids'.offset >= cids.offset
            /\ cids'.offset = cids.offset \/ cids'.offset <= f.seq \/ cids'.offset \in HeldBy(cids)
            /\ HeldBy(cids') \subseteq {s \in HeldBy(cids) \cup {f.seq} : s >= cids'.offset}
            /\ pendRetire' \subseteq pendRetire \cup Seqs(0, cids'.offset)
        BY <1>1, <1>4, <2>1, ReceiveExact
      <3>2. cids'.offset \in Nat
        BY <3>1, HeldFrom
      <3>3. cids'.offset < issued
        BY <1>1, <1>4, <3>1, <3>2
      <3> QED
        BY <1>1, <1>4, <3>1, <3>3
    <2>2. CASE cids' = cids /\ pendRetire' = pendRetire
      BY <1>4, <2>2
    <2> QED
      BY <2>1, <2>2 DEF NewArrives, LoseNew, retireVars
  <1> QED
    BY <1>2, <1>3, <1>5, MoveCInv

\* So does RETIRE_CONNECTION_ID: what the issuer's endpoint will stop to route lies before
\* the active id.
LEMMA RetireArrivesCInv ==
    ASSUME CInv, NEW seq \in flightRetire,
           RetireArrives(seq) \/ \E arrived \in BOOLEAN : LoseRetire(seq, arrived)
    PROVE  CInv'
  <1>1. /\ UNCHANGED <<issued, prevRetireSeq, retireSeq, retireTimestamp, epIssued, epCids, cids,
                       pendNew, flightNew>>
    BY DEF RetireArrives, LoseRetire, ReceiveRetire, stateVars, epVars, newVars
  <1>2. seq \in Seqs(0, cids.offset) /\ cids.offset \in Nat /\ toEndpoint \in Seq(EventType)
    BY HeldFrom DEF CInv, Routed, IdTypes
  <1>3. seq \in Nat
    BY <1>2 DEF Seqs
  <1>4. pendRetire' \subseteq Seqs(0, cids.offset) /\ flightRetire' \subseteq Seqs(0, cids.offset)
    BY <1>2 DEF RetireArrives, LoseRetire, CInv, Routed
  <1>5. /\ activeSeq' \subseteq activeSeq /\ toEndpoint' \in Seq(EventType)
        /\ Queued' \subseteq Queued \cup {seq}
    <2>1. CASE activeSeq' = activeSeq /\ toEndpoint' = toEndpoint
      BY <1>2, <2>1 DEF Queued
    <2>2. CASE activeSeq' = activeSeq \ {seq}
               /\ toEndpoint' = Append(toEndpoint, Retire(seq, Allow(activeSeq')))
      <3>1. PICK m : m = Allow(activeSeq')
        OBVIOUS
      <3>2. m \in BOOLEAN
        BY <3>1 DEF Allow
      <3>3. PICK e : e = Retire(seq, m)
        OBVIOUS
      <3>4. e \in EventType /\ IsRetire(e) /\ e.seq = seq
        BY <1>3, <3>2, <3>3, EventKinds, Zenon
      <3>5. toEndpoint' = Append(toEndpoint, e)
        BY <2>2, <3>1, <3>3, Zenon
      <3>6. /\ toEndpoint' \in Seq(EventType)
            /\ QueuedIn(toEndpoint') = QueuedIn(toEndpoint) \cup {seq}
        BY <1>2, <3>4, <3>5, AppendQueued
      <3> QED
        BY <2>2, <3>6 DEF Queued
    <2>3. ReceiveRetire(seq) => \/ activeSeq' = activeSeq /\ toEndpoint' = toEndpoint
                                \/ /\ activeSeq' = activeSeq \ {seq}
                                   /\ toEndpoint' =
                                            Append(toEndpoint, Retire(seq, Allow(activeSeq')))
      BY DEF ReceiveRetire
    <2>4. ReceiveRetire(seq) \/ (activeSeq' = activeSeq /\ toEndpoint' = toEndpoint)
      BY DEF RetireArrives, LoseRetire, stateVars
    <2> QED
      BY <2>1, <2>2, <2>3, <2>4
  <1>6. IdTypes'
    BY <1>1, <1>5 DEF CInv, IdTypes, Ids
  <1>7. QueueInv(cids') /\ Routed'
    BY <1>1, <1>2, <1>4, <1>5 DEF CInv, Routed
  <1> QED
    BY <1>6, <1>7 DEF CInv

\* The invariant is inductive.
LEMMA NextCInv == CInv /\ [Next]_vars => CInv'
  <1> SUFFICES ASSUME CInv, [Next]_vars PROVE CInv'
    OBVIOUS
  <1>1. CASE HandleNeed \/ HandleRetire \/ Expire
    BY <1>1, NeedCInv, RetireCInv, ExpireCInv
  <1>2. CASE SendNew \/ SendRetire \/ UpdateRemoteCid \/ NextReserved
    BY <1>2, SendCInv, HolderCInv
  <1>3. CASE \E f \in flightNew : NewArrives(f) \/ \E arrived \in BOOLEAN : LoseNew(f, arrived)
    BY <1>3, NewCInv
  <1>4. CASE \E seq \in flightRetire :
                 RetireArrives(seq) \/ \E arrived \in BOOLEAN : LoseRetire(seq, arrived)
    BY <1>4, RetireArrivesCInv
  <1>5. CASE UNCHANGED vars
    BY <1>5 DEF CInv, IdTypes, Ids, Routed, Queued, vars, stateVars, epVars, newVars, retireVars
  <1> QED
    BY <1>1, <1>2, <1>3, <1>4, <1>5, Zenon DEF Next

\* The queue keeps every id in its place, and what it holds is routed.
LEMMA QueueExact == CInv => WindowExact /\ HeldIsRouted
  <1> SUFFICES ASSUME CInv PROVE WindowExact /\ HeldIsRouted
    OBVIOUS
  <1>1. /\ QueueInv(cids) /\ cids \in QueueType /\ cids.cursor \in Slots /\ cids.offset \in Nat
        /\ Window(cids.buffer, cids.cursor, cids.offset) /\ QueueLen \in Nat /\ QueueLen > 0
    BY Room DEF CInv, QueueInv, QueueType
  <1>2. At(cids, 0) = cids.offset
    <2>1. 0 \in Slots
      BY <1>1 DEF Slots
    <2>2. (cids.cursor + 0) % QueueLen =
              IF cids.cursor + 0 < QueueLen THEN cids.cursor + 0 ELSE cids.cursor + 0 - QueueLen
      BY <1>1, <2>1, StepFrom
    <2>3. (cids.cursor + 0) % QueueLen = cids.cursor
      BY <1>1, <2>2 DEF Slots
    <2> QED
      BY <1>1, <2>3 DEF At, Slot, QueueInv
  <1>3. \A i \in 0 .. (QueueLen - 1) : At(cids, i) \in {None, cids.offset + i}
    BY <1>1 DEF At, Slot, Window, Slots
  <1>4. At(cids, ReservedLen(cids)) # None
    BY <1>1, ReservedAt DEF At, QueueInv
  <1>5. HeldIsRouted
    BY DEF HeldIsRouted, Held, CInv, Routed, HeldBy, HeldIn, Slots
  <1> QED
    BY <1>2, <1>3, <1>4, <1>5 DEF WindowExact

\* The step that moves the active id skips the reserved ones.
LEMMA SkipsReserved ==
    ASSUME CInv, [Next]_vars, cids'.offset # cids.offset
    PROVE  cids'.offset > cids.offset + ReservedLen(cids) \/ cids.offset < retireSeq
  <1>1. QueueInv(cids) /\ cids.offset \in Nat
    BY HeldFrom DEF CInv
  <1>2. CASE UpdateRemoteCid
    BY <1>1, <1>2, UpdateExact
  <1>3. CASE NextReserved
    BY <1>1, <1>3, ReserveExact
  <1>4. ASSUME NEW f \in flightNew, ReceiveNew(f)
        PROVE  cids'.offset > cids.offset + ReservedLen(cids) \/ cids.offset < retireSeq
    <2>1. f.seq \in Nat /\ f.rpt \in Nat /\ f.rpt <= retireSeq /\ retireSeq \in Nat
      BY FrameIn DEF CInv
    <2>2. cids'.offset > cids.offset + ReservedLen(cids) \/ cids.offset < f.rpt
      BY <1>1, <1>4, <2>1, ReceiveExact
    <2> QED
      BY <1>1, <2>1, <2>2
  <1>5. CASE cids' = cids
    BY <1>5
  <1>6. HandleNeed \/ HandleRetire => cids' = cids
    BY DEF HandleNeed, HandleRetire, NewIdentifiers
  <1>7. Expire \/ SendNew \/ SendRetire \/ UNCHANGED vars => cids' = cids
    BY DEF Expire, SendNew, SendRetire, vars
  <1>8. \A f \in flightNew : NewArrives(f) \/ (\E arrived \in BOOLEAN : LoseNew(f, arrived)) =>
            ReceiveNew(f) \/ cids' = cids
    BY DEF NewArrives, LoseNew
  <1>9. \A seq \in flightRetire :
            RetireArrives(seq) \/ (\E arrived \in BOOLEAN : LoseRetire(seq, arrived))
            => cids' = cids
    BY DEF RetireArrives, LoseRetire, ReceiveRetire
  <1> QED
    BY <1>2, <1>3, <1>4, <1>5, <1>6, <1>7, <1>8, <1>9, Zenon DEF Next

\* For any number of ids, moves, expiries and losses, and whatever order frames and events
\* arrive in: the ring buffer of CidQueue keeps every id in its place, every id it holds is
\* routed by the endpoint of the issuer, and a reserved id never becomes the active one
\* unless the issuer retires the active one.
THEOREM CidQueueTheorem == Spec => [](WindowExact /\ HeldIsRouted) /\ ReservedSkipped
  <1>1. Init => CInv
    BY InitCInv
  <1>2. CInv /\ [Next]_vars => CInv'
    BY NextCInv
  <1>3. CInv => WindowExact /\ HeldIsRouted
    BY QueueExact
  <1>4. CInv /\ [Next]_vars =>
            [cids'.offset # cids.offset =>
                cids'.offset > cids.offset + ReservedLen(cids) \/ cids.offset < retireSeq]_vars
    BY SkipsReserved
  <1> QED
    BY <1>1, <1>2, <1>3, <1>4, PTL DEF Spec, ReservedSkipped

-----------------------------------------------------------------------------
(* The events that wait for the endpoint                                   *)

\* What an event weighs
LEMMA WeightType ==
    ASSUME NEW Q \in Seq(EventType), NEW E, NEW i \in 1 .. Len(Q)
    PROVE  Weight(Q, E, i) \in Nat
  <1>1. Q[i] \in EventType
    OBVIOUS
  <1>2. IsRetire(Q[i]) \/ Q[i].n \in Nat
    BY <1>1, EventKinds
  <1>3. (IF Rewarded(Q, E, i) THEN 1 ELSE 0) \in Nat
    OBVIOUS
  <1> QED
    BY <1>2, <1>3 DEF Weight

\* The others weigh the same when the first one is handled.
LEMMA WeightTail ==
    ASSUME NEW Q \in Seq(EventType), Q # <<>>, NEW E, NEW F,
           \A s \in QueuedIn(Q) :
               s \in F <=> s \in E /\ ~(IsRetire(Head(Q)) /\ s = Head(Q).seq),
           NEW i \in 1 .. Len(Tail(Q))
    PROVE  Weight(Tail(Q), F, i) = Weight(Q, E, i + 1)
  <1> DEFINE P == Tail(Q)
             e == Head(Q)
  <1>1. /\ P \in Seq(EventType) /\ Len(Q) = Len(P) + 1 /\ Len(P) \in Nat
        /\ e = Q[1] /\ e \in EventType /\ \A j \in 1 .. Len(P) : P[j] = Q[j + 1]
    OBVIOUS
  <1>2. i \in 1 .. Len(P) /\ \A s \in QueuedIn(Q) : s \in F <=> s \in E /\ ~(IsRetire(e)
        /\ s = e.seq)
    OBVIOUS
  <1> HIDE DEF P, e
  <1>3. P[i] = Q[i + 1] /\ i + 1 \in 1 .. Len(Q)
    BY <1>1, <1>2
  <1>4. ASSUME IsRetire(P[i]) PROVE Rewarded(P, F, i) <=> Rewarded(Q, E, i + 1)
    <2> DEFINE s == P[i].seq
    <2>1. s \in QueuedIn(Q)
      BY <1>3, <1>4 DEF QueuedIn
    <2>2. s \in F <=> s \in E /\ ~(IsRetire(e) /\ s = e.seq)
      BY <1>2, <2>1
    <2>3. (\A j \in 1 .. ((i + 1) - 1) : IsRetire(Q[j]) => Q[j].seq # s)
            <=> /\ (IsRetire(e) => e.seq # s)
                /\ (\A j \in 1 .. (i - 1) : IsRetire(P[j]) => P[j].seq # s)
      <3>1. \A j \in 1 .. (i - 1) : P[j] = Q[j + 1] /\ j + 1 \in 1 .. ((i + 1) - 1)
        BY <1>1, <1>2
      <3>2. \A j \in 1 .. ((i + 1) - 1) : j = 1 \/ (j - 1 \in 1 .. (i - 1) /\ P[j - 1] = Q[j])
        BY <1>1, <1>2
      <3>3. 1 \in 1 .. ((i + 1) - 1)
        BY <1>2
      <3> HIDE DEF s
      <3>4. ASSUME \A j \in 1 .. ((i + 1) - 1) : IsRetire(Q[j]) => Q[j].seq # s
            PROVE  /\ IsRetire(e) => e.seq # s
                   /\ \A j \in 1 .. (i - 1) : IsRetire(P[j]) => P[j].seq # s
        BY <1>1, <3>1, <3>3, <3>4, Zenon
      <3>5. ASSUME IsRetire(e) => e.seq # s,
                   \A j \in 1 .. (i - 1) : IsRetire(P[j]) => P[j].seq # s
            PROVE  \A j \in 1 .. ((i + 1) - 1) : IsRetire(Q[j]) => Q[j].seq # s
        BY <1>1, <3>2, <3>5, Zenon
      <3> QED
        BY <3>4, <3>5
    <2>4. Rewarded(P, F, i) <=> P[i].more /\ s \in F /\ (\A j \in 1 .. (i - 1) : IsRetire(P[j])
          => P[j].seq # s)
      BY DEF Rewarded
    <2>5. Rewarded(Q, E, i + 1) <=>
              P[i].more /\ s \in E /\ (\A j \in 1 .. ((i + 1) - 1) : IsRetire(Q[j]) => Q[j].seq # s)
      BY <1>3, Zenon DEF Rewarded
    <2> HIDE DEF s
    <2> QED
      BY <2>2, <2>3, <2>4, <2>5, Zenon
  <1>5. CASE IsRetire(P[i])
    BY <1>3, <1>4, <1>5 DEF Weight, P
  <1>6. CASE ~IsRetire(P[i])
    BY <1>3, <1>6 DEF Weight, P
  <1> QED
    BY <1>5, <1>6

\* The first event is handled.
LEMMA LedgerTail ==
    ASSUME NEW Q \in Seq(EventType), Q # <<>>, NEW E, NEW F, NEW first \in Nat,
           \A s \in QueuedIn(Q) :
               s \in F <=> s \in E /\ ~(IsRetire(Head(Q)) /\ s = Head(Q).seq),
           NEW start, Ledger(start, Q, E, first)
    PROVE  \E new : /\ Ledger(new, Tail(Q), F, first + Weight(Q, E, 1))
                    /\ new[Len(Tail(Q)) + 1] = start[Len(Q) + 1]
                    /\ first + Weight(Q, E, 1) <= start[Len(Q) + 1]
  <1> DEFINE P == Tail(Q)
             new == [i \in 1 .. (Len(P) + 1) |-> start[i + 1]]
  <1>1. P \in Seq(EventType) /\ Len(Q) = Len(P) + 1 /\ Len(P) \in Nat
    OBVIOUS
  <1>2. \A i \in 1 .. Len(P) : Weight(P, F, i) = Weight(Q, E, i + 1)
    BY WeightTail
  <1> HIDE DEF P
  <1>3. start \in [1 .. (Len(Q) + 1) -> Nat] /\ start[1] = first
    BY DEF Ledger
  <1>4. \A i \in 1 .. (Len(P) + 1) : i + 1 \in 1 .. (Len(Q) + 1) /\ new[i] = start[i + 1]
        /\ new[i] \in Nat
    BY <1>1, <1>3
  <1>5. new \in [1 .. (Len(P) + 1) -> Nat]
    BY <1>4
  <1> HIDE DEF new
  <1>6. new[1] = first + Weight(Q, E, 1) /\ new[Len(P) + 1] = start[Len(Q) + 1]
    BY <1>1, <1>3, <1>4 DEF Ledger
  <1>7. \A i \in 1 .. Len(P) : new[i + 1] = new[i] + Weight(P, F, i)
    <2> TAKE i \in 1 .. Len(P)
    <2>1. i + 1 \in 1 .. Len(Q) /\ i \in 1 .. (Len(P) + 1) /\ i + 1 \in 1 .. (Len(P) + 1)
      BY <1>1
    <2>2. start[(i + 1) + 1] = start[i + 1] + Weight(Q, E, i + 1)
      BY <2>1 DEF Ledger
    <2> QED
      BY <1>2, <1>4, <2>1, <2>2
  <1>8. \A i \in 1 .. (Len(P) + 1) : new[i] <= new[Len(P) + 1]
    BY <1>1, <1>4, <1>6 DEF Ledger
  <1>9. 1 \in 1 .. (Len(P) + 1)
    BY <1>1
  <1>10. Ledger(new, P, F, first + Weight(Q, E, 1))
    BY <1>5, <1>6, <1>7, <1>8 DEF Ledger
  <1>11. first + Weight(Q, E, 1) <= start[Len(Q) + 1]
    BY <1>6, <1>8, <1>9
  <1> QED
    BY <1>6, <1>10, <1>11 DEF P

\* What an event weighs that is appended
WeightOf(Q, E, e) ==
    IF ~IsRetire(e) THEN e.n ELSE IF e.more /\ e.seq \in E \ QueuedIn(Q) THEN 1 ELSE 0

\* An event is appended.
LEMMA LedgerAppend ==
    ASSUME NEW Q \in Seq(EventType), NEW e \in EventType, NEW E, NEW first \in Nat,
           NEW start, Ledger(start, Q, E, first)
    PROVE  \E new : /\ Ledger(new, Append(Q, e), E, first)
                    /\ new[Len(Append(Q, e)) + 1] = start[Len(Q) + 1] + WeightOf(Q, E, e)
  <1> DEFINE P == Append(Q, e)
  <1>1. /\ P \in Seq(EventType) /\ Len(P) = Len(Q) + 1 /\ Len(Q) \in Nat
        /\ P[Len(P)] = e /\ \A i \in 1 .. Len(Q) : P[i] = Q[i]
    OBVIOUS
  <1> HIDE DEF P
  <1>2. PICK w : w = WeightOf(Q, E, e)
    OBVIOUS
  <1>3. Len(P) \in 1 .. Len(P) /\ \A i \in 1 .. Len(Q) : i \in 1 .. Len(P)
    BY <1>1
  <1>4. Weight(P, E, Len(P)) = w
    <2>1. Rewarded(P, E, Len(P)) <=> e.more /\ e.seq \in E \ QueuedIn(Q)
      <3>1. Len(P) - 1 = Len(Q)
        BY <1>1
      <3>2. Rewarded(P, E, Len(P)) <=> e.more /\ e.seq \in E
                /\ \A j \in 1 .. Len(Q) : IsRetire(P[j]) => P[j].seq # e.seq
        BY <1>1, <3>1, Zenon DEF Rewarded
      <3>3. (\A j \in 1 .. Len(Q) : IsRetire(P[j]) => P[j].seq # e.seq)
              <=> (\A j \in 1 .. Len(Q) : IsRetire(Q[j]) => Q[j].seq # e.seq)
        BY <1>1, Zenon
      <3>4. (\A j \in 1 .. Len(Q) : IsRetire(Q[j]) => Q[j].seq # e.seq) <=> e.seq \notin QueuedIn(Q)
        BY DEF QueuedIn
      <3> QED
        BY <3>2, <3>3, <3>4, Zenon
    <2>2. Weight(P, E, Len(P)) = IF ~IsRetire(e) THEN e.n
              ELSE IF Rewarded(P, E, Len(P)) THEN 1 ELSE 0
      BY <1>1, Zenon DEF Weight
    <2> QED
      BY <1>2, <2>1, <2>2, Zenon DEF WeightOf
  <1>5. w \in Nat
    BY <1>1, <1>3, <1>4, WeightType
  <1>6. \A i \in 1 .. Len(Q) : Weight(P, E, i) = Weight(Q, E, i)
    <2> TAKE i \in 1 .. Len(Q)
    <2>1. P[i] = Q[i] /\ \A j \in 1 .. (i - 1) : P[j] = Q[j]
      BY <1>1
    <2>2. Rewarded(P, E, i) <=> Rewarded(Q, E, i)
      BY <2>1, Zenon DEF Rewarded
    <2> QED
      BY <2>1, <2>2, Zenon DEF Weight
  <1> DEFINE top == start[Len(Q) + 1]
             new == [i \in 1 .. (Len(P) + 1) |-> IF i = Len(P) + 1 THEN top + w ELSE start[i]]
  <1>7. start \in [1 .. (Len(Q) + 1) -> Nat] /\ start[1] = first
    BY DEF Ledger
  <1>8. top \in Nat /\ \A i \in 1 .. (Len(Q) + 1) : start[i] \in Nat
    BY <1>1, <1>7
  <1>9. \A i \in 1 .. (Len(Q) + 1) : start[i] <= top
    BY DEF Ledger
  <1>10. start[Len(Q) + 1] = top
    OBVIOUS
  <1> HIDE DEF top
  <1>11. /\ \A i \in 1 .. (Len(P) + 1) : i \in 1 .. (Len(Q) + 1) \/ i = Len(P) + 1
         /\ \A i \in 1 .. (Len(Q) + 1) : i \in 1 .. (Len(P) + 1) /\ i # Len(P) + 1
         /\ Len(P) + 1 \in 1 .. (Len(P) + 1)
    BY <1>1
  <1>12. top + w \in Nat
    BY <1>5, <1>8
  <1>13. /\ \A i \in 1 .. (Len(Q) + 1) : new[i] = start[i] /\ new[i] \in Nat
            /\ i \in 1 .. (Len(P) + 1)
        /\ new[Len(P) + 1] = top + w
        /\ \A i \in 1 .. (Len(P) + 1) : i \in 1 .. (Len(Q) + 1) \/ i = Len(P) + 1
    BY <1>8, <1>11
  <1>14. new \in [1 .. (Len(P) + 1) -> Nat]
    <2>1. \A i \in 1 .. (Len(P) + 1) : (IF i = Len(P) + 1 THEN top + w ELSE start[i]) \in Nat
      BY <1>8, <1>11, <1>12
    <2> QED
      BY <2>1
  <1> HIDE DEF new
  <1>15. new[1] = first
    BY <1>1, <1>7, <1>13
  <1>16. \A i \in 1 .. Len(P) : new[i + 1] = new[i] + Weight(P, E, i)
    <2> TAKE i \in 1 .. Len(P)
    <2>1. CASE i \in 1 .. Len(Q)
      <3>1. start[i + 1] = start[i] + Weight(Q, E, i)
        BY <2>1 DEF Ledger
      <3>2. i \in 1 .. (Len(Q) + 1) /\ i + 1 \in 1 .. (Len(Q) + 1)
        BY <1>1, <2>1
      <3> QED
        BY <1>6, <1>13, <2>1, <3>1, <3>2
    <2>2. CASE i = Len(P)
      <3>1. i \in 1 .. (Len(Q) + 1) /\ i = Len(Q) + 1
        BY <1>1, <2>2
      <3>2. new[i] = top /\ new[i + 1] = top + w
        BY <1>13, <1>10, <2>2, <3>1
      <3> QED
        BY <1>4, <2>2, <3>2
    <2> QED
      BY <1>1, <2>1, <2>2
  <1>17. \A i \in 1 .. (Len(P) + 1) : new[i] <= new[Len(P) + 1]
    <2> TAKE i \in 1 .. (Len(P) + 1)
    <2>1. CASE i \in 1 .. (Len(Q) + 1)
      BY <1>5, <1>8, <1>13, <1>9, <2>1
    <2>2. CASE i = Len(P) + 1
      BY <1>5, <1>8, <1>13, <2>2
    <2> QED
      BY <1>13, <2>1, <2>2
  <1>18. Ledger(new, P, E, first)
    BY <1>14, <1>15, <1>16, <1>17 DEF Ledger
  <1>19. new[Len(P) + 1] = start[Len(Q) + 1] + WeightOf(Q, E, e)
    BY <1>2, <1>13, <1>10
  <1> QED
    BY <1>18, <1>19, Zenon DEF P

-----------------------------------------------------------------------------
(* How many ids there are                                                  *)

\* The size of a range of ids
LEMMA SeqsSize ==
    ASSUME NEW a \in Nat, NEW b \in Nat, a <= b
    PROVE  IsFiniteSet(Seqs(a, b)) /\ Cardinality(Seqs(a, b)) = b - a
  <1> DEFINE c == b - 1
  <1>1. a \in Int /\ c \in Int
    OBVIOUS
  <1>2. IsFiniteSet(a .. c) /\ Cardinality(a .. c) = IF a > c THEN 0 ELSE c - a + 1
    BY <1>1, FS_Interval
  <1> QED
    BY <1>2 DEF Seqs

\* The ids in use are finitely many.
LEMMA ActiveFinite == IdTypes => IsFiniteSet(activeSeq) /\ Cardinality(activeSeq) \in Nat
  <1> SUFFICES ASSUME IdTypes PROVE IsFiniteSet(activeSeq) /\ Cardinality(activeSeq) \in Nat
    OBVIOUS
  <1>1. IsFiniteSet(Ids) /\ activeSeq \subseteq Ids
    BY SeqsSize DEF IdTypes, Ids
  <1>2. IsFiniteSet(activeSeq)
    BY <1>1, FS_Subset
  <1> QED
    BY <1>2, FS_CardinalityType

\* The count stands when the first event is handled: what it weighs is issued.
LEMMA HandledCounted ==
    ASSUME CInv, Counted, NEW n \in Nat, toEndpoint # <<>>, toEndpoint' = Tail(toEndpoint),
           NewIdentifiers(n), n = Weight(toEndpoint, epCids, 1),
           \A s \in Ids : s \in epCids' <=>
               s \in epCids /\ ~(IsRetire(Head(toEndpoint)) /\ s = Head(toEndpoint).seq)
    PROVE  Counted'
  <1>1. PICK Q : Q = toEndpoint
    OBVIOUS
  <1>2. PICK start : Ledger(start, Q, epCids, issued) /\ Balanced(start[Len(Q) + 1])
    BY <1>1 DEF Counted
  <1>3. /\ Q \in Seq(EventType) /\ Q # <<>> /\ issued \in Nat /\ epIssued = issued
           /\ activeSeq \subseteq Ids
        /\ cids.offset \in Nat /\ cids.offset < issued /\ Queued \subseteq Seqs(0, cids.offset)
    BY <1>1, HeldFrom DEF CInv, IdTypes, Routed
  <1>4. QueuedIn(Q) \subseteq Ids
    BY <1>1, <1>3 DEF Queued, Ids, Seqs
  <1>5. \A s \in QueuedIn(Q) : s \in epCids' <=> s \in epCids /\ ~(IsRetire(Head(Q))
        /\ s = Head(Q).seq)
    BY <1>1, <1>4
  <1>6. PICK new : /\ Ledger(new, Tail(Q), epCids', issued + n)
                   /\ new[Len(Tail(Q)) + 1] = start[Len(Q) + 1]
                   /\ issued + n <= start[Len(Q) + 1]
    BY <1>1, <1>2, <1>3, <1>5, LedgerTail
  <1>7. /\ issued' = issued + n /\ activeSeq' = activeSeq \cup Seqs(issued, issued + n)
        /\ prevRetireSeq' = prevRetireSeq /\ retireSeq' = retireSeq
    BY <1>3 DEF NewIdentifiers
  <1>8. Cardinality(activeSeq') = Cardinality(activeSeq) + n /\ Cardinality(activeSeq) \in Nat
    <2> DEFINE x == issued + n
               N == Seqs(issued, x)
    <2>1. IsFiniteSet(N) /\ Cardinality(N) = n
      <3>1. x \in Nat /\ issued <= x /\ x - issued = n
        BY <1>3
      <3> HIDE DEF x
      <3> QED
        BY <1>3, <3>1, SeqsSize
    <2>2. IsFiniteSet(activeSeq) /\ Cardinality(activeSeq) \in Nat
      BY ActiveFinite DEF CInv
    <2>3. activeSeq \cap N = {}
      BY <1>3 DEF Ids, Seqs
    <2>4. Cardinality({}) = 0
      BY FS_EmptySet
    <2>5. activeSeq' = activeSeq \cup N
      BY <1>7
    <2> HIDE DEF N
    <2>6. Cardinality(activeSeq \cup N) =
              Cardinality(activeSeq) + Cardinality(N) - Cardinality(activeSeq \cap N)
      BY <2>1, <2>2, FS_Union
    <2> QED
      <3>1. Cardinality(activeSeq \cap N) = 0
        BY <2>3, <2>4, Zenon
      <3>2. Cardinality(activeSeq \cup N) = Cardinality(activeSeq) + n
        BY <2>1, <2>2, <2>6, <3>1
      <3> QED
        BY <2>2, <2>5, <3>2, Zenon
  <1> DEFINE t == start[Len(Q) + 1]
  <1>9. t \in Nat
    BY <1>2, <1>3 DEF Ledger
  <1>10. Len(Tail(Q)) \in Nat /\ (Len(Tail(Q)) = 0 \/ Tail(Q)[Len(Tail(Q))] = Q[Len(Q)])
    <2>1. Len(Q) \in Nat /\ Len(Q) > 0
      BY <1>3
    <2>2. Len(Tail(Q)) = Len(Q) - 1 /\ \A i \in 1 .. Len(Tail(Q)) : Tail(Q)[i] = Q[i + 1]
      BY <1>3
    <2>3. Len(Tail(Q)) = 0 \/ (Len(Tail(Q)) \in 1 .. Len(Tail(Q)) /\ Len(Tail(Q)) + 1 = Len(Q))
      <3>1. PICK a : a = Len(Tail(Q))
        OBVIOUS
      <3>2. a = Len(Q) - 1
        BY <2>2, <3>1, Zenon
      <3>3. a = 0 \/ (a \in 1 .. a /\ a + 1 = Len(Q))
        BY <2>1, <3>2
      <3> QED
        BY <3>1, <3>3, Zenon
    <2>4. Len(Tail(Q)) \in Nat
      BY <2>1, <2>2
    <2> QED
      BY <2>2, <2>3, <2>4
  <1>11. Len(Tail(Q)) = 0 => t = issued + n
    <2>1. new[1] = issued + n /\ new[Len(Tail(Q)) + 1] = t
      BY <1>6 DEF Ledger
    <2>2. Len(Tail(Q)) = 0 => Len(Tail(Q)) + 1 = 1
      OBVIOUS
    <2> QED
      BY <2>1, <2>2
  <1>12. Balanced(t) /\ issued + n <= t
    BY <1>2, <1>6
  <1> HIDE DEF t
  <1>13. Balanced(t)'
    <2>1. CASE Cardinality(activeSeq) + (t - issued) = Limit
      <3>1. Cardinality(activeSeq') + (t - issued') = Limit
        BY <1>3, <1>7, <1>8, <1>9, <2>1
      <3> QED
        BY <3>1 DEF Balanced
    <2>2. CASE /\ Cardinality(activeSeq) + (t - issued) = Limit + 1
               /\ activeSeq \cap Seqs(prevRetireSeq, retireSeq) # {}
               /\ t = issued \/ ~IsRetire(Q[Len(Q)])
      <3>1. Cardinality(activeSeq') + (t - issued') = Limit + 1
        BY <1>3, <1>7, <1>8, <1>9, <2>2
      <3>2. activeSeq' \cap Seqs(prevRetireSeq', retireSeq') # {}
        BY <1>7, <2>2
      <3>3. t = issued' \/ ~IsRetire(Q[Len(Q)])
        BY <1>3, <1>7, <1>9, <1>12, <2>2
      <3>4. t = issued' \/ ~IsRetire(toEndpoint'[Len(toEndpoint')])
        BY <1>1, <1>7, <1>10, <1>11, <3>3
      <3> QED
        BY <3>1, <3>2, <3>4 DEF Balanced
    <2> QED
      BY <1>1, <1>12, <2>1, <2>2 DEF Balanced
  <1>14. Ledger(new, toEndpoint', epCids', issued') /\ new[Len(toEndpoint') + 1] = t
    BY <1>1, <1>6, <1>7 DEF t
  <1>15. Ledger(new, toEndpoint, epCids, issued)' /\ Balanced(new[Len(toEndpoint) + 1])'
    BY <1>13, <1>14, Zenon
  <1> QED
    BY <1>15, Zenon DEF Counted

\* The count stands when what it is made of does.
LEMMA SameCounted ==
    ASSUME Counted, UNCHANGED <<issued, activeSeq, prevRetireSeq, retireSeq, epCids, toEndpoint>>
    PROVE  Counted'
  BY DEF Counted, Balanced

\* The count stands when an entry expires: one more id is asked for, unless an older expiry
\* is still not answered, in which case nothing is retired.
LEMMA ExpireCounted ==
    ASSUME CInv, Counted, Expire
    PROVE  Counted'
  <1>1. PICK Q : Q = toEndpoint
    OBVIOUS
  <1>2. PICK start : Ledger(start, Q, epCids, issued) /\ Balanced(start[Len(Q) + 1])
    BY <1>1 DEF Counted
  <1>3. Q \in Seq(EventType) /\ issued \in Nat /\ Len(Q) \in Nat
    BY <1>1 DEF CInv, IdTypes
  <1>4. issued' = issued /\ activeSeq' = activeSeq /\ epCids' = epCids
    BY DEF Expire, epVars
  <1> DEFINE t == start[Len(Q) + 1]
             entry == Head(retireTimestamp)
             unretired == activeSeq \cap Seqs(prevRetireSeq, retireSeq) # {}
             needed == activeSeq \cap Seqs(retireSeq, entry + 1) # {}
  <1>5. t \in Nat /\ Balanced(t)
    BY <1>2, <1>3 DEF Ledger
  <1>6. Cardinality(activeSeq) \in Nat /\ Limit \in Nat
    BY ActiveFinite, LimitType DEF CInv
  <1>7. CASE unretired
    <2>1. UNCHANGED <<issued, activeSeq, prevRetireSeq, retireSeq, epCids, toEndpoint>>
      BY <1>4, <1>7, Zenon DEF Expire
    <2> QED
      BY <2>1, SameCounted
  <1>8. ASSUME ~unretired
        PROVE  Cardinality(activeSeq) + (t - issued) = Limit
    BY <1>5, <1>8 DEF Balanced
  <1>9. CASE ~unretired /\ ~needed
    <2>1. toEndpoint' = toEndpoint
      BY <1>9, Zenon DEF Expire
    <2>2. Balanced(t)'
      BY <1>4, <1>8, <1>9 DEF Balanced
    <2>3. Ledger(start, toEndpoint, epCids, issued)' /\ Balanced(start[Len(toEndpoint) + 1])'
      BY <1>1, <1>2, <1>4, <2>1, <2>2
    <2> QED
      BY <2>3, Zenon DEF Counted
  <1>10. CASE ~unretired /\ needed
    <2>1. /\ toEndpoint' = Append(toEndpoint, Need(1))
          /\ prevRetireSeq' = retireSeq /\ retireSeq' = entry + 1
      BY <1>10, Zenon DEF Expire
    <2>2. PICK e : e = Need(1)
      OBVIOUS
    <2>3. e \in EventType /\ ~IsRetire(e) /\ e.n = 1
      BY <2>2, EventKinds
    <2>4. WeightOf(Q, epCids, e) = 1
      BY <2>3 DEF WeightOf
    <2>5. PICK new : /\ Ledger(new, Append(Q, e), epCids, issued)
                     /\ new[Len(Append(Q, e)) + 1] = t + WeightOf(Q, epCids, e)
      BY <1>2, <1>3, <2>3, LedgerAppend
    <2>6. toEndpoint' = Append(Q, e)
      BY <1>1, <2>1, <2>2
    <2>7. toEndpoint'[Len(toEndpoint')] = e
      BY <1>3, <2>3, <2>6
    <2>8. Cardinality(activeSeq) + ((t + 1) - issued) = Limit + 1
      <3>1. Cardinality(activeSeq) + (t - issued) = Limit
        BY <1>8, <1>10
      <3> HIDE DEF t
      <3> QED
        BY <1>3, <1>5, <1>6, <3>1
    <2>9. Balanced(t + 1)'
      <3>1. activeSeq' \cap Seqs(prevRetireSeq', retireSeq') # {}
        BY <1>4, <1>10, <2>1
      <3>2. ~IsRetire(toEndpoint'[Len(toEndpoint')])
        BY <2>3, <2>7
      <3> HIDE DEF t
      <3>3. Cardinality(activeSeq') + ((t + 1) - issued') = Limit + 1
        BY <1>4, <2>8
      <3> QED
        BY <3>1, <3>2, <3>3 DEF Balanced
    <2>10. Ledger(new, toEndpoint, epCids, issued)' /\ new[Len(toEndpoint') + 1] = t + 1
      BY <1>4, <2>4, <2>5, <2>6
    <2>11. Balanced(new[Len(toEndpoint) + 1])'
      BY <2>9, <2>10
    <2> QED
      BY <2>10, <2>11, Zenon DEF Counted
  <1> QED
    BY <1>7, <1>9, <1>10

\* The count stands when an id is retired: it is replaced if and only if that leaves
\* less than Limit.
LEMMA RetiredCounted ==
    ASSUME CInv, Agreed, Counted, NEW seq \in Nat, NEW more, more = Allow(activeSeq'),
           activeSeq' = activeSeq \ {seq}, toEndpoint' = Append(toEndpoint, Retire(seq, more)),
           TimerServed,
           UNCHANGED <<issued, prevRetireSeq, retireSeq, epCids>>
    PROVE  Counted'
  <1>1. PICK Q : Q = toEndpoint
    OBVIOUS
  <1>2. PICK start : Ledger(start, Q, epCids, issued) /\ Balanced(start[Len(Q) + 1])
    BY <1>1 DEF Counted
  <1>3. Q \in Seq(EventType) /\ issued \in Nat /\ Len(Q) \in Nat
    BY <1>1 DEF CInv, IdTypes
  <1> DEFINE t == start[Len(Q) + 1]
             A == Cardinality(activeSeq)
             B == Cardinality(activeSeq')
  <1>4. t \in Nat /\ Balanced(t) /\ issued <= t
    <2>1. 1 \in 1 .. (Len(Q) + 1)
      BY <1>3
    <2> QED
      BY <1>2, <1>3, <2>1 DEF Ledger
  <1>5. A \in Nat /\ Limit \in Nat /\ IsFiniteSet(activeSeq)
    BY ActiveFinite, LimitType DEF CInv
  <1>6. B = IF seq \in activeSeq THEN A - 1 ELSE A
    BY <1>5, FS_RemoveElement
  <1>7. more <=> Limit > B
    BY DEF Allow
  <1>8. A + (t - issued) = Limit \/ (A + (t - issued) = Limit + 1 /\ t = issued
                                     /\ activeSeq \cap Seqs(prevRetireSeq, retireSeq) # {})
    <2>1. \A i \in 1 .. Len(Q) : IsRetire(Q[i])
      <3> TAKE i \in 1 .. Len(Q)
      <3>1. i \in DOMAIN toEndpoint /\ Q[i] \in EventType
        BY <1>1, <1>3
      <3>2. toEndpoint[i].type # "NeedIdentifiers"
        BY <3>1 DEF TimerServed
      <3> QED
        BY <1>1, <3>1, <3>2, EventKinds
    <2>2. Len(Q) = 0 => t = issued
      BY <1>2 DEF Ledger
    <2>3. Len(Q) = 0 \/ Len(Q) \in 1 .. Len(Q)
      BY <1>3
    <2>4. t = issued \/ IsRetire(Q[Len(Q)])
      BY <2>1, <2>2, <2>3
    <2> QED
      BY <1>1, <1>4, <2>4 DEF Balanced
  <1>9. more \in BOOLEAN
    BY DEF Allow
  <1>10. PICK e : e = Retire(seq, more)
    OBVIOUS
  <1>11. e \in EventType /\ IsRetire(e) /\ e.seq = seq /\ e.more = more
    BY <1>9, <1>10, EventKinds, Zenon
  <1>12. PICK new : /\ Ledger(new, Append(Q, e), epCids, issued)
                    /\ new[Len(Append(Q, e)) + 1] = t + WeightOf(Q, epCids, e)
    BY <1>2, <1>3, <1>11, LedgerAppend
  <1>13. PICK w : w = WeightOf(Q, epCids, e)
    OBVIOUS
  <1>14. w = IF more /\ seq \in epCids \ QueuedIn(Q) THEN 1 ELSE 0
    BY <1>11, <1>13, Zenon DEF WeightOf
  <1>15. seq \in activeSeq <=> seq \in epCids \ QueuedIn(Q)
    <2>1. /\ activeSeq \subseteq epCids /\ epCids \ activeSeq \subseteq QueuedIn(Q)
          /\ activeSeq \cap QueuedIn(Q) = {}
      BY <1>1 DEF Agreed, Queued
    <2> QED
      BY <2>1
  <1>16. w = IF Limit > B /\ seq \in activeSeq THEN 1 ELSE 0
    BY <1>7, <1>14, <1>15, Zenon
  <1>17. new[Len(Append(Q, e)) + 1] = t + w
    BY <1>12, <1>13
  <1>18. seq \notin activeSeq => activeSeq' = activeSeq
    OBVIOUS
  <1> HIDE DEF t
  <1>19. Balanced(t + w)'
    <2>1. CASE A + (t - issued) = Limit
      <3>1. B + ((t + w) - issued) = Limit
        <4> HIDE DEF A, B
        <4>1. CASE seq \in activeSeq
          BY <1>3, <1>4, <1>5, <1>6, <1>16, <2>1, <4>1
        <4>2. CASE seq \notin activeSeq
          BY <1>3, <1>4, <1>5, <1>6, <1>16, <2>1, <4>2
        <4> QED
          BY <4>1, <4>2
      <3> QED
        BY <3>1 DEF Balanced
    <2>2. CASE /\ A + (t - issued) = Limit + 1 /\ t = issued
               /\ activeSeq \cap Seqs(prevRetireSeq, retireSeq) # {}
      <3>1. CASE seq \in activeSeq
        <4>1. B + ((t + w) - issued) = Limit
          <5> HIDE DEF A, B
          <5> QED
            BY <1>3, <1>4, <1>5, <1>6, <1>16, <2>2, <3>1
        <4> QED
          BY <4>1 DEF Balanced
      <3>2. CASE seq \notin activeSeq
        <4>1. w = 0 /\ t + w = issued
          BY <1>3, <1>4, <1>16, <2>2, <3>2
        <4>2. B + ((t + w) - issued) = Limit + 1
          <5> HIDE DEF A, B
          <5> QED
            BY <1>3, <1>4, <1>5, <1>6, <2>2, <3>2, <4>1
        <4>3. activeSeq' \cap Seqs(prevRetireSeq', retireSeq') # {}
          BY <1>18, <2>2, <3>2
        <4> QED
          BY <4>1, <4>2, <4>3 DEF Balanced
      <3> QED
        BY <3>1, <3>2
    <2> QED
      BY <1>8, <2>1, <2>2
  <1>20. Ledger(new, toEndpoint, epCids, issued)' /\ new[Len(toEndpoint') + 1] = t + w
    BY <1>1, <1>10, <1>12, <1>17
  <1>21. Balanced(new[Len(toEndpoint) + 1])'
    BY <1>19, <1>20
  <1> QED
    BY <1>20, <1>21, Zenon DEF Counted

-----------------------------------------------------------------------------
(* What both ends agree on                                                 *)

\* What NEW_CONNECTION_ID does when the holder does not refuse it
LEMMA AcceptExact ==
    ASSUME QueueInv(cids), NEW f, f.seq \in Nat, f.rpt \in Nat, ReceiveNew(f), error' = "none"
    PROVE  /\ cids'.offset >= f.rpt /\ pendRetire \subseteq pendRetire'
           /\ HeldBy(cids') = {s \in HeldBy(cids) \cup {f.seq} : s >= cids'.offset}
           /\ f.seq < cids.offset => f.seq \in pendRetire'
           /\ \A s \in Seqs(cids.offset, cids'.offset) :
                  s \in pendRetire' \/ (s >= cids.offset + QueueLen /\ s < f.seq)
           /\ \/ cids'.offset = cids.offset \/ cids'.offset < QueueLen
              \/ f.rpt > cids.offset /\ cids'.offset <= f.seq
  <1> DEFINE o == cids.offset
  <1>1. o \in Nat /\ QueueLen \in Nat /\ \A s \in HeldBy(cids) : s \in Nat /\ s >= o
    BY Room, HeldFrom
  <1>2. CASE cids' = cids /\ f.rpt <= f.seq /\ f.seq < o /\ pendRetire' = pendRetire \cup {f.seq}
    <2>1. HeldBy(cids') = {s \in HeldBy(cids) \cup {f.seq} : s >= o}
      BY <1>1, <1>2
    <2>2. Seqs(o, cids'.offset) = {}
      BY <1>1, <1>2 DEF Seqs
    <2> QED
      BY <1>1, <1>2, <2>1, <2>2
  <1>3. CASE /\ f.rpt <= f.seq /\ o <= f.seq /\ f.seq - o < QueueLen + RetiredCount(cids, f)
             /\ Accept(f)
    <2>1. PICK q : q = Inserted(cids, f)
      OBVIOUS
    <2>2. /\ QueueInv(q)
          /\ q.offset >= o /\ q.offset >= f.rpt /\ q.offset <= f.seq
          /\ HeldBy(q) = {s \in HeldBy(cids) : s >= q.offset} \cup {f.seq}
          /\ RetiredCount(cids, f) = 0 => q.offset = o
          /\ RetiredCount(cids, f) # 0 => f.rpt > o
      BY <1>3, <2>1, InsertExact
    <2>3. q.offset \in Nat
      BY <2>2, HeldFrom
    <2>4. PICK r : /\ r = q \/ (q.offset = 0 /\ HasUnused(q) /\ r = NextOf(q))
                   /\ cids' = r
                   /\ pendRetire' = pendRetire \cup RetiredBy(cids, q) \cup RetiredBy(q, r)
      <3>1. "too many retired" # "none"
        OBVIOUS
      <3> QED
        BY <1>3, <2>1, <3>1, Zenon DEF Accept
    <2>5. /\ QueueInv(r) /\ r.offset >= q.offset /\ HeldBy(r) = {s \in HeldBy(q) : s >= r.offset}
          /\ r.offset = q.offset \/ (q.offset = 0 /\ r.offset < QueueLen)
      <3>1. CASE r = q
        <4>1. \A s \in HeldBy(q) : s >= q.offset
          BY <2>2, HeldFrom
        <4> QED
          BY <2>2, <2>3, <3>1, <4>1
      <3>2. CASE q.offset = 0 /\ HasUnused(q) /\ r = NextOf(q)
        <4>1. /\ QueueInv(r) /\ r.offset < q.offset + QueueLen
              /\ HeldBy(r) = {s \in HeldBy(q) : s >= r.offset}
          BY <2>2, <3>2, NextExact
        <4>2. r.offset \in Nat
          BY <4>1, HeldFrom
        <4>3. r.offset < QueueLen /\ r.offset >= q.offset
          BY <1>1, <2>3, <3>2, <4>1, <4>2
        <4> QED
          BY <3>2, <4>1, <4>3
      <3> QED
        BY <2>4, <3>1, <3>2
    <2>6. r.offset \in Nat /\ r.offset >= f.rpt
      BY <2>2, <2>3, <2>5, HeldFrom
    <2>7. HeldBy(r) = {s \in HeldBy(cids) \cup {f.seq} : s >= r.offset}
      <3>1. \A s \in HeldBy(cids) : s >= r.offset => s >= q.offset
        BY <1>1, <2>3, <2>5, <2>6
      <3> QED
        BY <2>2, <2>5, <3>1
    <2>8. ASSUME NEW s \in Seqs(o, r.offset)
          PROVE  s \in pendRetire' \/ (s >= o + QueueLen /\ s < f.seq)
      <3>1. s \in Nat /\ o <= s /\ s < r.offset
        BY <1>1, <2>6, <2>8 DEF Seqs
      <3>2. s \in RetiredBy(cids, q) <=> s \in Seqs(o, q.offset) /\ s < o + QueueLen
        BY <1>1, <2>3, RetiredExact
      <3>3. s \in RetiredBy(q, r) <=> s \in Seqs(q.offset, r.offset) /\ s < q.offset + QueueLen
        BY <2>3, <2>6, RetiredExact
      <3>4. CASE s < q.offset
        <4>1. s \in Seqs(o, q.offset) /\ s < f.seq
          BY <1>1, <2>2, <2>3, <3>1, <3>4 DEF Seqs
        <4>2. s < o + QueueLen \/ s >= o + QueueLen
          BY <1>1, <3>1
        <4> QED
          BY <2>4, <3>2, <4>1, <4>2
      <3>5. CASE s >= q.offset
        <4>1. s \in Seqs(q.offset, r.offset) /\ s < q.offset + QueueLen
          BY <1>1, <2>3, <2>5, <2>6, <3>1, <3>5 DEF Seqs
        <4> QED
          BY <2>4, <3>3, <4>1
      <3> QED
        BY <2>3, <3>1, <3>4, <3>5
    <2>9. r.offset = o \/ r.offset < QueueLen \/ (f.rpt > o /\ r.offset <= f.seq)
      BY <2>2, <2>5
    <2>10. ~(f.seq < o)
      BY <1>1, <1>3
    <2> QED
      BY <2>4, <2>6, <2>7, <2>8, <2>9, <2>10
  <1>4. f.rpt > f.seq \/ f.rpt <= f.seq
    OBVIOUS
  <1>5. f.seq < o \/ f.seq - o >= QueueLen + RetiredCount(cids, f)
        \/ (o <= f.seq /\ f.seq - o < QueueLen + RetiredCount(cids, f))
    BY <1>1 DEF RetiredCount
  <1>6. "limit" # "none" /\ "retiring unissued" # "none"
    OBVIOUS
  <1> QED
    BY <1>2, <1>3, <1>4, <1>5, <1>6, Zenon DEF ReceiveNew

\* The holder refuses no frame but for the ids that it has to retire.
LEMMA NoRefusal ==
    ASSUME CInv, Agreed, Fits, NEW f \in flightNew
    PROVE  /\ f.rpt <= f.seq
           /\ f.seq < cids.offset \/ f.seq - cids.offset < QueueLen + RetiredCount(cids, f)
  <1>1. /\ f.seq \in Nat /\ f.rpt \in Nat /\ f.rpt <= retireSeq /\ retireSeq \in Nat
        /\ cids.offset \in Nat /\ QueueLen \in Nat /\ Limit \in Nat /\ Limit <= QueueLen
    BY FrameIn, HeldFrom, LimitType, Room DEF CInv
  <1>2. f.seq >= retireSeq
    BY DEF Agreed, Coming, InFlight
  <1>3. f.seq < cids.offset + Limit \/ f.seq < f.rpt + Limit
    BY DEF Fits
  <1> QED
    BY <1>1, <1>2, <1>3 DEF RetiredCount

\* The issuer is never more than Limit ids ahead of what it knows to be retired.
LEMMA IssuedBound ==
    ASSUME CInv, Agreed, Counted
    PROVE  issued <= cids.offset + Limit \/ issued <= retireSeq + Limit
  <1>1. /\ issued \in Nat /\ retireSeq \in Nat /\ retireSeq <= issued /\ cids.offset \in Nat
        /\ cids.offset < issued /\ Limit \in Nat /\ prevRetireSeq \in Nat
    BY HeldFrom, LimitType DEF CInv, IdTypes, Routed
  <1>2. Seqs(cids.offset, issued) \subseteq activeSeq
    BY DEF Agreed
  <1>3. IsFiniteSet(activeSeq) /\ Cardinality(activeSeq) \in Nat
    BY ActiveFinite DEF CInv
  <1>4. Cardinality(activeSeq) <= Limit
        \/ (Cardinality(activeSeq) = Limit + 1
           /\ activeSeq \cap Seqs(prevRetireSeq, retireSeq) # {})
    <2>1. PICK start : /\ Ledger(start, toEndpoint, epCids, issued)
                       /\ Balanced(start[Len(toEndpoint) + 1])
      BY DEF Counted
    <2> DEFINE t == start[Len(toEndpoint) + 1]
    <2>2. t \in Nat /\ issued <= t
      <3>1. Len(toEndpoint) \in Nat
        BY DEF CInv, IdTypes
      <3>2. 1 \in 1 .. (Len(toEndpoint) + 1) /\ Len(toEndpoint) + 1 \in 1 .. (Len(toEndpoint) + 1)
        BY <3>1
      <3> QED
        BY <2>1, <3>2 DEF Ledger
    <2>3. Balanced(t)
      BY <2>1
    <2> HIDE DEF t
    <2> QED
      BY <1>1, <1>3, <2>2, <2>3 DEF Balanced
  <1>5. CASE Cardinality(activeSeq) <= Limit
    <2>1. Cardinality(Seqs(cids.offset, issued)) = issued - cids.offset
      BY <1>1, SeqsSize
    <2>2. Cardinality(Seqs(cids.offset, issued)) <= Cardinality(activeSeq)
      BY <1>2, <1>3, FS_Subset
    <2> QED
      BY <1>1, <1>3, <1>5, <2>1, <2>2
  <1>6. CASE Cardinality(activeSeq) = Limit + 1
             /\ activeSeq \cap Seqs(prevRetireSeq, retireSeq) # {}
    <2>1. PICK x \in activeSeq : x \in Seqs(prevRetireSeq, retireSeq)
      BY <1>6
    <2>2. x \in Nat /\ x < retireSeq
      BY <1>1, <2>1 DEF Seqs
    <2>3. IsFiniteSet(activeSeq \ {x}) /\ Cardinality(activeSeq \ {x}) = Limit
      <3>1. /\ IsFiniteSet(activeSeq \ {x})
            /\ Cardinality(activeSeq \ {x}) =
                   IF x \in activeSeq THEN Cardinality(activeSeq) - 1 ELSE Cardinality(activeSeq)
        BY <1>3, FS_RemoveElement
      <3> QED
        BY <1>1, <1>6, <2>1, <3>1
    <2>4. PICK m \in Nat : /\ m = IF cids.offset >= retireSeq THEN cids.offset ELSE retireSeq
                           /\ m <= issued
      BY <1>1
    <2>5. Seqs(m, issued) \subseteq activeSeq \ {x}
      BY <1>1, <1>2, <2>2, <2>4 DEF Seqs
    <2>6. Cardinality(Seqs(m, issued)) = issued - m
      BY <1>1, <2>4, SeqsSize
    <2>7. Cardinality(Seqs(m, issued)) <= Limit
      BY <2>3, <2>5, FS_Subset
    <2> QED
      BY <1>1, <2>4, <2>6, <2>7
  <1> QED
    BY <1>4, <1>5, <1>6

\* The event of Reminded survives when the first event is handled, or its ids are queued.
LEMMA TailNeeds ==
    ASSUME NEW Q \in Seq(EventType), Q # <<>>,
           \E i \in DOMAIN Q : ~IsRetire(Q[i]) /\ Q[i].n > 0
    PROVE  \/ ~IsRetire(Head(Q)) /\ Head(Q).n > 0
           \/ \E i \in DOMAIN Tail(Q) : ~IsRetire(Tail(Q)[i]) /\ Tail(Q)[i].n > 0
  <1> DEFINE P == Tail(Q)
             e == Head(Q)
  <1>1. /\ Len(Q) = Len(P) + 1 /\ Len(P) \in Nat /\ DOMAIN P = 1 .. Len(P) /\ DOMAIN Q = 1 .. Len(Q)
        /\ e = Q[1] /\ \A i \in 1 .. Len(P) : P[i] = Q[i + 1]
    OBVIOUS
  <1> HIDE DEF P, e
  <1>2. PICK i \in 1 .. Len(Q) : ~IsRetire(Q[i]) /\ Q[i].n > 0
    BY <1>1
  <1>3. i = 1 \/ (i - 1 \in 1 .. Len(P) /\ P[i - 1] = Q[i])
    BY <1>1
  <1>4. CASE i = 1
    BY <1>1, <1>2, <1>4 DEF e
  <1>5. CASE i - 1 \in 1 .. Len(P) /\ P[i - 1] = Q[i]
    BY <1>1, <1>2, <1>5 DEF P
  <1> QED
    BY <1>3, <1>4, <1>5

\* ... and when one is appended.
LEMMA AppendNeeds ==
    ASSUME NEW Q \in Seq(EventType), NEW e \in EventType
    PROVE  /\ (\E i \in DOMAIN Q : ~IsRetire(Q[i]) /\ Q[i].n > 0) =>
                  \E i \in DOMAIN Append(Q, e) : ~IsRetire(Append(Q, e)[i]) /\ Append(Q, e)[i].n > 0
           /\ ~IsRetire(e) /\ e.n > 0 =>
                  \E i \in DOMAIN Append(Q, e) : ~IsRetire(Append(Q, e)[i]) /\ Append(Q, e)[i].n > 0
  <1> DEFINE P == Append(Q, e)
  <1>1. /\ DOMAIN P = 1 .. Len(P) /\ Len(P) = Len(Q) + 1 /\ Len(Q) \in Nat /\ DOMAIN Q = 1 .. Len(Q)
        /\ P[Len(P)] = e /\ \A i \in 1 .. Len(Q) : P[i] = Q[i]
    OBVIOUS
  <1> HIDE DEF P
  <1>2. Len(P) \in DOMAIN P /\ DOMAIN Q \subseteq DOMAIN P
    BY <1>1
  <1>3. (\E i \in DOMAIN Q : ~IsRetire(Q[i]) /\ Q[i].n > 0) =>
            \E i \in DOMAIN P : ~IsRetire(P[i]) /\ P[i].n > 0
    BY <1>1, <1>2
  <1>4. ~IsRetire(e) /\ e.n > 0 => \E i \in DOMAIN P : ~IsRetire(P[i]) /\ P[i].n > 0
    BY <1>1, <1>2
  <1> QED
    BY <1>3, <1>4 DEF P

\* Events that the endpoint handles: what is issued is on its way.
LEMMA HandledAlive ==
    ASSUME CInv, Alive, NEW n \in Nat, toEndpoint # <<>>, toEndpoint' = Tail(toEndpoint),
           NewIdentifiers(n), n = Weight(toEndpoint, epCids, 1), NEW gone,
           gone = (IF IsRetire(Head(toEndpoint)) THEN {Head(toEndpoint).seq} ELSE {}),
           epCids' = (epCids \ gone) \cup Seqs(issued, issued + n)
    PROVE  Alive'
  <1>1. /\ issued \in Nat /\ epIssued = issued /\ retireSeq \in Nat /\ retireSeq <= issued
        /\ toEndpoint \in Seq(EventType) /\ cids.offset \in Nat /\ cids.offset < issued
        /\ activeSeq \subseteq Ids /\ epCids \subseteq Ids /\ Queued \subseteq Seqs(0, cids.offset)
        /\ pendNew \subseteq Ids
    BY HeldFrom DEF CInv, IdTypes, Routed
  <1> DEFINE N == Seqs(issued, issued + n)
  <1>2. /\ issued' = issued + n /\ activeSeq' = activeSeq \cup N /\ pendNew' = pendNew \cup N
        /\ retireSeq' = retireSeq /\ cids' = cids /\ flightNew' = flightNew
        /\ pendRetire' = pendRetire /\ flightRetire' = flightRetire
    BY <1>1 DEF NewIdentifiers, retireVars
  <1>3. Queued = Queued' \cup gone
    BY <1>1, TailQueued DEF Queued
  <1>4. Coming' = Coming \cup N
    BY <1>2 DEF Coming, InFlight
  <1>5. /\ \A s \in N : s \in Nat /\ s >= issued
        /\ N \cap Ids = {} /\ N \cap Queued = {}
        /\ Seqs(cids.offset, issued + n) = Seqs(cids.offset, issued) \cup N
        /\ N \cap Seqs(0, cids.offset) = {}
    BY <1>1 DEF Seqs, Ids
  <1> HIDE DEF N
  <1>6. Agreed'
    <2>1. \A s \in Coming' : s >= retireSeq'
      BY <1>1, <1>2, <1>4, <1>5 DEF Alive, Agreed
    <2>2. Seqs(cids'.offset, issued') \subseteq activeSeq'
      BY <1>2, <1>5 DEF Alive, Agreed
    <2>3. activeSeq' \subseteq epCids'
      BY <1>2, <1>3 DEF Alive, Agreed, N
    <2>4. epCids' \ activeSeq' \subseteq Queued'
      BY <1>2, <1>3 DEF Alive, Agreed, N
    <2>5. activeSeq' \cap Queued' = {}
      BY <1>2, <1>3, <1>5 DEF Alive, Agreed
    <2>6. Seqs(cids'.offset, issued') \subseteq HeldBy(cids') \cup Coming'
      BY <1>2, <1>4, <1>5 DEF Alive, Agreed
    <2>7. activeSeq' \cap Seqs(0, cids'.offset) \subseteq
              pendRetire' \cup flightRetire' \cup Coming'
      BY <1>2, <1>4, <1>5 DEF Alive, Agreed
    <2> QED
      BY <2>1, <2>2, <2>3, <2>4, <2>5, <2>6, <2>7 DEF Agreed
  <1>7. Reminded'
    <2>1. CASE \E i \in DOMAIN toEndpoint : ~IsRetire(toEndpoint[i]) /\ toEndpoint[i].n > 0
      <3>1. CASE ~IsRetire(Head(toEndpoint)) /\ Head(toEndpoint).n > 0
        <4>1. Head(toEndpoint) = toEndpoint[1]
          BY <1>1
        <4>2. n > 0
          BY <3>1, <4>1 DEF Weight
        <4>3. issued \in N
          BY <1>1, <4>2 DEF N, Seqs
        <4> QED
          BY <1>2, <4>3 DEF Reminded
      <3>2. CASE \E i \in DOMAIN Tail(toEndpoint) :
                     ~IsRetire(Tail(toEndpoint)[i]) /\ Tail(toEndpoint)[i].n > 0
        BY <3>2 DEF Reminded
      <3> QED
        BY <1>1, <2>1, <3>1, <3>2, TailNeeds
    <2>2. CASE cids.offset >= retireSeq \/ pendNew # {} \/ \E f \in flightNew : f.rpt = retireSeq
      BY <1>2, <2>2 DEF Reminded
    <2> QED
      BY <2>1, <2>2 DEF Alive, Reminded
  <1>8. Fits'
    BY <1>2 DEF Alive, Fits
  <1>9. Counted'
    <2>1. \A s \in Ids : s \in epCids' <=>
               s \in epCids /\ ~(IsRetire(Head(toEndpoint)) /\ s = Head(toEndpoint).seq)
      BY <1>5 DEF N
    <2> QED
      BY <2>1, HandledCounted DEF Alive
  <1> QED
    BY <1>6, <1>7, <1>8, <1>9 DEF Alive

\* HandleNeed keeps the agreement.
LEMMA NeedAlive == CInv /\ Alive /\ HandleNeed => Alive'
  <1> SUFFICES ASSUME CInv, Alive, HandleNeed PROVE Alive'
    OBVIOUS
  <1>1. PICK e : e = Head(toEndpoint)
    OBVIOUS
  <1>2. PICK n : n = e.n
    OBVIOUS
  <1>3. /\ toEndpoint # <<>> /\ e.type = "NeedIdentifiers" /\ toEndpoint' = Tail(toEndpoint)
        /\ NewIdentifiers(n) /\ epCids' = epCids \cup Seqs(epIssued, epIssued + n)
    BY <1>1, <1>2 DEF HandleNeed
  <1>4. toEndpoint \in Seq(EventType) /\ epIssued = issued
    BY DEF CInv, IdTypes
  <1>5. e = toEndpoint[1] /\ e \in EventType
    BY <1>1, <1>3, <1>4
  <1>6. n \in Nat /\ ~IsRetire(e)
    BY <1>2, <1>3, <1>5, EventKinds DEF IsRetire
  <1>7. n = Weight(toEndpoint, epCids, 1)
    BY <1>2, <1>5, <1>6 DEF Weight
  <1>8. PICK gone : gone = IF IsRetire(Head(toEndpoint)) THEN {Head(toEndpoint).seq} ELSE {}
    OBVIOUS
  <1>9. gone = {}
    BY <1>1, <1>6, <1>8
  <1>10. epCids' = (epCids \ gone) \cup Seqs(issued, issued + n)
    BY <1>3, <1>4, <1>9
  <1> QED
    BY <1>3, <1>6, <1>7, <1>8, <1>10, HandledAlive

\* So does HandleRetire.
LEMMA RetireAlive == CInv /\ Alive /\ HandleRetire => Alive'
  <1> SUFFICES ASSUME CInv, Alive, HandleRetire PROVE Alive'
    OBVIOUS
  <1>1. PICK e : e = Head(toEndpoint)
    OBVIOUS
  <1>2. PICK n : n = IF Replies(e) THEN 1 ELSE 0
    OBVIOUS
  <1>3. /\ toEndpoint # <<>> /\ e.type = "RetireConnectionId" /\ toEndpoint' = Tail(toEndpoint)
        /\ NewIdentifiers(n) /\ epCids' = (epCids \ {e.seq}) \cup Seqs(epIssued, epIssued + n)
    BY <1>1, <1>2 DEF HandleRetire
  <1>4. toEndpoint \in Seq(EventType) /\ epIssued = issued
    BY DEF CInv, IdTypes
  <1>5. e = toEndpoint[1]
    BY <1>1, <1>3, <1>4
  <1>6. n \in Nat /\ IsRetire(e)
    BY <1>2, <1>3 DEF IsRetire
  <1>7. n = Weight(toEndpoint, epCids, 1)
    <2>1. \A j \in 1 .. (1 - 1) : FALSE
      OBVIOUS
    <2>2. Rewarded(toEndpoint, epCids, 1) <=> Replies(e)
      BY <1>5, <2>1, Zenon DEF Rewarded, Replies
    <2> QED
      BY <1>2, <1>5, <1>6, <2>2, Zenon DEF Weight
  <1>8. PICK gone : gone = IF IsRetire(Head(toEndpoint)) THEN {Head(toEndpoint).seq} ELSE {}
    OBVIOUS
  <1>9. gone = {e.seq}
    BY <1>1, <1>6, <1>8
  <1>10. epCids' = (epCids \ gone) \cup Seqs(issued, issued + n)
    BY <1>3, <1>4, <1>9
  <1> QED
    BY <1>3, <1>6, <1>7, <1>8, <1>10, HandledAlive

\* An expiry keeps it: the id that expires arrived before.
LEMMA ExpireAlive == Ops = {} /\ CInv /\ Alive /\ Expire => Alive'
  <1> SUFFICES ASSUME Ops = {}, CInv, Alive, Expire PROVE Alive'
    OBVIOUS
  <1>1. PICK e : e = Head(retireTimestamp)
    OBVIOUS
  <1>2. /\ retireTimestamp # <<>>
        /\ issued' = issued /\ activeSeq' = activeSeq /\ epIssued' = epIssued /\ epCids' = epCids
        /\ cids' = cids /\ pendNew' = pendNew /\ flightNew' = flightNew
        /\ pendRetire' = pendRetire /\ flightRetire' = flightRetire
        /\ \A f \in flightNew : f.seq > e
        /\ \A s \in pendNew : s > e
    BY <1>1 DEF Expire, epVars, newVars, retireVars
  <1> DEFINE unretired == activeSeq \cap Seqs(prevRetireSeq, retireSeq) # {}
             needed == activeSeq \cap Seqs(retireSeq, e + 1) # {}
  <1>3. \/ unretired /\ retireSeq' = retireSeq /\ toEndpoint' = toEndpoint
        \/ ~unretired /\ retireSeq' = e + 1 /\ needed /\ toEndpoint' = Append(toEndpoint, Need(1))
        \/ ~unretired /\ retireSeq' = e + 1 /\ ~needed /\ toEndpoint' = toEndpoint
    BY <1>1, Zenon DEF Expire
  <1> HIDE DEF unretired
  <1>4. /\ issued \in Nat /\ retireSeq \in Nat /\ cids.offset \in Nat /\ cids.offset < issued
        /\ Lifetimes(retireTimestamp, retireSeq, issued) /\ toEndpoint \in Seq(EventType)
        /\ pendNew \subseteq Ids
    BY HeldFrom DEF CInv, IdTypes, Routed
  <1>5. e \in Nat /\ retireSeq <= e /\ e < issued
    BY <1>1, <1>2, <1>4, LifetimesTail
  <1>6. Need(1) \in EventType /\ ~IsRetire(Need(1)) /\ Need(1).n = 1
    BY EventKinds
  <1>7. Queued' = Queued
    <2>1. QueuedIn(Append(toEndpoint, Need(1))) = QueuedIn(toEndpoint)
      BY <1>4, <1>6, AppendQueued
    <2> QED
      BY <1>3, <2>1 DEF Queued
  <1>8. Coming' = Coming /\ \A s \in Coming : s \in Nat /\ s > e /\ s >= e + 1
    <2>1. \A f \in flightNew : f.seq \in Nat
      BY FrameIn DEF CInv
    <2>2. \A s \in pendNew : s \in Nat
      BY <1>4 DEF Ids, Seqs
    <2> QED
      BY <1>2, <1>5, <2>1, <2>2 DEF Coming, InFlight
  <1>9. Agreed'
    <2>1. \A s \in Coming' : s >= retireSeq'
      BY <1>3, <1>8 DEF Alive, Agreed
    <2> QED
      BY <1>2, <1>7, <1>8, <2>1 DEF Alive, Agreed
  <1>10. Reminded'
    <2>1. CASE unretired /\ retireSeq' = retireSeq /\ toEndpoint' = toEndpoint
      BY <1>2, <2>1 DEF Alive, Reminded
    <2>2. CASE toEndpoint' = Append(toEndpoint, Need(1))
      <3>1. \E i \in DOMAIN toEndpoint' : ~IsRetire(toEndpoint'[i]) /\ toEndpoint'[i].n > 0
        BY <1>4, <1>6, <2>2, AppendNeeds
      <3> QED
        BY <3>1 DEF Reminded
    <2>3. CASE retireSeq' = e + 1 /\ ~needed
      <3>1. Seqs(cids.offset, issued) \subseteq activeSeq
        BY DEF Alive, Agreed
      <3>2. cids.offset > e
        <4> SUFFICES ASSUME cids.offset <= e PROVE FALSE
          BY <1>4, <1>5
        <4>1. e \in Seqs(cids.offset, issued) /\ e \in Seqs(retireSeq, e + 1)
          BY <1>4, <1>5 DEF Seqs
        <4> QED
          BY <2>3, <3>1, <4>1
      <3>3. cids'.offset >= retireSeq'
        BY <1>2, <1>4, <1>5, <2>3, <3>2
      <3> QED
        BY <3>3 DEF Reminded
    <2> QED
      BY <1>3, <2>1, <2>2, <2>3
  <1>11. Fits'
    BY <1>2 DEF Alive, Fits
  <1>12. Counted'
    BY ExpireCounted DEF Alive
  <1> QED
    BY <1>9, <1>10, <1>11, <1>12 DEF Alive

\* Sending frames keeps the agreement: no frame exceeds the window of the holder.
LEMMA SendAlive == CInv /\ Alive /\ (SendNew \/ SendRetire) => Alive'
  <1> SUFFICES ASSUME CInv, Alive, SendNew \/ SendRetire PROVE Alive'
    OBVIOUS
  <1>1. UNCHANGED <<issued, activeSeq, prevRetireSeq, retireSeq, epCids, toEndpoint, cids>>
    BY DEF SendNew, SendRetire, stateVars, epVars
  <1>2. Counted'
    BY <1>1, SameCounted DEF Alive
  <1>3. /\ issued \in Nat /\ retireSeq \in Nat /\ cids.offset \in Nat /\ Limit \in Nat
        /\ pendNew \subseteq Ids
    BY HeldFrom, LimitType DEF CInv, IdTypes
  <1>4. CASE SendNew
    <2>1. /\ pendNew # {} /\ pendNew' = {}
             /\ flightNew' = flightNew \cup [seq : pendNew, rpt : {retireSeq}]
          /\ pendRetire' = pendRetire /\ flightRetire' = flightRetire
      BY <1>4 DEF SendNew, retireVars
    <2>2. \A s \in pendNew : [seq |-> s, rpt |-> retireSeq] \in flightNew'
      BY <2>1
    <2>3. \A f \in flightNew' : f \in flightNew \/ (f.seq \in pendNew /\ f.rpt = retireSeq)
      BY <2>1
    <2>4. Coming' = Coming
      <3>1. \A s : s \in InFlight' <=> s \in InFlight \/ s \in pendNew
        <4> SUFFICES ASSUME NEW s PROVE s \in InFlight' <=> s \in InFlight \/ s \in pendNew
          OBVIOUS
        <4>1. ASSUME s \in InFlight' PROVE s \in InFlight \/ s \in pendNew
          BY <2>3, <4>1 DEF InFlight
        <4>2. ASSUME s \in InFlight PROVE s \in InFlight'
          BY <2>1, <4>2 DEF InFlight
        <4>3. ASSUME s \in pendNew PROVE s \in InFlight'
          <5>1. [seq |-> s, rpt |-> retireSeq].seq = s
            OBVIOUS
          <5> QED
            BY <2>2, <4>3, <5>1 DEF InFlight
        <4> QED
          BY <4>1, <4>2, <4>3
      <3> QED
        BY <2>1, <3>1 DEF Coming
    <2>5. Agreed'
      BY <1>1, <2>1, <2>4 DEF Alive, Agreed, Queued
    <2>6. Reminded'
      <3>1. PICK s \in pendNew : TRUE
        BY <2>1
      <3>2. [seq |-> s, rpt |-> retireSeq].rpt = retireSeq
        OBVIOUS
      <3>3. \E f \in flightNew' : f.rpt = retireSeq'
        BY <1>1, <2>2, <3>2
      <3> QED
        BY <3>3 DEF Reminded
    <2>7. Fits'
      <3>1. issued <= cids.offset + Limit \/ issued <= retireSeq + Limit
        BY IssuedBound DEF Alive
      <3>2. ASSUME NEW f \in flightNew' PROVE f.seq < cids.offset + Limit \/ f.seq < f.rpt + Limit
        <4>1. CASE f \in flightNew
          BY <4>1 DEF Alive, Fits
        <4>2. CASE f.seq \in pendNew /\ f.rpt = retireSeq
          <5>1. f.seq \in Nat /\ f.seq < issued
            <6>1. f.seq \in Ids
              BY <1>3, <4>2
            <6> QED
              BY <1>3, <6>1 DEF Ids, Seqs
          <5> QED
            BY <1>3, <3>1, <4>2, <5>1
        <4> QED
          BY <2>3, <4>1, <4>2
      <3> QED
        BY <1>1, <3>2 DEF Fits
    <2> QED
      BY <1>2, <2>5, <2>6, <2>7 DEF Alive
  <1>5. CASE SendRetire
    <2>1. /\ pendNew' = pendNew /\ flightNew' = flightNew
          /\ pendRetire' = {} /\ flightRetire' = flightRetire \cup pendRetire
      BY <1>5 DEF SendRetire, newVars
    <2>2. Coming' = Coming
      BY <2>1 DEF Coming, InFlight
    <2>3. Agreed'
      BY <1>1, <2>1, <2>2 DEF Alive, Agreed, Queued
    <2>4. Reminded' /\ Fits'
      BY <1>1, <2>1 DEF Alive, Reminded, Fits
    <2> QED
      BY <1>2, <2>3, <2>4 DEF Alive
  <1> QED
    BY <1>4, <1>5

\* The frames towards the holder, and its queue, when the queue moves forward
LEMMA MoveAgreed ==
    ASSUME CInv, Alive, QueueInv(cids'), cids'.offset >= cids.offset,
           UNCHANGED <<issued, activeSeq, prevRetireSeq, retireSeq, epCids, toEndpoint>>,
           flightNew' \subseteq flightNew, Coming' \subseteq Coming,
           \A s \in HeldBy(cids) \cup Coming : s >= cids'.offset
           => s \in HeldBy(cids') \cup Coming',
           \A s \in Seqs(0, cids.offset) :
               s \in pendRetire \cup flightRetire \cup Coming =>
                   s \in pendRetire' \cup flightRetire' \cup Coming',
           \A s \in Seqs(cids.offset, cids'.offset) :
               s \in pendRetire' \cup flightRetire' \cup Coming'
    PROVE  Agreed' /\ Fits' /\ Counted'
  <1>1. issued \in Nat /\ cids.offset \in Nat /\ cids'.offset \in Nat /\ Limit \in Nat
    BY HeldFrom, LimitType DEF CInv, IdTypes
  <1>2. /\ Seqs(cids'.offset, issued) \subseteq Seqs(cids.offset, issued)
        /\ \A s \in Seqs(cids'.offset, issued) : s >= cids'.offset
        /\ Seqs(0, cids'.offset) = Seqs(0, cids.offset) \cup Seqs(cids.offset, cids'.offset)
    BY <1>1 DEF Seqs
  <1>3. \A s \in Coming' : s >= retireSeq'
    BY DEF Alive, Agreed
  <1>4. /\ Seqs(cids'.offset, issued') \subseteq activeSeq'
        /\ activeSeq' \subseteq epCids' /\ epCids' \ activeSeq' \subseteq Queued'
        /\ activeSeq' \cap Queued' = {}
    BY <1>2 DEF Alive, Agreed, Queued
  <1>5. Seqs(cids'.offset, issued') \subseteq HeldBy(cids') \cup Coming'
    BY <1>2 DEF Alive, Agreed
  <1>6. activeSeq' \cap Seqs(0, cids'.offset) \subseteq pendRetire' \cup flightRetire' \cup Coming'
    BY <1>2 DEF Alive, Agreed
  <1>7. Agreed'
    BY <1>3, <1>4, <1>5, <1>6 DEF Agreed
  <1>8. Fits'
    <2> SUFFICES ASSUME NEW f \in flightNew' PROVE f.seq < cids'.offset + Limit
        \/ f.seq < f.rpt + Limit
      BY DEF Fits
    <2>1. f \in flightNew /\ f.seq \in Nat
      BY FrameIn DEF CInv
    <2>2. f.seq < cids.offset + Limit \/ f.seq < f.rpt + Limit
      BY <2>1 DEF Alive, Fits
    <2> QED
      BY <1>1, <2>1, <2>2
  <1>9. Counted'
    BY SameCounted DEF Alive
  <1> QED
    BY <1>7, <1>8, <1>9

\* Changes of the active and of the reserved id keep the agreement.
LEMMA HolderAlive == CInv /\ Alive /\ (UpdateRemoteCid \/ NextReserved) => Alive'
  <1> SUFFICES ASSUME CInv, Alive, UpdateRemoteCid \/ NextReserved PROVE Alive'
    OBVIOUS
  <1>1. /\ UNCHANGED <<issued, activeSeq, prevRetireSeq, retireSeq, epCids, toEndpoint>>
        /\ pendNew' = pendNew /\ flightNew' = flightNew /\ flightRetire' = flightRetire
    BY DEF UpdateRemoteCid, NextReserved, stateVars, epVars, newVars, retireVars
  <1>2. QueueInv(cids) /\ cids.offset \in Nat /\ retireSeq \in Nat
    BY HeldFrom DEF CInv, IdTypes
  <1>3. Coming' = Coming
    BY <1>1 DEF Coming, InFlight
  <1>4. /\ QueueInv(cids') /\ cids'.offset >= cids.offset
        /\ HeldBy(cids') = {s \in HeldBy(cids) : s >= cids'.offset}
        /\ pendRetire' = pendRetire \cup Seqs(cids.offset, cids'.offset)
    <2>1. CASE UpdateRemoteCid
      <3>1. /\ QueueInv(cids') /\ cids'.offset > cids.offset
            /\ HeldBy(cids') = {s \in HeldBy(cids) : s >= cids'.offset}
            /\ pendRetire' = pendRetire \cup Seqs(cids.offset, cids'.offset)
        BY <1>2, <2>1, UpdateExact
      <3>2. cids'.offset \in Nat
        BY <3>1, HeldFrom
      <3>3. cids'.offset >= cids.offset
        BY <1>2, <3>1, <3>2
      <3> QED
        BY <3>1, <3>3
    <2>2. CASE NextReserved
      <3>1. QueueInv(cids') /\ cids'.offset = cids.offset /\ HeldBy(cids') = HeldBy(cids)
        BY <1>2, <2>2, ReserveExact
      <3>2. pendRetire' = pendRetire
        BY <2>2 DEF NextReserved, retireVars
      <3>3. Seqs(cids.offset, cids'.offset) = {}
        BY <1>2, <3>1 DEF Seqs
      <3>4. \A s \in HeldBy(cids) : s >= cids.offset
        BY <1>2, HeldFrom
      <3>5. cids'.offset >= cids.offset
        BY <1>2, <3>1
      <3> QED
        BY <3>1, <3>2, <3>3, <3>4, <3>5
    <2> QED
      BY <2>1, <2>2
  <1>5. /\ \A s \in HeldBy(cids) \cup Coming : s >= cids'.offset => s \in HeldBy(cids') \cup Coming'
        /\ \A s \in Seqs(0, cids.offset) :
               s \in pendRetire \cup flightRetire \cup Coming =>
                   s \in pendRetire' \cup flightRetire' \cup Coming'
        /\ \A s \in Seqs(cids.offset, cids'.offset) :
               s \in pendRetire' \cup flightRetire' \cup Coming'
    BY <1>1, <1>3, <1>4
  <1>6. Agreed' /\ Fits' /\ Counted'
    BY <1>1, <1>3, <1>4, <1>5, MoveAgreed
  <1>7. Reminded'
    <2>1. cids'.offset \in Nat
      BY <1>4, HeldFrom
    <2>2. cids.offset >= retireSeq => cids'.offset >= retireSeq'
      BY <1>1, <1>2, <1>4, <2>1
    <2> QED
      BY <1>1, <2>2 DEF Alive, Reminded
  <1> QED
    BY <1>6, <1>7 DEF Alive

\* NEW_CONNECTION_ID, when it is not refused, keeps the agreement.
LEMMA NewAlive ==
    ASSUME CInv, Alive, NEW f \in flightNew, error' = "none",
           NewArrives(f) \/ \E arrived \in BOOLEAN : LoseNew(f, arrived)
    PROVE  Alive'
  <1>1. /\ f.seq \in Nat /\ f.rpt \in Nat /\ retireSeq \in Nat
        /\ QueueInv(cids) /\ cids.offset \in Nat /\ QueueLen \in Nat
    BY FrameIn, HeldFrom, Room DEF CInv
  <1>2. /\ UNCHANGED <<issued, activeSeq, prevRetireSeq, retireSeq, epCids, toEndpoint>>
        /\ flightRetire' = flightRetire /\ flightNew' = flightNew \ {f}
    BY DEF NewArrives, LoseNew, ReceiveNew, stateVars, epVars, retireVars
  <1>3. \/ ReceiveNew(f) /\ pendNew' = pendNew
        \/ ReceiveNew(f) /\ pendNew' = pendNew \cup {f.seq}
        \/ cids' = cids /\ pendRetire' = pendRetire /\ pendNew' = pendNew \cup {f.seq}
    BY DEF NewArrives, LoseNew, RequeueNew, retireVars
  <1>4. f.seq \in InFlight /\ InFlight' \subseteq InFlight
        /\ InFlight \subseteq InFlight' \cup {f.seq}
    BY <1>2 DEF InFlight
  <1>5. Coming' \subseteq Coming /\ Coming \subseteq Coming' \cup {f.seq}
    BY <1>3, <1>4 DEF Coming
  <1>6. CASE ReceiveNew(f)
    <2>1. QueueInv(cids') /\ cids'.offset >= cids.offset
      BY <1>1, <1>6, ReceiveExact
    <2>2. /\ cids'.offset >= f.rpt /\ pendRetire \subseteq pendRetire'
          /\ HeldBy(cids') = {s \in HeldBy(cids) \cup {f.seq} : s >= cids'.offset}
          /\ f.seq < cids.offset => f.seq \in pendRetire'
          /\ \A s \in Seqs(cids.offset, cids'.offset) :
                 s \in pendRetire' \/ (s >= cids.offset + QueueLen /\ s < f.seq)
      BY <1>1, <1>6, AcceptExact
    <2>3. cids'.offset \in Nat
      BY <2>1, HeldFrom
    <2>4. \A s \in HeldBy(cids) \cup Coming : s >= cids'.offset => s \in HeldBy(cids') \cup Coming'
      BY <1>5, <2>2
    <2>5. \A s \in Seqs(0, cids.offset) :
              s \in pendRetire \cup flightRetire \cup Coming =>
                  s \in pendRetire' \cup flightRetire' \cup Coming'
      <3>1. \A s \in Seqs(0, cids.offset) : s < cids.offset
        BY <1>1 DEF Seqs
      <3> QED
        BY <1>2, <1>5, <2>2, <3>1
    <2>6. \A s \in Seqs(cids.offset, cids'.offset) :
              s \in pendRetire' \cup flightRetire' \cup Coming'
      <3> TAKE s \in Seqs(cids.offset, cids'.offset)
      <3>1. CASE s \in pendRetire'
        BY <3>1
      <3>2. CASE s >= cids.offset + QueueLen /\ s < f.seq
        <4>1. s \in Nat /\ cids.offset <= s /\ s < cids'.offset
          BY <1>1, <2>3 DEF Seqs
        <4>2. s \in Seqs(cids.offset, issued)
          <5>1. f.seq < issued /\ issued \in Nat
            BY FrameIn DEF CInv
          <5> QED
            BY <1>1, <3>2, <4>1, <5>1 DEF Seqs
        <4>3. s \in HeldBy(cids) \cup Coming
          BY <4>2 DEF Alive, Agreed
        <4>4. s \notin HeldBy(cids)
          <5>1. \A h \in HeldBy(cids) : h \in Nat /\ h < cids.offset + QueueLen
            BY <1>1, HeldFrom
          <5> QED
            BY <1>1, <3>2, <4>1, <5>1
        <4>5. s # f.seq
          BY <1>1, <3>2, <4>1
        <4> QED
          BY <1>5, <4>3, <4>4, <4>5
      <3> QED
        BY <2>2, <3>1, <3>2
    <2>7. Agreed' /\ Fits' /\ Counted'
      BY <1>2, <1>5, <2>1, <2>4, <2>5, <2>6, MoveAgreed
    <2>8. Reminded'
      <3>1. CASE cids.offset >= retireSeq
        BY <1>1, <1>2, <2>1, <2>3, <3>1 DEF Reminded
      <3>2. CASE pendNew # {}
        BY <1>3, <3>2 DEF Reminded
      <3>3. CASE \E g \in flightNew : g.rpt = retireSeq
        <4>1. PICK g \in flightNew : g.rpt = retireSeq
          BY <3>3
        <4>2. CASE g = f
          BY <1>2, <2>2, <4>1, <4>2 DEF Reminded
        <4>3. CASE g # f
          BY <1>2, <4>1, <4>3 DEF Reminded
        <4> QED
          BY <4>2, <4>3
      <3>4. CASE \E i \in DOMAIN toEndpoint : ~IsRetire(toEndpoint[i]) /\ toEndpoint[i].n > 0
        BY <1>2, <3>4 DEF Reminded
      <3> QED
        BY <3>1, <3>2, <3>3, <3>4 DEF Alive, Reminded
    <2> QED
      BY <2>7, <2>8 DEF Alive
  <1>7. CASE cids' = cids /\ pendRetire' = pendRetire /\ pendNew' = pendNew \cup {f.seq}
    <2>1. Coming' = Coming
      BY <1>4, <1>7 DEF Coming
    <2>2. cids'.offset >= cids.offset /\ Seqs(cids.offset, cids'.offset) = {} /\ QueueInv(cids')
      BY <1>1, <1>7 DEF Seqs
    <2>3. Agreed' /\ Fits' /\ Counted'
      BY <1>2, <1>7, <2>1, <2>2, MoveAgreed
    <2>4. Reminded'
      BY <1>7 DEF Reminded
    <2> QED
      BY <2>3, <2>4 DEF Alive
  <1> QED
    BY <1>3, <1>6, <1>7

\* RETIRE_CONNECTION_ID keeps it, once the endpoint has answered the timer.
LEMMA RetireArrivesAlive ==
    ASSUME Ops = {}, CInv, Alive, NEW seq \in flightRetire,
           RetireArrives(seq) \/ \E arrived \in BOOLEAN : LoseRetire(seq, arrived)
    PROVE  Alive' /\ error' = error
  <1>1. /\ UNCHANGED <<issued, prevRetireSeq, retireSeq, epCids, cids, pendNew, flightNew>>
    BY DEF RetireArrives, LoseRetire, ReceiveRetire, stateVars, epVars, newVars
  <1>2. /\ seq \in Seqs(0, cids.offset) /\ cids.offset \in Nat /\ toEndpoint \in Seq(EventType)
        /\ issued \in Nat /\ cids.offset < issued
    BY HeldFrom DEF CInv, Routed, IdTypes
  <1>3. seq \in Nat /\ ~(seq > issued) /\ seq < cids.offset
    BY <1>2 DEF Seqs
  <1>4. pendRetire \cup flightRetire \subseteq pendRetire' \cup flightRetire' \cup {seq}
    BY DEF RetireArrives, LoseRetire
  <1>5. Coming' = Coming
    BY <1>1 DEF Coming, InFlight
  <1>6. \/ /\ ReceiveRetire(seq)
        \/ /\ UNCHANGED <<activeSeq, toEndpoint, error>>
           /\ pendRetire \cup flightRetire \subseteq pendRetire' \cup flightRetire'
    BY DEF RetireArrives, LoseRetire, stateVars
  <1>7. CASE ReceiveRetire(seq)
    <2>1. /\ activeSeq' = activeSeq \ {seq}
          /\ toEndpoint' = Append(toEndpoint, Retire(seq, Allow(activeSeq')))
          /\ error' = error /\ TimerServed
      BY <1>3, <1>7 DEF ReceiveRetire
    <2>2. PICK m : m = Allow(activeSeq')
      OBVIOUS
    <2>3. m \in BOOLEAN
      BY <2>2 DEF Allow
    <2>4. PICK e : e = Retire(seq, m)
      OBVIOUS
    <2>5. e \in EventType /\ IsRetire(e) /\ e.seq = seq
      BY <1>3, <2>3, <2>4, EventKinds, Zenon
    <2>6. toEndpoint' = Append(toEndpoint, e)
      BY <2>1, <2>2, <2>4, Zenon
    <2>7. Queued' = Queued \cup {seq}
      BY <1>2, <2>5, <2>6, AppendQueued DEF Queued
    <2>8. Agreed'
      <3>1. seq \notin Seqs(cids.offset, issued)
        BY <1>2, <1>3 DEF Seqs
      <3>2. \A s \in Coming' : s >= retireSeq'
        BY <1>1, <1>5 DEF Alive, Agreed
      <3>3. /\ Seqs(cids'.offset, issued') \subseteq activeSeq'
            /\ Seqs(cids'.offset, issued') \subseteq HeldBy(cids') \cup Coming'
        BY <1>1, <1>5, <2>1, <3>1 DEF Alive, Agreed
      <3>4. /\ activeSeq' \subseteq epCids' /\ epCids' \ activeSeq' \subseteq Queued'
            /\ activeSeq' \cap Queued' = {}
        BY <1>1, <2>1, <2>7 DEF Alive, Agreed
      <3>5. activeSeq' \cap Seqs(0, cids'.offset) \subseteq
                pendRetire' \cup flightRetire' \cup Coming'
        BY <1>1, <1>4, <1>5, <2>1 DEF Alive, Agreed
      <3> QED
        BY <3>2, <3>3, <3>4, <3>5 DEF Agreed
    <2>9. Reminded'
      <3>1. CASE \E i \in DOMAIN toEndpoint : ~IsRetire(toEndpoint[i]) /\ toEndpoint[i].n > 0
        <4>1. \E i \in DOMAIN toEndpoint' : ~IsRetire(toEndpoint'[i]) /\ toEndpoint'[i].n > 0
          BY <1>2, <2>5, <2>6, <3>1, AppendNeeds
        <4> QED
          BY <4>1 DEF Reminded
      <3> QED
        BY <1>1, <3>1 DEF Alive, Reminded
    <2>10. Fits'
      BY <1>1 DEF Alive, Fits
    <2>11. Counted'
      <3>1. UNCHANGED <<issued, prevRetireSeq, retireSeq, epCids>>
        BY <1>1
      <3>2. toEndpoint' = Append(toEndpoint, Retire(seq, m))
        BY <2>4, <2>6
      <3> QED
        BY <1>3, <2>1, <2>2, <3>1, <3>2, RetiredCounted DEF Alive
    <2> QED
      BY <2>1, <2>8, <2>9, <2>10, <2>11 DEF Alive
  <1>8. CASE /\ UNCHANGED <<activeSeq, toEndpoint, error>>
             /\ pendRetire \cup flightRetire \subseteq pendRetire' \cup flightRetire'
    <2>1. Agreed'
      <3>1. activeSeq' \cap Seqs(0, cids'.offset) \subseteq
                pendRetire' \cup flightRetire' \cup Coming'
        BY <1>1, <1>5, <1>8 DEF Alive, Agreed
      <3> QED
        BY <1>1, <1>5, <1>8, <3>1 DEF Alive, Agreed, Queued
    <2>2. Reminded' /\ Fits'
      BY <1>1, <1>8 DEF Alive, Reminded, Fits
    <2>3. Counted'
      BY <1>1, <1>8, SameCounted DEF Alive
    <2> QED
      BY <1>8, <2>1, <2>2, <2>3 DEF Alive
  <1> QED
    BY <1>6, <1>7, <1>8

\* The first state agrees.
LEMMA InitAlive == Init => Alive
  <1> SUFFICES ASSUME Init PROVE Alive
    OBVIOUS
  <1>1. HeldBy(cids) = 0 .. (FirstIds - 1) /\ cids.offset = 0
    BY InitQueue
  <1>2. FirstIds \in Nat /\ 0 < FirstIds /\ FirstIds <= Limit /\ Limit \in Nat
    BY LimitType
  <1>3. PICK e : e = Need(Limit - FirstIds)
    OBVIOUS
  <1>4. e \in EventType /\ ~IsRetire(e) /\ e.n = Limit - FirstIds
    <2>1. Limit - FirstIds \in Nat
      BY <1>2
    <2> QED
      BY <1>3, <2>1, EventKinds
  <1>5. toEndpoint = <<e>> /\ epCids = 0 .. (FirstIds - 1) /\ activeSeq = 0 .. (FirstIds - 1)
        /\ issued = FirstIds /\ retireSeq = 0 /\ pendNew = {} /\ flightNew = {}
    BY <1>3 DEF Init
  <1>6. Len(toEndpoint) = 1 /\ toEndpoint[1] = e
    BY <1>5
  <1>7. Queued = {} /\ Coming = {}
    BY <1>4, <1>5, <1>6 DEF Queued, QueuedIn, Coming, InFlight
  <1>8. Seqs(cids.offset, issued) = 0 .. (FirstIds - 1) /\ Seqs(0, cids.offset) = {}
    BY <1>1, <1>2, <1>5 DEF Seqs
  <1>9. Agreed
    BY <1>1, <1>5, <1>7, <1>8 DEF Agreed
  <1>10. Reminded /\ Fits
    BY <1>1, <1>5 DEF Reminded, Fits
  <1>11. Cardinality(activeSeq) = FirstIds
    <2>1. Cardinality(Seqs(0, FirstIds)) = FirstIds - 0
      BY <1>2, SeqsSize
    <2>2. activeSeq = Seqs(0, FirstIds)
      BY <1>5 DEF Seqs
    <2> QED
      BY <1>2, <2>1, <2>2
  <1>12. Counted
    <2> DEFINE start == [i \in 1 .. 2 |-> IF i = 1 THEN FirstIds ELSE Limit]
    <2>1. /\ start \in [1 .. 2 -> Nat] /\ start[1] = FirstIds /\ start[2] = Limit
      BY <1>2
    <2> HIDE DEF start
    <2>2. Weight(toEndpoint, epCids, 1) = Limit - FirstIds
      BY <1>4, <1>6 DEF Weight
    <2>3. \A i \in 1 .. 1 : start[i + 1] = start[i] + Weight(toEndpoint, epCids, i)
      <3> TAKE i \in 1 .. 1
      <3>1. i = 1
        OBVIOUS
      <3> QED
        BY <1>2, <2>1, <2>2, <3>1
    <2>4. \A i \in 1 .. 2 : start[i] <= start[2]
      <3> TAKE i \in 1 .. 2
      <3>1. i = 1 \/ i = 2
        OBVIOUS
      <3> QED
        BY <1>2, <2>1, <3>1
    <2>5. Len(toEndpoint) + 1 = 2
      BY <1>6
    <2>6. Ledger(start, toEndpoint, epCids, issued)
      BY <1>5, <1>6, <2>1, <2>3, <2>4, <2>5 DEF Ledger
    <2>7. Balanced(start[Len(toEndpoint) + 1])
      BY <1>2, <1>5, <1>11, <2>1, <2>5 DEF Balanced
    <2> QED
      BY <2>6, <2>7, Zenon DEF Counted
  <1> QED
    BY <1>9, <1>10, <1>12 DEF Alive

\* Without an error the agreement is inductive.
LEMMA NextAlive ==
    ASSUME Ops = {}, CInv, error = "none" => Alive, [Next]_vars, error' = "none"
    PROVE  Alive'
  <1>1. CASE UNCHANGED vars
    <2>1. UNCHANGED <<issued, activeSeq, prevRetireSeq, retireSeq, epCids, toEndpoint, cids,
                      pendNew, flightNew, pendRetire, flightRetire, error>>
      BY <1>1 DEF vars, stateVars, epVars, newVars, retireVars
    <2>2. Alive
      BY <2>1
    <2>3. Counted'
      BY <2>1, <2>2, SameCounted DEF Alive
    <2>4. Agreed' /\ Reminded' /\ Fits'
      BY <2>1, <2>2 DEF Alive, Agreed, Reminded, Fits, Queued, Coming, InFlight
    <2> QED
      BY <2>3, <2>4 DEF Alive
  <1>2. CASE Next
    <2>1. Alive
      <3>1. error = "none"
        BY <1>2 DEF Next, HandleNeed, HandleRetire, Expire, SendNew, SendRetire, UpdateRemoteCid,
                    NextReserved, NewArrives, LoseNew, ReceiveNew, RetireArrives, LoseRetire,
                    ReceiveRetire
      <3> QED
        BY <3>1
    <2>2. CASE HandleNeed \/ HandleRetire \/ Expire
      BY <2>1, <2>2, NeedAlive, RetireAlive, ExpireAlive
    <2>3. CASE SendNew \/ SendRetire \/ UpdateRemoteCid \/ NextReserved
      BY <2>1, <2>3, SendAlive, HolderAlive
    <2>4. CASE \E f \in flightNew : NewArrives(f) \/ \E arrived \in BOOLEAN : LoseNew(f, arrived)
      BY <2>1, <2>4, NewAlive
    <2>5. CASE \E seq \in flightRetire :
                   RetireArrives(seq) \/ \E arrived \in BOOLEAN : LoseRetire(seq, arrived)
      BY <2>1, <2>5, RetireArrivesAlive
    <2> QED
      BY <1>2, <2>2, <2>3, <2>4, <2>5, Zenon DEF Next
  <1> QED
    BY <1>1, <1>2

\* When nothing is on its way, the ids that are active, that are held and that the issuer
\* issued last are the same.
LEMMA QuietReplenished == CInv /\ (error = "none" => Alive) => IdsReplenished
  <1> SUFFICES ASSUME CInv, Alive, toEndpoint = <<>>, pendNew = {}, flightNew = {}, pendRetire = {},
                      flightRetire = {}
               PROVE  Cardinality(Held) = Limit
    BY DEF IdsReplenished
  <1>1. /\ issued \in Nat /\ retireSeq \in Nat /\ prevRetireSeq \in Nat /\ cids.offset \in Nat
        /\ cids.offset < issued /\ Limit \in Nat /\ activeSeq \subseteq Seqs(0, issued)
        /\ HeldBy(cids) \subseteq Seqs(cids.offset, issued)
    BY HeldFrom, LimitType DEF CInv, IdTypes, Routed, Ids
  <1>2. Coming = {}
    BY DEF Coming, InFlight
  <1>3. HeldBy(cids) = Seqs(cids.offset, issued)
    BY <1>1, <1>2 DEF Alive, Agreed
  <1>4. activeSeq = Seqs(cids.offset, issued)
    <2>1. Seqs(0, issued) = Seqs(0, cids.offset) \cup Seqs(cids.offset, issued)
      BY <1>1 DEF Seqs
    <2>2. activeSeq \cap Seqs(0, cids.offset) = {} /\ Seqs(cids.offset, issued) \subseteq activeSeq
      BY <1>2 DEF Alive, Agreed
    <2> QED
      BY <1>1, <2>1, <2>2
  <1>5. cids.offset >= retireSeq
    BY DEF Alive, Reminded
  <1>6. activeSeq \cap Seqs(prevRetireSeq, retireSeq) = {}
    BY <1>1, <1>4, <1>5 DEF Seqs
  <1>7. Cardinality(activeSeq) = Limit
    <2>1. PICK start : /\ Ledger(start, toEndpoint, epCids, issued)
                       /\ Balanced(start[Len(toEndpoint) + 1])
      BY DEF Alive, Counted
    <2>2. Len(toEndpoint) + 1 = 1
      OBVIOUS
    <2>3. start[Len(toEndpoint) + 1] = issued
      BY <2>1, <2>2 DEF Ledger
    <2>4. Balanced(issued)
      BY <2>1, <2>3
    <2>5. Cardinality(activeSeq) \in Nat
      BY ActiveFinite DEF CInv
    <2> QED
      BY <1>1, <1>6, <2>4, <2>5 DEF Balanced
  <1>8. Held = HeldBy(cids)
    BY DEF Held, HeldBy, HeldIn, Slots
  <1> QED
    BY <1>3, <1>4, <1>7, <1>8

-----------------------------------------------------------------------------
(* Nobody is accused                                                       *)

\* NEW_CONNECTION_ID is refused only when too many retirements are queued.
LEMMA ReceiveRefused ==
    ASSUME CInv, Alive, error = "none", NEW f \in flightNew, ReceiveNew(f)
    PROVE  /\ error' \in {"none", "too many retired"}
           /\ error' # "none" =>
                  /\ Accept(f) /\ f.rpt <= f.seq /\ cids.offset <= f.seq
                  /\ f.seq - cids.offset < QueueLen + RetiredCount(cids, f)
  <1>1. /\ f.seq \in Nat /\ f.rpt \in Nat /\ cids.offset \in Nat /\ QueueLen \in Nat
    BY FrameIn, HeldFrom, Room DEF CInv
  <1>2. /\ f.rpt <= f.seq
        /\ f.seq < cids.offset \/ f.seq - cids.offset < QueueLen + RetiredCount(cids, f)
    BY NoRefusal DEF Alive
  <1>3. ~(f.rpt > f.seq)
    BY <1>1, <1>2
  <1>4. CASE f.seq < cids.offset
    BY <1>3, <1>4 DEF ReceiveNew
  <1>5. CASE ~(f.seq < cids.offset)
    <2>1. f.seq - cids.offset < QueueLen + RetiredCount(cids, f) /\ cids.offset <= f.seq
      BY <1>1, <1>2, <1>5
    <2>2. ~(f.seq - cids.offset >= QueueLen + RetiredCount(cids, f))
      BY <1>1, <2>1 DEF RetiredCount
    <2>3. Accept(f)
      BY <1>3, <1>5, <2>2, Zenon DEF ReceiveNew
    <2>4. error' \in {"none", "too many retired"}
      BY <2>3 DEF Accept
    <2> QED
      BY <1>2, <2>1, <2>3, <2>4
  <1> QED
    BY <1>4, <1>5

\* The numbers of Reach
LEMMA ReachTypes ==
    ASSUME CInv
    PROVE  /\ Most \in Nat /\ MaxMoves <= Most /\ MaxExpired <= Most /\ QueueLen \in Nat
           /\ Limit \in Nat /\ Limit <= QueueLen /\ cids.offset \in Nat /\ retireSeq \in Nat
           /\ issued \in Nat /\ MaxMoves \in Nat /\ MaxExpired \in Nat
  <1>1. MaxMoves \in Nat /\ MaxExpired \in Nat
    BY BoundsAssumption
  <1> QED
    BY <1>1, Room, LimitType, HeldFrom DEF Most, CInv, IdTypes

\* Ids get no further when frames arrive, ...
LEMMA ReceiveReach ==
    ASSUME CInv, Alive, Reach, NEW f \in flightNew, ReceiveNew(f), error' = "none"
    PROVE  Reach'
  <1>1. /\ Most \in Nat /\ QueueLen \in Nat /\ Limit \in Nat /\ Limit <= QueueLen
        /\ cids.offset \in Nat /\ retireSeq \in Nat
    BY ReachTypes
  <1>2. /\ f.seq \in Nat /\ f.rpt \in Nat /\ f.rpt <= retireSeq /\ QueueInv(cids)
    BY FrameIn DEF CInv
  <1>3. f.seq < cids.offset + Limit \/ f.seq < f.rpt + Limit
    BY DEF Alive, Fits
  <1>4. QueueInv(cids')
    BY <1>2, ReceiveExact
  <1>5. cids'.offset = cids.offset \/ cids'.offset < QueueLen
        \/ (f.rpt > cids.offset /\ cids'.offset <= f.seq)
    BY <1>2, AcceptExact
  <1>6. cids'.offset \in Nat /\ retireSeq' = retireSeq
    BY <1>4, HeldFrom DEF ReceiveNew, stateVars
  <1>7. cids'.offset <= Most + QueueLen \/ cids'.offset < retireSeq + QueueLen
    <2>1. CASE cids'.offset = cids.offset
      BY <2>1 DEF Reach
    <2>2. CASE cids'.offset < QueueLen
      BY <1>1, <1>6, <2>2
    <2>3. CASE f.rpt > cids.offset /\ cids'.offset <= f.seq
      BY <1>1, <1>2, <1>3, <1>6, <2>3
    <2> QED
      BY <1>5, <2>1, <2>2, <2>3
  <1> QED
    BY <1>6, <1>7 DEF Reach

\* ... and the holder never has more to retire than it accepts.
LEMMA ReceiveQuiet ==
    ASSUME MaxMoves <= 7 * QueueLen, MaxExpired <= 7 * QueueLen,
           CInv, Alive, Reach, error = "none", NEW f \in flightNew, ReceiveNew(f)
    PROVE  error' = "none"
  <1>1. /\ Most \in Nat /\ QueueLen \in Nat /\ Limit \in Nat /\ Limit <= QueueLen
        /\ cids.offset \in Nat /\ retireSeq \in Nat /\ Most <= 7 * QueueLen
    BY ReachTypes DEF Most
  <1>2. /\ f.seq \in Nat /\ f.rpt \in Nat /\ f.rpt <= retireSeq /\ QueueInv(cids)
        /\ pendRetire \subseteq Seqs(0, cids.offset)
    BY FrameIn DEF CInv, Routed
  <1>3. f.seq < cids.offset + Limit \/ f.seq < f.rpt + Limit
    BY DEF Alive, Fits
  <1>4. CASE error' # "none"
    <2>1. /\ Accept(f) /\ f.rpt <= f.seq /\ cids.offset <= f.seq
          /\ f.seq - cids.offset < QueueLen + RetiredCount(cids, f)
      BY <1>4, ReceiveRefused
    <2>2. PICK q : q = Inserted(cids, f)
      OBVIOUS
    <2>3. /\ QueueInv(q) /\ q.offset >= cids.offset /\ q.offset <= f.seq
          /\ RetiredCount(cids, f) = 0 => q.offset = cids.offset
          /\ RetiredCount(cids, f) # 0 => f.rpt > cids.offset
      BY <1>2, <2>1, <2>2, InsertExact
    <2>4. q.offset \in Nat
      BY <2>3, HeldFrom
    <2>5. q.offset <= 10 * QueueLen
      <3>1. cids.offset <= Most + 3 * QueueLen /\ retireSeq <= Most + 2 * QueueLen
        BY <1>1 DEF Reach
      <3>2. CASE q.offset = cids.offset
        BY <1>1, <2>4, <3>1, <3>2
      <3>3. CASE f.rpt > cids.offset
        BY <1>1, <1>2, <1>3, <2>3, <2>4, <3>1, <3>3
      <3> QED
        BY <2>3, <3>2, <3>3
    <2> DEFINE R == RetiredBy(cids, q)
    <2>6. R \subseteq Seqs(cids.offset, q.offset)
      <3> SUFFICES ASSUME NEW s \in R PROVE s \in Seqs(cids.offset, q.offset)
        OBVIOUS
      <3> QED
        BY <1>1, <2>4, RetiredExact
    <2>7. Cardinality(R) \in Nat /\ Cardinality(R) <= q.offset - cids.offset
      <3>1. /\ IsFiniteSet(Seqs(cids.offset, q.offset))
            /\ Cardinality(Seqs(cids.offset, q.offset)) = q.offset - cids.offset
        BY <1>1, <2>3, <2>4, SeqsSize
      <3> HIDE DEF R
      <3>2. IsFiniteSet(R) /\ Cardinality(R) <= Cardinality(Seqs(cids.offset, q.offset))
        BY <2>6, <3>1, FS_Subset
      <3>3. Cardinality(R) \in Nat
        BY <3>2, FS_CardinalityType
      <3> QED
        BY <3>1, <3>2, <3>3
    <2>8. Cardinality(pendRetire) \in Nat /\ Cardinality(pendRetire) <= cids.offset
      <3>1. /\ IsFiniteSet(Seqs(0, cids.offset))
               /\ Cardinality(Seqs(0, cids.offset)) = cids.offset - 0
        BY <1>1, SeqsSize
      <3>2. IsFiniteSet(pendRetire) /\ Cardinality(pendRetire) <= Cardinality(Seqs(0, cids.offset))
        BY <1>2, <3>1, FS_Subset
      <3>3. Cardinality(pendRetire) \in Nat
        BY <3>2, FS_CardinalityType
      <3> QED
        BY <1>1, <3>1, <3>2, <3>3
    <2> HIDE DEF R
    <2>9. ~(Cardinality(pendRetire) + Cardinality(R) > MaxPendingRetired)
      BY <1>1, <2>4, <2>5, <2>7, <2>8 DEF MaxPendingRetired
    <2> QED
      BY <2>1, <2>2, <2>9 DEF Accept, R
  <1> QED
    BY <1>4

\* Ids get no further than the bounds allow, and nobody is accused.
LEMMA NextReach ==
    ASSUME Ops = {}, MaxMoves <= 7 * QueueLen, MaxExpired <= 7 * QueueLen,
           CInv, Alive, Reach, error = "none", [Next]_vars
    PROVE  Reach' /\ error' = "none"
  <1>1. /\ Most \in Nat /\ MaxMoves <= Most /\ MaxExpired <= Most /\ QueueLen \in Nat
        /\ Limit \in Nat /\ Limit <= QueueLen /\ cids.offset \in Nat /\ retireSeq \in Nat
        /\ issued \in Nat /\ MaxMoves \in Nat /\ MaxExpired \in Nat
    BY ReachTypes
  <1>2. CASE cids' = cids /\ retireSeq' = retireSeq /\ error' = error
    BY <1>2 DEF Reach
  <1>3. CASE HandleNeed \/ HandleRetire
    BY <1>2, <1>3 DEF HandleNeed, HandleRetire, NewIdentifiers
  <1>4. CASE SendNew \/ SendRetire \/ UNCHANGED vars
    BY <1>2, <1>4 DEF SendNew, SendRetire, vars, stateVars
  <1>5. CASE Expire
    <2>1. PICK e : e = Head(retireTimestamp)
      OBVIOUS
    <2>2. /\ retireTimestamp # <<>> /\ retireSeq < MaxExpired /\ cids' = cids /\ error' = error
          /\ retireSeq' = retireSeq \/ retireSeq' = e + 1
      BY <1>5, <2>1 DEF Expire
    <2>3. e \in Nat /\ retireSeq <= e /\ e < issued
      BY <1>1, <2>1, <2>2, LifetimesTail DEF CInv, IdTypes
    <2>4. issued <= cids.offset + Limit \/ issued <= retireSeq + Limit
      BY IssuedBound DEF Alive
    <2>5. cids.offset <= Most + QueueLen \/ cids.offset < retireSeq + QueueLen
      BY DEF Reach
    <2>6. issued <= Most + 2 * QueueLen
      BY <1>1, <2>2, <2>4, <2>5
    <2>7. CASE retireSeq' = retireSeq
      BY <1>2, <2>2, <2>7
    <2>8. CASE retireSeq' = e + 1
      <3>1. retireSeq' <= Most + 2 * QueueLen
        BY <1>1, <2>3, <2>6, <2>8
      <3>2. cids.offset <= Most + QueueLen \/ cids.offset < retireSeq' + QueueLen
        BY <1>1, <2>3, <2>5, <2>8
      <3> QED
        BY <2>2, <3>1, <3>2 DEF Reach
    <2> QED
      BY <2>2, <2>7, <2>8
  <1>6. CASE UpdateRemoteCid
    <2>1. cids'.offset < cids.offset + QueueLen /\ QueueInv(cids')
      BY <1>6, UpdateExact DEF CInv
    <2>2. cids.offset < MaxMoves /\ retireSeq' = retireSeq /\ error' = error
      BY <1>6 DEF UpdateRemoteCid, stateVars
    <2>3. cids'.offset \in Nat
      BY <2>1, HeldFrom
    <2>4. cids'.offset <= Most + QueueLen
      BY <1>1, <2>1, <2>2, <2>3
    <2> QED
      BY <2>2, <2>4 DEF Reach
  <1>7. CASE NextReserved
    <2>1. cids'.offset = cids.offset
      BY <1>7, ReserveExact DEF CInv
    <2>2. retireSeq' = retireSeq /\ error' = error
      BY <1>7 DEF NextReserved, stateVars
    <2> QED
      BY <2>1, <2>2 DEF Reach
  <1>8. ASSUME NEW f \in flightNew, NewArrives(f) \/ \E arrived \in BOOLEAN : LoseNew(f, arrived)
        PROVE  Reach' /\ error' = "none"
    <2>1. CASE ReceiveNew(f)
      <3>1. error' = "none"
        BY <2>1, ReceiveQuiet
      <3>2. Reach'
        BY <2>1, <3>1, ReceiveReach
      <3> QED
        BY <3>1, <3>2
    <2>2. ReceiveNew(f) \/ (cids' = cids /\ retireSeq' = retireSeq /\ error' = error)
      BY <1>8 DEF NewArrives, LoseNew, stateVars
    <2> QED
      BY <1>2, <2>1, <2>2
  <1>9. ASSUME NEW seq \in flightRetire,
               RetireArrives(seq) \/ \E arrived \in BOOLEAN : LoseRetire(seq, arrived)
        PROVE  Reach' /\ error' = "none"
    <2>1. error' = error
      BY <1>9, RetireArrivesAlive
    <2>2. cids' = cids /\ retireSeq' = retireSeq
      BY <1>9 DEF RetireArrives, LoseRetire, ReceiveRetire, stateVars
    <2> QED
      BY <1>2, <2>1, <2>2
  <1> QED
    BY <1>3, <1>4, <1>5, <1>6, <1>7, <1>8, <1>9, Zenon DEF Next

\* A connection is closed only for the retirements that are queued.
OnlyRetired == error \in {"none", "too many retired"}

\* For any number of ids, moves, expiries and losses, in whatever order frames and events
\* arrive, if the timer and the frames do not race (Ops): neither side accuses the other of
\* exceeding the limit or of a protocol violation, but for the number of retirements queued
\* (MAX_PENDING_RETIRED_CIDS), and whenever nothing is on its way any more, the holder has as
\* many ids as both ends allow.
THEOREM PeersTheorem == ASSUME Ops = {} PROVE Spec => [](OnlyRetired /\ IdsReplenished)
  <1> DEFINE I == CInv /\ OnlyRetired /\ (error = "none" => Alive)
  <1>1. Init => I
    BY InitCInv, InitAlive DEF Init, OnlyRetired
  <1>2. I /\ [Next]_vars => I'
    <2> SUFFICES ASSUME I, [Next]_vars PROVE I'
      OBVIOUS
    <2>1. CInv' /\ (error' = "none" => Alive')
      BY NextCInv, NextAlive
    <2>2. OnlyRetired'
      <3>1. CASE error' = error
        BY <3>1 DEF OnlyRetired
      <3>2. ASSUME NEW f \in flightNew, ReceiveNew(f) PROVE OnlyRetired'
        <4>1. error = "none"
          BY <3>2 DEF ReceiveNew
        <4> QED
          BY <3>2, <4>1, ReceiveRefused DEF OnlyRetired
      <3>3. ASSUME NEW seq \in flightRetire,
                   RetireArrives(seq) \/ \E arrived \in BOOLEAN : LoseRetire(seq, arrived)
            PROVE  error' = error
        <4>1. error = "none"
          BY <3>3 DEF RetireArrives, LoseRetire, ReceiveRetire
        <4> QED
          BY <3>3, <4>1, RetireArrivesAlive
      <3>4. HandleNeed \/ HandleRetire => error' = error
        BY DEF HandleNeed, HandleRetire, NewIdentifiers
      <3>5. Expire \/ SendNew \/ SendRetire \/ UpdateRemoteCid \/ NextReserved \/ UNCHANGED vars =>
                error' = error
        BY DEF Expire, SendNew, SendRetire, UpdateRemoteCid, NextReserved, vars
      <3>6. \A f \in flightNew : NewArrives(f) \/ (\E arrived \in BOOLEAN : LoseNew(f, arrived)) =>
                ReceiveNew(f) \/ error' = error
        BY DEF NewArrives, LoseNew
      <3> QED
        BY <3>1, <3>2, <3>3, <3>4, <3>5, <3>6, Zenon DEF Next
    <2> QED
      BY <2>1, <2>2
  <1>3. I => OnlyRetired /\ IdsReplenished
    BY QuietReplenished
  <1> HIDE DEF I
  <1> QED
    BY <1>1, <1>2, <1>3, PTL DEF Spec

\* Issuer and holder agree on the ids, for any window, any number of losses and up to seven
\* windows of moves and expiries, in whatever order frames and events arrive, if the timer
\* and the frames do not race (Ops).  Within that many moves the ids that wait for their
\* retirement are never more than MAX_PENDING_RETIRED_CIDS.
THEOREM IdsTheorem ==
    ASSUME Ops = {}, MaxMoves <= 7 * QueueLen, MaxExpired <= 7 * QueueLen
    PROVE  Spec => IdsAgree
  <1> DEFINE I == CInv /\ error = "none" /\ Alive /\ Reach
  <1>1. Init => I
    <2> SUFFICES ASSUME Init PROVE I
      OBVIOUS
    <2>1. CInv /\ Alive /\ error = "none" /\ retireSeq = 0 /\ cids.offset = 0
      BY InitCInv, InitAlive, InitQueue DEF Init
    <2>2. Most \in Nat /\ QueueLen \in Nat
      BY <2>1, ReachTypes
    <2>3. Reach
      BY <2>1, <2>2 DEF Reach
    <2> QED
      BY <2>1, <2>3
  <1>2. I /\ [Next]_vars => I'
    <2> SUFFICES ASSUME I, [Next]_vars PROVE I'
      OBVIOUS
    <2>1. Reach' /\ error' = "none"
      BY NextReach
    <2>2. CInv'
      BY NextCInv
    <2>3. Alive'
      BY <2>1, NextAlive
    <2> QED
      BY <2>1, <2>2, <2>3
  <1>3. I => WindowExact /\ HonestPeersAgree /\ HeldIsRouted /\ IdsReplenished
    BY QueueExact, QuietReplenished DEF HonestPeersAgree
  <1>4. I /\ [Next]_vars =>
            [cids'.offset # cids.offset =>
                cids'.offset > cids.offset + ReservedLen(cids) \/ cids.offset < retireSeq]_vars
    BY SkipsReserved
  <1> HIDE DEF I
  <1> QED
    BY <1>1, <1>2, <1>3, <1>4, PTL DEF Spec, IdsAgree, ReservedSkipped
=============================================================================
