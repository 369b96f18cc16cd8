------------------------ MODULE EndpointDriver_proofs ------------------------
(***************************************************************************)
(* Proofs about EndpointDriver: the reference counter counts the handles,   *)
(* no waiter of the endpoint sleeps past what it waits for, and the driver  *)
(* sleeps only with nothing to do.                                          *)
(***************************************************************************)
EXTENDS EndpointDriver, FiniteSetTheorems, TLAPS

Phases == {"new", "queued", "held", "live", "told", "closed", "ended", "refused"}
Kinds == {"none", "accept", "idle"}
FutureType == [kind : Kinds, notified : BOOLEAN, awake : BOOLEAN]
EndpointType ==
    [incoming : Seq(Conns), senders : SUBSET Conns, close : BOOLEAN,
     driver : BOOLEAN, scheduled : BOOLEAN, lost : BOOLEAN, failed : BOOLEAN]

\* Every variable is of its type.
Typed ==
    /\ endpoint \in EndpointType
    /\ events \in Seq(Conns)
    /\ conns \in [Conns -> Phases]
    /\ futures \in [Tasks -> FutureType]
    /\ handles \subseteq Tasks
    /\ refs \in 0 .. RefModulus - 1

\* The attempts that wait to be accepted wait once.
Queue ==
    /\ \A i \in 1 .. Len(endpoint.incoming) : conns[endpoint.incoming[i]] = "queued"
    /\ \A i, j \in 1 .. Len(endpoint.incoming) :
           endpoint.incoming[i] = endpoint.incoming[j] => i = j

\* The attempts an Incoming refers to
HeldIn(f) == {c \in Conns : f[c] = "held"}

\* While the driver runs the counter is that of the handles and Incomings: it
\* neither wraps nor becomes zero while one is left.
Counted == ~endpoint.lost => refs = Cardinality(handles) + Cardinality(HeldIn(conns))

\* A task in `accept` sleeps only while there is nothing for it.
AcceptWaits ==
    \A t \in Tasks : futures[t].kind = "accept" /\ futures[t].awake = FALSE =>
        /\ endpoint.lost = FALSE /\ endpoint.close = FALSE
        /\ endpoint.incoming = <<>>

\* A task in `wait_idle` that was not told has a connection to wait for,
\* before it sleeps as well as while it does.
IdleWaits ==
    \A t \in Tasks : futures[t].kind = "idle" /\ futures[t].notified = FALSE =>
        endpoint.senders # {} \/ endpoint.lost = TRUE

\* The driver sleeps with nothing to do.
DriverSleeps ==
    endpoint.lost = FALSE /\ endpoint.scheduled = FALSE =>
        /\ events = <<>> /\ endpoint.driver = TRUE
        /\ endpoint.senders = {} => refs # 0 /\ endpoint.close = FALSE

\* A closed endpoint has told its connections.
AllTold == endpoint.close = TRUE => \A c \in endpoint.senders : conns[c] # "live"

EndpointInv ==
    Typed /\ Queue /\ Counted /\ AcceptWaits /\ IdleWaits /\ DriverSleeps /\ AllTold

-----------------------------------------------------------------------------
(* What is told and woken.                                                 *)

\* Notified changes nothing but the flags of the futures it is for.
LEMMA NotifiedFacts ==
    ASSUME NEW f \in [Tasks -> FutureType], NEW k
    PROVE  /\ Notified(f, k) \in [Tasks -> FutureType]
           /\ \A t \in Tasks :
                /\ Notified(f, k)[t].kind = f[t].kind
                /\ f[t].kind = k => Notified(f, k)[t].notified = TRUE
                                    /\ Notified(f, k)[t].awake = TRUE
                /\ f[t].kind # k => Notified(f, k)[t] = f[t]
  <1> DEFINE G(t) == IF f[t].kind = k
                     THEN [f[t] EXCEPT !.notified = TRUE, !.awake = TRUE] ELSE f[t]
  <1>1. Notified(f, k) = [t \in Tasks |-> G(t)]
    BY DEF Notified
  <1>2. ASSUME NEW t \in Tasks
        PROVE  /\ G(t) \in FutureType
               /\ G(t).kind = f[t].kind
               /\ f[t].kind = k => G(t).notified = TRUE /\ G(t).awake = TRUE
               /\ f[t].kind # k => G(t) = f[t]
    <2>1. f[t] \in FutureType
      OBVIOUS
    <2>2. CASE f[t].kind = k
      BY <2>1, <2>2 DEF FutureType
    <2>3. CASE f[t].kind # k
      BY <2>1, <2>3
    <2> QED
      BY <2>2, <2>3
  <1> HIDE DEF G
  <1>3. \A t \in Tasks : Notified(f, k)[t] = G(t)
    BY <1>1
  <1>4. Notified(f, k) \in [Tasks -> FutureType]
    BY <1>1, <1>2
  <1> QED
    BY <1>2, <1>3, <1>4

\* Wake schedules a driver whose waker is stored, and changes nothing else.
LEMMA WakeFacts ==
    ASSUME NEW e \in EndpointType
    PROVE  /\ Wake(e) \in EndpointType
           /\ Wake(e).incoming = e.incoming /\ Wake(e).senders = e.senders
           /\ Wake(e).close = e.close /\ Wake(e).lost = e.lost
           /\ e.driver = TRUE \/ e.scheduled = TRUE => Wake(e).scheduled = TRUE
           /\ e.driver = FALSE => Wake(e) = e
  <1>1. CASE e.driver = TRUE
    BY <1>1 DEF Wake, EndpointType
  <1>2. CASE e.driver = FALSE
    BY <1>2 DEF Wake, EndpointType
  <1>3. e.driver \in BOOLEAN
    BY DEF EndpointType
  <1> QED
    BY <1>1, <1>2, <1>3

\* The counter at a drop: the last reference to go wakes the driver.
LEMMA DroppedFacts ==
    ASSUME NEW e \in EndpointType, NEW n \in Nat
    PROVE  /\ Dropped(n, e) \in EndpointType
           /\ Dropped(n, e).incoming = e.incoming /\ Dropped(n, e).senders = e.senders
           /\ Dropped(n, e).close = e.close /\ Dropped(n, e).lost = e.lost
           /\ Dropped(n, e).scheduled = FALSE =>
                /\ e.scheduled = FALSE
                /\ e.driver = TRUE => n > 1 /\ Dropped(n, e).driver = TRUE
  <1>1. CASE n > 1
    BY <1>1 DEF Dropped
  <1>2. CASE ~(n > 1)
    <2>1. Dropped(n, e) = Wake(e)
      BY <1>2 DEF Dropped
    <2>2. e.scheduled \in BOOLEAN
      BY DEF EndpointType
    <2> QED
      BY <2>1, <2>2, WakeFacts
  <1> QED
    BY <1>1, <1>2

\* The attempts held before and after one of them changes
LEMMA HeldFacts ==
    ASSUME CounterWide, NEW f \in [Conns -> Phases], NEW c \in Conns, NEW x \in Phases
    PROVE  /\ IsFiniteSet(HeldIn(f)) /\ Cardinality(HeldIn(f)) \in Nat
           /\ Cardinality(HeldIn(f)) <= Cardinality(Conns)
           /\ f[c] # "held" /\ x # "held" => HeldIn([f EXCEPT ![c] = x]) = HeldIn(f)
           /\ f[c] = "held" /\ x # "held" =>
                Cardinality(HeldIn([f EXCEPT ![c] = x])) = Cardinality(HeldIn(f)) - 1
           /\ f[c] # "held" /\ x = "held" =>
                Cardinality(HeldIn([f EXCEPT ![c] = x])) = Cardinality(HeldIn(f)) + 1
  <1>1. HeldIn(f) \subseteq Conns /\ IsFiniteSet(Conns)
    BY DEF HeldIn, CounterWide
  <1>2. /\ IsFiniteSet(HeldIn(f))
        /\ Cardinality(HeldIn(f)) <= Cardinality(Conns)
    BY <1>1, FS_Subset
  <1>3. Cardinality(HeldIn(f)) \in Nat
    BY <1>2, FS_CardinalityType
  <1>4. ASSUME f[c] # "held", x # "held"
        PROVE  HeldIn([f EXCEPT ![c] = x]) = HeldIn(f)
    BY <1>4 DEF HeldIn
  <1>5. ASSUME f[c] = "held", x # "held"
        PROVE  Cardinality(HeldIn([f EXCEPT ![c] = x])) = Cardinality(HeldIn(f)) - 1
    <2>1. HeldIn([f EXCEPT ![c] = x]) = HeldIn(f) \ {c} /\ c \in HeldIn(f)
      BY <1>5 DEF HeldIn
    <2> QED
      BY <2>1, <1>2, FS_RemoveElement
  <1>6. ASSUME f[c] # "held", x = "held"
        PROVE  Cardinality(HeldIn([f EXCEPT ![c] = x])) = Cardinality(HeldIn(f)) + 1
    <2>1. HeldIn([f EXCEPT ![c] = x]) = HeldIn(f) \cup {c} /\ c \notin HeldIn(f)
      BY <1>6 DEF HeldIn
    <2> QED
      BY <2>1, <1>2, FS_AddElement
  <1> QED
    BY <1>2, <1>3, <1>4, <1>5, <1>6

\* There are at most as many handles as tasks.
LEMMA HandleFacts ==
    ASSUME CounterWide, NEW h \in SUBSET Tasks
    PROVE  /\ IsFiniteSet(h) /\ Cardinality(h) \in Nat
           /\ Cardinality(h) <= Cardinality(Tasks)
           /\ \A t \in Tasks : t \notin h => Cardinality(h \cup {t}) = Cardinality(h) + 1
           /\ \A t \in h : Cardinality(h \ {t}) = Cardinality(h) - 1
  <1>1. IsFiniteSet(h) /\ Cardinality(h) <= Cardinality(Tasks)
    BY FS_Subset DEF CounterWide
  <1>2. Cardinality(h) \in Nat
    BY <1>1, FS_CardinalityType
  <1> QED
    BY <1>1, <1>2, FS_AddElement, FS_RemoveElement

\* While the driver runs another handle fits into the counter, and one that goes
\* leaves the number of the others.
LEMMA RefsFacts ==
    ASSUME CounterWide, Typed, Counted, endpoint.lost = FALSE
    PROVE  /\ refs \in Nat
           /\ refs = Cardinality(handles) + Cardinality(HeldIn(conns))
           /\ refs < RefModulus
           /\ refs > 0 => (refs - 1) % RefModulus = refs - 1
           /\ refs + 1 < RefModulus => (refs + 1) % RefModulus = refs + 1
  <1>1. refs \in 0 .. RefModulus - 1 /\ RefModulus \in Nat
    BY DEF Typed, CounterWide
  <1>2. refs = Cardinality(handles) + Cardinality(HeldIn(conns))
    BY DEF Counted
  <1> QED
    BY <1>1, <1>2

-----------------------------------------------------------------------------
(* The driver's steps.                                                     *)

\* The start: one handle, nothing under way.
LEMMA InitInv ==
    ASSUME CounterWide, Init
    PROVE  EndpointInv
  <1> USE DEF Init
  <1>1. Typed
    <2>1. refs \in 0 .. RefModulus - 1
      <3>1. Cardinality(Tasks) \in Nat /\ Cardinality(Conns) \in Nat
        BY FS_CardinalityType DEF CounterWide
      <3>2. Cardinality({First}) <= Cardinality(Tasks) /\ Cardinality({First}) = 1
        BY FS_Subset, FS_Singleton DEF CounterWide
      <3> QED
        BY <3>1, <3>2 DEF CounterWide
    <2>2. NoFuture \in FutureType
      BY DEF NoFuture, FutureType, Kinds
    <2>3. handles \subseteq Tasks
      BY DEF CounterWide
    <2>4. endpoint \in EndpointType
      BY DEF EndpointType
    <2>5. conns \in [Conns -> Phases] /\ events \in Seq(Conns)
      BY DEF Phases
    <2> QED
      BY <2>1, <2>2, <2>3, <2>4, <2>5 DEF Typed
  <1>2. Queue
    BY DEF Queue
  <1>3. Counted
    <2>1. HeldIn(conns) = {}
      BY DEF HeldIn
    <2>2. Cardinality(HeldIn(conns)) = 0
      BY <2>1, FS_EmptySet, Zenon
    <2>3. Cardinality(handles) = 1
      BY FS_Singleton
    <2> QED
      BY <2>2, <2>3 DEF Counted
  <1>4. AcceptWaits /\ IdleWaits
    BY DEF AcceptWaits, IdleWaits, NoFuture
  <1>5. DriverSleeps /\ AllTold
    BY DEF DriverSleeps, AllTold
  <1> QED
    BY <1>1, <1>2, <1>3, <1>4, <1>5 DEF EndpointInv

\* What a poll handles: all of the channel, unless it goes on.
LEMMA TakenFacts ==
    ASSUME CounterWide, NEW q \in Seq(Conns)
    PROVE  /\ Taken(q) \in Seq(Conns)
           /\ SubSeq(q, Len(Taken(q)) + 1, Len(q)) \in Seq(Conns)
           /\ ~(Len(q) >= IoLoopBound) => SubSeq(q, Len(Taken(q)) + 1, Len(q)) = <<>>
           /\ Taken(q) = <<>> => q = <<>>
  <1> DEFINE n == IF Len(q) < IoLoopBound THEN Len(q) ELSE IoLoopBound
  <1>1. n \in Nat /\ n <= Len(q) /\ (Len(q) > 0 => n > 0) /\ Len(q) \in Nat
    BY DEF CounterWide
  <1>2. Taken(q) = SubSeq(q, 1, n)
    BY DEF Taken
  <1>3. ~(Len(q) >= IoLoopBound) => n = Len(q)
    BY <1>1 DEF CounterWide
  <1> HIDE DEF n
  <1>4. Taken(q) \in Seq(Conns) /\ Len(Taken(q)) = n
    BY <1>1, <1>2
  <1>5. SubSeq(q, Len(Taken(q)) + 1, Len(q)) \in Seq(Conns)
    BY <1>1, <1>4
  <1>6. ASSUME ~(Len(q) >= IoLoopBound)
        PROVE  SubSeq(q, Len(Taken(q)) + 1, Len(q)) = <<>>
    BY <1>1, <1>3, <1>4, <1>6
  <1>7. Taken(q) = <<>> => q = <<>>
    BY <1>1, <1>4
  <1> QED
    BY <1>4, <1>5, <1>6, <1>7

\* EndpointDriver::poll, whatever it finds and whether it stops or goes on
LEMMA PollInv ==
    ASSUME CounterWide, EndpointInv, NEW arrived \in Arrivals, NEW more \in BOOLEAN,
           Poll(arrived, more)
    PROVE  EndpointInv'
  <1> DEFINE new == IF endpoint.close THEN <<>> ELSE arrived
             queue == endpoint.incoming \o new
             handled == Taken(events)
             senders == endpoint.senders \ ToSet(handled)
             keep_going == more \/ Len(events) >= IoLoopBound
             idle == IF IdleNow(handled, senders) THEN Notified(futures, "idle") ELSE futures
             told == IF queue # <<>> THEN Notified(idle, "accept") ELSE idle
             stops == senders = {} /\ (refs = 0 \/ endpoint.close)
  <1>1. /\ endpoint.lost = FALSE /\ endpoint.scheduled = TRUE
        /\ \A i \in DOMAIN arrived : conns[arrived[i]] = "new"
        /\ events' = SubSeq(events, Len(handled) + 1, Len(events))
        /\ conns' = [c \in Conns |->
                      IF c \in ToSet(arrived)
                      THEN IF endpoint.close THEN "refused" ELSE "queued" ELSE conns[c]]
        /\ \/ /\ stops
              /\ endpoint' = [endpoint EXCEPT !.incoming = queue, !.senders = {},
                                              !.lost = TRUE]
              /\ futures' = Notified(told, "accept")
              /\ refs' = (refs - 1) % RefModulus
           \/ /\ ~stops
              /\ endpoint' = [endpoint EXCEPT !.incoming = queue, !.senders = senders,
                                              !.driver = TRUE, !.scheduled = keep_going]
              /\ futures' = told
              /\ refs' = refs
        /\ handles' = handles
    BY Zenon DEF Poll, EndpointInv, Typed, EndpointType
  <1>t. /\ Typed /\ endpoint \in EndpointType /\ endpoint.incoming \in Seq(Conns)
        /\ endpoint.senders \in SUBSET Conns /\ endpoint.close \in BOOLEAN
        /\ events \in Seq(Conns) /\ conns \in [Conns -> Phases]
        /\ futures \in [Tasks -> FutureType] /\ refs \in 0 .. RefModulus - 1
        /\ handles \subseteq Tasks
    BY DEF EndpointInv, Typed, EndpointType
  <1>2. new \in Seq(Conns) /\ Len(new) <= 1 /\ arrived \in Seq(Conns)
    <2>1. arrived \in Seq(Conns) /\ Len(arrived) <= 1
      <3>1. CASE arrived = <<>>
        BY <3>1
      <3>2. CASE \E c \in Conns : arrived = <<c>>
        BY <3>2
      <3> QED
        BY <3>1, <3>2 DEF Arrivals
    <2>2. <<>> \in Seq(Conns) /\ Len(<<>>) = 0
      OBVIOUS
    <2> QED
      BY <2>1, <2>2
  <1>3. \A i \in 1 .. Len(new) : conns[new[i]] = "new" /\ conns'[new[i]] = "queued"
    <2>1. CASE endpoint.close
      BY <2>1
    <2>2. CASE ~endpoint.close
      <3>1. new = arrived
        BY <2>2
      <3>2. \A i \in 1 .. Len(arrived) : arrived[i] \in ToSet(arrived) /\ arrived[i] \in Conns
        BY <1>2 DEF ToSet
      <3> QED
        BY <1>1, <1>2, <2>2, <3>1, <3>2
    <2> QED
      BY <2>1, <2>2
  <1>4. \A c \in Conns : conns[c] # "new" => conns'[c] = conns[c]
    <2>1. \A c \in ToSet(arrived) : conns[c] = "new"
      BY <1>1 DEF ToSet
    <2> QED
      BY <1>1, <2>1
  <1>5. conns' \in [Conns -> Phases] /\ HeldIn(conns') = HeldIn(conns)
    <2>1. conns' \in [Conns -> Phases]
      BY <1>1, <1>t DEF Phases
    <2>2. \A c \in Conns : conns'[c] = "held" <=> conns[c] = "held"
      BY <1>1, <1>4, <1>t
    <2> QED
      BY <2>1, <2>2 DEF HeldIn
  <1>6. /\ queue \in Seq(Conns) /\ Len(queue) = Len(endpoint.incoming) + Len(new)
        /\ \A i \in 1 .. Len(endpoint.incoming) : queue[i] = endpoint.incoming[i]
        /\ \A i \in 1 .. Len(new) : queue[Len(endpoint.incoming) + i] = new[i]
    <2> HIDE DEF new
    <2> QED
      BY <1>t, <1>2
  <1>7. senders \in SUBSET Conns
    BY <1>t
  <1>8. idle \in [Tasks -> FutureType]
    BY <1>t, NotifiedFacts
  <1> HIDE DEF idle
  <1>9. told \in [Tasks -> FutureType]
    BY <1>8, NotifiedFacts
  <1>10. /\ events' \in Seq(Conns)
         /\ ~(Len(events) >= IoLoopBound) => events' = <<>>
         /\ handled = <<>> => senders = endpoint.senders
    <2>1. handled = <<>> => ToSet(handled) = {}
      BY DEF ToSet
    <2> QED
      BY <1>1, <1>t, <2>1, TakenFacts
  <1> HIDE DEF new, queue, handled, senders, keep_going, told
  <1>11. keep_going \in BOOLEAN
    BY Zenon DEF keep_going
  <1>12. /\ endpoint' \in EndpointType /\ endpoint'.incoming = queue
         /\ endpoint'.close = endpoint.close
    BY <1>1, <1>t, <1>6, <1>7, <1>11 DEF EndpointType
  <1>13. Typed'
    <2>1. futures' \in [Tasks -> FutureType]
      <3>1. Notified(told, "accept") \in [Tasks -> FutureType]
        BY <1>9, NotifiedFacts
      <3> QED
        BY <1>1, <1>9, <3>1
    <2>2. refs' \in 0 .. RefModulus - 1
      <3>1. RefModulus \in Nat /\ RefModulus > 0
        BY <1>t DEF CounterWide
      <3> QED
        BY <1>1, <1>t, <3>1
    <2> QED
      BY <1>1, <1>t, <1>5, <1>10, <1>12, <2>1, <2>2 DEF Typed
  <1>14. Queue'
    <2>1. Queue
      BY DEF EndpointInv
    <2>2. ASSUME NEW i \in 1 .. Len(queue)
          PROVE  /\ conns'[queue[i]] = "queued"
                 /\ i <= Len(endpoint.incoming) => conns[queue[i]] = "queued"
                 /\ i > Len(endpoint.incoming) =>
                       conns[queue[i]] = "new" /\ i = Len(endpoint.incoming) + 1
      <3>1. CASE i <= Len(endpoint.incoming)
        <4>1. i \in 1 .. Len(endpoint.incoming) /\ endpoint.incoming[i] \in Conns
          BY <1>t, <3>1
        <4>2. conns[queue[i]] = "queued" /\ queue[i] \in Conns
          BY <1>6, <2>1, <4>1 DEF Queue
        <4> QED
          BY <1>4, <3>1, <4>2
      <3>2. CASE i > Len(endpoint.incoming)
        <4>1. i = Len(endpoint.incoming) + 1 /\ 1 \in 1 .. Len(new)
          BY <1>t, <1>2, <1>6, <3>2
        <4>2. PICK k \in 1 .. Len(new) : k = 1
          BY <4>1
        <4>3. queue[Len(endpoint.incoming) + k] = new[k]
          BY <1>6
        <4>4. i = Len(endpoint.incoming) + k
          BY <4>1, <4>2
        <4>5. queue[i] = new[k]
          BY <4>3, <4>4, Zenon
        <4> QED
          BY <1>3, <3>2, <4>1, <4>5
      <3> QED
        BY <1>t, <3>1, <3>2
    <2>3. ASSUME NEW i \in 1 .. Len(queue), NEW j \in 1 .. Len(queue), queue[i] = queue[j]
          PROVE  i = j
      <3>1. CASE i <= Len(endpoint.incoming)
        <4>1. j <= Len(endpoint.incoming)
          BY <2>2, <2>3, <3>1, <1>t
        <4>2. i \in 1 .. Len(endpoint.incoming) /\ j \in 1 .. Len(endpoint.incoming)
          BY <1>t, <3>1, <4>1
        <4> QED
          BY <1>6, <2>1, <2>3, <4>2 DEF Queue
      <3>2. CASE i > Len(endpoint.incoming)
        <4>1. ~(j <= Len(endpoint.incoming))
          BY <2>2, <2>3, <3>2
        <4> QED
          BY <1>t, <2>2, <3>2, <4>1
      <3> QED
        BY <1>t, <3>1, <3>2
    <2> QED
      BY <1>12, <2>2, <2>3 DEF Queue
  <1>15. Counted'
    <2>1. CASE stops
      BY <1>1, <1>t, <2>1 DEF Counted, EndpointType
    <2>2. CASE ~stops
      <3>1. refs' = refs /\ handles' = handles
        BY <1>1, <2>2
      <3>2. Counted
        BY DEF EndpointInv
      <3>3. refs = Cardinality(handles) + Cardinality(HeldIn(conns))
        BY <1>1, <3>2 DEF Counted
      <3> QED
        BY <1>5, <3>1, <3>3 DEF Counted
    <2> QED
      BY <2>1, <2>2
  <1>16. \A t \in Tasks : told[t].kind = futures[t].kind
    <2>1. \A t \in Tasks : idle[t].kind = futures[t].kind
      BY <1>t, NotifiedFacts DEF idle
    <2> QED
      BY <1>8, <2>1, NotifiedFacts DEF told
  <1>21. \A t \in Tasks : /\ idle[t].kind # "idle" => idle[t] = futures[t]
                          /\ ~IdleNow(handled, senders) => idle[t] = futures[t]
                          /\ IdleNow(handled, senders) /\ idle[t].kind = "idle" =>
                               idle[t].notified = TRUE
    <2>1. CASE IdleNow(handled, senders)
      <3>1. idle = Notified(futures, "idle")
        BY <2>1 DEF idle
      <3>2. \A t \in Tasks :
                /\ Notified(futures, "idle")[t].kind = futures[t].kind
                /\ futures[t].kind = "idle" => Notified(futures, "idle")[t].notified = TRUE
                /\ futures[t].kind # "idle" => Notified(futures, "idle")[t] = futures[t]
        BY <1>t, NotifiedFacts
      <3> QED
        BY <2>1, <3>1, <3>2
    <2>2. CASE ~IdleNow(handled, senders)
      BY <2>2 DEF idle
    <2> QED
      BY <2>1, <2>2
  <1>17. AcceptWaits'
    <2>1. CASE stops
      <3>1. futures' = Notified(told, "accept")
        BY <1>1, <2>1
      <3>2. \A t \in Tasks : /\ Notified(told, "accept")[t].kind = told[t].kind
                             /\ told[t].kind = "accept" =>
                                  Notified(told, "accept")[t].awake = TRUE
        BY <1>9, NotifiedFacts
      <3> QED
        BY <3>1, <3>2 DEF AcceptWaits
    <2>2. CASE ~stops
      <3>1. futures' = told /\ endpoint'.lost = FALSE
        BY <1>1, <1>t, <2>2 DEF EndpointType
      <3>2. SUFFICES ASSUME NEW t \in Tasks, told[t].kind = "accept", told[t].awake = FALSE
                     PROVE  endpoint.close = FALSE /\ queue = <<>>
        BY <1>12, <3>1, <3>2 DEF AcceptWaits
      <3>3. queue = <<>>
        <4>1. SUFFICES ASSUME queue # <<>> PROVE FALSE
          OBVIOUS
        <4>2. told = Notified(idle, "accept")
          BY <4>1 DEF told
        <4> QED
          BY <1>8, <3>2, <4>2, NotifiedFacts
      <3>4. told[t] = idle[t]
        BY <3>3 DEF told
      <3>5. idle[t].kind # "idle"
        BY <3>2, <3>4
      <3>6. idle[t] = futures[t]
        BY <1>21, <3>5
      <3>7. AcceptWaits
        BY DEF EndpointInv
      <3> QED
        BY <3>2, <3>3, <3>4, <3>6, <3>7 DEF AcceptWaits
    <2> QED
      BY <2>1, <2>2
  <1>18. IdleWaits'
    <2>1. CASE stops
      <3>1. endpoint'.lost = TRUE
        BY <1>1, <1>t, <2>1 DEF EndpointType
      <3> QED
        BY <3>1 DEF IdleWaits
    <2>2. CASE ~stops
      <3>1. futures' = told /\ endpoint'.senders = senders
        BY <1>1, <1>t, <2>2 DEF EndpointType
      <3>2. SUFFICES ASSUME NEW t \in Tasks, told[t].kind = "idle", told[t].notified = FALSE
                     PROVE  senders # {}
        BY <3>1, <3>2 DEF IdleWaits
      <3>3. told[t] = idle[t]
        BY <1>8, <3>2, NotifiedFacts DEF told
      <3>4. ~IdleNow(handled, senders) /\ idle[t] = futures[t]
        BY <1>21, <3>2, <3>3
      <3>5. endpoint.senders # {}
        <4>1. IdleWaits
          BY DEF EndpointInv
        <4> QED
          BY <1>1, <3>2, <3>3, <3>4, <4>1 DEF IdleWaits
      <3> QED
        BY <1>10, <3>4, <3>5 DEF IdleNow
    <2> QED
      BY <2>1, <2>2
  <1>19. DriverSleeps'
    <2>1. CASE stops
      BY <1>1, <1>t, <2>1 DEF DriverSleeps, EndpointType
    <2>2. CASE ~stops
      <3>1. /\ endpoint'.scheduled = keep_going /\ endpoint'.driver = TRUE
            /\ endpoint'.senders = senders /\ refs' = refs
        BY <1>1, <1>t, <2>2 DEF EndpointType
      <3>2. keep_going = FALSE => events' = <<>>
        BY <1>10 DEF keep_going
      <3>3. senders = {} => refs # 0 /\ endpoint.close = FALSE
        BY <1>t, <2>2
      <3> QED
        BY <1>12, <3>1, <3>2, <3>3 DEF DriverSleeps
    <2> QED
      BY <2>1, <2>2
  <1>20. AllTold'
    <2>1. endpoint'.senders \subseteq endpoint.senders
      <3>1. senders \subseteq endpoint.senders
        BY DEF senders
      <3>2. endpoint'.senders = {} \/ endpoint'.senders = senders
        BY <1>1, <1>t DEF EndpointType
      <3> QED
        BY <3>1, <3>2
    <2>2. \A c \in Conns : conns'[c] = "live" => conns[c] = "live"
      BY <1>1, <1>t
    <2>3. AllTold
      BY DEF EndpointInv
    <2> QED
      BY <1>t, <1>12, <2>1, <2>2, <2>3 DEF AllTold
  <1> QED
    BY <1>13, <1>14, <1>15, <1>17, <1>18, <1>19, <1>20 DEF EndpointInv

\* The poll whose receive fails
LEMMA PollFailsInv ==
    ASSUME CounterWide, EndpointInv, PollFails
    PROVE  EndpointInv'
  <1>1. /\ Typed /\ endpoint \in EndpointType /\ futures \in [Tasks -> FutureType]
        /\ refs \in 0 .. RefModulus - 1 /\ Queue /\ IdleWaits
    BY DEF EndpointInv, Typed
  <1>2. /\ endpoint' = [endpoint EXCEPT !.senders = {}, !.lost = TRUE, !.failed = TRUE]
        /\ futures' = Notified(futures, "accept")
        /\ refs' = (refs - 1) % RefModulus
        /\ UNCHANGED <<events, conns, handles>>
    BY DEF PollFails
  <1>3. /\ endpoint' \in EndpointType /\ endpoint'.incoming = endpoint.incoming
        /\ endpoint'.lost = TRUE /\ endpoint'.senders = {}
    BY <1>1, <1>2 DEF EndpointType
  <1>4. /\ futures' \in [Tasks -> FutureType]
        /\ \A t \in Tasks : futures'[t].kind = "accept" => futures'[t].awake = TRUE
    BY <1>1, <1>2, NotifiedFacts
  <1>5. refs' \in 0 .. RefModulus - 1
    BY <1>1, <1>2 DEF CounterWide
  <1>6. Typed'
    BY <1>1, <1>2, <1>3, <1>4, <1>5 DEF Typed
  <1>7. Queue' /\ Counted' /\ AcceptWaits' /\ IdleWaits' /\ DriverSleeps' /\ AllTold'
    BY <1>1, <1>2, <1>3, <1>4
       DEF Queue, Counted, AcceptWaits, IdleWaits, DriverSleeps, AllTold
  <1> QED
    BY <1>6, <1>7 DEF EndpointInv

\* The socket becomes readable
LEMMA ReadableInv ==
    ASSUME CounterWide, EndpointInv, Readable
    PROVE  EndpointInv'
  <1>1. endpoint \in EndpointType
    BY DEF EndpointInv, Typed
  <1>2. /\ endpoint' = [endpoint EXCEPT !.scheduled = TRUE]
        /\ UNCHANGED <<events, conns, futures, handles, refs>>
    BY DEF Readable
  <1>3. /\ endpoint' \in EndpointType /\ endpoint'.incoming = endpoint.incoming
        /\ endpoint'.lost = endpoint.lost /\ endpoint'.senders = endpoint.senders
        /\ endpoint'.close = endpoint.close /\ endpoint'.scheduled = TRUE
    BY <1>1, <1>2 DEF EndpointType
  <1>4. Typed'
    BY <1>2, <1>3 DEF EndpointInv, Typed
  <1>5. Queue' /\ Counted' /\ AcceptWaits' /\ IdleWaits'
    BY <1>2, <1>3 DEF EndpointInv, Queue, Counted, AcceptWaits, IdleWaits
  <1>6. DriverSleeps' /\ AllTold'
    BY <1>2, <1>3 DEF EndpointInv, DriverSleeps, AllTold
  <1> QED
    BY <1>4, <1>5, <1>6 DEF EndpointInv

-----------------------------------------------------------------------------
(* The application's calls and the connections.                            *)

\* The queue is that of before when no attempt in it moves.
LEMMA QueueKept ==
    ASSUME Typed, Queue, NEW c \in Conns, NEW x, conns[c] # "queued",
           conns' = [conns EXCEPT ![c] = x], endpoint'.incoming = endpoint.incoming
    PROVE  Queue'
  <1>1. /\ conns \in [Conns -> Phases] /\ endpoint.incoming \in Seq(Conns)
    BY DEF Typed, EndpointType
  <1>2. ASSUME NEW i \in 1 .. Len(endpoint.incoming)
        PROVE  conns'[endpoint.incoming[i]] = "queued"
    <2>1. endpoint.incoming[i] \in Conns
      BY <1>1
    <2>2. conns[endpoint.incoming[i]] = "queued"
      BY DEF Queue
    <2> QED
      BY <1>1, <2>1, <2>2
  <1> QED
    BY <1>2 DEF Queue

\* Endpoint::connect_with
LEMMA ConnectInv ==
    ASSUME CounterWide, EndpointInv, NEW t \in Tasks, NEW c \in Conns, Connect(t, c)
    PROVE  EndpointInv'
  <1>1. /\ Typed /\ endpoint \in EndpointType /\ conns \in [Conns -> Phases]
        /\ Queue /\ Counted
    BY DEF EndpointInv, Typed
  <1>2. /\ endpoint' = [endpoint EXCEPT !.senders = @ \cup {c}]
        /\ conns' = [conns EXCEPT ![c] = OnInsert(c)]
        /\ conns[c] = "new" /\ endpoint.close = FALSE
        /\ UNCHANGED <<events, futures, handles, refs>>
    BY <1>1 DEF Connect, EndpointType
  <1>3. /\ endpoint' \in EndpointType /\ endpoint'.incoming = endpoint.incoming
        /\ endpoint'.lost = endpoint.lost
        /\ endpoint'.senders = endpoint.senders \cup {c}
        /\ endpoint'.close = FALSE /\ endpoint'.scheduled = endpoint.scheduled
        /\ endpoint'.driver = endpoint.driver
    BY <1>1, <1>2 DEF EndpointType
  <1>4. OnInsert(c) \in Phases /\ OnInsert(c) # "held"
    BY DEF OnInsert, Phases
  <1>5. Typed'
    BY <1>1, <1>2, <1>3, <1>4 DEF Typed
  <1>6. Queue'
    BY <1>1, <1>2, <1>3, QueueKept
  <1>7. Counted'
    <2>1. HeldIn(conns') = HeldIn(conns)
      BY <1>1, <1>2, <1>4, HeldFacts
    <2> QED
      BY <1>1, <1>2, <1>3, <2>1 DEF Counted
  <1>8. AcceptWaits' /\ IdleWaits' /\ DriverSleeps' /\ AllTold'
    BY <1>2, <1>3 DEF EndpointInv, AcceptWaits, IdleWaits, DriverSleeps, AllTold
  <1> QED
    BY <1>5, <1>6, <1>7, <1>8 DEF EndpointInv

\* An Incoming gives up its reference: what Accept and Refuse share
LEMMA HeldGoes ==
    ASSUME CounterWide, EndpointInv, NEW c \in Conns, NEW x \in Phases, x # "held",
           conns[c] = "held", conns' = [conns EXCEPT ![c] = x],
           NEW e \in EndpointType, endpoint' = Dropped(refs, e),
           e.incoming = endpoint.incoming, e.lost = endpoint.lost,
           e.close = endpoint.close, e.driver = endpoint.driver,
           e.scheduled = endpoint.scheduled, endpoint.senders \subseteq e.senders,
           refs' = (refs - 1) % RefModulus, UNCHANGED <<events, futures, handles>>,
           e.senders \subseteq endpoint.senders \cup {c},
           endpoint.close = TRUE => x # "live"
    PROVE  EndpointInv'
  <1>1. /\ Typed /\ endpoint \in EndpointType /\ conns \in [Conns -> Phases]
        /\ Queue /\ Counted /\ refs \in 0 .. RefModulus - 1 /\ RefModulus \in Nat
        /\ endpoint.lost \in BOOLEAN /\ refs \in Nat
    BY DEF EndpointInv, Typed, CounterWide, EndpointType
  <1>2. /\ endpoint' \in EndpointType /\ endpoint'.incoming = endpoint.incoming
        /\ endpoint'.senders = e.senders /\ endpoint'.close = endpoint.close
        /\ endpoint'.lost = endpoint.lost
        /\ endpoint'.scheduled = FALSE =>
             /\ endpoint.scheduled = FALSE
             /\ endpoint.driver = TRUE => refs > 1 /\ endpoint'.driver = TRUE
    BY <1>1, DroppedFacts
  <1>3. Typed'
    <2>1. refs' \in 0 .. RefModulus - 1
      BY <1>1
    <2> QED
      BY <1>1, <1>2, <2>1 DEF Typed
  <1>4. Queue'
    BY <1>1, <1>2, QueueKept
  <1>5. Counted'
    <2>1. SUFFICES ASSUME endpoint.lost = FALSE
                   PROVE  refs' = Cardinality(handles) + Cardinality(HeldIn(conns'))
      BY <1>1, <1>2 DEF Counted
    <2>2. /\ Cardinality(HeldIn(conns')) = Cardinality(HeldIn(conns)) - 1
          /\ Cardinality(HeldIn(conns)) \in Nat
      BY <1>1, HeldFacts
    <2>3. Cardinality(handles) \in Nat
      BY <1>1, HandleFacts DEF Typed
    <2>4. Cardinality(HeldIn(conns)) > 0
      <3>1. Cardinality(HeldIn(conns')) \in Nat
        <4>1. conns' \in [Conns -> Phases]
          BY <1>3 DEF Typed
        <4> QED
          BY <4>1, HeldFacts
      <3> QED
        BY <2>2, <3>1
    <2>5. refs = Cardinality(handles) + Cardinality(HeldIn(conns)) /\ refs > 0
      <3>1. refs = Cardinality(handles) + Cardinality(HeldIn(conns))
        BY <1>1, <2>1, RefsFacts
      <3> QED
        BY <2>2, <2>3, <2>4, <3>1
    <2>6. refs' = refs - 1
      BY <1>1, <2>1, <2>5, RefsFacts
    <2> QED
      BY <2>2, <2>3, <2>5, <2>6
  <1>6. AcceptWaits' /\ IdleWaits'
    BY <1>2 DEF EndpointInv, AcceptWaits, IdleWaits
  <1>7. DriverSleeps'
    <2>1. SUFFICES ASSUME endpoint.lost = FALSE, endpoint'.scheduled = FALSE
                   PROVE  /\ events = <<>> /\ endpoint'.driver = TRUE
                          /\ endpoint'.senders = {} => refs' # 0 /\ endpoint.close = FALSE
      BY <1>2 DEF DriverSleeps
    <2>2. /\ events = <<>> /\ endpoint.driver = TRUE
          /\ endpoint.senders = {} => endpoint.close = FALSE
      BY <1>2, <2>1 DEF EndpointInv, DriverSleeps
    <2>3. refs > 1 /\ endpoint'.driver = TRUE
      BY <1>2, <2>1, <2>2
    <2>4. refs' = refs - 1
      BY <1>1, <2>1, <2>3, RefsFacts
    <2>5. refs' # 0
      BY <1>1, <2>3, <2>4
    <2> QED
      BY <1>2, <2>2, <2>3, <2>5
  <1>8. AllTold'
    <2>1. AllTold /\ endpoint.senders \subseteq Conns
      BY <1>1 DEF EndpointInv, EndpointType
    <2>2. SUFFICES ASSUME endpoint.close = TRUE, NEW d \in e.senders
                   PROVE  conns'[d] # "live"
      BY <1>2 DEF AllTold
    <2>3. CASE d = c
      BY <1>1, <2>2, <2>3
    <2>4. CASE d # c
      BY <1>1, <2>1, <2>2, <2>4 DEF AllTold
    <2> QED
      BY <2>3, <2>4
  <1> QED
    BY <1>3, <1>4, <1>5, <1>6, <1>7, <1>8 DEF EndpointInv

\* EndpointInner::accept
LEMMA AcceptInv ==
    ASSUME CounterWide, EndpointInv, NEW c \in Conns, Accept(c)
    PROVE  EndpointInv'
  <1> DEFINE e == [endpoint EXCEPT !.senders = @ \cup {c}]
  <1>1. endpoint \in EndpointType
    BY DEF EndpointInv, Typed
  <1>2. /\ e \in EndpointType
        /\ e.incoming = endpoint.incoming /\ e.lost = endpoint.lost
        /\ e.close = endpoint.close /\ e.driver = endpoint.driver
        /\ e.scheduled = endpoint.scheduled /\ e.senders = endpoint.senders \cup {c}
    BY <1>1 DEF EndpointType
  <1>3. /\ conns[c] = "held" /\ conns' = [conns EXCEPT ![c] = OnInsert(c)]
        /\ endpoint' = Dropped(refs, e) /\ refs' = (refs - 1) % RefModulus
        /\ UNCHANGED <<events, futures, handles>>
    BY DEF Accept
  <1>4. /\ OnInsert(c) \in Phases /\ OnInsert(c) # "held"
        /\ endpoint.close = TRUE => OnInsert(c) # "live"
    BY DEF OnInsert, Phases
  <1> HIDE DEF e
  <1> QED
    BY <1>2, <1>3, <1>4, HeldGoes

\* EndpointInner::refuse
LEMMA RefuseInv ==
    ASSUME CounterWide, EndpointInv, NEW c \in Conns, Refuse(c)
    PROVE  EndpointInv'
  <1>1. endpoint \in EndpointType
    BY DEF EndpointInv, Typed
  <1>2. /\ conns[c] = "held" /\ conns' = [conns EXCEPT ![c] = "refused"]
        /\ endpoint' = Dropped(refs, endpoint) /\ refs' = (refs - 1) % RefModulus
        /\ UNCHANGED <<events, futures, handles>>
    BY DEF Refuse
  <1>3. "refused" \in Phases /\ "refused" # "held" /\ "refused" # "live"
    BY DEF Phases
  <1> QED
    BY <1>1, <1>2, <1>3, HeldGoes

\* Endpoint::close
LEMMA CloseInv ==
    ASSUME CounterWide, EndpointInv, NEW t \in Tasks, CloseEndpoint(t)
    PROVE  EndpointInv'
  <1> DEFINE e == [endpoint EXCEPT !.close = TRUE]
  <1>1. /\ Typed /\ endpoint \in EndpointType /\ conns \in [Conns -> Phases]
        /\ futures \in [Tasks -> FutureType]
        /\ Queue /\ Counted /\ endpoint.incoming \in Seq(Conns)
        /\ endpoint.senders \subseteq Conns
        /\ endpoint.scheduled \in BOOLEAN /\ endpoint.lost \in BOOLEAN
    BY DEF EndpointInv, Typed, EndpointType
  <1>2. /\ conns' = [c \in Conns |->
                      IF c \in endpoint.senders /\ conns[c] = "live" THEN "told"
                      ELSE conns[c]]
        /\ futures' = Notified(futures, "accept")
        /\ endpoint' = Wake(e)
        /\ UNCHANGED <<events, handles, refs>>
    BY DEF CloseEndpoint
  <1>3. /\ e \in EndpointType /\ e.incoming = endpoint.incoming /\ e.lost = endpoint.lost
        /\ e.close = TRUE /\ e.driver = endpoint.driver
        /\ e.scheduled = endpoint.scheduled /\ e.senders = endpoint.senders
    BY <1>1 DEF EndpointType
  <1> HIDE DEF e
  <1>4. /\ endpoint' \in EndpointType /\ endpoint'.incoming = endpoint.incoming
        /\ endpoint'.lost = endpoint.lost /\ endpoint'.senders = endpoint.senders
        /\ endpoint'.close = TRUE
        /\ endpoint.driver = TRUE \/ endpoint.scheduled = TRUE => endpoint'.scheduled = TRUE
    BY <1>2, <1>3, WakeFacts
  <1>5. /\ futures' \in [Tasks -> FutureType]
        /\ \A u \in Tasks :
             /\ futures'[u].kind = "accept" => futures'[u].awake = TRUE
             /\ futures'[u].kind = "idle" => futures'[u] = futures[u]
    BY <1>1, <1>2, NotifiedFacts
  <1>6. /\ conns' \in [Conns -> Phases] /\ HeldIn(conns') = HeldIn(conns)
        /\ \A c \in Conns : conns[c] = "queued" => conns'[c] = "queued"
        /\ \A c \in endpoint.senders : conns'[c] # "live"
    BY <1>1, <1>2 DEF Phases, HeldIn
  <1>7. Typed'
    BY <1>1, <1>2, <1>4, <1>5, <1>6 DEF Typed
  <1>8. Queue'
    <2>1. \A i \in 1 .. Len(endpoint.incoming) : endpoint.incoming[i] \in Conns
      BY <1>1
    <2> QED
      BY <1>1, <1>4, <1>6, <2>1 DEF Queue
  <1>9. Counted' /\ AcceptWaits' /\ AllTold'
    BY <1>1, <1>2, <1>4, <1>5, <1>6 DEF Counted, AcceptWaits, AllTold
  <1>10. IdleWaits'
    BY <1>4, <1>5 DEF EndpointInv, IdleWaits
  <1>11. DriverSleeps'
    <2>1. endpoint.lost = FALSE /\ endpoint.scheduled = FALSE => endpoint.driver = TRUE
      BY DEF EndpointInv, DriverSleeps
    <2> QED
      BY <1>1, <1>4, <2>1 DEF DriverSleeps
  <1> QED
    BY <1>7, <1>8, <1>9, <1>10, <1>11 DEF EndpointInv

\* Endpoint::rebind_abstract
LEMMA RebindInv ==
    ASSUME CounterWide, EndpointInv, NEW t \in Tasks, Rebind(t)
    PROVE  EndpointInv'
  <1>1. endpoint \in EndpointType /\ endpoint.driver = TRUE
    BY DEF EndpointInv, Typed, EndpointType, Rebind
  <1>2. endpoint' = Wake(endpoint) /\ UNCHANGED <<events, conns, futures, handles, refs>>
    BY DEF Rebind
  <1>3. /\ endpoint' \in EndpointType /\ endpoint'.incoming = endpoint.incoming
        /\ endpoint'.lost = endpoint.lost /\ endpoint'.senders = endpoint.senders
        /\ endpoint'.close = endpoint.close /\ endpoint'.scheduled = TRUE
    BY <1>1, <1>2, WakeFacts
  <1>4. Typed'
    BY <1>2, <1>3 DEF EndpointInv, Typed
  <1>5. Queue' /\ Counted' /\ AcceptWaits' /\ IdleWaits'
    BY <1>2, <1>3 DEF EndpointInv, Queue, Counted, AcceptWaits, IdleWaits
  <1>6. DriverSleeps' /\ AllTold'
    BY <1>2, <1>3 DEF EndpointInv, DriverSleeps, AllTold
  <1> QED
    BY <1>4, <1>5, <1>6 DEF EndpointInv

\* A clone is counted: the counter has room for it.
LEMMA CloneInv ==
    ASSUME CounterWide, EndpointInv, NEW t \in Tasks, NEW u \in Tasks, CloneEndpoint(t, u)
    PROVE  EndpointInv'
  <1>1. /\ Typed /\ Counted /\ refs \in 0 .. RefModulus - 1 /\ RefModulus \in Nat
        /\ handles \in SUBSET Tasks /\ conns \in [Conns -> Phases]
        /\ endpoint.lost \in BOOLEAN
    BY DEF EndpointInv, Typed, CounterWide, EndpointType
  <1>2. /\ u \notin handles /\ handles' = handles \cup {u}
        /\ refs' = (refs + 1) % RefModulus
        /\ UNCHANGED <<endpoint, events, conns, futures>>
    BY DEF CloneEndpoint
  <1>3. Typed'
    <2>1. refs' \in 0 .. RefModulus - 1
      BY <1>1, <1>2
    <2> QED
      BY <1>1, <1>2, <2>1 DEF Typed
  <1>4. ASSUME endpoint.lost = FALSE
        PROVE  /\ refs' = refs + 1
               /\ refs' = Cardinality(handles') + Cardinality(HeldIn(conns))
    <2>1. Cardinality(handles') = Cardinality(handles) + 1 /\ Cardinality(handles) \in Nat
      BY <1>1, <1>2, HandleFacts
    <2>2. Cardinality(handles') <= Cardinality(Tasks) /\ Cardinality(handles') \in Nat
      <3>1. handles' \in SUBSET Tasks
        BY <1>1, <1>2
      <3> QED
        BY <3>1, HandleFacts
    <2>3. /\ Cardinality(HeldIn(conns)) <= Cardinality(Conns)
          /\ Cardinality(HeldIn(conns)) \in Nat
      <3>1. IsFiniteSet(Conns) /\ HeldIn(conns) \subseteq Conns
        BY DEF CounterWide, HeldIn
      <3>2. IsFiniteSet(HeldIn(conns)) /\ Cardinality(HeldIn(conns)) <= Cardinality(Conns)
        BY <3>1, FS_Subset
      <3> QED
        BY <3>2, FS_CardinalityType
    <2>4. /\ Cardinality(Tasks) \in Nat /\ Cardinality(Conns) \in Nat
          /\ RefModulus > Cardinality(Tasks) + Cardinality(Conns)
      BY FS_CardinalityType DEF CounterWide
    <2>5. refs = Cardinality(handles) + Cardinality(HeldIn(conns))
      BY <1>1, <1>4, RefsFacts
    <2>6. refs + 1 < RefModulus
      BY <1>1, <2>1, <2>2, <2>3, <2>4, <2>5
    <2>7. refs' = refs + 1
      BY <1>1, <1>2, <1>4, <2>6, RefsFacts
    <2> QED
      BY <2>1, <2>3, <2>5, <2>7
  <1>5. Counted'
    BY <1>1, <1>2, <1>4 DEF Counted
  <1>6. DriverSleeps'
    <2>1. refs' # 0 \/ endpoint.lost = TRUE
      <3>1. endpoint.lost = FALSE => refs' = refs + 1
        BY <1>4
      <3>2. refs + 1 # 0
        BY <1>1
      <3> QED
        BY <1>1, <3>1, <3>2, Zenon
    <2> QED
      BY <1>2, <2>1 DEF EndpointInv, DriverSleeps
  <1>7. Queue' /\ AcceptWaits' /\ IdleWaits' /\ AllTold'
    BY <1>2 DEF EndpointInv, Queue, AcceptWaits, IdleWaits, AllTold
  <1> QED
    BY <1>3, <1>5, <1>6, <1>7 DEF EndpointInv

\* EndpointRef::drop of a handle: the last one wakes the driver.
LEMMA DropInv ==
    ASSUME CounterWide, EndpointInv, NEW t \in Tasks, DropEndpoint(t)
    PROVE  EndpointInv'
  <1>1. /\ Typed /\ Counted /\ refs \in 0 .. RefModulus - 1 /\ RefModulus \in Nat
        /\ handles \in SUBSET Tasks /\ conns \in [Conns -> Phases]
        /\ endpoint.lost \in BOOLEAN /\ endpoint \in EndpointType /\ refs \in Nat
    BY DEF EndpointInv, Typed, CounterWide, EndpointType
  <1>2. /\ t \in handles /\ handles' = handles \ {t}
        /\ refs' = (refs - 1) % RefModulus
        /\ endpoint' = Dropped(refs, endpoint)
        /\ UNCHANGED <<events, conns, futures>>
    BY DEF DropEndpoint
  <1>3. /\ endpoint' \in EndpointType /\ endpoint'.incoming = endpoint.incoming
        /\ endpoint'.senders = endpoint.senders /\ endpoint'.close = endpoint.close
        /\ endpoint'.lost = endpoint.lost
        /\ endpoint'.scheduled = FALSE =>
             /\ endpoint.scheduled = FALSE
             /\ endpoint.driver = TRUE => refs > 1 /\ endpoint'.driver = TRUE
    BY <1>1, <1>2, DroppedFacts
  <1>4. Typed'
    <2>1. refs' \in 0 .. RefModulus - 1
      BY <1>1, <1>2
    <2> QED
      BY <1>1, <1>2, <1>3, <2>1 DEF Typed
  <1>5. ASSUME endpoint.lost = FALSE
        PROVE  /\ refs > 0 /\ refs' = refs - 1
               /\ refs' = Cardinality(handles') + Cardinality(HeldIn(conns))
    <2>1. /\ Cardinality(handles') = Cardinality(handles) - 1
          /\ Cardinality(handles) \in Nat
      BY <1>1, <1>2, HandleFacts
    <2>2. Cardinality(handles') \in Nat
      <3>1. handles' \in SUBSET Tasks
        BY <1>1, <1>2
      <3> QED
        BY <3>1, HandleFacts
    <2>3. Cardinality(HeldIn(conns)) \in Nat
      <3>1. IsFiniteSet(Conns) /\ HeldIn(conns) \subseteq Conns
        BY DEF CounterWide, HeldIn
      <3>2. IsFiniteSet(HeldIn(conns))
        BY <3>1, FS_Subset
      <3> QED
        BY <3>2, FS_CardinalityType
    <2>4. refs = Cardinality(handles) + Cardinality(HeldIn(conns))
      BY <1>1, <1>5, RefsFacts
    <2>5. refs > 0
      BY <2>1, <2>2, <2>3, <2>4
    <2>6. refs' = refs - 1
      BY <1>1, <1>2, <1>5, <2>5, RefsFacts
    <2> QED
      BY <2>1, <2>3, <2>4, <2>5, <2>6
  <1>6. Counted'
    BY <1>1, <1>2, <1>3, <1>5 DEF Counted
  <1>7. DriverSleeps'
    <2>1. SUFFICES ASSUME endpoint.lost = FALSE, endpoint'.scheduled = FALSE
                   PROVE  /\ events = <<>> /\ endpoint'.driver = TRUE
                          /\ endpoint.senders = {} => refs' # 0 /\ endpoint.close = FALSE
      BY <1>2, <1>3 DEF DriverSleeps
    <2>2. /\ events = <<>> /\ endpoint.driver = TRUE
          /\ endpoint.senders = {} => endpoint.close = FALSE
      BY <1>3, <2>1 DEF EndpointInv, DriverSleeps
    <2>3. refs > 1 /\ endpoint'.driver = TRUE
      BY <1>3, <2>1, <2>2
    <2>4. refs' # 0
      <3>1. refs' = refs - 1
        BY <1>5, <2>1
      <3> QED
        BY <1>1, <2>3, <3>1
    <2> QED
      BY <2>2, <2>3, <2>4
  <1>8. Queue' /\ AcceptWaits' /\ IdleWaits' /\ AllTold'
    BY <1>2, <1>3 DEF EndpointInv, Queue, AcceptWaits, IdleWaits, AllTold
  <1> QED
    BY <1>4, <1>6, <1>7, <1>8 DEF EndpointInv

\* Endpoint::accept and Endpoint::wait_idle create a future.
LEMMA StartInv ==
    ASSUME CounterWide, EndpointInv, NEW t \in Tasks, NEW kind \in {"accept", "idle"},
           Start(t, kind)
    PROVE  EndpointInv'
  <1> DEFINE new == [kind |-> kind, notified |-> FALSE, awake |-> TRUE]
  <1>1. futures \in [Tasks -> FutureType]
    BY DEF EndpointInv, Typed
  <1>2. /\ futures' = [futures EXCEPT ![t] = new]
        /\ kind = "idle" => endpoint.senders # {}
        /\ UNCHANGED <<endpoint, events, conns, handles, refs>>
    BY DEF Start
  <1>3. new \in FutureType /\ new.kind = kind /\ new.awake = TRUE
    BY DEF FutureType, Kinds
  <1> HIDE DEF new
  <1>4. /\ futures' \in [Tasks -> FutureType] /\ futures'[t] = new
        /\ \A u \in Tasks : u # t => futures'[u] = futures[u]
    BY <1>1, <1>2, <1>3
  <1>5. Typed'
    BY <1>2, <1>4 DEF EndpointInv, Typed
  <1>6. Queue' /\ Counted' /\ DriverSleeps' /\ AllTold'
    BY <1>2 DEF EndpointInv, Queue, Counted, DriverSleeps, AllTold
  <1>7. AcceptWaits'
    BY <1>2, <1>3, <1>4 DEF EndpointInv, AcceptWaits
  <1>8. IdleWaits'
    BY <1>2, <1>3, <1>4 DEF EndpointInv, IdleWaits
  <1> QED
    BY <1>5, <1>6, <1>7, <1>8 DEF EndpointInv

\* Accept::poll: an attempt is taken from the queue and counted, or the task
\* sleeps.
LEMMA PollAcceptInv ==
    ASSUME CounterWide, EndpointInv, NEW t \in Tasks, PollAccept(t)
    PROVE  EndpointInv'
  <1>1. /\ Typed /\ Counted /\ Queue /\ AcceptWaits /\ IdleWaits /\ DriverSleeps /\ AllTold
        /\ refs \in 0 .. RefModulus - 1 /\ RefModulus \in Nat /\ refs \in Nat
        /\ handles \in SUBSET Tasks /\ conns \in [Conns -> Phases]
        /\ futures \in [Tasks -> FutureType]
        /\ endpoint \in EndpointType /\ endpoint.incoming \in Seq(Conns)
        /\ endpoint.lost \in BOOLEAN /\ endpoint.close \in BOOLEAN
    BY DEF EndpointInv, Typed, CounterWide, EndpointType
  <1>2. NoFuture \in FutureType /\ NoFuture.kind = "none"
    BY DEF NoFuture, FutureType, Kinds
  <1>u. UNCHANGED <<events, handles>> /\ futures[t].kind = "accept"
    BY DEF PollAccept
  <1>3. CASE endpoint.lost = FALSE /\ endpoint.incoming # <<>>
    <2> DEFINE c == Head(endpoint.incoming)
    <2>1. /\ futures' = [futures EXCEPT ![t] = NoFuture]
          /\ conns' = [conns EXCEPT ![c] = "held"]
          /\ endpoint' = [endpoint EXCEPT !.incoming = Tail(@)]
          /\ refs' = (refs + 1) % RefModulus
      BY <1>3 DEF PollAccept
    <2>2. /\ Len(endpoint.incoming) >= 1 /\ c = endpoint.incoming[1] /\ c \in Conns
          /\ Tail(endpoint.incoming) \in Seq(Conns)
          /\ Len(Tail(endpoint.incoming)) = Len(endpoint.incoming) - 1
          /\ \A i \in 1 .. Len(Tail(endpoint.incoming)) :
                 Tail(endpoint.incoming)[i] = endpoint.incoming[i + 1]
      BY <1>1, <1>3
    <2>3. conns[c] = "queued"
      BY <1>1, <2>2 DEF Queue
    <2> HIDE DEF c
    <2>4. /\ endpoint' \in EndpointType /\ endpoint'.incoming = Tail(endpoint.incoming)
          /\ endpoint'.lost = endpoint.lost /\ endpoint'.senders = endpoint.senders
          /\ endpoint'.close = endpoint.close /\ endpoint'.scheduled = endpoint.scheduled
          /\ endpoint'.driver = endpoint.driver
      BY <1>1, <2>1, <2>2 DEF EndpointType
    <2>5. /\ futures' \in [Tasks -> FutureType] /\ futures'[t].kind = "none"
          /\ \A u \in Tasks : u # t => futures'[u] = futures[u]
      BY <1>1, <1>2, <2>1
    <2>6. conns' \in [Conns -> Phases]
      BY <1>1, <2>1, <2>2 DEF Phases
    <2>7. Typed'
      <3>1. refs' \in 0 .. RefModulus - 1
        BY <1>1, <2>1
      <3> QED
        BY <1>1, <1>u, <2>4, <2>5, <2>6, <3>1 DEF Typed
    <2>8. Queue'
      <3>1. ASSUME NEW i \in 1 .. Len(Tail(endpoint.incoming))
            PROVE  /\ conns'[Tail(endpoint.incoming)[i]] = "queued"
                   /\ i + 1 \in 1 .. Len(endpoint.incoming)
                   /\ Tail(endpoint.incoming)[i] = endpoint.incoming[i + 1]
        <4>1. /\ i + 1 \in 1 .. Len(endpoint.incoming) /\ i + 1 # 1
              /\ 1 \in 1 .. Len(endpoint.incoming)
          BY <1>1, <2>2
        <4>2. endpoint.incoming[i + 1] # c
          BY <1>1, <2>2, <4>1 DEF Queue
        <4>3. endpoint.incoming[i + 1] \in Conns /\ conns[endpoint.incoming[i + 1]] = "queued"
          BY <1>1, <4>1 DEF Queue
        <4>4. conns'[endpoint.incoming[i + 1]] = "queued"
          BY <1>1, <2>1, <2>2, <4>2, <4>3
        <4> QED
          BY <2>2, <4>1, <4>4
      <3>2. ASSUME NEW i \in 1 .. Len(Tail(endpoint.incoming)),
                   NEW j \in 1 .. Len(Tail(endpoint.incoming)),
                   Tail(endpoint.incoming)[i] = Tail(endpoint.incoming)[j]
            PROVE  i = j
        <4>1. i + 1 = j + 1
          BY <1>1, <3>1, <3>2 DEF Queue
        <4> QED
          BY <4>1
      <3> QED
        BY <2>4, <3>1, <3>2 DEF Queue
    <2>9. refs' = refs + 1 /\ refs' = Cardinality(handles) + Cardinality(HeldIn(conns'))
      <3>1. /\ Cardinality(HeldIn(conns')) = Cardinality(HeldIn(conns)) + 1
            /\ Cardinality(HeldIn(conns)) \in Nat
        <4>1. "held" \in Phases
          BY DEF Phases
        <4> QED
          BY <1>1, <2>1, <2>2, <2>3, <4>1, HeldFacts
      <3>2. Cardinality(HeldIn(conns')) <= Cardinality(Conns)
        BY <2>6, <2>2, HeldFacts
      <3>3. Cardinality(handles) \in Nat /\ Cardinality(handles) <= Cardinality(Tasks)
        BY <1>1, HandleFacts
      <3>4. /\ Cardinality(Tasks) \in Nat /\ Cardinality(Conns) \in Nat
            /\ RefModulus > Cardinality(Tasks) + Cardinality(Conns)
        BY FS_CardinalityType DEF CounterWide
      <3>5. refs = Cardinality(handles) + Cardinality(HeldIn(conns))
        BY <1>1, <1>3, RefsFacts
      <3>6. refs + 1 < RefModulus
        BY <1>1, <3>1, <3>2, <3>3, <3>4, <3>5
      <3>7. refs' = refs + 1
        BY <1>1, <1>3, <2>1, <3>6, RefsFacts
      <3> QED
        BY <3>1, <3>3, <3>5, <3>7
    <2>10. Counted'
      BY <1>u, <2>9 DEF Counted
    <2>11. AcceptWaits' /\ IdleWaits'
      BY <1>1, <1>3, <2>4, <2>5 DEF AcceptWaits, IdleWaits
    <2>12. DriverSleeps'
      <3>1. refs' # 0
        <4>1. refs + 1 # 0
          BY <1>1
        <4> QED
          BY <2>9, <4>1, Zenon
      <3> QED
        BY <1>1, <1>u, <2>4, <3>1 DEF DriverSleeps
    <2>13. AllTold'
      <3>1. \A d \in Conns : conns'[d] = "live" => conns[d] = "live"
        BY <1>1, <2>1, <2>2
      <3>2. endpoint.senders \subseteq Conns
        BY <1>1 DEF EndpointType
      <3> QED
        BY <1>1, <2>4, <3>1, <3>2 DEF AllTold
    <2> QED
      BY <2>7, <2>8, <2>10, <2>11, <2>12, <2>13 DEF EndpointInv
  <1>4. CASE ~(endpoint.lost = FALSE /\ endpoint.incoming # <<>>)
    <2> DEFINE f == IF endpoint.lost \/ endpoint.close THEN NoFuture
                    ELSE [futures[t] EXCEPT !.awake = FALSE, !.notified = FALSE]
    <2>1. futures' = [futures EXCEPT ![t] = f] /\ UNCHANGED <<conns, endpoint, refs>>
      BY <1>1, <1>4 DEF PollAccept
    <2>2. /\ f \in FutureType /\ f.kind # "idle"
          /\ f.kind = "accept" => endpoint.lost = FALSE /\ endpoint.close = FALSE
      <3>1. futures[t] \in FutureType
        BY <1>1
      <3> QED
        BY <1>1, <1>2, <1>u, <3>1 DEF FutureType
    <2> HIDE DEF f
    <2>3. /\ futures' \in [Tasks -> FutureType] /\ futures'[t] = f
          /\ \A u \in Tasks : u # t => futures'[u] = futures[u]
      BY <1>1, <2>1, <2>2
    <2>4. Typed'
      BY <1>1, <1>u, <2>1, <2>3 DEF Typed
    <2>5. Queue' /\ Counted' /\ DriverSleeps' /\ AllTold'
      BY <1>1, <1>u, <2>1 DEF Queue, Counted, DriverSleeps, AllTold
    <2>6. AcceptWaits'
      BY <1>1, <1>4, <2>1, <2>2, <2>3 DEF AcceptWaits
    <2>7. IdleWaits'
      BY <1>1, <2>1, <2>2, <2>3 DEF IdleWaits
    <2> QED
      BY <2>4, <2>5, <2>6, <2>7 DEF EndpointInv
  <1> QED
    BY <1>3, <1>4

\* wait_idle is polled: it sleeps, checks again or completes.
LEMMA PollIdleInv ==
    ASSUME CounterWide, EndpointInv, NEW t \in Tasks, PollIdle(t)
    PROVE  EndpointInv'
  <1>1. /\ Typed /\ AcceptWaits /\ IdleWaits /\ futures \in [Tasks -> FutureType]
        /\ futures[t] \in FutureType /\ futures[t].notified \in BOOLEAN
        /\ futures[t].kind = "idle"
    BY DEF EndpointInv, Typed, FutureType, PollIdle
  <1> DEFINE f == CASE ~futures[t].notified -> [futures[t] EXCEPT !.awake = FALSE]
                    [] futures[t].notified /\ endpoint.senders = {} -> NoFuture
                    [] futures[t].notified /\ endpoint.senders # {} ->
                         [futures[t] EXCEPT !.notified = FALSE]
  <1>2. futures' = [futures EXCEPT ![t] = f]
        /\ UNCHANGED <<endpoint, events, conns, handles, refs>>
    BY DEF PollIdle
  <1>3. /\ f \in FutureType /\ f.kind # "accept"
        /\ f.kind = "idle" /\ f.notified = FALSE =>
             endpoint.senders # {} \/ endpoint.lost = TRUE
    <2>1. CASE futures[t].notified = FALSE
      <3>1. f = [futures[t] EXCEPT !.awake = FALSE]
        BY <2>1
      <3>2. endpoint.senders # {} \/ endpoint.lost = TRUE
        BY <1>1, <2>1 DEF IdleWaits
      <3> QED
        BY <1>1, <3>1, <3>2 DEF FutureType
    <2>2. CASE futures[t].notified = TRUE /\ endpoint.senders = {}
      <3>1. f = NoFuture
        BY <2>2
      <3> QED
        BY <3>1 DEF NoFuture, FutureType, Kinds
    <2>3. CASE futures[t].notified = TRUE /\ endpoint.senders # {}
      <3>1. f = [futures[t] EXCEPT !.notified = FALSE]
        BY <2>3
      <3> QED
        BY <1>1, <2>3, <3>1 DEF FutureType
    <2> QED
      BY <1>1, <2>1, <2>2, <2>3
  <1> HIDE DEF f
  <1>4. /\ futures' \in [Tasks -> FutureType] /\ futures'[t] = f
        /\ \A u \in Tasks : u # t => futures'[u] = futures[u]
    BY <1>1, <1>2, <1>3
  <1>5. Typed'
    BY <1>1, <1>2, <1>4 DEF Typed
  <1>6. Queue' /\ Counted' /\ DriverSleeps' /\ AllTold'
    BY <1>2 DEF EndpointInv, Queue, Counted, DriverSleeps, AllTold
  <1>7. AcceptWaits' /\ IdleWaits'
    BY <1>1, <1>2, <1>3, <1>4 DEF AcceptWaits, IdleWaits
  <1> QED
    BY <1>5, <1>6, <1>7 DEF EndpointInv

\* A connection's driver closes it.
LEMMA ConnClosesInv ==
    ASSUME CounterWide, EndpointInv, NEW c \in Conns, ConnCloses(c)
    PROVE  EndpointInv'
  <1>1. Typed /\ Queue /\ conns \in [Conns -> Phases] /\ endpoint.senders \subseteq Conns
    BY DEF EndpointInv, Typed, EndpointType
  <1>2. /\ conns[c] \in {"live", "told"} /\ conns' = [conns EXCEPT ![c] = "closed"]
        /\ UNCHANGED <<endpoint, events, futures, handles, refs>>
    BY DEF ConnCloses
  <1>3. Typed'
    BY <1>1, <1>2 DEF Typed, Phases
  <1>4. Queue'
    BY <1>1, <1>2, QueueKept
  <1>5. HeldIn(conns') = HeldIn(conns)
    BY <1>1, <1>2 DEF HeldIn
  <1>6. Counted' /\ AcceptWaits' /\ IdleWaits' /\ DriverSleeps'
    BY <1>2, <1>5 DEF EndpointInv, Counted, AcceptWaits, IdleWaits, DriverSleeps
  <1>7. AllTold'
    BY <1>1, <1>2 DEF EndpointInv, AllTold
  <1> QED
    BY <1>3, <1>4, <1>6, <1>7 DEF EndpointInv

\* A connection drains: its driver tells the endpoint's.
LEMMA ConnDrainedInv ==
    ASSUME CounterWide, EndpointInv, NEW c \in Conns, ConnDrained(c)
    PROVE  EndpointInv'
  <1>1. /\ Typed /\ Queue /\ conns \in [Conns -> Phases] /\ endpoint.senders \subseteq Conns
        /\ endpoint \in EndpointType /\ endpoint.lost \in BOOLEAN /\ events \in Seq(Conns)
    BY DEF EndpointInv, Typed, EndpointType
  <1>2. /\ conns[c] = "closed" /\ conns' = [conns EXCEPT ![c] = "ended"]
        /\ events' = Append(events, c)
        /\ endpoint' = [endpoint EXCEPT !.scheduled = ~endpoint.lost]
        /\ UNCHANGED <<futures, handles, refs>>
    BY DEF ConnDrained
  <1>3. /\ endpoint' \in EndpointType /\ endpoint'.incoming = endpoint.incoming
        /\ endpoint'.lost = endpoint.lost /\ endpoint'.senders = endpoint.senders
        /\ endpoint'.close = endpoint.close
        /\ endpoint.lost = FALSE => endpoint'.scheduled = TRUE
    <2>1. (~endpoint.lost) \in BOOLEAN
      OBVIOUS
    <2>2. endpoint' = [endpoint EXCEPT !.scheduled = (~endpoint.lost)]
      BY <1>2
    <2> QED
      BY <1>1, <2>1, <2>2 DEF EndpointType
  <1>4. Typed'
    BY <1>1, <1>2, <1>3 DEF Typed, Phases
  <1>5. Queue'
    BY <1>1, <1>2, <1>3, QueueKept
  <1>6. HeldIn(conns') = HeldIn(conns)
    BY <1>1, <1>2 DEF HeldIn
  <1>7. Counted' /\ AcceptWaits' /\ IdleWaits'
    BY <1>2, <1>3, <1>6 DEF EndpointInv, Counted, AcceptWaits, IdleWaits
  <1>8. DriverSleeps' /\ AllTold'
    BY <1>1, <1>2, <1>3 DEF EndpointInv, DriverSleeps, AllTold
  <1> QED
    BY <1>4, <1>5, <1>7, <1>8 DEF EndpointInv

-----------------------------------------------------------------------------

\* Every step of Next keeps the invariant.
LEMMA NextInv ==
    ASSUME CounterWide, EndpointInv, [Next]_vars
    PROVE  EndpointInv'
  <1>1. CASE UNCHANGED vars
    BY <1>1 DEF vars, EndpointInv, Typed, Queue, Counted, AcceptWaits, IdleWaits,
                DriverSleeps, AllTold
  <1>2. CASE Next
    BY <1>2, PollInv, PollFailsInv, ReadableInv, ConnectInv, AcceptInv, RefuseInv,
       CloseInv, RebindInv, CloneInv, DropInv, StartInv, PollAcceptInv, PollIdleInv,
       ConnClosesInv, ConnDrainedInv, Zenon DEF Next
  <1> QED
    BY <1>1, <1>2

\* The invariant implies what the async endpoint promises.
LEMMA InvServed ==
    ASSUME CounterWide, EndpointInv
    PROVE  TypeOK /\ EndpointServed
  <1>1. /\ \A t \in Tasks : futures[t].awake \in BOOLEAN /\ futures[t].notified \in BOOLEAN
        /\ endpoint.lost \in BOOLEAN /\ endpoint.close \in BOOLEAN
        /\ endpoint.scheduled \in BOOLEAN
    BY DEF EndpointInv, Typed, EndpointType, FutureType
  <1>2. TypeOK
    BY DEF EndpointInv, Typed, TypeOK, EndpointType, FutureType, Kinds, Phases
  <1>3. NoLostEndpointWait
    BY <1>1 DEF EndpointInv, AcceptWaits, IdleWaits, NoLostEndpointWait, Sleeps
  <1>4. EndpointShutsDown
    BY <1>1 DEF EndpointInv, DriverSleeps, AllTold, EndpointShutsDown
  <1> QED
    BY <1>2, <1>3, <1>4 DEF EndpointServed

\* The async endpoint keeps its promises whatever the number of tasks and
\* connections, whatever the order of their calls, the polls of the driver and
\* the ends of connections: while the driver runs no task sleeps in accept or
\* wait_idle past what it waits for, the driver sleeps only with nothing to do and no reason to stop, and
\* a closed endpoint has told all its connections (EndpointDriver::poll,
\* EndpointRef::drop, Accept::poll, wait_idle).
THEOREM AsyncEndpoint ==
    ASSUME CounterWide
    PROVE  Spec => [](TypeOK /\ EndpointServed)
  <1>1. Init => EndpointInv
    BY InitInv
  <1>2. EndpointInv /\ [Next]_vars => EndpointInv'
    BY NextInv
  <1>3. EndpointInv => TypeOK /\ EndpointServed
    BY InvServed
  <1> QED
    BY <1>1, <1>2, <1>3, PTL DEF Spec
=============================================================================
