------------------------- MODULE StreamLimits_proofs ------------------------
(***************************************************************************)
(* Machine-checked proofs about StreamLimits, for any number of streams,   *)
(* any windows and any order of frames.                                    *)
(***************************************************************************)
EXTENDS StreamLimits, FiniteSetTheorems, TLAPS

USE DEF openVars

AccType ==
    [recv : [Index -> {"absent", "open", "stopped", "finished", "reset"}],
     send : [Index -> {"absent", "open"}],
     maxRemote : Nat, sentMaxRemote : Nat, allocated : Nat,
     maxConcurrent : Nat, adjusted : BOOLEAN,
     nextRemote : Nat, opened : BOOLEAN, nextReported : Nat,
     sendStreams : Nat, pendMax : BOOLEAN]

HeldIn(a, i) == a.recv[i] # "absent" \/ a.send[i] # "absent"
HeldSet(a) == {i \in Index : HeldIn(a, i)}
SendSet(a) == {i \in Index : i < a.nextReported /\ a.send[i] # "absent"}

\* The acceptor's cursors are in order and within its limit; it holds no stream
\* beyond the limit and every stream below it that was not accepted yet.
Shape(a) ==
    /\ a \in AccType
    /\ a.nextReported <= a.nextRemote /\ a.nextRemote <= a.maxRemote
    /\ a.nextRemote <= MaxStreams /\ a.maxRemote <= MaxStreams + MaxCount
    /\ a.sentMaxRemote <= a.maxRemote /\ Initial <= a.maxRemote
    /\ a.maxConcurrent <= MaxCount /\ a.allocated <= MaxCount
    /\ \A i \in Index : HeldIn(a, i) => i < a.maxRemote
    /\ \A i \in Index : a.nextReported <= i /\ i < a.maxRemote =>
           /\ a.recv[i] \notin {"absent", "stopped"}
           /\ a.send[i] = IF Bi THEN "open" ELSE "absent"

\* Its counters are the numbers of the streams and sending halves it holds.
Counted(a) ==
    /\ a.allocated = Cardinality(HeldSet(a))
    /\ a.sendStreams = Cardinality(SendSet(a))

Filled(a) == a.maxConcurrent <= a.allocated

AccInv(a) == Shape(a) /\ Counted(a) /\ Filled(a)

\* The fields that freeing a stream leaves alone
SameCursors(a, b) ==
    /\ b.nextRemote = a.nextRemote /\ b.nextReported = a.nextReported
    /\ b.opened = a.opened /\ b.sentMaxRemote = a.sentMaxRemote
    /\ b.maxConcurrent = a.maxConcurrent /\ b.adjusted = a.adjusted
    /\ b.pendMax = a.pendMax /\ a.maxRemote <= b.maxRemote

-----------------------------------------------------------------------------
(* Counting                                                                *)

\* The largest window is a number and bounds the others.
LEMMA MaxCountIsBound ==
    /\ MaxCount \in Nat /\ Initial <= MaxCount
    /\ \A c \in Counts : c <= MaxCount
  BY ConstantsAssumption DEF MaxCount, Max

\* The streams the acceptor may come to hold are finitely many.
LEMMA IndexFinite == IsFiniteSet(Index)
  <1>1. 0 \in Int /\ MaxStreams + MaxCount - 1 \in Int
    BY MaxCountIsBound, ConstantsAssumption
  <1> QED
    BY <1>1, FS_Interval DEF Index

\* So is every set of them.
LEMMA SubsetFinite ==
    ASSUME NEW S \in SUBSET Index
    PROVE  IsFiniteSet(S) /\ Cardinality(S) \in Nat
  BY IndexFinite, FS_Subset, FS_CardinalityType

\* Cardinalities of disjoint sets add up.
LEMMA DisjointUnion ==
    ASSUME NEW S, IsFiniteSet(S), NEW T, IsFiniteSet(T), S \cap T = {}
    PROVE  Cardinality(S \cup T) = Cardinality(S) + Cardinality(T)
  <1>1. /\ Cardinality(S) \in Nat /\ Cardinality(T) \in Nat
        /\ Cardinality(S \cap T) = 0
    BY FS_CardinalityType, FS_EmptySet
  <1>2. Cardinality(S \cup T) =
            Cardinality(S) + Cardinality(T) - Cardinality(S \cap T)
    BY FS_Union
  <1> QED
    BY <1>1, <1>2

\* The length of an interval that may be empty
LEMMA IntervalCount ==
    ASSUME NEW m \in Nat, NEW n \in Nat
    PROVE  IsFiniteSet(m .. (m + n - 1)) /\ Cardinality(m .. (m + n - 1)) = n
  <1>1. m \in Int /\ m + n - 1 \in Int
    OBVIOUS
  <1>2. /\ IsFiniteSet(m .. (m + n - 1))
        /\ Cardinality(m .. (m + n - 1)) =
              IF m > m + n - 1 THEN 0 ELSE (m + n - 1) - m + 1
    BY <1>1, FS_Interval
  <1> QED
    BY <1>2

\* As many streams were given back as are below the limit and not held, all of
\* which the peer had opened.
LEMMA OpenedHeld ==
    ASSUME NEW a, Shape(a), Counted(a)
    PROVE  /\ a.nextRemote - (a.maxRemote - a.allocated) =
                Cardinality({i \in Index : i < a.nextRemote /\ HeldIn(a, i)})
           /\ a.maxRemote - a.allocated <= a.nextRemote
  <1> DEFINE low == {i \in Index : i < a.nextRemote /\ HeldIn(a, i)}
             high == a.nextRemote .. (a.maxRemote - 1)
  <1>t. /\ a.nextRemote \in Nat /\ a.maxRemote \in Nat /\ a.allocated \in Nat
        /\ a.nextReported \in Nat /\ MaxCount \in Nat /\ MaxStreams \in Nat
        /\ a.nextRemote <= a.maxRemote /\ a.nextReported <= a.nextRemote
        /\ a.maxRemote <= MaxStreams + MaxCount
    BY MaxCountIsBound, ConstantsAssumption DEF Shape, AccType
  <1>1. high \subseteq Index
    BY <1>t DEF Index
  <1>2. HeldSet(a) = low \cup high
    <2>1. ASSUME NEW i \in high PROVE i \in HeldSet(a)
      BY <2>1, <1>1, <1>t DEF Shape, HeldSet, HeldIn, Index
    <2>2. ASSUME NEW i \in HeldSet(a) PROVE i \in low \cup high
      BY <2>2, <1>t DEF Shape, HeldSet, Index
    <2> QED
      BY <2>1, <2>2 DEF HeldSet
  <1>3. low \cap high = {}
    BY <1>t DEF Index
  <1>4. IsFiniteSet(low) /\ Cardinality(low) \in Nat
    BY SubsetFinite
  <1>5. IsFiniteSet(high) /\ Cardinality(high) = a.maxRemote - a.nextRemote
    <2>1. /\ a.maxRemote - a.nextRemote \in Nat
          /\ a.nextRemote + (a.maxRemote - a.nextRemote) - 1 = a.maxRemote - 1
      BY <1>t
    <2>2. LET n == a.maxRemote - a.nextRemote IN
             /\ IsFiniteSet(a.nextRemote .. (a.nextRemote + n - 1))
             /\ Cardinality(a.nextRemote .. (a.nextRemote + n - 1)) = n
      BY <2>1, <1>t, IntervalCount
    <2> QED
      BY <2>1, <2>2
  <1> HIDE DEF low, high
  <1>6. Cardinality(low \cup high) = Cardinality(low) + Cardinality(high)
    BY <1>3, <1>4, <1>5, DisjointUnion
  <1>7. a.allocated = Cardinality(low) + (a.maxRemote - a.nextRemote)
    BY <1>2, <1>5, <1>6 DEF Counted
  <1>8. /\ a.nextRemote - (a.maxRemote - a.allocated) = Cardinality(low)
        /\ a.maxRemote - a.allocated <= a.nextRemote
    BY <1>7, <1>4, <1>t
  <1> QED
    BY <1>8 DEF low

\* ensure_remote_streams fills the window with streams just above the limit.
LEMMA EnsureKeeps ==
    ASSUME NEW a, Shape(a), Counted(a)
    PROVE  AccInv(EnsureRemoteStreams(a)) /\ SameCursors(a, EnsureRemoteStreams(a))
  <1> DEFINE n == IF a.maxConcurrent > a.allocated
                  THEN a.maxConcurrent - a.allocated ELSE 0
             new == a.maxRemote .. (a.maxRemote + n - 1)
             e == EnsureRemoteStreams(a)
  <1>t. /\ a.nextRemote \in Nat /\ a.maxRemote \in Nat /\ a.allocated \in Nat
        /\ a.nextReported \in Nat /\ MaxCount \in Nat /\ MaxStreams \in Nat
        /\ a.maxConcurrent \in Nat /\ a.maxConcurrent <= MaxCount
        /\ a.nextRemote <= a.maxRemote /\ a.nextReported <= a.nextRemote
        /\ a.maxRemote <= MaxStreams + MaxCount /\ a.nextRemote <= MaxStreams
        /\ a.allocated <= MaxCount /\ a.sentMaxRemote \in Nat
        /\ a.sentMaxRemote <= a.maxRemote /\ Initial <= a.maxRemote
        /\ Initial \in Nat
    BY MaxCountIsBound, ConstantsAssumption DEF Shape, AccType
  <1>f. /\ a.recv \in [Index -> {"absent", "open", "stopped", "finished", "reset"}]
        /\ a.send \in [Index -> {"absent", "open"}]
    BY DEF Shape, AccType
  <1>0. a.maxRemote - a.allocated <= MaxStreams
    <2>1. a.maxRemote - a.allocated <= a.nextRemote
      BY OpenedHeld
    <2> QED
      BY <2>1, <1>t
  <1>1. /\ n \in Nat /\ a.allocated + n <= MaxCount
        /\ a.maxConcurrent <= a.allocated + n
        /\ a.maxRemote + n <= MaxStreams + MaxCount
    BY <1>t, <1>0
  <1>e. e = [a EXCEPT
          !.recv = [i \in Index |-> IF i \in new THEN "open" ELSE a.recv[i]],
          !.send = [i \in Index |->
                       IF i \in new /\ HasSend(i) THEN "open" ELSE a.send[i]],
          !.allocated = a.allocated + n, !.maxRemote = a.maxRemote + n]
    BY DEF EnsureRemoteStreams, Shape, AccType
  <1> HIDE DEF n, e
  <1>2. /\ e.recv = [i \in Index |-> IF i \in new THEN "open" ELSE a.recv[i]]
        /\ e.send = [i \in Index |->
                       IF i \in new /\ HasSend(i) THEN "open" ELSE a.send[i]]
        /\ e.allocated = a.allocated + n /\ e.maxRemote = a.maxRemote + n
        /\ e.sendStreams = a.sendStreams
    BY <1>e DEF Shape, AccType
  <1>3. SameCursors(a, e)
    <2>1. /\ e.nextRemote = a.nextRemote /\ e.nextReported = a.nextReported
          /\ e.opened = a.opened /\ e.sentMaxRemote = a.sentMaxRemote
          /\ e.maxConcurrent = a.maxConcurrent /\ e.adjusted = a.adjusted
          /\ e.pendMax = a.pendMax
      BY <1>e DEF Shape, AccType
    <2> QED
      BY <2>1, <1>2, <1>1, <1>t DEF SameCursors
  <1>9. e \in AccType
    <2>1. /\ e.recv \in [Index -> {"absent", "open", "stopped", "finished", "reset"}]
          /\ e.send \in [Index -> {"absent", "open"}]
      BY <1>2, <1>f
    <2>2. /\ e.allocated \in Nat /\ e.maxRemote \in Nat
      BY <1>1, <1>2, <1>t
    <2>3. e = [a EXCEPT !.recv = e.recv, !.send = e.send,
                        !.allocated = e.allocated, !.maxRemote = e.maxRemote]
      BY <1>e, <1>2
    <2> QED
      BY <2>1, <2>2, <2>3 DEF Shape, AccType
  <1>4. new \subseteq Index
    BY <1>1, <1>t DEF Index
  <1>5. Shape(e)
    <2>1. ASSUME NEW i \in Index, HeldIn(e, i) PROVE i < e.maxRemote
      <3>1. CASE i \in new
        BY <3>1, <1>2, <1>1, <1>t
      <3>2. CASE i \notin new
        <4>1. HeldIn(a, i)
          BY <3>2, <2>1, <1>2 DEF HeldIn
        <4>2. i < a.maxRemote /\ i \in Int
          BY <4>1 DEF Shape, Index
        <4> QED
          BY <4>2, <1>2, <1>1, <1>t
      <3> QED
        BY <3>1, <3>2
    <2>2. ASSUME NEW i \in Index, e.nextReported <= i, i < e.maxRemote
          PROVE  /\ e.recv[i] \notin {"absent", "stopped"}
                 /\ e.send[i] = IF Bi THEN "open" ELSE "absent"
      <3>1. CASE i \in new
        <4>1. a.send[i] = "absent"
          BY <3>1, <1>1, <1>t DEF Shape, HeldIn
        <4> QED
          BY <3>1, <4>1, <1>2 DEF HasSend
      <3>2. CASE i \notin new
        <4>1. i < a.maxRemote /\ a.nextReported <= i
          BY <3>2, <2>2, <1>2, <1>1, <1>t, <1>3 DEF Index, SameCursors
        <4> QED
          BY <4>1, <3>2, <1>2 DEF Shape
      <3> QED
        BY <3>1, <3>2
    <2>3. /\ e.nextReported <= e.nextRemote /\ e.nextRemote <= e.maxRemote
          /\ e.nextRemote <= MaxStreams /\ e.maxRemote <= MaxStreams + MaxCount
          /\ e.sentMaxRemote <= e.maxRemote /\ Initial <= e.maxRemote
          /\ e.maxConcurrent <= MaxCount /\ e.allocated <= MaxCount
      BY <1>2, <1>3, <1>1, <1>t DEF SameCursors
    <2> QED
      BY <2>1, <2>2, <2>3, <1>9 DEF Shape
  <1>6. Counted(e)
    <2>1. HeldSet(e) = HeldSet(a) \cup new
      BY <1>2, <1>4 DEF HeldSet, HeldIn
    <2>2. HeldSet(a) \cap new = {}
      BY <1>t, <1>1 DEF HeldSet, Shape, Index
    <2>3. IsFiniteSet(HeldSet(a)) /\ Cardinality(HeldSet(a)) \in Nat
      BY SubsetFinite DEF HeldSet
    <2>4. IsFiniteSet(new) /\ Cardinality(new) = n
      BY <1>t, <1>1, IntervalCount
    <2>5. Cardinality(HeldSet(e)) = Cardinality(HeldSet(a)) + n
      <3> HIDE DEF new
      <3> QED
        BY <2>1, <2>2, <2>3, <2>4, DisjointUnion
    <2>6. SendSet(e) = SendSet(a)
      <3>1. ASSUME NEW i \in Index, i < a.nextReported PROVE i \notin new
        BY <3>1, <1>t, <1>1 DEF Index
      <3> QED
        BY <3>1, <1>2, <1>3 DEF SendSet, SameCursors
    <2> QED
      BY <2>5, <2>6, <1>2 DEF Counted
  <1>7. Filled(e)
    BY <1>1, <1>2, <1>3 DEF Filled, SameCursors
  <1> QED
    BY <1>3, <1>5, <1>6, <1>7 DEF AccInv, e

\* stream_freed after one half of an accepted stream is gone
LEMMA FreedKeeps ==
    ASSUME NEW a, Shape(a), a.allocated > 0, NEW i \in Index,
           a.allocated = Cardinality(HeldSet(a) \cup {i}),
           a.sendStreams = Cardinality(SendSet(a)),
           a.maxConcurrent <= a.allocated
    PROVE  AccInv(StreamFreed(a, i)) /\ SameCursors(a, StreamFreed(a, i))
  <1>t. a.allocated \in Nat /\ a.maxRemote \in Nat /\ a.allocated <= MaxCount
        /\ MaxCount \in Nat
    BY MaxCountIsBound DEF Shape, AccType
  <1>1. CASE FullyFree(a, i)
    <2> DEFINE b == [a EXCEPT !.allocated = a.allocated - 1]
    <2>1. /\ b.allocated = a.allocated - 1 /\ b.recv = a.recv
          /\ b.send = a.send /\ b.maxRemote = a.maxRemote
          /\ b.sendStreams = a.sendStreams /\ SameCursors(a, b)
      BY <1>t DEF Shape, AccType, SameCursors
    <2>2. Shape(b)
      <3>1. a.allocated - 1 \in Nat /\ a.allocated - 1 <= MaxCount
        BY <1>t
      <3>2. b \in AccType
        BY <3>1 DEF Shape, AccType
      <3> HIDE DEF b
      <3> QED
        BY <3>1, <3>2, <2>1 DEF Shape, SameCursors, HeldIn
    <2> HIDE DEF b
    <2>3. HeldSet(b) = HeldSet(a) /\ SendSet(b) = SendSet(a)
      BY <2>1 DEF HeldSet, HeldIn, SendSet, SameCursors
    <2>4. i \notin HeldSet(a)
      BY <1>1 DEF FullyFree, HeldSet, HeldIn
    <2>5. IsFiniteSet(HeldSet(a)) /\ Cardinality(HeldSet(a)) \in Nat
      BY SubsetFinite DEF HeldSet
    <2>6. Cardinality(HeldSet(a) \cup {i}) = Cardinality(HeldSet(a)) + 1
      BY <2>4, <2>5, FS_AddElement
    <2>7. b.allocated = Cardinality(HeldSet(b))
      BY <2>6, <2>5, <2>3, <2>1, <1>t
    <2>8. Counted(b)
      BY <2>7, <2>3, <2>1 DEF Counted
    <2>9. AccInv(EnsureRemoteStreams(b)) /\ SameCursors(b, EnsureRemoteStreams(b))
      BY <2>2, <2>8, EnsureKeeps
    <2>10. StreamFreed(a, i) = EnsureRemoteStreams(b)
      BY <1>1 DEF StreamFreed, b
    <2>11. EnsureRemoteStreams(b).maxRemote \in Nat
      BY <2>9 DEF AccInv, Shape, AccType
    <2> QED
      BY <2>9, <2>10, <2>1, <2>11, <1>t DEF SameCursors
  <1>2. CASE ~FullyFree(a, i)
    <2>1. HeldSet(a) \cup {i} = HeldSet(a)
      BY <1>2 DEF FullyFree, HeldSet, HeldIn
    <2>2. StreamFreed(a, i) = a
      BY <1>2 DEF StreamFreed
    <2> QED
      BY <2>1, <2>2, <1>t DEF AccInv, Counted, Filled, SameCursors
  <1> QED
    BY <1>1, <1>2

\* A stream that is held is counted.
LEMMA HeldPositive ==
    ASSUME NEW a, AccInv(a), NEW i \in Index, HeldIn(a, i)
    PROVE  a.allocated > 0 /\ HeldSet(a) \cup {i} = HeldSet(a)
  <1>1. IsFiniteSet(HeldSet(a)) /\ Cardinality(HeldSet(a)) \in Nat
    BY SubsetFinite DEF HeldSet
  <1>2. i \in HeldSet(a)
    BY DEF HeldSet
  <1>3. Cardinality(HeldSet(a)) # 0
    BY <1>1, <1>2, FS_EmptySet
  <1> QED
    BY <1>1, <1>2, <1>3 DEF AccInv, Counted

\* stream_recv_freed for a stream that was accepted
LEMMA RecvFreedKeeps ==
    ASSUME NEW a, AccInv(a), NEW i \in Index, i < a.nextReported,
           a.recv[i] # "absent"
    PROVE  AccInv(RecvFreed(a, i)) /\ SameCursors(a, RecvFreed(a, i))
  <1> DEFINE b == [a EXCEPT !.recv[i] = "absent"]
  <1>0. a.allocated > 0 /\ HeldSet(a) \cup {i} = HeldSet(a)
    BY HeldPositive DEF HeldIn
  <1>t. a.maxRemote \in Nat /\ a.nextReported \in Nat
    BY DEF AccInv, Shape, AccType
  <1>1. /\ b.recv = [a.recv EXCEPT ![i] = "absent"] /\ b.send = a.send
        /\ b.allocated = a.allocated /\ b.maxRemote = a.maxRemote
        /\ b.sendStreams = a.sendStreams /\ SameCursors(a, b)
    BY <1>t DEF AccInv, Shape, AccType, SameCursors
  <1>2. b \in AccType
    BY DEF AccInv, Shape, AccType
  <1> HIDE DEF b
  <1>f. a.recv \in [Index -> {"absent", "open", "stopped", "finished", "reset"}]
    BY DEF AccInv, Shape, AccType
  <1>3. Shape(b)
    <2>1. ASSUME NEW j \in Index, HeldIn(b, j) PROVE j < b.maxRemote
      BY <2>1, <1>1, <1>f DEF HeldIn, AccInv, Shape
    <2>2. ASSUME NEW j \in Index, b.nextReported <= j, j < b.maxRemote
          PROVE  /\ b.recv[j] \notin {"absent", "stopped"}
                 /\ b.send[j] = IF Bi THEN "open" ELSE "absent"
      <3>1. j # i
        BY <2>2, <1>1, <1>t DEF SameCursors, Index
      <3> QED
        BY <3>1, <2>2, <1>1, <1>f DEF SameCursors, AccInv, Shape
    <2> QED
      BY <2>1, <2>2, <1>1, <1>2 DEF Shape, AccInv, SameCursors
  <1>4. HeldSet(b) \cup {i} = HeldSet(a)
    BY <1>1, <1>f, <1>0 DEF HeldSet, HeldIn
  <1>5. SendSet(b) = SendSet(a)
    BY <1>1 DEF SendSet, SameCursors
  <1>6. /\ b.allocated > 0 /\ b.allocated = Cardinality(HeldSet(b) \cup {i})
        /\ b.sendStreams = Cardinality(SendSet(b))
        /\ b.maxConcurrent <= b.allocated
    BY <1>0, <1>1, <1>4, <1>5 DEF AccInv, Counted, Filled, SameCursors
  <1>7. AccInv(StreamFreed(b, i)) /\ SameCursors(b, StreamFreed(b, i))
    BY <1>3, <1>6, FreedKeeps
  <1>8. RecvFreed(a, i) = StreamFreed(b, i)
    BY DEF RecvFreed, b
  <1> QED
    BY <1>7, <1>8, <1>1 DEF SameCursors

\* The same for the sending half
LEMMA SendFreedKeeps ==
    ASSUME NEW a, AccInv(a), NEW i \in Index, i < a.nextReported,
           a.send[i] # "absent"
    PROVE  AccInv(SendFreed(a, i)) /\ SameCursors(a, SendFreed(a, i))
  <1> DEFINE b == [a EXCEPT !.send[i] = "absent", !.sendStreams = a.sendStreams - 1]
  <1>0. a.allocated > 0 /\ HeldSet(a) \cup {i} = HeldSet(a)
    BY HeldPositive DEF HeldIn
  <1>t. a.maxRemote \in Nat /\ a.nextReported \in Nat /\ a.sendStreams \in Nat
    BY DEF AccInv, Shape, AccType
  <1>f. a.send \in [Index -> {"absent", "open"}]
    BY DEF AccInv, Shape, AccType
  <1>s. Cardinality(SendSet(a) \ {i}) = a.sendStreams - 1 /\ a.sendStreams - 1 \in Nat
    <2>1. IsFiniteSet(SendSet(a)) /\ Cardinality(SendSet(a) \ {i}) \in Nat
      BY SubsetFinite DEF SendSet
    <2>2. i \in SendSet(a)
      BY DEF SendSet
    <2>3. Cardinality(SendSet(a) \ {i}) = Cardinality(SendSet(a)) - 1
      BY <2>1, <2>2, FS_RemoveElement
    <2> QED
      BY <2>1, <2>3 DEF AccInv, Counted
  <1>1. /\ b.send = [a.send EXCEPT ![i] = "absent"] /\ b.recv = a.recv
        /\ b.allocated = a.allocated /\ b.maxRemote = a.maxRemote
        /\ b.sendStreams = a.sendStreams - 1 /\ SameCursors(a, b)
    BY <1>t DEF AccInv, Shape, AccType, SameCursors
  <1>2. b \in AccType
    <2>1. [a.send EXCEPT ![i] = "absent"] \in [Index -> {"absent", "open"}]
      BY <1>f
    <2>2. b = [a EXCEPT !.send = [a.send EXCEPT ![i] = "absent"],
                        !.sendStreams = a.sendStreams - 1]
      BY DEF AccInv, Shape, AccType
    <2> QED
      BY <2>1, <2>2, <1>s DEF AccInv, Shape, AccType
  <1>8. SendFreed(a, i) = StreamFreed(b, i)
    BY DEF SendFreed, AccInv, Shape, AccType
  <1> HIDE DEF b
  <1>3. Shape(b)
    <2>1. ASSUME NEW j \in Index, HeldIn(b, j) PROVE j < b.maxRemote
      BY <2>1, <1>1, <1>f DEF HeldIn, AccInv, Shape
    <2>2. ASSUME NEW j \in Index, b.nextReported <= j, j < b.maxRemote
          PROVE  /\ b.recv[j] \notin {"absent", "stopped"}
                 /\ b.send[j] = IF Bi THEN "open" ELSE "absent"
      <3>1. j # i
        BY <2>2, <1>1, <1>t DEF SameCursors, Index
      <3> QED
        BY <3>1, <2>2, <1>1, <1>f DEF SameCursors, AccInv, Shape
    <2> QED
      BY <2>1, <2>2, <1>1, <1>2 DEF Shape, AccInv, SameCursors
  <1>4. HeldSet(b) \cup {i} = HeldSet(a)
    BY <1>1, <1>f, <1>0 DEF HeldSet, HeldIn
  <1>5. SendSet(b) = SendSet(a) \ {i}
    BY <1>1, <1>f DEF SendSet, SameCursors
  <1>6. /\ b.allocated > 0 /\ b.allocated = Cardinality(HeldSet(b) \cup {i})
        /\ b.sendStreams = Cardinality(SendSet(b))
        /\ b.maxConcurrent <= b.allocated
    BY <1>0, <1>1, <1>4, <1>5, <1>s DEF AccInv, Counted, Filled, SameCursors
  <1>7. AccInv(StreamFreed(b, i)) /\ SameCursors(b, StreamFreed(b, i))
    BY <1>3, <1>6, FreedKeeps
  <1> QED
    BY <1>7, <1>8, <1>1 DEF SameCursors

-----------------------------------------------------------------------------
(* What each action does to the acceptor                                   *)

\* Steps after which what was announced still stands
Quiet(a, b) ==
    /\ AccInv(b) /\ a.maxRemote <= b.maxRemote
    /\ b.sentMaxRemote = a.sentMaxRemote
    /\ a.pendMax => b.pendMax

\* A step that leaves an acceptor which has opened no stream as it is
KeepsClosed(a, b) ==
    a.nextRemote = 0 => b.nextRemote = 0 /\ b.maxRemote = a.maxRemote

\* An acceptor's task is told of a stream to accept.
Told(a, waits) == waits /\ a.nextReported < a.nextRemote => a.opened

\* Only pending frames, the announced limit or the event differ.
LEMMA FlagsKeep ==
    ASSUME NEW a, AccInv(a), NEW b \in AccType,
           b.recv = a.recv, b.send = a.send, b.maxRemote = a.maxRemote,
           b.allocated = a.allocated, b.maxConcurrent = a.maxConcurrent,
           b.nextRemote = a.nextRemote, b.nextReported = a.nextReported,
           b.sendStreams = a.sendStreams, b.sentMaxRemote <= a.maxRemote
    PROVE  AccInv(b)
  <1>1. HeldSet(b) = HeldSet(a) /\ SendSet(b) = SendSet(a)
    BY DEF HeldSet, HeldIn, SendSet
  <1> QED
    BY <1>1 DEF AccInv, Shape, Counted, Filled, HeldIn

\* The pending MAX_STREAMS is all that queue_max_stream_id changes.
LEMMA QueueKeeps ==
    ASSUME NEW a, AccInv(a)
    PROVE  LET q == QueueMaxStreamId(a) IN
           /\ AccInv(q) /\ q.maxRemote = a.maxRemote
           /\ q.sentMaxRemote = a.sentMaxRemote /\ (a.pendMax => q.pendMax)
           /\ q.nextRemote = a.nextRemote /\ q.nextReported = a.nextReported
           /\ q.opened = a.opened /\ q.adjusted = a.adjusted
  <1> DEFINE p == a.pendMax
                \/ a.maxRemote - a.sentMaxRemote > a.maxConcurrent \div Fraction
             q == QueueMaxStreamId(a)
  <1>1. q = [a EXCEPT !.pendMax = p]
    BY DEF QueueMaxStreamId, AccInv, Shape, AccType
  <1>2. p \in BOOLEAN /\ (a.pendMax => p)
    OBVIOUS
  <1> HIDE DEF p, q
  <1>3. q \in AccType
    BY <1>1, <1>2 DEF AccInv, Shape, AccType
  <1>4. /\ q.recv = a.recv /\ q.send = a.send /\ q.maxRemote = a.maxRemote
        /\ q.allocated = a.allocated /\ q.maxConcurrent = a.maxConcurrent
        /\ q.nextRemote = a.nextRemote /\ q.nextReported = a.nextReported
        /\ q.sendStreams = a.sendStreams /\ q.sentMaxRemote = a.sentMaxRemote
        /\ q.opened = a.opened /\ q.adjusted = a.adjusted
    BY <1>1 DEF AccInv, Shape, AccType
  <1>5. q.pendMax = p
    BY <1>1 DEF AccInv, Shape, AccType
  <1>6. AccInv(q)
    BY <1>3, <1>4, FlagsKeep DEF AccInv, Shape
  <1> QED
    BY <1>6, <1>4, <1>5, <1>2 DEF q

\* on_stream_frame for a stream within the limit
LEMMA FrameKeeps ==
    ASSUME NEW a, AccInv(a), NEW i \in Streams, i < a.maxRemote
    PROVE  LET b == OnStreamFrame(a, i) IN
           /\ AccInv(b) /\ b.maxRemote = a.maxRemote
           /\ b.sentMaxRemote = a.sentMaxRemote /\ b.pendMax = a.pendMax
           /\ b.adjusted = a.adjusted
           /\ \/ b.nextRemote = a.nextRemote /\ b.opened = a.opened
              \/ b.opened = TRUE
           /\ b.nextReported = a.nextReported
  <1>t. /\ a.nextRemote \in Nat /\ a.maxRemote \in Nat /\ a.nextReported \in Nat
        /\ MaxStreams \in Nat /\ i \in Nat /\ i < MaxStreams
        /\ a.nextReported <= a.nextRemote
    BY ConstantsAssumption DEF AccInv, Shape, AccType, Streams
  <1>1. CASE i < a.nextRemote
    <2>1. OnStreamFrame(a, i) = a
      BY <1>1 DEF OnStreamFrame
    <2> QED
      BY <2>1
  <1>2. CASE ~(i < a.nextRemote)
    <2> DEFINE b == [a EXCEPT !.nextRemote = i + 1, !.opened = TRUE]
    <2>0. OnStreamFrame(a, i) = b
      BY <1>2 DEF OnStreamFrame
    <2>1. b \in AccType
      <3>1. a \in AccType /\ i + 1 \in Nat
        BY <1>t DEF AccInv, Shape
      <3>2. [a EXCEPT !.nextRemote = i + 1] \in AccType
        BY <3>1 DEF AccType
      <3>3. \A c \in AccType : [c EXCEPT !.opened = TRUE] \in AccType
        BY DEF AccType
      <3>4. b = [[a EXCEPT !.nextRemote = i + 1] EXCEPT !.opened = TRUE]
        BY <3>1 DEF AccType
      <3> QED
        BY <3>2, <3>3, <3>4
    <2>2. /\ b.recv = a.recv /\ b.send = a.send /\ b.maxRemote = a.maxRemote
          /\ b.allocated = a.allocated /\ b.maxConcurrent = a.maxConcurrent
          /\ b.nextRemote = i + 1 /\ b.nextReported = a.nextReported
          /\ b.sendStreams = a.sendStreams /\ b.sentMaxRemote = a.sentMaxRemote
          /\ b.opened = TRUE /\ b.adjusted = a.adjusted /\ b.pendMax = a.pendMax
      BY DEF AccInv, Shape, AccType
    <2> HIDE DEF b
    <2>3. HeldSet(b) = HeldSet(a) /\ SendSet(b) = SendSet(a)
      BY <2>2 DEF HeldSet, HeldIn, SendSet
    <2>4. /\ b.nextReported <= b.nextRemote /\ b.nextRemote <= b.maxRemote
          /\ b.nextRemote <= MaxStreams
      BY <2>2, <1>t, <1>2
    <2>5. Shape(b)
      BY <2>1, <2>2, <2>4 DEF AccInv, Shape, HeldIn
    <2>6. AccInv(b)
      BY <2>5, <2>3, <2>2 DEF AccInv, Counted, Filled
    <2> QED
      BY <2>0, <2>2, <2>6
  <1> QED
    BY <1>1, <1>2

\* The streams that are opened are among those that may be held.
LEMMA StreamsIndexed == Streams \subseteq Index
  BY MaxCountIsBound, ConstantsAssumption DEF Streams, Index

\* received and received_reset for a stream within the limit
LEMMA ReceivedKeeps ==
    ASSUME NEW a, AccInv(a), NEW i \in Streams, i < a.maxRemote,
           NEW how \in Ends \cup {"open"}
    PROVE  LET b == Received(a, i, how) IN
           /\ AccInv(b) /\ a.maxRemote <= b.maxRemote
           /\ b.sentMaxRemote = a.sentMaxRemote /\ b.pendMax = a.pendMax
           /\ b.adjusted = a.adjusted
           /\ \/ b.nextRemote = a.nextRemote /\ b.opened = a.opened
              \/ b.opened = TRUE
           /\ b.nextReported = a.nextReported
  <1>t. a.nextReported \in Nat /\ a.maxRemote \in Nat /\ i \in Index /\ i \in Nat
    BY StreamsIndexed DEF AccInv, Shape, AccType, Streams
  <1>r. a.recv[i] \in {"absent", "open", "stopped", "finished", "reset"}
    BY <1>t DEF AccInv, Shape, AccType
  <1>1. CASE a.recv[i] \in {"absent", "reset"}
    <2>1. Received(a, i, how) = a
      BY <1>1 DEF Received
    <2> QED
      BY <2>1, <1>t
  <1>2. CASE a.recv[i] = "stopped"
    <2>0. i < a.nextReported
      BY <1>2, <1>t DEF AccInv, Shape
    <2> DEFINE b == RecvFreed(a, i)
    <2>1. AccInv(b) /\ SameCursors(a, b)
      BY <2>0, <1>2, <1>t, RecvFreedKeeps
    <2> HIDE DEF b
    <2>2. b.maxRemote \in Nat /\ i < b.maxRemote
      BY <2>1, <1>t DEF AccInv, Shape, AccType, SameCursors
    <2> DEFINE c == OnStreamFrame(b, i)
    <2>3. /\ AccInv(c) /\ c.maxRemote = b.maxRemote
          /\ c.sentMaxRemote = b.sentMaxRemote /\ c.pendMax = b.pendMax
          /\ c.adjusted = b.adjusted
          /\ \/ c.nextRemote = b.nextRemote /\ c.opened = b.opened
             \/ c.opened = TRUE
          /\ c.nextReported = b.nextReported
      BY <2>1, <2>2, FrameKeeps
    <2> HIDE DEF c
    <2>4. Received(a, i, how) \in {a, b, c}
      BY <1>2 DEF Received, b, c
    <2>5. CASE Received(a, i, how) = a
      BY <2>5, <1>t
    <2>6. CASE Received(a, i, how) = b
      BY <2>6, <2>1 DEF SameCursors
    <2>7. CASE Received(a, i, how) = c
      BY <2>7, <2>1, <2>3 DEF SameCursors
    <2> QED
      BY <2>4, <2>5, <2>6, <2>7
  <1>3. CASE a.recv[i] \in {"open", "finished"}
    <2> DEFINE s == IF how = "open" THEN a.recv[i] ELSE how
               b == [a EXCEPT !.recv[i] = s]
    <2>0. Received(a, i, how) = OnStreamFrame(b, i)
      BY <1>3 DEF Received
    <2>s. s \in {"open", "finished", "reset"}
      BY <1>3 DEF Ends
    <2> HIDE DEF s
    <2>f. a.recv \in [Index -> {"absent", "open", "stopped", "finished", "reset"}]
      BY DEF AccInv, Shape, AccType
    <2>1. b \in AccType
      BY <2>s DEF AccInv, Shape, AccType
    <2>2. /\ b.recv = [a.recv EXCEPT ![i] = s] /\ b.send = a.send
          /\ b.maxRemote = a.maxRemote /\ b.opened = a.opened
          /\ b.allocated = a.allocated /\ b.maxConcurrent = a.maxConcurrent
          /\ b.nextRemote = a.nextRemote /\ b.nextReported = a.nextReported
          /\ b.sendStreams = a.sendStreams /\ b.sentMaxRemote = a.sentMaxRemote
          /\ b.adjusted = a.adjusted /\ b.pendMax = a.pendMax
      BY DEF AccInv, Shape, AccType
    <2> HIDE DEF b
    <2>3. \A j \in Index : HeldIn(b, j) <=> HeldIn(a, j)
      BY <2>2, <2>f, <2>s, <1>3 DEF HeldIn
    <2>4. HeldSet(b) = HeldSet(a) /\ SendSet(b) = SendSet(a)
      BY <2>2, <2>3 DEF HeldSet, SendSet
    <2>5. ASSUME NEW j \in Index, b.nextReported <= j, j < b.maxRemote
          PROVE  /\ b.recv[j] \notin {"absent", "stopped"}
                 /\ b.send[j] = IF Bi THEN "open" ELSE "absent"
      BY <2>5, <2>2, <2>f, <2>s DEF AccInv, Shape
    <2>6. Shape(b)
      BY <2>1, <2>2, <2>3, <2>5 DEF AccInv, Shape
    <2>7. AccInv(b)
      BY <2>6, <2>4, <2>2 DEF AccInv, Counted, Filled
    <2> DEFINE c == OnStreamFrame(b, i)
    <2>8. /\ AccInv(c) /\ c.maxRemote = b.maxRemote
          /\ c.sentMaxRemote = b.sentMaxRemote /\ c.pendMax = b.pendMax
          /\ c.adjusted = b.adjusted
          /\ \/ c.nextRemote = b.nextRemote /\ c.opened = b.opened
             \/ c.opened = TRUE
          /\ c.nextReported = b.nextReported
      BY <2>7, <2>2, FrameKeeps
    <2> HIDE DEF c
    <2>9. Received(a, i, how) = c
      BY <2>0 DEF c
    <2> QED
      BY <2>9, <2>8, <2>2, <1>t
  <1> QED
    BY <1>1, <1>2, <1>3, <1>r

\* Streams::accept
LEMMA AcceptKeeps ==
    ASSUME NEW a, AccInv(a), a.nextReported < a.nextRemote
    PROVE  LET b == CountAccepted([a EXCEPT !.nextReported = a.nextReported + 1]) IN
           /\ AccInv(b) /\ b.maxRemote = a.maxRemote
           /\ b.sentMaxRemote = a.sentMaxRemote /\ b.pendMax = a.pendMax
           /\ b.nextRemote = a.nextRemote /\ b.adjusted = a.adjusted
           /\ b.opened = a.opened
  <1> DEFINE k == a.nextReported
             m == IF Bi THEN a.sendStreams + 1 ELSE a.sendStreams
             b == CountAccepted([a EXCEPT !.nextReported = k + 1])
  <1>t. /\ k \in Nat /\ a.nextRemote \in Nat /\ a.maxRemote \in Nat
        /\ a.nextRemote <= a.maxRemote /\ a.sendStreams \in Nat /\ k < a.maxRemote
        /\ a.maxRemote <= MaxStreams + MaxCount
        /\ MaxStreams \in Nat /\ MaxCount \in Nat
    BY MaxCountIsBound, ConstantsAssumption DEF AccInv, Shape, AccType
  <1>i. k \in Index
    BY <1>t DEF Index
  <1>b. b = [a EXCEPT !.nextReported = k + 1, !.sendStreams = m]
    BY DEF CountAccepted, AccInv, Shape, AccType
  <1>m. m \in Nat
    BY <1>t
  <1> HIDE DEF k, m, b
  <1>1. b \in AccType
    <2>1. a \in AccType /\ k + 1 \in Nat
      BY <1>t DEF AccInv, Shape
    <2>2. [a EXCEPT !.nextReported = k + 1] \in AccType
      BY <2>1 DEF AccType
    <2>3. \A c \in AccType : [c EXCEPT !.sendStreams = m] \in AccType
      BY <1>m DEF AccType
    <2>4. b = [[a EXCEPT !.nextReported = k + 1] EXCEPT !.sendStreams = m]
      BY <1>b, <2>1 DEF AccType
    <2> QED
      BY <2>2, <2>3, <2>4
  <1>2. /\ b.recv = a.recv /\ b.send = a.send /\ b.maxRemote = a.maxRemote
        /\ b.allocated = a.allocated /\ b.maxConcurrent = a.maxConcurrent
        /\ b.nextRemote = a.nextRemote /\ b.nextReported = k + 1
        /\ b.sendStreams = m /\ b.sentMaxRemote = a.sentMaxRemote
        /\ b.opened = a.opened /\ b.adjusted = a.adjusted /\ b.pendMax = a.pendMax
    BY <1>b DEF AccInv, Shape, AccType
  <1>3. HeldSet(b) = HeldSet(a)
    BY <1>2 DEF HeldSet, HeldIn
  <1>4. Shape(b)
    <2>1. b.nextReported <= b.nextRemote
      BY <1>2, <1>t DEF k
    <2>2. ASSUME NEW j \in Index, b.nextReported <= j, j < b.maxRemote
          PROVE  /\ b.recv[j] \notin {"absent", "stopped"}
                 /\ b.send[j] = IF Bi THEN "open" ELSE "absent"
      <3>1. a.nextReported <= j
        BY <2>2, <1>2, <1>t DEF k, Index
      <3> QED
        BY <3>1, <2>2, <1>2 DEF AccInv, Shape
    <2> QED
      BY <2>1, <2>2, <1>1, <1>2 DEF AccInv, Shape, HeldIn
  <1>5. a.send[k] = IF Bi THEN "open" ELSE "absent"
    BY <1>i, <1>t DEF AccInv, Shape, k
  <1>6. IsFiniteSet(SendSet(a)) /\ k \notin SendSet(a)
    BY SubsetFinite, <1>t DEF SendSet, k
  <1>7. m = Cardinality(SendSet(b))
    <2>1. CASE Bi
      <3>1. SendSet(b) = SendSet(a) \cup {k}
        BY <2>1, <1>2, <1>5, <1>i, <1>t DEF SendSet, Index, k
      <3>2. Cardinality(SendSet(b)) = Cardinality(SendSet(a)) + 1
        BY <3>1, <1>6, FS_AddElement
      <3> QED
        BY <3>2, <2>1 DEF AccInv, Counted, m
    <2>2. CASE ~Bi
      <3>1. SendSet(b) = SendSet(a)
        BY <2>2, <1>2, <1>5, <1>i, <1>t DEF SendSet, Index, k
      <3> QED
        BY <3>1, <2>2 DEF AccInv, Counted, m
    <2> QED
      BY <2>1, <2>2
  <1>8. AccInv(b)
    BY <1>4, <1>7, <1>3, <1>2 DEF AccInv, Counted, Filled
  <1> QED
    BY <1>8, <1>2 DEF b, k

\* RecvStream::stop of a stream whose end is not known
LEMMA StoppedKeeps ==
    ASSUME NEW a, AccInv(a), NEW i \in Index, i < a.nextReported,
           a.recv[i] = "open"
    PROVE  LET b == [a EXCEPT !.recv[i] = "stopped"] IN
           AccInv(b) /\ SameCursors(a, b) /\ b.maxRemote = a.maxRemote
  <1> DEFINE b == [a EXCEPT !.recv[i] = "stopped"]
  <1>t. a.maxRemote \in Nat /\ a.nextReported \in Nat
    BY DEF AccInv, Shape, AccType
  <1>f. a.recv \in [Index -> {"absent", "open", "stopped", "finished", "reset"}]
    BY DEF AccInv, Shape, AccType
  <1>1. b \in AccType
    BY DEF AccInv, Shape, AccType
  <1>2. /\ b.recv = [a.recv EXCEPT ![i] = "stopped"] /\ b.send = a.send
        /\ b.maxRemote = a.maxRemote /\ b.allocated = a.allocated
        /\ b.sendStreams = a.sendStreams /\ SameCursors(a, b)
    BY <1>t DEF AccInv, Shape, AccType, SameCursors
  <1> HIDE DEF b
  <1>3. \A j \in Index : HeldIn(b, j) <=> HeldIn(a, j)
    BY <1>2, <1>f DEF HeldIn
  <1>4. HeldSet(b) = HeldSet(a) /\ SendSet(b) = SendSet(a)
    BY <1>2, <1>3 DEF HeldSet, SendSet, SameCursors
  <1>5. ASSUME NEW j \in Index, b.nextReported <= j, j < b.maxRemote
        PROVE  /\ b.recv[j] \notin {"absent", "stopped"}
               /\ b.send[j] = IF Bi THEN "open" ELSE "absent"
    <2>1. j # i
      BY <1>5, <1>2, <1>t DEF SameCursors, Index
    <2> QED
      BY <2>1, <1>5, <1>2, <1>f DEF SameCursors, AccInv, Shape
  <1>6. Shape(b)
    BY <1>1, <1>2, <1>3, <1>5 DEF AccInv, Shape, SameCursors
  <1>7. AccInv(b)
    BY <1>6, <1>4, <1>2 DEF AccInv, Counted, Filled, SameCursors
  <1> QED
    BY <1>7, <1>2 DEF b

\* set_max_concurrent_streams up to the queueing of MAX_STREAMS
LEMMA ConcurrencyKeeps ==
    ASSUME NEW a, AccInv(a), NEW count \in Counts
    PROVE  LET b == EnsureRemoteStreams(
                        [a EXCEPT !.maxConcurrent = count, !.adjusted = TRUE]) IN
           /\ AccInv(b) /\ a.maxRemote <= b.maxRemote
           /\ b.sentMaxRemote = a.sentMaxRemote /\ b.pendMax = a.pendMax
           /\ b.nextRemote = a.nextRemote /\ b.nextReported = a.nextReported
           /\ b.opened = a.opened /\ b.adjusted = TRUE
  <1> DEFINE c == [a EXCEPT !.maxConcurrent = count, !.adjusted = TRUE]
             b == EnsureRemoteStreams(c)
  <1>0. count \in Nat /\ count <= MaxCount /\ a \in AccType
    BY ConstantsAssumption, MaxCountIsBound DEF AccInv, Shape
  <1>1. c \in AccType
    <2>1. [a EXCEPT !.maxConcurrent = count] \in AccType
      BY <1>0 DEF AccType
    <2>2. \A d \in AccType : [d EXCEPT !.adjusted = TRUE] \in AccType
      BY DEF AccType
    <2>3. c = [[a EXCEPT !.maxConcurrent = count] EXCEPT !.adjusted = TRUE]
      BY <1>0 DEF AccType
    <2> QED
      BY <2>1, <2>2, <2>3
  <1>2. /\ c.recv = a.recv /\ c.send = a.send /\ c.maxRemote = a.maxRemote
        /\ c.allocated = a.allocated /\ c.maxConcurrent = count
        /\ c.nextRemote = a.nextRemote /\ c.nextReported = a.nextReported
        /\ c.sendStreams = a.sendStreams /\ c.sentMaxRemote = a.sentMaxRemote
        /\ c.opened = a.opened /\ c.adjusted = TRUE /\ c.pendMax = a.pendMax
    BY <1>0 DEF AccType
  <1> HIDE DEF c
  <1>3. HeldSet(c) = HeldSet(a) /\ SendSet(c) = SendSet(a)
    BY <1>2 DEF HeldSet, HeldIn, SendSet
  <1>4. Shape(c)
    BY <1>0, <1>1, <1>2 DEF AccInv, Shape, HeldIn
  <1>5. Counted(c)
    BY <1>2, <1>3 DEF AccInv, Counted
  <1>6. AccInv(b) /\ SameCursors(c, b)
    BY <1>4, <1>5, EnsureKeeps
  <1> HIDE DEF b
  <1>7. /\ AccInv(b) /\ a.maxRemote <= b.maxRemote
        /\ b.sentMaxRemote = a.sentMaxRemote /\ b.pendMax = a.pendMax
        /\ b.nextRemote = a.nextRemote /\ b.nextReported = a.nextReported
        /\ b.opened = a.opened /\ b.adjusted = TRUE
    BY <1>6, <1>2 DEF SameCursors
  <1> QED
    BY <1>7 DEF b, c

\* The acceptor starts with a full window.
LEMMA InitialKeeps == AccInv(InitialAcceptor)
  <1> DEFINE a == InitialAcceptor
  <1>t. /\ Initial \in Nat /\ MaxCount \in Nat /\ MaxStreams \in Nat
        /\ Initial <= MaxCount
    BY ConstantsAssumption, MaxCountIsBound
  <1>1. a \in AccType
    BY <1>t DEF InitialAcceptor, AccType
  <1>2. /\ a.recv = [i \in Index |-> IF i < Initial THEN "open" ELSE "absent"]
        /\ a.send = [i \in Index |->
                       IF i < Initial /\ HasSend(i) THEN "open" ELSE "absent"]
        /\ a.maxRemote = Initial /\ a.sentMaxRemote = Initial
        /\ a.allocated = Initial /\ a.maxConcurrent = Initial
        /\ a.nextRemote = 0 /\ a.nextReported = 0 /\ a.sendStreams = 0
    BY DEF InitialAcceptor
  <1> HIDE DEF a
  <1>3. Shape(a)
    BY <1>1, <1>2, <1>t DEF Shape, HeldIn, HasSend
  <1>4. HeldSet(a) = 0 .. (0 + Initial - 1)
    BY <1>2, <1>t DEF HeldSet, HeldIn, Index
  <1>5. SendSet(a) = {}
    BY <1>2 DEF SendSet, Index
  <1>6. Cardinality(HeldSet(a)) = Initial /\ Cardinality(SendSet(a)) = 0
    BY <1>4, <1>5, <1>t, IntervalCount, FS_EmptySet
  <1> QED
    BY <1>3, <1>6, <1>2, <1>t DEF AccInv, Counted, Filled, a

-----------------------------------------------------------------------------
(* The inductive invariant                                                 *)

StateTypes ==
    /\ next \in 0..MaxStreams /\ max \in Nat /\ flightMax \in SUBSET Nat
    /\ zeroRtt \in {HandshakeDone} \cup
           [client : {"opener", "acceptor"}, fate : {"accepted", "rejected"}]

Early == zeroRtt.client = "opener"

\* The limit from which the opener goes on when it reads MAX_STREAMS
Basis == IF Early THEN Initial ELSE max

\* The opener's limit is one that the acceptor has given, except for one that it
\* remembered and that will be rejected; until then the acceptor reads nothing.
Limits ==
    /\ next <= max
    /\ zeroRtt.fate # "rejected" => max <= acc.maxRemote
    /\ Early /\ zeroRtt.fate = "accepted" => max <= Initial
    /\ ~Early => Initial <= max /\ max <= acc.maxRemote
    /\ \A m \in flightMax : m <= acc.maxRemote
    /\ zeroRtt.fate = "rejected" => acc.nextRemote = 0

\* Without a change of the configuration, the limit of an acceptor that will be
\* rejected is the initial one.
Unadjusted ==
    zeroRtt.client = "acceptor" /\ zeroRtt.fate = "rejected" =>
        acc.adjusted = TRUE \/ acc.maxRemote = Initial

\* A limit above the opener's is on its way.
Announced ==
    \/ acc.sentMaxRemote <= Basis
    \/ acc.pendMax = TRUE
    \/ acc.sentMaxRemote \in flightMax

LInv ==
    /\ StateTypes /\ AccInv(acc) /\ Limits /\ Unadjusted /\ Announced
    /\ error = "none" /\ Told(acc, acceptor)

\* What the opener's own calls do
OpenerStep ==
    /\ UNCHANGED <<max, acc, flightMax, zeroRtt, error, acceptor>>
    /\ next' \in 0..MaxStreams /\ next' <= max

\* What a step of the acceptor does that announces nothing and forgets nothing
QuietStep ==
    /\ UNCHANGED <<next, max, flightMax, zeroRtt, error>>
    /\ AccInv(acc') /\ acc.maxRemote <= acc'.maxRemote
    /\ acc'.sentMaxRemote = acc.sentMaxRemote
    /\ acc.pendMax = TRUE => acc'.pendMax = TRUE
    /\ Told(acc', acceptor')
    /\ zeroRtt.fate = "rejected" =>
         /\ acc'.nextRemote = 0
         /\ \/ acc'.adjusted = TRUE
            \/ acc'.maxRemote = acc.maxRemote /\ acc'.adjusted = acc.adjusted

\* What the arithmetic of the steps needs of the acceptor
LEMMA AccTypes ==
    ASSUME AccInv(acc)
    PROVE  /\ acc.maxRemote \in Nat /\ acc.sentMaxRemote \in Nat
           /\ acc.nextRemote \in Nat /\ acc.nextReported \in Nat
           /\ acc.pendMax \in BOOLEAN /\ acc.adjusted \in BOOLEAN
           /\ acc.opened \in BOOLEAN /\ acc.sentMaxRemote <= acc.maxRemote
           /\ acc.nextReported <= acc.nextRemote /\ Initial <= acc.maxRemote
           /\ Initial \in Nat
  BY ConstantsAssumption DEF AccInv, Shape, AccType

\* A call of the opener within its limit preserves the invariant.
LEMMA OpenerStepKeeps ==
    ASSUME LInv, OpenerStep
    PROVE  LInv'
  <1>1. StateTypes' /\ AccInv(acc)' /\ Unadjusted' /\ Announced'
    BY DEF LInv, OpenerStep, StateTypes, Unadjusted, Announced, Basis, Early
  <1>2. Limits'
    BY DEF LInv, OpenerStep, Limits, Early
  <1>3. (error = "none")' /\ Told(acc, acceptor)'
    BY DEF LInv, OpenerStep
  <1> QED
    BY <1>1, <1>2, <1>3 DEF LInv

\* So does a step of the acceptor that announces and forgets nothing.
LEMMA QuietStepKeeps ==
    ASSUME LInv, QuietStep
    PROVE  LInv'
  <1>t. /\ acc.maxRemote \in Nat /\ acc.sentMaxRemote \in Nat
        /\ max \in Nat /\ flightMax \in SUBSET Nat
    BY AccTypes DEF LInv, StateTypes
  <1>u. acc'.maxRemote \in Nat
    BY DEF QuietStep, AccInv, Shape, AccType
  <1>1. StateTypes'
    BY DEF LInv, QuietStep, StateTypes
  <1>2. Limits'
    BY <1>t, <1>u DEF LInv, QuietStep, Limits, Early
  <1>3. Unadjusted'
    BY DEF LInv, QuietStep, Unadjusted
  <1>4. Announced'
    BY DEF LInv, QuietStep, Announced, Basis, Early
  <1>5. AccInv(acc)' /\ (error = "none")' /\ Told(acc, acceptor)'
    BY DEF LInv, QuietStep
  <1> QED
    BY <1>1, <1>2, <1>3, <1>4, <1>5 DEF LInv

-----------------------------------------------------------------------------
(* One lemma per action                                                    *)

\* Streams::open
LEMMA OpenStep == ASSUME LInv, Open PROVE OpenerStep
  <1>1. next \in Nat /\ max \in Nat /\ MaxStreams \in Nat /\ next <= max
        /\ next <= MaxStreams
    BY ConstantsAssumption DEF LInv, StateTypes, Limits
  <1> QED
    BY <1>1 DEF Open, OpenerStep

\* Streams::open, from another task
LEMMA OpenOtherStep == ASSUME LInv, OpenOther PROVE OpenerStep
  <1>1. next \in Nat /\ max \in Nat /\ MaxStreams \in Nat /\ next <= max
        /\ next <= MaxStreams
    BY ConstantsAssumption DEF LInv, StateTypes, Limits
  <1> QED
    BY <1>1 DEF OpenOther, OpenerStep

\* The other steps of the opener
LEMMA SameNextStep ==
    ASSUME LInv,
           UNCHANGED <<next, max, acc, flightMax, zeroRtt, error, acceptor>>
    PROVE  OpenerStep
  BY DEF LInv, StateTypes, Limits, OpenerStep

\* Steps in which the acceptor only queues MAX_STREAMS
LEMMA QueueStep ==
    ASSUME LInv, acc' = QueueMaxStreamId(acc),
           UNCHANGED <<next, max, flightMax, zeroRtt, error, acceptor>>
    PROVE  QuietStep
  <1>1. AccInv(acc) /\ acc.maxRemote \in Nat /\ acc.pendMax \in BOOLEAN
    BY AccTypes DEF LInv
  <1>2. /\ AccInv(acc') /\ acc'.maxRemote = acc.maxRemote
        /\ acc'.sentMaxRemote = acc.sentMaxRemote /\ (acc.pendMax => acc'.pendMax)
        /\ acc'.nextRemote = acc.nextRemote /\ acc'.nextReported = acc.nextReported
        /\ acc'.opened = acc.opened /\ acc'.adjusted = acc.adjusted
    BY <1>1, QueueKeeps
  <1>3. Told(acc', acceptor')
    BY <1>2 DEF LInv, Told
  <1>4. acc'.pendMax \in BOOLEAN
    BY <1>2 DEF AccInv, Shape, AccType
  <1>5. acc.pendMax = TRUE => acc'.pendMax = TRUE
    BY <1>2, <1>4
  <1>6. acc.maxRemote <= acc'.maxRemote
    BY <1>1, <1>2
  <1>7. zeroRtt.fate = "rejected" => acc'.nextRemote = 0
    BY <1>2 DEF LInv, Limits
  <1> QED
    BY <1>2, <1>3, <1>5, <1>6, <1>7 DEF QuietStep

\* Streams::accept
LEMMA AcceptStep == ASSUME LInv, Accept PROVE QuietStep
  <1>1. /\ AccInv(acc) /\ acc.maxRemote \in Nat
        /\ acc.nextReported \in Nat /\ acc.nextRemote \in Nat
    BY AccTypes DEF LInv
  <1>2. CASE acc.nextReported < acc.nextRemote
    <2>1. /\ acc' = CountAccepted([acc EXCEPT !.nextReported = acc.nextReported + 1])
          /\ acceptor' = acceptor /\ ~acceptor
      BY <1>2 DEF Accept
    <2>2. /\ AccInv(acc') /\ acc'.maxRemote = acc.maxRemote
          /\ acc'.sentMaxRemote = acc.sentMaxRemote /\ acc'.pendMax = acc.pendMax
          /\ acc'.nextRemote = acc.nextRemote /\ acc'.adjusted = acc.adjusted
      BY <2>1, <1>1, <1>2, AcceptKeeps
    <2>3. Told(acc', acceptor')
      BY <2>1 DEF Told
    <2>4. acc.maxRemote <= acc'.maxRemote
      BY <2>2, <1>1
    <2>5. zeroRtt.fate = "rejected" => acc'.nextRemote = 0
      BY <2>2 DEF LInv, Limits
    <2> QED
      BY <2>2, <2>3, <2>4, <2>5 DEF QuietStep, Accept
  <1>3. CASE ~(acc.nextReported < acc.nextRemote)
    <2>1. acc' = acc
      BY <1>3 DEF Accept
    <2>2. Told(acc', acceptor')
      BY <1>3, <2>1 DEF Told
    <2>3. zeroRtt.fate = "rejected" => acc'.nextRemote = 0
      BY <2>1 DEF LInv, Limits
    <2> QED
      BY <2>1, <2>2, <2>3, <1>1 DEF QuietStep, Accept
  <1> QED
    BY <1>2, <1>3

\* StreamsState::poll, Opened
LEMMA PollOpenedStep == ASSUME LInv, PollOpened PROVE QuietStep
  <1>1. AccInv(acc) /\ acc.maxRemote \in Nat /\ acc.sentMaxRemote <= acc.maxRemote
    BY AccTypes DEF LInv
  <1>2. acc \in AccType /\ acc' = [acc EXCEPT !.opened = FALSE] /\ acceptor' = FALSE
    BY <1>1 DEF AccInv, Shape, PollOpened
  <1>3. acc' \in AccType
    BY <1>2 DEF AccType
  <1>4. /\ acc'.recv = acc.recv /\ acc'.send = acc.send
        /\ acc'.maxRemote = acc.maxRemote /\ acc'.allocated = acc.allocated
        /\ acc'.maxConcurrent = acc.maxConcurrent
        /\ acc'.nextRemote = acc.nextRemote
        /\ acc'.nextReported = acc.nextReported
        /\ acc'.sendStreams = acc.sendStreams
        /\ acc'.sentMaxRemote = acc.sentMaxRemote
        /\ acc'.adjusted = acc.adjusted /\ acc'.pendMax = acc.pendMax
    BY <1>2 DEF AccType
  <1>5. AccInv(acc')
    BY <1>1, <1>3, <1>4, FlagsKeep
  <1>6. Told(acc', acceptor')
    BY <1>2 DEF Told
  <1>7. zeroRtt.fate = "rejected" => acc'.nextRemote = 0
    BY <1>4 DEF LInv, Limits
  <1>8. acc.maxRemote <= acc'.maxRemote
    BY <1>1, <1>4
  <1> QED
    BY <1>4, <1>5, <1>6, <1>7, <1>8 DEF QuietStep, PollOpened

\* An honest opener's stream is within the limit.
LEMMA ReceiveStep ==
    ASSUME LInv, NEW i \in Streams, NEW how \in Ends \cup {"open"},
           ReceiveStream(i, how)
    PROVE  QuietStep
  <1>1. /\ AccInv(acc) /\ acc.maxRemote \in Nat /\ acc.pendMax \in BOOLEAN
        /\ next \in Nat /\ max \in Nat /\ i \in Nat
    BY AccTypes DEF LInv, StateTypes, Streams
  <1>2. zeroRtt.fate # "rejected"
    BY DEF ReceiveStream, Reads
  <1>3. i < acc.maxRemote
    BY <1>1, <1>2 DEF LInv, Limits, ReceiveStream
  <1> DEFINE b == Received(acc, i, how)
  <1>4. acc' = QueueMaxStreamId(b)
    BY <1>3, <1>1 DEF ReceiveStream
  <1>5. /\ AccInv(b) /\ acc.maxRemote <= b.maxRemote
        /\ b.sentMaxRemote = acc.sentMaxRemote /\ b.pendMax = acc.pendMax
        /\ \/ b.nextRemote = acc.nextRemote /\ b.opened = acc.opened
           \/ b.opened = TRUE
        /\ b.nextReported = acc.nextReported
    BY <1>1, <1>3, ReceivedKeeps
  <1> HIDE DEF b
  <1>6. /\ AccInv(acc') /\ acc'.maxRemote = b.maxRemote
        /\ acc'.sentMaxRemote = b.sentMaxRemote /\ (b.pendMax => acc'.pendMax)
        /\ acc'.nextRemote = b.nextRemote /\ acc'.nextReported = b.nextReported
        /\ acc'.opened = b.opened
    BY <1>4, <1>5, QueueKeeps
  <1>7. acceptor' = acceptor /\ UNCHANGED <<next, max, flightMax, zeroRtt>>
        /\ error' = error
    BY <1>3, <1>1 DEF ReceiveStream
  <1>8. Told(acc', acceptor')
    BY <1>5, <1>6, <1>7 DEF LInv, Told
  <1>9. acc'.pendMax \in BOOLEAN
    BY <1>6 DEF AccInv, Shape, AccType
  <1>10. acc.pendMax = TRUE => acc'.pendMax = TRUE
    BY <1>5, <1>6, <1>9
  <1> QED
    BY <1>2, <1>5, <1>6, <1>7, <1>8, <1>10 DEF QuietStep

\* Nothing was accepted, and so nothing is freed, before a rejection.
LEMMA NotRejected ==
    ASSUME LInv, NEW i \in Streams, i < acc.nextReported
    PROVE  zeroRtt.fate # "rejected"
  BY AccTypes DEF LInv, Limits, Streams

\* Steps that free a half of an accepted stream, or mark it
LEMMA FreeStep ==
    ASSUME LInv, NEW i \in Streams, i < acc.nextReported,
           NEW b, AccInv(b), SameCursors(acc, b),
           acc' = b \/ acc' = QueueMaxStreamId(b),
           UNCHANGED <<next, max, flightMax, zeroRtt, error, acceptor>>
    PROVE  QuietStep
  <1>1. /\ AccInv(acc') /\ acc'.maxRemote = b.maxRemote
        /\ acc'.sentMaxRemote = b.sentMaxRemote
        /\ acc'.nextRemote = b.nextRemote /\ acc'.nextReported = b.nextReported
        /\ acc'.opened = b.opened
    BY QueueKeeps
  <1>2. b.pendMax => acc'.pendMax
    BY QueueKeeps
  <1>3. Told(acc', acceptor')
    BY <1>1 DEF LInv, Told, SameCursors
  <1>4. acc'.pendMax \in BOOLEAN
    BY <1>1 DEF AccInv, Shape, AccType
  <1>5. acc.pendMax = TRUE => acc'.pendMax = TRUE
    BY <1>2, <1>4 DEF SameCursors
  <1>6. zeroRtt.fate # "rejected"
    BY NotRejected
  <1> QED
    BY <1>1, <1>3, <1>5, <1>6 DEF QuietStep, SameCursors

\* Chunks::finalize and RecvStream::received_reset
LEMMA ReadEndStep == ASSUME LInv, NEW i \in Streams, ReadEnd(i) PROVE QuietStep
  <1>1. /\ AccInv(acc) /\ i \in Index /\ i < acc.nextReported
        /\ acc.recv[i] # "absent"
    BY StreamsIndexed DEF LInv, ReadEnd
  <1>2. AccInv(RecvFreed(acc, i)) /\ SameCursors(acc, RecvFreed(acc, i))
    BY <1>1, RecvFreedKeeps
  <1>3. /\ acc' = QueueMaxStreamId(RecvFreed(acc, i))
        /\ UNCHANGED <<next, max, flightMax, zeroRtt, error, acceptor>>
    BY DEF ReadEnd, Finalize
  <1> QED
    BY <1>1, <1>2, <1>3, FreeStep

\* RecvStream::stop
LEMMA StopStep == ASSUME LInv, NEW i \in Streams, Stop(i) PROVE QuietStep
  <1>1. /\ AccInv(acc) /\ i \in Index /\ i < acc.nextReported
        /\ acc.recv[i] # "absent"
        /\ UNCHANGED <<next, max, flightMax, zeroRtt, error, acceptor>>
    BY StreamsIndexed DEF LInv, Stop
  <1>2. CASE acc.recv[i] = "open"
    <2> DEFINE b == [acc EXCEPT !.recv[i] = "stopped"]
    <2>1. AccInv(b) /\ SameCursors(acc, b)
      BY <1>1, <1>2, StoppedKeeps
    <2>2. acc' = b
      BY <1>2 DEF Stop
    <2> HIDE DEF b
    <2> QED
      BY <1>1, <2>1, <2>2, FreeStep
  <1>3. CASE acc.recv[i] # "open"
    <2>1. AccInv(RecvFreed(acc, i)) /\ SameCursors(acc, RecvFreed(acc, i))
      BY <1>1, RecvFreedKeeps
    <2>2. acc' = RecvFreed(acc, i)
      BY <1>3 DEF Stop
    <2> QED
      BY <1>1, <2>1, <2>2, FreeStep
  <1> QED
    BY <1>2, <1>3

\* received_ack_of and reset_acked
LEMMA EndSendStep == ASSUME LInv, NEW i \in Streams, EndSend(i) PROVE QuietStep
  <1>1. /\ AccInv(acc) /\ i \in Index /\ i < acc.nextReported
        /\ acc.send[i] # "absent"
    BY StreamsIndexed DEF LInv, EndSend
  <1>2. AccInv(SendFreed(acc, i)) /\ SameCursors(acc, SendFreed(acc, i))
    BY <1>1, SendFreedKeeps
  <1>3. /\ acc' = QueueMaxStreamId(SendFreed(acc, i))
        /\ UNCHANGED <<next, max, flightMax, zeroRtt, error, acceptor>>
    BY DEF EndSend
  <1> QED
    BY <1>1, <1>2, <1>3, FreeStep

\* Connection::set_max_concurrent_streams
LEMMA ConcurrencyStep ==
    ASSUME LInv, NEW count \in Counts, SetMaxConcurrentStreams(count)
    PROVE  QuietStep
  <1> DEFINE b == EnsureRemoteStreams(
                    [acc EXCEPT !.maxConcurrent = count, !.adjusted = TRUE])
  <1>1. AccInv(acc) /\ acc.pendMax \in BOOLEAN
    BY AccTypes DEF LInv
  <1>2. /\ AccInv(b) /\ acc.maxRemote <= b.maxRemote
        /\ b.sentMaxRemote = acc.sentMaxRemote /\ b.pendMax = acc.pendMax
        /\ b.nextRemote = acc.nextRemote /\ b.nextReported = acc.nextReported
        /\ b.opened = acc.opened /\ b.adjusted = TRUE
    BY <1>1, ConcurrencyKeeps
  <1>3. /\ acc' = QueueMaxStreamId(b)
        /\ UNCHANGED <<next, max, flightMax, zeroRtt, error, acceptor>>
    BY DEF SetMaxConcurrentStreams
  <1> HIDE DEF b
  <1>4. /\ AccInv(acc') /\ acc'.maxRemote = b.maxRemote
        /\ acc'.sentMaxRemote = b.sentMaxRemote /\ (b.pendMax => acc'.pendMax)
        /\ acc'.nextRemote = b.nextRemote /\ acc'.nextReported = b.nextReported
        /\ acc'.opened = b.opened /\ acc'.adjusted = b.adjusted
    BY <1>3, <1>2, QueueKeeps
  <1>5. Told(acc', acceptor')
    BY <1>2, <1>3, <1>4 DEF LInv, Told
  <1>6. acc'.pendMax \in BOOLEAN
    BY <1>4 DEF AccInv, Shape, AccType
  <1>7. acc.pendMax = TRUE => acc'.pendMax = TRUE
    BY <1>2, <1>4, <1>6
  <1>8. zeroRtt.fate = "rejected" => acc'.nextRemote = 0
    BY <1>2, <1>4 DEF LInv, Limits
  <1>9. /\ AccInv(acc') /\ acc.maxRemote <= acc'.maxRemote
        /\ acc'.sentMaxRemote = acc.sentMaxRemote /\ acc'.adjusted = TRUE
    BY <1>2, <1>4
  <1> QED
    BY <1>3, <1>5, <1>7, <1>8, <1>9 DEF QuietStep

\* Steps that change the flags, the announced limit and what is in flight
LEMMA FlagStep ==
    ASSUME LInv, acc' \in AccType,
           acc'.recv = acc.recv, acc'.send = acc.send,
           acc'.maxRemote = acc.maxRemote, acc'.allocated = acc.allocated,
           acc'.maxConcurrent = acc.maxConcurrent,
           acc'.nextRemote = acc.nextRemote,
           acc'.nextReported = acc.nextReported,
           acc'.sendStreams = acc.sendStreams, acc'.adjusted = acc.adjusted,
           acc'.opened = acc.opened, acc'.sentMaxRemote <= acc.maxRemote,
           acceptor' = acceptor, error' = error
    PROVE  /\ AccInv(acc') /\ error' = "none" /\ Told(acc', acceptor')
  <1>1. AccInv(acc')
    BY FlagsKeep DEF LInv
  <1> QED
    BY <1>1 DEF LInv, Told

\* A limit that is sent is in flight.
LEMMA SendMaxKeeps == ASSUME LInv, SendMax PROVE LInv'
  <1>t. /\ acc \in AccType /\ acc.maxRemote \in Nat /\ flightMax \in SUBSET Nat
    BY AccTypes DEF LInv, AccInv, Shape, StateTypes
  <1>1. /\ acc' = [acc EXCEPT !.pendMax = FALSE, !.sentMaxRemote = acc.maxRemote]
        /\ flightMax' = flightMax \cup {acc.maxRemote}
        /\ UNCHANGED <<next, max, acceptor, zeroRtt, error>>
    BY DEF SendMax
  <1>2. acc' \in AccType
    <2>1. [acc EXCEPT !.pendMax = FALSE] \in AccType
      BY <1>t DEF AccType
    <2>2. \A c \in AccType : [c EXCEPT !.sentMaxRemote = acc.maxRemote] \in AccType
      BY <1>t DEF AccType
    <2>3. acc' = [[acc EXCEPT !.pendMax = FALSE] EXCEPT
                    !.sentMaxRemote = acc.maxRemote]
      BY <1>1, <1>t DEF AccType
    <2> QED
      BY <2>1, <2>2, <2>3
  <1>3. /\ acc'.recv = acc.recv /\ acc'.send = acc.send
        /\ acc'.maxRemote = acc.maxRemote /\ acc'.allocated = acc.allocated
        /\ acc'.maxConcurrent = acc.maxConcurrent
        /\ acc'.nextRemote = acc.nextRemote
        /\ acc'.nextReported = acc.nextReported
        /\ acc'.sendStreams = acc.sendStreams /\ acc'.adjusted = acc.adjusted
        /\ acc'.opened = acc.opened /\ acc'.sentMaxRemote = acc.maxRemote
    BY <1>1, <1>t DEF AccType
  <1>4. AccInv(acc') /\ error' = "none" /\ Told(acc', acceptor')
    BY <1>1, <1>2, <1>3, <1>t, FlagStep
  <1>5. StateTypes'
    BY <1>1, <1>t DEF LInv, StateTypes
  <1>6. Limits'
    BY <1>1, <1>3, <1>t DEF LInv, Limits, Early
  <1>7. Unadjusted' /\ Announced'
    BY <1>1, <1>3 DEF LInv, Unadjusted, Announced
  <1> QED
    BY <1>4, <1>5, <1>6, <1>7 DEF LInv

\* A limit arrives, whatever becomes of the packet that carried it.
LEMMA ArrivalKeeps ==
    ASSUME LInv, NEW count \in flightMax,
           \/ ReceivedMaxStreams(count) /\ Reads("opener")
           \/ UNCHANGED max /\ acc'.pendMax = TRUE,
           flightMax' = flightMax \ {count},
           AccInv(acc'), acc'.maxRemote = acc.maxRemote,
           acc'.sentMaxRemote = acc.sentMaxRemote,
           acc.pendMax = TRUE => acc'.pendMax = TRUE,
           acc'.nextRemote = acc.nextRemote, acc'.adjusted = acc.adjusted,
           acc'.nextReported = acc.nextReported, acc'.opened = acc.opened,
           UNCHANGED <<next, zeroRtt, error, acceptor>>
    PROVE  LInv'
  <1>t. /\ acc.maxRemote \in Nat /\ acc.sentMaxRemote \in Nat
        /\ max \in Nat /\ flightMax \in SUBSET Nat /\ count \in Nat
        /\ next \in Nat /\ Initial \in Nat
    BY AccTypes DEF LInv, StateTypes
  <1>1. \/ max' = max /\ acc'.pendMax = TRUE
        \/ Reads("opener") /\ max' = count /\ max < count
        \/ Reads("opener") /\ max' = max /\ count <= max
    BY <1>t DEF ReceivedMaxStreams
  <1>2. max' \in Nat /\ max <= max'
    BY <1>1, <1>t
  <1>3. Reads("opener") => zeroRtt.fate # "rejected" /\ ~Early
    BY DEF LInv, StateTypes, Reads, Early, HandshakeDone
  <1>4. StateTypes'
    BY <1>2 DEF LInv, StateTypes
  <1>5. Limits'
    <2>1. count <= acc.maxRemote
      BY DEF LInv, Limits
    <2>2. Early => max' = max
      BY <1>1, <1>3
    <2>3. max <= acc.maxRemote => max' <= acc.maxRemote
      BY <1>1, <2>1, <1>t
    <2>4. (next <= max)'
      BY <1>2, <1>t DEF LInv, Limits
    <2>5. (Early /\ zeroRtt.fate = "accepted" => max <= Initial)'
      BY <2>2 DEF LInv, Limits, Early
    <2>6. (~Early => Initial <= max /\ max <= acc.maxRemote)'
      BY <2>3, <1>2, <1>t DEF LInv, Limits, Early
    <2>7. (zeroRtt.fate # "rejected" => max <= acc.maxRemote)'
      BY <2>3 DEF LInv, Limits
    <2>8. (\A m \in flightMax : m <= acc.maxRemote)'
      BY DEF LInv, Limits
    <2>9. (zeroRtt.fate = "rejected" => acc.nextRemote = 0)'
      BY DEF LInv, Limits
    <2> QED
      BY <2>4, <2>5, <2>6, <2>7, <2>8, <2>9 DEF Limits
  <1>6. Announced'
    <2>1. CASE acc'.pendMax = TRUE
      BY <2>1 DEF Announced
    <2>2. CASE acc'.pendMax # TRUE
      <3>0. acc.pendMax # TRUE /\ Reads("opener")
        BY <2>2, <1>1
      <3>9. max' = count \/ (max' = max /\ count <= max)
        BY <2>2, <1>1
      <3>8. count <= max'
        BY <3>9, <1>t
      <3>1. Reads("opener") /\ count <= max' /\ acc.pendMax # TRUE
        BY <3>0, <3>8
      <3>2. Basis = max /\ Basis' = max'
        BY <3>1, <1>3 DEF Basis, Early
      <3>3. CASE acc.sentMaxRemote <= max
        BY <3>3, <3>2, <1>2, <1>t DEF Announced
      <3>4. CASE acc.sentMaxRemote = count
        BY <3>4, <3>1, <3>2 DEF Announced
      <3>5. CASE acc.sentMaxRemote \in flightMax \ {count}
        BY <3>5 DEF Announced
      <3> QED
        BY <3>1, <3>2, <3>3, <3>4, <3>5 DEF LInv, Announced
    <2> QED
      BY <2>1, <2>2
  <1>7. Unadjusted' /\ Told(acc, acceptor)' /\ (error = "none")'
    BY DEF LInv, Unadjusted, Told
  <1> QED
    BY <1>4, <1>5, <1>6, <1>7 DEF LInv

\* received_max_streams, and the acknowledgement
LEMMA MaxArrivesKeeps ==
    ASSUME LInv, NEW count \in flightMax, MaxArrives(count)
    PROVE  LInv'
  <1>1. AccInv(acc) /\ acc.pendMax \in BOOLEAN
    BY AccTypes DEF LInv
  <1>2. acc' = QueueMaxStreamId(acc)
    BY DEF MaxArrives
  <1>3. /\ AccInv(acc') /\ acc'.maxRemote = acc.maxRemote
        /\ acc'.sentMaxRemote = acc.sentMaxRemote /\ (acc.pendMax => acc'.pendMax)
        /\ acc'.nextRemote = acc.nextRemote /\ acc'.nextReported = acc.nextReported
        /\ acc'.opened = acc.opened /\ acc'.adjusted = acc.adjusted
    BY <1>1, <1>2, QueueKeeps
  <1>4. acc'.pendMax \in BOOLEAN
    BY <1>3 DEF AccInv, Shape, AccType
  <1>5. acc.pendMax = TRUE => acc'.pendMax = TRUE
    BY <1>3, <1>4
  <1>6. /\ Reads("opener") /\ ReceivedMaxStreams(count)
        /\ flightMax' = flightMax \ {count}
        /\ UNCHANGED <<next, zeroRtt, error, acceptor>>
    BY DEF MaxArrives
  <1>7. /\ AccInv(acc') /\ acc'.maxRemote = acc.maxRemote
        /\ acc'.sentMaxRemote = acc.sentMaxRemote
        /\ acc'.nextRemote = acc.nextRemote /\ acc'.nextReported = acc.nextReported
        /\ acc'.opened = acc.opened /\ acc'.adjusted = acc.adjusted
    BY <1>3
  <1> QED
    BY <1>5, <1>6, <1>7, ArrivalKeeps

\* A MAX_STREAMS frame declared lost is pending again.
LEMMA LoseMaxKeeps ==
    ASSUME LInv, NEW count \in flightMax, NEW arrived \in BOOLEAN,
           LoseMax(count, arrived)
    PROVE  LInv'
  <1>1. AccInv(acc) /\ acc \in AccType /\ acc.sentMaxRemote <= acc.maxRemote
    BY AccTypes DEF LInv, AccInv, Shape
  <1>2. acc' = [acc EXCEPT !.pendMax = TRUE]
    BY DEF LoseMax
  <1>3. acc' \in AccType
    BY <1>1, <1>2 DEF AccType
  <1>4. /\ acc'.recv = acc.recv /\ acc'.send = acc.send
        /\ acc'.maxRemote = acc.maxRemote /\ acc'.allocated = acc.allocated
        /\ acc'.maxConcurrent = acc.maxConcurrent
        /\ acc'.nextRemote = acc.nextRemote
        /\ acc'.nextReported = acc.nextReported
        /\ acc'.sendStreams = acc.sendStreams /\ acc'.adjusted = acc.adjusted
        /\ acc'.opened = acc.opened /\ acc'.sentMaxRemote = acc.sentMaxRemote
        /\ acc'.pendMax = TRUE
    BY <1>1, <1>2 DEF AccType
  <1>5. AccInv(acc')
    BY <1>1, <1>3, <1>4, FlagsKeep
  <1>6. /\ \/ ReceivedMaxStreams(count) /\ Reads("opener")
           \/ UNCHANGED max /\ acc'.pendMax = TRUE
        /\ flightMax' = flightMax \ {count}
        /\ UNCHANGED <<next, zeroRtt, error, acceptor>>
    BY <1>4 DEF LoseMax
  <1> QED
    BY <1>4, <1>5, <1>6, ArrivalKeeps

\* After its handshake the opener counts from the limit of the parameters.
LEMMA HandshakeOpenerKeeps == ASSUME LInv, HandshakeOpener PROVE LInv'
  <1>t. /\ acc.maxRemote \in Nat /\ acc.sentMaxRemote \in Nat /\ max \in Nat
        /\ next \in Nat /\ Initial \in Nat /\ MaxStreams \in Nat
        /\ Initial <= acc.maxRemote
    BY AccTypes, ConstantsAssumption DEF LInv, StateTypes
  <1>1. /\ Early /\ max' = Initial /\ zeroRtt' = HandshakeDone
        /\ UNCHANGED <<acc, flightMax, acceptor, error>>
    BY DEF HandshakeOpener, LimitOfParams, Early
  <1>2. next' \in 0..MaxStreams /\ next' <= Initial
    <2>1. CASE zeroRtt.fate = "rejected"
      BY <2>1, <1>t DEF HandshakeOpener
    <2>2. CASE zeroRtt.fate # "rejected"
      <3>1. next' = next /\ zeroRtt.fate = "accepted"
        BY <2>2, <1>1 DEF HandshakeOpener, LInv, StateTypes, Early, HandshakeDone
      <3> QED
        BY <3>1, <1>1, <1>t DEF LInv, StateTypes, Limits
    <2> QED
      BY <2>1, <2>2
  <1>3. /\ zeroRtt'.client = "none" /\ zeroRtt'.fate = "done" /\ ~Early'
    BY <1>1 DEF HandshakeDone, Early
  <1>4. StateTypes'
    BY <1>1, <1>2, <1>t DEF LInv, StateTypes
  <1>5. Limits'
    BY <1>1, <1>2, <1>3, <1>t DEF LInv, Limits
  <1>6. Announced'
    BY <1>1, <1>3 DEF LInv, Announced, Basis
  <1>7. Unadjusted' /\ AccInv(acc)' /\ Told(acc, acceptor)' /\ (error = "none")'
    BY <1>1, <1>3 DEF LInv, Unadjusted
  <1> QED
    BY <1>4, <1>5, <1>6, <1>7 DEF LInv

\* A rejected acceptor counts as sent only what the opener knows.
LEMMA HandshakeAcceptorKeeps == ASSUME LInv, HandshakeAcceptor PROVE LInv'
  <1>t. /\ acc \in AccType /\ acc.maxRemote \in Nat /\ acc.sentMaxRemote \in Nat
        /\ max \in Nat /\ next \in Nat /\ Initial \in Nat /\ MaxStreams \in Nat
        /\ acc.sentMaxRemote <= acc.maxRemote /\ acc.adjusted \in BOOLEAN
        /\ flightMax \in SUBSET Nat
    BY AccTypes, ConstantsAssumption DEF LInv, StateTypes, AccInv, Shape
  <1>1. /\ zeroRtt.client = "acceptor" /\ ~Early /\ zeroRtt' = HandshakeDone
        /\ UNCHANGED <<next, max, acceptor, error>>
    BY DEF HandshakeAcceptor, Early
  <1>2. /\ zeroRtt'.client = "none" /\ zeroRtt'.fate = "done" /\ ~Early'
    BY <1>1 DEF HandshakeDone, Early
  <1>3. CASE zeroRtt.fate # "rejected"
    <2>1. acc' = acc /\ flightMax' = flightMax
      BY <1>3 DEF HandshakeAcceptor
    <2>2. StateTypes' /\ AccInv(acc)' /\ Told(acc, acceptor)' /\ (error = "none")'
      BY <2>1, <1>1 DEF LInv, StateTypes
    <2>3. Limits'
      BY <2>1, <1>1, <1>2 DEF LInv, Limits
    <2>4. Announced'
      BY <2>1, <1>1, <1>2 DEF LInv, Announced, Basis
    <2>5. Unadjusted'
      BY <1>2 DEF Unadjusted
    <2> QED
      BY <2>2, <2>3, <2>4, <2>5 DEF LInv
  <1>4. CASE zeroRtt.fate = "rejected"
    <2> DEFINE m == IF acc.adjusted THEN 0 ELSE acc.sentMaxRemote
    <2>1. acc' = [acc EXCEPT !.pendMax = FALSE, !.sentMaxRemote = m]
          /\ flightMax' = {}
      BY <1>4, <1>t DEF HandshakeAcceptor, Rejected, AccType
    <2>2. m \in Nat /\ m <= acc.maxRemote
      BY <1>t
    <2>m. m <= max
      <3>1. Initial <= max
        BY <1>1 DEF LInv, Limits
      <3>2. CASE acc.adjusted = TRUE
        BY <3>2, <1>t
      <3>3. CASE acc.adjusted = FALSE
        <4>1. acc.maxRemote = Initial
          BY <3>3, <1>1, <1>4 DEF LInv, Unadjusted
        <4> QED
          BY <4>1, <3>1, <2>2, <1>t
      <3> QED
        BY <3>2, <3>3, <1>t
    <2> HIDE DEF m
    <2>3. acc' \in AccType
      <3>1. [acc EXCEPT !.pendMax = FALSE] \in AccType
        BY <1>t DEF AccType
      <3>2. \A c \in AccType : [c EXCEPT !.sentMaxRemote = m] \in AccType
        BY <2>2 DEF AccType
      <3>3. acc' = [[acc EXCEPT !.pendMax = FALSE] EXCEPT !.sentMaxRemote = m]
        BY <2>1, <1>t DEF AccType
      <3> QED
        BY <3>1, <3>2, <3>3
    <2>4. /\ acc'.recv = acc.recv /\ acc'.send = acc.send
          /\ acc'.maxRemote = acc.maxRemote /\ acc'.allocated = acc.allocated
          /\ acc'.maxConcurrent = acc.maxConcurrent
          /\ acc'.nextRemote = acc.nextRemote
          /\ acc'.nextReported = acc.nextReported
          /\ acc'.sendStreams = acc.sendStreams /\ acc'.adjusted = acc.adjusted
          /\ acc'.opened = acc.opened /\ acc'.sentMaxRemote = m
      BY <2>1, <1>t DEF AccType
    <2>5. AccInv(acc') /\ error' = "none" /\ Told(acc', acceptor')
      BY <2>2, <2>3, <2>4, <1>1, FlagStep
    <2>6. StateTypes'
      BY <2>1, <1>1 DEF LInv, StateTypes
    <2>7. Limits'
      BY <2>1, <2>4, <1>1, <1>2, <1>t DEF LInv, Limits
    <2>8. Announced'
      BY <2>4, <2>m, <1>1, <1>2 DEF Announced, Basis
    <2>9. Unadjusted'
      BY <1>2 DEF Unadjusted
    <2> QED
      BY <2>5, <2>6, <2>7, <2>8, <2>9 DEF LInv
  <1> QED
    BY <1>3, <1>4

\* The invariant holds at first.
LEMMA InitEstablishes == ASSUME Init PROVE LInv
  <1>t. Initial \in Nat /\ MaxStreams \in Nat /\ Remembered \subseteq Nat
    BY ConstantsAssumption
  <1>1. acc = InitialAcceptor /\ AccInv(acc)
    BY InitialKeeps DEF Init
  <1>2. /\ acc.maxRemote = Initial /\ acc.sentMaxRemote = Initial
        /\ acc.nextRemote = 0 /\ acc.nextReported = 0
    BY <1>1 DEF InitialAcceptor
  <1>3. max \in Nat /\ next = 0 /\ flightMax = {} /\ error = "none"
    BY <1>t DEF Init
  <1>4. /\ zeroRtt \in {HandshakeDone} \cup
             [client : {"opener", "acceptor"}, fate : {"accepted", "rejected"}]
        /\ ~Early => max = Initial
        /\ Early /\ zeroRtt.fate = "accepted" => max <= Initial
    BY DEF Init, Early
  <1>5. zeroRtt.fate # "rejected" => max <= Initial
    BY <1>4, <1>t DEF HandshakeDone, Early
  <1>6. StateTypes
    BY <1>3, <1>4, <1>t DEF StateTypes
  <1>7. Limits
    BY <1>2, <1>3, <1>4, <1>5, <1>t DEF Limits
  <1>8. Unadjusted /\ Announced
    BY <1>2, <1>4, <1>t DEF Unadjusted, Announced, Basis
  <1>9. Told(acc, acceptor)
    BY <1>2 DEF Told
  <1> QED
    BY <1>1, <1>3, <1>6, <1>7, <1>8, <1>9 DEF LInv

\* Every step preserves it.
LEMMA NextKeeps == ASSUME LInv, [Next]_vars PROVE LInv'
  <1>1. CASE Open
    BY <1>1, OpenStep, OpenerStepKeeps
  <1>2. CASE OpenOther
    BY <1>2, OpenOtherStep, OpenerStepKeeps
  <1>3. CASE PollAvailable
    BY <1>3, SameNextStep, OpenerStepKeeps DEF PollAvailable
  <1>4. CASE SendBlocked
    BY <1>4, SameNextStep, OpenerStepKeeps DEF SendBlocked
  <1>5. CASE HandshakeOpener
    BY <1>5, HandshakeOpenerKeeps
  <1>6. CASE \E i \in Streams, how \in Ends : End(i, how)
    BY <1>6, SameNextStep, OpenerStepKeeps DEF End
  <1>7. CASE \E i \in Streams, end \in Ends \cup {"open"} : ReceiveStream(i, end)
    BY <1>7, ReceiveStep, QuietStepKeeps
  <1>8. CASE Accept
    BY <1>8, AcceptStep, QuietStepKeeps
  <1>9. CASE PollOpened
    BY <1>9, PollOpenedStep, QuietStepKeeps
  <1>10. CASE HandshakeAcceptor
    BY <1>10, HandshakeAcceptorKeeps
  <1>11. CASE Payload
    BY <1>11, QueueStep, QuietStepKeeps DEF Payload
  <1>12. CASE SendMax
    BY <1>12, SendMaxKeeps
  <1>13. CASE \E i \in Streams : ReadEnd(i)
    BY <1>13, ReadEndStep, QuietStepKeeps
  <1>14. CASE \E i \in Streams : Stop(i)
    BY <1>14, StopStep, QuietStepKeeps
  <1>15. CASE \E i \in Streams : EndSend(i)
    BY <1>15, EndSendStep, QuietStepKeeps
  <1>16. CASE \E i \in Streams : StopAcked(i)
    BY <1>16, QueueStep, QuietStepKeeps DEF StopAcked
  <1>17. CASE \E count \in Counts : SetMaxConcurrentStreams(count)
    BY <1>17, ConcurrencyStep, QuietStepKeeps
  <1>18. CASE \E count \in flightMax : MaxArrives(count)
    BY <1>18, MaxArrivesKeeps
  <1>19. CASE \E count \in flightMax, arrived \in BOOLEAN : LoseMax(count, arrived)
    BY <1>19, LoseMaxKeeps
  <1>20. CASE BlockedArrives
    BY <1>20, QueueStep, QuietStepKeeps DEF BlockedArrives
  <1>21. CASE UNCHANGED vars
    BY <1>21, SameNextStep, OpenerStepKeeps DEF vars
  <1> QED
    BY <1>1, <1>2, <1>3, <1>4, <1>5, <1>6, <1>7, <1>8, <1>9, <1>10, <1>11, <1>12,
       <1>13, <1>14, <1>15, <1>16, <1>17, <1>18, <1>19, <1>20, <1>21 DEF Next

\* The inductive invariant holds for any configuration, also one in which tasks
\* wait in 0-RTT and reset streams are stopped.
THEOREM LimitInvariance == Spec => []LInv
  <1>1. Init => LInv
    BY InitEstablishes
  <1>2. LInv /\ [Next]_vars => LInv'
    BY NextKeeps
  <1> QED
    BY <1>1, <1>2, PTL DEF Spec

-----------------------------------------------------------------------------
(* The properties                                                          *)

\* An opener that keeps to its limit is never told STREAM_LIMIT_ERROR.
THEOREM OpenerAccepted == Spec => []OpenerWithinLimit
  <1>1. LInv => OpenerWithinLimit
    BY DEF LInv, OpenerWithinLimit
  <1> QED
    BY <1>1, LimitInvariance, PTL

\* The counters of stream_freed and accept are those of the streams held.
THEOREM CountsExact == Spec => []StreamCountsExact
  <1>1. ASSUME LInv PROVE StreamCountsExact
    <2>1. AccInv(acc)
      BY <1>1 DEF LInv
    <2>2. \A i \in Index : Held(i) <=> HeldIn(acc, i)
      BY DEF Held, HeldIn
    <2>3. {i \in Index : Held(i)} = HeldSet(acc)
      BY <2>2 DEF HeldSet
    <2>4. {i \in Index : i < acc.nextRemote /\ Held(i)} =
            {i \in Index : i < acc.nextRemote /\ HeldIn(acc, i)}
      BY <2>2
    <2>5. acc.nextRemote - (acc.maxRemote - acc.allocated) =
            Cardinality({i \in Index : i < acc.nextRemote /\ HeldIn(acc, i)})
      BY <2>1, OpenedHeld DEF AccInv
    <2>6. acc.allocated \in Nat /\ acc.maxConcurrent \in Nat
      BY <2>1 DEF AccInv, Shape, AccType
    <2>7. acc.allocated >= acc.maxConcurrent
      BY <2>1, <2>6 DEF AccInv, Filled
    <2> QED
      BY <2>1, <2>3, <2>4, <2>5, <2>7 DEF StreamCountsExact, AccInv, Counted, SendSet
  <1> QED
    BY <1>1, LimitInvariance, PTL

\* A task waits for a stream only after the handshake, and is told of a limit.
Waits ==
    /\ Early => want # "waiting"
    /\ want = "waiting" /\ next < max => available = TRUE

\* A raised limit comes with an event for the task that waits.
LEMMA WaitsKept ==
    ASSUME "EarlyWait" \notin Ops, LInv, Waits, [Next]_vars
    PROVE  Waits'
  <1>t. next \in Nat /\ max \in Nat
    BY DEF LInv, StateTypes
  <1>1. CASE Open
    BY <1>1, <1>t DEF Open, Waits, Early
  <1>2. CASE OpenOther
    BY <1>2, <1>t DEF OpenOther, Waits, Early
  <1>3. CASE PollAvailable
    BY <1>3 DEF PollAvailable, Waits, Early
  <1>4. CASE HandshakeOpener
    BY <1>4 DEF HandshakeOpener, Waits, Early, HandshakeDone
  <1>5. CASE UNCHANGED <<next, max, want, available>> /\ (Early' => Early)
    BY <1>5 DEF Waits
  <1>6. ASSUME NEW count \in flightMax, UNCHANGED <<next, want, zeroRtt>>,
               ReceivedMaxStreams(count) \/ UNCHANGED <<max, available>>
        PROVE  Waits'
    BY <1>6 DEF Waits, Early, ReceivedMaxStreams, Notify
  <1>7. CASE \E count \in flightMax : MaxArrives(count)
    BY <1>7, <1>6 DEF MaxArrives
  <1>8. CASE \E count \in flightMax, arrived \in BOOLEAN : LoseMax(count, arrived)
    BY <1>8, <1>6 DEF LoseMax
  <1>9. CASE \/ SendBlocked \/ Accept \/ PollOpened \/ Payload \/ SendMax
             \/ BlockedArrives \/ UNCHANGED vars
    BY <1>9, <1>5 DEF SendBlocked, Accept, PollOpened, Payload, SendMax,
                      BlockedArrives, vars, Early
  <1>10. CASE HandshakeAcceptor
    BY <1>10, <1>5 DEF HandshakeAcceptor, Early, HandshakeDone
  <1>11. CASE \E i \in Streams :
                 \/ \E how \in Ends : End(i, how)
                 \/ \E end \in Ends \cup {"open"} : ReceiveStream(i, end)
                 \/ ReadEnd(i) \/ Stop(i) \/ EndSend(i) \/ StopAcked(i)
    BY <1>11, <1>5 DEF End, ReceiveStream, ReadEnd, Stop, EndSend, StopAcked, Early
  <1>12. CASE \E count \in Counts : SetMaxConcurrentStreams(count)
    BY <1>12, <1>5 DEF SetMaxConcurrentStreams, Early
  <1> QED
    BY <1>1, <1>2, <1>3, <1>4, <1>7, <1>8, <1>9, <1>10, <1>11, <1>12 DEF Next

\* The opener is within its limit, the counts are exact, and nobody waits for a
\* limit or a stream of which no event or frame will tell, as long as no task
\* waits for a stream in 0-RTT (set_params raises the limit without an event).
THEOREM LimitsTheorem ==
    ASSUME "EarlyWait" \notin Ops
    PROVE  Spec => []LimitsExact
  <1>1. Init => Waits
    BY DEF Init, Waits
  <1>2. LInv /\ Waits /\ [Next]_vars => Waits'
    BY WaitsKept
  <1>3. ASSUME LInv, Waits PROVE NoLostOpener /\ LimitNotLost
    <2>1. acc.sentMaxRemote \in Nat /\ max \in Nat
      BY <1>3, AccTypes DEF LInv, StateTypes
    <2>2. Reads("opener") => ~Early
      BY <1>3 DEF LInv, StateTypes, Reads, Early, HandshakeDone
    <2>3. LimitNotLost
      BY <1>3, <2>1, <2>2 DEF LInv, Announced, Basis, LimitNotLost
    <2>4. NoLostOpener
      BY <1>3 DEF LInv, Told, Waits, NoLostOpener
    <2> QED
      BY <2>3, <2>4
  <1>4. OpenerWithinLimit /\ StreamCountsExact /\ NoLostOpener /\ LimitNotLost
            => LimitsExact
    BY DEF LimitsExact
  <1> QED
    BY <1>1, <1>2, <1>3, <1>4, LimitInvariance, OpenerAccepted, CountsExact, PTL
       DEF Spec
=============================================================================
