------------------------- MODULE SendStreams_proofs -------------------------
(***************************************************************************)
(* Machine-checked proofs about SendStreams, for any number of streams,    *)
(* packets and bytes.                                                      *)
(***************************************************************************)
EXTENDS SendStreams, FiniteSetTheorems, SequenceTheorems, TLAPS

USE DEF bufVars, creditVars, queueVars, resetVars, peerVars, sendVars

\* Byte o of stream s travels in packet p.
InPkt(p, s, o) == sent[p].id = s /\ sent[p].lo <= o /\ o < sent[p].hi

\* SentBytePlaced for one stream, byte by byte.
Placed(s) ==
    /\ base[s] <= unsent[s] /\ unsent[s] <= offset[s]
    /\ \A o \in Int : o \in acks[s] =>
         base[s] <= o /\ o < unsent[s] /\ o \notin retransmits[s]
    /\ \A o \in Int : o \in retransmits[s] => base[s] <= o /\ o < unsent[s]
    /\ \A p \in Pkts, o \in Int : InPkt(p, s, o) =>
         /\ base[s] <= o /\ o < unsent[s]
         /\ o \notin acks[s] /\ o \notin retransmits[s]
    /\ \A p, q \in Pkts, o \in Int :
         InPkt(p, s, o) /\ InPkt(q, s, o) => p = q
    /\ \A o \in Int : base[s] <= o /\ o < unsent[s] =>
         \/ o \in acks[s] \/ o \in retransmits[s]
         \/ \E p \in Pkts : InPkt(p, s, o)

Placement == \A s \in Streams : state[s] \in Open_ => Placed(s)

\* A stream that was not opened left no trace.
Fresh ==
    \A s \in Streams : state[s] = "Unopened" =>
        /\ base[s] = 0 /\ unsent[s] = 0 /\ offset[s] = 0
        /\ acks[s] = {} /\ retransmits[s] = {}
        /\ \A p \in Pkts : sent[p].id # s

FramesOrdered == \A p \in Pkts : sent[p].lo <= sent[p].hi

\* Nothing is acknowledged or lost before the handshake ends.
EarlyClean ==
    phase = "early" => \A s \in Streams :
        base[s] = 0 /\ acks[s] = {} /\ retransmits[s] = {}

\* After a rejection unacked_data may be too large, but never too small.
Accounting ==
    /\ Cardinality(UnackedBytes) <= unackedData
    /\ UnackedAccounting

Credit ==
    /\ dataSent <= maxData
    /\ \A s \in Streams : offset[s] <= maxStreamData[s]

BufInv == Placement /\ Fresh /\ FramesOrdered /\ EarlyClean

\* The inductive invariant.  Type correctness alone is not inductive: that
\* unacked_data does not underflow rests on the accounting, and that on each
\* sent byte being in one place.
IInv == TypeOK /\ BufInv /\ Accounting /\ Credit

------------------------------------------------------------------------------
\* {s} \X T has as many elements as T.
LEMMA TaggedCardinality ==
    ASSUME NEW s, NEW T, IsFiniteSet(T)
    PROVE  /\ IsFiniteSet({s} \X T)
           /\ Cardinality({s} \X T) = Cardinality(T)
  <1>1. IsFiniteSet({s}) /\ Cardinality({s}) = 1
    BY FS_Singleton
  <1>2. IsFiniteSet({s} \X T) /\ Cardinality({s} \X T) = 1 * Cardinality(T)
    BY <1>1, FS_Product
  <1>3. Cardinality(T) \in Nat
    BY FS_CardinalityType
  <1>4. QED BY <1>2, <1>3

\* The range of bytes lo..hi-1 has hi - lo elements.
LEMMA BytesCardinality ==
    ASSUME NEW lo \in Int, NEW hi \in Int, lo <= hi
    PROVE  IsFiniteSet(Bytes(lo, hi)) /\ Cardinality(Bytes(lo, hi)) = hi - lo
  <1>1. hi - 1 \in Int
    OBVIOUS
  <1>2. /\ IsFiniteSet(lo .. (hi - 1))
        /\ Cardinality(lo .. (hi - 1)) = IF lo > hi - 1 THEN 0 ELSE (hi - 1) - lo + 1
    BY <1>1, FS_Interval
  <1>3. QED BY <1>2 DEF Bytes

\* The set that unacked_data counts is finite.
LEMMA UnackedFinite ==
    ASSUME TypeOK
    PROVE  IsFiniteSet(UnackedBytes) /\ Cardinality(UnackedBytes) \in Nat
  <1>1. MaxOffset - 1 \in Int
    BY BoundsAssumption
  <1>2. IsFiniteSet(0 .. (MaxOffset - 1))
    BY <1>1, FS_Interval
  <1>3. IsFiniteSet(Streams \X (0 .. (MaxOffset - 1)))
    BY <1>2, StreamsAssumption, FS_Product
  <1>4. UnackedBytes \in SUBSET (Streams \X (0 .. (MaxOffset - 1)))
    BY DEF UnackedBytes
  <1>5. QED BY <1>3, <1>4, FS_Subset, FS_CardinalityType

\* Placement is SentBytePlaced, said byte by byte.
LEMMA PlacementIsSentBytePlaced ==
    ASSUME TypeOK, Placement
    PROVE  SentBytePlaced
  <1> SUFFICES ASSUME NEW s \in Streams, state[s] \in Open_
               PROVE  /\ base[s] <= unsent[s] /\ unsent[s] <= offset[s]
                      /\ acks[s] \cap retransmits[s] = {}
                      /\ \A p \in Pkts :
                           Flying(p, s) \cap (acks[s] \cup retransmits[s]) = {}
                      /\ \A p, q \in Pkts :
                           p # q => Flying(p, s) \cap Flying(q, s) = {}
                      /\ acks[s] \cup retransmits[s]
                           \cup UNION {Flying(p, s) : p \in Pkts}
                         = Bytes(base[s], unsent[s])
    BY DEF SentBytePlaced
  <1> USE BoundsAssumption, StreamsAssumption
  <1>1. Placed(s)
    BY DEF Placement
  <1>2. /\ base[s] \in Int /\ unsent[s] \in Int
        /\ acks[s] \subseteq Int /\ retransmits[s] \subseteq Int
    BY DEF TypeOK, BuffersOK
  <1>3. \A p \in Pkts : sent[p].id = s => sent[p].lo \in Int /\ sent[p].hi \in Int
    BY DEF TypeOK, Frame, NoFrame
  <1>4. \A p \in Pkts : \A o : o \in Flying(p, s) <=> o \in Int /\ InPkt(p, s, o)
    BY <1>3 DEF Flying, InPkt, Bytes
  <1>5. acks[s] \cap retransmits[s] = {}
    BY <1>1, <1>2 DEF Placed
  <1>6. \A p \in Pkts : Flying(p, s) \cap (acks[s] \cup retransmits[s]) = {}
    BY <1>1, <1>4 DEF Placed
  <1>7. \A p, q \in Pkts : p # q => Flying(p, s) \cap Flying(q, s) = {}
    BY <1>1, <1>4 DEF Placed
  <1>8. ASSUME NEW o
        PROVE  o \in acks[s] \cup retransmits[s] \cup UNION {Flying(p, s) : p \in Pkts}
                 <=> o \in Bytes(base[s], unsent[s])
    <2>1. o \in UNION {Flying(p, s) : p \in Pkts} <=> \E p \in Pkts : o \in Flying(p, s)
      OBVIOUS
    <2>2. o \in Bytes(base[s], unsent[s])
            <=> o \in Int /\ base[s] <= o /\ o < unsent[s]
      BY <1>2 DEF Bytes
    <2>3. QED BY <1>1, <1>2, <1>4, <2>1, <2>2 DEF Placed
  <1>9. QED BY <1>1, <1>5, <1>6, <1>7, <1>8 DEF Placed

------------------------------------------------------------------------------
\* The invariant holds initially.
LEMMA InitInv == Init => IInv
  <1> SUFFICES ASSUME Init PROVE IInv
    OBVIOUS
  <1> USE BoundsAssumption, StreamsAssumption
  <1>1. TypeOK
    <2>1. FlagsOK
      BY Zenon DEF Init, FlagsOK
    <2>2. BuffersOK
      BY DEF Init, BuffersOK
    <2>3. CountersOK
      BY DEF Init, CountersOK
    <2>4. ListsOK
      BY DEF Init, ListsOK
    <2>5. sent \in [Pkts -> Frame \cup {NoFrame}]
      BY DEF Init
    <2>6. QED BY <2>1, <2>2, <2>3, <2>4, <2>5 DEF Init, TypeOK, States
  <1>2. \A p \in Pkts : sent[p].id = NoStream /\ sent[p].lo = 0 /\ sent[p].hi = 0
    BY DEF Init, NoFrame
  <1>3. \A s \in Streams : state[s] = "Unopened"
    BY DEF Init
  <1>4. Placement
    BY <1>3 DEF Placement, Open_
  <1>5. Fresh /\ FramesOrdered /\ EarlyClean
    BY <1>2 DEF Init, Fresh, FramesOrdered, EarlyClean
  <1>6. UnackedBytes = {}
    BY <1>3 DEF UnackedBytes, Open_
  <1>7. Accounting
    BY <1>6, FS_EmptySet DEF Init, Accounting, UnackedAccounting
  <1>8. Credit
    BY DEF Init, Credit
  <1>9. QED BY <1>1, <1>4, <1>5, <1>7, <1>8 DEF IInv, BufInv

------------------------------------------------------------------------------
\* A step that touches no buffer, no packet and no stream state keeps what is
\* said about them.
LEMMA QuietStep ==
    ASSUME BufInv, Accounting,
           UNCHANGED <<state, bufVars, sent, unackedData>>,
           \/ phase' = phase
           \/ phase = "early" /\ phase' = "accepted"
    PROVE  BufInv' /\ Accounting'
  <1>1. Placement'
    BY DEF BufInv, Placement, Placed, InPkt
  <1>2. Fresh' /\ FramesOrdered' /\ EarlyClean'
    BY DEF BufInv, Fresh, FramesOrdered, EarlyClean
  <1>3. UnackedBytes' = UnackedBytes
    BY DEF UnackedBytes, Unacked, Bytes
  <1>4. Accounting'
    BY <1>3 DEF Accounting, UnackedAccounting
  <1>5. QED BY <1>1, <1>2, <1>4 DEF BufInv

\* Opening a stream.
LEMMA OpenStep ==
    ASSUME IInv, NEW s \in Streams, Open(s)
    PROVE  IInv'
  <1> USE BoundsAssumption, StreamsAssumption
  <1>1. TypeOK'
    <2>1. FlagsOK'
      BY Zenon DEF IInv, TypeOK, FlagsOK, Open
    <2>2. BuffersOK'
      BY DEF IInv, TypeOK, BuffersOK, Open
    <2>3. CountersOK'
      BY DEF IInv, TypeOK, CountersOK, Open
    <2>4. ListsOK'
      BY DEF IInv, TypeOK, ListsOK, Open
    <2>5. QED
      BY <2>1, <2>2, <2>3, <2>4 DEF IInv, TypeOK, States, Open
  <1>2. Placed(s)'
    <2>1. /\ base'[s] = 0 /\ unsent'[s] = 0 /\ offset'[s] = 0
          /\ acks'[s] = {} /\ retransmits'[s] = {}
          /\ \A p \in Pkts : sent'[p].id # s
      BY DEF IInv, BufInv, Fresh, Open
    <2>2. QED BY <2>1 DEF Placed, InPkt
  <1>3. Placement'
    <2> SUFFICES ASSUME NEW t \in Streams, t # s, state'[t] \in Open_
                 PROVE  Placed(t)'
      BY <1>2 DEF Placement
    <2>1. Placed(t)
      BY DEF Open, IInv, TypeOK, BufInv, Placement
    <2>2. QED BY <2>1 DEF Placed, InPkt, Open
  <1>4. Fresh' /\ FramesOrdered' /\ EarlyClean'
    BY DEF IInv, TypeOK, BufInv, Fresh, FramesOrdered, EarlyClean, Open
  <1>5. UnackedBytes' = UnackedBytes
    BY DEF IInv, TypeOK, BufInv, Fresh, UnackedBytes, Unacked, Bytes, Open_, Open
  <1>6. Accounting' /\ Credit'
    BY <1>5 DEF IInv, TypeOK, BufInv, Fresh, Accounting, UnackedAccounting,
                Credit, Open
  <1>7. QED BY <1>1, <1>3, <1>4, <1>6 DEF IInv, BufInv

\* A write that finds no connection credit.
LEMMA WriteNoCreditStep ==
    ASSUME IInv, NEW s \in Streams, WriteNoCredit(s)
    PROVE  IInv'
  <1> USE BoundsAssumption, StreamsAssumption
  <1>1. TypeOK'
    <2>1. FlagsOK'
      BY Zenon DEF IInv, TypeOK, FlagsOK, WriteNoCredit
    <2>2. BuffersOK'
      BY DEF IInv, TypeOK, BuffersOK, WriteNoCredit
    <2>3. CountersOK'
      BY DEF IInv, TypeOK, CountersOK, Greater, WriteNoCredit
    <2>4. ListsOK'
      BY DEF IInv, TypeOK, ListsOK, WriteNoCredit, Register
    <2>5. QED
      BY <2>1, <2>2, <2>3, <2>4 DEF IInv, TypeOK, WriteNoCredit
  <1>2. BufInv' /\ Accounting'
    BY QuietStep DEF IInv, WriteNoCredit
  <1>3. Credit'
    BY DEF IInv, TypeOK, BuffersOK, CountersOK, Credit, Greater, WriteNoCredit
  <1>4. QED BY <1>1, <1>2, <1>3 DEF IInv

\* A write that finds no stream credit.
LEMMA WriteNoBudgetStep ==
    ASSUME IInv, NEW s \in Streams, WriteNoBudget(s)
    PROVE  IInv'
  <1> USE BoundsAssumption, StreamsAssumption
  <1>1. TypeOK'
    <2>1. FlagsOK'
      BY Zenon DEF IInv, TypeOK, FlagsOK, WriteNoBudget
    <2>2. BuffersOK'
      BY DEF IInv, TypeOK, BuffersOK, WriteNoBudget
    <2>3. CountersOK'
      BY DEF IInv, TypeOK, CountersOK, Greater, WriteNoBudget
    <2>4. ListsOK'
      BY DEF IInv, TypeOK, ListsOK, WriteNoBudget
    <2>5. QED
      BY <2>1, <2>2, <2>3, <2>4 DEF IInv, TypeOK, WriteNoBudget
  <1>2. BufInv' /\ Accounting'
    BY QuietStep DEF IInv, WriteNoBudget
  <1>3. Credit'
    BY DEF IInv, TypeOK, BuffersOK, CountersOK, Credit, Greater, WriteNoBudget
  <1>4. QED BY <1>1, <1>2, <1>3 DEF IInv

\* A new priority.
LEMMA SetPriorityStep ==
    ASSUME IInv, NEW s \in Streams, NEW p \in Priorities, SetPriority(s, p)
    PROVE  IInv'
  <1> USE BoundsAssumption, StreamsAssumption
  <1>1. TypeOK'
    <2>1. FlagsOK'
      BY Zenon DEF IInv, TypeOK, FlagsOK, SetPriority
    <2>2. BuffersOK'
      BY DEF IInv, TypeOK, BuffersOK, SetPriority
    <2>3. CountersOK'
      BY DEF IInv, TypeOK, CountersOK, Greater, SetPriority
    <2>4. ListsOK'
      BY DEF IInv, TypeOK, ListsOK, SetPriority
    <2>5. QED
      BY <2>1, <2>2, <2>3, <2>4 DEF IInv, TypeOK, SetPriority
  <1>2. BufInv' /\ Accounting'
    BY QuietStep DEF IInv, SetPriority
  <1>3. Credit'
    BY DEF IInv, TypeOK, BuffersOK, CountersOK, Credit, Greater, SetPriority
  <1>4. QED BY <1>1, <1>2, <1>3 DEF IInv

\* A new send window.
LEMMA SetSendWindowStep ==
    ASSUME IInv, NEW w \in Windows, SetSendWindow(w)
    PROVE  IInv'
  <1> USE BoundsAssumption, StreamsAssumption
  <1>1. TypeOK'
    <2>1. FlagsOK'
      BY Zenon DEF IInv, TypeOK, FlagsOK, SetSendWindow
    <2>2. BuffersOK'
      BY DEF IInv, TypeOK, BuffersOK, SetSendWindow
    <2>3. CountersOK'
      BY DEF IInv, TypeOK, CountersOK, Greater, SetSendWindow
    <2>4. ListsOK'
      BY DEF IInv, TypeOK, ListsOK, SetSendWindow
    <2>5. QED
      BY <2>1, <2>2, <2>3, <2>4 DEF IInv, TypeOK, SetSendWindow
  <1>2. BufInv' /\ Accounting'
    BY QuietStep DEF IInv, SetSendWindow
  <1>3. Credit'
    BY DEF IInv, TypeOK, BuffersOK, CountersOK, Credit, Greater, SetSendWindow
  <1>4. QED BY <1>1, <1>2, <1>3 DEF IInv

\* Polling the list of blocked streams.
LEMMA PollBlockedStep ==
    ASSUME IInv, PollBlocked
    PROVE  IInv'
  <1> USE BoundsAssumption, StreamsAssumption
  <1>1. TypeOK'
    <2>1. FlagsOK'
      BY Zenon DEF IInv, TypeOK, FlagsOK, PollBlocked
    <2>2. BuffersOK'
      BY DEF IInv, TypeOK, BuffersOK, PollBlocked
    <2>3. CountersOK'
      BY DEF IInv, TypeOK, CountersOK, Greater, PollBlocked
    <2>4. ListsOK'
      <3>1. PICK k \in 0 .. Len(connBlocked) :
                connBlocked' = SubSeq(connBlocked, 1, k - 1)
        BY DEF PollBlocked
      <3>2. connBlocked \in Seq(Streams)
        BY DEF IInv, TypeOK, ListsOK
      <3>3. connBlocked' \in Seq(Streams)
        BY <3>1, <3>2
      <3>4. QED BY <3>3 DEF IInv, TypeOK, ListsOK, PollBlocked
    <2>5. QED
      BY <2>1, <2>2, <2>3, <2>4 DEF IInv, TypeOK, PollBlocked
  <1>2. BufInv' /\ Accounting'
    BY QuietStep DEF IInv, PollBlocked
  <1>3. Credit'
    BY DEF IInv, TypeOK, BuffersOK, CountersOK, Credit, Greater, PollBlocked
  <1>4. QED BY <1>1, <1>2, <1>3 DEF IInv

\* Polling an event.
LEMMA PollEventStep ==
    ASSUME IInv, PollEvent
    PROVE  IInv'
  <1> USE BoundsAssumption, StreamsAssumption
  <1>1. TypeOK'
    <2>1. FlagsOK'
      BY Zenon DEF IInv, TypeOK, FlagsOK, PollEvent
    <2>2. BuffersOK'
      BY DEF IInv, TypeOK, BuffersOK, PollEvent
    <2>3. CountersOK'
      BY DEF IInv, TypeOK, CountersOK, Greater, PollEvent
    <2>4. ListsOK'
      BY DEF IInv, TypeOK, ListsOK, PollEvent
    <2>5. QED
      BY <2>1, <2>2, <2>3, <2>4 DEF IInv, TypeOK, PollEvent
  <1>2. BufInv' /\ Accounting'
    BY QuietStep DEF IInv, PollEvent
  <1>3. Credit'
    BY DEF IInv, TypeOK, BuffersOK, CountersOK, Credit, Greater, PollEvent
  <1>4. QED BY <1>1, <1>2, <1>3 DEF IInv

\* A STOP_SENDING frame.
LEMMA StopSendingStep ==
    ASSUME IInv, NEW s \in Streams, StopSending(s)
    PROVE  IInv'
  <1> USE BoundsAssumption, StreamsAssumption
  <1>1. TypeOK'
    <2>1. FlagsOK'
      BY Zenon DEF IInv, TypeOK, FlagsOK, StopSending
    <2>2. BuffersOK'
      BY DEF IInv, TypeOK, BuffersOK, StopSending
    <2>3. CountersOK'
      BY DEF IInv, TypeOK, CountersOK, Greater, StopSending
    <2>4. ListsOK'
      BY DEF IInv, TypeOK, ListsOK, StopSending
    <2>5. QED
      BY <2>1, <2>2, <2>3, <2>4 DEF IInv, TypeOK, StopSending
  <1>2. BufInv' /\ Accounting'
    BY QuietStep DEF IInv, StopSending
  <1>3. Credit'
    BY DEF IInv, TypeOK, BuffersOK, CountersOK, Credit, Greater, StopSending
  <1>4. QED BY <1>1, <1>2, <1>3 DEF IInv

\* A MAX_DATA frame.
LEMMA MaxDataStep ==
    ASSUME IInv, NEW n \in DataLimits, MaxData(n)
    PROVE  IInv'
  <1> USE BoundsAssumption, StreamsAssumption
  <1>1. TypeOK'
    <2>1. FlagsOK'
      BY Zenon DEF IInv, TypeOK, FlagsOK, MaxData
    <2>2. BuffersOK'
      BY DEF IInv, TypeOK, BuffersOK, MaxData
    <2>3. CountersOK'
      BY DEF IInv, TypeOK, CountersOK, Greater, MaxData
    <2>4. ListsOK'
      BY DEF IInv, TypeOK, ListsOK, MaxData
    <2>5. QED
      BY <2>1, <2>2, <2>3, <2>4 DEF IInv, TypeOK, MaxData
  <1>2. BufInv' /\ Accounting'
    BY QuietStep DEF IInv, MaxData
  <1>3. Credit'
    BY DEF IInv, TypeOK, BuffersOK, CountersOK, Credit, Greater, MaxData
  <1>4. QED BY <1>1, <1>2, <1>3 DEF IInv

\* A MAX_STREAM_DATA frame.
LEMMA MaxStreamDataStep ==
    ASSUME IInv, NEW s \in Streams, NEW n \in StreamLimits, MaxStreamData(s, n)
    PROVE  IInv'
  <1> USE BoundsAssumption, StreamsAssumption
  <1>1. TypeOK'
    <2>1. FlagsOK'
      BY Zenon DEF IInv, TypeOK, FlagsOK, MaxStreamData
    <2>2. BuffersOK'
      BY DEF IInv, TypeOK, BuffersOK, MaxStreamData
    <2>3. CountersOK'
      BY DEF IInv, TypeOK, CountersOK, Greater, MaxStreamData
    <2>4. ListsOK'
      <3>1. connBlocked \in Seq(Streams)
        BY DEF IInv, TypeOK, ListsOK
      <3>2. connBlocked' = connBlocked \/ connBlocked' = Append(connBlocked, s)
        BY DEF MaxStreamData, Register
      <3>3. connBlocked' \in Seq(Streams)
        BY <3>1, <3>2
      <3>4. events' \subseteq [type : {"Writable", "Stopped"}, id : Streams]
        BY DEF IInv, TypeOK, ListsOK, MaxStreamData
      <3>5. QED BY <3>3, <3>4 DEF IInv, TypeOK, ListsOK, MaxStreamData
    <2>5. QED
      BY <2>1, <2>2, <2>3, <2>4 DEF IInv, TypeOK, MaxStreamData
  <1>2. BufInv' /\ Accounting'
    BY QuietStep DEF IInv, MaxStreamData
  <1>3. Credit'
    BY DEF IInv, TypeOK, BuffersOK, CountersOK, Credit, Greater, MaxStreamData
  <1>4. QED BY <1>1, <1>2, <1>3 DEF IInv

\* Sending a RESET_STREAM frame.
LEMMA SendResetStep ==
    ASSUME IInv, NEW s \in Streams, SendReset(s)
    PROVE  IInv'
  <1> USE BoundsAssumption, StreamsAssumption
  <1>1. TypeOK'
    <2>1. FlagsOK'
      BY Zenon DEF IInv, TypeOK, FlagsOK, SendReset
    <2>2. BuffersOK'
      BY DEF IInv, TypeOK, BuffersOK, SendReset
    <2>3. CountersOK'
      BY DEF IInv, TypeOK, CountersOK, Greater, SendReset
    <2>4. ListsOK'
      BY DEF IInv, TypeOK, ListsOK, SendReset
    <2>5. QED
      BY <2>1, <2>2, <2>3, <2>4 DEF IInv, TypeOK, SendReset
  <1>2. BufInv' /\ Accounting'
    BY QuietStep DEF IInv, SendReset
  <1>3. Credit'
    BY DEF IInv, TypeOK, BuffersOK, CountersOK, Credit, Greater, SendReset
  <1>4. QED BY <1>1, <1>2, <1>3 DEF IInv

\* Losing a RESET_STREAM frame.
LEMMA LoseResetStep ==
    ASSUME IInv, NEW s \in Streams, LoseReset(s)
    PROVE  IInv'
  <1> USE BoundsAssumption, StreamsAssumption
  <1>1. TypeOK'
    <2>1. FlagsOK'
      BY Zenon DEF IInv, TypeOK, FlagsOK, LoseReset
    <2>2. BuffersOK'
      BY DEF IInv, TypeOK, BuffersOK, LoseReset
    <2>3. CountersOK'
      BY DEF IInv, TypeOK, CountersOK, Greater, LoseReset
    <2>4. ListsOK'
      BY DEF IInv, TypeOK, ListsOK, LoseReset
    <2>5. QED
      BY <2>1, <2>2, <2>3, <2>4 DEF IInv, TypeOK, LoseReset
  <1>2. BufInv' /\ Accounting'
    BY QuietStep DEF IInv, LoseReset
  <1>3. Credit'
    BY DEF IInv, TypeOK, BuffersOK, CountersOK, Credit, Greater, LoseReset
  <1>4. QED BY <1>1, <1>2, <1>3 DEF IInv

\* The end of 0-RTT without rejection.
LEMMA ZeroRttAcceptedStep ==
    ASSUME IInv, ZeroRttAccepted
    PROVE  IInv'
  <1> USE BoundsAssumption, StreamsAssumption
  <1>1. TypeOK'
    <2>1. FlagsOK'
      BY Zenon DEF IInv, TypeOK, FlagsOK, ZeroRttAccepted
    <2>2. BuffersOK'
      BY DEF IInv, TypeOK, BuffersOK, ZeroRttAccepted
    <2>3. CountersOK'
      BY DEF IInv, TypeOK, CountersOK, Greater, ZeroRttAccepted
    <2>4. ListsOK'
      BY DEF IInv, TypeOK, ListsOK, ZeroRttAccepted
    <2>5. QED
      BY <2>1, <2>2, <2>3, <2>4 DEF IInv, TypeOK, ZeroRttAccepted
  <1>2. BufInv' /\ Accounting'
    BY QuietStep DEF IInv, ZeroRttAccepted
  <1>3. Credit'
    BY DEF IInv, TypeOK, BuffersOK, CountersOK, Credit, Greater, ZeroRttAccepted
  <1>4. QED BY <1>1, <1>2, <1>3 DEF IInv

------------------------------------------------------------------------------
\* Queueing keeps the type of the queue.
LEMMA PushType ==
    ASSUME ListsOK, NEW q \in Seq([id : Streams, prio : Int]), NEW s \in Streams
    PROVE  Push(q, s) \in Seq([id : Streams, prio : Int])
  BY DEF Push, ListsOK

\* Popping yields a stream and a queue of the same type.
LEMMA PopsType ==
    ASSUME ListsOK, NEW e \in Pops
    PROVE  e.id \in Streams /\ e.rest \in Seq([id : Streams, prio : Int])
  <1> DEFINE E == [id : Streams, prio : Int]
  <1>1. queue \in Seq(E) /\ next \in Streams \cup {NoStream}
    BY DEF ListsOK
  <1> HIDE DEF E
  <1>2. \A i \in 1 .. Len(queue) : queue[i].id \in Streams
    <2>1. \A i \in 1 .. Len(queue) : queue[i] \in E
      BY <1>1
    <2>2. QED BY <2>1 DEF E
  <1>3. CASE next # NoStream
    <2>1. e = [id |-> next, rest |-> queue]
      BY <1>3 DEF Pops
    <2>2. e.id = next /\ e.rest = queue
      BY <2>1
    <2>3. QED BY <1>1, <1>3, <2>2 DEF E
  <1>4. CASE next = NoStream
    <2>1. PICK i \in 1 .. Len(queue) :
              e = [id |-> queue[i].id, rest |-> WithoutIndex(queue, i)]
      BY <1>4 DEF Pops
    <2>2. e.id = queue[i].id /\ e.rest = WithoutIndex(queue, i)
      BY <2>1
    <2>3. /\ Len(queue) - 1 \in Nat
          /\ \A j \in 1 .. (Len(queue) - 1) : queue[j] \in E /\ queue[j + 1] \in E
      BY <1>1
    <2>4. WithoutIndex(queue, i) \in [1 .. (Len(queue) - 1) -> E]
      BY <2>3 DEF WithoutIndex
    <2>5. WithoutIndex(queue, i) \in Seq(E)
      BY <2>3, <2>4
    <2>6. QED BY <1>2, <2>2, <2>5 DEF E
  <1>5. QED BY <1>3, <1>4 DEF E

\* Dropping the queue entry of a stream that is gone.
LEMMA DropStaleStep ==
    ASSUME IInv, DropStale
    PROVE  IInv'
  <1>1. PICK e \in Pops : queue' = e.rest /\ next' = NoStream
    BY DEF DropStale
  <1>2. queue' \in Seq([id : Streams, prio : Int])
    BY <1>1, PopsType DEF IInv, TypeOK
  <1>3. TypeOK'
    <2>1. FlagsOK'
      BY Zenon DEF IInv, TypeOK, FlagsOK, DropStale
    <2>2. BuffersOK' /\ CountersOK'
      BY DEF IInv, TypeOK, BuffersOK, CountersOK, DropStale
    <2>3. ListsOK'
      BY <1>1, <1>2 DEF IInv, TypeOK, ListsOK, DropStale
    <2>4. QED BY <2>1, <2>2, <2>3 DEF IInv, TypeOK, DropStale
  <1>4. BufInv' /\ Accounting'
    BY QuietStep DEF IInv, DropStale
  <1>5. Credit'
    BY DEF IInv, Credit, DropStale
  <1>6. QED BY <1>3, <1>4, <1>5 DEF IInv

\* Finishing a stream.
LEMMA FinishStep ==
    ASSUME IInv, NEW s \in Streams, Finish(s)
    PROVE  IInv'
  <1>1. TypeOK'
    <2>1. FlagsOK'
      BY Zenon DEF IInv, TypeOK, FlagsOK, Finish
    <2>2. BuffersOK' /\ CountersOK'
      BY DEF IInv, TypeOK, BuffersOK, CountersOK, Finish
    <2>3. queue' \in Seq([id : Streams, prio : Int])
      BY PushType DEF IInv, TypeOK, ListsOK, Finish, PushIfIdle
    <2>4. ListsOK'
      BY <2>3 DEF IInv, TypeOK, ListsOK, Finish, PushIfIdle
    <2>5. QED BY <2>1, <2>2, <2>4 DEF IInv, TypeOK, States, Finish
  <1>2. /\ state[s] = "Ready" /\ state' = [state EXCEPT ![s] = "DataSent"]
        /\ state \in [Streams -> States]
        /\ UNCHANGED <<bufVars, sent, phase>>
    BY DEF IInv, TypeOK, Finish
  <1>3. BufInv'
    <2>1. Placement'
      <3> SUFFICES ASSUME NEW t \in Streams, state'[t] \in Open_
                   PROVE  Placed(t)'
        BY DEF Placement
      <3>1. state[t] \in Open_
        BY <1>2 DEF Open_
      <3>2. Placed(t)
        BY <3>1 DEF IInv, BufInv, Placement
      <3>3. QED BY <1>2, <3>2 DEF Placed, InPkt
    <2>2. Fresh' /\ FramesOrdered' /\ EarlyClean'
      BY <1>2 DEF IInv, BufInv, Fresh, FramesOrdered, EarlyClean
    <2>3. QED BY <2>1, <2>2 DEF BufInv
  <1>4. UnackedBytes' = UnackedBytes
    <2>1. \A t \in Streams : state'[t] \in Open_ <=> state[t] \in Open_
      BY <1>2 DEF Open_
    <2>2. \A t \in Streams : Unacked(t)' = Unacked(t)
      BY <1>2 DEF Unacked, Bytes
    <2>3. QED BY <2>1, <2>2 DEF UnackedBytes
  <1>5. Accounting' /\ Credit'
    BY <1>4 DEF IInv, Accounting, UnackedAccounting, Credit, Finish
  <1>6. QED BY <1>1, <1>3, <1>5 DEF IInv

\* Writing data.
LEMMA WriteDataStep ==
    ASSUME IInv, NEW s \in Streams, NEW n \in 0 .. MaxOffset, WriteData(s, n)
    PROVE  IInv'
  <1> USE BoundsAssumption, StreamsAssumption
  <1> DEFINE w == Lesser(n, Lesser(WriteLimit, maxStreamData[s] - offset[s]))
             new == Bytes(offset[s], offset[s] + w)
  <1>1. /\ offset[s] \in 0 .. MaxOffset /\ maxStreamData[s] \in 0 .. MaxOffset
        /\ base[s] \in Nat /\ unsent[s] \in Nat /\ acks[s] \subseteq Int
        /\ maxData \in Nat /\ dataSent \in Nat /\ sendWindow \in Nat
        /\ unackedData \in Nat
    BY DEF IInv, TypeOK, BuffersOK, CountersOK
  <1>2. WriteLimit \in Nat /\ WriteLimit <= maxData - dataSent
    BY <1>1 DEF WriteLimit, Lesser, IInv, Credit
  <1>3. w \in Nat /\ w <= maxStreamData[s] - offset[s] /\ w <= maxData - dataSent
    <2>1. maxStreamData[s] > offset[s]
      BY DEF WriteData
    <2>2. QED BY <1>1, <1>2, <2>1 DEF Lesser
  <1>4. /\ offset' = [offset EXCEPT ![s] = offset[s] + w]
        /\ dataSent' = dataSent + w /\ unackedData' = unackedData + w
    BY DEF WriteData
  <1> HIDE DEF w
  <1>5. offset'[s] = offset[s] + w /\ offset'[s] \in 0 .. MaxOffset
    BY <1>1, <1>3, <1>4 DEF IInv, TypeOK, BuffersOK
  <1>6. TypeOK'
    <2>1. FlagsOK'
      BY Zenon DEF IInv, TypeOK, FlagsOK, WriteData
    <2>2. BuffersOK'
      BY <1>4, <1>5 DEF IInv, TypeOK, BuffersOK, WriteData
    <2>3. CountersOK'
      BY <1>3, <1>4 DEF IInv, TypeOK, CountersOK, WriteData
    <2>4. queue' \in Seq([id : Streams, prio : Int])
      BY PushType DEF IInv, TypeOK, ListsOK, WriteData, PushIfIdle
    <2>5. ListsOK'
      BY <2>4 DEF IInv, TypeOK, ListsOK, WriteData, PushIfIdle
    <2>6. QED BY <2>1, <2>2, <2>3, <2>5 DEF IInv, TypeOK, WriteData
  <1>7. state[s] \in Open_ /\ Placed(s)
    BY DEF WriteData, Open_, IInv, BufInv, Placement
  <1>8. Placement'
    <2> SUFFICES ASSUME NEW t \in Streams, state'[t] \in Open_
                 PROVE  Placed(t)'
      BY DEF Placement
    <2>1. Placed(t) /\ offset[t] <= offset'[t]
      BY <1>1, <1>3, <1>4, <1>5 DEF WriteData, IInv, BufInv, Placement, TypeOK, BuffersOK
    <2>2. unsent[t] \in Int /\ offset[t] \in Int /\ offset'[t] \in Int
      BY <1>5, <1>4 DEF IInv, TypeOK, BuffersOK
    <2>3. unsent[t] <= offset'[t]
      BY <2>1, <2>2 DEF Placed
    <2>4. QED BY <2>1, <2>3 DEF Placed, InPkt, WriteData
  <1>9. Fresh' /\ FramesOrdered' /\ EarlyClean'
    <2>1. \A t \in Streams : state[t] = "Unopened" => offset'[t] = offset[t]
      BY <1>4 DEF WriteData, IInv, TypeOK, BuffersOK
    <2>2. QED BY <2>1 DEF IInv, BufInv, Fresh, FramesOrdered, EarlyClean, WriteData
  <1>10. /\ UnackedBytes' = UnackedBytes \cup ({s} \X new)
         /\ UnackedBytes \cap ({s} \X new) = {}
    <2>1. Unacked(s)' = Unacked(s) \cup new /\ Unacked(s) \cap new = {}
      <3>1. UNCHANGED <<base, acks>>
        BY DEF WriteData
      <3>2. Unacked(s)' = Bytes(base[s], offset[s] + w) \ acks[s]
        BY <1>5, <3>1 DEF Unacked, Bytes
      <3>3. /\ base[s] <= offset[s]
            /\ \A o \in Int : o \in acks[s] => o < offset[s]
        BY <1>1, <1>7 DEF Placed
      <3>4. QED BY <1>1, <1>3, <3>2, <3>3 DEF Unacked, Bytes
    <2>2. \A t \in Streams : t # s => Unacked(t)' = Unacked(t)
      BY <1>4 DEF Unacked, Bytes, WriteData, IInv, TypeOK, BuffersOK
    <2>3. new \subseteq 0 .. (MaxOffset - 1)
      BY <1>1, <1>3, <1>5 DEF Bytes
    <2>4. UNCHANGED state
      BY DEF WriteData
    <2>5. QED BY <2>1, <2>2, <2>3, <2>4, <1>7 DEF UnackedBytes
  <1>11. Accounting'
    <2>1. IsFiniteSet(new) /\ Cardinality(new) = w
      BY <1>1, <1>3, BytesCardinality
    <2>2. IsFiniteSet({s} \X new) /\ Cardinality({s} \X new) = w
      BY <2>1, TaggedCardinality
    <2>3. IsFiniteSet(UnackedBytes) /\ Cardinality(UnackedBytes) \in Nat
      BY UnackedFinite DEF IInv
    <2> DEFINE U == UnackedBytes
               N == {s} \X new
    <2>4. Cardinality(U \cup N) = Cardinality(U) + w
      <3>1. Cardinality(U \cup N) = Cardinality(U) + Cardinality(N) - Cardinality(U \cap N)
        BY <2>2, <2>3, FS_Union
      <3>2. Cardinality(U \cap N) = 0
        BY <1>10, FS_EmptySet
      <3>3. QED BY <1>3, <2>2, <2>3, <3>1, <3>2
    <2>5. phase' = phase /\ Cardinality(UnackedBytes') = Cardinality(UnackedBytes) + w
      BY <1>10, <2>4 DEF WriteData
    <2>6. QED BY <1>1, <1>3, <1>4, <2>3, <2>5 DEF IInv, Accounting, UnackedAccounting
  <1>12. Credit'
    BY <1>1, <1>3, <1>4, <1>5 DEF IInv, Credit, TypeOK, BuffersOK, WriteData
  <1>13. QED BY <1>6, <1>8, <1>9, <1>11, <1>12 DEF IInv, BufInv

\* A RESET_STREAM is acknowledged.
LEMMA AckResetStep ==
    ASSUME IInv, NEW s \in Streams, AckReset(s)
    PROVE  IInv'
  <1>1. TypeOK'
    <2>1. FlagsOK'
      BY Zenon DEF IInv, TypeOK, FlagsOK, AckReset
    <2>2. BuffersOK' /\ CountersOK'
      BY DEF IInv, TypeOK, BuffersOK, CountersOK, AckReset
    <2>3. ListsOK'
      BY DEF IInv, TypeOK, ListsOK, AckReset
    <2>4. QED BY <2>1, <2>2, <2>3 DEF IInv, TypeOK, States, AckReset
  <1>2. /\ \A t \in Streams :
             \/ state'[t] = state[t]
             \/ state[t] = "ResetSent" /\ state'[t] = "ResetAcked"
        /\ UNCHANGED <<bufVars, sent, phase>>
    <2>1. /\ state \in [Streams -> States]
          /\ state' = [state EXCEPT ![s] =
                         IF state[s] = "ResetSent" THEN "ResetAcked" ELSE state[s]]
          /\ UNCHANGED <<bufVars, sent, phase>>
      BY DEF IInv, TypeOK, AckReset
    <2>2. QED BY <2>1
  <1>3. \A t \in Streams :
          /\ state'[t] \in Open_ <=> state[t] \in Open_
          /\ state'[t] = "Unopened" => state[t] = "Unopened"
    BY <1>2 DEF Open_
  <1>4. BufInv'
    <2>1. Placement'
      <3> SUFFICES ASSUME NEW t \in Streams, state'[t] \in Open_
                   PROVE  Placed(t)'
        BY DEF Placement
      <3>1. state[t] \in Open_
        BY <1>3
      <3>2. Placed(t)
        BY <3>1 DEF IInv, BufInv, Placement
      <3>3. QED BY <1>2, <3>2 DEF Placed, InPkt
    <2>2. Fresh' /\ FramesOrdered' /\ EarlyClean'
      BY <1>2, <1>3 DEF IInv, BufInv, Fresh, FramesOrdered, EarlyClean
    <2>3. QED BY <2>1, <2>2 DEF BufInv
  <1>5. UnackedBytes' = UnackedBytes
    <2>1. \A t \in Streams : Unacked(t)' = Unacked(t)
      BY <1>2 DEF Unacked, Bytes
    <2>2. \A b \in Streams \X (0 .. (MaxOffset - 1)) :
              b[1] \in Streams /\ (state'[b[1]] \in Open_ <=> state[b[1]] \in Open_)
      BY <1>3
    <2>3. QED BY <2>1, <2>2 DEF UnackedBytes
  <1>6. Accounting' /\ Credit'
    BY <1>5 DEF IInv, Accounting, UnackedAccounting, Credit, AckReset
  <1>7. QED BY <1>1, <1>4, <1>6 DEF IInv

\* Removing the bytes T of stream s, all unacknowledged, from what
\* unacked_data counts takes Cardinality(T) off the count.
LEMMA UnackedRemoved ==
    ASSUME TypeOK, NEW s \in Streams, state[s] \in Open_,
           NEW T, T \subseteq Unacked(s)
    PROVE  /\ IsFiniteSet(T) /\ Cardinality(T) \in Nat
           /\ Cardinality(T) <= Cardinality(UnackedBytes)
           /\ Cardinality(UnackedBytes \ ({s} \X T))
                = Cardinality(UnackedBytes) - Cardinality(T)
  <1> USE BoundsAssumption
  <1> DEFINE N == {s} \X T
  <1>1. Unacked(s) \subseteq 0 .. (MaxOffset - 1)
    BY DEF TypeOK, BuffersOK, Unacked, Bytes
  <1>2. IsFiniteSet(0 .. (MaxOffset - 1))
    <2>1. MaxOffset - 1 \in Int
      OBVIOUS
    <2>2. QED BY <2>1, FS_Interval
  <1>3. IsFiniteSet(T) /\ Cardinality(T) \in Nat
    BY <1>1, <1>2, FS_Subset, FS_CardinalityType
  <1>4. IsFiniteSet(N) /\ Cardinality(N) = Cardinality(T)
    BY <1>3, TaggedCardinality
  <1>5. N \subseteq UnackedBytes
    BY <1>1 DEF UnackedBytes
  <1>6. IsFiniteSet(UnackedBytes) /\ Cardinality(UnackedBytes) \in Nat
    BY UnackedFinite
  <1>7. UnackedBytes \cap N = N
    BY <1>5
  <1>8. Cardinality(UnackedBytes \ N)
          = Cardinality(UnackedBytes) - Cardinality(UnackedBytes \cap N)
    BY <1>6, FS_Difference
  <1>9. Cardinality(N) <= Cardinality(UnackedBytes)
    BY <1>5, <1>6, FS_Subset
  <1>10. QED BY <1>3, <1>4, <1>7, <1>8, <1>9

\* Resetting a stream.
LEMMA ResetStep ==
    ASSUME IInv, NEW s \in Streams, Reset(s)
    PROVE  IInv'
  <1>1. /\ state[s] \in Open_ /\ state' = [state EXCEPT ![s] = "ResetSent"]
        /\ state \in [Streams -> States]
        /\ unackedData' = unackedData - Cardinality(Unacked(s))
        /\ UNCHANGED <<bufVars, sent, phase>>
    BY DEF IInv, TypeOK, Reset, Refund
  <1>2. /\ Cardinality(Unacked(s)) \in Nat
        /\ Cardinality(Unacked(s)) <= Cardinality(UnackedBytes)
        /\ Cardinality(UnackedBytes \ ({s} \X Unacked(s)))
             = Cardinality(UnackedBytes) - Cardinality(Unacked(s))
    BY <1>1, UnackedRemoved DEF IInv
  <1>3. Cardinality(UnackedBytes) \in Nat /\ unackedData \in Nat
    BY UnackedFinite DEF IInv, TypeOK, CountersOK
  <1>4. unackedData' \in Nat
    BY <1>1, <1>2, <1>3 DEF IInv, Accounting
  <1>5. TypeOK'
    <2>1. FlagsOK'
      BY Zenon DEF IInv, TypeOK, FlagsOK, Reset
    <2>2. BuffersOK' /\ CountersOK'
      BY <1>4 DEF IInv, TypeOK, BuffersOK, CountersOK, Reset
    <2>3. ListsOK'
      BY DEF IInv, TypeOK, ListsOK, Reset
    <2>4. QED BY <2>1, <2>2, <2>3 DEF IInv, TypeOK, States, Reset
  <1>6. BufInv'
    <2>1. Placement'
      <3> SUFFICES ASSUME NEW t \in Streams, state'[t] \in Open_
                   PROVE  Placed(t)'
        BY DEF Placement
      <3>1. state[t] \in Open_
        BY <1>1 DEF Open_
      <3>2. Placed(t)
        BY <3>1 DEF IInv, BufInv, Placement
      <3>3. QED BY <1>1, <3>2 DEF Placed, InPkt
    <2>2. Fresh' /\ FramesOrdered' /\ EarlyClean'
      BY <1>1 DEF IInv, BufInv, Fresh, FramesOrdered, EarlyClean, Open_
    <2>3. QED BY <2>1, <2>2 DEF BufInv
  <1>7. UnackedBytes' = UnackedBytes \ ({s} \X Unacked(s))
    <2>1. \A t \in Streams : Unacked(t)' = Unacked(t)
      BY <1>1 DEF Unacked, Bytes
    <2>2. \A t \in Streams : state'[t] \in Open_ <=> state[t] \in Open_ /\ t # s
      BY <1>1 DEF Open_
    <2>3. QED BY <2>1, <2>2 DEF UnackedBytes
  <1>8. Accounting'
    BY <1>1, <1>2, <1>3, <1>7 DEF IInv, Accounting, UnackedAccounting
  <1>9. Credit'
    BY DEF IInv, Credit, Reset
  <1>10. QED BY <1>5, <1>6, <1>8, <1>9 DEF IInv

\* Sending a STREAM frame.
LEMMA TransmitFrameStep ==
    ASSUME IInv, NEW p \in Pkts, TransmitFrame(p)
    PROVE  IInv'
  <1> USE BoundsAssumption, StreamsAssumption
  <1>1. PICK e \in Pops, room \in 1 .. MaxFrame, lo \in 0 .. MaxOffset, hi \in 0 .. MaxOffset :
          LET s == e.id
              fin == hi = offset[s] /\ state[s] = "DataSent"
              stillPending == \/ unsent'[s] # offset[s]
                              \/ retransmits'[s] # {}
                              \/ finPending'[s]
          IN  /\ state[s] \in Open_
              /\ PollTransmit(s, room, lo, hi)
              /\ finPending' = [finPending EXCEPT ![s] = @ /\ ~fin]
              /\ queue' = IF stillPending /\ Fair THEN Push(e.rest, s) ELSE e.rest
              /\ next' = IF stillPending /\ ~Fair THEN s ELSE NoStream
              /\ sent' = [sent EXCEPT ![p] =
                            [id |-> s, lo |-> lo, hi |-> hi, fin |-> fin]]
    BY DEF TransmitFrame
  <1> DEFINE s == e.id
             fin == hi = offset[s] /\ state[s] = "DataSent"
  <1>2. s \in Streams /\ e.rest \in Seq([id : Streams, prio : Int])
    BY PopsType DEF IInv, TypeOK
  <1>3. /\ state[s] \in Open_ /\ PollTransmit(s, room, lo, hi)
        /\ finPending' = [finPending EXCEPT ![s] = @ /\ ~fin]
        /\ sent' = [sent EXCEPT ![p] = [id |-> s, lo |-> lo, hi |-> hi, fin |-> fin]]
        /\ queue' = e.rest \/ queue' = Push(e.rest, s)
        /\ next' = s \/ next' = NoStream
    BY <1>1
  <1>4. /\ sent[p] = NoFrame
        /\ UNCHANGED <<state, base, offset, acks, unackedData, phase>>
    BY DEF TransmitFrame
  <1>5. fin \in BOOLEAN
    BY Zenon
  <1> HIDE DEF s, fin
  <1>6. /\ base[s] \in Nat /\ unsent[s] \in Nat /\ offset[s] \in 0 .. MaxOffset
        /\ retransmits[s] \subseteq 0 .. (MaxOffset - 1) /\ acks[s] \subseteq Int
        /\ sent \in [Pkts -> Frame \cup {NoFrame}]
        /\ retransmits \in [Streams -> SUBSET (0 .. (MaxOffset - 1))]
        /\ unsent \in [Streams -> 0 .. MaxOffset]
    BY <1>2 DEF IInv, TypeOK, BuffersOK
  <1>7. Placed(s)
    BY <1>2, <1>3 DEF IInv, BufInv, Placement
  \* The two ways to choose the range, told apart
  <1>8. \/ /\ lo < hi /\ Bytes(lo, hi) \subseteq retransmits[s]
           /\ retransmits' = [retransmits EXCEPT ![s] = retransmits[s] \ Bytes(lo, hi)]
           /\ unsent' = unsent
        \/ /\ lo = unsent[s] /\ lo <= hi /\ hi <= offset[s]
           /\ unsent' = [unsent EXCEPT ![s] = hi]
           /\ retransmits' = retransmits
    <2>1. CASE /\ \E end \in 0 .. MaxOffset :
                    /\ FirstRun(retransmits[s], lo, end)
                    /\ hi = Lesser(end, lo + room)
                    /\ retransmits' = [retransmits EXCEPT ![s] = PopRun(s, lo, hi, end)]
               /\ UNCHANGED unsent
      <3>1. PICK end \in 0 .. MaxOffset :
                /\ FirstRun(retransmits[s], lo, end)
                /\ hi = Lesser(end, lo + room)
                /\ retransmits' = [retransmits EXCEPT ![s] = retransmits[s] \ Bytes(lo, hi)]
        BY <2>1 DEF PopRun
      <3>2. lo < hi /\ hi <= end
        BY <3>1 DEF FirstRun, Lesser
      <3>3. Bytes(lo, hi) \subseteq Bytes(lo, end) /\ Bytes(lo, end) \subseteq retransmits[s]
        BY <3>1, <3>2 DEF FirstRun, Bytes
      <3>4. QED BY <2>1, <3>1, <3>2, <3>3
    <2>2. CASE /\ lo = unsent[s] /\ hi = Lesser(offset[s], lo + room)
               /\ unsent' = [unsent EXCEPT ![s] = hi]
               /\ UNCHANGED retransmits
      BY <2>2, <1>6, <1>7 DEF Lesser, Placed
    <2>3. QED BY <1>3, <2>1, <2>2 DEF PollTransmit
  <1>9. lo <= hi
    BY <1>8
  <1>10. /\ sent'[p].id = s /\ sent'[p].lo = lo /\ sent'[p].hi = hi
         /\ sent[p].id = NoStream
         /\ \A q \in Pkts : q # p => sent'[q] = sent[q]
    BY <1>3, <1>4, <1>6 DEF NoFrame
  <1>11. TypeOK'
    <2>1. FlagsOK'
      BY Zenon, <1>2, <1>3 DEF IInv, TypeOK, FlagsOK, TransmitFrame
    <2>2. BuffersOK'
      <3>1. /\ unsent' \in [Streams -> 0 .. MaxOffset]
            /\ retransmits' \in [Streams -> SUBSET (0 .. (MaxOffset - 1))]
        BY <1>2, <1>6, <1>8
      <3>2. UNCHANGED <<maxStreamData, peerHas>>
        BY DEF TransmitFrame
      <3>3. QED BY <1>4, <3>1, <3>2 DEF IInv, TypeOK, BuffersOK
    <2>3. CountersOK'
      BY DEF IInv, TypeOK, CountersOK, TransmitFrame
    <2>4. queue' \in Seq([id : Streams, prio : Int])
      <3>1. ListsOK
        BY DEF IInv, TypeOK
      <3>2. Push(e.rest, s) \in Seq([id : Streams, prio : Int])
        BY <1>2, <3>1, PushType
      <3>3. QED BY <1>2, <1>3, <3>2
    <2>5. ListsOK'
      BY <1>2, <1>3, <2>4 DEF IInv, TypeOK, ListsOK, TransmitFrame
    <2>6. [id |-> s, lo |-> lo, hi |-> hi, fin |-> fin] \in Frame
      BY <1>2, <1>5 DEF Frame
    <2>7. sent' \in [Pkts -> Frame \cup {NoFrame}]
      BY <1>3, <1>6, <2>6
    <2>8. QED BY <1>4, <2>1, <2>2, <2>3, <2>5, <2>7 DEF IInv, TypeOK
  <1>12. Placed(s)'
    <2>1. \A q \in Pkts, o \in Int :
            InPkt(q, s, o)' <=> IF q = p THEN lo <= o /\ o < hi ELSE InPkt(q, s, o)
      BY <1>10 DEF InPkt
    <2>2. \A o \in Int : ~InPkt(p, s, o)
      BY <1>2, <1>10 DEF InPkt
    <2>3. CASE /\ lo < hi /\ Bytes(lo, hi) \subseteq retransmits[s]
               /\ retransmits' = [retransmits EXCEPT ![s] = retransmits[s] \ Bytes(lo, hi)]
               /\ unsent' = unsent
      <3>1. \A o \in Int : lo <= o /\ o < hi => o \in retransmits[s]
        BY <2>3 DEF Bytes
      <3>2. \A o \in Int : o \in retransmits'[s]
                             <=> o \in retransmits[s] /\ ~(lo <= o /\ o < hi)
        BY <2>3, <1>2, <1>6 DEF Bytes
      <3>3. QED BY <1>4, <1>6, <1>7, <2>1, <2>2, <2>3, <3>1, <3>2 DEF Placed
    <2>4. CASE /\ lo = unsent[s] /\ lo <= hi /\ hi <= offset[s]
               /\ unsent' = [unsent EXCEPT ![s] = hi]
               /\ retransmits' = retransmits
      <3>1. unsent'[s] = hi
        BY <2>4, <1>2, <1>6
      <3>2. QED BY <1>4, <1>6, <1>7, <2>1, <2>2, <2>4, <3>1 DEF Placed
    <2>5. QED BY <1>8, <2>3, <2>4
  <1>13. Placement'
    <2> SUFFICES ASSUME NEW t \in Streams, t # s, state'[t] \in Open_
                 PROVE  Placed(t)'
      BY <1>12 DEF Placement
    <2>1. Placed(t)
      BY <1>4 DEF IInv, BufInv, Placement
    <2>2. unsent'[t] = unsent[t] /\ retransmits'[t] = retransmits[t]
      BY <1>2, <1>6, <1>8
    <2>3. \A q \in Pkts, o \in Int : InPkt(q, t, o)' <=> InPkt(q, t, o)
      BY <1>2, <1>10 DEF InPkt
    <2>4. QED BY <1>4, <2>1, <2>2, <2>3 DEF Placed
  <1>14. Fresh'
    <2> SUFFICES ASSUME NEW t \in Streams, state'[t] = "Unopened"
                 PROVE  /\ base'[t] = 0 /\ unsent'[t] = 0 /\ offset'[t] = 0
                        /\ acks'[t] = {} /\ retransmits'[t] = {}
                        /\ \A q \in Pkts : sent'[q].id # t
      BY DEF Fresh
    <2>1. t # s /\ state[t] = "Unopened"
      BY <1>3, <1>4 DEF Open_
    <2>2. unsent'[t] = unsent[t] /\ retransmits'[t] = retransmits[t]
      BY <1>2, <1>6, <1>8, <2>1
    <2>3. \A q \in Pkts : sent'[q].id # t
      BY <1>10, <2>1 DEF IInv, BufInv, Fresh
    <2>4. QED BY <1>4, <2>1, <2>2, <2>3 DEF IInv, BufInv, Fresh
  <1>15. FramesOrdered'
    BY <1>9, <1>10 DEF IInv, BufInv, FramesOrdered
  <1>16. EarlyClean'
    <2> SUFFICES ASSUME phase = "early", NEW t \in Streams
                 PROVE  base'[t] = 0 /\ acks'[t] = {} /\ retransmits'[t] = {}
      BY <1>4 DEF EarlyClean
    <2>1. \A t1 \in Streams : base[t1] = 0 /\ acks[t1] = {} /\ retransmits[t1] = {}
      BY DEF IInv, BufInv, EarlyClean
    <2>2. retransmits' = retransmits \/ (Bytes(lo, hi) \subseteq {} /\ lo < hi)
      <3>1. retransmits[s] = {}
        BY <1>2, <2>1
      <3>2. QED BY <1>8, <3>1
    <2>3. lo < hi => lo \in Bytes(lo, hi)
      BY DEF Bytes
    <2>4. QED BY <1>4, <2>1, <2>2, <2>3
  <1>17. Accounting'
    <2>1. UnackedBytes' = UnackedBytes
      BY <1>4 DEF UnackedBytes, Unacked, Bytes
    <2>2. QED BY <1>4, <2>1 DEF IInv, Accounting, UnackedAccounting
  <1>18. Credit'
    BY DEF IInv, Credit, TransmitFrame
  <1>19. QED BY <1>11, <1>13, <1>14, <1>15, <1>16, <1>17, <1>18 DEF IInv, BufInv

\* What a packet that carries a STREAM frame looks like.
LEMMA FrameFacts ==
    ASSUME IInv, NEW p \in Pkts, sent[p] # NoFrame
    PROVE  /\ sent[p].id \in Streams
           /\ sent[p].lo \in 0 .. MaxOffset /\ sent[p].hi \in 0 .. MaxOffset
           /\ sent[p].fin \in BOOLEAN
           /\ sent[p].lo <= sent[p].hi
           /\ state[sent[p].id] # "Unopened"
  <1>1. sent[p] \in Frame
    BY DEF IInv, TypeOK
  <1>2. sent[p].id \in Streams
    BY <1>1 DEF Frame
  <1>3. sent[p].lo \in 0 .. MaxOffset /\ sent[p].hi \in 0 .. MaxOffset
    BY <1>1 DEF Frame
  <1>4. sent[p].fin \in BOOLEAN
    BY <1>1 DEF Frame
  <1>5. sent[p].lo <= sent[p].hi
    BY DEF IInv, BufInv, FramesOrdered
  <1>6. state[sent[p].id] # "Unopened"
    BY <1>2 DEF IInv, BufInv, Fresh
  <1>7. QED BY <1>2, <1>3, <1>4, <1>5, <1>6

\* A packet leaves the set of packets in flight.
LEMMA PacketGone ==
    ASSUME IInv, NEW p \in Pkts, sent' = [sent EXCEPT ![p] = NoFrame]
    PROVE  /\ sent' \in [Pkts -> Frame \cup {NoFrame}]
           /\ \A q \in Pkts : q # p => sent'[q] = sent[q]
           /\ sent'[p].id = NoStream /\ FramesOrdered'
           /\ \A q \in Pkts, t \in Streams, o \in Int :
                InPkt(q, t, o)' <=> q # p /\ InPkt(q, t, o)
           /\ \A q \in Pkts, t \in Streams : sent'[q].id = t => sent[q].id = t
  <1> USE StreamsAssumption
  <1>1. sent \in [Pkts -> Frame \cup {NoFrame}]
    BY DEF IInv, TypeOK
  <1>2. /\ \A q \in Pkts : q # p => sent'[q] = sent[q]
        /\ sent'[p].id = NoStream /\ sent'[p].lo = 0 /\ sent'[p].hi = 0
    BY <1>1 DEF NoFrame
  <1>3. FramesOrdered'
    BY <1>2 DEF IInv, BufInv, FramesOrdered
  <1>4. QED BY <1>1, <1>2, <1>3 DEF InPkt

\* A packet is declared lost.
LEMMA LoseStep ==
    ASSUME IInv, NEW p \in Pkts, Lose(p)
    PROVE  IInv'
  <1> USE BoundsAssumption, StreamsAssumption
  <1>0. sent[p] \in Frame /\ sent[p] # NoFrame
    BY DEF IInv, TypeOK, Lose
  <1> PICK f \in Frame : f = sent[p]
    BY <1>0
  <1> DEFINE s == f.id
             lost == Bytes(Greater(f.lo, base[s]), f.hi)
  <1>1. /\ phase # "early" /\ f # NoFrame
        /\ sent' = [sent EXCEPT ![p] = NoFrame]
        /\ UNCHANGED <<state, base, unsent, offset, acks, unackedData, phase>>
    BY DEF Lose
  <1>2. /\ s \in Streams /\ f.lo \in 0 .. MaxOffset /\ f.hi \in 0 .. MaxOffset
        /\ f.fin \in BOOLEAN /\ f.lo <= f.hi /\ state[s] # "Unopened"
    BY <1>1, FrameFacts
  <1>3. /\ sent' \in [Pkts -> Frame \cup {NoFrame}]
        /\ \A q \in Pkts, t \in Streams, o \in Int :
             InPkt(q, t, o)' <=> q # p /\ InPkt(q, t, o)
        /\ \A q \in Pkts, t \in Streams : sent'[q].id = t => sent[q].id = t
        /\ FramesOrdered'
    BY <1>1, PacketGone
  <1>4. \/ /\ state[s] \in Live
           /\ retransmits' = [retransmits EXCEPT ![s] = retransmits[s] \cup lost]
        \/ state[s] \notin Live /\ retransmits' = retransmits
    BY DEF Lose
  <1>5. /\ queue' = queue \/ queue' = Push(queue, s)
        /\ finPending' = finPending
             \/ finPending' = [finPending EXCEPT ![s] = finPending[s] \/ f.fin]
    BY DEF Lose, PushIfIdle, LostFin
  <1>6. \A o \in Int : InPkt(p, s, o) <=> f.lo <= o /\ o < f.hi
    BY DEF InPkt
  <1>7. /\ retransmits \in [Streams -> SUBSET (0 .. (MaxOffset - 1))]
        /\ base[s] \in Nat /\ unsent[s] \in Nat /\ acks[s] \subseteq Int
    BY <1>2 DEF IInv, TypeOK, BuffersOK
  <1>8. \A o \in Int : o \in lost <=> f.lo <= o /\ base[s] <= o /\ o < f.hi
    BY <1>2, <1>7 DEF Bytes, Greater
  <1>9. lost \subseteq 0 .. (MaxOffset - 1)
    BY <1>2, <1>7 DEF Bytes, Greater
  <1> HIDE DEF s, lost
  <1>10. retransmits' \in [Streams -> SUBSET (0 .. (MaxOffset - 1))]
    BY <1>2, <1>4, <1>7, <1>9
  <1>11. TypeOK'
    <2>1. FlagsOK'
      BY Zenon, <1>2, <1>5 DEF IInv, TypeOK, FlagsOK, Lose
    <2>2. BuffersOK'
      BY <1>1, <1>10 DEF IInv, TypeOK, BuffersOK, Lose
    <2>3. CountersOK'
      BY DEF IInv, TypeOK, CountersOK, Lose
    <2>4. queue' \in Seq([id : Streams, prio : Int])
      <3>1. ListsOK /\ queue \in Seq([id : Streams, prio : Int])
        BY DEF IInv, TypeOK, ListsOK
      <3>2. QED BY <1>2, <1>5, <3>1, PushType
    <2>5. ListsOK'
      BY <2>4 DEF IInv, TypeOK, ListsOK, Lose
    <2>6. QED BY <1>1, <1>3, <2>1, <2>2, <2>3, <2>5 DEF IInv, TypeOK
  <1>12. ASSUME state[s] \in Open_
         PROVE  Placed(s)'
    <2>1. Placed(s)
      BY <1>2, <1>12 DEF IInv, BufInv, Placement
    <2>2. retransmits'[s] = retransmits[s] \cup lost
      BY <1>2, <1>4, <1>7, <1>12 DEF Live
    <2>3. \A o \in Int : o \in lost <=> InPkt(p, s, o)
      BY <1>6, <1>7, <1>8, <2>1 DEF Placed
    <2>4. \A o \in Int : o \in retransmits'[s] <=> o \in retransmits[s] \/ InPkt(p, s, o)
      BY <2>2, <2>3
    <2>5. \A q \in Pkts, o \in Int : InPkt(q, s, o)' <=> q # p /\ InPkt(q, s, o)
      BY <1>2, <1>3
    <2>6. QED BY <1>1, <2>1, <2>4, <2>5 DEF Placed
  <1>13. Placement'
    <2> SUFFICES ASSUME NEW t \in Streams, t # s, state'[t] \in Open_
                 PROVE  Placed(t)'
      BY <1>1, <1>12 DEF Placement
    <2>1. Placed(t)
      BY <1>1 DEF IInv, BufInv, Placement
    <2>2. retransmits'[t] = retransmits[t]
      BY <1>2, <1>4, <1>7
    <2>3. \A q \in Pkts, o \in Int : InPkt(q, t, o)' <=> InPkt(q, t, o)
      BY <1>3 DEF InPkt, s
    <2>4. QED BY <1>1, <2>1, <2>2, <2>3 DEF Placed
  <1>14. Fresh'
    <2> SUFFICES ASSUME NEW t \in Streams, state[t] = "Unopened"
                 PROVE  /\ base[t] = 0 /\ unsent[t] = 0 /\ offset[t] = 0
                        /\ acks[t] = {} /\ retransmits'[t] = {}
                        /\ \A q \in Pkts : sent'[q].id # t
      BY <1>1 DEF Fresh
    <2>1. retransmits'[t] = retransmits[t]
      BY <1>2, <1>4, <1>7
    <2>2. QED BY <1>3, <2>1 DEF IInv, BufInv, Fresh
  <1>15. EarlyClean'
    BY <1>1 DEF EarlyClean
  <1>16. Accounting'
    <2>1. UnackedBytes' = UnackedBytes
      BY <1>1 DEF UnackedBytes, Unacked, Bytes
    <2>2. QED BY <1>1, <2>1 DEF IInv, Accounting, UnackedAccounting
  <1>17. Credit'
    BY DEF IInv, Credit, Lose
  <1>18. QED BY <1>3, <1>11, <1>13, <1>14, <1>15, <1>16, <1>17 DEF IInv, BufInv

\* A packet is acknowledged whose stream is reset or gone.
LEMMA AckClosedStep ==
    ASSUME IInv, NEW p \in Pkts, Ack(p), state[sent[p].id] \notin Open_
    PROVE  IInv'
  <1> USE BoundsAssumption, StreamsAssumption
  <1>0. sent[p] \in Frame /\ sent[p] # NoFrame
    BY DEF IInv, TypeOK, Ack
  <1> PICK f \in Frame : f = sent[p]
    BY <1>0
  <1>1. /\ sent' = [sent EXCEPT ![p] = NoFrame]
        /\ peerHas' = [peerHas EXCEPT ![f.id] = peerHas[f.id] \cup Bytes(f.lo, f.hi)]
        /\ peerFin' = IF f.fin THEN peerFin \cup {f.id} ELSE peerFin
        /\ UNCHANGED <<state, base, unsent, offset, acks, retransmits,
                       unackedData, phase, finAcked>>
    BY DEF Ack, AckApplies
  <1>2. /\ f.id \in Streams /\ f.lo \in 0 .. MaxOffset /\ f.hi \in 0 .. MaxOffset
    BY <1>0, FrameFacts
  <1>3. /\ sent' \in [Pkts -> Frame \cup {NoFrame}]
        /\ \A q \in Pkts, t \in Streams, o \in Int :
             InPkt(q, t, o)' <=> q # p /\ InPkt(q, t, o)
        /\ \A q \in Pkts, t \in Streams : sent'[q].id = t => sent[q].id = t
        /\ FramesOrdered'
    BY <1>1, PacketGone
  <1>4. TypeOK'
    <2>1. FlagsOK'
      BY Zenon, <1>1 DEF IInv, TypeOK, FlagsOK, Ack
    <2>2. Bytes(f.lo, f.hi) \subseteq 0 .. (MaxOffset - 1)
      BY <1>2 DEF Bytes
    <2>3. BuffersOK'
      BY <1>1, <1>2, <2>2 DEF IInv, TypeOK, BuffersOK, Ack
    <2>4. CountersOK'
      BY <1>1 DEF IInv, TypeOK, CountersOK, Ack
    <2>5. ListsOK'
      BY <1>1, <1>2 DEF IInv, TypeOK, ListsOK, Ack
    <2>6. QED BY <1>1, <1>3, <2>1, <2>3, <2>4, <2>5 DEF IInv, TypeOK
  <1>5. Placement'
    <2> SUFFICES ASSUME NEW t \in Streams, state'[t] \in Open_
                 PROVE  Placed(t)'
      BY DEF Placement
    <2>1. Placed(t) /\ t # f.id
      BY <1>1 DEF IInv, BufInv, Placement
    <2>2. \A q \in Pkts, o \in Int : InPkt(q, t, o)' <=> InPkt(q, t, o)
      BY <1>3, <2>1 DEF InPkt
    <2>3. QED BY <1>1, <2>1, <2>2 DEF Placed
  <1>6. Fresh' /\ EarlyClean'
    BY <1>1, <1>3 DEF IInv, BufInv, Fresh, EarlyClean
  <1>7. Accounting'
    <2>1. UnackedBytes' = UnackedBytes
      BY <1>1 DEF UnackedBytes, Unacked, Bytes
    <2>2. QED BY <1>1, <2>1 DEF IInv, Accounting, UnackedAccounting
  <1>8. Credit'
    BY DEF IInv, Credit, Ack
  <1>9. QED BY <1>3, <1>4, <1>5, <1>6, <1>7, <1>8 DEF IInv, BufInv

\* A packet is acknowledged whose stream is open.
LEMMA AckOpenStep ==
    ASSUME IInv, NEW p \in Pkts, Ack(p), state[sent[p].id] \in Open_
    PROVE  IInv'
  <1> USE BoundsAssumption, StreamsAssumption
  <1>0. sent[p] \in Frame /\ sent[p] # NoFrame
    BY DEF IInv, TypeOK, Ack
  <1> PICK f \in Frame : f = sent[p]
    BY <1>0
  <1> DEFINE s == f.id
             T == Bytes(f.lo, f.hi)
  <1>1. /\ phase # "early"
        /\ sent' = [sent EXCEPT ![p] = NoFrame]
        /\ peerHas' = [peerHas EXCEPT ![s] = peerHas[s] \cup T]
        /\ peerFin' = IF f.fin THEN peerFin \cup {s} ELSE peerFin
        /\ UNCHANGED <<unsent, offset, phase>>
        /\ ReceivedAckOf(f)
    BY DEF Ack, AckApplies
  <1>2. /\ s \in Streams /\ f.lo \in 0 .. MaxOffset /\ f.hi \in 0 .. MaxOffset
        /\ f.fin \in BOOLEAN /\ f.lo <= f.hi /\ state[s] \in Open_
    BY <1>0, FrameFacts
  <1>3. /\ sent' \in [Pkts -> Frame \cup {NoFrame}]
        /\ \A q \in Pkts, t \in Streams, o \in Int :
             InPkt(q, t, o)' <=> q # p /\ InPkt(q, t, o)
        /\ \A q \in Pkts, t \in Streams : sent'[q].id = t => sent[q].id = t
        /\ FramesOrdered'
    BY <1>1, PacketGone
  <1>4. PICK b \in 0 .. MaxOffset :
          /\ unackedData' = unackedData - (f.hi - f.lo)
          /\ AckBuffer(s, f.lo, f.hi, b)
          /\ finAcked' = [finAcked EXCEPT ![s] =
                            finAcked[s] \/ (state[s] = "DataSent" /\ f.fin)]
          /\ \/ state' = state
             \/ (b = offset[s] /\ state' = [state EXCEPT ![s] = "Finished"])
    BY Zenon, <1>1 DEF ReceivedAckOf, AllAcked
  <1> DEFINE acked == acks[s] \cup Bytes(Greater(base[s], f.lo), Greater(base[s], f.hi))
  <1>5. /\ base[s] <= b /\ Bytes(base[s], b) \subseteq acked /\ b \notin acked
        /\ base' = [base EXCEPT ![s] = b]
        /\ acks' = [acks EXCEPT ![s] = acked \ Bytes(0, b)]
        /\ retransmits' = [retransmits EXCEPT ![s] = retransmits[s] \ Bytes(0, b)]
    BY <1>4 DEF AckBuffer
  <1>6. /\ base \in [Streams -> 0 .. MaxOffset]
        /\ acks \in [Streams -> SUBSET (0 .. (MaxOffset - 1))]
        /\ retransmits \in [Streams -> SUBSET (0 .. (MaxOffset - 1))]
        /\ unsent[s] \in Nat /\ offset[s] \in Nat
        /\ state \in [Streams -> States]
    BY <1>2 DEF IInv, TypeOK, BuffersOK
  <1>7. \A o \in Int : InPkt(p, s, o) <=> f.lo <= o /\ o < f.hi
    BY DEF InPkt
  <1>8. Placed(s)
    BY <1>2 DEF IInv, BufInv, Placement
  <1>9. \A o \in Int : o \in acked <=> o \in acks[s] \/ InPkt(p, s, o)
    <2>1. \A o \in Int : InPkt(p, s, o) => base[s] <= o
      BY <1>8 DEF Placed
    <2>2. base[s] \in Int
      BY <1>2, <1>6
    <2>3. QED BY <1>2, <1>7, <2>1, <2>2 DEF Bytes, Greater
  <1>10. acked \subseteq 0 .. (MaxOffset - 1) /\ T \subseteq 0 .. (MaxOffset - 1)
    <2>1. base[s] \in 0 .. MaxOffset /\ acks[s] \subseteq 0 .. (MaxOffset - 1)
      BY <1>2, <1>6
    <2>2. QED BY <1>2, <2>1 DEF Bytes, Greater
  <1>11. \A o \in Int : o \in T <=> InPkt(p, s, o)
    BY <1>2, <1>7 DEF Bytes
  <1>12. /\ base'[s] = b
         /\ \A o \in Int : o \in acks'[s] <=> (o \in acks[s] \/ InPkt(p, s, o)) /\ b <= o
         /\ \A o \in Int : o \in retransmits'[s] <=> o \in retransmits[s] /\ b <= o
    <2>1. \A o \in Int : o \in acks[s] \/ o \in retransmits[s] \/ InPkt(p, s, o) => 0 <= o
      BY <1>2, <1>6, <1>7
    <2>2. /\ base'[s] = b /\ acks'[s] = acked \ Bytes(0, b)
          /\ retransmits'[s] = retransmits[s] \ Bytes(0, b)
      BY <1>2, <1>5, <1>6
    <2>3. QED BY <1>9, <2>1, <2>2 DEF Bytes
  \* Everything between the old and the new base was acknowledged.
  <1>13. \A o \in Int : base[s] <= o /\ o < b => o \in acks[s] \/ InPkt(p, s, o)
    <2>1. base[s] \in Int
      BY <1>2, <1>6
    <2>2. QED BY <1>5, <1>9, <2>1 DEF Bytes
  <1>14. b <= unsent[s]
    <2>1. base[s] \in Nat
      BY <1>2, <1>6
    <2>2. QED BY <1>6, <1>8, <1>13, <2>1 DEF Placed
  <1>15. T \subseteq Unacked(s)
    <2>1. \A o \in Int : InPkt(p, s, o) =>
            base[s] <= o /\ o < offset[s] /\ o \notin acks[s]
      BY <1>6, <1>8 DEF Placed
    <2>2. base[s] \in Int
      BY <1>2, <1>6
    <2>3. QED BY <1>6, <1>10, <1>11, <2>1, <2>2 DEF Unacked, Bytes
  <1>16. Cardinality(T) = f.hi - f.lo
    BY <1>2, BytesCardinality
  <1>17. /\ Cardinality(T) <= Cardinality(UnackedBytes)
         /\ Cardinality(UnackedBytes \ ({s} \X T))
              = Cardinality(UnackedBytes) - Cardinality(T)
    BY <1>2, <1>15, UnackedRemoved DEF IInv
  <1>18. Cardinality(UnackedBytes) \in Nat /\ unackedData \in Nat
    BY UnackedFinite DEF IInv, TypeOK, CountersOK
  <1>19. unackedData' \in Nat
    BY <1>2, <1>4, <1>16, <1>17, <1>18 DEF IInv, Accounting
  <1> HIDE DEF s, T, acked
  <1>20. /\ state' \in [Streams -> States]
         /\ \A t \in Streams :
              \/ state'[t] = state[t]
              \/ (t = s /\ b = offset[s] /\ state'[t] = "Finished")
    BY <1>2, <1>4, <1>6 DEF States
  <1>21. TypeOK'
    <2>1. finAcked' \in [Streams -> BOOLEAN]
      <3>1. finAcked \in [Streams -> BOOLEAN]
        BY DEF IInv, TypeOK, FlagsOK
      <3>2. QED BY Zenon, <1>2, <1>4, <3>1
    <2>2. FlagsOK'
      BY Zenon, <2>1 DEF IInv, TypeOK, FlagsOK, Ack
    <2>3. /\ base' \in [Streams -> 0 .. MaxOffset]
          /\ acks' \in [Streams -> SUBSET (0 .. (MaxOffset - 1))]
          /\ retransmits' \in [Streams -> SUBSET (0 .. (MaxOffset - 1))]
      BY <1>2, <1>5, <1>6, <1>10
    <2>4. peerHas' \in [Streams -> SUBSET (0 .. (MaxOffset - 1))]
      BY <1>1, <1>2, <1>10 DEF IInv, TypeOK, BuffersOK
    <2>5. BuffersOK'
      BY <1>1, <2>3, <2>4 DEF IInv, TypeOK, BuffersOK, Ack
    <2>6. CountersOK'
      BY <1>19 DEF IInv, TypeOK, CountersOK, Ack
    <2>7. ListsOK'
      BY <1>1, <1>2 DEF IInv, TypeOK, ListsOK, Ack
    <2>8. QED BY <1>1, <1>3, <1>20, <2>2, <2>5, <2>6, <2>7 DEF IInv, TypeOK
  <1>22. Placed(s)'
    <2>1. \A q \in Pkts, o \in Int : InPkt(q, s, o)' <=> q # p /\ InPkt(q, s, o)
      BY <1>2, <1>3
    <2>2. base[s] \in Nat
      BY <1>2, <1>6
    <2>3. \A o \in Int : o \in retransmits[s] => b <= o
      BY <1>5, <1>8, <1>13, <2>2 DEF Placed
    <2>4. \A q \in Pkts, o \in Int : q # p /\ InPkt(q, s, o) => b <= o
      BY <1>5, <1>8, <1>13, <2>2 DEF Placed
    <2>5. b <= unsent'[s] /\ unsent'[s] <= offset'[s]
      BY <1>1, <1>8, <1>14 DEF Placed
    <2>6. QED BY <1>1, <1>5, <1>6, <1>8, <1>12, <2>1, <2>2, <2>3, <2>4, <2>5 DEF Placed
  <1>23. \A t \in Streams : t # s =>
           /\ base'[t] = base[t] /\ acks'[t] = acks[t]
           /\ retransmits'[t] = retransmits[t] /\ state'[t] = state[t]
    BY <1>5, <1>6, <1>20
  <1>24. Placement'
    <2> SUFFICES ASSUME NEW t \in Streams, t # s, state'[t] \in Open_
                 PROVE  Placed(t)'
      BY <1>22 DEF Placement
    <2>1. Placed(t)
      BY <1>23 DEF IInv, BufInv, Placement
    <2>2. \A q \in Pkts, o \in Int : InPkt(q, t, o)' <=> InPkt(q, t, o)
      BY <1>3 DEF InPkt, s
    <2>3. QED BY <1>1, <1>23, <2>1, <2>2 DEF Placed
  <1>25. Fresh'
    <2> SUFFICES ASSUME NEW t \in Streams, state'[t] = "Unopened"
                 PROVE  /\ base'[t] = 0 /\ unsent[t] = 0 /\ offset[t] = 0
                        /\ acks'[t] = {} /\ retransmits'[t] = {}
                        /\ \A q \in Pkts : sent'[q].id # t
      BY <1>1 DEF Fresh
    <2>1. t # s /\ state[t] = "Unopened"
      BY <1>2, <1>20 DEF Open_
    <2>2. QED BY <1>3, <1>23, <2>1 DEF IInv, BufInv, Fresh
  <1>26. EarlyClean'
    BY <1>1 DEF EarlyClean
  <1>27. UnackedBytes' = UnackedBytes \ ({s} \X T)
    <2>1. ASSUME NEW t \in Streams, NEW o \in 0 .. (MaxOffset - 1)
          PROVE  state'[t] \in Open_ /\ o \in Unacked(t)'
                   <=> state[t] \in Open_ /\ o \in Unacked(t) /\ ~(t = s /\ o \in T)
      <3>1. CASE t # s
        <4>1. Unacked(t)' = Unacked(t)
          BY <1>1, <1>23, <3>1 DEF Unacked, Bytes
        <4>2. QED BY <1>23, <3>1, <4>1
      <3>2. CASE t = s
        <4>1. /\ base[s] \in Int /\ offset'[s] = offset[s]
          BY <1>1, <1>2, <1>6
        <4>2. o \in Unacked(s)' <=> b <= o /\ o < offset[s]
                                    /\ o \notin acks[s] /\ ~InPkt(p, s, o)
          BY <1>6, <1>12, <4>1 DEF Unacked, Bytes
        <4>3. o \in Unacked(s) <=> base[s] <= o /\ o < offset[s] /\ o \notin acks[s]
          BY <1>6, <4>1 DEF Unacked, Bytes
        <4>4. o \in Unacked(s)' <=> o \in Unacked(s) /\ o \notin T
          BY <1>5, <1>11, <1>13, <4>1, <4>2, <4>3
        <4>5. b = offset[s] => o \notin Unacked(s)'
          BY <1>6, <4>2
        <4>6. QED BY <1>2, <1>20, <3>2, <4>4, <4>5
      <3>3. QED BY <3>1, <3>2
    <2>2. QED BY <2>1 DEF UnackedBytes
  <1>28. Accounting'
    BY <1>1, <1>2, <1>4, <1>16, <1>17, <1>18, <1>27
       DEF IInv, Accounting, UnackedAccounting
  <1>29. Credit'
    BY DEF IInv, Credit, Ack
  <1>30. QED BY <1>3, <1>21, <1>24, <1>25, <1>26, <1>28, <1>29 DEF IInv, BufInv

\* A Retry starts over with the data of every stream.
LEMMA RetryStep ==
    ASSUME IInv, Retry
    PROVE  IInv'
  <1> USE BoundsAssumption, StreamsAssumption
  <1> DEFINE again == {s \in Streams : StartOver(s)}
             push == {s \in again : ~IsPending(s)}
             N == Cardinality(push)
  <1>1. /\ phase = "early"
        /\ sent' = [p \in Pkts |-> NoFrame]
        /\ unsent' = [s \in Streams |-> IF s \in again THEN 0 ELSE unsent[s]]
        /\ UNCHANGED <<state, base, offset, acks, retransmits, unackedData, phase>>
        /\ resetPending' = resetPending \cup resetInFlight /\ resetInFlight' = {}
    BY DEF Retry
  <1>2. PICK order \in [1 .. N -> push] :
          queue' = queue \o [i \in 1 .. N |->
                     [id |-> order[i], prio |-> priority[order[i]]]]
    BY DEF Retry
  <1>3. N \in Nat
    <2>1. IsFiniteSet(push)
      BY FS_Subset
    <2>2. QED BY <2>1, FS_CardinalityType
  <1>4. push \subseteq Streams
    OBVIOUS
  <1> HIDE DEF push, N
  <1>5. queue' \in Seq([id : Streams, prio : Int])
    <2> DEFINE R == [id : Streams, prio : Int]
               new == [i \in 1 .. N |-> [id |-> order[i], prio |-> priority[order[i]]]]
    <2>1. queue \in Seq(R) /\ priority \in [Streams -> Int]
      BY DEF IInv, TypeOK, ListsOK
    <2>2. \A i \in 1 .. N : [id |-> order[i], prio |-> priority[order[i]]] \in R
      BY <1>4, <2>1
    <2>3. new \in [1 .. N -> R]
      BY <2>2
    <2>4. new \in Seq(R)
      BY <1>3, <2>3
    <2> HIDE DEF R, new
    <2>5. queue \o new \in Seq(R)
      BY <2>1, <2>4
    <2>6. QED BY <1>2, <2>5 DEF R, new
  <1>6. TypeOK'
    <2>1. FlagsOK'
      BY Zenon DEF IInv, TypeOK, FlagsOK, Retry
    <2>2. BuffersOK'
      BY <1>1 DEF IInv, TypeOK, BuffersOK, Retry
    <2>3. CountersOK'
      BY DEF IInv, TypeOK, CountersOK, Retry
    <2>4. ListsOK'
      BY <1>1, <1>5 DEF IInv, TypeOK, ListsOK, Retry
    <2>5. QED BY <1>1, <2>1, <2>2, <2>3, <2>4 DEF IInv, TypeOK
  <1>7. \A p \in Pkts : sent'[p].id = NoStream /\ sent'[p].lo = 0 /\ sent'[p].hi = 0
    BY <1>1 DEF NoFrame
  <1>8. \A p \in Pkts, t \in Streams, o \in Int : ~InPkt(p, t, o)'
    BY <1>7 DEF InPkt
  <1>9. \A t \in Streams : base[t] = 0 /\ acks[t] = {} /\ retransmits[t] = {}
    BY <1>1 DEF IInv, BufInv, EarlyClean
  <1>10. Placement'
    <2> SUFFICES ASSUME NEW t \in Streams, state[t] \in Open_
                 PROVE  Placed(t)'
      BY <1>1 DEF Placement
    <2>1. Placed(t) /\ unsent[t] \in Nat /\ offset[t] \in Nat
      BY DEF IInv, BufInv, Placement, TypeOK, BuffersOK
    <2>2. unsent'[t] = 0
      BY <1>1, <1>9, <2>1 DEF Placed, Live, StartOver
    <2>3. QED BY <1>1, <1>8, <1>9, <2>1, <2>2 DEF Placed
  <1>11. Fresh'
    <2> SUFFICES ASSUME NEW t \in Streams, state[t] = "Unopened"
                 PROVE  /\ base[t] = 0 /\ unsent'[t] = 0 /\ offset[t] = 0
                        /\ acks[t] = {} /\ retransmits[t] = {}
      BY <1>1, <1>7 DEF Fresh
    <2>1. QED BY <1>1 DEF IInv, BufInv, Fresh
  <1>12. FramesOrdered' /\ EarlyClean'
    BY <1>1, <1>7, <1>9 DEF FramesOrdered, EarlyClean
  <1>13. Accounting'
    <2>1. UnackedBytes' = UnackedBytes
      BY <1>1 DEF UnackedBytes, Unacked, Bytes
    <2>2. QED BY <1>1, <2>1 DEF IInv, Accounting, UnackedAccounting
  <1>14. Credit'
    BY DEF IInv, Credit, Retry
  <1>15. QED BY <1>6, <1>10, <1>11, <1>12, <1>13, <1>14 DEF IInv, BufInv

\* 0-RTT is rejected.
LEMMA ZeroRttRejectedStep ==
    ASSUME IInv, NEW n \in RejectLimits, ZeroRttRejected(n)
    PROVE  IInv'
  <1> USE BoundsAssumption, StreamsAssumption
  <1>1. TypeOK'
    <2>1. FlagsOK'
      BY Zenon DEF IInv, TypeOK, FlagsOK, ZeroRttRejected
    <2>2. BuffersOK'
      BY DEF IInv, TypeOK, BuffersOK, ZeroRttRejected
    <2>3. CountersOK'
      BY DEF IInv, TypeOK, CountersOK, ZeroRttRejected, Greater
    <2>4. queue' \in Seq([id : Streams, prio : Int]) /\ connBlocked' \in Seq(Streams)
      BY DEF ZeroRttRejected
    <2>5. ListsOK'
      BY <2>4 DEF IInv, TypeOK, ListsOK, ZeroRttRejected
    <2>6. /\ state' \in [Streams -> States] /\ phase' = "rejected"
          /\ sent' \in [Pkts -> Frame \cup {NoFrame}]
      BY DEF ZeroRttRejected, States
    <2>7. QED BY <2>1, <2>2, <2>3, <2>5, <2>6 DEF TypeOK
  <1>2. \A s \in Streams : state'[s] = "Unopened"
    BY DEF ZeroRttRejected
  <1>3. BufInv'
    <2>1. Placement'
      BY <1>2 DEF Placement, Open_
    <2>2. Fresh' /\ FramesOrdered' /\ EarlyClean'
      BY DEF ZeroRttRejected, Fresh, FramesOrdered, EarlyClean, NoFrame
    <2>3. QED BY <2>1, <2>2 DEF BufInv
  <1>4. Accounting'
    <2>1. UnackedBytes' = {}
      BY <1>2 DEF UnackedBytes, Open_
    <2>2. Cardinality(UnackedBytes') = 0
      BY <2>1, FS_EmptySet
    <2>3. unackedData' \in Nat
      BY <1>1 DEF TypeOK, CountersOK
    <2>4. QED BY <2>2, <2>3 DEF Accounting, UnackedAccounting, ZeroRttRejected
  <1>5. Credit'
    BY DEF IInv, TypeOK, CountersOK, Credit, ZeroRttRejected, Greater
  <1>6. QED BY <1>1, <1>3, <1>4, <1>5 DEF IInv

\* Every step preserves the inductive invariant.
LEMMA NextInv == IInv /\ [Next]_vars => IInv'
  <1> SUFFICES ASSUME IInv, [Next]_vars PROVE IInv'
    OBVIOUS
  <1>1. CASE Application
    BY <1>1, OpenStep, WriteNoCreditStep, WriteNoBudgetStep, WriteDataStep,
       FinishStep, ResetStep, SetPriorityStep, SetSendWindowStep DEF Application
  <1>2. CASE Polling
    BY <1>2, PollBlockedStep, PollEventStep DEF Polling
  <1>3. CASE Peer
    BY <1>3, StopSendingStep, MaxStreamDataStep, MaxDataStep DEF Peer
  <1>4. CASE Transmit
    BY <1>4, DropStaleStep, TransmitFrameStep, SendResetStep DEF Transmit
  <1>5. CASE Acknowledge
    BY <1>5, AckOpenStep, AckClosedStep, AckResetStep DEF Acknowledge
  <1>6. CASE Loss
    BY <1>6, LoseStep, LoseResetStep DEF Loss, TailLossProbe
  <1>7. CASE EarlyData
    BY <1>7, RetryStep, ZeroRttAcceptedStep, ZeroRttRejectedStep DEF EarlyData
  <1>8. CASE UNCHANGED vars
    <2>1. TypeOK'
      BY <1>8 DEF vars, IInv, TypeOK, FlagsOK, BuffersOK, CountersOK, ListsOK
    <2>2. BufInv' /\ Accounting'
      BY <1>8, QuietStep DEF vars, IInv
    <2>3. Credit'
      BY <1>8 DEF vars, IInv, Credit
    <2>4. QED BY <2>1, <2>2, <2>3 DEF IInv
  <1>9. QED BY <1>1, <1>2, <1>3, <1>4, <1>5, <1>6, <1>7, <1>8 DEF Next

\* The inductive invariant holds in every reachable state.
THEOREM Invariance == Spec => []IInv
  BY InitInv, NextInv, PTL DEF Spec

\* Every variable of the sending half stays in its type; in particular the
\* counters unacked_data and data_sent never underflow, whatever packets are
\* acknowledged or lost and in whatever order.
THEOREM TypeCorrect == Spec => []TypeOK
  <1>1. IInv => TypeOK
    BY DEF IInv
  <1>2. QED BY <1>1, Invariance, PTL

\* Every byte SendBuffer::poll_transmit handed out and ack did not yet drop is
\* acknowledged out of order, queued for retransmission or in one packet.
THEOREM NoByteForgotten == Spec => []SentBytePlaced
  <1>1. IInv => SentBytePlaced
    BY PlacementIsSentBytePlaced DEF IInv, BufInv
  <1>2. QED BY <1>1, Invariance, PTL

\* While 0-RTT was not rejected, unacked_data (which write_limit compares with
\* the send window) is the number of unacknowledged bytes of open streams.
THEOREM UnackedCounted == Spec => []UnackedAccounting
  <1>1. IInv => UnackedAccounting
    BY DEF IInv, Accounting
  <1>2. QED BY <1>1, Invariance, PTL

-----------------------------------------------------------------------------
(* What its users and its peer are promised: credit, ends, nobody left.    *)

(* The connection's credit *)

Written == dataSent = Cardinality(WrittenBytes)

\* A write adds exactly the bytes it took to data_sent.
LEMMA WriteCounted ==
    ASSUME IInv, Written, NEW s \in Streams, NEW n \in 0 .. MaxOffset,
           WriteData(s, n)
    PROVE  Written'
  <1> USE BoundsAssumption, StreamsAssumption
  <1> DEFINE w == Lesser(n, Lesser(WriteLimit, maxStreamData[s] - offset[s]))
             new == Bytes(offset[s], offset[s] + w)
  <1>1. /\ offset \in [Streams -> 0 .. MaxOffset]
        /\ offset[s] \in 0 .. MaxOffset /\ maxStreamData[s] \in 0 .. MaxOffset
        /\ maxData \in Nat /\ dataSent \in Nat /\ sendWindow \in Nat
        /\ unackedData \in Nat
    BY DEF IInv, TypeOK, BuffersOK, CountersOK
  <1>2. WriteLimit \in Nat
    BY <1>1 DEF WriteLimit, Lesser, IInv, Credit
  <1>3. w \in Nat /\ w <= maxStreamData[s] - offset[s]
    <2>1. maxStreamData[s] > offset[s]
      BY DEF WriteData
    <2>2. QED BY <1>1, <1>2, <2>1 DEF Lesser
  <1>4. offset' = [offset EXCEPT ![s] = offset[s] + w] /\ dataSent' = dataSent + w
    BY DEF WriteData
  <1> HIDE DEF w
  <1>5. /\ offset'[s] = offset[s] + w
        /\ \A t \in Streams : t # s => offset'[t] = offset[t]
    BY <1>1, <1>4
  <1> DEFINE W == WrittenBytes
             N == {s} \X new
  <1>6. WrittenBytes' = W \cup N /\ W \cap N = {}
    <2>1. new \subseteq 0 .. (MaxOffset - 1)
      BY <1>1, <1>3 DEF Bytes
    <2>2. QED BY <1>1, <1>3, <1>5, <2>1 DEF WrittenBytes, Bytes
  <1>7. IsFiniteSet(W) /\ Cardinality(W) \in Nat
    <2>1. MaxOffset - 1 \in Int
      OBVIOUS
    <2>2. IsFiniteSet(0 .. (MaxOffset - 1))
      BY <2>1, FS_Interval
    <2> HIDE DEF new
    <2>3. IsFiniteSet(Streams \X (0 .. (MaxOffset - 1)))
      BY <2>2, FS_Product
    <2>4. W \in SUBSET (Streams \X (0 .. (MaxOffset - 1)))
      BY DEF WrittenBytes
    <2>5. QED BY <2>3, <2>4, FS_Subset, FS_CardinalityType
  <1>8. IsFiniteSet(N) /\ Cardinality(N) = w
    <2>1. IsFiniteSet(new) /\ Cardinality(new) = w
      BY <1>1, <1>3, BytesCardinality
    <2>2. QED BY <2>1, TaggedCardinality
  <1> HIDE DEF W, N
  <1>9. Cardinality(W \cup N) = Cardinality(W) + w
    <2>1. Cardinality(W \cup N) = Cardinality(W) + Cardinality(N) - Cardinality(W \cap N)
      BY <1>7, <1>8, FS_Union
    <2>2. Cardinality(W \cap N) = 0
      BY <1>6, FS_EmptySet
    <2>3. QED BY <1>3, <1>7, <1>8, <2>1, <2>2
  <1>10. QED BY <1>4, <1>6, <1>9 DEF Written, W

\* Only a write and the rejection of 0-RTT touch the offsets and data_sent.
LEMMA WrittenStep ==
    ASSUME IInv, Written, [Next]_vars
    PROVE  Written'
  <1>1. ASSUME UNCHANGED <<offset, dataSent>>
        PROVE  Written'
    <2>1. WrittenBytes' = WrittenBytes
      BY <1>1 DEF WrittenBytes
    <2>2. QED BY <1>1, <2>1 DEF Written
  <1>2. CASE \E s \in Streams, n \in 0 .. MaxOffset : WriteData(s, n)
    BY <1>2, WriteCounted
  <1>3. CASE \E n \in RejectLimits : ZeroRttRejected(n)
    <2>1. offset' = [s \in Streams |-> 0] /\ dataSent' = 0
      BY <1>3 DEF ZeroRttRejected
    <2>2. WrittenBytes' = {}
      BY <2>1, BoundsAssumption DEF WrittenBytes
    <2>3. QED BY <2>1, <2>2, FS_EmptySet DEF Written
  <1>4. CASE Application
    BY <1>1, <1>2, <1>4 DEF Application, Open, WriteNoCredit, WriteNoBudget, Finish,
                            Reset, SetPriority, SetSendWindow
  <1>5. CASE Polling \/ Peer
    BY <1>1, <1>5 DEF Polling, PollBlocked, PollEvent, Peer, StopSending,
                      MaxStreamData, MaxData
  <1>6. CASE Transmit
    BY <1>1, <1>6 DEF Transmit, DropStale, TransmitFrame, SendReset
  <1>7. CASE Acknowledge
    BY <1>1, <1>7 DEF Acknowledge, Ack, AckReset
  <1>8. CASE Loss
    BY <1>1, <1>8 DEF Loss, Lose, LoseReset, TailLossProbe
  <1>9. CASE EarlyData
    BY <1>1, <1>3, <1>9 DEF EarlyData, Retry, ZeroRttAccepted
  <1>10. CASE UNCHANGED vars
    BY <1>1, <1>10 DEF vars
  <1>11. QED BY <1>4, <1>5, <1>6, <1>7, <1>8, <1>9, <1>10 DEF Next

\* No write ever exceeds the credit: data_sent is the sum of all offsets, at most
\* max_data, and no offset passes its stream's limit (the subtractions in
\* write_limit and Send::write do not underflow), through every Retry and every
\* rejection of 0-RTT.
THEOREM CreditKept == Spec => []CreditRespected
  <1>1. Init => Written
    <2> SUFFICES ASSUME Init PROVE Written
      OBVIOUS
    <2>1. WrittenBytes = {}
      BY BoundsAssumption DEF Init, WrittenBytes
    <2>2. QED BY <2>1, FS_EmptySet DEF Init, Written
  <1>2. IInv /\ Written /\ [Next]_vars => Written'
    BY WrittenStep
  <1>3. IInv /\ Written => CreditRespected
    BY DEF IInv, Credit, Written, CreditRespected
  <1>4. QED BY <1>1, <1>2, <1>3, Invariance, PTL DEF Spec

------------------------------------------------------------------------------
(* How a stream ends *)

\* What the peer acknowledged lies within what was written.
Bounded ==
    /\ \A p \in Pkts, s \in Streams : sent[p].id = s => sent[p].hi <= offset[s]
    /\ \A s \in Streams, o \in Int : o \in peerHas[s] => 0 <= o /\ o < offset[s]
    /\ phase = "early" => \A s \in Streams : peerHas[s] = {}

\* What the sender believes acknowledged, the peer acknowledged.
Held ==
    \A s \in Streams : state[s] \in Open_ =>
        /\ \A o \in Int : o \in acks[s] => o \in peerHas[s]
        /\ \A o \in Int : 0 <= o /\ o < base[s] => o \in peerHas[s]
        /\ finAcked[s] => s \in peerFin

Complete ==
    \A s \in Streams : state[s] = "Finished" =>
        /\ base[s] = offset[s] /\ s \in peerFin
        /\ \A o \in Int : 0 <= o /\ o < offset[s] => o \in peerHas[s]

\* A stream that was not opened has no flag set.
Unused ==
    \A s \in Streams : state[s] = "Unopened" =>
        ~finAcked[s] /\ ~finPending[s] /\ ~blocked[s] /\ ~waiting[s]

Delivery == Bounded /\ Held /\ Complete /\ Unused /\ OneReset

\* What an acknowledged packet changes, stream by stream.
LEMMA AckEffect ==
    ASSUME IInv, NEW p \in Pkts, Ack(p), NEW f, f = sent[p], NEW s, s = f.id
    PROVE  /\ s \in Streams /\ f.lo \in Nat /\ f.hi \in Nat
           /\ phase # "early" /\ UNCHANGED <<offset, phase, finPending, blocked, waiting>>
           /\ \A q \in Pkts : q # p => sent'[q] = sent[q]
           /\ sent'[p].id = NoStream
           /\ \A t \in Streams : t # s =>
                /\ peerHas'[t] = peerHas[t] /\ base'[t] = base[t]
                /\ acks'[t] = acks[t] /\ (finAcked'[t] <=> finAcked[t])
                /\ state'[t] = state[t]
           /\ \A o \in Int : o \in peerHas'[s] <=>
                o \in peerHas[s] \/ (f.lo <= o /\ o < f.hi)
           /\ \A t \in Streams : t \in peerFin' <=> t \in peerFin \/ (t = s /\ f.fin)
           /\ state[s] \notin Open_ => state'[s] = state[s] /\ base'[s] = base[s]
           /\ state[s] \in Open_ =>
                /\ \A o \in Int : o \in acks'[s] =>
                     o \in acks[s] \/ (f.lo <= o /\ o < f.hi)
                /\ \A o \in Int : base[s] <= o /\ o < base'[s] =>
                     o \in acks[s] \/ (f.lo <= o /\ o < f.hi)
                /\ finAcked'[s] => finAcked[s] \/ f.fin
                /\ state[s] = "DataSent" /\ ~finAcked'[s] => ~finAcked[s] /\ ~f.fin
                /\ \/ state'[s] = state[s]
                   \/ /\ state[s] = "DataSent" /\ state'[s] = "Finished"
                      /\ base'[s] = offset[s] /\ (finAcked[s] \/ f.fin)
  <1> USE BoundsAssumption, StreamsAssumption
  <1>1. /\ s \in Streams /\ f.lo \in 0 .. MaxOffset /\ f.hi \in 0 .. MaxOffset
        /\ f.fin \in BOOLEAN /\ f.lo <= f.hi
    BY FrameFacts DEF Ack
  <1>2. /\ phase # "early" /\ sent' = [sent EXCEPT ![p] = NoFrame]
        /\ peerHas' = [peerHas EXCEPT ![s] = peerHas[s] \cup Bytes(f.lo, f.hi)]
        /\ peerFin' = IF f.fin THEN peerFin \cup {s} ELSE peerFin
        /\ UNCHANGED <<offset, phase, finPending, blocked, waiting>>
        /\ IF state[s] \in Open_
           THEN ReceivedAckOf(f)
           ELSE UNCHANGED <<base, acks, finAcked, state>>
    BY DEF Ack, AckApplies
  <1>3. /\ base \in [Streams -> 0 .. MaxOffset] /\ peerHas \in [Streams -> SUBSET (0 .. (MaxOffset - 1))]
        /\ acks \in [Streams -> SUBSET (0 .. (MaxOffset - 1))]
        /\ state \in [Streams -> States]
    BY DEF IInv, TypeOK, BuffersOK
  <1>4. finAcked \in [Streams -> BOOLEAN]
    BY DEF IInv, TypeOK, FlagsOK
  <1>5. /\ \A q \in Pkts : q # p => sent'[q] = sent[q]
        /\ sent'[p].id = NoStream
    BY <1>2, PacketGone
  <1>6. /\ \A t \in Streams : t # s => peerHas'[t] = peerHas[t]
        /\ \A o \in Int : o \in peerHas'[s] <=>
             o \in peerHas[s] \/ (f.lo <= o /\ o < f.hi)
    BY <1>1, <1>2, <1>3 DEF Bytes
  <1>7. \A t \in Streams : t \in peerFin' <=> t \in peerFin \/ (t = s /\ f.fin)
    BY <1>1, <1>2
  <1>8. CASE state[s] \notin Open_
    BY <1>1, <1>2, <1>5, <1>6, <1>7, <1>8
  <1>9. CASE state[s] \in Open_
    <2>1. PICK b \in 0 .. MaxOffset :
            /\ AckBuffer(s, f.lo, f.hi, b)
            /\ finAcked' = [finAcked EXCEPT ![s] =
                              finAcked[s] \/ (state[s] = "DataSent" /\ f.fin)]
            /\ state' = IF AllAcked(s, f, b) THEN [state EXCEPT ![s] = "Finished"] ELSE state
      BY <1>2, <1>9, Zenon DEF ReceivedAckOf
    <2> DEFINE acked == acks[s] \cup Bytes(Greater(base[s], f.lo), Greater(base[s], f.hi))
    <2>2. /\ Bytes(base[s], b) \subseteq acked
          /\ base' = [base EXCEPT ![s] = b]
          /\ acks' = [acks EXCEPT ![s] = acked \ Bytes(0, b)]
      BY <2>1 DEF AckBuffer
    <2>3. \A o \in Int : o \in acked => o \in acks[s] \/ (f.lo <= o /\ o < f.hi)
      <3>1. base[s] \in Int
        BY <1>1, <1>3
      <3>2. QED BY <1>1, <3>1 DEF Bytes, Greater
    <2> HIDE DEF acked
    <2>4. /\ base'[s] = b /\ acks'[s] = acked \ Bytes(0, b)
          /\ \A t \in Streams : t # s => base'[t] = base[t] /\ acks'[t] = acks[t]
      BY <1>1, <1>3, <2>2
    <2>5. \A o \in Int : base[s] <= o /\ o < b => o \in acked
      <3>1. base[s] \in Int
        BY <1>1, <1>3
      <3>2. QED BY <2>2, <3>1 DEF Bytes
    <2>6. /\ finAcked'[s] => finAcked[s] \/ f.fin
          /\ state[s] = "DataSent" /\ ~finAcked'[s] => ~finAcked[s] /\ ~f.fin
          /\ \A t \in Streams : t # s => (finAcked'[t] <=> finAcked[t])
      BY <1>1, <1>4, <2>1, Zenon
    <2>7. /\ \A t \in Streams : t # s => state'[t] = state[t]
          /\ \/ state'[s] = state[s]
             \/ AllAcked(s, f, b) /\ state'[s] = "Finished"
      BY <1>1, <1>3, <2>1
    <2>8. AllAcked(s, f, b) =>
             state[s] = "DataSent" /\ b = offset[s] /\ (finAcked[s] \/ f.fin)
      BY Zenon DEF AllAcked
    <2>9. QED BY <1>1, <1>2, <1>5, <1>6, <1>7, <1>9, <2>3, <2>4, <2>5, <2>6, <2>7, <2>8
  <1>10. QED BY <1>8, <1>9

\* What a transmitted frame changes: stream s was popped as e, and the frame ends
\* at hi.
TransmitsAs(p, e, s, hi) ==
    /\ s = e.id /\ state[s] \in Open_ /\ hi <= offset[s]
    /\ sent[p] = NoFrame
    /\ \A q \in Pkts : q # p => sent'[q] = sent[q]
    /\ sent'[p].id = s /\ sent'[p].hi = hi
    /\ sent'[p].fin <=> hi = offset[s] /\ state[s] = "DataSent"
    /\ \A t \in Streams : t # s =>
         /\ unsent'[t] = unsent[t] /\ retransmits'[t] = retransmits[t]
         /\ (finPending'[t] <=> finPending[t])
    /\ finPending'[s] <=> finPending[s] /\ ~sent'[p].fin
    /\ unsent'[s] = unsent[s] \/ unsent'[s] = hi
    /\ LET still == unsent'[s] # offset[s] \/ retransmits'[s] # {} \/ finPending'[s]
       IN  /\ queue' = IF still /\ Fair THEN Push(e.rest, s) ELSE e.rest
           /\ next' = IF still /\ ~Fair THEN s ELSE NoStream

\* What transmitting a frame does, in the terms of TransmitsAs.
LEMMA TransmitEffect ==
    ASSUME IInv, NEW p \in Pkts, TransmitFrame(p)
    PROVE  \E e \in Pops, s \in Streams, hi \in Nat : TransmitsAs(p, e, s, hi)
  <1> USE BoundsAssumption, StreamsAssumption
  <1>1. PICK e \in Pops, room \in 1 .. MaxFrame, lo \in 0 .. MaxOffset, hi \in 0 .. MaxOffset :
          LET s == e.id
              fin == hi = offset[s] /\ state[s] = "DataSent"
              stillPending == \/ unsent'[s] # offset[s]
                              \/ retransmits'[s] # {}
                              \/ finPending'[s]
          IN  /\ state[s] \in Open_
              /\ PollTransmit(s, room, lo, hi)
              /\ finPending' = [finPending EXCEPT ![s] = @ /\ ~fin]
              /\ queue' = IF stillPending /\ Fair THEN Push(e.rest, s) ELSE e.rest
              /\ next' = IF stillPending /\ ~Fair THEN s ELSE NoStream
              /\ sent' = [sent EXCEPT ![p] =
                            [id |-> s, lo |-> lo, hi |-> hi, fin |-> fin]]
    BY DEF TransmitFrame
  <1>2. PICK s \in Streams : s = e.id
    BY PopsType DEF IInv, TypeOK
  <1> DEFINE fin == hi = offset[s] /\ state[s] = "DataSent"
             still == unsent'[s] # offset[s] \/ retransmits'[s] # {} \/ finPending'[s]
  <1>3. /\ state[s] \in Open_ /\ PollTransmit(s, room, lo, hi)
        /\ finPending' = [finPending EXCEPT ![s] = finPending[s] /\ ~fin]
        /\ sent' = [sent EXCEPT ![p] = [id |-> s, lo |-> lo, hi |-> hi, fin |-> fin]]
    BY <1>1, <1>2, Zenon
  <1>4. /\ queue' = IF still /\ Fair THEN Push(e.rest, s) ELSE e.rest
        /\ next' = IF still /\ ~Fair THEN s ELSE NoStream
    BY <1>1, <1>2, Zenon
  <1>5. sent[p] = NoFrame /\ UNCHANGED <<state, base, offset, acks>>
    BY DEF TransmitFrame
  <1>6. /\ unsent[s] \in Nat /\ offset[s] \in 0 .. MaxOffset
        /\ retransmits[s] \subseteq 0 .. (MaxOffset - 1)
        /\ sent \in [Pkts -> Frame \cup {NoFrame}]
        /\ retransmits \in [Streams -> SUBSET (0 .. (MaxOffset - 1))]
        /\ unsent \in [Streams -> 0 .. MaxOffset]
    BY <1>2 DEF IInv, TypeOK, BuffersOK
  <1>7. finPending \in [Streams -> BOOLEAN]
    BY DEF IInv, TypeOK, FlagsOK
  <1>8. Placed(s)
    BY <1>2, <1>3 DEF IInv, BufInv, Placement
  <1>9. /\ finPending'[s] <=> finPending[s] /\ ~fin
        /\ \A t \in Streams : t # s => (finPending'[t] <=> finPending[t])
    BY <1>3, <1>7, Zenon
  <1>10. fin \in BOOLEAN
    BY Zenon
  <1> HIDE DEF fin, still
  <1>11. /\ \A q \in Pkts : q # p => sent'[q] = sent[q]
         /\ sent'[p] = [id |-> s, lo |-> lo, hi |-> hi, fin |-> fin]
    BY <1>3, <1>6
  <1>12. sent'[p].id = s /\ sent'[p].hi = hi /\ (sent'[p].fin <=> fin)
    BY <1>11, <1>10
  <1>13. /\ hi <= offset[s]
         /\ unsent'[s] = unsent[s] \/ unsent'[s] = hi
         /\ \A t \in Streams : t # s =>
              unsent'[t] = unsent[t] /\ retransmits'[t] = retransmits[t]
    <2>1. CASE /\ \E end \in 0 .. MaxOffset :
                    /\ FirstRun(retransmits[s], lo, end)
                    /\ hi = Lesser(end, lo + room)
                    /\ retransmits' = [retransmits EXCEPT ![s] = PopRun(s, lo, hi, end)]
               /\ UNCHANGED unsent
      <3>1. PICK end \in 0 .. MaxOffset :
                /\ FirstRun(retransmits[s], lo, end)
                /\ hi = Lesser(end, lo + room)
                /\ retransmits' = [retransmits EXCEPT ![s] = PopRun(s, lo, hi, end)]
        BY <2>1
      <3>2. lo < end /\ hi <= end /\ end - 1 \in retransmits[s]
        BY <3>1 DEF FirstRun, Lesser, Bytes
      <3>3. end - 1 < unsent[s] /\ unsent[s] <= offset[s]
        BY <1>8, <3>2 DEF Placed
      <3>4. QED BY <1>6, <2>1, <3>1, <3>2, <3>3
    <2>2. CASE /\ retransmits[s] = {}
               /\ lo = unsent[s] /\ hi = Lesser(offset[s], lo + room)
               /\ unsent' = [unsent EXCEPT ![s] = hi]
               /\ UNCHANGED retransmits
      BY <1>6, <2>2 DEF Lesser
    <2>3. QED BY <1>3, <2>1, <2>2 DEF PollTransmit
  <1>14. sent'[p].fin <=> hi = offset[s] /\ state[s] = "DataSent"
    BY <1>12 DEF fin
  <1>15. finPending'[s] <=> finPending[s] /\ ~sent'[p].fin
    BY <1>9, <1>12, Zenon
  <1>16. hi \in Nat
    OBVIOUS
  <1>17. \A t \in Streams : t # s =>
           /\ unsent'[t] = unsent[t] /\ retransmits'[t] = retransmits[t]
           /\ (finPending'[t] <=> finPending[t])
    BY <1>9, <1>13, Zenon
  <1>18. unsent'[s] = unsent[s] \/ unsent'[s] = hi
    BY <1>13
  <1>19. WITNESS e \in Pops, s \in Streams, hi \in Nat
  <1>20. QED
    BY <1>2, <1>3, <1>4, <1>5, <1>11, <1>12, <1>13, <1>14, <1>15, <1>17, <1>18, Zenon
    DEF still, TransmitsAs

\* Nothing beyond the written data is in flight or acknowledged.
LEMMA BoundedStep ==
    ASSUME IInv, Bounded, [Next]_vars
    PROVE  Bounded'
  <1> USE BoundsAssumption, StreamsAssumption
  <1>1. ASSUME UNCHANGED <<sent, offset, peerHas>>,
               phase' = "early" => phase = "early"
        PROVE  Bounded'
    BY <1>1 DEF Bounded
  <1>2. ASSUME NEW s \in Streams, NEW n \in 0 .. MaxOffset, WriteData(s, n)
        PROVE  Bounded'
    <2> DEFINE w == Lesser(n, Lesser(WriteLimit, maxStreamData[s] - offset[s]))
    <2>1. /\ offset \in [Streams -> 0 .. MaxOffset] /\ maxStreamData[s] \in Int
          /\ maxData \in Nat /\ dataSent \in Nat /\ sendWindow \in Nat
          /\ unackedData \in Nat
      BY DEF IInv, TypeOK, BuffersOK, CountersOK
    <2>2. w \in Nat
      <3>1. maxStreamData[s] > offset[s] /\ offset[s] \in Int
        BY <1>2, <2>1 DEF WriteData
      <3>2. QED BY <2>1, <3>1 DEF WriteLimit, Lesser, IInv, Credit
    <2>3. offset' = [offset EXCEPT ![s] = offset[s] + w]
          /\ UNCHANGED <<sent, peerHas, phase>>
      BY <1>2 DEF WriteData
    <2> HIDE DEF w
    <2>4. \A t \in Streams : offset[t] \in Int /\ offset'[t] \in Int /\ offset[t] <= offset'[t]
      BY <2>1, <2>2, <2>3
    <2>5. \A p \in Pkts, t \in Streams : sent[p].id = t => sent[p].hi \in Int
      BY DEF IInv, TypeOK, Frame, NoFrame
    <2>6. QED BY <2>3, <2>4, <2>5 DEF Bounded
  <1>3. ASSUME NEW n \in RejectLimits, ZeroRttRejected(n)
        PROVE  Bounded'
    <2>1. /\ phase = "early" /\ phase' = "rejected" /\ peerHas' = peerHas
          /\ \A p \in Pkts : sent'[p].id = NoStream
      BY <1>3 DEF ZeroRttRejected, NoFrame
    <2>2. QED BY <2>1 DEF Bounded
  <1>4. ASSUME NEW p \in Pkts, Ack(p)
        PROVE  Bounded'
    <2>1. PICK f, s : f = sent[p] /\ s = f.id
      OBVIOUS
    <2>2. /\ s \in Streams /\ f.lo \in Nat /\ f.hi \in Nat
          /\ phase # "early" /\ UNCHANGED <<offset, phase>>
          /\ \A q \in Pkts : q # p => sent'[q] = sent[q]
          /\ sent'[p].id = NoStream
          /\ \A t \in Streams : t # s => peerHas'[t] = peerHas[t]
          /\ \A o \in Int : o \in peerHas'[s] <=>
               o \in peerHas[s] \/ (f.lo <= o /\ o < f.hi)
      BY <1>4, <2>1, AckEffect
    <2>3. offset[s] \in Int /\ f.hi <= offset[s]
      BY <2>1, <2>2 DEF Bounded, IInv, TypeOK, BuffersOK
    <2>4. \A o \in Int : o \in peerHas'[s] => 0 <= o /\ o < offset[s]
      BY <2>2, <2>3 DEF Bounded
    <2>5. QED BY <2>2, <2>4 DEF Bounded
  <1>5. ASSUME NEW p \in Pkts, TransmitFrame(p)
        PROVE  Bounded'
    <2>1. PICK s \in Streams, hi \in Nat :
            /\ hi <= offset[s] /\ sent'[p].id = s /\ sent'[p].hi = hi
            /\ \A q \in Pkts : q # p => sent'[q] = sent[q]
      <3>1. PICK e \in Pops, s \in Streams, hi \in Nat : TransmitsAs(p, e, s, hi)
        BY <1>5, TransmitEffect
      <3>2. QED BY <3>1 DEF TransmitsAs
    <2>2. UNCHANGED <<offset, peerHas, phase>>
      BY <1>5 DEF TransmitFrame
    <2>3. QED BY <2>1, <2>2 DEF Bounded
  <1>6. ASSUME NEW p \in Pkts, Lose(p)
        PROVE  Bounded'
    <2>1. sent' = [sent EXCEPT ![p] = NoFrame] /\ UNCHANGED <<offset, peerHas, phase>>
      BY <1>6 DEF Lose
    <2>2. /\ \A q \in Pkts : q # p => sent'[q] = sent[q]
          /\ sent'[p].id = NoStream
      BY <2>1, PacketGone
    <2>3. QED BY <2>1, <2>2 DEF Bounded
  <1>7. CASE Retry
    <2>1. (\A p \in Pkts : sent'[p].id = NoStream) /\ UNCHANGED <<offset, peerHas, phase>>
      BY <1>7 DEF Retry, NoFrame
    <2>2. QED BY <2>1 DEF Bounded
  <1>8. CASE Application
    BY <1>1, <1>2, <1>8 DEF Application, Open, WriteNoCredit, WriteNoBudget, Finish,
                            Reset, SetPriority, SetSendWindow
  <1>9. CASE Polling \/ Peer
    BY <1>1, <1>9 DEF Polling, PollBlocked, PollEvent, Peer, StopSending,
                      MaxStreamData, MaxData
  <1>10. CASE Transmit
    BY <1>1, <1>5, <1>10 DEF Transmit, DropStale, SendReset
  <1>11. CASE Acknowledge
    BY <1>1, <1>4, <1>11 DEF Acknowledge, AckReset
  <1>12. CASE Loss
    BY <1>1, <1>6, <1>12 DEF Loss, LoseReset, TailLossProbe
  <1>13. CASE EarlyData
    BY <1>1, <1>3, <1>7, <1>13 DEF EarlyData, ZeroRttAccepted
  <1>14. CASE UNCHANGED vars
    BY <1>1, <1>14 DEF vars
  <1>15. QED BY <1>8, <1>9, <1>10, <1>11, <1>12, <1>13, <1>14 DEF Next

\* What is taken for acknowledged was acknowledged, and a stream becomes Finished
\* with its last byte and its FIN.
LEMMA HeldStep ==
    ASSUME IInv, Held, Complete, Unused, [Next]_vars
    PROVE  Held' /\ Complete'
  <1> USE BoundsAssumption, StreamsAssumption
  <1>1. ASSUME UNCHANGED <<state, acks, base, offset, finAcked, peerHas, peerFin>>
        PROVE  Held' /\ Complete'
    BY <1>1 DEF Held, Complete
  <1>2. ASSUME UNCHANGED <<acks, base, finAcked, peerHas, peerFin>>,
               \A t \in Streams : state'[t] \in Open_ => state[t] \in Open_,
               \A t \in Streams : state'[t] = "Finished" =>
                                    state[t] = "Finished" /\ offset'[t] = offset[t]
        PROVE  Held' /\ Complete'
    BY <1>2 DEF Held, Complete
  <1>3. ASSUME NEW s \in Streams, Open(s)
        PROVE  Held' /\ Complete'
    <2>1. /\ state[s] = "Unopened" /\ state'[s] = "Ready"
          /\ \A t \in Streams : t # s => state'[t] = state[t]
          /\ UNCHANGED <<acks, base, offset, finAcked, peerHas, peerFin>>
      BY <1>3 DEF Open, IInv, TypeOK
    <2>2. base[s] = 0 /\ acks[s] = {} /\ ~finAcked[s]
      BY <2>1 DEF IInv, BufInv, Fresh, Unused
    <2>3. QED BY <2>1, <2>2 DEF Held, Complete
  <1>4. ASSUME NEW s \in Streams, Finish(s) \/ Reset(s) \/ AckReset(s)
        PROVE  Held' /\ Complete'
    <2>1. /\ UNCHANGED <<acks, base, offset, finAcked, peerHas, peerFin>>
          /\ \A t \in Streams : t # s => state'[t] = state[t]
          /\ state'[s] # "Finished" \/ state'[s] = state[s]
          /\ state'[s] \in Open_ => state[s] \in Open_
      BY <1>4 DEF Finish, Reset, AckReset, Open_, IInv, TypeOK
    <2>2. QED BY <1>2, <2>1
  <1>5. ASSUME NEW s \in Streams, NEW n \in 0 .. MaxOffset, WriteData(s, n)
        PROVE  Held' /\ Complete'
    <2>1. UNCHANGED <<state, acks, base, finAcked, peerHas, peerFin>> /\ state[s] = "Ready"
      BY <1>5 DEF WriteData
    <2>2. \A t \in Streams : t # s => offset'[t] = offset[t]
      BY <1>5 DEF WriteData, IInv, TypeOK, BuffersOK
    <2>3. QED BY <1>2, <2>1, <2>2
  <1>6. ASSUME NEW n \in RejectLimits, ZeroRttRejected(n)
        PROVE  Held' /\ Complete'
    <2>1. \A t \in Streams : state'[t] = "Unopened"
      BY <1>6 DEF ZeroRttRejected
    <2>2. QED BY <2>1 DEF Held, Complete, Open_
  <1>7. ASSUME NEW p \in Pkts, Ack(p)
        PROVE  Held' /\ Complete'
    <2>1. PICK f, s : f = sent[p] /\ s = f.id
      OBVIOUS
    <2>2. /\ s \in Streams /\ f.lo \in Nat /\ f.hi \in Nat
          /\ UNCHANGED offset
          /\ \A t \in Streams : t # s =>
                /\ peerHas'[t] = peerHas[t] /\ base'[t] = base[t]
                /\ acks'[t] = acks[t] /\ (finAcked'[t] <=> finAcked[t])
                /\ state'[t] = state[t]
          /\ \A o \in Int : o \in peerHas'[s] <=>
               o \in peerHas[s] \/ (f.lo <= o /\ o < f.hi)
          /\ \A t \in Streams : t \in peerFin' <=> t \in peerFin \/ (t = s /\ f.fin)
          /\ state[s] \notin Open_ => state'[s] = state[s] /\ base'[s] = base[s]
          /\ state[s] \in Open_ =>
               /\ \A o \in Int : o \in acks'[s] =>
                    o \in acks[s] \/ (f.lo <= o /\ o < f.hi)
               /\ \A o \in Int : base[s] <= o /\ o < base'[s] =>
                    o \in acks[s] \/ (f.lo <= o /\ o < f.hi)
               /\ finAcked'[s] => finAcked[s] \/ f.fin
               /\ \/ state'[s] = state[s]
                  \/ /\ state[s] = "DataSent" /\ state'[s] = "Finished"
                     /\ base'[s] = offset[s] /\ (finAcked[s] \/ f.fin)
      BY <1>7, <2>1, AckEffect
    <2>3. base[s] \in Int /\ base'[s] \in Int
      <3>1. IInv'
        BY <1>7, AckOpenStep, AckClosedStep
      <3>2. QED BY <2>2, <3>1 DEF IInv, TypeOK, BuffersOK
    <2>4. state[s] \in Open_ =>
            /\ \A o \in Int : o \in acks'[s] => o \in peerHas'[s]
            /\ \A o \in Int : 0 <= o /\ o < base'[s] => o \in peerHas'[s]
      BY <2>2, <2>3 DEF Held
    <2>5. state[s] \in Open_ =>
            /\ finAcked'[s] => s \in peerFin'
            /\ finAcked[s] \/ f.fin => s \in peerFin'
      BY <2>2 DEF Held
    <2>6. Held'
      <3> SUFFICES ASSUME NEW t \in Streams, state'[t] \in Open_
                   PROVE  /\ \A o \in Int : o \in acks'[t] => o \in peerHas'[t]
                          /\ \A o \in Int : 0 <= o /\ o < base'[t] => o \in peerHas'[t]
                          /\ finAcked'[t] => t \in peerFin'
        BY DEF Held
      <3>1. CASE t = s
        BY <2>2, <2>4, <2>5, <3>1
      <3>2. CASE t # s
        BY <2>2, <3>2 DEF Held
      <3>3. QED BY <3>1, <3>2
    <2>7. Complete'
      <3> SUFFICES ASSUME NEW t \in Streams, state'[t] = "Finished"
                   PROVE  /\ base'[t] = offset[t] /\ t \in peerFin'
                          /\ \A o \in Int : 0 <= o /\ o < offset[t] => o \in peerHas'[t]
        BY <2>2 DEF Complete
      <3>1. CASE t = s /\ state[s] \in Open_
        <4>1. base'[s] = offset[s] /\ (finAcked[s] \/ f.fin)
          BY <2>2, <3>1 DEF Open_
        <4>2. QED BY <2>4, <2>5, <3>1, <4>1
      <3>2. CASE t # s \/ state[s] \notin Open_
        BY <2>2, <3>2 DEF Complete
      <3>3. QED BY <3>1, <3>2
    <2>8. QED BY <2>6, <2>7
  <1>8. CASE Application
    BY <1>1, <1>3, <1>4, <1>5, <1>8
       DEF Application, WriteNoCredit, WriteNoBudget, SetPriority, SetSendWindow
  <1>9. CASE Polling \/ Peer
    BY <1>1, <1>9 DEF Polling, PollBlocked, PollEvent, Peer, StopSending,
                      MaxStreamData, MaxData
  <1>10. CASE Transmit
    BY <1>1, <1>10 DEF Transmit, DropStale, SendReset, TransmitFrame
  <1>11. CASE Acknowledge
    BY <1>4, <1>7, <1>11 DEF Acknowledge
  <1>12. CASE Loss
    BY <1>1, <1>12 DEF Loss, Lose, LoseReset, TailLossProbe
  <1>13. CASE EarlyData
    BY <1>1, <1>6, <1>13 DEF EarlyData, ZeroRttAccepted, Retry
  <1>14. CASE UNCHANGED vars
    BY <1>1, <1>14 DEF vars
  <1>15. QED BY <1>8, <1>9, <1>10, <1>11, <1>12, <1>13, <1>14 DEF Next

\* A stream gets its flags only once it is open.
LEMMA UnusedStep ==
    ASSUME IInv, Unused, [Next]_vars
    PROVE  Unused'
  <1> USE BoundsAssumption, StreamsAssumption
  <1>1. ASSUME UNCHANGED <<finAcked, finPending, blocked, waiting>>,
               \A t \in Streams : state'[t] = "Unopened" => state[t] = "Unopened"
        PROVE  Unused'
    BY <1>1 DEF Unused
  \* One open stream changes.
  <1>2. ASSUME NEW s \in Streams, state[s] # "Unopened",
               \A t \in Streams : state'[t] = "Unopened" => state[t] = "Unopened",
               \A t \in Streams : t # s =>
                 /\ finAcked'[t] = finAcked[t] /\ finPending'[t] = finPending[t]
                 /\ blocked'[t] = blocked[t] /\ waiting'[t] = waiting[t]
        PROVE  Unused'
    BY <1>2 DEF Unused
  <1>3. /\ state \in [Streams -> States]
        /\ finAcked \in [Streams -> BOOLEAN] /\ finPending \in [Streams -> BOOLEAN]
        /\ blocked \in [Streams -> BOOLEAN] /\ waiting \in [Streams -> BOOLEAN]
    BY DEF IInv, TypeOK, FlagsOK
  <1>4. ASSUME NEW s \in Streams, Open(s) \/ Reset(s) \/ AckReset(s)
        PROVE  Unused'
    <2>1. CASE Reset(s)
      <3>1. /\ state[s] # "Unopened"
            /\ UNCHANGED <<finAcked, finPending, blocked>>
            /\ state' = [state EXCEPT ![s] = "ResetSent"]
            /\ waiting' = [waiting EXCEPT ![s] = FALSE]
        BY <2>1 DEF Reset, Open_
      <3>2. /\ \A t \in Streams : state'[t] = "Unopened" => state[t] = "Unopened"
            /\ \A t \in Streams : t # s => waiting'[t] = waiting[t]
        BY <1>3, <3>1
      <3>3. QED BY <1>2, <3>1, <3>2
    <2>2. CASE Open(s) \/ AckReset(s)
      <3>1. /\ UNCHANGED <<finAcked, finPending, blocked, waiting>>
            /\ \A t \in Streams : state'[t] = "Unopened" => state[t] = "Unopened"
        BY <1>3, <2>2 DEF Open, AckReset
      <3>2. QED BY <1>1, <3>1
    <2>3. QED BY <1>4, <2>1, <2>2
  <1>5. ASSUME NEW s \in Streams, WriteNoCredit(s) \/ WriteNoBudget(s)
        PROVE  Unused'
    <2>1. /\ state[s] # "Unopened" /\ UNCHANGED <<state, finAcked, finPending>>
          /\ waiting' = [waiting EXCEPT ![s] = TRUE]
          /\ blocked' = [blocked EXCEPT ![s] = TRUE] \/ blocked' = blocked
      BY <1>5 DEF WriteNoCredit, WriteNoBudget, Live, Open_
    <2>2. \A t \in Streams : t # s => blocked'[t] = blocked[t] /\ waiting'[t] = waiting[t]
      BY <1>3, <2>1
    <2>3. QED BY <1>2, <2>1, <2>2
  <1>6. ASSUME NEW s \in Streams, NEW n \in 0 .. MaxOffset, WriteData(s, n)
        PROVE  Unused'
    <2>1. /\ state[s] # "Unopened" /\ UNCHANGED <<state, finAcked, finPending, blocked>>
          /\ waiting' = [waiting EXCEPT ![s] = FALSE]
      BY <1>6 DEF WriteData
    <2>2. \A t \in Streams : t # s => waiting'[t] = waiting[t]
      BY <1>3, <2>1
    <2>3. QED BY <1>2, <2>1, <2>2
  <1>7. ASSUME NEW s \in Streams, Finish(s)
        PROVE  Unused'
    <2>1. /\ state[s] # "Unopened" /\ UNCHANGED <<finAcked, blocked>>
          /\ state' = [state EXCEPT ![s] = "DataSent"]
          /\ finPending' = [finPending EXCEPT ![s] = TRUE]
          /\ waiting' = [waiting EXCEPT ![s] = FALSE]
      BY <1>7 DEF Finish
    <2>2. /\ \A t \in Streams : state'[t] = "Unopened" => state[t] = "Unopened"
          /\ \A t \in Streams : t # s =>
               waiting'[t] = waiting[t] /\ finPending'[t] = finPending[t]
      BY <1>3, <2>1
    <2>3. QED BY <1>2, <2>1, <2>2
  <1>8. CASE PollBlocked
    <2>1. /\ UNCHANGED <<state, finAcked, finPending>>
          /\ \A t \in Streams : blocked'[t] => blocked[t]
          /\ \A t \in Streams : waiting'[t] => waiting[t]
      BY <1>8, Zenon DEF PollBlocked
    <2>2. QED BY <2>1, Zenon DEF Unused
  <1>9. CASE PollEvent
    <2>1. PICK e \in events : waiting' = [waiting EXCEPT ![e.id] = FALSE]
      BY <1>9 DEF PollEvent
    <2>2. UNCHANGED <<state, finAcked, finPending, blocked>>
      BY <1>9 DEF PollEvent
    <2>3. \A t \in Streams : waiting'[t] => waiting[t]
      BY <1>3, <2>1, Zenon
    <2>4. QED BY <2>2, <2>3, Zenon DEF Unused
  <1>10. ASSUME NEW s \in Streams, NEW n \in StreamLimits, MaxStreamData(s, n)
        PROVE  Unused'
    <2>1. /\ state[s] # "Unopened" /\ UNCHANGED <<state, finAcked, finPending, waiting>>
          /\ \/ blocked' = blocked
             \/ blocked' = [blocked EXCEPT ![s] = blocked[s] \/ offset[s] = maxStreamData[s]]
      BY <1>10, Zenon DEF MaxStreamData
    <2>2. \A t \in Streams : t # s => blocked'[t] = blocked[t]
      BY <1>3, <2>1, Zenon
    <2>3. QED BY <1>2, <2>1, <2>2
  <1>11. ASSUME NEW p \in Pkts, TransmitFrame(p)
        PROVE  Unused'
    <2>1. /\ UNCHANGED <<state, finAcked, blocked, waiting>>
          /\ \A t \in Streams : finPending'[t] => finPending[t]
      <3>1. PICK s \in Streams :
              /\ \A t \in Streams : t # s => (finPending'[t] <=> finPending[t])
              /\ finPending'[s] => finPending[s]
        <4>1. PICK e \in Pops, s \in Streams, hi \in Nat : TransmitsAs(p, e, s, hi)
          BY <1>11, TransmitEffect
        <4>2. QED BY <4>1, Zenon DEF TransmitsAs
      <3>2. QED BY <1>11, <3>1, Zenon DEF TransmitFrame
    <2>2. QED BY <2>1, Zenon DEF Unused
  <1>12. ASSUME NEW p \in Pkts, Ack(p)
        PROVE  Unused'
    <2>1. PICK f, s : f = sent[p] /\ s = f.id
      OBVIOUS
    <2>2. /\ s \in Streams /\ UNCHANGED <<finPending, blocked, waiting>>
          /\ \A t \in Streams : t # s =>
               (finAcked'[t] <=> finAcked[t]) /\ state'[t] = state[t]
          /\ state'[s] = state[s] \/ state'[s] = "Finished"
      BY <1>12, <2>1, AckEffect
    <2>3. state[s] # "Unopened"
      BY <1>12, <2>1, FrameFacts DEF Ack
    <2>4. QED BY <2>2, <2>3, Zenon DEF Unused
  <1>13. ASSUME NEW p \in Pkts, Lose(p)
        PROVE  Unused'
    <2>1. PICK f, s : f = sent[p] /\ s = f.id
      OBVIOUS
    <2>2. s \in Streams /\ state[s] # "Unopened"
      BY <1>13, <2>1, FrameFacts DEF Lose
    <2>3. /\ UNCHANGED <<state, finAcked, blocked, waiting>>
          /\ \/ finPending' = finPending
             \/ finPending' = [finPending EXCEPT ![s] = LostFin(s, f)]
      BY <1>13, <2>1, Zenon DEF Lose
    <2>4. \A t \in Streams : t # s => finPending'[t] = finPending[t]
      BY <1>3, <2>2, <2>3, Zenon
    <2>5. QED BY <1>2, <2>2, <2>3, <2>4
  <1>14. ASSUME NEW n \in RejectLimits, ZeroRttRejected(n)
        PROVE  Unused'
    BY <1>14, Zenon DEF ZeroRttRejected, Unused
  <1>15. CASE Application
    BY <1>1, <1>4, <1>5, <1>6, <1>7, <1>15 DEF Application, SetPriority, SetSendWindow
  <1>16. CASE Polling \/ Peer
    BY <1>1, <1>8, <1>9, <1>10, <1>16 DEF Polling, Peer, StopSending, MaxData
  <1>17. CASE Transmit
    BY <1>1, <1>11, <1>17 DEF Transmit, DropStale, SendReset
  <1>18. CASE Acknowledge
    BY <1>4, <1>12, <1>18 DEF Acknowledge
  <1>19. CASE Loss
    BY <1>1, <1>13, <1>19 DEF Loss, LoseReset, TailLossProbe
  <1>20. CASE EarlyData
    BY <1>1, <1>14, <1>20 DEF EarlyData, ZeroRttAccepted, Retry
  <1>21. CASE UNCHANGED vars
    BY <1>1, <1>21 DEF vars
  <1>22. QED BY <1>15, <1>16, <1>17, <1>18, <1>19, <1>20, <1>21 DEF Next

\* The RESET_STREAM of a reset stream is neither lost nor duplicated.
LEMMA OneResetStep ==
    ASSUME IInv, OneReset, [Next]_vars
    PROVE  OneReset'
  <1>1. state \in [Streams -> States]
        /\ resetPending \subseteq Streams /\ resetInFlight \subseteq Streams
    BY DEF IInv, TypeOK, ListsOK
  <1>2. ASSUME UNCHANGED resetVars,
               \A t \in Streams : state'[t] = "ResetSent" <=> state[t] = "ResetSent"
        PROVE  OneReset'
    BY <1>2 DEF OneReset
  <1>3. ASSUME NEW s \in Streams, Open(s) \/ Finish(s)
        PROVE  OneReset'
    <2>1. /\ UNCHANGED resetVars
          /\ \A t \in Streams : state'[t] = "ResetSent" <=> state[t] = "ResetSent"
      BY <1>1, <1>3 DEF Open, Finish
    <2>2. QED BY <1>2, <2>1
  <1>4. ASSUME NEW s \in Streams, Reset(s)
        PROVE  OneReset'
    <2>1. /\ state[s] # "ResetSent" /\ state'[s] = "ResetSent"
          /\ \A t \in Streams : t # s => state'[t] = state[t]
          /\ resetPending' = resetPending \cup {s} /\ resetInFlight' = resetInFlight
      BY <1>1, <1>4 DEF Reset, Open_
    <2>2. QED BY <2>1 DEF OneReset
  <1>5. ASSUME NEW s \in Streams, SendReset(s)
        PROVE  OneReset'
    <2>1. s \in resetPending /\ s \notin resetInFlight /\ state[s] \in Live
      BY <1>5 DEF SendReset, OneReset, Live
    <2>2. /\ state' = state /\ resetPending' = resetPending \ {s}
          /\ resetInFlight' = resetInFlight \cup {s}
      BY <1>5, <2>1 DEF SendReset
    <2>3. QED BY <2>1, <2>2 DEF OneReset
  <1>6. ASSUME NEW s \in Streams, AckReset(s)
        PROVE  OneReset'
    <2>1. /\ s \in resetInFlight /\ s \notin resetPending /\ state[s] = "ResetSent"
          /\ resetInFlight' = resetInFlight \ {s} /\ resetPending' = resetPending
      BY <1>6 DEF AckReset, OneReset
    <2>2. /\ state'[s] = "ResetAcked"
          /\ \A t \in Streams : t # s => state'[t] = state[t]
      BY <1>1, <1>6, <2>1 DEF AckReset
    <2>3. QED BY <2>1, <2>2 DEF OneReset
  <1>7. ASSUME NEW s \in Streams, LoseReset(s)
        PROVE  OneReset'
    BY <1>7 DEF LoseReset, OneReset
  <1>8. ASSUME NEW p \in Pkts, Ack(p)
        PROVE  OneReset'
    <2>1. PICK f, s : f = sent[p] /\ s = f.id
      OBVIOUS
    <2>2. /\ s \in Streams
          /\ \A t \in Streams : t # s => state'[t] = state[t]
          /\ state'[s] = state[s] \/ (state[s] = "DataSent" /\ state'[s] = "Finished")
      BY <1>8, <2>1, AckEffect
    <2>3. UNCHANGED resetVars
      BY <1>8 DEF Ack
    <2>4. \A t \in Streams : state'[t] = "ResetSent" <=> state[t] = "ResetSent"
      BY <2>2
    <2>5. QED BY <1>2, <2>3, <2>4
  <1>9. CASE Retry
    BY <1>9 DEF Retry, OneReset
  <1>10. ASSUME NEW n \in RejectLimits, ZeroRttRejected(n)
        PROVE  OneReset'
    BY <1>10 DEF ZeroRttRejected, OneReset
  <1>11. CASE Application
    BY <1>2, <1>3, <1>4, <1>11 DEF Application, WriteNoCredit, WriteNoBudget, WriteData,
                                   SetPriority, SetSendWindow
  <1>12. CASE Polling \/ Peer
    BY <1>2, <1>12 DEF Polling, PollBlocked, PollEvent, Peer, StopSending,
                       MaxStreamData, MaxData
  <1>13. CASE Transmit
    BY <1>2, <1>5, <1>13 DEF Transmit, DropStale, TransmitFrame
  <1>14. CASE Acknowledge
    BY <1>6, <1>8, <1>14 DEF Acknowledge
  <1>15. CASE Loss
    BY <1>2, <1>7, <1>15 DEF Loss, Lose, TailLossProbe
  <1>16. CASE EarlyData
    BY <1>2, <1>9, <1>10, <1>16 DEF EarlyData, ZeroRttAccepted
  <1>17. CASE UNCHANGED vars
    BY <1>2, <1>17 DEF vars
  <1>18. QED BY <1>11, <1>12, <1>13, <1>14, <1>15, <1>16, <1>17 DEF Next

\* What the sender believes of its peer holds in every reachable state.
THEOREM DeliveryInvariance == Spec => []Delivery
  <1>1. Init => Delivery
    <2> SUFFICES ASSUME Init PROVE Delivery
      OBVIOUS
    <2>1. \A s \in Streams : state[s] = "Unopened"
      BY DEF Init
    <2>2. \A p \in Pkts : sent[p].id = NoStream
      BY DEF Init, NoFrame
    <2>3. Bounded
      BY <2>2, StreamsAssumption DEF Init, Bounded
    <2>4. Held /\ Complete
      BY <2>1 DEF Held, Complete, Open_
    <2>5. Unused
      BY Zenon DEF Init, Unused
    <2>6. OneReset
      BY <2>1 DEF Init, OneReset
    <2>7. QED BY <2>3, <2>4, <2>5, <2>6 DEF Delivery
  <1>2. IInv /\ Delivery /\ [Next]_vars => Delivery'
    BY BoundedStep, HeldStep, UnusedStep, OneResetStep DEF Delivery
  <1>3. QED BY <1>1, <1>2, Invariance, PTL DEF Spec

\* A stream ends as its peer was told: it is Finished only once the peer has
\* acknowledged every byte and the FIN, in whatever order and however often they
\* were sent, and its RESET_STREAM is in exactly one place until acknowledged.
THEOREM EndsAsTold == Spec => []EndsOnce
  <1>1. IInv /\ Delivery => EndsOnce
    <2> SUFFICES ASSUME IInv, Delivery PROVE FinishedIsDelivered
      BY DEF Delivery, EndsOnce
    <2> SUFFICES ASSUME NEW s \in Streams, state[s] = "Finished"
                 PROVE  /\ peerHas[s] = Bytes(0, offset[s]) /\ s \in peerFin
                        /\ Unacked(s) = {}
      BY DEF FinishedIsDelivered
    <2>1. offset[s] \in Int /\ peerHas[s] \subseteq Int
      BY BoundsAssumption DEF IInv, TypeOK, BuffersOK
    <2>2. peerHas[s] = Bytes(0, offset[s]) /\ s \in peerFin
      <3>1. s \in peerFin /\ \A o \in Int : o \in peerHas[s] <=> 0 <= o /\ o < offset[s]
        BY DEF Delivery, Bounded, Complete
      <3>2. \A o : o \in Bytes(0, offset[s]) <=> o \in Int /\ 0 <= o /\ o < offset[s]
        BY <2>1 DEF Bytes
      <3>3. QED BY <2>1, <3>1, <3>2
    <2>3. Unacked(s) = {}
      BY <2>1 DEF Delivery, Complete, Unacked, Bytes
    <2>4. QED BY <2>2, <2>3
  <1>2. QED BY <1>1, Invariance, DeliveryInvariance, PTL

------------------------------------------------------------------------------
(* What has to be sent, and who waits *)

\* Stream t has an entry in q.
Listed(q, t) == \E i \in 1 .. Len(q) : q[i].id = t

\* Stream t is on the list l.
OnList(l, t) == \E i \in 1 .. Len(l) : l[i] = t

\* The flag connection_blocked of a stream agrees with the list.
BlockedListed ==
    \A s \in Streams : blocked[s] /\ state[s] \in Live => OnList(connBlocked, s)

\* Queueing a stream adds it and keeps the others.
LEMMA PushLists ==
    ASSUME NEW q \in Seq([id : Streams, prio : Int]), NEW s \in Streams
    PROVE  /\ Listed(Push(q, s), s)
           /\ \A t \in Streams : Listed(q, t) => Listed(Push(q, s), t)
  <1> DEFINE e == [id |-> s, prio |-> priority[s]]
  <1>1. Push(q, s) = Append(q, e)
    BY DEF Push
  <1>2. e.id = s
    OBVIOUS
  <1> HIDE DEF e
  <1>3. Len(q) \in Nat /\ Len(Append(q, e)) = Len(q) + 1
    OBVIOUS
  <1>4. /\ Append(q, e)[Len(q) + 1] = e
        /\ \A i \in 1 .. Len(q) : Append(q, e)[i] = q[i]
    OBVIOUS
  <1>5. Listed(Append(q, e), s)
    BY <1>2, <1>3, <1>4 DEF Listed
  <1>6. \A t \in Streams : Listed(q, t) => Listed(Append(q, e), t)
    BY <1>3, <1>4 DEF Listed
  <1>7. QED BY <1>1, <1>5, <1>6

\* Popping a stream keeps the others.
LEMMA PopLists ==
    ASSUME ListsOK, NEW e \in Pops, NEW t \in Streams, t # e.id, Queued(t)
    PROVE  Listed(e.rest, t)
  <1> USE StreamsAssumption
  <1>1. queue \in Seq([id : Streams, prio : Int])
    BY DEF ListsOK
  <1>2. CASE next # NoStream
    <2>1. e = [id |-> next, rest |-> queue]
      BY <1>2 DEF Pops
    <2>2. e.id = next /\ e.rest = queue
      BY <2>1
    <2>3. QED BY <2>2 DEF Queued, Listed
  <1>3. CASE next = NoStream
    <2>1. PICK i \in 1 .. Len(queue) :
              e = [id |-> queue[i].id, rest |-> WithoutIndex(queue, i)]
      BY <1>3 DEF Pops
    <2>2. e.id = queue[i].id /\ e.rest = WithoutIndex(queue, i)
      BY <2>1
    <2>3. PICK j \in 1 .. Len(queue) : queue[j].id = t
      BY <1>3 DEF Queued
    <2>4. i # j /\ Len(queue) \in Nat
      BY <1>1, <2>2, <2>3
    <2>5. Len(e.rest) = Len(queue) - 1
      BY <2>2, <2>4 DEF WithoutIndex
    <2>6. CASE j < i
      <3>1. j \in 1 .. (Len(queue) - 1) /\ e.rest[j] = queue[j]
        BY <2>2, <2>4, <2>6 DEF WithoutIndex
      <3>2. QED BY <2>3, <2>5, <3>1 DEF Listed
    <2>7. CASE i < j
      <3>1. /\ j - 1 \in 1 .. (Len(queue) - 1) /\ ~(j - 1 < i)
            /\ (j - 1) + 1 = j
        BY <2>4, <2>7
      <3>2. e.rest[j - 1] = queue[j]
        BY <2>2, <3>1 DEF WithoutIndex
      <3>3. QED BY <2>3, <2>5, <3>1, <3>2 DEF Listed
    <2>8. QED BY <2>4, <2>6, <2>7
  <1>4. QED BY <1>2, <1>3

\* PushIfIdle leaves s in the queue if it was there whenever it had to be.
LEMMA PushIfIdleQueues ==
    ASSUME IInv, NEW s \in Streams, queue' = PushIfIdle(s), next' = next
    PROVE  /\ (IsPending(s) => Queued(s)) => Queued(s)'
           /\ \A t \in Streams : Queued(t) => Queued(t)'
  <1>1. queue \in Seq([id : Streams, prio : Int])
    BY DEF IInv, TypeOK, ListsOK
  <1>2. CASE IsPending(s)
    BY <1>2 DEF PushIfIdle, Queued
  <1>3. CASE ~IsPending(s)
    <2>1. queue' = Push(queue, s)
      BY <1>3 DEF PushIfIdle
    <2>2. /\ Listed(queue', s)
          /\ \A t \in Streams : Listed(queue, t) => Listed(queue', t)
      BY <1>1, <2>1, PushLists
    <2>3. QED BY <2>2 DEF Queued, Listed
  <1>4. QED BY <1>2, <1>3

\* A function on 1 .. n is a sequence of length n.
LEMMA ListOfFunction ==
    ASSUME NEW S, NEW n \in Nat, NEW f \in [1 .. n -> S]
    PROVE  f \in Seq(S) /\ Len(f) = n
  OBVIOUS

\* A stream with something to send stays in the queue.
LEMMA PendingQueuedStep ==
    ASSUME IInv, Unused, PendingQueued, [Next]_vars
    PROVE  PendingQueued'
  <1> USE BoundsAssumption, StreamsAssumption
  <1>1. ASSUME \A t \in Streams : Queued(t) => Queued(t)',
               \A t \in Streams : state'[t] \in Open_ /\ IsPending(t)'
                                    => state[t] \in Open_ /\ IsPending(t)
        PROVE  PendingQueued'
    BY <1>1 DEF PendingQueued
  <1>2. ASSUME UNCHANGED <<queueVars, state, unsent, offset, retransmits, finPending>>
        PROVE  PendingQueued'
    BY <1>2 DEF PendingQueued, IsPending, HasUnsentData, Queued
  <1>3. /\ state \in [Streams -> States] /\ finPending \in [Streams -> BOOLEAN]
        /\ offset \in [Streams -> 0 .. MaxOffset]
        /\ retransmits \in [Streams -> SUBSET (0 .. (MaxOffset - 1))]
    BY DEF IInv, TypeOK, FlagsOK, BuffersOK
  \* s is queued if it was idle, and nothing else gets something to send.
  <1>4. ASSUME NEW s \in Streams, state[s] \in Open_ \/ state'[s] \notin Open_,
               queue' = PushIfIdle(s), next' = next,
               \A t \in Streams : t # s =>
                 state'[t] = state[t] /\ (IsPending(t)' <=> IsPending(t))
        PROVE  PendingQueued'
    <2>1. state[s] \in Open_ => (IsPending(s) => Queued(s))
      BY DEF PendingQueued
    <2>2. /\ state[s] \in Open_ => Queued(s)'
          /\ \A t \in Streams : Queued(t) => Queued(t)'
      BY <1>4, <2>1, PushIfIdleQueues
    <2>3. QED BY <1>4, <2>2 DEF PendingQueued
  <1>5. ASSUME NEW s \in Streams, Open(s)
        PROVE  PendingQueued'
    <2>1. /\ state[s] = "Unopened"
          /\ \A t \in Streams : t # s => state'[t] = state[t]
          /\ UNCHANGED <<queueVars, unsent, offset, retransmits, finPending>>
      BY <1>3, <1>5 DEF Open
    <2>2. ~IsPending(s) /\ ~IsPending(s)'
      BY <2>1 DEF IInv, BufInv, Fresh, Unused, IsPending, HasUnsentData
    <2>3. \A t \in Streams : (IsPending(t)' <=> IsPending(t)) /\ (Queued(t)' <=> Queued(t))
      BY <2>1 DEF IsPending, HasUnsentData, Queued
    <2>4. QED BY <2>1, <2>2, <2>3 DEF PendingQueued
  <1>6. ASSUME NEW s \in Streams, NEW n \in 0 .. MaxOffset, WriteData(s, n)
        PROVE  PendingQueued'
    <2>1. /\ state[s] \in Open_ /\ queue' = PushIfIdle(s) /\ next' = next
          /\ UNCHANGED <<state, unsent, retransmits, finPending>>
      BY <1>6 DEF WriteData, Open_
    <2>2. \A t \in Streams : t # s => offset'[t] = offset[t]
      BY <1>3, <1>6 DEF WriteData
    <2>3. \A t \in Streams : t # s => (IsPending(t)' <=> IsPending(t))
      BY <2>1, <2>2 DEF IsPending, HasUnsentData
    <2>4. QED BY <1>4, <2>1, <2>3
  <1>7. ASSUME NEW s \in Streams, Finish(s)
        PROVE  PendingQueued'
    <2>1. /\ state[s] \in Open_ /\ queue' = PushIfIdle(s) /\ next' = next
          /\ UNCHANGED <<unsent, offset, retransmits>>
          /\ state' = [state EXCEPT ![s] = "DataSent"]
          /\ finPending' = [finPending EXCEPT ![s] = TRUE]
      BY <1>7 DEF Finish, Open_
    <2>2. \A t \in Streams : t # s =>
            state'[t] = state[t] /\ finPending'[t] = finPending[t]
      BY <1>3, <2>1
    <2>3. \A t \in Streams : t # s => (IsPending(t)' <=> IsPending(t))
      BY <2>1, <2>2 DEF IsPending, HasUnsentData
    <2>4. QED BY <1>4, <2>1, <2>2, <2>3
  <1>8. ASSUME NEW s \in Streams, Reset(s) \/ AckReset(s)
        PROVE  PendingQueued'
    <2>1. /\ UNCHANGED <<queueVars, unsent, offset, retransmits, finPending>>
          /\ \A t \in Streams : state'[t] \in Open_ => state[t] \in Open_
      BY <1>3, <1>8 DEF Reset, AckReset, Open_
    <2>2. \A t \in Streams : (IsPending(t)' <=> IsPending(t)) /\ (Queued(t)' <=> Queued(t))
      BY <2>1 DEF IsPending, HasUnsentData, Queued
    <2>3. QED BY <1>1, <2>1, <2>2
  <1>9. CASE DropStale
    <2>1. PICK e \in Pops : state[e.id] \notin Open_ /\ queue' = e.rest /\ next' = NoStream
      BY <1>9 DEF DropStale
    <2>2. UNCHANGED <<state, unsent, offset, retransmits, finPending>>
      BY <1>9 DEF DropStale
    <2>3. \A t \in Streams : t # e.id /\ Queued(t) => Queued(t)'
      BY <2>1, PopLists DEF IInv, TypeOK, Queued, Listed
    <2>4. \A t \in Streams : IsPending(t)' <=> IsPending(t)
      BY <2>2 DEF IsPending, HasUnsentData
    <2>5. QED BY <2>1, <2>2, <2>3, <2>4 DEF PendingQueued
  <1>10. ASSUME NEW p \in Pkts, TransmitFrame(p)
         PROVE  PendingQueued'
    <2>1. PICK e \in Pops, s \in Streams :
            /\ s = e.id
            /\ \A t \in Streams : t # s =>
                 /\ unsent'[t] = unsent[t] /\ retransmits'[t] = retransmits[t]
                 /\ (finPending'[t] <=> finPending[t])
            /\ LET still == unsent'[s] # offset[s] \/ retransmits'[s] # {} \/ finPending'[s]
               IN  /\ queue' = IF still /\ Fair THEN Push(e.rest, s) ELSE e.rest
                   /\ next' = IF still /\ ~Fair THEN s ELSE NoStream
      <3>1. PICK e \in Pops, s \in Streams, hi \in Nat : TransmitsAs(p, e, s, hi)
        BY <1>10, TransmitEffect
      <3>2. QED BY <3>1, Zenon DEF TransmitsAs
    <2>2. UNCHANGED <<state, offset>>
      BY <1>10 DEF TransmitFrame
    <2>3. e.rest \in Seq([id : Streams, prio : Int])
      BY PopsType DEF IInv, TypeOK
    <2>4. /\ queue' = IF IsPending(s)' /\ Fair THEN Push(e.rest, s) ELSE e.rest
          /\ next' = IF IsPending(s)' /\ ~Fair THEN s ELSE NoStream
      BY <2>1, <2>2, Zenon DEF IsPending, HasUnsentData
    <2>5. IsPending(s)' => Queued(s)'
      <3>1. Listed(Push(e.rest, s), s)
        BY <2>3, PushLists
      <3>2. CASE Fair
        BY <2>4, <3>1, <3>2 DEF Queued, Listed
      <3>3. CASE ~Fair
        BY <2>4, <3>3 DEF Queued
      <3>4. QED BY <3>2, <3>3
    <2>6. ASSUME NEW t \in Streams, t # s, Queued(t)
          PROVE  Queued(t)'
      <3>1. Listed(e.rest, t)
        BY <2>1, <2>6, PopLists DEF IInv, TypeOK
      <3>2. Listed(queue', t)
        BY <2>3, <2>4, <3>1, PushLists
      <3>3. QED BY <3>2 DEF Queued, Listed
    <2>7. \A t \in Streams : t # s => (IsPending(t)' <=> IsPending(t))
      BY <2>1, <2>2 DEF IsPending, HasUnsentData
    <2>8. QED BY <2>2, <2>5, <2>6, <2>7 DEF PendingQueued
  <1>11. ASSUME NEW p \in Pkts, Lose(p)
         PROVE  PendingQueued'
    <2>1. PICK f, s : f = sent[p] /\ s = f.id
      OBVIOUS
    <2>2. s \in Streams
      BY <1>11, <2>1, FrameFacts DEF Lose
    <2>3. UNCHANGED <<state, unsent, offset, next>>
      BY <1>11 DEF Lose
    <2>4. CASE state[s] \notin Live
      BY <1>2, <1>11, <2>1, <2>3, <2>4 DEF Lose
    <2>5. CASE state[s] \in Live
      <3>1. /\ queue' = PushIfIdle(s)
            /\ finPending' = [finPending EXCEPT ![s] = LostFin(s, f)]
            /\ retransmits' = [retransmits EXCEPT ![s] =
                                 retransmits[s] \cup Bytes(Greater(f.lo, base[s]), f.hi)]
        BY <1>11, <2>1, <2>5 DEF Lose
      <3>2. \A t \in Streams : t # s =>
               finPending'[t] = finPending[t] /\ retransmits'[t] = retransmits[t]
        BY <1>3, <3>1
      <3>3. \A t \in Streams : t # s => (IsPending(t)' <=> IsPending(t))
        BY <2>3, <3>2 DEF IsPending, HasUnsentData
      <3>4. QED BY <1>4, <2>2, <2>3, <3>1, <3>3
    <2>6. QED BY <2>4, <2>5
  <1>12. ASSUME NEW p \in Pkts, Ack(p)
         PROVE  PendingQueued'
    <2>1. PICK f, s : f = sent[p] /\ s = f.id
      OBVIOUS
    <2>2. /\ s \in Streams
          /\ \A t \in Streams : t # s => state'[t] = state[t]
          /\ state'[s] = state[s] \/ (state[s] = "DataSent" /\ state'[s] = "Finished")
      BY <1>12, <2>1, AckEffect
    <2>3. UNCHANGED <<queueVars, unsent, offset, finPending>>
      BY <1>12 DEF Ack
    <2>4. \A t \in Streams : retransmits'[t] \subseteq retransmits[t]
      <3>1. CASE AckApplies(s)
        <4>1. ReceivedAckOf(f)
          BY <1>12, <2>1, <3>1 DEF Ack
        <4>2. PICK b : AckBuffer(s, f.lo, f.hi, b)
          BY <2>1, <4>1, Zenon DEF ReceivedAckOf
        <4>3. retransmits' = [retransmits EXCEPT ![s] = retransmits[s] \ Bytes(0, b)]
          BY <4>2 DEF AckBuffer
        <4>4. QED BY <1>3, <2>2, <4>3
      <3>2. CASE ~AckApplies(s)
        BY <1>12, <2>1, <3>2 DEF Ack
      <3>3. QED BY <3>1, <3>2
    <2>5. \A t \in Streams : Queued(t)' <=> Queued(t)
      BY <2>3 DEF Queued
    <2>6. \A t \in Streams : IsPending(t)' => IsPending(t)
      BY <2>3, <2>4 DEF IsPending, HasUnsentData
    <2>7. \A t \in Streams : state'[t] \in Open_ => state[t] \in Open_
      BY <2>2 DEF Open_
    <2>8. QED BY <1>1, <2>5, <2>6, <2>7
  <1>13. CASE Retry
    <2> DEFINE again == {s \in Streams : StartOver(s)}
               push == {s \in again : ~IsPending(s)}
               N == Cardinality(push)
    <2>1. /\ unsent' = [s \in Streams |-> IF s \in again THEN 0 ELSE unsent[s]]
          /\ UNCHANGED <<state, offset, retransmits, finPending, next>>
      BY <1>13 DEF Retry
    <2>2. PICK order \in [1 .. N -> push] :
            /\ Range(order) = push
            /\ queue' = queue \o [i \in 1 .. N |->
                          [id |-> order[i], prio |-> priority[order[i]]]]
      BY <1>13 DEF Retry
    <2>3. N \in Nat
      <3>1. IsFiniteSet(push)
        BY FS_Subset
      <3>2. QED BY <3>1, FS_CardinalityType
    <2>4. push \subseteq Streams
      OBVIOUS
    <2>5. \A t \in Streams : state[t] \in Live /\ t \notin push =>
             (IsPending(t)' => IsPending(t))
      BY <2>1 DEF IsPending, HasUnsentData
    <2> HIDE DEF push, N
    <2> DEFINE new == [i \in 1 .. N |-> [id |-> order[i], prio |-> priority[order[i]]]]
    <2>6. queue \in Seq([id : Streams, prio : Int]) /\ Len(queue) \in Nat
      BY DEF IInv, TypeOK, ListsOK
    <2>7. /\ queue' = queue \o new
          /\ \A i \in 1 .. N : new[i].id = order[i]
      BY <2>2
    <2>8. new \in Seq([id : Streams, prio : Int]) /\ Len(new) = N
      <3>1. priority \in [Streams -> Int]
        BY DEF IInv, TypeOK, ListsOK
      <3>2. \A i \in 1 .. N : [id |-> order[i], prio |-> priority[order[i]]]
                                 \in [id : Streams, prio : Int]
        BY <2>4, <3>1
      <3>3. new \in [1 .. N -> [id : Streams, prio : Int]]
        BY <3>2
      <3> DEFINE E == [id : Streams, prio : Int]
      <3> HIDE DEF new, E
      <3>4. new \in [1 .. N -> E]
        BY <3>3 DEF E
      <3>5. new \in Seq(E) /\ Len(new) = N
        BY <2>3, <3>4, ListOfFunction
      <3>6. QED BY <3>5 DEF E
    <2> HIDE DEF new
    <2>9. /\ Len(queue') = Len(queue) + N
          /\ \A i \in 1 .. Len(queue) : queue'[i] = queue[i]
          /\ \A i \in 1 .. N : queue'[Len(queue) + i] = new[i]
      <3>1. /\ Len(queue \o new) = Len(queue) + N
            /\ \A i \in 1 .. Len(queue) + N : (queue \o new)[i] =
                  IF i <= Len(queue) THEN queue[i] ELSE new[i - Len(queue)]
        BY <2>6, <2>8, ConcatProperties
      <3>2. queue' = queue \o new /\ Len(queue) \in Nat /\ N \in Nat
        BY <2>3, <2>6, <2>7
      <3>3. \A i \in 1 .. Len(queue) : (queue \o new)[i] = queue[i]
        BY <3>1, <3>2
      <3>4. \A i \in 1 .. N : (queue \o new)[Len(queue) + i] = new[i]
        BY <3>1, <3>2
      <3>5. QED BY <3>1, <3>2, <3>3, <3>4
    <2>10. \A t \in Streams : Queued(t) => Queued(t)'
      BY <2>1, <2>3, <2>6, <2>9 DEF Queued
    <2>11. ASSUME NEW t \in push
           PROVE  Queued(t)'
      <3>1. PICK i \in 1 .. N : order[i] = t
        BY <2>2 DEF Range
      <3>2. Len(queue) + i \in 1 .. Len(queue') /\ queue'[Len(queue) + i].id = t
        BY <2>3, <2>6, <2>7, <2>9, <3>1
      <3>3. QED BY <3>2 DEF Queued
    <2>12. QED BY <2>1, <2>5, <2>10, <2>11 DEF PendingQueued, Live
  <1>14. ASSUME NEW n \in RejectLimits, ZeroRttRejected(n)
         PROVE  PendingQueued'
    BY <1>14 DEF ZeroRttRejected, PendingQueued, Open_
  <1>15. CASE Application
    BY <1>2, <1>5, <1>6, <1>7, <1>8, <1>15
       DEF Application, WriteNoCredit, WriteNoBudget, SetPriority, SetSendWindow
  <1>16. CASE Polling \/ Peer
    BY <1>2, <1>16 DEF Polling, PollBlocked, PollEvent, Peer, StopSending,
                       MaxStreamData, MaxData
  <1>17. CASE Transmit
    BY <1>2, <1>9, <1>10, <1>17 DEF Transmit, SendReset
  <1>18. CASE Acknowledge
    BY <1>8, <1>12, <1>18 DEF Acknowledge
  <1>19. CASE Loss
    BY <1>2, <1>11, <1>19 DEF Loss, LoseReset, TailLossProbe
  <1>20. CASE EarlyData
    BY <1>2, <1>13, <1>14, <1>20 DEF EarlyData, ZeroRttAccepted
  <1>21. CASE UNCHANGED vars
    BY <1>2, <1>21 DEF vars
  <1>22. QED BY <1>15, <1>16, <1>17, <1>18, <1>19, <1>20, <1>21 DEF Next

\* A FIN that was not acknowledged is waiting, in flight or still to come with
\* unsent data.
LEMMA FinNotForgottenStep ==
    ASSUME IInv, FinNotForgotten, [Next]_vars
    PROVE  FinNotForgotten'
  <1> USE BoundsAssumption, StreamsAssumption
  <1> DEFINE Owes(t) == state[t] = "DataSent" /\ ~finAcked[t] /\ (retried => offset[t] > 0)
  <1> SUFFICES \A t \in Streams : Owes(t)' => FinOwed(t)'
    BY DEF FinNotForgotten
  <1>1. ASSUME NEW t \in Streams, Owes(t)' => Owes(t),
               finPending[t] => finPending'[t],
               unsent'[t] = unsent[t], offset'[t] = offset[t],
               \A q \in Pkts : sent[q].id = t /\ sent[q].fin =>
                 sent'[q].id = t /\ sent'[q].fin
        PROVE  Owes(t)' => FinOwed(t)'
    <2>1. Owes(t) => FinOwed(t)
      BY DEF FinNotForgotten
    <2>2. QED BY <1>1, <2>1 DEF FinOwed
  <1>2. /\ state \in [Streams -> States] /\ offset \in [Streams -> 0 .. MaxOffset]
        /\ unsent \in [Streams -> 0 .. MaxOffset]
    BY DEF IInv, TypeOK, BuffersOK
  <1>3. finPending \in [Streams -> BOOLEAN] /\ finAcked \in [Streams -> BOOLEAN]
    BY DEF IInv, TypeOK, FlagsOK
  <1>4. ASSUME UNCHANGED <<finAcked, finPending, unsent, offset, sent, retried>>,
               \A t \in Streams : state'[t] = "DataSent" => state[t] = "DataSent"
        PROVE  \A t \in Streams : Owes(t)' => FinOwed(t)'
    BY <1>1, <1>4
  <1>5. ASSUME NEW s \in Streams, Open(s) \/ Reset(s) \/ AckReset(s)
        PROVE  \A t \in Streams : Owes(t)' => FinOwed(t)'
    <2>1. \A t \in Streams : state'[t] = "DataSent" => state[t] = "DataSent"
      BY <1>2, <1>5 DEF Open, Reset, AckReset
    <2>2. UNCHANGED <<finAcked, finPending, unsent, offset, sent, retried>>
      BY <1>5 DEF Open, Reset, AckReset
    <2>3. QED BY <1>4, <2>1, <2>2
  <1>6. ASSUME NEW s \in Streams, NEW n \in 0 .. MaxOffset, WriteData(s, n)
        PROVE  \A t \in Streams : Owes(t)' => FinOwed(t)'
    <2>1. /\ state[s] = "Ready" /\ UNCHANGED <<state, finAcked, finPending, unsent, sent, retried>>
          /\ \A t \in Streams : t # s => offset'[t] = offset[t]
      BY <1>2, <1>6 DEF WriteData
    <2>2. QED BY <1>1, <2>1
  <1>7. ASSUME NEW s \in Streams, Finish(s)
        PROVE  \A t \in Streams : Owes(t)' => FinOwed(t)'
    <2>1. UNCHANGED <<finAcked, unsent, offset, sent, retried>>
      BY <1>7 DEF Finish
    <2>2. /\ finPending'[s]
          /\ \A t \in Streams : t # s => finPending'[t] = finPending[t]
      BY <1>3, <1>7 DEF Finish
    <2>3. \A t \in Streams : t # s => state'[t] = state[t]
      BY <1>2, <1>7 DEF Finish
    <2>4. FinOwed(s)'
      BY <2>2 DEF FinOwed
    <2>5. QED BY <1>1, <2>1, <2>2, <2>3, <2>4
  <1>8. ASSUME NEW p \in Pkts, TransmitFrame(p), NEW t \in Streams, Owes(t)'
        PROVE  FinOwed(t)'
    <2>1. PICK s \in Streams, hi \in Nat :
            /\ hi <= offset[s] /\ sent[p] = NoFrame
            /\ \A q \in Pkts : q # p => sent'[q] = sent[q]
            /\ sent'[p].id = s
            /\ sent'[p].fin <=> hi = offset[s] /\ state[s] = "DataSent"
            /\ \A u \in Streams : u # s =>
                 unsent'[u] = unsent[u] /\ (finPending'[u] <=> finPending[u])
            /\ finPending'[s] <=> finPending[s] /\ ~sent'[p].fin
            /\ unsent'[s] = unsent[s] \/ unsent'[s] = hi
      <3>1. PICK e \in Pops, s \in Streams, hi \in Nat : TransmitsAs(p, e, s, hi)
        BY <1>8, TransmitEffect
      <3>2. WITNESS s \in Streams, hi \in Nat
      <3>3. QED BY <3>1, Zenon DEF TransmitsAs
    <2>2. UNCHANGED <<state, finAcked, offset, retried>>
      BY <1>8 DEF TransmitFrame
    <2>3. Owes(t) /\ FinOwed(t)
      BY <1>8, <2>2 DEF FinNotForgotten
    <2>4. \A q \in Pkts : sent[q].id = t => sent'[q] = sent[q]
      BY <2>1 DEF NoFrame
    <2>5. CASE t # s
      BY <1>1, <1>8, <2>1, <2>2, <2>3, <2>4, <2>5
    <2>6. CASE t = s
      <3>1. CASE sent'[p].fin
        BY <2>1, <2>6, <3>1 DEF FinOwed
      <3>2. CASE ~sent'[p].fin
        <4>1. hi # offset[s]
          BY <2>1, <2>3, <2>6, <3>2
        <4>2. CASE finPending[s]
          BY <2>1, <2>6, <3>2, <4>2 DEF FinOwed
        <4>3. CASE \E q \in Pkts : sent[q].id = s /\ sent[q].fin
          BY <2>4, <2>6, <4>3 DEF FinOwed
        <4>4. CASE unsent[s] < offset[s]
          BY <1>2, <2>1, <2>2, <2>6, <4>1, <4>4 DEF FinOwed
        <4>5. QED BY <2>3, <2>6, <4>2, <4>3, <4>4 DEF FinOwed
      <3>3. QED BY <3>1, <3>2
    <2>7. QED BY <2>5, <2>6
  <1>9. ASSUME NEW p \in Pkts, Ack(p), NEW t \in Streams, Owes(t)'
        PROVE  FinOwed(t)'
    <2>1. PICK f, s : f = sent[p] /\ s = f.id
      OBVIOUS
    <2>2. /\ s \in Streams /\ UNCHANGED <<offset, finPending>>
          /\ \A q \in Pkts : q # p => sent'[q] = sent[q]
          /\ \A u \in Streams : u # s =>
               (finAcked'[u] <=> finAcked[u]) /\ state'[u] = state[u]
          /\ state[s] \notin Open_ => state'[s] = state[s]
          /\ state[s] \in Open_ =>
               /\ state[s] = "DataSent" /\ ~finAcked'[s] => ~finAcked[s] /\ ~f.fin
               /\ state'[s] = state[s] \/ state'[s] = "Finished"
      BY <1>9, <2>1, AckEffect
    <2>3. UNCHANGED <<unsent, retried>>
      BY <1>9 DEF Ack
    <2>4. CASE t # s
      BY <1>1, <1>9, <2>1, <2>2, <2>3, <2>4
    <2>5. CASE t = s
      <3>1. state[s] = "DataSent" /\ ~finAcked[s] /\ ~f.fin
        BY <1>9, <2>2, <2>5 DEF Open_
      <3>2. QED BY <1>1, <1>9, <2>1, <2>2, <2>3, <2>5, <3>1
    <2>6. QED BY <2>4, <2>5
  <1>10. ASSUME NEW p \in Pkts, Lose(p), NEW t \in Streams, Owes(t)'
         PROVE  FinOwed(t)'
    <2>1. PICK f, s : f = sent[p] /\ s = f.id
      OBVIOUS
    <2>2. s \in Streams
      BY <1>10, <2>1, FrameFacts DEF Lose
    <2>3. UNCHANGED <<state, finAcked, unsent, offset, retried>>
      BY <1>10 DEF Lose
    <2>4. \A q \in Pkts : q # p => sent'[q] = sent[q]
      BY <1>10, PacketGone DEF Lose
    <2>5. /\ state[s] \in Live => (finPending'[s] <=> finPending[s] \/ f.fin)
          /\ \A u \in Streams : u # s => (finPending'[u] <=> finPending[u])
      BY <1>3, <1>10, <2>1, <2>2, Zenon DEF Lose, LostFin
    <2>6. CASE t # s
      BY <1>1, <1>10, <2>1, <2>3, <2>4, <2>5, <2>6
    <2>7. CASE t = s
      <3>1. finPending'[s] <=> finPending[s] \/ f.fin
        BY <1>10, <2>3, <2>5, <2>7 DEF Live, Open_
      <3>2. CASE f.fin
        BY <2>7, <3>1, <3>2 DEF FinOwed
      <3>3. CASE ~f.fin
        BY <1>1, <1>10, <2>1, <2>3, <2>4, <2>7, <3>1, <3>3
      <3>4. QED BY <3>2, <3>3
    <2>8. QED BY <2>6, <2>7
  <1>11. ASSUME Retry, NEW t \in Streams, Owes(t)'
         PROVE  FinOwed(t)'
    <2>1. /\ phase = "early" /\ retried' = TRUE /\ UNCHANGED <<state, offset>>
          /\ unsent' = [s \in Streams |-> IF s \in {u \in Streams : StartOver(u)}
                                          THEN 0 ELSE unsent[s]]
      BY <1>11 DEF Retry
    <2>2. base[t] = 0 /\ offset[t] > 0 /\ state[t] = "DataSent"
      BY <1>11, <2>1 DEF IInv, BufInv, EarlyClean
    <2>3. StartOver(t)
      BY <2>2 DEF StartOver, Live, Open_
    <2>4. unsent'[t] = 0 /\ offset'[t] > 0
      BY <2>1, <2>2, <2>3
    <2>5. QED BY <2>4 DEF FinOwed
  <1>12. ASSUME NEW n \in RejectLimits, ZeroRttRejected(n)
         PROVE  \A t \in Streams : Owes(t)' => FinOwed(t)'
    BY <1>12 DEF ZeroRttRejected
  <1>13. CASE Application
    BY <1>4, <1>5, <1>6, <1>7, <1>13
       DEF Application, WriteNoCredit, WriteNoBudget, SetPriority, SetSendWindow
  <1>14. CASE Polling \/ Peer
    BY <1>4, <1>14 DEF Polling, PollBlocked, PollEvent, Peer, StopSending,
                       MaxStreamData, MaxData
  <1>15. CASE Transmit
    BY <1>4, <1>8, <1>15 DEF Transmit, SendReset, DropStale
  <1>16. CASE Acknowledge
    BY <1>5, <1>9, <1>16 DEF Acknowledge
  <1>17. CASE Loss
    BY <1>4, <1>10, <1>17 DEF Loss, LoseReset, TailLossProbe
  <1>18. CASE EarlyData
    BY <1>4, <1>11, <1>12, <1>18 DEF EarlyData, ZeroRttAccepted
  <1>19. CASE UNCHANGED vars
    BY <1>4, <1>19 DEF vars
  <1>20. QED BY <1>13, <1>14, <1>15, <1>16, <1>17, <1>18, <1>19 DEF Next

\* What poll leaves of connection_blocked is a prefix of it.
LEMMA PrefixKeeps ==
    ASSUME NEW q \in Seq(Streams), NEW k \in 0 .. Len(q)
    PROVE  \A i \in 1 .. (k - 1) :
              /\ i \in 1 .. Len(SubSeq(q, 1, k - 1))
              /\ SubSeq(q, 1, k - 1)[i] = q[i]
  <1>1. Len(q) \in Nat /\ k - 1 \in Int /\ \A i \in 1 .. (k - 1) : q[i] \in Streams
    OBVIOUS
  <1> DEFINE p == SubSeq(q, 1, k - 1)
  <1>2. /\ Len(p) = IF 1 <= k - 1 THEN (k - 1) - 1 + 1 ELSE 0
        /\ \A i \in 1 .. (k - 1) - 1 + 1 : p[i] = q[1 + i - 1]
    BY <1>1, SubSeqProperties
  <1> HIDE DEF p
  <1>3. \A i \in 1 .. (k - 1) : i \in 1 .. Len(p) /\ p[i] = q[i]
    BY <1>1, <1>2
  <1>4. QED BY <1>3 DEF p

\* Registering a blocked stream puts it on the list and keeps the others.
LEMMA RegisterLists ==
    ASSUME IInv, BlockedListed, NEW s \in Streams, state[s] \in Live
    PROVE  /\ OnList(Register(s), s)
           /\ \A t \in Streams : OnList(connBlocked, t) => OnList(Register(s), t)
  <1>1. connBlocked \in Seq(Streams) /\ Len(connBlocked) \in Nat
    BY DEF IInv, TypeOK, ListsOK
  <1>2. CASE blocked[s]
    BY <1>2 DEF Register, BlockedListed
  <1>3. CASE ~blocked[s]
    <2>1. Register(s) = Append(connBlocked, s)
      BY <1>3 DEF Register
    <2>2. /\ Len(Append(connBlocked, s)) = Len(connBlocked) + 1
          /\ Append(connBlocked, s)[Len(connBlocked) + 1] = s
          /\ \A i \in 1 .. Len(connBlocked) : Append(connBlocked, s)[i] = connBlocked[i]
      BY <1>1
    <2>3. QED BY <1>1, <2>1, <2>2 DEF OnList
  <1>4. QED BY <1>2, <1>3

\* Whoever is blocked is on the list, has an event coming or waits for credit.
LEMMA WakeupStep ==
    ASSUME IInv, Unused, BlockedListed, NoLostWakeup, [Next]_vars
    PROVE  BlockedListed' /\ NoLostWakeup'
  <1> USE BoundsAssumption, StreamsAssumption
  <1> DEFINE Flagged(t) == blocked[t] /\ state[t] \in Live => OnList(connBlocked, t)
             Told(t) == waiting[t] /\ state[t] = "Ready" /\ ~stopped[t] =>
                          \/ OnList(connBlocked, t)
                          \/ [type |-> "Writable", id |-> t] \in events
                          \/ offset[t] = maxStreamData[t]
  <1> SUFFICES \A t \in Streams : Flagged(t)' /\ Told(t)'
    BY DEF BlockedListed, NoLostWakeup, OnList
  <1>1. \A t \in Streams : Flagged(t) /\ Told(t)
    BY DEF BlockedListed, NoLostWakeup, OnList
  <1>2. /\ state \in [Streams -> States] /\ connBlocked \in Seq(Streams)
        /\ Len(connBlocked) \in Nat
        /\ offset \in [Streams -> 0 .. MaxOffset]
        /\ maxStreamData \in [Streams -> 0 .. MaxOffset]
    BY DEF IInv, TypeOK, BuffersOK, ListsOK
  <1>3. /\ blocked \in [Streams -> BOOLEAN] /\ waiting \in [Streams -> BOOLEAN]
        /\ stopped \in [Streams -> BOOLEAN]
    BY DEF IInv, TypeOK, FlagsOK
  \* A stream of which nothing changes but that it may end
  <1>4. ASSUME NEW t \in Streams,
               blocked'[t] => blocked[t], waiting'[t] => waiting[t],
               state'[t] \in Live => state[t] \in Live,
               state'[t] = "Ready" => state[t] = "Ready",
               stopped[t] => stopped'[t],
               OnList(connBlocked, t) => OnList(connBlocked', t),
               [type |-> "Writable", id |-> t] \in events =>
                 [type |-> "Writable", id |-> t] \in events',
               offset'[t] = offset[t], maxStreamData'[t] = maxStreamData[t]
        PROVE  Flagged(t)' /\ Told(t)'
    BY <1>1, <1>4
  <1>5. ASSUME UNCHANGED <<blocked, waiting, stopped, connBlocked, events, offset,
                           maxStreamData>>,
               \A t \in Streams : /\ state'[t] \in Live => state[t] \in Live
                                  /\ state'[t] = "Ready" => state[t] = "Ready"
        PROVE  \A t \in Streams : Flagged(t)' /\ Told(t)'
    BY <1>4, <1>5
  <1>6. ASSUME NEW s \in Streams, Open(s)
        PROVE  \A t \in Streams : Flagged(t)' /\ Told(t)'
    <2>1. /\ state[s] = "Unopened"
          /\ UNCHANGED <<blocked, waiting, stopped, connBlocked, events, offset>>
          /\ \A t \in Streams : t # s =>
               state'[t] = state[t] /\ maxStreamData'[t] = maxStreamData[t]
      BY <1>2, <1>6 DEF Open
    <2>2. ~blocked'[s] /\ ~waiting'[s]
      BY <2>1 DEF Unused
    <2>3. QED BY <1>4, <2>1, <2>2
  <1>7. ASSUME NEW s \in Streams, WriteNoCredit(s)
        PROVE  \A t \in Streams : Flagged(t)' /\ Told(t)'
    <2>1. /\ state[s] \in Live /\ connBlocked' = Register(s)
          /\ UNCHANGED <<state, stopped, events, offset, maxStreamData>>
      BY <1>7 DEF WriteNoCredit
    <2>2. \A t \in Streams : t # s => blocked'[t] = blocked[t] /\ waiting'[t] = waiting[t]
      BY <1>3, <1>7 DEF WriteNoCredit
    <2>3. /\ OnList(connBlocked', s)
          /\ \A t \in Streams : OnList(connBlocked, t) => OnList(connBlocked', t)
      BY <2>1, RegisterLists
    <2>4. QED BY <1>4, <2>1, <2>2, <2>3
  <1>8. ASSUME NEW s \in Streams, WriteNoBudget(s)
        PROVE  \A t \in Streams : Flagged(t)' /\ Told(t)'
    <2>1. /\ offset'[s] = maxStreamData'[s]
          /\ UNCHANGED <<state, blocked, stopped, connBlocked, events, offset, maxStreamData>>
      BY <1>8 DEF WriteNoBudget
    <2>2. \A t \in Streams : t # s => waiting'[t] = waiting[t]
      BY <1>3, <1>8 DEF WriteNoBudget
    <2>3. Flagged(s)' /\ Told(s)'
      BY <1>1, <2>1
    <2>4. QED BY <1>4, <2>1, <2>2, <2>3
  <1>9. ASSUME NEW s \in Streams, NEW n \in 0 .. MaxOffset, WriteData(s, n)
        PROVE  \A t \in Streams : Flagged(t)' /\ Told(t)'
    <2>1. /\ UNCHANGED <<state, blocked, stopped, connBlocked, events, maxStreamData>>
          /\ \A t \in Streams : t # s => offset'[t] = offset[t]
      BY <1>2, <1>9 DEF WriteData
    <2>2. ~waiting'[s] /\ \A t \in Streams : t # s => waiting'[t] = waiting[t]
      BY <1>3, <1>9, Zenon DEF WriteData
    <2>3. Flagged(s)' /\ Told(s)'
      BY <1>1, <2>1, <2>2
    <2>4. QED BY <1>4, <2>1, <2>2, <2>3
  <1>10. ASSUME NEW s \in Streams, Finish(s) \/ Reset(s)
         PROVE  \A t \in Streams : Flagged(t)' /\ Told(t)'
    <2>1. /\ UNCHANGED <<blocked, stopped, connBlocked, events, offset, maxStreamData>>
          /\ state[s] \in Live /\ state'[s] # "Ready"
          /\ \A t \in Streams : t # s => state'[t] = state[t]
      BY <1>2, <1>10 DEF Finish, Reset, Live, Open_
    <2>2. \A t \in Streams : waiting'[t] => waiting[t]
      BY <1>3, <1>10, Zenon DEF Finish, Reset
    <2>3. QED BY <1>4, <2>1, <2>2
  <1>11. ASSUME NEW s \in Streams, AckReset(s)
         PROVE  \A t \in Streams : Flagged(t)' /\ Told(t)'
    <2>1. /\ \A t \in Streams : state'[t] = state[t] \/ state'[t] = "ResetAcked"
          /\ UNCHANGED <<blocked, waiting, stopped, connBlocked, events, offset, maxStreamData>>
      BY <1>2, <1>11 DEF AckReset
    <2>2. QED BY <1>5, <2>1 DEF Live, Open_
  <1>12. ASSUME PollBlocked, NEW t \in Streams
         PROVE  Flagged(t)' /\ Told(t)'
    <2> DEFINE Notify(i) == /\ state[connBlocked[i]] = "Ready"
                            /\ maxStreamData[connBlocked[i]] > offset[connBlocked[i]]
    <2>1. PICK k \in 0 .. Len(connBlocked) :
            /\ \A i \in (k + 1) .. Len(connBlocked) : ~Notify(i)
            /\ connBlocked' = SubSeq(connBlocked, 1, k - 1)
            /\ blocked' = [s \in Streams |->
                 blocked[s] /\ ~(/\ s \in {connBlocked[i] : i \in Greater(k, 1) .. Len(connBlocked)}
                                 /\ state[s] \in Live)]
            /\ waiting' = [s \in Streams |->
                             waiting[s] /\ ~(k > 0 /\ s = connBlocked[k])]
      BY <1>12 DEF PollBlocked
    <2>2. UNCHANGED <<state, stopped, events, offset, maxStreamData>>
      BY <1>12 DEF PollBlocked
    <2>3. \A i \in 1 .. (k - 1) : i \in 1 .. Len(connBlocked') /\ connBlocked'[i] = connBlocked[i]
      <3>1. Len(connBlocked) \in Nat /\ connBlocked' = SubSeq(connBlocked, 1, k - 1)
        BY <1>2, <2>1
      <3>2. QED BY <1>2, <3>1, PrefixKeeps
    <2>4. blocked'[t] /\ state[t] \in Live =>
             blocked[t] /\ \A i \in Greater(k, 1) .. Len(connBlocked) : connBlocked[i] # t
      BY <2>1, Zenon
    <2>5. waiting'[t] => waiting[t] /\ ~(k > 0 /\ t = connBlocked[k])
      BY <2>1, Zenon
    <2>6. Flagged(t)'
      <3> SUFFICES ASSUME blocked'[t], state[t] \in Live
                   PROVE  OnList(connBlocked', t)
        BY <2>2
      <3>1. PICK i \in 1 .. Len(connBlocked) : connBlocked[i] = t
        BY <1>1, <2>4 DEF OnList
      <3>2. i \notin Greater(k, 1) .. Len(connBlocked)
        BY <2>4, <3>1
      <3>3. i \in 1 .. (k - 1)
        BY <1>2, <3>2 DEF Greater
      <3>4. QED BY <2>3, <3>1, <3>3 DEF OnList
    <2>7. Told(t)'
      <3> SUFFICES ASSUME waiting'[t], state[t] = "Ready", ~stopped[t],
                          [type |-> "Writable", id |-> t] \notin events,
                          offset[t] # maxStreamData[t]
                   PROVE  OnList(connBlocked', t)
        BY <2>2
      <3>1. PICK i \in 1 .. Len(connBlocked) : connBlocked[i] = t
        BY <1>1, <2>5 DEF OnList
      <3>2. offset[t] < maxStreamData[t]
        BY <1>2 DEF IInv, Credit
      <3>3. Notify(i)
        BY <3>1, <3>2
      <3>4. i # k
        BY <2>5, <3>1
      <3>5. i \in 1 .. (k - 1)
        BY <1>2, <2>1, <3>3, <3>4
      <3>6. QED BY <2>3, <3>1, <3>5 DEF OnList
    <2>8. QED BY <2>6, <2>7
  <1>13. ASSUME PollEvent, NEW t \in Streams
         PROVE  Flagged(t)' /\ Told(t)'
    <2>1. PICK e \in events : /\ events' = events \ {e}
                              /\ waiting' = [waiting EXCEPT ![e.id] = FALSE]
      BY <1>13 DEF PollEvent
    <2>2. UNCHANGED <<state, blocked, stopped, connBlocked, offset, maxStreamData>>
      BY <1>13 DEF PollEvent
    <2>3. e.id \in Streams
      BY DEF IInv, TypeOK, ListsOK
    <2>4. CASE t = e.id
      <3>1. ~waiting'[t]
        BY <1>3, <2>1, <2>4
      <3>2. QED BY <1>1, <2>2, <3>1
    <2>5. CASE t # e.id
      <3>1. waiting'[t] = waiting[t]
        BY <1>3, <2>1, <2>3, <2>5
      <3>2. [type |-> "Writable", id |-> t] # e
        BY <2>5
      <3>3. QED BY <1>4, <2>1, <2>2, <3>1, <3>2
    <2>6. QED BY <2>4, <2>5
  <1>14. ASSUME NEW s \in Streams, StopSending(s)
         PROVE  \A t \in Streams : Flagged(t)' /\ Told(t)'
    <2>1. /\ UNCHANGED <<state, blocked, waiting, connBlocked, offset, maxStreamData>>
          /\ events \subseteq events'
      BY <1>14 DEF StopSending
    <2>2. \A t \in Streams : stopped[t] => stopped'[t]
      BY <1>3, <1>14 DEF StopSending
    <2>3. QED BY <1>4, <2>1, <2>2
  <1>15. ASSUME NEW s \in Streams, NEW n \in StreamLimits, MaxStreamData(s, n)
         PROVE  \A t \in Streams : Flagged(t)' /\ Told(t)'
    <2> DEFINE was == offset[s] = maxStreamData[s]
    <2>1. /\ state[s] = "Ready" /\ UNCHANGED <<state, waiting, stopped, offset>>
          /\ maxStreamData' = [maxStreamData EXCEPT ![s] = n]
      BY <1>15 DEF MaxStreamData
    <2>2. \A t \in Streams : t # s => maxStreamData'[t] = maxStreamData[t]
      BY <1>2, <2>1
    <2>3. /\ OnList(Register(s), s)
          /\ \A t \in Streams : OnList(connBlocked, t) => OnList(Register(s), t)
      BY <2>1, RegisterLists DEF Live, Open_
    <2>4. CASE was /\ WriteLimit > 0
      <3>1. /\ events' = events \cup {[type |-> "Writable", id |-> s]}
            /\ UNCHANGED <<blocked, connBlocked>>
        BY <1>15, <2>4 DEF MaxStreamData
      <3>2. Flagged(s)' /\ Told(s)'
        BY <1>1, <2>1, <3>1
      <3>3. QED BY <1>4, <2>1, <2>2, <3>1, <3>2
    <2>5. CASE ~(was /\ WriteLimit > 0)
      <3>1. /\ blocked' = [blocked EXCEPT ![s] = blocked[s] \/ was]
            /\ connBlocked' = IF was THEN Register(s) ELSE connBlocked
            /\ events' = events
        BY <1>15, <2>5 DEF MaxStreamData
      <3>2. /\ blocked'[s] <=> blocked[s] \/ was
            /\ \A t \in Streams : t # s => (blocked'[t] <=> blocked[t])
        BY <1>3, <3>1, Zenon
      <3>3. \A t \in Streams : OnList(connBlocked, t) => OnList(connBlocked', t)
        BY <2>3, <3>1
      <3>4. was => OnList(connBlocked', s)
        BY <2>3, <3>1
      <3>5. Flagged(s)' /\ Told(s)'
        BY <1>1, <2>1, <3>1, <3>2, <3>3, <3>4
      <3>6. QED BY <1>4, <2>1, <2>2, <3>1, <3>2, <3>3, <3>5
    <2>6. QED BY <2>4, <2>5
  <1>16. ASSUME NEW p \in Pkts, Ack(p)
         PROVE  \A t \in Streams : Flagged(t)' /\ Told(t)'
    <2>1. PICK f, s : f = sent[p] /\ s = f.id
      OBVIOUS
    <2>2. /\ \A t \in Streams : t # s => state'[t] = state[t]
          /\ state'[s] = state[s] \/ (state[s] = "DataSent" /\ state'[s] = "Finished")
      BY <1>16, <2>1, AckEffect
    <2>3. UNCHANGED <<blocked, waiting, stopped, connBlocked, events, offset, maxStreamData>>
      BY <1>16 DEF Ack
    <2>4. \A t \in Streams : state'[t] = state[t] \/ state'[t] = "Finished"
      BY <2>2
    <2>5. QED BY <1>5, <2>3, <2>4 DEF Live, Open_
  <1>17. ASSUME NEW n \in RejectLimits, ZeroRttRejected(n)
         PROVE  \A t \in Streams : Flagged(t)' /\ Told(t)'
    BY <1>17 DEF ZeroRttRejected, Live, Open_
  <1>18. CASE Application
    BY <1>5, <1>6, <1>7, <1>8, <1>9, <1>10, <1>18 DEF Application, SetPriority, SetSendWindow
  <1>19. CASE Polling \/ Peer
    BY <1>5, <1>12, <1>13, <1>14, <1>15, <1>19 DEF Polling, Peer, MaxData
  <1>20. CASE Transmit
    BY <1>5, <1>20 DEF Transmit, SendReset, DropStale, TransmitFrame
  <1>21. CASE Acknowledge
    BY <1>11, <1>16, <1>21 DEF Acknowledge
  <1>22. CASE Loss
    BY <1>5, <1>22 DEF Loss, Lose, LoseReset, TailLossProbe
  <1>23. CASE EarlyData
    BY <1>5, <1>17, <1>23 DEF EarlyData, Retry, ZeroRttAccepted
  <1>24. CASE UNCHANGED vars
    BY <1>5, <1>24 DEF vars
  <1>25. QED BY <1>18, <1>19, <1>20, <1>21, <1>22, <1>23, <1>24 DEF Next

\* Nothing is left behind: an open stream with bytes or a FIN to send is queued,
\* a FIN that was not acknowledged has not been forgotten, and a writer that was
\* told Blocked is on the list of blocked streams, has its event coming or waits
\* for stream credit, whatever is lost, repeated, stopped or reset.
THEOREM NothingLeftBehind == Spec => []NothingStranded
  <1> DEFINE Served == NothingStranded /\ BlockedListed
  <1>1. Init => Served
    <2> SUFFICES ASSUME Init PROVE Served
      OBVIOUS
    <2>1. \A s \in Streams : state[s] = "Unopened"
      BY DEF Init
    <2>2. QED BY <2>1 DEF NothingStranded, PendingQueued, FinNotForgotten, NoLostWakeup,
                          BlockedListed, Live, Open_
  <1>2. IInv /\ Delivery /\ Served /\ [Next]_vars => Served'
    BY PendingQueuedStep, FinNotForgottenStep, WakeupStep DEF NothingStranded, Delivery
  <1>3. QED BY <1>1, <1>2, Invariance, DeliveryInvariance, PTL DEF Spec
=============================================================================
