------------------------- MODULE RecvStreams_proofs -------------------------
(***************************************************************************)
(* Machine-checked proofs about RecvStreams, for any number of streams,    *)
(* bytes and windows.                                                      *)
(***************************************************************************)
EXTENDS RecvStreams, FiniteSetTheorems, TLAPS

USE DEF recvVars, connVars, pendVars, flightVars, appVars, peerVars

\* TypeOK in three parts
DataTypes ==
    /\ rstate \in [Streams -> InMap \cup {"Finished", "ResetRead", "StopFin",
                                          "StopReset", "Leaked", "LeakedReset"}]
    /\ size \in [Streams -> Offsets \cup {NoSize}]
    /\ end \in [Streams -> Offsets]
    /\ buf \in [Streams -> SUBSET Bytes(0, MaxOffset)]
    /\ got \in [Streams -> SUBSET Bytes(0, MaxOffset)]
    /\ peerEnd \in [Streams -> Offsets]

FlagTypes ==
    /\ stopped \in [Streams -> BOOLEAN] /\ ordered \in [Streams -> BOOLEAN]
    /\ idle \in [Streams -> BOOLEAN] /\ pendMaxData \in BOOLEAN
    /\ error \in {"none", "closed", "repeated reset"}

LimitTypes ==
    /\ sentMaxStream \in [Streams -> Nat] /\ peerMaxStream \in [Streams -> Nat]
    /\ dataRecvd \in Nat /\ localMaxData \in Nat /\ sentMaxData \in Nat
    /\ receiveWindow \in Nat /\ shrinkDebt \in Nat /\ peerMaxData \in Nat
    /\ flightData \in SUBSET Nat /\ flightStream \in SUBSET (Streams \X Nat)
    /\ readable \in SUBSET Streams /\ flightStop \in SUBSET Streams
    /\ pendMaxStream \in SUBSET Streams /\ pendStop \in SUBSET Streams
    /\ peerFin \in SUBSET Streams /\ peerReset \in SUBSET Streams
    /\ peerStopped \in SUBSET Streams

\* What a stream holds lies below its end, and its end below what the peer sent;
\* a final size that is known is not exceeded.
LengthsOf(s) ==
    /\ end[s] <= peerEnd[s]
    /\ size[s] # NoSize => end[s] <= size[s] /\ size[s] <= peerEnd[s]
    /\ got[s] \subseteq Bytes(0, end[s]) /\ buf[s] \subseteq Bytes(0, end[s])
    /\ buf[s] \cap got[s] = {}
    /\ WasReset(s) => size[s] # NoSize /\ buf[s] = {}

Lengths == \A s \in Streams : LengthsOf(s)

\* The inductive invariant: no counter underflows because the lengths agree.
RInv == TypeOK /\ Lengths

\* The parts of the type invariant that the steps are checked against.
LEMMA TypesSplit == TypeOK <=> DataTypes /\ FlagTypes /\ LimitTypes
  BY DEF TypeOK, DataTypes, FlagTypes, LimitTypes

------------------------------------------------------------------------------
\* The range of bytes 0..n-1 has n elements, and a part of it no more.
LEMMA BytesCardinality ==
    ASSUME NEW n \in Nat
    PROVE  /\ IsFiniteSet(Bytes(0, n)) /\ Cardinality(Bytes(0, n)) = n
           /\ \A T \in SUBSET Bytes(0, n) :
                IsFiniteSet(T) /\ Cardinality(T) \in Nat /\ Cardinality(T) <= n
  <1>1. n - 1 \in Int
    OBVIOUS
  <1>2. /\ IsFiniteSet(0 .. (n - 1))
        /\ Cardinality(0 .. (n - 1)) = IF 0 > n - 1 THEN 0 ELSE (n - 1) - 0 + 1
    BY <1>1, FS_Interval
  <1>3. IsFiniteSet(Bytes(0, n)) /\ Cardinality(Bytes(0, n)) = n
    BY <1>2 DEF Bytes
  <1>4. QED BY <1>3, FS_Subset, FS_CardinalityType

\* Bytes read by the application, and how many a stream of known lengths has
LEMMA ReadBounded ==
    ASSUME RInv, NEW s \in Streams
    PROVE  /\ IsFiniteSet(got[s]) /\ BytesRead(s) \in Nat /\ BytesRead(s) <= end[s]
           /\ end[s] \in Nat /\ peerEnd[s] \in Nat /\ end[s] <= peerEnd[s]
  <1>1. end[s] \in Nat /\ peerEnd[s] \in Nat
    BY BoundsAssumption, TypesSplit DEF RInv, DataTypes, Offsets
  <1>2. end[s] <= peerEnd[s] /\ got[s] \in SUBSET Bytes(0, end[s])
    BY DEF RInv, Lengths, LengthsOf
  <1>3. QED BY <1>1, <1>2, BytesCardinality DEF BytesRead

\* add_read_credits(c) hands on c bytes of credit: to the limit, or to the debt.
LEMMA CreditAdded ==
    ASSUME LimitTypes, FlagTypes, NEW c \in Nat, AddReadCredits(c)
    PROVE  /\ localMaxData' \in Nat /\ shrinkDebt' \in Nat
           /\ localMaxData' - shrinkDebt' = localMaxData - shrinkDebt + c
           /\ localMaxData <= localMaxData'
           /\ pendMaxData' \in BOOLEAN /\ (pendMaxData => pendMaxData')
  <1>1. /\ localMaxData' \in Nat /\ shrinkDebt' \in Nat
        /\ localMaxData' - shrinkDebt' = localMaxData - shrinkDebt + c
        /\ localMaxData <= localMaxData'
    BY DEF LimitTypes, AddReadCredits, NewLocalMax, NewDebt, Greater
  <1>2. pendMaxData' \in BOOLEAN /\ (pendMaxData => pendMaxData')
    BY Zenon DEF AddReadCredits, FlagTypes
  <1>3. QED BY <1>1, <1>2

------------------------------------------------------------------------------
\* Every variable has its type initially, and no stream any bytes.
LEMMA InitRInv == Init => RInv
  <1> SUFFICES ASSUME Init PROVE RInv
    OBVIOUS
  <1> USE BoundsAssumption
  <1>1. DataTypes
    BY DEF Init, DataTypes, Offsets, NoSize, InMap, Bytes
  <1>2. FlagTypes
    BY DEF Init, FlagTypes
  <1>3. LimitTypes
    BY DEF Init, LimitTypes
  <1>4. Lengths
    BY DEF Init, Lengths, LengthsOf, NoSize, WasReset, Bytes
  <1>5. QED BY <1>1, <1>2, <1>3, <1>4, TypesSplit DEF RInv

------------------------------------------------------------------------------
\* What a read of the bytes T of stream s changes, whichever way it ends.
Takes(s, T) ==
    /\ error = "none" /\ rstate[s] \in InMap /\ ~stopped[s]
    /\ got' = [got EXCEPT ![s] = got[s] \cup T]
    /\ buf' = [buf EXCEPT ![s] = buf[s] \ T]
    /\ AddReadCredits(Cardinality(T))
    /\ \/ rstate' = rstate
       \/ rstate[s] = "Recv" /\ rstate' = [rstate EXCEPT ![s] = "Finished"]
       \/ rstate[s] = "ResetRecvd" /\ rstate' = [rstate EXCEPT ![s] = "ResetRead"]
    /\ pendMaxStream' = pendMaxStream \/ pendMaxStream' = pendMaxStream \cup {s}
    /\ UNCHANGED <<end, size, stopped, sentMaxStream, dataRecvd, sentMaxData,
                   receiveWindow, readable, error, pendStop, flightVars, peerVars>>

\* However a read ends, it takes some of the bytes that are buffered.
LEMMA ReadEffect ==
    ASSUME NEW s \in Streams, Reading(s)
    PROVE  \E T \in SUBSET buf[s] : Takes(s, T)
  <1>1. PICK ord \in BOOLEAN :
          \/ \E T \in SUBSET Avail(s, ord) : Read(s, ord, T)
          \/ ReadBlocked(s, ord)
          \/ ReadFinished(s, ord)
          \/ ReadReset(s, ord)
    BY DEF Reading
  <1>2. Avail(s, ord) \subseteq buf[s]
    BY DEF Avail
  <1>3. ASSUME NEW T \in SUBSET Avail(s, ord), Read(s, ord, T)
        PROVE  Takes(s, T)
    BY <1>3, Zenon DEF Read, TakeBytes, MayRead, QueueMaxStream, Takes
  <1>4. CASE ReadBlocked(s, ord)
    <2>1. Takes(s, Avail(s, ord))
      BY <1>4, Zenon DEF ReadBlocked, TakeBytes, MayRead, QueueMaxStream, Takes
    <2>2. QED BY <1>2, <2>1
  <1>5. CASE ReadFinished(s, ord)
    <2>1. Takes(s, Avail(s, ord))
      BY <1>5, Zenon DEF ReadFinished, TakeBytes, MayRead, Takes
    <2>2. QED BY <1>2, <2>1
  <1>6. CASE ReadReset(s, ord)
    <2>1. Takes(s, {})
      BY <1>6, Zenon DEF ReadReset, TakeBytes, MayRead, Takes
    <2>2. QED BY <2>1
  <1>7. QED BY <1>1, <1>2, <1>3, <1>4, <1>5, <1>6

\* A step that changes the data of one stream keeps the lengths of the others.
LEMMA OneStream ==
    ASSUME Lengths, NEW s \in Streams, LengthsOf(s)',
           \A t \in Streams : t # s =>
              /\ rstate'[t] = rstate[t] /\ size'[t] = size[t] /\ end'[t] = end[t]
              /\ buf'[t] = buf[t] /\ got'[t] = got[t] /\ peerEnd'[t] = peerEnd[t]
    PROVE  Lengths'
  BY DEF Lengths, LengthsOf, WasReset

\* What a stream holds stays within its lengths.
LEMMA DataStep == RInv /\ [Next]_vars => DataTypes' /\ Lengths'
  <1> SUFFICES ASSUME RInv, [Next]_vars PROVE DataTypes' /\ Lengths'
    OBVIOUS
  <1> USE BoundsAssumption
  <1>1. DataTypes /\ FlagTypes /\ Lengths
    BY TypesSplit DEF RInv
  <1>2. ASSUME UNCHANGED <<rstate, size, end, buf, got, peerEnd>>
        PROVE  DataTypes' /\ Lengths'
    BY <1>1, <1>2 DEF DataTypes, Lengths, LengthsOf, WasReset
  <1>3. \A s \in Streams :
          /\ LengthsOf(s) /\ end[s] \in 0 .. MaxOffset /\ peerEnd[s] \in 0 .. MaxOffset
          /\ size[s] \in (0 .. MaxOffset) \cup {-1}
          /\ \A o \in got[s] : o \in Int /\ 0 <= o /\ o < end[s]
          /\ \A o \in buf[s] : o \in Int /\ 0 <= o /\ o < end[s]
    BY <1>1 DEF DataTypes, Lengths, LengthsOf, Offsets, NoSize, Bytes
  <1>4. ASSUME NEW s \in Streams, PeerWrite(s)
        PROVE  DataTypes' /\ Lengths'
    <2>1. /\ UNCHANGED <<rstate, size, end, buf, got>> /\ peerEnd[s] < MaxOffset
          /\ peerEnd' = [peerEnd EXCEPT ![s] = peerEnd[s] + 1]
      BY <1>4 DEF PeerWrite
    <2>2. DataTypes'
      BY <1>1, <2>1 DEF DataTypes, Offsets
    <2>3. LengthsOf(s)'
      BY <1>1, <1>3, <2>1 DEF DataTypes, LengthsOf, WasReset, NoSize
    <2>4. QED BY <1>1, <2>1, <2>2, <2>3, OneStream DEF DataTypes
  <1>5. ASSUME NEW s \in Streams, NEW lo \in 0 .. MaxOffset, NEW hi \in 0 .. MaxOffset,
               NEW fin \in BOOLEAN, ReceiveStream(s, lo, hi, fin)
        PROVE  DataTypes' /\ Lengths'
    <2>1. /\ UNCHANGED <<rstate, got, peerEnd>> /\ rstate[s] = "Recv"
          /\ size' = [size EXCEPT ![s] = IF fin THEN hi ELSE size[s]]
          /\ end' = [end EXCEPT ![s] = Greater(end[s], hi)]
          /\ buf' = [buf EXCEPT ![s] = buf[s] \cup (Bytes(lo, hi) \ got[s])]
          /\ hi <= peerEnd[s] /\ (fin => hi = peerEnd[s])
          /\ size[s] # NoSize => hi <= size[s]
      BY <1>3, <1>5 DEF ReceiveStream, Arrivable, IngestFails, NoSize
    <2>2. DataTypes'
      <3>1. Greater(end[s], hi) \in Offsets /\ hi \in Offsets
        BY <1>3 DEF Greater, Offsets
      <3>2. Bytes(lo, hi) \subseteq Bytes(0, MaxOffset)
        BY DEF Bytes
      <3>3. QED BY <1>1, <2>1, <3>1, <3>2 DEF DataTypes
    <2>3. LengthsOf(s)'
      <3>1. /\ size'[s] = IF fin THEN hi ELSE size[s]
            /\ end'[s] = Greater(end[s], hi) /\ rstate'[s] = "Recv"
            /\ buf'[s] = buf[s] \cup (Bytes(lo, hi) \ got[s])
            /\ got'[s] = got[s] /\ peerEnd'[s] = peerEnd[s]
        BY <1>1, <2>1 DEF DataTypes
      <3>2. end[s] <= end'[s] /\ hi <= end'[s] /\ end'[s] \in Nat
            /\ (end'[s] = end[s] \/ end'[s] = hi)
        BY <1>3, <3>1 DEF Greater
      <3>3. got'[s] \subseteq Bytes(0, end'[s])
        BY <1>3, <3>1, <3>2 DEF Bytes
      <3>4. buf'[s] \subseteq Bytes(0, end'[s])
        BY <1>3, <3>1, <3>2 DEF Bytes
      <3>5. buf'[s] \cap got'[s] = {}
        BY <1>3, <3>1 DEF LengthsOf
      <3>6. size'[s] # NoSize => end'[s] <= size'[s] /\ size'[s] <= peerEnd'[s]
        BY <1>3, <2>1, <3>1, <3>2 DEF LengthsOf, NoSize
      <3>7. end'[s] <= peerEnd'[s]
        BY <1>3, <2>1, <3>1, <3>2 DEF LengthsOf
      <3>8. QED BY <3>1, <3>3, <3>4, <3>5, <3>6, <3>7 DEF LengthsOf, WasReset
    <2>4. QED BY <1>1, <2>1, <2>2, <2>3, OneStream DEF DataTypes
  <1>6. ASSUME NEW s \in Streams, NEW lo \in 0 .. MaxOffset, NEW hi \in 0 .. MaxOffset,
               NEW fin \in BOOLEAN, ReceiveStopped(s, lo, hi, fin)
        PROVE  DataTypes' /\ Lengths'
    <2>1. /\ UNCHANGED <<size, buf, got, peerEnd>> /\ rstate[s] = "Recv"
          /\ rstate' = [rstate EXCEPT ![s] = IF fin THEN "StopFin" ELSE rstate[s]]
          /\ end' = [end EXCEPT ![s] = Greater(end[s], hi)]
          /\ hi <= peerEnd[s] /\ (size[s] # NoSize => hi <= size[s])
      BY <1>3, <1>6 DEF ReceiveStopped, Arrivable, IngestFails, NoSize
    <2>2. DataTypes'
      <3>1. Greater(end[s], hi) \in Offsets
        BY <1>3 DEF Greater, Offsets
      <3>2. QED BY <1>1, <2>1, <3>1 DEF DataTypes
    <2>3. LengthsOf(s)'
      <3>1. /\ size'[s] = size[s] /\ buf'[s] = buf[s] /\ got'[s] = got[s]
            /\ end'[s] = Greater(end[s], hi) /\ peerEnd'[s] = peerEnd[s]
            /\ rstate'[s] \in {"Recv", "StopFin"}
        BY <1>1, <2>1 DEF DataTypes
      <3>2. end[s] <= end'[s] /\ end'[s] \in Nat /\ (end'[s] = end[s] \/ end'[s] = hi)
        BY <1>3, <3>1 DEF Greater
      <3>3. got'[s] \subseteq Bytes(0, end'[s]) /\ buf'[s] \subseteq Bytes(0, end'[s])
        BY <1>3, <3>1, <3>2 DEF Bytes
      <3>4. QED BY <1>3, <2>1, <3>1, <3>2, <3>3 DEF LengthsOf, WasReset, NoSize
    <2>4. QED BY <1>1, <2>1, <2>2, <2>3, OneStream DEF DataTypes
  <1>7. ASSUME NEW s \in Streams, ReceiveReset(s)
        PROVE  DataTypes' /\ Lengths'
    <2>1. /\ UNCHANGED <<end, got, peerEnd>>
          /\ rstate' = [rstate EXCEPT ![s] = IF stopped[s] THEN "StopReset" ELSE "ResetRecvd"]
          /\ size' = [size EXCEPT ![s] = peerEnd[s]]
          /\ buf' = [buf EXCEPT ![s] = {}]
      BY <1>7 DEF ReceiveReset, AfterReset
    <2>2. DataTypes'
      BY <1>1, <1>3, <2>1 DEF DataTypes, InMap, Offsets
    <2>3. LengthsOf(s)'
      BY <1>1, <1>3, <2>1 DEF DataTypes, LengthsOf, WasReset, NoSize
    <2>4. QED BY <1>1, <2>1, <2>2, <2>3, OneStream DEF DataTypes
  <1>8. ASSUME NEW s \in Streams, Stop(s)
        PROVE  DataTypes' /\ Lengths'
    <2>1. /\ UNCHANGED <<size, end, got, peerEnd>> /\ rstate[s] \in InMap
          /\ rstate' = [rstate EXCEPT ![s] =
                          IF FinalOffsetUnknown(s) THEN rstate[s]
                          ELSE IF rstate[s] = "Recv" THEN "StopFin" ELSE "StopReset"]
          /\ buf' = [buf EXCEPT ![s] = {}]
      BY <1>8 DEF Stop
    <2>2. DataTypes'
      BY <1>1, <2>1 DEF DataTypes, InMap
    <2>3. LengthsOf(s)'
      BY <1>1, <1>3, <2>1 DEF DataTypes, LengthsOf, WasReset, NoSize, InMap, FinalOffsetUnknown
    <2>4. QED BY <1>1, <2>1, <2>2, <2>3, OneStream DEF DataTypes
  <1>9. ASSUME NEW s \in Streams, Reading(s)
        PROVE  DataTypes' /\ Lengths'
    <2>1. PICK T \in SUBSET buf[s] : Takes(s, T)
      BY <1>9, ReadEffect
    <2>2. /\ UNCHANGED <<end, size, peerEnd>>
          /\ got' = [got EXCEPT ![s] = got[s] \cup T] /\ buf' = [buf EXCEPT ![s] = buf[s] \ T]
          /\ \/ rstate' = rstate
             \/ rstate[s] = "Recv" /\ rstate' = [rstate EXCEPT ![s] = "Finished"]
             \/ rstate[s] = "ResetRecvd" /\ rstate' = [rstate EXCEPT ![s] = "ResetRead"]
      BY <2>1 DEF Takes
    <2>3. DataTypes'
      BY <1>1, <2>2 DEF DataTypes
    <2>4. LengthsOf(s)'
      <3>1. /\ got'[s] = got[s] \cup T /\ buf'[s] = buf[s] \ T
            /\ WasReset(s)' => WasReset(s)
        BY <1>1, <2>2 DEF DataTypes, WasReset
      <3>2. QED BY <1>3, <2>2, <3>1 DEF LengthsOf
    <2>5. QED BY <1>1, <2>2, <2>3, <2>4, OneStream DEF DataTypes
  <1>10. ASSUME NEW s \in Streams, IllegalOrderedRead(s)
         PROVE  DataTypes' /\ Lengths'
    <2>1. /\ UNCHANGED <<size, end, got, peerEnd>> /\ rstate[s] \in InMap
          /\ rstate' = [rstate EXCEPT ![s] = IF rstate[s] = "Recv" THEN "Leaked" ELSE "LeakedReset"]
          /\ buf' = [buf EXCEPT ![s] = {}]
      BY <1>10 DEF IllegalOrderedRead
    <2>2. DataTypes'
      BY <1>1, <2>1 DEF DataTypes
    <2>3. LengthsOf(s)'
      BY <1>1, <1>3, <2>1 DEF DataTypes, LengthsOf, WasReset, NoSize, InMap
    <2>4. QED BY <1>1, <2>1, <2>2, <2>3, OneStream DEF DataTypes
  <1>11. ASSUME NEW s \in Streams, ReceivedReset(s)
         PROVE  DataTypes' /\ Lengths'
    <2>1. /\ UNCHANGED <<size, end, got, buf, peerEnd>> /\ rstate[s] = "ResetRecvd"
          /\ rstate' = [rstate EXCEPT ![s] = "ResetRead"]
      BY <1>11 DEF ReceivedReset
    <2>2. DataTypes'
      BY <1>1, <2>1 DEF DataTypes
    <2>3. LengthsOf(s)'
      BY <1>1, <1>3, <2>1 DEF DataTypes, LengthsOf, WasReset
    <2>4. QED BY <1>1, <2>1, <2>2, <2>3, OneStream DEF DataTypes
  <1>12. ASSUME NEW s \in Streams,
                \/ PeerFinish(s) \/ PeerResets(s) \/ ReceiveBadReset(s) \/ PollReadable(s)
                \/ SendMaxStream(s) \/ SendStop(s) \/ StopAcked(s)
                \/ \E arrived \in BOOLEAN : LoseStop(s, arrived)
         PROVE  DataTypes' /\ Lengths'
    BY <1>2, <1>12 DEF PeerFinish, PeerResets, ReceiveBadReset, PollReadable, SendMaxStream,
       SendStop, StopAcked, LoseStop
  <1>13. ASSUME NEW s \in Streams, Receiving(s)
         PROVE  DataTypes' /\ Lengths'
    BY <1>2, <1>5, <1>6, <1>13 DEF Receiving, ReceiveBad
  <1>14. ASSUME \/ \E w \in Windows : SetReceiveWindow(w)
                \/ SendMaxData
                \/ \E v \in flightData : MaxDataAcked(v)
                \/ \E v \in flightData, arrived \in BOOLEAN : LoseMaxData(v, arrived)
                \/ \E f \in flightStream : MaxStreamAcked(f[1], f[2])
                \/ \E f \in flightStream, arrived \in BOOLEAN :
                      LoseMaxStream(f[1], f[2], arrived)
         PROVE  DataTypes' /\ Lengths'
    BY <1>2, <1>14 DEF SetReceiveWindow, SendMaxData, MaxDataAcked, LoseMaxData,
       MaxStreamAcked, LoseMaxStream
  <1>15. CASE UNCHANGED vars
    BY <1>2, <1>15 DEF vars
  <1>16. QED BY <1>4, <1>7, <1>8, <1>9, <1>10, <1>11, <1>12, <1>13, <1>14, <1>15 DEF Next

------------------------------------------------------------------------------
\* The steps that return credit: how much, and what they leave alone.
Credits(s, c) ==
    /\ error = "none" /\ c \in Nat /\ AddReadCredits(c)
    /\ UNCHANGED <<sentMaxStream, sentMaxData, receiveWindow, error, flightVars, peerVars>>

\* How much credit a stop, a reset, a frame on a stopped stream and a read return.
LEMMA CreditEffect ==
    ASSUME RInv, NEW s \in Streams
    PROVE  /\ Stop(s) => Credits(s, StopCredit(s))
           /\ ReceiveReset(s) /\ BytesRead(s) # peerEnd[s] => Credits(s, ResetCredit(s))
           /\ \A lo, hi \in 0 .. MaxOffset, fin \in BOOLEAN :
                ReceiveStopped(s, lo, hi, fin) => Credits(s, Greater(0, hi - end[s]))
           /\ \A T \in SUBSET buf[s] : Takes(s, T) => Credits(s, Cardinality(T))
  <1> USE BoundsAssumption
  <1>1. /\ BytesRead(s) \in Nat /\ end[s] \in Nat /\ peerEnd[s] \in Nat
        /\ BytesRead(s) <= end[s] /\ end[s] <= peerEnd[s]
    BY ReadBounded
  <1>2. Stop(s) => Credits(s, StopCredit(s))
    BY <1>1 DEF Stop, StopCredit, Credits
  <1>3. ReceiveReset(s) /\ BytesRead(s) # peerEnd[s] => Credits(s, ResetCredit(s))
    BY <1>1 DEF ReceiveReset, ResetCredit, Credits
  <1>4. ASSUME NEW lo \in 0 .. MaxOffset, NEW hi \in 0 .. MaxOffset, NEW fin \in BOOLEAN,
               ReceiveStopped(s, lo, hi, fin)
        PROVE  Credits(s, Greater(0, hi - end[s]))
    <2>1. Greater(0, hi - end[s]) \in Nat
      BY <1>1 DEF Greater
    <2>2. QED BY <1>4, <2>1 DEF ReceiveStopped, Credits
  <1>5. ASSUME NEW T \in SUBSET buf[s], Takes(s, T)
        PROVE  Credits(s, Cardinality(T))
    <2>1. T \in SUBSET Bytes(0, end[s])
      BY DEF RInv, Lengths, LengthsOf
    <2>2. Cardinality(T) \in Nat
      BY <1>1, <2>1, BytesCardinality
    <2>3. QED BY <1>5, <2>2 DEF Takes, Credits
  <1>6. QED BY <1>2, <1>3, <1>4, <1>5

\* The limits and the frames that carry them keep their types.
LEMMA LimitStep == RInv /\ [Next]_vars => LimitTypes'
  <1> SUFFICES ASSUME RInv, [Next]_vars PROVE LimitTypes'
    OBVIOUS
  <1> USE BoundsAssumption
  <1>1. LimitTypes /\ FlagTypes
    BY TypesSplit DEF RInv
  <1>2. ASSUME NEW s \in Streams, NEW c, Credits(s, c),
               dataRecvd' \in Nat, readable' \in SUBSET Streams,
               pendMaxStream' \in SUBSET Streams, pendStop' \in SUBSET Streams
        PROVE  LimitTypes'
    <2>1. localMaxData' \in Nat /\ shrinkDebt' \in Nat
      BY <1>1, <1>2, CreditAdded DEF Credits
    <2>2. UNCHANGED <<sentMaxStream, sentMaxData, receiveWindow, flightVars, peerVars>>
      BY <1>2 DEF Credits
    <2>3. QED BY <1>1, <1>2, <2>1, <2>2 DEF LimitTypes
  <1>3. ASSUME NEW s \in Streams
        PROVE  /\ BytesRead(s) \in Nat /\ end[s] \in Nat /\ peerEnd[s] \in Nat
               /\ end[s] <= peerEnd[s]
               /\ Notify(s) \in SUBSET Streams
    BY <1>1, ReadBounded DEF LimitTypes, Notify
  <1>4. ASSUME NEW s \in Streams,
               \/ PeerWrite(s) \/ PeerFinish(s) \/ PeerResets(s) \/ ReceiveBadReset(s)
               \/ IllegalOrderedRead(s) \/ ReceivedReset(s) \/ PollReadable(s)
               \/ SendStop(s) \/ StopAcked(s)
               \/ \E arrived \in BOOLEAN : LoseStop(s, arrived)
        PROVE  LimitTypes'
    BY <1>1, <1>4 DEF PeerWrite, PeerFinish, PeerResets, ReceiveBadReset, IllegalOrderedRead,
       ReceivedReset, PollReadable, SendStop, StopAcked, LoseStop, RequeueStop, LimitTypes
  <1>5. ASSUME NEW s \in Streams, SendMaxStream(s)
        PROVE  LimitTypes'
    <2>1. /\ UNCHANGED <<connVars, readable, pendStop, flightData, flightStop, peerVars>>
          /\ pendMaxStream' = pendMaxStream \ {s}
          /\ \/ UNCHANGED <<sentMaxStream, flightStream>>
             \/ /\ sentMaxStream' = [sentMaxStream EXCEPT ![s] =
                       Greater(sentMaxStream[s], BytesRead(s) + StreamWindow)]
                /\ flightStream' = flightStream \cup {<<s, BytesRead(s) + StreamWindow>>}
      BY <1>5 DEF SendMaxStream, RecordMaxStream
    <2>2. /\ BytesRead(s) + StreamWindow \in Nat
          /\ Greater(sentMaxStream[s], BytesRead(s) + StreamWindow) \in Nat
      BY <1>1, <1>3 DEF LimitTypes, Greater
    <2>3. QED BY <1>1, <2>1, <2>2 DEF LimitTypes
  <1>6. ASSUME NEW s \in Streams, NEW lo \in 0 .. MaxOffset, NEW hi \in 0 .. MaxOffset,
               NEW fin \in BOOLEAN
        PROVE  /\ ReceiveStream(s, lo, hi, fin) => LimitTypes'
               /\ ReceiveStopped(s, lo, hi, fin) => LimitTypes'
               /\ ReceiveBad(s, lo, hi, fin) => LimitTypes'
    <2>1. dataRecvd + Greater(0, hi - end[s]) \in Nat
      BY <1>1, <1>3 DEF LimitTypes, Greater
    <2>2. ReceiveStream(s, lo, hi, fin) => LimitTypes'
      BY <1>1, <1>3, <2>1 DEF ReceiveStream, LimitTypes
    <2>3. ASSUME ReceiveStopped(s, lo, hi, fin) PROVE LimitTypes'
      <3>1. Credits(s, Greater(0, hi - end[s]))
        BY <2>3, CreditEffect
      <3>2. /\ dataRecvd' = dataRecvd + Greater(0, hi - end[s])
            /\ UNCHANGED <<readable, pendMaxStream, pendStop>>
        BY <2>3 DEF ReceiveStopped
      <3>3. QED BY <1>1, <1>2, <2>1, <3>1, <3>2 DEF LimitTypes
    <2>4. ReceiveBad(s, lo, hi, fin) => LimitTypes'
      BY <1>1 DEF ReceiveBad, LimitTypes
    <2>5. QED BY <2>2, <2>3, <2>4
  <1>7. ASSUME NEW s \in Streams, ReceiveReset(s)
        PROVE  LimitTypes'
    <2>1. /\ readable' = Notify(s)
          /\ UNCHANGED <<pendMaxStream, pendStop, sentMaxStream, sentMaxData,
                         receiveWindow, flightVars, peerVars>>
      BY <1>7 DEF ReceiveReset
    <2>2. CASE BytesRead(s) # peerEnd[s]
      <3>1. Credits(s, ResetCredit(s))
        BY <1>7, <2>2, CreditEffect
      <3>2. dataRecvd' = dataRecvd + (peerEnd[s] - end[s])
        BY <1>7, <2>2 DEF ReceiveReset, ResetNewBytes
      <3>3. dataRecvd' \in Nat
        BY <1>1, <1>3, <3>2 DEF LimitTypes
      <3>4. QED BY <1>1, <1>2, <1>3, <2>1, <3>1, <3>3 DEF LimitTypes
    <2>3. CASE BytesRead(s) = peerEnd[s]
      <3>1. UNCHANGED <<dataRecvd, localMaxData, shrinkDebt>>
        BY <1>7, <2>3 DEF ReceiveReset
      <3>2. QED BY <1>1, <1>3, <2>1, <3>1 DEF LimitTypes
    <2>4. QED BY <2>2, <2>3
  <1>8. ASSUME NEW s \in Streams, Stop(s)
        PROVE  LimitTypes'
    <2>1. UNCHANGED <<dataRecvd, readable, pendMaxStream>> /\ pendStop' \in SUBSET Streams
      BY <1>1, <1>8 DEF Stop, LimitTypes
    <2>2. QED BY <1>1, <1>2, <1>8, <2>1, CreditEffect DEF LimitTypes
  <1>9. ASSUME NEW s \in Streams, Reading(s)
        PROVE  LimitTypes'
    <2>1. PICK T \in SUBSET buf[s] : Takes(s, T)
      BY <1>9, ReadEffect
    <2>2. UNCHANGED <<dataRecvd, readable, pendStop>> /\ pendMaxStream' \in SUBSET Streams
      BY <1>1, <2>1 DEF Takes, LimitTypes
    <2>3. QED BY <1>1, <1>2, <2>1, <2>2, CreditEffect DEF LimitTypes
  <1>10. ASSUME NEW w \in Windows, SetReceiveWindow(w)
         PROVE  LimitTypes'
    BY <1>1, <1>10 DEF SetReceiveWindow, LimitTypes
  <1>11. CASE SendMaxData
    BY <1>1, <1>11 DEF SendMaxData, LimitTypes, Greater, Lesser
  <1>12. ASSUME NEW v \in flightData,
                MaxDataAcked(v) \/ \E arrived \in BOOLEAN : LoseMaxData(v, arrived)
         PROVE  LimitTypes'
    <2>1. v \in Nat /\ Greater(peerMaxData, v) \in Nat
      BY <1>1 DEF LimitTypes, Greater
    <2>2. QED BY <1>1, <1>12, <2>1 DEF MaxDataAcked, LoseMaxData, LimitTypes
  <1>13. ASSUME NEW f \in flightStream,
                \/ MaxStreamAcked(f[1], f[2])
                \/ \E arrived \in BOOLEAN : LoseMaxStream(f[1], f[2], arrived)
         PROVE  LimitTypes'
    <2>1. PICK s \in Streams, v \in Nat : s = f[1] /\ v = f[2]
      BY <1>1 DEF LimitTypes
    <2>2. Greater(peerMaxStream[s], v) \in Nat
      BY <1>1 DEF LimitTypes, Greater
    <2>3. /\ UNCHANGED <<sentMaxStream, connVars, readable, pendStop, flightData, flightStop,
                         peerFin, peerReset, peerStopped, peerMaxData>>
          /\ flightStream' \subseteq flightStream
          /\ pendMaxStream' = pendMaxStream \/ pendMaxStream' = pendMaxStream \cup {s}
          /\ \/ peerMaxStream' = peerMaxStream
             \/ peerMaxStream' = [peerMaxStream EXCEPT ![s] = Greater(peerMaxStream[s], v)]
      BY <1>13, <2>1 DEF MaxStreamAcked, LoseMaxStream
    <2>4. QED BY <1>1, <2>2, <2>3 DEF LimitTypes
  <1>14. CASE UNCHANGED vars
    BY <1>1, <1>14 DEF vars, LimitTypes
  <1>15. ASSUME NEW s \in Streams, Receiving(s)
         PROVE  LimitTypes'
    BY <1>6, <1>15 DEF Receiving
  <1>16. QED BY <1>4, <1>5, <1>7, <1>8, <1>9, <1>10, <1>11, <1>12, <1>13, <1>14, <1>15 DEF Next

\* So do the flags.
LEMMA FlagStep == RInv /\ [Next]_vars => FlagTypes'
  <1> SUFFICES ASSUME RInv, [Next]_vars PROVE FlagTypes'
    OBVIOUS
  <1>1. FlagTypes
    BY TypesSplit DEF RInv
  <1>2. ASSUME UNCHANGED <<stopped, ordered, idle, pendMaxData, error>>
        PROVE  FlagTypes'
    BY <1>1, <1>2 DEF FlagTypes
  <1>3. ASSUME NEW s \in Streams,
               \/ PeerWrite(s) \/ PeerFinish(s) \/ PeerResets(s) \/ IllegalOrderedRead(s)
               \/ ReceivedReset(s) \/ SendMaxStream(s) \/ SendStop(s) \/ StopAcked(s)
               \/ \E arrived \in BOOLEAN : LoseStop(s, arrived)
        PROVE  FlagTypes'
    BY <1>2, <1>3 DEF PeerWrite, PeerFinish, PeerResets, IllegalOrderedRead,
       ReceivedReset, SendMaxStream, SendStop, StopAcked, LoseStop
  <1>4. ASSUME NEW s \in Streams, ReceiveBadReset(s) \/ PollReadable(s)
        PROVE  FlagTypes'
    BY <1>1, <1>4, Zenon DEF ReceiveBadReset, PollReadable, FlagTypes
  <1>5. ASSUME NEW s \in Streams, Receiving(s)
        PROVE  FlagTypes'
    <2>1. PICK lo, hi \in 0 .. MaxOffset, fin \in BOOLEAN :
            \/ ReceiveStream(s, lo, hi, fin)
            \/ ReceiveStopped(s, lo, hi, fin)
            \/ ReceiveBad(s, lo, hi, fin)
      BY <1>5 DEF Receiving
    <2>2. CASE ReceiveStream(s, lo, hi, fin)
      BY <1>2, <2>2 DEF ReceiveStream
    <2>3. CASE ReceiveStopped(s, lo, hi, fin)
      BY <1>1, <2>3, Zenon DEF ReceiveStopped, FlagTypes, AddReadCredits
    <2>4. CASE ReceiveBad(s, lo, hi, fin)
      BY <1>1, <2>4, Zenon DEF ReceiveBad, FlagTypes
    <2>5. QED BY <2>1, <2>2, <2>3, <2>4
  <1>6. ASSUME NEW s \in Streams, ReceiveReset(s) \/ Stop(s)
        PROVE  FlagTypes'
    <2>1. CASE ReceiveReset(s)
      BY <1>1, <2>1, Zenon DEF ReceiveReset, FlagTypes, AddReadCredits
    <2>2. CASE Stop(s)
      BY <1>1, <2>2, Zenon DEF Stop, FlagTypes, AddReadCredits
    <2>3. QED BY <1>6, <2>1, <2>2
  <1>7. ASSUME NEW s \in Streams, Reading(s)
        PROVE  FlagTypes'
    BY <1>1, <1>7, Zenon DEF Reading, Read, ReadBlocked, ReadFinished, ReadReset, TakeBytes,
       FlagTypes, AddReadCredits
  <1>8. ASSUME \/ \E w \in Windows : SetReceiveWindow(w)
               \/ SendMaxData
               \/ \E v \in flightData, arrived \in BOOLEAN : LoseMaxData(v, arrived)
        PROVE  FlagTypes'
    BY <1>1, <1>8, Zenon DEF SetReceiveWindow, SendMaxData, LoseMaxData, RequeueMaxData, FlagTypes
  <1>9. ASSUME \/ \E v \in flightData : MaxDataAcked(v)
               \/ \E f \in flightStream : MaxStreamAcked(f[1], f[2])
               \/ \E f \in flightStream, arrived \in BOOLEAN :
                     LoseMaxStream(f[1], f[2], arrived)
        PROVE  FlagTypes'
    BY <1>2, <1>9 DEF MaxDataAcked, MaxStreamAcked, LoseMaxStream
  <1>10. CASE UNCHANGED vars
    BY <1>2, <1>10 DEF vars
  <1>11. QED BY <1>3, <1>4, <1>5, <1>6, <1>7, <1>8, <1>9, <1>10 DEF Next

\* Every step keeps the inductive invariant.
LEMMA NextRInv == RInv /\ [Next]_vars => RInv'
  <1>1. DataTypes' /\ FlagTypes' /\ LimitTypes' => TypeOK'
    BY DEF TypeOK, DataTypes, FlagTypes, LimitTypes
  <1>2. QED BY <1>1, DataStep, LimitStep, FlagStep DEF RInv

\* The inductive invariant holds throughout.
THEOREM RecvInvariance == Spec => []RInv
  BY InitRInv, NextRInv, PTL DEF Spec

------------------------------------------------------------------------------
(* The credit of the connection *)

\* The bytes of all streams, those of stream s being f[s]
Slices(f) == UNION {{s} \X f[s] : s \in Streams}

\* If the bytes of one stream grow, the bytes of all grow by as many.
LEMMA SlicesGrow ==
    ASSUME NEW f \in [Streams -> SUBSET Bytes(0, MaxOffset)],
           NEW g \in [Streams -> SUBSET Bytes(0, MaxOffset)],
           NEW s \in Streams, f[s] \subseteq g[s],
           \A t \in Streams : t # s => g[t] = f[t]
    PROVE  /\ Cardinality(Slices(f)) \in Nat
           /\ Cardinality(f[s]) \in Nat /\ Cardinality(g[s]) \in Nat
           /\ Cardinality(f[s]) <= Cardinality(g[s])
           /\ Cardinality(Slices(g)) =
                Cardinality(Slices(f)) + (Cardinality(g[s]) - Cardinality(f[s]))
  <1> USE BoundsAssumption, StreamsAssumption
  <1> DEFINE new == g[s] \ f[s]
             tagged == {s} \X new
  <1>1. /\ IsFiniteSet(Bytes(0, MaxOffset))
        /\ \A T \in SUBSET Bytes(0, MaxOffset) : IsFiniteSet(T) /\ Cardinality(T) \in Nat
    BY BytesCardinality
  <1>2. IsFiniteSet(f[s]) /\ IsFiniteSet(new) /\ Cardinality(f[s]) \in Nat
        /\ Cardinality(new) \in Nat /\ Cardinality(g[s]) \in Nat
    BY <1>1
  <1>3. Cardinality(g[s]) = Cardinality(f[s]) + Cardinality(new)
    <2>1. f[s] \cap new = {} /\ f[s] \cup new = g[s]
      OBVIOUS
    <2>2. Cardinality(f[s] \cup new) =
            Cardinality(f[s]) + Cardinality(new) - Cardinality(f[s] \cap new)
      BY <1>2, FS_Union
    <2>3. Cardinality(f[s] \cap new) = 0
      BY <2>1, FS_EmptySet
    <2>4. Cardinality(f[s] \cup new) = Cardinality(g[s])
      BY <2>1
    <2> HIDE DEF new
    <2>5. QED BY <1>2, <2>2, <2>3, <2>4
  <1>4. IsFiniteSet(Slices(f)) /\ Cardinality(Slices(f)) \in Nat
    <2>1. IsFiniteSet(Streams \X Bytes(0, MaxOffset))
      BY <1>1, FS_Product
    <2>2. Slices(f) \subseteq Streams \X Bytes(0, MaxOffset)
      BY DEF Slices
    <2>3. QED BY <2>1, <2>2, FS_Subset, FS_CardinalityType
  <1>5. IsFiniteSet(tagged) /\ Cardinality(tagged) = Cardinality(new)
    <2>1. IsFiniteSet({s}) /\ Cardinality({s}) = 1
      BY FS_Singleton
    <2>2. IsFiniteSet(tagged) /\ Cardinality(tagged) = 1 * Cardinality(new)
      BY <1>2, <2>1, FS_Product
    <2>3. QED BY <1>2, <2>2
  <1>6. Slices(g) = Slices(f) \cup tagged
    <2>1. \A b : b \in Slices(g) <=> \E t \in Streams : b \in {t} \X g[t]
      BY DEF Slices
    <2>2. \A b : b \in Slices(f) <=> \E t \in Streams : b \in {t} \X f[t]
      BY DEF Slices
    <2>3. {s} \X g[s] = ({s} \X f[s]) \cup tagged
      OBVIOUS
    <2> HIDE DEF tagged
    <2>4. \A b : b \in Slices(g) => b \in Slices(f) \/ b \in tagged
      BY <2>1, <2>2, <2>3
    <2>5. \A b : b \in Slices(f) => b \in Slices(g)
      BY <2>1, <2>2, <2>3
    <2>6. \A b : b \in tagged => b \in Slices(g)
      BY <2>1, <2>3
    <2>7. QED BY <2>4, <2>5, <2>6
  <1>7. Slices(f) \cap tagged = {}
    BY DEF Slices
  <1> HIDE DEF new, tagged
  <1>8. Cardinality(Slices(g)) = Cardinality(Slices(f)) + Cardinality(new)
    <2>1. Cardinality(Slices(f) \cup tagged) =
            Cardinality(Slices(f)) + Cardinality(tagged) - Cardinality(Slices(f) \cap tagged)
      BY <1>4, <1>5, FS_Union
    <2>2. Cardinality(Slices(f) \cap tagged) = 0
      BY <1>7, FS_EmptySet
    <2>3. QED BY <1>2, <1>4, <1>5, <1>6, <2>1, <2>2
  <1>9. QED BY <1>2, <1>3, <1>4, <1>8

\* How far a stream is known to reach
KnownEnd(s) == IF WasReset(s) THEN size[s] ELSE end[s]

\* How far a stream reaches is within what the peer has sent, and covers what was
\* read and what was released.
LEMMA KnownEndType ==
    ASSUME RInv, NEW s \in Streams
    PROVE  /\ KnownEnd(s) \in 0 .. MaxOffset /\ KnownEnd(s) <= peerEnd[s]
           /\ end[s] <= KnownEnd(s)
           /\ ConsumedOf(s) = Bytes(0, KnownEnd(s))
           /\ ConsumedOf(s) \in SUBSET Bytes(0, MaxOffset)
           /\ got[s] \in SUBSET ConsumedOf(s)
           /\ ReleasedOf(s) \in SUBSET ConsumedOf(s)
  <1> USE BoundsAssumption
  <1>1. DataTypes /\ LengthsOf(s)
    BY TypesSplit DEF RInv, Lengths
  <1>2. /\ KnownEnd(s) \in 0 .. MaxOffset /\ KnownEnd(s) <= peerEnd[s] /\ end[s] <= KnownEnd(s)
        /\ end[s] \in Nat
    BY <1>1 DEF DataTypes, LengthsOf, KnownEnd, Offsets, NoSize
  <1>3. ConsumedOf(s) = Bytes(0, KnownEnd(s))
    BY DEF ConsumedOf, KnownEnd
  <1>4. ConsumedOf(s) \in SUBSET Bytes(0, MaxOffset)
    BY <1>2, <1>3 DEF Bytes
  <1>5. got[s] \in SUBSET ConsumedOf(s)
    BY <1>1, <1>2, <1>3 DEF LengthsOf, Bytes
  <1>6. QED BY <1>2, <1>3, <1>4, <1>5 DEF ReleasedOf

\* The same after a step
LEMMA KnownEndTypeNext ==
    ASSUME RInv', NEW s \in Streams
    PROVE  /\ KnownEnd(s)' \in 0 .. MaxOffset
           /\ ConsumedOf(s)' = Bytes(0, KnownEnd(s)')
           /\ ConsumedOf(s)' \in SUBSET Bytes(0, MaxOffset)
           /\ ReleasedOf(s)' \in SUBSET Bytes(0, MaxOffset)
  <1> USE BoundsAssumption
  <1>1. DataTypes' /\ LengthsOf(s)'
    BY DEF RInv, Lengths, TypeOK, DataTypes
  <1>2. /\ KnownEnd(s)' \in 0 .. MaxOffset /\ got'[s] \in SUBSET Bytes(0, MaxOffset)
    BY <1>1 DEF DataTypes, LengthsOf, KnownEnd, Offsets, NoSize
  <1>3. ConsumedOf(s)' = Bytes(0, KnownEnd(s)')
    BY DEF ConsumedOf, KnownEnd
  <1>4. ConsumedOf(s)' \in SUBSET Bytes(0, MaxOffset)
    BY <1>2, <1>3 DEF Bytes
  <1>5. QED BY <1>2, <1>3, <1>4 DEF ReleasedOf

\* The bytes of a stream that are returned twice lie within it.
LEMMA TwiceType ==
    ASSUME RInv, NEW s \in Streams
    PROVE  TwiceOf(s) \in SUBSET Bytes(0, MaxOffset)
  <1>1. end[s] \in 0 .. MaxOffset
    BY TypesSplit, BoundsAssumption DEF RInv, DataTypes, Offsets
  <1>2. Bytes(0, end[s]) \in SUBSET Bytes(0, MaxOffset)
    BY <1>1, BoundsAssumption DEF Bytes
  <1>3. QED BY <1>2 DEF TwiceOf

\* The same after a step
LEMMA TwiceTypeNext ==
    ASSUME RInv', NEW s \in Streams
    PROVE  TwiceOf(s)' \in SUBSET Bytes(0, MaxOffset)
  <1>1. end'[s] \in 0 .. MaxOffset
    BY BoundsAssumption DEF RInv, TypeOK, Offsets
  <1>2. Bytes(0, end'[s]) \in SUBSET Bytes(0, MaxOffset)
    BY <1>1, BoundsAssumption DEF Bytes
  <1>3. QED BY <1>2 DEF TwiceOf

\* data_recvd counts what a step adds to the known length of one stream.
LEMMA ConsumedStep ==
    ASSUME RInv, RInv', DataRecvdExact, NEW s \in Streams,
           KnownEnd(s) <= KnownEnd(s)',
           \A t \in Streams : t # s => KnownEnd(t)' = KnownEnd(t),
           dataRecvd' = dataRecvd + (KnownEnd(s)' - KnownEnd(s))
    PROVE  DataRecvdExact'
  <1> USE BoundsAssumption
  <1>1. PICK f : f = [t \in Streams |-> ConsumedOf(t)]
    OBVIOUS
  <1>2. PICK g : g = [t \in Streams |-> ConsumedOf(t)']
    OBVIOUS
  <1>3. \A t \in Streams : /\ KnownEnd(t) \in Nat /\ f[t] = Bytes(0, KnownEnd(t))
                           /\ f[t] \in SUBSET Bytes(0, MaxOffset)
    BY <1>1, KnownEndType
  <1>4. \A t \in Streams : /\ KnownEnd(t)' \in Nat /\ ConsumedOf(t)' = Bytes(0, KnownEnd(t)')
                           /\ ConsumedOf(t)' \in SUBSET Bytes(0, MaxOffset)
    BY KnownEndTypeNext
  <1>5. \A t \in Streams : g[t] = Bytes(0, KnownEnd(t)') /\ g[t] \in SUBSET Bytes(0, MaxOffset)
    BY <1>2, <1>4
  <1>6. f \in [Streams -> SUBSET Bytes(0, MaxOffset)] /\ g \in [Streams -> SUBSET Bytes(0, MaxOffset)]
    BY <1>1, <1>2, <1>3, <1>5
  <1>7. f[s] \subseteq g[s] /\ \A t \in Streams : t # s => g[t] = f[t]
    BY <1>3, <1>4, <1>5 DEF Bytes
  <1>8. Cardinality(f[s]) = KnownEnd(s) /\ Cardinality(g[s]) = KnownEnd(s)'
    BY <1>3, <1>4, <1>5, BytesCardinality
  <1>9. Consumed = Slices(f) /\ Consumed' = Slices(g)
    BY <1>1, <1>2 DEF Consumed, Slices
  <1>10. /\ Cardinality(Slices(f)) \in Nat
         /\ Cardinality(Slices(g)) =
              Cardinality(Slices(f)) + (Cardinality(g[s]) - Cardinality(f[s]))
    BY <1>6, <1>7, SlicesGrow
  <1>11. QED BY <1>3, <1>4, <1>8, <1>9, <1>10 DEF DataRecvdExact

\* What a step adds to the released bytes of one stream
LEMMA ReleasedStep ==
    ASSUME RInv, RInv', NEW s \in Streams,
           ReleasedOf(s) \subseteq ReleasedOf(s)',
           \A t \in Streams : t # s => ReleasedOf(t)' = ReleasedOf(t)
    PROVE  /\ Cardinality(Released) \in Nat /\ Cardinality(ReleasedOf(s)) \in Nat
           /\ Cardinality(ReleasedOf(s)') \in Nat
           /\ Cardinality(ReleasedOf(s)) <= Cardinality(ReleasedOf(s)')
           /\ Cardinality(Released') = Cardinality(Released)
                + (Cardinality(ReleasedOf(s)') - Cardinality(ReleasedOf(s)))
  <1>1. PICK f : f = [t \in Streams |-> ReleasedOf(t)]
    OBVIOUS
  <1>2. PICK g : g = [t \in Streams |-> ReleasedOf(t)']
    OBVIOUS
  <1>3. \A t \in Streams : ReleasedOf(t) \in SUBSET Bytes(0, MaxOffset)
    BY KnownEndType
  <1>4. \A t \in Streams : ReleasedOf(t)' \in SUBSET Bytes(0, MaxOffset)
    BY KnownEndTypeNext
  <1>5. f \in [Streams -> SUBSET Bytes(0, MaxOffset)] /\ g \in [Streams -> SUBSET Bytes(0, MaxOffset)]
    BY <1>1, <1>2, <1>3, <1>4
  <1>6. f[s] = ReleasedOf(s) /\ g[s] = ReleasedOf(s)' /\ f[s] \subseteq g[s]
        /\ \A t \in Streams : t # s => g[t] = f[t]
    BY <1>1, <1>2
  <1>7. Released = Slices(f) /\ Released' = Slices(g)
    BY <1>1, <1>2 DEF Released, Slices
  <1>8. QED BY <1>5, <1>6, <1>7, SlicesGrow

\* What a step adds to the bytes of one stream that are returned twice
LEMMA TwiceStep ==
    ASSUME RInv, RInv', NEW s \in Streams,
           TwiceOf(s) \subseteq TwiceOf(s)',
           \A t \in Streams : t # s => TwiceOf(t)' = TwiceOf(t)
    PROVE  /\ Cardinality(Twice) \in Nat /\ Cardinality(TwiceOf(s)) \in Nat
           /\ Cardinality(TwiceOf(s)') \in Nat
           /\ Cardinality(Twice') = Cardinality(Twice)
                + (Cardinality(TwiceOf(s)') - Cardinality(TwiceOf(s)))
  <1>1. PICK f : f = [t \in Streams |-> TwiceOf(t)]
    OBVIOUS
  <1>2. PICK g : g = [t \in Streams |-> TwiceOf(t)']
    OBVIOUS
  <1>3. \A t \in Streams : TwiceOf(t) \in SUBSET Bytes(0, MaxOffset)
    BY TwiceType
  <1>4. \A t \in Streams : TwiceOf(t)' \in SUBSET Bytes(0, MaxOffset)
    BY TwiceTypeNext
  <1>5. f \in [Streams -> SUBSET Bytes(0, MaxOffset)] /\ g \in [Streams -> SUBSET Bytes(0, MaxOffset)]
    BY <1>1, <1>2, <1>3, <1>4
  <1>6. f[s] = TwiceOf(s) /\ g[s] = TwiceOf(s)' /\ f[s] \subseteq g[s]
        /\ \A t \in Streams : t # s => g[t] = f[t]
    BY <1>1, <1>2
  <1>7. Twice = Slices(f) /\ Twice' = Slices(g)
    BY <1>1, <1>2 DEF Twice, Slices
  <1>8. QED BY <1>5, <1>6, <1>7, SlicesGrow

\* A step that neither finds nor leaves s both stopped and reset
LEMMA NotTwice ==
    ASSUME NEW s \in Streams, rstate[s] # "StopReset", rstate'[s] # "StopReset"
    PROVE  /\ TwiceOf(s) = {} /\ TwiceOf(s)' = {}
           /\ Cardinality(TwiceOf(s)) = 0 /\ Cardinality(TwiceOf(s)') = 0
  <1>1. TwiceOf(s) = {} /\ TwiceOf(s)' = {}
    BY DEF TwiceOf
  <1>2. QED BY <1>1, FS_EmptySet

\* What had arrived unread on s
Unread(s) == Bytes(0, end[s]) \ got[s]

\* Its size is what Recv::stop returns.
LEMMA UnreadCardinality ==
    ASSUME RInv, NEW s \in Streams
    PROVE  Cardinality(Unread(s)) = end[s] - BytesRead(s)
  <1> USE BoundsAssumption
  <1>1. end[s] \in Nat /\ BytesRead(s) \in Nat
    BY ReadBounded
  <1>2. got[s] \in SUBSET Bytes(0, end[s])
    BY DEF RInv, Lengths, LengthsOf
  <1>3. IsFiniteSet(Bytes(0, end[s])) /\ Cardinality(Bytes(0, end[s])) = end[s]
    BY <1>1, BytesCardinality
  <1>4. Cardinality(Unread(s)) =
          Cardinality(Bytes(0, end[s])) - Cardinality(Bytes(0, end[s]) \cap got[s])
    BY <1>3, FS_Difference DEF Unread
  <1>5. Bytes(0, end[s]) \cap got[s] = got[s]
    BY <1>2
  <1>6. QED BY <1>3, <1>4, <1>5 DEF BytesRead

\* A step leaves the account of t alone.
SameAccount(t) ==
    /\ KnownEnd(t)' = KnownEnd(t) /\ ReleasedOf(t)' = ReleasedOf(t)
    /\ TwiceOf(t)' = TwiceOf(t)

\* A stream whose data a step leaves alone
LEMMA SameStream ==
    ASSUME NEW t \in Streams, WasReset(t)' <=> WasReset(t),
           rstate'[t] = "StopReset" <=> rstate[t] = "StopReset", size'[t] = size[t],
           end'[t] = end[t], stopped'[t] = stopped[t], got'[t] = got[t]
    PROVE  SameAccount(t)
  <1>1. KnownEnd(t)' = KnownEnd(t)
    BY DEF KnownEnd
  <1>2. ConsumedOf(t)' = ConsumedOf(t)
    BY DEF ConsumedOf
  <1>3. TwiceOf(t)' = TwiceOf(t)
    BY DEF TwiceOf
  <1>4. QED BY <1>1, <1>2, <1>3 DEF ReleasedOf, SameAccount

\* A step on stream s keeps its account and returns c bytes of credit: data_recvd
\* grows by what became known, and c is what was released and what is returned twice.
Account(s, c) ==
    /\ c \in Nat
    /\ \A t \in Streams : t # s => SameAccount(t)
    /\ KnownEnd(s) <= KnownEnd(s)'
    /\ dataRecvd' = dataRecvd + (KnownEnd(s)' - KnownEnd(s))
    /\ ReleasedOf(s) \subseteq ReleasedOf(s)' /\ TwiceOf(s) \subseteq TwiceOf(s)'
    /\ c = (Cardinality(ReleasedOf(s)') - Cardinality(ReleasedOf(s)))
             + (Cardinality(TwiceOf(s)') - Cardinality(TwiceOf(s)))
    /\ localMaxData' - shrinkDebt' = localMaxData - shrinkDebt + c
    /\ receiveWindow' = receiveWindow

\* Such a step counts every byte and returns the credit that it should.
LEMMA AccountStep ==
    ASSUME RInv, RInv', CreditAccounted, NEW s \in Streams, NEW c, Account(s, c)
    PROVE  CreditAccounted'
  <1> USE DEF Account, SameAccount
  <1>1. DataRecvdExact'
    BY ConsumedStep DEF CreditAccounted
  <1>2. /\ localMaxData \in Nat /\ shrinkDebt \in Nat /\ receiveWindow \in Nat
        /\ localMaxData - shrinkDebt = receiveWindow + Cardinality(Released) + Cardinality(Twice)
    BY DEF CreditAccounted, CreditReturned, RInv, TypeOK
  <1>3. /\ localMaxData' \in Nat /\ shrinkDebt' \in Nat
    BY DEF RInv, TypeOK
  <1>4. /\ Cardinality(Released) \in Nat /\ Cardinality(ReleasedOf(s)) \in Nat
        /\ Cardinality(ReleasedOf(s)') \in Nat
        /\ Cardinality(Released') = Cardinality(Released)
             + (Cardinality(ReleasedOf(s)') - Cardinality(ReleasedOf(s)))
    BY ReleasedStep
  <1>t. /\ Cardinality(Twice) \in Nat /\ Cardinality(TwiceOf(s)) \in Nat
        /\ Cardinality(TwiceOf(s)') \in Nat
        /\ Cardinality(Twice') = Cardinality(Twice)
             + (Cardinality(TwiceOf(s)') - Cardinality(TwiceOf(s)))
    BY TwiceStep
  <1>5. localMaxData' - shrinkDebt' =
          receiveWindow' + Cardinality(Released') + Cardinality(Twice')
    <2>1. /\ Cardinality(Released') \in Int /\ Cardinality(Twice') \in Int
          /\ Cardinality(Released') + Cardinality(Twice')
               = Cardinality(Released) + Cardinality(Twice) + c
      BY <1>4, <1>t
    <2>2. (localMaxData - shrinkDebt) + c =
            receiveWindow + Cardinality(Released') + Cardinality(Twice')
      BY <1>2, <1>4, <1>t, <2>1
    <2>3. QED BY <2>2
  <1>6. CreditReturned'
    BY <1>5 DEF CreditReturned
  <1>7. QED BY <1>1, <1>6 DEF CreditAccounted

\* The bytes returned twice are finitely many.
LEMMA TwiceFinite == RInv => Cardinality(Twice) \in Nat
  <1> SUFFICES ASSUME RInv PROVE Cardinality(Twice) \in Nat
    OBVIOUS
  <1>1. PICK f : f = [t \in Streams |-> TwiceOf(t)]
    OBVIOUS
  <1>2. f \in [Streams -> SUBSET Bytes(0, MaxOffset)] /\ Twice = Slices(f)
    <2>1. \A t \in Streams : TwiceOf(t) \in SUBSET Bytes(0, MaxOffset)
      BY TwiceType
    <2>2. f \in [Streams -> SUBSET Bytes(0, MaxOffset)]
      BY <1>1, <2>1
    <2>3. QED BY <1>1, <2>2 DEF Twice, Slices
  <1>3. CASE Streams = {}
    <2>1. Twice = {}
      BY <1>3 DEF Twice
    <2>2. QED BY <2>1, FS_EmptySet
  <1>4. CASE Streams # {}
    <2>1. PICK s \in Streams : TRUE
      BY <1>4
    <2>2. QED BY <1>2, <2>1, SlicesGrow
  <1>5. QED BY <1>3, <1>4

\* The released bytes are finitely many.
LEMMA ReleasedFinite == RInv => Cardinality(Released) \in Nat
  <1> SUFFICES ASSUME RInv PROVE Cardinality(Released) \in Nat
    OBVIOUS
  <1>1. PICK f : f = [t \in Streams |-> ReleasedOf(t)]
    OBVIOUS
  <1>2. f \in [Streams -> SUBSET Bytes(0, MaxOffset)] /\ Released = Slices(f)
    <2>1. \A t \in Streams : ReleasedOf(t) \in SUBSET Bytes(0, MaxOffset)
      BY KnownEndType
    <2>2. f \in [Streams -> SUBSET Bytes(0, MaxOffset)]
      BY <1>1, <2>1
    <2>3. QED BY <1>1, <2>2 DEF Released, Slices
  <1>3. CASE Streams = {}
    <2>1. Released = {}
      BY <1>3 DEF Released
    <2>2. QED BY <2>1, FS_EmptySet
  <1>4. CASE Streams # {}
    <2>1. PICK s \in Streams : TRUE
      BY <1>4
    <2>2. QED BY <1>2, <2>1, SlicesGrow
  <1>5. QED BY <1>3, <1>4

\* A step that touches no account, but may move the window with the limit or the debt
NoAccount ==
    /\ UNCHANGED <<size, end, stopped, got, dataRecvd>>
    /\ \A t \in Streams : /\ WasReset(t)' <=> WasReset(t)
                          /\ rstate'[t] = "StopReset" <=> rstate[t] = "StopReset"
    /\ localMaxData' - shrinkDebt' - receiveWindow' = localMaxData - shrinkDebt - receiveWindow

\* It leaves the bytes consumed and released as they are.
LEMMA NoAccountKeeps ==
    ASSUME RInv, RInv', NoAccount
    PROVE  /\ Consumed' = Consumed /\ Released' = Released /\ Twice' = Twice
           /\ Cardinality(Released) \in Nat /\ Cardinality(Twice) \in Nat
  <1> USE DEF NoAccount
  <1>1. \A t \in Streams : SameAccount(t)
    BY SameStream
  <1>2. \A t \in Streams : ConsumedOf(t)' = ConsumedOf(t)
    BY <1>1 DEF ConsumedOf
  <1>3. Consumed' = Consumed /\ Released' = Released /\ Twice' = Twice
    BY <1>1, <1>2 DEF Consumed, Released, Twice, SameAccount
  <1>4. QED BY <1>3, ReleasedFinite, TwiceFinite

\* Such a step keeps the accounts.
LEMMA AccountFrame ==
    ASSUME RInv, RInv', CreditAccounted, NoAccount
    PROVE  CreditAccounted'
  <1>1. Consumed' = Consumed /\ Released' = Released /\ Twice' = Twice
    BY NoAccountKeeps
  <1>2. /\ localMaxData \in Nat /\ shrinkDebt \in Nat /\ receiveWindow \in Nat
        /\ localMaxData' \in Nat /\ shrinkDebt' \in Nat /\ receiveWindow' \in Nat
    BY DEF RInv, TypeOK
  <1>3. Cardinality(Released) \in Nat /\ Cardinality(Twice) \in Nat
    BY NoAccountKeeps
  <1>4. localMaxData - shrinkDebt = receiveWindow + Cardinality(Released) + Cardinality(Twice)
    BY DEF CreditAccounted, CreditReturned
  <1>5. localMaxData' - shrinkDebt' =
          receiveWindow' + Cardinality(Released') + Cardinality(Twice')
    <2>1. (localMaxData - shrinkDebt) - receiveWindow = Cardinality(Released) + Cardinality(Twice)
      BY <1>2, <1>3, <1>4
    <2>2. (localMaxData' - shrinkDebt') - receiveWindow' =
            Cardinality(Released) + Cardinality(Twice)
      BY <2>1 DEF NoAccount
    <2>3. localMaxData' - shrinkDebt' =
            receiveWindow' + Cardinality(Released) + Cardinality(Twice)
      BY <1>2, <1>3, <2>2
    <2>4. QED BY <1>1, <2>3
  <1>6. CreditReturned'
    BY <1>5 DEF CreditReturned
  <1>7. QED BY <1>1, <1>6 DEF CreditAccounted, DataRecvdExact, NoAccount

\* No byte is known without being counted.
LEMMA InitAccounts == Init => CreditAccounted
  <1> SUFFICES ASSUME Init PROVE CreditAccounted
    OBVIOUS
  <1>1. RInv
    BY InitRInv
  <1>2. \A s \in Streams : /\ ~WasReset(s) /\ ~stopped[s] /\ end[s] = 0 /\ got[s] = {}
                           /\ rstate[s] # "StopReset"
    BY DEF Init, WasReset
  <1>3. \A s \in Streams : ConsumedOf(s) = {} /\ ReleasedOf(s) = {} /\ TwiceOf(s) = {}
    BY <1>2 DEF ConsumedOf, ReleasedOf, TwiceOf, Bytes
  <1>4. Consumed = {} /\ Released = {} /\ Twice = {}
    BY <1>3 DEF Consumed, Released, Twice
  <1>5. Cardinality(Consumed) = 0 /\ Cardinality(Released) = 0 /\ Cardinality(Twice) = 0
    BY <1>4, FS_EmptySet
  <1>6. QED BY <1>5, BoundsAssumption DEF Init, CreditAccounted, DataRecvdExact, CreditReturned

\* Data of a stream that is not stopped is counted when it first arrives.
LEMMA ReceiveAccounts ==
    ASSUME RInv, RInv', NEW s \in Streams, NEW lo \in 0 .. MaxOffset,
           NEW hi \in 0 .. MaxOffset, NEW fin \in BOOLEAN, ReceiveStream(s, lo, hi, fin)
    PROVE  \E c \in Nat : Account(s, c)
  <1> USE BoundsAssumption
  <1>1. /\ UNCHANGED <<rstate, stopped, got, localMaxData, shrinkDebt, receiveWindow>>
        /\ rstate[s] = "Recv" /\ ~stopped[s]
        /\ size' = [size EXCEPT ![s] = IF fin THEN hi ELSE size[s]]
        /\ end' = [end EXCEPT ![s] = Greater(end[s], hi)]
        /\ dataRecvd' = dataRecvd + Greater(0, hi - end[s])
    BY DEF ReceiveStream
  <1>2. end[s] \in Nat /\ DataTypes
    BY ReadBounded, TypesSplit DEF RInv
  <1>3. \A t \in Streams : t # s => SameAccount(t)
    BY <1>1, <1>2, SameStream DEF WasReset, DataTypes
  <1>4. ~WasReset(s) /\ ~WasReset(s)'
    BY <1>1 DEF WasReset
  <1>5. KnownEnd(s) = end[s] /\ KnownEnd(s)' = Greater(end[s], hi)
    BY <1>1, <1>2, <1>4 DEF KnownEnd, DataTypes
  <1>6. ReleasedOf(s) = got[s] /\ ReleasedOf(s)' = got[s]
    BY <1>1, <1>4 DEF ReleasedOf
  <1>7. KnownEnd(s) <= KnownEnd(s)' /\ dataRecvd' = dataRecvd + (KnownEnd(s)' - KnownEnd(s))
    BY <1>1, <1>2, <1>5 DEF Greater
  <1>8. BytesRead(s) \in Nat
    BY ReadBounded
  <1>9. Cardinality(ReleasedOf(s)') - Cardinality(ReleasedOf(s)) = 0
    BY <1>6, <1>8 DEF BytesRead
  <1>10. localMaxData' - shrinkDebt' = localMaxData - shrinkDebt + 0
    <2>1. localMaxData \in Nat /\ shrinkDebt \in Nat
      BY DEF RInv, TypeOK
    <2>2. QED BY <1>1, <2>1
  <1>n. /\ TwiceOf(s) \subseteq TwiceOf(s)'
        /\ Cardinality(TwiceOf(s)) = 0 /\ Cardinality(TwiceOf(s)') = 0
    BY <1>1, NotTwice
  <1>11. Account(s, 0)
    BY <1>1, <1>3, <1>6, <1>7, <1>9, <1>10, <1>n DEF Account
  <1>12. QED BY <1>11

\* How the limit and the debt move when a step credits c bytes
LEMMA CreditsMove ==
    ASSUME RInv, NEW s \in Streams, NEW c, Credits(s, c)
    PROVE  /\ c \in Nat /\ receiveWindow' = receiveWindow
           /\ localMaxData' - shrinkDebt' = localMaxData - shrinkDebt + c
  BY TypesSplit, CreditAdded DEF RInv, Credits

\* Data that reaches a stopped stream is counted and its credit returned at once.
LEMMA StoppedAccounts ==
    ASSUME RInv, RInv', NEW s \in Streams, NEW lo \in 0 .. MaxOffset,
           NEW hi \in 0 .. MaxOffset, NEW fin \in BOOLEAN, ReceiveStopped(s, lo, hi, fin)
    PROVE  \E c \in Nat : Account(s, c)
  <1> USE BoundsAssumption
  <1>1. PICK c : c = Greater(0, hi - end[s])
    OBVIOUS
  <1>2. /\ UNCHANGED <<size, stopped, got>> /\ rstate[s] = "Recv" /\ stopped[s]
        /\ rstate' = [rstate EXCEPT ![s] = IF fin THEN "StopFin" ELSE rstate[s]]
        /\ end' = [end EXCEPT ![s] = Greater(end[s], hi)]
        /\ dataRecvd' = dataRecvd + c
    BY <1>1 DEF ReceiveStopped
  <1>3. end[s] \in Nat /\ DataTypes
    BY ReadBounded, TypesSplit DEF RInv
  <1>4. \A t \in Streams : t # s => SameAccount(t)
    BY <1>2, <1>3, SameStream DEF WasReset, DataTypes
  <1>5. ~WasReset(s) /\ ~WasReset(s)'
    BY <1>2, <1>3 DEF WasReset, DataTypes
  <1>6. KnownEnd(s) = end[s] /\ KnownEnd(s)' = Greater(end[s], hi)
    BY <1>2, <1>3, <1>5 DEF KnownEnd, DataTypes
  <1>7. /\ KnownEnd(s) \in Nat /\ KnownEnd(s)' \in Nat /\ KnownEnd(s) <= KnownEnd(s)'
        /\ c = KnownEnd(s)' - KnownEnd(s)
    BY <1>1, <1>3, <1>6 DEF Greater
  <1>8. ReleasedOf(s) = Bytes(0, KnownEnd(s)) /\ ReleasedOf(s)' = Bytes(0, KnownEnd(s)')
    BY <1>2, <1>5, KnownEndType, KnownEndTypeNext DEF ReleasedOf
  <1>9. /\ Cardinality(ReleasedOf(s)') - Cardinality(ReleasedOf(s)) = c
        /\ ReleasedOf(s) \subseteq ReleasedOf(s)'
    <2>1. Cardinality(ReleasedOf(s)) = KnownEnd(s) /\ Cardinality(ReleasedOf(s)') = KnownEnd(s)'
      BY <1>7, <1>8, BytesCardinality
    <2>2. ReleasedOf(s) \subseteq ReleasedOf(s)'
      BY <1>7, <1>8 DEF Bytes
    <2>3. QED BY <1>7, <2>1, <2>2
  <1>10. Credits(s, c)
    BY <1>1, CreditEffect
  <1>11. /\ c \in Nat /\ receiveWindow' = receiveWindow
         /\ localMaxData' - shrinkDebt' = localMaxData - shrinkDebt + c
    BY <1>10, CreditsMove
  <1>n. /\ TwiceOf(s) \subseteq TwiceOf(s)'
        /\ Cardinality(TwiceOf(s)) = 0 /\ Cardinality(TwiceOf(s)') = 0
    <2>1. rstate'[s] # "StopReset"
      BY <1>2, <1>3 DEF DataTypes
    <2>2. QED BY <1>2, <2>1, NotTwice
  <1>12. Account(s, c)
    BY <1>2, <1>4, <1>7, <1>9, <1>11, <1>n DEF Account
  <1>13. QED BY <1>11, <1>12

\* A reset makes the whole stream known, and returns the credit of all that was
\* not read.
LEMMA ResetAccounts ==
    ASSUME RInv, RInv', NEW s \in Streams, ReceiveReset(s)
    PROVE  \E c \in Nat : Account(s, c)
  <1> USE BoundsAssumption
  <1>1. PICK c : c = ResetCredit(s)
    OBVIOUS
  <1>2. /\ UNCHANGED <<end, stopped, got>> /\ rstate[s] = "Recv"
        /\ rstate' = [rstate EXCEPT ![s] = IF stopped[s] THEN "StopReset" ELSE "ResetRecvd"]
        /\ size' = [size EXCEPT ![s] = peerEnd[s]]
    BY DEF ReceiveReset
  <1>3. /\ BytesRead(s) \in Nat /\ end[s] \in Nat /\ peerEnd[s] \in Nat
        /\ BytesRead(s) <= end[s] /\ end[s] <= peerEnd[s] /\ DataTypes
        /\ localMaxData \in Nat /\ shrinkDebt \in Nat /\ dataRecvd \in Nat
    BY ReadBounded, TypesSplit DEF RInv, LimitTypes
  <1>4. \A t \in Streams : t # s => SameAccount(t)
    BY <1>2, <1>3, SameStream DEF WasReset, DataTypes
  <1>5. ~WasReset(s) /\ WasReset(s)'
    BY <1>2, <1>3 DEF WasReset, DataTypes
  <1>6. KnownEnd(s) = end[s] /\ KnownEnd(s)' = peerEnd[s]
    BY <1>2, <1>3, <1>5 DEF KnownEnd, DataTypes
  <1>7. c \in Nat /\ c = peerEnd[s] - BytesRead(s)
    BY <1>1, <1>3 DEF ResetCredit
  <1>8. dataRecvd' = dataRecvd + (KnownEnd(s)' - KnownEnd(s))
    <2>1. CASE BytesRead(s) # peerEnd[s]
      <3>1. dataRecvd' = dataRecvd + (peerEnd[s] - end[s])
        BY <2>1 DEF ReceiveReset, ResetNewBytes
      <3>2. QED BY <1>6, <3>1
    <2>2. CASE BytesRead(s) = peerEnd[s]
      <3>1. dataRecvd' = dataRecvd
        BY <2>2 DEF ReceiveReset
      <3>2. end[s] = peerEnd[s]
        BY <1>3, <2>2
      <3>3. QED BY <1>3, <1>6, <3>1, <3>2
    <2>3. QED BY <2>1, <2>2
  <1>9. localMaxData' - shrinkDebt' = localMaxData - shrinkDebt + c /\ receiveWindow' = receiveWindow
    <2>1. CASE BytesRead(s) # peerEnd[s]
      <3>1. Credits(s, c)
        BY <1>1, <2>1, CreditEffect
      <3>2. QED BY <3>1, CreditsMove
    <2>2. CASE BytesRead(s) = peerEnd[s]
      <3>1. UNCHANGED <<localMaxData, shrinkDebt, receiveWindow>>
        BY <2>2 DEF ReceiveReset
      <3>2. c = 0
        BY <1>3, <1>7, <2>2
      <3>3. QED BY <1>3, <3>1, <3>2
    <2>3. QED BY <2>1, <2>2
  <1>10. ReleasedOf(s)' = Bytes(0, peerEnd[s])
    BY <1>5, <1>6, KnownEndTypeNext DEF ReleasedOf
  <1>11. \/ stopped[s] /\ ReleasedOf(s) = Bytes(0, end[s])
         \/ ~stopped[s] /\ ReleasedOf(s) = got[s]
    BY <1>5, <1>6, KnownEndType DEF ReleasedOf
  <1>12. ReleasedOf(s) \subseteq ReleasedOf(s)'
    <2>1. ReleasedOf(s) \subseteq Bytes(0, end[s])
      BY <1>6, KnownEndType
    <2>2. QED BY <1>3, <1>10, <2>1 DEF Bytes
  <1>13. /\ TwiceOf(s) \subseteq TwiceOf(s)'
         /\ c = (Cardinality(ReleasedOf(s)') - Cardinality(ReleasedOf(s)))
                  + (Cardinality(TwiceOf(s)') - Cardinality(TwiceOf(s)))
    <2>1. Cardinality(ReleasedOf(s)') = peerEnd[s]
      BY <1>3, <1>10, BytesCardinality
    <2>2. Cardinality(Bytes(0, end[s])) = end[s] /\ Cardinality(got[s]) = BytesRead(s)
      BY <1>3, BytesCardinality DEF BytesRead
    <2>3. TwiceOf(s) = {} /\ Cardinality(TwiceOf(s)) = 0
      BY <1>2, FS_EmptySet DEF TwiceOf
    <2>4. CASE stopped[s]
      <3>1. rstate'[s] = "StopReset"
        BY <1>2, <1>3, <2>4 DEF DataTypes
      <3>2. TwiceOf(s)' = Unread(s)
        BY <1>2, <3>1 DEF TwiceOf, Unread
      <3>3. Cardinality(TwiceOf(s)') = end[s] - BytesRead(s)
        BY <3>2, UnreadCardinality
      <3>4. Cardinality(ReleasedOf(s)) = end[s]
        BY <1>11, <2>2, <2>4
      <3>5. QED BY <1>3, <1>7, <2>1, <2>3, <3>3, <3>4
    <2>5. CASE ~stopped[s]
      <3>1. rstate'[s] # "StopReset"
        BY <1>2, <1>3, <2>5 DEF DataTypes
      <3>2. Cardinality(TwiceOf(s)') = 0
        BY <1>2, <3>1, NotTwice
      <3>3. Cardinality(ReleasedOf(s)) = BytesRead(s)
        BY <1>11, <2>2, <2>5
      <3>4. QED BY <1>3, <1>7, <2>1, <2>3, <3>2, <3>3
    <2>6. QED BY <2>4, <2>5
  <1>14. KnownEnd(s) <= KnownEnd(s)'
    BY <1>3, <1>6
  <1>15. Account(s, c)
    BY <1>4, <1>7, <1>8, <1>9, <1>12, <1>13, <1>14 DEF Account
  <1>16. QED BY <1>7, <1>15

\* Recv::stop returns the credit of what was received and not read.
LEMMA StopAccounts ==
    ASSUME RInv, RInv', NEW s \in Streams, Stop(s)
    PROVE  \E c \in Nat : Account(s, c)
  <1> USE BoundsAssumption
  <1>1. PICK c : c = StopCredit(s)
    OBVIOUS
  <1>2. /\ UNCHANGED <<size, end, got, dataRecvd>> /\ rstate[s] \in InMap
        /\ stopped' = [stopped EXCEPT ![s] = TRUE] /\ ~stopped[s]
        /\ rstate' = [rstate EXCEPT ![s] =
                        IF FinalOffsetUnknown(s) THEN rstate[s]
                        ELSE IF rstate[s] = "Recv" THEN "StopFin" ELSE "StopReset"]
    BY DEF Stop
  <1>3. /\ BytesRead(s) \in Nat /\ end[s] \in Nat /\ BytesRead(s) <= end[s]
        /\ DataTypes /\ FlagTypes /\ dataRecvd \in Nat
    BY ReadBounded, TypesSplit DEF RInv, LimitTypes
  <1>4. \A t \in Streams : t # s => SameAccount(t)
    BY <1>2, <1>3, SameStream DEF WasReset, DataTypes, FlagTypes
  <1>5. WasReset(s)' <=> WasReset(s)
    BY <1>2, <1>3 DEF WasReset, DataTypes, InMap, FinalOffsetUnknown
  <1>6. KnownEnd(s)' = KnownEnd(s) /\ ConsumedOf(s)' = ConsumedOf(s) /\ KnownEnd(s) \in Nat
    <2>1. KnownEnd(s)' = KnownEnd(s) /\ ConsumedOf(s)' = ConsumedOf(s)
      BY <1>2, <1>5 DEF KnownEnd, ConsumedOf
    <2>2. QED BY <2>1, KnownEndType
  <1>7. stopped'[s] = TRUE
    BY <1>2, <1>3, Zenon DEF FlagTypes
  <1>8. ReleasedOf(s)' = ConsumedOf(s)
    BY <1>6, <1>7 DEF ReleasedOf
  <1>9. c \in Nat /\ c = end[s] - BytesRead(s)
    BY <1>1, <1>3 DEF StopCredit
  <1>10. /\ TwiceOf(s) \subseteq TwiceOf(s)'
         /\ c = (Cardinality(ReleasedOf(s)') - Cardinality(ReleasedOf(s)))
                  + (Cardinality(TwiceOf(s)') - Cardinality(TwiceOf(s)))
    <2>0. TwiceOf(s) = {} /\ Cardinality(TwiceOf(s)) = 0
      BY <1>2, FS_EmptySet DEF TwiceOf, InMap
    <2>1. CASE WasReset(s)
      <3>1. ReleasedOf(s)' = Bytes(0, KnownEnd(s)) /\ ReleasedOf(s) = Bytes(0, KnownEnd(s))
        BY <1>8, <2>1, KnownEndType DEF ReleasedOf
      <3>2. Cardinality(Bytes(0, KnownEnd(s))) = KnownEnd(s)
        BY <1>6, BytesCardinality
      <3>3. rstate'[s] = "StopReset"
        BY <1>2, <1>3, <2>1 DEF WasReset, DataTypes, InMap, FinalOffsetUnknown
      <3>4. TwiceOf(s)' = Unread(s)
        BY <1>2, <3>3 DEF TwiceOf, Unread
      <3>5. Cardinality(TwiceOf(s)') = end[s] - BytesRead(s)
        BY <3>4, UnreadCardinality
      <3>6. QED BY <1>3, <1>6, <1>9, <2>0, <3>1, <3>2, <3>5
    <2>2. CASE ~WasReset(s)
      <3>1. ReleasedOf(s) = got[s] /\ ReleasedOf(s)' = Bytes(0, end[s])
        BY <1>2, <1>8, <2>2, KnownEndType DEF ReleasedOf, KnownEnd
      <3>2. Cardinality(Bytes(0, end[s])) = end[s] /\ Cardinality(got[s]) = BytesRead(s)
        BY <1>3, BytesCardinality DEF BytesRead
      <3>3. rstate'[s] # "StopReset" /\ rstate[s] # "StopReset"
        BY <1>5, <2>2 DEF WasReset
      <3>4. Cardinality(TwiceOf(s)') = 0
        BY <3>3, NotTwice
      <3>5. QED BY <1>3, <1>9, <2>0, <3>1, <3>2, <3>4
    <2>3. QED BY <2>1, <2>2
  <1>11. ReleasedOf(s) \subseteq ReleasedOf(s)'
    BY <1>8, KnownEndType
  <1>12. Credits(s, c)
    BY <1>1, CreditEffect
  <1>13. receiveWindow' = receiveWindow /\ localMaxData' - shrinkDebt' = localMaxData - shrinkDebt + c
    BY <1>12, CreditsMove
  <1>14. KnownEnd(s) <= KnownEnd(s)' /\ dataRecvd' = dataRecvd + (KnownEnd(s)' - KnownEnd(s))
    BY <1>2, <1>3, <1>6
  <1>15. Account(s, c)
    BY <1>4, <1>9, <1>10, <1>11, <1>13, <1>14 DEF Account
  <1>16. QED BY <1>9, <1>15

\* Reading returns the credit of the bytes read.
LEMMA ReadAccounts ==
    ASSUME RInv, RInv', NEW s \in Streams, Reading(s)
    PROVE  \E c \in Nat : Account(s, c)
  <1> USE BoundsAssumption
  <1>1. PICK T \in SUBSET buf[s] : Takes(s, T)
    BY ReadEffect
  <1>2. PICK c : c = Cardinality(T)
    OBVIOUS
  <1>3. /\ UNCHANGED <<size, end, stopped, dataRecvd>>
        /\ ~stopped[s] /\ got' = [got EXCEPT ![s] = got[s] \cup T]
        /\ \/ rstate' = rstate
           \/ rstate[s] = "Recv" /\ rstate' = [rstate EXCEPT ![s] = "Finished"]
           \/ rstate[s] = "ResetRecvd" /\ rstate' = [rstate EXCEPT ![s] = "ResetRead"]
    BY <1>1 DEF Takes
  <1>4. /\ end[s] \in Nat /\ DataTypes /\ dataRecvd \in Nat
        /\ got[s] \in SUBSET Bytes(0, end[s]) /\ T \in SUBSET Bytes(0, end[s])
    <2>1. got[s] \in SUBSET Bytes(0, end[s]) /\ buf[s] \in SUBSET Bytes(0, end[s])
      BY DEF RInv, Lengths, LengthsOf
    <2>2. QED BY <2>1, ReadBounded, TypesSplit DEF RInv, LimitTypes
  <1>5. \A t \in Streams : /\ WasReset(t)' <=> WasReset(t)
                           /\ rstate'[t] = "StopReset" <=> rstate[t] = "StopReset"
    BY <1>3, <1>4 DEF WasReset, DataTypes
  <1>6. \A t \in Streams : t # s => SameAccount(t)
    BY <1>3, <1>4, <1>5, SameStream DEF DataTypes
  <1>7. KnownEnd(s)' = KnownEnd(s) /\ ConsumedOf(s)' = ConsumedOf(s) /\ KnownEnd(s) \in Nat
    <2>1. KnownEnd(s)' = KnownEnd(s) /\ ConsumedOf(s)' = ConsumedOf(s)
      BY <1>3, <1>5 DEF KnownEnd, ConsumedOf
    <2>2. QED BY <2>1, KnownEndType
  <1>8. /\ IsFiniteSet(got[s]) /\ IsFiniteSet(T)
        /\ Cardinality(got[s]) \in Nat /\ Cardinality(T) \in Nat
    BY <1>4, BytesCardinality
  <1>9. Cardinality(ReleasedOf(s)') - Cardinality(ReleasedOf(s)) = c
        /\ ReleasedOf(s) \subseteq ReleasedOf(s)'
    <2>1. CASE WasReset(s)
      <3>1. ReleasedOf(s)' = Bytes(0, KnownEnd(s)) /\ ReleasedOf(s) = Bytes(0, KnownEnd(s))
        BY <1>5, <1>7, <2>1, KnownEndType DEF ReleasedOf
      <3>2. Cardinality(Bytes(0, KnownEnd(s))) = KnownEnd(s)
        BY <1>7, BytesCardinality
      <3>3. T = {}
        BY <2>1 DEF RInv, Lengths, LengthsOf
      <3>4. c = 0
        BY <1>2, <3>3, FS_EmptySet
      <3>5. QED BY <1>7, <3>1, <3>2, <3>4
    <2>2. CASE ~WasReset(s)
      <3>1. ReleasedOf(s) = got[s] /\ ReleasedOf(s)' = got[s] \cup T
        BY <1>3, <1>4, <1>5, <2>2 DEF ReleasedOf, DataTypes
      <3>2. got[s] \cap T = {}
        BY DEF RInv, Lengths, LengthsOf
      <3>3. Cardinality(got[s] \cap T) = 0
        BY <3>2, FS_EmptySet
      <3>4. Cardinality(got[s] \cup T) =
              Cardinality(got[s]) + Cardinality(T) - Cardinality(got[s] \cap T)
        BY <1>8, FS_Union
      <3>5. QED BY <1>2, <1>8, <3>1, <3>3, <3>4
    <2>3. QED BY <2>1, <2>2
  <1>10. Credits(s, c)
    BY <1>1, <1>2, CreditEffect
  <1>11. /\ c \in Nat /\ receiveWindow' = receiveWindow
         /\ localMaxData' - shrinkDebt' = localMaxData - shrinkDebt + c
    BY <1>10, CreditsMove
  <1>12. KnownEnd(s) <= KnownEnd(s)' /\ dataRecvd' = dataRecvd + (KnownEnd(s)' - KnownEnd(s))
    BY <1>3, <1>4, <1>7
  <1>n. TwiceOf(s)' = {} /\ TwiceOf(s) = {} /\ Cardinality({}) = 0
    <2>1. rstate[s] \in InMap
      BY <1>1 DEF Takes
    <2>2. QED BY <1>5, <2>1, FS_EmptySet DEF TwiceOf, InMap
  <1>r. Cardinality(ReleasedOf(s)') - Cardinality(ReleasedOf(s)) = c /\ c \in Nat
    BY <1>9, <1>11
  <1>13. Account(s, c)
    BY <1>6, <1>9, <1>11, <1>12, <1>n, <1>r DEF Account
  <1>14. QED BY <1>11, <1>13

\* set_receive_window moves the limit, or the debt, by as much as the window.
LEMMA WindowAccounts ==
    ASSUME RInv, NEW w \in Windows, SetReceiveWindow(w)
    PROVE  NoAccount
  <1>1. w \in Nat /\ localMaxData \in Nat /\ shrinkDebt \in Nat /\ receiveWindow \in Nat
    BY BoundsAssumption DEF RInv, TypeOK
  <1>2. localMaxData' - shrinkDebt' - receiveWindow' = localMaxData - shrinkDebt - receiveWindow
    <2>1. CASE w > receiveWindow
      <3>1. /\ localMaxData' = localMaxData + (w - receiveWindow)
            /\ shrinkDebt' = shrinkDebt /\ receiveWindow' = w
        BY <2>1 DEF SetReceiveWindow
      <3>2. QED BY <1>1, <3>1
    <2>2. CASE ~(w > receiveWindow)
      <3>1. /\ shrinkDebt' = shrinkDebt + (receiveWindow - w)
            /\ localMaxData' = localMaxData /\ receiveWindow' = w
        BY <2>2 DEF SetReceiveWindow
      <3>2. QED BY <1>1, <3>1
    <2>3. QED BY <2>1, <2>2
  <1>3. UNCHANGED <<rstate, size, end, stopped, got, dataRecvd>>
    BY DEF SetReceiveWindow
  <1>4. \A t \in Streams : /\ WasReset(t)' <=> WasReset(t)
                           /\ rstate'[t] = "StopReset" <=> rstate[t] = "StopReset"
    BY <1>3 DEF WasReset
  <1>5. QED BY <1>2, <1>3, <1>4 DEF NoAccount

\* Every step moves the account of one stream, or none.
LEMMA EveryAccount ==
    ASSUME RInv, RInv', [Next]_vars
    PROVE  NoAccount \/ \E s \in Streams : \E c \in Nat : Account(s, c)
  <1> DEFINE Goal == NoAccount \/ \E s \in Streams : \E c \in Nat : Account(s, c)
  <1> SUFFICES Goal
    OBVIOUS
  <1>1. ASSUME UNCHANGED <<size, end, stopped, got, dataRecvd, localMaxData, shrinkDebt,
                           receiveWindow>>,
               \A t \in Streams : /\ WasReset(t)' <=> WasReset(t)
                                  /\ rstate'[t] = "StopReset" <=> rstate[t] = "StopReset"
        PROVE  Goal
    <2>1. localMaxData' - shrinkDebt' - receiveWindow' = localMaxData - shrinkDebt - receiveWindow
      BY <1>1
    <2>2. QED BY <1>1, <2>1 DEF NoAccount
  <1>2. ASSUME UNCHANGED <<rstate, size, end, stopped, got, dataRecvd, localMaxData, shrinkDebt,
                           receiveWindow>>
        PROVE  Goal
    <2>1. \A t \in Streams : /\ WasReset(t)' <=> WasReset(t)
                             /\ rstate'[t] = "StopReset" <=> rstate[t] = "StopReset"
      BY <1>2 DEF WasReset
    <2>2. QED BY <1>1, <1>2, <2>1
  <1>3. ASSUME NEW s \in Streams, IllegalOrderedRead(s) \/ ReceivedReset(s)
        PROVE  Goal
    <2>1. /\ rstate \in [Streams -> InMap \cup {"Finished", "ResetRead", "StopFin",
                                               "StopReset", "Leaked", "LeakedReset"}]
      BY DEF RInv, TypeOK
    <2>2. \A t \in Streams : /\ WasReset(t)' <=> WasReset(t)
                             /\ rstate'[t] = "StopReset" <=> rstate[t] = "StopReset"
      <3>1. CASE IllegalOrderedRead(s)
        BY <2>1, <3>1 DEF IllegalOrderedRead, WasReset, InMap
      <3>2. CASE ReceivedReset(s)
        BY <2>1, <3>2 DEF ReceivedReset, WasReset
      <3>3. QED BY <1>3, <3>1, <3>2
    <2>3. QED BY <1>1, <1>3, <2>2 DEF IllegalOrderedRead, ReceivedReset
  <1>4. ASSUME NEW s \in Streams,
               \/ PeerWrite(s) \/ PeerFinish(s) \/ PeerResets(s) \/ ReceiveBadReset(s)
               \/ PollReadable(s) \/ SendMaxStream(s) \/ SendStop(s) \/ StopAcked(s)
               \/ \E arrived \in BOOLEAN : LoseStop(s, arrived)
        PROVE  Goal
    BY <1>2, <1>4 DEF PeerWrite, PeerFinish, PeerResets, ReceiveBadReset, PollReadable,
       SendMaxStream, SendStop, StopAcked, LoseStop
  <1>5. ASSUME NEW s \in Streams, Receiving(s)
        PROVE  Goal
    <2>1. PICK lo \in 0 .. MaxOffset, hi \in 0 .. MaxOffset, fin \in BOOLEAN :
            \/ ReceiveStream(s, lo, hi, fin)
            \/ ReceiveStopped(s, lo, hi, fin)
            \/ ReceiveBad(s, lo, hi, fin)
      BY <1>5 DEF Receiving
    <2>2. CASE ReceiveBad(s, lo, hi, fin)
      BY <1>2, <2>2 DEF ReceiveBad
    <2>3. QED BY <2>1, <2>2, ReceiveAccounts, StoppedAccounts
  <1>6. ASSUME \/ SendMaxData
               \/ \E v \in flightData : MaxDataAcked(v)
               \/ \E v \in flightData, arrived \in BOOLEAN : LoseMaxData(v, arrived)
               \/ \E f \in flightStream : MaxStreamAcked(f[1], f[2])
               \/ \E f \in flightStream, arrived \in BOOLEAN :
                     LoseMaxStream(f[1], f[2], arrived)
        PROVE  Goal
    BY <1>2, <1>6 DEF SendMaxData, MaxDataAcked, LoseMaxData, MaxStreamAcked, LoseMaxStream
  <1>7. CASE UNCHANGED vars
    BY <1>2, <1>7 DEF vars
  <1>8. QED
    BY <1>3, <1>4, <1>5, <1>6, <1>7, ResetAccounts, StopAccounts, ReadAccounts, WindowAccounts
       DEF Next

\* Every step keeps the accounts of credit.
LEMMA NextAccounts == RInv /\ RInv' /\ CreditAccounted /\ [Next]_vars => CreditAccounted'
  BY EveryAccount, AccountStep, AccountFrame

\* Every byte is counted in data_recvd once it is known, whether by data, by a FIN
\* or by a reset, and the credit of every byte read or discarded is returned, once
\* but for what a stop and a reset both return: for any streams and windows, whatever
\* is lost, repeated, stopped, reset or resized.
THEOREM CreditInvariance == Spec => []CreditAccounted
  <1>1. Spec => []RInv
    BY RecvInvariance
  <1>2. QED BY <1>1, InitAccounts, NextAccounts, PTL DEF Spec

-----------------------------------------------------------------------------
(* What is outstanding                                                     *)

\* What was received is within the limit: a frame beyond it is refused, and the limit
\* never goes back.
Bounded == dataRecvd <= localMaxData

\* Every step keeps what was received within the limit.
LEMMA BoundStep == RInv /\ Bounded /\ [Next]_vars => Bounded'
  <1> SUFFICES ASSUME RInv, Bounded, [Next]_vars PROVE Bounded'
    OBVIOUS
  <1> USE BoundsAssumption
  <1>1. /\ dataRecvd \in Nat /\ localMaxData \in Nat /\ shrinkDebt \in Nat
        /\ receiveWindow \in Nat /\ LimitTypes /\ FlagTypes /\ dataRecvd <= localMaxData
    BY TypesSplit DEF RInv, LimitTypes, Bounded
  <1>2. ASSUME UNCHANGED <<dataRecvd, localMaxData>> PROVE Bounded'
    BY <1>1, <1>2 DEF Bounded
  <1>3. ASSUME NEW s \in Streams, NEW c, Credits(s, c)
        PROVE  localMaxData' \in Nat /\ localMaxData <= localMaxData'
    BY <1>1, <1>3, CreditAdded DEF Credits
  <1>4. ASSUME NEW s \in Streams, Receiving(s)
        PROVE  Bounded'
    <2>1. PICK lo \in 0 .. MaxOffset, hi \in 0 .. MaxOffset, fin \in BOOLEAN :
            \/ ReceiveStream(s, lo, hi, fin)
            \/ ReceiveStopped(s, lo, hi, fin)
            \/ ReceiveBad(s, lo, hi, fin)
      BY <1>4 DEF Receiving
    <2>2. end[s] \in Nat /\ Greater(0, hi - end[s]) \in Nat
      BY ReadBounded DEF Greater
    <2>3. CASE ReceiveStream(s, lo, hi, fin)
      <3>1. /\ dataRecvd' = dataRecvd + Greater(0, hi - end[s]) /\ localMaxData' = localMaxData
            /\ ~(dataRecvd + Greater(0, hi - end[s]) > localMaxData)
        BY <2>3 DEF ReceiveStream, IngestFails, CreditExceeded
      <3>2. QED BY <1>1, <2>2, <3>1 DEF Bounded
    <2>4. CASE ReceiveStopped(s, lo, hi, fin)
      <3>1. /\ dataRecvd' = dataRecvd + Greater(0, hi - end[s])
            /\ ~(dataRecvd + Greater(0, hi - end[s]) > localMaxData)
        BY <2>4 DEF ReceiveStopped, IngestFails, CreditExceeded
      <3>2. localMaxData' \in Nat /\ localMaxData <= localMaxData'
        BY <1>3, <2>4, CreditEffect
      <3>3. QED BY <1>1, <2>2, <3>1, <3>2 DEF Bounded
    <2>5. QED BY <1>2, <2>1, <2>3, <2>4 DEF ReceiveBad, connVars
  <1>5. ASSUME NEW s \in Streams, ReceiveReset(s)
        PROVE  Bounded'
    <2>1. CASE BytesRead(s) # peerEnd[s]
      <3>1. end[s] \in Nat /\ peerEnd[s] \in Nat /\ end[s] <= peerEnd[s]
        BY ReadBounded
      <3>2. /\ dataRecvd' = dataRecvd + (peerEnd[s] - end[s])
            /\ ~(dataRecvd + Greater(0, peerEnd[s] - end[s]) > localMaxData)
        BY <1>5, <2>1 DEF ReceiveReset, ResetNewBytes, ResetFails, CreditExceeded
      <3>3. Greater(0, peerEnd[s] - end[s]) = peerEnd[s] - end[s]
        BY <3>1 DEF Greater
      <3>4. localMaxData' \in Nat /\ localMaxData <= localMaxData'
        BY <1>3, <1>5, <2>1, CreditEffect
      <3>5. QED BY <1>1, <3>1, <3>2, <3>3, <3>4 DEF Bounded
    <2>2. CASE BytesRead(s) = peerEnd[s]
      BY <1>2, <1>5, <2>2 DEF ReceiveReset
    <2>3. QED BY <2>1, <2>2
  <1>6. ASSUME NEW s \in Streams, Stop(s) \/ Reading(s)
        PROVE  Bounded'
    <2>1. dataRecvd' = dataRecvd /\ \E c : Credits(s, c)
      <3>1. CASE Stop(s)
        BY <3>1, CreditEffect DEF Stop
      <3>2. CASE Reading(s)
        <4>1. PICK T \in SUBSET buf[s] : Takes(s, T)
          BY <3>2, ReadEffect
        <4>2. QED BY <4>1, CreditEffect DEF Takes
      <3>3. QED BY <1>6, <3>1, <3>2
    <2>2. localMaxData' \in Nat /\ localMaxData <= localMaxData'
      BY <1>3, <2>1
    <2>3. QED BY <1>1, <2>1, <2>2 DEF Bounded
  <1>7. ASSUME NEW w \in Windows, SetReceiveWindow(w)
        PROVE  Bounded'
    <2>1. w \in Nat
      OBVIOUS
    <2>2. dataRecvd' = dataRecvd
      BY <1>7 DEF SetReceiveWindow
    <2>3. \/ w > receiveWindow /\ localMaxData' = localMaxData + (w - receiveWindow)
          \/ localMaxData' = localMaxData
      BY <1>7 DEF SetReceiveWindow
    <2>4. QED BY <1>1, <2>1, <2>2, <2>3 DEF Bounded
  <1>8. ASSUME NEW s \in Streams,
               \/ PeerWrite(s) \/ PeerFinish(s) \/ PeerResets(s) \/ ReceiveBadReset(s)
               \/ IllegalOrderedRead(s) \/ ReceivedReset(s)
               \/ PollReadable(s) \/ SendMaxStream(s) \/ SendStop(s) \/ StopAcked(s)
               \/ \E arrived \in BOOLEAN : LoseStop(s, arrived)
        PROVE  Bounded'
    BY <1>2, <1>8 DEF PeerWrite, PeerFinish, PeerResets, ReceiveBadReset, PollReadable,
       IllegalOrderedRead, ReceivedReset, SendMaxStream, SendStop, StopAcked, LoseStop, connVars
  <1>9. ASSUME \/ SendMaxData
               \/ \E v \in flightData : MaxDataAcked(v)
               \/ \E v \in flightData, arrived \in BOOLEAN : LoseMaxData(v, arrived)
               \/ \E f \in flightStream : MaxStreamAcked(f[1], f[2])
               \/ \E f \in flightStream, arrived \in BOOLEAN :
                     LoseMaxStream(f[1], f[2], arrived)
        PROVE  Bounded'
    BY <1>2, <1>9 DEF SendMaxData, MaxDataAcked, LoseMaxData, MaxStreamAcked, LoseMaxStream,
       connVars
  <1>10. CASE UNCHANGED vars
    BY <1>2, <1>10 DEF vars, connVars
  <1>11. QED BY <1>4, <1>5, <1>6, <1>7, <1>8, <1>9, <1>10 DEF Next

\* At first the limit is the window.
LEMMA InitBounded == Init => Bounded
  BY BoundsAssumption DEF Init, Bounded

\* A peer, even one that ignores its limits, never has more unread bytes outstanding
\* than the window, what it was promised before the window shrank, and what was
\* returned to it twice, which is what had arrived unread on the streams that were
\* stopped and reset (credit_consumed_by, add_read_credits, set_receive_window): for
\* any streams and windows.
THEOREM WindowTheorem == Spec => []WindowRespected
  <1>1. ASSUME RInv, CreditAccounted, Bounded
        PROVE  WindowRespected
    <2>1. localMaxData - shrinkDebt = receiveWindow + Cardinality(Released) + Cardinality(Twice)
      BY <1>1 DEF CreditAccounted, CreditReturned
    <2>2. dataRecvd = Cardinality(Consumed) /\ dataRecvd <= localMaxData
      BY <1>1 DEF CreditAccounted, DataRecvdExact, Bounded
    <2>3. /\ dataRecvd \in Nat /\ localMaxData \in Nat /\ shrinkDebt \in Nat
          /\ receiveWindow \in Nat
      BY <1>1 DEF RInv, TypeOK
    <2>4. Cardinality(Released) \in Nat /\ Cardinality(Twice) \in Nat
      BY <1>1, ReleasedFinite, TwiceFinite
    <2>5. QED BY <2>1, <2>2, <2>3, <2>4 DEF WindowRespected
  <1>2. Spec => []RInv
    BY RecvInvariance
  <1>3. Spec => []CreditAccounted
    BY CreditInvariance
  <1>4. QED BY <1>1, <1>2, <1>3, InitBounded, BoundStep, PTL DEF Spec

-----------------------------------------------------------------------------
(* What the peer and the reader are told: the limits, and the ends.        *)

\* The limit of the connection: what the peer knows, what was sent, what is held
ConnLimits ==
    /\ sentMaxData <= VarIntMax /\ sentMaxData <= localMaxData
    /\ peerMaxData <= sentMaxData
    /\ \A v \in flightData : v <= sentMaxData
    /\ peerMaxData = sentMaxData \/ pendMaxData \/ sentMaxData \in flightData

\* The same of the limit of stream s
StreamLimitOf(s) ==
    /\ sentMaxStream[s] <= BytesRead(s) + StreamWindow
    /\ peerMaxStream[s] <= sentMaxStream[s]
    /\ \A v \in Nat : <<s, v>> \in flightStream => v <= sentMaxStream[s]
    /\ CanSendFlowControl(s) =>
          \/ peerMaxStream[s] = sentMaxStream[s]
          \/ s \in pendMaxStream
          \/ <<s, sentMaxStream[s]>> \in flightStream

AllStreamLimits == \A s \in Streams : StreamLimitOf(s)

\* Bytes read stay read, and a stream that needs no more credit never needs it again.
LEMMA StreamsProgress ==
    ASSUME RInv, [Next]_vars, NEW t \in Streams
    PROVE  got[t] \subseteq got'[t] /\ (CanSendFlowControl(t)' => CanSendFlowControl(t))
  <1> DEFINE Goal == got[t] \subseteq got'[t] /\ (CanSendFlowControl(t)' => CanSendFlowControl(t))
  <1> SUFFICES Goal
    OBVIOUS
  <1>1. DataTypes /\ FlagTypes
    BY TypesSplit DEF RInv
  <1>2. ASSUME UNCHANGED <<rstate, size, stopped, got>> PROVE Goal
    BY <1>2 DEF CanSendFlowControl, FinalOffsetUnknown
  <1>3. ASSUME NEW s \in Streams,
               \/ PeerWrite(s) \/ PeerFinish(s) \/ PeerResets(s) \/ ReceiveBadReset(s)
               \/ PollReadable(s) \/ SendMaxStream(s) \/ SendStop(s) \/ StopAcked(s)
               \/ \E arrived \in BOOLEAN : LoseStop(s, arrived)
        PROVE  Goal
    <2> HIDE DEF Goal
    <2>1. QED BY <1>2, <1>3 DEF PeerWrite, PeerFinish, PeerResets, ReceiveBadReset, PollReadable,
             SendMaxStream, SendStop, StopAcked, LoseStop
  <1>4. ASSUME \/ \E w \in Windows : SetReceiveWindow(w)
               \/ SendMaxData
               \/ \E v \in flightData : MaxDataAcked(v)
               \/ \E v \in flightData, arrived \in BOOLEAN : LoseMaxData(v, arrived)
               \/ \E f \in flightStream : MaxStreamAcked(f[1], f[2])
               \/ \E f \in flightStream, arrived \in BOOLEAN :
                     LoseMaxStream(f[1], f[2], arrived)
        PROVE  Goal
    <2> HIDE DEF Goal
    <2>1. QED BY <1>2, <1>4 DEF SetReceiveWindow, SendMaxData, MaxDataAcked, LoseMaxData,
             MaxStreamAcked, LoseMaxStream
  <1>5. ASSUME NEW s \in Streams, Receiving(s)
        PROVE  Goal
    <2>1. PICK lo \in 0 .. MaxOffset, hi \in 0 .. MaxOffset, fin \in BOOLEAN :
            \/ ReceiveStream(s, lo, hi, fin)
            \/ ReceiveStopped(s, lo, hi, fin)
            \/ ReceiveBad(s, lo, hi, fin)
      BY <1>5 DEF Receiving
    <2>2. CASE ReceiveBad(s, lo, hi, fin)
      <3> HIDE DEF Goal
      <3>1. QED BY <1>2, <2>2 DEF ReceiveBad
    <2>3. CASE ReceiveStream(s, lo, hi, fin)
      <3>1. /\ UNCHANGED <<rstate, stopped, got>>
            /\ size' = [size EXCEPT ![s] = IF fin THEN hi ELSE size[s]]
        BY <2>3 DEF ReceiveStream
      <3>2. size'[t] = NoSize => size[t] = NoSize
        BY <1>1, <3>1 DEF DataTypes, NoSize
      <3>3. QED BY <3>1, <3>2 DEF CanSendFlowControl, FinalOffsetUnknown
    <2>4. CASE ReceiveStopped(s, lo, hi, fin)
      <3>1. /\ UNCHANGED <<size, stopped, got>>
            /\ rstate' = [rstate EXCEPT ![s] = IF fin THEN "StopFin" ELSE rstate[s]]
        BY <2>4 DEF ReceiveStopped
      <3>2. rstate'[t] = "Recv" => rstate[t] = "Recv"
        BY <1>1, <3>1 DEF DataTypes
      <3>3. QED BY <3>1, <3>2 DEF CanSendFlowControl, FinalOffsetUnknown
    <2>5. QED BY <2>1, <2>2, <2>3, <2>4
  <1>6. ASSUME NEW s \in Streams, Stop(s)
        PROVE  Goal
    <2>1. /\ UNCHANGED <<size, got>> /\ stopped' = [stopped EXCEPT ![s] = TRUE]
          /\ rstate' = [rstate EXCEPT ![s] =
                          IF FinalOffsetUnknown(s) THEN rstate[s]
                          ELSE IF rstate[s] = "Recv" THEN "StopFin" ELSE "StopReset"]
      BY <1>6 DEF Stop
    <2>2. rstate'[t] = "Recv" => rstate[t] = "Recv"
      BY <1>1, <2>1 DEF DataTypes
    <2>3. ~stopped'[t] => ~stopped[t]
      BY <1>1, <2>1, Zenon DEF FlagTypes
    <2>4. QED BY <2>1, <2>2, <2>3 DEF CanSendFlowControl, FinalOffsetUnknown
  <1>7. ASSUME NEW s \in Streams, Reading(s)
        PROVE  Goal
    <2>1. PICK T \in SUBSET buf[s] : Takes(s, T)
      BY <1>7, ReadEffect
    <2>2. /\ UNCHANGED <<size, stopped>>
          /\ got' = [got EXCEPT ![s] = got[s] \cup T]
          /\ \/ rstate' = rstate
             \/ rstate[s] = "Recv" /\ rstate' = [rstate EXCEPT ![s] = "Finished"]
             \/ rstate[s] = "ResetRecvd" /\ rstate' = [rstate EXCEPT ![s] = "ResetRead"]
      BY <2>1 DEF Takes
    <2>3. rstate'[t] = "Recv" => rstate[t] = "Recv"
      BY <1>1, <2>2 DEF DataTypes
    <2>4. got[t] \subseteq got'[t]
      BY <1>1, <2>2 DEF DataTypes
    <2>5. QED BY <2>2, <2>3, <2>4 DEF CanSendFlowControl, FinalOffsetUnknown
  <1>8. ASSUME NEW s \in Streams, IllegalOrderedRead(s) \/ ReceivedReset(s) \/ ReceiveReset(s)
        PROVE  Goal
    <2>1. UNCHANGED <<stopped, got>>
      BY <1>8 DEF IllegalOrderedRead, ReceivedReset, ReceiveReset
    <2>2. rstate'[t] = "Recv" => rstate[t] = "Recv" /\ t # s
      BY <1>1, <1>8 DEF DataTypes, IllegalOrderedRead, ReceivedReset, ReceiveReset, InMap
    <2>3. t # s => size'[t] = size[t]
      BY <1>1, <1>8 DEF DataTypes, IllegalOrderedRead, ReceivedReset, ReceiveReset
    <2>4. QED BY <2>1, <2>2, <2>3 DEF CanSendFlowControl, FinalOffsetUnknown
  <1>9. CASE UNCHANGED vars
    <2> HIDE DEF Goal
    <2>1. QED BY <1>2, <1>9 DEF vars
  <1> HIDE DEF Goal
  <1>10. QED BY <1>3, <1>4, <1>5, <1>6, <1>7, <1>8, <1>9 DEF Next

\* ... so that the count of bytes read never falls.
LEMMA ReadGrows ==
    ASSUME RInv, RInv', [Next]_vars, NEW t \in Streams
    PROVE  BytesRead(t) \in Nat /\ BytesRead(t)' \in Nat /\ BytesRead(t) <= BytesRead(t)'
  <1>1. got'[t] \in SUBSET Bytes(0, MaxOffset) /\ MaxOffset \in Nat
    BY BoundsAssumption DEF RInv, TypeOK
  <1>2. IsFiniteSet(got'[t]) /\ Cardinality(got'[t]) \in Nat
    BY <1>1, BytesCardinality
  <1>3. BytesRead(t) \in Nat /\ BytesRead(t)' = Cardinality(got'[t])
    BY ReadBounded DEF BytesRead
  <1>4. got[t] \subseteq got'[t]
    BY StreamsProgress
  <1>5. Cardinality(got[t]) <= Cardinality(got'[t])
    BY <1>2, <1>4, FS_Subset
  <1>6. QED BY <1>2, <1>3, <1>5 DEF BytesRead

\* The limit of the connection is announced in the end, whatever is lost.
LEMMA ConnLimitsStep == RInv /\ ConnLimits /\ [Next]_vars => ConnLimits'
  <1> SUFFICES ASSUME RInv, ConnLimits, [Next]_vars PROVE ConnLimits'
    OBVIOUS
  <1>1. /\ sentMaxData \in Nat /\ localMaxData \in Nat /\ peerMaxData \in Nat
        /\ receiveWindow \in Nat /\ VarIntMax \in Nat
        /\ flightData \in SUBSET Nat /\ pendMaxData \in BOOLEAN
    BY BoundsAssumption DEF RInv, TypeOK
  <1>2. ASSUME UNCHANGED <<sentMaxData, peerMaxData, flightData>>, localMaxData' \in Nat,
               localMaxData <= localMaxData', pendMaxData => pendMaxData'
        PROVE  ConnLimits'
    <2>1. peerMaxData' = sentMaxData' \/ pendMaxData' \/ sentMaxData' \in flightData'
      BY <1>2, Zenon DEF ConnLimits
    <2>2. sentMaxData' <= localMaxData'
      BY <1>1, <1>2 DEF ConnLimits
    <2>3. QED BY <1>2, <2>1, <2>2 DEF ConnLimits
  <1>3. ASSUME UNCHANGED <<sentMaxData, peerMaxData, flightData, localMaxData, pendMaxData>>
        PROVE  ConnLimits'
    BY <1>3 DEF ConnLimits
  <1>4. ASSUME NEW s \in Streams, NEW c, Credits(s, c)
        PROVE  ConnLimits'
    <2>1. localMaxData' \in Nat /\ localMaxData <= localMaxData' /\ (pendMaxData => pendMaxData')
      BY <1>4, TypesSplit, CreditAdded DEF RInv, Credits
    <2>2. QED BY <1>2, <1>4, <2>1 DEF Credits
  <1>5. ASSUME NEW s \in Streams,
               \/ PeerWrite(s) \/ PeerFinish(s) \/ PeerResets(s) \/ ReceiveBadReset(s)
               \/ IllegalOrderedRead(s) \/ ReceivedReset(s)
               \/ PollReadable(s) \/ SendMaxStream(s) \/ SendStop(s) \/ StopAcked(s)
               \/ \E arrived \in BOOLEAN : LoseStop(s, arrived)
        PROVE  ConnLimits'
    BY <1>3, <1>5 DEF PeerWrite, PeerFinish, PeerResets, ReceiveBadReset, IllegalOrderedRead,
       ReceivedReset, PollReadable, SendMaxStream, SendStop, StopAcked, LoseStop
  <1>6. ASSUME NEW s \in Streams, Receiving(s)
        PROVE  ConnLimits'
    <2>1. PICK lo \in 0 .. MaxOffset, hi \in 0 .. MaxOffset, fin \in BOOLEAN :
            \/ ReceiveStream(s, lo, hi, fin)
            \/ ReceiveStopped(s, lo, hi, fin)
            \/ ReceiveBad(s, lo, hi, fin)
      BY <1>6 DEF Receiving
    <2>2. ReceiveStopped(s, lo, hi, fin) => ConnLimits'
      BY <1>4, CreditEffect
    <2>3. QED BY <1>3, <2>1, <2>2 DEF ReceiveStream, ReceiveBad
  <1>7. ASSUME NEW s \in Streams, ReceiveReset(s)
        PROVE  ConnLimits'
    <2>1. CASE BytesRead(s) # peerEnd[s]
      BY <1>4, <1>7, <2>1, CreditEffect
    <2>2. CASE BytesRead(s) = peerEnd[s]
      BY <1>3, <1>7, <2>2 DEF ReceiveReset
    <2>3. QED BY <2>1, <2>2
  <1>8. ASSUME NEW s \in Streams, Stop(s)
        PROVE  ConnLimits'
    BY <1>4, <1>8, CreditEffect
  <1>9. ASSUME NEW s \in Streams, Reading(s)
        PROVE  ConnLimits'
    BY <1>4, <1>9, ReadEffect, CreditEffect
  <1>10. ASSUME NEW w \in Windows, SetReceiveWindow(w)
         PROVE  ConnLimits'
    <2>1. w \in Nat
      BY BoundsAssumption
    <2>2. /\ UNCHANGED <<sentMaxData, peerMaxData, flightData>>
          /\ localMaxData' = localMaxData + (w - receiveWindow) \/ localMaxData' = localMaxData
          /\ w > receiveWindow \/ localMaxData' = localMaxData
      BY <1>10 DEF SetReceiveWindow
    <2>3. localMaxData' \in Nat /\ localMaxData <= localMaxData'
      BY <1>1, <2>1, <2>2
    <2>4. pendMaxData' = TRUE \/ pendMaxData' = pendMaxData
      BY <1>10, Zenon DEF SetReceiveWindow
    <2>5. QED BY <1>2, <2>2, <2>3, <2>4
  <1>11. ASSUME SendMaxData
         PROVE  ConnLimits'
    <2>1. PICK max : max = Lesser(localMaxData, VarIntMax)
      OBVIOUS
    <2>2. /\ UNCHANGED <<localMaxData, peerMaxData>> /\ sentMaxData' = Greater(sentMaxData, max)
          /\ flightData' = flightData \cup {max}
      BY <1>11, <2>1 DEF SendMaxData
    <2>3. /\ max \in Nat /\ max <= localMaxData /\ max <= VarIntMax
          /\ sentMaxData' = max /\ sentMaxData <= max
      BY <1>1, <2>1, <2>2 DEF Lesser, Greater, ConnLimits
    <2>4. \A v \in flightData' : v <= sentMaxData'
      BY <1>1, <2>2, <2>3 DEF ConnLimits
    <2>5. peerMaxData' <= sentMaxData'
      BY <1>1, <2>2, <2>3 DEF ConnLimits
    <2>6. QED BY <2>2, <2>3, <2>4, <2>5 DEF ConnLimits
  <1>12. ASSUME NEW v \in flightData, MaxDataAcked(v)
         PROVE  ConnLimits'
    <2>1. /\ UNCHANGED <<sentMaxData, localMaxData, pendMaxData>>
          /\ flightData' = flightData \ {v} /\ peerMaxData' = Greater(peerMaxData, v)
      BY <1>12 DEF MaxDataAcked
    <2>2. /\ peerMaxData' <= sentMaxData
          /\ v = sentMaxData => peerMaxData' = sentMaxData
          /\ peerMaxData = sentMaxData => peerMaxData' = sentMaxData
      BY <1>1, <2>1 DEF ConnLimits, Greater
    <2>3. peerMaxData' = sentMaxData' \/ pendMaxData' \/ sentMaxData' \in flightData'
      <3>1. CASE pendMaxData
        BY <2>1, <3>1
      <3>2. CASE peerMaxData = sentMaxData
        BY <2>1, <2>2, <3>2
      <3>3. CASE sentMaxData \in flightData
        BY <2>1, <2>2, <3>3
      <3>4. QED BY <3>1, <3>2, <3>3 DEF ConnLimits
    <2>4. QED BY <2>1, <2>2, <2>3 DEF ConnLimits
  <1>13. ASSUME NEW v \in flightData, NEW arrived \in BOOLEAN, LoseMaxData(v, arrived)
         PROVE  ConnLimits'
    <2>1. /\ UNCHANGED <<sentMaxData, localMaxData>>
          /\ flightData' = flightData \ {v}
          /\ peerMaxData' = Greater(peerMaxData, v) \/ peerMaxData' = peerMaxData
      BY <1>13 DEF LoseMaxData
    <2>2. pendMaxData' = TRUE
      BY <1>13, Zenon DEF LoseMaxData, RequeueMaxData
    <2>3. peerMaxData' <= sentMaxData
      BY <1>1, <2>1 DEF ConnLimits, Greater
    <2>4. QED BY <2>1, <2>2, <2>3 DEF ConnLimits
  <1>14. ASSUME \/ \E f \in flightStream : MaxStreamAcked(f[1], f[2])
                \/ \E f \in flightStream, arrived \in BOOLEAN :
                      LoseMaxStream(f[1], f[2], arrived)
         PROVE  ConnLimits'
    BY <1>3, <1>14 DEF MaxStreamAcked, LoseMaxStream
  <1>15. CASE UNCHANGED vars
    BY <1>3, <1>15 DEF vars
  <1>16. QED
    BY <1>5, <1>6, <1>7, <1>8, <1>9, <1>10, <1>11, <1>12, <1>13, <1>14, <1>15 DEF Next

\* The limit of every stream that needs one is announced in the end.
LEMMA StreamLimitsStep ==
    RInv /\ RInv' /\ AllStreamLimits /\ [Next]_vars => AllStreamLimits'
  <1> SUFFICES ASSUME RInv, RInv', AllStreamLimits, [Next]_vars, NEW t \in Streams
               PROVE  StreamLimitOf(t)'
    BY DEF AllStreamLimits
  <1>1. /\ sentMaxStream \in [Streams -> Nat] /\ peerMaxStream \in [Streams -> Nat]
        /\ flightStream \in SUBSET (Streams \X Nat) /\ StreamWindow \in Nat
    BY BoundsAssumption DEF RInv, TypeOK
  <1>2. StreamLimitOf(t)
    BY DEF AllStreamLimits
  <1>3. /\ BytesRead(t) \in Nat /\ BytesRead(t)' \in Nat /\ BytesRead(t) <= BytesRead(t)'
        /\ CanSendFlowControl(t)' => CanSendFlowControl(t)
    BY ReadGrows, StreamsProgress
  <1>4. ASSUME UNCHANGED <<sentMaxStream, peerMaxStream, flightStream>>,
               t \in pendMaxStream => t \in pendMaxStream'
        PROVE  StreamLimitOf(t)'
    <2>1. sentMaxStream'[t] <= BytesRead(t)' + StreamWindow
      BY <1>1, <1>2, <1>3, <1>4 DEF StreamLimitOf
    <2>2. CanSendFlowControl(t)' =>
            \/ peerMaxStream'[t] = sentMaxStream'[t]
            \/ t \in pendMaxStream'
            \/ <<t, sentMaxStream'[t]>> \in flightStream'
      BY <1>2, <1>3, <1>4 DEF StreamLimitOf
    <2>3. QED BY <1>2, <1>4, <2>1, <2>2 DEF StreamLimitOf
  <1>5. ASSUME NEW s \in Streams,
               \/ PeerWrite(s) \/ PeerFinish(s) \/ PeerResets(s) \/ ReceiveBadReset(s)
               \/ IllegalOrderedRead(s) \/ ReceivedReset(s) \/ ReceiveReset(s)
               \/ PollReadable(s) \/ Stop(s) \/ SendStop(s) \/ StopAcked(s)
               \/ \E arrived \in BOOLEAN : LoseStop(s, arrived)
        PROVE  StreamLimitOf(t)'
    BY <1>4, <1>5 DEF PeerWrite, PeerFinish, PeerResets, ReceiveBadReset, IllegalOrderedRead,
       ReceivedReset, ReceiveReset, PollReadable, Stop, SendStop, StopAcked, LoseStop
  <1>6. ASSUME NEW s \in Streams, Receiving(s)
        PROVE  StreamLimitOf(t)'
    BY <1>4, <1>6 DEF Receiving, ReceiveStream, ReceiveStopped, ReceiveBad
  <1>7. ASSUME NEW s \in Streams, Reading(s)
        PROVE  StreamLimitOf(t)'
    <2>1. PICK T \in SUBSET buf[s] : Takes(s, T)
      BY <1>7, ReadEffect
    <2>2. QED BY <1>4, <2>1 DEF Takes
  <1>8. ASSUME \/ \E w \in Windows : SetReceiveWindow(w)
               \/ SendMaxData
               \/ \E v \in flightData : MaxDataAcked(v)
               \/ \E v \in flightData, arrived \in BOOLEAN : LoseMaxData(v, arrived)
        PROVE  StreamLimitOf(t)'
    BY <1>4, <1>8 DEF SetReceiveWindow, SendMaxData, MaxDataAcked, LoseMaxData
  <1>9. ASSUME NEW s \in Streams, SendMaxStream(s)
        PROVE  StreamLimitOf(t)'
    <2>1. PICK max : max = BytesRead(s) + StreamWindow
      OBVIOUS
    <2>2. UNCHANGED <<rstate, size, stopped, got, peerMaxStream>> /\ pendMaxStream' = pendMaxStream \ {s}
      BY <1>9 DEF SendMaxStream
    <2>3. CanSendFlowControl(t)' <=> CanSendFlowControl(t)
      BY <2>2 DEF CanSendFlowControl, FinalOffsetUnknown
    <2>4. BytesRead(t)' = BytesRead(t)
      BY <2>2 DEF BytesRead
    <2>5. CASE ~CanSendFlowControl(s)
      <3>1. UNCHANGED <<sentMaxStream, flightStream>>
        BY <1>9, <2>5 DEF SendMaxStream
      <3>2. CASE t = s
        BY <1>2, <2>2, <2>3, <2>4, <2>5, <3>1, <3>2 DEF StreamLimitOf
      <3>3. CASE t # s
        BY <1>4, <2>2, <3>1, <3>3
      <3>4. QED BY <3>2, <3>3
    <2>6. CASE CanSendFlowControl(s)
      <3>1. /\ sentMaxStream' = [sentMaxStream EXCEPT ![s] = Greater(sentMaxStream[s], max)]
            /\ flightStream' = flightStream \cup {<<s, max>>}
        BY <1>9, <2>1, <2>6 DEF SendMaxStream, RecordMaxStream
      <3>2. CASE t = s
        <4>1. max \in Nat /\ sentMaxStream[t] <= max
          BY <1>1, <1>2, <1>3, <2>1, <3>2 DEF StreamLimitOf
        <4>2. sentMaxStream'[t] = max
          BY <1>1, <3>1, <3>2, <4>1 DEF Greater
        <4>3. \A v \in Nat : <<t, v>> \in flightStream' => v <= sentMaxStream'[t]
          BY <1>1, <1>2, <3>1, <3>2, <4>1, <4>2 DEF StreamLimitOf
        <4>4. peerMaxStream'[t] <= sentMaxStream'[t]
          BY <1>1, <1>2, <2>2, <4>1, <4>2 DEF StreamLimitOf
        <4>5. <<t, sentMaxStream'[t]>> \in flightStream'
          BY <3>1, <3>2, <4>2
        <4>6. sentMaxStream'[t] <= BytesRead(t)' + StreamWindow
          BY <2>1, <2>4, <3>2, <4>1, <4>2
        <4>7. QED BY <4>3, <4>4, <4>5, <4>6 DEF StreamLimitOf
      <3>3. CASE t # s
        <4>1. sentMaxStream'[t] = sentMaxStream[t] /\ peerMaxStream'[t] = peerMaxStream[t]
          BY <1>1, <2>2, <3>1, <3>3
        <4>2. \A v : <<t, v>> \in flightStream' <=> <<t, v>> \in flightStream
          BY <3>1, <3>3
        <4>3. t \in pendMaxStream => t \in pendMaxStream'
          BY <2>2, <3>3
        <4>4. QED BY <1>2, <2>3, <2>4, <4>1, <4>2, <4>3 DEF StreamLimitOf
      <3>4. QED BY <3>2, <3>3
    <2>7. QED BY <2>5, <2>6
  <1>10. ASSUME NEW f \in flightStream, NEW arrived \in BOOLEAN,
                MaxStreamAcked(f[1], f[2]) \/ LoseMaxStream(f[1], f[2], arrived)
         PROVE  StreamLimitOf(t)'
    <2>1. PICK s \in Streams, v \in Nat : f = <<s, v>>
      BY <1>1
    <2>2. /\ UNCHANGED <<rstate, size, stopped, got, sentMaxStream>>
          /\ flightStream' = flightStream \ {<<s, v>>}
          /\ \/ /\ peerMaxStream' = [peerMaxStream EXCEPT ![s] = Greater(peerMaxStream[s], v)]
                /\ pendMaxStream' = pendMaxStream \/ pendMaxStream' = pendMaxStream \cup {s}
             \/ peerMaxStream' = peerMaxStream /\ pendMaxStream' = pendMaxStream \cup {s}
      BY <1>10, <2>1 DEF MaxStreamAcked, LoseMaxStream
    <2>3. CanSendFlowControl(t)' <=> CanSendFlowControl(t)
      BY <2>2 DEF CanSendFlowControl, FinalOffsetUnknown
    <2>4. BytesRead(t)' = BytesRead(t)
      BY <2>2 DEF BytesRead
    <2>5. /\ peerMaxStream[t] \in Nat /\ peerMaxStream'[t] \in Nat /\ sentMaxStream[t] \in Nat
          /\ peerMaxStream[t] <= peerMaxStream'[t] /\ peerMaxStream'[t] <= sentMaxStream[t]
          /\ (t = s /\ v = sentMaxStream[t] =>
                peerMaxStream'[t] = sentMaxStream[t] \/ t \in pendMaxStream')
      BY <1>1, <1>2, <2>1, <2>2 DEF Greater, StreamLimitOf
    <2>6. t \in pendMaxStream => t \in pendMaxStream'
      BY <2>2
    <2>7. \A w : <<t, w>> \in flightStream' => <<t, w>> \in flightStream
      BY <2>2
    <2>8. <<t, sentMaxStream[t]>> \in flightStream =>
            <<t, sentMaxStream[t]>> \in flightStream' \/ (t = s /\ v = sentMaxStream[t])
      BY <2>2
    <2>9. peerMaxStream[t] = sentMaxStream[t] => peerMaxStream'[t] = sentMaxStream[t]
      BY <1>2, <2>5 DEF StreamLimitOf
    <2>10. CanSendFlowControl(t)' =>
             \/ peerMaxStream'[t] = sentMaxStream'[t]
             \/ t \in pendMaxStream'
             \/ <<t, sentMaxStream'[t]>> \in flightStream'
      BY <1>2, <2>2, <2>3, <2>5, <2>6, <2>8, <2>9 DEF StreamLimitOf
    <2>11. QED BY <1>2, <2>2, <2>4, <2>5, <2>7, <2>10 DEF StreamLimitOf
  <1>11. CASE UNCHANGED vars
    BY <1>4, <1>11 DEF vars
  <1>12. QED BY <1>5, <1>6, <1>7, <1>8, <1>9, <1>10, <1>11 DEF Next

\* The values recorded as sent are what the peer knows at first.
LEMMA InitLimits == Init => ConnLimits /\ AllStreamLimits
  <1> SUFFICES ASSUME Init PROVE ConnLimits /\ AllStreamLimits
    OBVIOUS
  <1>1. ConnLimits
    BY BoundsAssumption DEF Init, ConnLimits
  <1>2. ASSUME NEW s \in Streams
        PROVE  StreamLimitOf(s)
    <2>1. sentMaxStream[s] = StreamWindow /\ peerMaxStream[s] = StreamWindow /\ got[s] = {}
          /\ flightStream = {}
      BY DEF Init
    <2>2. BytesRead(s) = 0
      BY <2>1, FS_EmptySet DEF BytesRead
    <2>3. QED BY <2>1, <2>2, BoundsAssumption DEF StreamLimitOf
  <1>3. QED BY <1>1, <1>2 DEF AllStreamLimits

\* The limits are never exceeded by what is sent of them.
THEOREM LimitsInvariance == Spec => [](ConnLimits /\ AllStreamLimits)
  <1>1. Spec => []RInv
    BY RecvInvariance
  <1>2. QED BY <1>1, InitLimits, ConnLimitsStep, StreamLimitsStep, PTL DEF Spec

\* Until the peer knows the latest MAX_DATA and MAX_STREAM_DATA recorded as sent, a
\* frame is queued or in flight: no update is lost for good, however many packets are.
THEOREM LimitsReachPeer == Spec => []LimitsNotLost
  <1>1. ConnLimits /\ AllStreamLimits => LimitsNotLost
    BY DEF ConnLimits, AllStreamLimits, StreamLimitOf, LimitsNotLost
  <1>2. QED BY <1>1, LimitsInvariance, PTL

------------------------------------------------------------------------------
(* An honest peer is never accused *)

\* The peer keeps to the limits it knows, and does not write past its end.
HonestOn(s) ==
    /\ peerEnd[s] <= peerMaxStream[s]
    /\ size[s] # NoSize => size[s] = peerEnd[s] /\ s \in (peerFin \cup peerReset)

Honest ==
    /\ \A s \in Streams : HonestOn(s)
    /\ Cardinality(PeerSent) <= peerMaxData
    /\ HonestPeerAccepted

\* What is known of the streams, and all the peer sent on one of them, is no more
\* than all the peer sent.
LEMMA KnownWithinSent ==
    ASSUME RInv, NEW s \in Streams
    PROVE  /\ Cardinality(PeerSent) \in Nat /\ Cardinality(Consumed) \in Nat
           /\ Cardinality(Consumed) + (peerEnd[s] - KnownEnd(s)) <= Cardinality(PeerSent)
  <1> USE BoundsAssumption
  <1>1. PICK f : f = [t \in Streams |-> ConsumedOf(t)]
    OBVIOUS
  <1>2. PICK g : g = [t \in Streams |-> IF t = s THEN Bytes(0, peerEnd[t]) ELSE ConsumedOf(t)]
    OBVIOUS
  <1>3. PICK h : h = [t \in Streams |-> Bytes(0, peerEnd[t])]
    OBVIOUS
  <1>4. \A t \in Streams : /\ KnownEnd(t) \in Nat /\ KnownEnd(t) <= peerEnd[t]
                           /\ ConsumedOf(t) = Bytes(0, KnownEnd(t))
                           /\ ConsumedOf(t) \in SUBSET Bytes(0, MaxOffset)
    BY KnownEndType
  <1>5. \A t \in Streams : peerEnd[t] \in Nat /\ peerEnd[t] <= MaxOffset
    <2>1. peerEnd \in [Streams -> 0 .. MaxOffset]
      BY DEF RInv, TypeOK, Offsets
    <2>2. QED BY <2>1
  <1>6. \A t \in Streams : /\ Bytes(0, peerEnd[t]) \in SUBSET Bytes(0, MaxOffset)
                           /\ ConsumedOf(t) \subseteq Bytes(0, peerEnd[t])
    BY <1>4, <1>5 DEF Bytes
  <1>7. /\ f \in [Streams -> SUBSET Bytes(0, MaxOffset)]
        /\ g \in [Streams -> SUBSET Bytes(0, MaxOffset)]
        /\ h \in [Streams -> SUBSET Bytes(0, MaxOffset)]
    BY <1>1, <1>2, <1>3, <1>4, <1>6
  <1>8. /\ f[s] \subseteq g[s] /\ (\A t \in Streams : t # s => g[t] = f[t])
        /\ f[s] = Bytes(0, KnownEnd(s)) /\ g[s] = Bytes(0, peerEnd[s])
        /\ \A t \in Streams : g[t] \subseteq h[t]
    BY <1>1, <1>2, <1>3, <1>4, <1>6
  <1>9. /\ Cardinality(Slices(f)) \in Nat
        /\ Cardinality(Slices(g)) =
             Cardinality(Slices(f)) + (Cardinality(g[s]) - Cardinality(f[s]))
    BY <1>7, <1>8, SlicesGrow
  <1>10. Cardinality(f[s]) = KnownEnd(s) /\ Cardinality(g[s]) = peerEnd[s]
    BY <1>4, <1>5, <1>8, BytesCardinality
  <1>11. IsFiniteSet(Slices(h))
    <2>1. IsFiniteSet(Streams \X Bytes(0, MaxOffset))
      BY StreamsAssumption, BytesCardinality, FS_Product
    <2>2. Slices(h) \subseteq Streams \X Bytes(0, MaxOffset)
      BY <1>7 DEF Slices
    <2>3. QED BY <2>1, <2>2, FS_Subset
  <1>12. Slices(g) \subseteq Slices(h)
    BY <1>8 DEF Slices
  <1>13. /\ Cardinality(Slices(h)) \in Nat /\ Cardinality(Slices(g)) \in Nat
         /\ Cardinality(Slices(g)) <= Cardinality(Slices(h))
    BY <1>11, <1>12, FS_Subset, FS_CardinalityType
  <1>14. Consumed = Slices(f) /\ PeerSent = Slices(h)
    BY <1>1, <1>3 DEF Consumed, PeerSent, Slices
  <1>15. QED BY <1>4, <1>5, <1>9, <1>10, <1>13, <1>14

\* Writing a byte sends one more.
LEMMA WriteSendsOne ==
    ASSUME RInv, RInv', NEW s \in Streams, peerEnd' = [peerEnd EXCEPT ![s] = peerEnd[s] + 1]
    PROVE  Cardinality(PeerSent) \in Nat /\ Cardinality(PeerSent') = Cardinality(PeerSent) + 1
  <1> USE BoundsAssumption
  <1>1. PICK f : f = [t \in Streams |-> Bytes(0, peerEnd[t])]
    OBVIOUS
  <1>2. PICK g : g = [t \in Streams |-> Bytes(0, peerEnd'[t])]
    OBVIOUS
  <1>3. \A t \in Streams : /\ peerEnd[t] \in Nat /\ peerEnd[t] <= MaxOffset
                           /\ peerEnd'[t] \in Nat /\ peerEnd'[t] <= MaxOffset
                           /\ peerEnd'[t] = IF t = s THEN peerEnd[t] + 1 ELSE peerEnd[t]
    <2>1. peerEnd \in [Streams -> 0 .. MaxOffset] /\ peerEnd' \in [Streams -> 0 .. MaxOffset]
      BY DEF RInv, TypeOK, Offsets
    <2>2. QED BY <2>1
  <1>4. /\ f \in [Streams -> SUBSET Bytes(0, MaxOffset)]
        /\ g \in [Streams -> SUBSET Bytes(0, MaxOffset)]
    BY <1>1, <1>2, <1>3 DEF Bytes
  <1>5. f[s] \subseteq g[s] /\ \A t \in Streams : t # s => g[t] = f[t]
    BY <1>1, <1>2, <1>3 DEF Bytes
  <1>6. Cardinality(f[s]) = peerEnd[s] /\ Cardinality(g[s]) = peerEnd[s] + 1
    BY <1>1, <1>2, <1>3, BytesCardinality
  <1>7. /\ Cardinality(Slices(f)) \in Nat
        /\ Cardinality(Slices(g)) =
             Cardinality(Slices(f)) + (Cardinality(g[s]) - Cardinality(f[s]))
    BY <1>4, <1>5, SlicesGrow
  <1>8. PeerSent = Slices(f) /\ PeerSent' = Slices(g)
    BY <1>1, <1>2 DEF PeerSent, Slices
  <1>9. QED BY <1>3, <1>6, <1>7, <1>8

\* No frame of an honest peer exceeds a limit.
LEMMA HonestWithinCredit ==
    ASSUME RInv, CreditAccounted, ConnLimits, AllStreamLimits, Honest,
           NEW s \in Streams, rstate[s] = "Recv", NEW hi \in Nat, hi <= peerEnd[s]
    PROVE  ~CreditExceeded(s, hi)
  <1>1. /\ peerEnd[s] \in Nat /\ end[s] \in Nat /\ sentMaxStream[s] \in Nat
        /\ peerMaxStream[s] \in Nat /\ end[s] <= peerEnd[s]
        /\ dataRecvd \in Nat /\ localMaxData \in Nat /\ sentMaxData \in Nat /\ peerMaxData \in Nat
    BY ReadBounded DEF RInv, TypeOK
  <1>2. hi <= sentMaxStream[s]
    <2>1. peerEnd[s] <= peerMaxStream[s] /\ peerMaxStream[s] <= sentMaxStream[s]
      BY DEF Honest, HonestOn, AllStreamLimits, StreamLimitOf
    <2>2. QED BY <1>1, <2>1
  <1>3. KnownEnd(s) = end[s]
    BY DEF KnownEnd, WasReset
  <1>4. /\ Cardinality(PeerSent) \in Nat
        /\ dataRecvd + (peerEnd[s] - end[s]) <= Cardinality(PeerSent)
    BY <1>3, KnownWithinSent DEF CreditAccounted, DataRecvdExact
  <1>5. Cardinality(PeerSent) <= localMaxData
    <2>1. /\ Cardinality(PeerSent) <= peerMaxData /\ peerMaxData <= sentMaxData
          /\ sentMaxData <= localMaxData
      BY DEF Honest, ConnLimits
    <2>2. QED BY <1>1, <1>4, <2>1
  <1>6. Greater(0, hi - end[s]) <= peerEnd[s] - end[s] /\ Greater(0, hi - end[s]) \in Nat
    BY <1>1 DEF Greater
  <1>7. dataRecvd + Greater(0, hi - end[s]) <= localMaxData
    BY <1>1, <1>4, <1>5, <1>6
  <1>8. QED BY <1>1, <1>2, <1>6, <1>7 DEF CreditExceeded

\* A peer that does not cheat stays honest, and is not accused.
LEMMA HonestStep ==
    ASSUME "Cheat" \notin Ops, RInv, RInv', CreditAccounted, ConnLimits, AllStreamLimits,
           Honest, [Next]_vars
    PROVE  Honest'
  <1> USE BoundsAssumption
  <1>1. DataTypes /\ LimitTypes
    BY TypesSplit DEF RInv
  <1>2. \A s \in Streams : /\ peerEnd[s] \in 0 .. MaxOffset /\ peerMaxStream[s] \in Nat
                           /\ HonestOn(s) /\ end[s] <= peerEnd[s] /\ end[s] \in Nat
    BY <1>1, ReadBounded DEF DataTypes, LimitTypes, Offsets, Honest
  <1>3. ASSUME UNCHANGED <<peerEnd, size, error>>,
               peerFin \subseteq peerFin', peerReset \subseteq peerReset',
               peerMaxData' \in Nat, peerMaxData <= peerMaxData',
               \A s \in Streams : peerMaxStream'[s] \in Nat /\ peerMaxStream[s] <= peerMaxStream'[s]
        PROVE  Honest'
    <2>1. \A s \in Streams : HonestOn(s)'
      BY <1>2, <1>3 DEF HonestOn
    <2>2. PeerSent' = PeerSent
      BY <1>3 DEF PeerSent
    <2>3. Cardinality(PeerSent) <= peerMaxData'
      <3>1. CASE Streams = {}
        <4>1. PeerSent = {}
          BY <3>1 DEF PeerSent
        <4>2. QED BY <1>3, <4>1, FS_EmptySet
      <3>2. CASE Streams # {}
        <4>1. Cardinality(PeerSent) \in Nat
          BY <3>2, KnownWithinSent
        <4>2. QED BY <1>1, <1>3, <4>1 DEF Honest, LimitTypes
      <3>3. QED BY <3>1, <3>2
    <2>4. QED BY <1>3, <2>1, <2>2, <2>3 DEF Honest, HonestPeerAccepted
  <1>4. ASSUME UNCHANGED <<peerEnd, size, error, peerMaxData, peerMaxStream>>,
               peerFin \subseteq peerFin', peerReset \subseteq peerReset'
        PROVE  Honest'
    BY <1>1, <1>3, <1>4 DEF LimitTypes
  <1>5. ASSUME NEW s \in Streams, PeerWrite(s)
        PROVE  Honest'
    <2>1. /\ s \notin (peerFin \cup peerReset)
          /\ peerEnd[s] < peerMaxStream[s] /\ Cardinality(PeerSent) < peerMaxData
          /\ peerEnd' = [peerEnd EXCEPT ![s] = peerEnd[s] + 1]
          /\ UNCHANGED <<size, error, peerFin, peerReset, peerMaxData, peerMaxStream>>
      BY <1>5 DEF PeerWrite, PeerCanWrite
    <2>2. Cardinality(PeerSent) \in Nat /\ Cardinality(PeerSent') = Cardinality(PeerSent) + 1
      BY <2>1, WriteSendsOne
    <2>3. Cardinality(PeerSent') <= peerMaxData'
      BY <1>1, <2>1, <2>2 DEF LimitTypes
    <2>4. ASSUME NEW t \in Streams
          PROVE  HonestOn(t)'
      <3>1. peerEnd'[t] = IF t = s THEN peerEnd[t] + 1 ELSE peerEnd[t]
        BY <1>1, <2>1 DEF DataTypes
      <3>2. QED BY <1>2, <2>1, <3>1 DEF HonestOn
    <2>5. QED BY <2>1, <2>3, <2>4 DEF Honest, HonestPeerAccepted
  <1>6. ASSUME NEW s \in Streams,
               \/ PeerFinish(s) \/ PeerResets(s) \/ Stop(s)
               \/ IllegalOrderedRead(s) \/ ReceivedReset(s) \/ PollReadable(s)
               \/ SendMaxStream(s) \/ SendStop(s) \/ StopAcked(s)
               \/ \E arrived \in BOOLEAN : LoseStop(s, arrived)
        PROVE  Honest'
    BY <1>4, <1>6 DEF PeerFinish, PeerResets, IllegalOrderedRead, ReceivedReset,
       PollReadable, Stop, SendMaxStream, SendStop, StopAcked, LoseStop
  <1>7. ASSUME NEW s \in Streams, Reading(s)
        PROVE  Honest'
    <2>1. PICK T \in SUBSET buf[s] : Takes(s, T)
      BY <1>7, ReadEffect
    <2>2. QED BY <1>4, <2>1 DEF Takes
  <1>8. ASSUME NEW s \in Streams,
               size' = [size EXCEPT ![s] = peerEnd[s]] \/ size' = size,
               size' = size \/ s \in (peerFin \cup peerReset),
               UNCHANGED <<error, peerVars>>
        PROVE  Honest'
    <2>1. \A t \in Streams : HonestOn(t)'
      BY <1>1, <1>2, <1>8 DEF HonestOn, DataTypes
    <2>2. PeerSent' = PeerSent
      BY <1>8 DEF PeerSent
    <2>3. QED BY <1>8, <2>1, <2>2 DEF Honest, HonestPeerAccepted
  <1>9. ASSUME NEW s \in Streams, ReceiveReset(s)
        PROVE  Honest'
    BY <1>8, <1>9 DEF ReceiveReset
  <1>10. ASSUME NEW s \in Streams, ReceiveBadReset(s)
         PROVE  Honest'
    <2>1. rstate[s] # "Recv"
      <3> SUFFICES ASSUME rstate[s] = "Recv" PROVE FALSE
        OBVIOUS
      <3>1. ~CreditExceeded(s, peerEnd[s])
        BY <1>2, HonestWithinCredit
      <3>2. QED BY <1>2, <1>10, <3>1 DEF ReceiveBadReset, ResetFails, HonestOn
    <2>2. error' = "repeated reset" /\ UNCHANGED <<size, peerVars>>
      BY <1>10, <2>1 DEF ReceiveBadReset
    <2>3. \A t \in Streams : HonestOn(t)'
      BY <1>2, <2>2 DEF HonestOn
    <2>4. PeerSent' = PeerSent
      BY <2>2 DEF PeerSent
    <2>5. QED BY <2>2, <2>3, <2>4 DEF Honest, HonestPeerAccepted
  <1>11. ASSUME NEW s \in Streams, Receiving(s)
         PROVE  Honest'
    <2>1. PICK lo \in 0 .. MaxOffset, hi \in 0 .. MaxOffset, fin \in BOOLEAN :
            \/ ReceiveStream(s, lo, hi, fin)
            \/ ReceiveStopped(s, lo, hi, fin)
            \/ ReceiveBad(s, lo, hi, fin)
      BY <1>11 DEF Receiving
    <2>2. CASE ReceiveStream(s, lo, hi, fin)
      <3>1. CASE fin
        <4>1. /\ size' = [size EXCEPT ![s] = peerEnd[s]] /\ s \in peerFin
              /\ UNCHANGED <<error, peerVars>>
          BY <2>2, <3>1 DEF ReceiveStream, Arrivable
        <4>2. QED BY <1>8, <4>1
      <3>2. CASE ~fin
        <4>1. size' = size /\ UNCHANGED <<error, peerVars>>
          BY <1>1, <2>2, <3>2 DEF ReceiveStream, DataTypes
        <4>2. QED BY <1>8, <4>1
      <3>3. QED BY <3>1, <3>2
    <2>3. CASE ReceiveStopped(s, lo, hi, fin)
      BY <1>8, <2>3 DEF ReceiveStopped
    <2>4. CASE ReceiveBad(s, lo, hi, fin)
      <3>1. /\ rstate[s] = "Recv" /\ hi <= peerEnd[s] /\ (fin => hi = peerEnd[s])
            /\ IngestFails(s, hi, fin)
        BY <2>4 DEF ReceiveBad, Arrivable
      <3>2. ~CreditExceeded(s, hi)
        BY <3>1, HonestWithinCredit
      <3>3. size[s] # NoSize => hi <= size[s] /\ (fin => hi = size[s]) /\ size[s] \in Nat
        BY <1>2, <3>1 DEF HonestOn
      <3>4. FALSE
        BY <3>1, <3>2, <3>3 DEF IngestFails
      <3>5. QED BY <3>4
    <2>5. QED BY <2>1, <2>2, <2>3, <2>4
  <1>12. ASSUME \/ \E w \in Windows : SetReceiveWindow(w)
                \/ SendMaxData
         PROVE  Honest'
    BY <1>4, <1>12 DEF SetReceiveWindow, SendMaxData
  <1>13. ASSUME NEW v \in flightData, NEW arrived \in BOOLEAN,
                MaxDataAcked(v) \/ LoseMaxData(v, arrived)
         PROVE  Honest'
    <2>1. /\ UNCHANGED <<peerEnd, size, error, peerFin, peerReset, peerMaxStream>>
          /\ peerMaxData' = Greater(peerMaxData, v) \/ peerMaxData' = peerMaxData
      BY <1>13 DEF MaxDataAcked, LoseMaxData
    <2>2. peerMaxData' \in Nat /\ peerMaxData <= peerMaxData'
      BY <1>1, <2>1 DEF Greater, LimitTypes
    <2>3. QED BY <1>2, <1>3, <2>1, <2>2
  <1>14. ASSUME NEW f \in flightStream, NEW arrived \in BOOLEAN,
                MaxStreamAcked(f[1], f[2]) \/ LoseMaxStream(f[1], f[2], arrived)
         PROVE  Honest'
    <2>1. PICK s \in Streams, v \in Nat : f = <<s, v>>
      BY <1>1 DEF LimitTypes
    <2>2. /\ UNCHANGED <<peerEnd, size, error, peerFin, peerReset, peerMaxData>>
          /\ \/ peerMaxStream' = [peerMaxStream EXCEPT ![s] = Greater(peerMaxStream[s], v)]
             \/ peerMaxStream' = peerMaxStream
      BY <1>14, <2>1 DEF MaxStreamAcked, LoseMaxStream
    <2>3. \A t \in Streams : peerMaxStream'[t] \in Nat /\ peerMaxStream[t] <= peerMaxStream'[t]
      BY <1>1, <2>2 DEF Greater, LimitTypes
    <2>4. QED BY <1>1, <1>3, <2>2, <2>3 DEF LimitTypes
  <1>15. CASE UNCHANGED vars
    BY <1>4, <1>15 DEF vars
  <1>16. QED
    BY <1>5, <1>6, <1>7, <1>9, <1>10, <1>11, <1>12, <1>13, <1>14, <1>15 DEF Next

\* An honest peer has sent nothing at first.
LEMMA InitHonest == Init => Honest
  <1> SUFFICES ASSUME Init PROVE Honest
    OBVIOUS
  <1>1. \A s \in Streams : HonestOn(s)
    BY BoundsAssumption DEF Init, HonestOn
  <1>2. \A s \in Streams : Bytes(0, peerEnd[s]) = {}
    BY DEF Init, Bytes
  <1>3. PeerSent = {}
    BY <1>2 DEF PeerSent
  <1>4. Cardinality(PeerSent) = 0
    BY <1>3, FS_EmptySet
  <1>5. QED BY <1>1, <1>4, BoundsAssumption DEF Init, Honest, HonestPeerAccepted

\* A peer that keeps to the limits it was told of and to the ends it announced is
\* never accused of an error, for any streams and windows and in whatever order its
\* frames and ours arrive (the repeated reset of RepeatedResetIgnored excepted).
THEOREM HonestPeerTheorem ==
    ASSUME "Cheat" \notin Ops
    PROVE  Spec => []HonestPeerAccepted
  <1>1. RInv /\ RInv' /\ CreditAccounted /\ ConnLimits /\ AllStreamLimits /\ Honest /\ [Next]_vars
          => Honest'
    BY HonestStep
  <1>2. Honest => HonestPeerAccepted
    BY DEF Honest
  <1>3. QED
    BY <1>1, <1>2, InitHonest, RecvInvariance, CreditInvariance, LimitsInvariance, PTL DEF Spec

------------------------------------------------------------------------------
(* The reader of a stream is told *)

\* NoLostReader for one stream
ReaderOf(s) ==
    /\ idle[s] /\ rstate[s] \in InMap /\ ~stopped[s]
    /\ \/ Avail(s, ordered[s]) # {}
       \/ AtEnd(s, 0)
       \/ rstate[s] = "ResetRecvd"
    => s \in readable

\* A step leaves stream t and its reader alone.
Untouched(t) ==
    /\ rstate'[t] = rstate[t] /\ size'[t] = size[t] /\ end'[t] = end[t]
    /\ buf'[t] = buf[t] /\ got'[t] = got[t]
    /\ stopped'[t] = stopped[t] /\ ordered'[t] = ordered[t] /\ idle'[t] = idle[t]
    /\ t \in readable => t \in readable'

\* A stream that a step does not touch keeps its reader as it was.
LEMMA UntouchedReader ==
    ASSUME NEW t \in Streams, ReaderOf(t), Untouched(t)
    PROVE  ReaderOf(t)'
  <1>1. Avail(t, ordered[t])' = Avail(t, ordered[t])
    BY DEF Untouched, Avail
  <1>2. AtEnd(t, 0)' <=> AtEnd(t, 0)
    BY DEF Untouched, AtEnd, BytesRead
  <1>3. QED BY <1>1, <1>2 DEF Untouched, ReaderOf

\* A reader that took all there was has nothing to be told of.
LEMMA BlockedReader ==
    ASSUME RInv, NEW s \in Streams, NEW ord \in BOOLEAN, ReadBlocked(s, ord)
    PROVE  ReaderOf(s)'
  <1> USE BoundsAssumption
  <1>1. PICK T : T = Avail(s, ord)
    OBVIOUS
  <1>2. /\ rstate' = rstate /\ rstate[s] = "Recv" /\ size' = size /\ end' = end
        /\ got' = [got EXCEPT ![s] = got[s] \cup T] /\ buf' = [buf EXCEPT ![s] = buf[s] \ T]
        /\ ordered' = [ordered EXCEPT ![s] = ord]
        /\ ~AtEnd(s, Cardinality(T))
    BY <1>1 DEF ReadBlocked, TakeBytes
  <1>3. DataTypes /\ FlagTypes /\ LengthsOf(s)
    BY TypesSplit DEF RInv, Lengths
  <1>4. T \in SUBSET buf[s]
    BY <1>1 DEF Avail
  <1>5. got'[s] = got[s] \cup T /\ buf'[s] = buf[s] \ T
    BY <1>2, <1>3 DEF DataTypes
  <1>6. ordered'[s] = ord
    BY <1>2, <1>3, Zenon DEF FlagTypes
  <1>7. Avail(s, ordered[s])' = {}
    <2>1. Avail(s, ordered[s])' =
            IF ord THEN {o \in buf'[s] : Bytes(0, o) \subseteq (buf'[s] \cup got'[s])} ELSE buf'[s]
      BY <1>6 DEF Avail
    <2>2. buf'[s] \cup got'[s] = buf[s] \cup got[s]
      BY <1>4, <1>5
    <2>3. CASE ord
      <3>1. T = {o \in buf[s] : Bytes(0, o) \subseteq (buf[s] \cup got[s])}
        BY <1>1, <2>3 DEF Avail
      <3>2. \A o \in buf'[s] : ~(Bytes(0, o) \subseteq (buf'[s] \cup got'[s]))
        BY <1>5, <2>2, <3>1
      <3>3. QED BY <2>1, <2>3, <3>2
    <2>4. CASE ~ord
      <3>1. T = buf[s]
        BY <1>1, <2>4 DEF Avail
      <3>2. QED BY <1>5, <2>1, <2>4, <3>1
    <2>5. QED BY <2>3, <2>4
  <1>8. ~AtEnd(s, 0)'
    <2>1. end[s] \in Nat /\ got[s] \in SUBSET Bytes(0, end[s]) /\ buf[s] \in SUBSET Bytes(0, end[s])
      BY <1>3, ReadBounded DEF LengthsOf
    <2>2. /\ IsFiniteSet(got[s]) /\ IsFiniteSet(T)
          /\ Cardinality(got[s]) \in Nat /\ Cardinality(T) \in Nat
      BY <1>4, <2>1, BytesCardinality
    <2>3. got[s] \cap T = {}
      BY <1>3, <1>4 DEF LengthsOf
    <2>4. Cardinality(got[s] \cap T) = 0
      BY <2>3, FS_EmptySet
    <2>5. Cardinality(got[s] \cup T) = Cardinality(got[s]) + Cardinality(T) - Cardinality(got[s] \cap T)
      BY <2>2, FS_Union
    <2>6. Cardinality(got'[s]) = Cardinality(got[s]) + Cardinality(T)
      BY <1>5, <2>2, <2>4, <2>5
    <2>7. AtEnd(s, 0)' <=> size[s] = end[s] /\ Cardinality(got'[s]) + 0 = end[s]
      BY <1>2 DEF AtEnd, BytesRead
    <2>8. QED BY <1>2, <2>2, <2>6, <2>7 DEF AtEnd, BytesRead
  <1>9. rstate'[s] # "ResetRecvd"
    BY <1>2
  <1>10. QED BY <1>7, <1>8, <1>9 DEF ReaderOf

\* No Readable event is lost.
LEMMA ReaderStep == RInv /\ NoLostReader /\ [Next]_vars => NoLostReader'
  <1> SUFFICES ASSUME RInv, \A s \in Streams : ReaderOf(s), [Next]_vars, NEW t \in Streams
               PROVE  ReaderOf(t)'
    BY DEF NoLostReader, ReaderOf
  <1>1. DataTypes /\ FlagTypes
    BY TypesSplit DEF RInv
  <1>2. ASSUME UNCHANGED <<rstate, size, end, buf, got, stopped, ordered, idle>>,
               readable' = readable
        PROVE  ReaderOf(t)'
    BY <1>2, UntouchedReader DEF Untouched
  <1>3. ASSUME NEW s \in Streams,
               \/ PeerWrite(s) \/ PeerFinish(s) \/ PeerResets(s) \/ ReceiveBadReset(s)
               \/ SendMaxStream(s) \/ SendStop(s) \/ StopAcked(s)
               \/ \E arrived \in BOOLEAN : LoseStop(s, arrived)
        PROVE  ReaderOf(t)'
    BY <1>2, <1>3 DEF PeerWrite, PeerFinish, PeerResets, ReceiveBadReset, SendMaxStream,
       SendStop, StopAcked, LoseStop
  <1>4. ASSUME \/ \E w \in Windows : SetReceiveWindow(w)
               \/ SendMaxData
               \/ \E v \in flightData : MaxDataAcked(v)
               \/ \E v \in flightData, arrived \in BOOLEAN : LoseMaxData(v, arrived)
               \/ \E f \in flightStream : MaxStreamAcked(f[1], f[2])
               \/ \E f \in flightStream, arrived \in BOOLEAN :
                     LoseMaxStream(f[1], f[2], arrived)
        PROVE  ReaderOf(t)'
    BY <1>2, <1>4 DEF SetReceiveWindow, SendMaxData, MaxDataAcked, LoseMaxData,
       MaxStreamAcked, LoseMaxStream
  <1>5. ASSUME NEW s \in Streams, Receiving(s)
        PROVE  ReaderOf(t)'
    <2>1. PICK lo \in 0 .. MaxOffset, hi \in 0 .. MaxOffset, fin \in BOOLEAN :
            \/ ReceiveStream(s, lo, hi, fin)
            \/ ReceiveStopped(s, lo, hi, fin)
            \/ ReceiveBad(s, lo, hi, fin)
      BY <1>5 DEF Receiving
    <2>2. CASE ReceiveBad(s, lo, hi, fin)
      BY <1>2, <2>2 DEF ReceiveBad
    <2>3. CASE ReceiveStream(s, lo, hi, fin)
      <3>1. readable' = readable \cup {s} /\ UNCHANGED <<rstate, stopped, ordered, got, idle>>
        BY <2>3 DEF ReceiveStream, Notify
      <3>2. CASE t = s
        BY <3>1, <3>2 DEF ReaderOf
      <3>3. CASE t # s
        <4>1. size'[t] = size[t] /\ end'[t] = end[t] /\ buf'[t] = buf[t]
          BY <1>1, <2>3, <3>3 DEF ReceiveStream, DataTypes
        <4>2. QED BY <3>1, <4>1, UntouchedReader DEF Untouched
      <3>4. QED BY <3>2, <3>3
    <2>4. CASE ReceiveStopped(s, lo, hi, fin)
      <3>1. UNCHANGED <<size, stopped, ordered, buf, got, idle, readable>> /\ stopped[s]
        BY <2>4 DEF ReceiveStopped
      <3>2. CASE t = s
        BY <3>1, <3>2 DEF ReaderOf
      <3>3. CASE t # s
        <4>1. end'[t] = end[t] /\ rstate'[t] = rstate[t]
          BY <1>1, <2>4, <3>3 DEF ReceiveStopped, DataTypes
        <4>2. QED BY <3>1, <4>1, UntouchedReader DEF Untouched
      <3>4. QED BY <3>2, <3>3
    <2>5. QED BY <2>1, <2>2, <2>3, <2>4
  <1>6. ASSUME NEW s \in Streams, ReceiveReset(s)
        PROVE  ReaderOf(t)'
    <2>1. /\ UNCHANGED <<end, got, stopped, ordered, idle>>
          /\ readable' = IF stopped[s] THEN readable ELSE readable \cup {s}
      BY <1>6 DEF ReceiveReset, Notify
    <2>2. CASE t = s
      BY <2>1, <2>2 DEF ReaderOf
    <2>3. CASE t # s
      <3>1. rstate'[t] = rstate[t] /\ size'[t] = size[t] /\ buf'[t] = buf[t]
        BY <1>1, <1>6, <2>3 DEF ReceiveReset, DataTypes
      <3>2. QED BY <2>1, <3>1, UntouchedReader DEF Untouched
    <2>4. QED BY <2>2, <2>3
  <1>7. ASSUME NEW s \in Streams, Stop(s)
        PROVE  ReaderOf(t)'
    <2>1. UNCHANGED <<size, end, ordered, got, readable>>
      BY <1>7 DEF Stop
    <2>2. CASE t = s
      <3>1. stopped'[s] = TRUE
        BY <1>1, <1>7, Zenon DEF Stop, FlagTypes
      <3>2. QED BY <2>2, <3>1 DEF ReaderOf
    <2>3. CASE t # s
      <3>1. rstate'[t] = rstate[t] /\ buf'[t] = buf[t]
        BY <1>1, <1>7, <2>3 DEF Stop, DataTypes
      <3>2. stopped'[t] = stopped[t] /\ idle'[t] = idle[t]
        BY <1>1, <1>7, <2>3 DEF Stop, FlagTypes
      <3>3. QED BY <2>1, <3>1, <3>2, UntouchedReader DEF Untouched
    <2>4. QED BY <2>2, <2>3
  <1>8. ASSUME NEW s \in Streams, IllegalOrderedRead(s) \/ ReceivedReset(s)
        PROVE  ReaderOf(t)'
    <2>1. UNCHANGED <<size, end, stopped, ordered, got, idle, readable>>
      BY <1>8 DEF IllegalOrderedRead, ReceivedReset
    <2>2. /\ t = s => rstate'[t] \notin InMap
          /\ t # s => rstate'[t] = rstate[t] /\ buf'[t] = buf[t]
      BY <1>1, <1>8 DEF IllegalOrderedRead, ReceivedReset, DataTypes, InMap
    <2>3. CASE t = s
      BY <2>2, <2>3 DEF ReaderOf
    <2>4. CASE t # s
      BY <2>1, <2>2, <2>4, UntouchedReader DEF Untouched
    <2>5. QED BY <2>3, <2>4
  <1>9. ASSUME NEW s \in Streams, PollReadable(s)
        PROVE  ReaderOf(t)'
    <2>1. /\ UNCHANGED <<rstate, size, end, buf, got, stopped, ordered>>
          /\ readable' = readable \ {s} /\ idle' = [idle EXCEPT ![s] = FALSE]
      BY <1>9 DEF PollReadable
    <2>2. CASE t = s
      <3>1. idle'[s] = FALSE
        BY <1>1, <2>1, Zenon DEF FlagTypes
      <3>2. QED BY <2>2, <3>1 DEF ReaderOf
    <2>3. CASE t # s
      <3>1. idle'[t] = idle[t] /\ (t \in readable => t \in readable')
        BY <1>1, <2>1, <2>3 DEF FlagTypes
      <3>2. QED BY <2>1, <3>1, UntouchedReader DEF Untouched
    <2>4. QED BY <2>2, <2>3
  <1>10. ASSUME NEW s \in Streams, Reading(s)
         PROVE  ReaderOf(t)'
    <2>1. PICK ord \in BOOLEAN :
            \/ \E T \in SUBSET Avail(s, ord) : Read(s, ord, T)
            \/ ReadBlocked(s, ord)
            \/ ReadFinished(s, ord)
            \/ ReadReset(s, ord)
      BY <1>10 DEF Reading
    <2>2. CASE t = s
      <3>1. CASE ReadBlocked(s, ord)
        BY <2>2, <3>1, BlockedReader
      <3>2. CASE ~ReadBlocked(s, ord)
        <4>1. ~idle[s] /\ idle' = idle
          BY <2>1, <3>2, Zenon DEF Read, ReadFinished, ReadReset, MayRead
        <4>2. QED BY <2>2, <4>1 DEF ReaderOf
      <3>3. QED BY <3>1, <3>2
    <2>3. CASE t # s
      <3>1. PICK T \in SUBSET buf[s] : Takes(s, T)
        BY <1>10, ReadEffect
      <3>2. /\ UNCHANGED <<end, size, stopped, readable>>
            /\ got' = [got EXCEPT ![s] = got[s] \cup T] /\ buf' = [buf EXCEPT ![s] = buf[s] \ T]
            /\ \/ rstate' = rstate
               \/ rstate[s] = "Recv" /\ rstate' = [rstate EXCEPT ![s] = "Finished"]
               \/ rstate[s] = "ResetRecvd" /\ rstate' = [rstate EXCEPT ![s] = "ResetRead"]
        BY <3>1 DEF Takes
      <3>3. rstate'[t] = rstate[t] /\ got'[t] = got[t] /\ buf'[t] = buf[t]
        BY <1>1, <2>3, <3>2 DEF DataTypes
      <3>4. /\ ordered' = [ordered EXCEPT ![s] = ord]
            /\ idle' = idle \/ idle' = [idle EXCEPT ![s] = TRUE]
        BY <2>1 DEF Read, ReadBlocked, ReadFinished, ReadReset, TakeBytes
      <3>5. ordered'[t] = ordered[t] /\ idle'[t] = idle[t]
        BY <1>1, <2>3, <3>4 DEF FlagTypes
      <3>6. QED BY <3>2, <3>3, <3>5, UntouchedReader DEF Untouched
    <2>4. QED BY <2>2, <2>3
  <1>11. CASE UNCHANGED vars
    BY <1>2, <1>11 DEF vars
  <1>12. QED
    BY <1>3, <1>4, <1>5, <1>6, <1>7, <1>8, <1>9, <1>10, <1>11 DEF Next

\* A reader that was told Blocked and could go on has a Readable event coming.
THEOREM ReaderWoken == Spec => []NoLostReader
  <1>1. Init => NoLostReader
    <2> SUFFICES ASSUME Init, NEW s \in Streams PROVE ReaderOf(s)
      BY DEF NoLostReader, ReaderOf
    <2>1. buf[s] = {} /\ size[s] = -1 /\ end[s] = 0 /\ rstate[s] = "Recv"
      BY DEF Init, NoSize
    <2>2. Avail(s, ordered[s]) = {} /\ ~AtEnd(s, 0)
      BY <2>1 DEF Avail, AtEnd
    <2>3. QED BY <2>1, <2>2 DEF ReaderOf
  <1>2. QED BY <1>1, ReaderStep, RecvInvariance, PTL DEF Spec

\* How a stream that left the map ended
EndOf(s) ==
    /\ rstate[s] \notin {"Leaked", "LeakedReset"}
    /\ rstate[s] \in {"StopFin", "StopReset"} => stopped[s]
    /\ rstate[s] \in {"ResetRecvd", "ResetRead"} => s \in peerReset
    /\ rstate[s] = "Finished" => size[s] # NoSize /\ got[s] = Bytes(0, size[s])

Ends == \A s \in Streams : EndOf(s)

\* Chunks::next finds the end of a stream only when all of it was read.
LEMMA FinishedReader ==
    ASSUME RInv, NEW s \in Streams, NEW ord \in BOOLEAN, ReadFinished(s, ord)
    PROVE  size'[s] # NoSize /\ got'[s] = Bytes(0, size'[s])
  <1> USE BoundsAssumption
  <1>1. PICK T : T = Avail(s, ord)
    OBVIOUS
  <1>2. /\ size' = size /\ got' = [got EXCEPT ![s] = got[s] \cup T]
        /\ size[s] = end[s] /\ Cardinality(got[s]) + Cardinality(T) = end[s]
    BY <1>1 DEF ReadFinished, TakeBytes, AtEnd, BytesRead
  <1>3. DataTypes /\ LengthsOf(s)
    BY TypesSplit DEF RInv, Lengths
  <1>4. /\ end[s] \in Nat /\ got[s] \in SUBSET Bytes(0, end[s])
        /\ buf[s] \in SUBSET Bytes(0, end[s]) /\ T \in SUBSET buf[s]
    BY <1>1, <1>3, ReadBounded DEF LengthsOf, Avail
  <1>5. got'[s] = got[s] \cup T
    BY <1>2, <1>3 DEF DataTypes
  <1>6. /\ IsFiniteSet(got[s]) /\ IsFiniteSet(T)
        /\ Cardinality(got[s]) \in Nat /\ Cardinality(T) \in Nat
    BY <1>4, BytesCardinality
  <1>7. got[s] \cap T = {}
    BY <1>3, <1>4 DEF LengthsOf
  <1>8. Cardinality(got[s] \cap T) = 0
    BY <1>7, FS_EmptySet
  <1>9. Cardinality(got[s] \cup T) = Cardinality(got[s]) + Cardinality(T) - Cardinality(got[s] \cap T)
    BY <1>6, FS_Union
  <1>10. Cardinality(got'[s]) = end[s]
    <2>1. Cardinality(got[s] \cup T) = Cardinality(got[s]) + Cardinality(T)
      BY <1>6, <1>8, <1>9
    <2>2. QED BY <1>2, <1>5, <2>1
  <1>11. IsFiniteSet(Bytes(0, end[s])) /\ Cardinality(Bytes(0, end[s])) = end[s]
    BY <1>4, BytesCardinality
  <1>12. got'[s] \in SUBSET Bytes(0, end[s])
    BY <1>4, <1>5
  <1>13. got'[s] = Bytes(0, end[s])
    BY <1>10, <1>11, <1>12, FS_Subset
  <1>14. QED BY <1>2, <1>4, <1>13 DEF NoSize

\* A stream ends as it was told, unless reads are mixed in the forbidden order.
LEMMA EndsStep ==
    ASSUME "Ordered" \notin Ops, RInv, Ends, [Next]_vars
    PROVE  Ends'
  <1> SUFFICES ASSUME NEW t \in Streams PROVE EndOf(t)'
    BY DEF Ends
  <1>1. DataTypes /\ FlagTypes /\ EndOf(t)
    BY TypesSplit DEF RInv, Ends
  <1>2. ASSUME rstate'[t] = rstate[t], size'[t] = size[t], got'[t] = got[t],
               stopped'[t] = stopped[t], peerReset \subseteq peerReset'
        PROVE  EndOf(t)'
    BY <1>1, <1>2 DEF EndOf
  <1>3. ASSUME NEW s \in Streams,
               \/ PeerWrite(s) \/ PeerFinish(s) \/ PeerResets(s) \/ ReceiveBadReset(s)
               \/ PollReadable(s) \/ SendMaxStream(s) \/ SendStop(s) \/ StopAcked(s)
               \/ \E arrived \in BOOLEAN : LoseStop(s, arrived)
        PROVE  EndOf(t)'
    BY <1>2, <1>3 DEF PeerWrite, PeerFinish, PeerResets, ReceiveBadReset, PollReadable,
       SendMaxStream, SendStop, StopAcked, LoseStop
  <1>4. ASSUME \/ \E w \in Windows : SetReceiveWindow(w)
               \/ SendMaxData
               \/ \E v \in flightData : MaxDataAcked(v)
               \/ \E v \in flightData, arrived \in BOOLEAN : LoseMaxData(v, arrived)
               \/ \E f \in flightStream : MaxStreamAcked(f[1], f[2])
               \/ \E f \in flightStream, arrived \in BOOLEAN :
                     LoseMaxStream(f[1], f[2], arrived)
        PROVE  EndOf(t)'
    BY <1>2, <1>4 DEF SetReceiveWindow, SendMaxData, MaxDataAcked, LoseMaxData,
       MaxStreamAcked, LoseMaxStream
  <1>5. ASSUME NEW s \in Streams, NEW lo \in 0 .. MaxOffset, NEW hi \in 0 .. MaxOffset,
               NEW fin \in BOOLEAN, ReceiveStream(s, lo, hi, fin)
        PROVE  EndOf(t)'
    <2>1. /\ UNCHANGED <<rstate, stopped, got, peerReset>> /\ rstate[s] = "Recv"
          /\ size' = [size EXCEPT ![s] = IF fin THEN hi ELSE size[s]]
      BY <1>5 DEF ReceiveStream
    <2>2. CASE t = s
      BY <2>1, <2>2 DEF EndOf
    <2>3. CASE t # s
      BY <1>1, <1>2, <2>1, <2>3 DEF DataTypes
    <2>4. QED BY <2>2, <2>3
  <1>6. ASSUME NEW s \in Streams, NEW lo \in 0 .. MaxOffset, NEW hi \in 0 .. MaxOffset,
               NEW fin \in BOOLEAN, ReceiveStopped(s, lo, hi, fin)
        PROVE  EndOf(t)'
    <2>1. /\ UNCHANGED <<size, stopped, got, peerReset>> /\ rstate[s] = "Recv" /\ stopped[s]
          /\ rstate' = [rstate EXCEPT ![s] = IF fin THEN "StopFin" ELSE rstate[s]]
      BY <1>6 DEF ReceiveStopped
    <2>2. CASE t = s
      <3>1. rstate'[s] \in {"StopFin", "Recv"} /\ stopped'[s]
        BY <1>1, <2>1 DEF DataTypes
      <3>2. QED BY <2>2, <3>1 DEF EndOf
    <2>3. CASE t # s
      BY <1>1, <1>2, <2>1, <2>3 DEF DataTypes
    <2>4. QED BY <2>2, <2>3
  <1>7. ASSUME NEW s \in Streams, Receiving(s)
        PROVE  EndOf(t)'
    BY <1>2, <1>5, <1>6, <1>7 DEF Receiving, ReceiveBad
  <1>8. ASSUME NEW s \in Streams, ReceiveReset(s)
        PROVE  EndOf(t)'
    <2>1. /\ UNCHANGED <<stopped, got, peerReset>> /\ s \in peerReset
          /\ size' = [size EXCEPT ![s] = peerEnd[s]]
          /\ rstate' = [rstate EXCEPT ![s] = IF stopped[s] THEN "StopReset" ELSE "ResetRecvd"]
      BY <1>8 DEF ReceiveReset
    <2>2. CASE t = s
      <3>1. CASE stopped[s]
        <4>1. rstate'[s] = "StopReset" /\ stopped'[s]
          BY <1>1, <2>1, <3>1 DEF DataTypes
        <4>2. QED BY <2>2, <4>1 DEF EndOf
      <3>2. CASE ~stopped[s]
        <4>1. rstate'[s] = "ResetRecvd" /\ s \in peerReset'
          BY <1>1, <2>1, <3>2 DEF DataTypes
        <4>2. QED BY <2>2, <4>1 DEF EndOf
      <3>3. QED BY <3>1, <3>2
    <2>3. CASE t # s
      BY <1>1, <1>2, <2>1, <2>3 DEF DataTypes
    <2>4. QED BY <2>2, <2>3
  <1>9. ASSUME NEW s \in Streams, Stop(s)
        PROVE  EndOf(t)'
    <2>1. /\ UNCHANGED <<size, got, peerReset>> /\ stopped' = [stopped EXCEPT ![s] = TRUE]
          /\ rstate[s] \in InMap
          /\ rstate' = [rstate EXCEPT ![s] =
                          IF FinalOffsetUnknown(s) THEN rstate[s]
                          ELSE IF rstate[s] = "Recv" THEN "StopFin" ELSE "StopReset"]
      BY <1>9 DEF Stop
    <2>2. CASE t = s
      <3>1. stopped'[s] = TRUE
        BY <1>1, <2>1, Zenon DEF FlagTypes
      <3>2. rstate'[s] \in {"Recv", "StopFin", "StopReset"}
        BY <1>1, <2>1 DEF DataTypes, FinalOffsetUnknown, InMap
      <3>3. QED BY <2>2, <3>1, <3>2 DEF EndOf
    <2>3. CASE t # s
      <3>1. stopped'[t] = stopped[t]
        BY <1>1, <2>1, <2>3 DEF FlagTypes
      <3>2. rstate'[t] = rstate[t]
        BY <1>1, <2>1, <2>3 DEF DataTypes
      <3>3. QED BY <1>2, <2>1, <3>1, <3>2
    <2>4. QED BY <2>2, <2>3
  <1>10. ASSUME NEW s \in Streams, Reading(s)
         PROVE  EndOf(t)'
    <2>1. PICK T \in SUBSET buf[s] : Takes(s, T)
      BY <1>10, ReadEffect
    <2>2. /\ UNCHANGED <<size, stopped, peerReset>> /\ rstate[s] \in InMap
          /\ got' = [got EXCEPT ![s] = got[s] \cup T]
          /\ \/ rstate' = rstate
             \/ rstate[s] = "Recv" /\ rstate' = [rstate EXCEPT ![s] = "Finished"]
             \/ rstate[s] = "ResetRecvd" /\ rstate' = [rstate EXCEPT ![s] = "ResetRead"]
      BY <2>1 DEF Takes
    <2>3. PICK ord \in BOOLEAN :
            \/ \E U \in SUBSET Avail(s, ord) : Read(s, ord, U)
            \/ ReadBlocked(s, ord)
            \/ ReadFinished(s, ord)
            \/ ReadReset(s, ord)
      BY <1>10 DEF Reading
    <2>4. CASE t # s
      <3>1. rstate'[t] = rstate[t] /\ got'[t] = got[t]
        BY <1>1, <2>2, <2>4 DEF DataTypes
      <3>2. QED BY <1>2, <2>2, <3>1
    <2>5. CASE t = s
      <3>1. CASE ReadFinished(s, ord)
        <4>1. size'[s] # NoSize /\ got'[s] = Bytes(0, size'[s])
          BY <3>1, FinishedReader
        <4>2. rstate' = [rstate EXCEPT ![s] = "Finished"]
          BY <3>1 DEF ReadFinished
        <4>3. rstate'[s] = "Finished"
          BY <1>1, <4>2 DEF DataTypes
        <4>4. QED BY <2>5, <4>1, <4>3 DEF EndOf
      <3>2. CASE ~ReadFinished(s, ord)
        <4>1. rstate' = rstate \/ rstate' = [rstate EXCEPT ![s] = "ResetRead"]
          BY <2>3, <3>2, Zenon DEF Read, ReadBlocked, ReadReset
        <4>2. \/ rstate'[s] = "Recv"
              \/ rstate[s] = "ResetRecvd" /\ rstate'[s] \in {"ResetRecvd", "ResetRead"}
          BY <1>1, <2>2, <4>1 DEF DataTypes, InMap
        <4>3. CASE rstate'[s] = "Recv"
          BY <2>5, <4>3 DEF EndOf
        <4>4. CASE rstate[s] = "ResetRecvd" /\ rstate'[s] \in {"ResetRecvd", "ResetRead"}
          <5>1. s \in peerReset'
            BY <1>1, <2>2, <2>5, <4>4 DEF EndOf
          <5>2. QED BY <2>5, <4>4, <5>1 DEF EndOf
        <4>5. QED BY <4>2, <4>3, <4>4
      <3>3. QED BY <3>1, <3>2
    <2>6. QED BY <2>4, <2>5
  <1>11. ASSUME NEW s \in Streams, IllegalOrderedRead(s) \/ ReceivedReset(s)
         PROVE  EndOf(t)'
    <2>1. /\ UNCHANGED <<size, stopped, got, peerReset>> /\ rstate[s] = "ResetRecvd"
          /\ rstate' = [rstate EXCEPT ![s] = "ResetRead"]
      BY <1>11 DEF IllegalOrderedRead, ReceivedReset
    <2>2. CASE t = s
      <3>1. rstate'[s] = "ResetRead" /\ s \in peerReset'
        BY <1>1, <2>1, <2>2 DEF DataTypes, EndOf
      <3>2. QED BY <2>2, <3>1 DEF EndOf
    <2>3. CASE t # s
      BY <1>1, <1>2, <2>1, <2>3 DEF DataTypes
    <2>4. QED BY <2>2, <2>3
  <1>12. CASE UNCHANGED vars
    BY <1>2, <1>12 DEF vars
  <1>13. QED BY <1>3, <1>4, <1>7, <1>8, <1>9, <1>10, <1>11, <1>12 DEF Next

\* With a peer that does not change the ends it announced, a stream leaves the map
\* only when stopped, when reset, or when all the peer sent on it was read; and no
\* reader waits for something that has already arrived.
THEOREM ReaderToldTheorem ==
    ASSUME "Cheat" \notin Ops, "Ordered" \notin Ops
    PROVE  Spec => []ReaderTold
  <1>1. Init => Ends
    BY DEF Init, Ends, EndOf
  <1>2. RInv /\ Ends /\ [Next]_vars => Ends'
    BY EndsStep
  <1>3. RInv /\ RInv' /\ CreditAccounted /\ ConnLimits /\ AllStreamLimits /\ Honest /\ [Next]_vars
          => Honest'
    BY HonestStep
  <1>4. RInv /\ Ends /\ Honest => ClosedHasReason
    <2> SUFFICES ASSUME RInv, Ends, Honest, NEW s \in Streams,
                        rstate[s] \notin InMap, ~stopped[s], s \notin peerReset
                 PROVE  s \in peerFin /\ got[s] = Bytes(0, peerEnd[s])
      BY DEF ClosedHasReason
    <2>1. DataTypes /\ EndOf(s) /\ HonestOn(s)
      BY TypesSplit DEF RInv, Ends, Honest
    <2>2. rstate[s] = "Finished"
      BY <2>1 DEF DataTypes, EndOf, InMap
    <2>3. QED BY <2>1, <2>2 DEF EndOf, HonestOn
  <1>5. ClosedHasReason /\ NoLostReader => ReaderTold
    BY DEF ReaderTold
  <1>6. QED
    BY <1>1, <1>2, <1>3, <1>4, <1>5, InitHonest, RecvInvariance, CreditInvariance,
       LimitsInvariance, ReaderWoken, PTL DEF Spec

=============================================================================
