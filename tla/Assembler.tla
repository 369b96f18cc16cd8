----------------------------- MODULE Assembler -----------------------------
(***************************************************************************)
(* Assembler: the chunks of one receive stream (and of CRYPTO data), read  *)
(* in order or, once a reader asks for it, out of order.  The BinaryHeap   *)
(* is the sequence of its buffers in the order it would pop them.  A       *)
(* buffer keeps the whole allocation of its packet alive; defragment       *)
(* copies buffers when too much is held that way.                          *)
(***************************************************************************)
EXTENDS Integers, Sequences, FiniteSets

LOCAL Seqs == INSTANCE SequencesExt
LOCAL Sets == INSTANCE FiniteSetsExt

CONSTANTS
    MaxOffset,      \* bound on the length of the stream
    MaxBuffers,     \* bound on the buffers held in ordered mode
    Slack,          \* allocation sizes exceed the data by one of these
    MinOverAlloc,   \* over-allocation that is always tolerated: 32768
    Ops             \* "Unordered": the reader may switch; "Clear"

BoundsAssumption ==
    /\ MaxOffset \in Nat /\ MaxBuffers \in Nat /\ MinOverAlloc \in Nat
    /\ Slack \subseteq Nat /\ Ops \subseteq {"Unordered", "Clear"}

VARIABLES
    ordered,    \* state is Ordered
    recvd,      \* Unordered { recvd }
    data,       \* the heap
    buffered, allocated, bytesRead, end,
    open,       \* the stream was neither stopped nor reset
    received,   \* all bytes ever inserted
    returned    \* all bytes ever read

vars == <<ordered, recvd, data, buffered, allocated, bytesRead, end, open,
          received, returned>>

Greater(a, b) == IF a <= b THEN b ELSE a
Lesser(a, b) == IF a <= b THEN a ELSE b
Bytes(lo, hi) == lo .. (hi - 1)

Buffer(lo, hi, alloc) ==
    [off |-> lo, len |-> hi - lo, alloc |-> alloc, defrag |-> FALSE]
Defragmented(lo, hi) ==
    [off |-> lo, len |-> hi - lo, alloc |-> hi - lo, defrag |-> TRUE]

EndOf(b) == b.off + b.len
BytesOf(b) == Bytes(b.off, EndOf(b))
Held(d) == UNION {BytesOf(d[i]) : i \in DOMAIN d}

\* Maximal runs of a set of offsets, as ranges
Runs(S) ==
    {r \in (0..MaxOffset) \X (0..MaxOffset) :
        /\ r[1] < r[2] /\ Bytes(r[1], r[2]) \subseteq S
        /\ r[1] - 1 \notin S /\ r[2] \notin S}

SumLen(d) == Seqs!FoldLeft(LAMBDA n, b : n + b.len, 0, d)
SumAlloc(d) == Seqs!FoldLeft(LAMBDA n, b : n + b.alloc, 0, d)

\* Buffer::cmp: lower offsets are popped first, and of these longer buffers
Before(a, b) == a.off < b.off \/ (a.off = b.off /\ a.len > b.len)

\* Pushing b onto the heap: equal buffers may be popped in any order
Pushes(d, b) ==
    {Seqs!InsertAt(d, i, b) :
        i \in {k \in 1 .. (Len(d) + 1) :
                  /\ \A j \in 1 .. (k - 1) : ~Before(b, d[j])
                  /\ \A j \in k .. Len(d) : ~Before(d[j], b)}}

Sorted(B) == Seqs!SetToSortSeq(B, Before)

-----------------------------------------------------------------------------
(* defragment                                                              *)

\* Where the running offset of the first loop is when it reaches buffer i
Covered(d, i) == Sets!Max({bytesRead} \cup {EndOf(d[j]) : j \in 1 .. (i - 1)})

\* Buffer::try_mark_defragment
Marked(d, i) ==
    LET lo == Greater(d[i].off, Covered(d, i))
        len == Greater(0, EndOf(d[i]) - lo)
        good == d[i].defrag \/ (len * 6) \div 5 >= d[i].alloc \/ len = 0
    IN  [off |-> lo, len |-> len, alloc |-> IF good THEN len ELSE d[i].alloc,
         defrag |-> good]

\* Buffers that defragment does not copy
Kept(b) == b.defrag /\ b.len > 0

\* The heap after Assembler::defragment: well-used buffers stay, the others are
\* copied into one buffer per contiguous run
Defragment(d) ==
    LET marked == {Marked(d, i) : i \in DOMAIN d}
        good == {b \in marked : Kept(b)}
        copied == UNION {BytesOf(b) : b \in {c \in marked : ~c.defrag}}
    IN  Sorted(good \cup {Defragmented(r[1], r[2]) : r \in Runs(copied)})

-----------------------------------------------------------------------------

Init ==
    /\ ordered = TRUE /\ recvd = {} /\ data = <<>>
    /\ buffered = 0 /\ allocated = 0 /\ bytesRead = 0 /\ end = 0
    /\ open = TRUE /\ received = {} /\ returned = {}

\* Bytes of the heap that can be unique when buf bytes are buffered up to e
Useful(buf, e) == Lesser(buf, e - bytesRead)
Threshold(useful) == Greater(MinOverAlloc, (useful * 3) \div 2)

\* The test at the end of Assembler::insert
MustDefragment(buf, alloc, e) ==
    alloc - Useful(buf, e) > Threshold(Useful(buf, e))

\* The end of Assembler::insert: d is the heap with the last buffer pushed
Settle(d, buf, alloc, e) ==
    IF MustDefragment(buf, alloc, e)
    THEN /\ data' = Defragment(d)
         /\ buffered' = SumLen(Defragment(d))
         /\ allocated' = SumLen(Defragment(d))
    ELSE data' = d /\ buffered' = buf /\ allocated' = alloc

\* Assembler::insert in ordered mode
InsertOrdered(lo, hi, alloc) ==
    /\ open /\ ordered /\ lo < hi
    /\ end' = Greater(end, hi)
    /\ received' = received \cup Bytes(lo, hi)
    /\ LET start == Greater(lo, bytesRead) IN
       IF hi <= bytesRead
       THEN UNCHANGED <<data, buffered, allocated>>
       ELSE /\ Len(data) < MaxBuffers
            /\ \E d \in Pushes(data, Buffer(start, hi, alloc)) :
                  Settle(d, buffered + (hi - start), allocated + alloc, end')
    /\ UNCHANGED <<ordered, recvd, bytesRead, open, returned>>

\* Assembler::insert in unordered mode: only what is new is pushed; when the
\* last bytes are duplicates it returns before the test
InsertUnordered(lo, hi, alloc) ==
    /\ open /\ ~ordered /\ lo < hi
    /\ end' = Greater(end, hi)
    /\ received' = received \cup Bytes(lo, hi)
    /\ recvd' = recvd \cup Bytes(lo, hi)
    /\ LET fresh == Runs(Bytes(lo, hi) \ recvd)
           pushed == {Buffer(r[1], r[2], alloc) : r \in fresh}
           d == Sorted(Seqs!ToSet(data) \cup pushed)
           buf == buffered + Cardinality(Bytes(lo, hi) \ recvd)
           all == allocated + alloc * Cardinality(fresh)
       IN  IF hi - 1 \in recvd
           THEN data' = d /\ buffered' = buf /\ allocated' = all
           ELSE Settle(d, buf, all, end')
    /\ UNCHANGED <<ordered, bytesRead, open, returned>>

-----------------------------------------------------------------------------
(* read                                                                    *)

\* Number of buffers at the head whose bytes were all read
Useless(d) ==
    CHOOSE k \in 0 .. Len(d) :
        /\ \A i \in 1 .. k : EndOf(d[i]) <= bytesRead
        /\ k < Len(d) => EndOf(d[k + 1]) > bytesRead

\* Mutants: holes are ignored; trimmed bytes stay counted.
NoGap(d) == d = <<>>
SkipNothing(b) == 0

\* The next byte in order is not there
Gap(d) == d = <<>> \/ Head(d).off > bytesRead

\* Bytes trimmed from the start of a buffer that was partly read
Skip(b) == bytesRead - b.off

\* Returns up to max bytes of b, popped from the heap, leaving d; buf and alloc
\* are the counters while b is still in the heap
Return(b, d, buf, alloc, max) ==
    LET n == Lesser(max, b.len) IN
    /\ bytesRead' = bytesRead + n
    /\ returned' = returned \cup Bytes(b.off, b.off + n)
    /\ buffered' = buf - n
    /\ IF n < b.len
       THEN /\ data' \in Pushes(d, [b EXCEPT !.off = @ + n, !.len = @ - n])
            /\ allocated' = alloc
       ELSE data' = d /\ allocated' = alloc - b.alloc

\* Assembler::read in ordered mode
ReadOrdered(max) ==
    LET k == Useless(data)
        dropped == SubSeq(data, 1, k)
        d == SubSeq(data, k + 1, Len(data))
        buf == buffered - SumLen(dropped)
        alloc == allocated - SumAlloc(dropped)
    IN  /\ ordered
        /\ IF Gap(d)
           THEN /\ data' = d /\ buffered' = buf /\ allocated' = alloc
                /\ UNCHANGED <<bytesRead, returned>>
           ELSE LET b == Head(d)
                    start == Greater(b.off, bytesRead)
                IN  Return([b EXCEPT !.off = start, !.len = EndOf(b) - start],
                           Tail(d), buf - Skip(b), alloc, max)
        /\ UNCHANGED <<ordered, recvd, end, open, received>>

\* Assembler::read in unordered mode
ReadUnordered(max) ==
    /\ ~ordered /\ data # <<>>
    /\ Return(Head(data), Tail(data), buffered, allocated, max)
    /\ UNCHANGED <<ordered, recvd, end, open, received>>

\* What has been received when unordered mode begins
Seen(d) == Bytes(0, bytesRead) \cup Held(d)

\* Assembler::ensure_ordering(false) in ordered mode; the other cases change
\* nothing
EnterUnordered ==
    /\ "Unordered" \in Ops /\ ordered
    /\ ordered' = FALSE
    /\ data' = Defragment(data)
    /\ buffered' = IF data = <<>> THEN buffered ELSE SumLen(data')
    /\ allocated' = IF data = <<>> THEN allocated ELSE SumLen(data')
    /\ recvd' = Seen(data')
    /\ UNCHANGED <<bytesRead, end, open, received, returned>>

\* Assembler::clear, when the stream is stopped or reset; its owner inserts
\* nothing afterwards
Clear ==
    /\ "Clear" \in Ops /\ open
    /\ open' = FALSE
    /\ data' = <<>> /\ buffered' = 0 /\ allocated' = 0
    /\ UNCHANGED <<ordered, recvd, bytesRead, end, received, returned>>

Next ==
    \/ \E lo, hi \in 0..MaxOffset, s \in Slack :
        \/ InsertOrdered(lo, hi, (hi - lo) + s)
        \/ InsertUnordered(lo, hi, (hi - lo) + s)
    \/ \E max \in 1..MaxOffset : ReadOrdered(max) \/ ReadUnordered(max)
    \/ EnterUnordered
    \/ Clear

Spec == Init /\ [][Next]_vars

-----------------------------------------------------------------------------
(* Properties                                                              *)

\* No byte is returned twice: bytes_read, from which credit and the end of the
\* stream are computed, is the number of different bytes read.
ReturnedOnce == bytesRead = Cardinality(returned)

\* As long as only ordered reads are made, bytes are returned in order and
\* without holes.
ReturnedInOrder == ordered => returned = Bytes(0, bytesRead)

\* A received byte that was not returned is still there to be read, however
\* duplicates were trimmed, dropped and defragmented.
NothingLost == open => received \ returned \subseteq Held(data)

\* The same for the bytes from offset bytes_read on: all of them while only
\* ordered reads are made.  Below, defragment discards what it finds.
NothingAheadLost ==
    open => {b \in received \ returned : b >= bytesRead} \subseteq Held(data)

\* The counters agree with the heap, and the allocation is never less than what
\* is buffered: insert subtracts one from the other without a check.
CountersExact ==
    /\ buffered = SumLen(data) /\ allocated = SumAlloc(data)
    /\ allocated >= buffered

\* The allocation that the data keeps alive is in proportion to the data.
AllocInProportion ==
    LET unread == Lesser(buffered, end - bytesRead) IN
    allocated - unread <= Greater(MinOverAlloc, (unread * 3) \div 2)

\* That is so whenever new data is accepted in ordered mode.
OverAllocLimited ==
    [][ordered /\ received' # received /\ Len(data') # 0 => AllocInProportion']_vars
=============================================================================
