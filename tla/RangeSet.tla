------------------------------ MODULE RangeSet ------------------------------
(***************************************************************************)
(* ArrayRangeSet: a set of offsets kept as a sequence of ranges lo..hi-1.  *)
(* The loops of insert and remove are written by the indexes they stop at. *)
(***************************************************************************)
EXTENDS Integers, Sequences

Seqs == INSTANCE SequencesExt

CONSTANT MaxValue   \* bound on the end of a range

VARIABLES
    ranges,     \* the array: a sequence of <<start, end>>
    last        \* the last call, with its argument and its result

vars == <<ranges, last>>

None == <<>>
Ranges == {<<lo, hi>> : lo, hi \in 0..MaxValue}
IsEmpty(x) == x[2] <= x[1]
Elements(x) == x[1] .. (x[2] - 1)
Greater(a, b) == IF a <= b THEN b ELSE a
Lesser(a, b) == IF a <= b THEN a ELSE b

\* The offsets a sequence of ranges stands for
Union(r) == UNION {Elements(r[i]) : i \in DOMAIN r}

\* Where the loop of insert stops: the first range that does not end before x
FirstReached(r, x) ==
    CHOOSE i \in 1 .. (Len(r) + 1) :
        /\ i <= Len(r) => x[1] <= r[i][2]
        /\ \A j \in 1 .. (i - 1) : r[j][2] < x[1]

\* The inner loop, from range i extended to the end of x: the last range merged
LastMerged(r, i, x) ==
    CHOOSE j \in i .. Len(r) :
        /\ \A k \in (i + 1) .. j : r[k][1] <= Greater(x[2], r[k - 1][2])
        /\ j < Len(r) => r[j + 1][1] > Greater(x[2], r[j][2])

\* ArrayRangeSet::insert: the new array and the value returned
InsertResult(r, x) ==
    LET i == FirstReached(r, x)
        before == SubSeq(r, 1, i - 1)
    IN  IF IsEmpty(x) THEN <<r, FALSE>>
        ELSE IF i > Len(r) THEN <<Append(r, x), TRUE>>
        ELSE IF r[i][1] > x[2]
             THEN <<Seqs!InsertAt(r, i, x), TRUE>>
        ELSE LET start == Lesser(r[i][1], x[1]) IN
             IF x[2] <= r[i][2]
             THEN <<[r EXCEPT ![i][1] = start], x[1] < r[i][1]>>
             ELSE LET j == LastMerged(r, i, x) IN
                  <<Append(before, <<start, Greater(x[2], r[j][2])>>)
                        \o SubSeq(r, j + 1, Len(r)), TRUE>>

\* Mutant: the part of a range behind x is dropped.
PiecesLeft(y, x) ==
    IF Elements(x) \cap Elements(y) = {} THEN <<y>>
    ELSE IF y[1] < x[1] THEN << <<y[1], x[1]>> >> ELSE <<>>

\* What remove(x) leaves of the range y
Pieces(y, x) ==
    LET left == <<y[1], x[1]>>
        right == <<x[2], y[2]>>
    IN  IF x[2] <= y[1] \/ x[1] >= y[2] THEN <<y>>
        ELSE (IF IsEmpty(left) THEN <<>> ELSE <<left>>)
             \o (IF IsEmpty(right) THEN <<>> ELSE <<right>>)

\* ArrayRangeSet::remove, range by range: the new array and the value returned
RemoveResult(r, x) ==
    IF IsEmpty(x) THEN <<r, FALSE>>
    ELSE <<Seqs!FlattenSeq([i \in DOMAIN r |-> Pieces(r[i], x)]),
           \E i \in DOMAIN r : x[2] > r[i][1] /\ x[1] < r[i][2]>>

\* ArrayRangeSet::iter_range: the ranges that meet x, clipped to it
IterRange(r, x) ==
    LET meets(y) == y[2] > x[1] /\ y[1] < x[2]
        met == SelectSeq(r, meets)
    IN  [i \in DOMAIN met |-> <<Greater(met[i][1], x[1]), Lesser(met[i][2], x[2])>>]

-----------------------------------------------------------------------------

Init == ranges = <<>> /\ last = None

Insert(x) ==
    /\ ranges' = InsertResult(ranges, x)[1]
    /\ last' = <<"insert", x, InsertResult(ranges, x)[2]>>

Remove(x) ==
    /\ ranges' = RemoveResult(ranges, x)[1]
    /\ last' = <<"remove", x, RemoveResult(ranges, x)[2]>>

\* ArrayRangeSet::pop_min
PopMin ==
    \/ ranges = <<>> /\ last' = <<"pop_min", None>> /\ UNCHANGED ranges
    \/ ranges # <<>> /\ last' = <<"pop_min", Head(ranges)>> /\ ranges' = Tail(ranges)

Next ==
    \/ \E x \in Ranges : Insert(x) \/ Remove(x)
    \/ PopMin

Spec == Init /\ [][Next]_vars

-----------------------------------------------------------------------------

Abstract == INSTANCE OffsetSet WITH set <- Union(ranges)

\* An ArrayRangeSet is a set of offsets: insert and remove change exactly the
\* offsets they are given and tell whether any changed, and pop_min takes the
\* first maximal run.
ImplementsOffsetSet == Abstract!Spec

\* The array is canonical: non-empty ranges in order, with a gap between any
\* two.  The ranges of an ACK frame are encoded from it and depend on the gaps.
Canonical ==
    /\ \A i \in DOMAIN ranges : ranges[i] \in Ranges /\ ~IsEmpty(ranges[i])
    /\ \A i \in 1 .. (Len(ranges) - 1) : ranges[i][2] < ranges[i + 1][1]

\* iter_range lists exactly the members of the set within a range, in order and
\* without empty pieces: the Assembler takes what it omits for new data.
IterRangeExact ==
    \A x \in Ranges :
        LET it == IterRange(ranges, x) IN
        ~IsEmpty(x) =>
            /\ Union(it) = Union(ranges) \cap Elements(x)
            /\ \A i \in DOMAIN it : ~IsEmpty(it[i])
            /\ \A i \in 1 .. (Len(it) - 1) : it[i][2] < it[i + 1][1]
=============================================================================
