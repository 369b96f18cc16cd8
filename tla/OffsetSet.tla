----------------------------- MODULE OffsetSet -----------------------------
(***************************************************************************)
(* What an ArrayRangeSet promises: a set of offsets, of which the smallest *)
(* run can be taken.  Insert and remove report whether the set changed.    *)
(***************************************************************************)
EXTENDS Integers

CONSTANT MaxValue   \* bound on the end of a range

VARIABLES
    set,    \* the offsets in the set
    last    \* the last call, with its argument and its result

vars == <<set, last>>

None == <<>>
Ranges == {<<lo, hi>> : lo, hi \in 0..MaxValue}
Elements(x) == x[1] .. (x[2] - 1)

\* x is a maximal run of S
IsRun(S, x) ==
    /\ x[1] < x[2] /\ Elements(x) \subseteq S
    /\ x[1] - 1 \notin S /\ x[2] \notin S

Init == set = {} /\ last = None

Insert(x) ==
    /\ set' = set \cup Elements(x)
    /\ last' = <<"insert", x, ~(Elements(x) \subseteq set)>>

Remove(x) ==
    /\ set' = set \ Elements(x)
    /\ last' = <<"remove", x, Elements(x) \cap set # {}>>

\* The run with the smallest offsets, if there is one
PopMin ==
    \/ set = {} /\ last' = <<"pop_min", None>> /\ UNCHANGED set
    \/ \E x \in Ranges :
        /\ IsRun(set, x) /\ \A o \in set : x[1] <= o
        /\ set' = set \ Elements(x)
        /\ last' = <<"pop_min", x>>

Next ==
    \/ \E x \in Ranges : Insert(x) \/ Remove(x)
    \/ PopMin

Spec == Init /\ [][Next]_vars
=============================================================================
