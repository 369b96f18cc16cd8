---------------------------- MODULE Tokens_proofs ----------------------------
(***************************************************************************)
(* Machine-checked proofs about Tokens, for any numbers of tokens, names   *)
(* and addresses, any lifetimes and limits.                                *)
(***************************************************************************)
EXTENDS Tokens, Integers, SequenceTheorems, WellFoundedInduction, TLAPS

TokenType ==
    [kind : {"retry"}, ip : Ips, port : Ports, issued : Nat, at : Nat]
        \cup [kind : {"validation"}, ip : Ips, issued : Nat, at : Nat]
ListType == [name : Names, tokens : Seq(Nat)]
LogType == [start : Nat, filter1 : SUBSET Nat, filter2 : SUBSET Nat]

\* Tokens carry the time of their issue in whole seconds; Initial packets carry
\* tokens that exist.
Issues ==
    /\ now \in Nat /\ log \in LogType /\ refused = FALSE
    /\ issued \in Seq(TokenType) /\ Len(issued) <= MaxTokens
    /\ \A n \in 1..Len(issued) : issued[n].issued = Secs(issued[n].at)
    /\ wire \subseteq [nonce : 1..Len(issued), ip : Ips, port : Ports]

\* What does not exist was neither taken nor used, and nothing is taken twice.
Counts ==
    /\ taken \in [1..MaxTokens -> Nat] /\ used \in [1..MaxTokens -> Nat]
    /\ \A n \in 1..MaxTokens : n > Len(issued) => taken[n] = 0 /\ used[n] = 0
    /\ \A n \in 1..MaxTokens : taken[n] <= 1

\* Token n is in the list tokens.
Holds(tokens, n) == \E j \in 1..Len(tokens) : tokens[j] = n
OnceEach(tokens) == \A i, j \in 1..Len(tokens) : tokens[i] = tokens[j] => i = j
\* The list has tokens, none twice, and none that was taken.
ListGood(tokens, N, T) ==
    /\ tokens # <<>>
    /\ \A n \in Nat : Holds(tokens, n) => n \in 1..N /\ T[n] = 0
    /\ OnceEach(tokens)
\* No two lists of the cache share a token.
CacheGood(c, N, T) ==
    /\ c \in Seq(ListType)
    /\ \A i \in 1..Len(c) : ListGood(c[i].tokens, N, T)
    /\ \A i, k \in 1..Len(c) : \A n \in Nat :
           Holds(c[i].tokens, n) /\ Holds(c[k].tokens, n) => i = k

\* The log turns away token n that expires then: its period is over, or the filter
\* of its period has it.
Known(g, n, expires) ==
    \/ expires < g.start
    \/ expires < g.start + Lifetime /\ n \in g.filter1
    \/ g.start + Lifetime <= expires /\ expires < g.start + Lifetime + Lifetime
       /\ n \in g.filter2

\* A token that validated an address did so once, and the log knows it.
Remembered ==
    \A n \in 1..Len(issued) :
        issued[n].kind = "validation" /\ used[n] > 0 =>
            used[n] = 1 /\ Known(log, n, issued[n].issued + Lifetime)

TokensInv ==
    Issues /\ Counts /\ Remembered /\ CacheGood(cache, Len(issued), taken)

-----------------------------------------------------------------------------
(* Numbers and sequences                                                   *)

\* Whole seconds
LEMMA WholeSeconds ==
    ASSUME NEW t \in Nat
    PROVE  Secs(t) \in Nat /\ Secs(t) <= t /\ t <= Secs(t) + 1
  BY DEF Secs

\* Which of three periods d is in
LEMMA Periods ==
    ASSUME NEW L \in Nat, L # 0, NEW d \in Nat
    PROVE  /\ (d \div L = 0) <=> d < L
           /\ (d \div L <= 1) <=> d < L + L
           /\ (d \div L = 2) <=> (L + L <= d /\ d < L + L + L)
  <1>1. PICK q : q = d \div L
    OBVIOUS
  <1>2. q \in Nat /\ L * q <= d /\ d < L * q + L
    BY <1>1
  <1>3. q = 0 => L * q = 0
    BY <1>2
  <1>4. q = 1 => L * q = L
    BY <1>2
  <1>5. q = 2 => L * q = L + L
    BY <1>2
  <1>6. q > 2 => L * q >= L + L + L
    BY <1>2
  <1> QED
    BY <1>1, <1>2, <1>3, <1>4, <1>5, <1>6

\* A set of natural numbers has a least element, and Min picks it.
LEMMA LeastNumber ==
    ASSUME NEW S \in SUBSET Nat, S # {}
    PROVE  Min(S) \in S
  <1> DEFINE R == {p \in Nat \X Nat : p[1] < p[2]}
  <1>1. IsWellFoundedOn(R, Nat)
    BY NatLessThanWellFounded, Zenon DEF OpToRel
  <1>2. \A x, y \in Nat : y < x => <<y, x>> \in R
    OBVIOUS
  <1> HIDE DEF R
  <1>3. PICK x \in S : \A y \in S : ~ (<<y, x>> \in R)
    BY <1>1, WFMin, Zenon
  <1>4. x \in Nat /\ \A y \in S : y \in Nat /\ ~ (y < x)
    BY <1>2, <1>3, Zenon
  <1>5. \A y \in S : x <= y
    BY <1>4
  <1> QED
    BY <1>5 DEF Min

\* The place of a server name in the cache
LEMMA EntryInCache ==
    ASSUME cache \in Seq(ListType), NEW name, Entry(name) # 0
    PROVE  Entry(name) \in 1..Len(cache)
  <1> DEFINE S == {i \in 1..Len(cache) : cache[i].name = name}
  <1>1. Entry(name) = IF S # {} THEN Min(S) ELSE 0
    BY DEF Entry, SelectInSeq
  <1>2. S \in SUBSET Nat /\ S \subseteq 1..Len(cache)
    OBVIOUS
  <1> HIDE DEF S
  <1>3. S # {} /\ Entry(name) = Min(S)
    BY <1>1
  <1>4. Min(S) \in S
    BY <1>2, <1>3, LeastNumber
  <1> QED
    BY <1>2, <1>3, <1>4

\* A sequence without one of its elements
LEMMA RemoveAtElements ==
    ASSUME NEW S, NEW c \in Seq(S), NEW i \in 1..Len(c)
    PROVE  /\ RemoveAt(c, i) \in Seq(S) /\ Len(RemoveAt(c, i)) = Len(c) - 1
           /\ \A k \in 1..Len(c) - 1 : RemoveAt(c, i)[k] = c[IF k < i THEN k ELSE k + 1]
  <1> DEFINE a == SubSeq(c, 1, i - 1)
             b == SubSeq(c, i + 1, Len(c))
  <1>1. Len(c) \in Nat /\ \A k \in 1..Len(c) : c[k] \in S
    BY ElementOfSeq, LenProperties
  <1>2. /\ a \in Seq(S) /\ Len(a) = i - 1
        /\ \A k \in 1..i - 1 : a[k] = c[k]
    <2>1. i - 1 \in Int /\ 1 \in Int /\ \A k \in 1..i - 1 : c[k] \in S
      BY <1>1
    <2>2. /\ a \in Seq(S) /\ Len(a) = IF 1 <= i - 1 THEN (i - 1) - 1 + 1 ELSE 0
          /\ \A k \in 1..(i - 1) - 1 + 1 : a[k] = c[1 + k - 1]
      BY <2>1, SubSeqProperties
    <2> HIDE DEF a
    <2> QED
      BY <1>1, <2>2
  <1>3. /\ b \in Seq(S) /\ Len(b) = Len(c) - i
        /\ \A k \in 1..Len(c) - i : b[k] = c[k + i]
    <2>1. i + 1 \in Int /\ Len(c) \in Int /\ \A k \in i + 1..Len(c) : c[k] \in S
      BY <1>1
    <2>2. /\ b \in Seq(S) /\ Len(b) = IF i + 1 <= Len(c) THEN Len(c) - (i + 1) + 1 ELSE 0
          /\ \A k \in 1..Len(c) - (i + 1) + 1 : b[k] = c[i + 1 + k - 1]
      BY <2>1, SubSeqProperties
    <2> HIDE DEF b
    <2> QED
      BY <1>1, <2>2
  <1>4. RemoveAt(c, i) = a \o b
    BY Zenon DEF RemoveAt
  <1> HIDE DEF a, b
  <1>5. /\ a \o b \in Seq(S) /\ Len(a \o b) = Len(a) + Len(b)
        /\ \A k \in 1..Len(a) + Len(b) :
               (a \o b)[k] = IF k <= Len(a) THEN a[k] ELSE b[k - Len(a)]
    BY <1>2, <1>3, ConcatProperties
  <1>6. Len(a) + Len(b) = Len(c) - 1
    BY <1>1, <1>2, <1>3
  <1>7. ASSUME NEW k \in 1..Len(c) - 1
        PROVE  (a \o b)[k] = c[IF k < i THEN k ELSE k + 1]
    <2>1. CASE k < i
      BY <1>1, <1>2, <1>5, <1>6, <2>1
    <2>2. CASE ~(k < i)
      <3>1. k - Len(a) \in 1..Len(c) - i /\ ~(k <= Len(a)) /\ (k - Len(a)) + i = k + 1
        BY <1>1, <1>2, <2>2
      <3>2. (a \o b)[k] = b[k - Len(a)]
        BY <1>5, <1>6, <3>1
      <3>3. b[k - Len(a)] = c[k + 1]
        BY <1>3, <3>1
      <3> QED
        BY <2>2, <3>2, <3>3
    <2> QED
      BY <2>1, <2>2
  <1> QED
    BY <1>4, <1>5, <1>6, <1>7

-----------------------------------------------------------------------------
(* The lists of the cache                                                  *)

\* Without its first token a list has the others.
LEMMA TailHolds ==
    ASSUME NEW s \in Seq(Nat), s # <<>>, OnceEach(s)
    PROVE  /\ Tail(s) \in Seq(Nat) /\ OnceEach(Tail(s))
           /\ Head(s) \in Nat /\ Holds(s, Head(s))
           /\ \A n \in Nat : Holds(Tail(s), n) => Holds(s, n) /\ n # Head(s)
  <1>1. /\ Head(s) \in Nat /\ Tail(s) \in Seq(Nat) /\ Len(Tail(s)) = Len(s) - 1
        /\ \A i \in 1..Len(Tail(s)) : Tail(s)[i] = s[i + 1]
    BY HeadTailProperties
  <1>2. Len(s) \in Nat /\ Len(s) > 0 /\ Head(s) = s[1]
    BY LenProperties, EmptySeq
  <1>3. OnceEach(Tail(s))
    <2> SUFFICES ASSUME NEW i \in 1..Len(Tail(s)), NEW j \in 1..Len(Tail(s)),
                        Tail(s)[i] = Tail(s)[j]
                 PROVE  i = j
      BY DEF OnceEach
    <2>1. s[i + 1] = s[j + 1] /\ i + 1 \in 1..Len(s) /\ j + 1 \in 1..Len(s)
      BY <1>1, <1>2
    <2>2. i + 1 = j + 1
      BY <2>1 DEF OnceEach
    <2> QED
      BY <2>2
  <1>4. Holds(s, Head(s))
    BY <1>2 DEF Holds
  <1>5. ASSUME NEW n \in Nat, Holds(Tail(s), n)
        PROVE  Holds(s, n) /\ n # Head(s)
    <2>1. PICK j \in 1..Len(Tail(s)) : Tail(s)[j] = n
      BY <1>5 DEF Holds
    <2>2. s[j + 1] = n /\ j + 1 \in 1..Len(s) /\ j + 1 # 1 /\ 1 \in 1..Len(s)
      BY <1>1, <1>2, <2>1
    <2>3. Holds(s, n)
      BY <2>2 DEF Holds
    <2>4. n # Head(s)
      BY <1>2, <2>2 DEF OnceEach
    <2> QED
      BY <2>3, <2>4
  <1> QED
    BY <1>1, <1>3, <1>4, <1>5

\* A token is added to a list.
LEMMA AppendHolds ==
    ASSUME NEW s \in Seq(Nat), NEW x \in Nat, OnceEach(s), ~Holds(s, x)
    PROVE  /\ Append(s, x) \in Seq(Nat) /\ Append(s, x) # <<>> /\ OnceEach(Append(s, x))
           /\ \A n \in Nat : Holds(Append(s, x), n) => Holds(s, n) \/ n = x
  <1>1. /\ Append(s, x) \in Seq(Nat) /\ Append(s, x) # <<>>
        /\ Len(Append(s, x)) = Len(s) + 1 /\ Append(s, x)[Len(s) + 1] = x
        /\ \A i \in 1..Len(s) : Append(s, x)[i] = s[i]
    BY AppendProperties
  <1>2. Len(s) \in Nat
    BY LenProperties
  <1>3. \A i \in 1..Len(s) : s[i] # x
    BY DEF Holds
  <1>4. OnceEach(Append(s, x))
    <2> SUFFICES ASSUME NEW i \in 1..Len(s) + 1, NEW j \in 1..Len(s) + 1,
                        Append(s, x)[i] = Append(s, x)[j]
                 PROVE  i = j
      BY <1>1 DEF OnceEach
    <2>1. i \in 1..Len(s) \/ i = Len(s) + 1
      BY <1>2
    <2>2. j \in 1..Len(s) \/ j = Len(s) + 1
      BY <1>2
    <2> QED
      BY <1>1, <1>3, <2>1, <2>2 DEF OnceEach
  <1>5. ASSUME NEW n \in Nat, Holds(Append(s, x), n) PROVE Holds(s, n) \/ n = x
    <2>1. PICK j \in 1..Len(s) + 1 : Append(s, x)[j] = n
      BY <1>1, <1>5 DEF Holds
    <2>2. j \in 1..Len(s) \/ j = Len(s) + 1
      BY <1>2
    <2> QED
      BY <1>1, <2>1, <2>2 DEF Holds
  <1> QED
    BY <1>1, <1>4, <1>5

-----------------------------------------------------------------------------
(* The cache                                                               *)

\* More tokens may be issued, and tokens that the cache has not may be taken.
LEMMA GoodStays ==
    ASSUME NEW c, NEW N \in Nat, NEW T, CacheGood(c, N, T), NEW M \in Nat, N <= M, NEW U,
           \A i \in 1..Len(c) : \A n \in Nat : Holds(c[i].tokens, n) /\ T[n] = 0 => U[n] = 0
    PROVE  CacheGood(c, M, U)
  <1>1. ASSUME NEW i \in 1..Len(c), NEW n \in Nat, Holds(c[i].tokens, n)
        PROVE  n \in 1..M /\ U[n] = 0
    <2>1. n \in 1..N /\ T[n] = 0
      BY <1>1 DEF CacheGood, ListGood
    <2> QED
      BY <1>1, <2>1
  <1>2. \A i \in 1..Len(c) : c[i].tokens # <<>> /\ OnceEach(c[i].tokens)
    BY DEF CacheGood, ListGood
  <1>3. \A i \in 1..Len(c) : ListGood(c[i].tokens, M, U)
    BY <1>1, <1>2 DEF ListGood
  <1> QED
    BY <1>3 DEF CacheGood

\* A cache without one of its lists: no other list has a token of that one.
LEMMA GoodWithout ==
    ASSUME NEW c, NEW N, NEW T, CacheGood(c, N, T), NEW i \in 1..Len(c)
    PROVE  LET d == RemoveAt(c, i) IN
           /\ CacheGood(d, N, T)
           /\ \A k \in 1..Len(d) : \A n \in Nat :
                  Holds(d[k].tokens, n) => ~Holds(c[i].tokens, n)
  <1>1. c \in Seq(ListType)
    BY DEF CacheGood
  <1> DEFINE d == RemoveAt(c, i)
             at(k) == IF k < i THEN k ELSE k + 1
  <1>2. /\ d \in Seq(ListType) /\ Len(d) = Len(c) - 1
        /\ \A k \in 1..Len(c) - 1 : d[k] = c[at(k)]
    BY <1>1, RemoveAtElements
  <1>3. Len(c) \in Nat
    BY <1>1, LenProperties
  <1>4. \A k \in 1..Len(d) : at(k) \in 1..Len(c) /\ at(k) # i /\ d[k] = c[at(k)]
    BY <1>2, <1>3
  <1>5. \A k, l \in 1..Len(d) : at(k) = at(l) => k = l
    BY <1>2, <1>3
  <1> HIDE DEF d, at
  <1>6. \A k \in 1..Len(d) : ListGood(d[k].tokens, N, T)
    BY <1>4 DEF CacheGood
  <1>7. \A k, l \in 1..Len(d) : \A n \in Nat :
            Holds(d[k].tokens, n) /\ Holds(d[l].tokens, n) => k = l
    BY <1>4, <1>5, Zenon DEF CacheGood
  <1>8. \A k \in 1..Len(d) : \A n \in Nat :
            Holds(d[k].tokens, n) => ~Holds(c[i].tokens, n)
    BY <1>4, Zenon DEF CacheGood
  <1>9. CacheGood(d, N, T)
    BY <1>2, <1>6, <1>7 DEF CacheGood
  <1> QED
    BY <1>8, <1>9 DEF d

\* The list used longest ago gives way.
LEMMA GoodTail ==
    ASSUME NEW c, NEW N, NEW T, CacheGood(c, N, T), c # <<>>
    PROVE  CacheGood(Tail(c), N, T)
  <1>1. c \in Seq(ListType)
    BY DEF CacheGood
  <1>2. Len(c) \in Nat /\ Len(c) > 0
    BY <1>1, LenProperties, EmptySeq
  <1> DEFINE d == Tail(c)
  <1>3. /\ d \in Seq(ListType) /\ Len(d) = Len(c) - 1
        /\ \A k \in 1..Len(d) : d[k] = c[k + 1]
    BY <1>1, HeadTailProperties
  <1>4. \A k \in 1..Len(d) : k + 1 \in 1..Len(c) /\ d[k] = c[k + 1]
    BY <1>2, <1>3
  <1> HIDE DEF d
  <1>5. \A k \in 1..Len(d) : ListGood(d[k].tokens, N, T)
    BY <1>4 DEF CacheGood
  <1>6. ASSUME NEW k \in 1..Len(d), NEW l \in 1..Len(d), NEW n \in Nat,
               Holds(d[k].tokens, n), Holds(d[l].tokens, n)
        PROVE  k = l
    <2>1. k + 1 = l + 1
      BY <1>4, <1>6, Zenon DEF CacheGood
    <2> QED
      BY <2>1
  <1>7. CacheGood(d, N, T)
    BY <1>3, <1>5, <1>6, Zenon DEF CacheGood
  <1> QED
    BY <1>7 DEF d

\* A list with tokens of its own is added.
LEMMA GoodAppend ==
    ASSUME NEW c, NEW N, NEW T, CacheGood(c, N, T), NEW x \in ListType,
           ListGood(x.tokens, N, T),
           \A k \in 1..Len(c) : \A n \in Nat : Holds(c[k].tokens, n) => ~Holds(x.tokens, n)
    PROVE  CacheGood(Append(c, x), N, T)
  <1>1. c \in Seq(ListType)
    BY DEF CacheGood
  <1>2. Len(c) \in Nat
    BY <1>1, LenProperties
  <1> DEFINE d == Append(c, x)
  <1>3. /\ d \in Seq(ListType) /\ Len(d) = Len(c) + 1 /\ d[Len(c) + 1] = x
        /\ \A k \in 1..Len(c) : d[k] = c[k]
    BY <1>1, AppendProperties
  <1> HIDE DEF d
  <1>4. \A k \in 1..Len(d) : k \in 1..Len(c) \/ k = Len(c) + 1
    BY <1>2, <1>3
  <1>5. \A k \in 1..Len(d) : ListGood(d[k].tokens, N, T)
    BY <1>3, <1>4 DEF CacheGood
  <1>6. ASSUME NEW k \in 1..Len(d), NEW l \in 1..Len(d), NEW n \in Nat,
               Holds(d[k].tokens, n), Holds(d[l].tokens, n)
        PROVE  k = l
    <2>1. (k \in 1..Len(c) /\ d[k] = c[k]) \/ (k = Len(c) + 1 /\ d[k] = x)
      BY <1>3, <1>4
    <2>2. (l \in 1..Len(c) /\ d[l] = c[l]) \/ (l = Len(c) + 1 /\ d[l] = x)
      BY <1>3, <1>4
    <2> QED
      BY <1>6, <2>1, <2>2, Zenon DEF CacheGood
  <1>7. CacheGood(d, N, T)
    BY <1>3, <1>5, <1>6, Zenon DEF CacheGood
  <1> QED
    BY <1>7 DEF d

\* TokenMemoryCache::store: the list of the server gets a token that is new, and
\* tokens that do not fit go.
LEMMA StoreGood ==
    ASSUME TokensConstants, NEW N \in Nat, CacheGood(cache, N, taken),
           NEW name \in Names, taken[N + 1] = 0
    PROVE  CacheGood(Store(name, N + 1), N + 1, taken)
  <1> DEFINE e == Entry(name)
             x == N + 1
  <1>1. cache \in Seq(ListType) /\ CacheGood(cache, x, taken) /\ x \in Nat
    <2>1. N <= N + 1 /\ N + 1 \in Nat
      OBVIOUS
    <2> QED
      BY <2>1, GoodStays DEF CacheGood
  <1>2. \A k \in 1..Len(cache) : \A n \in Nat : Holds(cache[k].tokens, n) => n # x
    <2>1. \A k \in 1..Len(cache) : \A n \in Nat : Holds(cache[k].tokens, n) => n \in 1..N
      BY DEF CacheGood, ListGood
    <2> QED
      BY <2>1
  <1>3. taken[x] = 0 /\ x \in 1..x
    OBVIOUS
  <1> HIDE DEF x
  <1>4. CASE MaxServerNames = 0 \/ MaxTokensPerServer = 0
    BY <1>1, <1>4, Zenon DEF Store, x
  <1>5. CASE ~(MaxServerNames = 0 \/ MaxTokensPerServer = 0) /\ e # 0
    <2> DEFINE old == cache[e].tokens
               kept == IF Len(old) >= MaxTokensPerServer THEN Tail(old) ELSE old
               others == RemoveAt(cache, e)
               list == [name |-> name, tokens |-> Append(kept, x)]
    <2>1. Store(name, x) = Append(others, list)
      BY <1>5, Zenon DEF Store
    <2>2. e \in 1..Len(cache)
      BY <1>1, <1>5, EntryInCache
    <2> HIDE DEF e
    <2>3. old \in Seq(Nat) /\ ListGood(old, x, taken)
      <3>1. cache[e] \in ListType
        BY <1>1, <2>2, ElementOfSeq
      <3> QED
        BY <1>1, <2>2, <3>1 DEF ListType, CacheGood
    <2>4. /\ CacheGood(others, x, taken)
          /\ \A k \in 1..Len(others) : \A n \in Nat :
                 Holds(others[k].tokens, n) => ~Holds(old, n) /\ n # x
      <3>1. /\ CacheGood(others, N, taken)
            /\ \A k \in 1..Len(others) : \A n \in Nat :
                   Holds(others[k].tokens, n) => ~Holds(old, n)
        BY <2>2, GoodWithout
      <3>2. CacheGood(others, x, taken)
        BY <1>1, <2>2, GoodWithout
      <3> HIDE DEF others, old
      <3>3. \A k \in 1..Len(others) : \A n \in Nat :
                Holds(others[k].tokens, n) => n \in 1..N
        BY <3>1 DEF CacheGood, ListGood
      <3>4. \A n \in 1..N : n # x
        BY DEF x
      <3> QED
        BY <3>1, <3>2, <3>3, <3>4
    <2> HIDE DEF others
    <2>5. ~Holds(old, x)
      BY <1>1, <1>2, <2>2
    <2>6. /\ kept \in Seq(Nat) /\ OnceEach(kept)
          /\ \A n \in Nat : Holds(kept, n) => Holds(old, n)
      <3> HIDE DEF old
      <3>1. old # <<>> /\ OnceEach(old)
        BY <2>3 DEF ListGood
      <3> QED
        BY <2>3, <3>1, TailHolds
    <2> HIDE DEF kept, old
    <2>7. /\ Append(kept, x) \in Seq(Nat) /\ Append(kept, x) # <<>>
          /\ OnceEach(Append(kept, x))
          /\ \A n \in Nat : Holds(Append(kept, x), n) => Holds(kept, n) \/ n = x
      BY <1>1, <2>5, <2>6, AppendHolds
    <2>8. list \in ListType /\ list.tokens = Append(kept, x)
      BY <2>7 DEF ListType
    <2>9. ListGood(list.tokens, x, taken)
      BY <1>3, <2>3, <2>6, <2>7, <2>8 DEF ListGood
    <2>10. \A k \in 1..Len(others) : \A n \in Nat :
               Holds(others[k].tokens, n) => ~Holds(list.tokens, n)
      BY <2>4, <2>6, <2>7, <2>8
    <2> HIDE DEF list
    <2>11. CacheGood(Append(others, list), x, taken)
      BY <2>4, <2>8, <2>9, <2>10, GoodAppend
    <2> QED
      BY <2>1, <2>11, Zenon DEF x
  <1>6. CASE ~(MaxServerNames = 0 \/ MaxTokensPerServer = 0) /\ e = 0
    <2> DEFINE others == IF Len(cache) >= MaxServerNames THEN Tail(cache) ELSE cache
               list == [name |-> name, tokens |-> <<x>>]
    <2>1. Store(name, x) = Append(others, list)
      BY <1>6, Zenon DEF Store
    <2>2. others = cache \/ (cache # <<>> /\ others = Tail(cache))
      <3>1. Len(cache) >= MaxServerNames => cache # <<>>
        BY <1>1, <1>6, EmptySeq, LenProperties DEF TokensConstants
      <3> QED
        BY <3>1
    <2> HIDE DEF others
    <2>3. /\ CacheGood(others, x, taken)
          /\ \A k \in 1..Len(others) : \A n \in Nat : Holds(others[k].tokens, n) => n # x
      <3>1. CacheGood(others, N, taken) /\ CacheGood(others, x, taken)
        BY <1>1, <2>2, GoodTail
      <3>2. \A k \in 1..Len(others) : \A n \in Nat :
                Holds(others[k].tokens, n) => n \in 1..N
        BY <3>1 DEF CacheGood, ListGood
      <3>3. \A n \in 1..N : n # x
        BY DEF x
      <3> QED
        BY <3>1, <3>2, <3>3
    <2>4. list \in ListType /\ list.tokens = <<x>>
      BY <1>1 DEF ListType
    <2>5. \A n \in Nat : Holds(<<x>>, n) => n = x
      BY DEF Holds
    <2>6. ListGood(<<x>>, x, taken)
      <3>1. OnceEach(<<x>>) /\ <<x>> # <<>>
        BY DEF OnceEach
      <3> QED
        BY <1>3, <2>5, <3>1 DEF ListGood
    <2> HIDE DEF list
    <2>7. CacheGood(Append(others, list), x, taken)
      BY <2>3, <2>4, <2>5, <2>6, GoodAppend
    <2> QED
      BY <2>1, <2>7, Zenon DEF x
  <1> QED
    BY <1>4, <1>5, <1>6

\* TokenMemoryCache::take: a token that leaves the cache is in no list any more.
LEMMA TakeGood ==
    ASSUME NEW N \in Nat, CacheGood(cache, N, taken), NEW name \in Names, Entry(name) # 0,
           NEW nonce, nonce = Head(cache[Entry(name)].tokens), NEW U,
           \A n \in 1..N : n # nonce => U[n] = taken[n]
    PROVE  /\ nonce \in 1..N /\ taken[nonce] = 0
           /\ CacheGood(Take(name), N, U)
  <1> DEFINE e == Entry(name)
             old == cache[e].tokens
             rest == Tail(old)
             others == RemoveAt(cache, e)
             list == [name |-> name, tokens |-> rest]
  <1>1. cache \in Seq(ListType)
    BY DEF CacheGood
  <1>2. e \in 1..Len(cache)
    BY <1>1, EntryInCache
  <1>3. Take(name) = IF rest = <<>> THEN others ELSE Append(others, list)
    BY Zenon DEF Take
  <1>4. nonce = Head(old)
    OBVIOUS
  <1> HIDE DEF e
  <1>5. old \in Seq(Nat) /\ ListGood(old, N, taken)
    <2>1. cache[e] \in ListType
      BY <1>1, <1>2, ElementOfSeq
    <2> QED
      BY <1>2, <2>1 DEF ListType, CacheGood
  <1>6. /\ CacheGood(others, N, taken)
        /\ \A k \in 1..Len(others) : \A n \in Nat :
               Holds(others[k].tokens, n) => ~Holds(old, n)
    BY <1>2, GoodWithout
  <1> HIDE DEF old, others
  <1>7. /\ rest \in Seq(Nat) /\ OnceEach(rest) /\ nonce \in Nat /\ Holds(old, nonce)
        /\ \A n \in Nat : Holds(rest, n) => Holds(old, n) /\ n # nonce
    <2>1. old # <<>> /\ OnceEach(old)
      BY <1>5 DEF ListGood
    <2> QED
      BY <1>4, <1>5, <2>1, TailHolds
  <1>8. nonce \in 1..N /\ taken[nonce] = 0
    BY <1>5, <1>7 DEF ListGood
  <1> HIDE DEF rest
  <1>9. CacheGood(others, N, U)
    <2>0. \A k \in 1..Len(others) : \A n \in Nat :
              Holds(others[k].tokens, n) => n \in 1..N
      BY <1>6 DEF CacheGood, ListGood
    <2>1. \A k \in 1..Len(others) : \A n \in Nat :
              Holds(others[k].tokens, n) /\ taken[n] = 0 => U[n] = 0
      BY <1>6, <1>7, <2>0
    <2> QED
      BY <1>6, <2>1, GoodStays
  <1>10. CASE rest = <<>>
    BY <1>3, <1>8, <1>9, <1>10
  <1>11. CASE rest # <<>>
    <2>1. list \in ListType /\ list.tokens = rest
      BY <1>7 DEF ListType
    <2>2. ListGood(list.tokens, N, U)
      BY <1>5, <1>7, <1>11, <2>1 DEF ListGood
    <2>3. \A k \in 1..Len(others) : \A n \in Nat :
              Holds(others[k].tokens, n) => ~Holds(list.tokens, n)
      BY <1>6, <1>7, <2>1
    <2> HIDE DEF list
    <2>4. CacheGood(Append(others, list), N, U)
      BY <1>9, <2>1, <2>2, <2>3, GoodAppend
    <2> QED
      BY <1>3, <1>8, <1>11, <2>4
  <1> QED
    BY <1>10, <1>11

-----------------------------------------------------------------------------
(* BloomTokenLog                                                           *)

\* Once the filters were turned over for a token its period is one of the two, and
\* what was known still is.
LEMMA TurnedKnows ==
    ASSUME TokensConstants, log \in LogType, NEW expires \in Nat, ~(expires < log.start)
    PROVE  LET g == TurnedOver(expires) IN
           /\ g \in LogType /\ g.start <= expires
           /\ expires < g.start + Lifetime + Lifetime
           /\ \A n, x \in Nat : Known(log, n, x) => Known(g, n, x)
  <1> DEFINE d == expires - log.start
             forward == d \div Lifetime
             g == TurnedOver(expires)
  <1>1. /\ Lifetime \in Nat /\ Lifetime # 0 /\ log.start \in Nat
        /\ log.filter1 \in SUBSET Nat /\ log.filter2 \in SUBSET Nat
    BY DEF TokensConstants, LogType
  <1>2. d \in Nat
    BY <1>1
  <1>3. /\ (forward <= 1) <=> d < Lifetime + Lifetime
        /\ (forward = 2) <=> (Lifetime + Lifetime <= d /\ d < Lifetime + Lifetime + Lifetime)
    BY <1>1, <1>2, Periods
  <1>4. g = IF forward <= 1 THEN log
            ELSE IF forward = 2 THEN [start |-> log.start + Lifetime,
                                      filter1 |-> log.filter2, filter2 |-> {}]
            ELSE [start |-> expires, filter1 |-> {}, filter2 |-> {}]
    BY Zenon DEF TurnedOver
  <1> HIDE DEF g, forward
  <1>5. CASE forward <= 1
    <2>1. g = log
      BY <1>4, <1>5, Zenon
    <2>2. log.start <= expires /\ expires < log.start + Lifetime + Lifetime
      BY <1>1, <1>3, <1>5
    <2>3. /\ g \in LogType /\ g.start <= expires
          /\ expires < g.start + Lifetime + Lifetime
          /\ \A n, x \in Nat : Known(log, n, x) => Known(g, n, x)
      BY <2>1, <2>2
    <2> QED
      BY <2>3, Zenon DEF g
  <1>6. CASE ~(forward <= 1) /\ forward = 2
    <2>1. g = [start |-> log.start + Lifetime, filter1 |-> log.filter2, filter2 |-> {}]
      BY <1>4, <1>6, Zenon
    <2>2. /\ g \in LogType /\ g.start = log.start + Lifetime /\ g.filter1 = log.filter2
      BY <1>1, <2>1 DEF LogType
    <2>3. g.start <= expires /\ expires < g.start + Lifetime + Lifetime
      BY <1>1, <1>3, <1>6, <2>2
    <2>4. \A n, x \in Nat : Known(log, n, x) => Known(g, n, x)
      BY <1>1, <2>2 DEF Known
    <2> QED
      BY <2>2, <2>3, <2>4, Zenon DEF g
  <1>7. CASE ~(forward <= 1) /\ forward # 2
    <2>1. g = [start |-> expires, filter1 |-> {}, filter2 |-> {}]
      BY <1>4, <1>7, Zenon
    <2>2. g \in LogType /\ g.start = expires
      BY <2>1 DEF LogType
    <2>3. log.start + Lifetime + Lifetime <= expires
      BY <1>1, <1>2, <1>3, <1>7
    <2>4. g.start <= expires /\ expires < g.start + Lifetime + Lifetime
      BY <1>1, <2>2
    <2>5. \A n, x \in Nat : Known(log, n, x) => Known(g, n, x)
      BY <1>1, <2>2, <2>3 DEF Known
    <2> QED
      BY <2>2, <2>4, <2>5, Zenon DEF g
  <1> QED
    BY <1>5, <1>6, <1>7

\* A token is put into the filter of its period, the first one
LEMMA InsertFirst ==
    ASSUME TokensConstants, NEW g \in LogType, NEW nonce \in Nat, NEW expires \in Nat,
           g.start <= expires, expires < g.start + Lifetime + Lifetime,
           (expires - g.start) \div Lifetime = 0,
           NEW kept \in LogType, kept.start = g.start,
           kept.filter1 = g.filter1 \cup {nonce}, kept.filter2 = g.filter2
    PROVE  /\ \A n, x \in Nat : Known(g, n, x) => Known(kept, n, x)
           /\ Known(kept, nonce, expires)
           /\ Known(g, nonce, expires) => nonce \in g.filter1
  <1>1. Lifetime \in Nat /\ Lifetime # 0 /\ g.start \in Nat
    BY DEF TokensConstants, LogType
  <1>2. expires - g.start \in Nat
    BY <1>1
  <1>3. (expires - g.start) \div Lifetime = 0 <=> expires - g.start < Lifetime
    BY <1>1, <1>2, Periods
  <1>4. expires < g.start + Lifetime
    BY <1>1, <1>2, <1>3
  <1>5. \A n, x \in Nat : Known(g, n, x) => Known(kept, n, x)
    BY DEF Known
  <1>6. Known(kept, nonce, expires)
    BY <1>4 DEF Known
  <1>7. Known(g, nonce, expires) => nonce \in g.filter1
    BY <1>1, <1>4 DEF Known
  <1> QED
    BY <1>5, <1>6, <1>7

\* or the second.
LEMMA InsertSecond ==
    ASSUME TokensConstants, NEW g \in LogType, NEW nonce \in Nat, NEW expires \in Nat,
           g.start <= expires, expires < g.start + Lifetime + Lifetime,
           (expires - g.start) \div Lifetime # 0,
           NEW kept \in LogType, kept.start = g.start,
           kept.filter1 = g.filter1, kept.filter2 = g.filter2 \cup {nonce}
    PROVE  /\ \A n, x \in Nat : Known(g, n, x) => Known(kept, n, x)
           /\ Known(kept, nonce, expires)
           /\ Known(g, nonce, expires) => nonce \in g.filter2
  <1>1. Lifetime \in Nat /\ Lifetime # 0 /\ g.start \in Nat
    BY DEF TokensConstants, LogType
  <1>2. expires - g.start \in Nat
    BY <1>1
  <1>3. (expires - g.start) \div Lifetime = 0 <=> expires - g.start < Lifetime
    BY <1>1, <1>2, Periods
  <1>4. g.start + Lifetime <= expires
    BY <1>1, <1>2, <1>3
  <1>5. \A n, x \in Nat : Known(g, n, x) => Known(kept, n, x)
    BY DEF Known
  <1>6. Known(kept, nonce, expires)
    BY <1>4 DEF Known
  <1>7. Known(g, nonce, expires) => nonce \in g.filter2
    BY <1>1, <1>4 DEF Known
  <1> QED
    BY <1>5, <1>6, <1>7

\* check_and_insert: what was known still is; a token that passes was not known,
\* and is from now on.
LEMMA LogKnows ==
    ASSUME TokensConstants, log \in LogType, NEW nonce \in Nat, NEW expires \in Nat,
           NEW result \in CheckAndInsert(nonce, expires)
    PROVE  /\ result[2] \in LogType /\ result[1] \in BOOLEAN
           /\ \A n, x \in Nat : Known(log, n, x) => Known(result[2], n, x)
           /\ result[1] = TRUE =>
                  ~Known(log, nonce, expires) /\ Known(result[2], nonce, expires)
  <1>1. CASE expires < log.start
    <2>1. result \in {<<FALSE, log>>}
      BY <1>1, Zenon DEF CheckAndInsert
    <2>2. result = <<FALSE, log>>
      BY <2>1
    <2>3. result[1] = FALSE /\ result[2] = log
      BY <2>2
    <2> QED
      BY <2>3, Zenon
  <1>2. CASE ~(expires < log.start)
    <2> DEFINE g == TurnedOver(expires)
               first == (expires - g.start) \div Lifetime = 0
               filter == IF first THEN g.filter1 ELSE g.filter2
               kept == [g EXCEPT !.filter1 = IF first THEN @ \cup {nonce} ELSE @,
                                 !.filter2 = IF first THEN @ ELSE @ \cup {nonce}]
    <2>1. result \in IF nonce \in filter THEN {<<FALSE, g>>}
                     ELSE IF Cardinality(filter) > FilterMax
                     THEN {<<TRUE, kept>>, <<FALSE, kept>>}
                     ELSE {<<TRUE, kept>>}
      BY <1>2, Zenon DEF CheckAndInsert
    <2>2. /\ g \in LogType /\ g.start <= expires
          /\ expires < g.start + Lifetime + Lifetime
          /\ \A n, x \in Nat : Known(log, n, x) => Known(g, n, x)
      BY <1>2, TurnedKnows, Zenon
    <2> HIDE DEF g
    <2>3. /\ kept \in LogType
          /\ \A n, x \in Nat : Known(g, n, x) => Known(kept, n, x)
          /\ Known(kept, nonce, expires)
          /\ Known(g, nonce, expires) => nonce \in filter
      <3>1. CASE first
        <4>1. /\ kept = [g EXCEPT !.filter1 = g.filter1 \cup {nonce}, !.filter2 = g.filter2]
              /\ filter = g.filter1
          BY <3>1, Zenon
        <4> HIDE DEF kept, filter
        <4>2. g.filter1 \in SUBSET Nat /\ g.filter2 \in SUBSET Nat
          BY <2>2 DEF LogType
        <4>3. /\ kept \in LogType /\ kept.start = g.start
              /\ kept.filter1 = g.filter1 \cup {nonce} /\ kept.filter2 = g.filter2
          BY <2>2, <4>1, <4>2 DEF LogType
        <4>4. /\ \A n, x \in Nat : Known(g, n, x) => Known(kept, n, x)
              /\ Known(kept, nonce, expires)
              /\ Known(g, nonce, expires) => nonce \in g.filter1
          <5> HIDE DEF first
          <5>1. (expires - g.start) \div Lifetime = 0
            BY <3>1 DEF first
          <5> QED
            BY <2>2, <4>3, <5>1, InsertFirst, Zenon
        <4> QED
          BY <4>1, <4>3, <4>4, Zenon
      <3>2. CASE ~first
        <4>1. /\ kept = [g EXCEPT !.filter1 = g.filter1, !.filter2 = g.filter2 \cup {nonce}]
              /\ filter = g.filter2
          BY <3>2, Zenon
        <4> HIDE DEF kept, filter
        <4>2. g.filter1 \in SUBSET Nat /\ g.filter2 \in SUBSET Nat
          BY <2>2 DEF LogType
        <4>3. /\ kept \in LogType /\ kept.start = g.start
              /\ kept.filter1 = g.filter1 /\ kept.filter2 = g.filter2 \cup {nonce}
          BY <2>2, <4>1, <4>2 DEF LogType
        <4>4. /\ \A n, x \in Nat : Known(g, n, x) => Known(kept, n, x)
              /\ Known(kept, nonce, expires)
              /\ Known(g, nonce, expires) => nonce \in g.filter2
          <5> HIDE DEF first
          <5>1. (expires - g.start) \div Lifetime # 0
            BY <3>2 DEF first
          <5> QED
            BY <2>2, <4>3, <5>1, InsertSecond, Zenon
        <4> QED
          BY <4>1, <4>3, <4>4, Zenon
      <3> QED
        BY <3>1, <3>2
    <2> HIDE DEF filter, kept, first
    <2>4. CASE nonce \in filter
      <3>1. result = <<FALSE, g>>
        BY <2>1, <2>4
      <3>2. result[1] = FALSE /\ result[2] = g
        BY <3>1
      <3> QED
        BY <2>2, <3>2, Zenon
    <2>5. CASE nonce \notin filter
      <3>1. result = <<TRUE, kept>> \/ result = <<FALSE, kept>>
        BY <2>1, <2>5
      <3>2. result[1] \in BOOLEAN /\ result[2] = kept
        <4>1. CASE result = <<TRUE, kept>>
          BY <4>1
        <4>2. CASE result = <<FALSE, kept>>
          BY <4>2
        <4> QED
          BY <3>1, <4>1, <4>2
      <3> QED
        BY <2>2, <2>3, <2>5, <3>2, Zenon
    <2> QED
      BY <2>4, <2>5
  <1> QED
    BY <1>1, <1>2

-----------------------------------------------------------------------------
(* Steps                                                                   *)

\* A token is made: what is known of the others stays.
LEMMA IssueKeeps ==
    ASSUME TokensConstants, TokensInv, Len(issued) < MaxTokens, NEW t \in TokenType,
           t.issued = Secs(t.at), issued' = Append(issued, t),
           UNCHANGED <<now, log, taken, used, refused>>,
           wire' \subseteq [nonce : 1..Len(issued'), ip : Ips, port : Ports],
           CacheGood(cache', Len(issued) + 1, taken)
    PROVE  TokensInv'
  <1>1. /\ issued \in Seq(TokenType) /\ Len(issued) \in Nat /\ MaxTokens \in Nat
    BY LenProperties DEF TokensInv, Issues, TokensConstants
  <1>2. /\ issued' \in Seq(TokenType) /\ Len(issued') = Len(issued) + 1
        /\ issued'[Len(issued) + 1] = t
        /\ \A n \in 1..Len(issued) : issued'[n] = issued[n]
    BY <1>1, AppendProperties
  <1>3. \A n \in 1..Len(issued') : n \in 1..Len(issued) \/ n = Len(issued) + 1
    BY <1>1, <1>2
  <1>4. Issues'
    <2>1. \A n \in 1..Len(issued') : issued'[n].issued = Secs(issued'[n].at)
      BY <1>2, <1>3 DEF TokensInv, Issues
    <2>2. Len(issued') <= MaxTokens
      BY <1>1, <1>2
    <2> QED
      BY <1>2, <2>1, <2>2 DEF TokensInv, Issues
  <1>5. Counts'
    <2>1. \A n \in 1..MaxTokens : n > Len(issued') => n > Len(issued)
      BY <1>1, <1>2
    <2> QED
      BY <2>1 DEF TokensInv, Counts
  <1>6. Remembered'
    <2>1. used[Len(issued) + 1] = 0
      <3>1. Len(issued) + 1 \in 1..MaxTokens /\ Len(issued) + 1 > Len(issued)
        BY <1>1
      <3> QED
        BY <3>1 DEF TokensInv, Counts
    <2> SUFFICES ASSUME NEW n \in 1..Len(issued'), issued'[n].kind = "validation",
                        used[n] > 0
                 PROVE  used[n] = 1 /\ Known(log, n, issued'[n].issued + Lifetime)
      BY DEF Remembered, Known
    <2>2. n \in 1..Len(issued)
      BY <1>3, <2>1
    <2> QED
      BY <1>2, <2>2 DEF TokensInv, Remembered
  <1> QED
    BY <1>2, <1>4, <1>5, <1>6 DEF TokensInv

\* Endpoint::retry
LEMMA RetryKeeps ==
    ASSUME TokensConstants, TokensInv, NEW ip \in Ips, NEW port \in Ports, Retry(ip, port)
    PROVE  TokensInv'
  <1> DEFINE t == [kind |-> "retry", ip |-> ip, port |-> port, issued |-> Secs(now), at |-> now]
  <1>1. /\ issued \in Seq(TokenType) /\ Len(issued) \in Nat /\ now \in Nat
    BY LenProperties DEF TokensInv, Issues
  <1>2. t \in TokenType /\ t.issued = Secs(t.at)
    BY <1>1, WholeSeconds DEF TokenType
  <1>3. /\ issued' = Append(issued, t) /\ Len(issued) < MaxTokens
        /\ wire' = wire \cup {Initial(Len(issued'), ip, port)}
        /\ UNCHANGED <<now, cache, log, taken, used, refused>>
    BY DEF Retry
  <1> HIDE DEF t
  <1>4. Len(issued') = Len(issued) + 1
    BY <1>1, <1>2, <1>3, AppendProperties
  <1>5. wire' \subseteq [nonce : 1..Len(issued'), ip : Ips, port : Ports]
    <2>1. wire \subseteq [nonce : 1..Len(issued), ip : Ips, port : Ports]
      BY DEF TokensInv, Issues
    <2>2. 1..Len(issued) \subseteq 1..Len(issued') /\ Len(issued') \in 1..Len(issued')
      BY <1>1, <1>4
    <2> QED
      BY <1>3, <2>1, <2>2 DEF Initial
  <1>6. CacheGood(cache', Len(issued) + 1, taken)
    <2>1. CacheGood(cache, Len(issued), taken) /\ cache' = cache
      BY <1>3 DEF TokensInv
    <2>2. Len(issued) + 1 \in Nat /\ Len(issued) <= Len(issued) + 1
      BY <1>1
    <2>3. CacheGood(cache, Len(issued) + 1, taken)
      BY <1>1, <2>1, <2>2, GoodStays
    <2> QED
      BY <2>1, <2>3
  <1> QED
    BY <1>2, <1>3, <1>5, <1>6, IssueKeeps

\* A NEW_TOKEN frame
LEMMA NewTokenKeeps ==
    ASSUME TokensConstants, TokensInv, NEW ip \in Ips, NEW name \in Names, NewToken(ip, name)
    PROVE  TokensInv'
  <1> DEFINE t == [kind |-> "validation", ip |-> ip, issued |-> Secs(now), at |-> now]
  <1>1. /\ issued \in Seq(TokenType) /\ Len(issued) \in Nat /\ now \in Nat
        /\ MaxTokens \in Nat
    BY LenProperties DEF TokensInv, Issues, TokensConstants
  <1>2. t \in TokenType /\ t.issued = Secs(t.at)
    BY <1>1, WholeSeconds DEF TokenType
  <1>3. /\ issued' = Append(issued, t) /\ Len(issued) < MaxTokens
        /\ cache' = Store(name, Len(issued'))
        /\ UNCHANGED <<now, wire, log, taken, used, refused>>
    BY DEF NewToken
  <1> HIDE DEF t
  <1>4. Len(issued') = Len(issued) + 1
    BY <1>1, <1>2, <1>3, AppendProperties
  <1>5. wire' \subseteq [nonce : 1..Len(issued'), ip : Ips, port : Ports]
    <2>1. wire \subseteq [nonce : 1..Len(issued), ip : Ips, port : Ports]
      BY DEF TokensInv, Issues
    <2>2. 1..Len(issued) \subseteq 1..Len(issued')
      BY <1>1, <1>4
    <2> QED
      BY <1>3, <2>1, <2>2
  <1>6. CacheGood(cache', Len(issued) + 1, taken)
    <2>1. taken[Len(issued) + 1] = 0
      <3>1. Len(issued) + 1 \in 1..MaxTokens /\ Len(issued) + 1 > Len(issued)
        BY <1>1, <1>3
      <3> QED
        BY <3>1 DEF TokensInv, Counts
    <2>2. CacheGood(cache, Len(issued), taken)
      BY DEF TokensInv
    <2>3. CacheGood(Store(name, Len(issued) + 1), Len(issued) + 1, taken)
      BY <1>1, <2>1, <2>2, StoreGood
    <2> QED
      BY <1>3, <1>4, <2>3
  <1> QED
    BY <1>2, <1>3, <1>5, <1>6, IssueKeeps

\* A connection takes a token.
LEMMA ConnectKeeps ==
    ASSUME TokensConstants, TokensInv, NEW name \in Names, NEW ip \in Ips, NEW port \in Ports,
           Connect(name, ip, port)
    PROVE  TokensInv'
  <1> DEFINE nonce == Head(cache[Entry(name)].tokens)
             N == Len(issued)
  <1>1. /\ issued \in Seq(TokenType) /\ N \in Nat /\ MaxTokens \in Nat /\ N <= MaxTokens
        /\ CacheGood(cache, N, taken) /\ taken \in [1..MaxTokens -> Nat]
    BY LenProperties DEF TokensInv, Issues, Counts, TokensConstants
  <1>2. /\ Entry(name) # 0 /\ taken' = [taken EXCEPT ![nonce] = @ + 1]
        /\ wire' = wire \cup {Initial(nonce, ip, port)} /\ cache' = Take(name)
        /\ UNCHANGED <<now, issued, log, used, refused>>
    BY DEF Connect
  <1>3. nonce = Head(cache[Entry(name)].tokens)
    OBVIOUS
  <1> HIDE DEF nonce
  <1>4. \A n \in 1..N : n \in 1..MaxTokens
    BY <1>1
  <1>5. \A n \in 1..N : n # nonce => taken'[n] = taken[n]
    BY <1>1, <1>2, <1>4
  <1>6. nonce \in 1..N /\ taken[nonce] = 0 /\ CacheGood(cache', N, taken')
    <2> HIDE DEF N
    <2> QED
      BY <1>1, <1>2, <1>3, <1>5, TakeGood
  <1>7. Issues'
    BY <1>2, <1>6 DEF TokensInv, Issues, Initial
  <1>8. Counts'
    <2>1. taken' \in [1..MaxTokens -> Nat]
      BY <1>1, <1>2, <1>4, <1>6
    <2>2. ASSUME NEW n \in 1..MaxTokens
          PROVE  /\ n > Len(issued) => taken'[n] = 0
                 /\ taken'[n] <= 1
      <3>1. CASE n = nonce
        <4>1. taken'[n] = 1 /\ ~(n > Len(issued))
          BY <1>1, <1>2, <1>4, <1>6, <3>1
        <4> QED
          BY <4>1
      <3>2. CASE n # nonce
        <4>1. taken'[n] = taken[n]
          BY <1>1, <1>2, <3>2
        <4> QED
          BY <4>1 DEF TokensInv, Counts
      <3> QED
        BY <3>1, <3>2
    <2> QED
      BY <1>2, <2>1, <2>2 DEF TokensInv, Counts
  <1>9. Remembered'
    BY <1>2 DEF TokensInv, Remembered, Known
  <1> QED
    BY <1>2, <1>6, <1>7, <1>8, <1>9 DEF TokensInv

\* Packets carry tokens that exist, wherever they seem to come from.
LEMMA SeenNonce ==
    ASSUME TokensInv, NEW packet \in Seen
    PROVE  packet.nonce \in 1..Len(issued)
  <1>1. PICK p \in wire, ip \in Ips, port \in Ports : packet = Initial(p.nonce, ip, port)
    BY DEF Seen
  <1>2. p.nonce \in 1..Len(issued)
    BY DEF TokensInv, Issues
  <1> QED
    BY <1>1, <1>2 DEF Initial

\* The times in a token
LEMMA TokenTimes ==
    ASSUME TokensInv, NEW n \in 1..Len(issued)
    PROVE  /\ issued[n].at \in Nat /\ issued[n].issued \in Nat
           /\ issued[n].at <= issued[n].issued + 1
  <1>1. issued[n] \in TokenType /\ issued[n].issued = Secs(issued[n].at)
    BY ElementOfSeq DEF TokensInv, Issues
  <1>2. issued[n].at \in Nat
    BY <1>1 DEF TokenType
  <1> QED
    BY <1>1, <1>2, WholeSeconds

\* An answer to a Retry packet is accepted if it is prompt.
LEMMA FromHeaderRetryKeeps ==
    ASSUME TokensConstants, TokensInv, NEW packet \in Seen, FromHeaderRetry(packet)
    PROVE  TokensInv'
  <1> DEFINE k == packet.nonce
             token == issued[k]
             own == token.ip = packet.ip /\ token.port = packet.port
  <1>1. k \in 1..Len(issued) /\ token.kind = "retry"
        /\ UNCHANGED <<now, issued, cache, wire, log, taken>>
    BY SeenNonce DEF FromHeaderRetry
  <1>2. /\ token.at \in Nat /\ token.issued \in Nat /\ token.at <= token.issued + 1
    BY <1>1, TokenTimes
  <1>3. \/ /\ refused' = (refused \/ (own /\ now < token.at + RetryLifetime - 1))
           /\ used' = used /\ (~own \/ Expired(token, RetryLifetime))
        \/ used' = [used EXCEPT ![k] = @ + 1] /\ refused' = refused
    BY Zenon DEF FromHeaderRetry
  <1>4. /\ refused = FALSE /\ now \in Nat /\ used \in [1..MaxTokens -> Nat]
        /\ Len(issued) <= MaxTokens /\ RetryLifetime \in Nat /\ MaxTokens \in Nat
        /\ Len(issued) \in Nat
    BY LenProperties DEF TokensInv, Issues, Counts, TokensConstants
  <1> HIDE DEF own, token
  <1>5. Expired(token, RetryLifetime) => ~(now < token.at + RetryLifetime - 1)
    <2> SUFFICES ASSUME token.issued + RetryLifetime < now
                 PROVE  ~(now < token.at + RetryLifetime - 1)
      BY DEF Expired
    <2> QED
      BY <1>2, <1>4
  <1>6. refused' = FALSE
    BY <1>3, <1>4, <1>5, Zenon
  <1>7. k \in 1..MaxTokens
    BY <1>1, <1>4
  <1>8. /\ used' \in [1..MaxTokens -> Nat]
        /\ \A n \in 1..MaxTokens : n # k => used'[n] = used[n]
    BY <1>3, <1>4, <1>7
  <1>9. Issues'
    BY <1>1, <1>6 DEF TokensInv, Issues
  <1>10. Counts'
    <2>1. \A n \in 1..MaxTokens : n > Len(issued) => n # k
      BY <1>1, <1>4
    <2> QED
      BY <1>1, <1>8, <2>1 DEF TokensInv, Counts
  <1>11. Remembered'
    <2> SUFFICES ASSUME NEW n \in 1..Len(issued), issued[n].kind = "validation", used'[n] > 0
                 PROVE  used'[n] = 1 /\ Known(log, n, issued[n].issued + Lifetime)
      BY <1>1 DEF Remembered, Known
    <2>1. n # k /\ n \in 1..MaxTokens
      BY <1>1, <1>4 DEF token
    <2>2. used'[n] = used[n]
      BY <1>8, <2>1
    <2> QED
      BY <2>2 DEF TokensInv, Remembered
  <1> QED
    BY <1>1, <1>9, <1>10, <1>11 DEF TokensInv

\* A token of a NEW_TOKEN frame validates an address if the log does not know it.
LEMMA FromHeaderValidationKeeps ==
    ASSUME TokensConstants, TokensInv, NEW packet \in Seen, FromHeaderValidation(packet)
    PROVE  TokensInv'
  <1> DEFINE k == packet.nonce
             expires == issued[k].issued + Lifetime
  <1>1. k \in 1..Len(issued) /\ UNCHANGED <<now, issued, cache, wire, taken, refused>>
    BY SeenNonce DEF FromHeaderValidation
  <1>2. PICK result \in CheckAndInsert(k, expires) :
            /\ log' = result[2]
            /\ used' = IF result[1] THEN [used EXCEPT ![k] = @ + 1] ELSE used
    BY DEF FromHeaderValidation
  <1>3. /\ used \in [1..MaxTokens -> Nat] /\ log \in LogType /\ Lifetime \in Nat
        /\ Len(issued) <= MaxTokens /\ MaxTokens \in Nat /\ Len(issued) \in Nat
    BY LenProperties DEF TokensInv, Issues, Counts, TokensConstants
  <1>4. k \in Nat /\ k \in 1..MaxTokens /\ expires \in Nat
    BY <1>1, <1>3, TokenTimes
  <1>5. /\ result[2] \in LogType /\ result[1] \in BOOLEAN
        /\ \A n, x \in Nat : Known(log, n, x) => Known(result[2], n, x)
        /\ result[1] = TRUE =>
               ~Known(log, k, expires) /\ Known(result[2], k, expires)
    <2> HIDE DEF k, expires
    <2> QED
      BY <1>2, <1>3, <1>4, LogKnows
  <1>6. \/ used' = used
        \/ /\ used' = [used EXCEPT ![k] = @ + 1]
           /\ ~Known(log, k, expires) /\ Known(result[2], k, expires)
    BY <1>2, <1>5, Zenon
  <1>7. /\ used' \in [1..MaxTokens -> Nat]
        /\ \A n \in 1..MaxTokens : n # k => used'[n] = used[n]
    <2> HIDE DEF k, expires
    <2>1. used' = used \/ used' = [used EXCEPT ![k] = @ + 1]
      BY <1>6, Zenon
    <2> QED
      BY <1>3, <1>4, <2>1
  <1>8. Issues'
    BY <1>1, <1>2, <1>5 DEF TokensInv, Issues
  <1>9. Counts'
    <2>1. \A n \in 1..MaxTokens : n > Len(issued) => n # k
      BY <1>1, <1>3
    <2> QED
      BY <1>1, <1>7, <2>1 DEF TokensInv, Counts
  <1>10. Remembered'
    <2> SUFFICES ASSUME NEW n \in 1..Len(issued), issued[n].kind = "validation", used'[n] > 0
                 PROVE  used'[n] = 1 /\ Known(result[2], n, issued[n].issued + Lifetime)
      BY <1>1, <1>2 DEF Remembered, Known
    <2>1. n \in 1..MaxTokens /\ n \in Nat /\ issued[n].issued + Lifetime \in Nat
      BY <1>3, TokenTimes
    <2>2. CASE used'[n] = used[n]
      <3>1. used[n] = 1 /\ Known(log, n, issued[n].issued + Lifetime)
        BY <2>2 DEF TokensInv, Remembered
      <3> QED
        BY <1>5, <2>1, <2>2, <3>1
    <2>3. CASE used'[n] # used[n]
      <3>1. n = k /\ used' = [used EXCEPT ![k] = @ + 1]
            /\ ~Known(log, k, expires) /\ Known(result[2], k, expires)
        BY <1>6, <1>7, <2>1, <2>3
      <3>2. ~(used[n] > 0)
        BY <3>1 DEF TokensInv, Remembered
      <3>3. used[n] = 0
        BY <1>3, <2>1, <3>2
      <3> QED
        BY <1>3, <2>1, <3>1, <3>3
    <2> QED
      BY <2>2, <2>3
  <1> QED
    BY <1>1, <1>8, <1>9, <1>10 DEF TokensInv

-----------------------------------------------------------------------------
(* The theorem                                                             *)

\* Nothing was issued yet.
LEMMA InitKeeps ==
    ASSUME TokensConstants, Init
    PROVE  TokensInv
  <1>1. issued \in Seq(TokenType) /\ Len(issued) = 0 /\ cache \in Seq(ListType)
        /\ Len(cache) = 0
    BY EmptySeq DEF Init
  <1>2. log \in LogType
    BY DEF Init, LogType
  <1>3. Issues
    BY <1>1, <1>2 DEF Init, Issues, TokensConstants
  <1>4. Counts
    BY DEF Init, Counts
  <1>5. Remembered
    BY <1>1 DEF Remembered
  <1>6. CacheGood(cache, Len(issued), taken)
    BY <1>1 DEF CacheGood
  <1> QED
    BY <1>3, <1>4, <1>5, <1>6 DEF TokensInv

\* Every step keeps the invariant.
LEMMA NextKeeps ==
    ASSUME TokensConstants, TokensInv, [Next]_vars
    PROVE  TokensInv'
  <1>1. CASE Tick
    <2>1. now' \in Nat /\ UNCHANGED <<issued, cache, wire, log, taken, used, refused>>
      BY <1>1 DEF Tick, TokensInv, Issues
    <2>2. Issues' /\ Counts' /\ Remembered'
      BY <2>1 DEF TokensInv, Issues, Counts, Remembered, Known
    <2> QED
      BY <2>1, <2>2 DEF TokensInv
  <1>2. CASE UNCHANGED vars
    <2>1. UNCHANGED <<now, issued, cache, wire, log, taken, used, refused>>
      BY <1>2 DEF vars
    <2>2. Issues' /\ Counts' /\ Remembered'
      BY <2>1 DEF TokensInv, Issues, Counts, Remembered, Known
    <2> QED
      BY <2>1, <2>2 DEF TokensInv
  <1> QED
    BY <1>1, <1>2, RetryKeeps, NewTokenKeeps, ConnectKeeps, FromHeaderRetryKeeps,
       FromHeaderValidationKeeps DEF Next

\* A token of a NEW_TOKEN frame leaves the client's cache once and validates an
\* address once, however late, often and out of order it reaches check_and_insert,
\* and whoever answers a Retry packet promptly is not refused.
THEOREM TokensTheorem ==
    ASSUME TokensConstants
    PROVE  Spec => []TokensSound
  <1>1. Init => TokensInv
    BY InitKeeps
  <1>2. TokensInv /\ [Next]_vars => TokensInv'
    BY NextKeeps
  <1>3. TokensInv => TokensSound
    <2> SUFFICES ASSUME TokensInv PROVE TokensSound
      OBVIOUS
    <2>1. RetryAnswered
      BY DEF TokensInv, Issues, RetryAnswered
    <2>2. ASSUME NEW n \in 1..Len(issued), issued[n].kind = "validation"
          PROVE  used[n] <= 1 /\ taken[n] <= 1
      <3>1. n \in 1..MaxTokens /\ used[n] \in Nat /\ taken[n] <= 1
        <4>1. /\ Len(issued) <= MaxTokens /\ Len(issued) \in Nat /\ MaxTokens \in Nat
              /\ used \in [1..MaxTokens -> Nat] /\ \A m \in 1..MaxTokens : taken[m] <= 1
          BY LenProperties DEF TokensInv, Issues, Counts, TokensConstants
        <4>2. n \in 1..MaxTokens
          BY <4>1
        <4> QED
          BY <4>1, <4>2
      <3>2. used[n] > 0 => used[n] = 1
        BY <2>2 DEF TokensInv, Remembered
      <3> QED
        BY <3>1, <3>2
    <2>3. TokenUsedOnce
      BY <2>2 DEF TokenUsedOnce
    <2> QED
      BY <2>1, <2>3 DEF TokensSound
  <1> QED
    BY <1>1, <1>2, <1>3, PTL DEF Spec
=============================================================================
