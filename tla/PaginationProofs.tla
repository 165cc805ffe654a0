--------------------------- MODULE PaginationProofs ---------------------------
(***************************************************************************)
(* Theorems about Pagination, for any number of rows, any keys, ties and   *)
(* page sizes, and any client.                                             *)
(***************************************************************************)
EXTENDS Pagination, FiniteSetTheorems, FunctionTheorems, SequenceTheorems, TLAPS

\* Keys are numbers, and price and date do not leave their columns.
DataOK ==
  /\ created \in [Rows -> Nat]
  /\ price \in [Rows -> Nat]
  /\ parentGone \in BOOLEAN

-----------------------------------------------------------------------------
(* The order of rows.                                                      *)

\* A subset of the rows has as many elements as a number says.
LEMMA Sizes ==
  ASSUME NEW S \in SUBSET Rows
  PROVE  /\ IsFiniteSet(S) /\ Cardinality(S) \in Nat
         /\ \A T \in SUBSET S : /\ Cardinality(T) \in Nat
                                /\ Cardinality(T) <= Cardinality(S)
                                /\ Cardinality(T) = Cardinality(S) => T = S
<1>1. IsFiniteSet(S) /\ Cardinality(S) \in Nat
  BY PageAssumption, FS_Subset, FS_CardinalityType
<1> QED
  BY <1>1, FS_Subset, FS_CardinalityType

LEMMA Keys ==
  ASSUME DataOK, NEW by, NEW r \in Rows
  PROVE  r \in Nat /\ SortKey(by, r) \in Nat
BY PageAssumption DEF DataOK, SortKey

\* Key and id together order the rows strictly and totally, ties included.
LEMMA ReadsOrder ==
  ASSUME DataOK, NEW by, NEW backward \in BOOLEAN
  PROVE  /\ \A a \in Rows : ~ReadsBefore(by, backward, a, a)
         /\ \A a, b \in Rows : \/ a = b
                               \/ ReadsBefore(by, backward, a, b)
                               \/ ReadsBefore(by, backward, b, a)
         /\ \A a, b, c \in Rows :
              ReadsBefore(by, backward, a, b) /\ ReadsBefore(by, backward, b, c)
                => ReadsBefore(by, backward, a, c)
<1>1. \A a \in Rows : a \in Nat /\ SortKey(by, a) \in Nat
  BY Keys
<1> DEFINE key(r) == SortKey(by, r)
<1>2. \A a \in Rows : ~Smaller(by, a, a)
  BY <1>1 DEF Smaller
<1>3. \A a, b \in Rows : a = b \/ Smaller(by, a, b) \/ Smaller(by, b, a)
  BY <1>1 DEF Smaller
<1>4. \A a, b, c \in Rows : Smaller(by, a, b) /\ Smaller(by, b, c) => Smaller(by, a, c)
  BY <1>1 DEF Smaller
<1> QED
  BY <1>2, <1>3, <1>4 DEF ReadsBefore

\* A backward request reads in the opposite order.
LEMMA Mirrored ==
  ASSUME NEW by, NEW a, NEW b
  PROVE  ReadsBefore(by, TRUE, a, b) <=> ReadsBefore(by, FALSE, b, a)
BY DEF ReadsBefore, Descending

\* The rows up to x, in the order of a request.
Upto(S, by, backward, x) == {y \in S : y = x \/ ReadsBefore(by, backward, y, x)}

\* How many rows there are up to a row places it.
LEMMA Ranks ==
  ASSUME DataOK, NEW by, NEW backward \in BOOLEAN, NEW S \in SUBSET Rows,
         NEW x \in S, NEW y \in S, ReadsBefore(by, backward, x, y)
  PROVE  Cardinality(Upto(S, by, backward, x)) < Cardinality(Upto(S, by, backward, y))
<1> DEFINE U == Upto(S, by, backward, x)
           V == Upto(S, by, backward, y)
<1>1. U \in SUBSET V /\ y \in V /\ y \notin U /\ V \in SUBSET Rows
  BY ReadsOrder DEF Upto
<1>2. U # V
  BY <1>1
<1> HIDE DEF U, V
<1>3. Cardinality(U) \in Nat /\ Cardinality(V) \in Nat /\ Cardinality(U) <= Cardinality(V)
  BY <1>1, Sizes
<1>4. Cardinality(U) # Cardinality(V)
  BY <1>1, <1>2, Sizes
<1> QED
  BY <1>3, <1>4 DEF U, V

\* Any rows can be put in order.
LEMMA Sortable ==
  ASSUME DataOK, NEW by, NEW backward \in BOOLEAN, NEW S \in SUBSET Rows
  PROVE  \E s \in [1..Cardinality(S) -> S] : Sorted(s, by, backward)
<1> DEFINE n == Cardinality(S)
           up(x) == Upto(S, by, backward, x)
           rank == [x \in S |-> Cardinality(up(x))]
<1>1. n \in Nat /\ IsFiniteSet(S)
  BY Sizes
<1>2. rank \in [S -> 1..n]
  <2> SUFFICES ASSUME NEW x \in S PROVE Cardinality(up(x)) \in 1..n
    OBVIOUS
  <2>1. up(x) \in SUBSET S /\ x \in up(x)
    BY DEF Upto
  <2>2. Cardinality(up(x)) \in Nat /\ Cardinality(up(x)) <= n
    BY <2>1, Sizes
  <2>3. Cardinality(up(x)) # 0
    BY <2>1, Sizes, FS_EmptySet
  <2> HIDE DEF up, n
  <2> QED
    BY <1>1, <2>2, <2>3
<1>3. \A x, y \in S : ReadsBefore(by, backward, x, y) => rank[x] < rank[y]
  BY Ranks
<1> HIDE DEF rank, n
<1>4. \A x, y \in S : rank[x] = rank[y] => x = y
  <2> SUFFICES ASSUME NEW x \in S, NEW y \in S, x # y PROVE rank[x] # rank[y]
    OBVIOUS
  <2>1. ReadsBefore(by, backward, x, y) \/ ReadsBefore(by, backward, y, x)
    BY ReadsOrder
  <2>2. rank[x] \in Nat /\ rank[y] \in Nat
    BY <1>2
  <2> QED
    BY <2>1, <2>2, <1>3
<1>5. rank \in Injection(S, 1..n)
  BY <1>2, <1>4, Fun_IsInj
<1>6. IsFiniteSet(1..n) /\ Cardinality(1..n) = n
  BY <1>1, FS_Interval
<1>7. rank \in Surjection(S, 1..n)
  BY <1>1, <1>5, <1>6, FS_Injection DEF n
<1>8. \A i \in 1..n : \E x \in S : rank[x] = i
  BY <1>7, Fun_SurjectionProperties
<1> DEFINE s == [i \in 1..n |-> CHOOSE x \in S : rank[x] = i]
<1>9. \A i \in 1..n : s[i] \in S /\ rank[s[i]] = i
  BY <1>8
<1>10. s \in [1..n -> S]
  BY <1>9
<1> HIDE DEF s
<1>11. Sorted(s, by, backward)
  <2> SUFFICES ASSUME NEW i \in 1..n, NEW j \in 1..n, i < j
               PROVE  ReadsBefore(by, backward, s[i], s[j])
    BY <1>10 DEF Sorted
  <2>1. s[i] \in S /\ s[j] \in S /\ rank[s[i]] = i /\ rank[s[j]] = j
    BY <1>9
  <2>2. s[i] # s[j]
    BY <2>1, <1>1
  <2>3. ReadsBefore(by, backward, s[i], s[j]) \/ ReadsBefore(by, backward, s[j], s[i])
    BY <2>1, <2>2, ReadsOrder
  <2>4. ~ReadsBefore(by, backward, s[j], s[i])
    <3> SUFFICES ASSUME ReadsBefore(by, backward, s[j], s[i]) PROVE FALSE
      OBVIOUS
    <3>1. j < i
      BY <2>1, <1>3
    <3> QED
      BY <3>1, <1>1
  <2> QED
    BY <2>3, <2>4
<1> QED
  BY <1>10, <1>11 DEF n

\* ORDER BY puts every row in one place.
LEMMA OrderedRows ==
  ASSUME DataOK, NEW by, NEW backward \in BOOLEAN, NEW S \in SUBSET Rows
  PROVE  /\ Ordered(S, by, backward) \in [1..Cardinality(S) -> S]
         /\ Cardinality(S) \in Nat
         /\ Sorted(Ordered(S, by, backward), by, backward)
         /\ ToSet(Ordered(S, by, backward)) = S
<1> DEFINE n == Cardinality(S)
           s == Ordered(S, by, backward)
<1>1. s \in [1..n -> S] /\ Sorted(s, by, backward)
  BY Sortable DEF Ordered
<1> HIDE DEF s
<1>2. n \in Nat /\ IsFiniteSet(S) /\ IsFiniteSet(1..n) /\ Cardinality(1..n) = n
  BY Sizes, FS_Interval
<1>3. \A i, j \in 1..n : s[i] = s[j] => i = j
  <2> SUFFICES ASSUME NEW i \in 1..n, NEW j \in 1..n, s[i] = s[j], i < j PROVE FALSE
    BY <1>2
  <2> QED
    BY <1>1, ReadsOrder DEF Sorted
<1> HIDE DEF n
<1>4. s \in Injection(1..n, S)
  BY <1>1, <1>3, Fun_IsInj
<1>5. s \in Surjection(1..n, S)
  BY <1>2, <1>4, FS_Injection DEF n
<1>6. ToSet(s) = S
  BY <1>1, <1>5 DEF Surjection, ToSet
<1> QED
  BY <1>1, <1>2, <1>6 DEF n, s

-----------------------------------------------------------------------------
(* A page of rows.                                                         *)

Before(by, a, b) == ReadsBefore(by, FALSE, a, b)

\* The rest of S is read after the page.
RestBeyond(items, S, by, backward) ==
  \A r \in S \ ToSet(items), x \in ToSet(items) : ReadsBefore(by, backward, x, r)

\* The items are the n rows of S that come first in the order of the request, or
\* all that there are, shown in the order of the list.
Segment(items, S, by, backward, n) ==
  /\ items \in Seq(S)
  /\ Len(items) <= n
  /\ ToSet(items) # S => Len(items) = n
  /\ Sorted(items, by, FALSE)
  /\ RestBeyond(items, S, by, backward)

\* LIMIT and the slice keep the beginning.
LEMMA Slices ==
  ASSUME NEW S, NEW s \in Seq(S), NEW n \in Nat \ {0}
  PROVE  LET k == Kept(Limited(s, n), n)
         IN /\ k \in Seq(S)
            /\ Len(k) = IF Len(s) < n THEN Len(s) ELSE n
            /\ \A i \in 1..Len(k) : k[i] = s[i]
            /\ Len(Limited(s, n)) > n <=> Len(s) > n
<1>1. ASSUME NEW t \in Seq(S), NEW m \in Nat
      PROVE  /\ AtMost(m, t) \in Seq(S)
             /\ Len(AtMost(m, t)) = IF Len(t) < m THEN Len(t) ELSE m
             /\ \A i \in 1..Len(AtMost(m, t)) : AtMost(m, t)[i] = t[i]
  <2> DEFINE l == IF Len(t) < m THEN Len(t) ELSE m
  <2>1. Len(t) \in Nat /\ \A i \in 1..l : t[i] \in S
    BY <1>1, LenProperties, ElementOfSeq
  <2>2. l \in Nat /\ AtMost(m, t) = SubSeq(t, 1, l)
    BY <2>1, <1>1 DEF AtMost
  <2> HIDE DEF l
  <2>3. /\ SubSeq(t, 1, l) \in Seq(S)
        /\ Len(SubSeq(t, 1, l)) = IF 1 <= l THEN l - 1 + 1 ELSE 0
        /\ \A i \in 1..(l - 1 + 1) : SubSeq(t, 1, l)[i] = t[1 + i - 1]
    BY <2>1, <2>2, SubSeqProperties
  <2>4. Len(SubSeq(t, 1, l)) = l /\ \A i \in 1..l : SubSeq(t, 1, l)[i] = t[i]
    BY <2>2, <2>3
  <2> QED
    BY <2>2, <2>3, <2>4 DEF l
<1> DEFINE u == Limited(s, n)
<1>2. n \in Nat /\ n + 1 \in Nat /\ Len(s) \in Nat
  BY LenProperties
<1>3. /\ u \in Seq(S)
      /\ Len(u) = IF Len(s) < n + 1 THEN Len(s) ELSE n + 1
      /\ \A i \in 1..Len(u) : u[i] = s[i]
  BY <1>1, <1>2 DEF Limited
<1> HIDE DEF u
<1>4. /\ Kept(u, n) \in Seq(S)
      /\ Len(Kept(u, n)) = IF Len(u) < n THEN Len(u) ELSE n
      /\ \A i \in 1..Len(Kept(u, n)) : Kept(u, n)[i] = u[i]
  BY <1>1, <1>2, <1>3 DEF Kept
<1>5. Len(u) > n <=> Len(s) > n
  BY <1>2, <1>3
<1>6. Len(Kept(u, n)) = IF Len(s) < n THEN Len(s) ELSE n
  BY <1>2, <1>3, <1>4
<1>7. \A i \in 1..Len(Kept(u, n)) : Kept(u, n)[i] = s[i]
  BY <1>2, <1>3, <1>4, <1>6
<1> QED
  BY <1>4, <1>5, <1>6, <1>7 DEF u

\* Reversing a page keeps its rows.
LEMMA Reversed ==
  ASSUME NEW S, NEW k \in Seq(S)
  PROVE  /\ Reverse(k) \in Seq(S) /\ Len(Reverse(k)) = Len(k)
         /\ \A i \in 1..Len(k) : Reverse(k)[i] = k[(Len(k) - i) + 1]
         /\ ToSet(Reverse(k)) = ToSet(k)
<1> DEFINE l == Len(k)
           t == Reverse(k)
<1>1. l \in Nat /\ k \in [1..l -> S] /\ DOMAIN k = 1..l
  BY LenProperties
<1>2. t = [i \in 1..l |-> k[(l - i) + 1]]
  BY DEF Reverse
<1> HIDE DEF l, t
<1>3. \A i \in 1..l : (l - i) + 1 \in 1..l /\ (l - ((l - i) + 1)) + 1 = i
  BY <1>1
<1>4. t \in [1..l -> S]
  BY <1>1, <1>2, <1>3
<1>5. t \in Seq(S) /\ Len(t) = l
  BY <1>1, <1>4, SeqDef, LenProperties
<1>6. ToSet(t) = ToSet(k)
  <2>1. ToSet(t) = {t[i] : i \in 1..l} /\ ToSet(k) = {k[i] : i \in 1..l}
    BY <1>1, <1>4 DEF ToSet
  <2>2. \A i \in 1..l : t[i] = k[(l - i) + 1] /\ k[i] = t[(l - i) + 1]
    BY <1>2, <1>3
  <2> QED
    BY <2>1, <2>2, <1>3
<1> QED
  BY <1>2, <1>5, <1>6 DEF l, t

\* From the rows of the SELECT to the items of the page.
LEMMA Items ==
  ASSUME DataOK, NEW by, NEW backward \in BOOLEAN, NEW S \in SUBSET Rows, NEW n \in Nat \ {0}
  PROVE  LET rows == Limited(Ordered(S, by, backward), n)
             items == InListOrder(Kept(rows, n), backward)
         IN /\ Segment(items, S, by, backward, n)
            /\ Len(rows) > n <=> ToSet(items) # S
<1> DEFINE s == Ordered(S, by, backward)
           N == Cardinality(S)
           rows == Limited(s, n)
           k == Kept(rows, n)
           items == InListOrder(k, backward)
<1>1. /\ s \in [1..N -> S] /\ N \in Nat /\ Sorted(s, by, backward)
      /\ ToSet(s) = S
  BY OrderedRows
<1> HIDE DEF s, N
<1>2. s \in Seq(S) /\ Len(s) = N
  BY <1>1, SeqDef, LenProperties
<1>3. /\ k \in Seq(S) /\ Len(k) = IF N < n THEN N ELSE n
      /\ \A i \in 1..Len(k) : k[i] = s[i]
      /\ Len(rows) > n <=> N > n
  BY <1>2, Slices
<1> HIDE DEF k, rows
<1> DEFINE l == Len(k)
<1>4. /\ l \in Nat /\ l <= N /\ l <= n /\ (l # n => l = N) /\ DOMAIN k = 1..l
      /\ l = (IF N < n THEN N ELSE n) /\ \A i \in 1..l : k[i] = s[i] /\ k[i] \in S
  BY <1>1, <1>3, LenProperties, ElementOfSeq
<1> HIDE DEF l
<1>5. Sorted(k, by, backward)
  BY <1>1, <1>4 DEF Sorted
<1>6. \A r \in S \ ToSet(k), i \in 1..l : ReadsBefore(by, backward, k[i], r)
  <2> SUFFICES ASSUME NEW r \in S, r \notin ToSet(k), NEW i \in 1..l
               PROVE  ReadsBefore(by, backward, k[i], r)
    OBVIOUS
  <2>1. PICK j \in 1..N : s[j] = r
    BY <1>1 DEF ToSet
  <2>2. j \notin 1..l
    BY <2>1, <1>4 DEF ToSet
  <2>3. i < j /\ i \in 1..N
    BY <2>2, <1>1, <1>4
  <2> QED
    BY <2>1, <2>3, <1>1, <1>4 DEF Sorted
<1>7. ToSet(k) # S <=> N > n
  <2>1. ASSUME N > n PROVE ToSet(k) # S
    <3>1. n + 1 \in 1..N /\ l = n
      BY <2>1, <1>1, <1>4
    <3>2. s[n + 1] \in S
      BY <3>1, <1>1
    <3>3. \A i \in 1..l : k[i] # s[n + 1]
      <4> SUFFICES ASSUME NEW i \in 1..l PROVE s[i] # s[n + 1]
        BY <1>4
      <4>1. i < n + 1 /\ i \in 1..N /\ s[i] \in S
        BY <3>1, <1>1
      <4>2. ReadsBefore(by, backward, s[i], s[n + 1])
        BY <4>1, <3>1, <1>1 DEF Sorted
      <4> QED
        BY <4>1, <4>2, <3>2, ReadsOrder
    <3> QED
      BY <3>2, <3>3, <1>4 DEF ToSet
  <2>2. ASSUME ~(N > n) PROVE ToSet(k) = S
    <3>1. l = N
      BY <2>2, <1>1, <1>4
    <3>2. \A r \in S : \E i \in 1..l : k[i] = r
      BY <3>1, <1>1, <1>4 DEF ToSet
    <3>3. \A i \in 1..l : k[i] \in S
      BY <1>4
    <3> QED
      BY <3>2, <3>3, <1>4 DEF ToSet
  <2> QED
    BY <2>1, <2>2
<1>8. /\ items \in Seq(S) /\ Len(items) = l /\ ToSet(items) = ToSet(k)
      /\ \A i \in 1..l : items[i] = IF backward THEN k[(l - i) + 1] ELSE k[i]
  BY <1>3, <1>4, Reversed DEF InListOrder, l
<1> HIDE DEF items
<1>9. Sorted(items, by, FALSE)
  <2> SUFFICES ASSUME NEW i \in 1..l, NEW j \in 1..l, i < j
               PROVE  ReadsBefore(by, FALSE, items[i], items[j])
    BY <1>8, LenProperties DEF Sorted
  <2>1. CASE backward
    <3>1. /\ (l - i) + 1 \in 1..l /\ (l - j) + 1 \in 1..l
          /\ (l - j) + 1 < (l - i) + 1
      BY <1>4
    <3>2. ReadsBefore(by, backward, k[(l - j) + 1], k[(l - i) + 1])
      BY <3>1, <1>4, <1>5 DEF Sorted
    <3> QED
      BY <3>2, <2>1, <1>8, Mirrored
  <2>2. CASE ~backward
    BY <2>2, <1>4, <1>5, <1>8 DEF Sorted
  <2> QED
    BY <2>1, <2>2
<1>10. RestBeyond(items, S, by, backward)
  <2>1. \A x \in ToSet(k) : \E i \in 1..l : k[i] = x
    BY <1>4 DEF ToSet
  <2> QED
    BY <2>1, <1>6, <1>8 DEF RestBeyond
<1>11. ToSet(items) # S => Len(items) = n
  BY <1>1, <1>4, <1>7, <1>8
<1> QED
  BY <1>3, <1>4, <1>7, <1>8, <1>9, <1>10, <1>11 DEF Segment, s, k, rows, items

\* Positions in a sorted page are the order of its rows.
LEMMA Positions ==
  ASSUME DataOK, NEW by, NEW items \in Seq(Rows), Sorted(items, by, FALSE)
  PROVE  /\ DOMAIN items = 1..Len(items) /\ Len(items) \in Nat
         /\ \A i \in 1..Len(items) : items[i] \in Rows /\ items[i] \in ToSet(items)
         /\ \A r \in ToSet(items) : \E i \in 1..Len(items) : items[i] = r
         /\ \A i, j \in 1..Len(items) : i < j => Before(by, items[i], items[j])
<1>1. DOMAIN items = 1..Len(items) /\ Len(items) \in Nat
  BY LenProperties
<1>2. \A i \in 1..Len(items) : items[i] \in Rows
  BY ElementOfSeq
<1> QED
  BY <1>1, <1>2 DEF Sorted, Before, ToSet

-----------------------------------------------------------------------------
(* Cursors.                                                                *)

LEMMA Total ==
  ASSUME DataOK, NEW by
  PROVE  /\ \A a \in Rows : ~Before(by, a, a)
         /\ \A a, b \in Rows : a = b \/ Before(by, a, b) \/ Before(by, b, a)
         /\ \A a, b, c \in Rows : Before(by, a, b) /\ Before(by, b, c) => Before(by, a, c)
BY ReadsOrder DEF Before

\* A parameter that is not null is a cursor.
LEMMA Nulls ==
  ASSUME NEW c \in Cursor \cup {Missing, Empty}
  PROVE  /\ Truthy(c) <=> c \in Cursor
         /\ Truthy(c) => Given(c)
         /\ ~Truthy(Missing) /\ ~Given(Missing) /\ ~Truthy(Empty) /\ Given(Empty)
BY NullAssumption DEF Truthy, Given

\* The cursor made from a row divides the rows where that row does.
LEMMA CursorOfRow ==
  ASSUME DataOK, NEW by, NEW x \in Rows
  PROVE  /\ CursorAt(by, x) \in Cursor
         /\ Readable(by, CursorAt(by, x))
         /\ \A r : Later(by, r, CursorAt(by, x)) <=> Before(by, x, r)
         /\ \A r : Earlier(by, r, CursorAt(by, x)) <=> Before(by, r, x)
<1>1. SortKey(by, x) \in Nat
  BY Keys
<1>2. CursorAt(by, x) \in Cursor /\ Readable(by, CursorAt(by, x))
  BY <1>1 DEF CursorAt, Cursor, Readable, ByPrice
<1> DEFINE c == CursorAt(by, x)
<1>3. c.value = SortKey(by, x) /\ c.id = x
  BY DEF CursorAt
<1>4. \A r : (Above(by, r, c) <=> SortKey(by, r) > SortKey(by, x)
                                  \/ (SortKey(by, r) = SortKey(by, x) /\ r > x))
  BY <1>3 DEF Above
<1>5. \A r : Above(by, r, c) <=> Smaller(by, x, r)
  BY <1>4 DEF Smaller
<1>6. \A r : Below(by, r, c) <=> Smaller(by, r, x)
  BY <1>3 DEF Below, Smaller
<1> HIDE DEF c
<1>7. \A r : /\ Later(by, r, c) <=> Before(by, x, r)
             /\ Earlier(by, r, c) <=> Before(by, r, x)
  BY <1>5, <1>6 DEF Later, Earlier, Before, ReadsBefore, Descending
<1> QED
  BY <1>2, <1>7 DEF c

\* Whatever is later than a row beyond a cursor is beyond it too, whether or not
\* the row the cursor was made from is still there, or still has that key.
LEMMA Beyond ==
  ASSUME DataOK, NEW by, NEW c \in Cursor, NEW a \in Rows, NEW b \in Rows, Before(by, a, b)
  PROVE  /\ Later(by, a, c) => Later(by, b, c)
         /\ Earlier(by, b, c) => Earlier(by, a, c)
<1>1. /\ a \in Nat /\ b \in Nat /\ c.id \in Nat /\ c.value \in Nat
      /\ SortKey(by, a) \in Nat /\ SortKey(by, b) \in Nat
  BY Keys, PageAssumption DEF Cursor
<1>2. Smaller(by, a, b) => /\ Above(by, a, c) => Above(by, b, c)
                           /\ Below(by, b, c) => Below(by, a, c)
  BY <1>1 DEF Smaller, Above, Below
<1>3. Smaller(by, b, a) => /\ Above(by, b, c) => Above(by, a, c)
                           /\ Below(by, a, c) => Below(by, b, c)
  BY <1>1 DEF Smaller, Above, Below
<1> QED
  BY <1>2, <1>3 DEF Later, Earlier, Before, ReadsBefore, Descending

\* The rows a request looks through are an end of the list.
LEMMA Ends ==
  ASSUME DataOK, table \subseteq Rows, NEW by,
         NEW after \in Cursor \cup {Missing, Empty}, NEW before \in Cursor \cup {Missing, Empty}
  PROVE  /\ Seek(by, after, before) \subseteq table
         /\ Truthy(after) \/ ~Truthy(before) =>
              \A a \in Seek(by, after, before), b \in table :
                Before(by, a, b) => b \in Seek(by, after, before)
         /\ ~Truthy(after) =>
              \A a \in Seek(by, after, before), b \in table :
                Before(by, b, a) => b \in Seek(by, after, before)
<1>1. Truthy(after) => after \in Cursor
  BY Nulls
<1>2. Truthy(before) => before \in Cursor
  BY Nulls
<1>3. ASSUME NEW a \in table, NEW b \in table, Before(by, a, b)
      PROVE  /\ Truthy(after) /\ Later(by, a, after) => Later(by, b, after)
             /\ Truthy(before) /\ Earlier(by, b, before) => Earlier(by, a, before)
  BY <1>1, <1>2, <1>3, Beyond
<1> QED
  BY <1>3 DEF Seek

-----------------------------------------------------------------------------
(* One response.                                                           *)

LEMMA PageFacts ==
  ASSUME DataOK, table \subseteq Rows, NEW by, NEW n \in Nat \ {0}, NEW after, NEW before
  PROVE  LET P == Page(by, n, after, before)
             S == Seek(by, after, before)
             more == ToSet(P.items) # S
         IN /\ P.status = 200
            /\ Segment(P.items, S, by, Given(before), n)
            /\ P.hasNext <=> Given(before) \/ more
            /\ P.hasPrev <=> IF Given(before) THEN more ELSE Given(after)
            /\ P.next = IF P.hasNext /\ P.items # << >>
                        THEN CursorAt(by, P.items[Len(P.items)]) ELSE Missing
            /\ P.prev = IF P.hasPrev /\ P.items # << >>
                        THEN CursorAt(by, P.items[1]) ELSE Missing
<1> DEFINE S == Seek(by, after, before)
           backward == Given(before)
           rows == Limited(Ordered(S, by, backward), n)
           items == InListOrder(Kept(rows, n), backward)
           P == Page(by, n, after, before)
<1>1. S \in SUBSET Rows /\ backward \in BOOLEAN
  BY DEF Seek, Given
<1>2. Segment(items, S, by, backward, n) /\ (Len(rows) > n <=> ToSet(items) # S)
  <2> HIDE DEF S, backward
  <2> QED
    BY <1>1, Items
<1>3. /\ P.status = 200 /\ P.items = items
      /\ P.hasNext = (backward \/ Len(rows) > n)
      /\ P.hasPrev = IF backward THEN Len(rows) > n ELSE Given(after)
      /\ P.next = IF P.hasNext /\ items # << >> THEN CursorAt(by, items[Len(items)]) ELSE Missing
      /\ P.prev = IF P.hasPrev /\ items # << >> THEN CursorAt(by, items[1]) ELSE Missing
  <2> HIDE DEF rows, items
  <2> QED
    BY DEF Page, rows, items
<1> HIDE DEF P, S, rows, items
<1> QED
  BY <1>2, <1>3 DEF P, S

\* Every list can be had newest first, and answers a bad cursor with an error.
LEMMA Lists ==
  ASSUME endpoint \in Names
  PROVE  Listing.badCursor \in {400, 500} /\ "newest" \in Listing.sorts
<1> DEFINE Good(l) == l.badCursor \in {400, 500} /\ "newest" \in l.sorts
<1>1. Good(Newest)
  BY DEF Newest
<1>2. Good(ListUsers) /\ Good(ListProductReviews) /\ Good(ListProducts)
  BY DEF Newest, ListUsers, ListProductReviews, ListProducts
<1>3. /\ Good(GetMyOrders) /\ Good(ListMyProducts)
      /\ Good(ListSellerReviews) /\ Good(ListSellerOrders)
  BY <1>1 DEF GetMyOrders, ListMyProducts, ListSellerReviews, ListSellerOrders
<1>4. Listing \in {GetMyOrders, ListMyProducts, ListSellerReviews, ListSellerOrders,
                   ListUsers, ListProductReviews, ListProducts}
  BY EndpointAssumption DEF Listing, Endpoints
<1>5. Good(Listing)
  <2> HIDE DEF Good
  <2> QED
    BY <1>2, <1>3, <1>4
<1> QED
  BY <1>5

\* A request that is not answered with a page is answered with an error.
LEMMA Answers ==
  ASSUME endpoint \in Names, NEW by, NEW n, NEW after, NEW before
  PROVE  \/ \E code \in {400, 500} : Response(by, n, after, before) = Error(code)
         \/ /\ Response(by, n, after, before) = Page(by, n, after, before)
            /\ ~(Truthy(after) /\ Truthy(before))
            /\ \A c \in {after, before} : Truthy(c) => Readable(by, c)
BY Lists DEF Response

LEMMA Errors ==
  ASSUME NEW code
  PROVE  /\ Error(code).status = code /\ Error(code).items = << >>
         /\ Error(code).next = Missing /\ Error(code).prev = Missing
BY DEF Error

\* What a page of a request's answer has, whatever the request.
LEMMA Rows200 ==
  ASSUME DataOK, table \subseteq Rows, NEW by, NEW n \in Nat \ {0}, NEW after, NEW before
  PROVE  LET P == Page(by, n, after, before)
         IN /\ P.items \in Seq(Rows) /\ ToSet(P.items) \subseteq Rows
            /\ Len(P.items) \in Nat /\ Len(P.items) <= n
            /\ {P.next, P.prev} \subseteq Cursor \cup {Missing}
<1> DEFINE P == Page(by, n, after, before)
           S == Seek(by, after, before)
<1>1. /\ Segment(P.items, S, by, Given(before), n)
      /\ P.next = IF P.hasNext /\ P.items # << >>
                  THEN CursorAt(by, P.items[Len(P.items)]) ELSE Missing
      /\ P.prev = IF P.hasPrev /\ P.items # << >>
                  THEN CursorAt(by, P.items[1]) ELSE Missing
  BY PageFacts
<1>2. S \subseteq Rows
  BY DEF Seek
<1> HIDE DEF P, S
<1>3. P.items \in Seq(Rows) /\ Sorted(P.items, by, FALSE) /\ Len(P.items) <= n
  BY <1>1, <1>2, SeqMonotonic DEF Segment
<1>4. /\ DOMAIN P.items = 1..Len(P.items) /\ Len(P.items) \in Nat
      /\ \A i \in 1..Len(P.items) : P.items[i] \in Rows
  BY <1>3, Positions
<1>5. ToSet(P.items) \subseteq Rows
  BY <1>4 DEF ToSet
<1>6. P.items # << >> => 1 \in 1..Len(P.items) /\ Len(P.items) \in 1..Len(P.items)
  BY <1>3, <1>4, EmptySeq
<1>7. P.items # << >> => /\ CursorAt(by, P.items[1]) \in Cursor
                         /\ CursorAt(by, P.items[Len(P.items)]) \in Cursor
  BY <1>4, <1>6, CursorOfRow
<1>8. {P.next, P.prev} \subseteq Cursor \cup {Missing}
  BY <1>1, <1>7
<1> QED
  BY <1>3, <1>4, <1>5, <1>8 DEF P

-----------------------------------------------------------------------------
(* Pages and the rows around them.                                         *)

LEMMA RowsIn ==
  ASSUME NEW items \in Seq(Rows), NEW U, ToSet(items) \subseteq U
  PROVE  items \in Seq(U)
<1>1. Len(items) \in Nat /\ items \in [1..Len(items) -> Rows]
  BY LenProperties
<1>2. items \in [1..Len(items) -> U]
  BY <1>1 DEF ToSet
<1> QED
  BY <1>1, <1>2, SeqDef

\* The rows of a page in relation to its first and its last, and to the rest.
LEMMA SegmentRows ==
  ASSUME DataOK, NEW by, NEW backward, NEW S \in SUBSET Rows,
         NEW n \in Nat \ {0}, NEW items, Segment(items, S, by, backward, n)
  PROVE  /\ items \in Seq(Rows) /\ ToSet(items) \subseteq S
         /\ ToSet(items) # S => items # << >>
         /\ \A r \in S \ ToSet(items), x \in ToSet(items) : ReadsBefore(by, backward, x, r)
         /\ items # << >> =>
              /\ items[1] \in ToSet(items) /\ items[Len(items)] \in ToSet(items)
              /\ \A x \in ToSet(items) :
                   /\ x = items[1] \/ Before(by, items[1], x)
                   /\ x = items[Len(items)] \/ Before(by, x, items[Len(items)])
<1>1. items \in Seq(S) /\ items \in Seq(Rows) /\ Sorted(items, by, FALSE)
  BY SeqMonotonic DEF Segment
<1> DEFINE l == Len(items)
<1>2. /\ DOMAIN items = 1..l /\ l \in Nat
      /\ \A i \in 1..l : items[i] \in ToSet(items)
      /\ \A r \in ToSet(items) : \E i \in 1..l : items[i] = r
      /\ \A i, j \in 1..l : i < j => Before(by, items[i], items[j])
  BY <1>1, Positions
<1>3. ToSet(items) \subseteq S
  BY <1>1, <1>2, ElementOfSeq DEF ToSet
<1>4. ToSet(items) # S => items # << >>
  BY <1>1, EmptySeq DEF Segment
<1>5. \A r \in S \ ToSet(items), x \in ToSet(items) : ReadsBefore(by, backward, x, r)
  BY DEF Segment, RestBeyond
<1>6. ASSUME items # << >>
      PROVE  /\ items[1] \in ToSet(items) /\ items[l] \in ToSet(items)
             /\ \A x \in ToSet(items) : /\ x = items[1] \/ Before(by, items[1], x)
                                        /\ x = items[l] \/ Before(by, x, items[l])
  <2>1. 1 \in 1..l /\ l \in 1..l
    BY <1>1, <1>2, <1>6, EmptySeq
  <2> HIDE DEF l
  <2>2. ASSUME NEW i \in 1..l
        PROVE  /\ items[i] = items[1] \/ Before(by, items[1], items[i])
               /\ items[i] = items[l] \/ Before(by, items[i], items[l])
    <3>1. (i = 1 \/ 1 < i) /\ (i = l \/ i < l)
      BY <1>2
    <3> QED
      BY <2>1, <3>1, <1>2
  <2> QED
    BY <2>1, <2>2, <1>2
<1> QED
  BY <1>1, <1>3, <1>4, <1>5, <1>6

\* Beyond the last row of a page that was not asked for backward are just the
\* rows the request had no room for.
LEMMA AfterLast ==
  ASSUME DataOK, table \subseteq Rows, NEW by, NEW n \in Nat \ {0},
         NEW after \in Cursor \cup {Missing, Empty}, NEW before \in Cursor \cup {Missing, Empty},
         ~Given(before), NEW items, items # << >>,
         Segment(items, Seek(by, after, before), by, FALSE, n)
  PROVE  \A r \in table : Before(by, items[Len(items)], r)
                            <=> r \in Seek(by, after, before) \ ToSet(items)
<1> DEFINE S == Seek(by, after, before)
           last == items[Len(items)]
<1>1. S \subseteq table /\ \A a \in S, b \in table : Before(by, a, b) => b \in S
  BY Ends, Nulls
<1> HIDE DEF S
<1>2. /\ ToSet(items) \subseteq S /\ last \in ToSet(items)
      /\ \A r \in S \ ToSet(items), x \in ToSet(items) : Before(by, x, r)
      /\ \A x \in ToSet(items) : x = last \/ Before(by, x, last)
  BY <1>1, SegmentRows DEF S, Before
<1> HIDE DEF last
<1> SUFFICES ASSUME NEW r \in table
             PROVE  Before(by, last, r) <=> r \in S \ ToSet(items)
  BY DEF S, last
<1>3. r \in S \ ToSet(items) => Before(by, last, r)
  BY <1>2
<1>4. r \in ToSet(items) => ~Before(by, last, r)
  BY <1>1, <1>2, Total
<1> QED
  BY <1>1, <1>2, <1>3, <1>4

\* Before the first row of a page asked for backward, the same.
LEMMA BeforeFirst ==
  ASSUME DataOK, table \subseteq Rows, NEW by, NEW n \in Nat \ {0},
         NEW after \in Cursor \cup {Missing, Empty}, NEW before \in Cursor \cup {Missing, Empty},
         ~Truthy(after), NEW items, items # << >>,
         Segment(items, Seek(by, after, before), by, TRUE, n)
  PROVE  \A r \in table : Before(by, r, items[1])
                            <=> r \in Seek(by, after, before) \ ToSet(items)
<1> DEFINE S == Seek(by, after, before)
           first == items[1]
<1>1. S \subseteq table /\ \A a \in S, b \in table : Before(by, b, a) => b \in S
  BY Ends
<1> HIDE DEF S
<1>2. /\ ToSet(items) \subseteq S /\ first \in ToSet(items)
      /\ \A r \in S \ ToSet(items), x \in ToSet(items) : Before(by, r, x)
      /\ \A x \in ToSet(items) : x = first \/ Before(by, first, x)
  BY <1>1, SegmentRows, Mirrored DEF S, Before
<1> HIDE DEF first
<1> SUFFICES ASSUME NEW r \in table
             PROVE  Before(by, r, first) <=> r \in S \ ToSet(items)
  BY DEF S, first
<1>3. r \in S \ ToSet(items) => Before(by, r, first)
  BY <1>2
<1>4. r \in ToSet(items) => ~Before(by, r, first)
  BY <1>1, <1>2, Total
<1> QED
  BY <1>1, <1>2, <1>3, <1>4

-----------------------------------------------------------------------------
(* A request has one answer.                                               *)

\* The first i items of a page are i rows.
LEMMA Placed ==
  ASSUME DataOK, NEW by, NEW items \in Seq(Rows), Sorted(items, by, FALSE),
         NEW i \in 0..Len(items)
  PROVE  Cardinality({items[j] : j \in 1..i}) = i
<1> DEFINE T == {items[j] : j \in 1..i}
           f == [j \in 1..i |-> items[j]]
<1>1. /\ Len(items) \in Nat /\ \A j \in 1..Len(items) : items[j] \in Rows
      /\ \A j, k \in 1..Len(items) : j < k => Before(by, items[j], items[k])
  BY Positions
<1>2. i \in Nat /\ \A j \in 1..i : j \in 1..Len(items)
  BY <1>1
<1>3. T \in SUBSET Rows
  BY <1>1, <1>2
<1>4. IsFiniteSet(T)
  <2> HIDE DEF T
  <2> QED
    BY <1>3, Sizes
<1>9. IsFiniteSet(1..i) /\ Cardinality(1..i) = i
  BY <1>2, FS_Interval
<1>5. f \in [1..i -> T]
  OBVIOUS
<1>6. \A j, k \in 1..i : f[j] = f[k] => j = k
  <2> SUFFICES ASSUME NEW j \in 1..i, NEW k \in 1..i, items[j] = items[k], j < k PROVE FALSE
    BY <1>2
  <2> QED
    BY <1>1, <1>2, Total
<1>7. \A x \in T : \E j \in 1..i : f[j] = x
  OBVIOUS
<1> HIDE DEF f, T
<1>8. f \in Injection(1..i, T) /\ f \in Surjection(1..i, T)
  BY <1>5, <1>6, <1>7, Fun_IsInj, Fun_IsSurj
<1> QED
  BY <1>4, <1>8, <1>9, FS_Injection DEF T

\* Rows in order are in one order.
LEMMA SameRows ==
  ASSUME DataOK, NEW by, NEW a \in Seq(Rows), NEW b \in Seq(Rows),
         Sorted(a, by, FALSE), Sorted(b, by, FALSE), ToSet(a) = ToSet(b)
  PROVE  a = b
<1> DEFINE A == ToSet(a)
<1>1. ASSUME NEW s \in Seq(Rows), Sorted(s, by, FALSE), ToSet(s) = A
      PROVE  /\ DOMAIN s = 1..Len(s) /\ Len(s) \in Nat /\ Len(s) = Cardinality(A)
             /\ \A i \in 1..Len(s) :
                  s[i] \in A /\ s[i] \in Rows /\ Cardinality(Upto(A, by, FALSE, s[i])) = i
  <2> HIDE DEF A
  <2>1. /\ DOMAIN s = 1..Len(s) /\ Len(s) \in Nat
        /\ \A i \in 1..Len(s) : s[i] \in Rows /\ s[i] \in A
        /\ \A r \in A : \E i \in 1..Len(s) : s[i] = r
        /\ \A i, j \in 1..Len(s) : i < j => Before(by, s[i], s[j])
    BY <1>1, Positions
  <2>2. A = {s[j] : j \in 1..Len(s)}
    BY <2>1
  <2>3. Len(s) = Cardinality(A)
    <3>1. Len(s) \in 0..Len(s)
      BY <2>1
    <3> QED
      BY <3>1, <2>2, <1>1, Placed
  <2>4. ASSUME NEW i \in 1..Len(s) PROVE Cardinality(Upto(A, by, FALSE, s[i])) = i
    <3>1. \A j \in 1..Len(s) : (s[j] = s[i] \/ Before(by, s[j], s[i])) <=> j \in 1..i
      <4> SUFFICES ASSUME NEW j \in 1..Len(s)
                   PROVE  (s[j] = s[i] \/ Before(by, s[j], s[i])) <=> j \in 1..i
        OBVIOUS
      <4>1. CASE j = i
        BY <4>1
      <4>2. CASE j < i
        BY <4>2, <2>1
      <4>3. CASE i < j
        <5>1. Before(by, s[i], s[j]) /\ s[i] \in Rows /\ s[j] \in Rows
          BY <4>3, <2>1
        <5>2. s[j] # s[i] /\ ~Before(by, s[j], s[i])
          BY <5>1, Total
        <5> QED
          BY <4>3, <5>2
      <4> QED
        BY <2>1, <4>1, <4>2, <4>3
    <3>2. \A j \in 1..i : j \in 1..Len(s)
      BY <2>1
    <3>3. Upto(A, by, FALSE, s[i]) = {s[j] : j \in 1..i}
      BY <2>1, <2>2, <3>1, <3>2 DEF Upto, Before
    <3>4. i \in 0..Len(s)
      BY <2>1
    <3> QED
      BY <3>3, <3>4, <1>1, Placed
  <2> QED
    BY <2>1, <2>3, <2>4
<1>2. A \in SUBSET Rows
  BY Positions DEF ToSet
<1> HIDE DEF A
<1>3. /\ DOMAIN a = 1..Len(a) /\ Len(a) = Cardinality(A) /\ Len(a) \in Nat
      /\ \A i \in 1..Len(a) :
           a[i] \in A /\ a[i] \in Rows /\ Cardinality(Upto(A, by, FALSE, a[i])) = i
  BY <1>1 DEF A
<1>4. /\ DOMAIN b = 1..Len(b) /\ Len(b) = Cardinality(A)
      /\ \A i \in 1..Len(b) :
           b[i] \in A /\ b[i] \in Rows /\ Cardinality(Upto(A, by, FALSE, b[i])) = i
  BY <1>1 DEF A
<1>5. ASSUME NEW i \in 1..Len(a) PROVE a[i] = b[i]
  <2>1. /\ a[i] \in A /\ a[i] \in Rows /\ b[i] \in A /\ b[i] \in Rows
        /\ Cardinality(Upto(A, by, FALSE, a[i])) = i
        /\ Cardinality(Upto(A, by, FALSE, b[i])) = i
    BY <1>3, <1>4
  <2>2. i \in Nat /\ ~(i < i)
    BY <1>3
  <2>3. ~ReadsBefore(by, FALSE, a[i], b[i]) /\ ~ReadsBefore(by, FALSE, b[i], a[i])
    BY <1>2, <2>1, <2>2, Ranks
  <2> QED
    BY <2>1, <2>3, ReadsOrder
<1>6. a \in [1..Len(a) -> Rows] /\ b \in [1..Len(a) -> Rows]
  BY <1>3, <1>4, LenProperties
<1> QED
  BY <1>5, <1>6

\* Two pages that answer one request are the same page.
LEMMA OneAnswer ==
  ASSUME DataOK, NEW by, NEW backward \in BOOLEAN, NEW S \in SUBSET Rows, NEW n \in Nat \ {0},
         NEW a, Segment(a, S, by, backward, n), NEW b, Segment(b, S, by, backward, n)
  PROVE  a = b
<1>1. /\ a \in Seq(Rows) /\ b \in Seq(Rows) /\ ToSet(a) \subseteq S /\ ToSet(b) \subseteq S
      /\ \A r \in S \ ToSet(a), x \in ToSet(a) : ReadsBefore(by, backward, x, r)
      /\ \A r \in S \ ToSet(b), x \in ToSet(b) : ReadsBefore(by, backward, x, r)
  BY SegmentRows
<1>2. Sorted(a, by, FALSE) /\ Sorted(b, by, FALSE)
  BY DEF Segment
<1>3. ASSUME NEW s \in Seq(Rows), Segment(s, S, by, backward, n)
      PROVE  Len(s) \in Nat /\ Cardinality(ToSet(s)) = Len(s)
  <2>1. /\ DOMAIN s = 1..Len(s) /\ Len(s) \in Nat
    BY <1>3, LenProperties
  <2>2. ToSet(s) = {s[j] : j \in 1..Len(s)}
    BY <2>1 DEF ToSet
  <2>3. Len(s) \in 0..Len(s)
    BY <2>1
  <2> QED
    BY <2>1, <2>2, <2>3, <1>3, Placed DEF Segment
<1>4. /\ Cardinality(ToSet(a)) = Len(a) /\ Cardinality(ToSet(b)) = Len(b)
      /\ Len(a) \in Nat /\ Len(b) \in Nat /\ Len(a) <= n /\ Len(b) <= n
      /\ ToSet(a) # S => Len(a) = n
      /\ ToSet(b) # S => Len(b) = n
  BY <1>1, <1>3 DEF Segment
<1>5. ToSet(a) = ToSet(b)
  <2>1. CASE ToSet(a) \subseteq ToSet(b) \/ ToSet(b) \subseteq ToSet(a)
    <3>1. ASSUME ToSet(a) \subseteq ToSet(b), ToSet(a) # ToSet(b) PROVE FALSE
      <4>1. ToSet(a) # S /\ Len(a) = n
        BY <1>1, <1>4, <3>1
      <4>2. Len(b) = n
        BY <1>4, <3>1, <4>1, <1>1, Sizes
      <4> QED
        BY <1>1, <1>4, <3>1, <4>1, <4>2, Sizes
    <3>2. ASSUME ToSet(b) \subseteq ToSet(a), ToSet(a) # ToSet(b) PROVE FALSE
      <4>1. ToSet(b) # S /\ Len(b) = n
        BY <1>1, <1>4, <3>2
      <4>2. Len(a) = n
        BY <1>4, <3>2, <4>1, <1>1, Sizes
      <4> QED
        BY <1>1, <1>4, <3>2, <4>1, <4>2, Sizes
    <3> QED
      BY <2>1, <3>1, <3>2
  <2>2. ASSUME NEW x \in ToSet(a) \ ToSet(b), NEW y \in ToSet(b) \ ToSet(a) PROVE FALSE
    <3>1. x \in Rows /\ y \in Rows /\ x \in S \ ToSet(b) /\ y \in S \ ToSet(a)
      BY <1>1, <2>2
    <3>2. ReadsBefore(by, backward, x, y) /\ ReadsBefore(by, backward, y, x)
      BY <1>1, <2>2, <3>1
    <3> QED
      BY <3>1, <3>2, ReadsOrder
  <2> QED
    BY <2>1, <2>2
<1> QED
  BY <1>1, <1>2, <1>5, SameRows

-----------------------------------------------------------------------------
(* The inductive invariant.                                                *)

\* The rows up to x in the list.
UptoRow(by, x) == {r \in table : ~Before(by, x, r)}

Kinds ==
  /\ DataOK
  /\ page.items \in Seq(Rows)

\* The next cursor was made from the last row of the page.  With nothing changed
\* since, the page holds the last rows up to there, as many as fit, unless that
\* row is the last of the list.
PageInv ==
  (fresh /\ Truthy(page.next)) =>
    /\ page.items # << >>
    /\ page.next = CursorAt(sort, page.items[Len(page.items)])
    /\ LET upto == UptoRow(sort, page.items[Len(page.items)])
       IN Segment(page.items, upto, sort, TRUE, limit) \/ upto = table

\* The page left by "next" is what its "previous" asks for.
OriginInv ==
  (origin # << >> /\ Truthy(page.prev)) =>
    /\ Readable(sort, page.prev)
    /\ Segment(origin, Seek(sort, Missing, page.prev), sort, TRUE, limit)

IInv == TypeOK /\ Kinds /\ SteadySeenOnce /\ MoreIsExact /\ PageInv /\ OriginInv

\* The order of rows, and what is made of it, depends on their keys alone.
LEMMA SameBefore ==
  ASSUME created' = created, price' = price, NEW by, NEW a, NEW b
  PROVE  Before(by, a, b)' <=> Before(by, a, b)
BY DEF Before, ReadsBefore, Smaller, SortKey

LEMMA SameSegment ==
  ASSUME created' = created, price' = price,
         NEW items, NEW S, NEW by, NEW backward, NEW n
  PROVE  Segment(items, S, by, backward, n)' <=> Segment(items, S, by, backward, n)
BY DEF Segment, RestBeyond, Sorted, ReadsBefore, Smaller, SortKey

LEMMA SameCursor ==
  ASSUME created' = created, price' = price, NEW by, NEW r, NEW c
  PROVE  /\ CursorAt(by, r)' = CursorAt(by, r)
         /\ Later(by, r, c)' <=> Later(by, r, c)
         /\ Earlier(by, r, c)' <=> Earlier(by, r, c)
BY DEF CursorAt, Later, Earlier, Above, Below, SortKey

LEMMA SameRowsAsked ==
  ASSUME created' = created, price' = price, table' = table,
         NEW by, NEW after, NEW before, NEW x
  PROVE  /\ Seek(by, after, before)' = Seek(by, after, before)
         /\ UptoRow(by, x)' = UptoRow(by, x)
BY SameBefore, SameCursor DEF Seek, UptoRow

LEMMA InitOK == Init => IInv
<1> SUFFICES ASSUME Init PROVE IInv
  OBVIOUS
<1>1. endpoint \in Names /\ "newest" \in Listing.sorts
  BY Lists DEF Init
<1>2. page = Error(0) /\ page.status = 0 /\ page.items = << >> /\ page.next = Missing
      /\ page.prev = Missing /\ dir = "none" /\ steady = {} /\ origin = << >>
  BY Errors DEF Init
<1>3. DataOK
  <2>1. (IF endpoint = "list_products" THEN Prices ELSE {0}) \subseteq Nat
    BY PageAssumption
  <2>2. created \in [Rows -> Nat] /\ parentGone = FALSE
    BY PageAssumption DEF Init
  <2>3. price \in [Rows -> IF endpoint = "list_products" THEN Prices ELSE {0}]
    BY DEF Init
  <2>4. price \in [Rows -> Nat]
    BY <2>1, <2>3
  <2> QED
    BY <2>2, <2>4 DEF DataOK
<1>4. << >> \in Seq(Rows) /\ ToSet(<< >>) = {} /\ Len(<< >>) = 0
  BY EmptySeq DEF ToSet
<1>5. TypeOK
  BY <1>1, <1>2, <1>4 DEF Init, TypeOK, Many
<1>6. ~Truthy(page.next) /\ ~Truthy(page.prev)
  BY <1>2, Nulls
<1> QED
  BY <1>2, <1>3, <1>4, <1>5, <1>6
     DEF IInv, Kinds, SteadySeenOnce, MoreIsExact, PageInv, OriginInv

\* An error ends the walk.
LEMMA Refused ==
  ASSUME IInv, NEW by \in Listing.sorts, NEW n \in Limits, NEW after, NEW before,
         NEW code \in {400, 404, 500}, page' = Error(code), sort' = by, limit' = n,
         Walk(by, n, after, before), UNCHANGED <<endpoint, data>>
  PROVE  IInv'
<1>1. /\ page'.status = code /\ page'.items = << >>
      /\ page'.next = Missing /\ page'.prev = Missing
  BY Errors
<1>2. dir' = "none" /\ steady' = {} /\ seen' = [r \in Rows |-> 0]
  BY <1>1 DEF Walk
<1>3. << >> \in Seq(Rows) /\ ToSet(<< >>) = {} /\ Len(<< >>) = 0
  BY EmptySeq DEF ToSet
<1>4. /\ endpoint' = endpoint /\ created' = created /\ price' = price
      /\ table' = table /\ parentGone' = parentGone /\ Listing' = Listing
  BY DEF data, Listing
<1>5. TypeOK'
  <2>1. n \in Nat /\ n \in Limits
    BY PageAssumption
  <2> QED
    BY <1>1, <1>2, <1>3, <1>4, <2>1 DEF IInv, TypeOK, Many
<1>6. ~Truthy(page'.next) /\ ~Truthy(page'.prev)
  BY <1>1, Nulls
<1>7. Kinds'
  BY <1>1, <1>3, <1>4 DEF IInv, Kinds, DataOK
<1>8. SteadySeenOnce' /\ MoreIsExact' /\ PageInv' /\ OriginInv'
  BY <1>2, <1>6 DEF SteadySeenOnce, MoreIsExact, PageInv, OriginInv, Truthy
<1> QED
  BY <1>5, <1>7, <1>8 DEF IInv

-----------------------------------------------------------------------------
(* A page keeps the invariant.                                             *)

\* What a request for a page starts from, and what it leaves.
Served(by, n, after, before) ==
  /\ by \in Listing.sorts /\ n \in Limits
  /\ after \in Optional(page.next) /\ before \in Optional(page.prev)
  /\ ~(Truthy(after) /\ Truthy(before))
  /\ \A c \in {after, before} : Truthy(c) => Readable(by, c)
  /\ page' = Page(by, n, after, before)
  /\ sort' = by /\ limit' = n
  /\ Walk(by, n, after, before)
  /\ UNCHANGED <<endpoint, data>>

LEMMA ServedFacts ==
  ASSUME IInv, NEW by, NEW n, NEW after, NEW before, Served(by, n, after, before)
  PROVE  /\ DataOK /\ table \subseteq Rows /\ n \in Nat \ {0} /\ limit \in Nat
         /\ after \in Cursor \cup {Missing, Empty} /\ before \in Cursor \cup {Missing, Empty}
         /\ endpoint' = endpoint /\ created' = created /\ price' = price
         /\ table' = table /\ parentGone' = parentGone /\ Listing' = Listing
         /\ page'.status = 200
         /\ dir' = Direction(after, before)
         /\ Segment(page'.items, Seek(by, after, before), by, Given(before), n)
         /\ page'.hasNext <=> Given(before) \/ ToSet(page'.items) # Seek(by, after, before)
         /\ page'.hasPrev <=> IF Given(before) THEN ToSet(page'.items) # Seek(by, after, before)
                                               ELSE Given(after)
         /\ page'.next = IF page'.hasNext /\ page'.items # << >>
                         THEN CursorAt(by, page'.items[Len(page'.items)]) ELSE Missing
         /\ page'.prev = IF page'.hasPrev /\ page'.items # << >>
                         THEN CursorAt(by, page'.items[1]) ELSE Missing
<1>1. DataOK /\ table \subseteq Rows /\ n \in Nat \ {0} /\ limit \in Nat
  BY PageAssumption DEF IInv, Kinds, TypeOK, Served
<1>2. after \in Cursor \cup {Missing, Empty} /\ before \in Cursor \cup {Missing, Empty}
  BY EndpointAssumption DEF IInv, TypeOK, Served, Optional
<1>3. /\ endpoint' = endpoint /\ created' = created /\ price' = price
      /\ table' = table /\ parentGone' = parentGone /\ Listing' = Listing
  BY DEF Served, data, Listing
<1>4. page' = Page(by, n, after, before)
  BY DEF Served
<1>5. /\ page'.status = 200
      /\ Segment(page'.items, Seek(by, after, before), by, Given(before), n)
      /\ page'.hasNext <=> Given(before) \/ ToSet(page'.items) # Seek(by, after, before)
      /\ page'.hasPrev <=> IF Given(before) THEN ToSet(page'.items) # Seek(by, after, before)
                                            ELSE Given(after)
      /\ page'.next = IF page'.hasNext /\ page'.items # << >>
                      THEN CursorAt(by, page'.items[Len(page'.items)]) ELSE Missing
      /\ page'.prev = IF page'.hasPrev /\ page'.items # << >>
                      THEN CursorAt(by, page'.items[1]) ELSE Missing
  BY <1>1, <1>4, PageFacts
<1>6. dir' = Direction(after, before)
  BY <1>5 DEF Served, Walk
<1> QED
  BY <1>1, <1>2, <1>3, <1>5, <1>6

LEMMA ServedTypes ==
  ASSUME IInv, NEW by, NEW n, NEW after, NEW before, Served(by, n, after, before)
  PROVE  TypeOK' /\ Kinds'
<1>1. /\ page'.items \in Seq(Rows) /\ ToSet(page'.items) \subseteq Rows
      /\ Len(page'.items) <= n /\ {page'.next, page'.prev} \subseteq Cursor \cup {Missing}
  <2>1. /\ DataOK /\ table \subseteq Rows /\ n \in Nat \ {0}
        /\ page' = Page(by, n, after, before)
    BY ServedFacts DEF Served
  <2> QED
    BY <2>1, Rows200
<1>2. dir' \in {"none", "forward", "backward"} /\ page'.status = 200
  BY ServedFacts DEF Direction
<1>3. Seek(by, after, before) \subseteq table /\ table' = table /\ steady \subseteq table
  BY ServedFacts, Ends DEF IInv, TypeOK
<1>4. steady' \subseteq table'
  BY <1>3 DEF Served, Walk
<1>5. \A r, c : c \in 0..Many => Shown(r, c) \in 0..Many
  BY DEF Shown, Many
<1>6. seen' \in [Rows -> 0..Many]
  <2>1. seen \in [Rows -> 0..Many] /\ 0 \in 0..Many
    BY DEF IInv, TypeOK, Many
  <2> QED
    BY <2>1, <1>5 DEF Served, Walk
<1>7. Kinds'
  BY <1>1, ServedFacts DEF Kinds, DataOK
<1> QED
  BY <1>1, <1>2, <1>3, <1>4, <1>6, <1>7, ServedFacts DEF Served, IInv, TypeOK

\* What lies beyond a page in its direction is what the request had no room for:
\* its cursor is there just when there is any, and divides it off.
LEMMA Onward ==
  ASSUME IInv, NEW by, NEW n, NEW after, NEW before, Served(by, n, after, before),
         NEW r \in table
  PROVE  /\ Direction(after, before) = "forward" =>
              ((Truthy(page'.next) /\ Later(by, r, page'.next))
                 <=> r \in Seek(by, after, before) \ ToSet(page'.items))
         /\ Direction(after, before) = "backward" =>
              ((Truthy(page'.prev) /\ Earlier(by, r, page'.prev))
                 <=> r \in Seek(by, after, before) \ ToSet(page'.items))
<1> DEFINE S == Seek(by, after, before)
           items == page'.items
<1>1. /\ DataOK /\ table \subseteq Rows /\ n \in Nat \ {0} /\ S \in SUBSET Rows
      /\ after \in Cursor \cup {Missing, Empty} /\ before \in Cursor \cup {Missing, Empty}
      /\ Segment(items, S, by, Given(before), n)
  <2>1. S \subseteq table
    BY DEF Seek
  <2> HIDE DEF S
  <2>2. DataOK /\ table \subseteq Rows /\ n \in Nat \ {0}
    BY ServedFacts
  <2>3. after \in Cursor \cup {Missing, Empty} /\ before \in Cursor \cup {Missing, Empty}
    BY ServedFacts
  <2>4. Segment(items, S, by, Given(before), n)
    BY ServedFacts DEF S
  <2> QED
    BY <2>1, <2>2, <2>3, <2>4
<1>2. /\ page'.hasNext <=> Given(before) \/ ToSet(items) # S
      /\ page'.hasPrev <=> IF Given(before) THEN ToSet(items) # S ELSE Given(after)
      /\ page'.next = IF page'.hasNext /\ items # << >>
                      THEN CursorAt(by, items[Len(items)]) ELSE Missing
      /\ page'.prev = IF page'.hasPrev /\ items # << >>
                      THEN CursorAt(by, items[1]) ELSE Missing
  BY ServedFacts
<1> HIDE DEF S, items
<1>3. /\ ToSet(items) \subseteq S /\ (ToSet(items) # S => items # << >>)
      /\ items # << >> => /\ items[1] \in ToSet(items)
                          /\ items[Len(items)] \in ToSet(items)
  BY <1>1, SegmentRows
<1>4. ASSUME Direction(after, before) = "forward"
      PROVE  (Truthy(page'.next) /\ Later(by, r, page'.next)) <=> r \in S \ ToSet(items)
  <2>1. ~Given(before) /\ Given(before) = FALSE
    BY <1>4 DEF Direction, Given
  <2>2. CASE ToSet(items) = S
    <3>1. page'.next = Missing
      BY <1>2, <2>1, <2>2
    <3> QED
      BY <3>1, <2>2, Nulls
  <2>3. CASE ToSet(items) # S
    <3> DEFINE last == items[Len(items)]
    <3>1. page'.next = CursorAt(by, last) /\ items # << >> /\ last \in Rows
      BY <1>1, <1>2, <1>3, <2>3
    <3>4. Segment(items, S, by, FALSE, n)
      BY <1>1, <2>1
    <3>2. Before(by, last, r) <=> r \in S \ ToSet(items)
      BY <1>1, <2>1, <3>1, <3>4, AfterLast DEF S
    <3>3. Truthy(page'.next) /\ (Later(by, r, page'.next) <=> Before(by, last, r))
      BY <1>1, <3>1, CursorOfRow, Nulls
    <3> QED
      BY <3>2, <3>3
  <2> QED
    BY <2>2, <2>3
<1>5. ASSUME Direction(after, before) = "backward"
      PROVE  (Truthy(page'.prev) /\ Earlier(by, r, page'.prev)) <=> r \in S \ ToSet(items)
  <2>1. Given(before) = TRUE /\ ~Truthy(after)
    BY <1>5 DEF Direction, Given
  <2>2. CASE ToSet(items) = S
    <3>1. page'.prev = Missing
      BY <1>2, <2>1, <2>2
    <3> QED
      BY <3>1, <2>2, Nulls
  <2>3. CASE ToSet(items) # S
    <3> DEFINE first == items[1]
    <3>1. page'.prev = CursorAt(by, first) /\ items # << >> /\ first \in Rows
      BY <1>1, <1>2, <1>3, <2>1, <2>3
    <3>4. Segment(items, S, by, TRUE, n)
      BY <1>1, <2>1
    <3>2. Before(by, r, first) <=> r \in S \ ToSet(items)
      BY <1>1, <2>1, <3>1, <3>4, BeforeFirst DEF S
    <3>3. Truthy(page'.prev) /\ (Earlier(by, r, page'.prev) <=> Before(by, r, first))
      BY <1>1, <3>1, CursorOfRow, Nulls
    <3> QED
      BY <3>2, <3>3
  <2> QED
    BY <2>2, <2>3
<1> QED
  BY <1>4, <1>5 DEF S, items

LEMMA ServedSeen ==
  ASSUME IInv, NEW by, NEW n, NEW after, NEW before, Served(by, n, after, before)
  PROVE  SteadySeenOnce'
<1> DEFINE S == Seek(by, after, before)
           items == page'.items
           onward == Continues(by, after, before)
           d == Direction(after, before)
<1>1. /\ DataOK /\ table \subseteq Rows /\ dir' = d /\ sort' = by
      /\ created' = created /\ price' = price /\ table' = table
      /\ steady \subseteq table /\ S \subseteq table
      /\ Segment(items, S, by, Given(before), n) /\ n \in Nat \ {0}
  <2>1. S \subseteq table
    BY DEF Seek
  <2>2. steady \subseteq table /\ sort' = by
    BY DEF Served, IInv, TypeOK
  <2> HIDE DEF S
  <2>3. DataOK /\ table \subseteq Rows /\ dir' = d /\ n \in Nat \ {0}
    BY ServedFacts
  <2>4. created' = created /\ price' = price /\ table' = table
    BY ServedFacts
  <2>5. Segment(items, S, by, Given(before), n)
    BY ServedFacts DEF S
  <2> QED
    BY <2>1, <2>2, <2>3, <2>4, <2>5
<1>2. /\ steady' = IF d = "none" THEN {} ELSE IF onward THEN steady ELSE S
      /\ seen' = [r \in Rows |-> IF d = "none" THEN 0
                                 ELSE Shown(r, IF onward THEN seen[r] ELSE 0)]
  BY <1>1 DEF Served, Walk
<1>3. SUFFICES ASSUME NEW r \in steady' PROVE seen'[r] = IF Ahead(r)' THEN 0 ELSE 1
  BY DEF SteadySeenOnce
<1> DEFINE count == IF onward THEN seen[r] ELSE 0
<1>4. d \in {"forward", "backward"} /\ r \in table /\ r \in Rows
  BY <1>1, <1>2, <1>3 DEF Direction
<1>5. count = IF r \in S THEN 0 ELSE 1
  <2>1. CASE ~onward
    BY <2>1, <1>2, <1>3, <1>4
  <2>2. CASE onward
    <3>1. seen[r] = IF Ahead(r) THEN 0 ELSE 1
      BY <2>2, <1>2, <1>3, <1>4 DEF IInv, SteadySeenOnce
    <3>2. Ahead(r) <=> r \in S
      BY <2>2, <1>4, Nulls DEF Continues, Direction, Ahead, Seek, Truthy, Given
    <3> QED
      BY <2>2, <3>1, <3>2
  <2> QED
    BY <2>1, <2>2
<1>6. Ahead(r)' <=> r \in S \ ToSet(items)
  <2>1. Ahead(r)' <=> IF d = "forward" THEN Truthy(page'.next) /\ Later(by, r, page'.next)
                                       ELSE Truthy(page'.prev) /\ Earlier(by, r, page'.prev)
    BY <1>1, SameCursor DEF Ahead, Truthy
  <2> QED
    BY <1>4, <2>1, Onward
<1>7. ToSet(items) \subseteq S
  <2>1. S \in SUBSET Rows
    BY <1>1
  <2> QED
    BY <1>1, <2>1, SegmentRows
<1>8. seen'[r] = Shown(r, count)
  BY <1>2, <1>4
<1>9. seen'[r] = count + (IF r \in ToSet(items) THEN 1 ELSE 0)
  BY <1>5, <1>7, <1>8 DEF Shown, Many
<1> HIDE DEF count, items, S, d, onward
<1> QED
  BY <1>5, <1>6, <1>7, <1>9

LEMMA ServedMore ==
  ASSUME IInv, NEW by, NEW n, NEW after, NEW before, Served(by, n, after, before)
  PROVE  MoreIsExact'
<1> DEFINE S == Seek(by, after, before)
           items == page'.items
           first == items[1]
           last == items[Len(items)]
<1>1. S \subseteq table /\ sort' = by
  BY DEF Seek, Served
<1> HIDE DEF S, items
<1>2. DataOK /\ table \subseteq Rows /\ n \in Nat \ {0} /\ S \in SUBSET Rows
  BY <1>1, ServedFacts
<1>3. /\ created' = created /\ price' = price /\ table' = table
      /\ dir' = Direction(after, before)
  BY ServedFacts
<1>4. after \in Cursor \cup {Missing, Empty} /\ before \in Cursor \cup {Missing, Empty}
  BY ServedFacts
<1>5. /\ Segment(items, S, by, Given(before), n)
      /\ page'.hasNext <=> Given(before) \/ ToSet(items) # S
      /\ page'.hasPrev <=> IF Given(before) THEN ToSet(items) # S ELSE Given(after)
  BY ServedFacts DEF S, items
<1> SUFFICES ASSUME items # << >>, Direction(after, before) # "none"
             PROVE  IF Direction(after, before) = "forward"
                    THEN page'.hasNext <=> \E r \in table : Later(by, r, CursorAt(by, last))
                    ELSE page'.hasPrev <=> \E r \in table : Earlier(by, r, CursorAt(by, first))
  BY <1>1, <1>3, SameCursor DEF MoreIsExact, items
<1>6. /\ ToSet(items) \subseteq S
      /\ first \in ToSet(items) /\ last \in ToSet(items)
  BY <1>2, <1>5, SegmentRows
<1>7. ToSet(items) # S <=> \E r \in table : r \in S \ ToSet(items)
  BY <1>1, <1>6
<1>8. first \in Rows /\ last \in Rows
  BY <1>2, <1>6
<1> HIDE DEF first, last
<1>9. CASE Direction(after, before) = "forward"
  <2>1. ~Given(before) /\ Segment(items, S, by, FALSE, n)
    BY <1>5, <1>9 DEF Direction, Given
  <2>2. \A r \in table : Before(by, last, r) <=> r \in S \ ToSet(items)
    BY <1>2, <1>4, <2>1, AfterLast DEF S, last
  <2>3. \A r : Later(by, r, CursorAt(by, last)) <=> Before(by, last, r)
    BY <1>2, <1>8, CursorOfRow
  <2> QED
    BY <1>5, <1>7, <1>9, <2>1, <2>2, <2>3
<1>10. CASE Direction(after, before) = "backward"
  <2>1. ~Truthy(after) /\ Given(before) /\ Segment(items, S, by, TRUE, n)
    BY <1>5, <1>10 DEF Direction, Given
  <2>2. \A r \in table : Before(by, r, first) <=> r \in S \ ToSet(items)
    BY <1>2, <1>4, <2>1, BeforeFirst DEF S, first
  <2>3. \A r : Earlier(by, r, CursorAt(by, first)) <=> Before(by, r, first)
    BY <1>2, <1>8, CursorOfRow
  <2> QED
    BY <1>5, <1>7, <1>10, <2>1, <2>2, <2>3
<1> QED
  BY <1>9, <1>10 DEF Direction

\* A page that has a next cursor holds the last rows up to it.
LEMMA ServedPage ==
  ASSUME IInv, NEW by, NEW n, NEW after, NEW before, Served(by, n, after, before)
  PROVE  PageInv'
<1> DEFINE S == Seek(by, after, before)
           items == page'.items
           last == items[Len(items)]
           U == UptoRow(by, last)
<1>1. S \subseteq table /\ sort' = by /\ limit' = n /\ ~(Truthy(after) /\ Truthy(before))
  BY DEF Seek, Served
<1>2. U = {r \in table : ~Before(by, last, r)}
  BY DEF UptoRow
<1> HIDE DEF S, items, U
<1>3. DataOK /\ table \subseteq Rows /\ n \in Nat \ {0} /\ S \in SUBSET Rows
  BY <1>1, ServedFacts
<1>4. created' = created /\ price' = price /\ table' = table
  BY ServedFacts
<1>5. after \in Cursor \cup {Missing, Empty} /\ before \in Cursor \cup {Missing, Empty}
  BY ServedFacts
<1>6. /\ Segment(items, S, by, Given(before), n)
      /\ page'.hasNext <=> Given(before) \/ ToSet(items) # S
      /\ page'.next = IF page'.hasNext /\ items # << >> THEN CursorAt(by, last) ELSE Missing
  BY ServedFacts DEF S, items
<1> HIDE DEF last
<1> SUFFICES ASSUME page'.hasNext, items # << >>
             PROVE  Segment(items, U, by, TRUE, n) \/ U = table
  <2>1. Truthy(page'.next) => page'.hasNext /\ items # << >> /\ page'.next = CursorAt(by, last)
    BY <1>6, Nulls
  <2>2. \A x : CursorAt(by, x)' = CursorAt(by, x)
    BY <1>4, SameCursor
  <2>3. \A x : UptoRow(by, x)' = UptoRow(by, x)
    BY <1>4, SameRowsAsked
  <2>4. \A s, T : Segment(s, T, by, TRUE, n)' <=> Segment(s, T, by, TRUE, n)
    BY <1>4, SameSegment
  <2> QED
    BY <1>1, <1>4, <2>1, <2>2, <2>3, <2>4 DEF PageInv, items, last, U, Truthy
<1>7. /\ items \in Seq(Rows) /\ ToSet(items) \subseteq S /\ last \in ToSet(items)
      /\ \A r \in S \ ToSet(items), x \in ToSet(items) : ReadsBefore(by, Given(before), x, r)
      /\ \A x \in ToSet(items) : x = last \/ Before(by, x, last)
  BY <1>3, <1>6, SegmentRows DEF last
<1>8. ToSet(items) \subseteq U /\ U \subseteq table
  BY <1>1, <1>2, <1>3, <1>7, Total
<1>9. items \in Seq(U) /\ Len(items) <= n /\ Sorted(items, by, FALSE)
      /\ (ToSet(items) # S => Len(items) = n)
  BY <1>6, <1>7, <1>8, RowsIn DEF Segment
<1>10. CASE ~Given(before)
  <2>1. Segment(items, S, by, FALSE, n) /\ ToSet(items) # S
    BY <1>6, <1>10 DEF Given
  <2>2. \A r \in table : Before(by, last, r) <=> r \in S \ ToSet(items)
    BY <1>3, <1>5, <1>10, <2>1, AfterLast DEF S, last
  <2>3. \A a \in S, b \in table : Before(by, a, b) => b \in S
    BY <1>3, <1>5, <1>10, Ends, Nulls DEF S
  <2>4. ASSUME NEW r \in U \ ToSet(items), NEW x \in ToSet(items)
        PROVE  ReadsBefore(by, TRUE, x, r)
    <3>1. r \notin S /\ x \in S /\ r \in table /\ r \in Rows /\ x \in Rows
      BY <1>1, <1>2, <1>3, <1>7, <2>2
    <3>2. Before(by, r, x)
      BY <1>3, <2>3, <3>1, Total
    <3> QED
      BY <3>2, Mirrored DEF Before
  <2> QED
    BY <1>9, <2>1, <2>4 DEF Segment, RestBeyond
<1>11. CASE Given(before) /\ ~Truthy(after)
  <2>1. \A a \in S, b \in table : Before(by, b, a) => b \in S
    BY <1>3, <1>5, <1>11, Ends DEF S
  <2>2. U \subseteq S
    BY <1>1, <1>2, <1>3, <1>7, <2>1, Total
  <2>3. ToSet(items) # U => Len(items) = n
    BY <1>7, <1>8, <1>9, <2>2
  <2>4. Given(before) = TRUE
    BY <1>11 DEF Given
  <2> QED
    BY <1>7, <1>9, <2>2, <2>3, <2>4 DEF Segment, RestBeyond
<1>12. CASE Given(before) /\ Truthy(after)
  <2>1. \A a \in S, b \in table : Before(by, a, b) => b \in S
    BY <1>1, <1>3, <1>5, <1>12, Ends DEF S
  <2>2. Given(before) = TRUE
    BY <1>12 DEF Given
  <2>3. ASSUME NEW r \in table, Before(by, last, r) PROVE FALSE
    <3>1. r \in S /\ r \in Rows /\ last \in Rows
      BY <1>1, <1>3, <1>7, <2>1, <2>3
    <3>2. r \notin ToSet(items)
      BY <1>3, <1>7, <2>3, <3>1, Total
    <3>3. Before(by, r, last)
      BY <1>7, <2>2, <3>1, <3>2, Mirrored DEF Before
    <3> QED
      BY <1>3, <2>3, <3>1, <3>3, Total
  <2> QED
    BY <1>2, <2>3
<1> QED
  BY <1>10, <1>11, <1>12

\* Its previous cursor asks for what the page before it held.
LEMMA ServedOrigin ==
  ASSUME IInv, NEW by, NEW n, NEW after, NEW before, Served(by, n, after, before)
  PROVE  OriginInv'
<1> DEFINE S == Seek(by, after, before)
           items == page'.items
           first == items[1]
           last == page.items[Len(page.items)]
           U == UptoRow(by, last)
<1>1. S \subseteq table /\ sort' = by /\ limit' = n
  BY DEF Seek, Served
<1>2. U = {r \in table : ~Before(by, last, r)}
  BY DEF UptoRow
<1> HIDE DEF S, items, U
<1>3. DataOK /\ table \subseteq Rows /\ n \in Nat \ {0} /\ S \in SUBSET Rows
  BY <1>1, ServedFacts
<1>4. created' = created /\ price' = price /\ table' = table
  BY ServedFacts
<1>5. /\ Segment(items, S, by, Given(before), n)
      /\ page'.prev = IF page'.hasPrev /\ items # << >> THEN CursorAt(by, first) ELSE Missing
  BY ServedFacts DEF S, items
<1>6. SUFFICES ASSUME origin' # << >>, Truthy(page'.prev)
               PROVE  /\ Readable(by, page'.prev)
                      /\ Segment(page.items, Seek(by, Missing, page'.prev), by, TRUE, n)
  <2>1. \A c : Seek(by, Missing, c)' = Seek(by, Missing, c)
    BY <1>4, SameRowsAsked
  <2>2. \A s, T : Segment(s, T, by, TRUE, n)' <=> Segment(s, T, by, TRUE, n)
    BY <1>4, SameSegment
  <2>3. origin' = page.items \/ origin' = << >>
    BY DEF Served, Walk
  <2> QED
    BY <1>1, <2>1, <2>2, <2>3 DEF OriginInv, Readable, Truthy
<1>7. /\ fresh /\ by = sort /\ n = limit
      /\ Truthy(after) /\ after = page.next /\ ~Given(before)
  BY <1>6 DEF Served, Walk
<1>8. page'.prev = CursorAt(by, first) /\ items # << >>
  BY <1>5, <1>6, Nulls
<1>9. /\ page.items # << >> /\ page.next = CursorAt(by, last)
      /\ Segment(page.items, U, by, TRUE, n) \/ U = table
  BY <1>7 DEF IInv, PageInv, U
<1>10. last \in Rows
  <2>1. page.items \in Seq(Rows)
    BY DEF IInv, Kinds
  <2>2. Len(page.items) \in 1..Len(page.items)
    BY <1>9, <2>1, EmptySeq
  <2> QED
    BY <2>1, <2>2, ElementOfSeq
<1>11. /\ ToSet(items) \subseteq S /\ first \in ToSet(items)
       /\ \A r \in S \ ToSet(items), x \in ToSet(items) : ReadsBefore(by, FALSE, x, r)
       /\ \A x \in ToSet(items) : x = first \/ Before(by, first, x)
  <2>1. Segment(items, S, by, FALSE, n)
    BY <1>5, <1>7 DEF Given
  <2> QED
    BY <1>3, <1>8, <2>1, SegmentRows
<1> HIDE DEF first, last
<1>12. S = {r \in table : Before(by, last, r)}
  <2>1. \A r : Later(by, r, after) <=> Before(by, last, r)
    BY <1>3, <1>7, <1>9, <1>10, CursorOfRow
  <2> QED
    BY <1>7, <2>1 DEF S, Seek
<1>13. Segment(page.items, U, by, TRUE, n)
  BY <1>2, <1>9, <1>11, <1>12
<1>14. first \in Rows /\ first \in S
  BY <1>3, <1>11
<1>15. ASSUME NEW r \in table PROVE Before(by, r, first) <=> ~Before(by, last, r)
  <2>1. r \in Rows
    BY <1>3
  <2>2. CASE Before(by, last, r)
    <3>1. r = first \/ Before(by, first, r)
      BY <1>11, <1>12, <2>2 DEF Before
    <3> QED
      BY <1>3, <1>14, <2>1, <2>2, <3>1, Total
  <2>3. CASE ~Before(by, last, r)
    <3>1. r = last \/ Before(by, r, last)
      BY <1>3, <1>10, <2>1, <2>3, Total
    <3>2. Before(by, last, first)
      BY <1>12, <1>14
    <3> QED
      BY <1>3, <1>10, <1>14, <2>1, <2>3, <3>1, <3>2, Total
  <2> QED
    BY <2>2, <2>3
<1>16. Readable(by, page'.prev) /\ Truthy(page'.prev)
  BY <1>3, <1>6, <1>8, <1>14, CursorOfRow
<1>17. Seek(by, Missing, page'.prev) = U
  <2>1. \A r : Earlier(by, r, page'.prev) <=> Before(by, r, first)
    BY <1>3, <1>8, <1>14, CursorOfRow
  <2>2. ~Truthy(Missing)
    BY DEF Truthy
  <2> QED
    BY <1>2, <1>15, <1>16, <2>1, <2>2 DEF Seek
<1> QED
  BY <1>13, <1>16, <1>17

LEMMA ServedOK ==
  ASSUME IInv, NEW by, NEW n, NEW after, NEW before, Served(by, n, after, before)
  PROVE  IInv'
BY ServedTypes, ServedSeen, ServedMore, ServedPage, ServedOrigin DEF IInv

LEMMA RequestOK ==
  ASSUME IInv, NEW by \in Listing.sorts, NEW n \in Limits,
         NEW after \in Optional(page.next), NEW before \in Optional(page.prev),
         Request(by, n, after, before)
  PROVE  IInv'
<1>1. endpoint \in Names
  BY DEF IInv, TypeOK
<1>2. CASE \E code \in {400, 500} : Response(by, n, after, before) = Error(code)
  <2>1. PICK code \in {400, 404, 500} : Response(by, n, after, before) = Error(code)
    BY <1>2
  <2> QED
    BY <2>1, Refused DEF Request
<1>3. CASE /\ Response(by, n, after, before) = Page(by, n, after, before)
           /\ ~(Truthy(after) /\ Truthy(before))
           /\ \A c \in {after, before} : Truthy(c) => Readable(by, c)
  <2>1. Served(by, n, after, before)
    BY <1>3 DEF Request, Served
  <2> QED
    BY <2>1, ServedOK
<1> QED
  BY <1>1, <1>2, <1>3, Answers

LEMMA NoParentOK ==
  ASSUME IInv, NEW by \in Listing.sorts, NEW n \in Limits, NoParent(by, n)
  PROVE  IInv'
<1>1. 404 \in {400, 404, 500}
  OBVIOUS
<1> QED
  BY <1>1, Refused DEF NoParent

-----------------------------------------------------------------------------
(* Other requests keep it.                                                 *)

\* A row the walk counts on has the key it had.
LEMMA TouchOK ==
  ASSUME IInv, NEW changed, Touch(changed), DataOK', table' \subseteq Rows,
         steady' \subseteq table', \A r \in steady' : SortKey(sort, r)' = SortKey(sort, r)
  PROVE  IInv'
<1>1. /\ endpoint' = endpoint /\ sort' = sort /\ limit' = limit /\ page' = page
      /\ dir' = dir /\ seen' = seen /\ Listing' = Listing
      /\ steady' \subseteq steady /\ fresh' = FALSE /\ origin' = << >>
  BY DEF Touch, client, Listing
<1>2. TypeOK'
  BY <1>1 DEF IInv, TypeOK
<1>3. Kinds'
  BY <1>1 DEF IInv, Kinds
<1>4. SteadySeenOnce'
  <2> SUFFICES ASSUME NEW r \in steady' PROVE (seen[r] = IF Ahead(r) THEN 0 ELSE 1)'
    BY DEF SteadySeenOnce
  <2>1. seen[r] = IF Ahead(r) THEN 0 ELSE 1
    BY <1>1 DEF IInv, SteadySeenOnce
  <2>2. SortKey(sort, r)' = SortKey(sort, r)
    OBVIOUS
  <2>3. Ahead(r)' <=> Ahead(r)
    BY <1>1, <2>2 DEF Ahead, Truthy, Later, Earlier, Above, Below
  <2> QED
    BY <1>1, <2>1, <2>3
<1>5. MoreIsExact' /\ PageInv' /\ OriginInv'
  BY <1>1 DEF MoreIsExact, PageInv, OriginInv
<1> QED
  BY <1>2, <1>3, <1>4, <1>5 DEF IInv

LEMMA AppearOK ==
  ASSUME IInv, NEW r \in Rows, Appear(r)
  PROVE  IInv'
<1>1. /\ DataOK' /\ table' \subseteq Rows /\ steady' \subseteq table'
      /\ created' = created /\ price' = price /\ sort' = sort
  BY DEF Appear, Touch, client, IInv, Kinds, TypeOK, DataOK
<1>2. \A q \in steady' : SortKey(sort, q)' = SortKey(sort, q)
  BY <1>1 DEF SortKey
<1> QED
  BY <1>1, <1>2, TouchOK DEF Appear

LEMMA DisappearOK ==
  ASSUME IInv, NEW r \in Rows, Disappear(r)
  PROVE  IInv'
<1>1. /\ DataOK' /\ table' \subseteq Rows /\ steady' \subseteq table'
      /\ created' = created /\ price' = price /\ sort' = sort
  BY DEF Disappear, Touch, client, IInv, Kinds, TypeOK, DataOK
<1>2. \A q \in steady' : SortKey(sort, q)' = SortKey(sort, q)
  BY <1>1 DEF SortKey
<1> QED
  BY <1>1, <1>2, TouchOK DEF Disappear

LEMMA RepriceOK ==
  ASSUME IInv, NEW r \in Rows, NEW amount \in Prices, Reprice(r, amount)
  PROVE  IInv'
<1>1. DataOK' /\ price' = [price EXCEPT ![r] = amount]
  BY PageAssumption DEF Reprice, IInv, Kinds, DataOK
<1>2. /\ table' = table /\ created' = created /\ sort' = sort
      /\ steady' = steady \ (IF ByPrice(sort) THEN {r} ELSE {})
      /\ steady \subseteq table /\ table \subseteq Rows /\ price \in [Rows -> Nat]
  BY DEF Reprice, Touch, client, IInv, Kinds, TypeOK, DataOK
<1>3. \A q \in steady' : SortKey(sort, q)' = SortKey(sort, q)
  BY <1>1, <1>2 DEF SortKey, ByPrice
<1> QED
  BY <1>1, <1>2, <1>3, TouchOK DEF Reprice

LEMMA DropParentOK ==
  ASSUME IInv, DropParent
  PROVE  IInv'
<1>1. DataOK' /\ table' = {} /\ steady' = {}
  BY DEF DropParent, Touch, IInv, Kinds, TypeOK, DataOK
<1> QED
  BY <1>1, TouchOK DEF DropParent

LEMMA StutterOK ==
  ASSUME IInv, UNCHANGED vars
  PROVE  IInv'
<1>1. /\ endpoint' = endpoint /\ sort' = sort /\ limit' = limit /\ page' = page
      /\ dir' = dir /\ seen' = seen /\ Listing' = Listing /\ table' = table
      /\ steady' = steady /\ fresh' = fresh /\ origin' = origin
      /\ created' = created /\ price' = price /\ parentGone' = parentGone
  BY DEF vars, data, client, ghost, Listing
<1>2. TypeOK' /\ Kinds'
  BY <1>1 DEF IInv, TypeOK, Kinds, DataOK
<1>3. SteadySeenOnce' /\ MoreIsExact'
  BY <1>1 DEF IInv, SteadySeenOnce, MoreIsExact, Ahead, Truthy, Later, Earlier,
              Above, Below, SortKey, CursorAt
<1>4. PageInv' /\ OriginInv'
  <2>1. \A x : CursorAt(sort, x)' = CursorAt(sort, x) /\ UptoRow(sort, x)' = UptoRow(sort, x)
    BY <1>1, SameCursor, SameRowsAsked
  <2>2. \A c : Seek(sort, Missing, c)' = Seek(sort, Missing, c)
    BY <1>1, SameRowsAsked
  <2>3. \A s, T : Segment(s, T, sort, TRUE, limit)' <=> Segment(s, T, sort, TRUE, limit)
    BY <1>1, SameSegment
  <2> QED
    BY <1>1, <2>1, <2>2, <2>3 DEF IInv, PageInv, OriginInv, Truthy, Readable
<1> QED
  BY <1>2, <1>3, <1>4 DEF IInv

-----------------------------------------------------------------------------
(* Theorems.                                                               *)

\* Every state of every behaviour satisfies the inductive invariant.
THEOREM Inductive == Spec => []IInv
<1>1. IInv /\ [Next]_vars => IInv'
  <2> SUFFICES ASSUME IInv, [Next]_vars PROVE IInv'
    OBVIOUS
  <2>1. ASSUME NEW by \in Listing.sorts, NEW n \in Limits,
               NEW after \in Optional(page.next), NEW before \in Optional(page.prev),
               Request(by, n, after, before)
        PROVE  IInv'
    BY <2>1, RequestOK
  <2>2. ASSUME NEW by \in Listing.sorts, NEW n \in Limits, NoParent(by, n) PROVE IInv'
    BY <2>2, NoParentOK
  <2>3. ASSUME NEW r \in Rows, Appear(r) PROVE IInv'
    BY <2>3, AppearOK
  <2>4. ASSUME NEW r \in Rows, Disappear(r) PROVE IInv'
    BY <2>4, DisappearOK
  <2>5. ASSUME NEW r \in Rows, NEW amount \in Prices, Reprice(r, amount) PROVE IInv'
    BY <2>5, RepriceOK
  <2>6. CASE DropParent
    BY <2>6, DropParentOK
  <2>7. CASE UNCHANGED vars
    BY <2>7, StutterOK
  <2> QED
    BY <2>1, <2>2, <2>3, <2>4, <2>5, <2>6, <2>7 DEF Next
<1> QED
  BY <1>1, InitOK, PTL DEF Spec

\* Type correctness, and that no page is longer than its limit or holds rows
\* that are not rows of the list.
THEOREM TypeCorrect == Spec => []TypeOK
BY Inductive, PTL DEF IInv

\* Whatever is inserted, deleted or repriced meanwhile, a walk with the pages' own
\* cursors shows each row that stayed as it was once, and none twice.
THEOREM SeenOnce == Spec => []SteadySeenOnce
BY Inductive, PTL DEF IInv

\* The last page shown has no cursor onward.
AtEnd ==
  \/ dir = "forward"  /\ ~Truthy(page.next)
  \/ dir = "backward" /\ ~Truthy(page.prev)

\* A walk that has come to its end has shown every row that stayed as it was: none
\* was skipped between two pages.
THEOREM WalkComplete == Spec => [](AtEnd => \A r \in steady : seen[r] = 1)
<1>1. IInv => (AtEnd => \A r \in steady : seen[r] = 1)
  BY DEF IInv, SteadySeenOnce, Ahead, AtEnd
<1> QED
  BY <1>1, Inductive, PTL

\* The extra row tells exactly whether the walk goes on.
THEOREM More == Spec => []MoreIsExact
BY Inductive, PTL DEF IInv

\* "Next" and then "previous" lead back to the same page, while no row changes.
THEOREM Returns == Spec => RoundTrip
<1>1. IInv /\ [Next]_vars =>
        [(origin # << >> /\ Truthy(page.prev) /\ Request(sort, limit, Missing, page.prev))
           => page'.items = origin]_vars
  <2> SUFFICES ASSUME IInv, origin # << >>, Truthy(page.prev),
                      Request(sort, limit, Missing, page.prev)
               PROVE  page'.items = origin
    OBVIOUS
  <2> DEFINE S == Seek(sort, Missing, page.prev)
  <2>1. Readable(sort, page.prev) /\ Segment(origin, S, sort, TRUE, limit)
    BY DEF IInv, OriginInv
  <2>2. DataOK /\ table \subseteq Rows /\ S \in SUBSET Rows
    BY DEF IInv, Kinds, TypeOK, Seek
  <2> HIDE DEF S
  <2>3. limit \in Nat \ {0}
    <3>1. limit \in Nat
      BY PageAssumption DEF IInv, TypeOK
    <3>2. Len(origin) \in Nat \ {0} /\ Len(origin) <= limit
      BY <2>1, EmptySeq DEF Segment
    <3> QED
      BY <3>1, <3>2
  <2>4. page' = Page(sort, limit, Missing, page.prev)
    BY <2>1 DEF Request, Response, Truthy
  <2>5. Given(page.prev) = TRUE
    BY DEF Given, Truthy
  <2>6. Segment(page'.items, S, sort, TRUE, limit)
    <3>1. Segment(page'.items, S, sort, Given(page.prev), limit)
      BY <2>2, <2>3, <2>4, PageFacts DEF S
    <3> QED
      BY <2>5, <3>1
  <2> QED
    BY <2>1, <2>2, <2>3, <2>6, OneAnswer
<1> QED
  BY <1>1, Inductive, PTL DEF Spec, RoundTrip
=============================================================================
