-------------------------- MODULE OffsetPages_proofs --------------------------
(***************************************************************************)
(* Proofs about offset pagination, for any numbers of items, calls and     *)
(* changes and any limits.                                                 *)
(*                                                                         *)
(* An offset counts items of a list that may have changed since the last   *)
(* page.  What matters is an item's rank, the number of items that match   *)
(* up to it: as long as nothing leaves, no rank falls, and a page that     *)
(* begins behind the offset skips nothing steady; as long as nothing       *)
(* joins, no rank rises, and it repeats nothing.                           *)
(***************************************************************************)
EXTENDS OffsetPages, FiniteSetTheorems, SequenceTheorems, TLAPS

In(k, s) == \E i \in DOMAIN s : s[i] = k

\* The matching items up to a key.
UpTo(k) == {m \in Matching : m <= k}
Rank(k) == Cardinality(UpTo(k))

\* While the caller has not finished, it has as many items as its offset says.  A steady
\* item it does not have is still to come, if nothing left; and if nothing
\* joined, no more items match up to the last one it has than the offset skips.
Skipping ==
    /\ steady \subseteq Matching
    /\ ~finished => Len(delivered) = offset
    /\ ~left => \A k \in steady : In(k, delivered) \/ (~finished /\ offset < Rank(k))
    /\ ~joined /\ ~finished /\ delivered # << >> => Rank(delivered[Len(delivered)]) <= offset

IInv == OnceUnlessJoined /\ Skipping
-------------------------------------------------------------------------------
(* Order and rank. *)

\* The members of a set of positions or keys in order: a sequence of its size.
LEMMA InOrderIsSeq ==
    ASSUME NEW n \in Nat, NEW S \in SUBSET (1..n), NEW f \in InOrder(S)
    PROVE  f \in Seq(S) /\ Len(f) = Cardinality(S) /\ Cardinality(S) <= n /\ DOMAIN f = 1..Len(f)
  <1>1. IsFiniteSet(1..n) /\ Cardinality(1..n) = n
    BY FS_Interval
  <1>2. Cardinality(S) \in Nat /\ Cardinality(S) <= n
    BY <1>1, FS_Subset, FS_CardinalityType
  <1>3. f \in [1..Cardinality(S) -> S]
    BY DEF InOrder
  <1>4. QED
    BY <1>2, <1>3

\* Fewer items match up to a key when fewer match, or up to a smaller key.
LEMMA RankGrows ==
    ASSUME NEW S \in SUBSET Keys, NEW T \in SUBSET S, LastKey \in Nat
    PROVE  Cardinality(T) <= Cardinality(S) /\ Cardinality(T) \in Nat /\ Cardinality(S) \in Nat
  <1>1. IsFiniteSet(Keys)
    BY FS_Interval DEF Keys
  <1>2. IsFiniteSet(S)
    BY <1>1, FS_Subset
  <1>3. IsFiniteSet(T) /\ Cardinality(T) <= Cardinality(S)
    BY <1>2, FS_Subset
  <1>4. QED
    BY <1>2, <1>3, FS_CardinalityType

\* The i-th member in order has i members up to it.
LEMMA RankInOrder ==
    ASSUME NEW n \in Nat, NEW S \in SUBSET (1..n), NEW f \in InOrder(S), NEW i \in DOMAIN f
    PROVE  Cardinality({k \in S : k <= f[i]}) = i
  <1>1. f \in Seq(S) /\ DOMAIN f = 1..Len(f) /\ Len(f) \in Nat
    <2>1. f \in Seq(S) /\ DOMAIN f = 1..Len(f)
      BY InOrderIsSeq
    <2>2. QED
      BY <2>1
  <1>2. \A a, b \in DOMAIN f : a < b => f[a] < f[b]
    BY DEF InOrder
  <1>3. \A a \in DOMAIN f : f[a] \in S /\ f[a] \in Nat
    <2>1. \A k \in S : k \in Nat
      OBVIOUS
    <2>2. f \in [1..Cardinality(S) -> S]
      BY DEF InOrder
    <2>3. QED
      BY <2>1, <2>2
  <1> DEFINE T == {k \in S : k <= f[i]}
             g == [j \in 1..i |-> f[j]]
  <1>4. i \in Nat /\ \A j \in 1..i : j \in DOMAIN f
    BY <1>1
  <1>5. \A j \in 1..i : f[j] \in T
    BY <1>1, <1>2, <1>3, <1>4
  <1>6. ASSUME NEW k \in T PROVE \E j \in 1..i : f[j] = k
    <2>1. PICK j \in DOMAIN f : f[j] = k
      BY DEF InOrder
    <2>2. j <= i
      BY <1>1, <1>2, <1>3, <2>1
    <2>3. QED
      BY <1>1, <2>1, <2>2
  <1>7. \A a, b \in 1..i : f[a] = f[b] => a = b
    BY <1>1, <1>2, <1>3, <1>4
  <1> HIDE DEF T
  <1>8. g \in Surjection(1..i, T)
    BY <1>5, <1>6 DEF Surjection
  <1>9. g \in Injection(1..i, T)
    BY <1>5, <1>7 DEF Injection, IsInjective
  <1>10. IsFiniteSet(1..i) /\ Cardinality(1..i) = i
    BY <1>4, FS_Interval
  <1>11. Cardinality(T) = Cardinality(1..i)
    BY <1>8, <1>9, <1>10, FS_Surjection
  <1>12. QED
    BY <1>10, <1>11 DEF T

\* A page is cut out of the items behind the offset, and is full when there are more.
LEMMA SliceIs ==
    ASSUME NEW S, NEW items \in Seq(S), offset \in Nat, NEW b \in Nat, b >= 1
    PROVE  LET page == SlicePage(items, b)
           IN /\ page \in Seq(S) /\ Len(page) <= b
              /\ \A i \in 1..Len(page) : offset + i \in 1..Len(items) /\ page[i] = items[offset + i]
              /\ More(items, b) => Len(page) = b /\ offset + b < Len(items)
              /\ ~More(items, b) => \A j \in 1..Len(items) : j > offset => j - offset \in 1..Len(page)
  <1> DEFINE page == SlicePage(items, b)
             end  == Least(offset + b, Len(items))
  <1>1. /\ end \in Nat /\ end <= Len(items) /\ end <= offset + b
        /\ offset + b < Len(items) => end = offset + b
        /\ ~(offset + b < Len(items)) => end = Len(items)
    BY DEF Least
  <1> HIDE DEF end
  <1>2. page = SubSeq(items, offset + 1, end)
    BY DEF SlicePage, end
  <1>3. /\ page \in Seq(S) /\ Len(page) = IF offset < end THEN end - offset ELSE 0
        /\ \A i \in 1..Len(page) : page[i] = items[offset + i]
    <2>1. offset + 1 \in Int /\ end \in Int /\ \A i \in (offset + 1)..end : items[i] \in S
      BY <1>1
    <2>2. /\ page \in Seq(S)
          /\ Len(page) = IF offset + 1 <= end THEN end - (offset + 1) + 1 ELSE 0
          /\ \A i \in 1..(end - (offset + 1) + 1) : page[i] = items[(offset + 1) + i - 1]
      BY <1>2, <2>1, SubSeqProperties
    <2> HIDE DEF page
    <2>3. Len(page) = IF offset < end THEN end - offset ELSE 0
      BY <1>1, <2>2
    <2>4. ASSUME NEW i \in 1..Len(page) PROVE page[i] = items[offset + i]
      <3>1. i \in 1..(end - (offset + 1) + 1) /\ (offset + 1) + i - 1 = offset + i
        BY <1>1, <2>2, <2>3
      <3>2. QED
        BY <2>2, <3>1
    <2>5. QED
      BY <2>2, <2>3, <2>4
  <1> HIDE DEF page
  <1>4. Len(page) <= b /\ \A i \in 1..Len(page) : offset + i \in 1..Len(items)
    BY <1>1, <1>3
  <1>5. More(items, b) => Len(page) = b /\ offset + b < Len(items)
    BY <1>1, <1>3 DEF More
  <1>6. ~More(items, b) => \A j \in 1..Len(items) : j > offset => j - offset \in 1..Len(page)
    BY <1>1, <1>3 DEF More
  <1>7. QED
    BY <1>3, <1>4, <1>5, <1>6 DEF page

LEMMA InitIInv == Init => IInv
  <1> SUFFICES ASSUME Init PROVE IInv
    OBVIOUS
  <1>1. /\ delivered = << >> /\ Len(delivered) = 0 /\ offset = 0 /\ finished = FALSE
        /\ calls = 0 /\ changes = 0 /\ joined = FALSE /\ left = FALSE
        /\ steady = Matching /\ workflow \in [Keys -> Kinds]
    BY DEF Init
  <1>2. MaxCalls \in Nat /\ MaxChanges \in Nat /\ LastKey \in Nat /\ MaximumLimit \in Nat
    BY OffsetPagesAssumption DEF OffsetPagesAssumption
  <1>3. << >> \in Seq(Keys)
    OBVIOUS
  <1>4. TypeOK
    <2>1. /\ offset \in 0..LastKey /\ calls \in 0..MaxCalls /\ changes \in 0..MaxChanges
          /\ Len(delivered) <= calls * MaximumLimit
      BY <1>1, <1>2
    <2>2. steady \subseteq Keys
      BY <1>1 DEF Matching
    <2>3. QED
      BY <1>1, <1>3, <2>1, <2>2 DEF TypeOK
  <1>5. OnceUnlessJoined
    BY <1>1, <1>4 DEF OnceUnlessJoined
  <1>6. \A k \in steady : 0 < Rank(k)
    <2> SUFFICES ASSUME NEW k \in steady PROVE 0 < Rank(k)
      OBVIOUS
    <2>1. UpTo(k) \in SUBSET Keys /\ k \in UpTo(k)
      BY <1>1 DEF UpTo, Matching, Keys
    <2>2. IsFiniteSet(UpTo(k)) /\ Cardinality(UpTo(k)) \in Nat
      <3>1. IsFiniteSet(Keys)
        BY <1>2, FS_Interval DEF Keys
      <3>2. IsFiniteSet(UpTo(k))
        BY <2>1, <3>1, FS_Subset
      <3>3. QED
        BY <3>2, FS_CardinalityType
    <2>3. Cardinality(UpTo(k)) # 0
      BY <2>1, <2>2, FS_EmptySet
    <2>4. QED
      BY <2>2, <2>3 DEF Rank
  <1>7. Skipping
    BY <1>1, <1>6 DEF Skipping
  <1>8. QED
    BY <1>5, <1>7 DEF IInv

\* A page takes up where the last one ended: the items it skips are among those
\* given, unless one left, and the ones it gives come after them, unless one joined.
LEMMA CallKeepsIInv ==
    ASSUME IInv, NEW n \in Limits, Call(n)
    PROVE  IInv'
  <1> DEFINE b == BoundedLimit(n)
             M == Matching
  <1>1. PICK items \in Filtered :
            /\ delivered' = delivered \o SlicePage(items, b)
            /\ finished' = ~More(items, b)
            /\ offset' = IF finished' THEN offset ELSE offset + Len(SlicePage(items, b))
    BY DEF Call
  <1> DEFINE page == SlicePage(items, b)
  <1>2. /\ finished = FALSE /\ calls < MaxCalls /\ calls' = calls + 1
        /\ workflow' = workflow /\ changes' = changes
        /\ steady' = steady /\ joined' = joined /\ left' = left
    BY DEF Call, history, IInv, OnceUnlessJoined, TypeOK
  <1>3. /\ TypeOK /\ Skipping
        /\ ~joined => \A i, j \in DOMAIN delivered : i < j => delivered[i] < delivered[j]
    BY DEF IInv, OnceUnlessJoined
  <1>4. LastKey \in Nat /\ MaximumLimit \in Nat /\ MaxCalls \in Nat /\ n \in Int
    BY OffsetPagesAssumption DEF OffsetPagesAssumption
  <1>5. b \in Nat /\ 1 <= b /\ b <= MaximumLimit
    BY <1>4, OffsetPagesAssumption DEF OffsetPagesAssumption, Call, LimitRefused, BoundedLimit
  <1>6. /\ offset \in Nat /\ offset <= LastKey /\ delivered \in Seq(Keys) /\ calls \in Nat
        /\ Len(delivered) <= calls * MaximumLimit /\ Len(delivered) = offset
    BY <1>2, <1>3, <1>4 DEF TypeOK, Skipping
  <1>7. items \in InOrder(M) /\ M \in SUBSET (1..LastKey) /\ M \subseteq Keys
    BY DEF Filtered, Matching, Keys
  <1> HIDE DEF M, b
  <1>8. items \in Seq(M) /\ Len(items) <= LastKey /\ DOMAIN items = 1..Len(items) /\ Len(items) \in Nat
    <2>1. items \in Seq(M) /\ Len(items) = Cardinality(M) /\ Cardinality(M) <= LastKey /\ DOMAIN items = 1..Len(items)
      BY <1>4, <1>7, InOrderIsSeq
    <2>2. QED
      BY <2>1
  <1>9. /\ page \in Seq(M) /\ Len(page) <= b
        /\ \A i \in 1..Len(page) : offset + i \in 1..Len(items) /\ page[i] = items[offset + i]
        /\ More(items, b) => Len(page) = b /\ offset + b < Len(items)
        /\ ~More(items, b) => \A j \in 1..Len(items) : j > offset => j - offset \in 1..Len(page)
    BY <1>5, <1>6, <1>8, SliceIs
  <1> HIDE DEF page
  <1>10. \A i \in 1..Len(items) : items[i] \in M /\ items[i] \in Keys /\ Rank(items[i]) = i
    <2> SUFFICES ASSUME NEW i \in 1..Len(items)
                 PROVE  items[i] \in M /\ items[i] \in Keys /\ Rank(items[i]) = i
      OBVIOUS
    <2>1. items[i] \in M /\ items[i] \in Keys
      <3>1. items \in Seq(M)
        BY <1>8
      <3>2. items[i] \in M
        BY <3>1
      <3>3. M \subseteq Keys
        BY <1>7
      <3>4. QED
        BY <3>2, <3>3
    <2>2. Cardinality({k \in M : k <= items[i]}) = i
      BY <1>4, <1>7, <1>8, RankInOrder
    <2>3. QED
      BY <2>1, <2>2 DEF Rank, UpTo, M
  <1>11. /\ delivered' \in Seq(Keys) /\ Len(delivered') = Len(delivered) + Len(page)
         /\ \A i \in 1..Len(delivered) : delivered'[i] = delivered[i]
         /\ \A i \in 1..Len(page) : delivered'[Len(delivered) + i] = page[i]
    <2>1. page \in Seq(Keys)
      <3>1. page \in Seq(M) /\ M \subseteq Keys
        BY <1>7, <1>9
      <3>2. Len(page) \in Nat /\ page = [i \in 1..Len(page) |-> page[i]] /\ \A i \in 1..Len(page) : page[i] \in M
        BY <3>1
      <3>3. \A i \in 1..Len(page) : page[i] \in Keys
        BY <3>1, <3>2
      <3>4. QED
        BY <3>2, <3>3
    <2>2. delivered' = delivered \o page
      BY <1>1 DEF page
    <2>3. /\ delivered \o page \in Seq(Keys) /\ Len(delivered \o page) = Len(delivered) + Len(page)
          /\ \A i \in 1..(Len(delivered) + Len(page)) :
                (delivered \o page)[i] = IF i <= Len(delivered) THEN delivered[i] ELSE page[i - Len(delivered)]
      BY <1>6, <2>1, ConcatProperties
    <2>4. Len(delivered) \in Nat /\ Len(page) \in Nat
      BY <1>6, <2>1
    <2>5. ASSUME NEW i \in 1..Len(page) PROVE delivered'[Len(delivered) + i] = page[i]
      <3>1. /\ Len(delivered) + i \in 1..(Len(delivered) + Len(page)) /\ ~(Len(delivered) + i <= Len(delivered))
            /\ (Len(delivered) + i) - Len(delivered) = i
        BY <2>4
      <3>2. QED
        BY <2>2, <2>3, <3>1
    <2>6. \A i \in 1..Len(delivered) : i \in 1..(Len(delivered) + Len(page)) /\ i <= Len(delivered)
      BY <2>4
    <2>7. QED
      BY <2>2, <2>3, <2>5, <2>6
  <1>12. finished' \in BOOLEAN /\ (finished' <=> ~More(items, b)) /\ Len(page) \in Nat
    <2>1. More(items, b) \in BOOLEAN
      BY DEF More
    <2>2. finished' = ~More(items, b)
      BY <1>1
    <2>3. finished' \in BOOLEAN /\ (finished' <=> ~More(items, b))
      BY <2>1, <2>2
    <2>4. Len(page) \in Nat
      <3>1. page \in Seq(M)
        BY <1>9
      <3>2. QED
        BY <3>1
    <2>5. QED
      BY <2>3, <2>4
  <1>13. offset' \in 0..LastKey /\ (~finished' => offset' = offset + b /\ Len(page) = b /\ offset + b < Len(items))
    <2>1. finished' => offset' = offset
      BY <1>1
    <2>2. ~finished' => offset' = offset + Len(page)
      BY <1>1 DEF page
    <2>3. finished' \in BOOLEAN /\ (~finished' => Len(page) = b /\ offset + b < Len(items))
      BY <1>9, <1>12
    <2>4. offset \in Nat /\ offset <= LastKey /\ b \in Nat /\ Len(items) \in Nat /\ Len(items) <= LastKey
      BY <1>5, <1>6, <1>8
    <2>5. CASE finished'
      BY <1>4, <2>1, <2>4, <2>5
    <2>6. CASE ~finished'
      <3>1. offset' = offset + b /\ Len(page) = b /\ offset + b < Len(items)
        BY <2>2, <2>3, <2>6
      <3>2. offset + b \in 0..LastKey
        BY <1>4, <2>4, <3>1
      <3>3. QED
        BY <2>6, <3>1, <3>2
    <2>7. QED
      BY <2>5, <2>6
  <1>14. TypeOK'
    <2>1. Len(delivered') <= calls' * MaximumLimit
      <3>1. (calls + 1) * MaximumLimit = calls * MaximumLimit + MaximumLimit
        BY <1>4, <1>6
      <3>2. calls * MaximumLimit \in Nat
        BY <1>4, <1>6
      <3>3. QED
        BY <1>2, <1>4, <1>5, <1>6, <1>9, <1>11, <1>12, <3>1, <3>2
    <2>2. calls' \in 0..MaxCalls
      BY <1>2, <1>4, <1>6
    <2>3. QED
      BY <1>2, <1>3, <1>11, <1>12, <1>13, <2>1, <2>2 DEF TypeOK
  <1>15. ~joined => \A i, j \in DOMAIN delivered' : i < j => delivered'[i] < delivered'[j]
    <2> SUFFICES ASSUME ~joined, NEW i \in DOMAIN delivered', NEW j \in DOMAIN delivered', i < j
                 PROVE  delivered'[i] < delivered'[j]
      OBVIOUS
    <2>1. /\ DOMAIN delivered' = 1..Len(delivered') /\ DOMAIN delivered = 1..offset
          /\ i \in 1..(offset + Len(page)) /\ j \in 1..(offset + Len(page)) /\ offset \in Nat
      BY <1>6, <1>11
    <2>2. CASE j <= offset
      <3>1. i \in DOMAIN delivered /\ j \in DOMAIN delivered
        BY <2>1, <2>2
      <3>2. delivered'[i] = delivered[i] /\ delivered'[j] = delivered[j]
        BY <1>6, <1>11, <2>1, <3>1
      <3>3. QED
        BY <1>3, <3>1, <3>2
    <2>3. CASE i <= offset /\ j > offset
      <3>1. PICK m \in 1..Len(page) : j = offset + m
        BY <1>12, <2>1, <2>3
      <3>2. delivered'[j] = items[offset + m] /\ offset + m \in 1..Len(items)
        BY <1>6, <1>9, <1>11, <3>1
      <3>3. delivered'[j] \in Keys /\ Rank(delivered'[j]) = offset + m
        BY <1>10, <3>2
      <3>4. i \in DOMAIN delivered /\ offset \in DOMAIN delivered /\ delivered # << >>
        BY <2>1, <2>3
      <3> DEFINE last == delivered[offset]
      <3>5. Rank(last) <= offset
        BY <1>2, <1>3, <1>6, <3>4 DEF Skipping
      <3>6. delivered'[i] = delivered[i] /\ delivered[i] \in Keys /\ last \in Keys /\ delivered[i] <= last
        <4>1. delivered'[i] = delivered[i] /\ delivered[i] \in Keys /\ last \in Keys
          BY <1>6, <1>11, <2>1, <3>4
        <4>2. delivered[i] <= last
          <5>1. CASE i = offset
            BY <4>1, <5>1 DEF Keys
          <5>2. CASE i < offset
            BY <1>3, <4>1, <3>4, <5>2 DEF Keys
          <5>3. QED
            BY <2>1, <2>3, <5>1, <5>2
        <4>3. QED
          BY <4>1, <4>2
      <3> HIDE DEF last
      <3>7. last < delivered'[j]
        <4> SUFFICES ASSUME delivered'[j] <= last PROVE FALSE
          BY <3>3, <3>6 DEF Keys
        <4>1. UpTo(delivered'[j]) \in SUBSET UpTo(last) /\ UpTo(last) \in SUBSET Keys
          BY <1>4, <3>3, <3>6 DEF UpTo, Matching, Keys
        <4>2. Rank(delivered'[j]) <= Rank(last) /\ Rank(last) \in Nat
          BY <1>4, <4>1, RankGrows DEF Rank
        <4>3. QED
          BY <2>1, <3>1, <3>3, <3>5, <4>2
      <3>8. QED
        BY <3>3, <3>6, <3>7 DEF Keys
    <2>4. CASE i > offset
      <3>1. PICK l \in 1..Len(page), m \in 1..Len(page) : i = offset + l /\ j = offset + m
        <4>1. i - offset \in 1..Len(page) /\ i = offset + (i - offset)
          BY <1>12, <2>1, <2>4
        <4>2. j - offset \in 1..Len(page) /\ j = offset + (j - offset)
          BY <1>12, <2>1, <2>4
        <4>3. QED
          BY <4>1, <4>2
      <3>2. /\ delivered'[i] = items[offset + l] /\ offset + l \in DOMAIN items
            /\ delivered'[j] = items[offset + m] /\ offset + m \in DOMAIN items
            /\ offset + l < offset + m
        BY <1>6, <1>8, <1>9, <1>11, <3>1
      <3>3. \A x, y \in DOMAIN items : x < y => items[x] < items[y]
        BY <1>7 DEF InOrder
      <3>4. QED
        BY <3>2, <3>3
    <2>5. QED
      BY <2>1, <2>2, <2>3, <2>4
  <1>16. Matching' = M /\ \A k : Rank(k)' = Rank(k)
    BY <1>2 DEF Matching, Rank, UpTo, M, Keys
  <1>17. ~left => \A k \in steady : In(k, delivered') \/ (~finished' /\ offset' < Rank(k))
    <2> SUFFICES ASSUME ~left, NEW k \in steady PROVE In(k, delivered') \/ (~finished' /\ offset' < Rank(k))
      OBVIOUS
    <2>1. CASE In(k, delivered)
      <3>1. PICK i \in DOMAIN delivered : delivered[i] = k
        BY <2>1 DEF In
      <3>2. i \in DOMAIN delivered' /\ delivered'[i] = k
        BY <1>6, <1>11, <1>12, <3>1
      <3>3. QED
        BY <3>2 DEF In
    <2>2. CASE offset < Rank(k)
      <3>1. PICK r \in DOMAIN items : items[r] = k
        BY <1>3, <1>7 DEF Skipping, InOrder, M
      <3>2. r \in 1..Len(items) /\ Rank(k) = r /\ offset < r
        BY <1>8, <1>10, <2>2, <3>1
      <3>3. CASE r - offset \in 1..Len(page)
        <4>1. PICK m \in 1..Len(page) : r = offset + m
          BY <1>6, <1>8, <3>2, <3>3
        <4>2. delivered'[Len(delivered) + m] = k /\ Len(delivered) + m \in DOMAIN delivered'
          BY <1>6, <1>9, <1>11, <1>12, <3>1, <4>1
        <4>3. QED
          BY <4>2 DEF In
      <3>4. CASE ~(r - offset \in 1..Len(page))
        <4>1. ~finished'
          BY <1>9, <1>12, <3>2, <3>4
        <4>2. offset' < r
          BY <1>5, <1>6, <1>12, <1>13, <3>2, <3>4, <4>1
        <4>3. QED
          BY <3>2, <4>1, <4>2
      <3>5. QED
        BY <3>3, <3>4
    <2>3. QED
      BY <1>3, <2>1, <2>2 DEF Skipping
  <1>18. ~finished' => Len(delivered') = offset'
    BY <1>6, <1>11, <1>12, <1>13
  <1>19. ~finished' => Rank(delivered'[Len(delivered')]) <= offset'
    <2> SUFFICES ASSUME ~finished' PROVE Rank(delivered'[Len(delivered')]) <= offset'
      OBVIOUS
    <2>1. b \in 1..Len(page) /\ Len(delivered') = Len(delivered) + b
      <3>1. Len(page) = b
        BY <1>13
      <3>2. b \in 1..b
        BY <1>5
      <3>3. Len(delivered') = Len(delivered) + Len(page)
        BY <1>11
      <3>4. QED
        BY <3>1, <3>2, <3>3
    <2>2. delivered'[Len(delivered')] = items[offset + b] /\ offset + b \in 1..Len(items)
      BY <1>9, <1>11, <2>1
    <2>3. QED
      BY <1>5, <1>6, <1>10, <1>13, <2>2
  <1>20. Skipping'
    <2>1. steady' \subseteq Matching'
      BY <1>2, <1>3, <1>16 DEF Skipping, M
    <2>2. ~left' => \A k \in steady' : In(k, delivered') \/ (~finished' /\ offset' < Rank(k)')
      BY <1>2, <1>16, <1>17
    <2>3. ~finished' => (Rank(delivered[Len(delivered)]) <= offset)'
      <3>1. Rank(delivered[Len(delivered)])' = Cardinality({m \in M : m <= delivered'[Len(delivered')]})
        BY <1>16 DEF Rank, UpTo
      <3>2. Rank(delivered'[Len(delivered')]) = Cardinality({m \in M : m <= delivered'[Len(delivered')]})
        BY DEF Rank, UpTo, M
      <3>3. QED
        BY <1>19, <3>1, <3>2
    <2>4. QED
      BY <1>18, <2>1, <2>2, <2>3 DEF Skipping, In, Rank, UpTo
  <1>21. OnceUnlessJoined'
    BY <1>2, <1>14, <1>15 DEF OnceUnlessJoined
  <1>22. QED
    BY <1>20, <1>21 DEF IInv

\* A call that fails leaves the caller where it was.
LEMMA CallFailsKeepsIInv ==
    ASSUME IInv, CallFails
    PROVE  IInv'
  <1>1. /\ ~finished /\ calls < MaxCalls /\ calls' = calls + 1
        /\ workflow' = workflow /\ offset' = offset /\ delivered' = delivered /\ finished' = finished
        /\ changes' = changes /\ steady' = steady /\ joined' = joined /\ left' = left
    BY DEF CallFails, caller, history
  <1>2. TypeOK /\ Skipping
    BY DEF IInv, OnceUnlessJoined
  <1>3. MaximumLimit \in Nat /\ MaxCalls \in Nat
    BY OffsetPagesAssumption DEF OffsetPagesAssumption
  <1>4. calls' \in 0..MaxCalls /\ Len(delivered) <= calls' * MaximumLimit
    <2>1. calls \in Nat /\ Len(delivered) <= calls * MaximumLimit /\ Len(delivered) \in Nat
      BY <1>2, <1>3 DEF TypeOK
    <2>2. (calls + 1) * MaximumLimit = calls * MaximumLimit + MaximumLimit /\ calls * MaximumLimit \in Nat
      BY <1>3, <2>1
    <2>3. QED
      BY <1>1, <1>3, <2>1, <2>2
  <1>5. TypeOK'
    BY <1>1, <1>2, <1>4 DEF TypeOK
  <1>6. OnceUnlessJoined'
    BY <1>1, <1>5 DEF IInv, OnceUnlessJoined
  <1>7. Skipping'
    BY <1>1, <1>2 DEF Skipping, In, Rank, UpTo, Matching
  <1>8. QED
    BY <1>6, <1>7 DEF IInv

\* A change that lets nothing leave takes no rank away, and one that lets nothing
\* join adds to none; the item that changes is no longer among the steady ones.
LEMMA ChangeKeepsIInv ==
    ASSUME IInv, NEW c \in Keys, NEW kind \in Kinds, Change(c, kind)
    PROVE  IInv'
  <1> DEFINE N == Matching'
  <1>1. /\ changes < MaxChanges /\ changes' = changes + 1
        /\ workflow[c] # kind /\ workflow' = [workflow EXCEPT ![c] = kind]
        /\ steady' = steady \ {c}
        /\ joined' = (joined \/ kind = "match")
        /\ left' = (left \/ workflow[c] = "match")
        /\ offset' = offset /\ delivered' = delivered /\ finished' = finished /\ calls' = calls
    BY DEF Change, caller
  <1>2. TypeOK /\ Skipping
    BY DEF IInv, OnceUnlessJoined
  <1>3. MaxChanges \in Nat /\ LastKey \in Nat
    BY OffsetPagesAssumption DEF OffsetPagesAssumption
  <1>4. workflow \in [Keys -> Kinds] /\ joined \in BOOLEAN /\ left \in BOOLEAN
    BY <1>2 DEF TypeOK
  <1>5. /\ joined' \in BOOLEAN /\ left' \in BOOLEAN
        /\ ~joined' => ~joined /\ kind # "match"
        /\ ~left' => ~left /\ workflow[c] # "match"
    BY <1>1, <1>4
  <1>6. workflow' \in [Keys -> Kinds] /\ workflow'[c] = kind /\ \A m \in Keys : m # c => workflow'[m] = workflow[m]
    BY <1>1, <1>4
  <1>7. TypeOK'
    <2>1. changes' \in 0..MaxChanges
      BY <1>1, <1>2, <1>3 DEF TypeOK
    <2>2. steady' \subseteq Keys
      BY <1>1, <1>2 DEF TypeOK
    <2>3. QED
      BY <1>1, <1>2, <1>5, <1>6, <2>1, <2>2 DEF TypeOK
  <1>8. OnceUnlessJoined'
    BY <1>1, <1>5, <1>7 DEF IInv, OnceUnlessJoined
  <1>9. N = {m \in Keys : workflow'[m] = "match"} /\ N \subseteq Keys /\ Matching \subseteq Keys
    BY DEF Matching, Keys
  <1>10. kind # "match" => N \subseteq Matching
    BY <1>6 DEF Matching, Keys
  <1>11. workflow[c] # "match" => Matching \subseteq N
    BY <1>6 DEF Matching, Keys
  <1>12. steady' \subseteq N
    BY <1>1, <1>2, <1>6 DEF Skipping, Matching, Keys
  <1> HIDE DEF N
  <1>13. \A k : UpTo(k)' = {m \in N : m <= k}
    BY DEF UpTo, N
  <1>14. ~left' => \A k \in steady' : In(k, delivered) \/ (~finished /\ offset < Rank(k)')
    <2> SUFFICES ASSUME ~left', NEW k \in steady', ~In(k, delivered)
                 PROVE  ~finished /\ offset < Rank(k)'
      OBVIOUS
    <2>1. ~finished /\ offset < Rank(k)
      BY <1>1, <1>2, <1>5 DEF Skipping
    <2>2. Rank(k) <= Rank(k)' /\ Rank(k) \in Nat /\ Rank(k)' \in Nat
      <3> DEFINE S == {m \in N : m <= k}
                 T == {m \in Matching : m <= k}
      <3>1. S \in SUBSET Keys /\ T \in SUBSET S
        BY <1>5, <1>9, <1>11
      <3>2. Rank(k)' = Cardinality(S) /\ Rank(k) = Cardinality(T)
        BY <1>13 DEF Rank, UpTo
      <3> HIDE DEF S, T
      <3>3. Cardinality(T) <= Cardinality(S) /\ Cardinality(T) \in Nat /\ Cardinality(S) \in Nat
        BY <1>3, <3>1, RankGrows
      <3>4. QED
        BY <3>2, <3>3
    <2>3. offset \in Int
      BY <1>2 DEF TypeOK
    <2>4. QED
      BY <2>1, <2>2, <2>3
  <1>15. ~joined' /\ ~finished /\ delivered # << >> => Rank(delivered[Len(delivered)])' <= offset
    <2> SUFFICES ASSUME ~joined', ~finished, delivered # << >>
                 PROVE  Rank(delivered[Len(delivered)])' <= offset
      OBVIOUS
    <2> DEFINE last == delivered[Len(delivered)]
               S    == {m \in Matching : m <= last}
               T    == {m \in N : m <= last}
    <2>1. Rank(last) <= offset
      BY <1>2, <1>5 DEF Skipping
    <2>2. S \in SUBSET Keys /\ T \in SUBSET S
      BY <1>5, <1>9, <1>10
    <2>3. Rank(last)' = Cardinality(T) /\ Rank(last) = Cardinality(S)
      BY <1>1 DEF Rank, UpTo, N
    <2> HIDE DEF S, T
    <2>4. Cardinality(T) <= Cardinality(S) /\ Cardinality(T) \in Nat /\ Cardinality(S) \in Nat
      BY <1>3, <2>2, RankGrows
    <2>5. offset \in Int
      BY <1>2 DEF TypeOK
    <2>6. QED
      BY <2>1, <2>3, <2>4, <2>5
  <1>16. Skipping'
    <2>1. ~finished' => Len(delivered') = offset'
      BY <1>1, <1>2 DEF Skipping
    <2>2. QED
      BY <1>1, <1>12, <1>14, <1>15, <2>1 DEF Skipping, In, N
  <1>17. QED
    BY <1>8, <1>16 DEF IInv

LEMMA NextKeepsIInv == IInv /\ [Next]_vars => IInv'
  <1> SUFFICES ASSUME IInv, [Next]_vars PROVE IInv'
    OBVIOUS
  <1>1. CASE \E n \in Limits : Call(n)
    BY <1>1, CallKeepsIInv
  <1>2. CASE CallFails
    BY <1>2, CallFailsKeepsIInv
  <1>3. CASE \E k \in Keys, kind \in Kinds : Change(k, kind)
    BY <1>3, ChangeKeepsIInv
  <1>4. CASE UNCHANGED vars
    <2>1. /\ workflow' = workflow /\ offset' = offset /\ delivered' = delivered /\ finished' = finished
          /\ calls' = calls /\ changes' = changes /\ steady' = steady /\ joined' = joined /\ left' = left
      BY <1>4 DEF vars, caller, history
    <2>2. OnceUnlessJoined'
      BY <2>1 DEF IInv, OnceUnlessJoined, TypeOK
    <2>3. Skipping'
      BY <2>1 DEF IInv, Skipping, In, Rank, UpTo, Matching
    <2>4. QED
      BY <2>2, <2>3 DEF IInv
  <1>5. QED
    BY <1>1, <1>2, <1>3, <1>4 DEF Next
-------------------------------------------------------------------------------
\* The inductive invariant holds in every state.
THEOREM SpecIInv == Spec => []IInv
  <1>1. QED
    BY InitIInv, NextKeepsIInv, PTL DEF Spec

\* Whoever follows next_offset to the end of the nodes or artifacts, with any
\* limits, has been given every item that matched all along, as long as no
\* item ceased to match (slicePage over the filtered, sorted items).
THEOREM CompleteForWhatStays == Spec => []CompleteUnlessLeft
  <1>1. IInv => CompleteUnlessLeft
    BY DEF IInv, Skipping, CompleteUnlessLeft, Delivered, In
  <1>2. QED
    BY <1>1, SpecIInv, PTL

\* And as long as no item came to match, none is given twice and all come in
\* order over the pages, none of which is larger than the largest limit.
THEOREM OnceForWhatWasThere == Spec => []OnceUnlessJoined
  <1>1. IInv => OnceUnlessJoined
    BY DEF IInv
  <1>2. QED
    BY <1>1, SpecIInv, PTL
===============================================================================
