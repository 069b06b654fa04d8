-------------------------- MODULE ArtifactText_proofs --------------------------
(***************************************************************************)
(* Proofs about the two tools that read retained text: for every artifact, *)
(* every width of characters and page, and every sequence of calls of      *)
(* read_workflow_artifact; and for every live stream, every set of log     *)
(* artifacts, every budget and every request of get_workflow_logs.         *)
(*                                                                         *)
(* The first lemmas are about text: where a character begins its bytes     *)
(* follow to its end, so no stretch of UTFMax bytes is without a boundary. *)
(* That is why a read that looks UTFMax bytes past its page always finds   *)
(* the page's end, and why a page is empty only at the artifact's end.     *)
(*                                                                         *)
(* The logs follow: sequences joined one after the other, members of a     *)
(* sequence in order, the lines of the beginning of a text; and then the   *)
(* invariant, that what has been collected is the logs of the first nodes, *)
(* whole, or with the end of the last one missing and no room for another  *)
(* character.                                                              *)
(***************************************************************************)
EXTENDS ArtifactPages, WorkflowLogs, SequenceTheorems, FiniteSetTheorems, WellFoundedInduction,
        TLAPS

Text(s) == s \in Seq(Byte) /\ Encoding(s)

\* A call past its checks is in range, and a caller goes on from a legal offset.
InRange ==
    /\ pc # "idle" => ~OutOfRange(offset, maxBytes)
    /\ next <= MaxOffset

IInv == PagesRejoin /\ PagesAreWholeText /\ TextIsReadable /\ InRange
-------------------------------------------------------------------------------
(* Texts and their boundaries. *)

\* A set of positions that is not empty has a first one.
LEMMA LeastIndex ==
    ASSUME NEW T, T \subseteq Nat, T # {}
    PROVE  \E i \in T : \A j \in T : i <= j
  <1>1. PICK i \in T : \A j \in T : ~(<<j, i>> \in OpToRel(<, Nat))
    BY NatLessThanWellFounded, WFMin
  <1>2. \A j \in T : ~(j < i)
    BY <1>1 DEF OpToRel
  <1>3. QED
    BY <1>2

\* A sequence read up to a position and on from there is read in one.
LEMMA SubSeqJoin ==
    ASSUME NEW S, NEW s \in Seq(S), NEW a \in Nat, NEW b \in Nat, a <= b, b <= Len(s)
    PROVE  /\ SubSeq(s, 1, a) \o SubSeq(s, a + 1, b) = SubSeq(s, 1, b)
           /\ Len(SubSeq(s, 1, b)) = b
  <1> DEFINE x == SubSeq(s, 1, a)
             y == SubSeq(s, a + 1, b)
             z == SubSeq(s, 1, b)
  <1>1. x \in Seq(S) /\ Len(x) = a /\ \A i \in 1..a : x[i] = s[i]
    OBVIOUS
  <1>2. y \in Seq(S) /\ Len(y) = b - a /\ \A i \in 1..(b - a) : y[i] = s[a + i]
    OBVIOUS
  <1>3. z \in Seq(S) /\ Len(z) = b /\ \A i \in 1..b : z[i] = s[i]
    OBVIOUS
  <1> HIDE DEF x, y, z
  <1>4. /\ x \o y \in Seq(S) /\ Len(x \o y) = a + (b - a)
        /\ \A i \in 1..(a + (b - a)) : (x \o y)[i] = IF i <= a THEN x[i] ELSE y[i - a]
    BY <1>1, <1>2, ConcatProperties
  <1>5. \A i \in 1..b : (x \o y)[i] = s[i]
    <2> SUFFICES ASSUME NEW i \in 1..b PROVE (x \o y)[i] = s[i]
      OBVIOUS
    <2>1. (x \o y)[i] = IF i <= a THEN x[i] ELSE y[i - a]
      BY <1>4
    <2>2. i <= a => i \in 1..a
      OBVIOUS
    <2>3. ~(i <= a) => i - a \in 1..(b - a) /\ a + (i - a) = i
      OBVIOUS
    <2>4. ~(i <= a) => y[i - a] = s[i]
      BY <1>2, <2>3
    <2>5. QED
      BY <1>1, <2>1, <2>2, <2>4
  <1>6. x \o y = z
    <2>1. Len(x \o y) = Len(z) /\ \A i \in 1..Len(x \o y) : (x \o y)[i] = z[i]
      BY <1>3, <1>4, <1>5
    <2>2. QED
      BY <1>3, <1>4, <2>1, SeqEqual
  <1>7. QED
    BY <1>3, <1>6 DEF x, y, z

\* A text has a last boundary up to any of its positions, the beginning at the least.
LEMMA LastBoundaryIs ==
    ASSUME NEW s, NEW n \in Nat
    PROVE  /\ LastBoundary(s, n) \in 0..n
           /\ Boundary(s, LastBoundary(s, n))
           /\ \A m \in (LastBoundary(s, n) + 1)..n : ~Boundary(s, m)
  <1> DEFINE T == {d \in 0..n : Boundary(s, n - d)}
             P(b) == Boundary(s, b) /\ \A m \in (b + 1)..n : ~Boundary(s, m)
  <1>1. n \in T
    <2>1. Boundary(s, 0)
      BY DEF Boundary
    <2>2. n \in 0..n /\ n - n = 0
      OBVIOUS
    <2>3. QED
      BY <2>1, <2>2
  <1>2. T \subseteq Nat
    OBVIOUS
  <1>3. PICK d \in T : \A e \in T : d <= e
    <2> HIDE DEF T
    <2>1. QED
      BY <1>1, <1>2, LeastIndex
  <1>4. ASSUME NEW m \in ((n - d) + 1)..n PROVE ~Boundary(s, m)
    <2>1. d \in 0..n
      BY <1>3
    <2>2. n - m \in 0..n /\ n - m < d /\ n - (n - m) = m
      BY <1>4, <2>1
    <2>3. n - m \notin T
      <3> HIDE DEF T
      <3>1. QED
        BY <1>3, <2>1, <2>2
    <2>4. QED
      BY <2>2, <2>3
  <1>5. \E b \in 0..n : P(b)
    <2>1. n - d \in 0..n /\ Boundary(s, n - d)
      BY <1>3
    <2>2. QED
      BY <1>4, <2>1
  <1>6. LastBoundary(s, n) \in 0..n /\ P(LastBoundary(s, n))
    BY <1>5 DEF LastBoundary
  <1>7. QED
    BY <1>6

\* No boundary lies between the last one and the position.
LEMMA LastBoundaryIsLast ==
    ASSUME NEW s, NEW n \in Nat, NEW b \in 0..n, Boundary(s, b)
    PROVE  b <= LastBoundary(s, n)
  BY LastBoundaryIs

\* Behind a boundary a character begins; behind any other byte it goes on.
LEMMA NextByte ==
    ASSUME NEW s, Text(s), NEW n \in Nat, n < Len(s)
    PROVE  /\ s[n + 1] \in Byte /\ s[n + 1].at <= s[n + 1].of
           /\ Boundary(s, n) <=> s[n + 1].at = 1
           /\ ~Boundary(s, n) => s[n + 1].at = s[n].at + 1 /\ s[n + 1].of = s[n].of
  <1>1. n + 1 \in DOMAIN s /\ s[n + 1] \in Byte
    BY DEF Text
  <1>2. CASE n = 0
    BY <1>1, <1>2 DEF Text, Encoding, Boundary
  <1>3. CASE n # 0
    <2>1. n \in DOMAIN s /\ s[n] \in Byte /\ (n + 1) - 1 = n /\ n + 1 # 1
      BY <1>3 DEF Text
    <2>2. s[n].at \in Nat /\ s[n].at >= 1 /\ s[n + 1].at \in Nat
      BY <1>1, <2>1, ArtifactTextAssumption DEF Byte
    <2>3. s[n + 1].at <= s[n + 1].of
      BY <1>1 DEF Text, Encoding
    <2>4. Boundary(s, n) <=> s[n].at = s[n].of
      BY <1>3 DEF Boundary
    <2>5. IF s[n].at = s[n].of
          THEN s[n + 1].at = 1
          ELSE s[n + 1].at = s[n].at + 1 /\ s[n + 1].of = s[n].of
      BY <1>1, <2>1 DEF Text, Encoding
    <2>6. QED
      BY <1>1, <2>2, <2>3, <2>4, <2>5
  <1>4. QED
    BY <1>2, <1>3

\* The bytes of a character follow each other up to its width or the text's end.
LEMMA CharacterRuns ==
    ASSUME NEW s, Text(s), NEW n \in Nat, n < Len(s), Boundary(s, n),
           NEW j \in Nat, 1 <= j, j <= s[n + 1].of, n + j <= Len(s)
    PROVE  s[n + j].at = j /\ s[n + j].of = s[n + 1].of
  <1> DEFINE R(k) == s[n + k].at = k /\ s[n + k].of = s[n + 1].of
             T == {k \in 1..j : ~R(k)}
  <1>1. /\ Len(s) \in Nat /\ s[n + 1] \in Byte /\ s[n + 1].at = 1
        /\ s[n + 1].of \in Nat
    <2>1. s[n + 1] \in Byte /\ s[n + 1].at = 1
      BY NextByte
    <2>2. QED
      BY <2>1, ArtifactTextAssumption DEF Text, Byte
  <1>2. R(1)
    BY <1>1
  <1>3. ASSUME T # {} PROVE FALSE
    <2>1. PICK k \in T : \A l \in T : k <= l
      <3>1. T \subseteq Nat
        OBVIOUS
      <3> HIDE DEF T
      <3>2. QED
        BY <1>3, <3>1, LeastIndex
    <2>2. k # 1
      BY <1>2, <2>1
    <2>3. k - 1 \in 1..j /\ R(k - 1)
      BY <2>1, <2>2
    <2>4. n + (k - 1) \in Nat /\ n + (k - 1) < Len(s) /\ (n + (k - 1)) + 1 = n + k /\ n + (k - 1) # 0
      BY <1>1, <2>3
    <2>5. s[n + (k - 1)].at = k - 1 /\ s[n + (k - 1)].of = s[n + 1].of /\ k - 1 < s[n + 1].of
      BY <1>1, <2>3
    <2>6. ~Boundary(s, n + (k - 1))
      BY <1>1, <2>4, <2>5 DEF Boundary
    <2>7. s[n + k].at = (k - 1) + 1 /\ s[n + k].of = s[n + 1].of
      BY <2>4, <2>5, <2>6, NextByte
    <2>8. R(k)
      BY <2>1, <2>7
    <2>9. QED
      BY <2>1, <2>8
  <1>4. j \in 1..j
    OBVIOUS
  <1>5. R(j)
    BY <1>3, <1>4
  <1>6. QED
    BY <1>5

\* A character that begins at a boundary ends at its width, if the text goes so
\* far, and has no boundary on the way.
LEMMA CharacterEnds ==
    ASSUME NEW s, Text(s), NEW n \in Nat, n < Len(s), Boundary(s, n)
    PROVE  LET w == s[n + 1].of IN
           /\ w \in 1..UTFMax
           /\ n + w <= Len(s) => Boundary(s, n + w)
           /\ \A m \in (n + 1)..Len(s) : Boundary(s, m) => n + w <= m
  <1> DEFINE w == s[n + 1].of
  <1>1. w \in 1..UTFMax /\ Len(s) \in Nat /\ UTFMax \in Nat
    <2>1. s[n + 1] \in Byte
      BY NextByte
    <2>2. QED
      BY <2>1, ArtifactTextAssumption DEF Text, Byte
  <1>2. n + w <= Len(s) => Boundary(s, n + w)
    <2> SUFFICES ASSUME n + w <= Len(s) PROVE Boundary(s, n + w)
      OBVIOUS
    <2>1. w \in Nat /\ 1 <= w /\ w <= s[n + 1].of
      BY <1>1
    <2>2. s[n + w].at = w /\ s[n + w].of = w
      BY <2>1, CharacterRuns
    <2>3. QED
      BY <2>2 DEF Boundary
  <1>3. ASSUME NEW m \in (n + 1)..Len(s), Boundary(s, m), n + w > m PROVE FALSE
    <2>1. PICK j \in Nat : j = m - n
      BY <1>1, <1>3
    <2>2. 1 <= j /\ j < w /\ j <= s[n + 1].of /\ n + j = m /\ n + j <= Len(s) /\ m # 0
      BY <1>1, <1>3, <2>1
    <2>3. s[n + j].at = j /\ s[n + j].of = w
      BY <2>2, CharacterRuns
    <2>4. QED
      BY <1>1, <1>3, <2>2, <2>3 DEF Boundary
  <1>4. \A m \in (n + 1)..Len(s) : Boundary(s, m) => n + w <= m
    BY <1>1, <1>3
  <1>5. QED
    BY <1>1, <1>2, <1>4

\* The last boundary is less than a character away.
LEMMA LastBoundaryIsNear ==
    ASSUME NEW s, Text(s), NEW n \in Nat, n <= Len(s)
    PROVE  n < LastBoundary(s, n) + UTFMax
  <1> DEFINE b == LastBoundary(s, n)
  <1>1. b \in 0..n /\ Boundary(s, b) /\ \A m \in (b + 1)..n : ~Boundary(s, m)
    BY LastBoundaryIs
  <1>2. UTFMax \in Nat /\ UTFMax >= 1 /\ Len(s) \in Nat
    BY ArtifactTextAssumption DEF Text
  <1> HIDE DEF b
  <1>3. CASE b = n
    BY <1>2, <1>3 DEF b
  <1>4. CASE b < n
    <2>1. b \in Nat /\ b < Len(s)
      BY <1>1, <1>2, <1>4
    <2>2. /\ s[b + 1].of \in 1..UTFMax
          /\ b + s[b + 1].of <= Len(s) => Boundary(s, b + s[b + 1].of)
      BY <1>1, <2>1, CharacterEnds
    <2>3. b + s[b + 1].of > n
      BY <1>1, <1>2, <2>1, <2>2
    <2>4. QED
      BY <1>1, <1>2, <2>2, <2>3 DEF b
  <1>5. QED
    BY <1>1, <1>3, <1>4

\* The beginning of a text is one, with the same bytes and boundaries.
LEMMA PrefixIsText ==
    ASSUME NEW s, Text(s), NEW n \in 0..Len(s)
    PROVE  LET p == SubSeq(s, 1, n) IN
           /\ Text(p) /\ Len(p) = n
           /\ \A i \in 1..n : p[i] = s[i]
           /\ \A m \in 0..n : Boundary(p, m) <=> Boundary(s, m)
  <1> DEFINE p == SubSeq(s, 1, n)
  <1>1. p \in Seq(Byte) /\ Len(p) = n /\ \A i \in 1..n : p[i] = s[i]
    BY DEF Text
  <1>2. DOMAIN p = 1..n /\ DOMAIN s = 1..Len(s) /\ Len(s) \in Nat
    BY <1>1 DEF Text
  <1> HIDE DEF p
  <1>3. Encoding(p)
    <2> SUFFICES ASSUME NEW i \in 1..n
                 PROVE  /\ p[i].at <= p[i].of
                        /\ IF i = 1 \/ p[i - 1].at = p[i - 1].of
                           THEN p[i].at = 1
                           ELSE p[i].at = p[i - 1].at + 1 /\ p[i].of = p[i - 1].of
                        /\ p[i].kind = "newline" => p[i].of = 1
      BY <1>2 DEF Encoding
    <2>1. i \in DOMAIN s /\ p[i] = s[i]
      BY <1>1, <1>2
    <2>2. i # 1 => p[i - 1] = s[i - 1]
      BY <1>1
    <2>3. QED
      BY <2>1, <2>2 DEF Text, Encoding
  <1>4. \A m \in 0..n : Boundary(p, m) <=> Boundary(s, m)
    BY <1>1 DEF Boundary
  <1>5. QED
    BY <1>1, <1>3, <1>4 DEF p, Text
-------------------------------------------------------------------------------
(* One bounded read and the page cut out of it. *)

\* A read is the beginning of the artifact, whole unless it is bounded; a bounded
\* one goes UTFMax bytes past the page.
LEMMA ReadIsPrefix ==
    ASSUME NEW c, Text(c), NEW o \in Nat, NEW n \in Nat, NEW sized
    PROVE  LET data    == Data(c, o, n)
               bounded == Bounded(c, o, n, sized)
           IN /\ \E k \in 0..Len(c) : Len(data) = k /\ data = SubSeq(c, 1, k)
              /\ bounded => Len(data) = o + n + UTFMax
              /\ ~bounded => data = c
  <1> DEFINE data    == Data(c, o, n)
             bounded == Bounded(c, o, n, sized)
             k == Least(Len(c), o + n + UTFMax)
  <1>1. UTFMax \in Nat /\ Len(c) \in Nat /\ c \in Seq(Byte)
    BY ArtifactTextAssumption DEF Text
  <1>2. k \in 0..Len(c) /\ (k = Len(c) \/ k = o + n + UTFMax)
    BY <1>1 DEF Least
  <1>3. data = SubSeq(c, 1, k)
    BY DEF Data, ReadLimit
  <1>4. Len(data) = k
    BY <1>1, <1>2, <1>3
  <1>5. bounded => Len(data) = o + n + UTFMax
    BY DEF Bounded, ReadLimit
  <1>6. ~bounded => k = Len(c)
    <2>1. ~bounded => k # o + n + UTFMax \/ Len(c) <= o + n + UTFMax
      BY <1>1, <1>4 DEF Bounded, ReadLimit
    <2>2. QED
      BY <1>1, <1>2, <2>1 DEF Least
  <1>7. SubSeq(c, 1, Len(c)) = c
    BY <1>1
  <1>8. QED
    BY <1>2, <1>3, <1>4, <1>5, <1>6, <1>7

\* What a read holds in full: everything but less than a character of a bounded
\* read, and all of a well-formed one that is not bounded.
LEMMA ValidEndIs ==
    ASSUME NEW c, Text(c), NEW o \in Nat, NEW n \in Nat, NEW sized
    PROVE  LET data    == Data(c, o, n)
               bounded == Bounded(c, o, n, sized)
               v       == ValidEnd(data)
           IN /\ Text(data) /\ v \in 0..Len(data) /\ Len(data) \in 0..Len(c)
              /\ \A m \in 0..Len(data) : Boundary(data, m) <=> Boundary(c, m)
              /\ \A i \in 1..Len(data) : data[i] = c[i]
              /\ Boundary(data, v)
              /\ bounded => o + n < v /\ o + n < Len(c)
              /\ ~bounded => data = c
              /\ ~bounded /\ WellFormed(data, bounded) => v = Len(c) /\ ~Has(c, "bad")
  <1> DEFINE data    == Data(c, o, n)
             bounded == Bounded(c, o, n, sized)
             v       == ValidEnd(data)
  <1>1. /\ \E k \in 0..Len(c) : Len(data) = k /\ data = SubSeq(c, 1, k)
        /\ bounded => Len(data) = o + n + UTFMax
        /\ ~bounded => data = c
    BY ReadIsPrefix
  <1> HIDE DEF data, bounded
  <1>2. /\ Text(data)
        /\ \A i \in 1..Len(data) : data[i] = c[i]
        /\ \A m \in 0..Len(data) : Boundary(data, m) <=> Boundary(c, m)
    <2>1. PICK k \in 0..Len(c) : Len(data) = k /\ data = SubSeq(c, 1, k)
      BY <1>1
    <2>2. QED
      BY <2>1, PrefixIsText
  <1>3. /\ UTFMax \in Nat /\ UTFMax >= 1 /\ Len(c) \in Nat
        /\ Len(data) \in 0..Len(c) /\ Len(data) \in Nat
    <2>1. UTFMax \in Nat /\ UTFMax >= 1 /\ Len(c) \in Nat
      BY ArtifactTextAssumption DEF Text
    <2>2. QED
      BY <1>1, <2>1
  <1>4. v \in 0..Len(data) /\ Boundary(data, v)
    BY <1>3, LastBoundaryIs DEF ValidEnd
  <1>5. Len(data) < v + UTFMax
    BY <1>2, <1>3, LastBoundaryIsNear DEF ValidEnd
  <1>6. bounded => o + n < v /\ o + n < Len(c)
    BY <1>1, <1>3, <1>4, <1>5
  <1>7. ASSUME ~bounded, WellFormed(data, bounded) PROVE v = Len(c) /\ ~Has(c, "bad")
    <2>1. Boundary(data, Len(data)) /\ ~Has(data, "bad") /\ data = c
      BY <1>1, <1>7 DEF WellFormed
    <2>2. Len(data) \in 0..Len(data)
      BY <1>3
    <2>3. Len(data) <= v
      BY <1>3, <2>1, <2>2, LastBoundaryIsLast DEF ValidEnd
    <2>4. v = Len(data)
      <3> HIDE DEF v
      <3>1. QED
        BY <1>3, <1>4, <2>3
    <2>5. QED
      BY <2>1, <2>4
  <1>8. QED
    BY <1>1, <1>2, <1>3, <1>4, <1>6, <1>7 DEF data, bounded

\* A page that is given: whole characters from the offset on, at most the budget,
\* the next character at the least, to be continued exactly before the end; what
\* ends with it is text.
LEMMA PageGiven ==
    ASSUME NEW c, Text(c), NEW o \in Nat, NEW n \in Nat, n >= UTFMax, NEW sized,
           ~PageRefused(Data(c, o, n), o, n, Bounded(c, o, n, sized))
    PROVE  LET p == Page(Data(c, o, n), o, n, Bounded(c, o, n, sized))
           IN /\ p.end \in Nat /\ o <= p.end /\ p.end <= Len(c) /\ p.end <= o + n
              /\ p.text = SubSeq(c, o + 1, p.end)
              /\ Boundary(c, o) /\ Boundary(c, p.end)
              /\ p.more \in BOOLEAN /\ (p.more <=> p.end < Len(c))
              /\ ~p.more => IsText(c)
              /\ o = p.end => o = Len(c)
  <1> DEFINE data    == Data(c, o, n)
             bounded == Bounded(c, o, n, sized)
             v       == ValidEnd(data)
             most    == Least(o + n, v)
             last    == LastBoundary(data, most)
             end     == PageEnd(data, o, n)
             p       == Page(data, o, n, bounded)
  <1>1. /\ Text(data) /\ v \in 0..Len(data) /\ Len(data) \in 0..Len(c)
        /\ \A m \in 0..Len(data) : Boundary(data, m) <=> Boundary(c, m)
        /\ \A i \in 1..Len(data) : data[i] = c[i]
        /\ Boundary(data, v)
        /\ bounded => o + n < v /\ o + n < Len(c)
        /\ ~bounded => data = c
        /\ ~bounded /\ WellFormed(data, bounded) => v = Len(c) /\ ~Has(c, "bad")
    BY ValidEndIs
  <1>2. Len(c) \in Nat /\ Len(data) \in Nat /\ UTFMax \in Nat
    BY <1>1, ArtifactTextAssumption DEF Text
  <1>3. /\ WellFormed(data, bounded)
        /\ ~Has(SubSeq(data, 1, v), "nul")
        /\ ~(o > v)
        /\ o < v => data[o + 1].at = 1
        /\ o < v /\ end = o => ~(data[o + 1].of > n)
    BY DEF PageRefused
  <1>4. bounded \in BOOLEAN
    BY DEF Bounded
  <1>5. /\ p.text = SubSeq(data, o + 1, end) /\ p.end = end
        /\ p.more \in BOOLEAN /\ (p.more <=> bounded \/ end < v)
    BY DEF Page
  <1>6. end = IF last > o THEN last ELSE o
    BY DEF PageEnd
  <1> HIDE DEF data, bounded, v, end, p
  <1>7. most \in Nat /\ most <= o + n /\ most <= v
    BY <1>1, <1>2 DEF Least
  <1>8. /\ last \in 0..most /\ Boundary(data, last)
        /\ \A m \in (last + 1)..most : ~Boundary(data, m)
    BY <1>7, LastBoundaryIs
  <1>9. o <= v /\ v \in Nat /\ v <= Len(data) /\ v <= Len(c)
    BY <1>1, <1>2, <1>3
  <1>10. Boundary(data, o)
    <2>1. CASE o = v
      BY <1>1, <2>1
    <2>2. CASE o < v
      <3>1. o < Len(data) /\ data[o + 1].at = 1
        BY <1>3, <1>9, <2>2, <1>2
      <3>2. QED
        BY <1>1, <3>1, NextByte
    <2>3. QED
      BY <1>9, <2>1, <2>2
  <1> HIDE DEF last
  <1>11. /\ end \in Nat /\ o <= end /\ end <= v /\ end <= o + n /\ end <= Len(c)
         /\ Boundary(data, end)
    BY <1>2, <1>6, <1>7, <1>8, <1>9, <1>10
  <1>12. o = end => o = v
    <2> SUFFICES ASSUME o = end, o < v PROVE FALSE
      BY <1>9
    <2> DEFINE w == data[o + 1].of
    <2>1. o < Len(data)
      BY <1>2, <1>9
    <2>2. /\ w \in 1..UTFMax
          /\ o + w <= Len(data) => Boundary(data, o + w)
          /\ v \in (o + 1)..Len(data) => o + w <= v
      BY <1>1, <1>10, <2>1, CharacterEnds
    <2>3. ~(w > n)
      BY <1>3
    <2> HIDE DEF w
    <2>4. o + w <= v /\ w <= n /\ w \in Nat /\ w >= 1
      BY <1>2, <1>9, <2>2, <2>3
    <2>5. o + w \in 0..most /\ Boundary(data, o + w)
      BY <1>2, <1>9, <2>2, <2>4 DEF Least
    <2>6. o + w <= last
      BY <1>7, <2>5, LastBoundaryIsLast DEF last
    <2>7. QED
      BY <1>6, <1>7, <1>8, <2>4, <2>6
  <1>13. ~bounded => v = Len(c)
    BY <1>1, <1>3
  <1>14. p.more \in BOOLEAN /\ (p.more <=> p.end < Len(c))
    BY <1>1, <1>2, <1>4, <1>5, <1>11, <1>13
  <1>15. o = p.end => o = Len(c)
    <2>1. CASE bounded
      BY <1>1, <1>2, <1>5, <1>12, <2>1
    <2>2. CASE ~bounded
      BY <1>5, <1>12, <1>13, <2>2
    <2>3. QED
      BY <2>1, <2>2
  <1>16. ~p.more => IsText(c)
    <2> SUFFICES ASSUME ~p.more PROVE IsText(c)
      OBVIOUS
    <2>1. ~bounded /\ v = Len(c) /\ data = c /\ ~Has(c, "bad")
      BY <1>1, <1>3, <1>4, <1>5, <1>13
    <2>2. Boundary(c, Len(c))
      BY <1>1, <2>1
    <2>3. SubSeq(data, 1, v) = c
      BY <2>1 DEF Text
    <2>4. QED
      BY <1>3, <2>1, <2>2, <2>3 DEF IsText
  <1>17. SubSeq(data, o + 1, end) = SubSeq(c, o + 1, end)
    <2>1. end <= Len(data)
      BY <1>2, <1>9, <1>11
    <2>2. \A i \in 1..(end - o) : o + i \in 1..Len(data) /\ data[o + i] = c[o + i]
      BY <1>1, <1>2, <1>11, <2>1
    <2>3. /\ SubSeq(data, o + 1, end) \in Seq(Byte) /\ Len(SubSeq(data, o + 1, end)) = end - o
          /\ SubSeq(c, o + 1, end) \in Seq(Byte) /\ Len(SubSeq(c, o + 1, end)) = end - o
      BY <1>1, <1>2, <1>11, <2>1 DEF Text
    <2>4. \A i \in 1..(end - o) : SubSeq(data, o + 1, end)[i] = data[o + i] /\ SubSeq(c, o + 1, end)[i] = c[o + i]
      BY <1>1, <1>2, <1>11, <2>1 DEF Text
    <2>5. QED
      BY <2>2, <2>3, <2>4, SeqEqual
  <1>18. Boundary(c, o) /\ Boundary(c, end)
    BY <1>1, <1>2, <1>9, <1>10, <1>11
  <1>19. QED
    <2>1. /\ p.end \in Nat /\ o <= p.end /\ p.end <= Len(c) /\ p.end <= o + n
          /\ p.text = SubSeq(c, o + 1, p.end)
          /\ Boundary(c, o) /\ Boundary(c, p.end)
      BY <1>5, <1>11, <1>17, <1>18
    <2> HIDE DEF p
    <2>2. p = Page(Data(c, o, n), o, n, Bounded(c, o, n, sized))
      BY DEF p, data, bounded
    <2>3. QED
      BY <1>14, <1>15, <1>16, <2>1, <2>2

\* A text is refused only an offset past its end or inside a character.
LEMMA TextGiven ==
    ASSUME NEW c, Text(c), NEW o \in Nat, NEW n \in Nat, n >= UTFMax, NEW sized,
           IsText(c), o <= Len(c), Boundary(c, o)
    PROVE  ~PageRefused(Data(c, o, n), o, n, Bounded(c, o, n, sized))
  <1> DEFINE data    == Data(c, o, n)
             bounded == Bounded(c, o, n, sized)
             v       == ValidEnd(data)
  <1>1. /\ Text(data) /\ v \in 0..Len(data) /\ Len(data) \in 0..Len(c)
        /\ \A m \in 0..Len(data) : Boundary(data, m) <=> Boundary(c, m)
        /\ \A i \in 1..Len(data) : data[i] = c[i]
        /\ bounded => o + n < v
        /\ ~bounded => data = c
        /\ ~bounded /\ WellFormed(data, bounded) => v = Len(c)
    BY ValidEndIs
  <1>2. Len(c) \in Nat /\ Len(data) \in Nat /\ UTFMax \in Nat
    BY <1>1, ArtifactTextAssumption DEF Text
  <1> HIDE DEF data, bounded, v
  <1>3. \A i \in 1..Len(data) : data[i].kind # "bad" /\ data[i].kind # "nul"
    <2>1. \A i \in 1..Len(c) : c[i].kind # "bad" /\ c[i].kind # "nul"
      BY DEF IsText, Has, Text
    <2>2. QED
      BY <1>1, <1>2, <2>1
  <1>4. WellFormed(data, bounded)
    <2>1. ~Has(data, "bad")
      <3>1. DOMAIN data = 1..Len(data)
        BY <1>1 DEF Text
      <3>2. QED
        BY <1>3, <3>1 DEF Has
    <2>2. bounded \/ Boundary(data, Len(data))
      BY <1>1 DEF IsText
    <2>3. QED
      BY <2>1, <2>2 DEF WellFormed
  <1>5. ~Has(SubSeq(data, 1, v), "nul")
    <2>1. SubSeq(data, 1, v) \in Seq(Byte) /\ Len(SubSeq(data, 1, v)) = v
      BY <1>1 DEF Text
    <2>2. \A i \in 1..v : SubSeq(data, 1, v)[i] = data[i] /\ i \in 1..Len(data)
      BY <1>1, <1>2 DEF Text
    <2>3. QED
      BY <1>3, <2>1, <2>2 DEF Has
  <1>6. o <= v
    BY <1>1, <1>2, <1>4
  <1>7. ASSUME o < v PROVE data[o + 1].at = 1 /\ data[o + 1].of <= n
    <2>1. o < Len(data) /\ Boundary(data, o)
      BY <1>1, <1>2, <1>7
    <2>2. data[o + 1].at = 1 /\ data[o + 1] \in Byte
      BY <1>1, <2>1, NextByte
    <2>3. data[o + 1].of \in 1..UTFMax
      BY <2>2 DEF Byte
    <2>4. QED
      BY <1>2, <2>2, <2>3
  <1>8. v \in Nat
    BY <1>1, <1>2
  <1>9. ~(o > v)
    BY <1>6, <1>8
  <1>10. o < v => ~(data[o + 1].of > n)
    <2> SUFFICES ASSUME o < v PROVE ~(data[o + 1].of > n)
      OBVIOUS
    <2>1. data[o + 1].of \in Nat
      <3>1. o < Len(data)
        BY <1>1, <1>2
      <3>2. data[o + 1] \in Byte
        BY <1>1, <1>7, <3>1 DEF Text
      <3>3. QED
        BY <1>2, <3>2 DEF Byte
    <2>2. QED
      BY <1>7, <2>1
  <1>11. ~PageRefused(data, o, n, bounded)
    BY <1>4, <1>5, <1>7, <1>9, <1>10 DEF PageRefused, v
  <1>12. QED
    BY <1>11 DEF data, bounded
-------------------------------------------------------------------------------
(* The invariant, step by step. *)

LEMMA InitIInv == Init => IInv
  <1> SUFFICES ASSUME Init PROVE IInv
    OBVIOUS
  <1>1. /\ content \in Contents /\ content \in Seq(Byte)
        /\ MaxOffset \in Nat /\ MaxCalls \in Nat /\ MaxHops \in Nat
    BY ArtifactPagesAssumption DEF Init
  <1>2. TypeOK
    <2>1. [from |-> 0, to |-> 0] \in [from : Nat, to : Nat] /\ << >> \in Seq(Byte)
      OBVIOUS
    <2>2. 0 \in Int /\ 0 \in 0..MaxHops /\ 0 \in 0..MaxCalls /\ 0 \in Nat
      BY <1>1
    <2>3. QED
      BY <1>1, <2>1, <2>2 DEF Init, TypeOK
  <1>3. PagesRejoin
    <2>1. text = << >> /\ Len(text) = 0 /\ next = 0 /\ complete = FALSE
      BY DEF Init
    <2>2. SubSeq(content, 1, 0) = << >>
      BY SubSeqEmpty
    <2>3. QED
      BY <1>2, <2>1, <2>2 DEF PagesRejoin
  <1>4. QED
    BY <1>1, <1>3 DEF Init, IInv, PagesAreWholeText, TextIsReadable, InRange

\* What a step that gives no page must leave alone, and how it may end a call.
LEMMA NoPageKeepsIInv ==
    ASSUME IInv, TypeOK', UNCHANGED <<content, page, caller>>,
           pc' # "idle" => ~OutOfRange(offset', maxBytes'),
           \/ outcome' \in {"none", "failed"}
           \/ outcome' = "refused" /\ OutOfRange(offset', maxBytes')
           \/ UNCHANGED <<outcome, offset, maxBytes>>
    PROVE  IInv'
  <1>1. PagesRejoin'
    BY DEF IInv, PagesRejoin, caller
  <1>2. PagesAreWholeText'
    BY DEF IInv, PagesAreWholeText
  <1>3. TextIsReadable'
    <2>1. next' <= MaxOffset
      BY DEF IInv, TextIsReadable, caller
    <2>2. outcome' = "refused" /\ IsText(content') /\ Len(content') <= MaxOffset + 1 =>
              OutOfRange(offset', maxBytes') \/ offset' > Len(content') \/ ~Boundary(content', offset')
      BY DEF IInv, TextIsReadable
    <2>3. QED
      BY <2>1, <2>2 DEF TextIsReadable
  <1>4. InRange'
    BY DEF IInv, InRange, caller
  <1>5. QED
    BY <1>1, <1>2, <1>3, <1>4 DEF IInv

\* A call is refused out of range, or it is in range.
LEMMA CallKeepsIInv ==
    ASSUME IInv, NEW o \in Offsets \cup {next}, NEW n \in PageSizes, Call(o, n)
    PROVE  IInv'
  <1>1. TypeOK
    BY DEF IInv, PagesRejoin
  <1>2. o \in Int /\ n \in Int
    BY <1>1, ArtifactPagesAssumption DEF TypeOK
  <1>3. /\ offset' = o /\ maxBytes' = n /\ hops' = 0 /\ calls' = calls + 1 /\ calls < MaxCalls
        /\ UNCHANGED <<content, page, caller>>
        /\ \/ OutOfRange(o, n) /\ pc' = "idle" /\ outcome' = "refused"
           \/ ~OutOfRange(o, n) /\ pc' = "lookup" /\ outcome' = "none"
    BY DEF Call, End
  <1>4. calls' \in 0..MaxCalls /\ 0 \in 0..MaxHops
    BY <1>1, <1>3, ArtifactPagesAssumption DEF TypeOK
  <1>5. TypeOK'
    BY <1>1, <1>2, <1>3, <1>4 DEF TypeOK, caller
  <1>6. QED
    BY <1>3, <1>5, NoPageKeepsIInv

\* The steps of a call before its answer.
LEMMA LookupKeepsIInv ==
    ASSUME IInv, Lookup \/ Fail \/ (\E sameOrigin \in BOOLEAN : Redirect(sameOrigin))
    PROVE  IInv'
  <1>1. TypeOK /\ (pc # "idle" => ~OutOfRange(offset, maxBytes))
    BY DEF IInv, PagesRejoin, InRange
  <1>2. CASE Lookup
    <2>1. TypeOK'
      BY <1>1, <1>2 DEF Lookup, TypeOK, call, caller
    <2>2. /\ UNCHANGED <<content, page, caller, outcome, offset, maxBytes>>
          /\ pc # "idle"
      BY <1>2 DEF Lookup, call
    <2>3. ~OutOfRange(offset', maxBytes')
      BY <1>1, <2>2
    <2>4. QED
      BY <2>1, <2>2, <2>3, NoPageKeepsIInv
  <1>3. CASE Fail
    <2>1. TypeOK'
      BY <1>1, <1>3 DEF Fail, End, TypeOK, call, caller
    <2>2. UNCHANGED <<content, page, caller>> /\ outcome' = "failed" /\ pc' = "idle"
      BY <1>3 DEF Fail, End
    <2>3. QED
      BY <2>1, <2>2, NoPageKeepsIInv
  <1>4. CASE \E sameOrigin \in BOOLEAN : Redirect(sameOrigin)
    <2>1. /\ UNCHANGED <<content, offset, maxBytes, page, caller, calls>>
          /\ pc = "fetch"
          /\ \/ pc' = "idle" /\ outcome' = "failed" /\ UNCHANGED hops
             \/ hops < MaxHops /\ hops' = hops + 1 /\ UNCHANGED <<pc, outcome>>
      BY <1>4 DEF Redirect, End, HopsLeft
    <2>2. hops' \in 0..MaxHops
      BY <1>1, <2>1, ArtifactPagesAssumption DEF TypeOK
    <2>3. TypeOK'
      BY <1>1, <2>1, <2>2 DEF TypeOK, caller
    <2>4. ~OutOfRange(offset', maxBytes')
      BY <1>1, <2>1
    <2>5. QED
      BY <2>1, <2>3, <2>4, NoPageKeepsIInv
  <1>5. QED
    BY <1>2, <1>3, <1>4

\* An answer is refused, and then not for a legal continuation of a text; or it
\* gives the next page, and the caller who asked for it joins it.
LEMMA AnswerKeepsIInv ==
    ASSUME IInv, NEW sized \in BOOLEAN, Answer(sized)
    PROVE  IInv'
  <1> DEFINE data    == Data(content, offset, maxBytes)
             bounded == Bounded(content, offset, maxBytes, sized)
             p       == Page(data, offset, maxBytes, bounded)
             refused == PageRefused(data, offset, maxBytes, bounded)
  <1>1. TypeOK /\ pc = "fetch" /\ UNCHANGED <<content, call, calls>>
    BY DEF IInv, PagesRejoin, Answer
  <1>2. /\ offset \in Nat /\ maxBytes \in Nat /\ maxBytes >= UTFMax
        /\ MaxOffset \in Nat /\ UTFMax \in Nat /\ ~OutOfRange(offset, maxBytes)
    <2>1. ~OutOfRange(offset, maxBytes) /\ offset \in Int /\ maxBytes \in Int
      BY <1>1 DEF IInv, InRange, TypeOK
    <2>2. QED
      BY <2>1, ArtifactPagesAssumption, ArtifactTextAssumption DEF OutOfRange
  <1>3. Text(content) /\ content \in Seq(Byte) /\ Len(content) \in Nat
    BY <1>1, ArtifactPagesAssumption DEF TypeOK, Text
  <1>4. ~refused =>
          /\ p.end \in Nat /\ offset <= p.end /\ p.end <= Len(content) /\ p.end <= offset + maxBytes
          /\ p.text = SubSeq(content, offset + 1, p.end)
          /\ Boundary(content, offset) /\ Boundary(content, p.end)
          /\ p.more \in BOOLEAN /\ (p.more <=> p.end < Len(content))
          /\ ~p.more => IsText(content)
          /\ offset = p.end => offset = Len(content)
    BY <1>2, <1>3, PageGiven
  <1>5. refused /\ IsText(content) => offset > Len(content) \/ ~Boundary(content, offset)
    <2>1. IsText(content) /\ offset <= Len(content) /\ Boundary(content, offset) => ~refused
      BY <1>2, <1>3, TextGiven
    <2> HIDE DEF refused
    <2>2. QED
      BY <1>2, <1>3, <2>1
  <1>6. \/ /\ refused \/ PastMaximum(p)
           /\ pc' = "idle" /\ outcome' = "refused" /\ UNCHANGED <<page, caller>>
        \/ /\ ~refused /\ ~PastMaximum(p)
           /\ pc' = "idle" /\ outcome' = "page"
           /\ page' = [from |-> offset, to |-> p.end]
           /\ \/ /\ offset = next /\ ~complete
                 /\ text' = text \o p.text
                 /\ next' = IF p.more THEN p.end ELSE next
                 /\ complete' = ~p.more
              \/ UNCHANGED caller
    BY DEF Answer, End
  <1> HIDE DEF p, refused, data, bounded
  <1>7. ASSUME refused \/ PastMaximum(p), pc' = "idle", outcome' = "refused", UNCHANGED <<page, caller>>
        PROVE  IInv'
    <2>1. TypeOK'
      BY <1>1, <1>7 DEF TypeOK, call, caller
    <2>2. PagesRejoin'
      BY <1>1, <1>7, <2>1 DEF IInv, PagesRejoin, caller
    <2>3. ASSUME IsText(content), Len(content) <= MaxOffset + 1
          PROVE  offset > Len(content) \/ ~Boundary(content, offset)
      <3>1. ~refused => ~PastMaximum(p)
        BY <1>2, <1>3, <1>4, <2>3 DEF PastMaximum
      <3>2. QED
        BY <1>5, <1>7, <2>3, <3>1
    <2>4. TextIsReadable'
      BY <1>1, <1>7, <2>3 DEF IInv, TextIsReadable, caller, call
    <2>5. QED
      BY <1>7, <2>2, <2>4 DEF IInv, PagesAreWholeText, InRange, caller
  <1>8. ASSUME ~refused, ~PastMaximum(p), pc' = "idle", outcome' = "page",
               page' = [from |-> offset, to |-> p.end],
               \/ /\ offset = next /\ ~complete
                  /\ text' = text \o p.text
                  /\ next' = IF p.more THEN p.end ELSE next
                  /\ complete' = ~p.more
               \/ UNCHANGED caller
        PROVE  IInv'
    <2>1. /\ p.end \in Nat /\ offset <= p.end /\ p.end <= Len(content) /\ p.end <= offset + maxBytes
          /\ p.text = SubSeq(content, offset + 1, p.end)
          /\ Boundary(content, offset) /\ Boundary(content, p.end)
          /\ p.more \in BOOLEAN /\ (p.more <=> p.end < Len(content))
          /\ ~p.more => IsText(content)
          /\ offset = p.end => offset = Len(content)
      BY <1>4, <1>8
    <2>2. content' = content /\ offset' = offset /\ maxBytes' = maxBytes
      BY <1>1 DEF call
    <2>3. page' \in [from : Nat, to : Nat] /\ page'.from = offset /\ page'.to = p.end
      BY <1>2, <1>8, <2>1
    <2>4. PagesAreWholeText'
      BY <2>1, <2>2, <2>3 DEF PagesAreWholeText
    <2>5. /\ text' \in Seq(Byte) /\ text' = SubSeq(content, 1, Len(text'))
          /\ next' \in Nat /\ next' <= MaxOffset /\ complete' \in BOOLEAN
          /\ complete' => text' = content /\ IsText(content)
          /\ ~complete' => next' = Len(text') /\ (next' > 0 => next' < Len(content))
      <3>1. CASE UNCHANGED caller
        BY <1>1, <3>1 DEF IInv, PagesRejoin, InRange, TypeOK, caller
      <3>2. CASE /\ offset = next /\ ~complete
                 /\ text' = text \o p.text
                 /\ next' = IF p.more THEN p.end ELSE next
                 /\ complete' = ~p.more
        <4>1. offset = Len(text) /\ text = SubSeq(content, 1, offset)
          BY <3>2 DEF IInv, PagesRejoin
        <4>2. text' = SubSeq(content, 1, p.end) /\ Len(text') = p.end
          <5>1. text' = SubSeq(content, 1, offset) \o SubSeq(content, offset + 1, p.end)
            BY <2>1, <3>2, <4>1
          <5>2. /\ content \in Seq(Byte) /\ offset \in Nat /\ p.end \in Nat
                /\ offset <= p.end /\ p.end <= Len(content)
            BY <1>2, <1>3, <2>1
          <5>3. /\ SubSeq(content, 1, offset) \o SubSeq(content, offset + 1, p.end)
                       = SubSeq(content, 1, p.end)
                /\ Len(SubSeq(content, 1, p.end)) = p.end
            BY <5>2, SubSeqJoin
          <5>4. QED
            BY <5>1, <5>3
        <4>3. text' \in Seq(Byte)
          BY <1>3, <2>1, <4>2
        <4>4. next' \in Nat /\ next' <= MaxOffset
          BY <1>2, <2>1, <1>8, <3>2 DEF PastMaximum, IInv, InRange
        <4>5. ~p.more => text' = content /\ IsText(content)
          BY <1>3, <2>1, <4>2
        <4>6. complete' \in BOOLEAN /\ (complete' <=> ~p.more)
          BY <2>1, <3>2
        <4>7. p.more => next' = Len(text') /\ next' < Len(content)
          BY <2>1, <3>2, <4>2
        <4>8. QED
          BY <4>2, <4>3, <4>4, <4>5, <4>6, <4>7
      <3>3. QED
        BY <1>8, <3>1, <3>2
    <2>6. TypeOK'
      BY <1>1, <1>8, <2>3, <2>5 DEF TypeOK, call
    <2>7. PagesRejoin'
      BY <2>2, <2>5, <2>6 DEF PagesRejoin
    <2>8. TextIsReadable' /\ InRange'
      BY <1>8, <2>5 DEF TextIsReadable, InRange
    <2>9. QED
      BY <2>4, <2>7, <2>8 DEF IInv
  <1>9. QED
    BY <1>6, <1>7, <1>8

LEMMA NextKeepsIInv == IInv /\ [Next]_vars => IInv'
  <1> SUFFICES ASSUME IInv, [Next]_vars PROVE IInv'
    OBVIOUS
  <1>1. CASE UNCHANGED vars
    <2>1. TypeOK
      BY DEF IInv, PagesRejoin
    <2>2. /\ UNCHANGED <<content, page, caller, outcome, offset, maxBytes, pc, hops, calls>>
      BY <1>1 DEF vars, call
    <2>3. TypeOK'
      BY <2>1, <2>2 DEF TypeOK, caller
    <2>4. pc' # "idle" => ~OutOfRange(offset', maxBytes')
      BY <2>2 DEF IInv, InRange
    <2>5. QED
      BY <2>2, <2>3, <2>4, NoPageKeepsIInv
  <1>2. QED
    BY <1>1, CallKeepsIInv, LookupKeepsIInv, AnswerKeepsIInv DEF Next

\* The invariant of the calls of read_workflow_artifact and their caller.
THEOREM SpecIInv == Spec => []IInv
  BY InitIInv, NextKeepsIInv, PTL DEF Spec

\* The pages joined by next_offset are the artifact, to its end exactly when
\* has_more is false.
THEOREM PagesJoin == Spec => []PagesRejoin
  <1>1. IInv => PagesRejoin
    BY DEF IInv
  <1>2. QED
    BY <1>1, SpecIInv, PTL

\* Every page is whole characters, none is empty before the end.
THEOREM PagesAreWhole == Spec => []PagesAreWholeText
  <1>1. IInv => PagesAreWholeText
    BY DEF IInv
  <1>2. QED
    BY <1>1, SpecIInv, PTL

\* A text within the offsets is never refused to a caller who follows it.
THEOREM TextsAreReadable == Spec => []TextIsReadable
  <1>1. IInv => TextIsReadable
    BY DEF IInv
  <1>2. QED
    BY <1>1, SpecIInv, PTL
-------------------------------------------------------------------------------
(* Sequences of sequences joined, and members in order. *)

\* The first n sequences of s joined.
Joined(s, n) == FlattenSeq([k \in 1..n |-> s[k]])

\* The joins of the first sequences, one after the other, as FlattenSeq makes them.
JoinedUpTo(s, n, g) == g = [i \in 1..n |-> IF i = 1 THEN s[i] ELSE g[i - 1] \o s[i]]

LEMMA JoinsExist ==
    ASSUME NEW s, NEW n \in Nat
    PROVE  \E g : JoinedUpTo(s, n, g)
  <1> DEFINE Lacking == {m \in 0..n : ~\E g : JoinedUpTo(s, m, g)}
  <1> SUFFICES ASSUME ~\E g : JoinedUpTo(s, n, g) PROVE FALSE
    OBVIOUS
  <1>1. Lacking \subseteq Nat /\ Lacking # {}
    BY n \in 0..n
  <1>2. PICK m \in Lacking : \A l \in Lacking : m <= l
    BY <1>1, LeastIndex
  <1>3. m \in Nat /\ m <= n /\ ~\E g : JoinedUpTo(s, m, g)
    OBVIOUS
  <1>4. CASE m = 0
    <2> DEFINE h == [i \in 1..0 |-> << >>]
    <2>1. h = [i \in 1..0 |-> IF i = 1 THEN s[i] ELSE h[i - 1] \o s[i]]
      OBVIOUS
    <2>2. JoinedUpTo(s, m, h)
      BY <1>4, <2>1 DEF JoinedUpTo
    <2>3. QED
      BY <1>3, <2>2
  <1>5. CASE m # 0
    <2>1. m - 1 \in 0..n /\ ~(m - 1 >= m)
      BY <1>3, <1>5
    <2>2. m - 1 \notin Lacking
      BY <1>2, <2>1
    <2>3. PICK g : JoinedUpTo(s, m - 1, g)
      BY <2>1, <2>2
    <2> DEFINE step(h, i) == IF i = 1 THEN s[i] ELSE h[i - 1] \o s[i]
               h == [i \in 1..m |-> step(g, i)]
    <2>4. \A i \in 1..(m - 1) : g[i] = step(g, i)
      BY <2>3 DEF JoinedUpTo
    <2>5. \A i \in 1..m : i # 1 => i - 1 \in 1..(m - 1)
      BY <1>3
    <2>6. \A i \in 1..m : h[i] = step(g, i)
      OBVIOUS
    <2>7. h = [i \in 1..m |-> IF i = 1 THEN s[i] ELSE h[i - 1] \o s[i]]
      <3>1. h = [i \in 1..m |-> step(g, i)]
        OBVIOUS
      <3> HIDE DEF h
      <3>2. ASSUME NEW i \in 1..m PROVE step(g, i) = IF i = 1 THEN s[i] ELSE h[i - 1] \o s[i]
        <4>1. CASE i = 1
          BY <4>1
        <4>2. CASE i # 1
          <5>1. i - 1 \in 1..(m - 1) /\ i - 1 \in 1..m
            BY <1>3, <2>5, <4>2
          <5>2. h[i - 1] = g[i - 1]
            BY <2>4, <2>6, <5>1
          <5>3. QED
            BY <4>2, <5>2
        <4>3. QED
          BY <4>1, <4>2
      <3>3. QED
        BY <3>1, <3>2
    <2>8. JoinedUpTo(s, m, h)
      BY <2>7 DEF JoinedUpTo
    <2>9. QED
      BY <1>3, <2>8
  <1>6. QED
    BY <1>4, <1>5

LEMMA JoinsAgree ==
    ASSUME NEW s, NEW t, NEW n \in Nat, NEW m \in Nat, NEW l \in 1..n, l <= m,
           \A i \in 1..l : s[i] = t[i],
           NEW g, JoinedUpTo(s, n, g), NEW h, JoinedUpTo(t, m, h)
    PROVE  g[l] = h[l]
  <1> DEFINE Unlike == {i \in 1..l : g[i] # h[i]}
  <1> SUFFICES ASSUME g[l] # h[l] PROVE FALSE
    OBVIOUS
  <1>1. Unlike \subseteq Nat /\ Unlike # {}
    BY l \in 1..l
  <1>2. PICK i \in Unlike : \A j \in Unlike : i <= j
    BY <1>1, LeastIndex
  <1>3. i \in 1..l /\ i \in 1..n /\ i \in 1..m /\ g[i] # h[i]
    OBVIOUS
  <1>4. /\ g[i] = IF i = 1 THEN s[i] ELSE g[i - 1] \o s[i]
        /\ h[i] = IF i = 1 THEN t[i] ELSE h[i - 1] \o t[i]
    BY <1>3 DEF JoinedUpTo
  <1>5. i # 1 => i - 1 \in 1..l /\ ~(i - 1 >= i)
    BY <1>3
  <1>6. i # 1 => g[i - 1] = h[i - 1]
    BY <1>2, <1>5
  <1>7. QED
    BY <1>3, <1>4, <1>6

LEMMA FlattenIs ==
    ASSUME NEW s, Len(s) \in Nat, Len(s) # 0
    PROVE  \E g : JoinedUpTo(s, Len(s), g) /\ FlattenSeq(s) = g[Len(s)]
  <1> DEFINE g == CHOOSE f : f = [i \in 1..Len(s) |-> IF i = 1 THEN s[i] ELSE f[i - 1] \o s[i]]
  <1>1. \E f : f = [i \in 1..Len(s) |-> IF i = 1 THEN s[i] ELSE f[i - 1] \o s[i]]
    BY JoinsExist DEF JoinedUpTo
  <1>2. g = [i \in 1..Len(s) |-> IF i = 1 THEN s[i] ELSE g[i - 1] \o s[i]]
    BY <1>1
  <1>3. FlattenSeq(s) = g[Len(s)]
    BY DEF FlattenSeq
  <1>4. QED
    BY <1>2, <1>3 DEF JoinedUpTo

\* Joining no sequences gives none, and one more appends it.
LEMMA FlattenGrows ==
    ASSUME NEW s, NEW n \in Nat
    PROVE  /\ Joined(s, 0) = << >>
           /\ Joined(s, n + 1) = IF n = 0 THEN s[1] ELSE Joined(s, n) \o s[n + 1]
  <1> DEFINE first(m) == [k \in 1..m |-> s[k]]
  <1>1. \A m \in Nat : Len(first(m)) = m
    OBVIOUS
  <1>2. FlattenSeq(first(0)) = << >>
    <2>1. first(0) = << >> /\ Len(<< >>) = 0
      OBVIOUS
    <2>2. QED
      BY <2>1 DEF FlattenSeq
  <1> HIDE DEF first
  <1>3. PICK g : JoinedUpTo(first(n + 1), n + 1, g) /\ FlattenSeq(first(n + 1)) = g[n + 1]
    <2>1. Len(first(n + 1)) = n + 1 /\ n + 1 # 0 /\ n + 1 \in Nat
      BY <1>1
    <2>2. \E g : JoinedUpTo(first(n + 1), Len(first(n + 1)), g) /\ FlattenSeq(first(n + 1)) = g[Len(first(n + 1))]
      BY <2>1, FlattenIs
    <2>3. QED
      BY <2>1, <2>2
  <1>4. first(n + 1)[n + 1] = s[n + 1]
    BY DEF first
  <1>5. g[n + 1] = IF n + 1 = 1 THEN first(n + 1)[n + 1] ELSE g[n] \o first(n + 1)[n + 1]
    <2>1. n + 1 \in 1..(n + 1) /\ (n + 1) - 1 = n
      OBVIOUS
    <2>2. QED
      BY <1>3, <2>1 DEF JoinedUpTo
  <1>6. n # 0 => g[n] = FlattenSeq(first(n))
    <2> SUFFICES ASSUME n # 0 PROVE g[n] = FlattenSeq(first(n))
      OBVIOUS
    <2>1. Len(first(n)) = n
      BY <1>1
    <2>2. PICK h : JoinedUpTo(first(n), n, h) /\ FlattenSeq(first(n)) = h[n]
      <3>1. \E h : JoinedUpTo(first(n), Len(first(n)), h) /\ FlattenSeq(first(n)) = h[Len(first(n))]
        BY <2>1, FlattenIs
      <3>2. QED
        BY <2>1, <3>1
    <2>3. \A i \in 1..n : first(n + 1)[i] = first(n)[i]
      BY DEF first
    <2>4. n \in 1..(n + 1) /\ n <= n /\ n + 1 \in Nat
      OBVIOUS
    <2>5. g[n] = h[n]
      BY <1>3, <2>2, <2>3, <2>4, JoinsAgree
    <2>6. QED
      BY <2>2, <2>5
  <1>7. n + 1 = 1 <=> n = 0
    OBVIOUS
  <1>8. FlattenSeq(first(n + 1)) = IF n = 0 THEN s[1] ELSE FlattenSeq(first(n)) \o s[n + 1]
    BY <1>3, <1>4, <1>5, <1>6, <1>7
  <1>9. QED
    BY <1>2, <1>8 DEF first, Joined
-------------------------------------------------------------------------------
\* Positions have an order.
LEMMA InOrderExists ==
    ASSUME NEW n \in Nat, NEW S \in SUBSET (1..n)
    PROVE  InOrder(S) # {}
  <1> DEFINE Upto(m)  == {k \in S : k <= m}
             Lacking == {m \in 0..n : InOrder(Upto(m)) = {}}
  <1> SUFFICES ASSUME InOrder(S) = {} PROVE FALSE
    OBVIOUS
  <1>0. \A k \in S : k \in 1..n /\ k \in Nat /\ 1 <= k /\ k <= n
    OBVIOUS
  <1>1. Upto(n) = S
    BY <1>0
  <1>2. n \in Lacking
    <2> HIDE DEF Upto
    <2>1. QED
      BY <1>1
  <1>3. Lacking \subseteq Nat /\ Lacking # {}
    BY <1>2
  <1>4. PICK m \in Lacking : \A l \in Lacking : m <= l
    <2> HIDE DEF Lacking
    <2>1. QED
      BY <1>3, LeastIndex
  <1>5. m \in 0..n /\ m \in Nat /\ m <= n /\ InOrder(Upto(m)) = {}
    OBVIOUS
  <1>6. CASE m = 0
    <2>1. Upto(m) = {}
      <3>1. \A k \in S : ~(k <= m)
        BY <1>0, <1>6
      <3>2. QED
        BY <3>1
    <2>2. Cardinality({}) = 0
      BY FS_EmptySet
    <2>3. << >> \in [1..0 -> {}] /\ DOMAIN << >> = {}
      OBVIOUS
    <2>4. << >> \in InOrder({})
      BY <2>2, <2>3 DEF InOrder
    <2>5. QED
      BY <1>5, <2>1, <2>4
  <1>7. CASE m # 0
    <2> DEFINE R == Upto(m - 1)
               c == Cardinality(R)
    <2>1. m - 1 \in 0..n /\ ~(m <= m - 1)
      BY <1>5, <1>7
    <2>2. m - 1 \notin Lacking
      <3> HIDE DEF Lacking
      <3>1. QED
        BY <1>4, <2>1
    <2>3. PICK f : f \in InOrder(R)
      BY <2>1, <2>2
    <2>4. IsFiniteSet(R) /\ c \in Nat
      <3>1. IsFiniteSet(1..n)
        BY FS_Interval
      <3>2. R \in SUBSET (1..n)
        OBVIOUS
      <3>3. IsFiniteSet(R)
        BY <3>1, <3>2, FS_Subset
      <3>4. QED
        BY <3>3, FS_CardinalityType
    <2>5. \A k \in R : k < m /\ k \in Nat
      BY <1>5
    <2>6. m \notin S => Upto(m) = R
      <3>1. \A k \in S : k <= m <=> k <= m - 1 \/ k = m
        BY <1>5
      <3>2. QED
        BY <3>1
    <2>7. m \in S => Upto(m) = R \cup {m}
      <3>1. \A k \in S : k <= m <=> k <= m - 1 \/ k = m
        BY <1>5
      <3>2. m \in S => m <= m
        BY <1>5
      <3>3. QED
        BY <3>1, <3>2
    <2> HIDE DEF R, Upto, Lacking
    <2>8. m \notin R
      BY <2>5
    <2>9. /\ f \in [1..c -> R]
          /\ \A i, j \in 1..c : i < j => f[i] < f[j]
          /\ \A k \in R : \E i \in 1..c : f[i] = k
      BY <2>3 DEF InOrder
    <2> DEFINE h == [i \in 1..(c + 1) |-> IF i = c + 1 THEN m ELSE f[i]]
    <2>10. Cardinality(R \cup {m}) = c + 1
      BY <2>4, <2>8, FS_AddElement
    <2> HIDE DEF c
    <2>11. \A i \in 1..c : i \in 1..(c + 1) /\ i # c + 1
      BY <2>4
    <2>12. \A i \in 1..(c + 1) : i # c + 1 => i \in 1..c
      BY <2>4
    <2>13. c + 1 \in 1..(c + 1) /\ h[c + 1] = m /\ \A i \in 1..c : h[i] = f[i]
      BY <2>4, <2>11
    <2>14. h \in [1..(c + 1) -> R \cup {m}]
      BY <2>9, <2>12
    <2> HIDE DEF h
    <2>15. ASSUME NEW i \in 1..(c + 1), NEW j \in 1..(c + 1), i < j PROVE h[i] < h[j]
      <3>1. i \in 1..c
        BY <2>4, <2>15
      <3>2. h[i] = f[i] /\ f[i] \in R
        BY <2>9, <2>13, <3>1
      <3>3. CASE j = c + 1
        BY <2>5, <2>13, <3>2, <3>3
      <3>4. CASE j # c + 1
        BY <2>9, <2>12, <2>13, <2>15, <3>1, <3>2, <3>4
      <3>5. QED
        BY <3>3, <3>4
    <2>16. \A k \in R \cup {m} : \E i \in 1..(c + 1) : h[i] = k
      BY <2>9, <2>11, <2>13
    <2>17. DOMAIN h = 1..(c + 1)
      BY <2>14
    <2>18. h \in InOrder(R \cup {m})
      BY <2>10, <2>14, <2>15, <2>16, <2>17 DEF InOrder
    <2>19. QED
      <3>1. CASE m \in S
        BY <1>5, <2>7, <2>18, <3>1
      <3>2. CASE m \notin S
        BY <1>5, <2>3, <2>6, <3>2
      <3>3. QED
        BY <3>1, <3>2
  <1>8. QED
    BY <1>6, <1>7

\* The positions in order: a sequence of all of them, each larger than the last.
LEMMA SortedIs ==
    ASSUME NEW n \in Nat, NEW S \in SUBSET (1..n)
    PROVE  /\ Sorted(S) \in Seq(S) /\ DOMAIN Sorted(S) = 1..Len(Sorted(S))
           /\ Len(Sorted(S)) \in Nat
           /\ \A i \in 1..Len(Sorted(S)) : Sorted(S)[i] \in S
           /\ \A i, j \in 1..Len(Sorted(S)) : i < j => Sorted(S)[i] < Sorted(S)[j]
           /\ \A k \in S : \E i \in 1..Len(Sorted(S)) : Sorted(S)[i] = k
  <1> DEFINE f == Sorted(S)
  <1>1. f \in InOrder(S)
    BY InOrderExists DEF Sorted
  <1>2. IsFiniteSet(S) /\ Cardinality(S) \in Nat
    <2>1. IsFiniteSet(1..n)
      BY FS_Interval
    <2>2. IsFiniteSet(S)
      BY <2>1, FS_Subset
    <2>3. QED
      BY <2>2, FS_CardinalityType
  <1> HIDE DEF f
  <1>3. /\ f \in [1..Cardinality(S) -> S]
        /\ \A i, j \in DOMAIN f : i < j => f[i] < f[j]
        /\ \A k \in S : \E i \in DOMAIN f : f[i] = k
    BY <1>1 DEF InOrder
  <1>4. /\ f \in Seq(S) /\ Len(f) = Cardinality(S) /\ DOMAIN f = 1..Cardinality(S)
        /\ \A i \in 1..Cardinality(S) : f[i] \in S
    BY <1>2, <1>3
  <1>5. QED
    BY <1>2, <1>3, <1>4 DEF f

\* The positions up to one of them come first in the order of all.
LEMMA SortedUpTo ==
    ASSUME NEW n \in Nat, NEW S \in SUBSET (1..n), NEW m \in Nat
    PROVE  LET f == Sorted(S)
               h == Sorted({k \in S : k <= m})
           IN Len(h) <= Len(f) /\ \A i \in 1..Len(h) : h[i] = f[i] /\ f[i] <= m
  <1> DEFINE R == {k \in S : k <= m}
             f == Sorted(S)
             h == Sorted(R)
  <1>1. /\ Len(f) \in Nat /\ \A i \in 1..Len(f) : f[i] \in S
        /\ \A i, j \in 1..Len(f) : i < j => f[i] < f[j]
        /\ \A k \in S : \E i \in 1..Len(f) : f[i] = k
    BY SortedIs
  <1>2. R \in SUBSET (1..n)
    OBVIOUS
  <1>3. /\ Len(h) \in Nat /\ \A i \in 1..Len(h) : h[i] \in R
        /\ \A i, j \in 1..Len(h) : i < j => h[i] < h[j]
        /\ \A k \in R : \E i \in 1..Len(h) : h[i] = k
    <2> HIDE DEF R
    <2>1. QED
      BY <1>2, SortedIs
  <1>4. \A k : k \in R <=> k \in S /\ k <= m
    OBVIOUS
  <1>5. \A k \in S : k \in Nat
    OBVIOUS
  <1> HIDE DEF R, f, h
  <1>6. \A i \in 1..Len(h) : h[i] \in R /\ h[i] \in S /\ h[i] \in Nat /\ h[i] <= m
    BY <1>3, <1>4, <1>5
  <1>7. \A i \in 1..Len(f) : f[i] \in S /\ f[i] \in Nat
    BY <1>1, <1>5
  <1> DEFINE Unlike == {i \in 1..Len(h) : ~(i <= Len(f) /\ h[i] = f[i])}
  <1>8. ASSUME Unlike # {} PROVE FALSE
    <2>1. PICK i \in Unlike : \A j \in Unlike : i <= j
      <3>1. Unlike \subseteq Nat
        BY <1>3
      <3> HIDE DEF Unlike
      <3>2. QED
        BY <1>8, <3>1, LeastIndex
    <2>2. i \in 1..Len(h) /\ ~(i <= Len(f) /\ h[i] = f[i])
      BY <2>1
    <2>3. \A j \in 1..Len(h) : j < i => j <= Len(f) /\ h[j] = f[j]
      <3>1. \A j \in 1..Len(h) : j < i => j \notin Unlike
        <4> HIDE DEF Unlike
        <4>1. QED
          BY <1>3, <2>1, <2>2
      <3>2. QED
        BY <3>1
    <2> HIDE DEF Unlike
    \* The member at i of h is somewhere in f: not before i, for h has others there.
    <2>4. PICK l \in 1..Len(f) : f[l] = h[i]
      BY <1>1, <1>6, <2>2
    <2>5. l >= i
      <3> SUFFICES ASSUME l < i PROVE FALSE
        BY <1>1, <1>3, <2>2
      <3>1. l \in 1..Len(h)
        BY <1>1, <1>3, <2>2
      <3>2. h[l] = f[l] /\ h[l] < h[i]
        BY <1>3, <2>2, <2>3, <3>1
      <3>3. QED
        BY <1>6, <2>2, <2>4, <3>2
    <2>6. i <= Len(f) /\ i \in 1..Len(f) /\ h[i] # f[i]
      BY <1>1, <1>3, <2>2, <2>5
    <2>7. i < l /\ f[i] < h[i]
      <3>1. i < l
        BY <1>1, <1>3, <2>2, <2>4, <2>5, <2>6
      <3>2. QED
        BY <1>1, <2>4, <2>6, <3>1
    \* And the member at i of f is in h, and that before i.
    <2>8. f[i] \in R
      BY <1>4, <1>6, <1>7, <2>2, <2>6, <2>7
    <2>9. PICK j \in 1..Len(h) : h[j] = f[i]
      BY <1>3, <2>8
    <2>10. j < i
      <3> SUFFICES ASSUME j >= i PROVE FALSE
        BY <1>3, <2>2
      <3>1. j = i \/ h[i] < h[j]
        BY <1>3, <2>2
      <3>2. QED
        BY <1>6, <2>2, <2>7, <2>9, <3>1
    <2>11. h[j] = f[j] /\ j \in 1..Len(f)
      BY <1>1, <1>3, <2>3, <2>10
    <2>12. f[j] < f[i]
      BY <1>1, <2>6, <2>10, <2>11
    <2>13. QED
      BY <1>7, <2>6, <2>9, <2>11, <2>12
  <1>9. \A i \in 1..Len(h) : i <= Len(f) /\ h[i] = f[i]
    BY <1>8
  <1>10. Len(h) <= Len(f)
    <2>1. CASE Len(h) = 0
      BY <1>1, <2>1
    <2>2. CASE Len(h) # 0
      <3>1. Len(h) \in 1..Len(h)
        BY <1>3, <2>2
      <3>2. QED
        BY <1>9, <3>1
    <2>3. QED
      BY <2>1, <2>2
  <1>11. QED
    BY <1>6, <1>9, <1>10 DEF R, f, h

\* The members of a sequence at some of its positions.
LEMMA AtIs ==
    ASSUME NEW T, NEW s \in Seq(T), NEW P \in SUBSET (1..Len(s))
    PROVE  /\ At(s, P) \in Seq(T)
           /\ \A k \in 1..Len(At(s, P)) : \E i \in P : At(s, P)[k] = s[i]
  <1> DEFINE f == Sorted(P)
  <1>1. /\ DOMAIN f = 1..Len(f) /\ Len(f) \in Nat
        /\ \A k \in 1..Len(f) : f[k] \in P
    <2>1. Len(s) \in Nat
      OBVIOUS
    <2>2. QED
      BY <2>1, SortedIs
  <1>2. At(s, P) = [k \in 1..Len(f) |-> s[f[k]]]
    BY <1>1 DEF At
  <1> HIDE DEF f
  <1>3. \A k \in 1..Len(f) : f[k] \in P /\ s[f[k]] \in T
    <2>1. \A i \in P : s[i] \in T
      OBVIOUS
    <2>2. QED
      BY <1>1, <2>1
  <1> DEFINE a == [k \in 1..Len(f) |-> s[f[k]]]
  <1>4. a \in [1..Len(f) -> T]
    BY <1>3
  <1>5. \A k \in 1..Len(f) : a[k] = s[f[k]]
    OBVIOUS
  <1>6. At(s, P) = a
    BY <1>2
  <1> HIDE DEF a
  <1>7. a \in Seq(T) /\ Len(a) = Len(f)
    BY <1>1, <1>4
  <1>8. QED
    BY <1>3, <1>5, <1>6, <1>7
-------------------------------------------------------------------------------
LEMMA JoinedIs ==
    ASSUME NEW T, NEW s, NEW n \in Nat, \A k \in 1..n : s[k] \in Seq(T)
    PROVE  /\ Joined(s, 0) = << >>
           /\ \A m \in 0..n : Joined(s, m) \in Seq(T)
           /\ \A m \in 1..n : Joined(s, m) = Joined(s, m - 1) \o s[m]
  <1> DEFINE Untyped == {m \in 0..n : Joined(s, m) \notin Seq(T)}
  <1>1. Joined(s, 0) = << >>
    BY FlattenGrows
  <1>2. ASSUME NEW m \in 1..n, Joined(s, m - 1) \in Seq(T)
        PROVE  Joined(s, m) = Joined(s, m - 1) \o s[m] /\ Joined(s, m) \in Seq(T)
    <2>1. m - 1 \in Nat /\ (m - 1) + 1 = m /\ s[m] \in Seq(T)
      OBVIOUS
    <2>2. Joined(s, m) = IF m - 1 = 0 THEN s[1] ELSE Joined(s, m - 1) \o s[m]
      BY <2>1, FlattenGrows
    <2>3. CASE m - 1 = 0
      <3>1. m = 1 /\ Joined(s, m - 1) = << >>
        BY <1>1, <2>3
      <3>2. << >> \o s[1] = s[1]
        BY <2>1, <3>1, ConcatEmptySeq
      <3>3. QED
        BY <2>1, <2>2, <2>3, <3>1, <3>2
    <2>4. CASE m - 1 # 0
      <3>1. Joined(s, m) = Joined(s, m - 1) \o s[m]
        BY <2>2, <2>4
      <3>2. QED
        BY <1>2, <2>1, <3>1, ConcatProperties
    <2>5. QED
      BY <2>3, <2>4
  <1>3. ASSUME Untyped # {} PROVE FALSE
    <2>1. PICK m \in Untyped : \A l \in Untyped : m <= l
      <3>1. Untyped \subseteq Nat
        OBVIOUS
      <3> HIDE DEF Untyped
      <3>2. QED
        BY <1>3, <3>1, LeastIndex
    <2>2. m \in 0..n /\ Joined(s, m) \notin Seq(T)
      BY <2>1
    <2>3. m # 0
      <3>1. << >> \in Seq(T)
        OBVIOUS
      <3>2. QED
        BY <1>1, <2>2, <3>1
    <2>4. m \in 1..n /\ m - 1 \in 0..n /\ ~(m <= m - 1)
      BY <2>2, <2>3
    <2>5. Joined(s, m - 1) \in Seq(T)
      BY <2>1, <2>4
    <2>6. QED
      BY <1>2, <2>2, <2>4, <2>5
  <1>4. \A m \in 0..n : Joined(s, m) \in Seq(T)
    BY <1>3
  <1>5. \A m \in 1..n : m - 1 \in 0..n
    OBVIOUS
  <1>6. \A m \in 1..n : Joined(s, m) = Joined(s, m - 1) \o s[m]
    BY <1>2, <1>4, <1>5
  <1>7. QED
    BY <1>1, <1>4, <1>6

\* One sequence begins another.
Begins(s, t) == Len(s) <= Len(t) /\ \A i \in 1..Len(s) : s[i] = t[i]

LEMMA BeginsConcat ==
    ASSUME NEW T, NEW a \in Seq(T), NEW x \in Seq(T), NEW y \in Seq(T), Begins(a, x)
    PROVE  Begins(a, x \o y)
  <1>1. /\ Len(x \o y) = Len(x) + Len(y)
        /\ \A i \in 1..(Len(x) + Len(y)) : (x \o y)[i] = IF i <= Len(x) THEN x[i] ELSE y[i - Len(x)]
    BY ConcatProperties
  <1>2. Len(a) \in Nat /\ Len(x) \in Nat /\ Len(y) \in Nat /\ Len(a) <= Len(x)
    BY DEF Begins
  <1>3. \A i \in 1..Len(a) : i \in 1..(Len(x) + Len(y)) /\ i <= Len(x)
    BY <1>2
  <1>4. Len(a) <= Len(x \o y)
    BY <1>1, <1>2
  <1>5. \A i \in 1..Len(a) : a[i] = (x \o y)[i]
    BY <1>1, <1>3 DEF Begins
  <1>6. QED
    BY <1>4, <1>5 DEF Begins

\* Joining more sequences goes on from joining fewer.
LEMMA JoinedBegins ==
    ASSUME NEW T, NEW s, NEW n \in Nat, \A k \in 1..n : s[k] \in Seq(T), NEW m \in 0..n
    PROVE  Begins(Joined(s, m), Joined(s, n))
  <1> DEFINE Short == {k \in m..n : ~Begins(Joined(s, m), Joined(s, k))}
  <1>1. /\ \A k \in 0..n : Joined(s, k) \in Seq(T)
        /\ \A k \in 1..n : Joined(s, k) = Joined(s, k - 1) \o s[k]
    BY JoinedIs
  <1>2. \A k \in 0..n : Len(Joined(s, k)) \in Nat
    BY <1>1
  <1>3. Begins(Joined(s, m), Joined(s, m))
    BY <1>2 DEF Begins
  <1>4. ASSUME Short # {} PROVE FALSE
    <2>1. PICK k \in Short : \A l \in Short : k <= l
      <3>1. Short \subseteq Nat
        OBVIOUS
      <3> HIDE DEF Short
      <3>2. QED
        BY <1>4, <3>1, LeastIndex
    <2>2. k \in m..n /\ ~Begins(Joined(s, m), Joined(s, k))
      BY <2>1
    <2>3. k # m
      BY <1>3, <2>2
    <2>4. k \in 1..n /\ k - 1 \in m..n /\ ~(k <= k - 1) /\ k - 1 \in 0..n
      BY <2>2, <2>3
    <2>5. Begins(Joined(s, m), Joined(s, k - 1))
      BY <2>1, <2>4
    <2>6. Joined(s, k - 1) \in Seq(T) /\ s[k] \in Seq(T) /\ Joined(s, k) = Joined(s, k - 1) \o s[k]
      BY <1>1, <2>4
    <2>7. Joined(s, m) \in Seq(T)
      BY <1>1
    <2>8. Begins(Joined(s, m), Joined(s, k - 1) \o s[k])
      BY <2>5, <2>6, <2>7, BeginsConcat
    <2>9. Begins(Joined(s, m), Joined(s, k))
      BY <2>6, <2>8, Zenon
    <2>10. QED
      BY <2>2, <2>9
  <1>5. n \in m..n
    OBVIOUS
  <1>6. Begins(Joined(s, m), Joined(s, n))
    BY <1>4, <1>5
  <1>7. QED
    BY <1>6
-------------------------------------------------------------------------------
(* The live stream. *)

\* The positions of some of a sequence, and what its beginning has of them.
LEMMA AtBegins ==
    ASSUME NEW T, NEW s \in Seq(T), NEW P \in SUBSET (1..Len(s)), NEW m \in 0..Len(s)
    PROVE  Begins(At(SubSeq(s, 1, m), {i \in P : i <= m}), At(s, P))
  <1> DEFINE u == SubSeq(s, 1, m)
             R == {i \in P : i <= m}
             f == Sorted(P)
             h == Sorted(R)
  <1>1. Len(s) \in Nat /\ m \in Nat
    OBVIOUS
  <1>2. Len(u) = m /\ \A i \in 1..m : u[i] = s[i]
    BY <1>1
  <1>3. P \in SUBSET (1..Len(s)) /\ R \in SUBSET (1..Len(s))
    OBVIOUS
  <1>4. DOMAIN f = 1..Len(f) /\ Len(f) \in Nat
    BY <1>1, <1>3, SortedIs
  <1>5. /\ DOMAIN h = 1..Len(h) /\ Len(h) \in Nat
        /\ \A i \in 1..Len(h) : h[i] \in R
    <2> HIDE DEF R
    <2>1. QED
      BY <1>1, <1>3, SortedIs
  <1>6. Len(h) <= Len(f) /\ \A i \in 1..Len(h) : h[i] = f[i]
    BY <1>1, <1>3, SortedUpTo
  <1>7. \A i \in R : i \in 1..m
    OBVIOUS
  <1>8. At(u, R) = [k \in 1..Len(h) |-> u[h[k]]] /\ At(s, P) = [k \in 1..Len(f) |-> s[f[k]]]
    BY <1>4, <1>5 DEF At
  <1> HIDE DEF u, R, f, h
  <1>9. Len([k \in 1..Len(h) |-> u[h[k]]]) = Len(h) /\ Len([k \in 1..Len(f) |-> s[f[k]]]) = Len(f)
    BY <1>4, <1>5
  <1>10. \A k \in 1..Len(h) : k \in 1..Len(f) /\ u[h[k]] = s[f[k]]
    BY <1>2, <1>4, <1>5, <1>6, <1>7
  <1>11. Begins([k \in 1..Len(h) |-> u[h[k]]], [k \in 1..Len(f) |-> s[f[k]]])
    BY <1>4, <1>5, <1>6, <1>9, <1>10 DEF Begins
  <1>12. QED
    BY <1>8, <1>11 DEF u, R

\* The entries of the live log.
Entry == [pod : Nodes, line : Seq(Byte)]

LEMMA DecodedIs ==
    ASSUME NEW s \in Seq(Frame), NEW m \in 0..Len(s)
    PROVE  /\ Decoded(s) \in Seq(Entry)
           /\ Decoded(SubSeq(s, 1, m)) \in Seq(Entry)
           /\ Begins(Decoded(SubSeq(s, 1, m)), Decoded(s))
  <1> DEFINE P(t) == {i \in DOMAIN t : t[i].kind = "entry"}
             a(t) == At(t, P(t))
             u    == SubSeq(s, 1, m)
  <1>1. ASSUME NEW t \in Seq(Frame)
        PROVE  /\ a(t) \in Seq(Frame) /\ Len(a(t)) \in Nat /\ DOMAIN a(t) = 1..Len(a(t))
               /\ Decoded(t) \in Seq(Entry) /\ Len(Decoded(t)) = Len(a(t))
               /\ \A k \in 1..Len(a(t)) :
                      Decoded(t)[k] = [pod |-> a(t)[k].pod, line |-> a(t)[k].line]
    <2>1. P(t) \in SUBSET (1..Len(t))
      OBVIOUS
    <2>2. a(t) \in Seq(Frame)
      <3> HIDE DEF P
      <3>1. QED
        BY <2>1, AtIs
    <2> DEFINE d == [k \in DOMAIN a(t) |-> [pod |-> a(t)[k].pod, line |-> a(t)[k].line]]
    <2>3. Decoded(t) = d
      BY DEF Decoded
    <2> HIDE DEF a
    <2>4. Len(a(t)) \in Nat /\ DOMAIN a(t) = 1..Len(a(t)) /\ \A k \in 1..Len(a(t)) : a(t)[k] \in Frame
      BY <2>2
    <2>5. \A k \in 1..Len(a(t)) : [pod |-> a(t)[k].pod, line |-> a(t)[k].line] \in Entry
      BY <2>4 DEF Frame, Entry
    <2>6. d \in [1..Len(a(t)) -> Entry]
      BY <2>4, <2>5
    <2>7. \A k \in 1..Len(a(t)) : d[k] = [pod |-> a(t)[k].pod, line |-> a(t)[k].line]
      BY <2>4
    <2> HIDE DEF d
    <2>8. d \in Seq(Entry) /\ Len(d) = Len(a(t))
      BY <2>4, <2>6
    <2>9. QED
      BY <2>2, <2>3, <2>4, <2>7, <2>8
  <1>2. u \in Seq(Frame) /\ Len(u) = m /\ \A i \in 1..m : u[i] = s[i]
    OBVIOUS
  <1>3. Begins(a(u), a(s))
    <2>1. P(u) = {i \in P(s) : i <= m}
      <3>1. DOMAIN u = 1..m /\ DOMAIN s = 1..Len(s) /\ Len(s) \in Nat
        BY <1>2
      <3>2. \A i : i \in 1..m <=> i \in 1..Len(s) /\ i <= m
        BY <3>1
      <3>3. \A i \in 1..m : u[i].kind = s[i].kind
        BY <1>2
      <3> HIDE DEF u
      <3>4. QED
        BY <3>1, <3>2, <3>3
    <2>2. P(s) \in SUBSET (1..Len(s))
      OBVIOUS
    <2> HIDE DEF P
    <2>3. Begins(At(SubSeq(s, 1, m), {i \in P(s) : i <= m}), At(s, P(s)))
      BY <2>2, AtBegins
    <2>4. QED
      BY <2>1, <2>3
  <1> HIDE DEF a, u
  <1>4. Begins(Decoded(u), Decoded(s))
    <2>1. /\ Len(a(u)) <= Len(a(s)) /\ Len(a(u)) \in Nat /\ Len(a(s)) \in Nat
          /\ \A k \in 1..Len(a(u)) : a(u)[k] = a(s)[k]
      BY <1>1, <1>2, <1>3 DEF Begins
    <2>2. /\ Len(Decoded(u)) = Len(a(u)) /\ Len(Decoded(s)) = Len(a(s))
          /\ \A k \in 1..Len(a(u)) : Decoded(u)[k] = [pod |-> a(u)[k].pod, line |-> a(u)[k].line]
          /\ \A k \in 1..Len(a(s)) : Decoded(s)[k] = [pod |-> a(s)[k].pod, line |-> a(s)[k].line]
      BY <1>1, <1>2
    <2>3. \A k \in 1..Len(a(u)) : k \in 1..Len(a(s))
      BY <2>1
    <2>4. QED
      BY <2>1, <2>2, <2>3 DEF Begins
  <1>5. QED
    BY <1>1, <1>2, <1>4 DEF u

\* The frames of a stream that fit are its first, and all if all fit.
LEMMA CompleteFramesAre ==
    ASSUME NEW s \in Seq(Frame), req.max \in Nat
    PROVE  \E m \in 0..Len(s) :
               CompleteFrames(s) = SubSeq(s, 1, m) /\ (Fits(s) => m = Len(s))
  <1> DEFINE K == {n \in 0..Len(s) : Fits(SubSeq(s, 1, n))}
             M == {d \in 0..Len(s) : Len(s) - d \in K}
  <1>1. Len(s) \in Nat
    OBVIOUS
  <1>2. 0 \in K
    <2>1. SubSeq(s, 1, 0) = << >>
      BY SubSeqEmpty
    <2>2. Size(<< >>) = 0
      <3> DEFINE size == CHOOSE f : f = [n \in 0..0 |-> IF n = 0 THEN 0 ELSE f[n - 1] + << >>[n].size]
      <3>1. \E f : f = [n \in 0..0 |-> IF n = 0 THEN 0 ELSE f[n - 1] + << >>[n].size]
        <4> DEFINE f == [n \in 0..0 |-> 0]
        <4>1. \A n \in 0..0 : n = 0
          OBVIOUS
        <4>2. f = [n \in 0..0 |-> IF n = 0 THEN 0 ELSE f[n - 1] + << >>[n].size]
          BY <4>1
        <4>3. QED
          BY <4>2
      <3>2. size = [n \in 0..0 |-> IF n = 0 THEN 0 ELSE size[n - 1] + << >>[n].size]
        BY <3>1
      <3> HIDE DEF size
      <3>3. size[0] = 0
        BY <3>2
      <3>4. Len(<< >>) = 0
        OBVIOUS
      <3>5. QED
        BY <3>3, <3>4 DEF Size, size
    <2>3. Fits(<< >>)
      BY <2>2 DEF Fits
    <2>4. Fits(SubSeq(s, 1, 0))
      BY <2>1, <2>3, Zenon
    <2>5. QED
      BY <1>1, <2>4
  <1> HIDE DEF K
  <1>3. K \subseteq 0..Len(s)
    BY DEF K
  <1>4. PICK d \in M : \A e \in M : d <= e
    <2>1. M \subseteq Nat
      OBVIOUS
    <2>2. Len(s) \in M
      BY <1>1, <1>2
    <2> HIDE DEF M
    <2>3. QED
      BY <2>1, <2>2, LeastIndex
  <1>5. \E n \in K : \A k \in K : n >= k
    <2>1. Len(s) - d \in K /\ d \in 0..Len(s)
      BY <1>4
    <2>2. ASSUME NEW k \in K PROVE Len(s) - d >= k
      <3>1. k \in 0..Len(s)
        BY <1>3
      <3>2. Len(s) - k \in 0..Len(s) /\ Len(s) - (Len(s) - k) = k
        BY <1>1, <3>1
      <3>3. Len(s) - k \in M
        BY <3>2
      <3> HIDE DEF M
      <3>4. d <= Len(s) - k
        BY <1>4, <3>3
      <3>5. QED
        BY <1>1, <2>1, <3>1, <3>4
    <2>3. QED
      BY <2>1, <2>2
  <1>6. Max(K) \in K /\ \A k \in K : Max(K) >= k
    BY <1>5 DEF Max
  <1>7. CompleteFrames(s) = SubSeq(s, 1, Max(K))
    BY DEF CompleteFrames, K
  <1>8. Max(K) \in 0..Len(s)
    BY <1>3, <1>6
  <1>9. ASSUME Fits(s) PROVE Max(K) = Len(s)
    <2>1. SubSeq(s, 1, Len(s)) = s
      OBVIOUS
    <2>2. Fits(SubSeq(s, 1, Len(s)))
      BY <1>9, <2>1, Zenon
    <2>3. Len(s) \in K
      BY <1>1, <2>2 DEF K
    <2>4. Max(K) >= Len(s)
      BY <1>6, <2>3
    <2>5. QED
      BY <1>1, <1>8, <2>4
  <1>10. QED
    BY <1>7, <1>8, <1>9
-------------------------------------------------------------------------------
(* The lines of a text. *)

\* Where a line may end, and where the one from i on does.
EndsLine(t, j) == j = Len(t) \/ t[j + 1].kind = "newline"
LineEnd(t, i)  == Min({j \in i..Len(t) : EndsLine(t, j)})

\* A line goes on to the first newline, or to the end.
LEMMA LineFromIs ==
    ASSUME NEW t \in Seq(Byte), NEW i \in 1..Len(t)
    PROVE  /\ LineFrom(t, i) = SubSeq(t, i, LineEnd(t, i))
           /\ LineEnd(t, i) \in i..Len(t) /\ EndsLine(t, LineEnd(t, i))
           /\ \A j \in i..Len(t) : EndsLine(t, j) => LineEnd(t, i) <= j
  <1> DEFINE E == {j \in i..Len(t) : EndsLine(t, j)}
  <1>1. Len(t) \in Nat /\ i \in Nat
    OBVIOUS
  <1>2. E \subseteq Nat
    BY <1>1
  <1>3. Len(t) \in E
    BY <1>1 DEF EndsLine
  <1>4. LineFrom(t, i) = SubSeq(t, i, Min(E))
    BY DEF LineFrom, EndsLine
  <1>5. \A j : j \in E <=> j \in i..Len(t) /\ EndsLine(t, j)
    OBVIOUS
  <1>6. Min(E) = LineEnd(t, i)
    BY DEF LineEnd
  <1> HIDE DEF E
  <1>7. \E j \in E : \A k \in E : j <= k
    BY <1>2, <1>3, LeastIndex
  <1>8. Min(E) \in E /\ \A k \in E : Min(E) <= k
    BY <1>7 DEF Min
  <1>9. QED
    BY <1>4, <1>5, <1>6, <1>8

LEMMA LinesAre ==
    ASSUME NEW t \in Seq(Byte)
    PROVE  LET starts == Sorted(LineStarts(t))
           IN /\ Lines(t) \in Seq(Seq(Byte)) /\ Len(Lines(t)) = Len(starts) /\ Len(starts) \in Nat
              /\ \A k \in 1..Len(starts) :
                     /\ starts[k] \in LineStarts(t) /\ starts[k] \in 1..Len(t)
                     /\ Lines(t)[k] = LineFrom(t, starts[k])
              /\ \A k, l \in 1..Len(starts) : k < l => starts[k] < starts[l]
  <1> DEFINE starts == Sorted(LineStarts(t))
             ls     == [k \in DOMAIN starts |-> LineFrom(t, starts[k])]
  <1>1. Len(t) \in Nat
    OBVIOUS
  <1>2. LineStarts(t) \in SUBSET (1..Len(t))
    BY DEF LineStarts
  <1>3. /\ DOMAIN starts = 1..Len(starts) /\ Len(starts) \in Nat
        /\ \A k \in 1..Len(starts) : starts[k] \in LineStarts(t)
        /\ \A k, l \in 1..Len(starts) : k < l => starts[k] < starts[l]
    BY <1>1, <1>2, SortedIs
  <1>4. Lines(t) = ls
    BY DEF Lines
  <1> HIDE DEF starts
  <1>5. \A k \in 1..Len(starts) : starts[k] \in 1..Len(t)
    BY <1>2, <1>3
  <1>6. ASSUME NEW i \in 1..Len(t) PROVE LineFrom(t, i) \in Seq(Byte)
    <2>1. LineFrom(t, i) = SubSeq(t, i, LineEnd(t, i)) /\ LineEnd(t, i) \in i..Len(t)
      BY LineFromIs
    <2>2. \A j \in i..LineEnd(t, i) : t[j] \in Byte
      BY <1>1, <2>1
    <2>3. i \in Int /\ LineEnd(t, i) \in Int
      BY <1>1, <2>1
    <2>4. QED
      BY <2>1, <2>2, <2>3, SubSeqProperties
  <1>7. ls \in [1..Len(starts) -> Seq(Byte)]
    BY <1>3, <1>5, <1>6
  <1>8. \A k \in 1..Len(starts) : ls[k] = LineFrom(t, starts[k])
    BY <1>3
  <1> HIDE DEF ls
  <1>9. ls \in Seq(Seq(Byte)) /\ Len(ls) = Len(starts)
    BY <1>3, <1>7
  <1>10. QED
    BY <1>3, <1>4, <1>5, <1>8, <1>9 DEF starts

\* The lines of what is text throughout are text.
LEMMA LinesAreText ==
    ASSUME NEW t, Text(t), IsText(t), NEW k \in 1..Len(Lines(t))
    PROVE  IsText(Lines(t)[k])
  <1> DEFINE i == Sorted(LineStarts(t))[k]
             e == LineEnd(t, i)
             l == SubSeq(t, i, e)
  <1>1. t \in Seq(Byte) /\ Len(t) \in Nat
    BY DEF Text
  <1>2. i \in 1..Len(t) /\ Lines(t)[k] = LineFrom(t, i)
    BY <1>1, LinesAre
  <1> HIDE DEF i
  <1>3. LineFrom(t, i) = l /\ e \in i..Len(t) /\ EndsLine(t, e)
    BY <1>1, <1>2, LineFromIs
  <1> HIDE DEF e
  <1>4. /\ i \in Nat /\ i >= 1 /\ e \in Nat /\ i <= e /\ e <= Len(t)
        /\ i \in Int /\ e \in Int /\ e # 0
    BY <1>1, <1>2, <1>3
  <1>5. \A j \in i..e : j \in 1..Len(t) /\ t[j] \in Byte /\ t[j].kind # "bad" /\ t[j].kind # "nul"
    <2>1. \A j \in 1..Len(t) : t[j] \in Byte /\ t[j].kind # "bad" /\ t[j].kind # "nul"
      BY <1>1 DEF IsText, Has
    <2>2. QED
      BY <1>4, <2>1
  <1>6. /\ l \in Seq(Byte) /\ Len(l) = e - i + 1
        /\ \A j \in 1..(e - i + 1) : l[j] = t[i + j - 1]
    BY <1>4, <1>5, SubSeqProperties
  <1> HIDE DEF l
  <1>7. \A j \in 1..(e - i + 1) : i + j - 1 \in i..e
    BY <1>4
  <1>8. ~Has(l, "bad") /\ ~Has(l, "nul")
    <2>1. DOMAIN l = 1..(e - i + 1)
      BY <1>6
    <2>2. QED
      BY <1>5, <1>6, <1>7, <2>1 DEF Has
  <1>9. t[e].at = t[e].of
    <2>1. CASE e = Len(t)
      BY <1>4, <2>1 DEF IsText, Boundary
    <2>2. CASE e # Len(t)
      <3>1. e < Len(t) /\ e + 1 \in DOMAIN t
        BY <1>1, <1>4, <2>2
      <3>2. t[e + 1].kind = "newline" /\ t[e + 1].of = 1
        BY <1>3, <2>2, <3>1 DEF EndsLine, Text, Encoding
      <3>3. /\ t[e + 1] \in Byte /\ t[e + 1].at <= t[e + 1].of
            /\ Boundary(t, e) <=> t[e + 1].at = 1
        BY <1>4, <3>1, NextByte
      <3>4. t[e + 1].at = 1
        BY <3>2, <3>3, ArtifactTextAssumption DEF Byte
      <3>5. QED
        BY <1>4, <3>3, <3>4 DEF Boundary
    <2>3. QED
      BY <2>1, <2>2
  <1>10. Boundary(l, Len(l))
    <2>1. Len(l) \in 1..(e - i + 1) /\ i + Len(l) - 1 = e
      BY <1>4, <1>6
    <2>2. l[Len(l)] = t[e]
      BY <1>6, <2>1
    <2>3. QED
      BY <1>9, <2>2 DEF Boundary
  <1>11. QED
    BY <1>2, <1>3, <1>8, <1>10 DEF IsText

\* The lines of the beginning of a text are its first lines, the last one perhaps
\* cut.
LEMMA LinesOfBeginning ==
    ASSUME NEW t \in Seq(Byte), NEW m \in 0..Len(t)
    PROVE  LET u == SubSeq(t, 1, m)
           IN /\ Len(Lines(u)) <= Len(Lines(t))
              /\ \A k \in 1..Len(Lines(u)) :
                     /\ IsPrefix(Lines(u)[k], Lines(t)[k])
                     /\ k < Len(Lines(u)) => Lines(u)[k] = Lines(t)[k]
  <1> DEFINE u == SubSeq(t, 1, m)
             f == Sorted(LineStarts(t))
             h == Sorted(LineStarts(u))
  <1>1. Len(t) \in Nat /\ m \in Nat /\ m <= Len(t)
    OBVIOUS
  <1>2. u \in Seq(Byte) /\ Len(u) = m /\ \A i \in 1..m : u[i] = t[i]
    BY <1>1
  <1>3. LineStarts(u) = {i \in LineStarts(t) : i <= m}
    <2>1. DOMAIN u = 1..m /\ DOMAIN t = 1..Len(t)
      BY <1>2
    <2>2. \A i : i \in 1..m <=> i \in 1..Len(t) /\ i <= m
      BY <1>1
    <2>3. \A i \in 1..m : u[i] = t[i] /\ (i # 1 => u[i - 1] = t[i - 1])
      <3>1. \A i \in 1..m : i # 1 => i - 1 \in 1..m
        BY <1>1
      <3>2. QED
        BY <1>2, <3>1
    <2> HIDE DEF u
    <2>4. \A i \in 1..m : i \in LineStarts(u) <=> i \in LineStarts(t)
      BY <2>1, <2>2, <2>3 DEF LineStarts
    <2>5. \A i : i \in LineStarts(u) => i \in 1..m
      BY <2>1 DEF LineStarts
    <2>6. \A i : i \in LineStarts(t) => i \in 1..Len(t)
      BY <2>1 DEF LineStarts
    <2>7. QED
      BY <2>2, <2>4, <2>5, <2>6
  <1>4. LineStarts(t) \in SUBSET (1..Len(t))
    BY DEF LineStarts
  <1>5. Len(h) <= Len(f) /\ \A k \in 1..Len(h) : h[k] = f[k] /\ f[k] <= m
    <2> DEFINE R == {i \in LineStarts(t) : i <= m}
    <2>1. Len(Sorted(R)) <= Len(f) /\ \A k \in 1..Len(Sorted(R)) : Sorted(R)[k] = f[k] /\ f[k] <= m
      BY <1>1, <1>4, SortedUpTo
    <2> HIDE DEF R
    <2>2. LineStarts(u) = R
      BY <1>3 DEF R
    <2> HIDE DEF u
    <2>3. QED
      BY <2>1, <2>2
  <1>6. /\ Len(Lines(t)) = Len(f) /\ Len(f) \in Nat
        /\ \A k \in 1..Len(f) : f[k] \in LineStarts(t) /\ f[k] \in 1..Len(t) /\ Lines(t)[k] = LineFrom(t, f[k])
        /\ \A k, l \in 1..Len(f) : k < l => f[k] < f[l]
    BY LinesAre
  <1>7. /\ Len(Lines(u)) = Len(h) /\ Len(h) \in Nat
        /\ \A k \in 1..Len(h) : h[k] \in 1..Len(u) /\ Lines(u)[k] = LineFrom(u, h[k])
    BY <1>2, LinesAre
  <1> HIDE DEF u, f, h
  <1>8. ASSUME NEW i \in 1..m
        PROVE  LET d == LineEnd(t, i)
                   e == LineEnd(u, i)
               IN /\ LineFrom(t, i) = SubSeq(t, i, d) /\ LineFrom(u, i) = SubSeq(u, i, e)
                  /\ d \in i..Len(t) /\ e \in i..m /\ e <= d
                  /\ (d < m => e = d)
                  /\ \A j \in i..Len(t) : EndsLine(t, j) => d <= j
    <2> DEFINE d == LineEnd(t, i)
               e == LineEnd(u, i)
    <2>1. i \in 1..Len(t) /\ i \in 1..Len(u) /\ i \in Nat
      BY <1>1, <1>2
    <2>2. /\ LineFrom(t, i) = SubSeq(t, i, d) /\ d \in i..Len(t) /\ EndsLine(t, d)
          /\ \A j \in i..Len(t) : EndsLine(t, j) => d <= j
      BY <2>1, LineFromIs
    <2>3. /\ LineFrom(u, i) = SubSeq(u, i, e) /\ e \in i..m /\ EndsLine(u, e)
          /\ \A j \in i..m : EndsLine(u, j) => e <= j
      BY <1>2, <2>1, LineFromIs
    <2> HIDE DEF d, e
    <2>4. \A j \in i..m : j # m => (EndsLine(u, j) <=> EndsLine(t, j))
      <3> SUFFICES ASSUME NEW j \in i..m, j # m PROVE EndsLine(u, j) <=> EndsLine(t, j)
        OBVIOUS
      <3>1. j + 1 \in 1..m /\ j # Len(t) /\ j # Len(u)
        BY <1>1, <1>2, <2>1
      <3>2. QED
        BY <1>2, <3>1 DEF EndsLine
    <2>5. e <= d
      <3>1. CASE d < m
        <4>1. d \in i..m /\ d # m
          BY <1>1, <2>2, <3>1
        <4>2. QED
          BY <2>2, <2>3, <2>4, <4>1
      <3>2. CASE ~(d < m)
        BY <1>1, <2>1, <2>2, <2>3, <3>2
      <3>3. QED
        BY <3>1, <3>2
    <2>6. d < m => e = d
      <3> SUFFICES ASSUME d < m PROVE e = d
        OBVIOUS
      <3>1. e # m /\ e \in i..Len(t)
        BY <1>1, <2>1, <2>2, <2>3, <2>5
      <3>2. d <= e
        BY <2>2, <2>3, <2>4, <3>1
      <3>3. QED
        BY <1>1, <2>1, <2>2, <2>3, <2>5, <3>2
    <2>7. QED
      BY <2>2, <2>3, <2>5, <2>6 DEF d, e
  <1>9. ASSUME NEW i \in 1..m
        PROVE  /\ IsPrefix(LineFrom(u, i), LineFrom(t, i))
               /\ LineEnd(t, i) < m => LineFrom(u, i) = LineFrom(t, i)
    <2> DEFINE d == LineEnd(t, i)
               e == LineEnd(u, i)
               x == SubSeq(u, i, e)
               y == SubSeq(t, i, d)
    <2>1. /\ LineFrom(t, i) = y /\ LineFrom(u, i) = x
          /\ d \in i..Len(t) /\ e \in i..m /\ e <= d
          /\ (d < m => e = d)
      BY <1>8
    <2> HIDE DEF d, e
    <2>2. i \in Int /\ d \in Int /\ e \in Int /\ i <= d /\ i <= e
      BY <1>1, <2>1
    <2>3. /\ \A j \in i..e : j \in 1..m /\ u[j] \in Byte
          /\ \A j \in i..d : j \in 1..Len(t) /\ t[j] \in Byte
      BY <1>1, <1>2, <2>1, <2>2
    <2>4. x \in Seq(Byte) /\ Len(x) = e - i + 1 /\ \A j \in 1..(e - i + 1) : x[j] = u[i + j - 1]
      BY <2>2, <2>3, SubSeqProperties
    <2>5. y \in Seq(Byte) /\ Len(y) = d - i + 1 /\ \A j \in 1..(d - i + 1) : y[j] = t[i + j - 1]
      BY <2>2, <2>3, SubSeqProperties
    <2> HIDE DEF x, y
    <2>6. \A j \in 1..(e - i + 1) : i + j - 1 \in 1..m /\ j \in 1..(d - i + 1)
      BY <1>1, <2>1, <2>2
    <2>7. Len(x) <= Len(y) /\ \A j \in 1..Len(x) : x[j] = y[j]
      <3>1. Len(x) <= Len(y)
        BY <2>1, <2>2, <2>4, <2>5
      <3>2. \A j \in 1..(e - i + 1) : x[j] = u[i + j - 1] /\ y[j] = t[i + j - 1]
        BY <2>4, <2>5, <2>6
      <3>3. \A j \in 1..(e - i + 1) : u[i + j - 1] = t[i + j - 1]
        BY <1>2, <2>6
      <3>4. QED
        BY <2>4, <3>1, <3>2, <3>3
    <2>8. Len(x) \in Nat /\ Len(y) \in Nat
      BY <2>4, <2>5
    <2>9. SubSeq(x, 1, Len(x)) = SubSeq(y, 1, Len(x))
      <3> DEFINE z == SubSeq(y, 1, Len(x))
      <3>1. SubSeq(x, 1, Len(x)) = x
        BY <2>4
      <3>2. z \in Seq(Byte) /\ Len(z) = Len(x) /\ \A j \in 1..Len(x) : z[j] = y[j]
        BY <2>5, <2>7, <2>8
      <3> HIDE DEF z
      <3>3. z = x
        BY <2>4, <2>7, <3>2, SeqEqual
      <3>4. QED
        BY <3>1, <3>3 DEF z
    <2>10. IsPrefix(x, y)
      BY <2>7, <2>9 DEF IsPrefix
    <2>11. d < m => x = y
      <3> SUFFICES ASSUME d < m PROVE x = y
        OBVIOUS
      <3>1. Len(x) = Len(y)
        BY <2>1, <2>4, <2>5
      <3>2. QED
        BY <2>4, <2>5, <2>7, <3>1, SeqEqual
    <2>12. QED
      BY <2>1, <2>10, <2>11 DEF d
  <1>10. ASSUME NEW k \in 1..Len(h), k < Len(h) PROVE LineEnd(t, h[k]) < m
    <2> DEFINE i == h[k]
               j == h[k + 1]
    <2>1. k \in 1..Len(h) /\ k + 1 \in 1..Len(h) /\ k \in 1..Len(f) /\ k + 1 \in 1..Len(f)
      BY <1>5, <1>6, <1>7, <1>10
    <2>2. /\ i = f[k] /\ j = f[k + 1] /\ i \in 1..m /\ j \in 1..m /\ i < j
          /\ i \in LineStarts(t) /\ j \in LineStarts(t)
      <3>1. i = f[k] /\ j = f[k + 1]
        BY <1>5, <2>1
      <3>2. i \in 1..m /\ j \in 1..m
        BY <1>2, <1>7, <2>1
      <3>3. f[k] < f[k + 1]
        BY <1>6, <2>1
      <3>4. QED
        BY <1>6, <2>1, <3>1, <3>2, <3>3
    <2> HIDE DEF i, j
    <2>3. t[i].kind # "newline" /\ t[j - 1].kind = "newline"
      BY <1>1, <2>2 DEF LineStarts
    <2>4. j - 1 # i
      BY <2>3
    <2>5. j - 2 \in i..Len(t) /\ (j - 2) + 1 = j - 1 /\ j - 2 < m
      <3>1. i \in Int /\ j \in Int /\ 1 <= i /\ i < j /\ j <= m
        BY <1>1, <2>2
      <3>2. i <= j - 2
        BY <2>4, <3>1
      <3>3. QED
        BY <1>1, <3>1, <3>2
    <2>6. EndsLine(t, j - 2)
      BY <2>3, <2>5 DEF EndsLine
    <2>7. LineEnd(t, i) <= j - 2 /\ LineEnd(t, i) \in i..Len(t)
      BY <1>8, <2>2, <2>5, <2>6
    <2>8. QED
      BY <1>1, <2>2, <2>5, <2>7 DEF i
  <1>11. \A k \in 1..Len(h) : k \in 1..Len(f) /\ h[k] \in 1..m
    BY <1>2, <1>5, <1>6, <1>7
  <1>12. \A k \in 1..Len(h) :
             /\ IsPrefix(Lines(u)[k], Lines(t)[k])
             /\ k < Len(h) => Lines(u)[k] = Lines(t)[k]
    BY <1>5, <1>6, <1>7, <1>9, <1>10, <1>11
  <1>13. QED
    BY <1>5, <1>6, <1>7, <1>12 DEF u
-------------------------------------------------------------------------------
\* The entries of a node's log are of its pod, and what was said of lines.
LEMMA EntriesOfAre ==
    ASSUME NEW node \in Nodes, NEW t \in Seq(Byte)
    PROVE  /\ EntriesOf(node, t) \in Seq(Entry)
           /\ Len(EntriesOf(node, t)) = Len(Lines(t)) /\ Len(Lines(t)) \in Nat
           /\ \A k \in 1..Len(Lines(t)) :
                  EntriesOf(node, t)[k] = [pod |-> node, line |-> Lines(t)[k]]
  <1> DEFINE ls == Lines(t)
             es == [k \in DOMAIN ls |-> [pod |-> node, line |-> ls[k]]]
  <1>1. ls \in Seq(Seq(Byte))
    BY LinesAre
  <1>2. EntriesOf(node, t) = es
    BY DEF EntriesOf
  <1> HIDE DEF ls
  <1>3. DOMAIN ls = 1..Len(ls) /\ Len(ls) \in Nat /\ \A k \in 1..Len(ls) : ls[k] \in Seq(Byte)
    BY <1>1
  <1>4. es \in [1..Len(ls) -> Entry]
    BY <1>3 DEF Entry
  <1>5. \A k \in 1..Len(ls) : es[k] = [pod |-> node, line |-> ls[k]]
    BY <1>3
  <1> HIDE DEF es
  <1>6. es \in Seq(Entry) /\ Len(es) = Len(ls)
    BY <1>3, <1>4
  <1>7. QED
    BY <1>2, <1>3, <1>5, <1>6 DEF ls

\* An entry cut short.
CutOf(e, f) == e.pod = f.pod /\ IsPrefix(e.line, f.line)

LEMMA EntriesOfBeginning ==
    ASSUME NEW node \in Nodes, NEW t \in Seq(Byte), NEW m \in 0..Len(t)
    PROVE  LET es == EntriesOf(node, SubSeq(t, 1, m))
               fs == EntriesOf(node, t)
           IN /\ Len(es) <= Len(fs)
              /\ \A k \in 1..Len(es) : CutOf(es[k], fs[k]) /\ (k < Len(es) => es[k] = fs[k])
  <1> DEFINE u == SubSeq(t, 1, m)
  <1>1. u \in Seq(Byte)
    OBVIOUS
  <1>2. /\ Len(Lines(u)) <= Len(Lines(t))
        /\ \A k \in 1..Len(Lines(u)) :
               /\ IsPrefix(Lines(u)[k], Lines(t)[k])
               /\ k < Len(Lines(u)) => Lines(u)[k] = Lines(t)[k]
    BY LinesOfBeginning
  <1> HIDE DEF u
  <1>3. /\ Len(EntriesOf(node, t)) = Len(Lines(t)) /\ Len(Lines(t)) \in Nat
        /\ \A k \in 1..Len(Lines(t)) : EntriesOf(node, t)[k] = [pod |-> node, line |-> Lines(t)[k]]
    BY EntriesOfAre
  <1>4. /\ Len(EntriesOf(node, u)) = Len(Lines(u)) /\ Len(Lines(u)) \in Nat
        /\ \A k \in 1..Len(Lines(u)) : EntriesOf(node, u)[k] = [pod |-> node, line |-> Lines(u)[k]]
    BY <1>1, EntriesOfAre
  <1>5. \A k \in 1..Len(Lines(u)) : k \in 1..Len(Lines(t))
    BY <1>2, <1>3, <1>4
  <1>6. \A k \in 1..Len(Lines(u)) :
            /\ CutOf(EntriesOf(node, u)[k], EntriesOf(node, t)[k])
            /\ k < Len(Lines(u)) => EntriesOf(node, u)[k] = EntriesOf(node, t)[k]
    <2> SUFFICES ASSUME NEW k \in 1..Len(Lines(u))
                 PROVE  /\ CutOf(EntriesOf(node, u)[k], EntriesOf(node, t)[k])
                        /\ k < Len(Lines(u)) => EntriesOf(node, u)[k] = EntriesOf(node, t)[k]
      OBVIOUS
    <2>1. /\ EntriesOf(node, u)[k] = [pod |-> node, line |-> Lines(u)[k]]
          /\ EntriesOf(node, t)[k] = [pod |-> node, line |-> Lines(t)[k]]
      BY <1>3, <1>4, <1>5
    <2>2. /\ IsPrefix(Lines(u)[k], Lines(t)[k])
          /\ k < Len(Lines(u)) => Lines(u)[k] = Lines(t)[k]
      BY <1>2
    <2>3. CutOf(EntriesOf(node, u)[k], EntriesOf(node, t)[k])
      BY <2>1, <2>2 DEF CutOf
    <2>4. QED
      BY <2>1, <2>2, <2>3
  <1>7. QED
    BY <1>2, <1>3, <1>4, <1>6 DEF u
-------------------------------------------------------------------------------
\* A log is read from its beginning: the page is text; it is all of the log, or
\* less than a character of the budget is left over.
LEMMA LogPageGiven ==
    ASSUME NEW c, Text(c), NEW n \in Nat, n >= UTFMax, NEW sized,
           ~PageRefused(Data(c, 0, n), 0, n, Bounded(c, 0, n, sized))
    PROVE  LET p == Page(Data(c, 0, n), 0, n, Bounded(c, 0, n, sized))
           IN /\ p.end \in 0..Len(c) /\ p.end <= n /\ p.more \in BOOLEAN
              /\ p.text = SubSeq(c, 1, p.end) /\ Len(p.text) = p.end
              /\ Text(p.text) /\ IsText(p.text)
              /\ ~p.more => p.end = Len(c)
              /\ p.more => n - p.end < UTFMax
  <1> DEFINE data    == Data(c, 0, n)
             bounded == Bounded(c, 0, n, sized)
             v       == ValidEnd(data)
             most    == Least(0 + n, v)
             last    == LastBoundary(data, most)
             end     == PageEnd(data, 0, n)
             p       == Page(data, 0, n, bounded)
  <1>1. /\ Text(data) /\ v \in 0..Len(data) /\ Len(data) \in 0..Len(c)
        /\ \A m \in 0..Len(data) : Boundary(data, m) <=> Boundary(c, m)
        /\ \A i \in 1..Len(data) : data[i] = c[i]
        /\ Boundary(data, v)
        /\ bounded => 0 + n < v
    BY ValidEndIs
  <1>2. /\ p.end \in Nat /\ p.end <= Len(c) /\ p.end <= 0 + n
        /\ p.text = SubSeq(c, 0 + 1, p.end)
        /\ Boundary(c, p.end)
        /\ p.more \in BOOLEAN /\ (p.more <=> p.end < Len(c))
    BY PageGiven
  <1>3. Len(c) \in Nat /\ Len(data) \in Nat /\ v \in Nat /\ UTFMax \in Nat
    BY <1>1, ArtifactTextAssumption DEF Text
  <1>4. /\ ~Has(data, "bad") /\ ~Has(SubSeq(data, 1, v), "nul")
    BY DEF PageRefused, WellFormed
  <1>5. /\ p.end = end /\ (p.more <=> bounded \/ end < v)
    BY DEF Page
  <1>6. end = IF last > 0 THEN last ELSE 0
    BY DEF PageEnd
  <1> HIDE DEF data, bounded, v, p, end
  <1>7. most \in Nat /\ (n < v => most = n) /\ (~(n < v) => most = v)
    BY <1>3 DEF Least
  <1>8. last \in 0..most
    BY <1>7, LastBoundaryIs
  <1>9. ASSUME ~(n < v) PROVE end = v
    <2>1. most = v /\ v \in 0..most
      BY <1>3, <1>7, <1>9
    <2>2. v <= last
      BY <1>1, <1>7, <2>1, LastBoundaryIsLast
    <2> HIDE DEF last
    <2>3. QED
      BY <1>3, <1>6, <1>8, <2>1, <2>2
  <1>10. ASSUME p.more PROVE n - p.end < UTFMax
    <2>1. n < v
      BY <1>1, <1>3, <1>5, <1>9, <1>10
    <2>2. most = n /\ n <= Len(data)
      BY <1>1, <1>3, <1>7, <2>1
    <2>3. n < last + UTFMax
      BY <1>1, <2>2, LastBoundaryIsNear
    <2> HIDE DEF last
    <2>4. QED
      BY <1>3, <1>5, <1>6, <1>7, <1>8, <2>3
  <1> HIDE DEF last
  <1>11. end <= v /\ end <= Len(data) /\ end \in 0..Len(c)
    BY <1>1, <1>2, <1>3, <1>5, <1>6, <1>7, <1>8
  <1>12. p.text = SubSeq(c, 1, end) /\ end \in Nat
    BY <1>2, <1>5
  <1>13. /\ Text(SubSeq(c, 1, end)) /\ Len(SubSeq(c, 1, end)) = end
         /\ \A i \in 1..end : SubSeq(c, 1, end)[i] = c[i]
         /\ \A m \in 0..end : Boundary(SubSeq(c, 1, end), m) <=> Boundary(c, m)
    BY <1>11, PrefixIsText
  <1>14. IsText(SubSeq(c, 1, end))
    <2>1. DOMAIN SubSeq(c, 1, end) = 1..end /\ DOMAIN data = 1..Len(data)
      BY <1>1, <1>13 DEF Text
    <2>2. \A i \in 1..end : i \in 1..Len(data) /\ i \in 1..v
      BY <1>3, <1>11, <1>12
    <2>3. \A i \in 1..end : SubSeq(c, 1, end)[i] = data[i]
      BY <1>1, <1>13, <2>2
    <2>4. \A i \in 1..Len(data) : data[i].kind # "bad"
      BY <1>4, <2>1 DEF Has
    <2>5. \A i \in 1..v : data[i].kind # "nul"
      <3>1. SubSeq(data, 1, v) \in Seq(Byte) /\ Len(SubSeq(data, 1, v)) = v
        BY <1>1 DEF Text
      <3>2. \A i \in 1..v : SubSeq(data, 1, v)[i] = data[i]
        BY <1>1, <1>3 DEF Text
      <3>3. QED
        BY <1>4, <3>1, <3>2 DEF Has
    <2>6. ~Has(SubSeq(c, 1, end), "bad") /\ ~Has(SubSeq(c, 1, end), "nul")
      BY <2>1, <2>2, <2>3, <2>4, <2>5 DEF Has
    <2>7. end \in 0..end
      BY <1>12
    <2>8. Boundary(SubSeq(c, 1, end), Len(SubSeq(c, 1, end)))
      BY <1>2, <1>5, <1>13, <2>7
    <2>9. QED
      BY <2>6, <2>8 DEF IsText
  <1>15. ~p.more => p.end = Len(c)
    BY <1>2, <1>3
  <1>16. /\ p.end \in 0..Len(c) /\ p.end <= n /\ p.more \in BOOLEAN
         /\ p.text = SubSeq(c, 1, p.end) /\ Len(p.text) = p.end
         /\ Text(p.text) /\ IsText(p.text)
    <2>1. p.end \in 0..Len(c) /\ p.end <= n /\ p.more \in BOOLEAN
      BY <1>2, <1>3
    <2>2. QED
      BY <2>1, <1>5, <1>12, <1>13, <1>14
  <1>17. QED
    BY <1>10, <1>15, <1>16 DEF p, data, bounded
-------------------------------------------------------------------------------
(* Types of what is collected and of what is shown. *)

LEMMA FlattenIsJoined ==
    ASSUME NEW T, NEW n \in Nat, NEW r \in [1..n -> Seq(T)]
    PROVE  FlattenSeq(r) = Joined(r, n) /\ FlattenSeq(r) \in Seq(T)
  <1>1. r = [k \in 1..n |-> r[k]]
    OBVIOUS
  <1>2. FlattenSeq(r) = Joined(r, n)
    BY <1>1 DEF Joined
  <1>3. n \in 0..n /\ \A k \in 1..n : r[k] \in Seq(T)
    OBVIOUS
  <1>4. Joined(r, n) \in Seq(T)
    BY <1>3, JoinedIs
  <1>5. QED
    BY <1>2, <1>4

\* The request, and a budget that is not refused.
LEMMA RequestIs ==
    ASSUME req \in Requests
    PROVE  /\ req.max \in Int /\ req.lines \in Int /\ MinBudget \in Nat /\ MaxBudget \in Nat
           /\ UTFMax \in Nat /\ UTFMax >= 1 /\ MinBudget >= UTFMax
           /\ ~BudgetRefused(req.max) => req.max \in Nat /\ req.max \in 0..MaxBudget /\ req.max >= UTFMax
  <1>1. /\ req.max \in Int /\ req.lines \in Int /\ MinBudget \in Nat /\ MaxBudget \in Nat
        /\ MinBudget >= UTFMax
    BY WorkflowLogsAssumption DEF Request
  <1>2. UTFMax \in Nat /\ UTFMax >= 1
    BY ArtifactTextAssumption
  <1>3. ~BudgetRefused(req.max) => req.max \in Nat /\ req.max \in 0..MaxBudget /\ req.max >= UTFMax
    BY <1>1, <1>2 DEF BudgetRefused
  <1>4. QED
    BY <1>1, <1>2, <1>3

LEMMA NodesAre == \E n \in Nat : Nodes = 1..n
  <1>1. PICK n \in Nodes : Nodes = 1..n
    BY WorkflowLogsAssumption
  <1>2. n \in 1..n
    BY <1>1
  <1>3. n \in Nat
    BY <1>2
  <1>4. QED
    BY <1>1, <1>3

\* The nodes that are read, in the order of their IDs.
LEMMA WantedIs ==
    ASSUME NEW D \in SUBSET Nodes
    PROVE  LET ns == Sorted(Wanted(D))
           IN /\ ns \in Seq(Nodes) /\ Len(ns) \in Nat /\ DOMAIN ns = 1..Len(ns)
              /\ \A k \in 1..Len(ns) : ns[k] \in D /\ ns[k] \in Nodes
  <1> DEFINE ns == Sorted(Wanted(D))
  <1>1. Wanted(D) \in SUBSET D
    BY DEF Wanted
  <1>2. PICK n \in Nat : Nodes = 1..n
    BY NodesAre
  <1>3. Wanted(D) \in SUBSET (1..n)
    BY <1>1, <1>2
  <1>4. /\ DOMAIN ns = 1..Len(ns) /\ Len(ns) \in Nat /\ ns \in Seq(Wanted(D))
        /\ \A i \in 1..Len(ns) : ns[i] \in Wanted(D)
    BY <1>3, SortedIs
  <1> HIDE DEF ns
  <1>5. \A k \in 1..Len(ns) : ns[k] \in D /\ ns[k] \in Nodes
    BY <1>1, <1>4
  <1>6. ns \in Seq(Nodes)
    <2>1. Wanted(D) \subseteq Nodes
      BY <1>1
    <2>2. QED
      BY <1>4, <2>1, SeqMonotonic
  <1>7. QED
    BY <1>4, <1>5, <1>6 DEF ns

LEMMA OfPodIs ==
    ASSUME NEW frames \in Streams
    PROVE  OfPod(frames) \in Seq(Frame)
  <1>1. frames \in Seq(Frame)
    BY WorkflowLogsAssumption
  <1> DEFINE P == {i \in DOMAIN frames : frames[i].pod = req.pod}
  <1>2. P \in SUBSET (1..Len(frames))
    BY <1>1
  <1> HIDE DEF P
  <1>3. At(frames, P) \in Seq(Frame)
    BY <1>1, <1>2, AtIs
  <1>4. QED
    BY <1>1, <1>3 DEF OfPod, P

\* What the search and the line limit leave is entries, and rendered it is text.
LEMMA ShownIs ==
    ASSUME req \in Requests, ~BudgetRefused(req.max), NEW es \in Seq(Entry)
    PROVE  LET left == LastLines(Matching(es))
           IN Len(left) \in Nat /\ Capped(Rendered(left)) \in Seq(Byte)
  <1> DEFINE matching == Matching(es)
             left == LastLines(matching)
             P == {i \in DOMAIN es : es[i].pod = req.search}
             r == [i \in DOMAIN left |-> (IF i = 1 THEN << >> ELSE <<Newline>>) \o Label \o left[i].line]
  <1>1. matching \in Seq(Entry)
    <2>1. P \in SUBSET (1..Len(es))
      OBVIOUS
    <2> HIDE DEF P
    <2>2. At(es, P) \in Seq(Entry)
      BY <2>1, AtIs
    <2>3. QED
      BY <2>2 DEF Matching, P
  <1> HIDE DEF matching
  <1>2. left \in Seq(Entry)
    <2>1. Len(matching) \in Nat /\ req.lines \in Int
      BY <1>1, RequestIs
    <2>2. CASE req.lines > 0 /\ Len(matching) > req.lines
      <3> DEFINE a == Len(matching) - req.lines + 1
      <3>1. left = SubSeq(matching, a, Len(matching))
        BY <2>2 DEF LastLines
      <3>2. a \in Int /\ a >= 1 /\ Len(matching) \in Int
        BY <2>1, <2>2
      <3> HIDE DEF a
      <3>3. \A i \in a..Len(matching) : i \in 1..Len(matching)
        BY <2>1, <3>2
      <3>4. \A i \in a..Len(matching) : matching[i] \in Entry
        BY <1>1, <3>3
      <3>5. SubSeq(matching, a, Len(matching)) \in Seq(Entry)
        BY <3>2, <3>4, SubSeqProperties
      <3>6. QED
        BY <3>1, <3>5
    <2>3. CASE ~(req.lines > 0 /\ Len(matching) > req.lines)
      BY <1>1, <2>3 DEF LastLines
    <2>4. QED
      BY <2>2, <2>3
  <1>3. Rendered(left) = FlattenSeq(r)
    BY DEF Rendered
  <1> HIDE DEF left
  <1>4. DOMAIN left = 1..Len(left) /\ Len(left) \in Nat /\ \A i \in 1..Len(left) : left[i] \in Entry
    BY <1>2
  <1>5. r \in [1..Len(left) -> Seq(Byte)]
    <2>1. Newline \in Byte /\ Label \in Seq(Byte)
      BY ArtifactTextAssumption, WorkflowLogsAssumption DEF Newline, Byte
    <2> SUFFICES ASSUME NEW i \in 1..Len(left)
                 PROVE  (IF i = 1 THEN << >> ELSE <<Newline>>) \o Label \o left[i].line \in Seq(Byte)
      BY <1>4
    <2>2. left[i].line \in Seq(Byte)
      BY <1>4 DEF Entry
    <2>3. (IF i = 1 THEN << >> ELSE <<Newline>>) \in Seq(Byte)
      BY <2>1
    <2>4. QED
      BY <2>1, <2>2, <2>3, ConcatProperties
  <1> HIDE DEF r
  <1>6. Rendered(left) \in Seq(Byte)
    BY <1>3, <1>4, <1>5, FlattenIsJoined
  <1>7. Capped(Rendered(left)) \in Seq(Byte)
    <2> DEFINE x == Rendered(left)
               n == Least(Len(x), req.max)
    <2>1. x \in Seq(Byte) /\ Len(x) \in Nat
      BY <1>6
    <2> HIDE DEF x
    <2>2. n \in 0..Len(x) /\ n \in Nat
      BY <2>1, RequestIs DEF Least
    <2>3. LastBoundary(x, n) \in 0..n
      BY <2>2, LastBoundaryIs
    <2> HIDE DEF n
    <2>4. LastBoundary(x, n) \in 0..Len(x)
      BY <2>1, <2>2, <2>3
    <2>5. SubSeq(x, 1, LastBoundary(x, n)) \in Seq(Byte)
      BY <2>1, <2>4
    <2>6. QED
      BY <2>5 DEF Capped, x, n
  <1>8. QED
    BY <1>4, <1>7 DEF left, matching
-------------------------------------------------------------------------------
\* The nodes whose logs are read, in order, and the entries of each of them.
Matched == Sorted(Wanted(declared))
LogsOf  == [k \in DOMAIN Matched |-> EntriesOf(Matched[k], retained[Matched[k]])]

\* The logs of the first d nodes have been collected, all of them, or all but the
\* end of the last: then less than a character of the budget is left.
Whole(d) == entries = Joined(LogsOf, d)
Cut(d) ==
    LET t == retained[Matched[d]]
    IN /\ d # 0 /\ truncated /\ remaining < UTFMax
       /\ \E m \in 0..Len(t) :
              entries = Joined(LogsOf, d - 1) \o EntriesOf(Matched[d], SubSeq(t, 1, m))

InTurn(d) ==
    /\ Whole(d) \/ Cut(d)
    /\ stage = "read" => queue = SubSeq(Matched, d + 1, Least(Len(Matched), MaxNodes))
    /\ stage # "read" /\ ~truncated => d = Len(Matched)

ReadInTurn ==
    /\ TooMany(Matched) => truncated
    /\ \A i \in DOMAIN entries : IsText(entries[i].line)
    /\ \E d \in 0..Len(Matched) : InTurn(d)

\* The first frames of the live stream have been collected.
ReadFromPods ==
    \E m \in 0..Len(live) :
        entries = Decoded(SubSeq(live, 1, m)) /\ (~truncated => m = Len(live))

Begun ==
    /\ stage # "done" => answer = "none"
    /\ stage \notin {"receive", "done"} => ~BudgetRefused(req.max)
    /\ stage \in {"receive", "live", "lookup"} => source = "live" /\ entries = << >> /\ ~truncated
    /\ stage = "read" => source = "archive"

FellBack ==
    (stage = "lookup" \/ source = "archive") /\ ~FromArchive(req) =>
        req.pod = Unset /\ (gone \/ Decoded(live) = << >>)

Collected ==
    stage \in {"read", "build"} \/ answer = "result" =>
        IF source = "live" THEN ReadFromPods ELSE ReadInTurn

Shown == answer = "result" /\ ~truncated => shown.text = Rendered(LastLines(Matching(entries)))

LogsIInv == LogsTypeOK /\ Begun /\ FellBack /\ Collected /\ Shown
-------------------------------------------------------------------------------
LEMMA InitLogsIInv == LogsInit => LogsIInv
  <1> SUFFICES ASSUME LogsInit PROVE LogsIInv
    OBVIOUS
  <1>1. LogsTypeOK
    <2>1. /\ << >> \in Seq(Frame) /\ << >> \in Seq(Nodes) /\ << >> \in [{} -> Retained]
          /\ << >> \in Seq([pod : Nodes, line : Seq(Byte)])
          /\ [text |-> << >>, returned |-> 0] \in [text : Seq(Byte), returned : Nat]
      OBVIOUS
    <2>2. 0 \in 0..MaxBudget
      BY WorkflowLogsAssumption
    <2>3. QED
      BY <2>1, <2>2 DEF LogsInit, LogsTypeOK
  <1>2. Begun /\ FellBack /\ Collected /\ Shown
    BY DEF LogsInit, Begun, FellBack, Collected, Shown
  <1>3. QED
    BY <1>1, <1>2 DEF LogsIInv

\* A call that ends without a result keeps the invariant.
LEMMA NoResultKeepsLogsIInv ==
    ASSUME LogsTypeOK', stage' = "done", answer' \in {"refused", "failed"}, FellBack'
    PROVE  LogsIInv'
  BY DEF LogsIInv, Begun, Collected, Shown

LEMMA ReceiveKeepsLogsIInv ==
    ASSUME LogsIInv, Receive
    PROVE  LogsIInv'
  <1>1. /\ LogsTypeOK /\ stage = "receive" /\ answer = "none" /\ source = "live"
        /\ entries = << >> /\ ~truncated
    BY DEF LogsIInv, Begun, Receive
  <1>2. UNCHANGED <<req, world, queue, remaining, entries, truncated, source, shown>>
    BY DEF Receive
  <1>3. CASE Invalid(req)
    <2>1. stage' = "done" /\ answer' = "refused"
      BY <1>3 DEF Receive, Finish
    <2>2. LogsTypeOK'
      BY <1>1, <1>2, <2>1 DEF LogsTypeOK, world
    <2>3. FellBack'
      BY <1>1, <1>2, <2>1 DEF FellBack
    <2>4. QED
      BY <2>1, <2>2, <2>3, NoResultKeepsLogsIInv
  <1>4. CASE ~Invalid(req)
    <2>1. /\ stage' = (IF FromArchive(req) THEN "lookup" ELSE "live") /\ answer' = answer
          /\ ~BudgetRefused(req.max)
      BY <1>4 DEF Receive, Invalid
    <2>2. LogsTypeOK'
      BY <1>1, <1>2, <2>1 DEF LogsTypeOK, world
    <2>3. Begun'
      BY <1>1, <1>2, <2>1 DEF Begun, BudgetRefused
    <2>4. FellBack'
      BY <1>1, <1>2, <2>1 DEF FellBack, FromArchive
    <2>5. Collected' /\ Shown'
      BY <1>1, <2>1 DEF Collected, Shown
    <2>6. QED
      BY <2>2, <2>3, <2>4, <2>5 DEF LogsIInv
  <1>5. QED
    BY <1>3, <1>4

\* The live log is empty to its end, or it fails, or its first frames are taken.
LEMMA ReadLiveKeepsLogsIInv ==
    ASSUME LogsIInv, NEW frames \in Streams, ReadLive(OfPod(frames))
    PROVE  LogsIInv'
  <1> DEFINE fs   == OfPod(frames)
             cut  == ~Fits(fs)
             kept == CompleteFrames(fs)
             got  == Decoded(kept)
  <1>1. /\ LogsTypeOK /\ stage = "live" /\ answer = "none" /\ source = "live"
        /\ entries = << >> /\ ~truncated /\ ~BudgetRefused(req.max) /\ req \in Requests
    BY DEF LogsIInv, Begun, ReadLive, LogsTypeOK
  <1>2. fs \in Seq(Frame)
    BY OfPodIs
  <1>3. /\ live' = fs /\ UNCHANGED <<req, gone, declared, retained, queue, remaining, source, shown>>
        /\ \/ /\ StreamFailed(kept, cut)
              /\ stage' = "done" /\ answer' = "failed" /\ UNCHANGED <<entries, truncated>>
           \/ /\ ~StreamFailed(kept, cut) /\ got = << >> /\ req.source = "auto"
              /\ FallBack /\ UNCHANGED <<entries, truncated>>
           \/ /\ stage' = "build" /\ entries' = got /\ truncated' = cut /\ answer' = answer
    BY DEF ReadLive, Finish
  <1> HIDE DEF fs
  <1>4. PICK m \in 0..Len(fs) : kept = SubSeq(fs, 1, m) /\ (Fits(fs) => m = Len(fs))
    <2>1. req.max \in Nat
      BY <1>1, RequestIs
    <2>2. QED
      BY <1>2, <2>1, CompleteFramesAre
  <1> HIDE DEF kept
  <1>5. got \in Seq(Entry)
    BY <1>2, <1>4, DecodedIs
  <1> HIDE DEF got
  <1>6. LogsTypeOK' <=> /\ stage' \in {"receive", "live", "lookup", "read", "build", "done"}
                        /\ entries' \in Seq([pod : Nodes, line : Seq(Byte)])
                        /\ truncated' \in BOOLEAN
                        /\ answer' \in {"none", "result", "refused", "failed"}
    BY <1>1, <1>2, <1>3 DEF LogsTypeOK
  <1>7. entries \in Seq([pod : Nodes, line : Seq(Byte)]) /\ truncated \in BOOLEAN
    BY <1>1 DEF LogsTypeOK
  <1>8. ASSUME stage' = "done", answer' \in {"failed", "refused"}, UNCHANGED <<entries, truncated>>
        PROVE  LogsIInv'
    <2>1. LogsTypeOK'
      BY <1>6, <1>7, <1>8
    <2>2. FellBack'
      BY <1>1, <1>3, <1>8 DEF FellBack
    <2>3. QED
      BY <1>8, <2>1, <2>2, NoResultKeepsLogsIInv
  <1>9. ASSUME ~StreamFailed(kept, cut), got = << >>, req.source = "auto",
               FallBack, UNCHANGED <<entries, truncated>>
        PROVE  LogsIInv'
    <2>1. CASE req.pod # Unset
      BY <1>8, <1>9, <2>1 DEF FallBack, Finish
    <2>2. CASE req.pod = Unset
      <3>1. stage' = "lookup" /\ answer' = answer
        BY <1>9, <2>2 DEF FallBack
      <3>2. ~cut
        BY <1>9 DEF StreamFailed, got
      <3>3. kept = fs
        <4>1. m = Len(fs)
          BY <1>4, <3>2
        <4>2. QED
          BY <1>2, <1>4, <4>1
      <3>4. Decoded(live') = << >>
        BY <1>3, <1>9, <3>3 DEF got
      <3>5. LogsTypeOK'
        BY <1>1, <1>6, <1>7, <1>9, <3>1
      <3>6. Begun'
        BY <1>1, <1>3, <1>9, <3>1 DEF Begun, BudgetRefused
      <3>7. FellBack'
        BY <1>3, <2>2, <3>4 DEF FellBack
      <3>8. Collected' /\ Shown'
        BY <1>1, <3>1 DEF Collected, Shown
      <3>9. QED
        BY <3>5, <3>6, <3>7, <3>8 DEF LogsIInv
    <2>3. QED
      BY <2>1, <2>2
  <1>10. ASSUME stage' = "build", entries' = got, truncated' = cut, answer' = answer
         PROVE  LogsIInv'
    <2>1. LogsTypeOK'
      <3>1. cut \in BOOLEAN
        OBVIOUS
      <3>2. entries' \in Seq([pod : Nodes, line : Seq(Byte)])
        BY <1>5, <1>10 DEF Entry
      <3>3. QED
        BY <1>1, <1>6, <1>10, <3>1, <3>2
    <2>2. Begun'
      BY <1>1, <1>3, <1>10 DEF Begun, BudgetRefused
    <2>3. FellBack'
      BY <1>1, <1>3, <1>10 DEF FellBack
    <2>4. ReadFromPods'
      <3>1. /\ live' = fs /\ entries' = Decoded(SubSeq(fs, 1, m))
            /\ ~truncated' => m = Len(fs)
        BY <1>3, <1>4, <1>10 DEF got
      <3>2. QED
        BY <3>1 DEF ReadFromPods
    <2>5. Collected'
      BY <1>1, <1>3, <2>4 DEF Collected
    <2>6. Shown'
      BY <1>1, <1>10 DEF Shown
    <2>7. QED
      BY <2>1, <2>2, <2>3, <2>5, <2>6 DEF LogsIInv
  <1>11. QED
    BY <1>3, <1>8, <1>9, <1>10

LEMMA LiveNotFoundKeepsLogsIInv ==
    ASSUME LogsIInv, LiveNotFound
    PROVE  LogsIInv'
  <1>1. /\ LogsTypeOK /\ stage = "live" /\ answer = "none" /\ source = "live"
        /\ entries = << >> /\ ~truncated /\ ~BudgetRefused(req.max)
    BY DEF LogsIInv, Begun, LiveNotFound
  <1>2. /\ gone' = TRUE
        /\ UNCHANGED <<req, live, declared, retained, queue, remaining, entries, truncated, source, shown>>
        /\ \/ stage' = "done" /\ answer' \in {"failed", "refused"}
           \/ req.pod = Unset /\ stage' = "lookup" /\ answer' = answer
    BY DEF LiveNotFound, FallBack, Finish
  <1>3. LogsTypeOK'
    BY <1>1, <1>2 DEF LogsTypeOK
  <1>4. FellBack'
    BY <1>1, <1>2 DEF FellBack
  <1>5. CASE stage' = "done" /\ answer' \in {"failed", "refused"}
    BY <1>3, <1>4, <1>5, NoResultKeepsLogsIInv
  <1>6. CASE stage' = "lookup" /\ answer' = answer
    <2>1. Begun'
      BY <1>1, <1>2, <1>6 DEF Begun, BudgetRefused
    <2>2. Collected' /\ Shown'
      BY <1>1, <1>6 DEF Collected, Shown
    <2>3. QED
      BY <1>3, <1>4, <2>1, <2>2 DEF LogsIInv
  <1>7. QED
    BY <1>2, <1>5, <1>6

LEMMA RequestFailsKeepsLogsIInv ==
    ASSUME LogsIInv, RequestFails
    PROVE  LogsIInv'
  <1>1. /\ LogsTypeOK /\ FellBack
    BY DEF LogsIInv
  <1>2. /\ UNCHANGED <<req, world, queue, remaining, entries, truncated, source, shown>>
        /\ stage' = "done" /\ answer' = "failed"
    BY DEF RequestFails, Finish
  <1>3. LogsTypeOK'
    BY <1>1, <1>2 DEF LogsTypeOK, world
  <1>4. FellBack'
    BY <1>1, <1>2 DEF FellBack, FromArchive, world
  <1>5. QED
    BY <1>2, <1>3, <1>4, NoResultKeepsLogsIInv

\* Nothing has been read of the nodes that are found.
LEMMA FindNodesKeepsLogsIInv ==
    ASSUME LogsIInv, NEW D \in SUBSET Nodes, NEW contents \in [D -> Retained], FindNodes(D, contents)
    PROVE  LogsIInv'
  <1> DEFINE ms == Sorted(Wanted(D))
             L  == Least(Len(ms), MaxNodes)
  <1>1. /\ LogsTypeOK /\ stage = "lookup" /\ answer = "none" /\ FellBack
        /\ entries = << >> /\ ~truncated /\ ~BudgetRefused(req.max) /\ req \in Requests
    BY DEF LogsIInv, Begun, FindNodes, LogsTypeOK
  <1>2. /\ declared' = D /\ retained' = contents /\ source' = "archive"
        /\ UNCHANGED <<req, live, gone, entries, shown>>
        /\ \/ stage' = "done" /\ answer' = "refused" /\ UNCHANGED <<queue, remaining, truncated>>
           \/ /\ queue' = SubSeq(ms, 1, L) /\ truncated' = TooMany(ms) /\ remaining' = req.max
              /\ stage' = (IF ms = << >> THEN "build" ELSE "read") /\ answer' = answer
    BY DEF FindNodes, Finish
  <1>3. /\ ms \in Seq(Nodes) /\ Len(ms) \in Nat
    BY WantedIs
  <1>4. Matched' = ms
    BY <1>2 DEF Matched, Wanted
  <1> HIDE DEF ms
  <1>5. FellBack'
    BY <1>1, <1>2 DEF FellBack, FromArchive
  <1>6. CASE stage' = "done" /\ answer' = "refused" /\ UNCHANGED <<queue, remaining, truncated>>
    <2>1. LogsTypeOK'
      BY <1>1, <1>2, <1>6 DEF LogsTypeOK
    <2>2. QED
      BY <1>5, <1>6, <2>1, NoResultKeepsLogsIInv
  <1>7. CASE /\ queue' = SubSeq(ms, 1, L) /\ truncated' = TooMany(ms) /\ remaining' = req.max
             /\ stage' = (IF ms = << >> THEN "build" ELSE "read") /\ answer' = answer
    <2>1. MaxNodes \in Nat /\ L \in 0..Len(ms)
      BY <1>3, WorkflowLogsAssumption DEF Least
    <2>2. queue' \in Seq(Nodes)
      <3> HIDE DEF L
      <3>1. QED
        BY <1>3, <1>7, <2>1
    <2>3. remaining' \in 0..MaxBudget
      BY <1>1, <1>7, RequestIs
    <2>4. truncated' \in BOOLEAN
      BY <1>7 DEF TooMany
    <2>5. LogsTypeOK'
      BY <1>1, <1>2, <1>7, <2>2, <2>3, <2>4 DEF LogsTypeOK
    <2>6. Begun'
      BY <1>1, <1>2, <1>7 DEF Begun, BudgetRefused
    <2>7. ReadInTurn'
      <3>1. TooMany(Matched') => truncated'
        BY <1>4, <1>7
      <3>2. \A i \in DOMAIN entries' : IsText(entries'[i].line)
        BY <1>1, <1>2
      <3>3. Joined(LogsOf', 0) = << >>
        BY FlattenGrows
      <3>4. Whole(0)'
        BY <1>1, <1>2, <3>3 DEF Whole
      <3>5. stage' = "read" => queue' = SubSeq(Matched', 0 + 1, Least(Len(Matched'), MaxNodes))
        BY <1>4, <1>7
      <3>6. stage' # "read" => 0 = Len(Matched')
        BY <1>4, <1>7
      <3>7. InTurn(0)'
        BY <3>4, <3>5, <3>6 DEF InTurn
      <3>8. 0 \in 0..Len(Matched')
        BY <1>3, <1>4
      <3>9. QED
        BY <3>1, <3>2, <3>7, <3>8 DEF ReadInTurn
    <2>8. Collected'
      BY <1>2, <2>7 DEF Collected
    <2>9. Shown'
      BY <1>1, <1>7 DEF Shown
    <2>10. QED
      BY <1>5, <2>5, <2>6, <2>8, <2>9 DEF LogsIInv
  <1>8. QED
    BY <1>2, <1>6, <1>7

LEMMA LogsOfAre ==
    ASSUME declared \in SUBSET Nodes, retained \in [declared -> Retained]
    PROVE  /\ Matched \in Seq(Nodes) /\ Len(Matched) \in Nat /\ DOMAIN Matched = 1..Len(Matched)
           /\ LogsOf \in [1..Len(Matched) -> Seq(Entry)]
           /\ \A k \in 1..Len(Matched) :
                  /\ Matched[k] \in Nodes /\ Text(retained[Matched[k]])
                  /\ LogsOf[k] = EntriesOf(Matched[k], retained[Matched[k]])
                  /\ LogsOf[k] \in Seq(Entry)
  <1>1. /\ Matched \in Seq(Nodes) /\ Len(Matched) \in Nat /\ DOMAIN Matched = 1..Len(Matched)
        /\ \A k \in 1..Len(Matched) : Matched[k] \in declared /\ Matched[k] \in Nodes
    BY WantedIs DEF Matched
  <1>2. \A k \in 1..Len(Matched) : Text(retained[Matched[k]])
    BY <1>1, WorkflowLogsAssumption DEF Text
  <1>3. \A k \in 1..Len(Matched) : EntriesOf(Matched[k], retained[Matched[k]]) \in Seq(Entry)
    BY <1>1, <1>2, EntriesOfAre DEF Text
  <1>4. \A k \in 1..Len(Matched) : LogsOf[k] = EntriesOf(Matched[k], retained[Matched[k]])
    BY <1>1 DEF LogsOf
  <1>5. LogsOf \in [1..Len(Matched) -> Seq(Entry)]
    BY <1>1, <1>3 DEF LogsOf
  <1>6. QED
    BY <1>1, <1>2, <1>3, <1>4, <1>5
-------------------------------------------------------------------------------
\* Nothing the order of the nodes and their logs depends on has changed.
LEMMA SameLogs ==
    ASSUME UNCHANGED <<req, declared, retained>>
    PROVE  Matched' = Matched /\ LogsOf' = LogsOf
  <1>1. Matched' = Matched
    BY DEF Matched, Wanted
  <1>2. QED
    BY <1>1 DEF LogsOf

\* The next node is read to its end, or to less than a character before the
\* budget is used up.
LEMMA ReadNodeKeepsLogsIInv ==
    ASSUME LogsIInv, NEW sized \in BOOLEAN, ReadNode(sized)
    PROVE  LogsIInv'
  <1> DEFINE t       == retained[Head(queue)]
             data    == Data(t, 0, remaining)
             bounded == Bounded(t, 0, remaining, sized)
             p       == Page(data, 0, remaining, bounded)
             left    == remaining - Len(p.text)
             refused == PageRefused(data, 0, remaining, bounded)
             L       == Least(Len(Matched), MaxNodes)
  <1>1. /\ LogsTypeOK /\ stage = "read" /\ answer = "none" /\ source = "archive"
        /\ ~BudgetRefused(req.max) /\ FellBack /\ ReadInTurn
        /\ queue # << >> /\ remaining >= UTFMax
    BY DEF LogsIInv, Begun, ReadNode, Collected
  <1>2. /\ UNCHANGED <<req, world, source, shown>>
        /\ \/ /\ stage' = "done" /\ answer' = "failed"
              /\ UNCHANGED <<queue, remaining, entries, truncated>>
           \/ /\ ~refused
              /\ entries' = entries \o EntriesOf(Head(queue), p.text)
              /\ remaining' = left /\ queue' = Tail(queue)
              /\ truncated' = (truncated \/ CutShort(p, left, Tail(queue)))
              /\ stage' = stage /\ answer' = answer
    BY DEF ReadNode, Finish
  <1>3. FellBack'
    BY <1>1, <1>2 DEF FellBack, FromArchive, world
  <1>4. CASE stage' = "done" /\ answer' = "failed" /\ UNCHANGED <<queue, remaining, entries, truncated>>
    <2>1. LogsTypeOK'
      BY <1>1, <1>2, <1>4 DEF LogsTypeOK, world
    <2>2. QED
      BY <1>3, <1>4, <2>1, NoResultKeepsLogsIInv
  <1>5. CASE /\ ~refused
             /\ entries' = entries \o EntriesOf(Head(queue), p.text)
             /\ remaining' = left /\ queue' = Tail(queue)
             /\ truncated' = (truncated \/ CutShort(p, left, Tail(queue)))
             /\ stage' = stage /\ answer' = answer
    <2>1. /\ Matched \in Seq(Nodes) /\ Len(Matched) \in Nat
          /\ \A k \in 1..Len(Matched) :
                 /\ Matched[k] \in Nodes /\ Text(retained[Matched[k]])
                 /\ LogsOf[k] = EntriesOf(Matched[k], retained[Matched[k]])
                 /\ LogsOf[k] \in Seq(Entry)
      BY <1>1, LogsOfAre DEF LogsTypeOK
    <2>2. /\ remaining \in 0..MaxBudget /\ MaxBudget \in Nat /\ remaining \in Nat /\ UTFMax \in Nat
          /\ MaxNodes \in Nat
      BY <1>1, WorkflowLogsAssumption, ArtifactTextAssumption DEF LogsTypeOK
    \* Nothing has been cut so far: what is left would not have allowed another read.
    <2>3. PICK d \in 0..Len(Matched) : InTurn(d)
      BY <1>1 DEF ReadInTurn
    <2>4. Whole(d) /\ queue = SubSeq(Matched, d + 1, L)
      BY <1>1, <2>2, <2>3 DEF InTurn, Cut
    <2>5. L \in 0..Len(Matched) /\ L \in Nat
      BY <2>1, <2>2 DEF Least
    <2> HIDE DEF L
    <2>6. d + 1 <= L /\ d \in Nat /\ d + 1 \in 1..Len(Matched)
      <3>1. d + 1 <= L
        <4> SUFFICES ASSUME L < d + 1 PROVE FALSE
          BY <2>1, <2>5
        <4>1. SubSeq(Matched, d + 1, L) = << >>
          BY <2>1, <2>5, SubSeqEmpty
        <4>2. QED
          BY <1>1, <2>4, <4>1
      <3>2. QED
        BY <2>1, <2>5, <3>1
    <2>7. Head(queue) = Matched[d + 1] /\ Tail(queue) = SubSeq(Matched, (d + 1) + 1, L)
      <3>1. d + 1 \in 1..Len(Matched) /\ L \in (d + 1)..Len(Matched)
        BY <2>1, <2>5, <2>6
      <3>2. /\ Head(SubSeq(Matched, d + 1, L)) = Matched[d + 1]
            /\ Tail(SubSeq(Matched, d + 1, L)) = SubSeq(Matched, (d + 1) + 1, L)
        BY <2>1, <3>1, HeadTailOfSubSeq
      <3>3. QED
        BY <2>4, <3>2
    <2>8. /\ t = retained[Matched[d + 1]] /\ Head(queue) \in Nodes /\ Text(t)
          /\ LogsOf[d + 1] = EntriesOf(Head(queue), t)
      BY <2>1, <2>6, <2>7
    <2> HIDE DEF t
    <2>9. /\ p.end \in 0..Len(t) /\ p.end <= remaining /\ p.more \in BOOLEAN
          /\ p.text = SubSeq(t, 1, p.end) /\ Len(p.text) = p.end
          /\ Text(p.text) /\ IsText(p.text)
          /\ ~p.more => p.end = Len(t)
          /\ p.more => remaining - p.end < UTFMax
      BY <1>1, <1>5, <2>2, <2>8, LogPageGiven
    <2> HIDE DEF p
    <2>10. left \in 0..MaxBudget /\ left \in Nat /\ left = remaining - p.end
      BY <2>2, <2>9
    <2> DEFINE es == EntriesOf(Head(queue), p.text)
    <2>11. /\ es \in Seq(Entry) /\ Len(es) = Len(Lines(p.text)) /\ Len(es) \in Nat
           /\ \A k \in 1..Len(es) : es[k].line = Lines(p.text)[k]
      <3>1. p.text \in Seq(Byte)
        BY <2>9 DEF Text
      <3>2. /\ es \in Seq(Entry) /\ Len(es) = Len(Lines(p.text)) /\ Len(Lines(p.text)) \in Nat
            /\ \A k \in 1..Len(Lines(p.text)) : es[k] = [pod |-> Head(queue), line |-> Lines(p.text)[k]]
        BY <2>8, <3>1, EntriesOfAre
      <3> HIDE DEF es
      <3>3. ASSUME NEW k \in 1..Len(Lines(p.text)) PROVE es[k].line = Lines(p.text)[k]
        <4>1. es[k] = [pod |-> Head(queue), line |-> Lines(p.text)[k]]
          BY <3>2
        <4>2. QED
          BY <4>1
      <3>4. QED
        BY <3>2, <3>3
    <2> HIDE DEF es
    <2>12. entries' = entries \o es
      BY <1>5 DEF es
    <2>13. entries \in Seq(Entry)
      BY <1>1 DEF LogsTypeOK, Entry
    <2>14. entries' \in Seq(Entry)
      BY <2>11, <2>12, <2>13, ConcatProperties
    <2>15. queue' \in Seq(Nodes)
      <3>1. queue \in Seq(Nodes)
        BY <1>1 DEF LogsTypeOK
      <3>2. QED
        BY <1>1, <1>5, <3>1, HeadTailProperties
    <2>16. truncated' \in BOOLEAN /\ (truncated => truncated') /\ (p.more => truncated')
      <3>1. truncated \in BOOLEAN
        BY <1>1 DEF LogsTypeOK
      <3>2. p.more => CutShort(p, left, Tail(queue))
        BY DEF CutShort
      <3>3. QED
        BY <1>5, <3>1, <3>2
    <2>17. LogsTypeOK'
      <3>1. entries' \in Seq([pod : Nodes, line : Seq(Byte)])
        BY <2>14 DEF Entry
      <3>2. remaining' \in 0..MaxBudget
        BY <1>5, <2>10
      <3>3. QED
        BY <1>1, <1>2, <1>5, <2>15, <2>16, <3>1, <3>2 DEF LogsTypeOK, world
    <2>18. Begun'
      BY <1>1, <1>2, <1>5 DEF Begun, BudgetRefused
    <2>19. Matched' = Matched /\ LogsOf' = LogsOf /\ retained' = retained
      BY <1>2, SameLogs DEF world
    <2>20. \A i \in DOMAIN entries' : IsText(entries'[i].line)
      <3>1. DOMAIN entries = 1..Len(entries) /\ Len(entries) \in Nat
        BY <2>13
      <3>2. /\ DOMAIN entries' = 1..(Len(entries) + Len(es))
            /\ \A i \in 1..(Len(entries) + Len(es)) :
                   entries'[i] = IF i <= Len(entries) THEN entries[i] ELSE es[i - Len(entries)]
        <4>1. /\ Len(entries \o es) = Len(entries) + Len(es)
              /\ \A i \in 1..(Len(entries) + Len(es)) :
                     (entries \o es)[i] = IF i <= Len(entries) THEN entries[i] ELSE es[i - Len(entries)]
          BY <2>11, <2>13, ConcatProperties
        <4>2. DOMAIN entries' = 1..Len(entries')
          BY <2>14
        <4>3. QED
          BY <2>12, <4>1, <4>2
      <3>3. \A i \in 1..Len(entries) : IsText(entries[i].line)
        BY <1>1, <3>1 DEF ReadInTurn
      <3>4. \A k \in 1..Len(es) : IsText(es[k].line)
        <4>1. \A k \in 1..Len(Lines(p.text)) : IsText(Lines(p.text)[k])
          BY <2>9, LinesAreText
        <4>2. QED
          BY <2>11, <4>1
      <3>5. ASSUME NEW i \in 1..(Len(entries) + Len(es)) PROVE IsText(entries'[i].line)
        <4>1. CASE i <= Len(entries)
          <5>1. i \in 1..Len(entries) /\ entries'[i] = entries[i]
            BY <3>1, <3>2, <4>1
          <5>2. QED
            BY <3>3, <5>1
        <4>2. CASE ~(i <= Len(entries))
          <5>1. i - Len(entries) \in 1..Len(es) /\ entries'[i] = es[i - Len(entries)]
            BY <2>11, <3>1, <3>2, <4>2
          <5>2. QED
            BY <3>4, <5>1
        <4>3. QED
          BY <4>1, <4>2
      <3>6. QED
        BY <3>2, <3>5
    <2>21. Whole(d + 1)' \/ Cut(d + 1)'
      <3>1. d + 1 \in 1..Len(Matched) /\ (d + 1) - 1 = d /\ d + 1 # 0
        BY <2>6
      <3>2. CASE ~p.more
        <4>1. es = LogsOf[d + 1]
          <5>1. SubSeq(t, 1, Len(t)) = t
            BY <2>8 DEF Text
          <5>2. p.text = t
            BY <2>9, <3>2, <5>1
          <5>3. QED
            BY <2>8, <5>2 DEF es
        <4>2. Joined(LogsOf, d + 1) = Joined(LogsOf, d) \o LogsOf[d + 1]
          <5>1. \A k \in 1..Len(Matched) : LogsOf[k] \in Seq(Entry)
            BY <2>1
          <5>2. Joined(LogsOf, d + 1) = Joined(LogsOf, (d + 1) - 1) \o LogsOf[d + 1]
            BY <2>1, <3>1, <5>1, JoinedIs
          <5>3. QED
            BY <3>1, <5>2
        <4>3. entries' = Joined(LogsOf', d + 1)
          BY <2>4, <2>12, <2>19, <4>1, <4>2 DEF Whole
        <4>4. QED
          BY <4>3 DEF Whole
      <3>3. CASE p.more
        <4>1. truncated' /\ remaining' < UTFMax
          BY <1>5, <2>9, <2>10, <2>16, <3>3
        <4>2. entries' = Joined(LogsOf', (d + 1) - 1) \o EntriesOf(Matched'[d + 1], SubSeq(t, 1, p.end))
          BY <2>4, <2>7, <2>9, <2>12, <2>19, <3>1 DEF Whole, es
        <4>3. t = retained'[Matched'[d + 1]]
          BY <2>8, <2>19
        <4>4. Cut(d + 1)'
          BY <2>9, <3>1, <4>1, <4>2, <4>3 DEF Cut
        <4>5. QED
          BY <4>4
      <3>4. QED
        BY <2>9, <3>2, <3>3
    <2>22. InTurn(d + 1)'
      <3>1. queue' = SubSeq(Matched', (d + 1) + 1, Least(Len(Matched'), MaxNodes))
        BY <1>5, <2>7, <2>19 DEF L
      <3>2. stage' = "read"
        BY <1>1, <1>5
      <3>3. QED
        BY <2>21, <3>1, <3>2 DEF InTurn
    <2>23. ReadInTurn'
      <3>1. TooMany(Matched') => truncated'
        BY <1>1, <2>16, <2>19 DEF ReadInTurn
      <3>2. d + 1 \in 0..Len(Matched')
        BY <2>6, <2>19
      <3>3. QED
        BY <2>20, <2>22, <3>1, <3>2 DEF ReadInTurn
    <2>24. Collected'
      BY <1>1, <1>2, <2>23 DEF Collected
    <2>25. Shown'
      BY <1>1, <1>5 DEF Shown
    <2>26. QED
      BY <1>3, <2>17, <2>18, <2>24, <2>25 DEF LogsIInv
  <1>6. QED
    BY <1>2, <1>4, <1>5

\* What is not marked truncated when reading stops has been read to its end.
LEMMA StopReadingKeepsLogsIInv ==
    ASSUME LogsIInv, StopReading
    PROVE  LogsIInv'
  <1>1. /\ LogsTypeOK /\ stage = "read" /\ answer = "none" /\ source = "archive"
        /\ ~BudgetRefused(req.max) /\ FellBack /\ ReadInTurn
    BY DEF LogsIInv, Begun, StopReading, Collected
  <1>2. /\ UNCHANGED <<req, world, queue, remaining, entries, source, answer, shown>>
        /\ truncated' = (truncated \/ queue # << >>) /\ stage' = "build"
    BY DEF StopReading
  <1>3. truncated \in BOOLEAN /\ truncated' \in BOOLEAN
    BY <1>1, <1>2 DEF LogsTypeOK
  <1>4. LogsTypeOK'
    BY <1>1, <1>2, <1>3 DEF LogsTypeOK, world
  <1>5. Begun'
    BY <1>1, <1>2 DEF Begun, BudgetRefused
  <1>6. FellBack'
    BY <1>1, <1>2 DEF FellBack, FromArchive, world
  <1>7. Matched' = Matched /\ LogsOf' = LogsOf /\ retained' = retained
    BY <1>2, SameLogs DEF world
  <1>8. Matched \in Seq(Nodes) /\ Len(Matched) \in Nat /\ MaxNodes \in Nat
    BY <1>1, LogsOfAre, WorkflowLogsAssumption DEF LogsTypeOK
  <1>9. PICK d \in 0..Len(Matched) : InTurn(d)
    BY <1>1 DEF ReadInTurn
  <1>10. Whole(d)' \/ Cut(d)'
    <2>1. Whole(d) => Whole(d)'
      BY <1>2, <1>7 DEF Whole
    <2>2. Cut(d) => Cut(d)'
      BY <1>2, <1>7 DEF Cut
    <2>3. QED
      BY <1>9, <2>1, <2>2 DEF InTurn
  <1>11. ASSUME ~truncated' PROVE d = Len(Matched)
    <2>1. ~truncated /\ queue = << >>
      BY <1>2, <1>11
    <2>2. ~(Len(Matched) > MaxNodes)
      BY <1>1, <2>1 DEF ReadInTurn, TooMany
    <2>3. Least(Len(Matched), MaxNodes) = Len(Matched)
      BY <1>8, <2>2 DEF Least
    <2>4. SubSeq(Matched, d + 1, Len(Matched)) = << >>
      BY <1>1, <1>9, <2>1, <2>3 DEF InTurn
    <2>5. Len(SubSeq(Matched, d + 1, Len(Matched))) = 0
      BY <2>4
    <2>6. ~(d + 1 <= Len(Matched))
      <3>1. \A i \in (d + 1)..Len(Matched) : Matched[i] \in Nodes
        BY <1>8
      <3>2. Len(SubSeq(Matched, d + 1, Len(Matched)))
                = IF d + 1 <= Len(Matched) THEN Len(Matched) - (d + 1) + 1 ELSE 0
        BY <1>8, <3>1, SubSeqProperties
      <3>3. QED
        BY <1>8, <2>5, <3>2
    <2>7. QED
      BY <1>8, <2>6
  <1>12. InTurn(d)'
    BY <1>2, <1>7, <1>10, <1>11 DEF InTurn
  <1>13. ReadInTurn'
    <2>1. TooMany(Matched') => truncated'
      BY <1>1, <1>2, <1>7 DEF ReadInTurn
    <2>2. \A i \in DOMAIN entries' : IsText(entries'[i].line)
      BY <1>1, <1>2 DEF ReadInTurn
    <2>3. QED
      BY <1>7, <1>12, <2>1, <2>2 DEF ReadInTurn
  <1>14. Collected'
    BY <1>1, <1>2, <1>13 DEF Collected
  <1>15. Shown'
    BY <1>1, <1>2 DEF Shown
  <1>16. QED
    BY <1>4, <1>5, <1>6, <1>14, <1>15 DEF LogsIInv

\* The result is what was collected, and marked when it had to be cut.
LEMMA BuildKeepsLogsIInv ==
    ASSUME LogsIInv, Build
    PROVE  LogsIInv'
  <1> DEFINE es   == LastLines(Matching(entries))
             full == Rendered(es)
  <1>1. /\ LogsTypeOK /\ stage = "build" /\ answer = "none" /\ FellBack
        /\ ~BudgetRefused(req.max) /\ Collected /\ req \in Requests
    BY DEF LogsIInv, Begun, Build, LogsTypeOK
  <1>2. /\ shown' = [text |-> Capped(full), returned |-> Len(es)]
        /\ truncated' = (truncated \/ Capped(full) # full)
        /\ stage' = "done" /\ answer' = "result"
        /\ UNCHANGED <<req, world, queue, remaining, entries, source>>
    BY DEF Build, Finish
  <1>3. Len(es) \in Nat /\ Capped(full) \in Seq(Byte)
    <2>1. entries \in Seq(Entry)
      BY <1>1 DEF LogsTypeOK, Entry
    <2>2. QED
      BY <1>1, <2>1, ShownIs
  <1>4. LastLines(Matching(entries))' = es
    BY <1>2 DEF LastLines, Matching
  <1> HIDE DEF es
  <1>5. LogsTypeOK'
    <2>1. shown' \in [text : Seq(Byte), returned : Nat]
      BY <1>2, <1>3
    <2>2. truncated' \in BOOLEAN
      BY <1>1, <1>2 DEF LogsTypeOK
    <2> HIDE DEF full
    <2>3. QED
      BY <1>1, <1>2, <2>1, <2>2 DEF LogsTypeOK, world
  <1> HIDE DEF full
  <1>6. Begun'
    BY <1>2 DEF Begun
  <1>7. FellBack'
    BY <1>1, <1>2 DEF FellBack, FromArchive, world
  <1>8. Shown'
    <2>1. ~truncated' => shown'.text = full
      BY <1>1, <1>2 DEF LogsTypeOK
    <2>2. full = Rendered(LastLines(Matching(entries))')
      BY <1>4 DEF full
    <2>3. QED
      BY <2>1, <2>2 DEF Shown
  <1>9. truncated => truncated'
    BY <1>1, <1>2 DEF LogsTypeOK
  <1>10. CASE source = "live"
    <2>1. PICK m \in 0..Len(live) :
              entries = Decoded(SubSeq(live, 1, m)) /\ (~truncated => m = Len(live))
      BY <1>1, <1>10 DEF Collected, ReadFromPods
    <2>2. live' = live /\ entries' = entries
      BY <1>2 DEF world
    <2>3. ReadFromPods'
      BY <1>9, <2>1, <2>2 DEF ReadFromPods
    <2>4. Collected'
      BY <1>2, <1>10, <2>3 DEF Collected
    <2>5. QED
      BY <1>5, <1>6, <1>7, <1>8, <2>4 DEF LogsIInv
  <1>11. CASE source # "live"
    <2>1. ReadInTurn
      BY <1>1, <1>11 DEF Collected
    <2>2. Matched' = Matched /\ LogsOf' = LogsOf /\ retained' = retained
      BY <1>2, SameLogs DEF world
    <2>3. PICK d \in 0..Len(Matched) : InTurn(d)
      BY <2>1 DEF ReadInTurn
    <2>4. Whole(d)' \/ Cut(d)'
      <3>1. Whole(d) => Whole(d)'
        BY <1>2, <2>2 DEF Whole
      <3>2. Cut(d) => Cut(d)'
        BY <1>2, <1>9, <2>2 DEF Cut
      <3>3. QED
        BY <2>3, <3>1, <3>2 DEF InTurn
    <2>5. InTurn(d)'
      BY <1>1, <1>2, <1>9, <2>2, <2>3, <2>4 DEF InTurn
    <2>6. ReadInTurn'
      <3>1. TooMany(Matched') => truncated'
        BY <1>9, <2>1, <2>2 DEF ReadInTurn
      <3>2. \A i \in DOMAIN entries' : IsText(entries'[i].line)
        BY <1>2, <2>1 DEF ReadInTurn
      <3>3. QED
        BY <2>2, <2>5, <3>1, <3>2 DEF ReadInTurn
    <2>7. Collected'
      BY <1>2, <1>11, <2>6 DEF Collected
    <2>8. QED
      BY <1>5, <1>6, <1>7, <1>8, <2>7 DEF LogsIInv
  <1>12. QED
    BY <1>10, <1>11

LEMMA NextKeepsLogsIInv == LogsIInv /\ [LogsNext]_logsVars => LogsIInv'
  <1> SUFFICES ASSUME LogsIInv, [LogsNext]_logsVars PROVE LogsIInv'
    OBVIOUS
  <1>1. CASE UNCHANGED logsVars
    <2>1. /\ UNCHANGED <<req, stage, world, queue, remaining, entries, truncated, source, answer, shown>>
          /\ UNCHANGED <<live, gone, declared, retained>>
      BY <1>1 DEF logsVars, world
    <2>2. Matched' = Matched /\ LogsOf' = LogsOf
      BY <2>1, SameLogs
    <2>3. LogsTypeOK'
      BY <2>1 DEF LogsIInv, LogsTypeOK
    <2>4. Begun' /\ FellBack'
      BY <2>1 DEF LogsIInv, Begun, FellBack, BudgetRefused, FromArchive
    <2>5. Shown'
      BY <2>1 DEF LogsIInv, Shown, LastLines, Matching
    <2>6. ReadFromPods => ReadFromPods'
      BY <2>1 DEF ReadFromPods
    <2>7. ReadInTurn => ReadInTurn'
      BY <2>1, <2>2 DEF ReadInTurn, InTurn, Whole, Cut
    <2>8. Collected'
      BY <2>1, <2>6, <2>7 DEF LogsIInv, Collected
    <2>9. QED
      BY <2>3, <2>4, <2>5, <2>8 DEF LogsIInv
  <1>2. QED
    BY <1>1, ReceiveKeepsLogsIInv, ReadLiveKeepsLogsIInv, LiveNotFoundKeepsLogsIInv,
       RequestFailsKeepsLogsIInv, FindNodesKeepsLogsIInv, ReadNodeKeepsLogsIInv,
       StopReadingKeepsLogsIInv, BuildKeepsLogsIInv DEF LogsNext

\* The invariant of a call of get_workflow_logs.
THEOREM LogsSpecIInv == LogsSpec => []LogsIInv
  BY InitLogsIInv, NextKeepsLogsIInv, PTL DEF LogsSpec
-------------------------------------------------------------------------------
\* Everything an archive holds is the logs of all its nodes.
LEMMA EverythingIs ==
    ASSUME LogsTypeOK
    PROVE  /\ source = "live" => Everything = Decoded(live)
           /\ source # "live" => Everything = Joined(LogsOf, Len(Matched))
  <1>1. Len(Matched) \in Nat /\ LogsOf \in [1..Len(Matched) -> Seq(Entry)]
    BY LogsOfAre DEF LogsTypeOK
  <1>2. FlattenSeq(LogsOf) = Joined(LogsOf, Len(Matched))
    BY <1>1, FlattenIsJoined
  <1>3. source # "live" => Everything = FlattenSeq(LogsOf)
    BY DEF Everything, LogsOf, Matched
  <1>4. source = "live" => Everything = Decoded(live)
    BY DEF Everything
  <1>5. QED
    BY <1>2, <1>3, <1>4

LEMMA CollectedIsComplete == LogsIInv => CompleteUnlessTruncated
  <1> SUFFICES ASSUME LogsIInv, answer = "result", ~truncated
               PROVE  /\ entries = Everything
                      /\ shown.text = Rendered(LastLines(Matching(Everything)))
    BY DEF CompleteUnlessTruncated
  <1>1. LogsTypeOK /\ shown.text = Rendered(LastLines(Matching(entries)))
    BY DEF LogsIInv, Shown
  <1>2. stage # "read"
    BY DEF LogsIInv, Begun
  <1>3. CASE source = "live"
    <2>1. PICK m \in 0..Len(live) :
              entries = Decoded(SubSeq(live, 1, m)) /\ (~truncated => m = Len(live))
      BY <1>3 DEF LogsIInv, Collected, ReadFromPods
    <2>2. SubSeq(live, 1, Len(live)) = live
      BY <1>1 DEF LogsTypeOK
    <2>3. entries = Decoded(live)
      BY <2>1, <2>2
    <2>4. entries = Everything
      BY <1>1, <1>3, <2>3, EverythingIs
    <2>5. QED
      BY <1>1, <2>4
  <1>4. CASE source # "live"
    <2>1. PICK d \in 0..Len(Matched) : InTurn(d)
      BY <1>4 DEF LogsIInv, Collected, ReadInTurn
    <2>2. d = Len(Matched) /\ Whole(d)
      BY <1>2, <2>1 DEF InTurn, Cut
    <2>3. entries = Everything
      BY <1>1, <1>4, <2>2, EverythingIs DEF Whole
    <2>4. QED
      BY <1>1, <2>3
  <1>5. QED
    BY <1>3, <1>4

\* What has been collected goes with everything from the first entry on; the last
\* entry may be cut.
LEMMA CollectedBegins ==
    ASSUME LogsIInv, answer = "result", source # "live"
    PROVE  /\ Len(entries) <= Len(Everything)
           /\ \A i \in 1..Len(entries) :
                  /\ CutOf(entries[i], Everything[i]) /\ IsText(entries[i].line)
                  /\ i < Len(entries) => entries[i] = Everything[i]
  <1>1. LogsTypeOK /\ ReadInTurn
    BY DEF LogsIInv, Collected
  <1>2. /\ Len(Matched) \in Nat
        /\ \A k \in 1..Len(Matched) :
               /\ Matched[k] \in Nodes /\ Text(retained[Matched[k]])
               /\ LogsOf[k] = EntriesOf(Matched[k], retained[Matched[k]])
               /\ LogsOf[k] \in Seq(Entry)
    BY <1>1, LogsOfAre DEF LogsTypeOK
  <1> DEFINE n == Len(Matched)
             all == Joined(LogsOf, n)
  <1>3. Everything = all
    BY <1>1, EverythingIs
  <1>4. entries \in Seq(Entry) /\ Len(entries) \in Nat /\ DOMAIN entries = 1..Len(entries)
    BY <1>1 DEF LogsTypeOK, Entry
  <1>5. \A i \in 1..Len(entries) : IsText(entries[i].line)
    BY <1>1, <1>4 DEF ReadInTurn
  <1>6. \A k \in 1..n : LogsOf[k] \in Seq(Entry)
    BY <1>2
  <1>7. /\ \A k \in 0..n : Joined(LogsOf, k) \in Seq(Entry)
        /\ \A k \in 1..n : Joined(LogsOf, k) = Joined(LogsOf, k - 1) \o LogsOf[k]
    BY <1>2, <1>6, JoinedIs
  <1>8. \A k \in 0..n : Begins(Joined(LogsOf, k), all)
    BY <1>2, <1>6, JoinedBegins
  <1>9. all \in Seq(Entry) /\ Len(all) \in Nat
    <2>1. n \in 0..n
      BY <1>2
    <2>2. QED
      BY <1>7, <2>1
  <1> HIDE DEF all
  <1>10. \A e \in Entry : CutOf(e, e)
    BY DEF CutOf, IsPrefix, Entry
  <1>11. PICK d \in 0..n : InTurn(d)
    BY <1>1 DEF ReadInTurn
  <1>12. CASE Whole(d)
    <2>1. Begins(entries, all)
      BY <1>8, <1>12 DEF Whole
    <2>2. \A i \in 1..Len(entries) : entries[i] \in Entry
      BY <1>4
    <2>3. QED
      BY <1>3, <1>5, <1>10, <2>1, <2>2 DEF Begins
  <1>13. CASE Cut(d)
    <2> DEFINE t  == retained[Matched[d]]
               a  == Joined(LogsOf, d - 1)
               fs == LogsOf[d]
    <2>1. PICK m \in 0..Len(t) : entries = a \o EntriesOf(Matched[d], SubSeq(t, 1, m))
      BY <1>13 DEF Cut
    <2> DEFINE es == EntriesOf(Matched[d], SubSeq(t, 1, m))
    <2>2. d \in 1..n /\ d - 1 \in 0..n
      BY <1>2, <1>13 DEF Cut
    <2>3. t \in Seq(Byte) /\ Matched[d] \in Nodes /\ fs = EntriesOf(Matched[d], t) /\ fs \in Seq(Entry)
      BY <1>2, <2>2 DEF Text
    <2> HIDE DEF t, fs
    <2>4. es \in Seq(Entry)
      <3>1. SubSeq(t, 1, m) \in Seq(Byte)
        BY <2>3
      <3>2. QED
        BY <2>3, <3>1, EntriesOfAre
    <2>5. /\ Len(es) <= Len(fs)
          /\ \A k \in 1..Len(es) : CutOf(es[k], fs[k]) /\ (k < Len(es) => es[k] = fs[k])
      BY <2>3, EntriesOfBeginning
    <2>6. entries = a \o es
      BY <2>1
    <2> HIDE DEF es
    <2>7. a \in Seq(Entry) /\ Joined(LogsOf, d) = a \o fs /\ Begins(a \o fs, all)
      <3>1. a \in Seq(Entry) /\ Joined(LogsOf, d) = a \o fs
        BY <1>7, <2>2 DEF fs
      <3>2. QED
        BY <1>8, <2>2, <3>1
    <2> HIDE DEF a
    <2>8. Len(a) \in Nat /\ Len(es) \in Nat /\ Len(fs) \in Nat
      BY <2>3, <2>4, <2>7
    <2>9. /\ Len(entries) = Len(a) + Len(es)
          /\ \A i \in 1..(Len(a) + Len(es)) :
                 entries[i] = IF i <= Len(a) THEN a[i] ELSE es[i - Len(a)]
      BY <2>4, <2>6, <2>7, ConcatProperties
    <2>10. /\ Len(a \o fs) = Len(a) + Len(fs)
           /\ \A i \in 1..(Len(a) + Len(fs)) :
                  (a \o fs)[i] = IF i <= Len(a) THEN a[i] ELSE fs[i - Len(a)]
      BY <2>3, <2>7, ConcatProperties
    <2>11. /\ Len(a) + Len(fs) <= Len(all)
           /\ \A i \in 1..(Len(a) + Len(fs)) : all[i] = (a \o fs)[i]
      BY <2>7, <2>10 DEF Begins
    <2>12. Len(entries) <= Len(all)
      BY <1>9, <2>5, <2>8, <2>9, <2>11
    <2>13. ASSUME NEW i \in 1..Len(entries)
           PROVE  CutOf(entries[i], all[i]) /\ (i < Len(entries) => entries[i] = all[i])
      <3>1. i \in 1..(Len(a) + Len(es)) /\ i \in 1..(Len(a) + Len(fs))
        BY <2>5, <2>8, <2>9
      <3>2. CASE i <= Len(a)
        <4>1. entries[i] = all[i]
          BY <2>9, <2>10, <2>11, <3>1, <3>2
        <4>2. entries[i] \in Entry
          BY <1>4
        <4>3. QED
          BY <1>10, <4>1, <4>2
      <3>3. CASE ~(i <= Len(a))
        <4> DEFINE k == i - Len(a)
        <4>1. k \in 1..Len(es) /\ (i < Len(entries) => k < Len(es))
          BY <2>8, <2>9, <3>1, <3>3
        <4>2. entries[i] = es[k] /\ all[i] = fs[k]
          BY <2>9, <2>10, <2>11, <3>1, <3>3
        <4> HIDE DEF k
        <4>3. QED
          BY <2>5, <4>1, <4>2
      <3>4. QED
        BY <3>2, <3>3
    <2>14. QED
      BY <1>3, <1>5, <2>12, <2>13
  <1>14. QED
    BY <1>11, <1>12, <1>13 DEF InTurn

LEMMA CollectedIsPrefix == LogsIInv => CollectedPrefix
  <1> SUFFICES ASSUME LogsIInv PROVE CollectedPrefix
    OBVIOUS
  <1>1. LogsTypeOK
    BY DEF LogsIInv
  <1>2. entries \in Seq(Entry) /\ Len(entries) \in Nat /\ (entries # << >> => Len(entries) \in 1..Len(entries))
    BY <1>1 DEF LogsTypeOK, Entry
  <1> SUFFICES ASSUME answer = "result"
               PROVE  /\ Len(entries) <= Len(Everything)
                      /\ \A i \in 1..(Len(entries) - 1) : entries[i] = Everything[i]
                      /\ entries # << >> =>
                            LET e == Last(entries)
                                f == Everything[Len(entries)]
                            IN IF source = "live" THEN e = f
                               ELSE e.pod = f.pod /\ IsPrefix(e.line, f.line) /\ IsText(e.line)
    BY <1>1 DEF CollectedPrefix
  <1>3. \A i \in 1..(Len(entries) - 1) : i \in 1..Len(entries) /\ i < Len(entries)
    BY <1>2
  <1>4. CASE source = "live"
    <2>1. PICK m \in 0..Len(live) : entries = Decoded(SubSeq(live, 1, m))
      BY <1>4 DEF LogsIInv, Collected, ReadFromPods
    <2>2. Begins(entries, Decoded(live))
      BY <1>1, <2>1, DecodedIs DEF LogsTypeOK
    <2>3. Everything = Decoded(live)
      BY <1>1, <1>4, EverythingIs
    <2>4. /\ Len(entries) <= Len(Everything)
          /\ \A i \in 1..Len(entries) : entries[i] = Everything[i]
      BY <2>2, <2>3 DEF Begins
    <2>5. entries # << >> => Last(entries) = Everything[Len(entries)]
      BY <1>2, <2>4 DEF Last
    <2>6. QED
      BY <1>3, <1>4, <2>4, <2>5
  <1>5. CASE source # "live"
    <2>1. /\ Len(entries) <= Len(Everything)
          /\ \A i \in 1..Len(entries) :
                 /\ CutOf(entries[i], Everything[i]) /\ IsText(entries[i].line)
                 /\ i < Len(entries) => entries[i] = Everything[i]
      BY <1>5, CollectedBegins
    <2>2. entries # << >> =>
              /\ CutOf(Last(entries), Everything[Len(entries)])
              /\ IsText(Last(entries).line)
      BY <1>2, <2>1 DEF Last
    <2>3. QED
      BY <1>3, <1>5, <2>1, <2>2 DEF CutOf
  <1>6. QED
    BY <1>4, <1>5

\* A result of get_workflow_logs that is not marked truncated holds every entry
\* its source has, and shows all that the search and the line limit leave.
THEOREM LogsAreComplete == LogsSpec => []CompleteUnlessTruncated
  BY LogsSpecIInv, CollectedIsComplete, PTL

\* What a result holds is the beginning of what its source has, cut only in the
\* last line, and there only between characters.
THEOREM LogsArePrefixes == LogsSpec => []CollectedPrefix
  BY LogsSpecIInv, CollectedIsPrefix, PTL

\* Retained logs answer for live ones only when the live log is empty to its end
\* or gone, and no pod was chosen.
THEOREM LogsFallBackJustly == LogsSpec => []FallbackIsJustified
  <1>1. LogsIInv => FallbackIsJustified
    BY DEF LogsIInv, FellBack, FallbackIsJustified
  <1>2. QED
    BY <1>1, LogsSpecIInv, PTL
===============================================================================
