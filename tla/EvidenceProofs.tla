--------------------------- MODULE EvidenceProofs ---------------------------
(***************************************************************************)
(* Proofs about the evidence ledger (Evidence), for every number of        *)
(* batches, every backfill boundary and every size of page, pack, chunk    *)
(* and retention transaction.                                              *)
(***************************************************************************)
EXTENDS Evidence, FiniteSetTheorems, NaturalsInduction, SequenceTheorems, TLAPS

-----------------------------------------------------------------------------
(* Sets of numbers: least and greatest elements, and their order.          *)

\* Every inhabited set of natural numbers has a least element.
LEMMA LeastExists ==
  ASSUME NEW S \in SUBSET Nat, S # {}
  PROVE  \E x \in S : \A y \in S : x <= y
<1>1. \E x \in S : \A y \in S : ~(<<y, x>> \in OpToRel(<, Nat))
  BY NatLessThanWellFounded, WFMin
<1>2. \A x, y \in Nat : <<y, x>> \notin OpToRel(<, Nat) => x <= y
  BY DEF OpToRel
<1> QED BY <1>1, <1>2

\* Min is the least element of an inhabited set of natural numbers.
LEMMA MinIsLeast ==
  ASSUME NEW S \in SUBSET Nat, S # {}
  PROVE  Min(S) \in S /\ Min(S) \in Nat /\ \A y \in S : Min(S) <= y
BY LeastExists DEF Min

\* Max is the greatest element of a bounded, inhabited set of natural numbers.
LEMMA MaxIsGreatest ==
  ASSUME NEW S \in SUBSET Nat, NEW n \in Nat, \A x \in S : x <= n, S # {}
  PROVE  Max(S) \in S /\ Max(S) \in Nat /\ \A y \in S : y <= Max(S)
<1> DEFINE B == {m \in Nat : \A x \in S : x <= m}
<1>1. PICK m \in B : \A k \in B : m <= k
  <2>1. B \in SUBSET Nat /\ n \in B  OBVIOUS
  <2> HIDE DEF B
  <2> QED BY <2>1, LeastExists
<1>2. m \in S
  <2> SUFFICES ASSUME m \notin S PROVE FALSE  OBVIOUS
  <2>1. PICK x \in S : TRUE  OBVIOUS
  <2>2. \A y \in S : y <= m - 1  BY <1>1
  <2>3. m - 1 \in Nat  BY <1>1, <2>1, <2>2
  <2>4. m - 1 \in B  BY <2>2, <2>3
  <2> QED BY <1>1, <2>4
<1>3. \E x \in S : \A y \in S : x >= y  BY <1>1, <1>2
<1>4. /\ (CHOOSE x \in S : \A y \in S : x >= y) \in S
      /\ \A y \in S : (CHOOSE x \in S : \A z \in S : x >= z) >= y
  BY <1>3
<1> QED BY <1>4 DEF Max

\* The number of elements up to x, its rank, grows with x.
LEMMA RankGrows ==
  ASSUME NEW S \in SUBSET Nat, IsFiniteSet(S), NEW x \in S, NEW y \in S, x < y
  PROVE  Cardinality({z \in S : z <= x}) < Cardinality({z \in S : z <= y})
<1> DEFINE A == {z \in S : z <= x}
           B == {z \in S : z <= y}
<1>1. IsFiniteSet(A) /\ IsFiniteSet(B)
      /\ Cardinality(A) \in Nat /\ Cardinality(B) \in Nat
  BY FS_Subset, FS_CardinalityType
<1>2. A \in SUBSET (B \ {y}) /\ y \in B
  <2>1. x \in Nat /\ y \in Nat /\ y <= y  OBVIOUS
  <2>2. \A z \in S : z <= x => z <= y /\ z # y  BY <2>1
  <2>3. \A z \in A : z \in B \ {y}  BY <2>2
  <2>4. y \in B  BY <2>1
  <2> QED BY <2>3, <2>4
<1>3. IsFiniteSet(B \ {y}) /\ Cardinality(B \ {y}) = Cardinality(B) - 1
  BY <1>1, <1>2, FS_RemoveElement
<1>4. Cardinality(A) <= Cardinality(B \ {y})
  BY <1>2, <1>3, FS_Subset
<1> QED BY <1>1, <1>3, <1>4

\* Every rank up to the size of a set belongs to one of its elements.
LEMMA RankReached ==
  ASSUME NEW S \in SUBSET Nat, NEW b \in Nat, \A x \in S : x <= b, IsFiniteSet(S),
         NEW n \in 1 .. Cardinality(S)
  PROVE  \E x \in S : Cardinality({y \in S : y <= x}) = n
<1> DEFINE Upto(x) == {y \in S : y <= x}
           A == {x \in S : Cardinality(Upto(x)) >= n}
<1>1. \A x : IsFiniteSet(Upto(x)) /\ Cardinality(Upto(x)) \in Nat
  BY FS_Subset, FS_CardinalityType
<1>2. Cardinality(S) \in Nat /\ S # {}
  BY FS_CardinalityType, FS_EmptySet
<1>3. A # {}
  <2>1. Max(S) \in S /\ \A y \in S : y <= Max(S)  BY <1>2, MaxIsGreatest
  <2>2. Upto(Max(S)) = S  BY <2>1
  <2>3. Cardinality(Upto(Max(S))) >= n  BY <2>2, <1>2
  <2> QED BY <2>1, <2>3
<1>4. PICK x \in A : \A y \in A : x <= y
  <2>1. A \in SUBSET Nat  OBVIOUS
  <2> HIDE DEF A
  <2> QED BY <1>3, <2>1, LeastExists
<1>5. Cardinality(Upto(x)) = n
  <2> DEFINE B == Upto(x) \ {x}
  <2>1. x \in Upto(x) /\ x \in S /\ Cardinality(Upto(x)) >= n  BY <1>4
  <2>2. IsFiniteSet(B) /\ Cardinality(B) = Cardinality(Upto(x)) - 1
    <3>1. IsFiniteSet(Upto(x))  BY <1>1
    <3> HIDE DEF Upto
    <3> QED BY <2>1, <3>1, FS_RemoveElement
  <2> SUFFICES ASSUME Cardinality(Upto(x)) # n PROVE FALSE  OBVIOUS
  <2>3. Cardinality(B) >= n  BY <1>1, <2>1, <2>2
  <2>4. B # {}  BY <2>3, FS_EmptySet
  <2>5. B \in SUBSET Nat /\ \A y \in B : y <= b
    <3>1. \A y \in B : y \in S  OBVIOUS
    <3> QED BY <3>1
  <2>6. \E m \in B : \A y \in B : y <= m
    <3> HIDE DEF B
    <3> QED BY <2>4, <2>5, MaxIsGreatest
  <2>7. PICK m \in B : \A y \in B : y <= m  BY <2>6
  <2>8. m \in S /\ m < x  OBVIOUS
  <2>9. \A y : y \in B <=> y \in Upto(m)
    <3>1. ASSUME NEW y, y \in B PROVE y \in Upto(m)  BY <2>7, <3>1
    <3>2. ASSUME NEW y, y \in Upto(m) PROVE y \in B
      <4>1. y \in S /\ y <= m  BY <3>2
      <4>2. x \in Nat /\ y \in Nat /\ m \in Nat  BY <4>1, <2>8, <1>4
      <4>3. y <= x /\ y # x  BY <4>1, <4>2, <2>8
      <4> QED BY <4>1, <4>3
    <3> QED BY <3>1, <3>2
  <2>10. B = Upto(m)  BY <2>9
  <2>11. m \in A  BY <2>3, <2>8, <2>10
  <2> QED BY <1>4, <2>8, <2>11
<1> QED BY <1>4, <1>5

\* Nth lists the elements of a bounded set of numbers in their order.
LEMMA NthInOrder ==
  ASSUME NEW S \in SUBSET Nat, NEW b \in Nat, \A x \in S : x <= b
  PROVE  /\ IsFiniteSet(S) /\ Cardinality(S) \in Nat
         /\ \A n \in 1 .. Cardinality(S) : Nth(S, n) \in S
         /\ \A m, n \in 1 .. Cardinality(S) : m < n => Nth(S, m) < Nth(S, n)
         /\ \A x \in S : \E n \in 1 .. Cardinality(S) : Nth(S, n) = x
<1> DEFINE Rank(x) == Cardinality({y \in S : y <= x})
<1>1. IsFiniteSet(S) /\ Cardinality(S) \in Nat
  BY FS_BoundedSetOfNaturals, FS_CardinalityType
<1>2. \A n \in 1 .. Cardinality(S) : Nth(S, n) \in S /\ Rank(Nth(S, n)) = n
  <2> TAKE n \in 1 .. Cardinality(S)
  <2>1. \E x \in S : Cardinality({y \in S : y <= x}) = n  BY <1>1, RankReached
  <2> QED BY <2>1 DEF Nth
<1>3. \A x, y \in S : x < y => Rank(x) < Rank(y)
  BY <1>1, RankGrows
<1>4. \A x \in S : Rank(x) \in 1 .. Cardinality(S)
  <2> TAKE x \in S
  <2>1. {y \in S : y <= x} \in SUBSET S /\ x \in {y \in S : y <= x}  OBVIOUS
  <2>2. /\ IsFiniteSet({y \in S : y <= x}) /\ Rank(x) \in Nat /\ Rank(x) <= Cardinality(S)
        /\ Rank(x) # 0
    BY <1>1, <2>1, FS_Subset, FS_CardinalityType, FS_EmptySet
  <2> QED BY <1>1, <2>2
<1> HIDE DEF Rank
<1>5. ASSUME NEW m \in 1 .. Cardinality(S), NEW n \in 1 .. Cardinality(S), m < n
      PROVE  Nth(S, m) < Nth(S, n)
  <2>1. Nth(S, m) \in Nat /\ Nth(S, n) \in Nat  BY <1>2
  <2>2. Nth(S, m) # Nth(S, n)  BY <1>2, <1>5
  <2>3. ~(Nth(S, n) < Nth(S, m))
    <3>1. Nth(S, n) < Nth(S, m) => n < m  BY <1>2, <1>3
    <3> QED BY <1>5, <3>1
  <2> QED BY <2>1, <2>2, <2>3
<1>6. ASSUME NEW x \in S PROVE Nth(S, Rank(x)) = x
  <2> DEFINE z == Nth(S, Rank(x))
  <2>1. z \in S /\ Rank(z) = Rank(x)  BY <1>2, <1>4
  <2>2. ~(z < x) /\ ~(x < z)
    <3>1. (z < x => Rank(z) < Rank(x)) /\ (x < z => Rank(x) < Rank(z))  BY <1>3, <2>1
    <3>2. Rank(x) \in Nat  BY <1>4
    <3> QED BY <2>1, <3>1, <3>2
  <2> HIDE DEF z
  <2>3. z = x  BY <2>1, <2>2
  <2> QED BY <2>3 DEF z
<1> QED BY <1>1, <1>2, <1>4, <1>5, <1>6

\* Element n of an interval is n - 1 above its first one.
LEMMA NthOfInterval ==
  ASSUME NEW lo \in Nat, NEW hi \in Nat, NEW n \in 1 .. (hi - lo) + 1
  PROVE  Nth(lo .. hi, n) = (lo + n) - 1
<1> DEFINE S == lo .. hi
<1>1. \A x \in S : Cardinality({y \in S : y <= x}) = x - lo + 1
  <2> TAKE x \in S
  <2>1. {y \in S : y <= x} = lo .. x  OBVIOUS
  <2>2. Cardinality(lo .. x) = x - lo + 1  BY FS_Interval
  <2> QED BY <2>1, <2>2
<1>2. (lo + n) - 1 \in S  OBVIOUS
<1> HIDE DEF S
<1>3. /\ Cardinality({y \in S : y <= (lo + n) - 1}) = n
      /\ \A x \in S : Cardinality({y \in S : y <= x}) = n => x = (lo + n) - 1
  <2>1. \A x \in S : x \in Int  BY DEF S
  <2> QED BY <1>1, <1>2, <2>1
<1>4. Nth(S, n) = (lo + n) - 1  BY <1>2, <1>3 DEF Nth
<1> QED BY <1>4 DEF S

\* The newest elements of an interval are those less than n below its end.
LEMMA NewestOfInterval ==
  ASSUME NEW lo \in Nat, NEW hi \in Nat, NEW n \in Nat
  PROVE  \A b \in lo .. hi : b \in Newest(lo .. hi, n) <=> hi - b < n
<1> TAKE b \in lo .. hi
<1>1. {c \in lo .. hi : c > b} = b + 1 .. hi  OBVIOUS
<1>2. Cardinality(b + 1 .. hi) = hi - b
  <2>1. b + 1 \in Int /\ hi \in Int  OBVIOUS
  <2>2. Cardinality(b + 1 .. hi) = IF b + 1 > hi THEN 0 ELSE hi - (b + 1) + 1
    BY <2>1, FS_Interval
  <2> QED BY <2>2
<1> QED BY <1>1, <1>2 DEF Newest

\* Newest keeps everything above what it keeps.
LEMMA NewestIsUpward ==
  ASSUME NEW S \in SUBSET Nat, IsFiniteSet(S), NEW n \in Nat,
         NEW b \in Newest(S, n), NEW c \in S, c > b
  PROVE  c \in Newest(S, n)
<1> DEFINE Above(x) == {d \in S : d > x}
<1>1. \A d \in Above(c) : d \in Above(b)  BY DEF Newest
<1>2. IsFiniteSet(Above(b)) /\ Cardinality(Above(b)) \in Nat  BY FS_Subset, FS_CardinalityType
<1>3. Cardinality(Above(c)) <= Cardinality(Above(b)) /\ Cardinality(Above(c)) \in Nat
  BY <1>1, <1>2, FS_Subset, FS_CardinalityType
<1>4. Cardinality(Above(b)) < n  BY DEF Newest
<1>5. Cardinality(Above(c)) < n  BY <1>2, <1>3, <1>4
<1> QED BY <1>5 DEF Newest

-----------------------------------------------------------------------------
(* Histories. A hash is the sequence of payloads it covers, so the ledger   *)
(* is determined by its head: entry i carries the first i payloads.         *)

\* A nonempty prefix is the one before it and one payload more.
LEMMA PrefixGrows ==
  ASSUME NEW X, NEW h \in Seq(X), NEW i \in 1 .. Len(h)
  PROVE  Append(SubSeq(h, 1, i - 1), h[i]) = SubSeq(h, 1, i)
<1>1. \A j \in 1 .. Len(h) : h[j] \in X  BY ElementOfSeq
<1>2. Len(h) \in Nat  BY LenProperties
<1>3. /\ SubSeq(h, 1, i - 1) \in Seq(X) /\ Len(SubSeq(h, 1, i - 1)) = i - 1
      /\ \A j \in 1 .. i - 1 : SubSeq(h, 1, i - 1)[j] = h[j]
  <2>1. \A j \in 1 .. i - 1 : h[j] \in X  BY <1>1, <1>2
  <2>2. Len(SubSeq(h, 1, i - 1)) = IF 1 <= i - 1 THEN (i - 1) - 1 + 1 ELSE 0
    BY <2>1, <1>2, SubSeqProperties
  <2>3. \A j \in 1 .. (i - 1) - 1 + 1 : SubSeq(h, 1, i - 1)[j] = h[1 + j - 1]
    BY <2>1, <1>2, SubSeqProperties
  <2> QED BY <2>1, <2>2, <2>3, <1>2, SubSeqProperties
<1>4. /\ SubSeq(h, 1, i) \in Seq(X) /\ Len(SubSeq(h, 1, i)) = i
      /\ \A j \in 1 .. i : SubSeq(h, 1, i)[j] = h[j]
  <2>1. \A j \in 1 .. i : h[j] \in X  BY <1>1, <1>2
  <2>2. Len(SubSeq(h, 1, i)) = IF 1 <= i THEN i - 1 + 1 ELSE 0
    BY <2>1, <1>2, SubSeqProperties
  <2>3. \A j \in 1 .. i - 1 + 1 : SubSeq(h, 1, i)[j] = h[1 + j - 1]
    BY <2>1, <1>2, SubSeqProperties
  <2> QED BY <2>1, <2>2, <2>3, <1>2, SubSeqProperties
<1> DEFINE p == SubSeq(h, 1, i - 1)
           a == Append(p, h[i])
<1> HIDE DEF p
<1>5. p \in Seq(X) /\ Len(p) = i - 1 /\ (\A j \in 1 .. i - 1 : p[j] = h[j]) /\ h[i] \in X
  BY <1>1, <1>3 DEF p
<1>6. a \in Seq(X) /\ Len(a) = Len(p) + 1 /\ (\A j \in 1 .. Len(p) : a[j] = p[j]) /\ a[Len(p) + 1] = h[i]
  BY <1>5, AppendProperties
<1> HIDE DEF a
<1>7. Len(a) = i /\ \A j \in 1 .. i : a[j] = h[j]  BY <1>2, <1>5, <1>6
<1>8. a = SubSeq(h, 1, i)  BY <1>4, <1>6, <1>7, SeqEqual
<1> QED BY <1>8 DEF a, p

\* What is appended to a history leaves its prefixes as they were.
LEMMA PrefixesStay ==
  ASSUME NEW X, NEW h \in Seq(X), NEW t \in Seq(X), NEW i \in 0 .. Len(h)
  PROVE  SubSeq(h \o t, 1, i) = SubSeq(h, 1, i)
<1>1. Len(h) \in Nat  BY LenProperties
<1>2. CASE i = 0
  BY <1>2, SubSeqEmpty
<1>3. CASE i > 0
  BY <1>1, <1>3, SubSeqOfConcat1
<1> QED BY <1>1, <1>2, <1>3

\* A history followed by some of the payloads appended to it is a prefix of
\* the new history.
LEMMA PrefixOfGrown ==
  ASSUME NEW X, NEW h \in Seq(X), NEW k \in Nat, NEW g \in [1 .. k -> X], NEW j \in 0 .. k
  PROVE  h \o [i \in 1 .. j |-> g[i]] = SubSeq(h \o g, 1, Len(h) + j)
<1> DEFINE s == [i \in 1 .. j |-> g[i]]
           N == h \o g
<1>1. g \in Seq(X) /\ Len(g) = k /\ s \in Seq(X) /\ Len(s) = j /\ Len(h) \in Nat
  OBVIOUS
<1>2. /\ N \in Seq(X) /\ Len(N) = Len(h) + k
      /\ \A i \in 1 .. Len(h) + k : N[i] = IF i <= Len(h) THEN h[i] ELSE g[i - Len(h)]
  BY <1>1, ConcatProperties
<1>3. /\ h \o s \in Seq(X) /\ Len(h \o s) = Len(h) + j
      /\ \A i \in 1 .. Len(h) + j : (h \o s)[i] = IF i <= Len(h) THEN h[i] ELSE s[i - Len(h)]
  BY <1>1, ConcatProperties
<1>4. \A i \in 1 .. Len(h) + j : (h \o s)[i] = N[i]
  BY <1>1, <1>2, <1>3
<1> HIDE DEF s, N
<1>5. SubSeq(N, 1, Len(h) + j) = h \o s
  <2> DEFINE m == Len(h) + j
  <2>1. m \in Nat /\ m <= Len(N) /\ \A i \in 1 .. m : N[i] \in X  BY <1>1, <1>2, ElementOfSeq
  <2> HIDE DEF m
  <2>2. Len(SubSeq(N, 1, m)) = IF 1 <= m THEN m - 1 + 1 ELSE 0
    BY <2>1, SubSeqProperties
  <2>3. \A i \in 1 .. m - 1 + 1 : SubSeq(N, 1, m)[i] = N[1 + i - 1]
    BY <2>1, SubSeqProperties
  <2>4. SubSeq(N, 1, m) \in Seq(X) /\ Len(SubSeq(N, 1, m)) = m
        /\ \A i \in 1 .. m : SubSeq(N, 1, m)[i] = N[i]
    BY <2>1, <2>2, <2>3, SubSeqProperties
  <2>5. Len(h \o s) = m /\ \A i \in 1 .. m : (h \o s)[i] = N[i]  BY <1>3, <1>4 DEF m
  <2>6. SubSeq(N, 1, m) = h \o s  BY <2>4, <2>5, <1>3, SeqEqual
  <2> QED BY <2>6 DEF m
<1> QED BY <1>5 DEF s, N

Payloads == [batch : Nat, count : Nat, events : SUBSET Kinds, triggers : SUBSET Nat]

\* The entry, and the ledger, that a history of payloads determines.
EntryOf(h, i) == [batch |-> h[i].batch, prev |-> SubSeq(h, 1, i - 1), hash |-> SubSeq(h, 1, i)]
LedgerOf(h) == [i \in 1 .. Len(h) |-> EntryOf(h, i)]

Fresh(D) == {b \in D : Sequence(b) = 0}
Additions(f) == [i \in 1 .. Cardinality(Fresh(DOMAIN f)) |-> f[Nth(Fresh(DOMAIN f), i)]]

\* The ledger of a history is as long as the history and ends at it.
LEMMA LedgerOfHistory ==
  ASSUME NEW h \in Seq(Payloads)
  PROVE  /\ DOMAIN LedgerOf(h) = 1 .. Len(h) /\ Len(LedgerOf(h)) = Len(h) /\ Len(h) \in Nat
         /\ LedgerHead(LedgerOf(h), h) = h /\ LedgerHead(LedgerOf(h), <<>>) = h
<1>1. Len(h) \in Nat  BY LenProperties
<1>2. DOMAIN LedgerOf(h) = 1 .. Len(h) /\ Len(LedgerOf(h)) = Len(h)
  BY <1>1 DEF LedgerOf
<1>3. CASE Len(h) = 0
  <2>1. h = <<>>  BY <1>3, EmptySeq
  <2>2. LedgerOf(h) = <<>>  BY <1>3 DEF LedgerOf
  <2> QED BY <1>1, <1>2, <2>1, <2>2 DEF LedgerHead
<1>4. CASE Len(h) > 0
  <2>1. LedgerOf(h) # <<>>  BY <1>2, <1>4
  <2>2. LedgerOf(h)[Len(h)].hash = SubSeq(h, 1, Len(h))
    BY <1>1, <1>4 DEF LedgerOf, EntryOf
  <2>3. SubSeq(h, 1, Len(h)) = h  BY SubSeqFull
  <2> QED BY <1>1, <1>2, <2>1, <2>2, <2>3 DEF LedgerHead
<1> QED BY <1>1, <1>3, <1>4

\* Appending payloads to the ledger of a history gives the ledger of the
\* history that the payloads without an entry extend, in the order of batches.
LEMMA AppendedIs ==
  ASSUME head \in Seq(Payloads), ledger = LedgerOf(head), MaxBatch \in Nat,
         NEW D \in SUBSET (1 .. MaxBatch), NEW f \in [D -> Payloads]
  PROVE  /\ Additions(f) \in Seq(Payloads) /\ head \o Additions(f) \in Seq(Payloads)
         /\ Appended(f) = LedgerOf(head \o Additions(f))
         /\ LedgerHead(Appended(f), head) = head \o Additions(f)
<1> DEFINE F == Fresh(DOMAIN f)
           k == Cardinality(F)
           g == Additions(f)
           N == head \o g
<1>1. /\ k \in Nat /\ \A n \in 1 .. k : Nth(F, n) \in D
  <2>1. F \in SUBSET Nat /\ \A x \in F : x <= MaxBatch  BY DEF Fresh
  <2>2. k \in Nat /\ \A n \in 1 .. k : Nth(F, n) \in F  BY <2>1, NthInOrder
  <2> QED BY <2>2 DEF Fresh
<1>2. g = [i \in 1 .. k |-> f[Nth(F, i)]]  BY DEF Additions
<1>3. g \in [1 .. k -> Payloads]  BY <1>1, <1>2
<1>4. g \in Seq(Payloads) /\ Len(g) = k
  <2> HIDE DEF g, k
  <2> QED BY <1>1, <1>3
<1>5. LedgerHead(ledger, head) = head /\ Len(ledger) = Len(head) /\ Len(head) \in Nat
  BY LedgerOfHistory
<1>6. N \in Seq(Payloads) /\ Len(N) = Len(head) + k
      /\ \A i \in 1 .. Len(head) + k : N[i] = IF i <= Len(head) THEN head[i] ELSE g[i - Len(head)]
  <2> HIDE DEF g, k
  <2>1. /\ N \in Seq(Payloads) /\ Len(N) = Len(head) + Len(g)
        /\ \A i \in 1 .. Len(head) + Len(g) : N[i] = IF i <= Len(head) THEN head[i] ELSE g[i - Len(head)]
    BY <1>4, ConcatProperties
  <2> HIDE DEF N
  <2> QED BY <1>4, <2>1
<1> DEFINE e == [i \in 1 .. k |-> Entry(head \o [j \in 1 .. i - 1 |-> f[Nth(F, j)]], f[Nth(F, i)])]
<1>7. Appended(f) = ledger \o e
  BY <1>5 DEF Appended, Fresh
<1>8. ASSUME NEW i \in 1 .. k PROVE e[i] = EntryOf(N, Len(head) + i)
  <2>1. i - 1 \in 0 .. k /\ i \in 0 .. k  BY <1>1
  <2>2. head \o [j \in 1 .. i - 1 |-> f[Nth(F, j)]] = head \o [j \in 1 .. i - 1 |-> g[j]]
    <3>1. [j \in 1 .. i - 1 |-> f[Nth(F, j)]] = [j \in 1 .. i - 1 |-> g[j]]
      BY <1>1, <1>2, <2>1
    <3> QED BY <3>1
  <2>3. head \o [j \in 1 .. i - 1 |-> g[j]] = SubSeq(N, 1, (Len(head) + i) - 1)
    <3>1. \A n \in 0 .. k : head \o [j \in 1 .. n |-> g[j]] = SubSeq(N, 1, Len(head) + n)
      <4> HIDE DEF g, k
      <4> QED BY <1>1, <1>3, PrefixOfGrown
    <3>2. head \o [j \in 1 .. i - 1 |-> g[j]] = SubSeq(N, 1, Len(head) + (i - 1))
      BY <2>1, <3>1
    <3>3. Len(head) + (i - 1) = (Len(head) + i) - 1  BY <1>1, <1>5
    <3> QED BY <3>2, <3>3
  <2>4. f[Nth(F, i)] = N[Len(head) + i]
    <3>1. Len(head) + i \in 1 .. Len(head) + k /\ ~(Len(head) + i <= Len(head)) /\ (Len(head) + i) - Len(head) = i
      BY <1>1, <1>5
    <3>2. N[Len(head) + i] = g[i]  BY <3>1, <1>6
    <3> QED BY <3>2, <1>2
  <2>5. Append(SubSeq(N, 1, (Len(head) + i) - 1), N[Len(head) + i]) = SubSeq(N, 1, Len(head) + i)
    <3>1. Len(head) + i \in 1 .. Len(N)  BY <1>1, <1>5, <1>6
    <3>2. \A n \in 1 .. Len(N) : Append(SubSeq(N, 1, n - 1), N[n]) = SubSeq(N, 1, n)
      <4> HIDE DEF N
      <4> QED BY <1>6, PrefixGrows
    <3> HIDE DEF N
    <3> QED BY <3>1, <3>2
  <2>6. e[i] = Entry(SubSeq(N, 1, (Len(head) + i) - 1), N[Len(head) + i])
    <3>1. e[i] = Entry(head \o [j \in 1 .. i - 1 |-> f[Nth(F, j)]], f[Nth(F, i)])  OBVIOUS
    <3> HIDE DEF e, N, g, F, k
    <3> QED BY <3>1, <2>2, <2>3, <2>4
  <2> HIDE DEF e, N, g, F, k
  <2>7. Entry(SubSeq(N, 1, (Len(head) + i) - 1), N[Len(head) + i]) = EntryOf(N, Len(head) + i)
    <3>1. Digest(SubSeq(N, 1, (Len(head) + i) - 1), N[Len(head) + i]) = SubSeq(N, 1, Len(head) + i)
      BY <2>5 DEF Digest
    <3> QED BY <3>1 DEF Entry, EntryOf
  <2> QED BY <2>6, <2>7
<1>9. ledger \o e = LedgerOf(N)
  <2> DEFINE E == {e[i] : i \in 1 .. k} \cup {EntryOf(head, i) : i \in 1 .. Len(head)}
  <2> HIDE DEF N, g, F
  <2>1. ledger \in Seq(E) /\ e \in Seq(E) /\ Len(e) = k
    <3>1. ledger \in [1 .. Len(head) -> E]  BY DEF LedgerOf
    <3>2. e \in [1 .. k -> E]  OBVIOUS
    <3> HIDE DEF e, E, k
    <3> QED BY <3>1, <3>2, <1>1, <1>5
  <2> HIDE DEF e, E, k
  <2>2. /\ ledger \o e \in Seq(E) /\ Len(ledger \o e) = Len(N)
        /\ \A i \in 1 .. Len(head) + k : (ledger \o e)[i] = IF i <= Len(head) THEN ledger[i] ELSE e[i - Len(head)]
    <3>1. /\ ledger \o e \in Seq(E) /\ Len(ledger \o e) = Len(ledger) + Len(e)
          /\ \A i \in 1 .. Len(ledger) + Len(e) :
               (ledger \o e)[i] = IF i <= Len(ledger) THEN ledger[i] ELSE e[i - Len(ledger)]
      BY <2>1, ConcatProperties
    <3> QED BY <3>1, <2>1, <1>5, <1>6
  <2>3. ASSUME NEW i \in 1 .. Len(N) PROVE (ledger \o e)[i] = EntryOf(N, i)
    <3>1. CASE i <= Len(head)
      <4>1. (ledger \o e)[i] = EntryOf(head, i)  BY <1>5, <1>6, <2>2, <3>1 DEF LedgerOf
      <4>2. i \in 0 .. Len(head) /\ i - 1 \in 0 .. Len(head)  BY <1>5, <1>6, <3>1
      <4>3. SubSeq(N, 1, i) = SubSeq(head, 1, i) /\ SubSeq(N, 1, i - 1) = SubSeq(head, 1, i - 1)
        BY <4>2, <1>4, PrefixesStay DEF N
      <4>4. N[i] = head[i]  BY <1>5, <1>6, <3>1, <4>2
      <4> QED BY <4>1, <4>3, <4>4 DEF EntryOf
    <3>2. CASE i > Len(head)
      <4>1. i - Len(head) \in 1 .. k /\ Len(head) + (i - Len(head)) = i /\ ~(i <= Len(head))
        BY <1>1, <1>5, <1>6, <3>2
      <4>2. (ledger \o e)[i] = e[i - Len(head)]  BY <1>6, <2>2, <4>1
      <4>3. e[i - Len(head)] = EntryOf(N, Len(head) + (i - Len(head)))  BY <4>1, <1>8
      <4>4. EntryOf(N, Len(head) + (i - Len(head))) = EntryOf(N, i)  BY <4>1
      <4> QED BY <4>2, <4>3, <4>4
    <3>3. i <= Len(head) \/ i > Len(head)
      <4>1. Len(N) \in Nat  BY <1>6, LenProperties
      <4>2. i \in Int /\ Len(head) \in Int  BY <4>1, <1>5
      <4> QED BY <4>2
    <3> QED BY <3>1, <3>2, <3>3
  <2>4. ledger \o e = [i \in 1 .. Len(N) |-> EntryOf(N, i)]
    BY <2>2, <2>3, LenProperties
  <2> QED BY <2>4 DEF LedgerOf
<1>10. LedgerHead(LedgerOf(N), head) = N
  <2>1. CASE N = <<>>
    <3>1. k = 0 /\ Len(head) = 0
      <4>1. Len(N) = 0  BY <2>1
      <4> HIDE DEF N, k
      <4> QED BY <1>1, <1>5, <1>6, <4>1
    <3>2. head = <<>>  BY <3>1, EmptySeq
    <3>3. LedgerHead(LedgerOf(head), <<>>) = head  BY LedgerOfHistory
    <3> HIDE DEF N, k
    <3> QED BY <2>1, <3>2, <3>3
  <2>2. CASE N # <<>>
    <3> HIDE DEF N, k
    <3>1. LedgerOf(N) # <<>>
      <4>1. Len(N) \in Nat \ {0} /\ Len(LedgerOf(N)) = Len(N)  BY <2>2, <1>6, EmptySeq, LedgerOfHistory
      <4> QED BY <4>1
    <3>2. LedgerHead(LedgerOf(N), N) = N  BY <1>6, LedgerOfHistory
    <3> QED BY <3>1, <3>2 DEF LedgerHead
  <2> QED BY <2>1, <2>2
<1> QED
  <2>1. Appended(f) = LedgerOf(N)  BY <1>7, <1>9
  <2> HIDE DEF N, k, e
  <2>2. LedgerHead(Appended(f), head) = N  BY <2>1, <1>10
  <2> QED BY <2>1, <2>2, <1>4, <1>6 DEF N

-----------------------------------------------------------------------------
(* The inductive invariant, first for the database and the backfill.        *)

Has(h, b) == \E i \in 1 .. Len(h) : h[i].batch = b

Shape ==
  /\ rows \in [Ids -> [count : Nat, first : Nat]]
  /\ events \in [Ids -> SUBSET Kinds] /\ links \in [Ids -> SUBSET Nat]
  /\ head \in Seq(Payloads) /\ ledger = LedgerOf(head)
  /\ boot \in {"down", "backfill", "mark", "serving"} /\ cursor \in 0 .. Cutoff /\ backfilled \in BOOLEAN

\* Entries are in the order of batches, and none is of a batch the migration
\* left out.
InOrder ==
  /\ \A i \in 1 .. Len(head) : head[i].batch \in Ids /\ (head[i].batch <= Legacy => head[i].batch <= Cutoff)
  /\ \A i, j \in 1 .. Len(head) : i < j => head[i].batch < head[j].batch

\* A row counts events, and events have a row.
RowsFirst == \A b \in Ids : (rows[b] # NoRow => rows[b].count > 0) /\ (events[b] # {} => rows[b] # NoRow)

\* The entry of a stored batch is of what is stored, all of it.
Faithful ==
  \A i \in 1 .. Len(head) :
    rows[head[i].batch] # NoRow => /\ head[i] = CurrentPayload(head[i].batch)
                                   /\ Cardinality(events[head[i].batch]) = rows[head[i].batch].count

\* Live batches have their entry. Until the marker is set there are none, and
\* the batches up to the cursor, or to the last entry, have been gone through;
\* after it, those up to the cutoff have.
Phases ==
  /\ \A b \in Ids : b > Legacy /\ rows[b] # NoRow => Has(head, b)
  /\ boot = "serving" => backfilled
  /\ boot \in {"backfill", "mark"} => ~backfilled
  /\ ~backfilled =>
       /\ \A i \in 1 .. Len(head) : head[i].batch <= Cutoff
       /\ \A b \in 1 .. Cutoff : Eligible(b) =>
            /\ b <= cursor => Has(head, b)
            /\ \A i \in 1 .. Len(head) : b <= head[i].batch => Has(head, b)
  /\ boot = "mark" \/ backfilled => \A b \in 1 .. Cutoff : Eligible(b) => Has(head, b)

LedgerInv == Shape /\ InOrder /\ RowsFirst /\ Faithful /\ Phases

(* ... and for the readers. A reader goes on with a batch that retention may *)
(* have removed; what it has read of a batch that is still stored is true.   *)

Reads == [batch : Nat, count : Nat, first : Nat, triggers : SUBSET Nat, events : SUBSET Kinds]
Loads == [id : Ids, events : SUBSET Kinds, seq : Nat, triggers : SUBSET Nat,
          prev : Seq(Payloads), hash : Seq(Payloads), payload : Payloads]
ExportReads ==
  [kind : {"export"}, at : {"batch", "row", "links", "payload", "events", "pack"}, filter : Filters,
   todo : SUBSET Ids, spent : Nat, more : BOOLEAN, full : BOOLEAN, got : Seq(Loads),
   ts : SUBSET Nat, payload : Reads]
AuditReads ==
  [kind : {"audit"}, at : {"entries", "entry", "row", "links", "payload", "alarm"},
   entry : Nat \ {0}, upto : Nat, payload : Reads, latest : Nat,
   stored : Seq(Payloads), observed : Seq(Payloads)]

\* What has been read of the row of a batch, and of its links, is stored.
RowRead(p, b) == p.batch = b /\ p.count = rows[b].count /\ p.first = rows[b].first
Halfway(at, p, b) ==
  rows[b] # NoRow => /\ at \in {"links", "payload"} => RowRead(p, b)
                     /\ at = "payload" => p.triggers = links[b]

\* A loaded batch that has an entry carries it, and is bound to its payload.
Entered(r) ==
  r.seq > 0 => /\ r.seq <= Len(head) /\ ledger[r.seq].batch = r.id
               /\ r.prev = ledger[r.seq].prev /\ r.hash = ledger[r.seq].hash /\ Bound(r)

Descending(s) == \A i, j \in 1 .. Len(s) : i < j => s[j] < s[i]
GotIds(got) == [i \in 1 .. Len(got) |-> got[i].id]
Wanted(b) == b \in Stored /\ b <= chain.top /\ Matching(b, chain.filter) # {}

ChainInv ==
  /\ chain \in [filter : Filters, next : Nat, top : Nat, parts : Seq(Ids)] /\ chain.top < NextId
  /\ IF chain.next = 0 THEN chain.parts = <<>>
     ELSE /\ chain.parts # <<>> /\ Last(chain.parts) = chain.next
          /\ \A b \in Ids : Wanted(b) /\ b >= chain.next => b \in ToSet(chain.parts)
  /\ Descending(chain.parts)

\* The page is known and lies below the parts delivered; what is loaded
\* descends from its top to what is left.
PageOrder ==
  /\ \A b \in reader.todo : b < NextId /\ (chain.next > 0 => b < chain.next)
  /\ \A b \in reader.todo : \A i \in 1 .. Len(reader.got) : b < reader.got[i].id
  /\ \A i \in 1 .. Len(reader.got) : chain.next > 0 => reader.got[i].id < chain.next
  /\ Descending(GotIds(reader.got))

\* A wanted batch is delivered, loaded, on the page, or below all of it.
Pending ==
  \A b \in Ids : Wanted(b) /\ (chain.next > 0 => b < chain.next) =>
    \/ b \in reader.todo
    \/ \E i \in 1 .. Len(reader.got) : reader.got[i].id = b
    \/ /\ reader.more /\ \A c \in reader.todo : b < c
       /\ \A i \in 1 .. Len(reader.got) : b < reader.got[i].id

Exporting ==
  /\ reader \in ExportReads /\ boot = "serving" /\ reader.filter = chain.filter
  /\ reader.at # "pack" => reader.todo # {}
  /\ reader.at = "pack" /\ ~reader.full => reader.todo = {}
  /\ PageOrder /\ Pending
  /\ \A i \in 1 .. Len(reader.got) : Entered(reader.got[i])
  /\ reader.at \in {"row", "links", "payload", "events"} /\ rows[Current] # NoRow => reader.ts = links[Current]
  /\ reader.at \in {"row", "links", "payload"} => Halfway(reader.at, reader.payload, Current)
  /\ reader.at = "events" /\ rows[Current] # NoRow /\ Has(head, Current) =>
       /\ RowRead(reader.payload, Current) /\ reader.payload.triggers = links[Current]
       /\ reader.payload.events = events[Current]

SignedInv ==
  /\ reader.at = "signed" /\ boot = "serving"
  /\ reader = [kind |-> "export", at |-> "signed", pack |-> reader.pack]
  /\ reader.pack.batches \in Seq(Loads) /\ reader.pack.truncated \in BOOLEAN /\ reader.pack.next \in Nat
  /\ Verifies(reader.pack)
  /\ Descending(chain.parts \o PartIds(reader.pack))
  /\ \A b \in Ids : Wanted(b) /\ (reader.pack.truncated => b >= reader.pack.next) =>
       b \in ToSet(chain.parts \o PartIds(reader.pack))

Auditing ==
  /\ reader \in AuditReads /\ reader.upto <= Len(head) /\ reader.stored = reader.observed
  /\ reader.at \in {"row", "links", "payload", "alarm"} => reader.entry <= reader.upto
  /\ reader.at \in {"row", "links", "payload"} =>
       Halfway(reader.at, reader.payload, head[reader.entry].batch)
  /\ reader.at = "alarm" => rows[head[reader.entry].batch] = NoRow

ReaderInv == reader = Idle \/ Exporting \/ SignedInv \/ Auditing

Inv == LedgerInv /\ ChainInv /\ ReaderInv

-----------------------------------------------------------------------------
(* The ledger, its sequences and the next batch id, by the history.         *)

\* Entry i carries the batch of payload i, is chained to the entry before,
\* and hashes its payload after what its predecessor covers.
LEMMA LedgerFacts ==
  ASSUME head \in Seq(Payloads), ledger = LedgerOf(head)
  PROVE  /\ DOMAIN ledger = 1 .. Len(head) /\ Len(ledger) = Len(head) /\ Len(head) \in Nat
         /\ \A i \in 1 .. Len(head) :
              /\ head[i] \in Payloads /\ ledger[i].batch = head[i].batch
              /\ ledger[i].prev \in Seq(Payloads) /\ ledger[i].hash \in Seq(Payloads)
              /\ Digest(ledger[i].prev, head[i]) = ledger[i].hash
              /\ (i = 1 => ledger[i].prev = <<>>) /\ (i > 1 => ledger[i].prev = ledger[i - 1].hash)
              /\ Chained(i)
<1>1. DOMAIN ledger = 1 .. Len(head) /\ Len(ledger) = Len(head) /\ Len(head) \in Nat
  BY LedgerOfHistory
<1>2. ASSUME NEW i \in 1 .. Len(head)
      PROVE  /\ ledger[i].batch = head[i].batch /\ ledger[i].prev = SubSeq(head, 1, i - 1)
             /\ ledger[i].hash = SubSeq(head, 1, i)
  BY <1>1 DEF LedgerOf, EntryOf
<1>3. ASSUME NEW i \in 1 .. Len(head)
      PROVE  /\ (i = 1 => ledger[i].prev = <<>>) /\ (i > 1 => ledger[i].prev = ledger[i - 1].hash)
             /\ ledger[i].prev \in Seq(Payloads) /\ ledger[i].hash \in Seq(Payloads)
  <2>1. i = 1 => SubSeq(head, 1, i - 1) = <<>>  BY SubSeqEmpty
  <2>2. i > 1 => i - 1 \in 1 .. Len(head)  BY <1>1
  <2>3. i > 1 => ledger[i - 1].hash = SubSeq(head, 1, i - 1)  BY <1>2, <2>2
  <2>4. \A j \in 1 .. i - 1 : head[j] \in Payloads  BY <1>1, ElementOfSeq
  <2>5. \A j \in 1 .. i : head[j] \in Payloads  BY <1>1, ElementOfSeq
  <2>6. SubSeq(head, 1, i - 1) \in Seq(Payloads)  BY <2>4, SubSeqProperties
  <2>7. SubSeq(head, 1, i) \in Seq(Payloads)  BY <2>5, SubSeqProperties
  <2> QED BY <1>2, <2>1, <2>3, <2>6, <2>7
<1>4. ASSUME NEW i \in 1 .. Len(head) PROVE Digest(ledger[i].prev, head[i]) = ledger[i].hash
  BY <1>2, PrefixGrows DEF Digest
<1>5. ASSUME NEW i \in 1 .. Len(head) PROVE Chained(i)
  BY <1>1, <1>3 DEF Chained
<1> QED BY <1>1, <1>2, <1>3, <1>4, <1>5, ElementOfSeq

\* The sequence of a batch is where its entry is, and 0 when it has none.
LEMMA SequenceIs ==
  ASSUME head \in Seq(Payloads), ledger = LedgerOf(head), NEW b
  PROVE  /\ Sequence(b) \in Nat /\ (Sequence(b) > 0 <=> Has(head, b)) /\ (Sequence(b) = 0 <=> ~Has(head, b))
         /\ Sequence(b) > 0 => Sequence(b) \in 1 .. Len(head) /\ ledger[Sequence(b)].batch = b
                               /\ head[Sequence(b)].batch = b
<1>1. DOMAIN ledger = 1 .. Len(head) /\ \A i \in 1 .. Len(head) : ledger[i].batch = head[i].batch
  BY LedgerFacts
<1>2. CASE Has(head, b)
  <2>1. \E i \in DOMAIN ledger : ledger[i].batch = b  BY <1>1, <1>2 DEF Has
  <2>2. Sequence(b) \in DOMAIN ledger /\ ledger[Sequence(b)].batch = b  BY <2>1 DEF Sequence
  <2>3. Sequence(b) \in 1 .. Len(head) /\ head[Sequence(b)].batch = b  BY <1>1, <2>2
  <2>4. Sequence(b) \in Nat /\ Sequence(b) > 0  BY <2>3
  <2> QED BY <1>2, <2>2, <2>3, <2>4
<1>3. CASE ~Has(head, b)
  <2>1. Sequence(b) = 0  BY <1>1, <1>3 DEF Has, Sequence
  <2> QED BY <1>3, <2>1
<1> QED BY <1>2, <1>3

\* The batch after those of a ledger is above each of them, and the first such.
LEMMA NextOfLedger ==
  ASSUME NEW h \in Seq(Payloads), NEW l, l = LedgerOf(h), \A i \in 1 .. Len(h) : h[i].batch \in Ids,
         NEW n, n = 1 + Max({Legacy} \cup {l[i].batch : i \in DOMAIN l})
  PROVE  /\ n \in Nat /\ n > Legacy /\ \A i \in 1 .. Len(h) : h[i].batch < n
         /\ n = Legacy + 1 \/ Has(h, n - 1)
<1> DEFINE S == {Legacy} \cup {l[i].batch : i \in DOMAIN l}
<1>1. DOMAIN l = 1 .. Len(h) /\ \A i \in 1 .. Len(h) : l[i].batch = h[i].batch
  BY DEF LedgerOf, EntryOf
<1>2. MaxBatch \in Nat /\ Legacy \in Nat /\ Legacy <= MaxBatch  BY EvidenceAssumption
<1>3. S \in SUBSET Nat /\ S # {} /\ \A x \in S : x <= MaxBatch
  BY <1>1, <1>2 DEF Ids
<1>4. Max(S) \in S /\ Max(S) \in Nat /\ \A y \in S : y <= Max(S)
  <2> HIDE DEF S
  <2> QED BY <1>2, <1>3, MaxIsGreatest
<1>5. n = 1 + Max(S)  OBVIOUS
<1>6. Legacy \in S /\ \A i \in 1 .. Len(h) : h[i].batch \in S  BY <1>1
<1>7. Max(S) = Legacy \/ \E i \in 1 .. Len(h) : h[i].batch = Max(S)  BY <1>1, <1>4
<1> HIDE DEF S
<1>8. \A i \in 1 .. Len(h) : h[i].batch \in Nat /\ h[i].batch <= Max(S)  BY <1>3, <1>4, <1>6
<1>9. n - 1 = Max(S)  BY <1>4, <1>5
<1>10. n \in Nat /\ n > Legacy  BY <1>2, <1>4, <1>5, <1>6
<1>11. \A i \in 1 .. Len(h) : h[i].batch < n  BY <1>4, <1>5, <1>8
<1>12. n = Legacy + 1 \/ Has(h, n - 1)
  <2>1. Max(S) = Legacy => n = Legacy + 1  BY <1>2, <1>5
  <2> QED BY <1>7, <1>9, <2>1 DEF Has
<1> QED BY <1>10, <1>11, <1>12

LEMMA NextIdIs ==
  ASSUME head \in Seq(Payloads), ledger = LedgerOf(head), InOrder
  PROVE  /\ NextId \in Nat /\ NextId > Legacy /\ \A i \in 1 .. Len(head) : head[i].batch < NextId
         /\ NextId = Legacy + 1 \/ Has(head, NextId - 1)
<1>1. \A i \in 1 .. Len(head) : head[i].batch \in Ids  BY DEF InOrder
<1>2. NextId = 1 + Max({Legacy} \cup {ledger[i].batch : i \in DOMAIN ledger})  BY DEF NextId
<1> QED BY <1>1, <1>2, NextOfLedger

\* The history after some payloads, by batch, are appended: those of batches
\* without an entry come after it, in their order.
GrownTo(h, D, f) ==
  /\ Appended(f) = LedgerOf(h) /\ LedgerHead(Appended(f), head) = h
  /\ Len(head) <= Len(h) /\ Len(h) \in Nat /\ \A i \in 1 .. Len(head) : h[i] = head[i]
  /\ \A i \in Len(head) + 1 .. Len(h) :
       h[i].batch \in D /\ ~Has(head, h[i].batch) /\ h[i] = f[h[i].batch]
  /\ \A i, j \in Len(head) + 1 .. Len(h) : i < j => h[i].batch < h[j].batch
  /\ \A b \in D : Has(h, b)
  /\ \A b : Has(head, b) => Has(h, b)

\* Appending adds the payloads of batches without an entry, in their order.
LEMMA Grown ==
  ASSUME head \in Seq(Payloads), ledger = LedgerOf(head), MaxBatch \in Nat,
         NEW D \in SUBSET (1 .. MaxBatch), NEW f \in [D -> Payloads], \A b \in D : f[b].batch = b
  PROVE  \E h \in Seq(Payloads) : GrownTo(h, D, f)
<1> DEFINE F == Fresh(D)
           k == Cardinality(F)
           g == Additions(f)
           h == head \o g
<1>1. /\ k \in Nat /\ \A n \in 1 .. k : Nth(F, n) \in F
      /\ \A m, n \in 1 .. k : m < n => Nth(F, m) < Nth(F, n)
      /\ \A x \in F : \E n \in 1 .. k : Nth(F, n) = x
  <2>1. \A x \in D : x \in Nat /\ x <= MaxBatch  OBVIOUS
  <2>2. \A x \in F : x \in D  BY DEF Fresh
  <2> HIDE DEF F
  <2>3. F \in SUBSET Nat /\ \A x \in F : x <= MaxBatch  BY <2>1, <2>2
  <2> QED BY <2>3, NthInOrder
<1>2. \A b \in F : b \in D /\ ~Has(head, b)  BY SequenceIs DEF Fresh
<1>3. \A b \in D : b \in F \/ Has(head, b)  BY SequenceIs DEF Fresh
<1>4. g = [i \in 1 .. k |-> f[Nth(F, i)]]  BY DEF Additions
<1>5. /\ g \in Seq(Payloads) /\ h \in Seq(Payloads)
      /\ Appended(f) = LedgerOf(h) /\ LedgerHead(Appended(f), head) = h
  BY AppendedIs
<1>6. Len(head) \in Nat  BY LenProperties
<1>7. Len(g) = k
  <2>1. \A x \in {g} : DOMAIN x = 1 .. k  BY <1>4
  <2> HIDE DEF g, k
  <2> QED BY <1>1, <1>5, <2>1, LenProperties
<1> HIDE DEF F, k
<1>8. /\ Len(h) = Len(head) + k
      /\ \A i \in 1 .. Len(head) + k : h[i] = IF i <= Len(head) THEN head[i] ELSE g[i - Len(head)]
  <2> HIDE DEF g
  <2>1. /\ Len(h) = Len(head) + Len(g)
        /\ \A i \in 1 .. Len(head) + Len(g) : h[i] = IF i <= Len(head) THEN head[i] ELSE g[i - Len(head)]
    BY <1>5, ConcatProperties
  <2> HIDE DEF h
  <2> QED BY <1>7, <2>1
<1>9. \A n \in 1 .. k : g[n] = f[Nth(F, n)] /\ g[n].batch = Nth(F, n)
  BY <1>1, <1>2, <1>4
<1> HIDE DEF g, h
<1>10. \A i \in 1 .. Len(head) : h[i] = head[i]
  <2>1. \A i \in 1 .. Len(head) : i \in 1 .. Len(head) + k /\ i <= Len(head)  BY <1>1, <1>6
  <2> QED BY <2>1, <1>8
<1>11. ASSUME NEW i \in Len(head) + 1 .. Len(h)
       PROVE  i - Len(head) \in 1 .. k /\ h[i] = g[i - Len(head)] /\ i \in Int
  <2>1. i - Len(head) \in 1 .. k /\ i \in 1 .. Len(head) + k /\ ~(i <= Len(head)) /\ i \in Int
    BY <1>1, <1>6, <1>8
  <2> QED BY <2>1, <1>8
<1>12. ASSUME NEW i \in Len(head) + 1 .. Len(h)
       PROVE  h[i].batch \in D /\ ~Has(head, h[i].batch) /\ h[i] = f[h[i].batch]
  <2> DEFINE n == i - Len(head)
  <2>1. n \in 1 .. k /\ h[i] = g[n]  BY <1>11
  <2> HIDE DEF n
  <2>2. g[n] = f[Nth(F, n)] /\ g[n].batch = Nth(F, n)  BY <1>9, <2>1
  <2>3. Nth(F, n) \in F  BY <1>1, <2>1
  <2>4. h[i].batch \in F /\ h[i] = f[h[i].batch]  BY <2>1, <2>2, <2>3
  <2> QED BY <1>2, <2>4
<1>13. ASSUME NEW i \in Len(head) + 1 .. Len(h), NEW j \in Len(head) + 1 .. Len(h), i < j
       PROVE  h[i].batch < h[j].batch
  <2>1. i - Len(head) < j - Len(head)  BY <1>6, <1>11, <1>13
  <2>2. h[i].batch = Nth(F, i - Len(head)) /\ h[j].batch = Nth(F, j - Len(head))
    BY <1>9, <1>11
  <2>3. i - Len(head) \in 1 .. k /\ j - Len(head) \in 1 .. k  BY <1>11
  <2> QED BY <1>1, <2>1, <2>2, <2>3
<1>14. \A b : Has(head, b) => Has(h, b)
  <2>1. \A i \in 1 .. Len(head) : i \in 1 .. Len(h)  BY <1>1, <1>6, <1>8
  <2> QED BY <2>1, <1>10 DEF Has
<1>15. ASSUME NEW b \in F PROVE Has(h, b)
  <2>1. PICK n \in 1 .. k : Nth(F, n) = b  BY <1>1
  <2>2. Len(head) + n \in 1 .. Len(h) /\ Len(head) + n \in Len(head) + 1 .. Len(h) /\ (Len(head) + n) - Len(head) = n
    BY <1>1, <1>6, <1>8
  <2>3. h[Len(head) + n] = g[n]
    <3>1. h[Len(head) + n] = g[(Len(head) + n) - Len(head)]  BY <1>11, <2>2
    <3> QED BY <2>2, <3>1
  <2> QED BY <1>9, <2>1, <2>2, <2>3 DEF Has
<1>16. Len(head) <= Len(h) /\ Len(h) \in Nat  BY <1>1, <1>6, <1>8
<1>17. \A b \in D : Has(h, b)  BY <1>3, <1>14, <1>15
<1>18. GrownTo(h, D, f)  BY <1>5, <1>10, <1>12, <1>13, <1>14, <1>16, <1>17 DEF GrownTo
<1> QED BY <1>5, <1>18

-----------------------------------------------------------------------------
(* The database and the backfill keep their invariant.                      *)

LEMMA Bounds ==
  /\ MaxBatch \in Nat \ {0} /\ Legacy \in Nat /\ Cutoff \in Nat /\ Chunk \in Nat \ {0} /\ PageLimit \in Nat \ {0}
  /\ AuditPage \in Nat \ {0} /\ MaxEvents \in Nat /\ PageBudget \in Nat
  /\ Cutoff <= Legacy /\ Legacy <= MaxBatch /\ IsFiniteSet(Kinds)
BY EvidenceAssumption

\* Sets of kinds are finite.
LEMMA KindsFinite ==
  ASSUME NEW es \in SUBSET Kinds
  PROVE  IsFiniteSet(es) /\ Cardinality(es) \in Nat /\ (es # {} => Cardinality(es) > 0)
<1>1. IsFiniteSet(es)  BY Bounds, FS_Subset
<1>2. Cardinality(es) \in Nat /\ (Cardinality(es) = 0 <=> es = {})
  BY <1>1, FS_CardinalityType, FS_EmptySet
<1> QED BY <1>1, <1>2

LEMMA LedgerInit == Init => LedgerInv
<1> SUFFICES ASSUME Init PROVE LedgerInv  OBVIOUS
<1> USE Bounds
<1>1. PICK complete \in [1 .. Legacy -> BOOLEAN], kinds \in [1 .. Legacy -> {c.events : c \in Contents}] :
        /\ events = [b \in Ids |-> IF b > Legacy THEN {} ELSE kinds[b]]
        /\ rows = [b \in Ids |-> IF b > Legacy THEN NoRow
                                 ELSE [count |-> Cardinality(kinds[b]) + (IF complete[b] THEN 0 ELSE 1),
                                       first |-> 0]]
  BY DEF Init
<1>2. \A c \in Contents : c.events \in SUBSET Kinds /\ c.events # {} /\ c.triggers \in SUBSET Nat
  BY EvidenceAssumption
<1>3. \A b \in 1 .. Legacy : kinds[b] \in SUBSET Kinds /\ kinds[b] # {}
  BY <1>2
<1>4. \A b \in 1 .. Legacy : Cardinality(kinds[b]) \in Nat /\ Cardinality(kinds[b]) > 0
  BY <1>3, KindsFinite
<1>5. \A b \in Ids : b \in Nat /\ b >= 1 /\ (b > Legacy \/ b \in 1 .. Legacy)
  BY DEF Ids
<1>6. events \in [Ids -> SUBSET Kinds]
  BY <1>1, <1>3, <1>5
<1>7. ASSUME NEW b \in Ids
      PROVE  /\ rows[b] \in [count : Nat, first : Nat]
             /\ b > Legacy => rows[b] = NoRow /\ events[b] = {}
             /\ ~(b > Legacy) => rows[b].count > 0 /\ rows[b] # NoRow
  <2>1. CASE b > Legacy  BY <1>1, <2>1 DEF NoRow
  <2>2. CASE ~(b > Legacy)
    <3>1. b \in 1 .. Legacy  BY <1>5, <2>2
    <3> DEFINE n == Cardinality(kinds[b]) + (IF complete[b] THEN 0 ELSE 1)
    <3>2. n \in Nat /\ n > 0  BY <1>4, <3>1
    <3>3. rows[b] = [count |-> n, first |-> 0]  BY <1>1, <2>2
    <3> HIDE DEF n
    <3> QED BY <3>2, <3>3, <2>2 DEF NoRow
  <2> QED BY <2>1, <2>2
<1>8. rows \in [Ids -> [count : Nat, first : Nat]]
  <2>1. rows = [b \in Ids |-> rows[b]]  BY <1>1
  <2> QED BY <2>1, <1>7
<1>9. /\ links = [b \in Ids |-> {}] /\ ledger = <<>> /\ head = <<>>
      /\ boot = "down" /\ cursor = 0 /\ backfilled = FALSE
  BY DEF Init
<1>10. head \in Seq(Payloads) /\ Len(head) = 0 /\ 1 .. Len(head) = {} /\ ledger = LedgerOf(head)
  BY <1>9 DEF LedgerOf
<1>11. Shape
  <2>1. links \in [Ids -> SUBSET Nat]  BY <1>9
  <2>2. cursor \in 0 .. Cutoff  BY <1>9
  <2> QED BY <1>6, <1>8, <1>9, <1>10, <2>1, <2>2 DEF Shape
<1>12. InOrder /\ Faithful  BY <1>10 DEF InOrder, Faithful
<1>13. RowsFirst
  BY <1>7 DEF RowsFirst, NoRow
<1>14. Phases
  <2>1. \A b \in Ids : b > Legacy => rows[b] = NoRow  BY <1>7
  <2>2. \A b \in 1 .. Cutoff : ~(b <= cursor)  BY <1>9
  <2> QED BY <1>9, <1>10, <2>1, <2>2 DEF Phases
<1> QED BY <1>11, <1>12, <1>13, <1>14 DEF LedgerInv

\* What is stored of a batch makes a payload.
LEMMA CurrentIs ==
  ASSUME Shape, NEW b \in Ids
  PROVE  /\ CurrentPayload(b) \in Payloads /\ CurrentPayload(b).batch = b /\ b \in Nat
         /\ rows[b].count \in Nat /\ rows[b].first \in Nat /\ links[b] \in SUBSET Nat
         /\ events[b] \in SUBSET Kinds
<1>1. b \in Nat  BY Bounds DEF Ids
<1>2. rows[b] \in [count : Nat, first : Nat] /\ links[b] \in SUBSET Nat /\ events[b] \in SUBSET Kinds
  BY DEF Shape
<1>3. rows[b].count \in Nat /\ rows[b].first \in Nat  BY <1>2
<1>4. Payload(b, rows[b], links[b], events[b]) \in Payloads /\ Payload(b, rows[b], links[b], events[b]).batch = b
  <2>1. (IF links[b] = {} /\ rows[b].first > 0 THEN {rows[b].first} ELSE links[b]) \in SUBSET Nat  BY <1>2, <1>3
  <2> QED BY <1>1, <1>2, <1>3, <2>1 DEF Payload, Payloads
<1> QED BY <1>1, <1>2, <1>3, <1>4 DEF CurrentPayload

LEMMA BackfillChunkKeeps ==
  ASSUME LedgerInv, BackfillChunk
  PROVE  LedgerInv'
<1> USE Bounds
<1>1. /\ boot = "backfill" /\ ~backfilled /\ Backlog # {}
      /\ ledger' = Appended([b \in NextChunk |-> CurrentPayload(b)])
      /\ head' = LedgerHead(ledger', head) /\ cursor' = Max(NextChunk)
      /\ rows' = rows /\ events' = events /\ links' = links /\ boot' = boot /\ backfilled' = backfilled
  BY DEF BackfillChunk, Progress, LedgerInv, Phases
<1>2. Shape /\ InOrder /\ RowsFirst /\ Faithful /\ Phases  BY DEF LedgerInv
<1>3. head \in Seq(Payloads) /\ ledger = LedgerOf(head) /\ cursor \in 0 .. Cutoff  BY <1>2 DEF Shape
<1> DEFINE D == NextChunk
           f == [b \in D |-> CurrentPayload(b)]
<1>4. /\ D \in SUBSET (1 .. MaxBatch) /\ D \in SUBSET (1 .. Cutoff) /\ \A b \in D : Eligible(b) /\ cursor < b
      /\ \A b \in 1 .. Cutoff, c \in D : Eligible(b) /\ b > cursor /\ b <= c => b \in D
  <2>1. Backlog \in SUBSET (1 .. Cutoff) /\ \A b \in Backlog : Eligible(b) /\ cursor < b  BY <1>3 DEF Backlog
  <2>2. \A b \in D : b \in Backlog  BY DEF NextChunk
  <2>3. ASSUME NEW b \in 1 .. Cutoff, NEW c \in D, Eligible(b), b > cursor, b <= c PROVE b \in D
    <3> DEFINE Below(x) == {y \in Backlog : y < x}
    <3>1. b \in Backlog  BY <2>3, <1>3 DEF Backlog
    <3>2. IsFiniteSet(Backlog)
      <4>1. IsFiniteSet(1 .. Cutoff)  BY FS_Interval
      <4> QED BY <4>1, <2>1, FS_Subset
    <3>3. IsFiniteSet(Below(c)) /\ Cardinality(Below(c)) \in Nat  BY <3>2, FS_Subset, FS_CardinalityType
    <3>4. Below(b) \in SUBSET Below(c)
      <4>1. \A y \in Backlog : y \in Int  BY <2>1
      <4>2. c \in Int /\ b \in Int /\ b <= c  BY <2>2, <2>3, <4>1
      <4>3. \A y \in Backlog : y < b => y < c  BY <4>1, <4>2
      <4> QED BY <4>3
    <3>5. Cardinality(Below(b)) <= Cardinality(Below(c)) /\ Cardinality(Below(b)) \in Nat
      BY <3>3, <3>4, FS_Subset, FS_CardinalityType
    <3>6. Cardinality(Below(c)) < Chunk  BY DEF NextChunk
    <3>7. Cardinality(Below(b)) < Chunk  BY <3>3, <3>5, <3>6
    <3> QED BY <3>1, <3>7 DEF NextChunk
  <2>4. \A b \in 1 .. Cutoff : b \in 1 .. MaxBatch  OBVIOUS
  <2>5. \A b \in D : b \in 1 .. Cutoff /\ Eligible(b) /\ cursor < b  BY <2>1, <2>2
  <2> HIDE DEF D
  <2> QED BY <2>3, <2>4, <2>5
<1>5. D # {}
  <2>1. Backlog \in SUBSET Nat  BY <1>3 DEF Backlog
  <2>2. PICK b \in Backlog : \A c \in Backlog : b <= c  BY <1>1, <2>1, LeastExists
  <2>3. {c \in Backlog : c < b} = {}
    <3>1. \A c \in Backlog : c \in Int /\ b \in Int  BY <2>1
    <3>2. \A c \in Backlog : ~(c < b)  BY <2>2, <3>1
    <3> QED BY <3>2
  <2>4. Cardinality({c \in Backlog : c < b}) < Chunk  BY <2>3, FS_EmptySet
  <2> QED BY <2>4 DEF NextChunk
<1>6. Max(D) \in D /\ \A b \in D : b <= Max(D)
  <2>1. D \in SUBSET Nat /\ \A x \in D : x <= Cutoff  BY <1>4
  <2> HIDE DEF D
  <2> QED BY <1>5, <2>1, MaxIsGreatest
<1> HIDE DEF D
<1>7. \A b \in D : CurrentPayload(b) \in Payloads /\ CurrentPayload(b).batch = b
  <2> TAKE b \in D
  <2>1. b \in Ids  BY <1>4 DEF Ids
  <2> QED BY <1>2, <2>1, CurrentIs
<1>8. f \in [D -> Payloads] /\ (\A b \in D : f[b].batch = b) /\ \A b \in D : f[b] = CurrentPayload(b)
  BY <1>7
<1> HIDE DEF f
<1>8a. \A b \in D : b \in Nat /\ b <= Cutoff /\ b \in 1 .. Cutoff /\ b \in Ids /\ Eligible(b)
  <2>1. \A b \in 1 .. Cutoff : b \in Nat /\ b <= Cutoff /\ b \in 1 .. MaxBatch  OBVIOUS
  <2> QED BY <1>4, <2>1 DEF Ids
<1>9a. PICK h \in Seq(Payloads) : GrownTo(h, D, f)
  <2>1. MaxBatch \in Nat  OBVIOUS
  <2> QED BY <1>3, <1>4, <1>8, <2>1, Grown
<1>9. /\ Appended(f) = LedgerOf(h) /\ LedgerHead(Appended(f), head) = h
      /\ Len(head) <= Len(h) /\ Len(h) \in Nat /\ \A i \in 1 .. Len(head) : h[i] = head[i]
      /\ \A i \in Len(head) + 1 .. Len(h) :
           h[i].batch \in D /\ ~Has(head, h[i].batch) /\ h[i] = f[h[i].batch]
      /\ \A i, j \in Len(head) + 1 .. Len(h) : i < j => h[i].batch < h[j].batch
      /\ \A b \in D : Has(h, b)
      /\ \A b : Has(head, b) => Has(h, b)
  BY <1>9a DEF GrownTo
<1>10. ledger' = LedgerOf(h) /\ head' = h /\ cursor' = Max(D)
  <2>1. ledger' = Appended(f)  BY <1>1 DEF f, D
  <2> QED BY <1>1, <1>9, <2>1 DEF D
<1>11. Len(head) \in Nat /\ \A i \in 1 .. Len(h) : i \in Nat /\ (i \in 1 .. Len(head) \/ i \in Len(head) + 1 .. Len(h))
  BY <1>3, <1>9, LenProperties
<1>12. Shape'
  <2>1. cursor' \in 0 .. Cutoff  BY <1>6, <1>10, <1>8a
  <2> QED BY <1>1, <1>2, <1>10, <2>1 DEF Shape, Ids
<1>13. InOrder'
  <2>1. ASSUME NEW i \in 1 .. Len(h) PROVE h[i].batch \in Ids /\ h[i].batch <= Cutoff
    <3>1. CASE i \in 1 .. Len(head)
      BY <1>1, <1>2, <1>9, <3>1 DEF InOrder, Phases
    <3>2. CASE i \in Len(head) + 1 .. Len(h)
      <4>1. h[i].batch \in D  BY <1>9, <3>2
      <4> QED BY <1>8a, <4>1
    <3> QED BY <1>11, <3>1, <3>2
  <2>2. ASSUME NEW i \in 1 .. Len(h), NEW j \in 1 .. Len(h), i < j PROVE h[i].batch < h[j].batch
    <3>1. CASE j \in 1 .. Len(head)
      <4>1. i \in 1 .. Len(head)  BY <1>11, <2>2, <3>1
      <4> QED BY <1>2, <1>9, <2>2, <3>1, <4>1 DEF InOrder
    <3>2. CASE i \in Len(head) + 1 .. Len(h)
      <4>1. j \in Len(head) + 1 .. Len(h)  BY <1>11, <2>2, <3>2
      <4> QED BY <1>9, <2>2, <3>2, <4>1
    <3>3. CASE i \in 1 .. Len(head) /\ j \in Len(head) + 1 .. Len(h)
      <4>1. h[j].batch \in D /\ ~Has(head, h[j].batch)  BY <1>9, <3>3
      <4>2. ~(h[j].batch <= head[i].batch)  BY <1>1, <1>2, <1>4, <3>3, <4>1 DEF Phases
      <4>3. h[i] = head[i] /\ head[i].batch \in Ids  BY <1>2, <1>9, <3>3 DEF InOrder
      <4>4. h[j].batch \in Nat /\ head[i].batch \in Nat  BY <1>8a, <4>1, <4>3 DEF Ids
      <4> QED BY <4>2, <4>3, <4>4
    <3> QED BY <1>11, <3>1, <3>2, <3>3
  <2> QED BY <1>10, <2>1, <2>2 DEF InOrder
<1>14. RowsFirst'  BY <1>1, <1>2 DEF RowsFirst
<1>15. Faithful'
  <2>1. \A b : CurrentPayload(b)' = CurrentPayload(b)  BY <1>1 DEF CurrentPayload
  <2>2. ASSUME NEW i \in 1 .. Len(h), rows[h[i].batch] # NoRow
        PROVE  h[i] = CurrentPayload(h[i].batch) /\ Cardinality(events[h[i].batch]) = rows[h[i].batch].count
    <3>1. CASE i \in 1 .. Len(head)
      BY <1>2, <1>9, <2>2, <3>1 DEF Faithful
    <3>2. CASE i \in Len(head) + 1 .. Len(h)
      <4>1. h[i].batch \in D /\ h[i] = f[h[i].batch]  BY <1>9, <3>2
      <4> QED BY <1>4, <1>8, <4>1 DEF Eligible
    <3> QED BY <1>11, <3>1, <3>2
  <2> QED BY <1>1, <1>10, <2>1, <2>2 DEF Faithful
<1>16. Phases'
  <2>1. \A b : Eligible(b)' <=> Eligible(b)  BY <1>1 DEF Eligible
  <2>2. \A b \in Ids : b > Legacy /\ rows[b] # NoRow => Has(h, b)
    BY <1>2, <1>9 DEF Phases
  <2>3. \A i \in 1 .. Len(h) : h[i].batch <= Cutoff
    <3> TAKE i \in 1 .. Len(h)
    <3>1. CASE i \in 1 .. Len(head)
      BY <1>1, <1>2, <1>9, <3>1 DEF Phases
    <3>2. CASE i \in Len(head) + 1 .. Len(h)
      <4>1. h[i].batch \in D  BY <1>9, <3>2
      <4> QED BY <1>8a, <4>1
    <3> QED BY <1>11, <3>1, <3>2
  <2>4. ASSUME NEW b \in 1 .. Cutoff, Eligible(b), b <= Max(D) PROVE Has(h, b)
    <3>1. CASE b <= cursor  BY <1>1, <1>2, <1>9, <2>4, <3>1 DEF Phases
    <3>2. CASE b > cursor  BY <1>4, <1>6, <1>9, <2>4, <3>2
    <3> QED BY <1>3, <3>1, <3>2
  <2>5. ASSUME NEW b \in 1 .. Cutoff, Eligible(b), NEW i \in 1 .. Len(h), b <= h[i].batch PROVE Has(h, b)
    <3>1. CASE i \in 1 .. Len(head)
      BY <1>1, <1>2, <1>9, <2>5, <3>1 DEF Phases
    <3>2. CASE i \in Len(head) + 1 .. Len(h)
      <4>1. h[i].batch \in D /\ h[i].batch \in 1 .. Cutoff  BY <1>4, <1>9, <3>2
      <4>2. h[i].batch <= Max(D) /\ Max(D) \in 1 .. Cutoff  BY <1>4, <1>6, <4>1
      <4>3. b <= Max(D)  BY <2>5, <4>1, <4>2
      <4> QED BY <2>4, <2>5, <4>3
    <3> QED BY <1>11, <3>1, <3>2
  <2> QED BY <1>1, <1>10, <2>1, <2>2, <2>3, <2>4, <2>5 DEF Phases
<1> QED BY <1>12, <1>13, <1>14, <1>15, <1>16 DEF LedgerInv

LEMMA RecordBatchKeeps ==
  ASSUME LedgerInv, NEW c \in Contents, RecordBatch(c.events, c.triggers)
  PROVE  LedgerInv'
<1> USE Bounds
<1> DEFINE b == NextId
           es == c.events
           ts == c.triggers
           row == [count |-> Cardinality(es), first |-> FirstTrigger(ts)]
           f == [x \in {b} |-> Payload(x, row, ts, es)]
<1>1. /\ boot = "serving" /\ b <= MaxBatch
      /\ rows' = [rows EXCEPT ![b] = row] /\ events' = [events EXCEPT ![b] = es]
      /\ links' = [links EXCEPT ![b] = ts]
      /\ ledger' = Appended(f) /\ head' = LedgerHead(ledger', head)
      /\ boot' = boot /\ cursor' = cursor /\ backfilled' = backfilled
  BY DEF RecordBatch, bootvars
<1>2. Shape /\ InOrder /\ RowsFirst /\ Faithful /\ Phases  BY DEF LedgerInv
<1>3. head \in Seq(Payloads) /\ ledger = LedgerOf(head)  BY <1>2 DEF Shape
<1>4. es \in SUBSET Kinds /\ es # {} /\ ts \in SUBSET Nat
  BY EvidenceAssumption
<1>5. Cardinality(es) \in Nat /\ Cardinality(es) > 0  BY <1>4, KindsFinite
<1>6. FirstTrigger(ts) \in Nat  BY <1>4, MinIsLeast DEF FirstTrigger
<1>7. b \in Nat /\ b > Legacy /\ (\A i \in 1 .. Len(head) : head[i].batch < b) /\ b \in Ids /\ b \in 1 .. MaxBatch
  <2>1. b \in Nat /\ b > Legacy /\ \A i \in 1 .. Len(head) : head[i].batch < b  BY <1>2, <1>3, NextIdIs
  <2> QED BY <1>1, <2>1 DEF Ids
<1> HIDE DEF b, es, ts
<1>8. row \in [count : Nat, first : Nat] /\ row.count = Cardinality(es) /\ row.count > 0 /\ row # NoRow
  BY <1>5, <1>6 DEF NoRow
<1>9. Payload(b, row, ts, es) \in Payloads /\ Payload(b, row, ts, es).batch = b
  <2>1. row.count \in Nat /\ row.first \in Nat  BY <1>8
  <2> HIDE DEF row
  <2>2. (IF ts = {} /\ row.first > 0 THEN {row.first} ELSE ts) \in SUBSET Nat  BY <1>4, <2>1
  <2> QED BY <1>4, <1>7, <2>1, <2>2 DEF Payload, Payloads
<1> HIDE DEF row
<1>10. f \in [{b} -> Payloads] /\ (\A x \in {b} : f[x].batch = x) /\ f[b] = Payload(b, row, ts, es)
  BY <1>9
<1> HIDE DEF f
<1>11a. PICK h \in Seq(Payloads) : GrownTo(h, {b}, f)
  <2>1. MaxBatch \in Nat /\ {b} \in SUBSET (1 .. MaxBatch)  BY <1>7
  <2> QED BY <1>3, <1>10, <2>1, Grown
<1>11. /\ Appended(f) = LedgerOf(h) /\ LedgerHead(Appended(f), head) = h
       /\ Len(head) <= Len(h) /\ Len(h) \in Nat /\ \A i \in 1 .. Len(head) : h[i] = head[i]
       /\ \A i \in Len(head) + 1 .. Len(h) :
            h[i].batch \in {b} /\ ~Has(head, h[i].batch) /\ h[i] = f[h[i].batch]
       /\ \A i, j \in Len(head) + 1 .. Len(h) : i < j => h[i].batch < h[j].batch
       /\ \A x \in {b} : Has(h, x)
       /\ \A x : Has(head, x) => Has(h, x)
  BY <1>11a DEF GrownTo
<1>12. ledger' = LedgerOf(h) /\ head' = h  BY <1>1, <1>11
<1>13. Len(head) \in Nat /\ \A i \in 1 .. Len(h) : i \in Nat /\ (i \in 1 .. Len(head) \/ i \in Len(head) + 1 .. Len(h))
  BY <1>3, <1>11, LenProperties
<1>14. \A i \in Len(head) + 1 .. Len(h) : h[i].batch = b /\ h[i] = Payload(b, row, ts, es)
  BY <1>10, <1>11
<1>15. \A i \in 1 .. Len(head) : head[i].batch \in Ids /\ head[i].batch # b /\ head[i].batch \in Nat
  BY <1>2, <1>7 DEF InOrder, Ids
<1>16. /\ rows'[b] = row /\ events'[b] = es /\ links'[b] = ts
       /\ \A x \in Ids : x # b => rows'[x] = rows[x] /\ events'[x] = events[x] /\ links'[x] = links[x]
  BY <1>1, <1>2, <1>7 DEF Shape
<1>17. Shape'
  <2>1. rows' \in [Ids -> [count : Nat, first : Nat]]  BY <1>1, <1>2, <1>8 DEF Shape
  <2>2. events' \in [Ids -> SUBSET Kinds] /\ links' \in [Ids -> SUBSET Nat]  BY <1>1, <1>2, <1>4 DEF Shape
  <2> QED BY <1>1, <1>2, <1>12, <2>1, <2>2 DEF Shape, Ids
<1>18. InOrder'
  <2>1. ASSUME NEW i \in 1 .. Len(h) PROVE h[i].batch \in Ids /\ (h[i].batch <= Legacy => h[i].batch <= Cutoff)
    <3>1. CASE i \in 1 .. Len(head)
      BY <1>2, <1>11, <3>1 DEF InOrder
    <3>2. CASE i \in Len(head) + 1 .. Len(h)
      <4>1. ~(b <= Legacy)  BY <1>7
      <4> QED BY <1>7, <1>14, <3>2, <4>1
    <3> QED BY <1>13, <3>1, <3>2
  <2>2. ASSUME NEW i \in 1 .. Len(h), NEW j \in 1 .. Len(h), i < j PROVE h[i].batch < h[j].batch
    <3>1. CASE j \in 1 .. Len(head)
      <4>1. i \in 1 .. Len(head)  BY <1>13, <2>2, <3>1
      <4> QED BY <1>2, <1>11, <2>2, <3>1, <4>1 DEF InOrder
    <3>2. CASE i \in Len(head) + 1 .. Len(h)
      <4>1. j \in Len(head) + 1 .. Len(h)  BY <1>13, <2>2, <3>2
      <4> QED BY <1>11, <2>2, <3>2, <4>1
    <3>3. CASE i \in 1 .. Len(head) /\ j \in Len(head) + 1 .. Len(h)
      BY <1>7, <1>11, <1>14, <3>3
    <3> QED BY <1>13, <3>1, <3>2, <3>3
  <2> QED BY <1>12, <2>1, <2>2 DEF InOrder
<1>19. RowsFirst'
  <2>1. ASSUME NEW x \in Ids PROVE (rows'[x] # NoRow => rows'[x].count > 0) /\ (events'[x] # {} => rows'[x] # NoRow)
    <3>1. CASE x = b  BY <1>8, <1>16, <3>1
    <3>2. CASE x # b  BY <1>2, <1>16, <3>2 DEF RowsFirst
    <3> QED BY <3>1, <3>2
  <2> QED BY <2>1 DEF RowsFirst, Ids, NoRow
<1>20. Faithful'
  <2>1. \A x \in Ids : CurrentPayload(x)' = IF x = b THEN Payload(b, row, ts, es) ELSE CurrentPayload(x)
    BY <1>16 DEF CurrentPayload
  <2>2. ASSUME NEW i \in 1 .. Len(h), rows'[h[i].batch] # NoRow
        PROVE  h[i] = CurrentPayload(h[i].batch)' /\ Cardinality(events'[h[i].batch]) = rows'[h[i].batch].count
    <3>1. CASE i \in 1 .. Len(head)
      <4>1. h[i] = head[i] /\ head[i].batch \in Ids /\ head[i].batch # b  BY <1>11, <1>15, <3>1
      <4>2. rows[head[i].batch] # NoRow  BY <1>16, <2>2, <4>1
      <4>3. head[i] = CurrentPayload(head[i].batch)
            /\ Cardinality(events[head[i].batch]) = rows[head[i].batch].count
        BY <1>2, <3>1, <4>2 DEF Faithful
      <4> QED BY <1>16, <2>1, <4>1, <4>3
    <3>2. CASE i \in Len(head) + 1 .. Len(h)
      BY <1>7, <1>8, <1>14, <1>16, <2>1, <3>2
    <3> QED BY <1>13, <3>1, <3>2
  <2> QED BY <1>12, <2>2 DEF Faithful, NoRow
<1>21. Phases'
  <2>1. backfilled /\ backfilled'  BY <1>1, <1>2 DEF Phases
  <2>2. \A x \in 1 .. Cutoff : x \in Ids /\ x # b  BY <1>7 DEF Ids
  <2>3. \A x \in 1 .. Cutoff : Eligible(x)' <=> Eligible(x)  BY <1>16, <2>2 DEF Eligible
  <2>4. \A x \in Ids : x > Legacy /\ rows'[x] # NoRow => Has(h, x)
    BY <1>2, <1>11, <1>16 DEF Phases
  <2>5. \A x \in 1 .. Cutoff : Eligible(x)' => Has(h, x)
    BY <1>2, <1>11, <2>1, <2>3 DEF Phases
  <2>6. boot' = "serving"  BY <1>1
  <2> QED BY <1>12, <2>1, <2>4, <2>5, <2>6 DEF Phases, Ids, NoRow
<1> QED BY <1>17, <1>18, <1>19, <1>20, <1>21 DEF LedgerInv

\* What retention does: batches go with their events, the rest stays.
Removes ==
  /\ head' = head /\ ledger' = ledger
  /\ rows' \in [Ids -> [count : Nat, first : Nat]] /\ events' \in [Ids -> SUBSET Kinds]
  /\ links' \in [Ids -> SUBSET Nat]
  /\ \A b \in Ids : IF rows'[b] = NoRow THEN events'[b] = {}
                    ELSE rows'[b] = rows[b] /\ events'[b] = events[b] /\ links'[b] = links[b]

LEMMA RemovesKeeps ==
  ASSUME LedgerInv, Removes, boot' = boot, cursor' = cursor, backfilled' = backfilled
  PROVE  LedgerInv'
<1>1. Shape /\ InOrder /\ RowsFirst /\ Faithful /\ Phases  BY DEF LedgerInv
<1>2. \A b \in Ids : rows'[b] # NoRow => rows'[b] = rows[b] /\ events'[b] = events[b] /\ links'[b] = links[b]
  BY DEF Removes
<1>3. Shape'  BY <1>1 DEF Shape, Removes, Ids
<1>4. InOrder'  BY <1>1 DEF InOrder, Removes
<1>5. RowsFirst'
  <2>1. ASSUME NEW b \in Ids PROVE (rows'[b] # NoRow => rows'[b].count > 0) /\ (events'[b] # {} => rows'[b] # NoRow)
    BY <1>1, <1>2 DEF RowsFirst, Removes
  <2> QED BY <2>1 DEF RowsFirst, Ids, NoRow
<1>6. Faithful'
  <2>1. ASSUME NEW i \in 1 .. Len(head), rows'[head[i].batch] # NoRow
        PROVE  head[i] = CurrentPayload(head[i].batch)' /\ Cardinality(events'[head[i].batch]) = rows'[head[i].batch].count
    <3> DEFINE b == head[i].batch
    <3>1. b \in Ids  BY <1>1 DEF InOrder
    <3>2. rows'[b] = rows[b] /\ events'[b] = events[b] /\ links'[b] = links[b]  BY <1>2, <2>1, <3>1
    <3>3. head[i] = CurrentPayload(b) /\ Cardinality(events[b]) = rows[b].count
      BY <1>1, <2>1, <3>2 DEF Faithful
    <3>4. CurrentPayload(b)' = CurrentPayload(b)
      <4>1. head' = head  BY DEF Removes
      <4> QED BY <3>2, <4>1 DEF CurrentPayload
    <3>5. head' = head  BY DEF Removes
    <3> QED BY <3>2, <3>3, <3>4, <3>5
  <2>2. head' = head  BY DEF Removes
  <2> QED BY <2>1, <2>2 DEF Faithful, NoRow
<1>7. Phases'
  <2>1. \A b \in 1 .. Cutoff : b \in Ids  BY Bounds DEF Ids
  <2>2. \A b \in 1 .. Cutoff : Eligible(b)' => Eligible(b)
    <3> TAKE b \in 1 .. Cutoff
    <3>1. Eligible(b)' => rows'[b] # NoRow  BY DEF Eligible, NoRow
    <3> QED BY <1>2, <2>1, <3>1 DEF Eligible
  <2>3. \A b \in Ids : b > Legacy /\ rows'[b] # NoRow => Has(head, b)
    BY <1>1, <1>2 DEF Phases
  <2>4. head' = head  BY DEF Removes
  <2>5. ~backfilled =>
       /\ \A i \in 1 .. Len(head) : head[i].batch <= Cutoff
       /\ \A b \in 1 .. Cutoff : Eligible(b)' =>
            /\ b <= cursor => Has(head, b)
            /\ \A i \in 1 .. Len(head) : b <= head[i].batch => Has(head, b)
    BY <1>1, <2>2 DEF Phases
  <2>6. boot = "mark" \/ backfilled => \A b \in 1 .. Cutoff : Eligible(b)' => Has(head, b)
    BY <1>1, <2>2 DEF Phases
  <2>7. (boot = "serving" => backfilled) /\ (boot \in {"backfill", "mark"} => ~backfilled)
    BY <1>1 DEF Phases
  <2> QED BY <2>3, <2>4, <2>5, <2>6, <2>7 DEF Phases, Ids, NoRow
<1> QED BY <1>3, <1>4, <1>5, <1>6, <1>7 DEF LedgerInv

LEMMA StutterRemoves ==
  ASSUME LedgerInv, UNCHANGED dbvars
  PROVE  Removes
<1>1. Shape /\ RowsFirst  BY DEF LedgerInv
<1>2. rows' = rows /\ events' = events /\ links' = links /\ ledger' = ledger /\ head' = head
  BY DEF dbvars
<1> QED BY <1>1, <1>2 DEF Removes, Shape, RowsFirst

LEMMA DeleteExpiredRemoves ==
  ASSUME LedgerInv, DeleteExpiredBatches
  PROVE  Removes
<1>1. Shape /\ RowsFirst  BY DEF LedgerInv
<1>2. PICK b \in Stored :
        /\ rows' = [c \in Ids |-> IF c \in Expiring(b) THEN NoRow ELSE rows[c]]
        /\ events' = [c \in Ids |-> IF c \in Expiring(b) THEN {} ELSE events[c]]
  BY DEF DeleteExpiredBatches
<1>3. links' = links /\ ledger' = ledger /\ head' = head  BY DEF DeleteExpiredBatches
<1>4. NoRow \in [count : Nat, first : Nat]  BY DEF NoRow
<1>5. rows' \in [Ids -> [count : Nat, first : Nat]]  BY <1>1, <1>2, <1>4 DEF Shape
<1>6. events' \in [Ids -> SUBSET Kinds]  BY <1>1, <1>2 DEF Shape
<1>7. ASSUME NEW c \in Ids
      PROVE  IF rows'[c] = NoRow THEN events'[c] = {}
             ELSE rows'[c] = rows[c] /\ events'[c] = events[c] /\ links'[c] = links[c]
  BY <1>1, <1>2, <1>3 DEF RowsFirst
<1> QED BY <1>1, <1>3, <1>5, <1>6, <1>7 DEF Removes, Shape

LEMMA DeleteLinksRemoves ==
  ASSUME LedgerInv, DeleteTriggerLinks
  PROVE  Removes
<1>1. Shape /\ RowsFirst  BY DEF LedgerInv
<1> DEFINE loose == {b \in Ids : links[b] # {} /\ rows[b] = NoRow}
<1>2. /\ loose # {} /\ links' = [links EXCEPT ![Min(loose)] = {}]
      /\ rows' = rows /\ events' = events /\ ledger' = ledger /\ head' = head
  BY DEF DeleteTriggerLinks
<1>3. Min(loose) \in loose
  <2>1. loose \in SUBSET Nat  BY Bounds DEF Ids
  <2> HIDE DEF loose
  <2> QED BY <1>2, <2>1, MinIsLeast
<1>4. links' \in [Ids -> SUBSET Nat]  BY <1>1, <1>2, <1>3 DEF Shape
<1>5. ASSUME NEW c \in Ids
      PROVE  IF rows'[c] = NoRow THEN events'[c] = {}
             ELSE rows'[c] = rows[c] /\ events'[c] = events[c] /\ links'[c] = links[c]
  <2>1. rows[c] # NoRow => c # Min(loose)  BY <1>3
  <2> HIDE DEF loose
  <2> QED BY <1>1, <1>2, <2>1 DEF RowsFirst, Shape
<1> QED BY <1>1, <1>2, <1>4, <1>5 DEF Removes, Shape

LEMMA BootKeeps ==
  ASSUME LedgerInv, Start \/ BackfillClear \/ BackfillMark \/ Crash
  PROVE  LedgerInv'
<1>1. UNCHANGED dbvars  BY DEF Start, BackfillClear, BackfillMark, Crash
<1>2. Shape /\ InOrder /\ RowsFirst /\ Faithful /\ Phases  BY DEF LedgerInv
<1>3. rows' = rows /\ events' = events /\ links' = links /\ ledger' = ledger /\ head' = head
  BY <1>1 DEF dbvars
<1>4. InOrder' /\ RowsFirst' /\ Faithful'
  BY <1>2, <1>3 DEF InOrder, RowsFirst, Faithful, CurrentPayload
<1>5. \A b : Eligible(b)' <=> Eligible(b)  BY <1>3 DEF Eligible
<1> DEFINE Done == \A b \in 1 .. Cutoff : Eligible(b) => Has(head, b)
           Passed == /\ \A i \in 1 .. Len(head) : head[i].batch <= Cutoff
                     /\ \A b \in 1 .. Cutoff : Eligible(b) =>
                          /\ b <= cursor => Has(head, b)
                          /\ \A i \in 1 .. Len(head) : b <= head[i].batch => Has(head, b)
           Live == \A b \in Ids : b > Legacy /\ rows[b] # NoRow => Has(head, b)
<1>6. /\ Live /\ (boot = "serving" => backfilled) /\ (boot \in {"backfill", "mark"} => ~backfilled)
      /\ (~backfilled => Passed) /\ (boot = "mark" \/ backfilled => Done)
  BY <1>2 DEF Phases
<1>7. cursor \in 0 .. Cutoff /\ backfilled \in BOOLEAN /\ boot \in {"down", "backfill", "mark", "serving"}
  BY <1>2 DEF Shape
<1>8. SUFFICES /\ cursor' \in 0 .. Cutoff /\ backfilled' \in BOOLEAN
               /\ boot' \in {"down", "backfill", "mark", "serving"}
               /\ Live' /\ (boot' = "serving" => backfilled') /\ (boot' \in {"backfill", "mark"} => ~backfilled')
               /\ (~backfilled' => Passed') /\ (boot' = "mark" \/ backfilled' => Done')
  <2>1. Shape'  BY <1>2, <1>3, <1>8 DEF Shape, Ids
  <2>2. Phases'  BY <1>8 DEF Phases
  <2> QED BY <1>4, <2>1, <2>2 DEF LedgerInv
<1>9. Live' /\ (Done' <=> Done)  BY <1>3, <1>5, <1>6
<1>10. cursor' = cursor => (Passed' <=> Passed)  BY <1>3, <1>5
<1> HIDE DEF Done, Passed, Live
<1>11. CASE Start
  <2>1. boot' = (IF backfilled THEN "serving" ELSE IF Cutoff = 0 THEN "mark" ELSE "backfill")
        /\ cursor' = cursor /\ backfilled' = backfilled
    BY <1>11 DEF Start
  <2>2. Cutoff = 0 => Done  BY DEF Done
  <2> QED BY <1>6, <1>7, <1>9, <1>10, <2>1, <2>2
<1>12. CASE BackfillClear
  <2>1. boot = "backfill" /\ Backlog = {} /\ cursor' = 0 /\ boot' = "mark" /\ backfilled' = backfilled
    BY <1>12 DEF BackfillClear
  <2>2. ~backfilled /\ Passed  BY <1>6, <2>1
  <2>3. Done
    <3>1. ASSUME NEW b \in 1 .. Cutoff, Eligible(b) PROVE Has(head, b)
      <4>1. b <= cursor \/ b \in cursor + 1 .. Cutoff  BY <1>7
      <4>2. b <= cursor  BY <2>1, <3>1, <4>1 DEF Backlog
      <4> QED BY <2>2, <3>1, <4>2 DEF Passed
    <3> QED BY <3>1 DEF Done
  <2>4. Passed'
    <3>1. \A b \in 1 .. Cutoff : ~(b <= 0)  OBVIOUS
    <3>2. /\ \A i \in 1 .. Len(head) : head[i].batch <= Cutoff
          /\ \A b \in 1 .. Cutoff : Eligible(b) =>
               \A i \in 1 .. Len(head) : b <= head[i].batch => Has(head, b)
      BY <2>2 DEF Passed
    <3> QED BY <1>3, <1>5, <2>1, <3>1, <3>2 DEF Passed
  <2>5. 0 \in 0 .. Cutoff  BY Bounds
  <2> QED BY <1>7, <1>9, <2>1, <2>2, <2>3, <2>4, <2>5
<1>13. CASE BackfillMark
  <2>1. boot = "mark" /\ backfilled' = TRUE /\ boot' = "serving" /\ cursor' = cursor
    BY <1>13 DEF BackfillMark
  <2> QED BY <1>6, <1>7, <1>9, <1>10, <2>1
<1>14. CASE Crash
  <2>1. boot' = "down" /\ backfilled' = backfilled /\ cursor' = cursor
    BY <1>14 DEF Crash
  <2> QED BY <1>6, <1>7, <1>9, <1>10, <2>1
<1> QED BY <1>11, <1>12, <1>13, <1>14

\* The steps of a reader, and of the operator: none writes the database.
Reading == Read \/ Abandon \/ Audit \/ \E f \in Filters : Export(f)

LEMMA ReadingReads ==
  ASSUME Reading
  PROVE  UNCHANGED dbvars /\ UNCHANGED bootvars
<1>1. CASE Read
  BY <1>1 DEF Read, ReadBatch, ReadRow, ReadLinks, ReadEvents, ReadPage, Pack, Deliver,
              AuditEntries, AuditEntry, AuditEnd
<1>2. CASE Abandon  BY <1>2 DEF Abandon
<1>3. CASE Audit  BY <1>3 DEF Audit
<1>4. CASE \E f \in Filters : Export(f)  BY <1>4 DEF Export
<1> QED BY <1>1, <1>2, <1>3, <1>4 DEF Reading

LEMMA LedgerNext == LedgerInv /\ [Next]_vars => LedgerInv'
<1> SUFFICES ASSUME LedgerInv, [Next]_vars PROVE LedgerInv'  OBVIOUS
<1>1. CASE Start \/ BackfillClear \/ BackfillMark \/ Crash  BY <1>1, BootKeeps
<1>2. CASE BackfillChunk  BY <1>2, BackfillChunkKeeps
<1>3. ASSUME NEW c \in Contents, RecordBatch(c.events, c.triggers) PROVE LedgerInv'
  BY <1>3, RecordBatchKeeps
<1>4. CASE DeleteExpiredBatches \/ DeleteTriggerLinks
  <2>1. Removes  BY <1>4, DeleteExpiredRemoves, DeleteLinksRemoves
  <2>2. boot' = boot /\ cursor' = cursor /\ backfilled' = backfilled
    BY <1>4 DEF DeleteExpiredBatches, DeleteTriggerLinks, bootvars
  <2> QED BY <2>1, <2>2, RemovesKeeps
<1>5. CASE Reading
  <2>1. Removes  BY <1>5, ReadingReads, StutterRemoves
  <2>2. boot' = boot /\ cursor' = cursor /\ backfilled' = backfilled
    BY <1>5, ReadingReads DEF bootvars
  <2> QED BY <2>1, <2>2, RemovesKeeps
<1>6. CASE UNCHANGED vars
  <2>1. Removes  BY <1>6, StutterRemoves DEF vars
  <2>2. boot' = boot /\ cursor' = cursor /\ backfilled' = backfilled
    BY <1>6 DEF vars, bootvars
  <2> QED BY <2>1, <2>2, RemovesKeeps
<1> QED BY <1>1, <1>2, <1>3, <1>4, <1>5, <1>6 DEF Next, Backfill, Reading

LEMMA LedgerInvariant == Spec => []LedgerInv
<1> QED BY LedgerInit, LedgerNext, PTL DEF Spec

LEMMA LedgerInvImplies == LedgerInv => EntryIffAuthorised
<1> SUFFICES ASSUME LedgerInv PROVE EntryIffAuthorised  OBVIOUS
<1>1. Shape /\ InOrder /\ Faithful /\ RowsFirst /\ Phases  BY DEF LedgerInv
<1>2. head \in Seq(Payloads) /\ ledger = LedgerOf(head)  BY <1>1 DEF Shape
<1>3. Len(ledger) = Len(head) /\ Len(head) \in Nat
      /\ \A i \in 1 .. Len(head) : ledger[i].batch = head[i].batch /\ Chained(i)
  BY <1>2, LedgerFacts
<1>4. ASSUME NEW i \in 2 .. Len(ledger) PROVE ledger[i].batch > ledger[i - 1].batch /\ Chained(i)
  <2>1. i \in 1 .. Len(head) /\ i - 1 \in 1 .. Len(head) /\ i - 1 < i  BY <1>3
  <2>2. head[i - 1].batch < head[i].batch  BY <1>1, <2>1 DEF InOrder
  <2> QED BY <1>3, <2>1, <2>2
<1>5. ASSUME boot = "serving", NEW b \in Stored
      PROVE  Sequence(b) > 0 <=> b > Legacy \/ (b <= Cutoff /\ Eligible(b))
  <2>1. b \in Ids /\ b \in Nat /\ b >= 1 /\ rows[b] # NoRow  BY Bounds DEF Stored, Ids
  <2>2. Sequence(b) > 0 <=> Has(head, b)  BY <1>2, SequenceIs
  <2>3. ASSUME Has(head, b), ~(b > Legacy) PROVE b <= Cutoff /\ Eligible(b)
    <3>1. PICK i \in 1 .. Len(head) : head[i].batch = b  BY <2>3 DEF Has
    <3>2. b <= Legacy  BY <2>1, <2>3, Bounds
    <3>3. b <= Cutoff  BY <1>1, <3>1, <3>2 DEF InOrder
    <3>4. Cardinality(events[b]) = rows[b].count  BY <1>1, <2>1, <3>1 DEF Faithful
    <3>5. rows[b].count > 0  BY <1>1, <2>1 DEF RowsFirst
    <3> QED BY <3>3, <3>4, <3>5 DEF Eligible
  <2>4. b > Legacy => Has(head, b)  BY <1>1, <2>1 DEF Phases
  <2>5. b <= Cutoff /\ Eligible(b) => Has(head, b)
    <3>1. backfilled  BY <1>1, <1>5 DEF Phases
    <3>2. b <= Cutoff => b \in 1 .. Cutoff  BY <2>1, Bounds
    <3> QED BY <1>1, <3>1, <3>2 DEF Phases
  <2> QED BY <2>2, <2>3, <2>4, <2>5
<1> QED BY <1>4, <1>5 DEF EntryIffAuthorised

(* Whatever the boundary, the chunks and the crashes between them, and     *)
(* however many batches are recorded and removed after: the ledger has one *)
(* entry per batch in the order of batches, each chained to the one before *)
(* (appendEvidenceLedgerTx), and while the service serves the stored       *)
(* batches with an entry are the recorded ones and the complete ones the   *)
(* migration authorised (backfillEvidenceLedgerUpTo).                      *)
THEOREM LedgerIsAuthorised == Spec => []EntryIffAuthorised
<1> QED BY LedgerInvariant, LedgerInvImplies, PTL

-----------------------------------------------------------------------------
(* What a reader may rely on while the database goes on: entries stay, and  *)
(* a batch that was there and still is has not changed.                     *)

Evolves ==
  /\ Len(head) <= Len(head') /\ \A i \in 1 .. Len(head) : head'[i] = head[i] /\ ledger'[i] = ledger[i]
  /\ NextId <= NextId'
  /\ \A b \in Ids : b < NextId /\ rows'[b] # NoRow =>
       rows'[b] = rows[b] /\ events'[b] = events[b] /\ links'[b] = links[b]
  /\ boot = "serving" => \A b \in Ids : b < NextId /\ Has(head', b) => Has(head, b)

\* The ledger of a longer history starts with that of the history.
LEMMA LongerLedger ==
  ASSUME NEW X, NEW g \in Seq(X), NEW h \in Seq(X), Len(g) <= Len(h), \A i \in 1 .. Len(g) : h[i] = g[i]
  PROVE  \A i \in 1 .. Len(g) : LedgerOf(h)[i] = LedgerOf(g)[i]
<1>1. Len(g) \in Nat /\ Len(h) \in Nat  BY LenProperties
<1>2. ASSUME NEW n \in 0 .. Len(g) PROVE SubSeq(h, 1, n) = SubSeq(g, 1, n)
  <2>1. \A i \in 1 .. n : g[i] \in X /\ h[i] \in X /\ h[i] = g[i]  BY <1>1, ElementOfSeq
  <2>2. SubSeq(g, 1, n) \in Seq(X) /\ SubSeq(h, 1, n) \in Seq(X)  BY <2>1, SubSeqProperties
  <2>3. /\ Len(SubSeq(g, 1, n)) = IF 1 <= n THEN n - 1 + 1 ELSE 0
        /\ \A i \in 1 .. n - 1 + 1 : SubSeq(g, 1, n)[i] = g[1 + i - 1]
    BY <2>1, SubSeqProperties
  <2>4. /\ Len(SubSeq(h, 1, n)) = IF 1 <= n THEN n - 1 + 1 ELSE 0
        /\ \A i \in 1 .. n - 1 + 1 : SubSeq(h, 1, n)[i] = h[1 + i - 1]
    BY <2>1, SubSeqProperties
  <2>5. /\ Len(SubSeq(g, 1, n)) = n /\ Len(SubSeq(h, 1, n)) = n
        /\ \A i \in 1 .. n : SubSeq(g, 1, n)[i] = g[i] /\ SubSeq(h, 1, n)[i] = h[i]
    BY <2>3, <2>4
  <2> QED BY <2>1, <2>2, <2>5, SeqEqual
<1>3. ASSUME NEW i \in 1 .. Len(g) PROVE LedgerOf(h)[i] = LedgerOf(g)[i]
  <2>1. i \in 0 .. Len(g) /\ i - 1 \in 0 .. Len(g) /\ i \in 1 .. Len(h)  BY <1>1
  <2>2. SubSeq(h, 1, i) = SubSeq(g, 1, i) /\ SubSeq(h, 1, i - 1) = SubSeq(g, 1, i - 1)  BY <1>2, <2>1
  <2> QED BY <2>1, <2>2 DEF LedgerOf, EntryOf
<1> QED BY <1>3

\* A history that grows takes the next batch id up.
LEMMA NextGrows ==
  ASSUME LedgerInv, LedgerInv', \A b : Has(head, b) => Has(head', b)
  PROVE  NextId <= NextId'
<1>1. head \in Seq(Payloads) /\ ledger = LedgerOf(head) /\ InOrder  BY DEF LedgerInv, Shape
<1>2. head' \in Seq(Payloads) /\ ledger' = LedgerOf(head') /\ \A i \in 1 .. Len(head') : head'[i].batch \in Ids
  BY DEF LedgerInv, Shape, InOrder, Ids
<1>3. NextId \in Nat /\ NextId > Legacy /\ (NextId = Legacy + 1 \/ Has(head, NextId - 1))
  BY <1>1, NextIdIs
<1>4. NextId' = 1 + Max({Legacy} \cup {ledger'[i].batch : i \in DOMAIN ledger'})  BY DEF NextId
<1>5. NextId' \in Nat /\ NextId' > Legacy /\ \A i \in 1 .. Len(head') : head'[i].batch < NextId'
  <2> DEFINE h == head'
             l == ledger'
             n == NextId'
  <2>1. h \in Seq(Payloads) /\ l = LedgerOf(h) /\ (\A i \in 1 .. Len(h) : h[i].batch \in Ids)
        /\ n = 1 + Max({Legacy} \cup {l[i].batch : i \in DOMAIN l})
    BY <1>2, <1>4
  <2> HIDE DEF h, l, n
  <2>2. n \in Nat /\ n > Legacy /\ \A i \in 1 .. Len(h) : h[i].batch < n  BY <2>1, NextOfLedger
  <2> QED BY <2>2 DEF h, n
<1>6. CASE NextId = Legacy + 1  BY <1>3, <1>5, <1>6, Bounds
<1>7. CASE Has(head, NextId - 1)
  <2>1. NextId - 1 < NextId'  BY <1>5, <1>7 DEF Has
  <2> QED BY <1>3, <1>5, <2>1
<1> QED BY <1>3, <1>6, <1>7

LEMMA RemovesEvolves ==
  ASSUME LedgerInv, Removes
  PROVE  Evolves
<1>1. head' = head /\ ledger' = ledger  BY DEF Removes
<1>2. NextId' = NextId  BY <1>1 DEF NextId
<1>3. head \in Seq(Payloads) /\ ledger = LedgerOf(head) /\ InOrder  BY DEF LedgerInv, Shape
<1>4. NextId \in Nat /\ Len(head) \in Nat  BY <1>3, NextIdIs, LenProperties
<1>5. \A b \in Ids : rows'[b] # NoRow => rows'[b] = rows[b] /\ events'[b] = events[b] /\ links'[b] = links[b]
  BY DEF Removes
<1> QED BY <1>1, <1>2, <1>4, <1>5 DEF Evolves

LEMMA BackfillEvolves ==
  ASSUME LedgerInv, BackfillChunk, LedgerInv'
  PROVE  Evolves
<1> USE Bounds
<1>1. /\ boot = "backfill" /\ rows' = rows /\ events' = events /\ links' = links
      /\ ledger' = Appended([b \in NextChunk |-> CurrentPayload(b)]) /\ head' = LedgerHead(ledger', head)
  BY DEF BackfillChunk
<1>2. Shape /\ head \in Seq(Payloads) /\ ledger = LedgerOf(head) /\ cursor \in 0 .. Cutoff  BY DEF LedgerInv, Shape
<1> DEFINE D == NextChunk
           f == [b \in D |-> CurrentPayload(b)]
<1>3. D \in SUBSET (1 .. MaxBatch)
  <2>1. \A b \in D : b \in cursor + 1 .. Cutoff  BY DEF NextChunk, Backlog
  <2>2. \A b \in cursor + 1 .. Cutoff : b \in 1 .. MaxBatch  BY <1>2
  <2> QED BY <2>1, <2>2
<1> HIDE DEF D
<1>4. \A b \in D : CurrentPayload(b) \in Payloads /\ CurrentPayload(b).batch = b  BY <1>2, <1>3, CurrentIs DEF Ids
<1>5. f \in [D -> Payloads] /\ \A b \in D : f[b].batch = b  BY <1>4
<1>6. ledger' = Appended(f)  BY <1>1 DEF D
<1> HIDE DEF f
<1>7a. PICK h \in Seq(Payloads) : GrownTo(h, D, f)
  <2>1. MaxBatch \in Nat  OBVIOUS
  <2> QED BY <1>2, <1>3, <1>5, <2>1, Grown
<1>7. /\ Appended(f) = LedgerOf(h) /\ LedgerHead(Appended(f), head) = h
      /\ Len(head) <= Len(h) /\ Len(h) \in Nat /\ \A i \in 1 .. Len(head) : h[i] = head[i]
      /\ \A i \in Len(head) + 1 .. Len(h) :
           h[i].batch \in D /\ ~Has(head, h[i].batch) /\ h[i] = f[h[i].batch]
      /\ \A i, j \in Len(head) + 1 .. Len(h) : i < j => h[i].batch < h[j].batch
      /\ \A b \in D : Has(h, b)
      /\ \A b : Has(head, b) => Has(h, b)
  BY <1>7a DEF GrownTo
<1>8. ledger' = LedgerOf(h) /\ head' = h  BY <1>1, <1>6, <1>7
<1>9. \A i \in 1 .. Len(head) : ledger'[i] = ledger[i]
  <2>1. \A i \in 1 .. Len(head) : LedgerOf(h)[i] = LedgerOf(head)[i]  BY <1>2, <1>7, LongerLedger
  <2> QED BY <1>2, <1>8, <2>1
<1>10. NextId <= NextId'
  <2>1. \A b : Has(head, b) => Has(head', b)  BY <1>7, <1>8
  <2> QED BY <2>1, NextGrows
<1> QED BY <1>1, <1>7, <1>8, <1>9, <1>10 DEF Evolves

LEMMA RecordEvolves ==
  ASSUME LedgerInv, NEW c \in Contents, RecordBatch(c.events, c.triggers), LedgerInv'
  PROVE  Evolves
<1> USE Bounds
<1> DEFINE b == NextId
           es == c.events
           ts == c.triggers
           row == [count |-> Cardinality(es), first |-> FirstTrigger(ts)]
           f == [x \in {b} |-> Payload(x, row, ts, es)]
<1>1. /\ b <= MaxBatch
      /\ rows' = [rows EXCEPT ![b] = row] /\ events' = [events EXCEPT ![b] = es]
      /\ links' = [links EXCEPT ![b] = ts]
      /\ ledger' = Appended(f) /\ head' = LedgerHead(ledger', head)
  BY DEF RecordBatch
<1>2. Shape /\ head \in Seq(Payloads) /\ ledger = LedgerOf(head) /\ InOrder  BY DEF LedgerInv, Shape
<1>3. es \in SUBSET Kinds /\ ts \in SUBSET Nat
  BY EvidenceAssumption
<1>4. Cardinality(es) \in Nat /\ FirstTrigger(ts) \in Nat
  BY <1>3, KindsFinite, MinIsLeast DEF FirstTrigger
<1>5. b \in Nat /\ b \in 1 .. MaxBatch
  <2>1. b \in Nat /\ b > Legacy  BY <1>2, NextIdIs
  <2> QED BY <1>1, <2>1
<1>6. rows'[b] = row /\ \A x \in Ids : x # b => rows'[x] = rows[x] /\ events'[x] = events[x] /\ links'[x] = links[x]
  BY <1>1, <1>2, <1>5 DEF Shape, Ids
<1> HIDE DEF b, es, ts
<1>7. row.count \in Nat /\ row.first \in Nat  BY <1>4
<1> HIDE DEF row
<1>8. Payload(b, row, ts, es) \in Payloads /\ Payload(b, row, ts, es).batch = b
  <2>1. (IF ts = {} /\ row.first > 0 THEN {row.first} ELSE ts) \in SUBSET Nat  BY <1>3, <1>7
  <2> QED BY <1>3, <1>5, <1>7, <2>1 DEF Payload, Payloads
<1>9. f \in [{b} -> Payloads] /\ \A x \in {b} : f[x].batch = x  BY <1>8
<1> HIDE DEF f
<1>10a. PICK h \in Seq(Payloads) : GrownTo(h, {b}, f)
  <2>1. MaxBatch \in Nat /\ {b} \in SUBSET (1 .. MaxBatch)  BY <1>5
  <2> QED BY <1>2, <1>9, <2>1, Grown
<1>10. /\ Appended(f) = LedgerOf(h) /\ LedgerHead(Appended(f), head) = h
       /\ Len(head) <= Len(h) /\ Len(h) \in Nat /\ \A i \in 1 .. Len(head) : h[i] = head[i]
       /\ \A i \in Len(head) + 1 .. Len(h) :
            h[i].batch \in {b} /\ ~Has(head, h[i].batch) /\ h[i] = f[h[i].batch]
       /\ \A i, j \in Len(head) + 1 .. Len(h) : i < j => h[i].batch < h[j].batch
       /\ \A x \in {b} : Has(h, x)
       /\ \A x : Has(head, x) => Has(h, x)
  BY <1>10a DEF GrownTo
<1>11. ledger' = LedgerOf(h) /\ head' = h  BY <1>1, <1>10
<1>12. \A i \in 1 .. Len(head) : ledger'[i] = ledger[i]
  <2>1. \A i \in 1 .. Len(head) : LedgerOf(h)[i] = LedgerOf(head)[i]  BY <1>2, <1>10, LongerLedger
  <2> QED BY <1>2, <1>11, <2>1
<1>13. NextId <= NextId'
  <2>1. \A x : Has(head, x) => Has(head', x)  BY <1>10, <1>11
  <2> QED BY <2>1, NextGrows
<1>14. ASSUME NEW x \in Ids, x < NextId PROVE x # b
  BY <1>5, <1>14 DEF b
<1>15. ASSUME NEW x \in Ids, x < NextId, Has(head', x) PROVE Has(head, x)
  <2>1. PICK i \in 1 .. Len(h) : h[i].batch = x  BY <1>11, <1>15 DEF Has
  <2>2. Len(head) \in Nat  BY <1>2, LenProperties
  <2>3. i \in 1 .. Len(head) \/ i \in Len(head) + 1 .. Len(h)  BY <1>10, <2>2
  <2>4. i \in 1 .. Len(head)  BY <1>10, <1>14, <1>15, <2>1, <2>3
  <2> QED BY <1>10, <2>1, <2>4 DEF Has
<1> QED BY <1>6, <1>10, <1>11, <1>12, <1>13, <1>14, <1>15 DEF Evolves

-----------------------------------------------------------------------------
(* The readers and the chain of parts, while the database goes on.          *)

\* The current batch is the highest of the page.
LEMMA CurrentIsHighest ==
  ASSUME reader.todo \in SUBSET Ids, reader.todo # {}
  PROVE  Current \in reader.todo /\ Current \in Ids /\ \A c \in reader.todo : c <= Current
<1>1. reader.todo \in SUBSET Nat /\ \A x \in reader.todo : x <= MaxBatch  BY Bounds DEF Ids
<1>2. MaxBatch \in Nat  BY Bounds
<1>3. Max(reader.todo) \in reader.todo /\ \A y \in reader.todo : y <= Max(reader.todo)
  BY <1>1, <1>2, MaxIsGreatest
<1> QED BY <1>3 DEF Current

\* A batch that is wanted was wanted before.
LEMMA WantedStays ==
  ASSUME LedgerInv, Evolves, ChainInv, chain' = chain
  PROVE  \A b \in Ids : Wanted(b)' => Wanted(b)
<1>1. NextId \in Nat /\ chain.top \in Nat /\ chain.top < NextId
  <2>1. head \in Seq(Payloads) /\ ledger = LedgerOf(head) /\ InOrder  BY DEF LedgerInv, Shape
  <2> QED BY <2>1, NextIdIs DEF ChainInv
<1> TAKE b \in Ids
<1> SUFFICES ASSUME Wanted(b)' PROVE Wanted(b)  OBVIOUS
<1>2. rows'[b] # NoRow /\ b <= chain.top
  <2>1. b \in Stored'  BY DEF Wanted
  <2> QED BY <2>1 DEF Wanted, Stored, Ids, NoRow
<1>3. b < NextId  BY <1>1, <1>2, Bounds DEF Ids
<1>4. rows'[b] = rows[b] /\ events'[b] = events[b]  BY <1>2, <1>3 DEF Evolves
<1>5. Matching(b, chain.filter)' = Matching(b, chain.filter)  BY <1>4 DEF Matching, All
<1>6. Matching(b, chain.filter)' # {}  BY DEF Wanted
<1> QED BY <1>2, <1>4, <1>5, <1>6 DEF Wanted, Stored

LEMMA ChainEvolves ==
  ASSUME LedgerInv, LedgerInv', Evolves, ChainInv, chain' = chain
  PROVE  ChainInv'
<1>1. \A b \in Ids : Wanted(b)' => Wanted(b)  BY WantedStays
<1>2. NextId \in Nat /\ NextId' \in Nat /\ NextId <= NextId'
  <2>1. head \in Seq(Payloads) /\ ledger = LedgerOf(head) /\ InOrder  BY DEF LedgerInv, Shape
  <2>2. NextId \in Nat  BY <2>1, NextIdIs
  <2>3. NextId' \in Nat
    <3> DEFINE h == head'
               l == ledger'
               n == NextId'
    <3>1. h \in Seq(Payloads) /\ l = LedgerOf(h) /\ (\A i \in 1 .. Len(h) : h[i].batch \in Ids)
          /\ n = 1 + Max({Legacy} \cup {l[i].batch : i \in DOMAIN l})
      BY DEF LedgerInv, Shape, InOrder, NextId, Ids
    <3> HIDE DEF h, l, n
    <3>2. n \in Nat  BY <3>1, NextOfLedger
    <3> QED BY <3>2 DEF n
  <2> QED BY <2>2, <2>3 DEF Evolves
<1>3. chain.top < NextId'  BY <1>2 DEF ChainInv
<1> QED BY <1>1, <1>3 DEF ChainInv, Descending, Ids, Filters, All, ToSet

LEMMA EnteredEvolves ==
  ASSUME Evolves, Len(head) \in Nat, Len(head') \in Nat, NEW r \in Loads, Entered(r)
  PROVE  Entered(r)'
<1>1. r.seq \in Nat  BY DEF Loads
<1>2. CASE r.seq > 0
  <2>1. r.seq \in 1 .. Len(head) /\ r.seq <= Len(head')  BY <1>1, <1>2 DEF Entered, Evolves
  <2>2. ledger'[r.seq] = ledger[r.seq]  BY <2>1 DEF Evolves
  <2>3. ledger[r.seq].batch = r.id /\ r.prev = ledger[r.seq].prev /\ r.hash = ledger[r.seq].hash /\ Bound(r)
    BY <1>2 DEF Entered
  <2> QED BY <2>1, <2>2, <2>3 DEF Entered, Bound, Digest
<1>3. CASE ~(r.seq > 0)  BY <1>3 DEF Entered
<1> QED BY <1>2, <1>3

LEMMA ExportingEvolves ==
  ASSUME LedgerInv, LedgerInv', Evolves, ChainInv, Exporting, reader' = reader, chain' = chain, boot' = boot
  PROVE  Exporting'
<1>1. /\ reader \in ExportReads /\ boot = "serving" /\ reader.filter = chain.filter
      /\ (reader.at # "pack" => reader.todo # {}) /\ (reader.at = "pack" /\ ~reader.full => reader.todo = {})
      /\ PageOrder /\ Pending
  BY DEF Exporting
<1>2. reader.todo \in SUBSET Ids /\ reader.got \in Seq(Loads)  BY <1>1 DEF ExportReads
<1>3. head \in Seq(Payloads) /\ head' \in Seq(Payloads) /\ Len(head) \in Nat /\ Len(head') \in Nat
  BY LenProperties DEF LedgerInv, Shape
<1>4. NextId \in Nat /\ NextId' \in Nat /\ NextId <= NextId'
  <2>1. head \in Seq(Payloads) /\ ledger = LedgerOf(head) /\ InOrder  BY DEF LedgerInv, Shape
  <2>2. NextId \in Nat  BY <2>1, NextIdIs
  <2>3. NextId' \in Nat
    <3> DEFINE h == head'
               l == ledger'
               n == NextId'
    <3>1. h \in Seq(Payloads) /\ l = LedgerOf(h) /\ (\A i \in 1 .. Len(h) : h[i].batch \in Ids)
          /\ n = 1 + Max({Legacy} \cup {l[i].batch : i \in DOMAIN l})
      BY DEF LedgerInv, Shape, InOrder, NextId, Ids
    <3> HIDE DEF h, l, n
    <3>2. n \in Nat  BY <3>1, NextOfLedger
    <3> QED BY <3>2 DEF n
  <2> QED BY <2>2, <2>3 DEF Evolves
<1>5. PageOrder'
  <2>1. \A b \in reader.todo : b < NextId /\ b \in Nat  BY <1>1, <1>2, Bounds DEF PageOrder, Ids
  <2>2. \A b \in reader.todo : b < NextId'  BY <1>4, <2>1
  <2> QED BY <1>1, <2>2 DEF PageOrder, Descending, GotIds
<1>6. Pending'
  <2>1. \A b \in Ids : Wanted(b)' => Wanted(b)  BY WantedStays
  <2> QED BY <1>1, <2>1 DEF Pending, Ids
<1>7. \A i \in 1 .. Len(reader.got) : Entered(reader.got[i])'
  <2> TAKE i \in 1 .. Len(reader.got)
  <2>1. reader.got[i] \in Loads  BY <1>2, ElementOfSeq
  <2>2. Entered(reader.got[i])  BY DEF Exporting
  <2> QED BY <1>3, <2>1, <2>2, EnteredEvolves
<1>8. reader.todo # {} => Current \in reader.todo /\ Current \in Ids /\ Current < NextId
  BY <1>1, <1>2, CurrentIsHighest DEF PageOrder
<1>9. Current' = Current  BY DEF Current
<1>10. reader.todo # {} /\ rows'[Current] # NoRow =>
         rows'[Current] = rows[Current] /\ events'[Current] = events[Current] /\ links'[Current] = links[Current]
  BY <1>8 DEF Evolves
<1>11. reader.at \in {"row", "links", "payload", "events"} /\ rows'[Current] # NoRow => reader.ts = links'[Current]
  BY <1>1, <1>10 DEF Exporting
<1>12. reader.at \in {"row", "links", "payload"} => Halfway(reader.at, reader.payload, Current)'
  <2> SUFFICES ASSUME reader.at \in {"row", "links", "payload"}
               PROVE  Halfway(reader.at, reader.payload, Current)'
    OBVIOUS
  <2>1. Halfway(reader.at, reader.payload, Current) /\ reader.todo # {}  BY <1>1 DEF Exporting
  <2> QED BY <1>8, <1>9, <1>10, <2>1 DEF Halfway, RowRead, NoRow
<1>13. reader.at = "events" /\ rows'[Current] # NoRow /\ Has(head', Current) =>
         /\ RowRead(reader.payload, Current)' /\ reader.payload.triggers = links'[Current]
         /\ reader.payload.events = events'[Current]
  <2> SUFFICES ASSUME reader.at = "events", rows'[Current] # NoRow, Has(head', Current)
               PROVE  /\ RowRead(reader.payload, Current)' /\ reader.payload.triggers = links'[Current]
                      /\ reader.payload.events = events'[Current]
    OBVIOUS
  <2>1. reader.todo # {}  BY <1>1
  <2>2. Has(head, Current)  BY <1>1, <1>8, <2>1 DEF Evolves
  <2>3. rows'[Current] = rows[Current] /\ events'[Current] = events[Current] /\ links'[Current] = links[Current]
    BY <1>10, <2>1
  <2>4. /\ RowRead(reader.payload, Current) /\ reader.payload.triggers = links[Current]
        /\ reader.payload.events = events[Current]
    BY <2>2, <2>3 DEF Exporting
  <2> QED BY <1>9, <2>3, <2>4 DEF RowRead
<1>14. reader' \in ExportReads  BY <1>1
<1> QED BY <1>1, <1>5, <1>6, <1>7, <1>9, <1>11, <1>12, <1>13, <1>14 DEF Exporting, ExportReads, Loads, Reads, Payloads, Filters, Ids, All, NoRow

LEMMA SignedEvolves ==
  ASSUME LedgerInv, Evolves, ChainInv, SignedInv, reader' = reader, chain' = chain, boot' = boot
  PROVE  SignedInv'
<1>1. \A b \in Ids : Wanted(b)' => Wanted(b)  BY WantedStays
<1>2. Verifies(reader.pack)' <=> Verifies(reader.pack)
  BY DEF Verifies, Continues, Unmixed, Linked, Bound, Digest, Sequences, CheckpointSequence
<1>3. PartIds(reader.pack)' = PartIds(reader.pack)  BY DEF PartIds
<1>4. \A s : Descending(s)' <=> Descending(s)  BY DEF Descending
<1>5. reader'.pack.batches \in Seq(Loads)'  BY DEF SignedInv, Loads, Payloads, Ids
<1>6. \A b \in Ids : Wanted(b)' /\ (reader.pack.truncated => b >= reader.pack.next) =>
       b \in ToSet(chain.parts \o PartIds(reader.pack))
  BY <1>1 DEF SignedInv
<1>7. Descending(chain.parts \o PartIds(reader.pack))'
  BY <1>3, <1>4 DEF SignedInv
<1> QED BY <1>2, <1>3, <1>5, <1>6, <1>7 DEF SignedInv, Ids, ToSet

LEMMA AuditingEvolves ==
  ASSUME LedgerInv, Evolves, Auditing, reader' = reader
  PROVE  Auditing'
<1>1. reader \in AuditReads /\ reader.upto <= Len(head) /\ reader.stored = reader.observed
      /\ (reader.at \in {"row", "links", "payload", "alarm"} => reader.entry <= reader.upto)
  BY DEF Auditing
<1>2. reader.entry \in Nat \ {0} /\ reader.upto \in Nat  BY <1>1 DEF AuditReads
<1>3. head \in Seq(Payloads) /\ ledger = LedgerOf(head) /\ InOrder  BY DEF LedgerInv, Shape
<1>4. Len(head) \in Nat  BY <1>3, LenProperties
<1> DEFINE b == head[reader.entry].batch
<1>5. reader.at \in {"row", "links", "payload", "alarm"} =>
        reader.entry \in 1 .. Len(head) /\ head'[reader.entry] = head[reader.entry] /\ b \in Ids /\ b < NextId
  <2> SUFFICES ASSUME reader.at \in {"row", "links", "payload", "alarm"}
               PROVE  reader.entry \in 1 .. Len(head) /\ head'[reader.entry] = head[reader.entry]
                      /\ b \in Ids /\ b < NextId
    OBVIOUS
  <2>1. reader.entry \in 1 .. Len(head)  BY <1>1, <1>2, <1>4
  <2> QED BY <1>3, <2>1, NextIdIs DEF Evolves, InOrder
<1>6. reader.at \in {"row", "links", "payload", "alarm"} /\ rows'[b] # NoRow =>
        rows'[b] = rows[b] /\ links'[b] = links[b]
  BY <1>5 DEF Evolves
<1>7. reader.at \in {"row", "links", "payload"} =>
        Halfway(reader.at, reader.payload, head[reader.entry].batch)'
  <2> SUFFICES ASSUME reader.at \in {"row", "links", "payload"}
               PROVE  Halfway(reader.at, reader.payload, head[reader.entry].batch)'
    OBVIOUS
  <2>1. Halfway(reader.at, reader.payload, head[reader.entry].batch)  BY DEF Auditing
  <2>2. head'[reader.entry] = head[reader.entry]  BY <1>5
  <2> QED BY <1>6, <2>1, <2>2 DEF Halfway, RowRead, NoRow
<1>8. reader.at = "alarm" => rows'[b] = NoRow
  BY <1>5, <1>6 DEF Auditing
<1>9. reader.at \in {"row", "links", "payload", "alarm"} => (head[reader.entry].batch)' = b
  BY <1>5
<1>10. reader'.upto <= Len(head')  BY <1>1, <1>2, <1>4 DEF Evolves
<1> QED BY <1>1, <1>7, <1>8, <1>9, <1>10 DEF Auditing, AuditReads, Reads, Payloads, NoRow

-----------------------------------------------------------------------------
(* The steps of an export up to its pack.                                   *)

\* What a reader is doing tells which part of the invariant is about it.
LEMMA ReaderCases ==
  ASSUME ReaderInv
  PROVE  /\ reader.at \in {"batch", "events", "pack"} => Exporting /\ reader \in ExportReads /\ reader.kind = "export"
         /\ reader.at \in {"row", "links", "payload"} =>
              \/ Exporting /\ reader \in ExportReads /\ reader.kind = "export"
              \/ Auditing /\ reader \in AuditReads /\ reader.kind = "audit"
         /\ reader.at = "signed" => SignedInv
         /\ reader.at \in {"entries", "entry", "alarm"} => Auditing /\ reader \in AuditReads /\ reader.kind = "audit"
<1>1. reader = Idle => reader.at = "idle"  BY DEF Idle
<1>2. Exporting => /\ reader \in ExportReads /\ reader.kind = "export"
                   /\ reader.at \in {"batch", "row", "links", "payload", "events", "pack"}
  BY DEF Exporting, ExportReads
<1>3. Auditing => /\ reader \in AuditReads /\ reader.kind = "audit"
                  /\ reader.at \in {"entries", "entry", "row", "links", "payload", "alarm"}
  BY DEF Auditing, AuditReads
<1>4. SignedInv => reader.at = "signed"  BY DEF SignedInv
<1> QED BY <1>1, <1>2, <1>3, <1>4 DEF ReaderInv

\* A statement that leaves the page and what is loaded as they are.
LEMMA ExportMoves ==
  ASSUME Exporting, UNCHANGED dbvars, UNCHANGED bootvars, UNCHANGED chain, reader' \in ExportReads,
         reader'.filter = reader.filter, reader'.todo = reader.todo, reader'.more = reader.more,
         reader'.got = reader.got, reader.todo # {}, reader'.at # "pack" \/ reader'.full,
         reader'.at \in {"row", "links", "payload", "events"} /\ rows[Current] # NoRow => reader'.ts = links[Current],
         reader'.at \in {"row", "links", "payload"} => Halfway(reader'.at, reader'.payload, Current),
         reader'.at = "events" /\ rows[Current] # NoRow /\ Has(head, Current) =>
           /\ RowRead(reader'.payload, Current) /\ reader'.payload.triggers = links[Current]
           /\ reader'.payload.events = events[Current]
  PROVE  Exporting'
<1>1. rows' = rows /\ events' = events /\ links' = links /\ ledger' = ledger /\ head' = head /\ boot' = boot
      /\ chain' = chain
  BY DEF dbvars, bootvars
<1>2. /\ boot = "serving" /\ reader.filter = chain.filter /\ PageOrder /\ Pending
      /\ \A i \in 1 .. Len(reader.got) : Entered(reader.got[i])
  BY DEF Exporting
<1>3. NextId' = NextId /\ Current' = Current  BY <1>1 DEF NextId, Current
<1>4. PageOrder'  BY <1>1, <1>2, <1>3 DEF PageOrder, Descending, GotIds
<1>5. Pending'  BY <1>1, <1>2 DEF Pending, Wanted, Stored, Matching
<1>6. (\A i \in 1 .. Len(reader.got) : Entered(reader.got[i]))'
  <2>1. reader'.got = reader.got  OBVIOUS
  <2>2. ASSUME NEW i \in 1 .. Len(reader.got) PROVE Entered(reader.got[i])'
    <3>1. Entered(reader.got[i])  BY <1>2
    <3> QED BY <1>1, <2>1, <3>1 DEF Entered, Bound, Digest
  <2> QED BY <2>1, <2>2
<1>8. (reader.at \in {"row", "links", "payload"} => Halfway(reader.at, reader.payload, Current))'
  BY <1>1, <1>3 DEF Halfway, RowRead
<1>9. (reader.at = "events" /\ rows[Current] # NoRow /\ Has(head, Current) =>
         /\ RowRead(reader.payload, Current) /\ reader.payload.triggers = links[Current]
         /\ reader.payload.events = events[Current])'
  BY <1>1, <1>3 DEF RowRead, Has
<1>10. (reader.at \in {"row", "links", "payload", "events"} /\ rows[Current] # NoRow => reader.ts = links[Current])'
  BY <1>1, <1>3
<1>11. (reader \in ExportReads)'  BY DEF ExportReads, Loads, Reads, Payloads, Filters, Ids, All
<1>12. (/\ boot = "serving" /\ reader.filter = chain.filter
        /\ (reader.at # "pack" => reader.todo # {}) /\ (reader.at = "pack" /\ ~reader.full => reader.todo = {}))'
  BY <1>1, <1>2
<1> QED BY <1>4, <1>5, <1>6, <1>8, <1>9, <1>10, <1>11, <1>12 DEF Exporting

LEMMA ReadBatchKeeps ==
  ASSUME LedgerInv, ReaderInv, ReadBatch
  PROVE  Exporting'
<1>1. /\ reader.at = "batch" /\ Exporting /\ reader \in ExportReads
      /\ UNCHANGED dbvars /\ UNCHANGED bootvars /\ UNCHANGED chain
  BY ReaderCases DEF ReadBatch
<1>2. reader.todo # {} /\ reader.todo \in SUBSET Ids  BY <1>1 DEF Exporting, ExportReads
<1>3. Current \in Ids  BY <1>2, CurrentIsHighest
<1>4. Shape /\ head \in Seq(Payloads) /\ ledger = LedgerOf(head)  BY DEF LedgerInv, Shape
<1>5. links[Current] \in SUBSET Nat  BY <1>3, <1>4 DEF Shape
<1>6. Unread \in Reads  BY DEF Unread, Reads
<1>7. CASE Estimate(Current, reader.filter) > PageBudget - reader.spent
  <2>1. reader' = [reader EXCEPT !.at = "pack", !.full = TRUE]  BY <1>7 DEF ReadBatch
  <2>2. /\ reader' \in ExportReads /\ reader'.filter = reader.filter /\ reader'.todo = reader.todo
        /\ reader'.more = reader.more /\ reader'.got = reader.got /\ reader'.full /\ reader'.at = "pack"
    BY <1>1, <2>1 DEF ExportReads
  <2> QED BY <1>1, <1>2, <2>2, ExportMoves
<1>8. CASE ~(Estimate(Current, reader.filter) > PageBudget - reader.spent)
  <2> DEFINE at == IF Sequence(Current) > 0 THEN "row" ELSE "events"
  <2>1. reader' = [reader EXCEPT !.at = at, !.ts = links[Current], !.payload = Unread]
    BY <1>8 DEF ReadBatch
  <2>2. at \in {"row", "events"} /\ (at = "events" => ~Has(head, Current))
    BY <1>4, SequenceIs
  <2> HIDE DEF at
  <2>3. /\ reader' \in ExportReads /\ reader'.filter = reader.filter /\ reader'.todo = reader.todo
        /\ reader'.more = reader.more /\ reader'.got = reader.got /\ reader'.at = at /\ reader'.ts = links[Current]
    BY <1>1, <1>5, <1>6, <2>1, <2>2 DEF ExportReads
  <2>4. reader'.at # "pack" /\ (reader'.at = "events" => ~Has(head, Current))  BY <2>2, <2>3
  <2>5. reader'.at \in {"row", "links", "payload"} => Halfway(reader'.at, reader'.payload, Current)
    BY <2>2, <2>3 DEF Halfway
  <2> QED BY <1>1, <1>2, <2>3, <2>4, <2>5, ExportMoves
<1> QED BY <1>7, <1>8

LEMMA ReadRowExports ==
  ASSUME LedgerInv, ReaderInv, ReadRow, reader.kind = "export"
  PROVE  Exporting' \/ reader' = Idle
<1>1. /\ reader.at = "row" /\ UNCHANGED dbvars /\ UNCHANGED bootvars /\ UNCHANGED chain
  BY DEF ReadRow
<1>2. Exporting /\ reader \in ExportReads  BY <1>1, ReaderCases
<1>3. reader.todo # {} /\ reader.todo \in SUBSET Ids  BY <1>1, <1>2 DEF Exporting, ExportReads
<1>4. Current \in Ids /\ Subject = Current  BY <1>3, CurrentIsHighest DEF Subject
<1>5. Shape  BY DEF LedgerInv
<1>6. CASE rows[Subject] = NoRow
  BY <1>6 DEF ReadRow
<1>7. CASE rows[Subject] # NoRow
  <2> DEFINE p == [Unread EXCEPT !.batch = Current, !.count = rows[Current].count, !.first = rows[Current].first]
  <2>1. reader' = [reader EXCEPT !.at = "links", !.payload = p]  BY <1>4, <1>7 DEF ReadRow
  <2>2. rows[Current].count \in Nat /\ rows[Current].first \in Nat /\ Current \in Nat  BY <1>4, <1>5, CurrentIs
  <2>3. Unread \in Reads  BY DEF Unread, Reads
  <2>4. p \in Reads /\ RowRead(p, Current)  BY <2>2, <2>3 DEF Reads, RowRead
  <2> HIDE DEF p
  <2>5. /\ reader' \in ExportReads /\ reader'.filter = reader.filter /\ reader'.todo = reader.todo
        /\ reader'.more = reader.more /\ reader'.got = reader.got /\ reader'.at = "links" /\ reader'.ts = reader.ts
        /\ reader'.payload = p
    BY <1>2, <2>1, <2>4 DEF ExportReads
  <2>6. reader'.ts = links[Current]  BY <1>1, <1>2, <1>4, <1>7, <2>5 DEF Exporting
  <2>7. Halfway(reader'.at, reader'.payload, Current)  BY <2>4, <2>5 DEF Halfway
  <2>8. reader'.at # "pack" /\ reader'.at # "events"  BY <2>5
  <2> QED BY <1>1, <1>2, <1>3, <2>5, <2>6, <2>7, <2>8, ExportMoves
<1> QED BY <1>6, <1>7

LEMMA ReadLinksExports ==
  ASSUME LedgerInv, ReaderInv, ReadLinks, reader.kind = "export"
  PROVE  Exporting'
<1>1. /\ reader.at = "links" /\ UNCHANGED dbvars /\ UNCHANGED bootvars /\ UNCHANGED chain
      /\ reader' = [reader EXCEPT !.at = "payload", !.payload.triggers = links[Subject]]
  BY DEF ReadLinks
<1>2. Exporting /\ reader \in ExportReads  BY <1>1, ReaderCases
<1>3. reader.todo # {} /\ reader.todo \in SUBSET Ids  BY <1>1, <1>2 DEF Exporting, ExportReads
<1>4. Current \in Ids /\ Subject = Current  BY <1>3, CurrentIsHighest DEF Subject
<1>5. links[Current] \in SUBSET Nat  BY <1>4 DEF LedgerInv, Shape
<1> DEFINE p == [reader.payload EXCEPT !.triggers = links[Current]]
<1>6. reader' = [reader EXCEPT !.at = "payload", !.payload = p]  BY <1>1, <1>2, <1>4 DEF ExportReads
<1>7. /\ p \in Reads /\ p.batch = reader.payload.batch /\ p.count = reader.payload.count
      /\ p.first = reader.payload.first /\ p.triggers = links[Current]
  <2>1. reader.payload \in Reads  BY <1>2 DEF ExportReads
  <2> QED BY <1>5, <2>1 DEF Reads
<1> HIDE DEF p
<1>8. /\ reader' \in ExportReads /\ reader'.filter = reader.filter /\ reader'.todo = reader.todo
      /\ reader'.more = reader.more /\ reader'.got = reader.got /\ reader'.at = "payload" /\ reader'.ts = reader.ts
      /\ reader'.payload = p
  BY <1>2, <1>6, <1>7 DEF ExportReads
<1>9. Halfway(reader.at, reader.payload, Current) /\ (rows[Current] # NoRow => reader.ts = links[Current])
  BY <1>1, <1>2 DEF Exporting
<1>10. Halfway(reader'.at, reader'.payload, Current)
  BY <1>1, <1>7, <1>8, <1>9 DEF Halfway, RowRead
<1>11. rows[Current] # NoRow => reader'.ts = links[Current]  BY <1>8, <1>9
<1>12. reader'.at # "pack" /\ reader'.at # "events"  BY <1>8
<1> QED BY <1>1, <1>2, <1>3, <1>8, <1>10, <1>11, <1>12, ExportMoves

LEMMA ReadEventsExports ==
  ASSUME LedgerInv, ReaderInv, ReadEvents, reader.kind = "export"
  PROVE  Exporting'
<1>1. /\ reader.at = "payload" /\ UNCHANGED dbvars /\ UNCHANGED bootvars /\ UNCHANGED chain
      /\ reader' = [reader EXCEPT !.at = "events", !.payload.events = events[Subject]]
  BY DEF ReadEvents
<1>2. Exporting /\ reader \in ExportReads  BY <1>1, ReaderCases
<1>3. reader.todo # {} /\ reader.todo \in SUBSET Ids  BY <1>1, <1>2 DEF Exporting, ExportReads
<1>4. Current \in Ids /\ Subject = Current  BY <1>3, CurrentIsHighest DEF Subject
<1>5. events[Current] \in SUBSET Kinds  BY <1>4 DEF LedgerInv, Shape
<1> DEFINE p == [reader.payload EXCEPT !.events = events[Current]]
<1>6. reader' = [reader EXCEPT !.at = "events", !.payload = p]  BY <1>1, <1>2, <1>4 DEF ExportReads
<1>7. /\ p \in Reads /\ p.batch = reader.payload.batch /\ p.count = reader.payload.count
      /\ p.first = reader.payload.first /\ p.triggers = reader.payload.triggers /\ p.events = events[Current]
  <2>1. reader.payload \in Reads  BY <1>2 DEF ExportReads
  <2> QED BY <1>5, <2>1 DEF Reads
<1> HIDE DEF p
<1>8. /\ reader' \in ExportReads /\ reader'.filter = reader.filter /\ reader'.todo = reader.todo
      /\ reader'.more = reader.more /\ reader'.got = reader.got /\ reader'.at = "events" /\ reader'.ts = reader.ts
      /\ reader'.payload = p
  BY <1>2, <1>6, <1>7 DEF ExportReads
<1>9. Halfway(reader.at, reader.payload, Current) /\ (rows[Current] # NoRow => reader.ts = links[Current])
  BY <1>1, <1>2 DEF Exporting
<1>10. rows[Current] # NoRow => /\ RowRead(reader'.payload, Current) /\ reader'.payload.triggers = links[Current]
                                /\ reader'.payload.events = events[Current]
  BY <1>1, <1>7, <1>8, <1>9 DEF Halfway, RowRead
<1>11. rows[Current] # NoRow => reader'.ts = links[Current]  BY <1>8, <1>9
<1>12. reader'.at # "pack" /\ reader'.at \notin {"row", "links", "payload"}  BY <1>8
<1> QED BY <1>1, <1>2, <1>3, <1>8, <1>10, <1>11, <1>12, ExportMoves

\* A loaded batch is what is stored of it, and bound to its entry.
LEMMA LoadedIs ==
  ASSUME LedgerInv, Exporting, reader.at = "events"
  PROVE  /\ Loaded \in Loads /\ Loaded.id = Current
         /\ Loaded.events = Matching(Current, reader.filter)
         /\ Loaded.events # {} => Entered(Loaded)
<1>1. Shape /\ RowsFirst /\ Faithful /\ head \in Seq(Payloads) /\ ledger = LedgerOf(head)
  BY DEF LedgerInv, Shape
<1>2. reader \in ExportReads /\ reader.todo # {}  BY DEF Exporting
<1>3. reader.todo \in SUBSET Ids /\ reader.ts \in SUBSET Nat /\ reader.payload \in Reads
  BY <1>2 DEF ExportReads
<1>4. Current \in Ids  BY <1>2, <1>3, CurrentIsHighest
<1> DEFINE s == Sequence(Current)
           p == reader.payload
           ts == Payload(Current, rows[Current], reader.ts, {}).triggers
           pay == Payload(p.batch, [count |-> p.count, first |-> p.first], p.triggers, p.events)
           prev == IF s > 0 THEN ledger[s].prev ELSE <<>>
           hash == IF s > 0 THEN ledger[s].hash ELSE <<>>
           m == Matching(Current, reader.filter)
<1>5. Loaded = [id |-> Current, events |-> m, seq |-> s, triggers |-> ts, prev |-> prev, hash |-> hash, payload |-> pay]
  BY DEF Loaded
<1>6. rows[Current].count \in Nat /\ rows[Current].first \in Nat /\ events[Current] \in SUBSET Kinds
      /\ links[Current] \in SUBSET Nat /\ Current \in Nat
  BY <1>1, <1>4, CurrentIs
<1>7. m \in SUBSET Kinds /\ m \subseteq events[Current]  BY <1>6 DEF Matching
<1>8. s \in Nat /\ (s > 0 => s \in 1 .. Len(head) /\ ledger[s].batch = Current /\ head[s].batch = Current
                             /\ Has(head, Current))
  BY <1>1, SequenceIs
<1>9. prev \in Seq(Payloads) /\ hash \in Seq(Payloads)
  <2>1. s > 0 => ledger[s].prev \in Seq(Payloads) /\ ledger[s].hash \in Seq(Payloads)
    BY <1>1, <1>8, LedgerFacts
  <2> QED BY <2>1, EmptySeq
<1>10. /\ ts = IF reader.ts = {} /\ rows[Current].first > 0 THEN {rows[Current].first} ELSE reader.ts
       /\ ts \in SUBSET Nat
  <2>1. ts = IF reader.ts = {} /\ rows[Current].first > 0 THEN {rows[Current].first} ELSE reader.ts
    BY DEF Payload
  <2> HIDE DEF ts
  <2> QED BY <2>1, <1>3, <1>6
<1>11. /\ pay \in Payloads /\ pay.batch = p.batch /\ pay.count = p.count /\ pay.events = p.events
       /\ pay.triggers = IF p.triggers = {} /\ p.first > 0 THEN {p.first} ELSE p.triggers
  <2>1. p.batch \in Nat /\ p.count \in Nat /\ p.first \in Nat /\ p.triggers \in SUBSET Nat /\ p.events \in SUBSET Kinds
    BY <1>3 DEF Reads
  <2> HIDE DEF p
  <2>2. (IF p.triggers = {} /\ p.first > 0 THEN {p.first} ELSE p.triggers) \in SUBSET Nat  BY <2>1
  <2> QED BY <2>1, <2>2 DEF Payload, Payloads
<1> HIDE DEF s, p, ts, pay, prev, hash, m
<1>12. Loaded \in Loads  BY <1>4, <1>5, <1>7, <1>8, <1>9, <1>10, <1>11 DEF Loads
<1>13. ASSUME Loaded.events # {}, s > 0 PROVE Bound(Loaded)
  <2>1. m # {} /\ events[Current] # {}  BY <1>5, <1>7, <1>13
  <2>2. rows[Current] # NoRow  BY <1>1, <1>4, <2>1 DEF RowsFirst
  <2>3. reader.ts = links[Current] /\ p.batch = Current /\ p.count = rows[Current].count
        /\ p.first = rows[Current].first /\ p.triggers = links[Current] /\ p.events = events[Current]
    BY <1>8, <1>13, <2>2 DEF Exporting, RowRead, p
  <2>4. head[s] = CurrentPayload(Current) /\ Cardinality(events[Current]) = rows[Current].count
    BY <1>1, <1>8, <1>13, <2>2 DEF Faithful
  <2>5. pay = CurrentPayload(Current)
    <3>1. pay = Payload(Current, [count |-> rows[Current].count, first |-> rows[Current].first],
                        links[Current], events[Current])
      BY <2>3 DEF pay
    <3> QED BY <3>1 DEF Payload, CurrentPayload
  <2>6. Digest(ledger[s].prev, head[s]) = ledger[s].hash  BY <1>1, <1>8, <1>13, LedgerFacts
  <2>7. prev = ledger[s].prev /\ hash = ledger[s].hash  BY <1>13 DEF prev, hash
  <2>8. Digest(prev, pay) = hash  BY <2>4, <2>5, <2>6, <2>7
  <2>9. pay.triggers = ts  BY <1>10, <1>11, <2>3
  <2>10. Loaded.payload = pay /\ Loaded.id = Current /\ Loaded.triggers = ts /\ Loaded.events = m
         /\ Loaded.prev = prev /\ Loaded.hash = hash
    BY <1>5
  <2> QED BY <1>7, <1>11, <2>3, <2>4, <2>8, <2>9, <2>10 DEF Bound
<1>14. ASSUME Loaded.events # {} PROVE Entered(Loaded)
  <2>1. Loaded.seq = s /\ Loaded.id = Current /\ Loaded.prev = prev /\ Loaded.hash = hash  BY <1>5
  <2>2. s > 0 => prev = ledger[s].prev /\ hash = ledger[s].hash  BY DEF prev, hash
  <2>3. s > 0 => s <= Len(head)  BY <1>8
  <2> QED BY <1>8, <1>13, <1>14, <2>1, <2>2, <2>3 DEF Entered
<1> QED BY <1>5, <1>12, <1>14 DEF m

LEMMA ReadPageKeeps ==
  ASSUME LedgerInv, ReaderInv, ReadPage
  PROVE  Exporting'
<1>1. reader.at = "events" /\ Exporting /\ UNCHANGED dbvars /\ UNCHANGED bootvars /\ UNCHANGED chain
  BY ReaderCases DEF ReadPage
<1>2. /\ reader \in ExportReads /\ boot = "serving" /\ reader.filter = chain.filter /\ reader.todo # {}
      /\ PageOrder /\ Pending /\ \A i \in 1 .. Len(reader.got) : Entered(reader.got[i])
  BY <1>1 DEF Exporting
<1>3. /\ reader.todo \in SUBSET Ids /\ reader.got \in Seq(Loads) /\ reader.spent \in Nat
  BY <1>2 DEF ExportReads
<1>4. Current \in reader.todo /\ Current \in Ids /\ \A c \in reader.todo : c <= Current
  BY <1>2, <1>3, CurrentIsHighest
<1>5. /\ Loaded \in Loads /\ Loaded.id = Current /\ Loaded.events = Matching(Current, reader.filter)
      /\ Loaded.events # {} => Entered(Loaded)
  BY <1>1, LoadedIs
<1> DEFINE rest == reader.todo \ {Current}
           G == IF Loaded.events = {} THEN reader.got ELSE Append(reader.got, Loaded)
           at == IF rest = {} THEN "pack" ELSE "batch"
           sp == IF Loaded.events = {} THEN reader.spent ELSE reader.spent + Estimate(Current, reader.filter)
<1>6. reader' = [reader EXCEPT !.at = at, !.todo = rest, !.got = G, !.spent = sp]
  BY DEF ReadPage
<1> DEFINE n == Len(reader.got)
           m == Len(G)
<1>7. /\ G \in Seq(Loads) /\ n \in Nat /\ m \in Nat
      /\ (Loaded.events = {} => m = n) /\ (Loaded.events # {} => m = n + 1 /\ G[n + 1] = Loaded)
      /\ \A i \in 1 .. n : G[i] = reader.got[i]
  <2>1. CASE Loaded.events = {}
    <3>1. G = reader.got  BY <2>1
    <3> HIDE DEF G
    <3> QED BY <3>1, <2>1, <1>3, LenProperties
  <2>2. CASE Loaded.events # {}
    <3>1. G = Append(reader.got, Loaded)  BY <2>2
    <3> HIDE DEF G
    <3>2. n \in Nat  BY <1>3, LenProperties
    <3>3. /\ Append(reader.got, Loaded) \in Seq(Loads) /\ Len(Append(reader.got, Loaded)) = n + 1
          /\ \A i \in 1 .. n : Append(reader.got, Loaded)[i] = reader.got[i]
          /\ Append(reader.got, Loaded)[n + 1] = Loaded
      BY <1>3, <1>5, AppendProperties
    <3>4. n + 1 \in Nat  BY <3>2
    <3> QED BY <3>1, <3>2, <3>3, <3>4, <2>2
  <2> QED BY <2>1, <2>2
<1>8. sp \in Nat
  <2>1. events[Current] \in SUBSET Kinds  BY <1>4 DEF LedgerInv, Shape
  <2>2. Matching(Current, reader.filter) \in SUBSET Kinds  BY <2>1 DEF Matching
  <2>3. Estimate(Current, reader.filter) \in Nat  BY <2>1, <2>2, KindsFinite DEF Estimate
  <2> QED BY <1>3, <2>3
<1>9. rest \in SUBSET Ids /\ at \in {"pack", "batch"} /\ (at = "pack" <=> rest = {})
      /\ \A b \in rest : b \in reader.todo /\ b < Current /\ b \in Nat
  <2>1. \A b \in Ids : b \in Nat  BY Bounds DEF Ids
  <2>2. \A b \in rest : b \in reader.todo /\ b # Current /\ b \in Ids /\ b <= Current  BY <1>3, <1>4
  <2>3. \A b \in rest : b < Current  BY <1>4, <2>1, <2>2
  <2> QED BY <1>3, <2>1, <2>2, <2>3
<1>10. \A b \in reader.todo : b \in rest \/ b = Current  OBVIOUS
<1> HIDE DEF rest, G, at, sp, n, m
<1>11. /\ reader' \in ExportReads /\ reader'.at = at /\ reader'.todo = rest /\ reader'.got = G
       /\ reader'.filter = reader.filter /\ reader'.more = reader.more /\ reader'.full = reader.full
  BY <1>2, <1>6, <1>7, <1>8, <1>9 DEF ExportReads
<1>12. /\ n = Len(reader.got) /\ m = Len(G) /\ \A i \in 1 .. n : i \in 1 .. m
       /\ Loaded.events # {} => n + 1 \in 1 .. m
       /\ \A i \in 1 .. m : \/ i \in 1 .. n /\ G[i] = reader.got[i]
                            \/ Loaded.events # {} /\ i = n + 1 /\ G[i] = Loaded
  <2>1. n = Len(reader.got) /\ m = Len(G)  BY DEF n, m
  <2>2. (\A i \in 1 .. n : i \in 1 .. m) /\ (Loaded.events # {} => n + 1 \in 1 .. m)  BY <1>7
  <2>3. ASSUME NEW i \in 1 .. m
        PROVE  i \in 1 .. n \/ (Loaded.events # {} /\ i = n + 1)
    BY <1>7
  <2> QED BY <1>7, <2>1, <2>2, <2>3
<1>13. rows' = rows /\ events' = events /\ links' = links /\ ledger' = ledger /\ head' = head /\ boot' = boot
       /\ chain' = chain
  BY <1>1 DEF dbvars, bootvars
<1>14. NextId' = NextId  BY <1>13 DEF NextId
<1>15. PageOrder'
  <2>1. \A b \in rest : b < NextId /\ (chain.next > 0 => b < chain.next)  BY <1>2, <1>9 DEF PageOrder
  <2>2. \A b \in rest : \A i \in 1 .. Len(G) : b < G[i].id
    BY <1>2, <1>5, <1>9, <1>12 DEF PageOrder
  <2>3. \A i \in 1 .. Len(G) : chain.next > 0 => G[i].id < chain.next
    BY <1>2, <1>4, <1>5, <1>12 DEF PageOrder
  <2>4. ASSUME NEW i \in 1 .. Len(G), NEW j \in 1 .. Len(G), i < j PROVE G[j].id < G[i].id
    <3>1. i \in 1 .. Len(reader.got)
      <4>1. i # n + 1
        <5>1. i \in 1 .. m /\ j \in 1 .. m  BY <1>12
        <5> QED BY <1>7, <2>4, <5>1
      <4> QED BY <1>12, <4>1
    <3>2. CASE j \in 1 .. Len(reader.got)
      <4>1. G[i] = reader.got[i] /\ G[j] = reader.got[j]  BY <1>7, <1>12, <3>1, <3>2
      <4>2. n \in Nat /\ Len(GotIds(reader.got)) = n  BY <1>7, <1>12 DEF GotIds
      <4>3. GotIds(reader.got)[i] = reader.got[i].id /\ GotIds(reader.got)[j] = reader.got[j].id
        BY <3>1, <3>2 DEF GotIds
      <4> QED BY <1>2, <1>12, <2>4, <3>1, <3>2, <4>1, <4>2, <4>3 DEF PageOrder, Descending
    <3>3. CASE G[j] = Loaded
      <4>1. G[i] = reader.got[i]  BY <1>7, <1>12, <3>1
      <4>2. Current < reader.got[i].id  BY <1>2, <1>4, <3>1 DEF PageOrder
      <4> QED BY <1>5, <3>3, <4>1, <4>2
    <3> QED BY <1>12, <3>2, <3>3
  <2>5. Descending(GotIds(G))
    <3>1. Len(G) \in Nat  BY <1>7, LenProperties
    <3>2. Len(GotIds(G)) = Len(G) /\ \A i \in 1 .. Len(G) : GotIds(G)[i] = G[i].id  BY <3>1 DEF GotIds
    <3> QED BY <2>4, <3>2 DEF Descending
  <2>6. Descending(GotIds(reader.got))'  BY <1>11, <2>5 DEF Descending, GotIds
  <2> QED BY <1>11, <1>13, <1>14, <2>1, <2>2, <2>3, <2>6 DEF PageOrder
<1>16. Pending'
  <2>1. ASSUME NEW b \in Ids, Wanted(b), chain.next > 0 => b < chain.next
        PROVE  \/ b \in rest
               \/ \E i \in 1 .. Len(G) : G[i].id = b
               \/ /\ reader.more /\ (\A c \in rest : b < c)
                  /\ \A i \in 1 .. Len(G) : b < G[i].id
    <3>1. CASE b = Current
      <4>1. Loaded.events # {}  BY <1>2, <1>5, <2>1, <3>1 DEF Wanted
      <4>2. n + 1 \in 1 .. Len(G) /\ G[n + 1] = Loaded  BY <1>7, <1>12, <4>1
      <4> QED BY <1>5, <3>1, <4>2
    <3>2. CASE b \in reader.todo /\ b # Current  BY <1>10, <3>2
    <3>3. CASE \E i \in 1 .. Len(reader.got) : reader.got[i].id = b
      <4>1. PICK i \in 1 .. Len(reader.got) : reader.got[i].id = b  BY <3>3
      <4>2. i \in 1 .. Len(G) /\ G[i] = reader.got[i]  BY <1>7, <1>12
      <4> QED BY <4>1, <4>2
    <3>4. CASE /\ reader.more /\ (\A c \in reader.todo : b < c)
               /\ \A i \in 1 .. Len(reader.got) : b < reader.got[i].id
      <4>1. \A c \in rest : b < c  BY <1>9, <3>4
      <4>2. \A i \in 1 .. Len(G) : b < G[i].id  BY <1>4, <1>5, <1>12, <3>4
      <4> QED BY <3>4, <4>1, <4>2
    <3> QED BY <1>2, <2>1, <3>1, <3>2, <3>3, <3>4 DEF Pending
  <2>2. \A b \in Ids : Wanted(b)' <=> Wanted(b)  BY <1>13 DEF Wanted, Stored, Matching
  <2> QED BY <1>11, <1>13, <2>1, <2>2 DEF Pending
<1>17. \A i \in 1 .. Len(G) : Entered(G[i])
  BY <1>2, <1>5, <1>12
<1>18. (\A i \in 1 .. Len(reader.got) : Entered(reader.got[i]))'
  <2>1. ASSUME NEW i \in 1 .. Len(G) PROVE Entered(reader.got[i])'
    <3>1. Entered(G[i])  BY <1>17
    <3> QED BY <1>11, <1>13, <3>1 DEF Entered, Bound, Digest
  <2> QED BY <1>11, <2>1
<1>19. (/\ reader \in ExportReads /\ boot = "serving" /\ reader.filter = chain.filter
        /\ (reader.at # "pack" => reader.todo # {}) /\ (reader.at = "pack" /\ ~reader.full => reader.todo = {}))'
  <2>1. (reader \in ExportReads)'  BY <1>11 DEF ExportReads, Loads, Reads, Payloads, Filters, Ids, All
  <2> QED BY <1>2, <1>9, <1>11, <1>13, <2>1
<1>20. reader'.at \notin {"row", "links", "payload", "events"}  BY <1>9, <1>11
<1> QED BY <1>15, <1>16, <1>18, <1>19, <1>20 DEF Exporting

-----------------------------------------------------------------------------
(* The steps of an audit.                                                   *)

\* A statement of an audit leaves the database alone.
LEMMA AuditMoves ==
  ASSUME UNCHANGED dbvars, reader' \in AuditReads, reader'.upto <= Len(head), reader'.stored = reader'.observed,
         reader'.at \in {"row", "links", "payload", "alarm"} => reader'.entry <= reader'.upto,
         reader'.at \in {"row", "links", "payload"} =>
           Halfway(reader'.at, reader'.payload, head[reader'.entry].batch),
         reader'.at = "alarm" => rows[head[reader'.entry].batch] = NoRow
  PROVE  Auditing'
<1>1. rows' = rows /\ links' = links /\ head' = head  BY DEF dbvars
<1>2. (reader \in AuditReads)'  BY DEF AuditReads, Reads, Payloads
<1>3. (reader.at \in {"row", "links", "payload"} =>
         Halfway(reader.at, reader.payload, head[reader.entry].batch))'
  BY <1>1 DEF Halfway, RowRead
<1> QED BY <1>1, <1>2, <1>3 DEF Auditing

\* The heads agree, and a page starts with them.
LEMMA HeadsAudit ==
  ASSUME LedgerInv, UNCHANGED dbvars, NEW from \in Nat, reader' = Heads(from)
  PROVE  Auditing'
<1>1. head \in Seq(Payloads) /\ ledger = LedgerOf(head)  BY DEF LedgerInv, Shape
<1>2. /\ LedgerHead(ledger, <<>>) = head /\ Len(ledger) = Len(head) /\ Len(head) \in Nat
  BY <1>1, LedgerOfHistory
<1>3. Unread \in Reads  BY DEF Unread, Reads
<1>4. from + 1 \in Nat \ {0}  OBVIOUS
<1>5. /\ reader' \in AuditReads /\ reader'.at = "entries" /\ reader'.upto = 0 /\ reader'.stored = head
      /\ reader'.observed = head
  BY <1>1, <1>2, <1>3, <1>4 DEF Heads, AuditReads
<1>6. reader'.upto <= Len(head)  BY <1>2, <1>5
<1>7. reader'.at \notin {"row", "links", "payload", "alarm"}  BY <1>5
<1> QED BY <1>5, <1>6, <1>7, AuditMoves

\* The audited entry is of the ledger, and its batch is one of the ids.
LEMMA AuditedEntry ==
  ASSUME LedgerInv, Auditing, reader.entry <= reader.upto
  PROVE  /\ reader.entry \in 1 .. Len(head) /\ Len(ledger) = Len(head)
         /\ ledger[reader.entry].batch = head[reader.entry].batch /\ head[reader.entry].batch \in Ids
         /\ Chained(reader.entry) /\ Subject = head[reader.entry].batch
<1>1. head \in Seq(Payloads) /\ ledger = LedgerOf(head) /\ InOrder  BY DEF LedgerInv, Shape
<1>2. reader \in AuditReads /\ reader.upto <= Len(head)  BY DEF Auditing
<1>3. reader.entry \in Nat \ {0} /\ reader.upto \in Nat /\ reader.kind = "audit"  BY <1>2 DEF AuditReads
<1>4. Len(head) \in Nat  BY <1>1, LenProperties
<1>5. reader.entry \in 1 .. Len(head)  BY <1>2, <1>3, <1>4
<1>6. Subject = ledger[reader.entry].batch  BY <1>3 DEF Subject
<1> QED BY <1>1, <1>5, <1>6, LedgerFacts DEF InOrder

\* The statements over a page: the entry is taken up, or the page is done.
LEMMA AuditPages ==
  ASSUME LedgerInv, ReaderInv, AuditEntries \/ AuditEntry
  PROVE  Auditing' \/ reader' = Idle
<1>1. Auditing /\ reader \in AuditReads /\ UNCHANGED dbvars
  <2>1. reader.at \in {"entries", "entry"}  BY DEF AuditEntries, AuditEntry
  <2> QED BY <2>1, ReaderCases DEF AuditEntries, AuditEntry
<1>2. /\ reader.entry \in Nat \ {0} /\ reader.upto \in Nat /\ reader.upto <= Len(head)
      /\ reader.stored = reader.observed
  BY <1>1 DEF AuditReads, Auditing
<1>3. head \in Seq(Payloads) /\ ledger = LedgerOf(head)  BY DEF LedgerInv, Shape
<1>4. Len(ledger) = Len(head) /\ Len(head) \in Nat  BY <1>3, LedgerFacts
<1>5. CASE AuditEntries
  <2> DEFINE S == {Len(ledger), reader.entry - 1 + AuditPage}
             u == Min(S)
  <2>1. reader' = [reader EXCEPT !.at = "entry", !.upto = u]  BY <1>5 DEF AuditEntries
  <2>2. AuditPage \in Nat  BY EvidenceAssumption
  <2>3. S \in SUBSET Nat /\ S # {} /\ Len(ledger) \in S
    <3>1. reader.entry - 1 + AuditPage \in Nat  BY <1>2, <2>2
    <3> QED BY <1>4, <3>1
  <2>4. u \in Nat /\ u <= Len(ledger)
    <3> HIDE DEF S
    <3> QED BY <2>3, MinIsLeast
  <2> HIDE DEF S, u
  <2>5. /\ reader' \in AuditReads /\ reader'.at = "entry" /\ reader'.upto = u /\ reader'.stored = reader.stored
        /\ reader'.observed = reader.observed
    BY <1>1, <2>1, <2>4 DEF AuditReads
  <2>6. reader'.upto <= Len(head) /\ reader'.at \notin {"row", "links", "payload", "alarm"}
    BY <1>4, <2>4, <2>5
  <2> QED BY <1>1, <1>2, <2>5, <2>6, AuditMoves
<1>6. CASE AuditEntry /\ reader.entry <= reader.upto
  <2>1. Chained(reader.entry)  BY <1>1, <1>6, AuditedEntry
  <2>2. reader' = [reader EXCEPT !.at = "row"]  BY <1>6, <2>1 DEF AuditEntry
  <2>3. /\ reader' \in AuditReads /\ reader'.at = "row" /\ reader'.upto = reader.upto
        /\ reader'.stored = reader.stored /\ reader'.observed = reader.observed /\ reader'.entry = reader.entry
    BY <1>1, <2>2 DEF AuditReads
  <2>4. Halfway(reader'.at, reader'.payload, head[reader'.entry].batch)  BY <2>3 DEF Halfway
  <2>5. reader'.at # "alarm"  BY <2>3
  <2> QED BY <1>1, <1>2, <1>6, <2>3, <2>4, <2>5, AuditMoves
<1>7. CASE AuditEntry /\ ~(reader.entry <= reader.upto)
  <2>1. reader' = Heads(reader.upto) \/ reader' = Idle  BY <1>2, <1>7 DEF AuditEntry
  <2> QED BY <1>1, <1>2, <2>1, HeadsAudit
<1> QED BY <1>5, <1>6, <1>7

\* The statements of evidenceLedgerPayload for the audited entry: what is
\* stored hashes to what was signed.
LEMMA AuditReading ==
  ASSUME LedgerInv, ReaderInv, ReadRow \/ ReadLinks \/ ReadEvents, reader.kind # "export"
  PROVE  Auditing'
<1>1. Auditing /\ reader \in AuditReads /\ UNCHANGED dbvars /\ reader.at \in {"row", "links", "payload"}
  <2>1. reader.at \in {"row", "links", "payload"}  BY DEF ReadRow, ReadLinks, ReadEvents
  <2> QED BY <2>1, ReaderCases DEF ReadRow, ReadLinks, ReadEvents
<1>2. /\ reader.entry \in Nat \ {0} /\ reader.upto \in Nat /\ reader.upto <= Len(head)
      /\ reader.stored = reader.observed /\ reader.entry <= reader.upto /\ reader.payload \in Reads
  BY <1>1 DEF AuditReads, Auditing
<1> DEFINE b == head[reader.entry].batch
<1>3. /\ reader.entry \in 1 .. Len(head) /\ ledger[reader.entry].batch = b /\ b \in Ids /\ Subject = b
  BY <1>1, <1>2, AuditedEntry
<1>4. Halfway(reader.at, reader.payload, b)  BY <1>1 DEF Auditing
<1>5. Shape /\ Faithful /\ head \in Seq(Payloads) /\ ledger = LedgerOf(head)  BY DEF LedgerInv, Shape
<1>6. rows[b].count \in Nat /\ rows[b].first \in Nat /\ events[b] \in SUBSET Kinds
      /\ links[b] \in SUBSET Nat /\ b \in Nat
  BY <1>3, <1>5, CurrentIs
<1>7. reader.entry + 1 \in Nat \ {0}  BY <1>2
<1> HIDE DEF b
<1>8. ASSUME reader' = [reader EXCEPT !.at = "entry", !.entry = @ + 1] PROVE Auditing'
  <2>1. /\ reader' \in AuditReads /\ reader'.at = "entry" /\ reader'.upto = reader.upto
        /\ reader'.stored = reader.stored /\ reader'.observed = reader.observed
    BY <1>1, <1>7, <1>8 DEF AuditReads
  <2>2. reader'.at \notin {"row", "links", "payload", "alarm"}  BY <2>1
  <2> QED BY <1>1, <1>2, <2>1, <2>2, AuditMoves
<1>9. CASE ReadRow
  <2>1. CASE rows[Subject] = NoRow
    BY <1>8, <1>9, <2>1 DEF ReadRow
  <2>2. CASE rows[Subject] # NoRow
    <3> DEFINE p == [Unread EXCEPT !.batch = b, !.count = rows[b].count, !.first = rows[b].first]
    <3>1. reader' = [reader EXCEPT !.at = "links", !.payload = p]  BY <1>3, <1>9, <2>2 DEF ReadRow
    <3>2. Unread \in Reads  BY DEF Unread, Reads
    <3>3. p \in Reads /\ RowRead(p, b)  BY <1>6, <3>2 DEF Reads, RowRead
    <3> HIDE DEF p
    <3>4. /\ reader' \in AuditReads /\ reader'.at = "links" /\ reader'.upto = reader.upto
          /\ reader'.stored = reader.stored /\ reader'.observed = reader.observed
          /\ reader'.entry = reader.entry /\ reader'.payload = p
      BY <1>1, <3>1, <3>3 DEF AuditReads
    <3>5. Halfway(reader'.at, reader'.payload, head[reader'.entry].batch)
      BY <3>3, <3>4 DEF Halfway, b
    <3>6. reader'.at # "alarm"  BY <3>4
    <3> QED BY <1>1, <1>2, <3>4, <3>5, <3>6, AuditMoves
  <2> QED BY <2>1, <2>2
<1>10. CASE ReadLinks
  <2> DEFINE p == [reader.payload EXCEPT !.triggers = links[b]]
  <2>1. reader' = [reader EXCEPT !.at = "payload", !.payload = p]
    BY <1>1, <1>3, <1>10 DEF ReadLinks, AuditReads
  <2>2. /\ p \in Reads /\ p.batch = reader.payload.batch /\ p.count = reader.payload.count
        /\ p.first = reader.payload.first /\ p.triggers = links[b]
    BY <1>2, <1>6 DEF Reads
  <2> HIDE DEF p
  <2>3. /\ reader' \in AuditReads /\ reader'.at = "payload" /\ reader'.upto = reader.upto
        /\ reader'.stored = reader.stored /\ reader'.observed = reader.observed
        /\ reader'.entry = reader.entry /\ reader'.payload = p
    BY <1>1, <2>1, <2>2 DEF AuditReads
  <2>4. reader.at = "links"  BY <1>10 DEF ReadLinks
  <2>5. Halfway(reader'.at, reader'.payload, head[reader'.entry].batch)
    BY <1>4, <2>2, <2>3, <2>4 DEF Halfway, RowRead, b
  <2>6. reader'.at # "alarm"  BY <2>3
  <2> QED BY <1>1, <1>2, <2>3, <2>5, <2>6, AuditMoves
<1>11. CASE ReadEvents
  <2>1. CASE Digest(ledger[reader.entry].prev, ReadPayload) = ledger[reader.entry].hash
    <3>1. reader' = [reader EXCEPT !.at = "entry", !.entry = @ + 1]  BY <1>11, <2>1 DEF ReadEvents
    <3> QED BY <1>8, <3>1
  <2>2. CASE Digest(ledger[reader.entry].prev, ReadPayload) # ledger[reader.entry].hash
    <3>1. reader' = [reader EXCEPT !.at = "alarm"]  BY <1>11, <2>2 DEF ReadEvents
    <3>2. /\ reader' \in AuditReads /\ reader'.at = "alarm" /\ reader'.upto = reader.upto
          /\ reader'.stored = reader.stored /\ reader'.observed = reader.observed
          /\ reader'.entry = reader.entry
      BY <1>1, <3>1 DEF AuditReads
    <3>3. rows[b] = NoRow
      <4> SUFFICES ASSUME rows[b] # NoRow PROVE FALSE  OBVIOUS
      <4>1. reader.at = "payload"  BY <1>11 DEF ReadEvents
      <4>2. RowRead(reader.payload, b) /\ reader.payload.triggers = links[b]  BY <1>4, <4>1 DEF Halfway
      <4>3. ReadPayload = Payload(b, [count |-> rows[b].count, first |-> rows[b].first], links[b], events[b])
        BY <1>3, <4>2 DEF ReadPayload, RowRead
      <4>4. ReadPayload = CurrentPayload(b)  BY <4>3 DEF Payload, CurrentPayload
      <4>5. head[reader.entry] = CurrentPayload(b)  BY <1>3, <1>5 DEF Faithful, b
      <4>6. Digest(ledger[reader.entry].prev, head[reader.entry]) = ledger[reader.entry].hash
        BY <1>3, <1>5, LedgerFacts
      <4> QED BY <2>2, <4>4, <4>5, <4>6
    <3>4. rows[head[reader'.entry].batch] = NoRow  BY <3>2, <3>3 DEF b
    <3>5. reader'.at \notin {"row", "links", "payload"}  BY <3>2
    <3> QED BY <1>1, <1>2, <3>2, <3>4, <3>5, AuditMoves
  <2> QED BY <2>1, <2>2
<1> QED BY <1>9, <1>10, <1>11

-----------------------------------------------------------------------------
(* The first step of an export, and the chain of its parts.                 *)

LEMMA ChainStays ==
  ASSUME ChainInv, UNCHANGED dbvars, chain' = chain
  PROVE  ChainInv'
<1>1. rows' = rows /\ events' = events /\ ledger' = ledger  BY DEF dbvars
<1>2. NextId' = NextId  BY <1>1 DEF NextId
<1>3. \A b \in Ids : Wanted(b)' <=> Wanted(b)  BY <1>1 DEF Wanted, Stored, Matching
<1> QED BY <1>2, <1>3 DEF ChainInv, Descending, Ids, Filters, All, ToSet

\* A chain none of whose parts is delivered.
LEMMA NoPartsYet ==
  ASSUME UNCHANGED dbvars, chain' \in [filter : Filters, next : Nat, top : Nat, parts : Seq(Ids)],
         chain'.next = 0, chain'.parts = <<>>, chain'.top < NextId
  PROVE  ChainInv'
<1>1. NextId' = NextId  BY DEF dbvars, NextId
<1>2. Descending(chain.parts)'  BY DEF Descending
<1>3. (chain \in [filter : Filters, next : Nat, top : Nat, parts : Seq(Ids)])'  BY DEF Filters, Ids, All
<1> QED BY <1>1, <1>2, <1>3 DEF ChainInv

LEMMA ChainEnds ==
  ASSUME LedgerInv, UNCHANGED dbvars, chain' = NoChain
  PROVE  ChainInv'
<1>1. head \in Seq(Payloads) /\ ledger = LedgerOf(head) /\ InOrder  BY DEF LedgerInv, Shape
<1>2. NextId \in Nat /\ NextId > Legacy /\ Legacy \in Nat  BY <1>1, NextIdIs, Bounds
<1>3. 0 < NextId  BY <1>2
<1>4. All \in Filters  BY DEF Filters
<1>5. NoChain \in [filter : Filters, next : Nat, top : Nat, parts : Seq(Ids)]
      /\ NoChain.next = 0 /\ NoChain.parts = <<>> /\ NoChain.top = 0
  BY <1>4 DEF NoChain
<1> QED BY <1>3, <1>5, NoPartsYet

\* What is stored is below the next batch id.
LEMMA StoredBelowNext ==
  ASSUME LedgerInv, NEW b \in Stored
  PROVE  b \in Ids /\ b \in Nat /\ b < NextId
<1>1. head \in Seq(Payloads) /\ ledger = LedgerOf(head) /\ InOrder /\ Phases  BY DEF LedgerInv, Shape
<1>2. b \in Ids /\ b \in Nat /\ rows[b] # NoRow /\ Legacy \in Nat  BY Bounds DEF Stored, Ids
<1>3. NextId \in Nat /\ NextId > Legacy /\ \A i \in 1 .. Len(head) : head[i].batch < NextId
  BY <1>1, NextIdIs
<1>4. CASE b > Legacy
  <2>1. Has(head, b)  BY <1>1, <1>2, <1>4 DEF Phases
  <2> QED BY <1>2, <1>3, <2>1 DEF Has
<1>5. CASE ~(b > Legacy)  BY <1>2, <1>3, <1>5
<1> QED BY <1>2, <1>4, <1>5

\* The first page below the cursor: what it leaves out lies below it.
LEMMA ExportStarts ==
  ASSUME LedgerInv, ChainInv, NEW f \in Filters, Export(f)
  PROVE  ChainInv' /\ Exporting'
<1> DEFINE found == Selected(f, chain.next)
           page == Newest(found, PageLimit)
           top == IF found = {} THEN 0 ELSE Max(found)
           at == IF page = {} THEN "pack" ELSE "batch"
<1>1. /\ boot = "serving" /\ (chain.next > 0 => f = chain.filter) /\ UNCHANGED dbvars /\ UNCHANGED bootvars
      /\ reader' = [kind |-> "export", at |-> at, filter |-> f, todo |-> page, spent |-> 0,
                    more |-> found # page, full |-> FALSE, got |-> <<>>, ts |-> {}, payload |-> Unread]
      /\ chain' = IF chain.next > 0 THEN chain ELSE [NoChain EXCEPT !.filter = f, !.top = top]
  BY DEF Export
<1>2. rows' = rows /\ events' = events /\ links' = links /\ ledger' = ledger /\ head' = head /\ boot' = boot
  BY <1>1 DEF dbvars, bootvars
<1>3. chain \in [filter : Filters, next : Nat, top : Nat, parts : Seq(Ids)] /\ chain.top < NextId
  BY DEF ChainInv
<1>4. found \in SUBSET Ids /\ \A b \in found : b \in Stored /\ (chain.next > 0 => b < chain.next)
  BY <1>3 DEF Selected, Stored
<1>5. \A b \in found : b \in Nat /\ b < NextId  BY <1>4, StoredBelowNext
<1>6. IsFiniteSet(found) /\ found \in SUBSET Nat
  <2>1. IsFiniteSet(Ids)  BY FS_Interval, Bounds DEF Ids
  <2> QED BY <1>4, <1>5, <2>1, FS_Subset
<1>7. page \subseteq found  BY DEF Newest
<1>8. \A b \in found \ page : \A c \in page : b < c
  <2> TAKE b \in found \ page
  <2> TAKE c \in page
  <2>1. b \in Nat /\ c \in Nat /\ c # b  BY <1>5, <1>7
  <2>2. PageLimit \in Nat  BY EvidenceAssumption
  <2>3. ~(b > c)
    <3> HIDE DEF found
    <3> QED BY <1>6, <2>2, NewestIsUpward
  <2> QED BY <2>1, <2>3
<1>9. top \in Nat /\ top < NextId
  <2>1. head \in Seq(Payloads) /\ ledger = LedgerOf(head) /\ InOrder  BY DEF LedgerInv, Shape
  <2>2. NextId \in Nat /\ NextId > Legacy /\ Legacy \in Nat  BY <2>1, NextIdIs, Bounds
  <2>3. CASE found = {}  BY <2>2, <2>3
  <2>4. CASE found # {}
    <3>1. \A x \in found : x <= NextId  BY <1>5, <2>2
    <3>2. Max(found) \in found
      <4> HIDE DEF found
      <4> QED BY <1>6, <2>2, <2>4, <3>1, MaxIsGreatest
    <3> QED BY <1>5, <2>4, <3>2
  <2> QED BY <2>3, <2>4
<1>10. ASSUME NEW b \in Ids, b \in Stored, Matching(b, f) # {}, chain.next > 0 => b < chain.next
       PROVE  b \in found
  BY <1>3, <1>10 DEF Selected
<1> DEFINE more == found # page
<1>11. (more => TRUE) /\ more \in BOOLEAN /\ \A b \in found : b \in page \/ (more /\ \A c \in page : b < c)
  BY <1>8
<1> HIDE DEF found, page, top, at, more
<1>12. at \in {"pack", "batch"} /\ (at = "pack" <=> page = {})  BY DEF at
<1>13. page \in SUBSET Ids  BY <1>4, <1>7
<1>14. /\ reader' \in ExportReads /\ reader'.at = at /\ reader'.filter = f /\ reader'.todo = page
       /\ reader'.got = <<>> /\ reader'.more = more /\ reader'.full = FALSE
  <2>1. Unread \in Reads  BY DEF Unread, Reads
  <2>2. reader' = [kind |-> "export", at |-> at, filter |-> f, todo |-> page, spent |-> 0,
                   more |-> more, full |-> FALSE, got |-> <<>>, ts |-> {}, payload |-> Unread]
    BY <1>1 DEF more
  <2>3. <<>> \in Seq(Loads)  OBVIOUS
  <2> QED BY <1>11, <1>12, <1>13, <2>1, <2>2, <2>3 DEF ExportReads
<1>15. chain'.filter = f /\ chain'.next = chain.next
  <2>1. CASE chain.next > 0  BY <1>1, <2>1
  <2>2. CASE ~(chain.next > 0)
    <3>1. chain' = [NoChain EXCEPT !.filter = f, !.top = top]  BY <1>1, <2>2
    <3>2. chain'.filter = f /\ chain'.next = 0  BY <3>1 DEF NoChain
    <3> QED BY <1>3, <2>2, <3>2
  <2> QED BY <2>1, <2>2
<1>16. ChainInv'
  <2>1. CASE chain.next > 0  BY <1>1, <2>1, ChainStays
  <2>2. CASE ~(chain.next > 0)
    <3>1. chain' = [NoChain EXCEPT !.filter = f, !.top = top]  BY <1>1, <2>2
    <3>2. All \in Filters  BY DEF Filters
    <3>3. NoChain \in [filter : Filters, next : Nat, top : Nat, parts : Seq(Ids)]
          /\ NoChain.next = 0 /\ NoChain.parts = <<>>
      BY <3>2 DEF NoChain
    <3>4. chain' \in [filter : Filters, next : Nat, top : Nat, parts : Seq(Ids)]
          /\ chain'.next = 0 /\ chain'.parts = <<>> /\ chain'.top = top
      BY <1>9, <3>1, <3>3
    <3> QED BY <1>1, <1>9, <3>4, NoPartsYet
  <2> QED BY <2>1, <2>2
<1>17. NextId' = NextId  BY <1>2 DEF NextId
<1>18. PageOrder'
  <2>1. Len(reader'.got) = 0  BY <1>14
  <2>2. \A b \in page : b < NextId /\ (chain.next > 0 => b < chain.next)  BY <1>4, <1>5, <1>7
  <2>3. Descending(GotIds(reader.got))'  BY <2>1 DEF Descending, GotIds
  <2> QED BY <1>14, <1>15, <1>17, <2>1, <2>2, <2>3 DEF PageOrder
<1>19. Pending'
  <2>1. Len(reader'.got) = 0  BY <1>14
  <2>2. ASSUME NEW b \in Ids, Wanted(b)', chain.next > 0 => b < chain.next PROVE b \in found
    <3>1. b \in Stored  BY <1>2, <2>2 DEF Wanted, Stored
    <3>2. Matching(b, f) # {}  BY <1>2, <1>15, <2>2 DEF Wanted, Matching, All
    <3> QED BY <1>10, <2>2, <3>1, <3>2
  <2>3. \A b \in Ids : Wanted(b)' /\ (chain'.next > 0 => b < chain'.next) =>
          b \in page \/ (more /\ \A c \in page : b < c)
    BY <1>11, <1>15, <2>2
  <2> QED BY <1>14, <2>1, <2>3 DEF Pending, Ids
<1>20. (\A i \in 1 .. Len(reader.got) : Entered(reader.got[i]))'  BY <1>14
<1>21. (/\ reader \in ExportReads /\ boot = "serving" /\ reader.filter = chain.filter
        /\ (reader.at # "pack" => reader.todo # {}) /\ (reader.at = "pack" /\ ~reader.full => reader.todo = {}))'
  <2>1. (reader \in ExportReads)'  BY <1>14 DEF ExportReads, Loads, Reads, Payloads, Filters, Ids, All
  <2> QED BY <1>1, <1>2, <1>12, <1>14, <1>15, <2>1
<1>22. reader'.at \notin {"row", "links", "payload", "events"}  BY <1>12, <1>14
<1> QED BY <1>16, <1>18, <1>19, <1>20, <1>21, <1>22 DEF Exporting

-----------------------------------------------------------------------------
(* The pack of a page: its batches, and the part of the chain that spans    *)
(* them.                                                                    *)

LEMMA PrefixIs ==
  ASSUME NEW X, NEW s \in Seq(X), NEW n \in 0 .. Len(s)
  PROVE  /\ Prefix(s, n) \in Seq(X) /\ Len(Prefix(s, n)) = n /\ n \in Nat
         /\ \A i \in 1 .. n : i \in 1 .. Len(s) /\ s[i] \in X /\ Prefix(s, n)[i] = s[i]
<1>1. Len(s) \in Nat  BY LenProperties
<1>2. \A i \in 1 .. n : i \in 1 .. Len(s) /\ s[i] \in X  BY <1>1, ElementOfSeq
<1>3. /\ SubSeq(s, 1, n) \in Seq(X)
      /\ Len(SubSeq(s, 1, n)) = IF 1 <= n THEN n - 1 + 1 ELSE 0
      /\ \A i \in 1 .. n - 1 + 1 : SubSeq(s, 1, n)[i] = s[1 + i - 1]
  BY <1>1, <1>2, SubSeqProperties
<1> QED BY <1>1, <1>2, <1>3 DEF Prefix

LEMMA CheckpointIs ==
  ASSUME NEW s \in Nat, s > 0
  PROVE  /\ CheckpointSequence(s) \in Nat /\ CheckpointSequence(s) >= 1 /\ CheckpointSequence(s) <= s
         /\ \A r \in Nat : r > 0 /\ r <= s => CheckpointSequence(r) <= CheckpointSequence(s)
BY DEF CheckpointSequence

\* The sequences of some batches are bounded, and each is of one of them.
LEMMA SequencesAre ==
  ASSUME NEW got \in Seq(Loads), NEW m \in Nat, \A i \in 1 .. Len(got) : got[i].seq <= m
  PROVE  /\ \A s \in Sequences(got) : s \in Nat /\ s > 0 /\ s <= m /\ \E i \in 1 .. Len(got) : got[i].seq = s
         /\ \A i \in 1 .. Len(got) : got[i].seq \in Nat /\ (got[i].seq > 0 => got[i].seq \in Sequences(got))
         /\ Sequences(got) # {} =>
              /\ Min(Sequences(got)) \in Sequences(got) /\ Max(Sequences(got)) \in Sequences(got)
              /\ \A s \in Sequences(got) : Min(Sequences(got)) <= s /\ s <= Max(Sequences(got))
<1>1. \A i \in 1 .. Len(got) : got[i].seq \in Nat
  <2>1. \A i \in 1 .. Len(got) : got[i] \in Loads  BY ElementOfSeq
  <2> QED BY <2>1 DEF Loads
<1>2. DOMAIN got = 1 .. Len(got)  OBVIOUS
<1>3. \A s \in Sequences(got) : s \in Nat /\ s > 0 /\ s <= m /\ \E i \in 1 .. Len(got) : got[i].seq = s
  BY <1>1, <1>2 DEF Sequences
<1>4. \A i \in 1 .. Len(got) : got[i].seq > 0 => got[i].seq \in Sequences(got)
  BY <1>1, <1>2 DEF Sequences
<1>5. Sequences(got) \in SUBSET Nat /\ \A s \in Sequences(got) : s <= m  BY <1>3
<1>6. Sequences(got) # {} =>
        /\ Min(Sequences(got)) \in Sequences(got) /\ Max(Sequences(got)) \in Sequences(got)
        /\ \A s \in Sequences(got) : Min(Sequences(got)) <= s /\ s <= Max(Sequences(got))
  BY <1>5, MinIsLeast, MaxIsGreatest
<1> QED BY <1>1, <1>3, <1>4, <1>6

\* The segment is what is newest of the chain, so it has the whole span of
\* batches whose checkpoints it reaches.
LEMMA SpanIs ==
  ASSUME NEW got \in Seq(Loads), NEW m \in Nat, \A i \in 1 .. Len(got) : got[i].seq <= m,
         NEW n \in 0 .. Len(got), Sequences(Prefix(got, n)) # {},
         \A i \in 1 .. n : got[i].seq > 0 => CheckpointSequence(got[i].seq) >= Min(Segment(got))
  PROVE  Spanning(Prefix(got, n), Segment(got)) =
           CheckpointSequence(Min(Sequences(Prefix(got, n)))) .. Max(Sequences(Prefix(got, n)))
<1> DEFINE P == Prefix(got, n)
           A == Sequences(got)
           B == Sequences(P)
           lo == CheckpointSequence(Min(A))
           hi == Max(A)
           S == Segment(got)
           lo2 == CheckpointSequence(Min(B))
           hi2 == Max(B)
<1>1. P \in Seq(Loads) /\ Len(P) = n /\ \A i \in 1 .. n : i \in 1 .. Len(got) /\ P[i] = got[i]
  BY PrefixIs
<1>2. /\ \A s \in A : s \in Nat /\ s > 0 /\ s <= m
      /\ \A i \in 1 .. Len(got) : got[i].seq > 0 => got[i].seq \in A
      /\ (A # {} => Min(A) \in A /\ Max(A) \in A /\ \A s \in A : Min(A) <= s /\ s <= Max(A))
  BY SequencesAre
<1>3. /\ \A s \in B : s \in Nat /\ s > 0 /\ \E i \in 1 .. n : P[i].seq = s
      /\ Min(B) \in B /\ Max(B) \in B /\ \A s \in B : Min(B) <= s /\ s <= Max(B)
  <2>1. \A i \in 1 .. Len(P) : P[i].seq <= m  BY <1>1
  <2>2. Len(P) = n  BY <1>1
  <2>3. P \in Seq(Loads) /\ B # {}  BY <1>1
  <2> HIDE DEF P
  <2>4. /\ \A s \in B : s \in Nat /\ s > 0 /\ \E i \in 1 .. Len(P) : P[i].seq = s
        /\ Min(B) \in B /\ Max(B) \in B /\ \A s \in B : Min(B) <= s /\ s <= Max(B)
    BY <2>1, <2>3, SequencesAre
  <2> QED BY <2>2, <2>4
<1>4. \A s \in B : s \in A /\ CheckpointSequence(s) >= Min(S)
  <2> TAKE s \in B
  <2>1. PICK i \in 1 .. n : P[i].seq = s  BY <1>3
  <2>2. got[i].seq = s /\ i \in 1 .. Len(got) /\ s > 0  BY <1>1, <1>3, <2>1
  <2> QED BY <1>2, <2>2
<1>5. A # {}  BY <1>3, <1>4
<1>6. S = Newest(lo .. hi, MaxLinks)  BY <1>5 DEF Segment
<1>7. Spanning(P, S) = S \cap (lo2 .. hi2)  BY DEF Spanning
<1> HIDE DEF P, A, B, lo, hi, S, lo2, hi2
<1>8. lo \in Nat /\ hi \in Nat /\ lo <= hi /\ lo >= 1
  <2>1. Min(A) \in Nat /\ Min(A) > 0 /\ Max(A) \in Nat /\ Min(A) <= Max(A)  BY <1>2, <1>5
  <2>2. lo \in Nat /\ lo <= Min(A) /\ lo >= 1  BY <2>1, CheckpointIs DEF lo
  <2> QED BY <2>1, <2>2 DEF hi
<1>9. lo2 \in Nat /\ hi2 \in Nat /\ hi2 <= hi /\ lo2 >= Min(S) /\ lo <= lo2
  <2>1. Min(B) \in Nat /\ Min(B) > 0 /\ Max(B) \in Nat /\ Min(B) \in A /\ Max(B) \in A  BY <1>3, <1>4
  <2>2. lo2 \in Nat /\ lo2 >= Min(S)  BY <1>3, <1>4, <2>1, CheckpointIs DEF lo2
  <2>3. hi2 \in Nat /\ hi2 <= hi  BY <1>2, <1>5, <2>1 DEF hi, hi2
  <2>4. Min(A) \in Nat /\ Min(A) > 0 /\ Min(A) <= Min(B)  BY <1>2, <1>5, <2>1
  <2>5. lo <= lo2  BY <2>1, <2>4, CheckpointIs DEF lo, lo2
  <2> QED BY <2>2, <2>3, <2>5
<1>10. MaxLinks \in Nat /\ MaxLinks > 0  BY EvidenceAssumption
<1>11. S \subseteq lo .. hi /\ \A b \in lo .. hi : b \in S <=> hi - b < MaxLinks
  BY <1>6, <1>8, <1>10, NewestOfInterval DEF Newest
<1>12. Min(S) \in S /\ Min(S) \in Nat
  <2>1. S \in SUBSET Nat  BY <1>8, <1>11
  <2>2. hi \in S  BY <1>8, <1>10, <1>11
  <2> QED BY <2>1, <2>2, MinIsLeast
<1>13. \A b \in lo2 .. hi2 : b \in S
  <2> TAKE b \in lo2 .. hi2
  <2>1. b \in lo .. hi /\ Min(S) <= b  BY <1>8, <1>9, <1>12
  <2>2. hi - Min(S) < MaxLinks  BY <1>11, <1>12
  <2>3. hi - b < MaxLinks  BY <1>8, <1>10, <1>12, <2>1, <2>2
  <2> QED BY <1>11, <2>1, <2>3
<1>14. Spanning(P, S) = lo2 .. hi2  BY <1>7, <1>13
<1> QED BY <1>14 DEF P, S, lo2, hi2, B

\* The links over a span of the ledger, in order; and what they are.
LinksOver(ls, lo, hi) ==
  /\ DOMAIN ls = 1 .. (hi - lo) + 1 /\ Len(ls) = (hi - lo) + 1
  /\ \A i \in 1 .. (hi - lo) + 1 : ls[i] = Link((lo + i) - 1)
Contiguous(ls, lo, hi) ==
  /\ ls # <<>> /\ ls[1].seq = lo /\ Last(ls).seq = hi
  /\ (ls[1].seq = 1 => ls[1].prev = <<>>)
  /\ \A i \in 2 .. Len(ls) : ls[i].seq = ls[i - 1].seq + 1 /\ ls[i].prev = ls[i - 1].hash
  /\ \A s \in lo .. hi : \E j \in DOMAIN ls : ls[j] = Link(s)

LEMMA LinksOf ==
  ASSUME head \in Seq(Payloads), ledger = LedgerOf(head), NEW lo \in Nat, NEW hi \in Nat,
         1 <= lo, lo <= hi, hi <= Len(head), NEW ls, LinksOver(ls, lo, hi)
  PROVE  Contiguous(ls, lo, hi)
<1> DEFINE k == (hi - lo) + 1
<1>1. Len(head) \in Nat /\ k \in Nat /\ k >= 1 /\ k = (hi - lo) + 1
  BY LenProperties
<1>4. DOMAIN ls = 1 .. k /\ \A i \in 1 .. k : ls[i] = Link((lo + i) - 1)  BY DEF LinksOver
<1>5. Len(ls) = k  BY DEF LinksOver
<1> HIDE DEF k
<1>6. \A s \in lo .. hi : s \in 1 .. Len(head)  BY <1>1
<1>7. \A i \in 1 .. k : (lo + i) - 1 \in lo .. hi  BY <1>1
<1>8. \A s \in lo .. hi : Link(s).seq = s /\ Link(s).prev = ledger[s].prev /\ Link(s).hash = ledger[s].hash
  BY DEF Link
<1>9. 1 \in 1 .. k /\ k \in 1 .. k /\ (lo + 1) - 1 = lo /\ (lo + k) - 1 = hi  BY <1>1
<1>10. ls[1] = Link(lo) /\ ls[k] = Link(hi)  BY <1>4, <1>9
<1>11. ls[1].seq = lo /\ ls[k].seq = hi  BY <1>8, <1>10
<1>12. ls[1].seq = 1 => ls[1].prev = <<>>
  BY <1>6, <1>8, <1>10, <1>11, LedgerFacts
<1>13. ASSUME NEW i \in 2 .. k PROVE ls[i].seq = ls[i - 1].seq + 1 /\ ls[i].prev = ls[i - 1].hash
  <2> DEFINE s == (lo + i) - 1
  <2>1. i \in 1 .. k /\ i - 1 \in 1 .. k /\ (lo + (i - 1)) - 1 = s - 1 /\ s - 1 \in Nat /\ s > 1 /\ s = (s - 1) + 1
    BY <1>1
  <2>2. ls[i] = Link(s) /\ ls[i - 1] = Link(s - 1)  BY <1>4, <2>1
  <2>3. s \in lo .. hi /\ s - 1 \in lo .. hi  BY <1>7, <2>1
  <2> HIDE DEF s
  <2>4. ledger[s].prev = ledger[s - 1].hash  BY <1>6, <2>1, <2>3, LedgerFacts
  <2>5. ls[i].seq = s /\ ls[i].prev = ledger[s].prev  BY <1>8, <2>2, <2>3
  <2>6. ls[i - 1].seq = s - 1 /\ ls[i - 1].hash = ledger[s - 1].hash  BY <1>8, <2>2, <2>3
  <2> QED BY <2>1, <2>4, <2>5, <2>6
<1>14. ASSUME NEW s \in lo .. hi PROVE \E j \in DOMAIN ls : ls[j] = Link(s)
  <2>1. (s - lo) + 1 \in 1 .. k /\ (lo + ((s - lo) + 1)) - 1 = s  BY <1>1
  <2> QED BY <1>4, <2>1
<1>15. ls # <<>>
  <2>1. 1 \in DOMAIN ls  BY <1>4, <1>9
  <2> QED BY <2>1
<1> QED BY <1>1, <1>4, <1>5, <1>11, <1>12, <1>13, <1>14, <1>15 DEF Last, Contiguous

\* As many batches as fit stay within the segment.
LEMMA FittingIs ==
  ASSUME NEW got \in Seq(Loads)
  PROVE  /\ Fitting(got) \in 0 .. Len(got)
         /\ \A i \in 1 .. Fitting(got) : got[i].seq > 0 => CheckpointSequence(got[i].seq) >= Min(Segment(got))
<1> DEFINE S == {n \in 0 .. Len(got) : WithinCaps(got, n)}
<1>1. Len(got) \in Nat  BY LenProperties
<1>2. 0 \in S
  <2>1. Prefix(got, 0) = <<>>  BY SubSeqEmpty DEF Prefix
  <2>2. EventCount(<<>>) = 0
    <3>1. UNION {{i} \X <<>>[i].events : i \in DOMAIN <<>>} = {}  OBVIOUS
    <3> QED BY <3>1, FS_EmptySet DEF EventCount
  <2>3. 0 <= MaxEvents  BY Bounds
  <2>4. WithinCaps(got, 0)  BY <2>1, <2>2, <2>3 DEF WithinCaps
  <2> QED BY <1>1, <2>4
<1>3. Fit(got) \in S
  <2>1. S \in SUBSET Nat /\ S # {} /\ \A x \in S : x <= Len(got)  BY <1>1, <1>2
  <2>2. Fit(got) = Max(S)  BY DEF Fit
  <2> HIDE DEF S
  <2> QED BY <1>1, <2>1, <2>2, MaxIsGreatest
<1> DEFINE small == {n \in 1 .. Fit(got) : Encoded(got, n) <= MaxPack}
<1>4. Fit(got) \in 0 .. Len(got) /\ WithinCaps(got, Fit(got))  BY <1>3
<1>5. Fitting(got) \in 0 .. Fit(got)
  <2>1. Fitting(got) = IF small = {} THEN 0 ELSE Max(small)  BY DEF Fitting
  <2>2. Fit(got) \in Nat  BY <1>1, <1>4
  <2>3. small \in SUBSET Nat /\ \A x \in small : x <= Fit(got) /\ x \in 0 .. Fit(got)  BY <2>2
  <2> HIDE DEF small
  <2>4. CASE small = {}  BY <2>1, <2>2, <2>4
  <2>5. CASE small # {}
    <3>1. Max(small) \in small  BY <2>2, <2>3, <2>5, MaxIsGreatest
    <3> QED BY <2>1, <2>3, <2>5, <3>1
  <2> QED BY <2>4, <2>5
<1>6. ASSUME NEW i \in 1 .. Fitting(got), got[i].seq > 0
      PROVE  CheckpointSequence(got[i].seq) >= Min(Segment(got))
  <2>1. i \in 1 .. Fit(got)  BY <1>1, <1>4, <1>5
  <2> QED BY <1>4, <1>6, <2>1 DEF WithinCaps
<1>7. Fitting(got) \in 0 .. Len(got)  BY <1>1, <1>4, <1>5
<1> QED BY <1>6, <1>7

\* What the verifier asks of the batches and the links of a pack, of any
\* number of loaded batches within the segment.
LEMMA PackLinks ==
  ASSUME LedgerInv, NEW got \in Seq(Loads), Descending(GotIds(got)), Unmixed(got),
         \A i \in 1 .. Len(got) : Entered(got[i]),
         NEW n \in 0 .. Len(got),
         \A i \in 1 .. n : got[i].seq > 0 => CheckpointSequence(got[i].seq) >= Min(Segment(got)),
         NEW p, p.batches = Prefix(got, n),
         p.links = LET span == Spanning(Prefix(got, n), Segment(got))
                   IN [i \in 1 .. Cardinality(span) |-> Link(Nth(span, i))]
  PROVE  /\ Unmixed(p.batches)
         /\ \A i, j \in DOMAIN p.batches : i # j /\ p.batches[i].seq > 0 => p.batches[i].seq # p.batches[j].seq
         /\ IF Sequences(p.batches) = {} THEN p.links = <<>>
            ELSE Linked(p) /\ \A i \in DOMAIN p.batches : Bound(p.batches[i])
<1> DEFINE P == Prefix(got, n)
<1>1. /\ P \in Seq(Loads) /\ Len(P) = n /\ n \in Nat
      /\ \A i \in 1 .. n : i \in 1 .. Len(got) /\ got[i] \in Loads /\ P[i] = got[i]
  BY PrefixIs
<1>2. head \in Seq(Payloads) /\ ledger = LedgerOf(head) /\ Len(head) \in Nat  BY LenProperties DEF LedgerInv, Shape
<1>3. Len(got) \in Nat /\ DOMAIN got = 1 .. Len(got)  BY LenProperties
<1> HIDE DEF P
<1>4. DOMAIN P = 1 .. n  BY <1>1
<1>5. \A i \in 1 .. Len(got) : got[i].seq \in Nat /\ got[i].seq <= Len(head) /\ got[i].id \in Nat
  <2> TAKE i \in 1 .. Len(got)
  <2>1. got[i] \in Loads /\ Entered(got[i])  BY ElementOfSeq
  <2>2. got[i].seq \in Nat /\ got[i].id \in Nat
    <3>1. ASSUME NEW r \in Loads PROVE r.seq \in Nat /\ r.id \in Nat  BY DEF Loads, Ids
    <3> QED BY <2>1, <3>1
  <2>3. got[i].seq > 0 => got[i].seq <= Len(head)  BY <2>1 DEF Entered
  <2> QED BY <1>2, <2>2, <2>3
<1>6. Unmixed(P)
  <2> SUFFICES ASSUME NEW i \in 1 .. n, NEW j \in 1 .. n PROVE P[i].seq > 0 <=> P[j].seq > 0
    BY <1>4 DEF Unmixed
  <2>1. i \in DOMAIN got /\ j \in DOMAIN got /\ P[i] = got[i] /\ P[j] = got[j]  BY <1>1, <1>3
  <2> QED BY <2>1 DEF Unmixed
<1>7. ASSUME NEW i \in 1 .. n, NEW j \in 1 .. n, i # j, P[i].seq > 0 PROVE P[i].seq # P[j].seq
  <2> SUFFICES ASSUME P[i].seq = P[j].seq PROVE FALSE  OBVIOUS
  <2>1. i \in 1 .. Len(got) /\ j \in 1 .. Len(got) /\ P[i] = got[i] /\ P[j] = got[j]  BY <1>1
  <2>2. got[i].id = got[j].id  BY <1>7, <2>1 DEF Entered
  <2>3. GotIds(got)[i] = got[i].id /\ GotIds(got)[j] = got[j].id  BY <2>1 DEF GotIds
  <2>4. Len(GotIds(got)) = Len(got)  BY <1>3 DEF GotIds
  <2>5. got[i].id \in Nat /\ got[j].id \in Nat  BY <1>5, <2>1
  <2>6. i < j \/ j < i  BY <1>1, <1>7
  <2> QED BY <2>1, <2>2, <2>3, <2>4, <2>5, <2>6 DEF Descending
<1>8. CASE Sequences(P) = {}
  <2>1. Spanning(P, Segment(got)) = {}  BY <1>8 DEF Spanning
  <2> DEFINE k == Cardinality({})
             none == [i \in 1 .. k |-> Link(Nth({}, i))]
  <2>2. p.links = none  BY <2>1 DEF P
  <2>3. k = 0  BY FS_EmptySet
  <2> HIDE DEF k
  <2>4. none = <<>>  BY <2>3
  <2> HIDE DEF none
  <2>5. p.links = <<>>  BY <2>2, <2>4
  <2> QED BY <1>4, <1>6, <1>7, <1>8, <2>5 DEF P
<1>9. CASE Sequences(P) # {}
  <2> DEFINE B == Sequences(P)
             lo == CheckpointSequence(Min(B))
             hi == Max(B)
  <2>1. Spanning(P, Segment(got)) = lo .. hi
    <3>1. \A i \in 1 .. Len(got) : got[i].seq <= Len(head)  BY <1>5
    <3> QED BY <1>2, <1>9, <3>1, SpanIs DEF P
  <2>2. /\ \A s \in B : s \in Nat /\ s > 0 /\ s <= Len(head) /\ \E i \in 1 .. n : P[i].seq = s
        /\ \A i \in 1 .. n : P[i].seq \in Nat /\ (P[i].seq > 0 => P[i].seq \in B)
        /\ Min(B) \in B /\ Max(B) \in B /\ \A s \in B : Min(B) <= s /\ s <= Max(B)
    <3>1. \A i \in 1 .. Len(P) : P[i].seq <= Len(head)  BY <1>1, <1>5
    <3> QED BY <1>1, <1>2, <1>9, <3>1, SequencesAre
  <2> DEFINE ls == p.links
  <2>3. ls = [i \in 1 .. Cardinality(lo .. hi) |-> Link(Nth(lo .. hi, i))]
    BY <2>1 DEF P
  <2> HIDE DEF B
  <2>4. lo \in Nat /\ hi \in Nat /\ 1 <= lo /\ lo <= Min(B) /\ lo <= hi /\ hi <= Len(head)
    <3>1. Min(B) \in Nat /\ Min(B) > 0 /\ Max(B) \in Nat /\ Min(B) <= Max(B) /\ Max(B) <= Len(head)  BY <2>2
    <3>2. lo \in Nat /\ 1 <= lo /\ lo <= Min(B)  BY <3>1, CheckpointIs
    <3> HIDE DEF lo
    <3> QED BY <3>1, <3>2
  <2> DEFINE k == (hi - lo) + 1
  <2>9. k \in Nat /\ k = (hi - lo) + 1  BY <2>4
  <2>10. Cardinality(lo .. hi) = k
    <3> HIDE DEF lo, hi
    <3>1. lo \in Int /\ hi \in Int  BY <2>4
    <3>2. Cardinality(lo .. hi) = IF lo > hi THEN 0 ELSE hi - lo + 1  BY <3>1, FS_Interval
    <3> QED BY <2>4, <3>2
  <2> HIDE DEF lo, hi
  <2>11. \A i \in 1 .. k : Nth(lo .. hi, i) = (lo + i) - 1  BY <2>4, NthOfInterval
  <2> HIDE DEF k
  <2>12. ls = [i \in 1 .. k |-> Link(Nth(lo .. hi, i))]  BY <2>3, <2>10
  <2> HIDE DEF ls
  <2>13. DOMAIN ls = 1 .. k /\ Len(ls) = k /\ \A i \in 1 .. k : ls[i] = Link((lo + i) - 1)
    <3>1. Len([i \in 1 .. k |-> Link(Nth(lo .. hi, i))]) = k  BY <2>9
    <3> QED BY <2>11, <2>12, <3>1
  <2>5. /\ ls # <<>> /\ ls[1].seq = lo /\ Last(ls).seq = hi
        /\ (ls[1].seq = 1 => ls[1].prev = <<>>)
        /\ \A i \in 2 .. Len(ls) : ls[i].seq = ls[i - 1].seq + 1 /\ ls[i].prev = ls[i - 1].hash
        /\ \A s \in lo .. hi : \E j \in DOMAIN ls : ls[j] = Link(s)
    <3>1. LinksOver(ls, lo, hi)  BY <2>9, <2>13 DEF LinksOver
    <3>2. Contiguous(ls, lo, hi)  BY <1>2, <2>4, <3>1, LinksOf
    <3> QED BY <3>2 DEF Contiguous
  <2>6. \A i \in 1 .. n : P[i].seq > 0
    <3> TAKE i \in 1 .. n
    <3>1. PICK j \in 1 .. n : P[j].seq = Min(B)  BY <2>2
    <3>2. P[j].seq > 0  BY <2>2, <3>1
    <3> QED BY <1>4, <1>6, <3>2 DEF Unmixed
  <2>7. ASSUME NEW i \in 1 .. n
        PROVE  /\ Bound(P[i])
               /\ \E j \in DOMAIN ls : /\ ls[j].seq = P[i].seq /\ ls[j].batch = P[i].id
                                       /\ ls[j].prev = P[i].prev /\ ls[j].hash = P[i].hash
    <3> DEFINE s == P[i].seq
    <3>1. s > 0 /\ s \in Nat /\ Min(B) <= s /\ s <= Max(B) /\ Min(B) \in Nat  BY <2>2, <2>6
    <3>2. s \in lo .. hi  BY <2>4, <3>1 DEF hi
    <3>3. PICK j \in DOMAIN ls : ls[j] = Link(s)  BY <2>5, <3>2
    <3>4. Entered(P[i])  BY <1>1
    <3>5. /\ ledger[s].batch = P[i].id /\ P[i].prev = ledger[s].prev /\ P[i].hash = ledger[s].hash /\ Bound(P[i])
      BY <2>6, <3>4 DEF Entered
    <3> HIDE DEF s
    <3>6. /\ ls[j].seq = s /\ ls[j].batch = ledger[s].batch /\ ls[j].prev = ledger[s].prev
          /\ ls[j].hash = ledger[s].hash
      BY <3>3 DEF Link
    <3> QED BY <3>5, <3>6 DEF s
  <2>8. Linked(p)
    <3>1. p.batches = P /\ p.links = ls  BY DEF P, ls
    <3>2. ls[1].seq = CheckpointSequence(Min(Sequences(P))) /\ Last(ls).seq = Max(Sequences(P))
      BY <2>5 DEF lo, hi, B
    <3> QED BY <1>4, <2>5, <2>7, <3>1, <3>2 DEF Linked
  <2> QED BY <1>4, <1>6, <1>7, <1>9, <2>7, <2>8 DEF P
<1> QED BY <1>8, <1>9

\* Batches below the cursor of a chain go on where its parts end.
LEMMA PartsGoOn ==
  ASSUME ChainInv, NEW ids \in Seq(Ids), Descending(ids),
         \A i \in 1 .. Len(ids) : chain.next > 0 => ids[i] < chain.next
  PROVE  /\ Descending(chain.parts \o ids) /\ chain.parts \o ids \in Seq(Ids)
         /\ Len(chain.parts \o ids) = Len(chain.parts) + Len(ids)
         /\ \A i \in 1 .. Len(ids) : (chain.parts \o ids)[Len(chain.parts) + i] = ids[i]
         /\ \A i \in 1 .. Len(ids) : ids[i] \in ToSet(chain.parts \o ids)
         /\ \A b \in ToSet(chain.parts) : b \in ToSet(chain.parts \o ids)
<1> DEFINE q == chain.parts
           a == q \o ids
           m == Len(q)
           n == Len(ids)
<1>1. q \in Seq(Ids) /\ chain.next \in Nat /\ Descending(q)  BY DEF ChainInv
<1>2. m \in Nat /\ n \in Nat /\ (\A i \in 1 .. m : q[i] \in Nat) /\ \A i \in 1 .. n : ids[i] \in Nat
  <2>1. \A i \in 1 .. m : q[i] \in Ids  BY <1>1, ElementOfSeq
  <2>2. \A i \in 1 .. n : ids[i] \in Ids  BY ElementOfSeq
  <2> QED BY <1>1, <2>1, <2>2, LenProperties DEF Ids
<1>3. /\ a \in Seq(Ids) /\ Len(a) = m + n
      /\ \A i \in 1 .. m + n : a[i] = IF i <= m THEN q[i] ELSE ids[i - m]
  BY <1>1, ConcatProperties
<1>4. \A i \in 1 .. m : chain.next > 0 /\ q[i] >= chain.next
  <2> TAKE i \in 1 .. m
  <2>1. q # <<>>  BY <1>2
  <2>2. chain.next # 0 /\ Last(q) = chain.next  BY <2>1 DEF ChainInv
  <2>3. q[m] = chain.next  BY <2>2 DEF Last
  <2>4. CASE i = m  BY <1>1, <1>2, <2>2, <2>3, <2>4
  <2>5. CASE i # m
    <3>1. i < m /\ m \in 1 .. m  BY <1>2, <2>5
    <3>2. q[m] < q[i]  BY <1>1, <3>1 DEF Descending
    <3> QED BY <1>1, <1>2, <2>2, <2>3, <3>2
  <2> QED BY <2>4, <2>5
<1> HIDE DEF q, a, m, n
<1>5. \A i \in 1 .. m : i \in 1 .. m + n /\ a[i] = q[i]  BY <1>2, <1>3
<1>6. \A i \in 1 .. n : m + i \in 1 .. m + n /\ a[m + i] = ids[i]
  <2> TAKE i \in 1 .. n
  <2>1. m + i \in 1 .. m + n /\ ~(m + i <= m) /\ (m + i) - m = i  BY <1>2
  <2> QED BY <1>3, <2>1
<1>7. ASSUME NEW i \in 1 .. m + n, NEW j \in 1 .. m + n, i < j PROVE a[j] < a[i]
  <2>1. CASE j <= m
    <3>1. i \in 1 .. m /\ j \in 1 .. m  BY <1>2, <1>7, <2>1
    <3>2. q[j] < q[i]  BY <1>1, <1>7, <3>1 DEF Descending, m
    <3> QED BY <1>5, <3>1, <3>2
  <2>2. CASE i <= m /\ ~(j <= m)
    <3>1. i \in 1 .. m /\ j - m \in 1 .. n  BY <1>2, <1>7, <2>2
    <3>2. a[i] = q[i] /\ a[j] = ids[j - m]  BY <1>3, <2>2
    <3>3. q[i] >= chain.next /\ ids[j - m] < chain.next  BY <1>4, <3>1 DEF n
    <3>4. q[i] \in Nat /\ ids[j - m] \in Nat  BY <1>2, <3>1
    <3> QED BY <1>1, <3>2, <3>3, <3>4
  <2>3. CASE ~(i <= m)
    <3>1. i - m \in 1 .. n /\ j - m \in 1 .. n /\ i - m < j - m /\ ~(j <= m)  BY <1>2, <1>7, <2>3
    <3>2. a[i] = ids[i - m] /\ a[j] = ids[j - m]  BY <1>3, <2>3, <3>1
    <3> QED BY <3>1, <3>2 DEF Descending, n
  <2> QED BY <1>2, <2>1, <2>2, <2>3
<1>8. Descending(a)  BY <1>3, <1>7 DEF Descending
<1>9. DOMAIN a = 1 .. m + n  BY <1>3
<1>10. \A i \in 1 .. n : ids[i] \in ToSet(a)  BY <1>6, <1>9 DEF ToSet
<1>11. \A b \in ToSet(q) : b \in ToSet(a)
  <2> TAKE b \in ToSet(q)
  <2>1. DOMAIN q = 1 .. m  BY <1>1 DEF m
  <2>2. PICK i \in 1 .. m : q[i] = b  BY <2>1 DEF ToSet
  <2> QED BY <1>5, <1>9, <2>2 DEF ToSet
<1> QED BY <1>3, <1>6, <1>8, <1>10, <1>11 DEF q, a, m, n

\* Signing a page: the pack verifies, goes on where the parts end, and a wanted
\* batch above its cursor is in it or in a part.
LEMMA PackSigns ==
  ASSUME LedgerInv, ChainInv, ReaderInv, Pack
  PROVE  reader' = Idle \/ SignedInv'
<1> DEFINE got == reader.got
           n == Fitting(got)
           hasNext == reader.more \/ reader.full
           next == IF ~hasNext THEN 0
                   ELSE IF got # <<>> THEN Last(got).id
                   ELSE IF reader.todo # {} THEN Current + 1 ELSE 1
           p == Build(got, n, hasNext, next)
<1>1. /\ reader.at = "pack" /\ UNCHANGED dbvars /\ UNCHANGED bootvars /\ UNCHANGED chain
      /\ reader' = IF \/ got = <<>> /\ reader.full
                      \/ ~Unmixed(got)
                      \/ got # <<>> /\ n = 0
                      \/ ~Continues(p)
                   THEN Idle ELSE [kind |-> "export", at |-> "signed", pack |-> p]
  BY DEF Pack
<1>2. Exporting /\ reader \in ExportReads  BY <1>1, ReaderCases
<1>3. /\ got \in Seq(Loads) /\ reader.more \in BOOLEAN /\ reader.full \in BOOLEAN
      /\ boot = "serving" /\ reader.filter = chain.filter /\ PageOrder /\ Pending
      /\ (~reader.full => reader.todo = {}) /\ \A i \in 1 .. Len(got) : Entered(got[i])
  BY <1>1, <1>2 DEF Exporting, ExportReads
<1> SUFFICES ASSUME reader' # Idle PROVE SignedInv'  OBVIOUS
<1>4. /\ reader' = [kind |-> "export", at |-> "signed", pack |-> p]
      /\ Unmixed(got) /\ Continues(p) /\ ~(got # <<>> /\ n = 0)
  BY <1>1
<1>5. /\ p.batches = Prefix(got, n) /\ p.truncated = (hasNext \/ n < Len(got))
      /\ p.next = (IF n < Len(got) THEN got[n].id ELSE next)
      /\ p.links = LET span == Spanning(Prefix(got, n), Segment(got))
                   IN [i \in 1 .. Cardinality(span) |-> Link(Nth(span, i))]
  BY DEF Build
<1>6. /\ n \in 0 .. Len(got)
      /\ \A i \in 1 .. n : got[i].seq > 0 => CheckpointSequence(got[i].seq) >= Min(Segment(got))
  BY <1>3, FittingIs
<1>7. Descending(GotIds(got)) /\ \A i \in 1 .. Len(got) : chain.next > 0 => got[i].id < chain.next
  BY <1>3 DEF PageOrder
<1>8. Len(got) \in Nat /\ \A i \in 1 .. Len(got) : got[i] \in Loads /\ got[i].id \in Ids /\ got[i].id \in Nat /\ got[i].id > 0
  <2>1. \A i \in 1 .. Len(got) : got[i] \in Loads  BY <1>3, ElementOfSeq
  <2>2. \A i \in 1 .. Len(got) : got[i].id \in Ids  BY <2>1 DEF Loads
  <2>3. \A b \in Ids : b \in Nat /\ b > 0  BY Bounds DEF Ids
  <2>4. Len(got) \in Nat  BY <1>3, LenProperties
  <2> QED BY <2>1, <2>2, <2>3, <2>4
<1> HIDE DEF p, n, next
<1>9. hasNext \in BOOLEAN /\ (~hasNext => next = 0 /\ reader.todo = {} /\ ~reader.more)  BY <1>3 DEF next
<1> HIDE DEF hasNext
<1> DEFINE P == p.batches
<1>10. /\ P \in Seq(Loads) /\ Len(P) = n /\ n \in Nat
       /\ \A i \in 1 .. n : i \in 1 .. Len(got) /\ P[i] = got[i]
  <2>1. P = Prefix(got, n)  BY <1>5
  <2> HIDE DEF P, got
  <2> QED BY <1>3, <1>6, <2>1, PrefixIs
<1>11. /\ Unmixed(p.batches)
       /\ \A i, j \in DOMAIN p.batches : i # j /\ p.batches[i].seq > 0 => p.batches[i].seq # p.batches[j].seq
       /\ IF Sequences(p.batches) = {} THEN p.links = <<>>
          ELSE Linked(p) /\ \A i \in DOMAIN p.batches : Bound(p.batches[i])
  <2> HIDE DEF got
  <2> QED BY <1>3, <1>4, <1>5, <1>6, <1>7, PackLinks
<1>12. p.truncated \in BOOLEAN /\ (~p.truncated => n = Len(got) /\ ~hasNext /\ p.next = 0)
  <2>1. p.truncated \in BOOLEAN  BY <1>5, <1>9
  <2>2. ~(n < Len(got)) => n = Len(got)  BY <1>6, <1>8
  <2> QED BY <1>5, <1>9, <2>1, <2>2
<1> HIDE DEF got, P
<1>13. p.truncated => n > 0 /\ n \in 1 .. n /\ p.next = got[n].id /\ p.next \in Nat /\ p.next > 0
  <2> SUFFICES ASSUME p.truncated
               PROVE  n > 0 /\ n \in 1 .. n /\ p.next = got[n].id /\ p.next \in Nat /\ p.next > 0
    OBVIOUS
  <2>1. P # <<>> /\ Last(P).id = p.next  BY <1>4 DEF Continues, P
  <2>2. n > 0 /\ n \in 1 .. n  BY <1>10, <2>1, EmptySeq
  <2>3. P[n] = got[n] /\ n \in 1 .. Len(got)  BY <1>10, <2>2
  <2>4. p.next = got[n].id  BY <1>10, <2>1, <2>3 DEF Last
  <2> QED BY <1>8, <2>2, <2>3, <2>4
<1>14. Verifies(p)
  <2>1. p.truncated => p.next > 0 /\ Continues(p)  BY <1>4, <1>13
  <2> QED BY <1>11, <1>12, <2>1 DEF Verifies
<1> DEFINE ids == PartIds(p)
<1>15. ids \in Seq(Ids) /\ Len(ids) = n /\ \A i \in 1 .. n : ids[i] = got[i].id
  <2>1. DOMAIN P = 1 .. n  BY <1>10
  <2>2. ids = [i \in 1 .. n |-> P[i].id]  BY <2>1 DEF PartIds, P
  <2>3. \A i \in 1 .. n : P[i].id = got[i].id /\ got[i].id \in Ids  BY <1>8, <1>10
  <2> HIDE DEF ids
  <2> QED BY <1>10, <2>2, <2>3
<1> HIDE DEF ids
<1>16. Descending(ids) /\ \A i \in 1 .. Len(ids) : chain.next > 0 => ids[i] < chain.next
  <2>1. Len(GotIds(got)) = Len(got) /\ \A i \in 1 .. Len(got) : GotIds(got)[i] = got[i].id
    BY <1>8 DEF GotIds
  <2>2. ASSUME NEW i \in 1 .. n, NEW j \in 1 .. n, i < j PROVE ids[j] < ids[i]
    <3>1. i \in 1 .. Len(got) /\ j \in 1 .. Len(got)  BY <1>10
    <3>2. GotIds(got)[j] < GotIds(got)[i]  BY <1>7, <2>1, <2>2, <3>1 DEF Descending
    <3> QED BY <1>15, <2>1, <3>1, <3>2
  <2>3. Descending(ids)  BY <1>15, <2>2 DEF Descending
  <2> QED BY <1>7, <1>10, <1>15, <2>3
<1>17. /\ Descending(chain.parts \o ids)
       /\ \A i \in 1 .. n : ids[i] \in ToSet(chain.parts \o ids)
       /\ \A b \in ToSet(chain.parts) : b \in ToSet(chain.parts \o ids)
  BY <1>15, <1>16, PartsGoOn
<1>18. ASSUME NEW b \in Ids, Wanted(b), p.truncated => b >= p.next
       PROVE  b \in ToSet(chain.parts \o ids)
  <2>1. b \in Nat  BY Bounds DEF Ids
  <2>2. CASE chain.next > 0 /\ b >= chain.next
    <3>1. chain.next # 0  BY <2>2
    <3>2. b \in ToSet(chain.parts)  BY <1>18, <2>2, <3>1 DEF ChainInv
    <3> QED BY <1>17, <3>2
  <2>3. CASE ~(chain.next > 0 /\ b >= chain.next)
    <3>1. chain.next \in Nat  BY DEF ChainInv
    <3>2. chain.next > 0 => b < chain.next  BY <2>1, <2>3, <3>1
    <3>3. ~(p.truncated /\ b < got[n].id)
      <4> SUFFICES ASSUME p.truncated, b < got[n].id PROVE FALSE  OBVIOUS
      <4>1. b >= p.next /\ p.next = got[n].id /\ p.next \in Nat  BY <1>13, <1>18
      <4> QED BY <2>1, <4>1
    <3>4. p.truncated => n \in 1 .. Len(got)  BY <1>10, <1>13
    <3>5. CASE b \in reader.todo
      <4>1. hasNext  BY <1>9, <3>5
      <4>2. p.truncated  BY <1>5, <4>1
      <4>3. b < got[n].id  BY <1>3, <3>4, <3>5, <4>2 DEF PageOrder, got
      <4> QED BY <3>3, <4>2, <4>3
    <3>6. CASE \E i \in 1 .. Len(got) : got[i].id = b
      <4>1. PICK i \in 1 .. Len(got) : got[i].id = b  BY <3>6
      <4>2. CASE i <= n
        <5>1. i \in 1 .. n  BY <1>10, <4>2
        <5> QED BY <1>15, <1>17, <4>1, <5>1
      <4>3. CASE ~(i <= n)
        <5>1. n < i /\ n < Len(got)  BY <1>8, <1>10, <4>3
        <5>2. p.truncated  BY <1>5, <5>1
        <5>3. n \in 1 .. Len(got)  BY <3>4, <5>2
        <5>4. GotIds(got)[i] = got[i].id /\ GotIds(got)[n] = got[n].id /\ Len(GotIds(got)) = Len(got)
          BY <1>8, <5>3 DEF GotIds
        <5>5. got[i].id < got[n].id  BY <1>7, <5>1, <5>3, <5>4 DEF Descending
        <5> QED BY <3>3, <4>1, <5>2, <5>5
      <4> QED BY <4>2, <4>3
    <3>7. CASE reader.more /\ \A i \in 1 .. Len(got) : b < got[i].id
      <4>1. hasNext  BY <1>9, <3>7
      <4>2. p.truncated  BY <1>5, <4>1
      <4>3. b < got[n].id  BY <3>4, <3>7, <4>2
      <4> QED BY <3>3, <4>2, <4>3
    <3> QED BY <1>3, <1>18, <3>2, <3>5, <3>6, <3>7 DEF Pending, got
  <2> QED BY <2>2, <2>3
<1>19. rows' = rows /\ events' = events /\ boot' = boot /\ chain' = chain  BY <1>1 DEF dbvars, bootvars
<1>20. reader'.at = "signed" /\ reader'.pack = p /\ reader' = [kind |-> "export", at |-> "signed", pack |-> reader'.pack]
  BY <1>4
<1>21. Verifies(reader.pack)'
  <2>1. Sequences(reader.pack.batches)' = Sequences(p.batches)  BY <1>20 DEF Sequences
  <2>2. Linked(reader.pack)' <=> Linked(p)  BY <1>20, <2>1 DEF Linked, CheckpointSequence
  <2>3. Unmixed(reader.pack.batches)' <=> Unmixed(p.batches)  BY <1>20 DEF Unmixed
  <2>4. Continues(reader.pack)' <=> Continues(p)  BY <1>20 DEF Continues
  <2>5. \A i \in DOMAIN p.batches : Bound(reader.pack.batches[i])' <=> Bound(p.batches[i])
    BY <1>20 DEF Bound, Digest
  <2> QED BY <1>14, <1>20, <2>1, <2>2, <2>3, <2>4, <2>5 DEF Verifies
<1>22. PartIds(reader.pack)' = ids  BY <1>20 DEF PartIds, ids
<1>23. Descending(chain.parts \o PartIds(reader.pack))'  BY <1>17, <1>19, <1>22 DEF Descending
<1>24. \A b \in Ids : Wanted(b)' => Wanted(b)  BY <1>19 DEF Wanted, Stored, Matching
<1>25. (\A b \in Ids : Wanted(b) /\ (reader.pack.truncated => b >= reader.pack.next) =>
          b \in ToSet(chain.parts \o PartIds(reader.pack)))'
  BY <1>18, <1>19, <1>20, <1>22, <1>24 DEF Ids, ToSet
<1>26. (reader.pack.batches \in Seq(Loads) /\ reader.pack.truncated \in BOOLEAN /\ reader.pack.next \in Nat)'
  <2>1. P \in Seq(Loads) /\ p.batches = P  BY <1>10 DEF P
  <2> QED BY <1>12, <1>13, <1>20, <2>1 DEF Loads, Payloads, Ids
<1> QED BY <1>3, <1>19, <1>20, <1>21, <1>23, <1>25, <1>26 DEF SignedInv

\* A part that is delivered is the end of the parts, unless it is the last.
LEMMA DeliverKeeps ==
  ASSUME LedgerInv, ChainInv, ReaderInv, Deliver
  PROVE  ChainInv'
<1> DEFINE p == reader.pack
           ids == PartIds(p)
           P == p.batches
           m == Len(chain.parts)
<1>1. /\ reader.at = "signed" /\ UNCHANGED dbvars
      /\ chain' = IF p.truncated THEN [chain EXCEPT !.next = p.next, !.parts = @ \o ids] ELSE NoChain
  BY DEF Deliver
<1>2. SignedInv  BY <1>1, ReaderCases
<1>3. /\ P \in Seq(Loads) /\ Verifies(p) /\ Descending(chain.parts \o ids)
      /\ \A b \in Ids : Wanted(b) /\ (p.truncated => b >= p.next) => b \in ToSet(chain.parts \o ids)
  BY <1>2 DEF SignedInv
<1>4. chain \in [filter : Filters, next : Nat, top : Nat, parts : Seq(Ids)] /\ chain.top < NextId
  BY DEF ChainInv
<1>5. CASE ~p.truncated  BY <1>1, <1>5, ChainEnds
<1>6. CASE p.truncated
  <2>1. P # <<>> /\ Last(P).id = p.next  BY <1>3, <1>6 DEF Verifies, Continues
  <2>2. DOMAIN P = 1 .. Len(P) /\ Len(P) \in Nat /\ Len(P) > 0  BY <1>3, <2>1, LenProperties, EmptySeq
  <2>3. \A i \in 1 .. Len(P) : P[i].id \in Ids
    <3>1. \A i \in 1 .. Len(P) : P[i] \in Loads  BY <1>3, ElementOfSeq
    <3> QED BY <3>1 DEF Loads
  <2> DEFINE k == Len(P)
  <2>4. ids = [i \in 1 .. k |-> P[i].id]  BY <2>2 DEF PartIds
  <2> HIDE DEF P, ids
  <2>5. k \in Nat /\ k > 0 /\ (\A i \in 1 .. k : P[i].id \in Ids) /\ P[k].id = p.next
    BY <2>1, <2>2, <2>3 DEF Last, P
  <2> HIDE DEF k
  <2>6. ids \in Seq(Ids) /\ Len(ids) = k /\ ids[k] = p.next  BY <2>4, <2>5
  <2> DEFINE a == chain.parts \o ids
  <2>7. a \in Seq(Ids) /\ Len(a) = m + k /\ (\A i \in 1 .. m + k : a[i] = IF i <= m THEN chain.parts[i] ELSE ids[i - m])
        /\ m \in Nat
    BY <1>4, <2>6, ConcatProperties, LenProperties
  <2>8. chain' = [chain EXCEPT !.next = p.next, !.parts = a]  BY <1>1, <1>6
  <2>12. Descending(a) /\ \A b \in Ids : Wanted(b) /\ b >= p.next => b \in ToSet(a)  BY <1>3
  <2> HIDE DEF a, m, p
  <2>9. a # <<>> /\ Last(a) = p.next
    <3>1. m + k \in 1 .. m + k /\ ~(m + k <= m) /\ (m + k) - m = k  BY <2>5, <2>7
    <3>2. a[m + k] = p.next  BY <2>6, <2>7, <3>1
    <3>3. Len(a) > 0  BY <2>5, <2>7
    <3> QED BY <2>7, <3>2, <3>3, EmptySeq DEF Last
  <2>10. p.next \in Nat /\ p.next # 0
    <3>1. p.next \in Ids  BY <2>5
    <3> QED BY <3>1, Bounds DEF Ids
  <2>11. /\ chain' \in [filter : Filters, next : Nat, top : Nat, parts : Seq(Ids)]
         /\ chain'.next = p.next /\ chain'.parts = a /\ chain'.top = chain.top /\ chain'.filter = chain.filter
    BY <1>4, <2>7, <2>8, <2>10
  <2>13. rows' = rows /\ events' = events /\ ledger' = ledger  BY <1>1 DEF dbvars
  <2>14. NextId' = NextId  BY <2>13 DEF NextId
  <2>15. \A b \in Ids : Wanted(b)' => Wanted(b)  BY <2>11, <2>13 DEF Wanted, Stored, Matching, All
  <2>16. Descending(chain.parts)'  BY <2>11, <2>12 DEF Descending
  <2>17. (chain \in [filter : Filters, next : Nat, top : Nat, parts : Seq(Ids)] /\ chain.top < NextId)'
    BY <1>4, <2>11, <2>14 DEF Filters, Ids, All
  <2>18. (\A b \in Ids : Wanted(b) /\ b >= chain.next => b \in ToSet(chain.parts))'
    BY <2>11, <2>12, <2>15 DEF Ids, ToSet
  <2>19. (chain.next # 0 /\ chain.parts # <<>> /\ Last(chain.parts) = chain.next)'
    BY <2>9, <2>10, <2>11 DEF Last
  <2> QED BY <2>16, <2>17, <2>18, <2>19 DEF ChainInv
<1> QED BY <1>5, <1>6

-----------------------------------------------------------------------------
(* Every step keeps the invariant.                                          *)

\* The database goes on under a reader and a chain.
LEMMA ReadersStay ==
  ASSUME LedgerInv, LedgerInv', Evolves, ChainInv, ReaderInv, chain' = chain, reader' = reader,
         boot' = boot \/ boot # "serving"
  PROVE  ChainInv' /\ ReaderInv'
<1>1. ChainInv'  BY ChainEvolves
<1>2. CASE reader = Idle  BY <1>1, <1>2 DEF ReaderInv, Idle
<1>3. CASE Exporting
  <2>1. boot' = boot  BY <1>3 DEF Exporting
  <2>2. Exporting'  BY <1>3, <2>1, ExportingEvolves
  <2> QED BY <1>1, <2>2 DEF ReaderInv
<1>4. CASE SignedInv
  <2>1. boot' = boot  BY <1>4 DEF SignedInv
  <2>2. SignedInv'  BY <1>4, <2>1, SignedEvolves
  <2> QED BY <1>1, <2>2 DEF ReaderInv
<1>5. CASE Auditing
  <2>1. Auditing'  BY <1>5, AuditingEvolves
  <2> QED BY <1>1, <2>1 DEF ReaderInv
<1> QED BY <1>1, <1>2, <1>3, <1>4, <1>5 DEF ReaderInv

\* An export dies with the service, an audit does not.
LEMMA CrashKeeps ==
  ASSUME LedgerInv, LedgerInv', ChainInv, ReaderInv, Crash
  PROVE  ChainInv' /\ ReaderInv'
<1>1. /\ UNCHANGED dbvars /\ chain' = chain
      /\ reader' = IF reader.at # "idle" /\ reader.kind = "export" THEN Idle ELSE reader
  BY DEF Crash
<1>2. Evolves  BY <1>1, StutterRemoves, RemovesEvolves
<1>3. ChainInv'  BY <1>1, ChainStays
<1>4. CASE reader' = Idle  BY <1>3, <1>4 DEF ReaderInv, Idle
<1>5. CASE reader' # Idle
  <2>1. reader' = reader /\ ~(reader.at # "idle" /\ reader.kind = "export")  BY <1>1, <1>5
  <2>2. ~Exporting  BY <2>1 DEF Exporting, ExportReads
  <2>3. ~SignedInv
    <3> SUFFICES ASSUME SignedInv PROVE FALSE  OBVIOUS
    <3>1. reader = [kind |-> "export", at |-> "signed", pack |-> reader.pack]  BY DEF SignedInv
    <3>2. reader.kind = "export" /\ reader.at = "signed"  BY <3>1
    <3> QED BY <2>1, <3>2
  <2>4. Auditing  BY <1>5, <2>1, <2>2, <2>3 DEF ReaderInv
  <2>5. Auditing'  BY <1>2, <2>1, <2>4, AuditingEvolves
  <2> QED BY <1>3, <2>5 DEF ReaderInv
<1> QED BY <1>3, <1>4, <1>5

\* The steps of the readers themselves.
LEMMA ReadingKeeps ==
  ASSUME LedgerInv, ChainInv, ReaderInv, Reading
  PROVE  ChainInv' /\ ReaderInv'
<1>1. UNCHANGED dbvars /\ UNCHANGED bootvars  BY ReadingReads
<1>2. reader' = Idle => ReaderInv'  BY DEF ReaderInv, Idle
<1>3. Exporting' \/ SignedInv' \/ Auditing' => ReaderInv'  BY DEF ReaderInv
<1>4. chain' = chain => ChainInv'  BY <1>1, ChainStays
<1>5. CASE ReadBatch
  <2>1. chain' = chain  BY <1>5 DEF ReadBatch
  <2> QED BY <1>3, <1>4, <1>5, <2>1, ReadBatchKeeps
<1>6. CASE ReadRow
  <2>1. chain' = chain  BY <1>6 DEF ReadRow
  <2>2. Exporting' \/ reader' = Idle \/ Auditing'  BY <1>6, ReadRowExports, AuditReading
  <2> QED BY <1>2, <1>3, <1>4, <2>1, <2>2
<1>7. CASE ReadLinks
  <2>1. chain' = chain  BY <1>7 DEF ReadLinks
  <2>2. Exporting' \/ Auditing'  BY <1>7, ReadLinksExports, AuditReading
  <2> QED BY <1>3, <1>4, <2>1, <2>2
<1>8. CASE ReadEvents
  <2>1. chain' = chain  BY <1>8 DEF ReadEvents
  <2>2. Exporting' \/ Auditing'  BY <1>8, ReadEventsExports, AuditReading
  <2> QED BY <1>3, <1>4, <2>1, <2>2
<1>9. CASE ReadPage
  <2>1. chain' = chain  BY <1>9 DEF ReadPage
  <2> QED BY <1>3, <1>4, <1>9, <2>1, ReadPageKeeps
<1>10. CASE Pack
  <2>1. chain' = chain  BY <1>10 DEF Pack
  <2>2. reader' = Idle \/ SignedInv'  BY <1>10, PackSigns
  <2> QED BY <1>2, <1>3, <1>4, <2>1, <2>2
<1>11. CASE Deliver
  <2>1. reader' = Idle  BY <1>11 DEF Deliver
  <2> QED BY <1>2, <1>11, <2>1, DeliverKeeps
<1>12. CASE AuditEntries \/ AuditEntry
  <2>1. chain' = chain  BY <1>12 DEF AuditEntries, AuditEntry
  <2>2. Auditing' \/ reader' = Idle  BY <1>12, AuditPages
  <2> QED BY <1>2, <1>3, <1>4, <2>1, <2>2
<1>13. CASE AuditEnd
  BY <1>2, <1>4, <1>13 DEF AuditEnd
<1>14. CASE Abandon
  <2>1. reader' = Idle /\ chain' = NoChain  BY <1>14 DEF Abandon
  <2> QED BY <1>1, <1>2, <2>1, ChainEnds
<1>15. CASE Audit
  <2>1. chain' = chain /\ reader' = Heads(0)  BY <1>15 DEF Audit
  <2>2. Auditing'  BY <1>1, <2>1, HeadsAudit
  <2> QED BY <1>3, <1>4, <2>1, <2>2
<1>16. ASSUME NEW f \in Filters, Export(f) PROVE ChainInv' /\ ReaderInv'
  BY <1>3, <1>16, ExportStarts
<1> QED BY <1>5, <1>6, <1>7, <1>8, <1>9, <1>10, <1>11, <1>12, <1>13, <1>14, <1>15, <1>16 DEF Reading, Read

LEMMA InvInit == Init => Inv
<1> SUFFICES ASSUME Init PROVE Inv  OBVIOUS
<1>1. LedgerInv  BY LedgerInit
<1>2. reader = Idle /\ chain = NoChain  BY DEF Init
<1>3. NextId \in Nat /\ NextId > Legacy /\ Legacy \in Nat
  <2>1. head \in Seq(Payloads) /\ ledger = LedgerOf(head) /\ InOrder  BY <1>1 DEF LedgerInv, Shape
  <2> QED BY <2>1, NextIdIs, Bounds
<1>4. All \in Filters  BY DEF Filters
<1>5. NoChain \in [filter : Filters, next : Nat, top : Nat, parts : Seq(Ids)]
      /\ NoChain.next = 0 /\ NoChain.parts = <<>> /\ NoChain.top = 0
  BY <1>4 DEF NoChain
<1>6. chain.top < NextId  BY <1>2, <1>3, <1>5
<1>7. Descending(chain.parts)  BY <1>2, <1>5 DEF Descending
<1> QED BY <1>1, <1>2, <1>5, <1>6, <1>7 DEF Inv, ChainInv, ReaderInv

LEMMA InvNext == Inv /\ [Next]_vars => Inv'
<1> SUFFICES ASSUME Inv, [Next]_vars PROVE Inv'  OBVIOUS
<1>1. LedgerInv /\ ChainInv /\ ReaderInv  BY DEF Inv
<1>2. LedgerInv'  BY <1>1, LedgerNext
<1> SUFFICES ChainInv' /\ ReaderInv'  BY <1>2 DEF Inv
<1>3. CASE Start \/ BackfillClear \/ BackfillMark
  <2>1. UNCHANGED dbvars /\ reader' = reader /\ chain' = chain /\ boot # "serving"
    BY <1>3 DEF Start, BackfillClear, BackfillMark
  <2>2. Evolves  BY <1>1, <2>1, StutterRemoves, RemovesEvolves
  <2> QED BY <1>1, <1>2, <2>1, <2>2, ReadersStay
<1>4. CASE BackfillChunk
  <2>1. reader' = reader /\ chain' = chain /\ boot' = boot  BY <1>4 DEF BackfillChunk
  <2>2. Evolves  BY <1>1, <1>2, <1>4, BackfillEvolves
  <2> QED BY <1>1, <1>2, <2>1, <2>2, ReadersStay
<1>5. CASE Crash  BY <1>1, <1>2, <1>5, CrashKeeps
<1>6. ASSUME NEW c \in Contents, RecordBatch(c.events, c.triggers) PROVE ChainInv' /\ ReaderInv'
  <2>1. reader' = reader /\ chain' = chain /\ boot' = boot  BY <1>6 DEF RecordBatch, bootvars
  <2>2. Evolves  BY <1>1, <1>2, <1>6, RecordEvolves
  <2> QED BY <1>1, <1>2, <2>1, <2>2, ReadersStay
<1>7. CASE DeleteExpiredBatches \/ DeleteTriggerLinks
  <2>1. reader' = reader /\ chain' = chain /\ boot' = boot
    BY <1>7 DEF DeleteExpiredBatches, DeleteTriggerLinks, bootvars
  <2>2. Removes  BY <1>1, <1>7, DeleteExpiredRemoves, DeleteLinksRemoves
  <2>3. Evolves  BY <1>1, <2>2, RemovesEvolves
  <2> QED BY <1>1, <1>2, <2>1, <2>3, ReadersStay
<1>8. CASE Reading  BY <1>1, <1>8, ReadingKeeps
<1>9. CASE UNCHANGED vars
  <2>1. UNCHANGED dbvars /\ reader' = reader /\ chain' = chain /\ boot' = boot  BY <1>9 DEF vars, bootvars
  <2>2. Evolves  BY <1>1, <2>1, StutterRemoves, RemovesEvolves
  <2> QED BY <1>1, <1>2, <2>1, <2>2, ReadersStay
<1> QED BY <1>3, <1>4, <1>5, <1>6, <1>7, <1>8, <1>9 DEF Next, Backfill, Reading

(* Every state has the invariant: the ledger is that of its history, each  *)
(* entry of a stored batch is of what is stored, and what an export or an  *)
(* audit has read of a batch that is still stored is true                  *)
(* (ApplyBatch, backfillEvidenceLedgerUpTo, ExportEvidencePack,            *)
(* AuditEvidenceLedger).                                                   *)
THEOREM Invariant == Spec => []Inv
<1> QED BY InvInit, InvNext, PTL DEF Spec

(* Whatever is recorded and removed between the statements of an export,   *)
(* and whatever the sizes of its page and its pack: what ExportEvidencePack *)
(* signs, VerifyEvidencePack accepts: the batches are bound to their        *)
(* entries, and the links span them without a gap.                         *)
THEOREM PacksVerify == Spec => []SignedPacksVerify
<1>1. Inv => SignedPacksVerify
  <2> SUFFICES ASSUME Inv, reader.at = "signed" PROVE Verifies(reader.pack)  BY DEF SignedPacksVerify
  <2>1. SignedInv  BY ReaderCases DEF Inv
  <2> QED BY <2>1 DEF SignedInv
<1> QED BY <1>1, Invariant, PTL

(* The parts of a paginated export descend without meeting a batch twice,  *)
(* and with its last part every matching batch that was there at its start *)
(* and is still stored is in one of them, whatever was recorded, removed or *)
(* abandoned between the parts.                                            *)
THEOREM PartsCoverOnce == Spec => []ChainCoversOnce
<1>1. Inv => ChainCoversOnce
  <2> SUFFICES ASSUME Inv, reader.at = "signed" PROVE ChainCoversOnce  BY DEF ChainCoversOnce
  <2> DEFINE all == chain.parts \o PartIds(reader.pack)
  <2>1. SignedInv /\ ChainInv  BY ReaderCases DEF Inv
  <2>2. Descending(all)  BY <2>1 DEF SignedInv
  <2>3. all \in Seq(Ids)
    <3>1. reader.pack.batches \in Seq(Loads)  BY <2>1 DEF SignedInv
    <3>2. \A i \in 1 .. Len(reader.pack.batches) : reader.pack.batches[i].id \in Ids
      <4>1. \A i \in 1 .. Len(reader.pack.batches) : reader.pack.batches[i] \in Loads  BY <3>1, ElementOfSeq
      <4> QED BY <4>1 DEF Loads
    <3>3. Len(reader.pack.batches) \in Nat  BY <3>1, LenProperties
    <3>4. PartIds(reader.pack) = [i \in 1 .. Len(reader.pack.batches) |-> reader.pack.batches[i].id]
      BY <3>1 DEF PartIds
    <3>5. PartIds(reader.pack) \in Seq(Ids)  BY <3>2, <3>3, <3>4
    <3>6. chain.parts \in Seq(Ids)  BY <2>1 DEF ChainInv
    <3> QED BY <3>5, <3>6, ConcatProperties
  <2> HIDE DEF all
  <2>4. ASSUME NEW i \in 2 .. Len(all) PROVE all[i] < all[i - 1]
    <3>1. Len(all) \in Nat  BY <2>3, LenProperties
    <3>2. i - 1 \in 1 .. Len(all) /\ i \in 1 .. Len(all) /\ i - 1 < i  BY <3>1
    <3> QED BY <2>2, <3>2 DEF Descending
  <2>5. ASSUME ~reader.pack.truncated, NEW b \in Stored, b <= chain.top, Matching(b, chain.filter) # {}
        PROVE  b \in ToSet(all)
    <3>1. b \in Ids /\ Wanted(b)  BY <2>5 DEF Wanted, Stored
    <3> QED BY <2>1, <2>5, <3>1 DEF SignedInv, all
  <2> QED BY <2>4, <2>5 DEF ChainCoversOnce, all
<1> QED BY <1>1, Invariant, PTL

(* An audit that runs while batches are recorded and removed raises no     *)
(* alarm over the heads, the chain, or a batch that is stored              *)
(* (verifyEvidenceLedgerPage and evidenceLedgerPayload).                   *)
THEOREM AuditsAreQuiet == Spec => []StoredBatchesAudit
<1>1. Inv => StoredBatchesAudit
  <2> SUFFICES ASSUME Inv, reader.at = "alarm" PROVE reader.entry <= Len(ledger) /\ rows[Subject] = NoRow
    BY DEF StoredBatchesAudit
  <2>1. Auditing /\ LedgerInv  BY ReaderCases DEF Inv
  <2>2. reader.entry <= reader.upto /\ reader.upto <= Len(head) /\ rows[head[reader.entry].batch] = NoRow
    BY <2>1 DEF Auditing
  <2>3. reader.entry \in 1 .. Len(head) /\ Len(ledger) = Len(head) /\ Subject = head[reader.entry].batch
    BY <2>1, <2>2, AuditedEntry
  <2>4. reader.entry <= Len(ledger)  BY <2>3
  <2> QED BY <2>2, <2>3, <2>4
<1> QED BY <1>1, Invariant, PTL
=============================================================================
