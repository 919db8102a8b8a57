---------------------------- MODULE KheapProofs ----------------------------
(***************************************************************************)
(* kheap.c, for every size of the header, of a page and of a request: the  *)
(* headers tile the heap, no two holes are neighbours, the used blocks are *)
(* what callers have, and one expansion is enough.                         *)
(***************************************************************************)
EXTENDS Kheap, SequenceTheorems, FiniteSetTheorems, TLAPS

-----------------------------------------------------------------------------
(* Inserting into a list and removing from it, element by element. *)
Inserted(s, k, e, r) ==
  /\ Len(r) = Len(s) + 1
  /\ \A j \in 1 .. k - 1 : r[j] = s[j]
  /\ r[k] = e
  /\ \A j \in k + 1 .. Len(s) + 1 : r[j] = s[j - 1]

Removed(s, k, r) ==
  /\ Len(r) = Len(s) - 1
  /\ \A j \in 1 .. k - 1 : r[j] = s[j]
  /\ \A j \in k .. Len(s) - 1 : r[j] = s[j + 1]

Replaced(s, k, e, r) ==
  /\ Len(r) = Len(s)
  /\ r[k] = e
  /\ \A j \in 1 .. Len(s) : j # k => r[j] = s[j]

LEMMA InsertAtProperties ==
  ASSUME NEW S, NEW s \in Seq(S), NEW k \in 1 .. Len(s) + 1, NEW e \in S
  PROVE  InsertAt(s, k, e) \in Seq(S) /\ Inserted(s, k, e, InsertAt(s, k, e))
<1>. DEFINE a == SubSeq(s, 1, k - 1)
            b == SubSeq(s, k, Len(s))
            ae == a \o <<e>>
<1>0. Len(s) \in Nat /\ \A i \in 1 .. Len(s) : s[i] \in S
  BY ElementOfSeq
<1>1. a \in Seq(S) /\ Len(a) = k - 1 /\ \A i \in 1 .. k - 1 : a[i] = s[i]
  <2>1. \A i \in 1 .. k - 1 : s[i] \in S
    BY <1>0
  <2>. QED
    BY <1>0, <2>1, SubSeqProperties
<1>2. b \in Seq(S) /\ Len(b) = Len(s) - k + 1 /\ \A i \in 1 .. Len(s) - k + 1 : b[i] = s[k + i - 1]
  <2>1. \A i \in k .. Len(s) : s[i] \in S
    BY <1>0
  <2>. QED
    BY <1>0, <2>1, SubSeqProperties
<1>3. <<e>> \in Seq(S) /\ Len(<<e>>) = 1 /\ <<e>>[1] = e
  OBVIOUS
<1>. HIDE DEF a, b
<1>4. /\ ae \in Seq(S) /\ Len(ae) = k
      /\ \A i \in 1 .. k : ae[i] = IF i <= k - 1 THEN a[i] ELSE <<e>>[i - (k - 1)]
  BY <1>0, <1>1, <1>3, ConcatProperties
<1>5. InsertAt(s, k, e) = ae \o b
  BY DEF InsertAt, a, b
<1>. HIDE DEF ae
<1>6. /\ ae \o b \in Seq(S) /\ Len(ae \o b) = Len(s) + 1
      /\ \A i \in 1 .. Len(s) + 1 : (ae \o b)[i] = IF i <= k THEN ae[i] ELSE b[i - k]
  <2>1. /\ ae \o b \in Seq(S) /\ Len(ae \o b) = Len(ae) + Len(b)
        /\ \A i \in 1 .. Len(ae) + Len(b) :
             (ae \o b)[i] = IF i <= Len(ae) THEN ae[i] ELSE b[i - Len(ae)]
    BY <1>2, <1>4, ConcatProperties, ZenonT(60)
  <2>2. Len(ae) + Len(b) = Len(s) + 1
    BY <1>0, <1>2, <1>4
  <2>. QED
    BY <1>4, <2>1, <2>2
<1>7. \A j \in 1 .. k - 1 : (ae \o b)[j] = s[j]
  BY <1>0, <1>1, <1>4, <1>6
<1>8. (ae \o b)[k] = e
  BY <1>0, <1>3, <1>4, <1>6
<1>9. \A j \in k + 1 .. Len(s) + 1 : (ae \o b)[j] = s[j - 1]
  <2>. TAKE j \in k + 1 .. Len(s) + 1
  <2>1. j - k \in 1 .. Len(s) - k + 1 /\ k + (j - k) - 1 = j - 1
    BY <1>0
  <2>. QED
    BY <1>0, <1>2, <1>6, <2>1
<1>. QED
  BY <1>5, <1>6, <1>7, <1>8, <1>9 DEF Inserted

LEMMA RemoveAtProperties ==
  ASSUME NEW S, NEW s \in Seq(S), NEW k \in 1 .. Len(s)
  PROVE  RemoveAt(s, k) \in Seq(S) /\ Removed(s, k, RemoveAt(s, k))
<1>. DEFINE a == SubSeq(s, 1, k - 1)
            b == SubSeq(s, k + 1, Len(s))
<1>0. Len(s) \in Nat /\ \A i \in 1 .. Len(s) : s[i] \in S
  BY ElementOfSeq
<1>1. a \in Seq(S) /\ Len(a) = k - 1 /\ \A i \in 1 .. k - 1 : a[i] = s[i]
  <2>1. \A i \in 1 .. k - 1 : s[i] \in S
    BY <1>0
  <2>. QED
    BY <1>0, <2>1, SubSeqProperties
<1>2. b \in Seq(S) /\ Len(b) = Len(s) - k /\ \A i \in 1 .. Len(s) - k : b[i] = s[k + i]
  <2>1. \A i \in k + 1 .. Len(s) : s[i] \in S
    BY <1>0
  <2>2. /\ b \in Seq(S) /\ Len(b) = IF k + 1 <= Len(s) THEN Len(s) - (k + 1) + 1 ELSE 0
        /\ \A i \in 1 .. Len(s) - (k + 1) + 1 : b[i] = s[k + 1 + i - 1]
    BY <1>0, <2>1, SubSeqProperties
  <2>. QED
    BY <1>0, <2>2
<1>3. RemoveAt(s, k) = a \o b
  BY DEF RemoveAt
<1>. HIDE DEF a, b
<1>4. /\ a \o b \in Seq(S) /\ Len(a \o b) = Len(s) - 1
      /\ \A i \in 1 .. Len(s) - 1 : (a \o b)[i] = IF i <= k - 1 THEN a[i] ELSE b[i - (k - 1)]
  <2>1. /\ a \o b \in Seq(S) /\ Len(a \o b) = Len(a) + Len(b)
        /\ \A i \in 1 .. Len(a) + Len(b) :
             (a \o b)[i] = IF i <= Len(a) THEN a[i] ELSE b[i - Len(a)]
    BY <1>1, <1>2, ConcatProperties
  <2>2. Len(a) + Len(b) = Len(s) - 1
    BY <1>0, <1>1, <1>2
  <2>. QED
    BY <1>1, <2>1, <2>2
<1>5. \A j \in 1 .. k - 1 : (a \o b)[j] = s[j]
  BY <1>0, <1>1, <1>4
<1>6. \A j \in k .. Len(s) - 1 : (a \o b)[j] = s[j + 1]
  <2>. TAKE j \in k .. Len(s) - 1
  <2>1. j - (k - 1) \in 1 .. Len(s) - k /\ k + (j - (k - 1)) = j + 1
    BY <1>0
  <2>. QED
    BY <1>0, <1>2, <1>4, <2>1
<1>. QED
  BY <1>3, <1>4, <1>5, <1>6 DEF Removed
-----------------------------------------------------------------------------
(* What the proof knows of a list of headers.  End and at are stated of any two
   blocks, not of neighbours only: that no block overlaps a later one does not
   follow from the neighbours without an induction over the list. *)
Tiled(s, end) ==
  /\ s \in Seq(Header) /\ Len(s) > 0 /\ s[1].at = 0
  /\ \A k \in 1 .. Len(s) - 1 : s[k + 1].at = End(s[k])
  /\ \A i, j \in 1 .. Len(s) : i < j => End(s[i]) <= s[j].at
  /\ End(s[Len(s)]) = end /\ s[Len(s)].size > 0

Used(s)  == {b \in Header : ~b.is_hole /\ \E k \in 1 .. Len(s) : s[k] = b}
Twins(s) == {k \in 1 .. Len(s) - 1 : s[k].is_hole /\ s[k + 1].is_hole}

LEMMA HeaderFields ==
  ASSUME NEW at \in Nat, NEW size \in Nat, NEW is_hole \in BOOLEAN
  PROVE  [at |-> at, size |-> size, is_hole |-> is_hole] \in Header
BY DEF Header

LEMMA HeaderResized ==
  ASSUME NEW b \in Header, NEW size \in Nat
  PROVE  /\ [b EXCEPT !.size = size] \in Header
         /\ [b EXCEPT !.size = size] = [at |-> b.at, size |-> size, is_hole |-> b.is_hole]
BY DEF Header

LEMMA HeaderType ==
  \A b \in Header : b.at \in Nat /\ b.size \in Nat /\ b.is_hole \in BOOLEAN
BY DEF Header

LEMMA ListType ==
  ASSUME NEW s \in Seq(Header)
  PROVE  /\ Len(s) \in Nat /\ HDR \in Nat \ {0}
         /\ \A k \in 1 .. Len(s) : /\ s[k] \in Header /\ s[k].at \in Nat
                                   /\ s[k].size \in Nat /\ s[k].is_hole \in BOOLEAN
BY ElementOfSeq, HeaderType, KheapAssumption

(* The list with another header in place of the k-th. *)
LEMMA ReplaceShape ==
  ASSUME NEW s \in Seq(Header), NEW k \in 1 .. Len(s), NEW e \in Header
  PROVE  ReplaceAt(s, k, e) \in Seq(Header) /\ Replaced(s, k, e, ReplaceAt(s, k, e))
BY ExceptSeq, LenProperties DEF ReplaceAt, Replaced

(* split_block, when it splits; the two merges, when they merge. *)
WasSplit(s, k, size, r) ==
  /\ Len(r) = Len(s) + 1
  /\ \A j \in 1 .. k - 1 : r[j] = s[j]
  /\ r[k] = [at |-> s[k].at, size |-> size, is_hole |-> s[k].is_hole]
  /\ r[k + 1] = [at |-> s[k].at + HDR + size, size |-> s[k].size - size - HDR,
                 is_hole |-> TRUE]
  /\ \A j \in k + 2 .. Len(s) + 1 : r[j] = s[j - 1]

WasMerged(s, k, r) ==
  /\ Len(r) = Len(s) - 1
  /\ \A j \in 1 .. k - 1 : r[j] = s[j]
  /\ r[k] = [at |-> s[k].at, size |-> s[k].size + s[k + 1].size + HDR,
             is_hole |-> s[k].is_hole]
  /\ \A j \in k + 1 .. Len(s) - 1 : r[j] = s[j + 1]

LEMMA SplitShape ==
  ASSUME NEW s \in Seq(Header), NEW k \in 1 .. Len(s), NEW size \in Nat,
         s[k].size > size + HDR
  PROVE  Split(s, k, size) \in Seq(Header) /\ WasSplit(s, k, size, Split(s, k, size))
<1>. DEFINE e == [s[k] EXCEPT !.size = size]
            h == [at |-> s[k].at + HDR + size, size |-> s[k].size - size - HDR,
                  is_hole |-> TRUE]
            q == ReplaceAt(s, k, e)
            r == InsertAt(q, k + 1, h)
<1>1. /\ s[k] \in Header /\ Len(s) \in Nat /\ HDR \in Nat
      /\ s[k].at \in Nat /\ s[k].size \in Nat
  BY ListType
<1>2. e \in Header /\ h \in Header
  <2>1. s[k].at + HDR + size \in Nat /\ s[k].size - size - HDR \in Nat
    BY <1>1, SMTT(60)
  <2>. QED
    BY <1>1, <2>1, HeaderResized, HeaderFields
<1>3. e = [at |-> s[k].at, size |-> size, is_hole |-> s[k].is_hole]
  BY <1>1, HeaderResized
<1>4. Split(s, k, size) = r
  <2>1. ~(s[k].size <= size + HDR)
    BY <1>1
  <2>. QED
    BY <2>1 DEF Split
<1>. HIDE DEF e, h
<1>5. q \in Seq(Header) /\ Replaced(s, k, e, q)
  BY <1>2, ReplaceShape
<1>. HIDE DEF q
<1>6. k + 1 \in 1 .. Len(q) + 1 /\ Len(q) = Len(s)
  BY <1>1, <1>5 DEF Replaced
<1>7. r \in Seq(Header) /\ Inserted(q, k + 1, h, r)
  BY <1>2, <1>5, <1>6, InsertAtProperties
<1>. HIDE DEF r
<1>8. /\ Len(r) = Len(s) + 1 /\ r[k + 1] = h
      /\ \A j \in 1 .. k : r[j] = q[j]
      /\ \A j \in k + 2 .. Len(s) + 1 : r[j] = q[j - 1]
  BY <1>1, <1>6, <1>7 DEF Inserted
<1>9. WasSplit(s, k, size, r)
  <2>. q[k] = e /\ \A j \in 1 .. Len(s) : j # k => q[j] = s[j]
    BY <1>5 DEF Replaced
  <2>1. r[k] = e /\ \A j \in 1 .. k - 1 : r[j] = s[j]
    <3>1. k \in 1 .. k /\ \A j \in 1 .. k - 1 : j \in 1 .. k /\ j \in 1 .. Len(s) /\ j # k
      BY <1>1
    <3>. QED
      BY <1>8, <3>1
  <2>2. \A j \in k + 2 .. Len(s) + 1 : r[j] = s[j - 1]
    <3>1. \A j \in k + 2 .. Len(s) + 1 : j - 1 \in 1 .. Len(s) /\ j - 1 # k
      BY <1>1
    <3>. QED
      BY <1>8, <3>1
  <2>. QED
    BY <1>3, <1>8, <2>1, <2>2 DEF WasSplit, h
<1>. QED
  BY <1>4, <1>7, <1>9

LEMMA SumOfSizes == \A a, b, d \in Nat : a + b + d \in Nat
OBVIOUS

LEMMA MergeShape ==
  ASSUME NEW s \in Seq(Header), NEW k \in 1 .. Len(s) - 1, s[k + 1].is_hole
  PROVE  MergeNext(s, k) \in Seq(Header) /\ WasMerged(s, k, MergeNext(s, k))
<1>. DEFINE e == [s[k] EXCEPT !.size = @ + s[k + 1].size + HDR]
            q == ReplaceAt(s, k, e)
            r == RemoveAt(q, k + 1)
<1>1. /\ k \in 1 .. Len(s) /\ k + 1 \in 1 .. Len(s) /\ Len(s) \in Nat /\ HDR \in Nat
      /\ s[k] \in Header /\ s[k].size \in Nat /\ s[k + 1].size \in Nat
  BY ListType
<1>2. /\ e \in Header
      /\ e = [at |-> s[k].at, size |-> s[k].size + s[k + 1].size + HDR,
              is_hole |-> s[k].is_hole]
  <2>1. s[k].size + s[k + 1].size + HDR \in Nat
    BY <1>1, SumOfSizes
  <2>. QED
    BY <1>1, <2>1, HeaderResized
<1>3. MergeNext(s, k) = r
  BY <1>1 DEF MergeNext, ReplaceAt
<1>. HIDE DEF e
<1>4. q \in Seq(Header) /\ Replaced(s, k, e, q)
  BY <1>1, <1>2, ReplaceShape
<1>. HIDE DEF q
<1>5. k + 1 \in 1 .. Len(q) /\ Len(q) = Len(s)
  BY <1>1, <1>4 DEF Replaced
<1>6. r \in Seq(Header) /\ Removed(q, k + 1, r)
  BY <1>4, <1>5, RemoveAtProperties
<1>. HIDE DEF r
<1>7. /\ Len(r) = Len(s) - 1
      /\ \A j \in 1 .. k : r[j] = q[j]
      /\ \A j \in k + 1 .. Len(s) - 1 : r[j] = q[j + 1]
  BY <1>1, <1>5, <1>6, SMTT(60) DEF Removed
<1>8. WasMerged(s, k, r)
  <2>. q[k] = e /\ \A j \in 1 .. Len(s) : j # k => q[j] = s[j]
    BY <1>4 DEF Replaced
  <2>1. r[k] = e /\ \A j \in 1 .. k - 1 : r[j] = s[j]
    <3>1. k \in 1 .. k /\ \A j \in 1 .. k - 1 : j \in 1 .. k /\ j \in 1 .. Len(s) /\ j # k
      BY <1>1
    <3>. QED
      BY <1>7, <3>1
  <2>2. \A j \in k + 1 .. Len(s) - 1 : r[j] = s[j + 1]
    <3>1. \A j \in k + 1 .. Len(s) - 1 : j + 1 \in 1 .. Len(s) /\ j + 1 # k
      BY <1>1
    <3>. QED
      BY <1>7, <3>1
  <2>. QED
    BY <1>2, <1>7, <2>1, <2>2 DEF WasMerged
<1>. QED
  BY <1>3, <1>6, <1>8
-----------------------------------------------------------------------------
(* Splitting a hole and merging two: the blocks still tile the heap, the used
   ones are the same, and the twins are where the code left them. *)
LEMMA EndType ==
  ASSUME NEW s \in Seq(Header)
  PROVE  \A k \in 1 .. Len(s) : End(s[k]) \in Nat /\ End(s[k]) = s[k].at + HDR + s[k].size
BY ListType DEF End

LEMMA SplitSizes ==
  ASSUME NEW b \in Header, NEW size \in Nat, b.size > size + HDR,
         NEW d \in Header, d.at = b.at, d.size = size,
         NEW e \in Header, e.at = b.at + HDR + size, e.size = b.size - size - HDR
  PROVE  /\ End(d) = e.at /\ End(e) = End(b) /\ e.size > 0
         /\ b.at <= End(d) /\ End(d) <= End(b)
BY KheapAssumption DEF End, Header

LEMMA MergeSizes ==
  ASSUME NEW b \in Header, NEW d \in Header, d.at = End(b),
         NEW e \in Header, e.at = b.at, e.size = b.size + d.size + HDR
  PROVE  End(e) = End(d) /\ e.size > 0
BY KheapAssumption DEF End, Header

LEMMA SplitTiles ==
  ASSUME NEW s, NEW end, Tiled(s, end), NEW k \in 1 .. Len(s), NEW size \in Nat,
         s[k].size > size + HDR, NEW r \in Seq(Header), WasSplit(s, k, size, r)
  PROVE  Tiled(r, end)
<1>1. /\ s \in Seq(Header) /\ Len(s) \in Nat /\ HDR \in Nat \ {0}
      /\ Len(r) = Len(s) + 1 /\ k \in 1 .. Len(r) /\ k + 1 \in 1 .. Len(r)
  BY ListType DEF Tiled, WasSplit
<1>2. /\ \A j \in 1 .. Len(s) : s[j].at \in Nat /\ End(s[j]) \in Nat
      /\ \A j \in 1 .. Len(r) : r[j].at \in Nat /\ End(r[j]) \in Nat
      /\ \A i, j \in 1 .. Len(s) : i < j => End(s[i]) <= s[j].at
      /\ \A j \in 1 .. Len(s) - 1 : s[j + 1].at = End(s[j])
  BY <1>1, ListType, EndType DEF Tiled
<1>3. \A j \in 1 .. Len(r) : j < k => j \in 1 .. Len(s) /\ r[j] = s[j]
  BY <1>1 DEF WasSplit
<1>4. \A j \in 1 .. Len(r) : j > k + 1 => j - 1 \in 1 .. Len(s) /\ r[j] = s[j - 1]
  BY <1>1 DEF WasSplit
<1>5. /\ r[k].at = s[k].at /\ End(r[k]) = r[k + 1].at
      /\ End(r[k + 1]) = End(s[k]) /\ r[k + 1].size > 0
      /\ s[k].at <= End(r[k]) /\ End(r[k]) <= End(s[k])
  <2>1. /\ r[k].at = s[k].at /\ r[k].size = size
        /\ r[k + 1].at = s[k].at + HDR + size /\ r[k + 1].size = s[k].size - size - HDR
    BY DEF WasSplit
  <2>2. r[k] \in Header /\ r[k + 1] \in Header /\ s[k] \in Header
    BY <1>1, ListType
  <2>. QED
    BY <2>1, <2>2, SplitSizes
<1>6. ASSUME NEW j \in 1 .. Len(r) - 1
      PROVE  r[j + 1].at = End(r[j])
  <2>1. CASE j + 1 < k
    <3>1. /\ j \in 1 .. Len(s) - 1 /\ j \in 1 .. Len(r) /\ j + 1 \in 1 .. Len(r)
          /\ j < k
      BY <1>1, <2>1
    <3>2. r[j] = s[j] /\ r[j + 1] = s[j + 1]
      BY <1>3, <2>1, <3>1
    <3>. QED
      BY <1>2, <3>1, <3>2
  <2>2. CASE j + 1 = k
    <3>1. j \in 1 .. Len(s) - 1 /\ j < k /\ j \in 1 .. Len(r)
      BY <1>1, <2>2
    <3>2. r[j] = s[j] /\ s[j + 1].at = End(s[j])
      BY <1>2, <1>3, <3>1
    <3>3. r[k].at = End(r[j])
      BY <1>5, <2>2, <3>2
    <3>. QED
      BY <2>2, <3>3
  <2>3. CASE j = k
    BY <1>5, <2>3
  <2>4. CASE j = k + 1
    <3>1. k \in 1 .. Len(s) - 1 /\ j + 1 > k + 1 /\ (j + 1) - 1 = k + 1 /\ j + 1 \in 1 .. Len(r)
      BY <1>1, <2>4
    <3>2. r[j + 1] = s[k + 1] /\ s[k + 1].at = End(s[k])
      BY <1>2, <1>4, <3>1
    <3>3. End(r[j]) = End(s[k])
      BY <1>5, <2>4
    <3>. QED
      BY <3>2, <3>3
  <2>5. CASE j > k + 1
    <3>1. j - 1 \in 1 .. Len(s) - 1 /\ (j - 1) + 1 = j /\ j + 1 \in 1 .. Len(r)
      BY <1>1, <2>5
    <3>2. r[j] = s[j - 1] /\ r[j + 1] = s[j]
      BY <1>1, <1>4, <2>5, <3>1
    <3>. QED
      BY <1>2, <3>1, <3>2
  <2>. QED
    BY <1>1, <2>1, <2>2, <2>3, <2>4, <2>5
<1>7. ASSUME NEW i \in 1 .. Len(r), NEW j \in 1 .. Len(r), i < j
      PROVE  End(r[i]) <= r[j].at
  <2>1. CASE j < k
    <3>1. i < k
      BY <1>1, <1>7, <2>1
    <3>2. r[i] = s[i] /\ r[j] = s[j] /\ i \in 1 .. Len(s) /\ j \in 1 .. Len(s)
      BY <1>3, <2>1, <3>1
    <3>. QED
      BY <1>2, <1>7, <3>2
  <2>2. CASE i < k /\ (j = k \/ j = k + 1)
    <3>1. End(r[i]) \in Nat /\ s[k].at \in Nat /\ End(r[i]) <= s[k].at
      BY <1>1, <1>2, <1>3, <2>2
    <3>2. s[k].at <= r[j].at /\ r[j].at \in Nat
      <4>1. CASE j = k
        BY <1>2, <1>5, <4>1, SMTT(60)
      <4>2. CASE j = k + 1
        BY <1>2, <1>5, <4>2
      <4>. QED
        BY <2>2, <4>1, <4>2
    <3>. QED
      BY <3>1, <3>2, SMTT(60)
  <2>3. CASE i < k /\ j > k + 1
    <3>1. i \in 1 .. Len(s) /\ j - 1 \in 1 .. Len(s) /\ i < j - 1 /\ r[i] = s[i] /\ r[j] = s[j - 1]
      BY <1>1, <1>3, <1>4, <2>3
    <3>. QED
      BY <1>2, <3>1
  <2>4. CASE i = k /\ j = k + 1
    BY <1>2, <1>5, <2>4
  <2>5. CASE (i = k \/ i = k + 1) /\ j > k + 1
    <3>1. j - 1 \in 1 .. Len(s) /\ k < j - 1 /\ r[j] = s[j - 1]
      BY <1>1, <1>4, <2>5
    <3>2. End(s[k]) <= r[j].at /\ End(r[i]) <= End(s[k])
      BY <1>2, <1>5, <2>5, <3>1, SMTT(60)
    <3>. QED
      BY <1>2, <3>1, <3>2, SMTT(60)
  <2>6. CASE i > k + 1
    <3>1. /\ i - 1 \in 1 .. Len(s) /\ j - 1 \in 1 .. Len(s) /\ i - 1 < j - 1
          /\ r[i] = s[i - 1] /\ r[j] = s[j - 1]
      BY <1>1, <1>4, <1>7, <2>6
    <3>. QED
      BY <1>2, <3>1
  <2>. QED
    BY <1>1, <1>7, <2>1, <2>2, <2>3, <2>4, <2>5, <2>6
<1>8. r[1].at = 0
  BY <1>1, <1>3, <1>5 DEF Tiled
<1>9. End(r[Len(r)]) = end /\ r[Len(r)].size > 0
  <2>1. CASE k = Len(s)
    BY <1>1, <1>5, <2>1 DEF Tiled
  <2>2. CASE k # Len(s)
    <3>1. Len(r) > k + 1 /\ Len(r) - 1 = Len(s) /\ Len(r) \in 1 .. Len(r)
      BY <1>1, <2>2
    <3>2. r[Len(r)] = s[Len(s)]
      BY <1>4, <3>1
    <3>. QED
      BY <3>2 DEF Tiled
  <2>. QED
    BY <2>1, <2>2
<1>. QED
  BY <1>1, <1>6, <1>7, <1>8, <1>9 DEF Tiled

LEMMA MergeTiles ==
  ASSUME NEW s, NEW end, Tiled(s, end), NEW k \in 1 .. Len(s) - 1,
         NEW r \in Seq(Header), WasMerged(s, k, r)
  PROVE  Tiled(r, end)
<1>1. /\ s \in Seq(Header) /\ Len(s) \in Nat /\ HDR \in Nat \ {0}
      /\ k \in 1 .. Len(s) /\ k + 1 \in 1 .. Len(s)
      /\ Len(r) = Len(s) - 1 /\ k \in 1 .. Len(r)
  BY ListType DEF Tiled, WasMerged
<1>2. /\ \A j \in 1 .. Len(s) : s[j].at \in Nat /\ End(s[j]) \in Nat
      /\ \A j \in 1 .. Len(r) : r[j].at \in Nat /\ End(r[j]) \in Nat
      /\ \A i, j \in 1 .. Len(s) : i < j => End(s[i]) <= s[j].at
      /\ \A j \in 1 .. Len(s) - 1 : s[j + 1].at = End(s[j])
  BY <1>1, ListType, EndType DEF Tiled
<1>3. \A j \in 1 .. Len(r) : j < k => j \in 1 .. Len(s) /\ r[j] = s[j]
  BY <1>1 DEF WasMerged
<1>4. \A j \in 1 .. Len(r) : j > k => j + 1 \in 1 .. Len(s) /\ r[j] = s[j + 1]
  BY <1>1 DEF WasMerged
<1>5. /\ r[k].at = s[k].at /\ End(r[k]) = End(s[k + 1])
      /\ r[k].size > 0
  <2>1. r[k].at = s[k].at /\ r[k].size = s[k].size + s[k + 1].size + HDR
    BY DEF WasMerged
  <2>2. r[k] \in Header /\ s[k] \in Header /\ s[k + 1] \in Header
    BY <1>1, ListType
  <2>3. s[k + 1].at = End(s[k])
    BY <1>2
  <2>. QED
    BY <2>1, <2>2, <2>3, MergeSizes
<1>6. ASSUME NEW j \in 1 .. Len(r) - 1
      PROVE  r[j + 1].at = End(r[j])
  <2>1. CASE j + 1 < k
    <3>1. /\ j \in 1 .. Len(s) - 1 /\ j \in 1 .. Len(r) /\ j + 1 \in 1 .. Len(r)
          /\ j < k
      BY <1>1, <2>1
    <3>2. r[j] = s[j] /\ r[j + 1] = s[j + 1]
      BY <1>3, <2>1, <3>1
    <3>. QED
      BY <1>2, <3>1, <3>2
  <2>2. CASE j + 1 = k
    <3>1. j \in 1 .. Len(s) - 1 /\ j < k /\ j \in 1 .. Len(r)
      BY <1>1, <2>2
    <3>2. r[j] = s[j] /\ s[j + 1].at = End(s[j])
      BY <1>2, <1>3, <3>1
    <3>3. r[k].at = End(r[j])
      BY <1>5, <2>2, <3>2
    <3>. QED
      BY <2>2, <3>3
  <2>3. CASE j = k
    <3>1. k + 1 \in 1 .. Len(s) - 1 /\ k + 1 > k /\ k + 1 \in 1 .. Len(r)
      BY <1>1, <2>3
    <3>2. r[k + 1] = s[(k + 1) + 1] /\ s[(k + 1) + 1].at = End(s[k + 1])
      BY <1>2, <1>4, <3>1
    <3>. QED
      BY <1>5, <2>3, <3>2
  <2>4. CASE j > k
    <3>1. j + 1 \in 1 .. Len(s) - 1 /\ j + 1 > k /\ j + 1 \in 1 .. Len(r) /\ j \in 1 .. Len(r)
      BY <1>1, <2>4
    <3>2. r[j] = s[j + 1] /\ r[j + 1] = s[(j + 1) + 1]
      BY <1>4, <2>4, <3>1
    <3>. QED
      BY <1>2, <3>1, <3>2
  <2>. QED
    BY <1>1, <2>1, <2>2, <2>3, <2>4
<1>7. ASSUME NEW i \in 1 .. Len(r), NEW j \in 1 .. Len(r), i < j
      PROVE  End(r[i]) <= r[j].at
  <2>1. CASE j < k
    <3>1. i < k
      BY <1>1, <1>7, <2>1
    <3>2. r[i] = s[i] /\ r[j] = s[j] /\ i \in 1 .. Len(s) /\ j \in 1 .. Len(s)
      BY <1>3, <2>1, <3>1
    <3>. QED
      BY <1>2, <1>7, <3>2
  <2>2. CASE j = k
    <3>1. i \in 1 .. Len(s) /\ i < k /\ r[i] = s[i]
      BY <1>1, <1>3, <1>7, <2>2
    <3>2. End(s[i]) <= s[k].at
      BY <1>1, <1>2, <3>1
    <3>. QED
      BY <1>5, <2>2, <3>1, <3>2
  <2>3. CASE i < k /\ j > k
    <3>1. i \in 1 .. Len(s) /\ j + 1 \in 1 .. Len(s) /\ i < j + 1 /\ r[i] = s[i] /\ r[j] = s[j + 1]
      BY <1>1, <1>3, <1>4, <2>3
    <3>. QED
      BY <1>2, <3>1
  <2>4. CASE i = k
    <3>1. j + 1 \in 1 .. Len(s) /\ k + 1 < j + 1 /\ r[j] = s[j + 1]
      BY <1>1, <1>4, <1>7, <2>4
    <3>2. End(s[k + 1]) <= s[j + 1].at
      BY <1>1, <1>2, <3>1
    <3>. QED
      BY <1>5, <2>4, <3>1, <3>2
  <2>5. CASE i > k
    <3>1. /\ i + 1 \in 1 .. Len(s) /\ j + 1 \in 1 .. Len(s) /\ i + 1 < j + 1
          /\ r[i] = s[i + 1] /\ r[j] = s[j + 1]
      BY <1>1, <1>4, <1>7, <2>5, SMTT(60)
    <3>. QED
      BY <1>2, <3>1
  <2>. QED
    BY <1>1, <1>7, <2>1, <2>2, <2>3, <2>4, <2>5
<1>8. r[1].at = 0
  BY <1>1, <1>3, <1>5 DEF Tiled
<1>9. End(r[Len(r)]) = end /\ r[Len(r)].size > 0
  <2>1. CASE k = Len(r)
    BY <1>1, <1>5, <2>1 DEF Tiled
  <2>2. CASE k # Len(r)
    <3>1. Len(r) > k /\ Len(r) + 1 = Len(s) /\ Len(r) \in 1 .. Len(r)
      BY <1>1, <2>2
    <3>2. r[Len(r)] = s[Len(s)]
      BY <1>4, <3>1
    <3>. QED
      BY <3>2 DEF Tiled
  <2>. QED
    BY <2>1, <2>2
<1>. QED
  BY <1>1, <1>6, <1>7, <1>8, <1>9 DEF Tiled

LEMMA SplitUsed ==
  ASSUME NEW s \in Seq(Header), NEW k \in 1 .. Len(s), s[k].is_hole, NEW size,
         NEW r \in Seq(Header), WasSplit(s, k, size, r)
  PROVE  Used(r) = Used(s)
<1>1. /\ Len(s) \in Nat /\ Len(r) = Len(s) + 1
      /\ r[k].is_hole /\ r[k + 1].is_hole
      /\ \A j \in 1 .. k - 1 : r[j] = s[j]
      /\ \A j \in k + 2 .. Len(s) + 1 : r[j] = s[j - 1]
  BY ListType DEF WasSplit
<1>2. ASSUME NEW b, ~b.is_hole, NEW j \in 1 .. Len(r), r[j] = b
      PROVE  \E i \in 1 .. Len(s) : s[i] = b
  <2>1. j # k /\ j # k + 1
    BY <1>1, <1>2
  <2>2. CASE j < k
    <3>1. j \in 1 .. k - 1 /\ j \in 1 .. Len(s)
      BY <1>1, <2>2
    <3>. QED
      BY <1>1, <1>2, <3>1
  <2>3. CASE j > k + 1
    <3>1. j \in k + 2 .. Len(s) + 1 /\ j - 1 \in 1 .. Len(s)
      BY <1>1, <2>3
    <3>. QED
      BY <1>1, <1>2, <3>1
  <2>. QED
    BY <1>1, <2>1, <2>2, <2>3
<1>3. ASSUME NEW b, ~b.is_hole, NEW j \in 1 .. Len(s), s[j] = b
      PROVE  \E i \in 1 .. Len(r) : r[i] = b
  <2>1. j # k
    BY <1>3
  <2>2. CASE j < k
    <3>1. j \in 1 .. k - 1 /\ j \in 1 .. Len(r)
      BY <1>1, <2>2
    <3>. QED
      BY <1>1, <1>3, <3>1
  <2>3. CASE j > k
    <3>1. j + 1 \in k + 2 .. Len(s) + 1 /\ j + 1 \in 1 .. Len(r) /\ (j + 1) - 1 = j
      BY <1>1, <2>3
    <3>2. r[j + 1] = s[j]
      BY <1>1, <3>1
    <3>. QED
      BY <1>3, <3>1, <3>2
  <2>. QED
    BY <1>1, <2>1, <2>2, <2>3
<1>. QED
  BY <1>2, <1>3 DEF Used

LEMMA MergeUsed ==
  ASSUME NEW s \in Seq(Header), NEW k \in 1 .. Len(s) - 1, s[k].is_hole, s[k + 1].is_hole,
         NEW r \in Seq(Header), WasMerged(s, k, r)
  PROVE  Used(r) = Used(s)
<1>1. /\ Len(s) \in Nat /\ Len(r) = Len(s) - 1 /\ r[k].is_hole
      /\ \A j \in 1 .. k - 1 : r[j] = s[j]
      /\ \A j \in k + 1 .. Len(s) - 1 : r[j] = s[j + 1]
  BY ListType DEF WasMerged
<1>2. ASSUME NEW b, ~b.is_hole, NEW j \in 1 .. Len(r), r[j] = b
      PROVE  \E i \in 1 .. Len(s) : s[i] = b
  <2>1. j # k
    BY <1>1, <1>2
  <2>2. CASE j < k
    <3>1. j \in 1 .. k - 1 /\ j \in 1 .. Len(s)
      BY <1>1, <2>2
    <3>. QED
      BY <1>1, <1>2, <3>1
  <2>3. CASE j > k
    <3>1. j \in k + 1 .. Len(s) - 1 /\ j + 1 \in 1 .. Len(s)
      BY <1>1, <2>3
    <3>. QED
      BY <1>1, <1>2, <3>1
  <2>. QED
    BY <1>1, <2>1, <2>2, <2>3, SMTT(60)
<1>3. ASSUME NEW b, ~b.is_hole, NEW j \in 1 .. Len(s), s[j] = b
      PROVE  \E i \in 1 .. Len(r) : r[i] = b
  <2>1. j # k /\ j # k + 1
    BY <1>3
  <2>2. CASE j < k
    <3>1. j \in 1 .. k - 1 /\ j \in 1 .. Len(r)
      BY <1>1, <2>2
    <3>. QED
      BY <1>1, <1>3, <3>1
  <2>3. CASE j > k + 1
    <3>1. j - 1 \in k + 1 .. Len(s) - 1 /\ j - 1 \in 1 .. Len(r) /\ (j - 1) + 1 = j
      BY <1>1, <2>3
    <3>2. r[j - 1] = s[j]
      BY <1>1, <3>1
    <3>. QED
      BY <1>3, <3>1, <3>2
  <2>. QED
    BY <1>1, <2>1, <2>2, <2>3
<1>. QED
  BY <1>2, <1>3 DEF Used

LEMMA SplitTwins ==
  ASSUME NEW s \in Seq(Header), NEW k \in 1 .. Len(s), s[k].is_hole, NEW size,
         NEW r \in Seq(Header), WasSplit(s, k, size, r), NEW j \in Twins(r), j # k
  PROVE  IF j < k THEN j \in Twins(s) ELSE j - 1 \in Twins(s)
<1>1. /\ Len(s) \in Nat /\ Len(r) = Len(s) + 1
      /\ \A i \in 1 .. k - 1 : r[i] = s[i]
      /\ \A i \in k + 2 .. Len(s) + 1 : r[i] = s[i - 1]
  BY ListType DEF WasSplit
<1>2. j \in 1 .. Len(r) - 1 /\ r[j].is_hole /\ r[j + 1].is_hole
  BY DEF Twins
<1>3. CASE j < k
  <2>1. j \in 1 .. Len(s) - 1 /\ j \in 1 .. k - 1
    BY <1>1, <1>2, <1>3
  <2>2. s[j] = r[j]
    BY <1>1, <2>1
  <2>3. s[j + 1].is_hole
    <3>1. CASE j + 1 = k
      BY <3>1
    <3>2. CASE j + 1 # k
      <4>1. j + 1 \in 1 .. k - 1
        BY <1>1, <2>1, <3>2
      <4>. QED
        BY <1>1, <1>2, <4>1
    <3>. QED
      BY <3>1, <3>2
  <2>. QED
    BY <1>2, <1>3, <2>1, <2>2, <2>3 DEF Twins
<1>4. CASE j > k
  <2>1. j - 1 \in 1 .. Len(s) - 1 /\ j + 1 \in k + 2 .. Len(s) + 1 /\ (j + 1) - 1 = (j - 1) + 1
    BY <1>1, <1>2, <1>4
  <2>2. s[(j - 1) + 1].is_hole
    BY <1>1, <1>2, <2>1
  <2>3. s[j - 1].is_hole
    <3>1. CASE j - 1 = k
      BY <3>1
    <3>2. CASE j - 1 # k
      <4>1. j \in k + 2 .. Len(s) + 1
        BY <1>1, <1>2, <1>4, <3>2
      <4>. QED
        BY <1>1, <1>2, <4>1
    <3>. QED
      BY <3>1, <3>2
  <2>4. ~(j < k)
    BY <1>2, <1>4
  <2>. QED
    BY <2>1, <2>2, <2>3, <2>4 DEF Twins
<1>. QED
  BY <1>2, <1>3, <1>4

LEMMA MergeTwins ==
  ASSUME NEW s \in Seq(Header), NEW k \in 1 .. Len(s) - 1, s[k].is_hole, s[k + 1].is_hole,
         NEW r \in Seq(Header), WasMerged(s, k, r), NEW j \in Twins(r)
  PROVE  IF j < k THEN j \in Twins(s) ELSE j + 1 \in Twins(s)
<1>1. /\ Len(s) \in Nat /\ Len(r) = Len(s) - 1
      /\ \A i \in 1 .. k - 1 : r[i] = s[i]
      /\ \A i \in k + 1 .. Len(s) - 1 : r[i] = s[i + 1]
  BY ListType DEF WasMerged
<1>2. j \in 1 .. Len(r) - 1 /\ r[j].is_hole /\ r[j + 1].is_hole
  BY DEF Twins
<1>3. CASE j < k
  <2>1. j \in 1 .. Len(s) - 1 /\ j \in 1 .. k - 1
    BY <1>1, <1>2, <1>3
  <2>2. s[j] = r[j]
    BY <1>1, <2>1
  <2>3. s[j + 1].is_hole
    <3>1. CASE j + 1 = k
      BY <3>1
    <3>2. CASE j + 1 # k
      <4>1. j + 1 \in 1 .. k - 1
        BY <1>1, <2>1, <3>2
      <4>. QED
        BY <1>1, <1>2, <4>1
    <3>. QED
      BY <3>1, <3>2
  <2>. QED
    BY <1>2, <1>3, <2>1, <2>2, <2>3 DEF Twins
<1>4. CASE ~(j < k)
  <2>1. j + 1 \in 1 .. Len(s) - 1 /\ j + 1 \in k + 1 .. Len(s) - 1
    BY <1>1, <1>2, <1>4
  <2>2. s[(j + 1) + 1].is_hole
    BY <1>1, <1>2, <2>1
  <2>3. s[j + 1].is_hole
    <3>1. CASE j = k
      BY <3>1
    <3>2. CASE j # k
      <4>1. j \in k + 1 .. Len(s) - 1
        BY <1>1, <1>2, <1>4, <3>2
      <4>. QED
        BY <1>1, <1>2, <4>1
    <3>. QED
      BY <3>1, <3>2
  <2>. QED
    BY <1>4, <2>1, <2>2, <2>3 DEF Twins
<1>. QED
  BY <1>3, <1>4
-----------------------------------------------------------------------------
(* Taking a hole and giving a block back: only is_hole changes. *)
LEMMA AtsApart ==
  ASSUME NEW s, NEW end, Tiled(s, end), NEW i \in 1 .. Len(s), NEW j \in 1 .. Len(s),
         s[i].at = s[j].at
  PROVE  i = j
<1>1. /\ Len(s) \in Nat /\ HDR \in Nat \ {0}
      /\ s[i].at \in Nat /\ s[i].size \in Nat /\ s[j].at \in Nat /\ s[j].size \in Nat
  BY ListType DEF Tiled
<1>2. /\ End(s[i]) = s[i].at + HDR + s[i].size /\ End(s[j]) = s[j].at + HDR + s[j].size
  BY DEF End
<1>3. End(s[i]) > s[i].at /\ End(s[j]) > s[j].at
  BY <1>1, <1>2, SMTT(60)
<1>4. (i < j => End(s[i]) <= s[j].at) /\ (j < i => End(s[j]) <= s[i].at)
  BY DEF Tiled
<1>5. ~(i < j) /\ ~(j < i)
  BY <1>1, <1>2, <1>3, <1>4, SMTT(60)
<1>. QED
  BY <1>1, <1>5

(* Every block but the last ends where another begins: each data address of the
   list lies below heap_end, which is what kfree tests. *)
LEMMA DataBelowEnd ==
  ASSUME NEW s, NEW end, Tiled(s, end), NEW k \in 1 .. Len(s)
  PROVE  s[k].at + HDR < end
<1>1. /\ Len(s) \in Nat /\ HDR \in Nat \ {0} /\ Len(s) \in 1 .. Len(s)
      /\ s[k].at \in Nat /\ s[k].size \in Nat
      /\ s[Len(s)].at \in Nat /\ s[Len(s)].size \in Nat /\ s[Len(s)].size > 0
  BY ListType DEF Tiled
<1>2. end = s[Len(s)].at + HDR + s[Len(s)].size /\ End(s[k]) = s[k].at + HDR + s[k].size
  BY DEF End, Tiled
<1>3. CASE k = Len(s)
  BY <1>1, <1>2, <1>3
<1>4. CASE k < Len(s)
  <2>1. End(s[k]) <= s[Len(s)].at
    BY <1>1, <1>4 DEF Tiled
  <2>. QED
    BY <1>1, <1>2, <2>1, SMTT(60)
<1>. QED
  BY <1>1, <1>3, <1>4

LEMMA RetagHeader ==
  ASSUME NEW b \in Header, NEW hole \in BOOLEAN
  PROVE  LET e == [b EXCEPT !.is_hole = hole]
         IN  e \in Header /\ e.at = b.at /\ e.size = b.size /\ e.is_hole = hole
             /\ End(e) = End(b)
BY DEF Header, End

LEMMA RetagTiles ==
  ASSUME NEW s, NEW end, Tiled(s, end), NEW k \in 1 .. Len(s), NEW e \in Header,
         e.at = s[k].at, e.size = s[k].size,
         NEW r \in Seq(Header), Replaced(s, k, e, r)
  PROVE  Tiled(r, end)
<1>1. /\ Len(r) = Len(s) /\ Len(s) \in Nat
      /\ \A j \in 1 .. Len(s) : r[j] = IF j = k THEN e ELSE s[j]
  BY ListType DEF Replaced, Tiled
<1>2. \A j \in 1 .. Len(s) : r[j].at = s[j].at /\ r[j].size = s[j].size /\ End(r[j]) = End(s[j])
  BY <1>1 DEF End
<1>3. Len(s) > 0 /\ 1 \in 1 .. Len(s) /\ Len(s) \in 1 .. Len(s)
  BY <1>1 DEF Tiled
<1>4. \A j \in 1 .. Len(s) - 1 : j \in 1 .. Len(s) /\ j + 1 \in 1 .. Len(s)
  BY <1>1
<1>5. \A j \in 1 .. Len(r) - 1 : r[j + 1].at = End(r[j])
  BY <1>1, <1>2, <1>4 DEF Tiled
<1>6. \A i, j \in 1 .. Len(r) : i < j => End(r[i]) <= r[j].at
  BY <1>1, <1>2 DEF Tiled
<1>7. r[1].at = 0 /\ End(r[Len(r)]) = end /\ r[Len(r)].size > 0
  BY <1>1, <1>2, <1>3 DEF Tiled
<1>. QED
  BY <1>1, <1>3, <1>5, <1>6, <1>7 DEF Tiled

LEMMA TakeHole ==
  ASSUME NEW s, NEW end, Tiled(s, end), NEW k \in 1 .. Len(s), s[k].is_hole,
         NEW e \in Header, e.at = s[k].at, e.size = s[k].size, ~e.is_hole,
         NEW r \in Seq(Header), Replaced(s, k, e, r)
  PROVE  /\ Used(r) = Used(s) \cup {e} /\ \A b \in Used(s) : b.at # e.at
         /\ \A j \in Twins(r) : j \in Twins(s) /\ j # k /\ j # k - 1
<1>1. /\ Len(r) = Len(s) /\ Len(s) \in Nat
      /\ \A j \in 1 .. Len(s) : r[j] = IF j = k THEN e ELSE s[j]
  BY ListType DEF Replaced, Tiled
<1>2. \A b : ~b.is_hole => ((\E j \in 1 .. Len(r) : r[j] = b) <=>
                            b = e \/ \E j \in 1 .. Len(s) : s[j] = b)
  BY <1>1
<1>3. Used(r) = Used(s) \cup {e}
  BY <1>2 DEF Used
<1>4. \A b \in Used(s) : b.at # e.at
  BY AtsApart DEF Used
<1>5. ASSUME NEW j \in Twins(r)
      PROVE  j \in Twins(s) /\ j # k /\ j # k - 1
  <2>1. j \in 1 .. Len(s) - 1 /\ r[j].is_hole /\ r[j + 1].is_hole
    BY <1>1, <1>5 DEF Twins
  <2>2. j \in 1 .. Len(s) /\ j + 1 \in 1 .. Len(s)
    BY <1>1, <2>1
  <2>3. j # k /\ j + 1 # k
    BY <1>1, <2>1, <2>2
  <2>4. s[j].is_hole /\ s[j + 1].is_hole
    BY <1>1, <2>1, <2>2, <2>3
  <2>5. j # k - 1
    BY <1>1, <2>1, <2>3
  <2>. QED
    BY <2>1, <2>3, <2>4, <2>5 DEF Twins
<1>. QED
  BY <1>3, <1>4, <1>5

LEMMA GiveBack ==
  ASSUME NEW s, NEW end, Tiled(s, end), NEW k \in 1 .. Len(s), ~s[k].is_hole,
         NEW e \in Header, e.at = s[k].at, e.size = s[k].size, e.is_hole,
         NEW r \in Seq(Header), Replaced(s, k, e, r)
  PROVE  /\ Used(r) = Used(s) \ {s[k]}
         /\ \A j \in Twins(r) : j \in Twins(s) \/ j = k \/ j = k - 1
<1>1. /\ Len(r) = Len(s) /\ Len(s) \in Nat
      /\ \A j \in 1 .. Len(s) : r[j] = IF j = k THEN e ELSE s[j]
  BY ListType DEF Replaced, Tiled
<1>2. \A j \in 1 .. Len(s) : s[j] = s[k] => j = k
  BY AtsApart
<1>3. \A b : ~b.is_hole => ((\E j \in 1 .. Len(r) : r[j] = b) <=>
                            b # s[k] /\ \E j \in 1 .. Len(s) : s[j] = b)
  BY <1>1, <1>2
<1>4. Used(r) = Used(s) \ {s[k]}
  BY <1>3 DEF Used
<1>5. ASSUME NEW j \in Twins(r), j # k, j # k - 1
      PROVE  j \in Twins(s)
  <2>1. j \in 1 .. Len(s) - 1 /\ r[j].is_hole /\ r[j + 1].is_hole
    BY <1>1, <1>5 DEF Twins
  <2>2. j \in 1 .. Len(s) /\ j + 1 \in 1 .. Len(s) /\ j + 1 # k
    BY <1>1, <1>5, <2>1
  <2>3. s[j].is_hole /\ s[j + 1].is_hole
    BY <1>1, <1>5, <2>1, <2>2
  <2>. QED
    BY <2>1, <2>3 DEF Twins
<1>. QED
  BY <1>4, <1>5
-----------------------------------------------------------------------------
(* kmalloc's two splits and the taking of the block; kfree's two merges. *)
Fitted(s, end, k, size, f) ==
  /\ Tiled(f, end) /\ Used(f) = Used(s)
  /\ k \in 1 .. Len(f) /\ f[k].is_hole
  /\ f[k].at = s[k].at /\ f[k].size >= size
  /\ \A j \in Twins(f) : j = k \/ j \in Twins(s) \/ (j > k /\ j - 1 \in Twins(s))

LEMMA SplitFits ==
  ASSUME NEW s, NEW end, Tiled(s, end), NEW k \in 1 .. Len(s), s[k].is_hole,
         NEW size \in Nat, s[k].size >= size
  PROVE  Fitted(s, end, k, size, Split(s, k, size))
<1>. DEFINE f == Split(s, k, size)
<1>1. /\ s \in Seq(Header) /\ Len(s) \in Nat /\ HDR \in Nat
      /\ s[k].size \in Nat /\ s[k].at \in Nat
  BY ListType DEF Tiled
<1>2. CASE s[k].size <= size + HDR
  <2>1. f = s
    BY <1>2 DEF Split
  <2>. QED
    BY <1>1, <2>1 DEF Fitted
<1>3. CASE s[k].size > size + HDR
  <2>1. f \in Seq(Header) /\ WasSplit(s, k, size, f)
    BY <1>1, <1>3, SplitShape
  <2>. HIDE DEF f
  <2>2. Tiled(f, end) /\ Used(f) = Used(s)
    BY <1>1, <1>3, <2>1, SplitTiles, SplitUsed
  <2>3. k \in 1 .. Len(f) /\ f[k].is_hole /\ f[k].at = s[k].at /\ f[k].size >= size
    BY <1>1, <2>1 DEF WasSplit
  <2>4. \A j \in Twins(f) : j = k \/ j \in Twins(s) \/ (j > k /\ j - 1 \in Twins(s))
    <3>. TAKE j \in Twins(f)
    <3>1. j \in Int
      BY DEF Twins
    <3>2. CASE j < k
      BY <1>1, <2>1, <3>1, <3>2, SplitTwins
    <3>3. CASE j > k
      BY <1>1, <2>1, <3>1, <3>3, SplitTwins
    <3>. QED
      BY <3>1, <3>2, <3>3
  <2>. QED
    BY <2>2, <2>3, <2>4 DEF Fitted, f
<1>. QED
  BY <1>1, <1>2, <1>3

Allocated(s, end, k, size, r) ==
  /\ Tiled(r, end) /\ Twins(r) = {}
  /\ \E e \in Header :
       /\ ~e.is_hole /\ e.at = s[k].at /\ e.size >= size
       /\ Used(r) = Used(s) \cup {e}
       /\ \A b \in Used(s) : b.at # e.at

LEMMA AllocateFits ==
  ASSUME NEW s, NEW end, Tiled(s, end), NEW k \in 1 .. Len(s), s[k].is_hole,
         NEW size \in Nat, s[k].size >= size, \A j \in Twins(s) : j = k - 1,
         NEW f, f = Split(s, k, size)
  PROVE  /\ Allocated(s, end, k, size, ReplaceAt(f, k, [f[k] EXCEPT !.is_hole = FALSE]))
         /\ f[k].at = s[k].at
<1>. DEFINE e == [f[k] EXCEPT !.is_hole = FALSE]
            r == ReplaceAt(f, k, e)
<1>1. Fitted(s, end, k, size, f)
  BY SplitFits
<1>2. /\ f \in Seq(Header) /\ k \in 1 .. Len(f) /\ f[k] \in Header /\ Tiled(f, end)
      /\ f[k].is_hole /\ f[k].at = s[k].at /\ f[k].size >= size /\ Used(f) = Used(s)
  BY <1>1, ListType DEF Fitted, Tiled
<1>3. e \in Header /\ e.at = f[k].at /\ e.size = f[k].size /\ ~e.is_hole
  BY <1>2, RetagHeader
<1>. HIDE DEF e
<1>4. r \in Seq(Header) /\ Replaced(f, k, e, r)
  BY <1>2, <1>3, ReplaceShape
<1>. HIDE DEF r
<1>5. Tiled(r, end)
  BY <1>2, <1>3, <1>4, RetagTiles
<1>6. /\ Used(r) = Used(f) \cup {e} /\ \A b \in Used(f) : b.at # e.at
      /\ \A j \in Twins(r) : j \in Twins(f) /\ j # k /\ j # k - 1
  BY <1>2, <1>3, <1>4, TakeHole, SMTT(60)
<1>7. Twins(r) = {}
  <2>. SUFFICES ASSUME NEW j \in Twins(r) PROVE FALSE
    OBVIOUS
  <2>1. j \in Twins(s) \/ j - 1 \in Twins(s)
    BY <1>1, <1>6 DEF Fitted
  <2>2. j = k - 1 \/ j - 1 = k - 1
    BY <2>1
  <2>3. j \in Int /\ k \in Int
    BY DEF Twins
  <2>. QED
    BY <1>6, <2>2, <2>3
<1>8. Allocated(s, end, k, size, r)
  BY <1>2, <1>3, <1>5, <1>6, <1>7 DEF Allocated
<1>. QED
  BY <1>2, <1>8 DEF r, e

Joined(s, end, k, r) ==
  /\ Tiled(r, end) /\ Used(r) = Used(s)
  /\ k \in 1 .. Len(r) /\ r[k].is_hole
  /\ \A j \in Twins(r) : \/ j < k /\ j \in Twins(s)
                         \/ j >= k /\ j + 1 \in Twins(s)
                         \/ j > k /\ j \in Twins(s)

LEMMA MergeJoins ==
  ASSUME NEW s, NEW end, Tiled(s, end), NEW k \in 1 .. Len(s), s[k].is_hole
  PROVE  Joined(s, end, k, MergeNext(s, k))
<1>. DEFINE r == MergeNext(s, k)
<1>1. s \in Seq(Header) /\ Len(s) \in Nat
  BY ListType DEF Tiled
<1>2. CASE k < Len(s) /\ s[k + 1].is_hole
  <2>1. k \in 1 .. Len(s) - 1
    BY <1>1, <1>2
  <2>2. r \in Seq(Header) /\ WasMerged(s, k, r)
    BY <1>1, <1>2, <2>1, MergeShape
  <2>. HIDE DEF r
  <2>3. Tiled(r, end) /\ Used(r) = Used(s)
    BY <1>1, <1>2, <2>1, <2>2, MergeTiles, MergeUsed
  <2>4. k \in 1 .. Len(r) /\ r[k].is_hole
    BY <1>1, <2>1, <2>2 DEF WasMerged
  <2>5. \A j \in Twins(r) : (j < k /\ j \in Twins(s)) \/ (j >= k /\ j + 1 \in Twins(s))
    <3>. TAKE j \in Twins(r)
    <3>1. j \in Int
      BY DEF Twins
    <3>2. IF j < k THEN j \in Twins(s) ELSE j + 1 \in Twins(s)
      BY <1>1, <1>2, <2>1, <2>2, MergeTwins
    <3>. QED
      BY <3>1, <3>2
  <2>. QED
    BY <2>3, <2>4, <2>5 DEF Joined, r
<1>3. CASE ~(k < Len(s) /\ s[k + 1].is_hole)
  <2>1. r = s
    BY <1>3 DEF MergeNext
  <2>2. \A j \in Twins(s) : j \in Int /\ j # k
    BY <1>1, <1>3 DEF Twins
  <2>. QED
    BY <2>1, <2>2 DEF Joined
<1>. QED
  BY <1>2, <1>3

LEMMA FreeJoins ==
  ASSUME NEW s, NEW end, Tiled(s, end), NEW k \in 1 .. Len(s), s[k].is_hole,
         \A j \in Twins(s) : j = k \/ j = k - 1
  PROVE  /\ Tiled(Merge(s, k), end) /\ Used(Merge(s, k)) = Used(s)
         /\ Twins(Merge(s, k)) = {}
<1>. DEFINE f == MergeNext(s, k)
<1>1. Joined(s, end, k, f)
  BY MergeJoins
<1>. HIDE DEF f
<1>2. /\ Tiled(f, end) /\ Used(f) = Used(s) /\ k \in 1 .. Len(f) /\ k \in Int
      /\ f \in Seq(Header)
  BY <1>1 DEF Joined, Tiled
<1>3. \A j \in Twins(f) : j \in Int /\ j = k - 1
  <2>. TAKE j \in Twins(f)
  <2>1. j \in Int /\ \A i \in Twins(s) : i \in Int
    BY DEF Twins
  <2>. QED
    BY <1>1, <2>1 DEF Joined
<1>4. CASE k > 1 /\ f[k - 1].is_hole
  <2>. DEFINE r == MergeNext(f, k - 1)
  <2>1. Merge(s, k) = r
    BY <1>4 DEF Merge, f
  <2>2. k - 1 \in 1 .. Len(f)
    BY <1>2, <1>4, ListType
  <2>3. Joined(f, end, k - 1, r)
    BY <1>2, <1>4, <2>2, MergeJoins
  <2>. HIDE DEF r
  <2>4. Twins(r) = {}
    <3>. SUFFICES ASSUME NEW j \in Twins(r) PROVE FALSE
      OBVIOUS
    <3>1. \/ j < k - 1 /\ j \in Twins(f)
          \/ j >= k - 1 /\ j + 1 \in Twins(f)
          \/ j > k - 1 /\ j \in Twins(f)
      BY <2>3 DEF Joined
    <3>2. j \in Int
      BY DEF Twins
    <3>. QED
      BY <1>2, <1>3, <3>1, <3>2
  <2>. QED
    BY <1>2, <2>1, <2>3, <2>4 DEF Joined
<1>5. CASE ~(k > 1 /\ f[k - 1].is_hole)
  <2>1. Merge(s, k) = f
    BY <1>5 DEF Merge, f
  <2>2. Twins(f) = {}
    <3>. SUFFICES ASSUME NEW j \in Twins(f) PROVE FALSE
      OBVIOUS
    <3>1. j = k - 1 /\ j \in Int /\ j >= 1 /\ f[j].is_hole
      BY <1>3 DEF Twins
    <3>. QED
      BY <1>2, <1>5, <3>1
  <2>. QED
    BY <1>2, <2>1, <2>2
<1>. QED
  BY <1>4, <1>5
-----------------------------------------------------------------------------
(* Rounding to pages, and the way to the next page boundary. *)
LEMMA RoundUpEnough ==
  ASSUME NEW n \in Nat, n >= 1
  PROVE  RoundUp(n) \in Nat /\ RoundUp(n) >= n /\ RoundUp(n) >= PAGE_SIZE
<1>1. ((n + PAGE_SIZE - 1) \div PAGE_SIZE) * PAGE_SIZE \in Nat
  BY KheapAssumption
<1>2. ((n + PAGE_SIZE - 1) \div PAGE_SIZE) * PAGE_SIZE >= n
  BY KheapAssumption
<1>3. ((n + PAGE_SIZE - 1) \div PAGE_SIZE) * PAGE_SIZE >= PAGE_SIZE
  BY KheapAssumption
<1>. QED
  BY <1>1, <1>2, <1>3 DEF RoundUp

LEMMA ToBoundary ==
  ASSUME NEW a \in Nat
  PROVE  (-a) % PAGE_SIZE \in 0 .. PAGE_SIZE - 1 /\ (a + ((-a) % PAGE_SIZE)) % PAGE_SIZE = 0
<1>. DEFINE q == (-a) \div PAGE_SIZE
            p == (-a) % PAGE_SIZE
<1>1. q \in Int /\ p \in 0 .. PAGE_SIZE - 1
  BY KheapAssumption
<1>2. -a = PAGE_SIZE * q + p
  BY KheapAssumption
<1>3. a + p = (-q) * PAGE_SIZE
  <2>. HIDE DEF q, p
  <2>. QED
    BY <1>1, <1>2, KheapAssumption
<1>4. -q \in Int /\ \A n \in Int : (n * PAGE_SIZE) % PAGE_SIZE = 0
  BY <1>1, KheapAssumption
<1>. QED
  BY <1>1, <1>3, <1>4

LEMMA PaddingAligns ==
  ASSUME NEW b \in Header
  PROVE  /\ \A align \in BOOLEAN : Padding(b, align) \in 0 .. PAGE_SIZE - 1
         /\ Padding(b, FALSE) = 0
         /\ (b.at + HDR + Padding(b, TRUE)) % PAGE_SIZE = 0
<1>. DEFINE a == b.at + HDR
<1>1. a \in Nat /\ 0 \in 0 .. PAGE_SIZE - 1
  BY KheapAssumption, HeaderType
<1>2. Padding(b, TRUE) = (-a) % PAGE_SIZE /\ Padding(b, FALSE) = 0
  BY DEF Padding
<1>. HIDE DEF a
<1>3. (a + Padding(b, TRUE)) % PAGE_SIZE = 0
  BY <1>1, <1>2, ToBoundary
<1>4. Padding(b, TRUE) \in 0 .. PAGE_SIZE - 1 /\ Padding(b, FALSE) \in 0 .. PAGE_SIZE - 1
  BY <1>1, <1>2, ToBoundary
<1>5. \A align \in BOOLEAN : Padding(b, align) \in 0 .. PAGE_SIZE - 1
  BY <1>4, Zenon
<1>. QED
  BY <1>2, <1>3, <1>5 DEF a

(* A set of numbers has a least one: what no search finds nothing fits. *)
LEMMA LeastOf ==
  ASSUME NEW T, T \subseteq Nat, T # {}
  PROVE  \E k \in T : \A j \in T : ~(j < k)
<1>1. PICK k \in T : \A j \in T : <<j, k>> \notin OpToRel(<, Nat)
  BY NatLessThanWellFounded, WFMin
<1>. QED
  BY <1>1 DEF OpToRel

LEMMA NothingFits ==
  ASSUME headers \in Seq(Header), NEW size, NEW align, Found(size, align) = {}
  PROVE  \A k \in 1 .. Len(headers) : ~Fits(headers[k], size, align)
<1>. DEFINE T == {k \in 1 .. Len(headers) : Fits(headers[k], size, align)}
<1>1. Len(headers) \in Nat /\ DOMAIN headers = 1 .. Len(headers) /\ T \subseteq Nat
  BY ListType, LenProperties
<1>2. CASE T = {}
  BY <1>2
<1>3. CASE T # {}
  <2>1. PICK k \in T : \A j \in T : ~(j < k)
    BY <1>1, <1>3, LeastOf
  <2>2. \A j \in 1 .. k - 1 : ~Fits(headers[j], size, align)
    BY <1>1, <2>1
  <2>3. k \in Found(size, align)
    BY <1>1, <2>1, <2>2 DEF Found
  <2>. QED
    BY <2>3
<1>. QED
  BY <1>2, <1>3
-----------------------------------------------------------------------------
(* The inductive invariant.  live and the used blocks are one set seen from two
   sides; what an expanded request finds is the last block, large enough, and
   nothing before it. *)
LiveInv ==
  /\ \A x \in live : \E b \in Used(headers) :
       /\ b.at + HDR = x.ptr /\ b.size >= x.size
       /\ x.align => x.ptr % PAGE_SIZE = 0
  /\ \A b \in Used(headers) : \E x \in live : x.ptr = b.at + HDR
  /\ \A x, y \in live : x.ptr = y.ptr => x = y

Serves(s, r) ==
  /\ s[Len(s)].is_hole
  /\ s[Len(s)].size >= r.size + (IF r.align THEN PAGE_SIZE ELSE 0)
  /\ \A k \in 1 .. Len(s) - 1 : ~Fits(s[k], r.size, r.align)

CallInv ==
  \A r \in call : (r.align => r.size > 0) /\ (r.expanded => Serves(headers, r))

HeapInv ==
  TypeOK /\ Tiled(headers, heap_end) /\ Twins(headers) = {} /\ LiveInv /\ CallInv

LEMMA HeapInvInit == Init => HeapInv
<1>. SUFFICES ASSUME Init PROVE HeapInv
  OBVIOUS
<1>. DEFINE b == [at |-> 0, size |-> KHEAP_INITIAL_SIZE - HDR, is_hole |-> TRUE]
<1>1. KHEAP_INITIAL_SIZE - HDR \in Nat /\ KHEAP_INITIAL_SIZE - HDR > 0
      /\ 0 + HDR + (KHEAP_INITIAL_SIZE - HDR) = KHEAP_INITIAL_SIZE
  BY KheapAssumption
<1>2. /\ b \in Header /\ b.at = 0 /\ b.size > 0 /\ b.is_hole
      /\ End(b) = KHEAP_INITIAL_SIZE
  BY <1>1, HeaderFields DEF End
<1>3. headers = <<b>> /\ heap_end = KHEAP_INITIAL_SIZE /\ call = {} /\ live = {}
  BY DEF Init
<1>. HIDE DEF b
<1>4. headers \in Seq(Header) /\ Len(headers) = 1 /\ headers[1] = b
  BY <1>2, <1>3
<1>5. TypeOK
  BY <1>3, <1>4, KheapAssumption DEF TypeOK
<1>6. Tiled(headers, heap_end)
  BY <1>2, <1>3, <1>4 DEF Tiled
<1>7. Used(headers) = {} /\ Twins(headers) = {}
  BY <1>2, <1>4 DEF Used, Twins
<1>. QED
  BY <1>3, <1>5, <1>6, <1>7 DEF HeapInv, LiveInv, CallInv

LEMMA LiveKept ==
  ASSUME LiveInv, live' = live, Used(headers') = Used(headers)
  PROVE  LiveInv'
BY DEF LiveInv

LEMMA HeapInvCall ==
  ASSUME HeapInv, NEW size \in Nat, NEW align \in BOOLEAN, align => size > 0,
         Call(size, align)
  PROVE  HeapInv'
<1>. DEFINE r == [size |-> size, align |-> align, expanded |-> FALSE]
<1>1. call' = {r} /\ headers' = headers /\ heap_end' = heap_end /\ live' = live
  BY DEF Call
<1>2. r \in Request /\ r.size = size /\ r.align = align /\ r.expanded = FALSE
  BY DEF Request
<1>. HIDE DEF r
<1>3. TypeOK'
  BY <1>1, <1>2 DEF HeapInv, TypeOK
<1>4. CallInv'
  BY <1>1, <1>2 DEF CallInv
<1>5. LiveInv'
  BY <1>1, LiveKept DEF HeapInv
<1>. QED
  BY <1>1, <1>3, <1>4, <1>5 DEF HeapInv
-----------------------------------------------------------------------------
(* expand_heap: the last hole grows, or a new one is put behind it. *)
LEMMA GrowTiles ==
  ASSUME NEW s, NEW end \in Nat, Tiled(s, end), NEW added \in Nat, NEW e \in Header,
         s[Len(s)].is_hole, e.is_hole,
         e.at = s[Len(s)].at, e.size = s[Len(s)].size + added,
         NEW r \in Seq(Header), Replaced(s, Len(s), e, r)
  PROVE  Tiled(r, end + added) /\ Used(r) = Used(s) /\ Twins(r) = Twins(s)
<1>. DEFINE n == Len(s)
<1>1. /\ Len(r) = n /\ n \in Nat /\ n > 0 /\ n \in 1 .. n /\ HDR \in Nat
      /\ \A j \in 1 .. n : r[j] = IF j = n THEN e ELSE s[j]
  BY ListType DEF Replaced, Tiled
<1>2. /\ s[n].at \in Nat /\ s[n].size \in Nat /\ s[n].size > 0
      /\ \A j \in 1 .. n : r[j].at = s[j].at /\ r[j].is_hole = s[j].is_hole
      /\ \A j \in 1 .. n : j # n => End(r[j]) = End(s[j])
  BY <1>1, ListType DEF Tiled
<1>3. End(r[n]) = end + added /\ r[n].size > 0
  <2>1. r[n] = e /\ end = s[n].at + HDR + s[n].size
    BY <1>1 DEF Tiled, End
  <2>2. End(e) = s[n].at + HDR + (s[n].size + added)
    BY DEF End
  <2>. QED
    BY <1>1, <1>2, <2>1, <2>2, SMTT(60)
<1>4. \A j \in 1 .. n - 1 : j \in 1 .. n /\ j + 1 \in 1 .. n /\ j # n
  BY <1>1
<1>5. \A j \in 1 .. n - 1 : r[j + 1].at = End(r[j])
  BY <1>2, <1>4 DEF Tiled
<1>6. \A i, j \in 1 .. n : i < j => End(r[i]) <= r[j].at
  <2>. SUFFICES ASSUME NEW i \in 1 .. n, NEW j \in 1 .. n, i < j
                PROVE  End(r[i]) <= r[j].at
    OBVIOUS
  <2>1. i # n
    BY <1>1
  <2>. QED
    BY <1>2, <2>1 DEF Tiled
<1>7. r[1].at = 0
  BY <1>1, <1>2 DEF Tiled
<1>8. Tiled(r, end + added)
  BY <1>1, <1>3, <1>5, <1>6, <1>7 DEF Tiled
<1>9. Twins(r) = Twins(s)
  BY <1>1, <1>2, <1>4 DEF Twins
<1>10. \A b : ~b.is_hole => ((\E j \in 1 .. n : r[j] = b) <=> (\E j \in 1 .. n : s[j] = b))
  BY <1>1
<1>11. Used(r) = Used(s)
  BY <1>1, <1>10 DEF Used
<1>. QED
  BY <1>8, <1>9, <1>11

LEMMA AppendTiles ==
  ASSUME NEW s, NEW end \in Nat, Tiled(s, end), NEW e \in Header, e.is_hole,
         ~s[Len(s)].is_hole, e.at = end, e.size > 0,
         NEW r, r = Append(s, e)
  PROVE  /\ Tiled(r, End(e)) /\ Used(r) = Used(s) /\ Twins(r) = Twins(s)
<1>. DEFINE n == Len(s)
<1>1. s \in Seq(Header) /\ n \in Nat /\ n > 0 /\ n \in 1 .. n
  BY ListType DEF Tiled
<1>2. /\ r \in Seq(Header) /\ Len(r) = n + 1 /\ n + 1 \in 1 .. Len(r)
      /\ \A j \in 1 .. n : r[j] = s[j] /\ j \in 1 .. Len(r)
      /\ r[n + 1] = e
  BY <1>1, AppendProperties
<1>3. \A j \in 1 .. Len(r) : j = n + 1 \/ j \in 1 .. n
  BY <1>1, <1>2
<1>4. \A j \in 1 .. Len(r) - 1 : r[j + 1].at = End(r[j])
  <2>. TAKE j \in 1 .. Len(r) - 1
  <2>1. CASE j = n
    <3>1. r[j + 1] = e /\ r[j] = s[n] /\ End(s[n]) = end
      BY <1>1, <1>2, <2>1 DEF Tiled
    <3>. QED
      BY <3>1
  <2>2. CASE j # n
    <3>1. j \in 1 .. n - 1 /\ j \in 1 .. n /\ j + 1 \in 1 .. n
      BY <1>1, <1>2, <2>2
    <3>. QED
      BY <1>2, <3>1 DEF Tiled
  <2>. QED
    BY <2>1, <2>2
<1>5. \A i, j \in 1 .. Len(r) : i < j => End(r[i]) <= r[j].at
  <2>. SUFFICES ASSUME NEW i \in 1 .. Len(r), NEW j \in 1 .. Len(r), i < j
                PROVE  End(r[i]) <= r[j].at
    OBVIOUS
  <2>1. i \in 1 .. n /\ r[i] = s[i] /\ End(s[i]) \in Nat
    BY <1>1, <1>2, EndType
  <2>2. CASE j = n + 1
    <3>1. r[j].at = end
      BY <1>2, <2>2
    <3>2. CASE i = n
      BY <2>1, <3>1, <3>2 DEF Tiled
    <3>3. CASE i # n
      <4>1. i < n /\ s[n].at \in Nat /\ s[n].size \in Nat /\ HDR \in Nat
        BY <1>1, <2>1, <3>3, ListType
      <4>2. End(s[i]) <= s[n].at /\ end = s[n].at + HDR + s[n].size
        BY <1>1, <2>1, <4>1 DEF Tiled, End
      <4>. QED
        BY <2>1, <3>1, <4>1, <4>2, SMTT(60)
    <3>. QED
      BY <3>2, <3>3
  <2>3. CASE j \in 1 .. n
    BY <1>2, <2>1, <2>3 DEF Tiled
  <2>. QED
    BY <1>3, <2>2, <2>3
<1>6. r[1].at = 0
  BY <1>1, <1>2 DEF Tiled
<1>7. Tiled(r, End(e))
  BY <1>1, <1>2, <1>4, <1>5, <1>6 DEF Tiled
<1>8. \A b : ~b.is_hole => ((\E j \in 1 .. Len(r) : r[j] = b) <=> (\E j \in 1 .. n : s[j] = b))
  BY <1>2, <1>3
<1>9. Used(r) = Used(s)
  BY <1>8 DEF Used
<1>10. Twins(r) = Twins(s)
  <2>1. ASSUME NEW j, j \in Twins(r) PROVE j \in Twins(s)
    <3>1. j \in 1 .. Len(r) - 1 /\ r[j].is_hole /\ r[j + 1].is_hole
      BY <2>1 DEF Twins
    <3>2. j \in 1 .. n /\ j # n
      BY <1>1, <1>2, <3>1
    <3>3. j \in 1 .. n - 1 /\ j + 1 \in 1 .. n
      BY <1>1, <3>2
    <3>. QED
      BY <1>2, <3>1, <3>2, <3>3 DEF Twins
  <2>2. ASSUME NEW j, j \in Twins(s) PROVE j \in Twins(r)
    <3>1. j \in 1 .. n - 1 /\ s[j].is_hole /\ s[j + 1].is_hole
      BY <2>2 DEF Twins
    <3>2. j \in 1 .. n /\ j + 1 \in 1 .. n /\ j \in 1 .. Len(r) - 1
      BY <1>1, <1>2, <3>1
    <3>. QED
      BY <1>2, <3>1, <3>2 DEF Twins
  <2>. QED
    BY <2>1, <2>2
<1>. QED
  BY <1>7, <1>9, <1>10

LEMMA ExpansionServes ==
  ASSUME NEW r \in Request
  PROVE  LET added == RoundUp(Expansion(r))
         IN  /\ added \in Nat /\ added - HDR \in Nat /\ added - HDR > 0
             /\ added - HDR >= r.size + (IF r.align THEN PAGE_SIZE ELSE 0)
<1>. DEFINE more == r.size + (IF r.align THEN PAGE_SIZE ELSE 0)
            n == Expansion(r)
<1>1. more \in Nat
  BY KheapAssumption DEF Request
<1>2. n = more + HDR
  BY DEF Expansion
<1>. HIDE DEF more, n
<1>3. n \in Nat /\ n >= 1
  BY <1>1, <1>2, KheapAssumption
<1>4. RoundUp(n) \in Nat /\ RoundUp(n) >= n /\ RoundUp(n) >= PAGE_SIZE
  BY <1>3, RoundUpEnough
<1>5. RoundUp(n) - HDR \in Nat /\ RoundUp(n) - HDR > 0 /\ RoundUp(n) - HDR >= more
  BY <1>1, <1>2, <1>4, KheapAssumption
<1>. QED
  BY <1>4, <1>5 DEF more, n

LEMMA HeapInvExpand == HeapInv /\ Expand => HeapInv'
<1>. SUFFICES ASSUME HeapInv, Expand PROVE HeapInv'
  OBVIOUS
<1>. DEFINE last == Len(headers)
<1>1. PICK r \in call :
        LET added == RoundUp(Expansion(r))
        IN  /\ Found(r.size, r.align) = {}
            /\ heap_end' = heap_end + added
            /\ headers' = IF headers[last].is_hole
                            THEN [headers EXCEPT ![last].size = @ + added]
                            ELSE Append(headers, [at |-> heap_end, size |-> added - HDR,
                                                  is_hole |-> TRUE])
            /\ call' = {[r EXCEPT !.expanded = TRUE]}
            /\ UNCHANGED live
  BY DEF Expand
<1>. DEFINE added == RoundUp(Expansion(r))
            more  == r.size + (IF r.align THEN PAGE_SIZE ELSE 0)
            q     == [r EXCEPT !.expanded = TRUE]
<1>2. /\ TypeOK /\ Tiled(headers, heap_end) /\ Twins(headers) = {} /\ LiveInv
      /\ heap_end \in Nat /\ r \in Request /\ headers \in Seq(Header)
      /\ last \in Nat /\ last > 0 /\ last \in 1 .. last
      /\ live \subseteq [ptr : Nat, size : Nat, align : BOOLEAN]
  BY ListType DEF HeapInv, TypeOK, Tiled
<1>3. added \in Nat /\ added - HDR \in Nat /\ added - HDR > 0 /\ added - HDR >= more
  BY <1>2, ExpansionServes
<1>4. /\ q \in Request /\ q.size = r.size /\ q.align = r.align
      /\ (r.align => r.size > 0) /\ more \in Nat
  <2>1. r.align => r.size > 0
    BY <1>1 DEF HeapInv, CallInv
  <2>2. q \in Request /\ q.size = r.size /\ q.align = r.align
    BY <1>2 DEF Request
  <2>3. more \in Nat
    BY <1>2, KheapAssumption DEF Request
  <2>. QED
    BY <2>1, <2>2, <2>3
<1>5. \A k \in 1 .. last : ~Fits(headers[k], r.size, r.align)
  BY <1>1, <1>2, NothingFits
<1>. HIDE DEF added
<1>6. /\ headers' \in Seq(Header) /\ Tiled(headers', heap_end + added)
      /\ Used(headers') = Used(headers) /\ Twins(headers') = {}
      /\ Serves(headers', q)
  <2>1. CASE headers[last].is_hole
    <3>. DEFINE e == [headers[last] EXCEPT !.size = headers[last].size + added]
    <3>1. headers' = ReplaceAt(headers, last, e)
      BY <1>1, <2>1 DEF ReplaceAt, added
    <3>2. headers[last] \in Header /\ headers[last].size + added \in Nat
      BY <1>2, <1>3, ListType
    <3>3. /\ e \in Header /\ e.at = headers[last].at /\ e.is_hole
          /\ e.size = headers[last].size + added
      <4>1. e \in Header /\ e.at = headers[last].at /\ e.is_hole = headers[last].is_hole
            /\ e.size = headers[last].size + added
        <5>1. e = [at |-> headers[last].at, size |-> headers[last].size + added,
                   is_hole |-> headers[last].is_hole] /\ e \in Header
          BY <3>2, HeaderResized
        <5>. QED
          BY <5>1
      <4>. QED
        BY <2>1, <4>1
    <3>. HIDE DEF e
    <3>4. headers' \in Seq(Header) /\ Replaced(headers, last, e, headers')
      BY <1>2, <3>1, <3>3, ReplaceShape
    <3>5. /\ Tiled(headers', heap_end + added) /\ Used(headers') = Used(headers)
          /\ Twins(headers') = {}
      BY <1>2, <1>3, <2>1, <3>3, <3>4, GrowTiles
    <3>6. Len(headers') = last /\ headers'[last] = e
          /\ \A k \in 1 .. last - 1 : headers'[k] = headers[k]
      BY <1>2, <3>4 DEF Replaced
    <3>7. e.size >= more
      BY <1>2, <1>3, <1>4, <3>3, ListType, KheapAssumption, SMTT(60)
    <3>8. Serves(headers', q)
      <4>1. \A k \in 1 .. last - 1 : ~Fits(headers'[k], r.size, r.align)
        BY <1>2, <1>5, <3>6
      <4>. QED
        BY <1>4, <3>3, <3>6, <3>7, <4>1 DEF Serves
    <3>. QED
      BY <3>4, <3>5, <3>8
  <2>2. CASE ~headers[last].is_hole
    <3>. DEFINE e == [at |-> heap_end, size |-> added - HDR, is_hole |-> TRUE]
    <3>1. headers' = Append(headers, e)
      BY <1>1, <2>2 DEF added
    <3>2. e \in Header /\ e.at = heap_end /\ e.size = added - HDR /\ e.is_hole
      BY <1>2, <1>3, HeaderFields
    <3>3. End(e) = heap_end + added
      BY <1>2, <1>3, KheapAssumption DEF End
    <3>. HIDE DEF e
    <3>4. /\ Tiled(headers', heap_end + added) /\ Used(headers') = Used(headers)
          /\ Twins(headers') = {}
      <4>1. /\ Tiled(headers', End(e)) /\ Used(headers') = Used(headers)
            /\ Twins(headers') = Twins(headers)
        BY <1>2, <1>3, <2>2, <3>1, <3>2, AppendTiles, ZenonT(60)
      <4>. QED
        BY <1>2, <3>3, <4>1
    <3>5. /\ Len(headers') = last + 1 /\ headers'[last + 1] = e
          /\ headers' \in Seq(Header)
          /\ \A k \in 1 .. last : headers'[k] = headers[k]
      BY <1>2, <3>1, <3>2, AppendProperties
    <3>6. Serves(headers', q)
      <4>1. \A k \in 1 .. Len(headers') - 1 : ~Fits(headers'[k], r.size, r.align)
        BY <1>2, <1>5, <3>5
      <4>. QED
        BY <1>3, <1>4, <3>2, <3>5, <4>1 DEF Serves
    <3>. QED
      BY <3>4, <3>5, <3>6
  <2>. QED
    BY <2>1, <2>2
<1>7. heap_end' = heap_end + added /\ call' = {q} /\ live' = live
  BY <1>1 DEF added
<1>8. TypeOK'
  BY <1>2, <1>3, <1>4, <1>6, <1>7 DEF TypeOK
<1>9. LiveInv'
  BY <1>2, <1>6, <1>7, LiveKept
<1>10. CallInv'
  BY <1>4, <1>6, <1>7 DEF CallInv
<1>. QED
  BY <1>6, <1>7, <1>8, <1>9, <1>10 DEF HeapInv
-----------------------------------------------------------------------------
(* kfree: the block of the pointer is the only one there, and is given back. *)
LEMMA HeapInvFree ==
  ASSUME HeapInv, NEW x \in live, Free(x)
  PROVE  HeapInv'
<1>1. PICK k \in DOMAIN headers :
        /\ headers[k].at + HDR = x.ptr
        /\ headers' = IF x.ptr >= heap_end THEN headers
                      ELSE Merge([headers EXCEPT ![k].is_hole = TRUE], k)
  BY DEF Free
<1>2. /\ Tiled(headers, heap_end) /\ Twins(headers) = {} /\ LiveInv
      /\ heap_end \in Nat /\ headers \in Seq(Header)
      /\ live \subseteq [ptr : Nat, size : Nat, align : BOOLEAN]
      /\ HDR \in Nat /\ call = {} /\ live' = live \ {x}
      /\ UNCHANGED <<heap_end, call>>
  BY KheapAssumption DEF HeapInv, TypeOK, Free
<1>3. k \in 1 .. Len(headers) /\ \A i \in 1 .. Len(headers) :
        /\ headers[i] \in Header /\ headers[i].at \in Nat
        /\ headers[i].at = headers[k].at => i = k
  BY <1>2, ListType, LenProperties, AtsApart
<1>4. ~(x.ptr >= heap_end)
  BY <1>1, <1>2, <1>3, DataBelowEnd
<1>5. ~headers[k].is_hole
  <2>1. PICK b \in Used(headers) : b.at + HDR = x.ptr
    BY <1>2 DEF LiveInv
  <2>2. PICK i \in 1 .. Len(headers) : headers[i] = b
    BY DEF Used
  <2>3. headers[i].at = headers[k].at
    BY <1>1, <1>2, <1>3, <2>1, <2>2, SMTT(60)
  <2>4. i = k /\ ~b.is_hole
    BY <1>3, <2>3 DEF Used
  <2>. QED
    BY <2>2, <2>4
<1>. DEFINE e == [headers[k] EXCEPT !.is_hole = TRUE]
            s == ReplaceAt(headers, k, e)
<1>6. headers' = Merge(s, k)
  BY <1>1, <1>4 DEF ReplaceAt
<1>7. e \in Header /\ e.at = headers[k].at /\ e.size = headers[k].size /\ e.is_hole
  BY <1>3, RetagHeader
<1>. HIDE DEF e
<1>8. s \in Seq(Header) /\ Replaced(headers, k, e, s)
  BY <1>2, <1>3, <1>7, ReplaceShape
<1>. HIDE DEF s
<1>9. Tiled(s, heap_end)
  BY <1>2, <1>3, <1>7, <1>8, RetagTiles
<1>10. /\ Used(s) = Used(headers) \ {headers[k]}
       /\ \A j \in Twins(s) : j \in Twins(headers) \/ j = k \/ j = k - 1
  BY <1>2, <1>3, <1>5, <1>7, <1>8, GiveBack
<1>11. k \in 1 .. Len(s) /\ s[k].is_hole
  BY <1>2, <1>3, <1>7, <1>8 DEF Replaced
<1>12. /\ Tiled(headers', heap_end) /\ Twins(headers') = {}
       /\ Used(headers') = Used(headers) \ {headers[k]}
  <2>1. \A j \in Twins(s) : j = k \/ j = k - 1
    BY <1>2, <1>10
  <2>. QED
    BY <1>6, <1>9, <1>10, <1>11, <2>1, FreeJoins
<1>13. LiveInv'
  <2>1. ASSUME NEW y \in live \ {x}
        PROVE  \E b \in Used(headers') : /\ b.at + HDR = y.ptr /\ b.size >= y.size
                                         /\ y.align => y.ptr % PAGE_SIZE = 0
    <3>1. PICK b \in Used(headers) : /\ b.at + HDR = y.ptr /\ b.size >= y.size
                                     /\ y.align => y.ptr % PAGE_SIZE = 0
      BY <1>2 DEF LiveInv
    <3>2. b # headers[k]
      BY <1>1, <1>2, <3>1 DEF LiveInv
    <3>. QED
      BY <1>12, <3>1, <3>2
  <2>2. ASSUME NEW b \in Used(headers')
        PROVE  \E y \in live \ {x} : y.ptr = b.at + HDR
    <3>1. b \in Used(headers) /\ b # headers[k]
      BY <1>12
    <3>2. PICK y \in live : y.ptr = b.at + HDR
      BY <1>2, <3>1 DEF LiveInv
    <3>3. PICK i \in 1 .. Len(headers) : headers[i] = b
      BY <3>1 DEF Used
    <3>4. b.at # headers[k].at
      BY <1>3, <3>1, <3>3
    <3>5. b.at \in Nat /\ headers[k].at \in Nat
      BY <1>3, <3>3
    <3>6. y # x
      BY <1>1, <1>2, <3>2, <3>4, <3>5, SMTT(60)
    <3>. QED
      BY <3>2, <3>6
  <2>3. \A y, z \in live \ {x} : y.ptr = z.ptr => y = z
    BY <1>2 DEF LiveInv
  <2>. QED
    BY <1>2, <2>1, <2>2, <2>3 DEF LiveInv
<1>14. TypeOK'
  <2>1. headers' \in Seq(Header)
    BY <1>12 DEF Tiled
  <2>. QED
    BY <1>2, <2>1 DEF TypeOK
<1>. QED
  BY <1>2, <1>12, <1>13, <1>14 DEF HeapInv, CallInv
-----------------------------------------------------------------------------
(* kmalloc_internal's search has found headers[k]: after the split for the
   alignment, if any, the hole at j serves the request. *)
HoleFor(cut, j, r, at) ==
  /\ Tiled(cut, heap_end) /\ Used(cut) = Used(headers)
  /\ j \in 1 .. Len(cut) /\ cut[j].is_hole
  /\ cut[j].at = at /\ cut[j].size >= r.size
  /\ \A t \in Twins(cut) : t = j - 1

LEMMA CutFits ==
  ASSUME HeapInv, NEW r \in call, NEW k \in Found(r.size, r.align)
  PROVE  LET padding == Padding(headers[k], r.align)
             cut     == IF padding > 0 THEN Split(headers, k, padding - HDR) ELSE headers
             j       == IF padding > 0 THEN k + 1 ELSE k
         IN  HoleFor(cut, j, r, headers[k].at + padding)
<1>. DEFINE padding == Padding(headers[k], r.align)
            cut     == IF padding > 0 THEN Split(headers, k, padding - HDR) ELSE headers
            j       == IF padding > 0 THEN k + 1 ELSE k
<1>1. /\ Tiled(headers, heap_end) /\ Twins(headers) = {} /\ headers \in Seq(Header)
      /\ r \in Request /\ r.size \in Nat /\ r.align \in BOOLEAN
  BY DEF HeapInv, TypeOK, Request
<1>2. r.align => r.size > 0
  BY DEF HeapInv, CallInv
<1>3. /\ k \in 1 .. Len(headers) /\ k \in Nat /\ headers[k] \in Header
      /\ headers[k].at \in Nat /\ headers[k].size \in Nat /\ HDR \in Nat \ {0}
  BY <1>1, ListType, LenProperties DEF Found
<1>4. /\ headers[k].is_hole /\ headers[k].size >= padding + r.size
      /\ padding > HDR \/ padding = 0
  BY DEF Found, Fits
<1>5. padding \in Nat /\ (padding > 0 => r.align)
  <2>1. padding \in 0 .. PAGE_SIZE - 1 /\ Padding(headers[k], FALSE) = 0
    BY <1>1, <1>3, PaddingAligns
  <2>2. padding \in Nat
    BY <2>1, KheapAssumption
  <2>3. ASSUME ~r.align PROVE padding = 0
    <3>1. r.align = FALSE
      BY <1>1, <2>3
    <3>. QED
      BY <2>1, <3>1
  <2>. QED
    BY <2>2, <2>3
<1>. HIDE DEF padding
<1>6. CASE padding = 0
  <2>1. cut = headers /\ j = k /\ headers[k].at + padding = headers[k].at
    BY <1>3, <1>6
  <2>2. headers[k].size >= r.size
    BY <1>1, <1>3, <1>4, <1>6
  <2>. QED
    BY <1>1, <1>3, <1>4, <2>1, <2>2 DEF HoleFor, padding
<1>7. CASE padding > HDR
  <2>1. /\ padding > 0 /\ padding - HDR \in Nat /\ r.size > 0
        /\ headers[k].size > (padding - HDR) + HDR
    BY <1>1, <1>2, <1>3, <1>4, <1>5, <1>7
  <2>2. cut = Split(headers, k, padding - HDR) /\ j = k + 1
    BY <2>1
  <2>. HIDE DEF cut, j
  <2>3. cut \in Seq(Header) /\ WasSplit(headers, k, padding - HDR, cut)
    BY <1>1, <1>3, <2>1, <2>2, SplitShape
  <2>4. Tiled(cut, heap_end) /\ Used(cut) = Used(headers)
    BY <1>1, <1>3, <1>4, <2>1, <2>3, SplitTiles, SplitUsed
  <2>5. Len(cut) = Len(headers) + 1 /\ Len(headers) \in Nat
    BY <1>1, <2>3, ListType DEF WasSplit
  <2>6. j \in 1 .. Len(cut)
    BY <1>3, <2>2, <2>5
  <2>7. /\ cut[j].is_hole /\ cut[j].at = headers[k].at + HDR + (padding - HDR)
        /\ cut[j].size = headers[k].size - (padding - HDR) - HDR
    BY <2>2, <2>3 DEF WasSplit
  <2>8. cut[j].at = headers[k].at + padding /\ cut[j].size >= r.size
    BY <1>1, <1>3, <1>4, <1>5, <2>7, SMTT(60)
  <2>9. \A t \in Twins(cut) : t = j - 1
    <3>. SUFFICES ASSUME NEW t \in Twins(cut), t # k PROVE FALSE
      BY <1>3, <2>2
    <3>1. IF t < k THEN t \in Twins(headers) ELSE t - 1 \in Twins(headers)
      BY <1>1, <1>3, <1>4, <2>3, SplitTwins
    <3>. QED
      BY <1>1, <3>1
  <2>10. HoleFor(cut, j, r, headers[k].at + padding)
    BY <2>4, <2>6, <2>7, <2>8, <2>9 DEF HoleFor
  <2>. QED
    BY <2>10 DEF cut, j, padding
<1>. QED
  BY <1>4, <1>6, <1>7

LEMMA HeapInvAllocate == HeapInv /\ Allocate => HeapInv'
<1>. SUFFICES ASSUME HeapInv, Allocate PROVE HeapInv'
  OBVIOUS
<1>1. PICK r \in call : \E k \in Found(r.size, r.align) :
        LET padding == Padding(headers[k], r.align)
            cut     == IF padding > 0 THEN Split(headers, k, padding - HDR) ELSE headers
            j       == IF padding > 0 THEN k + 1 ELSE k
            fitted  == Split(cut, j, r.size)
        IN  /\ headers' = ReplaceAt(fitted, j, [fitted[j] EXCEPT !.is_hole = FALSE])
            /\ live' = live \cup
                 {[ptr |-> fitted[j].at + HDR, size |-> r.size, align |-> r.align]}
  BY DEF Allocate
<1>2. PICK k \in Found(r.size, r.align) :
        LET padding == Padding(headers[k], r.align)
            cut     == IF padding > 0 THEN Split(headers, k, padding - HDR) ELSE headers
            j       == IF padding > 0 THEN k + 1 ELSE k
            fitted  == Split(cut, j, r.size)
        IN  /\ headers' = ReplaceAt(fitted, j, [fitted[j] EXCEPT !.is_hole = FALSE])
            /\ live' = live \cup
                 {[ptr |-> fitted[j].at + HDR, size |-> r.size, align |-> r.align]}
  BY <1>1
<1>. DEFINE padding == Padding(headers[k], r.align)
            cut     == IF padding > 0 THEN Split(headers, k, padding - HDR) ELSE headers
            j       == IF padding > 0 THEN k + 1 ELSE k
            fitted  == Split(cut, j, r.size)
            at      == headers[k].at + padding
            x       == [ptr |-> fitted[j].at + HDR, size |-> r.size, align |-> r.align]
<1>3. /\ headers' = ReplaceAt(fitted, j, [fitted[j] EXCEPT !.is_hole = FALSE])
      /\ live' = live \cup {x} /\ call' = {} /\ heap_end' = heap_end
  BY <1>2 DEF Allocate
<1>4. HoleFor(cut, j, r, at)
  BY CutFits
<1>5. /\ r \in Request /\ r.size \in Nat /\ r.align \in BOOLEAN
      /\ LiveInv /\ heap_end \in Nat /\ HDR \in Nat
      /\ live \subseteq [ptr : Nat, size : Nat, align : BOOLEAN]
      /\ headers \in Seq(Header) /\ k \in 1 .. Len(headers) /\ headers[k] \in Header
      /\ headers[k].at \in Nat
  BY KheapAssumption, ListType, LenProperties DEF HeapInv, TypeOK, Request, Found
<1>6. r.align => (at + HDR) % PAGE_SIZE = 0
  <2>. SUFFICES ASSUME r.align PROVE (at + HDR) % PAGE_SIZE = 0
    OBVIOUS
  <2>1. r.align = TRUE
    BY <1>5
  <2>2. /\ (headers[k].at + HDR + padding) % PAGE_SIZE = 0 /\ padding \in 0 .. PAGE_SIZE - 1
    BY <1>5, <2>1, PaddingAligns
  <2>. HIDE DEF padding
  <2>3. padding \in Int
    BY <2>2, KheapAssumption
  <2>4. headers[k].at + HDR + padding = at + HDR
    BY <1>5, <2>3
  <2>. QED
    BY <2>2, <2>4, Zenon
<1>. HIDE DEF cut, j, at, padding
<1>7. /\ Allocated(cut, heap_end, j, r.size, headers')
      /\ fitted[j].at = cut[j].at
  BY <1>3, <1>4, <1>5, AllocateFits, SMTT(60) DEF HoleFor
<1>8. cut[j].at = at /\ Used(cut) = Used(headers)
  BY <1>4 DEF HoleFor
<1>. HIDE DEF fitted
<1>9. PICK e \in Header :
        /\ ~e.is_hole /\ e.at = at /\ e.size >= r.size
        /\ Used(headers') = Used(headers) \cup {e}
        /\ \A b \in Used(headers) : b.at # e.at
  BY <1>7, <1>8 DEF Allocated
<1>10. x.ptr = e.at + HDR /\ x.size = r.size /\ x.align = r.align
  BY <1>7, <1>8, <1>9
<1>11. e.at \in Nat /\ x \in [ptr : Nat, size : Nat, align : BOOLEAN]
  <2>1. e.at \in Nat /\ e.at + HDR \in Nat
    BY <1>5, <1>9, HeaderType
  <2>. QED
    BY <1>5, <1>7, <1>8, <1>9, <2>1
<1>12. /\ Tiled(headers', heap_end) /\ Twins(headers') = {} /\ headers' \in Seq(Header)
  BY <1>7 DEF Allocated, Tiled
<1>. HIDE DEF x
<1>13. LiveInv'
  <2>1. ASSUME NEW y \in live \cup {x}
        PROVE  \E b \in Used(headers') : /\ b.at + HDR = y.ptr /\ b.size >= y.size
                                         /\ y.align => y.ptr % PAGE_SIZE = 0
    <3>1. CASE y \in live
      <4>1. PICK b \in Used(headers) : /\ b.at + HDR = y.ptr /\ b.size >= y.size
                                       /\ y.align => y.ptr % PAGE_SIZE = 0
        BY <1>5, <3>1 DEF LiveInv
      <4>. QED
        BY <1>9, <4>1
    <3>2. CASE y = x
      <4>1. e \in Used(headers') /\ e.at + HDR = y.ptr /\ e.size >= y.size
        BY <1>9, <1>10, <3>2
      <4>2. y.align => y.ptr % PAGE_SIZE = 0
        BY <1>6, <1>9, <1>10, <3>2
      <4>. QED
        BY <4>1, <4>2
    <3>. QED
      BY <3>1, <3>2
  <2>2. \A b \in Used(headers') : \E y \in live \cup {x} : y.ptr = b.at + HDR
    BY <1>5, <1>9, <1>10 DEF LiveInv
  <2>3. \A y \in live : y.ptr # x.ptr
    <3>. SUFFICES ASSUME NEW y \in live, y.ptr = x.ptr PROVE FALSE
      OBVIOUS
    <3>1. PICK b \in Used(headers) : b.at + HDR = y.ptr
      BY <1>5 DEF LiveInv
    <3>2. b.at \in Nat /\ b.at # e.at
      BY <1>9, <3>1, HeaderType DEF Used
    <3>. QED
      BY <1>5, <1>10, <1>11, <3>1, <3>2
  <2>4. \A y, z \in live \cup {x} : y.ptr = z.ptr => y = z
    BY <1>5, <2>3 DEF LiveInv
  <2>. QED
    BY <1>3, <2>1, <2>2, <2>4 DEF LiveInv
<1>14. TypeOK'
  BY <1>3, <1>5, <1>11, <1>12 DEF TypeOK
<1>. QED
  BY <1>3, <1>12, <1>13, <1>14 DEF HeapInv, CallInv
-----------------------------------------------------------------------------
LEMMA HeapInvNext == HeapInv /\ [Next]_vars => HeapInv'
<1>. SUFFICES ASSUME HeapInv, [Next]_vars PROVE HeapInv'
  OBVIOUS
<1>1. ASSUME NEW size \in Sizes, Call(size, FALSE) PROVE HeapInv'
  BY <1>1, HeapInvCall, KheapAssumption
<1>2. ASSUME NEW size \in AlignedSizes, Call(size, TRUE) PROVE HeapInv'
  <2>1. size \in Nat /\ size > 0
    BY KheapAssumption
  <2>. QED
    BY <1>2, <2>1, HeapInvCall
<1>3. CASE Allocate
  BY <1>3, HeapInvAllocate
<1>4. CASE Expand
  BY <1>4, HeapInvExpand
<1>5. ASSUME NEW x \in live, Free(x) PROVE HeapInv'
  BY <1>5, HeapInvFree
<1>6. CASE UNCHANGED vars
  BY <1>6 DEF vars, HeapInv, TypeOK, LiveInv, CallInv
<1>. QED
  BY <1>1, <1>2, <1>3, <1>4, <1>5, <1>6 DEF Next

LEMMA HeapInvAlways == Spec => []HeapInv
<1>. QED
  BY HeapInvInit, HeapInvNext, PTL DEF Spec

(* Whatever the sizes of a header, of a page and of the requests, the headers
   stay inside the heap and every pointer given out is one. *)
THEOREM HeapTypeCorrect == Spec => []TypeOK
<1>1. HeapInv => TypeOK
  BY DEF HeapInv
<1>. QED
  BY <1>1, HeapInvAlways, PTL

(* split_block, the two merges of kfree and expand_heap agree on every size: the
   list covers the heap with no gap and no overlap. *)
THEOREM HeapAlwaysTiles == Spec => []HeapTiles
<1>1. HeapInv => HeapTiles
  BY DEF HeapInv, Tiled, HeapTiles
<1>. QED
  BY <1>1, HeapInvAlways, PTL

(* kfree's two merges leave no two holes side by side, and neither split_block
   nor expand_heap puts one beside another. *)
THEOREM HolesAlwaysMerge == Spec => []HolesMerge
<1>1. HeapInv => HolesMerge
  BY DEF HeapInv, Twins, HolesMerge
<1>. QED
  BY <1>1, HeapInvAlways, PTL

LEMMA UsedMatchesLive == HeapInv => UsedIsLive
<1>. SUFFICES ASSUME HeapInv PROVE UsedIsLive
  OBVIOUS
<1>. DEFINE T == {k \in DOMAIN headers : ~headers[k].is_hole}
            at(k) == CHOOSE x \in live : x.ptr = headers[k].at + HDR
            f == [k \in T |-> at(k)]
<1>1. /\ Tiled(headers, heap_end) /\ LiveInv /\ headers \in Seq(Header)
      /\ DOMAIN headers = 1 .. Len(headers) /\ Len(headers) \in Nat /\ HDR \in Nat
      /\ live \subseteq [ptr : Nat, size : Nat, align : BOOLEAN]
  BY ListType, LenProperties DEF HeapInv, TypeOK
<1>2. \A k \in DOMAIN headers : headers[k] \in Header /\ headers[k].at \in Nat
  BY <1>1, ListType
<1>3. \A x \in live : \E k \in DOMAIN headers :
        /\ headers[k].at + HDR = x.ptr
        /\ ~headers[k].is_hole
        /\ headers[k].size >= x.size
        /\ x.align => x.ptr % PAGE_SIZE = 0
  <2>. TAKE x \in live
  <2>1. PICK b \in Used(headers) :
          /\ b.at + HDR = x.ptr /\ b.size >= x.size
          /\ x.align => x.ptr % PAGE_SIZE = 0
    BY <1>1 DEF LiveInv
  <2>2. PICK k \in 1 .. Len(headers) : headers[k] = b
    BY DEF Used
  <2>3. ~b.is_hole
    BY DEF Used
  <2>. QED
    BY <1>1, <2>1, <2>2, <2>3
<1>4. \A k \in T : at(k) \in live /\ at(k).ptr = headers[k].at + HDR
  <2>. TAKE k \in T
  <2>1. headers[k] \in Used(headers)
    BY <1>1, <1>2 DEF Used
  <2>2. \E x \in live : x.ptr = headers[k].at + HDR
    BY <1>1, <2>1 DEF LiveInv
  <2>. QED
    BY <2>2
<1>. HIDE DEF at
<1>5. f \in [T -> live] /\ \A k \in T : f[k].ptr = headers[k].at + HDR
  BY <1>4
<1>. HIDE DEF f
<1>6. ASSUME NEW i \in T, NEW j \in T, f[i] = f[j] PROVE i = j
  <2>1. headers[i].at = headers[j].at
    BY <1>1, <1>2, <1>5, <1>6, SMTT(60)
  <2>. QED
    BY <1>1, <2>1, AtsApart
<1>7. ASSUME NEW x \in live PROVE \E k \in T : f[k] = x
  <2>1. PICK k \in T : headers[k].at + HDR = x.ptr
    BY <1>3
  <2>. QED
    BY <1>1, <1>5, <2>1 DEF LiveInv
<1>8. ExistsBijection(T, live)
  <2>1. f \in Injection(T, live)
    BY <1>5, <1>6 DEF Injection, IsInjective
  <2>2. f \in Surjection(T, live)
    BY <1>5, <1>7 DEF Surjection
  <2>3. f \in Bijection(T, live)
    BY <2>1, <2>2 DEF Bijection
  <2>. QED
    BY <2>3 DEF ExistsBijection
<1>9. IsFiniteSet(T)
  <2>1. IsFiniteSet(1 .. Len(headers)) /\ T \in SUBSET (1 .. Len(headers))
    BY <1>1, FS_Interval
  <2>. QED
    BY <2>1, FS_Subset
<1>10. Cardinality(live) = Cardinality(T)
  BY <1>8, <1>9, FS_Bijection
<1>. QED
  BY <1>3, <1>10 DEF UsedIsLive

(* The used blocks are exactly what callers have: none is lost, none is given
   out twice, each is as large and as aligned as was asked for. *)
THEOREM UsedIsAlwaysLive == Spec => []UsedIsLive
BY UsedMatchesLive, HeapInvAlways, PTL

LEMMA ServesEnough == HeapInv => OneExpansionServes
<1>. SUFFICES ASSUME HeapInv, NEW r \in call, r.expanded
              PROVE  Found(r.size, r.align) # {} <=> ~Hopeless(r)
  BY DEF OneExpansionServes
<1>. DEFINE n == Len(headers)
            b == headers[n]
            p == Padding(b, r.align)
<1>1. /\ headers \in Seq(Header) /\ n \in Nat /\ n \in 1 .. n /\ n \in DOMAIN headers
      /\ DOMAIN headers = 1 .. n /\ b \in Header /\ b.size \in Nat /\ HDR \in Nat
      /\ r \in Request /\ r.size \in Nat /\ r.align \in BOOLEAN
      /\ Serves(headers, r)
  BY KheapAssumption, ListType, LenProperties DEF HeapInv, TypeOK, Tiled, Request, CallInv
<1>2. p \in 0 .. PAGE_SIZE - 1 /\ Padding(b, FALSE) = 0
  BY <1>1, PaddingAligns
<1>. HIDE DEF p
<1>3. p \in Nat /\ p <= PAGE_SIZE /\ (~r.align => p = 0)
  <2>1. ASSUME ~r.align PROVE p = 0
    <3>1. r.align = FALSE
      BY <1>1, <2>1
    <3>. QED
      BY <1>2, <3>1 DEF p
  <2>. QED
    BY <1>2, <2>1, KheapAssumption
<1>4. b.is_hole /\ b.size >= p + r.size
  <2>1. b.size >= r.size + (IF r.align THEN PAGE_SIZE ELSE 0) /\ b.is_hole
    BY <1>1 DEF Serves
  <2>2. CASE r.align
    BY <1>1, <1>3, <2>1, <2>2, KheapAssumption
  <2>3. CASE ~r.align
    BY <1>1, <1>3, <2>1, <2>3
  <2>. QED
    BY <2>1, <2>2, <2>3
<1>5. Fits(b, r.size, r.align) <=> (p > HDR \/ p = 0)
  BY <1>4 DEF Fits, p
<1>6. Hopeless(r) <=> ~(p > HDR \/ p = 0)
  <2>1. CASE r.align
    <3>1. r.align = TRUE
      BY <1>1, <2>1
    <3>2. Hopeless(r) <=> p \in 1 .. HDR
      BY <3>1 DEF Hopeless, Last, p
    <3>. QED
      BY <1>1, <1>3, <3>2
  <2>2. CASE ~r.align
    BY <1>3, <2>2 DEF Hopeless
  <2>. QED
    BY <2>1, <2>2
<1>7. Found(r.size, r.align) # {} <=> Fits(b, r.size, r.align)
  <2>1. \A k \in 1 .. n - 1 : ~Fits(headers[k], r.size, r.align)
    BY <1>1 DEF Serves
  <2>2. ASSUME NEW k \in Found(r.size, r.align) PROVE Fits(b, r.size, r.align)
    <3>1. k \in 1 .. n /\ Fits(headers[k], r.size, r.align)
      BY <1>1 DEF Found
    <3>2. k \in 1 .. n - 1 \/ k = n
      <4>. HIDE DEF n
      <4>1. n \in Nat /\ k \in 1 .. n
        BY <1>1, <3>1
      <4>. QED
        BY <4>1
    <3>. QED
      BY <2>1, <3>1, <3>2
  <2>3. Fits(b, r.size, r.align) => n \in Found(r.size, r.align)
    BY <1>1, <2>1 DEF Found
  <2>. QED
    BY <2>2, <2>3
<1>. QED
  BY <1>5, <1>6, <1>7

(* After one expand_heap the search of kmalloc succeeds, and that of kmalloc_a
   fails for a last hole too close to a page boundary and for nothing else. *)
THEOREM OneExpansionAlwaysServes == Spec => []OneExpansionServes
BY ServesEnough, HeapInvAlways, PTL
=============================================================================
